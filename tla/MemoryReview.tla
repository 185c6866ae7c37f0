---------------------------- MODULE MemoryReview ----------------------------
(***************************************************************************)
(* The review of a session's messages for facts worth keeping              *)
(* (AmadeusAgent.review_memory, agent.py): after a turn, or by POST         *)
(* /memory/review/run, with a row of memory_review_jobs for each.  Two      *)
(* reviews of a session may run side by side.  One session; its messages   *)
(* are numbered, and a reset deletes them with the jobs.  What saving and  *)
(* accepting a candidate does is LongTermMemory's.                         *)
(***************************************************************************)
EXTENDS Naturals, Sequences, FiniteSets

CONSTANTS
  Reviewers,    \* the threads of turns and requests
  Threshold,    \* memory_review_trigger_message_count
  SourceMax,    \* memory_review_source_max_messages
  MaxProposed,  \* memory_review_max_candidates
  MaxMessages,  \* bound: messages of the session
  MaxJobs,      \* bound: reviews begun
  None

\* parse_positive_int_env: the limits are positive.
ReviewAssumption ==
  /\ Threshold \in Nat \ {0} /\ SourceMax \in Nat \ {0} /\ MaxProposed \in Nat \ {0}
  /\ MaxMessages \in Nat /\ MaxJobs \in Nat

VARIABLES
  latest,    \* the messages ever saved
  gone,      \* the messages up to here were deleted by a reset
  job,       \* the jobs, in the order of their ids
  at,        \* what each reviewer is about to do, and what it read
  cooling,   \* _memory_review_cooldown_until lies ahead
  reviewed,  \* _memory_review_last_message_id
  left,      \* history: jobs whose review raised, or died with the process
  alone      \* history: automatic reviews that no other met, and no restart followed

vars == <<latest, gone, job, at, cooling, reviewed, left, alone>>

Idle == [step |-> "idle"]

Init ==
  /\ latest = 0 /\ gone = 0 /\ job = <<>>
  /\ at = [r \in Reviewers |-> Idle]
  /\ cooling = FALSE /\ reviewed = 0
  /\ left = {} /\ alone = {}

TypeOK ==
  /\ latest \in 0 .. MaxMessages /\ gone \in 0 .. latest
  /\ Len(job) <= MaxJobs
  /\ \A j \in DOMAIN job :
       job[j].status \in {"running", "completed", "skipped", "failed", "deleted"}
  /\ \A r \in Reviewers : at[r].step \in {"idle", "gate", "count", "latest", "load", "ask",
                                           "save", "settle", "finish"}
  /\ cooling \in BOOLEAN /\ reviewed \in 0 .. MaxMessages
  /\ left \subseteq DOMAIN job /\ alone \subseteq DOMAIN job

----------------------------------------------------------------------------
(* The safety filters: a proposal is what the patterns find in its text,   *)
(* the scope it names, and the scopes whose wording the text has.          *)

Refusals == {"empty", "secret", "temporary_debug", "uncertain_claim", "local_path"}
Scopes == {"user", "agent", "project"}

\* A text worded for other scopes only does not fit the one it names.
ScopeFits(p) == p.scope \in Scopes /\ (p.worded = {} \/ p.scope \in p.worded)

Proposals ==
  [found : {{}} \union {{f} : f \in Refusals}, scope : Scopes \union {"other"}, worded : SUBSET Scopes]

Allowed(p) == p.found \cap Refusals = {} /\ ScopeFits(p)

----------------------------------------------------------------------------
(* The review.                                                             *)

Work == <<latest, gone>>
Memory == <<cooling, reviewed>>

Goes(r, step) == at' = [at EXCEPT ![r].step = step]

\* The job is over: its row is still to be written.
Over(r, status, reason) ==
  at' = [at EXCEPT ![r].step = "finish", ![r].status = status, ![r].reason = reason]

Working == {r \in Reviewers : at[r].step # "idle"}

Start(r, trigger) ==
  /\ at[r].step = "idle" /\ Len(job) < MaxJobs
  /\ job' = Append(job, [trigger |-> trigger, status |-> "running", reason |-> None,
                         asof |-> 0, start |-> 0, end |-> 0, saved |-> 0, suppressed |-> 0])
  /\ at' = [at EXCEPT ![r] = [step |-> "gate", job |-> Len(job) + 1, status |-> None,
              reason |-> None, asof |-> 0, start |-> 0, end |-> 0, todo |-> 0,
              saved |-> 0, suppressed |-> 0]]
  /\ alone' = IF trigger = "manual" THEN alone
              ELSE IF \A s \in Working : job[at[s].job].trigger = "manual"
                   THEN alone \union {Len(job) + 1}
                   ELSE alone \ {at[s].job : s \in Working}
  /\ UNCHANGED <<Work, Memory, left>>

Auto(r) == job[at[r].job].trigger = "auto"

\* Without a key nothing is asked; an automatic review waits for the cooldown.
Gate(r) ==
  /\ at[r].step = "gate"
  /\ \/ Over(r, "skipped", "missing_api_key")
     \/ IF Auto(r) /\ cooling THEN Over(r, "skipped", "cooldown") ELSE Goes(r, "count")
  /\ UNCHANGED <<Work, job, Memory, left, alone>>

Count(r) ==
  /\ at[r].step = "count"
  /\ IF Auto(r) /\ latest - gone < Threshold THEN Over(r, "skipped", "below_threshold")
     ELSE Goes(r, "latest")
  /\ UNCHANGED <<Work, job, Memory, left, alone>>

\* latest_message_id is 0 when no message is left.
LatestId == IF latest = gone THEN 0 ELSE latest

Latest(r) ==
  /\ at[r].step = "latest"
  /\ IF Auto(r) /\ LatestId <= reviewed THEN Over(r, "skipped", "no_new_messages")
     ELSE at' = [at EXCEPT ![r].step = "load", ![r].asof = LatestId]
  /\ UNCHANGED <<Work, job, Memory, left, alone>>

\* load_detailed orders by id: the limit keeps the oldest messages.
LastLoaded == IF gone + SourceMax < latest THEN gone + SourceMax ELSE latest

Load(r) ==
  /\ at[r].step = "load"
  /\ IF latest = gone THEN Over(r, "skipped", "no_messages")
     ELSE at' = [at EXCEPT ![r].step = "ask", ![r].start = gone + 1, ![r].end = LastLoaded]
  /\ UNCHANGED <<Work, job, Memory, left, alone>>

\* The review ends with an exception: its job keeps the status it has.
Raise(r) ==
  /\ at' = [at EXCEPT ![r] = Idle] /\ left' = left \union {at[r].job}

\* The provider proposes candidates, of which MaxProposed are looked at; or the
\* request fails with a RuntimeError, or with one that nobody catches.
Ask(r) ==
  /\ at[r].step = "ask"
  /\ \/ /\ \E n \in 0 .. MaxProposed :
             at' = [at EXCEPT ![r].step = "save", ![r].todo = n]
        /\ UNCHANGED <<cooling, left>>
     \/ /\ Over(r, "failed", None)
        /\ cooling' = (cooling \/ Auto(r)) /\ UNCHANGED left
     \/ Raise(r) /\ UNCHANGED cooling
  /\ UNCHANGED <<Work, job, reviewed, alone>>

\* What becomes of a candidate: refused by the filters, or saved and accepted,
\* unless the store suppresses it or finds it invalid.
Outcomes == UNION {IF Allowed(p) THEN {"saved", "suppressed", "invalid"} ELSE {"suppressed"} :
                     p \in Proposals}

Save(r) ==
  /\ at[r].step = "save" /\ at[r].todo > 0
  /\ \E outcome \in Outcomes :
       at' = [at EXCEPT ![r].todo = @ - 1,
                        ![r].saved = @ + (IF outcome = "saved" THEN 1 ELSE 0),
                        ![r].suppressed = @ + (IF outcome = "suppressed" THEN 1 ELSE 0)]
  /\ UNCHANGED <<Work, job, Memory, left, alone>>

\* A mutant of Settle: the last message of an automatic review is not kept.
SettleForgets(r) ==
  /\ at[r].step = "save" /\ at[r].todo = 0
  /\ Over(r, "completed", None)
  /\ cooling' = (cooling \/ Auto(r))
  /\ UNCHANGED <<Work, job, reviewed, left, alone>>

\* An automatic review remembers how far the session went when it began.
Settle(r) ==
  /\ at[r].step = "save" /\ at[r].todo = 0
  /\ Over(r, "completed", None)
  /\ cooling' = (cooling \/ Auto(r))
  /\ reviewed' = IF Auto(r) THEN at[r].asof ELSE reviewed
  /\ UNCHANGED <<Work, job, left, alone>>

\* finish_memory_review_job: it raises when the row was deleted, and when the
\* error is longer than a reason may be.
Finish(r) ==
  LET j == at[r].job IN
  /\ at[r].step = "finish"
  /\ \/ /\ job[j].status = "deleted" \/ at[r].status = "failed"
        /\ Raise(r) /\ UNCHANGED job
     \/ /\ job[j].status # "deleted"
        /\ job' = [job EXCEPT ![j] = [@ EXCEPT !.status = at[r].status, !.reason = at[r].reason,
             !.asof = at[r].asof, !.start = at[r].start, !.end = at[r].end,
             !.saved = at[r].saved, !.suppressed = at[r].suppressed]]
        /\ at' = [at EXCEPT ![r] = Idle] /\ UNCHANGED left
  /\ UNCHANGED <<Work, Memory, alone>>

----------------------------------------------------------------------------
(* What goes on around it.                                                 *)

Message ==
  /\ latest < MaxMessages /\ latest' = latest + 1
  /\ UNCHANGED <<gone, job, at, Memory, left, alone>>

Reset ==
  /\ gone < latest \/ \E j \in DOMAIN job : job[j].status # "deleted"
  /\ gone' = latest
  /\ job' = [j \in DOMAIN job |-> [job[j] EXCEPT !.status = "deleted"]]
  /\ UNCHANGED <<latest, at, Memory, left, alone>>

CooldownEnds == cooling /\ cooling' = FALSE /\ UNCHANGED <<Work, job, at, reviewed, left, alone>>

\* The process ends and another begins: the memory of reviews was its own.
Restart ==
  /\ Working # {} \/ cooling \/ reviewed # 0
  /\ left' = left \union {at[r].job : r \in Working}
  /\ at' = [r \in Reviewers |-> Idle]
  /\ cooling' = FALSE /\ reviewed' = 0 /\ alone' = {}
  /\ UNCHANGED <<Work, job>>

Next ==
  \/ Message \/ Reset \/ CooldownEnds \/ Restart
  \/ \E r \in Reviewers :
       \/ \E trigger \in {"manual", "auto"} : Start(r, trigger)
       \/ Gate(r) \/ Count(r) \/ Latest(r) \/ Load(r) \/ Ask(r) \/ Save(r) \/ Settle(r)
       \/ Finish(r)

Spec == Init /\ [][Next]_vars

----------------------------------------------------------------------------
(* Properties.                                                             *)

\* A job that is said to run has a review at work on it, unless that review
\* raised or its process ended: every early return of review_memory ends the
\* job it has begun (docs/project-status.md:454).
RunningIsAtWork == \A j \in DOMAIN job :
  job[j].status = "running" => j \in left \/ \E r \in Working : at[r].job = j

\* What the row tells is one review's: a skipped one has read nothing, a
\* completed one has read messages it was told of, and an automatic one only
\* when there were enough of them.
RowsAreWhole == \A j \in DOMAIN job :
  /\ job[j].status = "skipped" => job[j].end = 0 /\ job[j].saved = 0
  /\ job[j].status \in {"completed", "failed"} => 0 < job[j].start /\ job[j].start <= job[j].end

\* Between a restart and the next, of the automatic reviews of a session that
\* did not run side by side none is made twice as of the same message.
NothingReviewedTwice == \A i, j \in alone :
  i < j /\ job[i].status = "completed" /\ job[j].status = "completed" => job[i].asof < job[j].asof

ReviewsTold == RunningIsAtWork /\ RowsAreWhole /\ NothingReviewedTwice

\* A review is of recent messages (docs/project-status.md:450): a completed one
\* has read the message that was the latest when it began to read.  It has not
\* when the session is longer than SourceMax.
ReviewRecent == \A j \in DOMAIN job : job[j].status = "completed" => job[j].asof <= job[j].end

=============================================================================
