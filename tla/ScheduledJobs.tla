--------------------------- MODULE ScheduledJobs ---------------------------
(***************************************************************************)
(* Scheduled jobs: the rows of scheduled_jobs, the scheduler thread of     *)
(* packages/amadeus/scheduling.py that fires the due ones, and the callers *)
(* (HTTP handlers and the tool schedule_message) that create, pause,       *)
(* resume and cancel them beside it.                                       *)
(*                                                                         *)
(* The store reads a row and updates it later, in two statements with      *)
(* nothing held between them, so both are steps here.                      *)
(***************************************************************************)
EXTENDS Naturals, FiniteSets

CONSTANTS
  Jobs,      \* job ids
  Callers,   \* threads that serve a caller
  MaxRuns,   \* bound: deliveries of a job are counted up to here
  None

ASSUME JobsAssumption == MaxRuns \in Nat \ {0}

VARIABLES
  row,    \* the table: status, once, repeat_count (0 for NULL), completed_runs
          \* and next_run_at as seen from now: "null", "later" or "past"
  call,   \* what each caller is between the read and the write of
  at,     \* the scheduler thread: "idle", "next", or the store call it is at
  todo,   \* due jobs left of this tick
  job,    \* the job being fired
  seen,   \* the row as complete_scheduled_job_run read it
  fired   \* history: deliveries of each job

vars == <<row, call, at, todo, job, seen, fired>>

Statuses == {"scheduled", "running", "paused", "completed", "cancelled", "failed"}
Rows == [status : Statuses, once : BOOLEAN, repeat : 0 .. MaxRuns,
         runs : 0 .. MaxRuns, next : {"null", "later", "past"}]
NoRow == [status |-> "none"]

Capped(n) == IF n > MaxRuns THEN MaxRuns ELSE n

TypeOK ==
  /\ row \in [Jobs -> Rows \union {NoRow}]
  /\ call \in [Callers -> {None} \union
                 [op : {"pause", "resume", "cancel"}, job : Jobs]]
  /\ at \in {"idle", "next", "claim", "deliver", "settle", "write", "fail"}
  /\ todo \in SUBSET Jobs
  /\ job \in Jobs \union {None}
  /\ seen \in Rows \union {NoRow}
  /\ fired \in [Jobs -> 0 .. MaxRuns]

Init ==
  /\ row = [j \in Jobs |-> NoRow]
  /\ call = [c \in Callers |-> None]
  /\ at = "idle" /\ todo = {} /\ job = None /\ seen = NoRow
  /\ fired = [j \in Jobs |-> 0]

tickVars == <<at, todo, job, seen, fired>>

----------------------------------------------------------------------------
(* Callers.                                                                *)

\* create_scheduled_job: a schedule always parses to a time in the future,
\* and a one-shot schedule to one run.
Create(j) ==
  /\ row[j] = NoRow
  /\ \E once \in BOOLEAN, n \in 0 .. MaxRuns :
       row' = [row EXCEPT ![j] =
                 [status |-> "scheduled", once |-> once,
                  repeat |-> IF once THEN 1 ELSE n, runs |-> 0, next |-> "later"]]
  /\ UNCHANGED <<call, tickVars>>

\* The SELECT of _set_scheduled_job_status and of resume_scheduled_job, which
\* return the job as it is when its status does not allow the change.
CallReads(c, op, j) ==
  /\ call[c] = None
  /\ row[j] # NoRow
  /\ IF op = "resume" THEN row[j].status \in {"paused", "failed"}
                      ELSE row[j].status \notin {"completed", "cancelled"}
  /\ call' = [call EXCEPT ![c] = [op |-> op, job |-> j]]
  /\ UNCHANGED <<row, tickVars>>

Answer(c) == call' = [call EXCEPT ![c] = None] /\ UNCHANGED tickVars

CallPauses(c) ==
  /\ call[c] # None /\ call[c].op = "pause"
  /\ row' = [row EXCEPT ![call[c].job].status = "paused"]
  /\ Answer(c)

CallCancels(c) ==
  /\ call[c] # None /\ call[c].op = "cancel"
  /\ row' = [row EXCEPT ![call[c].job].status = "cancelled",
                        ![call[c].job].next = "null"]
  /\ Answer(c)

\* Mutant of CallResumes: the time the paused job had is kept.
CallResumesAsIs(c) ==
  /\ call[c] # None /\ call[c].op = "resume"
  /\ row' = [row EXCEPT ![call[c].job].status =
               IF @ \in {"paused", "failed"} THEN "scheduled" ELSE @]
  /\ Answer(c)

\* The one write of these three that tests the status again; the next run is
\* one interval away, or now for a schedule without a next time.
CallResumes(c) ==
  /\ call[c] # None /\ call[c].op = "resume"
  /\ LET j == call[c].job IN
       IF row[j].status \in {"paused", "failed"}
         THEN row' = [row EXCEPT ![j].status = "scheduled",
                                 ![j].next = IF row[j].once THEN "past" ELSE "later"]
         ELSE UNCHANGED row
  /\ Answer(c)

Call(c) ==
  \/ \E j \in Jobs, op \in {"pause", "resume", "cancel"} : CallReads(c, op, j)
  \/ CallPauses(c) \/ CallCancels(c) \/ CallResumes(c)

----------------------------------------------------------------------------
(* The scheduler thread.                                                   *)

Due(j) == row[j] # NoRow /\ row[j].status = "scheduled" /\ row[j].next = "past"

\* tick: list_due_scheduled_jobs.
TickLists ==
  /\ at = "idle"
  /\ \E j \in Jobs : Due(j)
  /\ todo' = {j \in Jobs : Due(j)}
  /\ at' = "next"
  /\ UNCHANGED <<row, call, job, seen, fired>>

TickEnds ==
  /\ at = "next" /\ todo = {}
  /\ at' = "idle"
  /\ UNCHANGED <<row, call, todo, job, seen, fired>>

\* The SELECT of claim_scheduled_job.  It returns the job also when there is
\* nothing to claim any more, and the tick fires it all the same.
ClaimReads(j) ==
  /\ at = "next" /\ j \in todo
  /\ todo' = todo \ {j}
  /\ job' = j
  /\ at' = IF Due(j) THEN "claim" ELSE "deliver"
  /\ UNCHANGED <<row, call, seen, fired>>

\* Mutant of ClaimWrites: the UPDATE matches no row.
ClaimWritesNothing ==
  /\ at = "claim" /\ at' = "deliver"
  /\ UNCHANGED <<row, call, todo, job, seen, fired>>

ClaimWrites ==
  /\ at = "claim"
  /\ row' = [row EXCEPT ![job].status = IF @ = "scheduled" THEN "running" ELSE @]
  /\ at' = "deliver"
  /\ UNCHANGED <<call, todo, job, seen, fired>>

\* save of the assistant message, or create_task: then the store is told.  A
\* submit that raises leaves a task that was created.
Deliver ==
  /\ at = "deliver"
  /\ fired' = [fired EXCEPT ![job] = Capped(@ + 1)]
  /\ at' \in {"settle", "fail"}
  /\ UNCHANGED <<row, call, todo, job, seen>>

\* Mutant of DeliverFails: a delivery that failed is settled as a run.
DeliverFailsQuietly ==
  /\ at = "deliver"
  /\ at' = "settle"
  /\ UNCHANGED <<row, call, todo, job, seen, fired>>

DeliverFails ==
  /\ at = "deliver"
  /\ at' = "fail"
  /\ UNCHANGED <<row, call, todo, job, seen, fired>>

\* The SELECT of complete_scheduled_job_run.
SettleReads ==
  /\ at = "settle"
  /\ seen' = row[job]
  /\ at' = IF row[job].status = "running" THEN "write" ELSE "next"
  /\ UNCHANGED <<row, call, todo, job, fired>>

Over(r, n) == r.once \/ (r.repeat # 0 /\ n >= r.repeat)

\* Its UPDATE, with the number of runs it read before.
SettleWrites ==
  /\ at = "write"
  /\ LET n == seen.runs + 1 IN
       row' = [row EXCEPT ![job] =
         IF @.status # "running" THEN @
         ELSE [@ EXCEPT !.status = IF Over(seen, n) THEN "completed" ELSE "scheduled",
                        !.runs = Capped(n),
                        !.next = IF Over(seen, n) THEN "null" ELSE "later"]]
  /\ at' = "next"
  /\ UNCHANGED <<call, todo, job, seen, fired>>

\* Mutant of Fail: the status of task rows.
FailBlocked ==
  /\ at = "fail"
  /\ row' = [row EXCEPT ![job].status = "blocked", ![job].next = "null"]
  /\ at' = "next"
  /\ UNCHANGED <<call, todo, job, seen, fired>>

\* fail_scheduled_job_run, after a delivery or a completion that raised: one
\* UPDATE that does not look at the status.
Fail ==
  /\ at = "fail"
  /\ row' = [row EXCEPT ![job].status = "failed", ![job].next = "null"]
  /\ at' = "next"
  /\ UNCHANGED <<call, todo, job, seen, fired>>

SettleFails ==
  /\ at \in {"settle", "write"}
  /\ at' = "fail"
  /\ UNCHANGED <<row, call, todo, job, seen, fired>>

\* A store call outside the try raises and _loop goes on with the next tick,
\* or the process ends and is started again: what was claimed stays "running".
TickAborts ==
  /\ at \in {"next", "claim", "fail"}
  /\ at' = "idle" /\ todo' = {}
  /\ UNCHANGED <<row, call, job, seen, fired>>

Restart ==
  /\ call' = [c \in Callers |-> None]
  /\ at' = "idle" /\ todo' = {} /\ job' = None /\ seen' = NoRow
  /\ UNCHANGED <<row, fired>>

Clock(j) ==
  /\ row[j] # NoRow /\ row[j].next = "later"
  /\ row' = [row EXCEPT ![j].next = "past"]
  /\ UNCHANGED <<call, tickVars>>

----------------------------------------------------------------------------
Tick ==
  \/ TickLists \/ TickEnds \/ \E j \in Jobs : ClaimReads(j)
  \/ ClaimWrites \/ Deliver \/ SettleReads \/ SettleWrites \/ Fail

Next ==
  \/ \E j \in Jobs : Create(j) \/ Clock(j)
  \/ \E c \in Callers : Call(c)
  \/ Tick \/ DeliverFails \/ SettleFails \/ TickAborts \/ Restart

\* The scheduler thread ticks every second and time passes; a claim of a job
\* that is tried over and over does not fail for ever.
Fairness ==
  /\ WF_vars(Tick)
  /\ \A j \in Jobs :
       WF_vars(Clock(j)) /\ SF_vars(ClaimReads(j)) /\ SF_vars(job = j /\ ClaimWrites)

Spec == Init /\ [][Next]_vars /\ Fairness

----------------------------------------------------------------------------
(* Properties.                                                             *)

\* However the calls and the scheduler interleave, a job that waits for its
\* time has one (next_run_at is not NULL, or it would wait for ever), and one
\* that completed, failed or was cancelled has none.
NextRunKnown ==
  \A j \in Jobs : row[j] # NoRow =>
    /\ row[j].status = "scheduled" => row[j].next # "null"
    /\ row[j].status \in {"completed", "cancelled", "failed"} => row[j].next = "null"

\* completed_runs never runs ahead of what was delivered, in spite of the
\* number being written long after it was read; deliveries that failed later,
\* or were made for a job that was paused meanwhile, may be missing from it.
RunsWereDelivered == \A j \in Jobs : row[j] # NoRow => row[j].runs <= fired[j]

\* A waiting job is fired some time, unless a caller takes it out of waiting.
DueJobFires == \A j \in Jobs :
  (row[j] # NoRow /\ row[j].status = "scheduled")
    ~> (row[j].status # "scheduled")
=============================================================================
