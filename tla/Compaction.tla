----------------------------- MODULE Compaction -----------------------------
(***************************************************************************)
(* The summaries of a conversation (packages/amadeus/agent.py, memory.py): *)
(* old messages are folded into a summary by a request to the model, at     *)
(* the start and the end of a turn, when the provider says the context is   *)
(* too long, and by POST /memory/compact, which no lock keeps apart from    *)
(* the turn.  One session; message k of it is msg[k], its kind.  What the   *)
(* token estimates decide is left open.                                     *)
(***************************************************************************)
EXTENDS Naturals, Sequences, FiniteSetsExt

CONSTANTS
  KeepTurns,    \* summary_keep_recent_turns
  MinKeep,      \* summary_min_keep_recent_turns, at most 3
  SourceMax,    \* summary_source_max_messages
  MaxMessages,  \* bound: messages of the session
  None

CompactionAssumption ==
  /\ KeepTurns \in Nat \ {0} /\ MinKeep \in Nat /\ SourceMax \in Nat \ {0}
  /\ MaxMessages \in Nat /\ None \notin Nat

Compactors == {"turn", "http"}

VARIABLES
  msg,      \* the messages ever saved
  gone,     \* the messages up to here were deleted by a reset
  turn,     \* between turns, or in one and whether its calls wait for a result
  summary,  \* the last summary: covered_through_message_id, and the messages folded in
  at,       \* what each compaction is about to do, and what it read
  cut,      \* history: messages SourceMax left out of a summary that covers them
  raced,    \* history: a reset met a turn or a compaction, or a message was saved
            \* after a compaction found that there is none to keep
  quiet     \* history: a compaction has begun, or been saved, and nothing else
            \* came since then

vars == <<msg, gone, turn, summary, at, cut, raced, quiet>>

NoSummary == [covered |-> 0, content |-> {}]
Idle == [step |-> "idle"]

Init ==
  /\ msg = <<>> /\ gone = 0 /\ turn = "idle"
  /\ summary = NoSummary
  /\ at = [c \in Compactors |-> Idle]
  /\ cut = {} /\ raced = FALSE /\ quiet = "no"

TypeOK ==
  /\ Len(msg) \in 0 .. MaxMessages /\ gone \in 0 .. Len(msg)
  /\ turn \in {"idle", "open", "calling"}
  /\ summary.covered \in 0 .. Len(msg) /\ summary.content \subseteq 1 .. summary.covered
  /\ \A c \in Compactors : at[c].step \in {"idle", "look", "load", "ask"}
  /\ raced \in BOOLEAN /\ quiet \in {"no", "begun", "saved"}

----------------------------------------------------------------------------
(* Windows of messages.                                                    *)

\* load_detailed, load_recent_turns: the messages after those covered.
First(covered) == Max({covered, gone}) + 1

\* _recent_turn_message_count, of the messages from lo on.
RecentCount(lo, turns) ==
  LET users == {k \in lo .. Len(msg) : msg[k] = "user"}
      start == CHOOSE k \in users : Cardinality({j \in users : j >= k}) = turns
  IN IF turns = 0 THEN 0
     ELSE IF turns > Cardinality(users) THEN Len(msg) - lo + 1 ELSE Len(msg) - start + 1

\* load_recent_turns.
Recent(lo, turns) == Len(msg) - RecentCount(lo, turns) + 1 .. Len(msg)

\* _budget_keep_recent_message_count: as many turns as the budget has room for.
BudgetKeeps(lo) ==
  LET users == {k \in lo .. Len(msg) : msg[k] = "user"}
      most == IF users = {} THEN 1 ELSE Min({KeepTurns, Cardinality(users)})
      least == Min({MinKeep, 3, most})
  IN IF lo > Len(msg) THEN {0} ELSE {RecentCount(lo, t) : t \in least .. most}

\* Mutant of Window: without _align_compaction_window_for_tool_pairs.
WindowAsCut(lo, keep) ==
  LET last == Len(msg) - keep IN
    IF last < lo THEN {} ELSE Max({lo, last - SourceMax + 1}) .. last

\* The messages to fold in, from lo on: all but the last `keep', at most the last
\* SourceMax of those, and no pair of a call and its result divided.
Window(lo, keep) ==
  LET last == Len(msg) - keep
      from == Max({lo, last - SourceMax + 1})
      begins == {k \in from .. last : msg[k] # "tool"}
      ends == {k \in Min(begins) .. last :
                 k < Len(msg) => msg[k + 1] # "tool" /\ msg[k] # "calls"}
  IN IF last < lo \/ begins = {} \/ ends = {} THEN {} ELSE Min(begins) .. Max(ends)

----------------------------------------------------------------------------
(* A turn; it compacts before it saves the user's message, when a request   *)
(* to the model overflows, and at its end.                                  *)

Append1(kind, next) ==
  /\ Len(msg) < MaxMessages /\ at["turn"] = Idle
  /\ msg' = Append(msg, kind) /\ turn' = next /\ quiet' = "no"
  /\ raced' = (raced \/ (at["http"].step \in {"look", "load"} /\ at["http"].keep = 0))
  /\ UNCHANGED <<gone, summary, at, cut>>

SaveUser == turn = "idle" /\ Append1("user", "open")
SaveCalls == turn = "open" /\ Append1("calls", "calling")
SaveResult == turn = "calling" /\ \E next \in {"calling", "open"} : Append1("tool", next)
SaveAnswer == turn = "open" /\ Append1("answer", "idle")

\* The turn is cancelled, fails, or its client is gone.
Stop ==
  /\ turn # "idle" /\ at["turn"] = Idle
  /\ turn' = "idle"
  /\ UNCHANGED <<msg, gone, summary, at, cut, raced, quiet>>

----------------------------------------------------------------------------
(* _maybe_compact_conversation.                                            *)

Goes(c, state) == at' = [at EXCEPT ![c] = state]

Begins(c, keep) ==
  /\ at[c] = Idle /\ Goes(c, [step |-> "look", keep |-> keep])
  /\ quiet' = IF \A d \in Compactors : at[d] = Idle THEN "begun" ELSE "no"
  /\ UNCHANGED <<msg, gone, turn, summary, cut, raced>>

\* At the start and the end of a turn, and on request.  At the start the number
\* of messages to keep has been found already, by reads of its own.
Begin(c) ==
  \/ Begins(c, None) /\ (c = "turn" => turn = "idle")
  \/ /\ c = "turn" /\ turn = "idle"
     /\ \E keep \in BudgetKeeps(First(summary.covered)) : Begins(c, keep)

\* _handle_context_overflow, between two requests of a turn.
Overflow ==
  /\ turn = "open"
  /\ \E keep \in BudgetKeeps(First(summary.covered)) : Begins("turn", keep)

LoadSummary(c) ==
  /\ at[c].step = "look"
  /\ Goes(c, [step |-> "load", keep |-> at[c].keep, previous |-> summary])
  /\ UNCHANGED <<msg, gone, turn, summary, cut, raced, quiet>>

\* At the end, and on request, it is found now if there is no budget for all.
CountKept(c) ==
  /\ at[c].step = "load" /\ at[c].keep = None
  /\ \E keep \in BudgetKeeps(First(summary.covered)) : Goes(c, [at[c] EXCEPT !.keep = keep])
  /\ UNCHANGED <<msg, gone, turn, summary, cut, raced, quiet>>

LoadMessages(c) ==
  /\ at[c].step = "load"
  /\ LET lo == First(at[c].previous.covered)
         keep == IF at[c].keep = None THEN RecentCount(lo, KeepTurns) ELSE at[c].keep
         window == Window(lo, keep)
     IN Goes(c, IF window = {} THEN Idle
                ELSE [step |-> "ask", previous |-> at[c].previous, window |-> window, from |-> lo])
  /\ UNCHANGED <<msg, gone, turn, summary, cut, raced, quiet>>

\* The request to the model fails.
Fail(c) ==
  /\ at[c].step = "ask" /\ Goes(c, Idle)
  /\ UNCHANGED <<msg, gone, turn, summary, cut, raced, quiet>>

\* Mutant of Covered: what was looked at is covered, whatever of it was folded in.
CoveredLooked(window) == Len(msg)

\* covered_through_message_id.
Covered(window) == Max(window)

Save(c) ==
  /\ at[c].step = "ask"
  /\ summary' = [covered |-> Covered(at[c].window),
                 content |-> at[c].previous.content \union at[c].window]
  /\ cut' = cut \union {k \in at[c].from .. Min(at[c].window) - 1 :
                          Min(at[c].window) > at[c].from}
  /\ quiet' = IF quiet = "begun" THEN "saved" ELSE "no"
  /\ Goes(c, Idle)
  /\ UNCHANGED <<msg, gone, turn, raced>>

----------------------------------------------------------------------------
\* handle_memory_summary_save: a summary of the user's own covers no message.
SaveByHand ==
  /\ summary' = NoSummary /\ quiet' = "no"
  /\ UNCHANGED <<msg, gone, turn, at, cut, raced>>

\* reset: messages and summaries.
Reset ==
  /\ gone' = Len(msg) /\ summary' = NoSummary /\ quiet' = "no"
  /\ raced' = (raced \/ turn # "idle" \/ \E c \in Compactors : at[c] # Idle)
  /\ UNCHANGED <<msg, turn, at, cut>>

Next ==
  \/ SaveUser \/ SaveCalls \/ SaveResult \/ SaveAnswer \/ Stop
  \/ Overflow \/ SaveByHand \/ Reset
  \/ \E c \in Compactors :
       Begin(c) \/ LoadSummary(c) \/ CountKept(c) \/ LoadMessages(c) \/ Fail(c) \/ Save(c)

Spec == Init /\ [][Next]_vars

----------------------------------------------------------------------------
(***************************************************************************)
(* What a summary covers it has folded in, except what SourceMax cut off;   *)
(* the first message that is not covered is not the result of a call that   *)
(* is; a reset leaves nothing in the summary; and right after a compaction  *)
(* that nothing came between the summary and the recent turns are the whole *)
(* conversation, but for calls that were never answered.  All of it unless  *)
(* a reset met a turn or a compaction, which brings back what was to be     *)
(* forgotten, or a compaction meant to keep no message met new ones.  When   *)
(* it may keep none, it may also fold in a call that waits for its result.  *)
(***************************************************************************)
Folded == \A k \in gone + 1 .. summary.covered : k \in summary.content \union cut

PairsWhole ==
  LET k == summary.covered + 1 IN
    k \in gone + 2 .. Len(msg) /\ summary.content # {} => msg[k] # "tool"

Forgotten == \A k \in summary.content : k > gone

\* The history of the next request.
Shown == Recent(First(summary.covered), KeepTurns)

WholeShown ==
  \A k \in gone + 1 .. Len(msg) :
    k \in summary.content \union cut \union Shown \/ msg[k] = "calls"

SummaryFaithful ==
  ~raced => Folded /\ (MinKeep > 0 => PairsWhole) /\ Forgotten /\ (quiet = "saved" => WholeShown)
=============================================================================
