------------------------ MODULE ScheduledJobsProofs -------------------------
(***************************************************************************)
(* What holds of ScheduledJobs for any jobs, callers and number of runs.   *)
(***************************************************************************)
EXTENDS ScheduledJobs, TLAPS

----------------------------------------------------------------------------
(* The inductive invariant: whoever is between a read and a write is so    *)
(* for a job that has a row, and the run about to be counted was delivered.*)

Working == {"claim", "deliver", "settle", "write", "fail"}

CallsAreOfRows == \A c \in Callers : call[c] # None => row[call[c].job] \in Rows

TickIsOfRows ==
  /\ \A j \in todo : row[j] \in Rows
  /\ at \in Working => job \in Jobs /\ row[job] \in Rows
  /\ at = "write" => seen \in Rows

RunIsDelivered ==
  /\ at = "settle" => Capped(row[job].runs + 1) <= fired[job]
  /\ at = "write" => Capped(seen.runs + 1) <= fired[job]

IInv ==
  /\ TypeOK /\ CallsAreOfRows /\ TickIsOfRows
  /\ NextRunKnown /\ RunsWereDelivered /\ RunIsDelivered

----------------------------------------------------------------------------
\* A job has a row or the absence of one, never both.
LEMMA NoRowIsNone == NoRow \notin Rows
BY DEF NoRow, Rows, Statuses

LEMMA CappedBounds ==
  ASSUME NEW n \in Nat
  PROVE  /\ Capped(n) \in 0 .. MaxRuns /\ Capped(n) <= n
         /\ n <= MaxRuns => Capped(n) = n
         /\ \A m \in Nat : m <= n => Capped(m) <= Capped(n)
BY JobsAssumption DEF Capped

LEMMA InitHolds == Init => IInv
BY JobsAssumption, NoRowIsNone
   DEF Init, IInv, TypeOK, CallsAreOfRows, TickIsOfRows, NextRunKnown,
       RunsWereDelivered, RunIsDelivered, Working

\* A step that gives one job another row keeps every part of the invariant that
\* is about rows, if the new row does what is asked of each.
LEMMA RowChanges ==
  ASSUME IInv, NEW j \in Jobs, NEW r \in Rows,
         row' = [row EXCEPT ![j] = r],
         r.status = "scheduled" => r.next # "null",
         r.status \in {"completed", "cancelled", "failed"} => r.next = "null",
         r.runs <= fired[j], fired' = fired
  PROVE  /\ row' \in [Jobs -> Rows \union {NoRow}]
         /\ \A k \in Jobs : row[k] \in Rows => row'[k] \in Rows
         /\ NextRunKnown' /\ RunsWereDelivered'
BY DEF IInv, TypeOK, NextRunKnown, RunsWereDelivered

\* A step that leaves the rows alone keeps what is said of rows only.
LEMMA RowsKept ==
  ASSUME IInv, UNCHANGED <<row, fired>>
  PROVE  NextRunKnown' /\ RunsWereDelivered'
BY DEF IInv, NextRunKnown, RunsWereDelivered

----------------------------------------------------------------------------
(* Callers.                                                                *)

LEMMA CreateKeeps ==
  ASSUME IInv, NEW j \in Jobs, Create(j)
  PROVE  IInv'
<1>1. PICK once \in BOOLEAN, n \in 0 .. MaxRuns :
        row' = [row EXCEPT ![j] =
                  [status |-> "scheduled", once |-> once,
                   repeat |-> IF once THEN 1 ELSE n, runs |-> 0, next |-> "later"]]
  BY DEF Create
<1> DEFINE r == [status |-> "scheduled", once |-> once,
                 repeat |-> IF once THEN 1 ELSE n, runs |-> 0, next |-> "later"]
<1>2. r \in Rows
  BY JobsAssumption DEF Rows, Statuses
<1>3. fired' = fired /\ UNCHANGED <<call, tickVars>> /\ row[j] \notin Rows
  BY NoRowIsNone DEF Create, tickVars
<1>4. 0 <= fired[j]
  BY DEF IInv, TypeOK
<1>5. /\ row' \in [Jobs -> Rows \union {NoRow}]
      /\ \A k \in Jobs : row[k] \in Rows => row'[k] \in Rows
      /\ NextRunKnown' /\ RunsWereDelivered'
  BY <1>1, <1>2, <1>3, <1>4, RowChanges
<1>6. \A k \in Jobs : row[k] \in Rows => row'[k] = row[k]
  BY <1>1, <1>3
<1> QED
  BY <1>3, <1>5, <1>6 DEF IInv, TypeOK, CallsAreOfRows, TickIsOfRows, RunIsDelivered,
                          tickVars, Working

\* A call changes the row of its job and nothing of the scheduler's.
LEMMA CallWrites ==
  ASSUME IInv, NEW c \in Callers, Answer(c), call[c] # None, NEW r \in Rows,
         row' = [row EXCEPT ![call[c].job] = r],
         r.runs = row[call[c].job].runs,
         r.status = "scheduled" => r.next # "null",
         r.status \in {"completed", "cancelled", "failed"} => r.next = "null"
  PROVE  IInv'
<1>1. call[c].job \in Jobs /\ row[call[c].job] \in Rows
  BY DEF IInv, TypeOK, CallsAreOfRows
<1>2. call' = [call EXCEPT ![c] = None] /\ UNCHANGED <<at, todo, job, seen, fired>>
  BY DEF Answer, tickVars
<1>3. r.runs <= fired[call[c].job]
  BY <1>1, NoRowIsNone DEF IInv, RunsWereDelivered
<1>4. /\ row' \in [Jobs -> Rows \union {NoRow}]
      /\ \A k \in Jobs : row[k] \in Rows => row'[k] \in Rows
      /\ NextRunKnown' /\ RunsWereDelivered'
  BY <1>1, <1>2, <1>3, RowChanges
<1>5. \A k \in Jobs : row'[k].runs = row[k].runs
  BY <1>1 DEF IInv, TypeOK
<1> QED
  BY <1>2, <1>4, <1>5 DEF IInv, TypeOK, CallsAreOfRows, TickIsOfRows, RunIsDelivered, Working

LEMMA CallKeeps ==
  ASSUME IInv, NEW c \in Callers, Call(c)
  PROVE  IInv'
<1> USE DEF Call
<1>1. ASSUME NEW j \in Jobs, NEW op \in {"pause", "resume", "cancel"}, CallReads(c, op, j)
      PROVE  IInv'
  <2>1. row[j] \in Rows /\ call' = [call EXCEPT ![c] = [op |-> op, job |-> j]]
        /\ UNCHANGED <<row, at, todo, job, seen, fired>>
    BY <1>1 DEF CallReads, tickVars, IInv, TypeOK
  <2>2. call'[c] \in [op : {"pause", "resume", "cancel"}, job : Jobs] /\ call'[c].job = j
    BY <2>1 DEF IInv, TypeOK
  <2>3. TypeOK' /\ CallsAreOfRows'
    BY <2>1, <2>2 DEF IInv, TypeOK, CallsAreOfRows
  <2> QED
    BY <2>1, <2>3, RowsKept DEF IInv, TickIsOfRows, RunIsDelivered, Working
<1> DEFINE k == call[c].job
           old == row[k]
<1>2. ASSUME call[c] # None
      PROVE  k \in Jobs /\ old \in Rows
  BY <1>2 DEF IInv, TypeOK, CallsAreOfRows
<1>3. CASE CallPauses(c)
  <2>1. [old EXCEPT !.status = "paused"] \in Rows
    BY <1>2, <1>3 DEF CallPauses, Rows, Statuses
  <2>2. row' = [row EXCEPT ![k] = [old EXCEPT !.status = "paused"]]
    BY <1>3 DEF CallPauses
  <2>3. [old EXCEPT !.status = "paused"].runs = old.runs
        /\ [old EXCEPT !.status = "paused"].status = "paused"
    BY <1>2, <1>3 DEF CallPauses, Rows
  <2> QED
    BY <1>3, <2>1, <2>2, <2>3, CallWrites DEF CallPauses
<1>4. CASE CallCancels(c)
  <2> DEFINE new == [old EXCEPT !.status = "cancelled", !.next = "null"]
  <2>1. new \in Rows /\ new.runs = old.runs /\ new.status = "cancelled" /\ new.next = "null"
    BY <1>2, <1>4 DEF CallCancels, Rows, Statuses
  <2>2. row' = [row EXCEPT ![k] = new]
    BY <1>2, <1>4 DEF CallCancels, IInv, TypeOK
  <2>3. Answer(c) /\ call[c] # None
    BY <1>4 DEF CallCancels
  <2> HIDE DEF new
  <2> QED
    BY <2>1, <2>2, <2>3, CallWrites
<1>5. CASE CallResumes(c)
  <2>1. Answer(c) /\ call[c] # None
    BY <1>5 DEF CallResumes
  <2>2. CASE old.status \in {"paused", "failed"}
    <3> DEFINE new == [old EXCEPT !.status = "scheduled",
                                  !.next = IF old.once THEN "past" ELSE "later"]
    <3>1. new \in Rows /\ new.runs = old.runs /\ new.status = "scheduled" /\ new.next # "null"
      BY <1>2, <2>1 DEF Rows, Statuses
    <3>2. row' = [row EXCEPT ![k] = new]
      BY <1>2, <1>5, <2>1, <2>2 DEF CallResumes, IInv, TypeOK
    <3> HIDE DEF new
    <3> QED
      BY <2>1, <3>1, <3>2, CallWrites
  <2>3. CASE old.status \notin {"paused", "failed"}
    <3>1. row' = row /\ call' = [call EXCEPT ![c] = None]
          /\ UNCHANGED <<at, todo, job, seen, fired>>
      BY <1>5, <2>3 DEF CallResumes, Answer, tickVars
    <3> QED
      BY <3>1, RowsKept DEF IInv, TypeOK, CallsAreOfRows, TickIsOfRows, RunIsDelivered, Working
  <2> QED
    BY <2>2, <2>3
<1> QED
  BY <1>1, <1>3, <1>4, <1>5

----------------------------------------------------------------------------
(* The scheduler thread.                                                   *)

\* A step of it that writes no row, and goes where its place is allowed.
LEMMA PlaceKeeps ==
  ASSUME IInv, UNCHANGED <<row, call>>, TypeOK', TickIsOfRows', RunIsDelivered',
         RunsWereDelivered'
  PROVE  IInv'
BY DEF IInv, CallsAreOfRows, NextRunKnown

LEMMA TickKeeps ==
  ASSUME IInv, Tick \/ DeliverFails \/ SettleFails \/ TickAborts \/ Restart
  PROVE  IInv'
<1> USE DEF IInv, TypeOK, TickIsOfRows, RunIsDelivered, Working
<1>1. CASE TickLists
  BY <1>1, PlaceKeeps, RowsKept, NoRowIsNone DEF TickLists, Due
<1>2. CASE TickEnds
  BY <1>2, PlaceKeeps, RowsKept DEF TickEnds
<1>3. ASSUME NEW j \in Jobs, ClaimReads(j)
      PROVE  IInv'
  BY <1>3, PlaceKeeps, RowsKept DEF ClaimReads
<1>4. CASE Deliver
  <2>1. job \in Jobs /\ row[job] \in Rows /\ fired[job] \in 0 .. MaxRuns
    BY <1>4 DEF Deliver
  <2>2. /\ row[job].runs \in 0 .. MaxRuns /\ row[job].runs <= fired[job]
    BY <2>1, NoRowIsNone DEF RunsWereDelivered, Rows
  <2>3. fired' = [fired EXCEPT ![job] = Capped(fired[job] + 1)]
        /\ UNCHANGED <<row, call, todo, job, seen>> /\ at' \in {"settle", "fail"}
    BY <1>4 DEF Deliver
  <2>4. /\ Capped(fired[job] + 1) \in 0 .. MaxRuns
        /\ Capped(row[job].runs + 1) <= Capped(fired[job] + 1)
        /\ fired[job] <= Capped(fired[job] + 1)
    BY <2>1, <2>2, JobsAssumption DEF Capped
  <2>5. fired' \in [Jobs -> 0 .. MaxRuns] /\ fired'[job] = Capped(fired[job] + 1)
        /\ \A j \in Jobs : fired[j] <= fired'[j]
    BY <2>1, <2>3, <2>4, JobsAssumption
  <2>6. RunsWereDelivered'
    <3>1. SUFFICES ASSUME NEW j \in Jobs, row[j] # NoRow
                   PROVE  row[j].runs <= fired'[j]
      BY <2>3 DEF RunsWereDelivered
    <3>2. row[j].runs <= fired[j] /\ row[j].runs \in 0 .. MaxRuns
      BY <3>1 DEF RunsWereDelivered, Rows
    <3> QED
      BY <2>5, <3>2, JobsAssumption
  <2>7. TypeOK' /\ TickIsOfRows' /\ RunIsDelivered'
    BY <2>1, <2>3, <2>4, <2>5
  <2> QED
    BY <2>3, <2>6, <2>7, PlaceKeeps
<1>5. CASE SettleReads
  BY <1>5, PlaceKeeps, RowsKept DEF SettleReads
<1>6. CASE ClaimWrites
  <2> DEFINE new == [row[job] EXCEPT !.status = IF @ = "scheduled" THEN "running" ELSE @]
  <2>1. job \in Jobs /\ row[job] \in Rows
    BY <1>6 DEF ClaimWrites
  <2>2. /\ new \in Rows /\ new.runs = row[job].runs /\ new.next = row[job].next
        /\ new.status = IF row[job].status = "scheduled" THEN "running" ELSE row[job].status
    BY <2>1 DEF Rows, Statuses
  <2>3. row' = [row EXCEPT ![job] = new] /\ at' = "deliver"
        /\ UNCHANGED <<call, todo, job, seen, fired>>
    BY <1>6 DEF ClaimWrites
  <2>4. /\ new.runs <= fired[job] /\ new.status # "scheduled"
        /\ new.status \in {"completed", "cancelled", "failed"} => new.next = "null"
    BY <2>1, <2>2, NoRowIsNone DEF NextRunKnown, RunsWereDelivered
  <2> HIDE DEF new
  <2>5. /\ row' \in [Jobs -> Rows \union {NoRow}]
        /\ \A k \in Jobs : row[k] \in Rows => row'[k] \in Rows
        /\ NextRunKnown' /\ RunsWereDelivered'
    BY <2>1, <2>2, <2>3, <2>4, RowChanges
  <2> QED
    BY <2>1, <2>3, <2>5 DEF CallsAreOfRows
<1>7. CASE SettleWrites
  <2> DEFINE n == seen.runs + 1
             done == Over(seen, n)
             new == [row[job] EXCEPT !.status = IF done THEN "completed" ELSE "scheduled",
                                     !.runs = Capped(n),
                                     !.next = IF done THEN "null" ELSE "later"]
  <2>1. /\ job \in Jobs /\ row[job] \in Rows /\ seen \in Rows
        /\ at' = "next" /\ UNCHANGED <<call, todo, job, seen, fired>>
    BY <1>7 DEF SettleWrites
  <2>2. n \in Nat
    BY <2>1 DEF Rows
  <2>3. Capped(n) \in 0 .. MaxRuns /\ Capped(n) <= fired[job]
    BY <1>7, <2>2, CappedBounds DEF SettleWrites
  <2>4. CASE row[job].status # "running"
    <3>1. row' = row
      BY <1>7, <2>1, <2>4 DEF SettleWrites
    <3> QED
      BY <2>1, <3>1, RowsKept DEF CallsAreOfRows
  <2>5. CASE row[job].status = "running"
    <3>1. /\ new \in Rows /\ new.runs = Capped(n)
          /\ new.status = IF done THEN "completed" ELSE "scheduled"
          /\ new.next = IF done THEN "null" ELSE "later"
      <4> HIDE DEF done, n
      <4> QED
        BY <2>1, <2>3 DEF Rows, Statuses
    <3>2. row' = [row EXCEPT ![job] = new]
      BY <1>7, <2>1, <2>5 DEF SettleWrites
    <3> HIDE DEF new, done, n
    <3>3. /\ row' \in [Jobs -> Rows \union {NoRow}]
          /\ \A k \in Jobs : row[k] \in Rows => row'[k] \in Rows
          /\ NextRunKnown' /\ RunsWereDelivered'
      BY <2>1, <2>3, <3>1, <3>2, RowChanges
    <3> QED
      BY <2>1, <3>3 DEF CallsAreOfRows
  <2> QED
    BY <2>4, <2>5
<1>8. CASE Fail
  <2> DEFINE new == [row[job] EXCEPT !.status = "failed", !.next = "null"]
  <2>1. job \in Jobs /\ row[job] \in Rows /\ at' = "next"
        /\ UNCHANGED <<call, todo, job, seen, fired>>
    BY <1>8 DEF Fail
  <2>2. new \in Rows /\ new.runs = row[job].runs /\ new.status = "failed" /\ new.next = "null"
    BY <2>1 DEF Rows, Statuses
  <2>3. row' = [row EXCEPT ![job] = new]
    BY <1>8, <2>1 DEF Fail
  <2>4. new.runs <= fired[job]
    BY <2>1, <2>2, NoRowIsNone DEF RunsWereDelivered
  <2> HIDE DEF new
  <2>5. /\ row' \in [Jobs -> Rows \union {NoRow}]
        /\ \A k \in Jobs : row[k] \in Rows => row'[k] \in Rows
        /\ NextRunKnown' /\ RunsWereDelivered'
    BY <2>1, <2>2, <2>3, <2>4, RowChanges
  <2> QED
    BY <2>1, <2>5 DEF CallsAreOfRows
<1>9. CASE DeliverFails
  BY <1>9, PlaceKeeps, RowsKept DEF DeliverFails
<1>10. CASE SettleFails
  BY <1>10, PlaceKeeps, RowsKept DEF SettleFails
<1>11. CASE TickAborts
  BY <1>11, PlaceKeeps, RowsKept DEF TickAborts
<1>12. CASE Restart
  BY <1>12, RowsKept DEF Restart, CallsAreOfRows
<1> QED
  BY <1>1, <1>2, <1>3, <1>4, <1>5, <1>6, <1>7, <1>8, <1>9, <1>10, <1>11, <1>12 DEF Tick

LEMMA ClockKeeps ==
  ASSUME IInv, NEW j \in Jobs, Clock(j)
  PROVE  IInv'
<1> DEFINE new == [row[j] EXCEPT !.next = "past"]
<1>1. row[j] \in Rows /\ row[j].next = "later" /\ UNCHANGED <<call, at, todo, job, seen, fired>>
  BY DEF IInv, TypeOK, Clock, tickVars
<1>2. new \in Rows /\ new.runs = row[j].runs /\ new.status = row[j].status /\ new.next = "past"
  BY <1>1 DEF Rows
<1>3. row' = [row EXCEPT ![j] = new]
  BY DEF Clock
<1>4. /\ new.runs <= fired[j]
      /\ new.status \notin {"completed", "cancelled", "failed"}
  BY <1>1, <1>2, NoRowIsNone DEF IInv, NextRunKnown, RunsWereDelivered
<1> HIDE DEF new
<1>5. /\ row' \in [Jobs -> Rows \union {NoRow}]
      /\ \A k \in Jobs : row[k] \in Rows => row'[k] \in Rows
      /\ NextRunKnown' /\ RunsWereDelivered'
  BY <1>1, <1>2, <1>3, <1>4, RowChanges
<1>6. \A k \in Jobs : row'[k].runs = row[k].runs
  BY <1>2, <1>3 DEF IInv, TypeOK
<1> QED
  BY <1>1, <1>5, <1>6 DEF IInv, TypeOK, CallsAreOfRows, TickIsOfRows, RunIsDelivered, Working

LEMMA StepKeeps == IInv /\ [Next]_vars => IInv'
<1> SUFFICES ASSUME IInv, [Next]_vars
             PROVE  IInv'
  OBVIOUS
<1>1. CASE Next
  BY <1>1, CreateKeeps, ClockKeeps, CallKeeps, TickKeeps DEF Next
<1>2. CASE UNCHANGED vars
  BY <1>2 DEF vars, IInv, TypeOK, CallsAreOfRows, TickIsOfRows, NextRunKnown,
              RunsWereDelivered, RunIsDelivered
<1> QED
  BY <1>1, <1>2

THEOREM InvariantHolds == Spec => []IInv
BY InitHolds, StepKeeps, PTL DEF Spec

----------------------------------------------------------------------------
(* The properties.                                                         *)

\* The types of ScheduledJobs, for any jobs and callers: whatever calls and the
\* scheduler write, in whatever order, a row is one the table can hold.
THEOREM TypeCorrect == Spec => []TypeOK
<1>1. IInv => TypeOK
  BY DEF IInv
<1> QED
  BY <1>1, InvariantHolds, PTL

\* However many calls meet however many ticks: a job that waits has the time it
\* waits for, and one that is over has none.
THEOREM WaitingJobsHaveTimes == Spec => []NextRunKnown
<1>1. IInv => NextRunKnown
  BY DEF IInv
<1> QED
  BY <1>1, InvariantHolds, PTL

\* completed_runs counts deliveries only.
THEOREM CountedRunsWereDelivered == Spec => []RunsWereDelivered
<1>1. IInv => RunsWereDelivered
  BY DEF IInv
<1> QED
  BY <1>1, InvariantHolds, PTL
=============================================================================
