------------------------ MODULE TaskSupervisorProofs ------------------------
(***************************************************************************)
(* What holds of TaskSupervisor for any tasks, processes, supervisors and  *)
(* limits.                                                                 *)
(***************************************************************************)
EXTENDS TaskSupervisor, FiniteSetTheorems, TLAPS

----------------------------------------------------------------------------
(* The inductive invariant.                                                *)

\* A task is claimed just if it is running, by a process that has claimed once.
Claimed ==
  /\ edges = {}
  /\ \A t \in Tasks :
       /\ (status[t] = "running") <=> (claim[t] # None)
       /\ claim[t] # None => life[claim[t]] \notin {"none", "boot"}

\* What is recorded of a process, or held of it in a supervisor's memory, is of
\* one that was started.
Started(r) == life[r] # "none"

Recorded ==
  /\ \A r \in Runs : (proc[r] # "none" <=> Started(r)) /\ (job[r] # None <=> Started(r))
  /\ \A s \in Supervisors :
       /\ \A r \in Runs, b \in BOOLEAN : <<r, b>> \in todo[s] => Started(r)
       /\ \A r \in kids[s] \union ask[s] : Started(r)

IInv == TypeOK /\ Claimed /\ Recorded /\ OnlyDeadWrittenOff

----------------------------------------------------------------------------
(* The tasks table, and the promise about it.                              *)

Kept == [Promise!Next]_(Promise!promiseVars)

\* What a step does to the table, if no process but those in life' changes.
StoreStep == StoreTypeOK' /\ Claimed' /\ Kept

\* No process goes back before its claim.
Grown == \A r \in Runs : life[r] \notin {"none", "boot"} => life'[r] \notin {"none", "boot"}

LEMMA InitHolds == Init => IInv
<1> SUFFICES ASSUME Init
             PROVE  IInv
  OBVIOUS
<1>1. StoreTypeOK
  BY DEF Init, StoreTypeOK, Status, Phases
<1>2. overtaken \in BOOLEAN
  BY Zenon DEF Init
<1>3. loss \in [Supervisors -> [Runs -> {"none", "due"} \union Runs]]
  BY DEF Init
<1>4. good \in [Runs -> BOOLEAN]
  BY DEF Init
<1>5. TypeOK
  BY <1>1, <1>2, <1>3, <1>4 DEF Init, TypeOK, MemoryTyped
<1>6. Claimed
  BY DEF Init, Claimed
<1>7. Recorded
  BY DEF Init, Recorded, Started
<1>8. OnlyDeadWrittenOff
  BY DEF Init, OnlyDeadWrittenOff
<1> QED
  BY <1>5, <1>6, <1>7, <1>8 DEF IInv

LEMMA PromiseInit == Init => Promise!Init
BY DEF Init, Promise!Init

LEMMA StoreKeeps ==
  ASSUME StoreTypeOK, Claimed, UNCHANGED storeVars, Grown
  PROVE  StoreStep
BY DEF StoreTypeOK, Claimed, Grown, storeVars, StoreStep, Kept, Promise!promiseVars

\* A statement that releases one task.
LEMMA ReleaseSteps ==
  ASSUME StoreTypeOK, Claimed, NEW t \in Tasks, NEW s \in Status \ {"running"}, Release(t, s),
         tries' = tries, parked' \in [Tasks -> BOOLEAN], phase' \in [Tasks -> Phases],
         edges' = edges, Grown,
         \/ s = "cancelled" /\ status[t] # "cancelled"
         \/ status[t] = "running" /\ s \in {"queued", "blocked", "succeeded", "failed"}
  PROVE  StoreStep
<1>1. StoreTypeOK'
  BY DEF StoreTypeOK, Release
<1>2. Claimed'
  BY DEF Claimed, Release, Grown, StoreTypeOK
<1>3. Promise!Drop(t, s)
  BY DEF Release, Promise!Drop
<1>4. CASE s = "cancelled" /\ status[t] # "cancelled"
  BY <1>1, <1>2, <1>3, <1>4 DEF StoreStep, Kept, Promise!Next, Promise!Cancel
<1>5. CASE status[t] = "running" /\ s \in {"queued", "blocked", "succeeded", "failed"}
  <2>1. Promise!Settle(t, s)
    BY <1>3, <1>5, SupervisorAssumption DEF Promise!Settle
  <2> QED
    BY <1>1, <1>2, <1>5, <2>1 DEF StoreStep, Kept, Promise!Next
<1> QED
  BY <1>4, <1>5

LEMMA FinishSteps ==
  ASSUME StoreTypeOK, Claimed, Grown, NEW t \in Tasks, NEW r,
         NEW s \in {"succeeded", "failed"}, FinishTask(t, r, s)
  PROVE  StoreStep
<1>1. CASE ~Owns(t, r)
  BY <1>1, StoreKeeps DEF FinishTask
<1>2. CASE Owns(t, r)
  <2>1. /\ status[t] = "running" /\ s \in Status \ {"running"} /\ Release(t, s)
        /\ UNCHANGED <<tries, phase, edges>> /\ parked' = [parked EXCEPT ![t] = FALSE]
    BY <1>2 DEF FinishTask, Owns, Status, Terminal
  <2>2. parked' \in [Tasks -> BOOLEAN] /\ phase' \in [Tasks -> Phases]
    BY <2>1 DEF StoreTypeOK
  <2> QED
    BY <2>1, <2>2, ReleaseSteps
<1> QED
  BY <1>1, <1>2

LEMMA RetrySteps ==
  ASSUME StoreTypeOK, Claimed, Grown, NEW t \in Tasks, NEW r,
         RetryTask(t, r) \/ RetryLost(t, r)
  PROVE  StoreStep
<1>1. CASE ~Owns(t, r)
  BY <1>1, StoreKeeps DEF RetryTask, RetryLost
<1>2. CASE Owns(t, r)
  <2>1. /\ status[t] = "running" /\ "queued" \in Status \ {"running"} /\ Release(t, "queued")
        /\ UNCHANGED <<tries, edges>>
    BY <1>2 DEF RetryTask, RetryLost, Owns, Status, Terminal
  <2>2. parked' \in [Tasks -> BOOLEAN]
    BY <1>2 DEF RetryTask, RetryLost, StoreTypeOK
  <2>3. phase' \in [Tasks -> Phases]
    BY <1>2 DEF RetryTask, RetryLost, StoreTypeOK, Phases
  <2> QED
    BY <2>1, <2>2, <2>3, ReleaseSteps
<1> QED
  BY <1>1, <1>2

LEMMA CancelSteps ==
  ASSUME StoreTypeOK, Claimed, Grown, NEW t \in Tasks, status[t] \notin Terminal, CancelTask(t)
  PROVE  StoreStep
<1>1. "cancelled" \in Status \ {"running"} /\ status[t] # "cancelled"
  BY DEF Status, Terminal
<1> QED
  BY <1>1, ReleaseSteps DEF CancelTask, StoreTypeOK

LEMMA RecoverSteps ==
  ASSUME StoreTypeOK, Claimed, Grown, NEW scan \in SUBSET Tasks, RecoverTasks(scan)
  PROVE  StoreStep
<1> DEFINE S == {t \in scan : status[t] = "running"}
<1>1. /\ status' = [t \in Tasks |-> IF t \in S THEN "queued" ELSE status[t]]
      /\ claim' = [t \in Tasks |-> IF t \in S THEN None ELSE claim[t]]
      /\ lease' = [t \in Tasks |-> IF t \in S THEN "none" ELSE lease[t]]
      /\ parked' = [t \in Tasks |-> IF t \in S THEN FALSE ELSE parked[t]]
      /\ phase' = [t \in Tasks |-> IF t \in S THEN "retry_ready" ELSE phase[t]]
      /\ UNCHANGED <<tries, edges>>
  BY DEF RecoverTasks
<1>2. S \in SUBSET Tasks /\ \A t \in S : status[t] = "running"
  OBVIOUS
<1> HIDE DEF S
<1>3. StoreTypeOK'
  <2>1. status' \in [Tasks -> Status] /\ claim' \in [Tasks -> Runs \union {None}]
        /\ lease' \in [Tasks -> {"none", "live", "expired"}]
    BY <1>1 DEF StoreTypeOK, Status, Terminal
  <2>2. parked' \in [Tasks -> BOOLEAN]
    BY <1>1 DEF StoreTypeOK
  <2>3. phase' \in [Tasks -> Phases]
    BY <1>1 DEF StoreTypeOK, Phases
  <2> QED
    BY <1>1, <2>1, <2>2, <2>3 DEF StoreTypeOK
<1>4. Claimed'
  BY <1>1 DEF Claimed, Grown, StoreTypeOK
<1>5. Promise!Reclaim(S)
  BY <1>1, <1>2 DEF Promise!Reclaim
<1> QED
  BY <1>2, <1>3, <1>4, <1>5 DEF StoreStep, Kept, Promise!Next

LEMMA ClaimSteps ==
  ASSUME StoreTypeOK, Claimed, NEW t \in Tasks, NEW r \in Runs, life[r] = "boot",
         life' = [life EXCEPT ![r] = "claimed"], MemoryTyped, StartTask(t, r)
  PROVE  StoreStep
<1>1. status[t] = "queued" /\ None \notin Runs
  BY StoreAssumption DEF StartTask, Startable
<1>2. StoreTypeOK'
  BY <1>1 DEF StartTask, StoreTypeOK, Status
<1>3. \A u \in Tasks : claim[u] # r
  BY <1>1 DEF Claimed
<1>4. Claimed'
  BY <1>1, <1>3 DEF Claimed, StartTask, StoreTypeOK, MemoryTyped
<1>5. Promise!Start(t, r)
  BY <1>1, <1>3 DEF Promise!Start, StartTask
<1> QED
  BY <1>2, <1>4, <1>5 DEF StoreStep, Kept, Promise!Next
----------------------------------------------------------------------------
(* The memory of supervisors, the records and the processes.               *)

Rest == MemoryTyped /\ Recorded /\ OnlyDeadWrittenOff

\* A step of a supervisor that changes no process and no task.
LEMMA SupervisorMoves ==
  ASSUME IInv, UNCHANGED <<storeVars, life>>, Rest'
  PROVE  IInv' /\ Kept
<1>1. Grown
  BY DEF Grown
<1>2. StoreStep
  BY <1>1, StoreKeeps DEF IInv, TypeOK
<1> QED
  BY <1>2 DEF IInv, Rest, TypeOK, MemoryTyped, StoreStep

\* A step that leaves processes, records and losses alone, and makes supervisors
\* forget things.
LEMMA Forgets ==
  ASSUME IInv, UNCHANGED <<storeVars, procVars>>, MemoryTyped',
         \A s \in Supervisors :
           /\ todo'[s] \subseteq todo[s] /\ kids'[s] \subseteq kids[s] /\ ask'[s] \subseteq ask[s]
           /\ \A r \in Runs : loss'[s][r] \in {loss[s][r], "none"}
  PROVE  IInv' /\ Kept
<1>1. Recorded' /\ OnlyDeadWrittenOff'
  BY DEF IInv, Recorded, Started, OnlyDeadWrittenOff, procVars
<1> QED
  BY <1>1, SupervisorMoves DEF Rest, procVars

LEMMA LifeSteps ==
  ASSUME IInv, NEW s \in Supervisors,
         \/ Start(s) \/ Crash(s) \/ Stop(s) \/ LeaseLost(s) \/ TickEnds(s)
         \/ \E t \in Tasks : Skip(s, t)
  PROVE  IInv' /\ Kept
<1> USE DEF IInv, TypeOK, MemoryTyped, Goto
<1>1. CASE Start(s)
  <2>1. MemoryTyped'
    <3>1. overtaken' \in BOOLEAN
      BY <1>1, Zenon DEF Start
    <3> QED
      BY <1>1, <3>1 DEF Start, procVars
  <2> QED
    BY <1>1, <2>1, Forgets DEF Start
<1>2. CASE Gone(s) /\ owner' \in {owner, None}
  <2>1. loss' \in [Supervisors -> [Runs -> {"none", "due"} \union Runs]]
        /\ \A u \in Supervisors, r \in Runs : loss'[u][r] \in {loss[u][r], "none"}
    BY <1>2 DEF Gone
  <2>2. MemoryTyped'
    BY <1>2, <2>1 DEF Gone, procVars
  <2>3. /\ UNCHANGED <<storeVars, procVars>>
        /\ \A u \in Supervisors : /\ todo'[u] \subseteq todo[u] /\ kids'[u] \subseteq kids[u]
                                  /\ ask'[u] \subseteq ask[u]
    BY <1>2 DEF Gone
  <2> QED
    BY <2>1, <2>2, <2>3, Forgets
<1>3. CASE TickEnds(s)
  <2>1. MemoryTyped'
    BY <1>3 DEF TickEnds, procVars
  <2> QED
    BY <1>3, <2>1, Forgets DEF TickEnds
<1>4. ASSUME NEW t \in Tasks, Skip(s, t)
      PROVE  IInv' /\ Kept
  <2>1. MemoryTyped'
    BY <1>4 DEF Skip, procVars
  <2> QED
    BY <1>4, <2>1, Forgets DEF Skip
<1> QED
  BY <1>1, <1>2, <1>3, <1>4 DEF Crash, Stop, LeaseLost

\* The table of processes is read: what is listed was started.
LEMMA TickSteps ==
  ASSUME IInv, NEW s \in Supervisors, TickStarts(s)
  PROVE  IInv' /\ Kept
<1> DEFINE asked(r) == proc[r] = "termination_requested"
           read == {<<r, asked(r)>> : r \in {q \in Runs : proc[q] \in Listed}}
<1>1. /\ todo' = [todo EXCEPT ![s] = read] /\ Goto(s, "reconcile")
      /\ UNCHANGED <<storeVars, procVars, owner, plan, kids, ask, loss, overtaken>>
  BY DEF TickStarts
<1>2. read \in SUBSET (Runs \X BOOLEAN)
  <2>1. \A r \in Runs : asked(r) \in BOOLEAN
    BY Zenon
  <2> HIDE DEF asked
  <2> QED
    BY <2>1
<1>3. \A r \in Runs, b \in BOOLEAN : <<r, b>> \in read => Started(r)
  BY DEF IInv, Recorded, Listed
<1> HIDE DEF read
<1>4. MemoryTyped'
  BY <1>1, <1>2 DEF IInv, TypeOK, MemoryTyped, Goto, procVars
<1>5. Recorded'
  BY <1>1, <1>3, <1>4 DEF IInv, TypeOK, Recorded, Started, procVars
<1>6. OnlyDeadWrittenOff'
  BY <1>1 DEF IInv, OnlyDeadWrittenOff, procVars
<1> QED
  BY <1>1, <1>4, <1>5, <1>6, SupervisorMoves DEF Rest, procVars

\* A record is written for a process that was started, and one that says that the
\* process is gone only for a dead one; the same of a loss.
LEMMA WritesOff ==
  ASSUME IInv, UNCHANGED <<storeVars, job, life>>, MemoryTyped',
         NEW s \in Supervisors, NEW r \in Runs, Started(r),
         NEW p \in Listed \union {"exited", "lost"},
         proc' \in {proc, [proc EXCEPT ![r] = p]},
         p \in {"exited", "lost"} => life[r] = "dead",
         NEW l, loss' \in {loss, [loss EXCEPT ![s][r] = l]},
         l # "none" => life[r] = "dead",
         \A u \in Supervisors :
           todo'[u] \subseteq todo[u] /\ kids'[u] \subseteq kids[u]
             /\ ask'[u] \subseteq ask[u] \union {r}
  PROVE  IInv' /\ Kept
<1> USE DEF IInv, TypeOK, MemoryTyped
<1>1. \A q \in Runs : proc'[q] = proc[q] \/ (q = r /\ proc'[q] = p)
  OBVIOUS
<1>2. p # "none"
  BY DEF Listed
<1>3. Recorded'
  BY <1>1, <1>2 DEF Recorded, Started
<1>4. \A u \in Supervisors, q \in Runs :
        loss'[u][q] = loss[u][q] \/ (q = r /\ loss'[u][q] = l)
  <2>1. CASE loss' = loss
    BY <2>1
  <2>2. CASE loss' = [loss EXCEPT ![s][r] = l]
    BY <2>2
  <2> QED
    BY <2>1, <2>2
<1>5. OnlyDeadWrittenOff'
  BY <1>1, <1>4 DEF OnlyDeadWrittenOff
<1> QED
  BY <1>3, <1>5, SupervisorMoves DEF Rest

LEMMA TypesWritten ==
  ASSUME MemoryTyped, NEW s \in Supervisors, NEW r \in Runs,
         NEW p \in Listed \union {"none", "starting", "exited", "lost"},
         NEW l \in {"none", "due"} \union Runs
  PROVE  /\ [proc EXCEPT ![r] = p]
              \in [Runs -> Listed \union {"none", "starting", "exited", "lost"}]
         /\ [loss EXCEPT ![s][r] = l] \in [Supervisors -> [Runs -> {"none", "due"} \union Runs]]
BY DEF MemoryTyped

LEMMA TakenTypes ==
  ASSUME MemoryTyped, NEW s \in Supervisors, NEW r \in Runs, NEW b \in BOOLEAN, Taken(s, r, b),
         UNCHANGED life,
         proc' \in [Runs -> Listed \union {"none", "starting", "exited", "lost"}],
         loss' \in [Supervisors -> [Runs -> {"none", "due"} \union Runs]]
  PROVE  /\ MemoryTyped'
         /\ \A u \in Supervisors :
              todo'[u] \subseteq todo[u] /\ kids'[u] \subseteq kids[u] /\ ask'[u] \subseteq ask[u]
BY DEF MemoryTyped, Taken

LEMMA ReconcileSteps ==
  ASSUME IInv, NEW s \in Supervisors, NEW r \in Runs, NEW b \in BOOLEAN,
         ReconcileOwn(s, r, b) \/ ReconcileGone(s, r, b) \/ ReconcileAdopt(s, r, b)
  PROVE  IInv' /\ Kept
<1>1. /\ MemoryTyped /\ Started(r) /\ Taken(s, r, b)
      /\ UNCHANGED <<storeVars, job, life>>
  BY DEF IInv, TypeOK, MemoryTyped, Recorded, ReconcileOwn, ReconcileGone, ReconcileAdopt, Taken
<1> DEFINE Done(p, l) ==
      /\ proc' \in {proc, [proc EXCEPT ![r] = p]} /\ loss' \in {loss, [loss EXCEPT ![s][r] = l]}
      /\ p \in {"exited", "lost"} => life[r] = "dead"
      /\ l # "none" => life[r] = "dead"
<1>2. ASSUME NEW p \in Listed \union {"exited", "lost"}, NEW l \in {"none", "due"}, Done(p, l)
      PROVE  IInv' /\ Kept
  <2>1. /\ proc' \in [Runs -> Listed \union {"none", "starting", "exited", "lost"}]
        /\ loss' \in [Supervisors -> [Runs -> {"none", "due"} \union Runs]]
    <3>1. /\ [proc EXCEPT ![r] = p]
               \in [Runs -> Listed \union {"none", "starting", "exited", "lost"}]
          /\ [loss EXCEPT ![s][r] = l]
               \in [Supervisors -> [Runs -> {"none", "due"} \union Runs]]
      BY <1>1, TypesWritten
    <3> QED
      BY <1>1, <1>2, <3>1 DEF MemoryTyped
  <2>2. /\ MemoryTyped'
        /\ \A u \in Supervisors :
             todo'[u] \subseteq todo[u] /\ kids'[u] \subseteq kids[u] /\ ask'[u] \subseteq ask[u]
    BY <1>1, <2>1, TakenTypes
  <2> QED
    BY <1>1, <1>2, <2>2, WritesOff
<1>3. {"termination_requested", "adopted"} \subseteq Listed
  BY DEF Listed
<1>4. CASE ReconcileOwn(s, r, b)
  <2>1. Done("termination_requested", "none")
    BY <1>4 DEF ReconcileOwn
  <2> QED
    BY <1>2, <1>3, <2>1
<1>5. CASE ReconcileGone(s, r, b)
  <2>1. life[r] = "dead"
    BY <1>1, <1>5 DEF ReconcileGone, SeemsAlive, Alive, Started, MemoryTyped
  <2>2. PICK p \in {"exited", "lost"}, l \in {"none", "due"} :
          proc' = [proc EXCEPT ![r] = p] /\ loss' = [loss EXCEPT ![s][r] = l]
    BY <1>5 DEF ReconcileGone
  <2>3. Done(p, l)
    BY <2>1, <2>2
  <2> QED
    BY <1>2, <2>3
<1>6. CASE ReconcileAdopt(s, r, b)
  <2>1. PICK p \in {"termination_requested", "adopted"} :
          proc' = [proc EXCEPT ![r] = p] /\ loss' = loss
    BY <1>6 DEF ReconcileAdopt
  <2>2. Done(p, "none")
    BY <2>1
  <2> QED
    BY <1>2, <1>3, <2>2
<1> QED
  BY <1>4, <1>5, <1>6

\* The other steps that write a record, or recover a loss.
LEMMA RecordSteps ==
  ASSUME IInv, NEW s \in Supervisors, NEW r \in Runs,
         \/ Register(s, r) \/ WallTimer(s, r) \/ Terminate(s, r) \/ Join(s, r)
         \/ LossRead(s, r)
  PROVE  IInv' /\ Kept
<1> USE DEF IInv, TypeOK
<1>1. {"running", "termination_requested"} \subseteq Listed /\ MemoryTyped
  BY DEF Listed
<1>2. ASSUME NEW p \in Listed \union {"exited", "lost"}, NEW l \in {"none", "due"} \union Runs,
             UNCHANGED <<storeVars, job, life>>, Started(r),
             proc' \in {proc, [proc EXCEPT ![r] = p]},
             loss' \in {loss, [loss EXCEPT ![s][r] = l]},
             p \in {"exited", "lost"} => life[r] = "dead",
             l # "none" => life[r] = "dead",
             UNCHANGED <<owner, todo, plan, overtaken, good>>,
             sup' \in {sup, [sup EXCEPT ![s] = "dispatch"]},
             kids' \in {kids, [kids EXCEPT ![s] = @ \ {r}]},
             ask' \in {ask, [ask EXCEPT ![s] = @ \ {r}], [ask EXCEPT ![s] = @ \union {r}]}
      PROVE  IInv' /\ Kept
  <2>1. /\ proc' \in [Runs -> Listed \union {"none", "starting", "exited", "lost"}]
        /\ loss' \in [Supervisors -> [Runs -> {"none", "due"} \union Runs]]
    <3>1. /\ [proc EXCEPT ![r] = p]
               \in [Runs -> Listed \union {"none", "starting", "exited", "lost"}]
          /\ [loss EXCEPT ![s][r] = l]
               \in [Supervisors -> [Runs -> {"none", "due"} \union Runs]]
      BY <1>1, TypesWritten
    <3> QED
      BY <1>1, <1>2, <3>1 DEF MemoryTyped
  <2>2. kids' \in [Supervisors -> SUBSET Runs] /\ ask' \in [Supervisors -> SUBSET Runs]
    <3>1. kids \in [Supervisors -> SUBSET Runs] /\ ask \in [Supervisors -> SUBSET Runs]
      BY <1>1 DEF MemoryTyped
    <3>2. kids' \in [Supervisors -> SUBSET Runs]
      BY <1>2, <3>1
    <3>3. ask' \in [Supervisors -> SUBSET Runs]
      <4>1. /\ [ask EXCEPT ![s] = @ \ {r}] \in [Supervisors -> SUBSET Runs]
            /\ [ask EXCEPT ![s] = @ \union {r}] \in [Supervisors -> SUBSET Runs]
        BY <3>1
      <4> QED
        BY <1>2, <3>1, <4>1
    <3> QED
      BY <3>2, <3>3
  <2>3. MemoryTyped'
    BY <1>1, <1>2, <2>1, <2>2 DEF MemoryTyped
  <2>4. \A u \in Supervisors :
           todo'[u] \subseteq todo[u] /\ kids'[u] \subseteq kids[u]
             /\ ask'[u] \subseteq ask[u] \union {r}
    BY <1>1, <1>2 DEF MemoryTyped
  <2> QED
    BY <1>2, <2>3, <2>4, WritesOff
<1>3. CASE Register(s, r)
  BY <1>1, <1>2, <1>3 DEF Register, Goto, Recorded
<1>4. CASE WallTimer(s, r)
  <2>1. Started(r) /\ UNCHANGED <<storeVars, job, life, proc, loss, owner, sup, todo, plan, kids,
                                   overtaken, good>>
        /\ ask' = [ask EXCEPT ![s] = @ \union {r}]
    BY <1>4 DEF WallTimer, Recorded, procVars
  <2> QED
    BY <1>1, <1>2, <2>1
<1>5. CASE Terminate(s, r)
  BY <1>1, <1>2, <1>5 DEF Terminate, Recorded
<1>6. CASE Join(s, r)
  <2>1. PICK l \in {"none", "due"} :
          loss' = [loss EXCEPT ![s][r] = l] /\ kids' \in {kids, [kids EXCEPT ![s] = @ \ {r}]}
    BY <1>6 DEF Join, LossDone
  <2> QED
    BY <1>1, <1>2, <1>6, <2>1 DEF Join, Recorded, Started
<1>7. CASE LossRead(s, r)
  <2>1. Started(r) /\ life[r] = "dead"
    BY <1>7 DEF LossRead, OnlyDeadWrittenOff, Started
  <2>2. CASE status[job[r]] = "running"
    <3>1. job[r] \in Tasks
      BY <1>1, <2>1, SupervisorAssumption DEF Recorded, MemoryTyped
    <3>2. claim[job[r]] \in Runs
      BY <2>2, <3>1 DEF Claimed, StoreTypeOK
    <3> QED
      BY <1>1, <1>2, <1>7, <2>1, <2>2, <3>2 DEF LossRead, procVars
  <2>3. CASE status[job[r]] # "running"
    BY <1>1, <1>2, <1>7, <2>1, <2>3 DEF LossRead, LossDone, procVars
  <2> QED
    BY <2>2, <2>3
<1> QED
  BY <1>3, <1>4, <1>5, <1>6, <1>7

\* What a step of the table needs of the rest.
LEMMA Together ==
  ASSUME StoreStep, Rest'
  PROVE  IInv' /\ Kept
BY DEF StoreStep, Rest, IInv, TypeOK, MemoryTyped

LEMMA LossSteps ==
  ASSUME IInv, NEW s \in Supervisors, NEW r \in Runs, LossWrite(s, r)
  PROVE  IInv' /\ Kept
<1> USE DEF IInv, TypeOK
<1>1. job[r] \in Tasks
  <2>1. loss[s][r] # "none" => life[r] = "dead"
    BY DEF OnlyDeadWrittenOff
  <2>2. CASE loss[s][r] = "none"
    BY <2>2, SupervisorAssumption DEF LossWrite
  <2>3. CASE loss[s][r] # "none"
    BY <2>1, <2>3, SupervisorAssumption DEF Recorded, Started, MemoryTyped
  <2> QED
    BY <2>2, <2>3
<1>2. StoreStep
  <2>1. Grown
    BY DEF Grown, LossWrite, procVars
  <2>2. CASE RetryLost(job[r], loss[s][r])
    BY <1>1, <2>1, <2>2, RetrySteps
  <2>3. CASE FinishTask(job[r], loss[s][r], "failed")
    BY <1>1, <2>1, <2>3, FinishSteps
  <2> QED
    BY <2>2, <2>3 DEF LossWrite
<1>3. MemoryTyped'
  <2>1. [loss EXCEPT ![s][r] = "none"] \in [Supervisors -> [Runs -> {"none", "due"} \union Runs]]
    BY TypesWritten
  <2>2. /\ loss' = [loss EXCEPT ![s][r] = "none"] /\ kids' = [kids EXCEPT ![s] = @ \ {r}]
        /\ UNCHANGED <<procVars, owner, sup, todo, plan, ask, overtaken>>
    BY DEF LossWrite, LossDone
  <2> QED
    BY <2>1, <2>2 DEF MemoryTyped, procVars
<1>4. Recorded'
  BY DEF Recorded, Started, LossWrite, LossDone, procVars, MemoryTyped
<1>5. OnlyDeadWrittenOff'
  BY DEF OnlyDeadWrittenOff, LossWrite, LossDone, procVars, MemoryTyped
<1> QED
  BY <1>2, <1>3, <1>4, <1>5, Together DEF Rest

LEMMA RecoverKeeps ==
  ASSUME IInv, NEW s \in Supervisors, Recover(s)
  PROVE  IInv' /\ Kept
<1> USE DEF IInv, TypeOK
<1>1. StoreStep
  <2>1. Grown
    BY DEF Grown, Recover, procVars
  <2>2. RecoverTasks({t \in Tasks : Stale(t)}) /\ {t \in Tasks : Stale(t)} \in SUBSET Tasks
    BY DEF Recover
  <2> QED
    BY <2>1, <2>2, RecoverSteps
<1>2. MemoryTyped'
  BY DEF Recover, Goto, MemoryTyped, procVars
<1>3. Recorded' /\ OnlyDeadWrittenOff'
  BY DEF Recover, Recorded, Started, OnlyDeadWrittenOff, procVars
<1> QED
  BY <1>1, <1>2, <1>3, Together DEF Rest

\* A new process: no record, no loss and no claim is of it.
LEMMA SpawnKeeps ==
  ASSUME IInv, NEW s \in Supervisors, NEW t \in Tasks, NEW r \in Runs, Spawn(s, t, r)
  PROVE  IInv' /\ Kept
<1> USE DEF IInv, TypeOK
<1>1. StoreStep
  <2>1. Grown
    BY DEF Grown, Spawn, MemoryTyped
  <2> QED
    BY <2>1, StoreKeeps DEF Spawn
<1>2. MemoryTyped'
  <2>1. /\ life' \in [Runs -> {"none", "boot", "claimed", "unclaimed", "over", "dead"}]
        /\ job' \in [Runs -> Tasks \union {None}]
        /\ proc' \in [Runs -> Listed \union {"none", "starting", "exited", "lost"}]
    BY DEF Spawn, MemoryTyped
  <2>2. /\ plan' \in [Supervisors -> SUBSET Tasks]
        /\ kids' \in [Supervisors -> SUBSET Runs]
        /\ sup' \in [Supervisors -> {"new", "wait", "reconcile", "dispatch", "register", "down"}]
    BY DEF Spawn, MemoryTyped, Goto
  <2> QED
    BY <2>1, <2>2 DEF Spawn, MemoryTyped
<1>3. Recorded'
  <2>1. \A q \in Runs : /\ q # r => proc'[q] = proc[q] /\ job'[q] = job[q] /\ life'[q] = life[q]
                        /\ q = r => proc'[q] = "starting" /\ job'[q] = t /\ life'[q] = "boot"
    BY DEF Spawn, MemoryTyped
  <2>2. /\ UNCHANGED <<todo, ask>>
        /\ \A u \in Supervisors : kids'[u] \subseteq kids[u] \union {r}
    BY DEF Spawn, MemoryTyped
  <2>3. \A q \in Runs : /\ (proc[q] # "none" <=> life[q] # "none")
                        /\ (job[q] # None <=> life[q] # "none")
    BY DEF Recorded, Started
  <2>4. \A q \in Runs : /\ (proc'[q] # "none" <=> life'[q] # "none")
                        /\ (job'[q] # None <=> life'[q] # "none")
                        /\ life[q] # "none" => life'[q] # "none"
    BY <2>1, <2>3, SupervisorAssumption
  <2>5. life'[r] # "none"
    BY <2>1
  <2> HIDE DEF IInv, TypeOK
  <2>6. \A u \in Supervisors :
          /\ \A q \in Runs, b \in BOOLEAN : <<q, b>> \in todo[u] => life[q] # "none"
          /\ \A q \in kids[u] \union ask[u] : q \in Runs /\ life[q] # "none"
    BY DEF IInv, TypeOK, MemoryTyped, Recorded, Started
  <2> QED
    BY <2>2, <2>4, <2>5, <2>6 DEF Recorded, Started
<1>4. OnlyDeadWrittenOff'
  BY DEF Spawn, OnlyDeadWrittenOff, MemoryTyped
<1> QED
  BY <1>1, <1>2, <1>3, <1>4, Together DEF Rest

\* A step of a process that lives on or dies: it is not forgotten that it was
\* started, and what is written off was dead already.
LEMMA BecomeKeeps ==
  ASSUME IInv, NEW r \in Runs, Alive(r), good' \in [Runs -> BOOLEAN],
         NEW l \in {"claimed", "unclaimed", "over", "dead"}, Become(r, l)
  PROVE  Rest' /\ Grown
<1> USE DEF IInv, TypeOK
<1>1. \A q \in Runs : /\ q # r => life'[q] = life[q]
                      /\ q = r => life'[q] = l
  BY DEF Become, MemoryTyped
<1>2. life[r] # "none" /\ life[r] # "dead" /\ l \notin {"none", "boot"}
  BY DEF Alive
<1>3. Grown
  BY <1>1, <1>2 DEF Grown
<1>4. MemoryTyped'
  BY DEF Become, MemoryTyped, supVars
<1>5. Recorded'
  BY <1>1, <1>2 DEF Recorded, Started, Become, supVars
<1>6. OnlyDeadWrittenOff'
  BY <1>1, <1>2 DEF OnlyDeadWrittenOff, Become, supVars
<1> QED
  BY <1>3, <1>4, <1>5, <1>6 DEF Rest

LEMMA ChildSteps ==
  ASSUME IInv, NEW r \in Runs,
         \/ ChildClaims(r) \/ ChildTurnedAway(r) \/ ChildSettles(r) \/ ChildExits(r) \/ Dies(r)
  PROVE  IInv' /\ Kept
<1> USE DEF IInv, TypeOK
<1>1. Alive(r) /\ job[r] \in Tasks
  <2>1. Alive(r)
    BY DEF Alive, ChildClaims, ChildTurnedAway, ChildSettles, ChildExits, Dies
  <2> QED
    BY <2>1, SupervisorAssumption DEF Alive, Recorded, Started, MemoryTyped
<1>2. CASE ChildClaims(r)
  <2>1. Rest'
    BY <1>1, <1>2, BecomeKeeps DEF ChildClaims, MemoryTyped
  <2>2. life[r] = "boot" /\ life' = [life EXCEPT ![r] = "claimed"] /\ StartTask(job[r], r)
    BY <1>2 DEF ChildClaims, Become
  <2>3. StoreStep
    BY <1>1, <2>2, ClaimSteps
  <2> QED
    BY <2>1, <2>3, Together
<1>3. CASE ChildTurnedAway(r)
  <2>1. PICK l \in {"unclaimed", "over"} : Become(r, l)
    BY <1>3 DEF ChildTurnedAway
  <2>2. Rest' /\ Grown
    BY <1>1, <1>3, <2>1, BecomeKeeps DEF ChildTurnedAway, MemoryTyped
  <2>3. StoreStep
    BY <1>3, <2>2, StoreKeeps DEF ChildTurnedAway
  <2> QED
    BY <2>2, <2>3, Together
<1>4. CASE ChildSettles(r)
  <2>1. Rest' /\ Grown
    BY <1>1, <1>4, BecomeKeeps DEF ChildSettles, MemoryTyped
  <2>2. StoreStep
    BY <1>1, <1>4, <2>1, FinishSteps, RetrySteps DEF ChildSettles
  <2> QED
    BY <2>1, <2>2, Together
<1>5. CASE ChildExits(r)
  <2>1. good' \in [Runs -> BOOLEAN]
    <3>1. (status[job[r]] = "succeeded") \in BOOLEAN
      BY Zenon
    <3>2. good' = [good EXCEPT ![r] = status[job[r]] = "succeeded"]
      BY <1>5 DEF ChildExits
    <3> QED
      BY <3>1, <3>2 DEF MemoryTyped
  <2>2. Rest' /\ Grown
    BY <1>1, <1>5, <2>1, BecomeKeeps DEF ChildExits
  <2>3. StoreStep
    BY <1>5, <2>2, StoreKeeps DEF ChildExits
  <2> QED
    BY <2>2, <2>3, Together
<1>6. CASE Dies(r)
  <2>1. Rest' /\ Grown
    BY <1>1, <1>6, BecomeKeeps DEF Dies, MemoryTyped
  <2>2. StoreStep
    BY <1>6, <2>1, StoreKeeps DEF Dies
  <2> QED
    BY <2>1, <2>2, Together
<1> QED
  BY <1>2, <1>3, <1>4, <1>5, <1>6

LEMMA TableSteps ==
  ASSUME IInv, NEW t \in Tasks, CancelByApi(t) \/ Expire(t) \/ Due(t)
  PROVE  IInv' /\ Kept
<1> USE DEF IInv, TypeOK
<1>1. UNCHANGED <<supVars, procVars>>
  BY DEF CancelByApi, Expire, Due
<1>2. Grown
  BY <1>1 DEF Grown, procVars
<1>3. Rest'
  BY <1>1 DEF Rest, MemoryTyped, Recorded, Started, OnlyDeadWrittenOff, supVars, procVars
<1>4. CASE CancelByApi(t)
  BY <1>2, <1>3, <1>4, CancelSteps, Together DEF CancelByApi
<1>5. CASE Expire(t) \/ Due(t)
  <2>1. UNCHANGED <<status, claim, tries, edges, phase>>
    BY <1>5 DEF Expire, Due, ExpireLease, Unpark
  <2>2. lease' \in [Tasks -> {"none", "live", "expired"}]
    BY <1>5 DEF Expire, Due, ExpireLease, Unpark, StoreTypeOK
  <2>3. parked' \in [Tasks -> BOOLEAN]
    BY <1>5 DEF Expire, Due, ExpireLease, Unpark, StoreTypeOK
  <2>4. StoreStep
    BY <1>2, <2>1, <2>2, <2>3
       DEF StoreStep, StoreTypeOK, Claimed, Grown, Kept, Promise!promiseVars
  <2> QED
    BY <1>3, <2>4, Together
<1> QED
  BY <1>4, <1>5

----------------------------------------------------------------------------
(* The number of worker processes.                                         *)

\* Unless a lease was taken from it, only the owner of the lease is up.
Sole == ~overtaken => \A s \in Supervisors : Up(s) => owner = s

\* Whatever a supervisor is about to write was read from a record that is complete.
Entered ==
  \A s \in Supervisors :
    /\ \A r \in ask[s] : proc[r] \notin {"none", "starting"}
    /\ \A r \in Runs, b \in BOOLEAN : <<r, b>> \in todo[s] => proc[r] \notin {"none", "starting"}

\* There is room for the process that is about to be registered.
Room ==
  ~overtaken =>
    \A s \in Supervisors : sup[s] = "register" => Cardinality(Working) < MaxWorkers

EverStarted == {r \in Runs : Started(r)}

LimitInv == Sole /\ Entered /\ IsFiniteSet(EverStarted) /\ Room /\ WithinMaxWorkers

\* A record once made stays one, and a process once started stays so.
Lasting ==
  /\ \A q \in Runs : proc[q] \notin {"none", "starting"} => proc'[q] \notin {"none", "starting"}
  /\ overtaken => overtaken'

\* What all steps have in common but those that spawn and register a process.
Quiet ==
  /\ Lasting
  /\ \A q \in Runs : /\ life[q] = "none" => life'[q] = "none"
                     /\ Alive(q)' => Alive(q)
                     /\ proc[q] = "starting" => proc'[q] = "starting"
  /\ \A s \in Supervisors : sup'[s] = "register" => sup[s] = "register"

LEMMA LimitInit == Init => LimitInv
<1> SUFFICES ASSUME Init
             PROVE  LimitInv
  OBVIOUS
<1>1. EverStarted = {} /\ Working = {}
  BY DEF Init, EverStarted, Started, Working, Alive
<1>2. Cardinality({}) = 0 /\ IsFiniteSet({})
  BY FS_EmptySet
<1>3. Sole /\ Entered /\ Room
  BY DEF Init, Sole, Entered, Room, Up
<1>4. WithinMaxWorkers
  BY <1>1, <1>2, SupervisorAssumption DEF WithinMaxWorkers
<1> QED
  BY <1>1, <1>2, <1>3, <1>4 DEF LimitInv

\* The registered, the listed and the working are finitely many.
LEMMA Finite ==
  ASSUME IInv, IsFiniteSet(EverStarted), NEW S, S \subseteq EverStarted
  PROVE  IsFiniteSet(S) /\ Cardinality(S) \in Nat
BY FS_Subset, FS_CardinalityType

LEMMA WorkingStarted == Working \subseteq EverStarted
BY DEF Working, EverStarted, Started, Alive

LEMMA QuietCounts ==
  ASSUME IInv, LimitInv, Quiet
  PROVE  IsFiniteSet(EverStarted)' /\ Room' /\ WithinMaxWorkers'
<1>1. Working' \subseteq Working /\ EverStarted' \subseteq EverStarted
  BY DEF Quiet, Working, EverStarted, Started
<1>2. IsFiniteSet(EverStarted) /\ IsFiniteSet(Working)
  BY WorkingStarted, Finite DEF LimitInv
<1>3. IsFiniteSet(EverStarted')
  BY <1>1, <1>2, FS_Subset
<1>4. Cardinality(Working') <= Cardinality(Working)
      /\ Cardinality(Working') \in Nat /\ Cardinality(Working) \in Nat
  BY <1>1, <1>2, FS_Subset, FS_CardinalityType
<1>5. Room'
  BY <1>4, SupervisorAssumption DEF Quiet, Lasting, LimitInv, Room
<1>6. WithinMaxWorkers'
  BY <1>4, SupervisorAssumption DEF Quiet, Lasting, LimitInv, WithinMaxWorkers
<1> QED
  BY <1>3, <1>5, <1>6

\* A step that leaves the supervisors' places, the owner and what they have read
\* alone or forgets some of it.
LEMMA QuietStep ==
  ASSUME IInv, LimitInv, Quiet, UNCHANGED owner,
         \A s \in Supervisors : /\ Up(s)' => Up(s)
                                /\ todo'[s] \subseteq todo[s] /\ ask'[s] \subseteq ask[s]
  PROVE  LimitInv'
<1>1. Sole'
  BY DEF LimitInv, Sole, Quiet, Lasting
<1>2. Entered'
  BY DEF LimitInv, Entered, Quiet, Lasting, IInv, TypeOK, MemoryTyped
<1> QED
  BY <1>1, <1>2, QuietCounts DEF LimitInv

\* Steps of the lease.
LEMMA LeaseQuiet ==
  ASSUME IInv, LimitInv, NEW s \in Supervisors,
         Start(s) \/ Crash(s) \/ Stop(s) \/ LeaseLost(s)
  PROVE  LimitInv'
<1> USE DEF IInv, TypeOK, MemoryTyped
<1>1. Quiet
  <2>1. UNCHANGED procVars
    BY DEF Start, Crash, Stop, LeaseLost, Gone
  <2>2. \A u \in Supervisors : sup'[u] = "register" => sup[u] = "register"
    BY DEF Start, Crash, Stop, LeaseLost, Gone, Goto
  <2>3. overtaken => overtaken'
    BY DEF Start, Crash, Stop, LeaseLost, Gone
  <2> QED
    BY <2>1, <2>2, <2>3 DEF Quiet, Lasting, procVars, Alive
<1>2. Entered'
  <2>1. UNCHANGED procVars
        /\ \A u \in Supervisors : todo'[u] \subseteq todo[u] /\ ask'[u] \subseteq ask[u]
    BY DEF Start, Crash, Stop, LeaseLost, Gone
  <2> QED
    BY <2>1 DEF LimitInv, Entered, procVars
<1>3. CASE Start(s)
  <2>1. Sole'
    BY <1>3, SupervisorAssumption DEF LimitInv, Sole, Start, Goto, Up
  <2> QED
    BY <1>1, <1>2, <2>1, QuietCounts DEF LimitInv
<1>4. CASE Gone(s) /\ (owner' = owner \/ (owner = s /\ owner' = None))
  <2>1. Sole'
    BY <1>4 DEF LimitInv, Sole, Gone, Goto, Up
  <2> QED
    BY <1>1, <1>2, <2>1, QuietCounts DEF LimitInv
<1> QED
  BY <1>3, <1>4 DEF Crash, Stop, LeaseLost

\* The table is read, a timer finds a child alive.
LEMMA ReadsEntered ==
  ASSUME IInv, LimitInv, NEW s \in Supervisors,
         TickStarts(s) \/ \E r \in Runs : WallTimer(s, r)
  PROVE  LimitInv'
<1> USE DEF IInv, TypeOK, MemoryTyped
<1>1. Quiet
  BY DEF TickStarts, WallTimer, Quiet, Lasting, procVars, Goto, Alive
<1>2. Sole'
  BY DEF LimitInv, Sole, TickStarts, WallTimer, Goto, Up
<1>3. Entered'
  <2>1. CASE TickStarts(s)
    <3>1. \A r \in Runs, b \in BOOLEAN : <<r, b>> \in todo'[s] => proc[r] \in Listed
      BY <2>1, Zenon DEF TickStarts
    <3>2. /\ UNCHANGED <<proc, ask>>
          /\ \A u \in Supervisors : u # s => todo'[u] = todo[u]
      BY <2>1 DEF TickStarts, procVars
    <3> QED
      BY <3>1, <3>2 DEF LimitInv, Entered, Listed
  <2>2. ASSUME NEW r \in Runs, WallTimer(s, r)
        PROVE  Entered'
    BY <2>2 DEF LimitInv, Entered, WallTimer, procVars
  <2> QED
    BY <2>1, <2>2
<1> QED
  BY <1>1, <1>2, <1>3, QuietCounts DEF LimitInv

\* A record that is written again was complete.
LEMMA WritesQuiet ==
  ASSUME IInv, LimitInv, NEW s \in Supervisors, NEW r \in Runs,
         \/ \E b \in BOOLEAN :
              ReconcileOwn(s, r, b) \/ ReconcileGone(s, r, b) \/ ReconcileAdopt(s, r, b)
         \/ Terminate(s, r) \/ Join(s, r) \/ LossRead(s, r) \/ LossWrite(s, r)
  PROVE  LimitInv'
<1> USE DEF IInv, TypeOK, MemoryTyped
<1>1. /\ UNCHANGED <<owner, sup, overtaken, life>>
      /\ \A u \in Supervisors : todo'[u] \subseteq todo[u] /\ ask'[u] \subseteq ask[u]
  <2>1. ASSUME NEW b \in BOOLEAN, Taken(s, r, b), UNCHANGED life
        PROVE  <1>1!1 /\ <1>1!2
    <3>1. todo' = [todo EXCEPT ![s] = @ \ {<<r, b>>}] /\ UNCHANGED <<owner, sup, overtaken, ask>>
      BY <2>1 DEF Taken
    <3> QED
      BY <2>1, <3>1
  <2>2. ASSUME NEW b \in BOOLEAN,
               ReconcileOwn(s, r, b) \/ ReconcileGone(s, r, b) \/ ReconcileAdopt(s, r, b)
        PROVE  Taken(s, r, b) /\ UNCHANGED life
    BY <2>2 DEF ReconcileOwn, ReconcileGone, ReconcileAdopt
  <2>3. CASE Terminate(s, r)
    <3>1. ask' = [ask EXCEPT ![s] = @ \ {r}] /\ UNCHANGED <<owner, sup, overtaken, life, todo>>
      BY <2>3 DEF Terminate, supVars
    <3> QED
      BY <3>1
  <2>4. CASE Join(s, r)
    BY <2>4 DEF Join
  <2>5. CASE LossRead(s, r)
    BY <2>5 DEF LossRead, procVars
  <2>6. CASE LossWrite(s, r)
    BY <2>6 DEF LossWrite, procVars
  <2> QED
    BY <2>1, <2>2, <2>3, <2>4, <2>5, <2>6
<1>2. \/ UNCHANGED proc
      \/ /\ proc[r] \notin {"none", "starting"}
         /\ \E p \in Listed \union {"exited", "lost"} : proc' = [proc EXCEPT ![r] = p]
  <2>1. CASE Join(s, r)
    <3>1. proc[r] # "none"
      BY <2>1 DEF Join, Recorded, Started
    <3> QED
      BY <2>1, <3>1 DEF Join
  <2>2. CASE Terminate(s, r)
    BY <2>2 DEF Terminate, LimitInv, Entered, Listed
  <2>3. CASE LossRead(s, r) \/ LossWrite(s, r)
    BY <2>3 DEF LossRead, LossWrite, procVars
  <2>4. ASSUME NEW b \in BOOLEAN, Taken(s, r, b)
        PROVE  proc[r] \notin {"none", "starting"}
    BY <2>4 DEF Taken, LimitInv, Entered
  <2>5. ASSUME NEW b \in BOOLEAN,
               ReconcileOwn(s, r, b) \/ ReconcileGone(s, r, b) \/ ReconcileAdopt(s, r, b)
        PROVE  <1>2!1 \/ <1>2!2
    BY <2>4, <2>5 DEF ReconcileOwn, ReconcileGone, ReconcileAdopt, Listed
  <2> QED
    BY <2>1, <2>2, <2>3, <2>5
<1>3. Quiet
  BY <1>1, <1>2 DEF Quiet, Lasting, Listed, Alive
<1> QED
  BY <1>1, <1>3, QuietStep DEF Up

\* The rest of a tick that leaves the records alone.
LEMMA TickQuiet ==
  ASSUME IInv, LimitInv, NEW s \in Supervisors,
         Recover(s) \/ TickEnds(s) \/ \E t \in Tasks : Skip(s, t)
  PROVE  LimitInv'
<1> USE DEF IInv, TypeOK, MemoryTyped
<1>1. /\ UNCHANGED <<owner, overtaken, life, proc, todo, ask>>
      /\ \A u \in Supervisors : sup'[u] \in {sup[u], "wait", "dispatch"} /\ (Up(u)' => Up(u))
  BY DEF Recover, TickEnds, Skip, Goto, Up, procVars
<1>2. Quiet
  BY <1>1 DEF Quiet, Lasting, Alive
<1> QED
  BY <1>1, <1>2, QuietStep

\* What is not done by supervisors.
LEMMA OthersQuiet ==
  ASSUME IInv, LimitInv,
         \/ \E r \in Runs : \/ ChildClaims(r) \/ ChildTurnedAway(r) \/ ChildSettles(r)
                            \/ ChildExits(r) \/ Dies(r)
         \/ \E t \in Tasks : CancelByApi(t) \/ Expire(t) \/ Due(t)
  PROVE  LimitInv'
<1> USE DEF IInv, TypeOK, MemoryTyped
<1>1. UNCHANGED supVars /\ UNCHANGED proc
  BY DEF ChildClaims, ChildTurnedAway, ChildSettles, ChildExits, Dies, Become, CancelByApi, Expire,
         Due, procVars
<1>2. \/ UNCHANGED life
      \/ \E r \in Runs, l \in {"claimed", "unclaimed", "over", "dead"} :
           Alive(r) /\ life' = [life EXCEPT ![r] = l]
  BY DEF ChildClaims, ChildTurnedAway, ChildSettles, ChildExits, Dies, Become, CancelByApi, Expire,
         Due, procVars, Alive
<1>3. Quiet
  BY <1>1, <1>2 DEF Quiet, Lasting, Alive, supVars
<1> QED
  BY <1>1, <1>3, QuietStep DEF supVars, Up

\* HasRoom counts every record that is listed; a process that works has one.
LEMMA SpawnHasRoom ==
  ASSUME IInv, LimitInv, NEW s \in Supervisors, NEW t \in Tasks, NEW r \in Runs, Spawn(s, t, r)
  PROVE  LimitInv'
<1> USE DEF IInv, TypeOK, MemoryTyped
<1> DEFINE Active == {q \in Runs : proc[q] \in Listed}
<1>1. life[r] = "none" /\ proc[r] = "none"
  BY DEF Spawn, Recorded, Started
<1>2. /\ \A q \in Runs : q # r => life'[q] = life[q] /\ proc'[q] = proc[q]
      /\ life'[r] = "boot" /\ proc'[r] = "starting"
  BY DEF Spawn
<1>3. Working' = Working
  BY <1>1, <1>2 DEF Working, Alive
<1>4. EverStarted' = EverStarted \union {r} /\ IsFiniteSet(EverStarted)'
  <2>1. EverStarted' = EverStarted \union {r}
    BY <1>2 DEF EverStarted, Started
  <2>2. IsFiniteSet(EverStarted \union {r})
    BY FS_AddElement DEF LimitInv
  <2> QED
    BY <2>1, <2>2
<1>5. Working \subseteq Active /\ Active \subseteq EverStarted
  BY DEF Working, OnlyDeadWrittenOff, Alive, EverStarted, Recorded, Started, Listed
<1>6. Cardinality(Working) < MaxWorkers
  <2>1. Cardinality(Active) < MaxWorkers
    BY DEF Spawn, HasRoom
  <2>2. IsFiniteSet(Active) /\ Cardinality(Active) \in Nat
    BY <1>5, Finite DEF LimitInv
  <2>3. Cardinality(Working) \in Nat /\ Cardinality(Working) <= Cardinality(Active)
    BY <1>5, <2>2, FS_Subset, FS_CardinalityType
  <2> QED
    BY <2>1, <2>2, <2>3, SupervisorAssumption
<1>7. Room'
  BY <1>3, <1>6 DEF Room
<1>8. WithinMaxWorkers'
  BY <1>3 DEF LimitInv, WithinMaxWorkers, Spawn
<1>9. Sole'
  BY DEF LimitInv, Sole, Spawn, Goto, Up
<1>10. Entered'
  BY <1>1, <1>2 DEF LimitInv, Entered, Spawn
<1> QED
  BY <1>4, <1>7, <1>8, <1>9, <1>10 DEF LimitInv

\* The one supervisor that is up fills the room it has.
LEMMA RegisterFills ==
  ASSUME IInv, LimitInv, NEW s \in Supervisors, NEW r \in Runs, Register(s, r)
  PROVE  LimitInv'
<1> USE DEF IInv, TypeOK, MemoryTyped
<1>1. Working' \subseteq Working \union {r} /\ EverStarted' = EverStarted
  BY DEF Register, Working, Alive, EverStarted, Started
<1>2. IsFiniteSet(Working) /\ Cardinality(Working) \in Nat
  BY WorkingStarted, Finite DEF LimitInv
<1>3. Cardinality(Working') \in Nat /\ Cardinality(Working') <= Cardinality(Working) + 1
  <2> HIDE DEF IInv, TypeOK, MemoryTyped
  <2> DEFINE W == Working
  <2>1. IsFiniteSet(W \union {r}) /\ Cardinality(W \union {r}) \in {Cardinality(W), Cardinality(W) + 1}
    <3> HIDE DEF W
    <3> SUFFICES ASSUME IsFiniteSet(W)
                 PROVE  <2>1!1 /\ <2>1!2
      BY <1>2 DEF W
    <3> QED
      BY FS_AddElement
  <2>2. IsFiniteSet(Working') /\ Cardinality(Working') <= Cardinality(Working \union {r})
    BY <1>1, <2>1, FS_Subset
  <2> QED
    BY <1>2, <2>1, <2>2, FS_CardinalityType
<1>4. ~overtaken => Cardinality(Working) < MaxWorkers
  BY DEF LimitInv, Room, Register
<1>5. WithinMaxWorkers'
  BY <1>2, <1>3, <1>4, SupervisorAssumption DEF WithinMaxWorkers, Register
<1>6. Sole'
  BY DEF LimitInv, Sole, Register, Goto, Up
<1>7. Room'
  <2>1. ASSUME ~overtaken, NEW u \in Supervisors, sup'[u] = "register"
        PROVE  FALSE
    <3>1. u # s /\ sup[u] = "register" /\ sup[s] = "register"
      BY <2>1 DEF Register, Goto
    <3> QED
      BY <2>1, <3>1 DEF LimitInv, Sole, Up
  <2> QED
    BY <2>1 DEF Room, Register
<1>8. Entered'
  BY DEF LimitInv, Entered, Register
<1> QED
  BY <1>1, <1>5, <1>6, <1>7, <1>8 DEF LimitInv

----------------------------------------------------------------------------
(* The invariant, and what follows from it.                                *)

LEMMA StepKeeps == IInv /\ [Next]_vars => IInv' /\ Kept
<1> SUFFICES ASSUME IInv, [Next]_vars
             PROVE  IInv' /\ Kept
  OBVIOUS
<1>1. CASE UNCHANGED vars
  <2>1. Rest'
    BY <1>1 DEF IInv, TypeOK, Rest, MemoryTyped, Recorded, Started, OnlyDeadWrittenOff, vars,
                supVars, procVars
  <2> QED
    BY <1>1, <2>1, SupervisorMoves DEF vars, procVars
<1>2. ASSUME NEW s \in Supervisors,
             Start(s) \/ Crash(s) \/ Stop(s) \/ Loop(s)
      PROVE  IInv' /\ Kept
  BY <1>2, LifeSteps, TickSteps, ReconcileSteps, RecordSteps, RecoverKeeps, SpawnKeeps
     DEF Loop, Reconcile, Dispatch
<1>3. ASSUME NEW s \in Supervisors, NEW r \in Runs,
             Reclaim(s, r) \/ Join(s, r) \/ WallTimer(s, r) \/ Terminate(s, r)
      PROVE  IInv' /\ Kept
  BY <1>3, RecordSteps, LossSteps DEF Reclaim
<1> QED
  BY <1>1, <1>2, <1>3, ChildSteps, TableSteps DEF Next

\* The invariant that the others follow from.
THEOREM InvariantHolds == Spec => []IInv
<1>1. IInv /\ [Next]_vars => IInv'
  BY StepKeeps
<1> QED
  BY <1>1, InitHolds, PTL DEF Spec

\* Every table and everything a supervisor holds in memory stays within its
\* type, through crashes, takeovers and late writes (packages/amadeus/
\* task_supervisor.py, and SubprocessTaskRunner of workers.py).
THEOREM TypeCorrect == Spec => []TypeOK
<1>1. IInv => TypeOK
  BY DEF IInv
<1> QED
  BY <1>1, InvariantHolds, PTL

\* For any number of supervisors, processes and tasks, nothing that is written
\* off, or being reclaimed, is alive (reconcile_durable_processes and
\* _join_process of workers.py).
THEOREM DeadAreWrittenOff == Spec => []OnlyDeadWrittenOff
<1>1. IInv => OnlyDeadWrittenOff
  BY DEF IInv
<1> QED
  BY <1>1, InvariantHolds, PTL

\* Supervisors, their workers, the API and the clock together implement the
\* promise of TaskPromise: every step maps to one of its steps or to a stutter
\* (_recover_process_loss of workers.py, retry_task and fail_task of memory.py).
THEOREM KeepsPromise == Spec => PromiseKept
<1>1. IInv /\ [Next]_vars => Kept
  BY StepKeeps
<1> QED
  BY <1>1, InvariantHolds, PromiseInit, PTL DEF Spec, PromiseKept, Promise!Spec, Kept

\* Without takeovers, the worker processes of all supervisors together, those a
\* predecessor left included, are never more than max_workers: the limit is read
\* from the registry and only the supervisor that is up adds to it
\* (SubprocessTaskRunner.submit of workers.py).
THEOREM LimitIsKept == Spec => []WithinMaxWorkers
<1>1. IInv /\ LimitInv /\ [Next]_vars => LimitInv'
  <2> SUFFICES ASSUME IInv, LimitInv, [Next]_vars
               PROVE  LimitInv'
    OBVIOUS
  <2>1. CASE UNCHANGED vars
    BY <2>1, QuietStep DEF vars, supVars, procVars, Quiet, Lasting, Alive, Up
  <2>2. ASSUME NEW s \in Supervisors, Start(s) \/ Crash(s) \/ Stop(s) \/ Loop(s)
        PROVE  LimitInv'
    BY <2>2, LeaseQuiet, ReadsEntered, WritesQuiet, TickQuiet, SpawnHasRoom, RegisterFills
       DEF Loop, Reconcile, Dispatch
  <2>3. ASSUME NEW s \in Supervisors, NEW r \in Runs,
               Reclaim(s, r) \/ Join(s, r) \/ WallTimer(s, r) \/ Terminate(s, r)
        PROVE  LimitInv'
    BY <2>3, ReadsEntered, WritesQuiet DEF Reclaim
  <2> QED
    BY <2>1, <2>2, <2>3, OthersQuiet DEF Next
<1>2. LimitInv => WithinMaxWorkers
  BY DEF LimitInv
<1> QED
  BY <1>1, <1>2, LimitInit, InvariantHolds, PTL DEF Spec
=============================================================================
