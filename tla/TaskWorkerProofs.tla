-------------------------- MODULE TaskWorkerProofs --------------------------
(***************************************************************************)
(* What holds of TaskWorker for any tasks, runs, clients, graphs, budgets  *)
(* and widths.                                                             *)
(***************************************************************************)
EXTENDS TaskWorker, FiniteSetTheorems, TLAPS

----------------------------------------------------------------------------
(* The steps that touch a row of the tasks table, and all the others.      *)

RowStep ==
  \/ \E r \in Runs : \/ Claim(r) \/ SettleBlock(r) \/ Write(r) \/ Heartbeat(r)
                     \/ LossWrite(r)
  \/ \E c \in Clients : Commit(c)
  \/ Recover
  \/ \E t \in Tasks : Expire(t) \/ Due(t)

\* The step of a run leaves the rows, or it is one of three.
LEMMA RunSteps ==
  ASSUME NEW r \in Runs, RunStep(r)
  PROVE  Claim(r) \/ SettleBlock(r) \/ Write(r) \/ UNCHANGED storeVars
BY DEF RunStep, NotStarted, EnterUnclaimed, Reload, CreateAttempt, EndTurn,
       SettleTerminal, SettleNotOwner, SettleChecked, Raise, Rescue

\* Every step is a row step or leaves the rows alone.
LEMMA RowSteps == [Next]_vars => RowStep \/ UNCHANGED storeVars
<1> SUFFICES ASSUME [Next]_vars
             PROVE  RowStep \/ UNCHANGED storeVars
  OBVIOUS
<1>1. ASSUME NEW r \in Runs, RunStep(r)
      PROVE  RowStep \/ UNCHANGED storeVars
  BY <1>1, RunSteps DEF RowStep
<1>2. ASSUME NEW r \in Runs, NEW t \in Tasks, Submit(r, t)
      PROVE  UNCHANGED storeVars
  BY <1>2 DEF Submit
<1>3. ASSUME NEW r \in Runs, Die(r) \/ LossRead(r) \/ LossForgotten(r)
      PROVE  UNCHANGED storeVars
  BY <1>3 DEF Die, LossRead, LossForgotten
<1>4. ASSUME NEW c \in Clients, CallStep(c)
      PROVE  RowStep \/ UNCHANGED storeVars
  BY <1>4 DEF CallStep, Cancel, Resume, Approve, Signal, RowStep
<1>5. ASSUME ScanStale \/ Restart
      PROVE  UNCHANGED storeVars
  BY <1>5 DEF ScanStale, Restart
<1>6. CASE UNCHANGED vars
  BY <1>6 DEF vars
<1> QED
  BY <1>1, <1>2, <1>3, <1>4, <1>5, <1>6 DEF Next, RowStep

----------------------------------------------------------------------------
(* Types.                                                                  *)

\* A run that was submitted has its task, and so has a call under way; a
\* resume under way carries a checkpoint of its own making; a process that is
\* being recovered is over.
JobsAndCalls ==
  /\ \A r \in Runs : pc[r] # "idle" => job[r] \in Tasks
  /\ \A r \in Runs : loss[r] # "none" => r \in Watched /\ pc[r] = "done"
  /\ \A c \in Clients : call[c].stage # "idle" => call[c].task \in Tasks
  /\ \A c \in Clients : call[c].op = "resume" => call[c].phase \in {"granted", "resumed"}

Typed == TypeOK /\ JobsAndCalls

\* The initial state has the types, and no job or call is under way.
LEMMA TypedInit == Init => Typed
BY StoreAssumption, WorkerAssumption
   DEF Init, Typed, TypeOK, StoreTypeOK, JobsAndCalls, Status, Terminal, Phases,
       Pcs, Outcomes, Attempts, Calls, NoCall

\* The rows keep their types.
LEMMA StoreTyped == Typed /\ [Next]_vars => StoreTypeOK'
<1> SUFFICES ASSUME Typed, RowStep
             PROVE  StoreTypeOK'
  <2>1. UNCHANGED storeVars /\ StoreTypeOK => StoreTypeOK'
    BY DEF storeVars, StoreTypeOK
  <2> QED
    BY <2>1, RowSteps DEF Typed, TypeOK
<1> USE DEF Status, Terminal, Phases
<1>1. ASSUME NEW r \in Runs, Claim(r)
      PROVE  StoreTypeOK'
  <2>1. job[r] \in Tasks
    BY <1>1 DEF Claim, Typed, JobsAndCalls
  <2> QED
    BY <1>1, <2>1 DEF Claim, StartTask, StoreTypeOK, Typed, TypeOK
<1>2. ASSUME NEW r \in Runs, SettleBlock(r)
      PROVE  StoreTypeOK'
  BY <1>2 DEF SettleBlock, BlockTask, Release, StoreTypeOK, Typed, TypeOK
<1>3. ASSUME NEW r \in Runs, Write(r)
      PROVE  StoreTypeOK'
  BY <1>3 DEF Write, HandleFailure, FinishTask, RetryTask, CancelTask, Release,
              storeVars, StoreTypeOK, Typed, TypeOK
<1>4. ASSUME NEW r \in Runs, Heartbeat(r)
      PROVE  StoreTypeOK'
  BY <1>4 DEF Heartbeat, HeartbeatTask, StoreTypeOK, Typed, TypeOK
<1>l. ASSUME NEW r \in Runs, LossWrite(r)
      PROVE  StoreTypeOK'
  BY <1>l DEF LossWrite, RetryLost, FinishTask, Release, storeVars, StoreTypeOK, Typed, TypeOK
<1>5. ASSUME NEW c \in Clients, Commit(c)
      PROVE  StoreTypeOK'
  BY <1>5 DEF Commit, CancelTask, ResumeTask, ApproveTask, Release, storeVars,
              StoreTypeOK, Typed, TypeOK, JobsAndCalls
<1>6. ASSUME Recover
      PROVE  StoreTypeOK'
  BY <1>6 DEF Recover, RecoverTasks, StoreTypeOK, Typed, TypeOK
<1>7. ASSUME NEW t \in Tasks, Expire(t) \/ Due(t)
      PROVE  StoreTypeOK'
  BY <1>7 DEF Expire, ExpireLease, Due, Unpark, StoreTypeOK, Typed, TypeOK
<1> QED
  BY <1>1, <1>2, <1>3, <1>4, <1>l, <1>5, <1>6, <1>7 DEF RowStep

RunTypeOK ==
  /\ pc \in [Runs -> Pcs]
  /\ job \in [Runs -> Tasks \union {None}]
  /\ outcome \in [Runs -> Outcomes]
  /\ snap \in [Runs -> Nat]
  /\ attempt \in [Runs -> Attempts]
  /\ stop \in [Runs -> BOOLEAN]
  /\ loss \in [Runs -> {"none", "due"} \union Runs]
  /\ slot \in [Tasks -> Runs \union {None}]
  /\ \A r \in Runs : pc[r] # "idle" => job[r] \in Tasks
  /\ \A r \in Runs : loss[r] # "none" => r \in Watched /\ pc[r] = "done"

\* The program counters, locals and slots keep their types.
LEMMA RunTyped == Typed /\ [Next]_vars => RunTypeOK'
<1> SUFFICES ASSUME Typed, [Next]_vars
             PROVE  RunTypeOK'
  OBVIOUS
<1>0. RunTypeOK /\ tries \in [Tasks -> Nat]
  BY DEF Typed, TypeOK, StoreTypeOK, JobsAndCalls, RunTypeOK
<1>1. ASSUME UNCHANGED <<runVars, slot>>
      PROVE  RunTypeOK'
  BY <1>0, <1>1 DEF runVars, RunTypeOK
<1>2. ASSUME NEW r \in Runs, NEW t \in Tasks, Submit(r, t)
      PROVE  RunTypeOK'
  BY <1>0, <1>2 DEF Submit, Goto, RunTypeOK, Pcs
<1>3. ASSUME NEW r \in Runs, Claim(r) \/ CreateAttempt(r) \/ SettleChecked(r)
      PROVE  RunTypeOK'
  BY <1>0, <1>3 DEF Claim, CreateAttempt, SettleChecked, Goto, RunTypeOK, Pcs, Attempts
<1>a. ASSUME NEW r \in Runs, pc[r] # "idle", Return(r), UNCHANGED <<job, attempt>>,
             slot' \in [Tasks -> Runs \union {None}]
      PROVE  RunTypeOK'
  BY <1>0, <1>a DEF Return, Goto, RunTypeOK, Pcs, Outcomes
<1>b. ASSUME NEW r \in Runs, pc[r] # "idle", Leave(r), UNCHANGED <<job, attempt>>
      PROVE  RunTypeOK'
  <2>1. slot' \in [Tasks -> Runs \union {None}]
    BY <1>0, <1>b DEF Leave, RunTypeOK
  <2> QED
    BY <1>a, <1>b, <2>1 DEF Leave
<1>c. ASSUME NEW r \in Runs, Goto(r, "rescue"), pc[r] # "idle",
             UNCHANGED <<job, outcome, snap, attempt, stop, loss, slot>>, pc[r] # "done"
      PROVE  RunTypeOK'
  BY <1>0, <1>c DEF Goto, RunTypeOK, Pcs
<1>4. ASSUME NEW r \in Runs, NotStarted(r) \/ Die(r)
      PROVE  RunTypeOK'
  <2>1. pc[r] # "idle" /\ Return(r) /\ UNCHANGED <<job, attempt, slot>>
    BY <1>4 DEF NotStarted, Die, Active, Beating
  <2> QED
    BY <1>0, <1>a, <2>1 DEF RunTypeOK
<1>d. ASSUME NEW r \in Runs, pc[r] # "idle", Enter(r),
             pc[r] # "done", UNCHANGED <<job, outcome, attempt, stop, loss>>
      PROVE  RunTypeOK'
  <2>1. slot' \in [Tasks -> Runs \union {None}]
    BY <1>0, <1>d DEF Enter, RunTypeOK
  <2>2. job[r] \in Tasks /\ tries[job[r]] \in Nat
    BY <1>0, <1>d DEF RunTypeOK
  <2> QED
    BY <1>0, <1>d, <2>1, <2>2 DEF Enter, Goto, RunTypeOK, Pcs
<1>5. ASSUME NEW r \in Runs, EnterUnclaimed(r) \/ Reload(r)
      PROVE  RunTypeOK'
  <2>1. CASE Enter(r) /\ UNCHANGED <<job, outcome, attempt, stop, loss>>
    BY <1>5, <1>d, <2>1 DEF EnterUnclaimed, Reload
  <2>2. CASE Return(r) /\ UNCHANGED <<job, attempt, slot>>
    BY <1>0, <1>5, <1>a, <2>2 DEF EnterUnclaimed, Reload, RunTypeOK
  <2> QED
    BY <1>5, <2>1, <2>2 DEF EnterUnclaimed, Reload
<1>6. ASSUME NEW r \in Runs, NEW o \in DOMAIN AttemptFor, EndTurn(r, o)
      PROVE  RunTypeOK'
  BY <1>0, <1>6 DEF EndTurn, AttemptFor, Goto, RunTypeOK, Pcs, Outcomes, Attempts
<1>7. ASSUME NEW r \in Runs,
             SettleTerminal(r) \/ SettleNotOwner(r) \/ SettleBlock(r) \/ Write(r)
      PROVE  RunTypeOK'
  <2>1. pc[r] \notin {"idle", "done"} /\ UNCHANGED <<job, attempt>>
    BY <1>7 DEF SettleTerminal, SettleNotOwner, SettleBlock, Write
  <2>2. Leave(r) \/ (Goto(r, "rescue") /\ UNCHANGED <<outcome, snap, stop, loss, slot>>)
    BY <1>7 DEF SettleTerminal, SettleNotOwner, SettleBlock, Write
  <2> QED
    BY <1>b, <1>c, <2>1, <2>2
<1>8. ASSUME NEW r \in Runs, Raise(r)
      PROVE  RunTypeOK'
  <2>1. pc[r] \notin {"idle", "done"} /\ UNCHANGED <<job, attempt>>
    BY <1>8 DEF Raise, Beating
  <2>2. \/ Return(r) /\ UNCHANGED slot
        \/ Leave(r)
        \/ Goto(r, "rescue") /\ UNCHANGED <<outcome, snap, stop, loss, slot>>
    BY <1>8 DEF Raise
  <2> QED
    BY <1>0, <1>a, <1>b, <1>c, <2>1, <2>2 DEF RunTypeOK
<1>9. ASSUME NEW r \in Runs, Rescue(r)
      PROVE  RunTypeOK'
  <2>1. job[r] \in Tasks /\ tries[job[r]] \in Nat
    BY <1>0, <1>9 DEF Rescue, RunTypeOK
  <2> QED
    BY <1>0, <1>9, <2>1 DEF Rescue, Goto, RunTypeOK, Pcs, Outcomes, Attempts
<1>10. ASSUME NEW c \in Clients, CallStep(c)
       PROVE  RunTypeOK'
  BY <1>0, <1>1, <1>10 DEF CallStep, Cancel, Resume, Approve, Commit, Signal, runVars,
                           RunTypeOK
<1>11. ASSUME Restart
       PROVE  RunTypeOK'
  BY <1>0, <1>11 DEF Restart, RunTypeOK, Pcs, Outcomes, Active, Beating
<1>l. ASSUME NEW r \in Runs, LossRead(r)
      PROVE  RunTypeOK'
  <2>1. job[r] \in Tasks /\ r \in Watched /\ pc[r] = "done"
    BY <1>0, <1>l DEF LossRead, RunTypeOK
  <2>2. CASE ~(status[job[r]] = "running" /\ claim[job[r]] # None)
    BY <1>0, <1>l, <2>1, <2>2 DEF LossRead, RunTypeOK
  <2>3. CASE status[job[r]] = "running" /\ claim[job[r]] # None
    <3>1. claim[job[r]] \in Runs /\ tries[job[r]] \in Nat
      BY <2>1, <2>3 DEF Typed, TypeOK, StoreTypeOK
    <3> QED
      BY <1>0, <1>l, <2>1, <2>3, <3>1 DEF LossRead, RunTypeOK, Attempts
  <2> QED
    BY <2>2, <2>3
<1>m. ASSUME NEW r \in Runs, LossOver(r)
      PROVE  RunTypeOK'
  BY <1>0, <1>m DEF LossOver, RunTypeOK
<1> QED
  BY <1>1, <1>2, <1>3, <1>4, <1>5, <1>6, <1>7, <1>8, <1>9, <1>10, <1>11, <1>l, <1>m
     DEF Next, RunStep, LossWrite, LossForgotten, Heartbeat, ScanStale, Recover, Expire, Due, vars, runVars

CallTypeOK ==
  /\ call \in [Clients -> Calls]
  /\ scan \subseteq Tasks
  /\ restarts \in Nat
  /\ \A c \in Clients : call[c].stage # "idle" => call[c].task \in Tasks
  /\ \A c \in Clients : call[c].op = "resume" => call[c].phase \in {"granted", "resumed"}

\* So do the calls under way, the recovery's scan and the restart counter.
LEMMA CallTyped == Typed /\ [Next]_vars => CallTypeOK'
<1> SUFFICES ASSUME Typed, [Next]_vars
             PROVE  CallTypeOK'
  OBVIOUS
<1>0. CallTypeOK /\ slot \in [Tasks -> Runs \union {None}]
  BY DEF Typed, TypeOK, JobsAndCalls, CallTypeOK
<1>1. ASSUME UNCHANGED <<call, scan, restarts>>
      PROVE  CallTypeOK'
  BY <1>0, <1>1 DEF CallTypeOK
<1>2. ASSUME NEW c \in Clients, NEW t \in Tasks, Cancel(c, t) \/ Resume(c, t) \/ Approve(c, t)
      PROVE  CallTypeOK'
  <2>1. slot[t] \in Runs \union {None}
    BY <1>0
  <2> DEFINE NewCall(s, o, r, p) ==
               [stage |-> s, op |-> o, task |-> t, run |-> r, phase |-> p]
             Good(new) == /\ new \in Calls /\ new.task = t
                          /\ new.op = "resume" => new.phase \in {"granted", "resumed"}
  <2>2. ASSUME NEW s \in {"commit", "signal"}, NEW r \in Runs \union {None}
        PROVE  Good(NewCall(s, "cancel", r, "none"))
    BY DEF Calls, Phases
  <2>3. ASSUME NEW p \in {"granted", "resumed"}
        PROVE  Good(NewCall("commit", "resume", None, p))
    BY DEF Calls, Phases
  <2>4. Good(NewCall("commit", "approve", None, "approved"))
    BY DEF Calls, Phases
  <2>5. ASSUME NEW new, Good(new), call' = [call EXCEPT ![c] = new],
               UNCHANGED <<scan, restarts>>
        PROVE  CallTypeOK'
    BY <1>0, <2>5 DEF CallTypeOK
  <2> HIDE DEF Good
  <2>6. CASE Cancel(c, t)
    BY <2>1, <2>2, <2>5, <2>6 DEF Cancel
  <2>7. CASE Resume(c, t)
    BY <2>3, <2>5, <2>7 DEF Resume
  <2>8. CASE Approve(c, t)
    BY <2>4, <2>5, <2>8 DEF Approve
  <2> QED
    BY <1>2, <2>6, <2>7, <2>8
<1>n. NoCall \in Calls /\ NoCall.stage = "idle" /\ NoCall.op = "none"
  BY DEF NoCall, Calls, Phases
<1>3. ASSUME NEW c \in Clients, Commit(c) \/ Signal(c)
      PROVE  CallTypeOK'
  <2>1. UNCHANGED <<scan, restarts>>
    BY <1>3 DEF Commit, Signal
  <2>2. CASE call' = [call EXCEPT ![c] = NoCall]
    BY <1>0, <1>n, <2>1, <2>2 DEF CallTypeOK
  <2>3. CASE call[c].stage = "commit" /\ call' = [call EXCEPT ![c].stage = "signal"]
    <3>1. call[c] \in Calls /\ [call[c] EXCEPT !.stage = "signal"] \in Calls
      BY <1>0 DEF CallTypeOK, Calls
    <3> QED
      BY <1>0, <2>1, <2>3, <3>1 DEF CallTypeOK, Calls
  <2> QED
    BY <1>3, <2>2, <2>3 DEF Commit, Signal
<1>4. ASSUME ScanStale \/ Recover \/ Restart
      PROVE  CallTypeOK'
  <2>1. CASE ScanStale \/ Recover
    BY <1>0, <1>4, <2>1 DEF ScanStale, Recover, CallTypeOK
  <2>2. CASE Restart
    BY <1>0, <1>n, <2>2 DEF Restart, CallTypeOK
  <2> QED
    BY <1>4, <2>1, <2>2
<1>5. ASSUME NEW r \in Runs, RunStep(r)
      PROVE  UNCHANGED <<call, scan, restarts>>
  BY <1>5 DEF RunStep, Claim, NotStarted, EnterUnclaimed, Reload, CreateAttempt, EndTurn,
              SettleTerminal, SettleNotOwner, SettleChecked, SettleBlock, Write, Raise, Rescue
<1> QED
  BY <1>1, <1>2, <1>3, <1>4, <1>5
     DEF Next, CallStep, Submit, Heartbeat, Die, LossRead, LossWrite, LossForgotten, LossOver,
         Expire, Due, vars

\* The three parts together: typing is inductive.
LEMMA TypedStep == Typed /\ [Next]_vars => Typed'
BY StoreTyped, RunTyped, CallTyped DEF Typed, TypeOK, JobsAndCalls, RunTypeOK, CallTypeOK

\* Type correctness.
THEOREM TypeCorrect == Spec => []TypeOK
<1>1. Spec => []Typed
  BY TypedInit, TypedStep, PTL DEF Spec
<1>2. Typed => TypeOK
  BY DEF Typed
<1> QED
  BY <1>1, <1>2, PTL

----------------------------------------------------------------------------
(* Claims.                                                                 *)

\* No task starts out claimed or leased.
LEMMA ClaimInit == Init => ClaimConsistent
BY DEF Init, ClaimConsistent

\* A claiming run was submitted and is past its start: it never goes back.
LEMMA ClaimantMovesOn ==
  ASSUME Typed, [Next]_vars, NEW r \in Runs, pc[r] \notin {"idle", "start"}
  PROVE  job'[r] = job[r] /\ pc'[r] \notin {"idle", "start"}
<1>1. ASSUME NEW q \in Runs, RunStep(q)
      PROVE  job' = job /\ \E l \in Pcs \ {"idle", "start"} : pc' = [pc EXCEPT ![q] = l]
  BY <1>1 DEF RunStep, Claim, NotStarted, EnterUnclaimed, Reload, CreateAttempt, EndTurn,
              SettleTerminal, SettleNotOwner, SettleChecked, SettleBlock, Write, Raise, Rescue,
              Leave, Return, Enter, Goto, Pcs
<1>2. ASSUME NEW q \in Runs, NEW t \in Tasks, Submit(q, t)
      PROVE  job'[r] = job[r] /\ pc'[r] = pc[r]
  BY <1>2 DEF Submit, Goto, Typed, TypeOK
<1>3. ASSUME NEW q \in Runs, Die(q)
      PROVE  job'[r] = job[r] /\ pc'[r] \notin {"idle", "start"}
  BY <1>3 DEF Die, Return, Goto, Typed, TypeOK
<1>4. ASSUME Restart
      PROVE  job'[r] = job[r] /\ pc'[r] \notin {"idle", "start"}
  BY <1>4 DEF Restart
<1>5. ASSUME NEW q \in Runs, RunStep(q)
      PROVE  job'[r] = job[r] /\ pc'[r] \notin {"idle", "start"}
  BY <1>1, <1>5 DEF Typed, TypeOK
<1> QED
  BY <1>2, <1>3, <1>4, <1>5
     DEF Next, Heartbeat, CallStep, Cancel, Resume, Approve, Commit, Signal, ScanStale,
         Recover, LossRead, LossWrite, LossForgotten, LossOver,
         Expire, Due, vars, runVars

\* What Release does to a consistent row.
LEMMA ReleaseConsistent ==
  ASSUME Typed, ClaimConsistent, [Next]_vars,
         NEW t \in Tasks, NEW s \in Status \ {"running"}, Release(t, s)
  PROVE  ClaimConsistent'
BY ClaimantMovesOn, StoreAssumption
   DEF Release, ClaimConsistent, Typed, TypeOK, StoreTypeOK

\* Each statement keeps the five claim columns of each row in agreement.
LEMMA ClaimStep == Typed /\ ClaimConsistent /\ [Next]_vars => ClaimConsistent'
<1> SUFFICES ASSUME Typed, ClaimConsistent, [Next]_vars
             PROVE  ClaimConsistent'
  OBVIOUS
<1>0. CASE UNCHANGED <<status, claim, lease>>
  BY <1>0, ClaimantMovesOn, StoreAssumption DEF ClaimConsistent, Typed, TypeOK, StoreTypeOK
<1>1. ASSUME NEW r \in Runs, Claim(r)
      PROVE  ClaimConsistent'
  <2>1. job[r] \in Tasks /\ pc'[r] = "reload" /\ job' = job
    BY <1>1 DEF Claim, Goto, Typed, TypeOK, JobsAndCalls
  <2>2. /\ status' = [status EXCEPT ![job[r]] = "running"]
        /\ claim' = [claim EXCEPT ![job[r]] = r]
        /\ lease' = [lease EXCEPT ![job[r]] = "live"]
    BY <1>1 DEF Claim, StartTask
  <2> QED
    BY <2>1, <2>2, ClaimantMovesOn, StoreAssumption
       DEF ClaimConsistent, Typed, TypeOK, StoreTypeOK
<1>2. ASSUME NEW r \in Runs, SettleBlock(r)
      PROVE  ClaimConsistent'
  <2>1. job[r] \in Tasks /\ Release(job[r], "blocked")
    BY <1>2 DEF SettleBlock, BlockTask, Typed, JobsAndCalls
  <2> QED
    BY <2>1, ReleaseConsistent DEF Status
<1>3. ASSUME NEW r \in Runs, Write(r)
      PROVE  ClaimConsistent'
  <2>1. job[r] \in Tasks
    BY <1>3 DEF Write, Typed, JobsAndCalls
  <2>2. \/ UNCHANGED storeVars
        \/ \E s \in {"succeeded", "failed", "queued", "cancelled"} : Release(job[r], s)
    BY <1>3 DEF Write, HandleFailure, FinishTask, RetryTask, CancelTask
  <2> QED
    BY <1>0, <2>1, <2>2, ReleaseConsistent DEF storeVars, Status, Terminal
<1>4. ASSUME NEW r \in Runs, Heartbeat(r)
      PROVE  ClaimConsistent'
  <2>1. job[r] \in Tasks
    BY <1>4 DEF Heartbeat, Beating, Typed, JobsAndCalls
  <2> QED
    BY <1>4, <2>1, ClaimantMovesOn, StoreAssumption
       DEF Heartbeat, HeartbeatTask, Owns, ClaimConsistent, Typed, TypeOK, StoreTypeOK
<1>5. ASSUME NEW c \in Clients, Commit(c)
      PROVE  ClaimConsistent'
  <2>1. call[c].task \in Tasks
    BY <1>5 DEF Commit, Typed, JobsAndCalls
  <2>2. \/ UNCHANGED storeVars
        \/ \E s \in {"succeeded", "queued", "cancelled"} : Release(call[c].task, s)
    BY <1>5 DEF Commit, CancelTask, ResumeTask, ApproveTask
  <2> QED
    BY <1>0, <2>1, <2>2, ReleaseConsistent DEF storeVars, Status, Terminal
<1>6. ASSUME Recover
      PROVE  ClaimConsistent'
  BY <1>6, ClaimantMovesOn, StoreAssumption
     DEF Recover, RecoverTasks, ClaimConsistent, Typed, TypeOK, StoreTypeOK
<1>7. ASSUME NEW t \in Tasks, Expire(t)
      PROVE  ClaimConsistent'
  BY <1>7, ClaimantMovesOn, StoreAssumption
     DEF Expire, ExpireLease, ClaimConsistent, Typed, TypeOK, StoreTypeOK
<1>8. ASSUME NEW t \in Tasks, Due(t)
      PROVE  ClaimConsistent'
  BY <1>0, <1>8 DEF Due, Unpark
<1>9. ASSUME NEW r \in Runs, LossWrite(r)
      PROVE  ClaimConsistent'
  <2>1. job[r] \in Tasks
    BY <1>9, StoreAssumption, WorkerAssumption DEF LossWrite, Typed, JobsAndCalls
  <2>2. \/ UNCHANGED storeVars
        \/ \E s \in {"failed", "queued"} : Release(job[r], s)
    BY <1>9 DEF LossWrite, FinishTask, RetryLost
  <2> QED
    BY <1>0, <2>1, <2>2, ReleaseConsistent DEF storeVars, Status, Terminal
<1> QED
  BY <1>0, <1>1, <1>2, <1>3, <1>4, <1>5, <1>6, <1>7, <1>8, <1>9, RowSteps
     DEF RowStep, storeVars

\* The five claim columns agree, and a claim names the run that made it.
THEOREM ClaimsAreConsistent == Spec => []ClaimConsistent
<1>1. Init => Typed /\ ClaimConsistent
  BY TypedInit, ClaimInit
<1>2. Typed /\ ClaimConsistent /\ [Next]_vars => (Typed /\ ClaimConsistent)'
  BY TypedStep, ClaimStep
<1> QED
  BY <1>1, <1>2, PTL DEF Spec

Consistent == Typed /\ ClaimConsistent

\* The base invariant every later proof starts from.
LEMMA ConsistentAlways == Spec => []Consistent
<1>1. Init => Consistent
  BY TypedInit, ClaimInit DEF Consistent
<1>2. Consistent /\ [Next]_vars => Consistent'
  BY TypedStep, ClaimStep DEF Consistent
<1> QED
  BY <1>1, <1>2, PTL DEF Spec

----------------------------------------------------------------------------
(* How the status of a task can change, and by whose doing.                *)

\* Every change of a task's status, with what the code had checked for it.
StatusChange(t) ==
  \/ Startable(t) /\ \E r \in Runs : Claim(r) /\ job[r] = t
  \/ /\ \E r \in Runs : /\ Owns(t, r) /\ job[r] = t
                        /\ pc[r] \in {"settle", "write"} /\ pc'[r] = "done"
                        /\ \/ SettleBlock(r) /\ status'[t] = "blocked"
                           \/ Write(r) /\ status'[t] \in {"succeeded", "failed", "queued"}
  \/ /\ \E r \in Watched : /\ LossWrite(r) /\ job[r] = t /\ pc[r] = "done"
                           /\ Owns(t, loss[r]) /\ loss'[r] = "none"
                           /\ \/ snap[r] < MaxAttempts /\ status'[t] = "queued"
                              \/ status'[t] = "failed"
  \/ status'[t] = "cancelled"
  \/ status[t] = "blocked" /\ status'[t] = "queued"
  \/ status[t] = "blocked" /\ status'[t] = "succeeded" /\ t \in Reviewed
  \/ status[t] = "running" /\ status'[t] = "queued" /\ t \in scan /\ scan' = {}

\* Whatever step changes a status is one of those StatusChange lists.
LEMMA StatusChanges ==
  ASSUME Consistent, [Next]_vars, NEW t \in Tasks, status'[t] # status[t]
  PROVE  StatusChange(t)
<1>0. status \in [Tasks -> Status] /\ pc \in [Runs -> Pcs]
  BY DEF Consistent, Typed, TypeOK, StoreTypeOK
<1>1. ASSUME NEW r \in Runs, Claim(r)
      PROVE  StatusChange(t)
  BY <1>0, <1>1 DEF Claim, StartTask, StatusChange
<1>2. ASSUME NEW r \in Runs, SettleBlock(r)
      PROVE  StatusChange(t)
  <2>1. /\ Owns(job[r], r) /\ status' = [status EXCEPT ![job[r]] = "blocked"]
        /\ pc[r] = "settle" /\ pc' = [pc EXCEPT ![r] = "done"]
    BY <1>2 DEF SettleBlock, BlockTask, Release, Leave, Return, Goto
  <2> QED
    BY <1>0, <1>2, <2>1 DEF StatusChange
<1>3. ASSUME NEW r \in Runs, Write(r)
      PROVE  StatusChange(t)
  <2>1. pc[r] = "write" /\ pc' = [pc EXCEPT ![r] = "done"]
    BY <1>3 DEF Write, Leave, Return, Goto
  <2>2. CASE outcome[r] = "cancelled"
    BY <1>0, <1>3, <2>2 DEF Write, CancelTask, Release, StatusChange
  <2>3. CASE outcome[r] # "cancelled"
    <3>1. \/ UNCHANGED storeVars
          \/ /\ Owns(job[r], r)
             /\ \E s \in {"succeeded", "failed", "queued"} :
                  status' = [status EXCEPT ![job[r]] = s]
      BY <1>3, <2>3 DEF Write, HandleFailure, FinishTask, RetryTask, Release
    <3> QED
      BY <1>0, <1>3, <2>1, <3>1 DEF StatusChange, storeVars
  <2> QED
    BY <2>2, <2>3
<1>4. ASSUME NEW c \in Clients, Commit(c)
      PROVE  StatusChange(t)
  BY <1>0, <1>4 DEF Commit, CancelTask, ResumeTask, ApproveTask, Release, storeVars, StatusChange
<1>5. ASSUME Recover
      PROVE  StatusChange(t)
  BY <1>0, <1>5 DEF Recover, RecoverTasks, StatusChange
<1>6. ASSUME NEW r \in Runs, Heartbeat(r)
      PROVE  FALSE
  BY <1>6 DEF Heartbeat, HeartbeatTask
<1>7. ASSUME NEW u \in Tasks, Expire(u) \/ Due(u)
      PROVE  FALSE
  BY <1>7 DEF Expire, ExpireLease, Due, Unpark
<1>8. ASSUME NEW r \in Runs, LossWrite(r)
      PROVE  StatusChange(t)
  <2>1. /\ r \in Watched /\ pc[r] = "done" /\ loss'[r] = "none"
        /\ loss \in [Runs -> {"none", "due"} \union Runs]
    BY <1>8, WorkerAssumption DEF LossWrite, LossOver, Consistent, Typed, TypeOK, JobsAndCalls
  <2>2. \/ UNCHANGED storeVars
        \/ /\ Owns(job[r], loss[r])
           /\ \E s \in {"failed", "queued"} :
                /\ status' = [status EXCEPT ![job[r]] = s]
                /\ s = "queued" => snap[r] < MaxAttempts
    BY <1>8 DEF LossWrite, RetryLost, FinishTask, Release
  <2> QED
    BY <1>0, <1>8, <2>1, <2>2 DEF StatusChange, storeVars
<1> QED
  BY <1>1, <1>2, <1>3, <1>4, <1>5, <1>6, <1>7, <1>8, RowSteps DEF RowStep, storeVars

\* Fencing: a running task is succeeded or blocked only by the run that holds
\* its claim, and failed by that run or by the recovery of a process of the same
\* task that is over and had read this claim, never an earlier one.
THEOREM OutcomesAreFenced == Spec => FencedOutcome
<1>1. ASSUME Consistent, [Next]_vars, NEW t \in Tasks,
             status[t] = "running", status'[t] \in {"succeeded", "failed", "blocked"}
      PROVE  ByHolder(t) \/ ByRecovery(t)
  <2>1. StatusChange(t) /\ status[t] = "running"
    BY <1>1, StatusChanges
  <2>2. CASE \E r \in Runs : /\ Owns(t, r)
                            /\ pc[r] \in {"settle", "write"} /\ pc'[r] = "done"
    BY <2>2 DEF Owns, ByHolder
  <2>3. CASE status'[t] = "failed" /\ \E r \in Watched : /\ job[r] = t /\ pc[r] = "done"
                                                        /\ Owns(t, loss[r]) /\ loss'[r] = "none"
    BY <2>3 DEF Owns, ByRecovery
  <2> QED
    BY <1>1, <2>1, <2>2, <2>3 DEF StatusChange, Startable
<1>2. Consistent /\ [Next]_vars =>
        [\A t \in Tasks :
           status[t] = "running" /\ status'[t] \in {"succeeded", "failed", "blocked"}
             => ByHolder(t) \/ ByRecovery(t)]_vars
  BY <1>1
<1> QED
  BY <1>2, ConsistentAlways, PTL DEF Spec, FencedOutcome

\* A finished task changes at most to cancelled.
LEMMA FinishedStep ==
  ASSUME Consistent, [Next]_vars, NEW t \in Tasks, status[t] \in Terminal
  PROVE  status'[t] \in {status[t], "cancelled"}
BY StatusChanges DEF StatusChange, Startable, Owns, Terminal

\* No late run, recovery, resume or approval reopens a finished task.
THEOREM OnlyCancellationAfterEnd == Spec => OnlyCancelAfterEnd
<1>1. Consistent /\ [Next]_vars =>
        [\A t \in Tasks :
           status[t] \in Terminal => status'[t] \in {status[t], "cancelled"}]_vars
  BY FinishedStep
<1> QED
  BY <1>1, ConsistentAlways, PTL DEF Spec, OnlyCancelAfterEnd

----------------------------------------------------------------------------
(* The retry budget.                                                       *)

\* The holder of a claim goes by the current attempt_count, although it read
\* it before its turn: the count moves only with the claim.
SnapFresh ==
  \A r \in Runs : pc[r] \in Beating /\ Owns(job[r], r) => snap[r] = tries[job[r]]

\* A run that goes on keeps what it read, or has just read it again.
LEMMA SnapKept ==
  ASSUME Typed, [Next]_vars, NEW r \in Runs, pc'[r] \in Beating
  PROVE  /\ pc[r] # "idle" /\ job'[r] = job[r]
         /\ \/ snap'[r] = tries[job[r]] /\ UNCHANGED tries
            \/ pc[r] \in Beating /\ snap'[r] = snap[r]
<1>0. /\ pc \in [Runs -> Pcs] /\ snap \in [Runs -> Nat]
      /\ "done" \notin Beating /\ "start" \notin Beating /\ "reload" \notin Beating
      /\ "idle" \notin Beating
  BY DEF Typed, TypeOK, Beating
<1>1. ASSUME NEW q \in Runs, EnterUnclaimed(q) \/ Reload(q) \/ Rescue(q)
      PROVE  /\ job' = job
             /\ \/ q = r /\ pc[r] # "idle" /\ snap'[r] = tries[job[r]] /\ UNCHANGED tries
                \/ q # r /\ pc'[r] = pc[r] /\ snap'[r] = snap[r]
  BY <1>0, <1>1 DEF EnterUnclaimed, Reload, Rescue, Enter, Return, Goto, storeVars
<1>2. ASSUME NEW q \in Runs,
             \/ Claim(q) \/ NotStarted(q) \/ CreateAttempt(q)
             \/ \E o \in DOMAIN AttemptFor : EndTurn(q, o)
             \/ SettleTerminal(q) \/ SettleNotOwner(q) \/ SettleChecked(q)
             \/ SettleBlock(q) \/ Write(q) \/ Raise(q) \/ Die(q)
      PROVE  pc[r] \in Beating /\ snap'[r] = snap[r] /\ job' = job
  BY <1>0, <1>2 DEF Claim, NotStarted, CreateAttempt, EndTurn, SettleTerminal, SettleNotOwner,
                    SettleChecked, SettleBlock, Write, Raise, Die, Leave, Return, Goto, Beating
<1>3. ASSUME NEW q \in Runs, NEW t \in Tasks, Submit(q, t)
      PROVE  pc[r] \in Beating /\ snap'[r] = snap[r] /\ job'[r] = job[r]
  BY <1>0, <1>3 DEF Submit, Goto, Typed, TypeOK
<1>4. ASSUME Restart
      PROVE  pc[r] \in Beating /\ snap'[r] = snap[r] /\ job' = job
  BY <1>0, <1>4 DEF Restart
<1>5. ASSUME NEW q \in Runs, LossRead(q) \/ LossOver(q)
      PROVE  pc[r] \in Beating /\ job' = job /\ (loss[q] # "none" => snap'[r] = snap[r])
  BY <1>0, <1>5 DEF LossRead, LossOver, Typed, TypeOK, JobsAndCalls
<1>6. ASSUME NEW q \in Runs, LossRead(q) \/ LossWrite(q) \/ LossForgotten(q)
      PROVE  pc[r] \in Beating /\ job' = job /\ snap'[r] = snap[r]
  BY <1>5, <1>6, WorkerAssumption DEF LossRead, LossWrite, LossForgotten
<1> QED
  BY <1>0, <1>1, <1>2, <1>3, <1>4, <1>6
     DEF Next, RunStep, Heartbeat, CallStep, Cancel, Resume, Approve, Commit, Signal,
         ScanStale, Recover, Expire, Due, vars, runVars

\* A count moves only with a claim; a claim is made only in Claim.
LEMMA TriesMove ==
  ASSUME Consistent, [Next]_vars, NEW t \in Tasks
  PROVE  \/ tries'[t] = tries[t] /\ claim'[t] \in {claim[t], None}
         \/ /\ tries'[t] = tries[t] + 1
            /\ \E q \in Runs : Claim(q) /\ job[q] = t /\ claim'[t] = q /\ pc'[q] = "reload"
<1>0. /\ tries \in [Tasks -> Nat] /\ claim \in [Tasks -> Runs \union {None}]
      /\ pc \in [Runs -> Pcs]
  BY DEF Consistent, Typed, TypeOK, StoreTypeOK
<1>1. ASSUME NEW q \in Runs, Claim(q), job[q] = t
      PROVE  tries'[t] = tries[t] + 1 /\ claim'[t] = q /\ pc'[q] = "reload"
  BY <1>0, <1>1 DEF Claim, StartTask, Goto
<1>2. ASSUME NEW q \in Runs, Claim(q), job[q] # t
      PROVE  tries'[t] = tries[t] /\ claim'[t] = claim[t]
  BY <1>0, <1>2 DEF Claim, StartTask
<1>3. ASSUME NEW q \in Runs, SettleBlock(q) \/ Write(q) \/ Heartbeat(q)
      PROVE  tries'[t] = tries[t] /\ claim'[t] \in {claim[t], None}
  BY <1>0, <1>3 DEF SettleBlock, BlockTask, Write, HandleFailure, FinishTask, RetryTask,
                    CancelTask, Release, Heartbeat, HeartbeatTask, storeVars
<1>4. ASSUME NEW c \in Clients, Commit(c)
      PROVE  tries'[t] = tries[t] /\ claim'[t] \in {claim[t], None}
  BY <1>0, <1>4 DEF Commit, CancelTask, ResumeTask, ApproveTask, Release, storeVars
<1>5. ASSUME NEW u \in Tasks, Recover \/ Expire(u) \/ Due(u)
      PROVE  tries'[t] = tries[t] /\ claim'[t] \in {claim[t], None}
  BY <1>0, <1>5 DEF Recover, RecoverTasks, Expire, ExpireLease, Due, Unpark
<1>6. CASE UNCHANGED storeVars
  BY <1>6 DEF storeVars
<1>7. ASSUME NEW q \in Runs, LossWrite(q)
      PROVE  tries'[t] = tries[t] /\ claim'[t] \in {claim[t], None}
  BY <1>0, <1>7 DEF LossWrite, RetryLost, FinishTask, Release, storeVars
<1> QED
  BY <1>1, <1>2, <1>3, <1>4, <1>5, <1>6, <1>7, RowSteps DEF RowStep

\* The count a claiming run goes by stays the count of its row.
LEMMA SnapStep == Consistent /\ SnapFresh /\ [Next]_vars => SnapFresh'
<1> SUFFICES ASSUME Consistent, SnapFresh, [Next]_vars,
                    NEW r \in Runs, pc'[r] \in Beating, Owns(job[r], r)'
             PROVE  snap'[r] = tries'[job'[r]]
  BY DEF SnapFresh
<1>1. job[r] \in Tasks /\ job'[r] = job[r]
  BY SnapKept DEF Consistent, Typed, JobsAndCalls
<1>2. /\ tries'[job[r]] = tries[job[r]]
      /\ claim[job[r]] = r
  BY <1>1, TriesMove, StoreAssumption DEF Owns, Beating
<1>3. Owns(job[r], r)
  BY <1>1, <1>2, StoreAssumption DEF Owns, Consistent, ClaimConsistent
<1> QED
  BY <1>1, <1>2, <1>3, SnapKept DEF SnapFresh, Consistent

\* So it is of a recovery: the claim it has read is of a run past its start, and
\* while the row keeps that claim it keeps the count the recovery goes by.
LossFresh ==
  \A r \in Runs : loss[r] \in Runs =>
    /\ pc[loss[r]] \notin {"idle", "start"}
    /\ claim[job[r]] = loss[r] => snap[r] = tries[job[r]]

\* A recovery keeps what it has read, or has just read the row.
LEMMA LossKept ==
  ASSUME Typed, [Next]_vars, NEW r \in Runs, loss'[r] \in Runs
  PROVE  /\ job[r] \in Tasks /\ job'[r] = job[r]
         /\ \/ /\ loss'[r] = claim[job[r]] /\ snap'[r] = tries[job[r]]
               /\ status[job[r]] = "running" /\ UNCHANGED storeVars
            \/ loss[r] \in Runs /\ loss'[r] = loss[r] /\ snap'[r] = snap[r]
<1>0. /\ pc \in [Runs -> Pcs] /\ snap \in [Runs -> Nat]
      /\ loss \in [Runs -> {"none", "due"} \union Runs] /\ job \in [Runs -> Tasks \union {None}]
      /\ loss[r] # "none" => pc[r] = "done" /\ job[r] \in Tasks
      /\ "none" \notin Runs /\ "due" \notin Runs
  BY WorkerAssumption DEF Typed, TypeOK, JobsAndCalls
<1>1. ASSUME NEW q \in Runs, RunStep(q) \/ Die(q)
      PROVE  q # r /\ loss'[r] = loss[r] /\ snap'[r] = snap[r] /\ job' = job
  BY <1>0, <1>1
     DEF RunStep, Die, Claim, NotStarted, EnterUnclaimed, Reload, CreateAttempt, EndTurn,
         SettleTerminal, SettleNotOwner, SettleChecked, SettleBlock, Write, Raise, Rescue,
         Leave, Return, Enter, Goto, Beating, Active
<1>2. ASSUME NEW q \in Runs, NEW t \in Tasks, Submit(q, t)
      PROVE  loss'[r] = loss[r] /\ snap'[r] = snap[r] /\ (loss[r] # "none" => job'[r] = job[r])
  BY <1>0, <1>2 DEF Submit, Goto
<1>3. ASSUME Restart
      PROVE  loss'[r] = loss[r] /\ job' = job /\ (pc[r] = "done" => snap'[r] = snap[r])
  BY <1>0, <1>3 DEF Restart, Active, Beating
<1>4. ASSUME NEW q \in Runs, LossRead(q)
      PROVE  /\ job' = job
             /\ \/ /\ loss'[r] = claim[job[r]] /\ snap'[r] = tries[job[r]]
                   /\ status[job[r]] = "running" /\ UNCHANGED storeVars
                \/ loss'[r] = loss[r] /\ snap'[r] = snap[r]
  BY <1>0, <1>4 DEF LossRead
<1>5. ASSUME NEW q \in Runs, LossOver(q)
      PROVE  loss'[r] = loss[r] /\ snap'[r] = snap[r] /\ job' = job
  BY <1>0, <1>5 DEF LossOver
<1>6. ASSUME NEW q \in Runs, LossRead(q)
      PROVE  job[r] \in Tasks
  BY <1>0, <1>6 DEF LossRead
<1> QED
  BY <1>0, <1>1, <1>2, <1>3, <1>4, <1>5, <1>6
     DEF Next, LossWrite, LossForgotten, Heartbeat, CallStep, Cancel, Resume, Approve, Commit,
         Signal, ScanStale, Recover, Expire, Due, vars, runVars

\* What a recovery goes by stays true of the row it will write.
LEMMA LossStep == Consistent /\ LossFresh /\ [Next]_vars => LossFresh'
<1> SUFFICES ASSUME Consistent, LossFresh, [Next]_vars, NEW r \in Runs, loss'[r] \in Runs
             PROVE  /\ pc'[loss'[r]] \notin {"idle", "start"}
                    /\ claim'[job'[r]] = loss'[r] => snap'[r] = tries'[job'[r]]
  BY DEF LossFresh
<1>1. job[r] \in Tasks /\ job'[r] = job[r] /\ Typed
  BY LossKept DEF Consistent
<1>2. CASE /\ loss'[r] = claim[job[r]] /\ snap'[r] = tries[job[r]]
           /\ status[job[r]] = "running" /\ UNCHANGED storeVars
  <2>1. pc[loss'[r]] \notin {"idle", "start"}
    BY <1>1, <1>2, StoreAssumption DEF Consistent, ClaimConsistent
  <2>2. pc'[loss'[r]] \notin {"idle", "start"}
    BY <1>1, <2>1, ClaimantMovesOn
  <2> QED
    BY <1>1, <1>2, <2>2 DEF storeVars
<1>3. CASE loss[r] \in Runs /\ loss'[r] = loss[r] /\ snap'[r] = snap[r]
  <2>1. pc[loss[r]] \notin {"idle", "start"}
    BY <1>3 DEF LossFresh
  <2>2. pc'[loss[r]] \notin {"idle", "start"}
    BY <1>1, <1>3, <2>1, ClaimantMovesOn
  <2>3. ASSUME claim'[job[r]] = loss[r]
        PROVE  tries'[job[r]] = tries[job[r]] /\ claim[job[r]] = loss[r]
    <3>1. CASE tries'[job[r]] = tries[job[r]] /\ claim'[job[r]] \in {claim[job[r]], None}
      BY <1>3, <2>3, <3>1, StoreAssumption
    <3>2. ASSUME NEW q \in Runs, Claim(q), claim'[job[r]] = q
          PROVE  FALSE
      BY <2>1, <2>3, <3>2 DEF Claim
    <3> QED
      BY <1>1, <3>1, <3>2, TriesMove
  <2> QED
    BY <1>1, <1>3, <2>2, <2>3 DEF LossFresh
<1> QED
  BY <1>1, <1>2, <1>3, LossKept

\* A run, or the recovery of a lost one, requeues its task only with an attempt
\* to spare.
THEOREM RetriesStayInBudget == Spec => RetryWithinBudget
<1> DEFINE Fresh == Consistent /\ SnapFresh /\ LossFresh
<1>1. Init => Fresh
  BY TypedInit, ClaimInit, WorkerAssumption
     DEF Consistent, Init, SnapFresh, LossFresh, Beating
<1>2. Fresh /\ [Next]_vars => Fresh'
  BY TypedStep, ClaimStep, SnapStep, LossStep DEF Consistent
<1>3. ASSUME Fresh, [Next]_vars, NEW t \in Tasks,
             status[t] = "running", status'[t] = "queued", ~(t \in scan /\ scan' = {})
      PROVE  tries[t] < MaxAttempts
  <2>1. \/ \E r \in Runs : Owns(t, r) /\ job[r] = t /\ Write(r)
        \/ \E r \in Watched : Owns(t, loss[r]) /\ job[r] = t /\ LossWrite(r) /\ snap[r] < MaxAttempts
    BY <1>3, StatusChanges DEF StatusChange, Startable
  <2>2. ASSUME NEW r \in Runs, Owns(t, r), job[r] = t, Write(r)
        PROVE  tries[t] < MaxAttempts
    <3>1. snap[r] = tries[t]
      BY <1>3, <2>2 DEF SnapFresh, Write, Beating
    <3>2. snap[r] < MaxAttempts
      BY <1>3, <2>2 DEF Write, HandleFailure, FinishTask, CancelTask, Release, Owns, storeVars,
                        Consistent, Typed, TypeOK, StoreTypeOK
    <3> QED
      BY <3>1, <3>2
  <2>3. ASSUME NEW r \in Watched, Owns(t, loss[r]), job[r] = t, LossWrite(r), snap[r] < MaxAttempts
        PROVE  tries[t] < MaxAttempts
    <3>1. r \in Runs /\ loss[r] \in Runs
      BY <2>3, WorkerAssumption DEF LossWrite
    <3>2. snap[r] = tries[t]
      BY <1>3, <2>3, <3>1 DEF LossFresh, Owns
    <3> QED
      BY <2>3, <3>2
  <2> QED
    BY <2>1, <2>2, <2>3
<1>4. Fresh /\ [Next]_vars =>
        [\A t \in Tasks :
           (status[t] = "running" /\ status'[t] = "queued" /\ ~(t \in scan /\ scan' = {}))
             => tries[t] < MaxAttempts]_vars
  BY <1>3
<1> QED
  BY <1>1, <1>2, <1>4, ConsistentAlways, PTL DEF Spec, RetryWithinBudget

----------------------------------------------------------------------------
(* Graphs.                                                                 *)

\* No step of the worker adds an edge.
LEMMA EdgesKept == [Next]_vars => edges' = edges
BY RowSteps DEF RowStep, Claim, StartTask, SettleBlock, BlockTask, Write, HandleFailure,
   FinishTask, RetryTask, CancelTask, Heartbeat, HeartbeatTask, Commit, ResumeTask,
   ApproveTask, Recover, RecoverTasks, LossWrite, RetryLost, Expire, ExpireLease, Due, Unpark,
   storeVars

GraphInv == edges = Deps /\ DependenciesRanFirst

\* A claim needs its dependencies succeeded, and that is only ever cancelled.
LEMMA GraphStep == Consistent /\ GraphInv /\ [Next]_vars => GraphInv'
<1> SUFFICES ASSUME Consistent, GraphInv, [Next]_vars, NEW e \in edges, tries'[e[2]] > 0
             PROVE  status'[e[1]] \in {"succeeded", "cancelled"}
  BY EdgesKept DEF GraphInv, DependenciesRanFirst
<1>0. e[1] \in Tasks /\ e[2] \in Tasks
  BY WorkerAssumption DEF GraphInv
<1>1. CASE tries[e[2]] > 0
  BY <1>0, <1>1, FinishedStep DEF GraphInv, DependenciesRanFirst, Terminal
<1>2. CASE ~(tries[e[2]] > 0)
  <2>1. PICK q \in Runs : Claim(q) /\ job[q] = e[2]
    BY <1>0, <1>2, TriesMove
  <2>2. status[e[1]] = "succeeded" /\ status[e[2]] = "queued"
    BY <2>1 DEF Claim, StartTask, Startable, DependenciesMet
  <2> QED
    BY <1>0, <2>2, FinishedStep DEF Terminal
<1> QED
  BY <1>1, <1>2

\* No task runs before what it depends on has succeeded.
THEOREM DependenciesRunFirst == Spec => []DependenciesRanFirst
<1>1. Init => Consistent /\ GraphInv
  BY TypedInit, ClaimInit, WorkerAssumption
     DEF Consistent, GraphInv, Init, DependenciesRanFirst
<1>2. Consistent /\ GraphInv /\ [Next]_vars => (Consistent /\ GraphInv)'
  BY TypedStep, ClaimStep, GraphStep DEF Consistent
<1>3. GraphInv => DependenciesRanFirst
  BY DEF GraphInv
<1> QED
  BY <1>1, <1>2, <1>3, PTL DEF Spec

\* A parked root was parked before: the worker never writes that checkpoint.
LEMMA RootsWereParked ==
  ASSUME Consistent, [Next]_vars, NEW t \in Tasks, phase'[t] = "orchestrator_waiting"
  PROVE  phase[t] = "orchestrator_waiting"
<1>0. phase \in [Tasks -> Phases]
  BY DEF Consistent, Typed, TypeOK, StoreTypeOK
<1>1. ASSUME NEW c \in Clients, Commit(c)
      PROVE  phase[t] = "orchestrator_waiting"
  BY <1>0, <1>1 DEF Commit, CancelTask, ResumeTask, ApproveTask, storeVars,
                    Consistent, Typed, JobsAndCalls
<1>2. ASSUME NEW r \in Runs, Claim(r) \/ SettleBlock(r) \/ Write(r) \/ Heartbeat(r) \/ LossWrite(r)
      PROVE  phase[t] = "orchestrator_waiting"
  BY <1>0, <1>2 DEF Claim, StartTask, SettleBlock, BlockTask, Write, HandleFailure, FinishTask,
                    RetryTask, CancelTask, Heartbeat, HeartbeatTask, LossWrite, RetryLost,
                    storeVars
<1>3. ASSUME NEW u \in Tasks, Recover \/ Expire(u) \/ Due(u)
      PROVE  phase[t] = "orchestrator_waiting"
  BY <1>0, <1>3 DEF Recover, RecoverTasks, Expire, ExpireLease, Due, Unpark
<1> QED
  BY <1>1, <1>2, <1>3, RowSteps DEF RowStep, storeVars

\* Only Claim adds a running child, and its gate has room for one.
LEMMA WidthStep == Consistent /\ WidthRespected /\ [Next]_vars => WidthRespected'
<1> SUFFICES ASSUME Consistent, WidthRespected, [Next]_vars, NEW root \in Tasks,
                    phase'[root] = "orchestrator_waiting"
             PROVE  Cardinality(RunningChildren(root)') <= Width
  BY DEF WidthRespected
<1>1. phase[root] = "orchestrator_waiting"
  BY RootsWereParked
<1>2. /\ IsFiniteSet(RunningChildren(root)) /\ Cardinality(RunningChildren(root)) \in Nat
      /\ Width \in Nat
  BY FS_Subset, FS_CardinalityType, StoreAssumption DEF RunningChildren
<1>3. CASE \E t \in Tasks : RootOf[t] = root /\ t # root /\ \E r \in Runs : Claim(r) /\ job[r] = t
  <2>1. PICK t \in Tasks, r \in Runs : RootOf[t] = root /\ t # root /\ Claim(r) /\ job[r] = t
    BY <1>3
  <2>2. Cardinality(RunningChildren(root)) < Width
    BY <1>1, <2>1 DEF Claim, StartTask, Startable, WithinWidth
  <2>3. RunningChildren(root)' = RunningChildren(root) \union {t}
    BY <2>1 DEF Claim, StartTask, RunningChildren, Consistent, Typed, TypeOK, StoreTypeOK
  <2>4. t \notin RunningChildren(root)
    BY <2>1 DEF Claim, StartTask, Startable, RunningChildren
  <2>5. Cardinality(RunningChildren(root) \union {t}) = Cardinality(RunningChildren(root)) + 1
    BY <1>2, <2>4, FS_AddElement
  <2> QED
    BY <1>2, <2>2, <2>3, <2>5
<1>4. CASE ~\E t \in Tasks : RootOf[t] = root /\ t # root /\ \E r \in Runs : Claim(r) /\ job[r] = t
  <2>1. ASSUME NEW t \in Tasks, t # root, RootOf[t] = root, status'[t] = "running"
        PROVE  status[t] = "running"
    BY <1>4, <2>1, StatusChanges DEF StatusChange
  <2>2. RunningChildren(root)' \subseteq RunningChildren(root)
    BY <2>1 DEF RunningChildren
  <2>3. Cardinality(RunningChildren(root)') <= Cardinality(RunningChildren(root))
    BY <1>2, <2>2, FS_Subset
  <2>4. Cardinality(RunningChildren(root)') \in Nat
    BY <1>2, <2>2, FS_Subset, FS_CardinalityType
  <2> QED
    BY <1>1, <1>2, <2>3, <2>4 DEF WidthRespected
<1> QED
  BY <1>3, <1>4

\* A graph never has more children running than its width.
THEOREM WidthIsRespected == Spec => []WidthRespected
<1>1. ASSUME Init, NEW root \in Tasks
      PROVE  Cardinality(RunningChildren(root)) <= Width
  <2>1. RunningChildren(root) = {}
    BY <1>1 DEF Init, RunningChildren
  <2> QED
    BY <2>1, FS_EmptySet, StoreAssumption
<1>2. Init => Consistent /\ WidthRespected
  BY <1>1, TypedInit, ClaimInit DEF Consistent, WidthRespected
<1>3. Consistent /\ WidthRespected /\ [Next]_vars => (Consistent /\ WidthRespected)'
  BY TypedStep, ClaimStep, WidthStep DEF Consistent
<1> QED
  BY <1>2, <1>3, PTL DEF Spec

----------------------------------------------------------------------------
(* Success means work.                                                     *)

\* A run about to complete its task has its attempt recorded and may do so.
Completing ==
  \A r \in Runs :
    pc[r] \in {"settle", "write"} /\ outcome[r] = "complete"
      => attempt[r] = "succeeded" /\ job[r] \notin Reviewed

Worked ==
  \A t \in Tasks \ Reviewed :
    status[t] = "succeeded"
      => \E r \in Runs : job[r] = t /\ pc[r] = "done" /\ attempt[r] = "succeeded"

\* A run that is about to complete its task has recorded its attempt.
LEMMA CompletingStep == Typed /\ Completing /\ [Next]_vars => Completing'
<1> SUFFICES ASSUME Typed, Completing, [Next]_vars, NEW r \in Runs,
                    pc'[r] \in {"settle", "write"}, outcome'[r] = "complete"
             PROVE  attempt'[r] = "succeeded" /\ job'[r] \notin Reviewed
  BY DEF Completing
<1>0. /\ pc \in [Runs -> Pcs] /\ outcome \in [Runs -> Outcomes]
      /\ attempt \in [Runs -> Attempts] /\ job \in [Runs -> Tasks \union {None}]
  BY DEF Typed, TypeOK
<1>1. ASSUME NEW q \in Runs, NEW o \in DOMAIN AttemptFor, EndTurn(q, o)
      PROVE  attempt'[r] = "succeeded" /\ job'[r] \notin Reviewed
  <2>1. CASE q = r
    BY <1>0, <1>1, <2>1 DEF EndTurn, CanEnd, AttemptFor, Goto
  <2>2. CASE q # r
    BY <1>0, <1>1, <2>2 DEF EndTurn, Goto, Completing
  <2> QED
    BY <2>1, <2>2
<1>2. ASSUME NEW q \in Runs,
             Claim(q) \/ NotStarted(q) \/ EnterUnclaimed(q) \/ Reload(q) \/ CreateAttempt(q)
      PROVE  attempt'[r] = "succeeded" /\ job'[r] \notin Reviewed
  BY <1>0, <1>2 DEF Claim, NotStarted, EnterUnclaimed, Reload, CreateAttempt, Enter, Return,
                    Goto, Completing
<1>3. ASSUME NEW q \in Runs,
             \/ SettleTerminal(q) \/ SettleNotOwner(q) \/ SettleChecked(q) \/ SettleBlock(q)
             \/ Write(q) \/ Raise(q) \/ Rescue(q) \/ Die(q)
      PROVE  attempt'[r] = "succeeded" /\ job'[r] \notin Reviewed
  BY <1>0, <1>3 DEF SettleTerminal, SettleNotOwner, SettleChecked, SettleBlock, Write, Raise,
                    Rescue, Die, Leave, Return, Goto, Completing
<1>4. ASSUME NEW q \in Runs, NEW t \in Tasks, Submit(q, t)
      PROVE  attempt'[r] = "succeeded" /\ job'[r] \notin Reviewed
  BY <1>0, <1>4 DEF Submit, Goto, Completing
<1>5. ASSUME Restart
      PROVE  attempt'[r] = "succeeded" /\ job'[r] \notin Reviewed
  BY <1>0, <1>5 DEF Restart, Completing
<1>6. ASSUME NEW q \in Runs, LossRead(q)
      PROVE  attempt'[r] = "succeeded" /\ job'[r] \notin Reviewed
  <2>1. pc[q] = "done" /\ pc' = pc /\ outcome' = outcome /\ job' = job
    BY <1>6 DEF LossRead, Typed, JobsAndCalls
  <2>2. attempt'[r] = attempt[r]
    BY <1>0, <1>6, <2>1 DEF LossRead
  <2> QED
    BY <2>1, <2>2 DEF Completing
<1> QED
  BY <1>1, <1>2, <1>3, <1>4, <1>5, <1>6
     DEF Next, RunStep, Heartbeat, CallStep, Cancel, Resume, Approve, Commit, Signal,
         ScanStale, Recover, LossWrite, LossForgotten, LossOver,
         Expire, Due, vars, runVars, Completing

\* A run that is over is over, with the attempt it left, unless that
\* was still running.
LEMMA DoneStays ==
  ASSUME Typed, [Next]_vars, NEW r \in Runs, pc[r] = "done"
  PROVE  pc'[r] = "done" /\ job'[r] = job[r] /\ (attempt[r] # "running" => attempt'[r] = attempt[r])
<1>0. /\ pc \in [Runs -> Pcs] /\ attempt \in [Runs -> Attempts]
      /\ job \in [Runs -> Tasks \union {None}]
  BY DEF Typed, TypeOK
<1>1. ASSUME NEW q \in Runs, RunStep(q)
      PROVE  /\ q # r /\ job' = job
             /\ \E l \in Pcs : pc' = [pc EXCEPT ![q] = l]
             /\ \E a \in Attempts : attempt' = [attempt EXCEPT ![q] = a] \/ attempt' = attempt
  BY <1>0, <1>1
     DEF RunStep, Claim, NotStarted, EnterUnclaimed, Reload, CreateAttempt, EndTurn, AttemptFor,
         SettleTerminal, SettleNotOwner, SettleChecked, SettleBlock, Write, Raise, Rescue,
         Leave, Return, Enter, Goto, Beating, Pcs, Attempts
<1>2. ASSUME NEW q \in Runs, NEW t \in Tasks, Submit(q, t)
      PROVE  pc'[r] = "done" /\ job'[r] = job[r] /\ (attempt[r] # "running" => attempt'[r] = attempt[r])
  BY <1>0, <1>2 DEF Submit, Goto
<1>3. ASSUME NEW q \in Runs, Die(q)
      PROVE  pc'[r] = "done" /\ job'[r] = job[r] /\ (attempt[r] # "running" => attempt'[r] = attempt[r])
  BY <1>0, <1>3 DEF Die, Return, Goto
<1>4. ASSUME Restart
      PROVE  pc'[r] = "done" /\ job'[r] = job[r] /\ (attempt[r] # "running" => attempt'[r] = attempt[r])
  BY <1>0, <1>4 DEF Restart
<1>5. ASSUME NEW q \in Runs, LossRead(q)
      PROVE  pc'[r] = "done" /\ job'[r] = job[r] /\ (attempt[r] # "running" => attempt'[r] = attempt[r])
  BY <1>0, <1>5 DEF LossRead
<1> QED
  BY <1>0, <1>1, <1>2, <1>3, <1>4, <1>5
     DEF Next, Heartbeat, CallStep, Cancel, Resume, Approve, Commit, Signal, ScanStale,
         Recover, LossWrite, LossForgotten, LossOver,
         Expire, Due, vars, runVars

\* Only a completing run writes succeeded.
LEMMA WriteSucceeds ==
  ASSUME Consistent, NEW r \in Runs, Write(r), Owns(job[r], r), status'[job[r]] = "succeeded"
  PROVE  outcome[r] = "complete"
BY DEF Write, HandleFailure, FinishTask, RetryTask, CancelTask, Release, Owns, storeVars,
       Consistent, Typed, TypeOK, StoreTypeOK, JobsAndCalls

\* Whoever writes succeeded without a review leaves a succeeded attempt.
LEMMA WorkedStep == Consistent /\ Completing /\ Worked /\ [Next]_vars => Worked'
<1> SUFFICES ASSUME Consistent, Completing, Worked, [Next]_vars,
                    NEW t \in Tasks \ Reviewed, status'[t] = "succeeded"
             PROVE  \E r \in Runs : job'[r] = t /\ pc'[r] = "done" /\ attempt'[r] = "succeeded"
  BY DEF Worked
<1>1. CASE status[t] = "succeeded"
  BY <1>1, DoneStays DEF Worked, Consistent
<1>2. CASE status[t] # "succeeded"
  <2>1. ~\E r \in Runs : Claim(r) /\ job[r] = t
    BY DEF Claim, StartTask, Consistent, Typed, TypeOK, StoreTypeOK
  <2>2. PICK r \in Runs : Owns(t, r) /\ job[r] = t /\ Write(r) /\ pc'[r] = "done"
    BY <1>2, <2>1, StatusChanges DEF StatusChange
  <2>3. outcome[r] = "complete"
    BY <2>2, WriteSucceeds
  <2>4. attempt[r] = "succeeded" /\ job' = job /\ attempt' = attempt
    BY <2>2, <2>3 DEF Completing, Write
  <2> QED
    BY <2>2, <2>4
<1> QED
  BY <1>1, <1>2

WorkInv == Consistent /\ Completing /\ Worked

\* The strengthening SuccessHasWork rests on is an invariant.
LEMMA WorkAlways == Spec => []WorkInv
<1>1. Init => WorkInv
  BY TypedInit, ClaimInit DEF WorkInv, Consistent, Init, Completing, Worked
<1>2. WorkInv /\ [Next]_vars => WorkInv'
  BY TypedStep, ClaimStep, CompletingStep, WorkedStep DEF WorkInv, Consistent
<1> QED
  BY <1>1, <1>2, PTL DEF Spec

\* A succeeded task without review has a run whose attempt succeeded.
THEOREM SuccessHasWork == Spec => []SucceededHasWork
<1>1. WorkInv => SucceededHasWork
  BY DEF WorkInv, Worked, SucceededHasWork
<1> QED
  BY <1>1, WorkAlways, PTL

----------------------------------------------------------------------------
(* TaskWorker implements TaskPromise.                                      *)

\* The worker starts where the promise starts.
LEMMA PromiseInit == Init => Promise!Init
BY DEF Init, Promise!Init

\* Leaving a status by Release is the promise's Drop.
LEMMA ReleaseDrops ==
  ASSUME NEW t \in Tasks, NEW s, Release(t, s), UNCHANGED tries
  PROVE  Promise!Drop(t, s)
BY DEF Release, Promise!Drop

\* Every step of the worker is a step of the promise, or a stutter.
LEMMA PromiseStep ==
  ASSUME WorkInv, GraphInv, [Next]_vars
  PROVE  [Promise!Next]_(Promise!promiseVars)
<1> DEFINE Kept == [Promise!Next]_(Promise!promiseVars)
<1>0. Consistent /\ status \in [Tasks -> Status] /\ claim \in [Tasks -> Runs \union {None}]
  BY DEF WorkInv, Consistent, Typed, TypeOK, StoreTypeOK
<1>1. CASE UNCHANGED <<status, claim, tries>>
  BY <1>1 DEF Promise!promiseVars
<1>2. ASSUME NEW r \in Runs, Claim(r)
      PROVE  Kept
  <2>1. job[r] \in Tasks
    BY <1>0, <1>2 DEF Claim, Consistent, Typed, JobsAndCalls
  <2>2. \A u \in Tasks : claim[u] # r
    BY <1>0, <1>2, StoreAssumption DEF Claim, Consistent, ClaimConsistent
  <2>3. \A d \in Tasks : <<d, job[r]>> \in Deps => status[d] = "succeeded"
    BY <1>2 DEF Claim, StartTask, Startable, DependenciesMet, GraphInv
  <2>4. Promise!Start(job[r], r)
    BY <1>2, <2>2, <2>3 DEF Claim, StartTask, Startable, Promise!Start
  <2> QED
    BY <2>1, <2>4 DEF Promise!Next
<1>3. ASSUME NEW t \in Tasks, CancelTask(t)
      PROVE  Kept
  <2>1. Promise!Drop(t, "cancelled")
    BY <1>3, ReleaseDrops DEF CancelTask
  <2>2. CASE status[t] = "cancelled"
    <3>1. claim[t] = None
      BY <1>0, <2>2 DEF Consistent, ClaimConsistent
    <3>2. UNCHANGED <<status, claim, tries>>
      BY <1>0, <1>3, <2>2, <3>1 DEF CancelTask, Release
    <3> QED
      BY <1>1, <3>2
  <2>3. CASE status[t] # "cancelled"
    BY <2>1, <2>3 DEF Promise!Next, Promise!Cancel
  <2> QED
    BY <2>2, <2>3
<1>4. ASSUME NEW r \in Runs, SettleBlock(r)
      PROVE  Kept
  <2>1. job[r] \in Tasks
    BY <1>0, <1>4 DEF SettleBlock, Consistent, Typed, JobsAndCalls
  <2>2. status[job[r]] = "running" /\ Promise!Drop(job[r], "blocked")
    BY <1>4, <2>1, ReleaseDrops DEF SettleBlock, BlockTask, Owns
  <2> QED
    BY <2>1, <2>2 DEF Promise!Next, Promise!Settle
<1>5. ASSUME NEW r \in Runs, Write(r)
      PROVE  Kept
  <2>1. job[r] \in Tasks
    BY <1>0, <1>5 DEF Write, Consistent, Typed, JobsAndCalls
  <2>2. CASE outcome[r] = "cancelled"
    BY <1>3, <1>5, <2>1, <2>2 DEF Write
  <2>3. CASE outcome[r] # "cancelled"
    <3>1. \/ UNCHANGED storeVars
          \/ /\ status[job[r]] = "running" /\ UNCHANGED tries
             /\ \E s \in {"succeeded", "failed", "queued"} :
                  /\ Release(job[r], s)
                  /\ s = "succeeded" => outcome[r] = "complete"
      BY <1>5, <2>3 DEF Write, HandleFailure, FinishTask, RetryTask, Owns
    <3>2. outcome[r] = "complete" => job[r] \notin Reviewed
      BY <1>5 DEF Write, WorkInv, Completing
    <3>3. CASE UNCHANGED storeVars
      BY <1>1, <3>3 DEF storeVars
    <3>4. CASE ~UNCHANGED storeVars
      <4>1. PICK s \in {"succeeded", "failed", "queued"} :
              /\ Promise!Drop(job[r], s)
              /\ s = "succeeded" => outcome[r] = "complete"
        BY <2>1, <3>1, <3>4, ReleaseDrops
      <4>2. Promise!Settle(job[r], s)
        BY <3>1, <3>2, <3>4, <4>1 DEF Promise!Settle
      <4> QED
        BY <2>1, <4>2 DEF Promise!Next
    <3> QED
      BY <3>3, <3>4
  <2> QED
    BY <2>2, <2>3
<1>6. ASSUME NEW c \in Clients, Commit(c)
      PROVE  Kept
  <2> DEFINE t == call[c].task
  <2>1. t \in Tasks
    BY <1>0, <1>6 DEF Commit, Consistent, Typed, JobsAndCalls
  <2>2. CASE CancelTask(t)
    BY <1>3, <2>1, <2>2
  <2>3. CASE ResumeTask(t, call[c].phase)
    <3>1. CASE status[t] = "blocked"
      BY <2>1, <2>3, <3>1, ReleaseDrops DEF ResumeTask, Promise!Next, Promise!Resume
    <3>2. CASE status[t] # "blocked"
      BY <1>1, <2>3, <3>2 DEF ResumeTask, storeVars
    <3> QED
      BY <3>1, <3>2
  <2>4. CASE ApproveTask(t)
    <3>1. CASE status[t] = "blocked" /\ t \in Reviewed
      BY <2>1, <2>4, <3>1, ReleaseDrops DEF ApproveTask, Promise!Next, Promise!Approve
    <3>2. CASE ~(status[t] = "blocked" /\ t \in Reviewed)
      BY <1>1, <2>4, <3>2 DEF ApproveTask, storeVars
    <3> QED
      BY <3>1, <3>2
  <2> QED
    BY <1>6, <2>2, <2>3, <2>4 DEF Commit
<1>7. ASSUME Recover
      PROVE  Kept
  <2> DEFINE S == {t \in scan : status[t] = "running"}
  <2>1. S \in SUBSET Tasks
    BY <1>0 DEF Consistent, Typed, TypeOK
  <2>2. Promise!Reclaim(S)
    BY <1>7 DEF Recover, RecoverTasks, Promise!Reclaim
  <2> QED
    BY <2>1, <2>2 DEF Promise!Next
<1>8. ASSUME NEW r \in Runs, Heartbeat(r)
      PROVE  UNCHANGED <<status, claim, tries>>
  BY <1>8 DEF Heartbeat, HeartbeatTask
<1>9. ASSUME NEW u \in Tasks, Expire(u) \/ Due(u)
      PROVE  UNCHANGED <<status, claim, tries>>
  BY <1>9 DEF Expire, ExpireLease, Due, Unpark
<1>10. CASE UNCHANGED storeVars
  BY <1>1, <1>10 DEF storeVars
<1>11. ASSUME NEW r \in Runs, LossWrite(r)
       PROVE  Kept
  <2>1. job[r] \in Tasks
    BY <1>0, <1>11, WorkerAssumption DEF LossWrite, Consistent, Typed, JobsAndCalls
  <2>2. \/ UNCHANGED storeVars
        \/ /\ status[job[r]] = "running" /\ UNCHANGED tries
           /\ \E s \in {"failed", "queued"} : Release(job[r], s)
    BY <1>11 DEF LossWrite, FinishTask, RetryLost, Owns
  <2>3. CASE UNCHANGED storeVars
    BY <1>1, <2>3 DEF storeVars
  <2>4. CASE ~UNCHANGED storeVars
    <3>1. PICK s \in {"failed", "queued"} : Promise!Drop(job[r], s)
      BY <2>1, <2>2, <2>4, ReleaseDrops
    <3>2. Promise!Settle(job[r], s)
      BY <2>2, <2>4, <3>1 DEF Promise!Settle
    <3> QED
      BY <2>1, <3>2 DEF Promise!Next
  <2> QED
    BY <2>3, <2>4
<1> HIDE DEF Kept
<1> QED
  BY <1>1, <1>2, <1>4, <1>5, <1>6, <1>7, <1>8, <1>9, <1>10, <1>11, RowSteps DEF RowStep, Kept

\* Whatever runs, calls, recoveries and crashes do, what a reader of the tasks
\* table sees is a behaviour of TaskPromise.
THEOREM KeepsPromise == Spec => PromiseKept
<1>1. Init => WorkInv /\ GraphInv
  BY TypedInit, ClaimInit, WorkerAssumption
     DEF WorkInv, Consistent, Init, Completing, Worked, GraphInv, DependenciesRanFirst
<1>2. WorkInv /\ GraphInv /\ [Next]_vars => (WorkInv /\ GraphInv)'
  BY TypedStep, ClaimStep, CompletingStep, WorkedStep, GraphStep DEF WorkInv, Consistent
<1>3. WorkInv /\ GraphInv /\ [Next]_vars => [Promise!Next]_(Promise!promiseVars)
  BY PromiseStep
<1> QED
  BY <1>1, <1>2, <1>3, PromiseInit, PTL DEF Spec, PromiseKept, Promise!Spec
=============================================================================
