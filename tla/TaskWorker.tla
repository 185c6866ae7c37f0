----------------------------- MODULE TaskWorker -----------------------------
(***************************************************************************)
(* TaskWorker of packages/amadeus/workers.py: the _run_task invocations    *)
(* that execute tasks, the API calls that cancel, resume and approve them, *)
(* the recovery loop, and the crashes of the processes they live in, over  *)
(* the rows of TaskStore.                                                  *)
(*                                                                         *)
(* A run is one call of _run_task.  Its steps are cut where another thread *)
(* or process can get in between: at every store statement that others     *)
(* read or write, and between the SELECT and the UPDATE of the methods     *)
(* that have both.  A run in Local is a thread of the process that serves  *)
(* the API (AMADEUS_TASK_RUNNER=in_process); any other run is a process,   *)
(* forked, or in Watched: started by a SubprocessTaskRunner, which recovers*)
(* the task of a process that exits without having completed it.           *)
(***************************************************************************)
EXTENDS TaskStore

CONSTANTS
  Clients,      \* concurrent callers of the task API
  Local,        \* the runs hosted in the API's process
  Watched,      \* the runs whose processes a SubprocessTaskRunner waits for
  Deps,         \* task_edges of the graphs already applied
  MaxRestarts   \* bound on the restarts of the API's process

ASSUME WorkerAssumption ==
  /\ Local \subseteq Runs
  /\ Watched \subseteq Runs \ Local
  /\ Runs \intersect {"none", "due"} = {}
  /\ Deps \subseteq Tasks \X Tasks
  /\ MaxRestarts \in Nat

VARIABLES
  pc,        \* where each run is; "done" when it has returned or died
  job,       \* the task_id it was submitted with
  outcome,   \* how its turn ended; "rescue" inside the except block
  snap,      \* attemptCount of the row it, or the recovery of it, last read
  attempt,   \* the status of its task_attempts row
  stop,      \* its cancel_event
  loss,      \* _recover_process_loss for it: "due", or the claim it has read
  slot,      \* self._running: task -> the run whose cancel_event is there
  call,      \* the API call each client has in progress
  scan,      \* the stale rows a recovery has read and not yet requeued
  restarts   \* how often the API's process restarted

runVars == <<pc, job, outcome, snap, attempt, stop, loss>>
vars == <<storeVars, runVars, slot, call, scan, restarts>>

Pcs == {"idle", "start", "reload", "context", "turn", "settle", "write",
        "rescue", "done"}
\* Between the start and the end of the heartbeat thread.
Beating == {"context", "turn", "settle", "write", "rescue"}
Active == Beating \union {"start", "reload"}

Outcomes == {"none", "complete", "review", "error", "approval", "invalid",
             "cancelled", "rescue"}
Attempts == {"none", "running", "succeeded", "failed", "cancelled", "blocked",
             "abandoned"}
Calls == [stage : {"idle", "commit", "signal"},
          op : {"none", "cancel", "resume", "approve"},
          task : Tasks \union {None},
          run : Runs \union {None},
          phase : Phases]
NoCall == [stage |-> "idle", op |-> "none", task |-> None, run |-> None,
           phase |-> "none"]

TypeOK ==
  /\ StoreTypeOK
  /\ pc \in [Runs -> Pcs]
  /\ job \in [Runs -> Tasks \union {None}]
  /\ outcome \in [Runs -> Outcomes]
  /\ snap \in [Runs -> Nat]
  /\ attempt \in [Runs -> Attempts]
  /\ stop \in [Runs -> BOOLEAN]
  /\ loss \in [Runs -> {"none", "due"} \union Runs]
  /\ slot \in [Tasks -> Runs \union {None}]
  /\ call \in [Clients -> Calls]
  /\ scan \subseteq Tasks
  /\ restarts \in Nat

\* apply_task_graph has parked the root of each graph; the rest is queued.
IsRoot(t) == \E u \in Tasks : u # t /\ RootOf[u] = t

Init ==
  /\ status = [t \in Tasks |-> IF IsRoot(t) THEN "blocked" ELSE "queued"]
  /\ claim = [t \in Tasks |-> None]
  /\ lease = [t \in Tasks |-> "none"]
  /\ tries = [t \in Tasks |-> 0]
  /\ parked = [t \in Tasks |-> FALSE]
  /\ phase = [t \in Tasks |-> IF IsRoot(t) THEN "orchestrator_waiting"
                                           ELSE "none"]
  /\ edges = Deps
  /\ pc = [r \in Runs |-> "idle"]
  /\ job = [r \in Runs |-> None]
  /\ outcome = [r \in Runs |-> "none"]
  /\ snap = [r \in Runs |-> 0]
  /\ attempt = [r \in Runs |-> "none"]
  /\ stop = [r \in Runs |-> FALSE]
  /\ loss = [r \in Runs |-> "none"]
  /\ slot = [t \in Tasks |-> None]
  /\ call = [c \in Clients |-> NoCall]
  /\ scan = {}
  /\ restarts = 0

----------------------------------------------------------------------------
(* A run.                                                                  *)

Goto(r, l) == pc' = [pc EXCEPT ![r] = l]

\* Returning drops the run's local variables.  A process whose task has not
\* succeeded by then exits with a code other than 0, as one that is killed does;
\* what its parent does about it makes a difference only to a running task.
Return(r) ==
  /\ Goto(r, "done")
  /\ outcome' = [outcome EXCEPT ![r] = "none"]
  /\ snap' = [snap EXCEPT ![r] = 0]
  /\ stop' = [stop EXCEPT ![r] = FALSE]
  /\ loss' = [loss EXCEPT ![r] = IF r \in Watched THEN "due" ELSE "none"]

\* The finally block: the task's slot is emptied, whichever run is in it.
Leave(r) ==
  /\ Return(r)
  /\ slot' = IF r \in Local THEN [slot EXCEPT ![job[r]] = None] ELSE slot

\* POST /tasks, a retry timer, recover(), dispatch_ready and POST
\* /tasks/{id}/resume hand a task to the runner whatever its status is.
Submit(r, t) ==
  /\ pc[r] = "idle"
  /\ Goto(r, "start")
  /\ job' = [job EXCEPT ![r] = t]
  /\ UNCHANGED <<storeVars, outcome, snap, attempt, stop, loss, slot, call, scan,
                 restarts>>

Claim(r) ==
  /\ pc[r] = "start"
  /\ StartTask(job[r], r)
  /\ Goto(r, "reload")
  /\ UNCHANGED <<job, outcome, snap, attempt, stop, loss, slot, call, scan,
                 restarts>>

\* start_task left the row alone, and it does not say "running".
NotStarted(r) ==
  /\ pc[r] = "start"
  /\ ~Startable(job[r])
  /\ status[job[r]] # "running"
  /\ Return(r)
  /\ UNCHANGED <<storeVars, job, attempt, slot, call, scan, restarts>>

\* The run goes on with the row it has just read.
Enter(r) ==
  /\ Goto(r, "context")
  /\ snap' = [snap EXCEPT ![r] = tries[job[r]]]
  /\ slot' = IF r \in Local THEN [slot EXCEPT ![job[r]] = r] ELSE slot

\* start_task left the row alone because the task is already running: what
\* it returns says "running", and _run_task asks for no more than that.
EnterUnclaimed(r) ==
  /\ pc[r] = "start"
  /\ status[job[r]] = "running"
  /\ Enter(r)
  /\ UNCHANGED <<storeVars, job, outcome, attempt, stop, loss, call, scan, restarts>>

\* start_task reads the row it returns after its transaction.
Reload(r) ==
  /\ pc[r] = "reload"
  /\ IF status[job[r]] = "running"
       THEN Enter(r) /\ UNCHANGED <<outcome, stop, loss>>
       ELSE Return(r) /\ UNCHANGED slot
  /\ UNCHANGED <<storeVars, job, attempt, call, scan, restarts>>

CreateAttempt(r) ==
  /\ pc[r] = "context"
  /\ Goto(r, "turn")
  /\ attempt' = [attempt EXCEPT ![r] = "running"]
  /\ UNCHANGED <<storeVars, job, outcome, snap, stop, loss, slot, call, scan,
                 restarts>>

\* Mutant of AttemptFor: a completed run does not finish its attempt.
AttemptForUnfinished == [complete |-> "running", review |-> "succeeded",
                         error |-> "failed", invalid |-> "failed",
                         approval |-> "blocked", cancelled |-> "cancelled"]

\* Outcome -> what finish_task_attempt writes for it.
AttemptFor == [complete |-> "succeeded", review |-> "succeeded",
               error |-> "failed", invalid |-> "failed",
               approval |-> "blocked", cancelled |-> "cancelled"]

\* Mutant of CanEnd: review_required is not looked at.
CanEndUnreviewed(r, o) == o \in {"complete", "error"} => ~stop[r]

\* The events of the model turn, up to finish_task_attempt.  A turn can also
\* be cancelled through its session, so "cancelled" needs no cancel_event.
CanEnd(r, o) ==
  CASE o = "complete" -> ~stop[r] /\ job[r] \notin Reviewed
    [] o = "review" -> ~stop[r] /\ job[r] \in Reviewed
    [] o = "error" -> ~stop[r]
    [] OTHER -> TRUE

EndTurn(r, o) ==
  /\ pc[r] = "turn"
  /\ CanEnd(r, o)
  /\ Goto(r, "settle")
  /\ outcome' = [outcome EXCEPT ![r] = o]
  /\ attempt' = [attempt EXCEPT ![r] = AttemptFor[o]]
  /\ UNCHANGED <<storeVars, job, snap, stop, loss, slot, call, scan, restarts>>

----------------------------------------------------------------------------
(* How a run settles its task: the SELECT of complete_task, fail_task,     *)
(* retry_task or cancel_task, the whole of block_task, then the UPDATE.    *)

\* The SELECT sees a terminal row: the method returns it as it is.
SettleTerminal(r) ==
  /\ pc[r] = "settle"
  /\ status[job[r]] \in Terminal
  /\ Leave(r)
  /\ UNCHANGED <<storeVars, job, attempt, call, scan, restarts>>

\* "task is not claimed by this worker": to the except block, once.
SettleNotOwner(r) ==
  /\ pc[r] = "settle"
  /\ outcome[r] # "cancelled"
  /\ status[job[r]] \notin Terminal
  /\ ~Owns(job[r], r)
  /\ IF outcome[r] = "rescue"
       THEN Leave(r)
       ELSE Goto(r, "rescue") /\ UNCHANGED <<outcome, snap, stop, loss, slot>>
  /\ UNCHANGED <<storeVars, job, attempt, call, scan, restarts>>

\* cancel_task asks for no claim.
SettleChecked(r) ==
  /\ pc[r] = "settle"
  /\ \/ outcome[r] = "cancelled" /\ status[job[r]] \notin Terminal
     \/ /\ outcome[r] \in {"complete", "error", "invalid", "rescue"}
        /\ Owns(job[r], r)
  /\ Goto(r, "write")
  /\ UNCHANGED <<storeVars, job, outcome, snap, attempt, stop, loss, slot, call,
                 scan, restarts>>

SettleBlock(r) ==
  /\ pc[r] = "settle"
  /\ \/ outcome[r] = "review" /\ BlockTask(job[r], r, "review")
     \/ outcome[r] = "approval" /\ BlockTask(job[r], r, "tool_approval")
  /\ Leave(r)
  /\ UNCHANGED <<job, attempt, call, scan, restarts>>

\* Mutant of HandleFailure: one attempt too many.
HandleFailurePlusOne(r) ==
  \/ snap[r] <= MaxAttempts /\ RetryTask(job[r], r)
  \/ snap[r] > MaxAttempts /\ FinishTask(job[r], r, "failed")

\* _handle_failure goes by the attempt_count of the row it was handed.
HandleFailure(r) ==
  \/ snap[r] < MaxAttempts /\ RetryTask(job[r], r)
  \/ snap[r] >= MaxAttempts /\ FinishTask(job[r], r, "failed")

Write(r) ==
  /\ pc[r] = "write"
  /\ \/ outcome[r] = "complete" /\ FinishTask(job[r], r, "succeeded")
     \/ outcome[r] = "invalid" /\ FinishTask(job[r], r, "failed")
     \/ outcome[r] \in {"error", "rescue"} /\ HandleFailure(r)
     \/ outcome[r] = "cancelled" /\ CancelTask(job[r])
  /\ Leave(r)
  /\ UNCHANGED <<job, attempt, call, scan, restarts>>

\* Anything the run calls may raise: in start_task, past the reach of the try
\* block; inside the try block; or inside the except block, where it is only
\* logged.  The first and the last leave the task claimed by a run that is over.
Raise(r) ==
  /\ \/ /\ pc[r] \in {"start", "reload"}
        /\ Return(r) /\ UNCHANGED slot
     \/ /\ pc[r] \in Beating \ {"rescue"} /\ outcome[r] # "rescue"
        /\ Goto(r, "rescue") /\ UNCHANGED <<outcome, snap, stop, loss, slot>>
     \/ /\ pc[r] = "rescue" \/ (pc[r] \in Beating /\ outcome[r] = "rescue")
        /\ Leave(r)
  /\ UNCHANGED <<storeVars, job, attempt, call, scan, restarts>>

\* The except block: fail the attempt, if there is one, and reread the task.
Rescue(r) ==
  /\ pc[r] = "rescue"
  /\ Goto(r, "settle")
  /\ outcome' = [outcome EXCEPT ![r] = "rescue"]
  /\ attempt' = [attempt EXCEPT ![r] = IF @ = "none" THEN @ ELSE "failed"]
  /\ snap' = [snap EXCEPT ![r] = tries[job[r]]]
  /\ UNCHANGED <<storeVars, job, stop, loss, slot, call, scan, restarts>>

Heartbeat(r) ==
  /\ pc[r] \in Beating
  /\ HeartbeatTask(job[r], r)
  /\ UNCHANGED <<runVars, slot, call, scan, restarts>>

----------------------------------------------------------------------------
(* The task API.  TaskWorker.cancel looks up the cancel_event, has         *)
(* cancel_task read and write the row, and only then sets the event.       *)

Cancel(c, t) ==
  /\ call[c] = NoCall
  /\ call' = [call EXCEPT ![c] =
       [stage |-> IF status[t] \in Terminal THEN "signal" ELSE "commit",
        op |-> "cancel", task |-> t, run |-> slot[t], phase |-> "none"]]
  /\ UNCHANGED <<storeVars, runVars, slot, scan, restarts>>

\* resume_blocked_task turns the checkpoint it read into the next one; the
\* action a run was blocked for becomes an approved one.
Resume(c, t) ==
  /\ call[c] = NoCall
  /\ status[t] = "blocked"
  /\ call' = [call EXCEPT ![c] =
       [stage |-> "commit", op |-> "resume", task |-> t, run |-> None,
        phase |-> IF phase[t] = "tool_approval" THEN "granted" ELSE "resumed"]]
  /\ UNCHANGED <<storeVars, runVars, slot, scan, restarts>>

Approve(c, t) ==
  /\ call[c] = NoCall
  /\ status[t] = "blocked" /\ t \in Reviewed
  /\ call' = [call EXCEPT ![c] =
       [stage |-> "commit", op |-> "approve", task |-> t, run |-> None,
        phase |-> "approved"]]
  /\ UNCHANGED <<storeVars, runVars, slot, scan, restarts>>

Commit(c) ==
  LET t == call[c].task IN
    /\ call[c].stage = "commit"
    /\ \/ /\ call[c].op = "cancel"
          /\ CancelTask(t)
          /\ call' = [call EXCEPT ![c].stage = "signal"]
       \/ /\ call[c].op = "resume"
          /\ ResumeTask(t, call[c].phase)
          /\ call' = [call EXCEPT ![c] = NoCall]
       \/ /\ call[c].op = "approve"
          /\ ApproveTask(t)
          /\ call' = [call EXCEPT ![c] = NoCall]
    /\ UNCHANGED <<runVars, slot, scan, restarts>>

Signal(c) ==
  /\ call[c].stage = "signal"
  /\ stop' = [r \in Runs |-> stop[r] \/ (r = call[c].run /\ pc[r] \in Active)]
  /\ call' = [call EXCEPT ![c] = NoCall]
  /\ UNCHANGED <<storeVars, pc, job, outcome, snap, attempt, loss, slot, scan,
                 restarts>>

----------------------------------------------------------------------------
(* Recovery: recover_stale_running_tasks reads, then writes.               *)

ScanStale ==
  /\ scan = {}
  /\ scan' = {t \in Tasks : Stale(t)}
  /\ scan' # {}
  /\ UNCHANGED <<storeVars, runVars, slot, call, restarts>>

Recover ==
  /\ scan # {}
  /\ RecoverTasks(scan)
  /\ scan' = {}
  /\ UNCHANGED <<runVars, slot, call, restarts>>

----------------------------------------------------------------------------
(* _join_process: whoever started a process waits for it and, should its   *)
(* task be running after it is gone, has retry_task or fail_task end that, *)
(* by the claim and the count of the row as it is by then.                 *)

LossRead(r) ==
  LET t == job[r] IN
    /\ loss[r] = "due"
    /\ IF status[t] = "running" /\ claim[t] # None
         THEN /\ loss' = [loss EXCEPT ![r] = claim[t]]
              /\ snap' = [snap EXCEPT ![r] = tries[t]]
              /\ attempt' = [attempt EXCEPT ![r] =
                               IF @ = "running" THEN "abandoned" ELSE @]
         ELSE /\ loss' = [loss EXCEPT ![r] = "none"]
              /\ UNCHANGED <<snap, attempt>>
    /\ UNCHANGED <<storeVars, pc, job, outcome, stop, slot, call, scan,
                   restarts>>

LossOver(r) ==
  /\ loss' = [loss EXCEPT ![r] = "none"]
  /\ snap' = [snap EXCEPT ![r] = 0]
  /\ UNCHANGED <<pc, job, outcome, attempt, stop, slot, call, scan, restarts>>

LossWrite(r) ==
  /\ loss[r] \in Runs
  /\ \/ snap[r] < MaxAttempts /\ RetryLost(job[r], loss[r])
     \/ snap[r] >= MaxAttempts /\ FinishTask(job[r], loss[r], "failed")
  /\ LossOver(r)

\* The parent dies first, or a statement of the recovery raises.
LossForgotten(r) ==
  /\ loss[r] # "none"
  /\ LossOver(r)
  /\ UNCHANGED storeVars

----------------------------------------------------------------------------
(* Crashes, and the clock.                                                 *)

\* A worker process is killed: by the wall-clock limit, by a termination that
\* was requested, or from outside.
Die(r) ==
  /\ r \notin Local
  /\ pc[r] \in Active
  /\ Return(r)
  /\ UNCHANGED <<storeVars, job, attempt, slot, call, scan, restarts>>

\* The API's process dies with everything it holds in memory, and is back; the
\* recoveries it takes along are LossForgotten.
Restart ==
  LET lost == {r \in Local : pc[r] \in Active} IN
    /\ restarts < MaxRestarts
    /\ restarts' = restarts + 1
    /\ pc' = [r \in Runs |-> IF r \in lost THEN "done" ELSE pc[r]]
    /\ outcome' = [r \in Runs |-> IF r \in lost THEN "none" ELSE outcome[r]]
    /\ snap' = [r \in Runs |-> IF r \in lost THEN 0 ELSE snap[r]]
    /\ stop' = [r \in Runs |-> IF r \in lost THEN FALSE ELSE stop[r]]
    /\ slot' = [t \in Tasks |-> None]
    /\ call' = [c \in Clients |-> NoCall]
    /\ scan' = {}
    /\ UNCHANGED <<storeVars, job, attempt, loss>>

\* A heartbeat comes too late: the thread or its process was stalled.
Expire(t) ==
  /\ ExpireLease(t)
  /\ UNCHANGED <<runVars, slot, call, scan, restarts>>

Due(t) ==
  /\ Unpark(t)
  /\ UNCHANGED <<runVars, slot, call, scan, restarts>>

----------------------------------------------------------------------------
RunStep(r) ==
  \/ Claim(r) \/ NotStarted(r) \/ EnterUnclaimed(r) \/ Reload(r)
  \/ CreateAttempt(r)
  \/ \E o \in DOMAIN AttemptFor : EndTurn(r, o)
  \/ SettleTerminal(r) \/ SettleNotOwner(r) \/ SettleChecked(r)
  \/ SettleBlock(r) \/ Write(r)
  \/ Raise(r) \/ Rescue(r)

CallStep(c) ==
  \/ \E t \in Tasks : Cancel(c, t) \/ Resume(c, t) \/ Approve(c, t)
  \/ Commit(c) \/ Signal(c)

Next ==
  \/ \E r \in Runs : \/ \E t \in Tasks : Submit(r, t)
                     \/ RunStep(r) \/ Heartbeat(r) \/ Die(r)
                     \/ LossRead(r) \/ LossWrite(r) \/ LossForgotten(r)
  \/ \E c \in Clients : CallStep(c)
  \/ ScanStale \/ Recover \/ Restart
  \/ \E t \in Tasks : Expire(t) \/ Due(t)

Spec == Init /\ [][Next]_vars

\* No heartbeat thread renews t's lease any more.
Orphaned(t) == status[t] = "running" /\ pc[claim[t]] \notin Active

\* Threads and processes that are alive run on; the supervisor's loop comes
\* round; the clock passes a lease nobody renews.  Nobody has to submit, call,
\* heartbeat or crash.
Fairness ==
  /\ \A r \in Runs : WF_vars(RunStep(r))
  /\ \A c \in Clients : WF_vars(Commit(c) \/ Signal(c))
  /\ WF_vars(ScanStale) /\ WF_vars(Recover)
  /\ \A t \in Tasks : WF_vars(Orphaned(t) /\ Expire(t))

FairSpec == Spec /\ Fairness

----------------------------------------------------------------------------
(* Safety.                                                                 *)

\* A task is claimed exactly while it is running, its lease goes with the
\* claim, and the claim names a run that was submitted for this very task and
\* has not settled it: what start_task, finish_task, retry_task, block_task
\* and the recovery each do to five columns fits together.
ClaimConsistent ==
  \A t \in Tasks :
    /\ (status[t] = "running") <=> (claim[t] # None)
    /\ (status[t] = "running") <=> (lease[t] # "none")
    /\ claim[t] # None => job[claim[t]] = t /\ pc[claim[t]] \notin {"idle", "start"}

\* The run that holds t's claim returns from settling it.
ByHolder(t) == pc[claim[t]] \in {"settle", "write"} /\ pc'[claim[t]] = "done"

\* t fails by the recovery of a process that ran it and is over, and that has
\* read the very claim the row still has.
ByRecovery(t) ==
  /\ status'[t] = "failed"
  /\ \E r \in Watched : /\ job[r] = t /\ pc[r] = "done"
                        /\ loss[r] = claim[t] /\ loss'[r] = "none"

\* Fencing by claim_lock, with two runs and the recoveries of lost ones beside
\* each other: a running task succeeds or is blocked only by a step of the run
\* that holds its claim.  It fails only so, or by the recovery of a lost process
\* with the claim that recovery has read: it may be that of a live successor of
\* the process, but never one that was made since.
FencedOutcome ==
  [][\A t \in Tasks :
       status[t] = "running" /\ status'[t] \in {"succeeded", "failed", "blocked"}
         => ByHolder(t) \/ ByRecovery(t)]_vars

\* A cancelled task stays cancelled, and nothing but a cancellation can still
\* change a succeeded or failed one: no late run, recovery, resume or approval
\* reopens a finished task.
OnlyCancelAfterEnd ==
  [][\A t \in Tasks :
       status[t] \in Terminal => status'[t] \in {status[t], "cancelled"}]_vars

\* A task without review succeeds only on the strength of a run whose attempt
\* is recorded as succeeded.
SucceededHasWork ==
  \A t \in Tasks \ Reviewed :
    status[t] = "succeeded"
      => \E r \in Runs : job[r] = t /\ attempt[r] = "succeeded"

\* A run that fails, and the recovery of one that is lost, put their task back
\* in the queue only while attempt_count is below max_attempts, although both go
\* by a count they read some steps ago; only the recovery loop requeues
\* regardless.
RetryWithinBudget ==
  [][\A t \in Tasks :
       (status[t] = "running" /\ status'[t] = "queued" /\ ~(t \in scan /\ scan' = {}))
         => tries[t] < MaxAttempts]_vars

\* maxConcurrency: the children of a graph whose root is still parked are
\* never running more than Width at a time, recoveries and retries included.
WidthRespected ==
  \A root \in Tasks :
    phase[root] = "orchestrator_waiting"
      => Cardinality(RunningChildren(root)) <= Width

\* Once a task has been claimed, everything it depends on has succeeded (and
\* may at most have been marked cancelled since).
DependenciesRanFirst ==
  \A e \in edges : tries[e[2]] > 0 => status[e[1]] \in {"succeeded", "cancelled"}

\* The worker keeps the promise of TaskPromise: hidden behind a run, an
\* unclaimed second run, a call that read its row earlier or a recovery, every
\* change of a task is one the promise allows, and a task under review only
\* ever succeeds through an approval.
Promise == INSTANCE TaskPromise WITH holder <- claim

PromiseKept == Promise!Spec

----------------------------------------------------------------------------
(* Liveness.                                                               *)

\* A task whose run is over or dead does not stay "running": the lease runs
\* out and the recovery loop requeues it (or a cancellation ends it).
OrphanReclaimed ==
  \A t \in Tasks : Orphaned(t) ~> ~Orphaned(t)

\* A cancellation that found its task unfinished wins for good: whatever runs,
\* retries, resumptions and recoveries are under way, the task ends up
\* cancelled and stays so.
CancelSticks ==
  \A c \in Clients, t \in Tasks :
    (call[c].stage = "commit" /\ call[c].op = "cancel" /\ call[c].task = t)
      ~> [](status[t] = "cancelled")

----------------------------------------------------------------------------
(* What the documentation says and the code does not do.                   *)

\* A task that succeeded or failed is not turned into a cancelled one.
FinishedIsFinal ==
  [][\A t \in Tasks :
       status[t] \in {"succeeded", "failed"} => status'[t] = status[t]]_vars

\* attempt_count stays within max_attempts.
AttemptsWithinMax == \A t \in Tasks : tries[t] <= MaxAttempts

\* An approved action is granted to one run: the run that claims the task
\* with the grant does not leave it there for the next one.
GrantIsOneRun ==
  [][\A t \in Tasks :
       status[t] = "running" /\ status'[t] = "queued" => phase'[t] # "granted"]_vars
=============================================================================
