--------------------------- MODULE TaskSupervisor ---------------------------
(***************************************************************************)
(* The external supervisor of packages/amadeus/task_supervisor.py and the  *)
(* SubprocessTaskRunner of workers.py: one supervisor at a time holds a    *)
(* lease, starts worker processes for runnable tasks, keeps them in the    *)
(* table task_processes, adopts those of a predecessor, terminates those   *)
(* of cancelled tasks and reclaims the tasks of those that are gone.       *)
(*                                                                         *)
(* A worker process is a run of TaskWorker seen from outside: it claims,   *)
(* settles and exits, and may be killed anywhere.  Store methods that read *)
(* and then write are one step here, except where the supervisor decides   *)
(* by what it read: TaskWorker looks into the others.                      *)
(***************************************************************************)
EXTENDS TaskStore

CONSTANTS
  Supervisors,  \* supervisor processes, as many as are started in all
  MaxWorkers    \* max_workers of each

\* Review is left to TaskWorker: no task here is under review.  A loss is "none",
\* "due" or a claim.
ASSUME SupervisorAssumption ==
  /\ None \notin Supervisors
  /\ MaxWorkers \in Nat \ {0}
  /\ None \notin Tasks /\ Reviewed = {}
  /\ Runs \intersect {"none", "due"} = {}

VARIABLES
  owner,      \* supervisor_leases.owner_id
  sup,        \* where each supervisor is in its loop, "new" before, "down" after
  todo,       \* records left of reconcile_durable_processes, as they were read
  plan,       \* runnable tasks left to submit
  kids,       \* _processes: the children a supervisor has a join thread for
  ask,        \* children a wall timer found alive and is about to terminate
  loss,       \* _recover_process_loss in progress: "due" or the claim it read
  job,        \* the task each process was started for
  proc,       \* task_processes.status
  life,       \* the process itself, seen from outside
  good,       \* it exited with code 0
  overtaken   \* history: a lease was taken from a supervisor that was running

supVars == <<owner, sup, todo, plan, kids, ask, loss, overtaken>>
procVars == <<job, proc, life, good>>
vars == <<storeVars, supVars, procVars>>

Listed == {"running", "adopted", "termination_requested"}  \* active_only
Alive(r) == life[r] \in {"boot", "claimed", "unclaimed", "over"}
Up(s) == sup[s] \notin {"new", "down"}

\* What the supervisors keep in memory and in tables of their own.
MemoryTyped ==
  /\ owner \in Supervisors \union {None}
  /\ sup \in [Supervisors -> {"new", "wait", "reconcile", "dispatch", "register", "down"}]
  /\ todo \in [Supervisors -> SUBSET (Runs \X BOOLEAN)]
  /\ plan \in [Supervisors -> SUBSET Tasks]
  /\ kids \in [Supervisors -> SUBSET Runs]
  /\ ask \in [Supervisors -> SUBSET Runs]
  /\ loss \in [Supervisors -> [Runs -> {"none", "due"} \union Runs]]
  /\ overtaken \in BOOLEAN
  /\ job \in [Runs -> Tasks \union {None}]
  /\ proc \in [Runs -> Listed \union {"none", "starting", "exited", "lost"}]
  /\ life \in [Runs -> {"none", "boot", "claimed", "unclaimed", "over", "dead"}]
  /\ good \in [Runs -> BOOLEAN]

TypeOK == StoreTypeOK /\ MemoryTyped

Init ==
  /\ status = [t \in Tasks |-> "queued"]
  /\ claim = [t \in Tasks |-> None]
  /\ lease = [t \in Tasks |-> "none"]
  /\ tries = [t \in Tasks |-> 0]
  /\ parked = [t \in Tasks |-> FALSE]
  /\ phase = [t \in Tasks |-> "none"]
  /\ edges = {}
  /\ owner = None
  /\ sup = [s \in Supervisors |-> "new"]
  /\ todo = [s \in Supervisors |-> {}]
  /\ plan = [s \in Supervisors |-> {}]
  /\ kids = [s \in Supervisors |-> {}]
  /\ ask = [s \in Supervisors |-> {}]
  /\ loss = [s \in Supervisors |-> [r \in Runs |-> "none"]]
  /\ overtaken = FALSE
  /\ job = [r \in Runs |-> None]
  /\ proc = [r \in Runs |-> "none"]
  /\ life = [r \in Runs |-> "none"]
  /\ good = [r \in Runs |-> FALSE]

----------------------------------------------------------------------------
(* The lease and the loop.                                                 *)

Goto(s, l) == sup' = [sup EXCEPT ![s] = l]

\* run(): acquire_supervisor_lease is one immediate transaction; a process
\* that does not get the lease returns.  A new process has a new owner id.  The
\* lease of a supervisor that has died or is stalled runs out some time, so
\* expires_at is no variable here; the lease-heartbeat thread keeps the lease
\* of one that is neither.
Start(s) ==
  /\ sup[s] = "new"
  /\ owner' = s
  /\ Goto(s, "wait")
  /\ overtaken' = (overtaken \/ (owner # None /\ Up(owner)))
  /\ UNCHANGED <<storeVars, procVars, todo, plan, kids, ask, loss>>

\* Whatever a supervisor holds in memory goes with it; its children live on.
Gone(s) ==
  /\ Goto(s, "down")
  /\ todo' = [todo EXCEPT ![s] = {}]
  /\ plan' = [plan EXCEPT ![s] = {}]
  /\ kids' = [kids EXCEPT ![s] = {}]
  /\ ask' = [ask EXCEPT ![s] = {}]
  /\ loss' = [loss EXCEPT ![s] = [r \in Runs |-> "none"]]
  /\ UNCHANGED <<storeVars, procVars, overtaken>>

Crash(s) == Up(s) /\ Gone(s) /\ UNCHANGED owner

\* A stop request ends the loop between two ticks: close(detach_children=True)
\* leaves the children alone and releases a lease that is still held.
Stop(s) ==
  /\ sup[s] = "wait"
  /\ Gone(s)
  /\ owner' = IF owner = s THEN None ELSE owner

\* tick(): the first heartbeat, and the SELECT of the active records.
TickStarts(s) ==
  /\ sup[s] = "wait" /\ owner = s
  /\ Goto(s, "reconcile")
  /\ todo' = [todo EXCEPT ![s] = {<<r, proc[r] = "termination_requested">> :
                                    r \in {q \in Runs : proc[q] \in Listed}}]
  /\ UNCHANGED <<storeVars, procVars, owner, plan, kids, ask, loss, overtaken>>

\* A heartbeat that finds another owner, before the tick or after it, raises:
\* the supervisor detaches and exits without touching the row.
LeaseLost(s) ==
  /\ sup[s] \in {"wait", "dispatch"}
  /\ owner # s
  /\ sup[s] = "dispatch" => plan[s] = {}
  /\ Gone(s)
  /\ UNCHANGED owner

TickEnds(s) ==
  /\ sup[s] = "dispatch" /\ plan[s] = {} /\ owner = s
  /\ Goto(s, "wait")
  /\ UNCHANGED <<storeVars, procVars, owner, todo, plan, kids, ask, loss,
                 overtaken>>

----------------------------------------------------------------------------
(* reconcile_durable_processes: one record at a time.                      *)

\* The tick's own thread is inside _recover_process_loss.
Reclaiming(s) == \E r \in Runs \ kids[s] : loss[s][r] # "none"

Taken(s, r, b) ==
  /\ sup[s] = "reconcile" /\ ~Reclaiming(s)
  /\ <<r, b>> \in todo[s]
  /\ todo' = [todo EXCEPT ![s] = @ \ {<<r, b>>}]
  /\ UNCHANGED <<storeVars, owner, sup, plan, kids, ask, overtaken,
                 job, good>>

\* Mutant of ReconcileOwn: the status of a process on its way out is shortened.
ReconcileOwnTermed(s, r, b) ==
  /\ Taken(s, r, b)
  /\ r \in kids[s]
  /\ IF status[job[r]] = "cancelled" /\ Alive(r)
       THEN proc' = [proc EXCEPT ![r] = "termination"]
       ELSE UNCHANGED proc
  /\ UNCHANGED <<life, loss>>

\* os.kill(pid, 0): a child its parent has not waited for still has its pid.
SeemsAlive(r) == Alive(r) \/ \E s \in Supervisors : r \in kids[s]

\* A child of its own is terminated if its task was cancelled, and otherwise
\* left to its join thread.
ReconcileOwn(s, r, b) ==
  /\ Taken(s, r, b)
  /\ r \in kids[s]
  /\ IF status[job[r]] = "cancelled" /\ Alive(r)
       THEN proc' = [proc EXCEPT ![r] = "termination_requested"]
       ELSE UNCHANGED proc
  /\ UNCHANGED <<life, loss>>

\* Mutant of ReconcileGone: a process this supervisor did not start is lost.
ReconcileGoneUnchecked(s, r, b) ==
  /\ Taken(s, r, b)
  /\ r \notin kids[s]
  /\ proc' = [proc EXCEPT ![r] = "lost"]
  /\ loss' = [loss EXCEPT ![s][r] =
                IF status[job[r]] = "running" THEN "due" ELSE "none"]
  /\ UNCHANGED life

ReconcileGone(s, r, b) ==
  /\ Taken(s, r, b)
  /\ r \notin kids[s] /\ ~SeemsAlive(r)
  /\ proc' = [proc EXCEPT ![r] =
                IF status[job[r]] \in Terminal \union {"blocked"}
                  THEN "exited" ELSE "lost"]
  /\ loss' = [loss EXCEPT ![s][r] =
                IF status[job[r]] = "running" THEN "due" ELSE "none"]
  /\ UNCHANGED life

\* Adopts, whatever has become of the record since it was read, and asks the
\* process of a cancelled task, or one past its wall-clock limit, to terminate:
\* TERM, and KILL when a later tick finds the grace over.
ReconcileAdopt(s, r, b) ==
  /\ Taken(s, r, b)
  /\ r \notin kids[s] /\ SeemsAlive(r)
  /\ \E expired \in BOOLEAN :
       proc' = [proc EXCEPT ![r] =
                  IF b \/ expired \/ status[job[r]] = "cancelled"
                    THEN "termination_requested" ELSE "adopted"]
  /\ UNCHANGED <<life, loss>>

----------------------------------------------------------------------------
(* Recovery of a lost process, by the tick or by a child's join thread: it *)
(* reads the row, then retries or fails it by the claim it found there.    *)

LossDone(s, r) ==
  /\ loss' = [loss EXCEPT ![s][r] = "none"]
  /\ kids' = [kids EXCEPT ![s] = @ \ {r}]

LossRead(s, r) ==
  /\ loss[s][r] = "due"
  /\ IF status[job[r]] = "running"
       THEN /\ loss' = [loss EXCEPT ![s][r] = claim[job[r]]]
            /\ UNCHANGED kids
       ELSE LossDone(s, r)
  /\ UNCHANGED <<storeVars, procVars, owner, sup, todo, plan, ask,
                 overtaken>>

LossWrite(s, r) ==
  /\ loss[s][r] \in Runs
  /\ IF tries[job[r]] < MaxAttempts
       THEN RetryLost(job[r], loss[s][r])
       ELSE FinishTask(job[r], loss[s][r], "failed")
  /\ LossDone(s, r)
  /\ UNCHANGED <<procVars, owner, sup, todo, plan, ask, overtaken>>

----------------------------------------------------------------------------
(* worker.recover(), when all records are done: stale tasks back to the     *)
(* queue, runnable ones started.                                           *)

Recover(s) ==
  /\ sup[s] = "reconcile" /\ todo[s] = {} /\ ~Reclaiming(s)
  /\ RecoverTasks({t \in Tasks : Stale(t)})
  /\ plan' = [plan EXCEPT ![s] =
                {t \in Tasks : /\ status'[t] = "queued" /\ ~parked'[t]
                               /\ DependenciesMet(t)}]
  /\ Goto(s, "dispatch")
  /\ UNCHANGED <<procVars, owner, todo, kids, ask, loss, overtaken>>

\* Mutant of HasRoom: only the children of this supervisor are counted.
HasRoomLocally(s) == Cardinality(kids[s]) < MaxWorkers

\* SubprocessTaskRunner.submit: the registry's active records, then the slots
\* of this process.
HasRoom(s) ==
  /\ Cardinality({r \in Runs : proc[r] \in Listed}) < MaxWorkers
  /\ Cardinality(kids[s]) < MaxWorkers

Skip(s, t) ==
  /\ sup[s] = "dispatch" /\ t \in plan[s]
  /\ ~HasRoom(s) \/ \E r \in kids[s] : job[r] = t
  /\ plan' = [plan EXCEPT ![s] = @ \ {t}]
  /\ UNCHANGED <<storeVars, procVars, owner, sup, todo, kids, ask, loss,
                 overtaken>>

Spawn(s, t, r) ==
  /\ sup[s] = "dispatch" /\ t \in plan[s]
  /\ HasRoom(s) /\ ~\E q \in kids[s] : job[q] = t
  /\ life[r] = "none"
  /\ life' = [life EXCEPT ![r] = "boot"]
  /\ job' = [job EXCEPT ![r] = t]
  /\ proc' = [proc EXCEPT ![r] = "starting"]
  /\ plan' = [plan EXCEPT ![s] = @ \ {t}]
  /\ kids' = [kids EXCEPT ![s] = @ \union {r}]
  /\ Goto(s, "register")
  /\ UNCHANGED <<storeVars, owner, todo, ask, loss, overtaken,
                 good>>

\* register_task_process, and the start of the join thread.
Register(s, r) ==
  /\ sup[s] = "register"
  /\ r \in kids[s] /\ proc[r] = "starting"
  /\ proc' = [proc EXCEPT ![r] = "running"]
  /\ Goto(s, "dispatch")
  /\ UNCHANGED <<storeVars, owner, todo, plan, kids, ask, loss,
                 overtaken, job, life, good>>

----------------------------------------------------------------------------
(* The threads beside the loop: wall timer, kill timer, join thread.       *)

WallTimer(s, r) ==
  /\ r \in kids[s] /\ proc[r] \in {"running", "adopted"} /\ Alive(r)
  /\ ask' = [ask EXCEPT ![s] = @ \union {r}]
  /\ UNCHANGED <<storeVars, procVars, owner, sup, todo, plan, kids, loss,
                 overtaken>>

\* The rest of _request_termination: it writes the record even if the child
\* has exited, and been recorded, since it was found alive.
Terminate(s, r) ==
  /\ r \in ask[s]
  /\ ask' = [ask EXCEPT ![s] = @ \ {r}]
  /\ proc' = [proc EXCEPT ![r] = "termination_requested"]
  /\ UNCHANGED <<storeVars, owner, sup, todo, plan, kids, loss, overtaken,
                 job, life, good>>

\* _join_process.
Join(s, r) ==
  /\ r \in kids[s] /\ life[r] = "dead" /\ loss[s][r] = "none"
  /\ proc[r] # "starting"
  /\ proc' = [proc EXCEPT ![r] = "exited"]
  /\ IF good[r] THEN LossDone(s, r)
                ELSE /\ loss' = [loss EXCEPT ![s][r] = "due"]
                     /\ UNCHANGED kids
  /\ UNCHANGED <<storeVars, owner, sup, todo, plan, ask, overtaken,
                 job, life, good>>

----------------------------------------------------------------------------
(* A worker process.                                                       *)

Become(r, l) ==
  /\ life' = [life EXCEPT ![r] = l]
  /\ UNCHANGED <<supVars, job, proc>>

ChildClaims(r) ==
  /\ life[r] = "boot"
  /\ StartTask(job[r], r)
  /\ Become(r, "claimed") /\ UNCHANGED good

\* start_task left the row alone: the run goes on if the row says "running".
ChildTurnedAway(r) ==
  /\ life[r] = "boot" /\ ~Startable(job[r])
  /\ Become(r, IF status[job[r]] = "running" THEN "unclaimed" ELSE "over")
  /\ UNCHANGED <<storeVars, good>>

ChildSettles(r) ==
  /\ life[r] \in {"claimed", "unclaimed"}
  /\ \/ \E s \in {"succeeded", "failed"} : FinishTask(job[r], r, s)
     \/ RetryTask(job[r], r)
  /\ Become(r, "over") /\ UNCHANGED good

\* The entry point returns 0 if the row says "succeeded".
ChildExits(r) ==
  /\ life[r] = "over"
  /\ Become(r, "dead")
  /\ good' = [good EXCEPT ![r] = status[job[r]] = "succeeded"]
  /\ UNCHANGED storeVars

Dies(r) ==
  /\ Alive(r)
  /\ Become(r, "dead")
  /\ UNCHANGED <<storeVars, good>>

----------------------------------------------------------------------------
(* The API's cancellation, and the clock.                                  *)

CancelByApi(t) ==
  /\ status[t] \notin Terminal
  /\ CancelTask(t)
  /\ UNCHANGED <<supVars, procVars>>

Expire(t) == ExpireLease(t) /\ UNCHANGED <<supVars, procVars>>
Due(t) == Unpark(t) /\ UNCHANGED <<supVars, procVars>>

----------------------------------------------------------------------------
Reconcile(s) ==
  \/ \E r \in Runs, b \in BOOLEAN : \/ ReconcileOwn(s, r, b)
                                    \/ ReconcileGone(s, r, b)
                                    \/ ReconcileAdopt(s, r, b)

Dispatch(s) ==
  \/ Recover(s)
  \/ \E t \in Tasks : Skip(s, t) \/ \E r \in Runs : Spawn(s, t, r)
  \/ \E r \in Runs : Register(s, r)

Loop(s) ==
  TickStarts(s) \/ Reconcile(s) \/ Dispatch(s) \/ TickEnds(s) \/ LeaseLost(s)

Reclaim(s, r) == LossRead(s, r) \/ LossWrite(s, r)

Next ==
  \/ \E s \in Supervisors :
       \/ Start(s) \/ Crash(s) \/ Stop(s) \/ Loop(s)
       \/ \E r \in Runs : \/ Reclaim(s, r) \/ Join(s, r)
                          \/ WallTimer(s, r) \/ Terminate(s, r)
  \/ \E r \in Runs : \/ ChildClaims(r) \/ ChildTurnedAway(r) \/ ChildSettles(r)
                     \/ ChildExits(r) \/ Dies(r)
  \/ \E t \in Tasks : CancelByApi(t) \/ Expire(t) \/ Due(t)

Spec == Init /\ [][Next]_vars

----------------------------------------------------------------------------
(* Properties.                                                             *)

\* Nothing writes off a process that is alive: a record that says exited or
\* lost, and a recovery under way, are of processes that are gone, whoever
\* started, adopted or terminated them and however late the records were read.
OnlyDeadWrittenOff ==
  \A r \in Runs :
    /\ proc[r] \in {"exited", "lost"} => life[r] = "dead"
    /\ \A s \in Supervisors : loss[s][r] # "none" => life[r] = "dead"

\* The worker processes that have a record.
Working == {r \in Runs : Alive(r) /\ proc[r] # "starting"}

\* max_workers bounds the worker processes across restarts of the supervisor:
\* adopted, terminating and own ones together, for as long as no lease has
\* been taken from a supervisor that was still running.
WithinMaxWorkers == ~overtaken => Cardinality(Working) <= MaxWorkers

\* What supervisors do to tasks is within the promise of TaskPromise: two of
\* them that reclaim the same process, or one that decides by an old read, end
\* or requeue a running task but never reopen one that is over.
Promise == INSTANCE TaskPromise WITH holder <- claim, Deps <- {}

PromiseKept == Promise!Spec

\* A lost process costs its task the claim that process held, and nobody
\* else's: the claim a recovery releases is not that of a live process.
LossHitsOwnClaim ==
  [][\A s \in Supervisors, r \in Runs :
       (LossWrite(s, r) /\ ~overtaken) => LET t == job[r] IN
         (status[t] = "running" /\ status'[t] # "running") => ~Alive(claim[t])]_vars
=============================================================================
