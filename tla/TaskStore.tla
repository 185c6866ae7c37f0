----------------------------- MODULE TaskStore -----------------------------
(***************************************************************************)
(* The tasks table of packages/amadeus/memory.py and the statements that   *)
(* change it.  Each action below is ONE committed statement (or one BEGIN  *)
(* IMMEDIATE transaction) of a store method.  sqlite3's default isolation  *)
(* runs a method's leading SELECT in autocommit, so whoever calls a method *)
(* that reads before it writes makes two steps of it: the read, tested     *)
(* with the state predicates of this module, then one of these actions.    *)
(*                                                                         *)
(* Left out: texts, events, artifacts, priorities and timestamps.  A lease *)
(* expiry is the lease's being "live" or "expired"; due_at, next_run_at    *)
(* and ready_at together are the flag "parked".                            *)
(***************************************************************************)
EXTENDS Naturals, FiniteSets

CONSTANTS
  Tasks,        \* task ids
  Runs,         \* _run_task invocations; a run's id is its claim_lock uuid
  None,         \* NULL
  MaxAttempts,  \* max_attempts of every task
  Reviewed,     \* the tasks created with review_required
  RootOf,       \* root_task_id of every task
  Width         \* clamped maxConcurrency in an orchestrator root's checkpoint

ASSUME StoreAssumption ==
  /\ IsFiniteSet(Tasks)
  /\ None \notin Runs
  /\ MaxAttempts \in Nat \ {0}
  /\ Reviewed \subseteq Tasks
  /\ RootOf \in [Tasks -> Tasks]
  /\ Width \in Nat \ {0}

VARIABLES
  status,   \* tasks.status
  claim,    \* tasks.claim_lock
  lease,    \* tasks.lease_expires_at against the clock
  tries,    \* tasks.attempt_count
  parked,   \* one of due_at, next_run_at, ready_at lies in the future
  phase,    \* what tasks.checkpoint_json says, see Phases
  edges     \* task_edges, as <<from, to>>, all requiring "succeeded"

storeVars == <<status, claim, lease, tries, parked, phase, edges>>

Terminal == {"succeeded", "failed", "cancelled"}
Status == {"queued", "running", "blocked"} \union Terminal

(***************************************************************************)
(* The checkpoints the code tells apart: none; an applied graph's root;    *)
(* blocked for review or for a tool approval; resumed with an approved     *)
(* action ("granted") or without; requeued by a recovery; approved.        *)
(***************************************************************************)
Phases == {"none", "orchestrator_waiting", "review", "tool_approval",
           "granted", "resumed", "retry_ready", "approved",
           "orchestrator_synthesized"}

StoreTypeOK ==
  /\ status \in [Tasks -> Status]
  /\ claim \in [Tasks -> Runs \union {None}]
  /\ lease \in [Tasks -> {"none", "live", "expired"}]
  /\ tries \in [Tasks -> Nat]
  /\ parked \in [Tasks -> BOOLEAN]
  /\ phase \in [Tasks -> Phases]
  /\ edges \subseteq Tasks \X Tasks

----------------------------------------------------------------------------
(* State predicates the methods test.                                      *)

\* Mutant of Owns: the claim_lock is not compared.
OwnsUnfenced(t, r) == status[t] = "running" /\ r \in Runs

Owns(t, r) == status[t] = "running" /\ claim[t] = r

\* Mutant of DependenciesMet: a dependency has only to be over.
DependenciesOver(t) == \A e \in edges : e[2] = t => status[e[1]] \in Terminal

DependenciesMet(t) == \A e \in edges : e[2] = t => status[e[1]] = "succeeded"

RunningChildren(root) ==
  {u \in Tasks : u # root /\ RootOf[u] = root /\ status[u] = "running"}

\* Mutant of WithinWidth: off by one.
WithinWidthPlusOne(t) ==
  (RootOf[t] # t /\ phase[RootOf[t]] = "orchestrator_waiting")
    => Cardinality(RunningChildren(RootOf[t])) <= Width

\* The per-graph width gate, inside start_task's transaction.
WithinWidth(t) ==
  LET root == RootOf[t] IN
    (root # t /\ phase[root] = "orchestrator_waiting")
      => Cardinality(RunningChildren(root)) < Width

Startable(t) ==
  status[t] = "queued" /\ ~parked[t] /\ DependenciesMet(t) /\ WithinWidth(t)

\* Mutant of Stale: only a task with attempts left is worth recovering.
StaleInBudget(t) ==
  status[t] = "running" /\ lease[t] = "expired" /\ tries[t] < MaxAttempts

Stale(t) == status[t] = "running" /\ lease[t] = "expired"

----------------------------------------------------------------------------
(* Statements.                                                             *)

\* Mutant of Release: claim_lock = NULL is forgotten.
ReleaseKeepsClaim(t, s) ==
  /\ status' = [status EXCEPT ![t] = s]
  /\ lease' = [lease EXCEPT ![t] = "none"]
  /\ UNCHANGED claim

\* Every way out of "running" clears claim_lock, lease_owner and the lease.
Release(t, s) ==
  /\ status' = [status EXCEPT ![t] = s]
  /\ claim' = [claim EXCEPT ![t] = None]
  /\ lease' = [lease EXCEPT ![t] = "none"]

StartTask(t, r) ==
  /\ Startable(t)
  /\ status' = [status EXCEPT ![t] = "running"]
  /\ claim' = [claim EXCEPT ![t] = r]
  /\ lease' = [lease EXCEPT ![t] = "live"]
  /\ tries' = [tries EXCEPT ![t] = @ + 1]
  /\ parked' = [parked EXCEPT ![t] = FALSE]
  /\ UNCHANGED <<phase, edges>>

\* Renews the lease of a running task still claimed by r, expired or not.
HeartbeatTask(t, r) ==
  /\ lease' = [lease EXCEPT ![t] = IF Owns(t, r) THEN "live" ELSE @]
  /\ UNCHANGED <<status, claim, tries, parked, phase, edges>>

\* UPDATE ... WHERE status = 'running' AND claim_lock = r.
FinishTask(t, r, s) ==
  \/ /\ Owns(t, r)
     /\ Release(t, s)
     /\ parked' = [parked EXCEPT ![t] = FALSE]
     /\ UNCHANGED <<tries, phase, edges>>
  \/ /\ ~Owns(t, r)
     /\ UNCHANGED storeVars

\* Mutant of RetryTask: UPDATE ... WHERE id = t.
RetryTaskUnguarded(t, r) ==
  /\ Release(t, "queued")
  /\ parked' = [parked EXCEPT ![t] = r \in Runs]
  /\ UNCHANGED <<tries, phase, edges>>

\* Backs off; checkpoint_json = COALESCE(NULL, checkpoint_json) keeps it.
RetryTask(t, r) ==
  \/ /\ Owns(t, r)
     /\ Release(t, "queued")
     /\ parked' = [parked EXCEPT ![t] = TRUE]
     /\ UNCHANGED <<tries, phase, edges>>
  \/ /\ ~Owns(t, r)
     /\ UNCHANGED storeVars

\* Mutant of RetryLost: AND status = 'running' AND claim_lock = c is missing.
RetryLostUnguarded(t, c) ==
  /\ Release(t, "queued")
  /\ parked' = [parked EXCEPT ![t] = c \notin Runs]
  /\ phase' = [phase EXCEPT ![t] = "retry_ready"]
  /\ UNCHANGED <<tries, edges>>

\* retry_task for a lost process: next_run_at = now, and a checkpoint of its own.
RetryLost(t, c) ==
  \/ /\ Owns(t, c)
     /\ Release(t, "queued")
     /\ parked' = [parked EXCEPT ![t] = FALSE]
     /\ phase' = [phase EXCEPT ![t] = "retry_ready"]
     /\ UNCHANGED <<tries, edges>>
  \/ /\ ~Owns(t, c)
     /\ UNCHANGED storeVars

\* block_task is one immediate transaction: its tests are its guard.
BlockTask(t, r, p) ==
  /\ Owns(t, r)
  /\ Release(t, "blocked")
  /\ parked' = [parked EXCEPT ![t] = FALSE]
  /\ phase' = [phase EXCEPT ![t] = p]
  /\ UNCHANGED <<tries, edges>>

\* Mutant of ResumeTask: AND status = 'blocked' is missing from the UPDATE.
ResumeTaskUnguarded(t, p) ==
  /\ Release(t, "queued")
  /\ phase' = [phase EXCEPT ![t] = p]
  /\ UNCHANGED <<tries, parked, edges>>

\* UPDATE ... WHERE status = 'blocked'; the checkpoint p was computed from
\* the row the earlier SELECT saw.
ResumeTask(t, p) ==
  \/ /\ status[t] = "blocked"
     /\ Release(t, "queued")
     /\ phase' = [phase EXCEPT ![t] = p]
     /\ UNCHANGED <<tries, parked, edges>>
  \/ /\ status[t] # "blocked"
     /\ UNCHANGED storeVars

\* Mutant of ApproveTask: writes the status of the legacy rows.
ApproveTaskDone(t) ==
  /\ IF status[t] = "blocked" THEN Release(t, "done")
                             ELSE UNCHANGED <<status, claim, lease>>
  /\ UNCHANGED <<tries, parked, phase, edges>>

\* UPDATE ... WHERE status = 'blocked' AND review_required = 1.
ApproveTask(t) ==
  \/ /\ status[t] = "blocked" /\ t \in Reviewed
     /\ Release(t, "succeeded")
     /\ phase' = [phase EXCEPT ![t] = "approved"]
     /\ UNCHANGED <<tries, parked, edges>>
  \/ /\ ~(status[t] = "blocked" /\ t \in Reviewed)
     /\ UNCHANGED storeVars

\* UPDATE ... WHERE id = t: the statement itself does not look at status.
CancelTask(t) ==
  /\ Release(t, "cancelled")
  /\ UNCHANGED <<tries, parked, phase, edges>>

\* recover_stale_running_tasks, second half: every task of the scan that is
\* still running goes back to the queue, whoever holds it by now.
RecoverTasks(scan) ==
  LET S == {t \in scan : status[t] = "running"} IN
    /\ status' = [t \in Tasks |-> IF t \in S THEN "queued" ELSE status[t]]
    /\ claim' = [t \in Tasks |-> IF t \in S THEN None ELSE claim[t]]
    /\ lease' = [t \in Tasks |-> IF t \in S THEN "none" ELSE lease[t]]
    /\ parked' = [t \in Tasks |-> IF t \in S THEN FALSE ELSE parked[t]]
    /\ phase' = [t \in Tasks |-> IF t \in S THEN "retry_ready" ELSE phase[t]]
    /\ UNCHANGED <<tries, edges>>

----------------------------------------------------------------------------
(* The clock.                                                              *)

ExpireLease(t) ==
  /\ lease[t] = "live"
  /\ lease' = [lease EXCEPT ![t] = "expired"]
  /\ UNCHANGED <<status, claim, tries, parked, phase, edges>>

Unpark(t) ==
  /\ parked[t]
  /\ parked' = [parked EXCEPT ![t] = FALSE]
  /\ UNCHANGED <<status, claim, lease, tries, phase, edges>>
=============================================================================
