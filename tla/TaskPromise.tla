---------------------------- MODULE TaskPromise ----------------------------
(***************************************************************************)
(* What the task queue promises to whoever reads the tasks table: who may  *)
(* hold a task, in which order its statuses come, and what a change of     *)
(* status needs.  Nothing is said of runs, leases, calls and crashes; that *)
(* the queue keeps the promise whatever those do is what TaskWorker, the   *)
(* detailed specification, is shown to implement.                          *)
(***************************************************************************)
EXTENDS Naturals

CONSTANTS Tasks, Runs, None, Reviewed, Deps

VARIABLES
  status,   \* of each task
  holder,   \* the run that holds it, or None
  tries     \* how often it has been started

promiseVars == <<status, holder, tries>>

Init ==
  /\ status \in [Tasks -> {"queued", "blocked"}]
  /\ holder = [t \in Tasks |-> None]
  /\ tries = [t \in Tasks |-> 0]

\* A queued task whose dependencies have succeeded goes to a run that holds
\* no task, and that counts as one more try.
Start(t, r) ==
  /\ status[t] = "queued"
  /\ \A d \in Tasks : <<d, t>> \in Deps => status[d] = "succeeded"
  /\ \A u \in Tasks : holder[u] # r
  /\ status' = [status EXCEPT ![t] = "running"]
  /\ holder' = [holder EXCEPT ![t] = r]
  /\ tries' = [tries EXCEPT ![t] = @ + 1]

Drop(t, s) ==
  /\ status' = [status EXCEPT ![t] = s]
  /\ holder' = [holder EXCEPT ![t] = None]
  /\ UNCHANGED tries

\* A run gives its task back, finished or not; work that must be reviewed is
\* not finished by the run.
Settle(t, s) ==
  /\ status[t] = "running"
  /\ s = "succeeded" => t \notin Reviewed
  /\ Drop(t, s)

Cancel(t) == status[t] # "cancelled" /\ Drop(t, "cancelled")

Resume(t) == status[t] = "blocked" /\ Drop(t, "queued")

Approve(t) == status[t] = "blocked" /\ t \in Reviewed /\ Drop(t, "succeeded")

\* Tasks are taken from their holders and put back, several at a time.
Reclaim(S) ==
  /\ \A t \in S : status[t] = "running"
  /\ status' = [t \in Tasks |-> IF t \in S THEN "queued" ELSE status[t]]
  /\ holder' = [t \in Tasks |-> IF t \in S THEN None ELSE holder[t]]
  /\ UNCHANGED tries

Next ==
  \/ \E t \in Tasks :
       \/ \E r \in Runs : Start(t, r)
       \/ \E s \in {"queued", "blocked", "succeeded", "failed"} : Settle(t, s)
       \/ Cancel(t) \/ Resume(t) \/ Approve(t)
  \/ \E S \in SUBSET Tasks : Reclaim(S)

Spec == Init /\ [][Next]_promiseVars
=============================================================================
