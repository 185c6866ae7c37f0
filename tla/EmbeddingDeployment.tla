------------------------ MODULE EmbeddingDeployment ------------------------
(***************************************************************************)
(* The local deployment of the embedding model:                            *)
(* LocalEmbeddingDeploymentManager of embeddings.py.  A deployment is a     *)
(* thread that runs commands one after the other as child processes; it    *)
(* can be asked for again, and cancelled, from the threads of requests.    *)
(***************************************************************************)
EXTENDS Naturals

CONSTANTS
  Deploys,   \* the requests to deploy; each starts at most one worker thread
  Commands,  \* how many commands a deployment runs: at most 3
  None

DeploymentAssumption == Commands \in Nat \ {0} /\ None \notin Deploys

VARIABLES
  status,     \* _state.status
  cancelled,  \* _cancel_event
  process,    \* _process: the deployment whose child it is, or None
  installed,  \* the files of the model are there
  at,         \* what each request is about to do
  work,       \* where each worker thread is, and which of its commands is next
  child,      \* the child process of each worker
  asked,      \* history: workers that were to be cancelled before their last check
  raced       \* history: a request that found no deployment met one

vars == <<status, cancelled, process, installed, at, work, child, asked, raced>>

Steps == {"off", "check", "spawn", "register", "poll", "wait", "checked", "leave", "ended"}

TypeOK ==
  /\ status \in {"idle", "running", "completed", "cancelled", "failed"}
  /\ cancelled \in BOOLEAN /\ installed \in BOOLEAN /\ raced \in BOOLEAN
  /\ process \in Deploys \union {None}
  /\ at \in [Deploys -> {"ask", "look", "launch", "ready", "answered"}]
  /\ work \in [Deploys -> [step : Steps, command : 1 .. Commands]]
  /\ child \in [Deploys -> {"none", "alive", "terminated", "exited"}]
  /\ asked \subseteq Deploys

Init ==
  /\ status = "idle" /\ cancelled = FALSE /\ process = None /\ installed \in BOOLEAN
  /\ at = [d \in Deploys |-> "ask"]
  /\ work = [d \in Deploys |-> [step |-> "off", command |-> 1]]
  /\ child = [d \in Deploys |-> "none"]
  /\ asked = {} /\ raced = FALSE

Alive(d) == work[d].step \notin {"off", "ended"}

----------------------------------------------------------------------------
(* deploy: three sections of the lock, with nothing held in between.       *)

Ask(d) ==
  /\ at[d] = "ask"
  /\ at' = [at EXCEPT ![d] = IF status = "running" THEN "answered" ELSE "look"]
  /\ UNCHANGED <<status, cancelled, process, installed, work, child, asked, raced>>

\* self.status(config)["deployed"] and not force.
Look(d) ==
  /\ at[d] = "look"
  /\ \E force \in BOOLEAN :
       at' = [at EXCEPT ![d] = IF installed /\ ~force THEN "ready" ELSE "launch"]
  /\ UNCHANGED <<status, cancelled, process, installed, work, child, asked, raced>>

\* Mutant of Ready: the name the answer has for clients.
ReadyDeployed(d) ==
  /\ at[d] = "ready"
  /\ at' = [at EXCEPT ![d] = "answered"]
  /\ status' = "deployed"
  /\ raced' = (raced \/ \E e \in Deploys : Alive(e))
  /\ UNCHANGED <<cancelled, process, installed, work, child, asked>>

Ready(d) ==
  /\ at[d] = "ready"
  /\ at' = [at EXCEPT ![d] = "answered"]
  /\ status' = "completed"
  /\ raced' = (raced \/ \E e \in Deploys : Alive(e))
  /\ UNCHANGED <<cancelled, process, installed, work, child, asked>>

Launch(d) ==
  /\ at[d] = "launch"
  /\ at' = [at EXCEPT ![d] = "answered"]
  /\ cancelled' = FALSE /\ status' = "running"
  /\ work' = [work EXCEPT ![d].step = "check"]
  /\ raced' = (raced \/ \E e \in Deploys : Alive(e))
  /\ UNCHANGED <<process, installed, child, asked>>

----------------------------------------------------------------------------
(* cancel: the event is set in the lock, the process terminated after it.  *)

Terminated(kids, d) ==
  IF d # None /\ kids[d] = "alive" THEN [kids EXCEPT ![d] = "terminated"] ELSE kids

Cancel ==
  /\ status = "running"
  /\ cancelled' = TRUE
  /\ asked' = asked \union {d \in Deploys : work[d].step \in {"check", "spawn", "register", "poll"}}
  /\ child' = Terminated(child, process)
  /\ UNCHANGED <<status, process, installed, at, work, raced>>

----------------------------------------------------------------------------
(* The worker thread.                                                      *)

Goes(d, step) == work' = [work EXCEPT ![d].step = step]

Finish(d, how) == status' = how /\ Goes(d, "leave")

\* _ensure_not_cancelled: whatever process is registered is terminated.
Stopped(d) ==
  /\ cancelled
  /\ child' = Terminated(child, process)
  /\ Finish(d, "cancelled")
  /\ UNCHANGED <<cancelled, process, installed, at, asked, raced>>

\* The check before a command; _set_running.
Check(d) ==
  /\ work[d].step = "check"
  /\ \/ Stopped(d)
     \/ /\ ~cancelled
        /\ status' = "running" /\ Goes(d, "spawn")
        /\ UNCHANGED <<cancelled, process, installed, at, child, asked, raced>>

\* subprocess.Popen; it is registered in a section of its own.
Spawn(d) ==
  /\ work[d].step = "spawn"
  /\ child' = [child EXCEPT ![d] = "alive"] /\ Goes(d, "register")
  /\ UNCHANGED <<status, cancelled, process, installed, at, asked, raced>>

Register(d) ==
  /\ work[d].step = "register"
  /\ process' = d /\ Goes(d, "poll")
  /\ UNCHANGED <<status, cancelled, installed, at, child, asked, raced>>

\* Mutant of Poll: the loop asks the process only, not whether to go on.
PollProcessOnly(d) ==
  /\ work[d].step = "poll" /\ Goes(d, "wait")
  /\ UNCHANGED <<status, cancelled, process, installed, at, child, asked, raced>>

\* The check of the loop, before every look at the process.
Poll(d) ==
  /\ work[d].step = "poll"
  /\ \/ Stopped(d)
     \/ /\ ~cancelled /\ Goes(d, "wait")
        /\ UNCHANGED <<status, cancelled, process, installed, at, child, asked, raced>>

\* The process runs on, has failed, or has done its work: the last command
\* finishes the deployment, the others are followed by a check.
Waited(d) ==
  /\ work[d].step = "wait"
  /\ \/ /\ child[d] = "alive" /\ Goes(d, "poll")
        /\ UNCHANGED <<status, process, installed, child>>
     \/ /\ child' = [child EXCEPT ![d] = "exited"]
        /\ process' = IF process = d THEN None ELSE process
        /\ \/ Finish(d, "failed") /\ UNCHANGED installed
           \/ /\ child[d] = "alive" /\ work[d].command < Commands
              /\ work' = [work EXCEPT ![d] = [step |-> "check", command |-> @.command + 1]]
              /\ installed' \in {installed, TRUE} /\ UNCHANGED status
           \/ /\ child[d] = "alive" /\ work[d].command = Commands /\ installed
              /\ Finish(d, "completed") /\ UNCHANGED installed
  /\ UNCHANGED <<cancelled, at, asked, raced>>

\* finally: no process is registered any more.
Leave(d) ==
  /\ work[d].step = "leave"
  /\ process' = None /\ Goes(d, "ended")
  /\ UNCHANGED <<status, cancelled, installed, at, child, asked, raced>>

Next ==
  \/ Cancel
  \/ \E d \in Deploys :
       \/ Ask(d) \/ Look(d) \/ Ready(d) \/ Launch(d)
       \/ Check(d) \/ Spawn(d) \/ Register(d) \/ Poll(d) \/ Waited(d) \/ Leave(d)

Spec == Init /\ [][Next]_vars

----------------------------------------------------------------------------
(***************************************************************************)
(* As long as no request that found none at work met a deployment after all *)
(* (embeddings.py:110 and :131 are two sections of the lock): the status     *)
(* says whether a deployment is at work, a deployment that is over has left *)
(* no process running, and one that was cancelled before its last check is  *)
(* not reported completed.                                                 *)
(***************************************************************************)
StatusTrue ==
  status = "running" <=> \E d \in Deploys : Alive(d) /\ work[d].step # "leave"

NothingLeftRunning == \A d \in Deploys : work[d].step = "ended" => child[d] # "alive"

CancelHeard == \A d \in asked : work[d].step = "leave" => status # "completed"

DeploymentTold == ~raced => StatusTrue /\ NothingLeftRunning /\ CancelHeard
=============================================================================
