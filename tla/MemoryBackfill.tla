--------------------------- MODULE MemoryBackfill ---------------------------
(***************************************************************************)
(* The background backfill of memory vectors: MemoryEmbeddingBackfillRunner *)
(* of memory_embeddings.py and the requests of server.py that start it or   *)
(* ask for its state.  The runner's lock is a threading.Lock: a thread that *)
(* holds it and takes it again waits for itself.                            *)
(***************************************************************************)
EXTENDS Naturals, FiniteSets

CONSTANTS
  Requests,  \* the HTTP requests, each served by a thread of its own
  None

VARIABLES
  state,   \* the runner's status: idle, running, completed or failed
  thread,  \* the background thread: none, working, settling or dead
  owner,   \* the request thread that holds the lock between two steps, or None
  at       \* what each request is about to do

vars == <<state, thread, owner, at>>

TypeOK ==
  /\ state \in {"idle", "running", "completed", "failed"}
  /\ thread \in {"none", "working", "settling", "dead"}
  /\ owner \in Requests \union {None}
  /\ at \in [Requests -> {"start", "tell", "answer", "answered"}]

Init ==
  /\ state = "idle" /\ thread = "none" /\ owner = None
  /\ at \in [Requests -> {"start", "answer"}]

\* start takes the lock, starts a thread unless one is alive, and calls
\* status before it lets the lock go.
Start(r) ==
  /\ at[r] = "start" /\ owner = None
  /\ owner' = r /\ at' = [at EXCEPT ![r] = "tell"]
  /\ IF thread \in {"working", "settling"} THEN UNCHANGED <<state, thread>>
     ELSE state' = "running" /\ thread' = "working"

\* status takes the same lock to copy the state; only then does start leave.
Tell(r) ==
  /\ at[r] = "tell" /\ owner = None
  /\ owner' = None /\ at' = [at EXCEPT ![r] = "answer"]
  /\ UNCHANGED <<state, thread>>

\* Every answer carries the runner's status, of a request that only asks too.
Answer(r) ==
  /\ at[r] = "answer" /\ owner = None
  /\ at' = [at EXCEPT ![r] = "answered"]
  /\ UNCHANGED <<state, thread, owner>>

\* The service encodes and writes the vectors, without the lock.
Work == thread = "working" /\ thread' = "settling" /\ UNCHANGED <<state, owner, at>>

Settle ==
  /\ thread = "settling" /\ owner = None
  /\ state' \in {"completed", "failed"} /\ thread' = "dead"
  /\ UNCHANGED <<owner, at>>

Next == Work \/ Settle \/ \E r \in Requests : Start(r) \/ Tell(r) \/ Answer(r)

\* Every thread is scheduled, and a free lock is given to whoever waits.
Fairness ==
  /\ WF_vars(Work) /\ SF_vars(Settle)
  /\ \A r \in Requests : SF_vars(Start(r)) /\ SF_vars(Tell(r)) /\ SF_vars(Answer(r))

Spec == Init /\ [][Next]_vars /\ Fairness

----------------------------------------------------------------------------
(***************************************************************************)
(* The manual control of the settings page, POST /memory/embedding/backfill *)
(* (docs/project-status.md:456), answers: a request to start the backfill   *)
(* is not left waiting for ever.  It is: start calls status while it holds  *)
(* the lock that status takes (memory_embeddings.py:151), and from then on  *)
(* no request that asks for the status is answered either.                  *)
(***************************************************************************)
BackfillAnswered == \A r \in Requests : at[r] = "start" ~> at[r] = "answered"
=============================================================================
