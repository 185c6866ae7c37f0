-------------------------- MODULE PermissionBroker --------------------------
(***************************************************************************)
(* PermissionBroker of packages/amadeus/agent.py: where the thread of a    *)
(* turn waits for POST /tools/permission.  Every method body runs under    *)
(* the broker's lock, so each action is atomic; wait() is three of them,   *)
(* with the lock released in between: the event is set or times out, the   *)
(* approval is read, the entry is dropped.                                 *)
(***************************************************************************)
EXTENDS Naturals

CONSTANTS
  Turns,              \* turn ids, one for each call of run_turn
  MaxToolIterations,  \* agent_max_tool_iterations
  MaxCalls            \* bound on the tool calls of one decision

\* The tool calls of a turn: its round, and the calls left in that round.  A
\* call is asked for at most once, so that the request goes by the same id.
CallIds == Turns \X (1..MaxToolIterations) \X (1..MaxCalls)

VARIABLES
  pending,   \* _pending: no entry, not answered, or the answer
  said       \* history: the requests for which an approval was accepted

brokerVars == <<pending, said>>

Answers == {"yes", "no"}

BrokerTypeOK ==
  /\ pending \in [CallIds -> {"none", "open"} \union Answers]
  /\ said \subseteq CallIds

BrokerInit ==
  /\ pending = [r \in CallIds |-> "none"]
  /\ said = {}

Register(r) ==
  /\ pending' = [pending EXCEPT ![r] = "open"]
  /\ UNCHANGED said

\* An answer to a request nobody waits for is ignored.  A second answer
\* replaces the first one as long as the entry is there.
Resolve(r, answer) ==
  /\ pending[r] # "none"
  /\ pending' = [pending EXCEPT ![r] = answer]
  /\ said' = IF answer = "yes" THEN said \union {r} ELSE said

Drop(r) ==
  /\ pending' = [pending EXCEPT ![r] = "none"]
  /\ UNCHANGED said
=============================================================================
