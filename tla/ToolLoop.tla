------------------------------ MODULE ToolLoop ------------------------------
(***************************************************************************)
(* The guardrail of a turn against repeated tool calls (packages/amadeus/  *)
(* tool_runtime/guardrails.py) and the workspace epoch of its session      *)
(* (agent.py).  A call is                                                  *)
(*   [tool, path, key, rest]                                               *)
(* where `key' stands for the arguments that make a call semantically the  *)
(* same (the old text of a patch, the window of a read, the query of a     *)
(* search) and `rest' for the others.  Every turn has a guardrail of its   *)
(* own, and this is one turn; of the other turns of its session only the   *)
(* epoch is left, which all of them share.                                 *)
(***************************************************************************)
EXTENDS Naturals, Sequences, FiniteSets

CONSTANTS
  Calls,
  PolicySets,  \* the worker's file resume policies the turn may start with: sequences of
               \* [paths, override, action, source]
  MaxRepeats,  \* ToolLoopGuardrail: max_failed_repeats and max_completed_repeats, both 2
  MaxCalls,    \* bound: calls of the turn
  MaxEpoch,    \* bound: changes of the workspace by other turns
  None

ToolLoopAssumption ==
  /\ MaxRepeats \in Nat \ {0} /\ MaxCalls \in Nat /\ MaxEpoch \in Nat
  /\ \A given \in PolicySets : Len(given) \in Nat /\ DOMAIN given = 1 .. Len(given)
  /\ None \notin {"repeat", "semFailed", "semCompleted", "force_rerun", "ignore_artifact",
                   "accept_current_state"}

VARIABLES
  epoch,      \* _workspace_epoch_by_session, of the one session
  calling,    \* the call the turn is in, with the epoch it captured
  count,      \* _failed_signatures, _completed_signatures and the semantic ones
  refreshed,  \* _refreshed_file_paths
  policies,   \* file_resume_policies of the turn's scope
  log         \* history: what the turn's calls came to, in order

vars == <<epoch, calling, count, refreshed, policies, log>>

Observing == {"search_files", "read_file", "patch", "write_file"}
Mutating == {"patch", "write_file"}
MayMutate == {"terminal", "execute_code"}

\* What a call can come to: refused by the guardrail, denied on the way to the
\* handler, failed, or done; `same' is a success without a change or a duplicate.
Ends == {"done", "same", "failed", "denied", "blocked"}

NoCounts == [failed |-> <<>>, completed |-> <<>>, semFailed |-> <<>>, semCompleted |-> <<>>]

Init ==
  /\ epoch = 0
  /\ calling = None
  /\ count = NoCounts
  /\ refreshed = <<>>
  /\ policies \in PolicySets
  /\ log = <<>>

----------------------------------------------------------------------------
(* Signatures.                                                             *)

\* Mutant of Signature: the epoch is in no signature.
SignatureTimeless(c, e) == <<c, None>>

\* _call_signature: only of a tool that observes the workspace the epoch matters.
Signature(c, e) == <<c, IF c.tool \in Observing THEN e ELSE None>>

\* _semantic_args_signature.
Semantic(c, e) ==
  CASE c.tool \in Observing -> <<c.tool, c.path, c.key, e>>
    [] c.tool \in {"search_memory", "search_memory_items", "memory_add",
                   "memory_replace", "memory_forget"} -> <<c.tool, c.path, c.key, None>>
    [] OTHER -> <<c, None>>

Works(end) == end \in {"done", "same"}

\* _semantic_observation: the counter a call's end goes to.
Observation(c, end) ==
  CASE c.tool \in {"search_files", "search_memory", "search_memory_items", "read_file"} ->
         IF Works(end) THEN "semCompleted" ELSE None
    [] c.tool = "memory_add" -> IF end = "same" THEN "semCompleted" ELSE None
    [] c.tool \in {"memory_replace", "memory_forget"} \union Mutating ->
         IF Works(end) THEN None ELSE "semFailed"
    [] OTHER -> None

----------------------------------------------------------------------------
(* before_call.                                                            *)

Overridden(policy) == policy.override \in {"force_rerun", "ignore_artifact"}

\* Mutant of PathWasRefreshed: a read of any time will do.
PathWasReadOnce(path, e) == path \in DOMAIN refreshed

\* _path_was_refreshed.
PathWasRefreshed(path, e) == path \in DOMAIN refreshed /\ refreshed[path] = e

\* The policy forbids call c.
Forbids(policy, c, e) ==
  /\ ~Overridden(policy)
  /\ \/ policy.action = "skip_redundant_mutation" /\ policy.source \in {None, c.tool}
     \/ /\ policy.action = "reinspect_before_mutation"
        /\ policy.override # "accept_current_state"
        /\ ~PathWasRefreshed(c.path, e)

\* _file_resume_policy_decision: the policies in their order, up to a forced rerun.
PolicyForbids(c, e) ==
  /\ c.tool \in Mutating
  /\ \E n \in DOMAIN policies :
       /\ c.path \in policies[n].paths
       /\ Forbids(policies[n], c, e)
       /\ \A k \in 1 .. n - 1 :
            c.path \in policies[k].paths => policies[k].override # "force_rerun"

\* How often a signature was counted: get(signature, 0).
Copies(counter, signature) == IF signature \in DOMAIN counter THEN counter[signature] ELSE 0

Repeats(c, e) ==
  \/ Copies(count.semFailed, Semantic(c, e)) >= MaxRepeats
  \/ Copies(count.failed, Signature(c, e)) >= MaxRepeats
  \/ Copies(count.semCompleted, Semantic(c, e)) >= MaxRepeats
  \/ Copies(count.completed, Signature(c, e)) >= MaxRepeats

Logged(c, e, end, why) ==
  log' = Append(log, [call |-> c, epoch |-> e, end |-> end, why |-> why])

\* _execute_tool_call: the epoch is captured before anything else.
Begin(c) ==
  /\ calling = None /\ Len(log) < MaxCalls
  /\ calling' = [call |-> c, epoch |-> epoch]
  /\ UNCHANGED <<epoch, count, refreshed, policies, log>>

\* A call that is refused is not counted.
Block(why) ==
  /\ Logged(calling.call, calling.epoch, "blocked", why)
  /\ calling' = None
  /\ UNCHANGED <<epoch, count, refreshed, policies>>

Refused ==
  /\ calling # None
  /\ LET c == calling.call
         e == calling.epoch
     IN \/ PolicyForbids(c, e) /\ Block("policy")
        \/ ~PolicyForbids(c, e) /\ Repeats(c, e) /\ Block("repeat")

----------------------------------------------------------------------------
(* after_call.                                                             *)

CountedOnce(counter, signature) ==
  [s \in DOMAIN counter \union {signature} |->
     IF s = signature THEN Copies(counter, s) + 1 ELSE counter[s]]

Counted(c, e, end) ==
  LET kind == Observation(c, end)
      once == [count EXCEPT !.completed = CountedOnce(@, Signature(c, e)),
                            !.failed = IF Works(end) THEN @ ELSE CountedOnce(@, Signature(c, e))]
  IN IF kind = None THEN once ELSE [once EXCEPT ![kind] = CountedOnce(@, Semantic(c, e))]

\* The handler ran, or the call was denied before; then a change of the
\* workspace moves the session's epoch on.  Whether the guardrail lets the call
\* pass was decided with the epoch captured when it began.
Ended(end) ==
  /\ calling # None
  /\ LET c == calling.call
         e == calling.epoch
     IN /\ ~PolicyForbids(c, e) /\ ~Repeats(c, e)
        /\ count' = Counted(c, e, end)
        /\ refreshed' = IF c.tool = "read_file" /\ Works(end)
                          THEN [path \in DOMAIN refreshed \union {c.path} |->
                                  IF path = c.path THEN e ELSE refreshed[path]]
                          ELSE refreshed
        /\ epoch' = IF \/ c.tool \in Mutating /\ end = "done"
                       \/ c.tool \in MayMutate /\ Works(end)
                    THEN epoch + 1 ELSE epoch
        /\ Logged(c, e, end, None)
  /\ calling' = None
  /\ UNCHANGED policies

\* _bump_workspace_epoch, by another turn of the session.
OtherTurnChanges ==
  /\ epoch < MaxEpoch
  /\ epoch' = epoch + 1
  /\ UNCHANGED <<calling, count, refreshed, policies, log>>

Next ==
  \/ \E c \in Calls : Begin(c)
  \/ Refused
  \/ \E end \in Ends \ {"blocked"} : Ended(end)
  \/ OtherTurnChanges

Spec == Init /\ [][Next]_vars

----------------------------------------------------------------------------
(* Properties.                                                             *)

TypeOK ==
  /\ epoch \in 0 .. MaxEpoch + MaxCalls
  /\ calling = None \/ (calling.call \in Calls /\ calling.epoch \in 0 .. epoch)
  /\ \A bag \in DOMAIN NoCounts :
       \A signature \in DOMAIN count[bag] : count[bag][signature] \in 1 .. Len(log)
  /\ \A path \in DOMAIN refreshed : refreshed[path] \in 0 .. epoch
  /\ \A n \in DOMAIN log : log[n].end \in Ends

\* The attempts before the nth that were the same call: at the same epoch if the
\* tool observes the workspace, at any time if it does not.
SameTime(a, b) == a.call.tool \in Observing => a.epoch = b.epoch
Attempts(n, Like(_, _)) ==
  {k \in 1 .. n - 1 : log[k].end # "blocked" /\ SameTime(log[n], log[k])
                        /\ Like(log[n].call, log[k].call)}

SameCall(a, b) == a = b
SameTarget(a, b) == a.tool = b.tool /\ a.path = b.path /\ a.key = b.key

\* No turn tries a call again that was tried MaxRepeats times since the session
\* last changed its workspace, nor a read or an edit that differs only in other
\* arguments and came to nothing that often; and the guardrail never stops a turn
\* whose workspace has changed since.
RepeatsStop == \A n \in DOMAIN log :
  /\ log[n].end # "blocked" => Cardinality(Attempts(n, SameCall)) < MaxRepeats
  /\ log[n].end # "blocked" /\ log[n].call.tool \in Mutating =>
       Cardinality({k \in Attempts(n, SameTarget) : ~Works(log[k].end)}) < MaxRepeats
  /\ log[n].why = "repeat" => Cardinality(Attempts(n, SameTarget)) >= MaxRepeats

\* A file that changed since the last attempt of a worker's task is not edited
\* before this turn has read it again, after its session's last edit.
EditsAreInformed == \A n \in DOMAIN log :
  /\ log[n].end # "blocked" /\ log[n].call.tool \in Mutating
  /\ \E p \in DOMAIN policies : /\ log[n].call.path \in policies[p].paths
                                   /\ policies[p].action = "reinspect_before_mutation"
  /\ \A p \in DOMAIN policies : policies[p].override = None
  => \E k \in 1 .. n - 1 : /\ log[k].call.tool = "read_file" /\ Works(log[k].end)
                           /\ log[k].call.path = log[n].call.path
                           /\ log[k].epoch = log[n].epoch
=============================================================================
