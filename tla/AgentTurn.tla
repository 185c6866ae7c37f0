----------------------------- MODULE AgentTurn ------------------------------
(***************************************************************************)
(* AgentRuntime.run_turn of packages/amadeus/agent.py: the turns of the    *)
(* sessions, each a thread of the HTTP runtime that asks the provider what *)
(* to do, runs the tools it asks for and streams an answer, together with  *)
(* POST /agent/cancel, POST /tools/permission and the threads that         *)
(* tool_runtime/registry.py runs the tool handlers in.                     *)
(*                                                                         *)
(* A turn is a generator: at every event it yields, the write to the       *)
(* client may fail and the generator is closed there.  Steps are cut where *)
(* another thread can see or change what the turn looks at: the running    *)
(* turn of the session, the cancel_event, the messages, the permission     *)
(* entry, the handler's future.                                            *)
(***************************************************************************)
EXTENDS Transcript, PermissionBroker

CONSTANTS
  Sessions,
  None,       \* no running turn
  SessionOf,  \* the session of each turn
  PolicyOf    \* what can become of the tool calls of each turn, see Policy

\* A call is refused before it runs (guardrail, unknown or disabled tool, role
\* or worker scope, policy "deny"), is allowed, or has to be asked for; a
\* "skill" call is an allowed skill_view.  In a worker's turn the worker policy
\* has turned "ask" into one of the first two.
Policy == {"refused", "allowed", "ask", "skill"}

ASSUME TurnAssumption ==
  /\ None \notin Turns
  /\ SessionOf \in [Turns -> Sessions]
  /\ PolicyOf \in [Turns -> SUBSET Policy]
  /\ MaxToolIterations \in Nat
  /\ MaxCalls \in Nat

VARIABLES
  pc,          \* where each turn is
  round,       \* tool_iterations
  calls,       \* the policies of the decision's tool calls still to be done
  outcome,     \* how it ended: its last event, or an aborted generator
  cancelled,   \* its cancel_event
  handler,     \* the thread of its current, or timed-out, tool handler
  history,     \* the messages the turn sends to the provider
  transcript,  \* the saved messages of each session
  running      \* _running_turns_by_session

messageVars == <<history, transcript>>
turnVars == <<round, calls, outcome, cancelled, handler>>
vars == <<pc, turnVars, messageVars, running, brokerVars>>

Deciding == {"deciding", "redeciding"}     \* a second time after an overflow
Answering == {"answering", "reanswering"}
\* In _execute_tool_call.
InCall == {"prompting", "waiting", "granted", "refused", "executing", "awaiting"}
\* Before the decision not to call any further tool.
Undecided == {"announced", "loaded", "calls"} \union Deciding \union InCall
Active == Undecided \union Answering \union {"speaking", "closing"}
Pcs == {"new", "over"} \union Active

TypeOK ==
  /\ pc \in [Turns -> Pcs]
  /\ round \in [Turns -> 0..MaxToolIterations]
  /\ calls \in [Turns -> Seq(Policy)]
  /\ outcome \in [Turns -> {"none", "message", "cancelled", "error"}]
  /\ cancelled \in [Turns -> BOOLEAN]
  /\ handler \in [Turns -> {"none", "submitted", "running", "finished"}]
  /\ running \in [Sessions -> Turns \union {None}]
  /\ BrokerTypeOK
  /\ \A t \in Turns :
       /\ Len(calls[t]) <= MaxCalls
       /\ calls[t] # <<>> => round[t] > 0
       /\ pc[t] \in InCall => calls[t] # <<>>

Init ==
  /\ pc = [t \in Turns |-> "new"]
  /\ round = [t \in Turns |-> 0]
  /\ calls = [t \in Turns |-> <<>>]
  /\ outcome = [t \in Turns |-> "none"]
  /\ cancelled = [t \in Turns |-> FALSE]
  /\ handler = [t \in Turns |-> "none"]
  /\ history = [t \in Turns |-> <<>>]
  /\ transcript = [s \in Sessions |-> <<>>]
  /\ running = [s \in Sessions |-> None]
  /\ BrokerInit

----------------------------------------------------------------------------
(* Helpers.                                                                *)

GoTo(t, l) == pc' = [pc EXCEPT ![t] = l]

\* What the generator keeps in local variables goes with it.
Forget(t) ==
  /\ history' = [history EXCEPT ![t] = <<>>]
  /\ calls' = [calls EXCEPT ![t] = <<>>]

End(t, o) ==
  /\ GoTo(t, "closing")
  /\ outcome' = [outcome EXCEPT ![t] = o]
  /\ Forget(t)

\* The call the turn is at.
CallId(t) == <<t, round[t], Len(calls[t])>>

Save(t, message) ==
  transcript' = [transcript EXCEPT ![SessionOf[t]] = Append(@, message)]

\* _record_tool_result, and on to the next call; a skill that was loaded adds
\* its instructions to the history.
RecordResult(t, instructions) ==
  LET result == ToolResult(t, CallId(t)) IN
    /\ Save(t, result)
    /\ history' = [history EXCEPT ![t] = Append(@, result) \o instructions]
    /\ calls' = [calls EXCEPT ![t] = Tail(@)]
    /\ GoTo(t, "calls")

----------------------------------------------------------------------------
(* run_turn, and the beginning of _run_turn_impl.                          *)

\* _register_running_turn: the session's entry is overwritten.
Begin(t) ==
  /\ pc[t] = "new"
  /\ GoTo(t, "announced")
  /\ running' = [running EXCEPT ![SessionOf[t]] = t]
  /\ UNCHANGED <<turnVars, messageVars, brokerVars>>

Load(t) ==
  /\ pc[t] = "announced"
  /\ GoTo(t, "loaded")
  /\ \E w \in Windows(transcript[SessionOf[t]]) :
       history' = [history EXCEPT ![t] = Append(Sanitize(w), User(t))]
  /\ UNCHANGED <<turnVars, transcript, running, brokerVars>>

SaveUser(t) ==
  /\ pc[t] = "loaded"
  /\ GoTo(t, "deciding")
  /\ Save(t, User(t))
  /\ UNCHANGED <<turnVars, history, running, brokerVars>>

\* The provider says that the context is too long: the conversation is folded
\* and loaded again, once for each request.
Reload(t) ==
  /\ \/ pc[t] = "deciding" /\ GoTo(t, "redeciding")
     \/ pc[t] = "answering" /\ GoTo(t, "reanswering")
  /\ \E w \in Windows(transcript[SessionOf[t]]) :
       history' = [history EXCEPT ![t] =
                     Append(WithoutCurrent(Sanitize(w), t), User(t))]
  /\ UNCHANGED <<turnVars, transcript, running, brokerVars>>

----------------------------------------------------------------------------
(* The tool loop: a decision of the provider, and what becomes of it.      *)

\* Mutant of MoreRounds: one round too many.
MoreRoundsPlusOne(t) == round[t] <= MaxToolIterations

MoreRounds(t) == round[t] < MaxToolIterations

\* The provider asks for tools; its message is saved before they are run.
DecideCalls(t, asked) ==
  LET ids == {<<t, round[t] + 1, i>> : i \in 1..Len(asked)} IN
    /\ pc[t] \in Deciding
    /\ ~cancelled[t]
    /\ MoreRounds(t)
    /\ GoTo(t, "calls")
    /\ round' = [round EXCEPT ![t] = @ + 1]
    /\ calls' = [calls EXCEPT ![t] = asked]
    /\ history' = [history EXCEPT ![t] = Append(@, Assistant(t, ids))]
    /\ Save(t, Assistant(t, ids))
    /\ UNCHANGED <<outcome, cancelled, handler, running, brokerVars>>

\* Mutant of DecideAnswer: cancel_event is not looked at.
DecideAnswerAnyway(t) ==
  /\ pc[t] \in Deciding
  /\ \E l \in {"speaking", "answering"} : GoTo(t, l)
  /\ UNCHANGED <<turnVars, messageVars, running, brokerVars>>

\* It asks for none: its content is the answer, or the answer is streamed.
DecideAnswer(t) ==
  /\ pc[t] \in Deciding
  /\ ~cancelled[t]
  /\ \E l \in {"speaking", "answering"} : GoTo(t, l)
  /\ UNCHANGED <<turnVars, messageVars, running, brokerVars>>

\* The turn ends: the provider fails, or the reply comes too late or asks for
\* too many rounds.
DecideNothing(t) ==
  /\ pc[t] \in Deciding
  /\ \/ End(t, "error")
     \/ cancelled[t] /\ End(t, "cancelled")
  /\ UNCHANGED <<round, cancelled, handler, transcript, running, brokerVars>>

\* Between two calls: cancel_event ends the turn.
StopCalls(t) ==
  /\ pc[t] = "calls"
  /\ cancelled[t]
  /\ End(t, "cancelled")
  /\ UNCHANGED <<round, cancelled, handler, transcript, running, brokerVars>>

NextRound(t) ==
  /\ pc[t] = "calls"
  /\ ~cancelled[t]
  /\ calls[t] = <<>>
  /\ GoTo(t, "deciding")
  /\ UNCHANGED <<turnVars, messageVars, running, brokerVars>>

----------------------------------------------------------------------------
(* _execute_tool_call.                                                     *)

AtCall(t, policies) ==
  /\ pc[t] = "calls"
  /\ ~cancelled[t]
  /\ calls[t] # <<>>
  /\ Head(calls[t]) \in policies

Refuse(t) ==
  /\ AtCall(t, {"refused"})
  /\ RecordResult(t, <<>>)
  /\ UNCHANGED <<round, outcome, cancelled, handler, running, brokerVars>>

Allow(t) ==
  /\ AtCall(t, {"allowed", "skill"})
  /\ GoTo(t, "executing")
  /\ UNCHANGED <<turnVars, messageVars, running, brokerVars>>

AskPermission(t) ==
  /\ AtCall(t, {"ask"})
  /\ Register(CallId(t))
  /\ GoTo(t, "prompting")
  /\ UNCHANGED <<turnVars, messageVars, running>>

\* The request has been written to the client, which may answer it now.
Prompt(t) ==
  /\ pc[t] = "prompting"
  /\ GoTo(t, "waiting")
  /\ UNCHANGED <<turnVars, messageVars, running, brokerVars>>

\* The event is set and the answer read; the entry is still there.
Answered(t) ==
  /\ pc[t] = "waiting"
  /\ \/ pending[CallId(t)] = "yes" /\ GoTo(t, "granted")
     \/ pending[CallId(t)] = "no" /\ GoTo(t, "refused")
  /\ UNCHANGED <<turnVars, messageVars, running, brokerVars>>

\* Mutant of WaitTimesOut: silence is consent.
WaitTimesOutGranted(t) ==
  /\ pc[t] = "waiting"
  /\ pending[CallId(t)] = "open"
  /\ GoTo(t, "granted")
  /\ UNCHANGED <<turnVars, messageVars, running, brokerVars>>

\* Mutant of WaitTimesOut: event.wait without a time-out.
WaitForEver(t) == pc[t] = "waiting" /\ UNCHANGED vars

WaitTimesOut(t) ==
  /\ pc[t] = "waiting"
  /\ pending[CallId(t)] = "open"
  /\ GoTo(t, "refused")
  /\ UNCHANGED <<turnVars, messageVars, running, brokerVars>>

\* wait() drops its entry, and the call goes on or has its result.
LeaveWait(t) ==
  /\ \/ /\ pc[t] = "granted"
        /\ GoTo(t, "executing")
        /\ UNCHANGED <<calls, messageVars>>
     \/ /\ pc[t] = "refused"
        /\ RecordResult(t, <<>>)
  /\ Drop(CallId(t))
  /\ UNCHANGED <<round, outcome, cancelled, handler, running>>

\* ToolRegistry.execute: not if cancelled; else in a thread of its own.
Submit(t) ==
  /\ pc[t] = "executing"
  /\ ~cancelled[t]
  /\ GoTo(t, "awaiting")
  /\ handler' = [handler EXCEPT ![t] = "submitted"]
  /\ UNCHANGED <<round, calls, outcome, cancelled, messageVars, running, brokerVars>>

SkipTool(t) ==
  /\ pc[t] = "executing"
  /\ cancelled[t]
  /\ RecordResult(t, <<>>)
  /\ UNCHANGED <<round, outcome, cancelled, handler, running, brokerVars>>

----------------------------------------------------------------------------
(* call_tool_handler, in the handler's thread.                             *)

\* Mutant of HandlerStarts: cancel_event is not looked at again.
HandlerStartsAnyway(t) ==
  /\ handler[t] = "submitted"
  /\ handler' = [handler EXCEPT ![t] = "running"]
  /\ UNCHANGED <<pc, round, calls, outcome, cancelled, messageVars, running, brokerVars>>

HandlerStarts(t) ==
  /\ handler[t] = "submitted"
  /\ handler' = [handler EXCEPT ![t] = IF cancelled[t] THEN "finished" ELSE "running"]
  /\ UNCHANGED <<pc, round, calls, outcome, cancelled, messageVars, running, brokerVars>>

HandlerEnds(t) ==
  /\ handler[t] = "running"
  /\ handler' = [handler EXCEPT ![t] = "finished"]
  /\ UNCHANGED <<pc, round, calls, outcome, cancelled, messageVars, running, brokerVars>>

----------------------------------------------------------------------------
(* run_with_timeout, in the turn's thread.                                 *)

ToolReturns(t) ==
  /\ pc[t] = "awaiting"
  /\ handler[t] = "finished"
  /\ handler' = [handler EXCEPT ![t] = "none"]
  /\ \/ RecordResult(t, <<>>)
     \/ /\ Head(calls[t]) = "skill"
        /\ ~cancelled[t]
        /\ RecordResult(t, <<System(t)>>)
  /\ UNCHANGED <<round, outcome, cancelled, running, brokerVars>>

\* Mutant of ToolTimesOut: context.request_cancel() is forgotten.
ToolTimesOutQuietly(t) ==
  /\ pc[t] = "awaiting"
  /\ handler' = [handler EXCEPT ![t] = IF @ = "running" THEN @ ELSE "none"]
  /\ RecordResult(t, <<>>)
  /\ UNCHANGED <<round, outcome, cancelled, running, brokerVars>>

\* A time-out sets the turn's cancel_event, and so does a TimeoutError that the
\* handler raised (from Python 3.11 on they are one class).  A handler that has
\* not started is taken back, one that has started runs on.
ToolTimesOut(t) ==
  /\ pc[t] = "awaiting"
  /\ handler' = [handler EXCEPT ![t] = IF @ = "running" THEN @ ELSE "none"]
  /\ cancelled' = [cancelled EXCEPT ![t] = TRUE]
  /\ RecordResult(t, <<>>)
  /\ UNCHANGED <<round, outcome, running, brokerVars>>

----------------------------------------------------------------------------
(* The answer, and the end of the generator.                               *)

Stream(t) ==
  /\ pc[t] \in Answering
  /\ \/ GoTo(t, "speaking") /\ UNCHANGED <<outcome, calls, history>>
     \/ End(t, "error")
     \/ cancelled[t] /\ End(t, "cancelled")
  /\ UNCHANGED <<round, cancelled, handler, transcript, running, brokerVars>>

Speak(t) ==
  /\ pc[t] = "speaking"
  /\ End(t, "message")
  /\ Save(t, Assistant(t, {}))
  /\ UNCHANGED <<round, cancelled, handler, running, brokerVars>>

\* Mutant of Close: whatever turn is registered is removed.
CloseAny(t) ==
  /\ pc[t] = "closing"
  /\ GoTo(t, "over")
  /\ running' = [running EXCEPT ![SessionOf[t]] = None]
  /\ UNCHANGED <<turnVars, messageVars, brokerVars>>

\* _finish_running_turn.
Close(t) ==
  /\ pc[t] = "closing"
  /\ GoTo(t, "over")
  /\ running' = [running EXCEPT ![SessionOf[t]] = IF @ = t THEN None ELSE @]
  /\ UNCHANGED <<turnVars, messageVars, brokerVars>>

\* The client is gone, or a store call raises.  The first event is yielded
\* before the try whose finally calls _finish_running_turn.
Abort(t) ==
  /\ \/ /\ pc[t] = "announced"
        /\ GoTo(t, "over")
        /\ outcome' = [outcome EXCEPT ![t] = "error"]
        /\ Forget(t)
     \/ /\ pc[t] \in {"loaded", "calls", "prompting", "speaking"} \union Deciding \union Answering
        /\ End(t, "error")
  /\ UNCHANGED <<round, cancelled, handler, transcript, running, brokerVars>>

----------------------------------------------------------------------------
(* Clients.                                                                *)

\* cancel_turn, with the id of the turn or for whatever turn is running.
Cancel(s, id) ==
  /\ running[s] # None
  /\ id \in {None, running[s]}
  /\ cancelled' = [cancelled EXCEPT ![running[s]] = TRUE]
  /\ UNCHANGED <<pc, round, calls, outcome, handler, messageVars, running, brokerVars>>

\* POST /tools/permission, by a client that has been sent the request; any
\* client may answer, at any time, more than once.
Answer(id, answer) ==
  /\ pc[id[1]] \in {"waiting", "granted", "refused"}
  /\ Resolve(id, answer)
  /\ UNCHANGED <<pc, turnVars, messageVars, running>>

----------------------------------------------------------------------------
AskedFor(t) == UNION {[1..n -> PolicyOf[t]] : n \in 1..MaxCalls}

LoopStep(t) ==
  \/ Load(t) \/ SaveUser(t) \/ Reload(t)
  \/ \E asked \in AskedFor(t) : DecideCalls(t, asked)
  \/ DecideAnswer(t) \/ DecideNothing(t) \/ StopCalls(t) \/ NextRound(t)
  \/ Stream(t) \/ Speak(t) \/ Close(t)

CallStep(t) ==
  \/ Refuse(t) \/ Allow(t) \/ AskPermission(t) \/ Prompt(t)
  \/ Answered(t) \/ WaitTimesOut(t) \/ LeaveWait(t)
  \/ Submit(t) \/ SkipTool(t) \/ ToolReturns(t) \/ ToolTimesOut(t)

Next ==
  \/ \E t \in Turns : \/ Begin(t) \/ LoopStep(t) \/ CallStep(t) \/ Abort(t)
                      \/ HandlerStarts(t) \/ HandlerEnds(t)
  \/ \E s \in Sessions, id \in Turns \union {None} : Cancel(s, id)
  \/ \E id \in CallIds, answer \in Answers : Answer(id, answer)

Spec == Init /\ [][Next]_vars

\* The thread of a turn is scheduled, the provider replies or fails, a client
\* reads what is written to it or is gone.  Nobody has to send, answer or
\* cancel anything, and a tool handler may run for ever.
Fairness == \A t \in Turns : WF_vars(LoopStep(t) \/ CallStep(t))

FairSpec == Spec /\ Fairness

----------------------------------------------------------------------------
(* Safety.                                                                 *)

\* A tool that has to be asked for runs only if a client approved this very
\* call: not on a time-out, a refusal, or the approval of another call.
RunsOnlyApproved ==
  \A t \in Turns :
    (pc[t] \in {"granted", "executing", "awaiting"} /\ Head(calls[t]) = "ask")
      => CallId(t) \in said

\* A handler that runs while its turn does not wait for it has timed out, and
\* its turn is cancelled: a turn never goes on beside a tool that may still
\* change the workspace.
NoToolBesideTurn ==
  \A t \in Turns : handler[t] = "running" => pc[t] = "awaiting" \/ cancelled[t]

\* Once cancel_event is set no handler of the turn starts and no decision is
\* requested after a round of calls, wherever the cancellation came in between.
\* The first decision, and its repetition after a context overflow, are
\* requested without a look at cancel_event.
CancelStopsWork ==
  [][\A t \in Turns :
       cancelled[t] =>
         /\ handler'[t] = "running" => handler[t] = "running"
         /\ pc'[t] = "deciding" => pc[t] \in {"loaded", "deciding"}]_vars

\* The registry's entry disappears only with the turn it names: the end of an
\* older turn of the session leaves a younger one cancellable.
OnlyOwnEntryCleared ==
  [][\A s \in Sessions :
       running[s] # None /\ running'[s] = None => pc'[running[s]] = "over"]_vars

\* Whatever was cancelled, aborted, interleaved or folded before: in all the
\* provider is sent, each tool call has exactly one result and each result
\* its call.
PairedCalls ==
  \A t \in Turns :
    pc[t] \in Deciding \union Answering => Paired(history[t])

----------------------------------------------------------------------------
(* Liveness.                                                               *)

\* A turn that has begun ends, though tools hang and nobody answers.
TurnEnds == \A t \in Turns : pc[t] \in Active ~> pc[t] = "over"

\* A turn that is cancelled before its last decision ends without an answer.
CancelEnds ==
  \A t \in Turns :
    (cancelled[t] /\ pc[t] \in Undecided) ~> (pc[t] = "over" /\ outcome[t] # "message")

----------------------------------------------------------------------------
(* What the documentation says and the code does not do.                   *)

\* A running turn is cleared when the generator finishes.
RegistryCleared ==
  \A s \in Sessions : running[s] # None => pc[running[s]] # "over"

\* What is sent to the provider is a valid transcript: the results of a
\* message's tool calls come right behind it.
HistoryAdjacent ==
  \A t \in Turns :
    pc[t] \in Deciding \union Answering => Adjacent(history[t])
=============================================================================
