-------------------------- MODULE AgentTurnProofs ---------------------------
(***************************************************************************)
(* What holds of AgentTurn for any turns, sessions, tools and bounds.      *)
(***************************************************************************)
EXTENDS AgentTurn, SequenceTheorems, FiniteSetTheorems, TLAPS

----------------------------------------------------------------------------
(* Types.                                                                  *)

\* Recording a result takes one call off a turn that has calls left.
LEMMA ResultTaken ==
  ASSUME TypeOK, NEW t \in Turns, NEW x, RecordResult(t, x), calls[t] # <<>>
  PROVE  /\ pc' = [pc EXCEPT ![t] = "calls"]
         /\ calls' \in [Turns -> Seq(Policy)]
         /\ \A u \in Turns : Len(calls'[u]) <= MaxCalls
         /\ \A u \in Turns : calls'[u] # <<>> => calls[u] # <<>>
         /\ \A u \in Turns \ {t} : calls'[u] = calls[u]
<1>1. calls[t] \in Seq(Policy) /\ Len(calls[t]) <= MaxCalls
  BY DEF TypeOK
<1>2. Tail(calls[t]) \in Seq(Policy) /\ Len(Tail(calls[t])) = Len(calls[t]) - 1
  BY <1>1, HeadTailProperties
<1>3. Len(calls[t]) \in Nat
  BY <1>1, LenProperties
<1>4. calls' = [calls EXCEPT ![t] = Tail(@)]
  BY DEF RecordResult
<1>5. calls' \in [Turns -> Seq(Policy)]
  BY <1>2, <1>4 DEF TypeOK
<1>6. \A u \in Turns : Len(calls'[u]) <= MaxCalls
  BY <1>1, <1>2, <1>3, <1>4, TurnAssumption DEF TypeOK
<1> QED
  BY <1>4, <1>5, <1>6 DEF RecordResult, GoTo, TypeOK

\* The decision of a provider fits the types.
LEMMA AskedTyped ==
  ASSUME NEW t \in Turns, NEW asked \in AskedFor(t)
  PROVE  asked \in Seq(Policy) /\ Len(asked) <= MaxCalls
<1>1. PICK n \in 1..MaxCalls : asked \in [1..n -> PolicyOf[t]]
  BY DEF AskedFor
<1>2. n \in Nat /\ n <= MaxCalls
  BY <1>1, TurnAssumption
<1>3. asked \in [1..n -> Policy]
  BY <1>1, TurnAssumption
<1> QED
  BY <1>2, <1>3

\* A turn at a call of its own has a proper call id.
LEMMA CallIdTyped ==
  ASSUME TypeOK, NEW t \in Turns, calls[t] # <<>>
  PROVE  CallId(t) \in CallIds
<1>1. round[t] \in 1..MaxToolIterations
  BY TurnAssumption DEF TypeOK
<1>2. calls[t] \in Seq(Policy) /\ Len(calls[t]) <= MaxCalls
  BY DEF TypeOK
<1>3. Len(calls[t]) \in 1..MaxCalls
  BY <1>2, EmptySeq, LenProperties, TurnAssumption
<1> QED
  BY <1>1, <1>3 DEF CallId, CallIds

\* The initial state has the types.
LEMMA TypeInit == Init => TypeOK
BY TurnAssumption DEF Init, TypeOK, BrokerInit, BrokerTypeOK, Pcs, Active, InCall

\* The types of everything that is not a turn's place in its loop.
RestTyped ==
  /\ outcome \in [Turns -> {"none", "message", "cancelled", "error"}]
  /\ cancelled \in [Turns -> BOOLEAN]
  /\ handler \in [Turns -> {"none", "submitted", "running", "finished"}]
  /\ running \in [Sessions -> Turns \union {None}]
  /\ BrokerTypeOK

\* A turn that moves on with the calls it has keeps the types.
LEMMA MoveTyped ==
  ASSUME TypeOK, NEW t \in Turns, NEW l \in Pcs, GoTo(t, l),
         UNCHANGED <<round, calls>>,
         l \in InCall => calls[t] # <<>>,
         RestTyped'
  PROVE  TypeOK'
BY DEF TypeOK, GoTo, RestTyped

\* So does one that records the result of a call.
LEMMA RecordTyped ==
  ASSUME TypeOK, NEW t \in Turns, NEW x, RecordResult(t, x), calls[t] # <<>>,
         UNCHANGED round, RestTyped'
  PROVE  TypeOK'
<1>1. "calls" \in Pcs /\ "calls" \notin InCall
  BY DEF Pcs, Active, Undecided, InCall
<1>2. /\ pc' = [pc EXCEPT ![t] = "calls"]
      /\ calls' \in [Turns -> Seq(Policy)]
      /\ \A u \in Turns : Len(calls'[u]) <= MaxCalls
      /\ \A u \in Turns : calls'[u] # <<>> => calls[u] # <<>>
      /\ \A u \in Turns \ {t} : calls'[u] = calls[u]
  BY ResultTaken
<1>3. pc' \in [Turns -> Pcs] /\ \A u \in Turns : pc'[u] \in InCall => u # t /\ pc[u] \in InCall
  BY <1>1, <1>2 DEF TypeOK
<1> QED
  BY <1>2, <1>3 DEF TypeOK, RestTyped

\* And one that ends.
LEMMA EndTyped ==
  ASSUME TypeOK, NEW t \in Turns, NEW o \in {"message", "cancelled", "error"},
         End(t, o), UNCHANGED <<round, cancelled, handler, running, brokerVars>>
  PROVE  TypeOK'
<1>1. "closing" \in Pcs /\ "closing" \notin InCall
  BY DEF Pcs, Active, InCall
<1>2. RestTyped'
  BY DEF TypeOK, RestTyped, End, brokerVars, BrokerTypeOK
<1>3. calls' = [calls EXCEPT ![t] = <<>>] /\ pc' = [pc EXCEPT ![t] = "closing"]
  BY DEF End, Forget, GoTo
<1>4. <<>> \in Seq(Policy) /\ Len(<<>>) = 0
  OBVIOUS
<1>5. calls' \in [Turns -> Seq(Policy)]
  BY <1>3, <1>4 DEF TypeOK
<1>6. \A u \in Turns : Len(calls'[u]) <= MaxCalls
  BY <1>3, <1>4, TurnAssumption DEF TypeOK
<1> QED
  BY <1>1, <1>2, <1>3, <1>5, <1>6 DEF TypeOK, RestTyped

\* Nothing but a turn's own variables changes in most steps.
LEMMA RestKept ==
  ASSUME TypeOK, UNCHANGED <<outcome, cancelled, handler, running, brokerVars>>
  PROVE  RestTyped'
BY DEF TypeOK, RestTyped, brokerVars, BrokerTypeOK

\* A step of the loop of a turn keeps the types.
LEMMA LoopTyped ==
  ASSUME TypeOK, NEW t \in Turns, LoopStep(t)
  PROVE  TypeOK'
<1>p. {"loaded", "deciding", "redeciding", "reanswering", "calls", "speaking",
       "answering", "over"} \subseteq Pcs \ InCall
  BY DEF Pcs, Active, Undecided, Deciding, Answering, InCall
<1>1. CASE Load(t)
  BY <1>1, <1>p, MoveTyped, RestKept DEF Load, turnVars
<1>2. CASE SaveUser(t)
  BY <1>2, <1>p, MoveTyped, RestKept DEF SaveUser, turnVars
<1>3. CASE Reload(t)
  BY <1>3, <1>p, MoveTyped, RestKept DEF Reload, turnVars
<1>4. ASSUME NEW asked \in AskedFor(t), DecideCalls(t, asked)
      PROVE  TypeOK'
  <2>1. RestTyped'
    BY <1>4, RestKept DEF DecideCalls
  <2>2. asked \in Seq(Policy) /\ Len(asked) <= MaxCalls
    BY AskedTyped
  <2>3. round[t] + 1 \in 1..MaxToolIterations
    BY <1>4, TurnAssumption DEF DecideCalls, MoreRounds, TypeOK
  <2>4. round' = [round EXCEPT ![t] = @ + 1] /\ calls' = [calls EXCEPT ![t] = asked]
        /\ pc' = [pc EXCEPT ![t] = "calls"]
    BY <1>4 DEF DecideCalls, GoTo
  <2>5. round' \in [Turns -> 0..MaxToolIterations] /\ round'[t] > 0
        /\ \A u \in Turns \ {t} : round'[u] = round[u]
    BY <2>3, <2>4, TurnAssumption DEF TypeOK
  <2>6. calls' \in [Turns -> Seq(Policy)] /\ calls'[t] = asked
        /\ \A u \in Turns \ {t} : calls'[u] = calls[u]
    BY <2>2, <2>4 DEF TypeOK
  <2>7. pc' \in [Turns -> Pcs] /\ \A u \in Turns : pc'[u] \in InCall => u # t /\ pc[u] \in InCall
    BY <2>4, <1>p DEF TypeOK
  <2> QED
    BY <2>1, <2>2, <2>5, <2>6, <2>7 DEF TypeOK, RestTyped
<1>5. CASE DecideAnswer(t)
  BY <1>5, <1>p, MoveTyped, RestKept DEF DecideAnswer, turnVars
<1>6. CASE DecideNothing(t)
  BY <1>6, EndTyped DEF DecideNothing
<1>7. CASE StopCalls(t)
  BY <1>7, EndTyped DEF StopCalls
<1>8. CASE NextRound(t)
  BY <1>8, <1>p, MoveTyped, RestKept DEF NextRound, turnVars
<1>9. CASE Stream(t)
  BY <1>9, <1>p, MoveTyped, RestKept, EndTyped DEF Stream
<1>10. CASE Speak(t)
  BY <1>10, EndTyped DEF Speak
<1>11. CASE Close(t)
  <2>1. RestTyped'
    BY <1>11 DEF Close, TypeOK, RestTyped, turnVars, brokerVars, BrokerTypeOK
  <2> QED
    BY <1>11, <2>1, <1>p, MoveTyped DEF Close, turnVars
<1> QED
  BY <1>1, <1>2, <1>3, <1>4, <1>5, <1>6, <1>7, <1>8, <1>9, <1>10, <1>11 DEF LoopStep

\* So does a step of _execute_tool_call.
LEMMA CallTyped ==
  ASSUME TypeOK, NEW t \in Turns, CallStep(t)
  PROVE  TypeOK'
<1>p. InCall \subseteq Pcs
  BY DEF Pcs, Active, Undecided
<1>q. AtCall(t, {"refused"}) \/ AtCall(t, {"allowed", "skill"}) \/ AtCall(t, {"ask"})
        => calls[t] # <<>>
  BY DEF AtCall
<1>r. pc[t] \in InCall => calls[t] # <<>> /\ CallId(t) \in CallIds
  BY CallIdTyped DEF TypeOK
<1>1. CASE Refuse(t)
  BY <1>1, <1>q, RecordTyped, RestKept DEF Refuse
<1>2. CASE Allow(t)
  BY <1>2, <1>p, <1>q, MoveTyped, RestKept DEF Allow, turnVars, InCall
<1>3. CASE AskPermission(t)
  <2>1. calls[t] # <<>> /\ CallId(t) \in CallIds
    BY <1>3, <1>q, CallIdTyped DEF AskPermission
  <2>2. RestTyped'
    BY <1>3, <2>1 DEF AskPermission, Register, TypeOK, RestTyped, BrokerTypeOK, turnVars
  <2> QED
    BY <1>3, <2>1, <2>2, <1>p, MoveTyped DEF AskPermission, turnVars, InCall
<1>4. CASE Prompt(t)
  BY <1>4, <1>p, <1>r, MoveTyped, RestKept DEF Prompt, turnVars, InCall
<1>5. CASE Answered(t)
  BY <1>5, <1>p, <1>r, MoveTyped, RestKept DEF Answered, turnVars, InCall
<1>6. CASE WaitTimesOut(t)
  BY <1>6, <1>p, <1>r, MoveTyped, RestKept DEF WaitTimesOut, turnVars, InCall
<1>7. CASE LeaveWait(t)
  <2>1. calls[t] # <<>> /\ CallId(t) \in CallIds
    BY <1>7, <1>r DEF LeaveWait, InCall
  <2>2. RestTyped'
    BY <1>7, <2>1 DEF LeaveWait, Drop, TypeOK, RestTyped, BrokerTypeOK
  <2>3. \/ GoTo(t, "executing") /\ UNCHANGED calls
        \/ RecordResult(t, <<>>)
    BY <1>7 DEF LeaveWait
  <2>4. UNCHANGED round
    BY <1>7 DEF LeaveWait
  <2>5. CASE GoTo(t, "executing") /\ UNCHANGED calls
    BY <2>1, <2>2, <2>4, <2>5, <1>p, MoveTyped DEF InCall
  <2>6. CASE RecordResult(t, <<>>)
    BY <2>1, <2>2, <2>4, <2>6, RecordTyped
  <2> QED
    BY <2>3, <2>5, <2>6
<1>8. CASE Submit(t)
  <2>1. RestTyped'
    BY <1>8 DEF Submit, TypeOK, RestTyped, BrokerTypeOK, brokerVars
  <2> QED
    BY <1>8, <2>1, <1>p, <1>r, MoveTyped DEF Submit, InCall
<1>9. CASE SkipTool(t)
  BY <1>9, <1>r, RecordTyped, RestKept DEF SkipTool, InCall
<1>10. CASE ToolReturns(t)
  <2>1. RestTyped'
    BY <1>10 DEF ToolReturns, TypeOK, RestTyped, BrokerTypeOK, brokerVars
  <2> QED
    BY <1>10, <2>1, <1>r, RecordTyped DEF ToolReturns, InCall
<1>11. CASE ToolTimesOut(t)
  <2>1. RestTyped'
    BY <1>11 DEF ToolTimesOut, TypeOK, RestTyped, BrokerTypeOK, brokerVars
  <2> QED
    BY <1>11, <2>1, <1>r, RecordTyped DEF ToolTimesOut, InCall
<1> QED
  BY <1>1, <1>2, <1>3, <1>4, <1>5, <1>6, <1>7, <1>8, <1>9, <1>10, <1>11 DEF CallStep

\* And an abort.
LEMMA AbortTyped ==
  ASSUME TypeOK, NEW t \in Turns, Abort(t)
  PROVE  TypeOK'
<1>1. CASE End(t, "error")
  BY <1>1, EndTyped DEF Abort
<1>2. CASE /\ GoTo(t, "over")
           /\ outcome' = [outcome EXCEPT ![t] = "error"]
           /\ Forget(t)
  <2>1. "over" \in Pcs /\ "over" \notin InCall
    BY DEF Pcs, InCall
  <2>2. RestTyped'
    BY <1>2 DEF Abort, TypeOK, RestTyped, brokerVars, BrokerTypeOK
  <2>3. calls' = [calls EXCEPT ![t] = <<>>] /\ pc' = [pc EXCEPT ![t] = "over"]
    BY <1>2 DEF Forget, GoTo
  <2>4. <<>> \in Seq(Policy) /\ Len(<<>>) = 0
    OBVIOUS
  <2>5. calls' \in [Turns -> Seq(Policy)]
    BY <2>3, <2>4 DEF TypeOK
  <2>6. \A u \in Turns : Len(calls'[u]) <= MaxCalls
    BY <2>3, <2>4, TurnAssumption DEF TypeOK
  <2>7. round' = round
    BY DEF Abort
  <2> QED
    BY <2>1, <2>2, <2>3, <2>5, <2>6, <2>7 DEF TypeOK, RestTyped
<1> QED
  BY <1>1, <1>2 DEF Abort

\* Every step keeps the types.
LEMMA TypeStep == TypeOK /\ [Next]_vars => TypeOK'
<1> SUFFICES ASSUME TypeOK, [Next]_vars PROVE TypeOK'
  OBVIOUS
<1>1. ASSUME NEW t \in Turns, Begin(t) PROVE TypeOK'
  <2>1. RestTyped'
    BY <1>1, TurnAssumption DEF Begin, TypeOK, RestTyped, turnVars, brokerVars, BrokerTypeOK
  <2>2. "announced" \in Pcs \ InCall
    BY DEF Pcs, Active, Undecided, InCall
  <2> QED
    BY <1>1, <2>1, <2>2, MoveTyped DEF Begin, turnVars
<1>2. ASSUME NEW t \in Turns, HandlerStarts(t) \/ HandlerEnds(t) PROVE TypeOK'
  BY <1>2 DEF HandlerStarts, HandlerEnds, TypeOK, brokerVars, BrokerTypeOK
<1>3. ASSUME NEW s \in Sessions, NEW id \in Turns \union {None}, Cancel(s, id) PROVE TypeOK'
  BY <1>3 DEF Cancel, TypeOK, brokerVars, BrokerTypeOK
<1>4. ASSUME NEW id \in CallIds, NEW a \in Answers, Answer(id, a) PROVE TypeOK'
  BY <1>4 DEF Answer, Resolve, TypeOK, turnVars, BrokerTypeOK
<1>5. CASE UNCHANGED vars
  BY <1>5 DEF vars, turnVars, brokerVars, TypeOK, BrokerTypeOK
<1> QED
  BY <1>1, <1>2, <1>3, <1>4, <1>5, LoopTyped, CallTyped, AbortTyped DEF Next

\* TypeOK is an invariant: no round goes over agent_max_tool_iterations, no
\* call is executed that is not one of the decision's.
THEOREM TypeCorrect == Spec => []TypeOK
<1>1. Init => TypeOK
  BY TypeInit
<1>2. TypeOK /\ [Next]_vars => TypeOK'
  BY TypeStep
<1> QED
  BY <1>1, <1>2, PTL DEF Spec

----------------------------------------------------------------------------
(* The running turn of a session.                                          *)

\* The end of a turn clears no entry but its own, whichever turns began after
\* it in the session: OnlyOwnEntryCleared holds of every step.
THEOREM OwnEntryOnly == Spec => OnlyOwnEntryCleared
<1> DEFINE Cleared == \A s \in Sessions :
             running[s] # None /\ running'[s] = None => pc'[running[s]] = "over"
<1>1. TypeOK /\ [Next]_vars => Cleared
  <2> SUFFICES ASSUME TypeOK, [Next]_vars, NEW s \in Sessions,
                      running[s] # None, running'[s] = None
               PROVE  pc'[running[s]] = "over"
    OBVIOUS
  <2>1. ASSUME NEW t \in Turns, Begin(t) PROVE FALSE
    BY <2>1, TurnAssumption DEF Begin, TypeOK
  <2>2. ASSUME NEW t \in Turns, Close(t) PROVE pc'[running[s]] = "over"
    BY <2>2, TurnAssumption DEF Close, GoTo, TypeOK
  <2>3. ASSUME NEW t \in Turns, LoopStep(t), ~Close(t) PROVE running' = running
    BY <2>3 DEF LoopStep, Load, SaveUser, Reload, DecideCalls, DecideAnswer,
                DecideNothing, StopCalls, NextRound, Stream, Speak
  <2>4. ASSUME NEW t \in Turns, CallStep(t) PROVE running' = running
    BY <2>4 DEF CallStep, Refuse, Allow, AskPermission, Prompt, Answered, WaitTimesOut,
                LeaveWait, Submit, SkipTool, ToolReturns, ToolTimesOut
  <2>5. ASSUME NEW t \in Turns, Abort(t) \/ HandlerStarts(t) \/ HandlerEnds(t)
        PROVE  running' = running
    BY <2>5 DEF Abort, HandlerStarts, HandlerEnds
  <2>6. ASSUME NEW q \in Sessions, NEW id \in Turns \union {None}, Cancel(q, id)
        PROVE  running' = running
    BY <2>6 DEF Cancel
  <2>7. ASSUME NEW id \in CallIds, NEW a \in Answers, Answer(id, a)
        PROVE  running' = running
    BY <2>7 DEF Answer
  <2>8. CASE UNCHANGED vars
    BY <2>8 DEF vars
  <2> QED
    BY <2>1, <2>2, <2>3, <2>4, <2>5, <2>6, <2>7, <2>8 DEF Next
<1>2. [Cleared]_vars <=> [\A s \in Sessions :
             running[s] # None /\ running'[s] = None => pc'[running[s]] = "over"]_vars
  OBVIOUS
<1> QED
  BY <1>1, <1>2, TypeCorrect, PTL DEF Spec, OnlyOwnEntryCleared

----------------------------------------------------------------------------
(* Tool handlers.                                                          *)

\* A handler that has not started is waited for; one that runs is waited for
\* or its turn is cancelled.
HandlerInv ==
  \A t \in Turns :
    /\ handler[t] = "submitted" => pc[t] = "awaiting"
    /\ handler[t] = "running" => pc[t] = "awaiting" \/ cancelled[t]

\* What a step of one turn leaves alone.
Untouched(t) ==
  \A u \in Turns \ {t} : /\ pc'[u] = pc[u]
                        /\ round'[u] = round[u]
                        /\ calls'[u] = calls[u]
                        /\ cancelled'[u] = cancelled[u]
                        /\ handler'[u] = handler[u]

\* A turn's loop touches no other turn, no handler and no cancel_event, and
\* does not get to a call that may be executed.
LEMMA LoopFrame ==
  ASSUME TypeOK, NEW t \in Turns, LoopStep(t) \/ Abort(t) \/ Begin(t)
  PROVE  /\ Untouched(t)
         /\ UNCHANGED <<cancelled, handler, brokerVars>>
         /\ pc[t] \notin {"waiting", "granted", "executing", "awaiting"}
         /\ pc'[t] \notin {"granted", "executing", "awaiting"}
         /\ pc'[t] = "deciding" => pc[t] = "loaded" \/ ~cancelled[t]
<1>1. CASE Begin(t)
  BY <1>1 DEF Begin, GoTo, Untouched, TypeOK, turnVars
<1>2. CASE Abort(t)
  BY <1>2 DEF Abort, End, Forget, GoTo, Untouched, TypeOK, Deciding, Answering
<1>3. CASE Load(t) \/ SaveUser(t) \/ Reload(t)
  BY <1>3 DEF Load, SaveUser, Reload, GoTo, Untouched, TypeOK, turnVars
<1>4. ASSUME NEW asked \in AskedFor(t), DecideCalls(t, asked)
      PROVE  /\ Untouched(t)
             /\ UNCHANGED <<cancelled, handler, brokerVars>>
             /\ pc[t] \in Deciding
             /\ pc'[t] = "calls"
  BY <1>4 DEF DecideCalls, GoTo, Untouched, TypeOK
<1>5. CASE DecideAnswer(t) \/ NextRound(t)
  BY <1>5 DEF DecideAnswer, NextRound, GoTo, Untouched, TypeOK, turnVars, Deciding
<1>6. CASE DecideNothing(t) \/ StopCalls(t) \/ Stream(t) \/ Speak(t)
  BY <1>6 DEF DecideNothing, StopCalls, Stream, Speak, End, Forget, GoTo, Untouched, TypeOK,
              Deciding, Answering
<1>7. CASE Close(t)
  BY <1>7 DEF Close, GoTo, Untouched, TypeOK, turnVars
<1> QED
  BY <1>1, <1>2, <1>3, <1>4, <1>5, <1>6, <1>7 DEF LoopStep, Deciding

\* A step of _execute_tool_call touches no other turn.
LEMMA CallFrame ==
  ASSUME TypeOK, NEW t \in Turns, CallStep(t)
  PROVE  Untouched(t) /\ pc'[t] # "deciding"
<1>1. CASE Refuse(t) \/ SkipTool(t)
  BY <1>1 DEF Refuse, SkipTool, RecordResult, GoTo, Untouched, TypeOK
<1>2. CASE Allow(t) \/ AskPermission(t) \/ Prompt(t) \/ Answered(t) \/ WaitTimesOut(t)
  BY <1>2 DEF Allow, AskPermission, Prompt, Answered, WaitTimesOut, GoTo, Untouched, TypeOK,
              turnVars
<1>3. CASE LeaveWait(t)
  BY <1>3 DEF LeaveWait, RecordResult, GoTo, Untouched, TypeOK
<1>4. CASE Submit(t)
  BY <1>4 DEF Submit, GoTo, Untouched, TypeOK
<1>5. CASE ToolReturns(t) \/ ToolTimesOut(t)
  BY <1>5 DEF ToolReturns, ToolTimesOut, RecordResult, GoTo, Untouched, TypeOK
<1> QED
  BY <1>1, <1>2, <1>3, <1>4, <1>5 DEF CallStep

\* Every step keeps HandlerInv.
LEMMA HandlerStep == TypeOK /\ HandlerInv /\ [Next]_vars => HandlerInv'
<1> SUFFICES ASSUME TypeOK, HandlerInv, [Next]_vars PROVE HandlerInv'
  OBVIOUS
<1>1. ASSUME NEW t \in Turns, LoopStep(t) \/ Abort(t) \/ Begin(t) PROVE HandlerInv'
  BY <1>1, LoopFrame DEF HandlerInv, Untouched
<1>2. ASSUME NEW t \in Turns, CallStep(t) PROVE HandlerInv'
  <2> SUFFICES /\ handler'[t] = "submitted" => pc'[t] = "awaiting"
               /\ handler'[t] = "running" => pc'[t] = "awaiting" \/ cancelled'[t]
    BY <1>2, CallFrame DEF HandlerInv, Untouched
  <2>1. CASE Refuse(t) \/ SkipTool(t)
    BY <2>1 DEF Refuse, SkipTool, AtCall, HandlerInv
  <2>2. CASE Allow(t) \/ AskPermission(t) \/ Prompt(t) \/ Answered(t) \/ WaitTimesOut(t)
    BY <2>2 DEF Allow, AskPermission, Prompt, Answered, WaitTimesOut, AtCall, turnVars, HandlerInv
  <2>3. CASE LeaveWait(t)
    BY <2>3 DEF LeaveWait, HandlerInv
  <2>4. CASE Submit(t)
    BY <2>4 DEF Submit, GoTo, TypeOK
  <2>5. CASE ToolReturns(t)
    BY <2>5 DEF ToolReturns, TypeOK
  <2>6. CASE ToolTimesOut(t)
    BY <2>6 DEF ToolTimesOut, TypeOK
  <2> QED
    BY <1>2, <2>1, <2>2, <2>3, <2>4, <2>5, <2>6 DEF CallStep
<1>3. ASSUME NEW t \in Turns, HandlerStarts(t) \/ HandlerEnds(t) PROVE HandlerInv'
  BY <1>3 DEF HandlerStarts, HandlerEnds, HandlerInv, TypeOK
<1>4. ASSUME NEW s \in Sessions, NEW id \in Turns \union {None}, Cancel(s, id) PROVE HandlerInv'
  BY <1>4 DEF Cancel, HandlerInv, TypeOK
<1>5. ASSUME NEW id \in CallIds, NEW a \in Answers, Answer(id, a) PROVE HandlerInv'
  BY <1>5 DEF Answer, HandlerInv, turnVars
<1>6. CASE UNCHANGED vars
  BY <1>6 DEF vars, turnVars, HandlerInv
<1> QED
  BY <1>1, <1>2, <1>3, <1>4, <1>5, <1>6 DEF Next

\* NoToolBesideTurn is an invariant: only a cancelled turn goes on beside one
\* of its tools.
THEOREM ToolsWaitedFor == Spec => []NoToolBesideTurn
<1>1. Init => HandlerInv
  BY DEF Init, HandlerInv
<1>2. TypeOK /\ HandlerInv /\ [Next]_vars => HandlerInv'
  BY HandlerStep
<1>3. HandlerInv => NoToolBesideTurn
  BY DEF HandlerInv, NoToolBesideTurn
<1> QED
  BY <1>1, <1>2, <1>3, TypeCorrect, PTL DEF Spec

\* CancelStopsWork: after the cancellation of a turn none of its handlers
\* starts and it makes no further decision.
THEOREM CancelledWorkStops == Spec => CancelStopsWork
<1> DEFINE Stops == \A t \in Turns :
             cancelled[t] =>
               /\ handler'[t] = "running" => handler[t] = "running"
               /\ pc'[t] = "deciding" => pc[t] \in {"loaded", "deciding"}
<1>1. TypeOK /\ [Next]_vars => Stops
  <2> SUFFICES ASSUME TypeOK, [Next]_vars, NEW u \in Turns, cancelled[u]
               PROVE  /\ handler'[u] = "running" => handler[u] = "running"
                      /\ pc'[u] = "deciding" => pc[u] \in {"loaded", "deciding"}
    OBVIOUS
  <2>1. ASSUME NEW t \in Turns, LoopStep(t) \/ Abort(t) \/ Begin(t)
        PROVE  /\ handler'[u] = "running" => handler[u] = "running"
               /\ pc'[u] = "deciding" => pc[u] \in {"loaded", "deciding"}
    BY <2>1, LoopFrame DEF Untouched
  <2>2. ASSUME NEW t \in Turns, CallStep(t)
        PROVE  /\ handler'[u] = "running" => handler[u] = "running"
               /\ pc'[u] = "deciding" => pc[u] \in {"loaded", "deciding"}
    <3>1. t = u /\ handler'[u] = "running" => handler[u] = "running"
      BY <2>2 DEF CallStep, Refuse, Allow, AskPermission, Prompt, Answered, WaitTimesOut,
                  LeaveWait, Submit, SkipTool, ToolReturns, ToolTimesOut, turnVars, TypeOK
    <3> QED
      BY <2>2, <3>1, CallFrame DEF Untouched
  <2>3. ASSUME NEW t \in Turns, HandlerStarts(t) \/ HandlerEnds(t)
        PROVE  /\ handler'[u] = "running" => handler[u] = "running"
               /\ pc'[u] = pc[u]
    BY <2>3 DEF HandlerStarts, HandlerEnds, TypeOK
  <2>4. ASSUME NEW s \in Sessions, NEW id \in Turns \union {None}, Cancel(s, id)
        PROVE  UNCHANGED <<pc, handler>>
    BY <2>4 DEF Cancel
  <2>5. ASSUME NEW id \in CallIds, NEW a \in Answers, Answer(id, a)
        PROVE  UNCHANGED <<pc, handler>>
    BY <2>5 DEF Answer, turnVars
  <2>6. CASE UNCHANGED vars
    BY <2>6 DEF vars, turnVars
  <2> QED
    BY <2>1, <2>2, <2>3, <2>4, <2>5, <2>6 DEF Next
<1> QED
  BY <1>1, TypeCorrect, PTL DEF Spec, CancelStopsWork

----------------------------------------------------------------------------
(* Approvals.                                                              *)

\* A turn that goes on with a call has the approval of this call on record;
\* whoever waits finds "yes" only in an entry whose approval was accepted.
ApprovedInv ==
  /\ \A r \in CallIds : pending[r] = "yes" => r \in said
  /\ \A t \in Turns : pc[t] = "granted" => CallId(t) \in said
  /\ RunsOnlyApproved

\* Every step keeps ApprovedInv.
LEMMA ApprovedStep == TypeOK /\ ApprovedInv /\ [Next]_vars => ApprovedInv'
<1> SUFFICES ASSUME TypeOK, ApprovedInv, [Next]_vars PROVE ApprovedInv'
  OBVIOUS
<1>1. ASSUME NEW t \in Turns, LoopStep(t) \/ Abort(t) \/ Begin(t) PROVE ApprovedInv'
  BY <1>1, LoopFrame DEF ApprovedInv, RunsOnlyApproved, Untouched, CallId, brokerVars
<1>2. ASSUME NEW t \in Turns, CallStep(t) PROVE ApprovedInv'
  <2>1. /\ said' = said
        /\ \A r \in CallIds : pending'[r] = "yes" => pending[r] = "yes"
    <3>1. CASE AskPermission(t)
      BY <3>1 DEF AskPermission, Register, TypeOK, BrokerTypeOK
    <3>2. CASE LeaveWait(t)
      BY <3>2 DEF LeaveWait, Drop, TypeOK, BrokerTypeOK
    <3> QED
      BY <1>2, <3>1, <3>2 DEF CallStep, Refuse, Allow, Prompt, Answered, WaitTimesOut, Submit,
                  SkipTool, ToolReturns, ToolTimesOut, brokerVars
  <2> SUFFICES
        /\ pc'[t] \in {"granted", "executing", "awaiting"}
        /\ pc'[t] = "granted" \/ Head(calls'[t]) = "ask"
        => CallId(t)' \in said
    BY <1>2, <2>1, CallFrame DEF ApprovedInv, RunsOnlyApproved, Untouched, CallId
  <2>2. CASE Refuse(t) \/ SkipTool(t) \/ ToolReturns(t) \/ ToolTimesOut(t)
    <3>1. pc'[t] = "calls"
      BY <2>2 DEF Refuse, SkipTool, ToolReturns, ToolTimesOut, RecordResult, GoTo, TypeOK
    <3> QED
      BY <3>1
  <2>3. CASE Allow(t)
    <3>1. pc'[t] = "executing" /\ Head(calls'[t]) # "ask"
      BY <2>3 DEF Allow, AtCall, GoTo, turnVars, TypeOK
    <3> QED
      BY <3>1
  <2>4. CASE AskPermission(t) \/ Prompt(t) \/ WaitTimesOut(t)
    <3>1. pc'[t] \in {"prompting", "waiting", "refused"}
      BY <2>4 DEF AskPermission, Prompt, WaitTimesOut, GoTo, TypeOK
    <3> QED
      BY <3>1
  <2>5. CASE Answered(t)
    <3>1. CallId(t)' = CallId(t)
      BY <2>5 DEF Answered, turnVars, CallId
    <3>2. pc'[t] = "refused" \/ pending[CallId(t)] = "yes"
      BY <2>5 DEF Answered, GoTo, TypeOK
    <3>3. CallId(t) \in CallIds
      BY <2>5, CallIdTyped DEF Answered, TypeOK, InCall
    <3> QED
      BY <3>1, <3>2, <3>3 DEF ApprovedInv
  <2>6. CASE LeaveWait(t)
    <3>1. \/ pc'[t] = "calls"
          \/ pc[t] = "granted" /\ UNCHANGED <<round, calls>>
      BY <2>6 DEF LeaveWait, RecordResult, GoTo, TypeOK
    <3> QED
      BY <3>1 DEF ApprovedInv, CallId
  <2>7. CASE Submit(t)
    <3>1. pc[t] = "executing" /\ pc'[t] = "awaiting" /\ UNCHANGED <<round, calls>>
      BY <2>7 DEF Submit, GoTo, TypeOK
    <3> QED
      BY <3>1 DEF ApprovedInv, RunsOnlyApproved, CallId
  <2> QED
    BY <1>2, <2>2, <2>3, <2>4, <2>5, <2>6, <2>7 DEF CallStep
<1>3. ASSUME NEW t \in Turns, HandlerStarts(t) \/ HandlerEnds(t) PROVE ApprovedInv'
  BY <1>3 DEF HandlerStarts, HandlerEnds, ApprovedInv, RunsOnlyApproved, CallId, brokerVars
<1>4. ASSUME NEW s \in Sessions, NEW id \in Turns \union {None}, Cancel(s, id) PROVE ApprovedInv'
  BY <1>4 DEF Cancel, ApprovedInv, RunsOnlyApproved, CallId, brokerVars
<1>5. ASSUME NEW id \in CallIds, NEW a \in Answers, Answer(id, a) PROVE ApprovedInv'
  <2>1. said \subseteq said' /\ \A r \in CallIds : pending'[r] = "yes" => r \in said'
    BY <1>5 DEF Answer, Resolve, ApprovedInv, TypeOK, BrokerTypeOK
  <2>2. UNCHANGED <<pc, round, calls>>
    BY <1>5 DEF Answer, turnVars
  <2> QED
    BY <2>1, <2>2 DEF ApprovedInv, RunsOnlyApproved, CallId
<1>6. CASE UNCHANGED vars
  BY <1>6 DEF vars, turnVars, brokerVars, ApprovedInv, RunsOnlyApproved, CallId
<1> QED
  BY <1>1, <1>2, <1>3, <1>4, <1>5, <1>6 DEF Next

\* RunsOnlyApproved is an invariant: whatever times out, is answered late or
\* twice, a tool that has to be asked for runs only after its own approval.
THEOREM OnlyApprovedRun == Spec => []RunsOnlyApproved
<1>1. Init => ApprovedInv
  BY DEF Init, BrokerInit, ApprovedInv, RunsOnlyApproved
<1>2. TypeOK /\ ApprovedInv /\ [Next]_vars => ApprovedInv'
  BY ApprovedStep
<1>3. ApprovedInv => RunsOnlyApproved
  BY DEF ApprovedInv
<1> QED
  BY <1>1, <1>2, <1>3, TypeCorrect, PTL DEF Spec

----------------------------------------------------------------------------
(* The messages of a conversation.                                         *)

\* Induction on the natural numbers, over a set: a smallest n outside of it
\* would make 1 .. n a smallest set of a family of finite sets.
LEMMA Induction ==
  ASSUME NEW T, 0 \in T, \A n \in T \intersect Nat : n + 1 \in T
  PROVE  Nat \subseteq T
<1> SUFFICES ASSUME Nat \ T # {} PROVE FALSE
  OBVIOUS
<1> DEFINE B == {1 .. n : n \in Nat \ T}
<1>1. B \subseteq FiniteSubsetsOf(Nat) /\ B # {}
  <2>1. \A n \in Nat : 1 .. n \in FiniteSubsetsOf(Nat)
    BY FS_Interval DEF FiniteSubsetsOf
  <2> QED BY <2>1
<1>2. PICK b \in B : \A c \in B : <<c, b>> \notin StrictSubsetOrdering(Nat)
  <2> HIDE DEF B
  <2> QED BY <1>1, FS_StrictSubsetOrderingWellFounded, WFMin
<1>3. PICK n \in Nat \ T : b = 1 .. n
  OBVIOUS
<1>4. n # 0 /\ n - 1 \in Nat
  BY <1>3
<1>5. n - 1 \in T
  <2> SUFFICES ASSUME n - 1 \notin T PROVE FALSE
    OBVIOUS
  <2>1. 1 .. (n - 1) \in B
    BY <1>4
  <2>2. 1 .. (n - 1) \subseteq 1 .. n /\ n \in 1 .. n /\ n \notin 1 .. (n - 1)
    BY <1>3, <1>4
  <2>3. <<1 .. (n - 1), b>> \in StrictSubsetOrdering(Nat)
    BY <1>3, <1>4, <2>2 DEF StrictSubsetOrdering
  <2> QED BY <1>2, <2>1, <2>3
<1>6. (n - 1) + 1 \in T BY <1>4, <1>5
<1> QED BY <1>3, <1>6

\* g joins the pieces of p one after the other, up to the n-th.
Joins(g, p, n) == g = [k \in 0 .. n |-> IF k = 0 THEN <<>> ELSE g[k - 1] \o p[k]]

\* There is such a function, as the recursion of Sanitize needs.
LEMMA JoinsExist ==
  ASSUME NEW p, NEW n \in Nat
  PROVE  \E g : Joins(g, p, n)
<1> DEFINE T == {m \in Nat : \E g : Joins(g, p, m)}
<1>1. 0 \in T
  <2> DEFINE g == [k \in 0 .. 0 |-> <<>>]
  <2>1. \A k \in 0 .. 0 : k = 0 OBVIOUS
  <2>2. g = [k \in 0 .. 0 |-> IF k = 0 THEN <<>> ELSE g[k - 1] \o p[k]] BY <2>1
  <2>3. Joins(g, p, 0) BY <2>2 DEF Joins
  <2> HIDE DEF g
  <2> QED BY <2>3
<1>2. ASSUME NEW m \in T \intersect Nat PROVE m + 1 \in T
  <2>1. PICK h : Joins(h, p, m) OBVIOUS
  <2> DEFINE g == [k \in 0 .. m + 1 |-> IF k = m + 1 THEN h[m] \o p[k] ELSE h[k]]
  <2>2. \A k \in 0 .. m + 1 : g[k] = IF k = 0 THEN <<>> ELSE g[k - 1] \o p[k]
    <3> SUFFICES ASSUME NEW k \in 0 .. m + 1
                 PROVE  g[k] = IF k = 0 THEN <<>> ELSE g[k - 1] \o p[k]
      OBVIOUS
    <3>1. CASE k = m + 1
      <4>1. k # 0 /\ k - 1 = m /\ k - 1 # m + 1 /\ m \in 0 .. m + 1 BY <3>1
      <4> QED BY <3>1, <4>1
    <3>2. CASE k # m + 1
      <4>1. k \in 0 .. m /\ (k # 0 => k - 1 \in 0 .. m + 1 /\ k - 1 # m + 1) BY <3>2
      <4>2. g[k] = h[k] BY <3>2
      <4>3. h[k] = IF k = 0 THEN <<>> ELSE h[k - 1] \o p[k] BY <2>1, <4>1 DEF Joins
      <4> QED BY <4>1, <4>2, <4>3
    <3> QED BY <3>1, <3>2
  <2>3. g = [k \in 0 .. m + 1 |-> g[k]] OBVIOUS
  <2> HIDE DEF g
  <2>4. g = [k \in 0 .. m + 1 |-> IF k = 0 THEN <<>> ELSE g[k - 1] \o p[k]]
    BY <2>2, <2>3
  <2>5. Joins(g, p, m + 1) BY <2>4 DEF Joins
  <2>6. m + 1 \in Nat OBVIOUS
  <2> QED BY <2>5, <2>6
<1> HIDE DEF T
<1>3. Nat \subseteq T
  BY <1>1, <1>2, Induction
<1> QED BY <1>3 DEF T

\* And what it is, step by step.
LEMMA JoinsSteps ==
  ASSUME NEW p, NEW n \in Nat, NEW g, Joins(g, p, n)
  PROVE  /\ g[0] = <<>>
         /\ \A k \in 1 .. n : g[k] = g[k - 1] \o p[k]
<1>1. \A k \in 0 .. n : g[k] = IF k = 0 THEN <<>> ELSE g[k - 1] \o p[k] BY DEF Joins
<1>2. 0 \in 0 .. n /\ \A k \in 1 .. n : k \in 0 .. n /\ k # 0 OBVIOUS
<1> QED BY <1>1, <1>2

\* Sanitize goes from message to message and joins what becomes of each.
LEMMA SanitizeSteps ==
  ASSUME NEW m, Len(m) \in Nat
  PROVE  \E g : /\ g[0] = <<>>
                /\ \A k \in 1 .. Len(m) : g[k] = g[k - 1] \o Piece(m, m[k])
                /\ Sanitize(m) = g[Len(m)]
<1> DEFINE p == [k \in 1 .. Len(m) |-> Piece(m, m[k])]
           s[k \in 0 .. Len(m)] == IF k = 0 THEN <<>> ELSE s[k - 1] \o Piece(m, m[k])
<1>1. PICK g : Joins(g, p, Len(m))
  <2> HIDE DEF p
  <2> QED BY JoinsExist
<1>2. ASSUME NEW h
      PROVE  [k \in 0 .. Len(m) |-> IF k = 0 THEN <<>> ELSE h[k - 1] \o Piece(m, m[k])]
               = [k \in 0 .. Len(m) |-> IF k = 0 THEN <<>> ELSE h[k - 1] \o p[k]]
  <2>1. ASSUME NEW k \in 0 .. Len(m), k # 0 PROVE p[k] = Piece(m, m[k])
    BY <2>1
  <2> HIDE DEF p
  <2> QED BY <2>1
<1>3. Joins(s, p, Len(m))
  <2> HIDE DEF p
  <2>1. g = [k \in 0 .. Len(m) |-> IF k = 0 THEN <<>> ELSE g[k - 1] \o Piece(m, m[k])]
    BY <1>1, <1>2 DEF Joins
  <2> DEFINE Is(h) ==
        h = [k \in 0 .. Len(m) |-> IF k = 0 THEN <<>> ELSE h[k - 1] \o Piece(m, m[k])]
  <2>3. Is(g)
    BY <2>1
  <2>4. s = CHOOSE h : Is(h)
    OBVIOUS
  <2>2. Is(s)
    <3> HIDE DEF s, Is
    <3> QED BY <2>3, <2>4
  <2> HIDE DEF s
  <2> QED BY <1>2, <2>2 DEF Joins
<1>4. Sanitize(m) = s[Len(m)]
  BY DEF Sanitize
<1>5. \A k \in 1 .. Len(m) : p[k] = Piece(m, m[k])
  OBVIOUS
<1> HIDE DEF s, p
<1>6. s[0] = <<>> /\ \A k \in 1 .. Len(m) : s[k] = s[k - 1] \o p[k]
  BY <1>3, JoinsSteps
<1> QED BY <1>4, <1>5, <1>6

\* The ids a message may carry.
Carried == {ids \in SUBSET CallIds : IsFiniteSet(ids)}

\* The messages a transcript consists of: a tool message answers one call.
Message ==
  {x \in [role : {"user", "assistant", "tool", "system"}, turn : Turns, ids : Carried] :
     x.role = "tool" => \E id \in CallIds : x.ids = {id}}

\* No id is in two messages of this role.
Separate(m, role) ==
  \A j, k \in DOMAIN m :
    m[j].role = role /\ m[k].role = role /\ m[j].ids \intersect m[k].ids # {} => j = k

\* A transcript in which no call is made twice and no call answered twice.
WellFormed(m) == m \in Seq(Message) /\ Separate(m, "assistant") /\ Separate(m, "tool")

\* What it is to be among the calls, or the results, of a transcript.
LEMMA InCalls ==
  ASSUME NEW m, NEW id
  PROVE  /\ id \in CallsIn(m) <=> \E k \in DOMAIN m : m[k].role = "assistant" /\ id \in m[k].ids
         /\ id \in ResultsIn(m) <=> \E k \in DOMAIN m : m[k].role = "tool" /\ id \in m[k].ids
BY DEF CallsIn, ResultsIn

\* The fields of a message.
LEMMA MessageFits ==
  ASSUME NEW x \in Message
  PROVE  /\ x.role \in {"user", "assistant", "tool", "system"}
         /\ x.turn \in Turns
         /\ x.ids \subseteq CallIds
         /\ IsFiniteSet(x.ids)
         /\ x.role = "tool" => \E id \in CallIds : x.ids = {id}
BY DEF Message, Carried

\* The ids of a transcript are call ids.
LEMMA MessagesFit ==
  ASSUME NEW m \in Seq(Message)
  PROVE  /\ CallsIn(m) \subseteq CallIds
         /\ ResultsIn(m) \subseteq CallIds
<1>1. \A k \in DOMAIN m : m[k] \in Message
  BY ElementOfSeq, LenProperties
<1>2. \A k \in DOMAIN m : m[k].ids \subseteq CallIds
  BY <1>1, MessageFits
<1> QED BY <1>2, InCalls

\* The messages the code makes are such messages.
LEMMA MadeMessages ==
  ASSUME NEW t \in Turns
  PROVE  /\ User(t) \in Message /\ User(t).role = "user"
         /\ System(t) \in Message /\ System(t).role = "system"
         /\ \A id \in CallIds : /\ ToolResult(t, id) \in Message
                                /\ ToolResult(t, id).role = "tool"
                                /\ ToolResult(t, id).ids = {id}
         /\ \A ids \in Carried : /\ Assistant(t, ids) \in Message
                                 /\ Assistant(t, ids).role = "assistant"
                                 /\ Assistant(t, ids).ids = ids
         /\ {} \in Carried
<1>1. {} \in Carried /\ \A id \in CallIds : {id} \in Carried
  BY FS_EmptySet, FS_Singleton DEF Carried
<1> QED
  BY <1>1 DEF User, System, ToolResult, Assistant, Message

\* Two well-formed transcripts that share no call and no result are one.
LEMMA JoinedFit ==
  ASSUME NEW a, NEW b, WellFormed(a), WellFormed(b),
         CallsIn(a) \intersect CallsIn(b) = {}, ResultsIn(a) \intersect ResultsIn(b) = {}
  PROVE  /\ WellFormed(a \o b)
         /\ CallsIn(a \o b) = CallsIn(a) \union CallsIn(b)
         /\ ResultsIn(a \o b) = ResultsIn(a) \union ResultsIn(b)
<1> DEFINE c == a \o b
<1>1. /\ a \in Seq(Message) /\ Len(a) \in Nat /\ DOMAIN a = 1 .. Len(a)
      /\ b \in Seq(Message) /\ Len(b) \in Nat /\ DOMAIN b = 1 .. Len(b)
  BY LenProperties DEF WellFormed
<1>2. /\ c \in Seq(Message) /\ DOMAIN c = 1 .. Len(a) + Len(b)
      /\ \A k \in 1 .. Len(a) : c[k] = a[k]
      /\ \A k \in 1 .. Len(b) : c[Len(a) + k] = b[k]
  BY <1>1
<1>3. \A k \in DOMAIN c : \/ k \in DOMAIN a /\ c[k] = a[k]
                          \/ k - Len(a) \in DOMAIN b /\ c[k] = b[k - Len(a)]
  <2> SUFFICES ASSUME NEW k \in DOMAIN c, k \notin DOMAIN a
               PROVE  k - Len(a) \in DOMAIN b /\ c[k] = b[k - Len(a)]
    BY <1>1, <1>2
  <2>1. k - Len(a) \in DOMAIN b /\ Len(a) + (k - Len(a)) = k
    BY <1>1, <1>2
  <2> QED BY <1>1, <1>2, <2>1
<1>4. \A k \in DOMAIN a : k \in DOMAIN c /\ c[k] = a[k]
  BY <1>1, <1>2
<1>5. \A k \in DOMAIN b : Len(a) + k \in DOMAIN c /\ c[Len(a) + k] = b[k]
  BY <1>1, <1>2
<1> HIDE DEF c
<1>6. CallsIn(c) = CallsIn(a) \union CallsIn(b)
  BY <1>3, <1>4, <1>5, InCalls
<1>7. ResultsIn(c) = ResultsIn(a) \union ResultsIn(b)
  BY <1>3, <1>4, <1>5, InCalls
<1>8. Separate(c, "assistant")
  <2> SUFFICES ASSUME NEW j \in DOMAIN c, NEW k \in DOMAIN c, NEW id,
                      c[j].role = "assistant", c[k].role = "assistant",
                      id \in c[j].ids, id \in c[k].ids
               PROVE  j = k
    BY DEF Separate
  <2>1. CASE j \in DOMAIN a /\ c[j] = a[j] /\ k \in DOMAIN a /\ c[k] = a[k]
    BY <2>1 DEF WellFormed, Separate
  <2>2. CASE /\ j - Len(a) \in DOMAIN b /\ c[j] = b[j - Len(a)]
             /\ k - Len(a) \in DOMAIN b /\ c[k] = b[k - Len(a)]
    <3>1. j - Len(a) = k - Len(a)
      BY <2>2 DEF WellFormed, Separate
    <3> QED BY <3>1, <1>1, <1>2
  <2>3. (id \notin CallsIn(a)) \/ (id \notin CallsIn(b))
    OBVIOUS
  <2> QED BY <1>3, <2>1, <2>2, <2>3, InCalls
<1>9. Separate(c, "tool")
  <2> SUFFICES ASSUME NEW j \in DOMAIN c, NEW k \in DOMAIN c, NEW id,
                      c[j].role = "tool", c[k].role = "tool",
                      id \in c[j].ids, id \in c[k].ids
               PROVE  j = k
    BY DEF Separate
  <2>1. CASE j \in DOMAIN a /\ c[j] = a[j] /\ k \in DOMAIN a /\ c[k] = a[k]
    BY <2>1 DEF WellFormed, Separate
  <2>2. CASE /\ j - Len(a) \in DOMAIN b /\ c[j] = b[j - Len(a)]
             /\ k - Len(a) \in DOMAIN b /\ c[k] = b[k - Len(a)]
    <3>1. j - Len(a) = k - Len(a)
      BY <2>2 DEF WellFormed, Separate
    <3> QED BY <3>1, <1>1, <1>2
  <2>3. (id \notin ResultsIn(a)) \/ (id \notin ResultsIn(b))
    OBVIOUS
  <2> QED BY <1>3, <2>1, <2>2, <2>3, InCalls
<1> QED BY <1>2, <1>6, <1>7, <1>8, <1>9 DEF WellFormed, c

\* A single message is well formed.
LEMMA OneFits ==
  ASSUME NEW x \in Message
  PROVE  /\ WellFormed(<<x>>)
         /\ x.role # "assistant" => CallsIn(<<x>>) = {}
         /\ x.role = "assistant" => CallsIn(<<x>>) = x.ids
         /\ x.role # "tool" => ResultsIn(<<x>>) = {}
         /\ x.role = "tool" => ResultsIn(<<x>>) = x.ids
<1>1. <<x>> \in Seq(Message) /\ DOMAIN <<x>> = {1} /\ <<x>>[1] = x
  OBVIOUS
<1>2. Separate(<<x>>, "assistant") /\ Separate(<<x>>, "tool")
  BY <1>1 DEF Separate
<1>3. \A id : /\ id \in CallsIn(<<x>>) <=> x.role = "assistant" /\ id \in x.ids
              /\ id \in ResultsIn(<<x>>) <=> x.role = "tool" /\ id \in x.ids
  BY <1>1, InCalls
<1> QED BY <1>1, <1>2, <1>3 DEF WellFormed

\* So is no message at all.
LEMMA NoneFits == WellFormed(<<>>) /\ CallsIn(<<>>) = {} /\ ResultsIn(<<>>) = {}
<1>1. <<>> \in Seq(Message) /\ DOMAIN <<>> = {}
  OBVIOUS
<1> QED BY <1>1, InCalls DEF WellFormed, Separate

\* And any part of a well-formed transcript.
LEMMA PartFits ==
  ASSUME NEW m, WellFormed(m), NEW i \in 1 .. Len(m) + 1, NEW j \in 0 .. Len(m)
  PROVE  /\ WellFormed(SubSeq(m, i, j))
         /\ CallsIn(SubSeq(m, i, j)) \subseteq CallsIn(m)
         /\ ResultsIn(SubSeq(m, i, j)) \subseteq ResultsIn(m)
<1> DEFINE c == SubSeq(m, i, j)
<1>1. m \in Seq(Message) /\ Len(m) \in Nat /\ DOMAIN m = 1 .. Len(m)
  BY LenProperties DEF WellFormed
<1>2. CASE i <= j
  <2>1. /\ c \in Seq(Message) /\ DOMAIN c = 1 .. j - i + 1
        /\ \A k \in 1 .. j - i + 1 : c[k] = m[i + k - 1]
    BY <1>1, <1>2, SubSeqProperties
  <2>2. \A k \in DOMAIN c : i + k - 1 \in DOMAIN m /\ c[k] = m[i + k - 1]
    BY <1>1, <2>1
  <2> HIDE DEF c
  <2>3. CallsIn(c) \subseteq CallsIn(m) /\ ResultsIn(c) \subseteq ResultsIn(m)
    BY <2>2, InCalls
  <2>4. Separate(c, "assistant") /\ Separate(c, "tool")
    <3> SUFFICES ASSUME NEW role \in {"assistant", "tool"}, NEW k \in DOMAIN c, NEW l \in DOMAIN c,
                        c[k].role = role, c[l].role = role, c[k].ids \intersect c[l].ids # {}
                 PROVE  k = l
      BY DEF Separate
    <3>1. i + k - 1 = i + l - 1
      BY <2>2 DEF WellFormed, Separate
    <3>2. k \in Int /\ l \in Int /\ i \in Int
      BY <2>1
    <3> QED BY <3>1, <3>2
  <2> QED BY <2>1, <2>3, <2>4 DEF WellFormed, c
<1>3. CASE ~(i <= j)
  <2>1. c = <<>>
    BY <1>1, <1>3, SubSeqProperties
  <2> QED BY <2>1, NoneFits
<1> QED BY <1>2, <1>3, <1>1

\* SetToSeq lists the elements of a finite set, each of them once.
LEMMA Listed ==
  ASSUME NEW S, IsFiniteSet(S)
  PROVE  /\ Cardinality(S) \in Nat
         /\ SetToSeq(S) \in [1 .. Cardinality(S) -> S]
         /\ IsInjective(SetToSeq(S))
         /\ \A x \in S : \E i \in 1 .. Cardinality(S) : SetToSeq(S)[i] = x
<1>1. Cardinality(S) \in Nat /\ ExistsBijection(1 .. Cardinality(S), S)
  BY FS_CardinalityType
<1>2. PICK g : g \in Bijection(1 .. Cardinality(S), S)
  BY <1>1 DEF ExistsBijection
<1>3. g \in [1 .. Cardinality(S) -> S] /\ IsInjective(g)
  BY <1>2 DEF Bijection, Injection
<1>4. SetToSeq(S) \in [1 .. Cardinality(S) -> S] /\ IsInjective(SetToSeq(S))
  BY <1>3 DEF SetToSeq
<1>5. SetToSeq(S) \in Injection(1 .. Cardinality(S), S)
  BY <1>4 DEF Injection
<1>6. Cardinality(1 .. Cardinality(S)) = Cardinality(S)
  BY <1>1, FS_Interval
<1>7. SetToSeq(S) \in Surjection(1 .. Cardinality(S), S)
  BY ONLY <1>5, <1>6, IsFiniteSet(S), FS_Injection
<1> QED BY <1>1, <1>4, <1>7 DEF Surjection

\* The stubs for a set of calls answer each of them once.
LEMMA StubsFit ==
  ASSUME NEW ids \in Carried, NEW u \in Turns
  PROVE  LET s == SetToSeq(ids)
             stubs == [i \in DOMAIN s |-> ToolResult(u, s[i])]
         IN  WellFormed(stubs) /\ CallsIn(stubs) = {} /\ ResultsIn(stubs) = ids
<1> DEFINE s == SetToSeq(ids)
           stubs == [i \in DOMAIN s |-> ToolResult(u, s[i])]
<1>1. PICK n \in Nat : /\ s \in [1 .. n -> ids]
                       /\ IsInjective(s)
                       /\ \A id \in ids : \E i \in 1 .. n : s[i] = id
  BY Listed DEF Carried
<1>2. DOMAIN s = 1 .. n /\ ids \subseteq CallIds
  BY <1>1 DEF Carried
<1> HIDE DEF s
<1>7. /\ DOMAIN stubs = 1 .. n
      /\ stubs = [i \in 1 .. n |-> stubs[i]]
      /\ \A i \in 1 .. n : stubs[i] = ToolResult(u, s[i]) /\ s[i] \in CallIds /\ s[i] \in ids
  BY <1>1, <1>2
<1>8. \A i \in 1 .. n : stubs[i] \in Message /\ stubs[i].role = "tool" /\ stubs[i].ids = {s[i]}
  BY <1>7, MadeMessages
<1> HIDE DEF stubs
<1>9. stubs \in Seq(Message)
  BY <1>7, <1>8
<1>10. Separate(stubs, "assistant") /\ Separate(stubs, "tool")
  BY <1>1, <1>2, <1>7, <1>8 DEF Separate, IsInjective
<1>11. CallsIn(stubs) = {}
  BY <1>7, <1>8, InCalls
<1>12. ResultsIn(stubs) = ids
  <2>1. ASSUME NEW id PROVE id \in ResultsIn(stubs) <=> \E i \in 1 .. n : id = s[i]
    BY <1>7, <1>8, InCalls
  <2>2. ASSUME NEW id PROVE id \in ids <=> \E i \in 1 .. n : id = s[i]
    BY <1>1, <1>7
  <2> QED BY <2>1, <2>2
<1> QED BY <1>9, <1>10, <1>11, <1>12 DEF WellFormed, stubs, s

\* What becomes of a single message, call by call.
LEMMA PieceFits ==
  ASSUME NEW m, WellFormed(m), NEW k \in DOMAIN m
  PROVE  /\ WellFormed(Piece(m, m[k]))
         /\ m[k].role = "assistant" => /\ CallsIn(Piece(m, m[k])) = m[k].ids
                                       /\ ResultsIn(Piece(m, m[k])) = m[k].ids \ ResultsIn(m)
         /\ m[k].role # "assistant" => CallsIn(Piece(m, m[k])) = {}
         /\ m[k].role = "tool" => ResultsIn(Piece(m, m[k])) = m[k].ids \intersect CallsIn(m)
         /\ m[k].role \notin {"assistant", "tool"} => ResultsIn(Piece(m, m[k])) = {}
<1> DEFINE x == m[k]
           ids == IF x.role = "assistant" THEN x.ids \ ResultsIn(m) ELSE {}
           s == SetToSeq(ids)
           stubs == [i \in DOMAIN s |-> ToolResult(x.turn, s[i])]
<1>1. x \in Message
  BY ElementOfSeq, LenProperties DEF WellFormed
<1>2. /\ x.turn \in Turns /\ x.ids \in Carried /\ ids \in Carried
      /\ x.role = "tool" => \E id : x.ids = {id}
  <2>1. x.turn \in Turns /\ x.ids \in Carried /\ {} \in Carried
        /\ (x.role = "tool" => \E id : x.ids = {id})
    BY <1>1, MadeMessages DEF Message
  <2>2. x.ids \ ResultsIn(m) \in Carried
    BY <2>1, FS_Subset DEF Carried
  <2> QED BY <2>1, <2>2
<1> HIDE DEF x
<1>3. WellFormed(stubs) /\ CallsIn(stubs) = {} /\ ResultsIn(stubs) = ids
  <2> HIDE DEF ids
  <2> QED BY <1>2, StubsFit
<1>4. Piece(m, x) = IF x.role = "tool" /\ ~(x.ids \subseteq CallsIn(m)) THEN <<>>
                    ELSE <<x>> \o stubs
  BY DEF Piece
<1> HIDE DEF stubs
<1>5. CASE x.role = "tool" /\ ~(x.ids \subseteq CallsIn(m))
  <2>1. Piece(m, x) = <<>> /\ x.ids \intersect CallsIn(m) = {}
    BY <1>2, <1>4, <1>5
  <2> QED BY <1>5, <2>1, NoneFits DEF x
<1>6. CASE ~(x.role = "tool" /\ ~(x.ids \subseteq CallsIn(m)))
  <2>1. Piece(m, x) = <<x>> \o stubs
    BY <1>4, <1>6
  <2>2. /\ WellFormed(<<x>>)
        /\ x.role # "assistant" => CallsIn(<<x>>) = {}
        /\ x.role = "assistant" => CallsIn(<<x>>) = x.ids
        /\ x.role # "tool" => ResultsIn(<<x>>) = {}
        /\ x.role = "tool" => ResultsIn(<<x>>) = x.ids
    BY <1>1, OneFits
  <2>3. CallsIn(<<x>>) \intersect CallsIn(stubs) = {} /\ ResultsIn(<<x>>) \intersect ResultsIn(stubs) = {}
    BY <1>3, <2>2
  <2>4. /\ WellFormed(Piece(m, x))
        /\ CallsIn(Piece(m, x)) = CallsIn(<<x>>) \union CallsIn(stubs)
        /\ ResultsIn(Piece(m, x)) = ResultsIn(<<x>>) \union ResultsIn(stubs)
    <3> DEFINE a == <<x>>
    <3>1. WellFormed(a) /\ WellFormed(stubs)
          /\ CallsIn(a) \intersect CallsIn(stubs) = {} /\ ResultsIn(a) \intersect ResultsIn(stubs) = {}
      BY <1>3, <2>2, <2>3
    <3> HIDE DEF a
    <3>2. /\ WellFormed(a \o stubs)
          /\ CallsIn(a \o stubs) = CallsIn(a) \union CallsIn(stubs)
          /\ ResultsIn(a \o stubs) = ResultsIn(a) \union ResultsIn(stubs)
      BY <3>1, JoinedFit
    <3> QED BY <2>1, <3>2 DEF a
  <2> QED BY <1>3, <1>6, <2>2, <2>4 DEF x
<1> QED BY <1>5, <1>6

\* Of a well-formed transcript, whatever calls and results it has lost,
\* Sanitize makes a well-formed one with the same calls, all of them answered.
\* By induction over its messages.
LEMMA SanitizeFits ==
  ASSUME NEW m, WellFormed(m)
  PROVE  /\ WellFormed(Sanitize(m))
         /\ CallsIn(Sanitize(m)) = CallsIn(m)
         /\ ResultsIn(Sanitize(m)) = CallsIn(m)
<1>1. m \in Seq(Message) /\ Len(m) \in Nat /\ DOMAIN m = 1 .. Len(m)
  BY LenProperties DEF WellFormed
<1>2. PICK g : /\ g[0] = <<>>
               /\ \A k \in 1 .. Len(m) : g[k] = g[k - 1] \o Piece(m, m[k])
               /\ Sanitize(m) = g[Len(m)]
  BY <1>1, SanitizeSteps
<1> DEFINE Asked(id, j) == m[j].role = "assistant" /\ id \in m[j].ids
           Told(id, j) == \/ m[j].role = "tool" /\ id \in m[j].ids /\ id \in CallsIn(m)
                          \/ Asked(id, j) /\ id \notin ResultsIn(m)
           Holds(k) == /\ WellFormed(g[k])
                       /\ \A id : id \in CallsIn(g[k]) <=> \E j \in 1 .. k : Asked(id, j)
                       /\ \A id : id \in ResultsIn(g[k]) <=> \E j \in 1 .. k : Told(id, j)
           T == {k \in Nat : k <= Len(m) => Holds(k)}
<1>3. 0 \in T
  <2>1. \A j : j \notin 1 .. 0
    OBVIOUS
  <2>2. Holds(0)
    BY <1>2, <2>1, NoneFits
  <2> QED BY <2>2
<1>4. ASSUME NEW n \in T \intersect Nat PROVE n + 1 \in T
  <2> SUFFICES ASSUME n + 1 <= Len(m) PROVE Holds(n + 1)
    OBVIOUS
  <2> DEFINE k == n + 1
             b == Piece(m, m[k])
  <2>1. Holds(n) /\ n \in Nat
    BY <1>1
  <2>2. k \in DOMAIN m /\ k \in 1 .. Len(m) /\ g[k] = g[n] \o b /\ 1 .. k = (1 .. n) \union {k} /\ k \notin 1 .. n
    <3>1. n \in Nat /\ k \in 1 .. Len(m) /\ k \in DOMAIN m /\ k - 1 = n
      BY <1>1
    <3>2. 1 .. k = (1 .. n) \union {k} /\ k \notin 1 .. n
      BY <3>1
    <3> QED BY <1>2, <3>1, <3>2
  <2>3. /\ WellFormed(b)
        /\ \A id : id \in CallsIn(b) <=> Asked(id, k)
        /\ \A id : id \in ResultsIn(b) <=> Told(id, k)
    <3>1. m[k].role \in {"user", "assistant", "tool", "system"}
      BY <1>1, <2>2, MessageFits, ElementOfSeq
    <3> HIDE DEF k
    <3> QED BY <3>1, <2>2, PieceFits
  <2>4. \A j \in 1 .. n : j \in DOMAIN m /\ j # k
    BY <1>1, <2>1, <2>2
  <2>5. \A id, j : Asked(id, j) /\ j \in DOMAIN m => id \in CallsIn(m)
    BY InCalls
  <2>6. \A id, j : m[j].role = "tool" /\ id \in m[j].ids /\ j \in DOMAIN m => id \in ResultsIn(m)
    BY InCalls
  <2>7. \A id, j, l : j \in DOMAIN m /\ l \in DOMAIN m /\ Asked(id, j) /\ Asked(id, l) => j = l
    BY DEF WellFormed, Separate
  <2>8. \A id, j, l : /\ j \in DOMAIN m /\ m[j].role = "tool" /\ id \in m[j].ids
                      /\ l \in DOMAIN m /\ m[l].role = "tool" /\ id \in m[l].ids
                      => j = l
    BY DEF WellFormed, Separate
  <2>9. \A id, j, l : j \in DOMAIN m /\ l \in DOMAIN m /\ Told(id, j) /\ Told(id, l) => j = l
    BY <2>6, <2>7, <2>8
  <2> HIDE DEF Asked, Told, k, b
  <2>10. CallsIn(g[n]) \intersect CallsIn(b) = {} /\ ResultsIn(g[n]) \intersect ResultsIn(b) = {}
    BY <2>1, <2>2, <2>3, <2>4, <2>7, <2>9
  <2>11. /\ WellFormed(g[k])
         /\ CallsIn(g[k]) = CallsIn(g[n]) \union CallsIn(b)
         /\ ResultsIn(g[k]) = ResultsIn(g[n]) \union ResultsIn(b)
    BY <2>1, <2>2, <2>3, <2>10, JoinedFit
  <2>12. Holds(k)
    BY <2>1, <2>2, <2>3, <2>11
  <2> QED BY <2>12 DEF k
<1> HIDE DEF Holds
<1>5. Nat \subseteq T
  <2> HIDE DEF T
  <2> QED BY <1>3, <1>4, Induction
<1>6. Holds(Len(m))
  BY <1>1, <1>5
<1>7. ASSUME NEW id
      PROVE  /\ (\E j \in DOMAIN m : Asked(id, j)) <=> id \in CallsIn(m)
             /\ (\E j \in DOMAIN m : Told(id, j)) <=> id \in CallsIn(m)
  BY InCalls
<1> HIDE DEF Asked, Told
<1>8. \A id : /\ id \in CallsIn(Sanitize(m)) <=> id \in CallsIn(m)
              /\ id \in ResultsIn(Sanitize(m)) <=> id \in CallsIn(m)
  BY <1>1, <1>2, <1>6, <1>7 DEF Holds
<1> QED BY <1>2, <1>6, <1>8 DEF Holds

----------------------------------------------------------------------------
(* Where a turn is in its transcript.                                      *)

\* In m turn t has got to round r, and the results of that round to all but
\* the first n calls.
Behind(t, r, n, m) ==
  /\ \A id \in CallsIn(m) : id[1] = t => id[2] <= r
  /\ \A id \in ResultsIn(m) : id[1] = t => id[2] <= r /\ (id[2] = r => id[3] > n)

\* The calls of the round that wait for a result.
Unanswered(t, r, n) == {<<t, r, i>> : i \in 1 .. n}

\* A history of turn t at that point: besides the calls that wait, every call
\* is answered.
Fits(t, r, n, h) ==
  /\ WellFormed(h)
  /\ Behind(t, r, n, h)
  /\ CallsIn(h) = ResultsIn(h) \union Unanswered(t, r, n)

\* The parts of a call id.
LEMMA IdParts ==
  ASSUME NEW id \in CallIds
  PROVE  /\ id = <<id[1], id[2], id[3]>>
         /\ id[1] \in Turns
         /\ id[2] \in 1 .. MaxToolIterations /\ id[2] \in Nat /\ id[2] > 0
         /\ id[3] \in 1 .. MaxCalls /\ id[3] \in Nat /\ id[3] > 0
BY TurnAssumption DEF CallIds

\* Messages of another turn leave a turn where it is.
LEMMA StaysBehind ==
  ASSUME NEW t, NEW r, NEW n, NEW m, NEW c, Behind(t, r, n, m),
         \A id \in CallsIn(c) : id \in CallsIn(m) \/ id[1] # t,
         \A id \in ResultsIn(c) : id \in ResultsIn(m) \/ id[1] # t
  PROVE  Behind(t, r, n, c)
BY DEF Behind

\* With fewer calls left, less is asked of the transcript.
LEMMA FallsBehind ==
  ASSUME NEW t, NEW r, NEW n \in Nat, NEW k \in Nat, k <= n, NEW m, WellFormed(m), Behind(t, r, n, m)
  PROVE  Behind(t, r, k, m)
<1>1. \A id \in ResultsIn(m) : id[3] \in Nat
  BY MessagesFit, IdParts DEF WellFormed
<1> QED BY <1>1 DEF Behind

\* A message that repeats no call and no result may be added.
LEMMA AppendFits ==
  ASSUME NEW m, WellFormed(m), NEW x \in Message,
         x.role = "assistant" => x.ids \intersect CallsIn(m) = {},
         x.role = "tool" => x.ids \intersect ResultsIn(m) = {}
  PROVE  /\ WellFormed(Append(m, x))
         /\ x.role # "assistant" => CallsIn(Append(m, x)) = CallsIn(m)
         /\ x.role = "assistant" => CallsIn(Append(m, x)) = CallsIn(m) \union x.ids
         /\ x.role # "tool" => ResultsIn(Append(m, x)) = ResultsIn(m)
         /\ x.role = "tool" => ResultsIn(Append(m, x)) = ResultsIn(m) \union x.ids
<1> DEFINE a == <<x>>
<1>1. m \in Seq(Message) /\ Append(m, x) = m \o a
  BY DEF WellFormed
<1>2. /\ WellFormed(a)
      /\ x.role # "assistant" => CallsIn(a) = {}
      /\ x.role = "assistant" => CallsIn(a) = x.ids
      /\ x.role # "tool" => ResultsIn(a) = {}
      /\ x.role = "tool" => ResultsIn(a) = x.ids
  BY OneFits
<1> HIDE DEF a
<1>3. CallsIn(m) \intersect CallsIn(a) = {} /\ ResultsIn(m) \intersect ResultsIn(a) = {}
  BY <1>2
<1>4. /\ WellFormed(m \o a)
      /\ CallsIn(m \o a) = CallsIn(m) \union CallsIn(a)
      /\ ResultsIn(m \o a) = ResultsIn(m) \union ResultsIn(a)
  BY <1>2, <1>3, JoinedFit
<1> QED BY <1>1, <1>2, <1>4

\* One that carries no id changes nothing.
LEMMA PlainFits ==
  ASSUME NEW m, WellFormed(m), NEW x \in Message, x.role # "tool", x.role = "assistant" => x.ids = {}
  PROVE  /\ WellFormed(Append(m, x))
         /\ CallsIn(Append(m, x)) = CallsIn(m)
         /\ ResultsIn(Append(m, x)) = ResultsIn(m)
<1>1. x.role = "assistant" => x.ids \intersect CallsIn(m) = {}
  OBVIOUS
<1>2. /\ WellFormed(Append(m, x))
      /\ x.role # "assistant" => CallsIn(Append(m, x)) = CallsIn(m)
      /\ x.role = "assistant" => CallsIn(Append(m, x)) = CallsIn(m) \union x.ids
      /\ x.role # "tool" => ResultsIn(Append(m, x)) = ResultsIn(m)
  BY <1>1, AppendFits
<1> QED BY <1>2

\* The calls of a new round are new.
LEMMA AskFits ==
  ASSUME NEW m, WellFormed(m), NEW t \in Turns, NEW r \in Nat, NEW n, Behind(t, r, n, m),
         r + 1 <= MaxToolIterations, NEW k \in Nat, k <= MaxCalls
  PROVE  LET x == Assistant(t, Unanswered(t, r + 1, k)) IN
           /\ WellFormed(Append(m, x))
           /\ CallsIn(Append(m, x)) = CallsIn(m) \union Unanswered(t, r + 1, k)
           /\ ResultsIn(Append(m, x)) = ResultsIn(m)
           /\ Behind(t, r + 1, k, Append(m, x))
<1> DEFINE ids == Unanswered(t, r + 1, k)
           x == Assistant(t, ids)
<1>1. ids \subseteq CallIds
  BY TurnAssumption DEF Unanswered, CallIds
<1>2. IsFiniteSet(ids)
  <2> DEFINE f == [i \in 1 .. k |-> <<t, r + 1, i>>]
  <2>1. f \in Surjection(1 .. k, ids)
    BY DEF Surjection, Unanswered
  <2>2. IsFiniteSet(1 .. k)
    BY FS_Interval
  <2> HIDE DEF f, ids
  <2> QED BY <2>1, <2>2, FS_Surjection
<1>3. x \in Message /\ x.role = "assistant" /\ x.ids = ids
  <2>1. ids \in Carried
    BY <1>1, <1>2 DEF Carried
  <2> HIDE DEF ids
  <2> QED BY <2>1, MadeMessages
<1>4. \A id \in ids : id[1] = t /\ id[2] = r + 1
  BY DEF Unanswered
<1>5. \A id \in CallsIn(m) : id[1] = t => id[2] <= r /\ id[2] \in Nat
  BY MessagesFit, IdParts DEF Behind, WellFormed
<1>6. \A id \in ResultsIn(m) : id[1] = t => id[2] <= r /\ id[2] \in Nat
  BY MessagesFit, IdParts DEF Behind, WellFormed
<1> HIDE DEF x, ids
<1>7. ids \intersect CallsIn(m) = {}
  BY <1>4, <1>5
<1>8. /\ WellFormed(Append(m, x))
      /\ CallsIn(Append(m, x)) = CallsIn(m) \union ids
      /\ ResultsIn(Append(m, x)) = ResultsIn(m)
  BY <1>3, <1>7, AppendFits
<1>9. Behind(t, r + 1, k, Append(m, x))
  BY <1>4, <1>5, <1>6, <1>8 DEF Behind
<1> QED BY <1>8, <1>9 DEF x, ids

\* The result of the first call left is new.
LEMMA ResultFits ==
  ASSUME NEW m, WellFormed(m), NEW t \in Turns, NEW r, NEW n \in Nat, n > 0, Behind(t, r, n, m),
         <<t, r, n>> \in CallIds
  PROVE  LET x == ToolResult(t, <<t, r, n>>) IN
           /\ WellFormed(Append(m, x))
           /\ CallsIn(Append(m, x)) = CallsIn(m)
           /\ ResultsIn(Append(m, x)) = ResultsIn(m) \union {<<t, r, n>>}
           /\ Behind(t, r, n - 1, Append(m, x))
<1> DEFINE id == <<t, r, n>>
           x == ToolResult(t, id)
<1>1. x \in Message /\ x.role = "tool" /\ x.ids = {id}
  BY MadeMessages
<1>2. id[1] = t /\ id[2] = r /\ id[3] = n /\ r \in Nat
  BY IdParts
<1>3. \A i \in ResultsIn(m) : i[3] \in Nat /\ i[2] \in Nat
  BY MessagesFit, IdParts DEF WellFormed
<1> HIDE DEF x, id
<1>4. id \notin ResultsIn(m)
  BY <1>2 DEF Behind
<1>5. /\ WellFormed(Append(m, x))
      /\ CallsIn(Append(m, x)) = CallsIn(m)
      /\ ResultsIn(Append(m, x)) = ResultsIn(m) \union {id}
  BY <1>1, <1>4, AppendFits
<1>6. Behind(t, r, n - 1, Append(m, x))
  BY <1>2, <1>3, <1>5 DEF Behind
<1> QED BY <1>5, <1>6 DEF x, id

\* What is loaded of a transcript is well formed, cut where it may be.
LEMMA WindowFits ==
  ASSUME NEW m, WellFormed(m), NEW w \in Windows(m)
  PROVE  /\ WellFormed(w)
         /\ CallsIn(w) \subseteq CallsIn(m)
<1>1. m \in Seq(Message) /\ Len(m) \in Nat /\ DOMAIN m = 1 .. Len(m)
  BY LenProperties DEF WellFormed
<1>2. CASE w = <<>>
  BY <1>2, NoneFits
<1>3. ASSUME NEW k \in DOMAIN m, w = SubSeq(m, k, Len(m))
      PROVE  WellFormed(w) /\ CallsIn(w) \subseteq CallsIn(m)
  <2>1. k \in 1 .. Len(m) + 1 /\ Len(m) \in 0 .. Len(m)
    BY <1>1
  <2> QED BY <1>3, <2>1, PartFits
<1> QED BY <1>2, <1>3 DEF Windows

\* Leaving out the current user message changes no call and no result.
LEMMA CurrentFits ==
  ASSUME NEW m, WellFormed(m), NEW t \in Turns
  PROVE  /\ WellFormed(WithoutCurrent(m, t))
         /\ CallsIn(WithoutCurrent(m, t)) = CallsIn(m)
         /\ ResultsIn(WithoutCurrent(m, t)) = ResultsIn(m)
<1>1. m \in Seq(Message) /\ Len(m) \in Nat /\ DOMAIN m = 1 .. Len(m)
  BY LenProperties DEF WellFormed
<1>2. CASE m # <<>> /\ Last(m) = User(t)
  <2> DEFINE f == SubSeq(m, 1, Len(m) - 1)
  <2>1. Len(m) > 0 /\ m[Len(m)] = User(t) /\ WithoutCurrent(m, t) = f
    BY <1>1, <1>2, EmptySeq DEF WithoutCurrent, Last, Front
  <2>2. 1 \in 1 .. Len(m) + 1 /\ Len(m) - 1 \in 0 .. Len(m)
    BY <1>1, <2>1
  <2>3. WellFormed(f)
    BY <2>2, PartFits
  <2>4. m = Append(f, User(t))
    BY <1>1, <2>1
  <2> HIDE DEF f
  <2>5. CallsIn(m) = CallsIn(f) /\ ResultsIn(m) = ResultsIn(f)
    BY <2>3, <2>4, MadeMessages, PlainFits
  <2> QED BY <2>1, <2>3, <2>5
<1> QED BY <1>2 DEF WithoutCurrent

\* What a turn loads is paired, of whatever turns the messages are: stubs
\* stand in for the results that other turns have still to save.
LEMMA LoadedFits ==
  ASSUME NEW m, WellFormed(m), NEW t \in Turns, NEW r, Behind(t, r, 0, m),
         NEW w \in Windows(m)
  PROVE  /\ Fits(t, r, 0, Append(Sanitize(w), User(t)))
         /\ Fits(t, r, 0, Append(WithoutCurrent(Sanitize(w), t), User(t)))
<1> DEFINE S == Sanitize(w)
           W == WithoutCurrent(S, t)
<1>1. /\ WellFormed(S) /\ CallsIn(S) \subseteq CallsIn(m) /\ ResultsIn(S) = CallsIn(S)
  BY WindowFits, SanitizeFits
<1> HIDE DEF S
<1>2. WellFormed(W) /\ CallsIn(W) = CallsIn(S) /\ ResultsIn(W) = ResultsIn(S)
  BY <1>1, CurrentFits
<1> HIDE DEF W
<1>3. ASSUME NEW h, WellFormed(h), CallsIn(h) \subseteq CallsIn(m), ResultsIn(h) = CallsIn(h)
      PROVE  Fits(t, r, 0, Append(h, User(t)))
  <2>1. /\ WellFormed(Append(h, User(t)))
        /\ CallsIn(Append(h, User(t))) = CallsIn(h)
        /\ ResultsIn(Append(h, User(t))) = ResultsIn(h)
    BY <1>3, MadeMessages, PlainFits
  <2>2. \A id \in CallsIn(h) : id[3] > 0 /\ (id[1] = t => id[2] <= r)
    BY <1>3, MessagesFit, IdParts DEF WellFormed, Behind
  <2>3. Unanswered(t, r, 0) = {}
    BY DEF Unanswered
  <2> QED BY <1>3, <2>1, <2>2, <2>3 DEF Fits, Behind
<1> QED BY <1>1, <1>2, <1>3 DEF S, W

----------------------------------------------------------------------------
(* The pairs of calls and results, step by step.                           *)

\* Where a turn has a history.
Conversing == {"loaded", "calls"} \union Deciding \union Answering \union InCall
\* Where a turn has no calls left.
Settled == {"new", "announced", "loaded"} \union Deciding \union Answering

\* The invariant of the saved messages.
Saved ==
  /\ transcript \in [Sessions -> Seq(Message)]
  /\ \A s \in Sessions : WellFormed(transcript[s])
  /\ \A s \in Sessions, u \in Turns : Behind(u, round[u], Len(calls[u]), transcript[s])

\* The invariant of the histories.
Conversed ==
  /\ history \in [Turns -> Seq(Message)]
  /\ \A u \in Turns : pc[u] \in Conversing => Fits(u, round[u], Len(calls[u]), history[u])
  /\ \A u \in Turns : pc[u] \in Settled => calls[u] = <<>>

\* In a new round nothing has been saved yet.
LEMMA RisesBehind ==
  ASSUME NEW t, NEW r \in Nat, NEW n, NEW k, NEW m, WellFormed(m), Behind(t, r, n, m)
  PROVE  Behind(t, r + 1, k, m)
<1>1. \A id \in ResultsIn(m) \union CallsIn(m) : id[2] \in Nat
  BY MessagesFit, IdParts DEF WellFormed
<1> QED BY <1>1 DEF Behind

\* The number of calls left.
LEMMA CallsLeft ==
  ASSUME TypeOK, NEW t \in Turns
  PROVE  /\ calls[t] \in Seq(Policy)
         /\ Len(calls[t]) \in Nat
         /\ calls[t] # <<>> => Len(calls[t]) > 0 /\ Len(Tail(calls[t])) = Len(calls[t]) - 1
         /\ Len(<<>>) = 0
BY LenProperties, EmptySeq, HeadTailProperties DEF TypeOK

\* Steps that save nothing keep what is saved.
LEMMA SavedSame ==
  ASSUME TypeOK, Saved, transcript' = transcript, round' = round,
         \A u \in Turns : calls'[u] = calls[u] \/ calls'[u] = <<>>
  PROVE  Saved'
<1> SUFFICES ASSUME NEW s \in Sessions, NEW u \in Turns
             PROVE  Behind(u, round[u], Len(calls'[u]), transcript[s])
  BY DEF Saved
<1>1. Behind(u, round[u], Len(calls[u]), transcript[s]) /\ WellFormed(transcript[s])
  BY DEF Saved
<1>2. Behind(u, round[u], 0, transcript[s])
  BY <1>1, CallsLeft, FallsBehind
<1> QED BY <1>1, <1>2, CallsLeft

\* So do steps that save a message which continues the turn.
LEMMA SavedMore ==
  ASSUME TypeOK, Saved, NEW t \in Turns, NEW x, Save(t, x), Untouched(t),
         NEW m, m = transcript[SessionOf[t]],
         WellFormed(Append(m, x)),
         \A id \in CallsIn(Append(m, x)) : id \in CallsIn(m) \/ id[1] = t,
         \A id \in ResultsIn(Append(m, x)) : id \in ResultsIn(m) \/ id[1] = t,
         Behind(t, round'[t], Len(calls'[t]), Append(m, x)),
         \A s \in Sessions : Behind(t, round'[t], Len(calls'[t]), transcript[s])
  PROVE  Saved'
<1>1. SessionOf[t] \in Sessions
  BY TurnAssumption
<1>2. /\ transcript' \in [Sessions -> Seq(Message)]
      /\ transcript'[SessionOf[t]] = Append(m, x)
      /\ \A s \in Sessions \ {SessionOf[t]} : transcript'[s] = transcript[s]
  BY <1>1 DEF Save, Saved, WellFormed
<1>3. \A s \in Sessions : WellFormed(transcript'[s])
  BY <1>2 DEF Saved
<1>4. ASSUME NEW s \in Sessions, NEW u \in Turns
      PROVE  Behind(u, round'[u], Len(calls'[u]), transcript'[s])
  <2>1. CASE u = t
    BY <1>2, <2>1
  <2>2. CASE u # t /\ s = SessionOf[t]
    <3>1. Behind(u, round[u], Len(calls[u]), m)
      BY <1>1 DEF Saved
    <3>2. Behind(u, round[u], Len(calls[u]), Append(m, x))
      BY <2>2, <3>1, StaysBehind
    <3> QED BY <1>2, <2>2, <3>2 DEF Untouched
  <2>3. CASE u # t /\ s # SessionOf[t]
    BY <1>2, <2>3 DEF Saved, Untouched
  <2> QED BY <2>1, <2>2, <2>3
<1> QED BY <1>2, <1>3, <1>4 DEF Saved

\* And those that save one without ids.
LEMMA SavedPlain ==
  ASSUME TypeOK, Saved, NEW t \in Turns, NEW x \in Message, Save(t, x), Untouched(t),
         x.role # "tool", x.role = "assistant" => x.ids = {},
         round' = round, calls'[t] = calls[t] \/ calls'[t] = <<>>
  PROVE  Saved'
<1> DEFINE m == transcript[SessionOf[t]]
<1>1. SessionOf[t] \in Sessions
  BY TurnAssumption
<1>2. WellFormed(m)
  BY <1>1 DEF Saved
<1>3. \A s \in Sessions : Behind(t, round'[t], Len(calls'[t]), transcript[s])
  <2> SUFFICES ASSUME NEW s \in Sessions PROVE Behind(t, round'[t], Len(calls'[t]), transcript[s])
    OBVIOUS
  <2>1. Behind(t, round[t], Len(calls[t]), transcript[s]) /\ WellFormed(transcript[s])
    BY DEF Saved
  <2>2. Behind(t, round[t], 0, transcript[s])
    BY <2>1, CallsLeft, FallsBehind
  <2> QED BY <2>1, <2>2, CallsLeft
<1>4. Behind(t, round'[t], Len(calls'[t]), m)
  BY <1>1, <1>3
<1> HIDE DEF m
<1>5. /\ WellFormed(Append(m, x))
      /\ CallsIn(Append(m, x)) = CallsIn(m)
      /\ ResultsIn(Append(m, x)) = ResultsIn(m)
  BY <1>2, PlainFits
<1>6. Behind(t, round'[t], Len(calls'[t]), Append(m, x))
  BY <1>4, <1>5 DEF Behind
<1> QED BY <1>3, <1>5, <1>6, SavedMore DEF m

\* A step of one turn concerns no history but its own.
LEMMA OthersConverse ==
  ASSUME Conversed, NEW t \in Turns, Untouched(t), NEW h \in Seq(Message),
         history' = [history EXCEPT ![t] = h] \/ (history' = history /\ h = history[t]),
         pc'[t] \in Conversing => Fits(t, round'[t], Len(calls'[t]), h),
         pc'[t] \in Settled => calls'[t] = <<>>
  PROVE  Conversed'
BY DEF Conversed, Untouched

\* A turn that moves on without touching its history keeps it.
LEMMA Moves ==
  ASSUME TypeOK, Conversed, NEW t \in Turns, Untouched(t), UNCHANGED <<round, calls, history>>,
         pc'[t] \in Conversing => pc[t] \in Conversing,
         pc'[t] \in Settled => pc[t] \in Settled
  PROVE  Conversed'
<1>1. history[t] \in Seq(Message)
  BY DEF Conversed
<1> QED BY <1>1, OthersConverse DEF Conversed

\* A turn that ends has none any more.
LEMMA Ends ==
  ASSUME TypeOK, Conversed, NEW t \in Turns, Untouched(t), Forget(t), pc'[t] \in {"closing", "over"}
  PROVE  Conversed' /\ calls'[t] = <<>>
<1>1. calls'[t] = <<>> /\ history' = [history EXCEPT ![t] = <<>>]
  BY DEF Forget, TypeOK
<1>2. pc'[t] \notin Conversing
  BY DEF Conversing, Deciding, Answering, InCall
<1>3. <<>> \in Seq(Message)
  OBVIOUS
<1> QED BY <1>1, <1>2, <1>3, OthersConverse

\* _record_tool_result takes the result of the first call left to the
\* transcript and to the history.
LEMMA Records ==
  ASSUME TypeOK, Saved, Conversed, NEW t \in Turns, NEW x \in {<<>>, <<System(t)>>},
         RecordResult(t, x), pc[t] \in InCall \union {"calls"}, calls[t] # <<>>,
         round' = round, Untouched(t)
  PROVE  Saved' /\ Conversed'
<1> DEFINE r == round[t]
           n == Len(calls[t])
           id == <<t, r, n>>
           y == ToolResult(t, id)
           m == transcript[SessionOf[t]]
           h == history[t]
<1>1. SessionOf[t] \in Sessions
  BY TurnAssumption
<1>2. n \in Nat /\ n > 0 /\ Len(calls'[t]) = n - 1 /\ pc'[t] = "calls" /\ round'[t] = r
  BY CallsLeft DEF RecordResult, GoTo, TypeOK
<1>3. id \in CallIds
  BY CallIdTyped DEF CallId
<1>4. Save(t, y) /\ history' = [history EXCEPT ![t] = Append(h, y) \o x]
  <2>1. Save(t, y)
    BY DEF RecordResult, CallId
  <2>2. history' = [history EXCEPT ![t] = Append(h, y) \o x]
    BY DEF RecordResult, CallId
  <2> QED BY <2>1, <2>2
<1>5. WellFormed(m) /\ \A s \in Sessions : WellFormed(transcript[s]) /\ Behind(t, r, n, transcript[s])
  BY <1>1 DEF Saved
<1>6. Behind(t, r, n, m)
  BY <1>1, <1>5
<1>7. Fits(t, r, n, h)
  BY DEF Conversed, Conversing
<1> HIDE DEF m, h, r, n
<1>8. Saved'
  <2>1. /\ WellFormed(Append(m, y))
        /\ CallsIn(Append(m, y)) = CallsIn(m)
        /\ ResultsIn(Append(m, y)) = ResultsIn(m) \union {id}
        /\ Behind(t, r, n - 1, Append(m, y))
    BY <1>2, <1>3, <1>5, <1>6, ResultFits
  <2>2. \A s \in Sessions : Behind(t, r, n - 1, transcript[s])
    BY <1>2, <1>5, FallsBehind
  <2>3. id[1] = t
    OBVIOUS
  <2> HIDE DEF id, y
  <2> QED BY <1>2, <1>4, <2>1, <2>2, <2>3, SavedMore DEF m
<1>9. Conversed'
  <2> DEFINE a == Append(h, y)
  <2>1. /\ WellFormed(a)
        /\ CallsIn(a) = CallsIn(h)
        /\ ResultsIn(a) = ResultsIn(h) \union {id}
        /\ Behind(t, r, n - 1, a)
    BY <1>2, <1>3, <1>7, ResultFits DEF Fits
  <2> HIDE DEF a
  <2>2. Unanswered(t, r, n) = Unanswered(t, r, n - 1) \union {id}
    <3>1. 1 .. n = (1 .. n - 1) \union {n}
      BY <1>2
    <3> QED BY <3>1 DEF Unanswered
  <2>3. CallsIn(a) = ResultsIn(a) \union Unanswered(t, r, n - 1)
    BY <1>7, <2>1, <2>2 DEF Fits
  <2>4. Fits(t, r, n - 1, a)
    BY <2>1, <2>3 DEF Fits
  <2>5. Fits(t, r, n - 1, a \o x)
    <3>1. CASE x = <<>>
      <4>1. a \in Seq(Message)
        BY <2>1 DEF WellFormed
      <4> QED BY <2>4, <3>1, <4>1
    <3>2. CASE x = <<System(t)>>
      <4>1. a \in Seq(Message)
        BY <2>1 DEF WellFormed
      <4>2. a \o x = Append(a, System(t))
        BY <3>2, <4>1
      <4>3. /\ WellFormed(Append(a, System(t)))
            /\ CallsIn(Append(a, System(t))) = CallsIn(a)
            /\ ResultsIn(Append(a, System(t))) = ResultsIn(a)
        BY <2>1, MadeMessages, PlainFits
      <4> QED BY <2>4, <4>2, <4>3 DEF Fits, Behind
    <3> QED BY <3>1, <3>2
  <2>6. a \o x \in Seq(Message)
    BY <2>5 DEF Fits, WellFormed
  <2>7. pc'[t] \notin Settled
    BY <1>2 DEF Settled, Deciding, Answering
  <2> HIDE DEF y
  <2> QED BY <1>2, <1>4, <2>5, <2>6, <2>7, OthersConverse DEF a
<1> QED BY <1>8, <1>9

\* Loading, at the start of a turn or after an overflow.
LEMMA LoadConverses ==
  ASSUME TypeOK, Saved, Conversed, NEW t \in Turns, Load(t) \/ Reload(t)
  PROVE  Saved' /\ Conversed'
<1> DEFINE m == transcript[SessionOf[t]]
<1>1. /\ Untouched(t) /\ UNCHANGED <<round, calls, transcript>>
      /\ pc[t] \in Settled
  BY LoopFrame DEF LoopStep, Load, Reload, turnVars, Settled, Deciding, Answering
<1>2. calls[t] = <<>> /\ Len(calls'[t]) = 0 /\ round'[t] = round[t]
  BY <1>1, CallsLeft DEF Conversed
<1>3. WellFormed(m) /\ Behind(t, round[t], 0, m)
  BY <1>1, <1>2, TurnAssumption DEF Saved
<1>4. PICK w \in Windows(m) :
        history' = [history EXCEPT ![t] = Append(Sanitize(w), User(t))]
          \/ history' = [history EXCEPT ![t] = Append(WithoutCurrent(Sanitize(w), t), User(t))]
  BY DEF Load, Reload
<1> HIDE DEF m
<1>5. PICK h : history' = [history EXCEPT ![t] = h] /\ Fits(t, round[t], 0, h)
  BY <1>3, <1>4, LoadedFits
<1>6. h \in Seq(Message)
  BY <1>5 DEF Fits, WellFormed
<1>7. Conversed'
  BY <1>1, <1>2, <1>5, <1>6, OthersConverse
<1> QED BY <1>1, <1>7, SavedSame

\* A decision with calls opens a round.
LEMMA DecisionConverses ==
  ASSUME TypeOK, Saved, Conversed, NEW t \in Turns, NEW asked \in AskedFor(t), DecideCalls(t, asked)
  PROVE  Saved' /\ Conversed'
<1> DEFINE m == transcript[SessionOf[t]]
           h == history[t]
           r == round[t]
           k == Len(asked)
           x == Assistant(t, Unanswered(t, r + 1, k))
<1>1. Untouched(t)
  BY LoopFrame DEF LoopStep
<1>2. r \in Nat /\ r + 1 <= MaxToolIterations
  BY TurnAssumption DEF DecideCalls, MoreRounds, TypeOK
<1>3. asked \in Seq(Policy) /\ k \in Nat /\ k <= MaxCalls
  BY AskedTyped, LenProperties
<1>4. pc[t] \in Deciding /\ pc'[t] = "calls" /\ round'[t] = r + 1 /\ calls'[t] = asked
  BY DEF DecideCalls, GoTo, TypeOK
<1>5. Save(t, x) /\ history' = [history EXCEPT ![t] = Append(h, x)]
  BY DEF DecideCalls, Unanswered
<1>6. calls[t] = <<>> /\ Fits(t, r, 0, h)
  BY <1>4, CallsLeft DEF Conversed, Settled, Conversing
<1>7. WellFormed(m) /\ \A s \in Sessions : WellFormed(transcript[s]) /\ Behind(t, r, 0, transcript[s])
  BY <1>6, CallsLeft, TurnAssumption DEF Saved
<1>8. Behind(t, r, 0, m)
  BY <1>7, TurnAssumption
<1> HIDE DEF m, h, r, k
<1>9. Saved'
  <2>1. /\ WellFormed(Append(m, x))
        /\ CallsIn(Append(m, x)) = CallsIn(m) \union Unanswered(t, r + 1, k)
        /\ ResultsIn(Append(m, x)) = ResultsIn(m)
        /\ Behind(t, r + 1, k, Append(m, x))
    BY <1>2, <1>3, <1>7, <1>8, AskFits
  <2>2. \A s \in Sessions : Behind(t, r + 1, k, transcript[s])
    BY <1>2, <1>7, RisesBehind
  <2>3. \A id \in Unanswered(t, r + 1, k) : id[1] = t
    BY DEF Unanswered
  <2>4. Len(calls'[t]) = k
    BY <1>4 DEF k
  <2> HIDE DEF x
  <2> QED BY <1>1, <1>4, <1>5, <2>1, <2>2, <2>3, <2>4, SavedMore DEF m
<1>10. Conversed'
  <2>1. /\ WellFormed(Append(h, x))
        /\ CallsIn(Append(h, x)) = CallsIn(h) \union Unanswered(t, r + 1, k)
        /\ ResultsIn(Append(h, x)) = ResultsIn(h)
        /\ Behind(t, r + 1, k, Append(h, x))
    BY <1>2, <1>3, <1>6, AskFits DEF Fits
  <2>2. Unanswered(t, r, 0) = {}
    BY DEF Unanswered
  <2> HIDE DEF x
  <2>3. Fits(t, r + 1, k, Append(h, x))
    BY <1>6, <2>1, <2>2 DEF Fits
  <2>4. Append(h, x) \in Seq(Message)
    BY <2>1 DEF WellFormed
  <2>5. pc'[t] \notin Settled /\ Len(calls'[t]) = k
    BY <1>4 DEF Settled, Deciding, Answering, k
  <2> QED BY <1>1, <1>4, <1>5, <2>3, <2>4, <2>5, OthersConverse
<1> QED BY <1>9, <1>10

\* Every step of the loop, and an abort at any event.
LEMMA LoopConverses ==
  ASSUME TypeOK, Saved, Conversed, NEW t \in Turns, LoopStep(t) \/ Abort(t) \/ Begin(t)
  PROVE  Saved' /\ Conversed'
<1>u. Untouched(t)
  BY LoopFrame
<1>m. /\ User(t) \in Message /\ User(t).role = "user"
      /\ Assistant(t, {}) \in Message /\ Assistant(t, {}).role = "assistant"
      /\ Assistant(t, {}).ids = {}
  BY MadeMessages
<1>d. /\ {"loaded", "deciding", "redeciding", "answering", "reanswering", "calls"} \subseteq Conversing
      /\ {"new", "announced", "loaded", "deciding", "redeciding", "answering", "reanswering"} \subseteq Settled
      /\ Conversing \intersect {"announced", "speaking", "closing", "over", "new"} = {}
      /\ Settled \intersect {"calls", "speaking", "closing", "over"} = {}
  BY DEF Conversing, Settled, Deciding, Answering, InCall
<1>e. ASSUME NEW o, End(t, o), UNCHANGED round, transcript' = transcript
      PROVE  Saved' /\ Conversed'
  <2>1. Forget(t) /\ pc'[t] \in {"closing", "over"}
    BY <1>e DEF End, GoTo, TypeOK
  <2>2. Conversed' /\ calls'[t] = <<>>
    BY <1>u, <2>1, Ends
  <2>3. \A u \in Turns : calls'[u] = calls[u] \/ calls'[u] = <<>>
    BY <1>u, <2>2 DEF Untouched
  <2> QED BY <1>e, <2>2, <2>3, SavedSame
<1>1. CASE Begin(t)
  <2>1. /\ pc[t] = "new" /\ pc'[t] = "announced"
        /\ UNCHANGED <<round, calls, history, transcript>>
    BY <1>1 DEF Begin, GoTo, turnVars, messageVars, TypeOK
  <2> QED BY <1>u, <1>d, <2>1, Moves, SavedSame
<1>2. CASE Abort(t)
  <2>1. CASE End(t, "error")
    BY <1>2, <1>e, <2>1 DEF Abort
  <2>2. CASE GoTo(t, "over") /\ Forget(t)
    <3>1. pc'[t] = "over" /\ UNCHANGED <<round, transcript>>
      BY <1>2, <2>2 DEF Abort, GoTo, TypeOK
    <3>2. Conversed' /\ calls'[t] = <<>>
      BY <1>u, <2>2, <3>1, Ends
    <3>3. \A u \in Turns : calls'[u] = calls[u] \/ calls'[u] = <<>>
      BY <1>u, <3>2 DEF Untouched
    <3> QED BY <3>1, <3>2, <3>3, SavedSame
  <2> QED BY <1>2, <2>1, <2>2 DEF Abort
<1>3. CASE Load(t) \/ Reload(t)
  BY <1>3, LoadConverses
<1>4. CASE SaveUser(t)
  <2>1. /\ pc[t] = "loaded" /\ pc'[t] = "deciding" /\ Save(t, User(t))
        /\ UNCHANGED <<round, calls, history>>
    BY <1>4 DEF SaveUser, GoTo, turnVars, TypeOK
  <2> QED BY <1>u, <1>d, <1>m, <2>1, Moves, SavedPlain
<1>5. ASSUME NEW asked \in AskedFor(t), DecideCalls(t, asked) PROVE Saved' /\ Conversed'
  BY <1>5, DecisionConverses
<1>6. CASE DecideAnswer(t)
  <2>1. /\ pc[t] \in {"deciding", "redeciding"} /\ pc'[t] \in {"speaking", "answering"}
        /\ UNCHANGED <<round, calls, history, transcript>>
    BY <1>6 DEF DecideAnswer, GoTo, turnVars, messageVars, TypeOK, Deciding
  <2> QED BY <1>u, <1>d, <2>1, Moves, SavedSame
<1>7. CASE DecideNothing(t) \/ StopCalls(t)
  BY <1>7, <1>e DEF DecideNothing, StopCalls
<1>8. CASE NextRound(t)
  <2>1. /\ pc[t] = "calls" /\ pc'[t] = "deciding" /\ calls[t] = <<>>
        /\ UNCHANGED <<round, calls, history, transcript>>
    BY <1>8 DEF NextRound, GoTo, turnVars, messageVars, TypeOK
  <2>2. history[t] \in Seq(Message) /\ Fits(t, round'[t], Len(calls'[t]), history[t])
    BY <1>d, <2>1 DEF Conversed
  <2>3. Conversed'
    BY <1>u, <2>1, <2>2, OthersConverse
  <2> QED BY <2>1, <2>3, SavedSame
<1>9. CASE Stream(t)
  <2>1. CASE GoTo(t, "speaking") /\ UNCHANGED <<calls, history>>
    <3>1. /\ pc'[t] = "speaking" /\ UNCHANGED <<round, calls, history, transcript>>
      BY <1>9, <2>1 DEF Stream, GoTo, TypeOK
    <3> QED BY <1>u, <1>d, <3>1, Moves, SavedSame
  <2>2. CASE End(t, "error") \/ End(t, "cancelled")
    BY <1>9, <1>e, <2>2 DEF Stream
  <2> QED BY <1>9, <2>1, <2>2 DEF Stream
<1>10. CASE Speak(t)
  <2>1. /\ pc'[t] = "closing" /\ Save(t, Assistant(t, {})) /\ Forget(t) /\ round' = round
    BY <1>10 DEF Speak, End, GoTo, TypeOK
  <2>2. Conversed' /\ calls'[t] = <<>>
    BY <1>u, <2>1, Ends
  <2>3. Saved'
    BY <1>u, <1>m, <2>1, <2>2, SavedPlain
  <2> QED BY <2>2, <2>3
<1>11. CASE Close(t)
  <2>1. /\ pc'[t] = "over" /\ UNCHANGED <<round, calls, history, transcript>>
    BY <1>11 DEF Close, GoTo, turnVars, messageVars, TypeOK
  <2> QED BY <1>u, <1>d, <2>1, Moves, SavedSame
<1> QED
  BY <1>1, <1>2, <1>3, <1>4, <1>5, <1>6, <1>7, <1>8, <1>9, <1>10, <1>11 DEF LoopStep

\* Every step of _execute_tool_call.
LEMMA CallConverses ==
  ASSUME TypeOK, Saved, Conversed, NEW t \in Turns, CallStep(t)
  PROVE  Saved' /\ Conversed'
<1>u. Untouched(t)
  BY CallFrame
<1>d. InCall \union {"calls"} \subseteq Conversing /\ InCall \intersect Settled = {}
  BY DEF Conversing, Settled, Deciding, Answering, InCall
<1>m. ASSUME pc[t] \in InCall \union {"calls"}, pc'[t] \in InCall,
             UNCHANGED <<round, calls, history, transcript>>
      PROVE  Saved' /\ Conversed'
  BY <1>u, <1>d, <1>m, Moves, SavedSame
<1>r. ASSUME pc[t] \in InCall \union {"calls"}, calls[t] # <<>>, round' = round,
             NEW x \in {<<>>, <<System(t)>>}, RecordResult(t, x)
      PROVE  Saved' /\ Conversed'
  BY <1>u, <1>r, Records
<1>c. pc[t] \in InCall => calls[t] # <<>>
  BY DEF TypeOK
<1>1. CASE Refuse(t)
  BY <1>1, <1>r DEF Refuse, AtCall
<1>2. CASE Allow(t) \/ AskPermission(t) \/ Prompt(t) \/ Answered(t) \/ WaitTimesOut(t) \/ Submit(t)
  <2>1. /\ pc[t] \in InCall \union {"calls"} /\ pc'[t] \in InCall
        /\ UNCHANGED <<round, calls, history, transcript>>
    BY <1>2 DEF Allow, AskPermission, Prompt, Answered, WaitTimesOut, Submit, AtCall, GoTo,
                turnVars, messageVars, TypeOK, InCall
  <2> QED BY <1>m, <2>1
<1>3. CASE LeaveWait(t)
  <2>1. pc[t] \in InCall /\ round' = round
    BY <1>3 DEF LeaveWait, InCall
  <2>2. CASE RecordResult(t, <<>>)
    BY <1>c, <1>r, <2>1, <2>2
  <2>3. CASE GoTo(t, "executing") /\ UNCHANGED <<calls, messageVars>>
    <3>1. pc'[t] \in InCall /\ UNCHANGED <<calls, history, transcript>>
      BY <2>3 DEF GoTo, messageVars, TypeOK, InCall
    <3> QED BY <1>m, <2>1, <3>1
  <2> QED BY <1>3, <2>2, <2>3 DEF LeaveWait
<1>4. CASE SkipTool(t)
  BY <1>4, <1>c, <1>r DEF SkipTool, InCall
<1>5. CASE ToolReturns(t)
  <2>1. pc[t] \in InCall /\ round' = round
    BY <1>5 DEF ToolReturns, InCall
  <2>2. RecordResult(t, <<>>) \/ RecordResult(t, <<System(t)>>)
    BY <1>5 DEF ToolReturns
  <2> QED BY <1>c, <1>r, <2>1, <2>2
<1>6. CASE ToolTimesOut(t)
  BY <1>6, <1>c, <1>r DEF ToolTimesOut, InCall
<1> QED
  BY <1>1, <1>2, <1>3, <1>4, <1>5, <1>6 DEF CallStep

\* Every step keeps the invariants.
LEMMA PairStep == TypeOK /\ Saved /\ Conversed /\ [Next]_vars => Saved' /\ Conversed'
<1> SUFFICES ASSUME TypeOK, Saved, Conversed, [Next]_vars PROVE Saved' /\ Conversed'
  OBVIOUS
<1>1. ASSUME UNCHANGED <<pc, round, calls, history, transcript>> PROVE Saved' /\ Conversed'
  BY <1>1 DEF Saved, Conversed
<1>2. ASSUME NEW t \in Turns, HandlerStarts(t) \/ HandlerEnds(t)
      PROVE  UNCHANGED <<pc, round, calls, history, transcript>>
  BY <1>2 DEF HandlerStarts, HandlerEnds, messageVars
<1>3. ASSUME NEW s \in Sessions, NEW id \in Turns \union {None}, Cancel(s, id)
      PROVE  UNCHANGED <<pc, round, calls, history, transcript>>
  BY <1>3 DEF Cancel, messageVars
<1>4. ASSUME NEW id \in CallIds, NEW a \in Answers, Answer(id, a)
      PROVE  UNCHANGED <<pc, round, calls, history, transcript>>
  BY <1>4 DEF Answer, turnVars, messageVars
<1>5. CASE UNCHANGED vars
  BY <1>1, <1>5 DEF vars, turnVars, messageVars
<1> QED
  BY <1>1, <1>2, <1>3, <1>4, <1>5, LoopConverses, CallConverses DEF Next

\* PairedCalls is an invariant: whatever was cancelled, timed out, aborted or
\* interleaved before, in all the provider is sent each tool call has exactly
\* one result, and each result its call.
THEOREM ProviderSentPairs == Spec => []PairedCalls
<1>1. Init => Saved /\ Conversed
  <2> SUFFICES ASSUME Init PROVE Saved /\ Conversed
    OBVIOUS
  <2>1. /\ \A s \in Sessions : transcript[s] = <<>>
        /\ transcript \in [Sessions -> Seq(Message)]
        /\ history \in [Turns -> Seq(Message)]
        /\ \A t \in Turns : pc[t] \notin Conversing /\ calls[t] = <<>>
    BY DEF Init, Conversing, Deciding, Answering, InCall
  <2> QED BY <2>1, NoneFits DEF Saved, Conversed, Behind
<1>2. TypeOK /\ Saved /\ Conversed /\ [Next]_vars => Saved' /\ Conversed'
  BY PairStep
<1>3. TypeOK /\ Conversed => PairedCalls
  <2> SUFFICES ASSUME TypeOK, Conversed, NEW t \in Turns, pc[t] \in Deciding \union Answering
               PROVE  Paired(history[t])
    BY DEF PairedCalls
  <2> DEFINE h == history[t]
  <2>1. Fits(t, round[t], Len(calls[t]), h) /\ calls[t] = <<>>
    BY DEF Conversed, Conversing, Settled
  <2>2. Fits(t, round[t], 0, h) /\ Unanswered(t, round[t], 0) = {}
    BY <2>1, CallsLeft DEF Unanswered
  <2> HIDE DEF h
  <2>3. ResultsIn(h) = CallsIn(h)
    BY <2>2 DEF Fits
  <2>4. \A j \in DOMAIN h : h[j] \in Message
    BY <2>2, ElementOfSeq, LenProperties DEF Fits, WellFormed
  <2>5. \A j \in DOMAIN h : h[j].role = "tool" => h[j].ids # {}
    BY <2>4, MessageFits
  <2>6. ASSUME NEW j \in DOMAIN h, NEW k \in DOMAIN h, h[j].role = "tool", h[k].role = "tool",
               h[j].ids = h[k].ids
        PROVE  j = k
    BY <2>2, <2>5, <2>6 DEF Fits, WellFormed, Separate
  <2> QED BY <2>3, <2>6 DEF Paired, h
<1> QED
  BY <1>1, <1>2, <1>3, TypeCorrect, PTL DEF Spec
=============================================================================
