-------------------------- MODULE FileResumeProofs --------------------------
(***************************************************************************)
(* What holds of FileResume for any contents of the file, any limit of the *)
(* artifacts a context has, and any number of attempts and artifacts.      *)
(***************************************************************************)
EXTENDS FileResume, TLAPS

----------------------------------------------------------------------------
(* The inductive invariant.                                                *)

Phases == {"context_built", "model_turn_started", "tool_finished", "assistant_message_received",
           "failed", "completed", "subprocess_exited"}

Attempts == [status : {"running", "succeeded", "failed", "abandoned"}, phase : Phases]

Tools == Editing \union {"read_file"}

Artifacts == [tool : Tools, saved : Files, wrote : Contents \union {None}, raced : BOOLEAN,
              policy : {None}]

ToolCalls == [tool : Tools, wrote : Contents \union {None}, raced : BOOLEAN]

Advices == {"nothing", "verify", "continue", "change_approach", "conservatively", "use_context"}

Actions == {"skip_redundant_mutation", "reinspect_before_mutation", "reuse_observation",
            "refresh_context"}

Runs == [attempt : Nat, policies : SUBSET [action : Actions, source : Tools],
         advice : Advices, found : Files, had : Nat, read : BOOLEAN,
         call : ToolCalls \union {None}]

Typed ==
  /\ file \in Files
  /\ attempts \in Seq(Attempts) /\ Len(attempts) <= MaxAttempts
  /\ artifacts \in Seq(Artifacts) /\ Len(artifacts) <= MaxArtifacts
  /\ turn \in Runs \union {None}

\* The attempt of the run at work is the last one and is running, whatever was left
\* "running" before it.
AttemptIsLast == (turn # None /\ turn.attempt # 0) =>
  turn.attempt = Len(attempts) /\ attempts[turn.attempt].status = "running"

\* What was lost is in the checkpoint, and a run is told of it.
LostIsKept == lost # None =>
  /\ checkpoint = lost
  /\ turn # None => turn.advice = Advice(lost)

\* What a call wrote is in the file until somebody else writes.
CallHolds == (turn # None /\ turn.call # None) =>
  /\ turn.attempt # 0
  /\ (turn.call.tool \in Editing /\ ~turn.call.raced)
       => turn.call.wrote \in Contents /\ file = turn.call.wrote

\* So the manifest of an edit is of what it wrote.
ManifestsHold == \A n \in 1 .. Len(artifacts) :
  Known(n) => artifacts[n].wrote \in Contents /\ artifacts[n].saved = artifacts[n].wrote

\* A run has the policies of the artifacts it was shown, by the file it found.
PolicyThen(n) == Policy(artifacts[n], Verified(artifacts[n].saved, turn.found))

PoliciesHold == turn # None =>
  /\ turn.had <= Len(artifacts)
  /\ \A n \in 1 .. turn.had : (n <= ArtifactLimit /\ PolicyThen(n) # None) =>
       [action |-> PolicyThen(n), source |-> artifacts[n].tool] \in turn.policies

IInv == Typed /\ AttemptIsLast /\ LostIsKept /\ CallHolds /\ ManifestsHold /\ PoliciesHold

----------------------------------------------------------------------------
(* Manifests and policies.                                                 *)

LEMMA PolicyIsAction ==
  ASSUME NEW a, NEW s
  PROVE  Policy(a, s) \in Actions \union {None}
BY DEF Policy, Actions

LEMMA AdviceIsKnown ==
  ASSUME NEW phase
  PROVE  Advice(phase) \in Advices
BY DEF Advice, Advices

\* The edit of an artifact whose file is as it left it must not be redone.
LEMMA UnchangedIsSkipped ==
  ASSUME FileResumeAssumption, NEW a, a.tool \in Editing, NEW f \in Contents \ Big
  PROVE  Policy(a, Verified(f, f)) = "skip_redundant_mutation"
<1>1. Verified(f, f) = "unchanged" BY DEF Verified, FileResumeAssumption
<1> QED BY <1>1 DEF Policy, Kind

\* One whose file has changed is to be followed by a look at it.
LEMMA ChangedIsReread ==
  ASSUME FileResumeAssumption, NEW a, a.tool \in Editing, NEW f \in Contents \ Big,
         NEW now \in Files \ Big, now # f
  PROVE  Policy(a, Verified(f, now)) = "reinspect_before_mutation"
<1>1. Verified(f, now) = "changed" BY DEF Verified, FileResumeAssumption, Files
<1>2. Kind(a.tool) = "file_state" BY DEF Kind
<1>3. Policy(a, "changed") = "reinspect_before_mutation" BY <1>2 DEF Policy
<1> QED BY <1>1, <1>3

----------------------------------------------------------------------------
(* Steps.  No step but an edit or a read begins a tool call, so no other   *)
(* can edit what is known.                                                 *)

LEMMA NoEdit ==
  ASSUME turn # None => (turn' = None \/ turn.call # None \/ turn'.call = None)
  PROVE  EditIsKnown
BY DEF EditIsKnown, NotRedone, ReadFirst, Edits

\* Artifacts and policies are left as they are, and so is the file.
LEMMA RunGoesOn ==
  ASSUME IInv, turn # None, turn' \in Runs, UNCHANGED <<file, artifacts, checkpoint, lost>>,
         turn'.policies = turn.policies, turn'.advice = turn.advice, turn'.found = turn.found,
         turn'.had = turn.had, turn'.call = turn.call
  PROVE  LostIsKept' /\ ManifestsHold' /\ PoliciesHold'
<1>1. LostIsKept' BY DEF IInv, LostIsKept
<1>2. ManifestsHold' BY DEF IInv, ManifestsHold, Known
<1>3. PoliciesHold' BY DEF IInv, PoliciesHold, PolicyThen
<1> QED BY <1>1, <1>2, <1>3

LEMMA BuildContextKeeps ==
  ASSUME FileResumeAssumption, IInv, BuildContext
  PROVE  IInv' /\ EditIsKnown
<1> DEFINE run == [attempt |-> 0, policies |-> Policies, advice |-> Advice(checkpoint),
                   found |-> file, had |-> Len(artifacts), read |-> FALSE, call |-> None]
<1>1. /\ turn = None /\ turn' = run
      /\ UNCHANGED <<file, attempts, artifacts, checkpoint, lost, refused>>
  BY DEF BuildContext
<1>2. Policies \in SUBSET [action : Actions, source : Tools]
  <2> SUFFICES ASSUME NEW n \in Listed, PolicyNow(n) # None
               PROVE  PolicyNow(n) \in Actions /\ artifacts[n].tool \in Tools
    BY DEF Policies
  <2>1. PolicyNow(n) \in Actions \union {None} BY PolicyIsAction DEF PolicyNow
  <2>2. n \in 1 .. Len(artifacts) BY DEF Listed, IInv, Typed
  <2>3. artifacts[n] \in Artifacts BY <2>2 DEF IInv, Typed
  <2> QED BY <2>1, <2>3 DEF Artifacts
<1>3. run \in Runs
  <2>1. Len(artifacts) \in Nat /\ file \in Files BY DEF IInv, Typed
  <2> QED BY <1>2, <2>1, AdviceIsKnown DEF Runs
<1>4. Typed' BY <1>1, <1>3 DEF IInv, Typed
<1>5. AttemptIsLast' /\ CallHolds' /\ LostIsKept'
  BY <1>1 DEF IInv, AttemptIsLast, CallHolds, LostIsKept
<1>6. ManifestsHold' BY <1>1 DEF IInv, ManifestsHold, Known
<1>7. PoliciesHold'
  <2>1. Len(artifacts) \in Nat BY DEF IInv, Typed
  <2>2. ASSUME NEW n \in 1 .. Len(artifacts), n <= ArtifactLimit, PolicyNow(n) # None
        PROVE  [action |-> PolicyNow(n), source |-> artifacts[n].tool] \in Policies
    <3>1. n \in DOMAIN artifacts BY DEF IInv, Typed
    <3> QED BY <2>2, <3>1 DEF Policies, Listed
  <2>3. /\ turn'.had = Len(artifacts) /\ turn'.found = file /\ turn'.policies = Policies
        /\ artifacts' = artifacts
    BY <1>1
  <2>4. \A n : PolicyThen(n)' = PolicyNow(n) BY <2>3 DEF PolicyThen, PolicyNow
  <2> QED BY <2>1, <2>2, <2>3, <2>4 DEF PoliciesHold
<1>8. EditIsKnown BY <1>1, NoEdit
<1> QED BY <1>4, <1>5, <1>6, <1>7, <1>8 DEF IInv

LEMMA CreateAttemptKeeps ==
  ASSUME FileResumeAssumption, IInv, CreateAttempt
  PROVE  IInv' /\ EditIsKnown
<1> DEFINE row == [status |-> "running", phase |-> "context_built"]
<1>1. /\ turn # None /\ turn.attempt = 0 /\ Len(attempts) < MaxAttempts
      /\ attempts' = Append(attempts, row) /\ turn' = [turn EXCEPT !.attempt = Len(attempts) + 1]
      /\ UNCHANGED <<file, artifacts, checkpoint, lost, refused>>
  BY DEF CreateAttempt
<1>2. row \in Attempts BY DEF Attempts, Phases
<1>3. attempts \in Seq(Attempts) /\ turn \in Runs BY <1>1 DEF IInv, Typed
<1>4. /\ attempts' \in Seq(Attempts) /\ Len(attempts') = Len(attempts) + 1
      /\ Len(attempts) \in Nat /\ attempts'[Len(attempts) + 1].status = "running"
  <2> HIDE DEF row
  <2>1. row.status = "running" BY DEF row
  <2> QED BY <1>1, <1>2, <1>3, <2>1
<1>5. /\ turn' \in Runs /\ turn'.attempt = Len(attempts) + 1
      /\ turn'.policies = turn.policies /\ turn'.advice = turn.advice /\ turn'.found = turn.found
      /\ turn'.had = turn.had /\ turn'.call = turn.call
  BY <1>1, <1>3, <1>4 DEF Runs
<1>6. Typed'
  BY <1>1, <1>4, <1>5 DEF IInv, Typed, FileResumeAssumption
<1>7. AttemptIsLast' BY <1>4, <1>5 DEF AttemptIsLast
<1>8. CallHolds' BY <1>1, <1>5 DEF IInv, CallHolds
<1>9. LostIsKept' /\ ManifestsHold' /\ PoliciesHold' BY <1>1, <1>5, RunGoesOn
<1>10. EditIsKnown BY <1>1, <1>5, NoEdit
<1> QED BY <1>6, <1>7, <1>8, <1>9, <1>10 DEF IInv

\* A heartbeat.
LEMMA PhaseKeeps ==
  ASSUME Typed, AttemptIsLast, turn # None, turn.attempt # 0, NEW phase \in Phases, Phase(phase)
  PROVE  /\ attempts' \in Seq(Attempts) /\ Len(attempts') = Len(attempts)
         /\ attempts'[turn.attempt].status = "running"
<1>1. turn.attempt \in 1 .. Len(attempts) /\ attempts[turn.attempt].status = "running"
  BY DEF Typed, AttemptIsLast, Runs
<1>2. PICK n \in 1 .. Len(attempts) : n = turn.attempt BY <1>1
<1>3. PICK row : row = [attempts[n] EXCEPT !.phase = phase] OBVIOUS
<1>4. attempts' = [attempts EXCEPT ![n] = row] BY <1>2, <1>3 DEF Phase
<1>5. attempts \in Seq(Attempts) /\ attempts[n] \in Attempts BY DEF Typed
<1>6. row \in Attempts /\ row.status = "running" BY <1>1, <1>2, <1>3, <1>5 DEF Attempts
<1>7. attempts' \in Seq(Attempts) /\ Len(attempts') = Len(attempts) /\ attempts'[n] = row
  BY <1>4, <1>5, <1>6
<1> QED BY <1>2, <1>6, <1>7

LEMMA ProgressKeeps ==
  ASSUME FileResumeAssumption, IInv, NEW from, NEW to \in Phases, Progress(from, to)
  PROVE  IInv' /\ EditIsKnown
<1>1. /\ turn # None /\ turn.attempt # 0 /\ Phase(to)
      /\ UNCHANGED <<file, artifacts, checkpoint, turn, lost, refused>>
  BY DEF Progress, At
<1>2. /\ attempts' \in Seq(Attempts) /\ Len(attempts') = Len(attempts)
      /\ attempts'[turn.attempt].status = "running"
  BY <1>1, PhaseKeeps DEF IInv
<1>3. Typed' BY <1>1, <1>2 DEF IInv, Typed
<1>4. AttemptIsLast' /\ CallHolds' BY <1>1, <1>2 DEF IInv, AttemptIsLast, CallHolds
<1>5. turn' \in Runs BY <1>1, <1>3 DEF Typed
<1>6. LostIsKept' /\ ManifestsHold' /\ PoliciesHold' BY <1>1, <1>5, RunGoesOn
<1>7. EditIsKnown BY <1>1, NoEdit
<1> QED BY <1>3, <1>4, <1>6, <1>7 DEF IInv

\* An edit: no policy forbids it, which is what EditIsKnown comes to.
LEMMA EditKeeps ==
  ASSUME FileResumeAssumption, IInv, NEW tool \in Editing, NEW content \in Contents,
         Edit(tool, content)
  PROVE  IInv' /\ EditIsKnown
<1>1. /\ turn # None /\ turn.attempt # 0 /\ turn.call = None /\ ~Forbidden(tool)
      /\ file' = content
      /\ turn' = [turn EXCEPT !.call = [tool |-> tool, wrote |-> content, raced |-> FALSE],
                              !.read = FALSE]
      /\ UNCHANGED <<attempts, artifacts, checkpoint, lost, refused>>
  BY DEF Edit, At
<1>2. turn \in Runs BY <1>1 DEF IInv, Typed
<1>3. PICK call : call = [tool |-> tool, wrote |-> content, raced |-> FALSE] OBVIOUS
<1>4. call \in ToolCalls /\ call.tool = tool /\ call.wrote = content BY <1>3 DEF ToolCalls, Tools
<1>5. /\ turn' \in Runs /\ turn'.call = call /\ turn'.attempt = turn.attempt
      /\ turn'.policies = turn.policies /\ turn'.advice = turn.advice /\ turn'.found = turn.found
      /\ turn'.had = turn.had
  BY <1>1, <1>2, <1>3, <1>4 DEF Runs
<1>6. Typed' BY <1>1, <1>5 DEF IInv, Typed, Files
<1>7. AttemptIsLast' /\ CallHolds' BY <1>1, <1>4, <1>5 DEF IInv, AttemptIsLast, CallHolds
<1>8. LostIsKept' BY <1>1, <1>5 DEF IInv, LostIsKept
<1>9. ManifestsHold' BY <1>1 DEF IInv, ManifestsHold, Known
<1>10. PoliciesHold' BY <1>1, <1>5 DEF IInv, PoliciesHold, PolicyThen
<1>11. EditIsKnown
  <2> SUFFICES ASSUME NEW n \in 1 .. turn.had, n <= ArtifactLimit
               PROVE  NotRedone(n) /\ ReadFirst(n)
    BY DEF EditIsKnown
  <2>1. n \in 1 .. Len(artifacts) BY <1>1, <1>2 DEF IInv, PoliciesHold, Typed, Runs
  <2>2. artifacts[n] \in Artifacts /\ turn.found \in Files BY <1>2, <2>1 DEF IInv, Typed, Runs
  <2>3. ASSUME Known(n)
        PROVE  artifacts[n].wrote \in Contents /\ artifacts[n].saved = artifacts[n].wrote
    BY <2>1, <2>3 DEF IInv, ManifestsHold
  <2>4. ASSUME PolicyThen(n) # None
        PROVE  [action |-> PolicyThen(n), source |-> artifacts[n].tool] \in turn.policies
    BY <1>1, <2>4 DEF IInv, PoliciesHold
  <2>5. NotRedone(n)
    <3> SUFFICES ASSUME Known(n), artifacts[n].wrote \notin Big,
                        turn.found = artifacts[n].wrote, tool = artifacts[n].tool
                 PROVE  FALSE
      BY <1>4, <1>5 DEF NotRedone, Edits
    <3>1. PolicyThen(n) = "skip_redundant_mutation"
      BY <2>3, UnchangedIsSkipped DEF PolicyThen, Known
    <3>2. [action |-> PolicyThen(n), source |-> tool] \in turn.policies
      BY <2>4, <3>1 DEF FileResumeAssumption
    <3> QED BY <1>1, <3>1, <3>2 DEF Forbidden
  <2>6. ReadFirst(n)
    <3> SUFFICES ASSUME Known(n), turn.found # artifacts[n].wrote,
                        turn.found \notin Big, artifacts[n].wrote \notin Big
                 PROVE  turn.read
      BY DEF ReadFirst
    <3>1. PolicyThen(n) = "reinspect_before_mutation"
      BY <2>2, <2>3, ChangedIsReread DEF PolicyThen, Known
    <3>2. [action |-> PolicyThen(n), source |-> artifacts[n].tool] \in turn.policies
      BY <2>4, <3>1 DEF FileResumeAssumption
    <3> QED BY <1>1, <3>1, <3>2 DEF Forbidden
  <2> QED BY <2>5, <2>6
<1> QED BY <1>6, <1>7, <1>8, <1>9, <1>10, <1>11 DEF IInv

LEMMA ReadKeeps ==
  ASSUME FileResumeAssumption, IInv, Read
  PROVE  IInv' /\ EditIsKnown
<1>1. /\ turn # None /\ turn.attempt # 0 /\ turn.call = None
      /\ turn' = [turn EXCEPT !.call = [tool |-> "read_file", wrote |-> None, raced |-> FALSE],
                              !.read = TRUE]
      /\ UNCHANGED <<file, attempts, artifacts, checkpoint, lost, refused>>
  BY DEF Read, At
<1>2. turn \in Runs BY <1>1 DEF IInv, Typed
<1>3. PICK call : call = [tool |-> "read_file", wrote |-> None, raced |-> FALSE] OBVIOUS
<1>4. call \in ToolCalls /\ call.tool \notin Editing BY <1>3 DEF ToolCalls, Tools, Editing
<1>5. /\ turn' \in Runs /\ turn'.call = call /\ turn'.attempt = turn.attempt
      /\ turn'.policies = turn.policies /\ turn'.advice = turn.advice /\ turn'.found = turn.found
      /\ turn'.had = turn.had
  BY <1>1, <1>2, <1>3, <1>4 DEF Runs
<1>6. Typed' BY <1>1, <1>5 DEF IInv, Typed
<1>7. AttemptIsLast' /\ CallHolds' BY <1>1, <1>4, <1>5 DEF IInv, AttemptIsLast, CallHolds
<1>8. LostIsKept' BY <1>1, <1>5 DEF IInv, LostIsKept
<1>9. ManifestsHold' BY <1>1 DEF IInv, ManifestsHold, Known
<1>10. PoliciesHold' BY <1>1, <1>5 DEF IInv, PoliciesHold, PolicyThen
<1>11. EditIsKnown
  <2> SUFFICES ASSUME NEW n \in 1 .. turn.had PROVE NotRedone(n) /\ ReadFirst(n)
    BY DEF EditIsKnown
  <2>1. \A tool \in Editing : ~Edits(tool) BY <1>4, <1>5 DEF Edits
  <2> QED BY <2>1 DEF NotRedone, ReadFirst, Known
<1> QED BY <1>6, <1>7, <1>8, <1>9, <1>10, <1>11 DEF IInv

LEMMA RecordKeeps ==
  ASSUME FileResumeAssumption, IInv, Record
  PROVE  IInv' /\ EditIsKnown
<1>1. PICK row : row = [tool |-> turn.call.tool, saved |-> file, wrote |-> turn.call.wrote,
                        raced |-> turn.call.raced, policy |-> None]
  OBVIOUS
<1>2. /\ turn # None /\ turn.call # None /\ Len(artifacts) < MaxArtifacts
      /\ artifacts' = Append(artifacts, row)
      /\ Phase("tool_finished") /\ turn' = [turn EXCEPT !.call = None]
      /\ UNCHANGED <<file, checkpoint, lost, refused>>
  BY <1>1 DEF Record
<1>3. turn \in Runs /\ turn.call \in ToolCalls /\ turn.attempt # 0
  BY <1>2 DEF IInv, Typed, Runs, CallHolds
<1>4. /\ row \in Artifacts /\ row.tool = turn.call.tool /\ row.saved = file
      /\ row.wrote = turn.call.wrote /\ row.raced = turn.call.raced
  BY <1>1, <1>3 DEF Artifacts, ToolCalls, IInv, Typed
<1>5. artifacts \in Seq(Artifacts) /\ Len(artifacts) \in Nat BY DEF IInv, Typed
<1>6. /\ artifacts' \in Seq(Artifacts) /\ Len(artifacts') = Len(artifacts) + 1
      /\ \A n \in 1 .. Len(artifacts) : artifacts'[n] = artifacts[n]
      /\ artifacts'[Len(artifacts) + 1] = row
  BY <1>2, <1>4, <1>5
<1>7. /\ turn' \in Runs /\ turn'.call = None /\ turn'.attempt = turn.attempt
      /\ turn'.policies = turn.policies /\ turn'.advice = turn.advice /\ turn'.found = turn.found
      /\ turn'.had = turn.had
  BY <1>2, <1>3 DEF Runs
<1>8. "tool_finished" \in Phases BY DEF Phases
<1>9. /\ attempts' \in Seq(Attempts) /\ Len(attempts') = Len(attempts)
      /\ attempts'[turn.attempt].status = "running"
  BY <1>2, <1>3, <1>8, PhaseKeeps DEF IInv
<1>10. Typed' BY <1>2, <1>5, <1>6, <1>7, <1>9 DEF IInv, Typed, FileResumeAssumption
<1>11. AttemptIsLast' /\ CallHolds' BY <1>2, <1>3, <1>7, <1>9 DEF IInv, AttemptIsLast, CallHolds
<1>12. LostIsKept' BY <1>2, <1>7 DEF IInv, LostIsKept
<1>13. ManifestsHold'
  <2>1. ASSUME row.tool \in Editing, ~row.raced
        PROVE  row.wrote \in Contents /\ row.saved = row.wrote
    BY <2>1, <1>2, <1>4 DEF IInv, CallHolds
  <2> SUFFICES ASSUME NEW n \in 1 .. Len(artifacts) + 1, Known(n)'
               PROVE  artifacts'[n].wrote \in Contents /\ artifacts'[n].saved = artifacts'[n].wrote
    BY <1>6 DEF ManifestsHold
  <2>2. CASE n = Len(artifacts) + 1
    <3>1. artifacts'[n] = row BY <1>6, <2>2
    <3> QED BY <2>1, <3>1 DEF Known
  <2>3. CASE n \in 1 .. Len(artifacts)
    <3>1. artifacts'[n] = artifacts[n] BY <1>6, <2>3
    <3> QED BY <2>3, <3>1 DEF IInv, ManifestsHold, Known
  <2> QED BY <1>5, <2>2, <2>3
<1>14. PoliciesHold'
  <2>1. turn.had <= Len(artifacts) /\ turn.had \in Nat
    BY <1>2, <1>3 DEF IInv, PoliciesHold, Runs
  <2>2. \A n \in 1 .. turn.had : artifacts'[n] = artifacts[n] BY <1>5, <1>6, <2>1
  <2>3. \A n \in 1 .. turn.had : PolicyThen(n)' = PolicyThen(n)
    BY <1>7, <2>2 DEF PolicyThen
  <2>4. turn'.had <= Len(artifacts') BY <1>5, <1>6, <1>7, <2>1
  <2> QED BY <1>2, <1>7, <2>2, <2>3, <2>4 DEF IInv, PoliciesHold
<1>15. EditIsKnown BY <1>7, NoEdit
<1> QED BY <1>10, <1>11, <1>12, <1>13, <1>14, <1>15 DEF IInv

\* A run is over: what the lemmas say of the run at work is said of none.
LEMMA RunIsOver ==
  ASSUME IInv, turn' = None, UNCHANGED <<file, artifacts>>,
         attempts' \in Seq(Attempts), Len(attempts') = Len(attempts)
  PROVE  /\ Typed' /\ AttemptIsLast' /\ CallHolds' /\ ManifestsHold' /\ PoliciesHold'
         /\ EditIsKnown
<1>1. Typed' BY DEF IInv, Typed
<1>2. AttemptIsLast' /\ CallHolds' /\ PoliciesHold' BY DEF AttemptIsLast, CallHolds, PoliciesHold
<1>3. ManifestsHold' BY DEF IInv, ManifestsHold, Known
<1>4. EditIsKnown BY DEF EditIsKnown
<1> QED BY <1>1, <1>2, <1>3, <1>4

LEMMA EndsKeep ==
  ASSUME IInv, NEW from, NEW status \in {"running", "succeeded", "failed", "abandoned"},
         NEW phase \in Phases, Ends(from, status, phase)
  PROVE  IInv' /\ EditIsKnown
<1>1. PICK row : row = [status |-> status, phase |-> phase] OBVIOUS
<1>2. /\ turn # None /\ turn.attempt # 0 /\ turn' = None /\ lost' = None
      /\ attempts' = [attempts EXCEPT ![turn.attempt] = row]
      /\ UNCHANGED <<file, artifacts, checkpoint, refused>>
  BY <1>1 DEF Ends, At
<1>3. row \in Attempts /\ attempts \in Seq(Attempts) BY <1>1 DEF Attempts, IInv, Typed
<1>4. turn.attempt \in 1 .. Len(attempts) BY <1>2 DEF IInv, AttemptIsLast, Typed, Runs
<1>5. attempts' \in Seq(Attempts) /\ Len(attempts') = Len(attempts) BY <1>2, <1>3, <1>4
<1>6. LostIsKept' BY <1>2 DEF LostIsKept
<1> QED BY <1>2, <1>5, <1>6, RunIsOver DEF IInv

\* The attempt that goes is the latest of those that are "running".
LEMMA LatestIsLast ==
  ASSUME IInv, turn # None, turn.attempt # 0
  PROVE  LatestRunning = attempts[turn.attempt].phase
<1>1. /\ turn.attempt = Len(attempts) /\ attempts[turn.attempt].status = "running"
      /\ turn.attempt \in Nat /\ DOMAIN attempts = 1 .. Len(attempts)
  BY DEF IInv, AttemptIsLast, Typed, Runs
<1>2. turn.attempt \in Running BY <1>1 DEF Running
<1>3. \A n \in Running : n \in Nat /\ turn.attempt >= n BY <1>1 DEF Running
<1>4. Max(Running) = turn.attempt
  <2>1. \A n \in Running : (\A k \in Running : n >= k) => n = turn.attempt
    BY <1>1, <1>2, <1>3
  <2>2. \E n \in Running : \A k \in Running : n >= k BY <1>2, <1>3
  <2> QED BY <2>1, <2>2 DEF Max
<1> QED BY <1>2, <1>4 DEF LatestRunning

\* Without an attempt of its own, a run that is lost leaves nothing to go on from.
LEMMA RecoveredByLeaseKeeps ==
  ASSUME IInv, RecoveredByLease
  PROVE  IInv' /\ EditIsKnown
<1>1. /\ turn # None /\ lost' = (IF turn.attempt = 0 THEN None ELSE attempts[turn.attempt].phase)
      /\ turn' = None /\ checkpoint' = LatestRunning
      /\ UNCHANGED <<file, attempts, artifacts, refused>>
  BY DEF RecoveredByLease, Gone
<1>2. attempts' \in Seq(Attempts) /\ Len(attempts') = Len(attempts) BY <1>1 DEF IInv, Typed
<1>3. LostIsKept' BY <1>1, LatestIsLast DEF LostIsKept
<1> QED BY <1>1, <1>2, <1>3, RunIsOver DEF IInv

LEMMA RecoveredByExitKeeps ==
  ASSUME IInv, RecoveredByExit
  PROVE  IInv' /\ EditIsKnown
<1>1. PICK row : row = [status |-> "abandoned", phase |-> "subprocess_exited"] OBVIOUS
<1>2. /\ turn # None /\ lost' = (IF turn.attempt = 0 THEN None ELSE attempts[turn.attempt].phase)
      /\ turn' = None /\ UNCHANGED <<file, artifacts, refused>>
      /\ turn.attempt = 0 => UNCHANGED attempts
      /\ turn.attempt # 0 => /\ checkpoint' = attempts[turn.attempt].phase
                             /\ attempts' = [attempts EXCEPT ![turn.attempt] = row]
  BY <1>1 DEF RecoveredByExit, Gone
<1>3. row \in Attempts /\ attempts \in Seq(Attempts) BY <1>1 DEF Attempts, Phases, IInv, Typed
<1>4. turn.attempt = 0 \/ turn.attempt \in 1 .. Len(attempts)
  BY <1>2 DEF IInv, AttemptIsLast, Typed, Runs
<1>5. attempts' \in Seq(Attempts) /\ Len(attempts') = Len(attempts) BY <1>2, <1>3, <1>4
<1>6. LostIsKept' BY <1>2 DEF LostIsKept
<1> QED BY <1>2, <1>5, <1>6, RunIsOver DEF IInv

\* No artifact has a policy, so there is none to override.
LEMMA OverrideKeeps ==
  ASSUME IInv, NEW n \in DOMAIN artifacts, NEW override, Override(n, override)
  PROVE  IInv' /\ EditIsKnown
<1>1. artifacts[n].policy = None
  <2>1. n \in 1 .. Len(artifacts) BY DEF IInv, Typed
  <2>2. artifacts[n] \in Artifacts BY <2>1 DEF IInv, Typed
  <2> QED BY <2>2 DEF Artifacts
<1>2. UNCHANGED <<file, attempts, artifacts, checkpoint, turn, lost>> BY <1>1 DEF Override
<1>3. Typed' /\ AttemptIsLast' /\ LostIsKept' /\ CallHolds'
  BY <1>2 DEF IInv, Typed, AttemptIsLast, LostIsKept, CallHolds
<1>4. ManifestsHold' /\ PoliciesHold'
  BY <1>2 DEF IInv, ManifestsHold, Known, PoliciesHold, PolicyThen
<1>5. EditIsKnown BY <1>2, NoEdit
<1> QED BY <1>3, <1>4, <1>5 DEF IInv

LEMMA OtherWritesKeeps ==
  ASSUME IInv, OtherWrites
  PROVE  IInv' /\ EditIsKnown
<1>1. /\ file' \in Files /\ UNCHANGED <<attempts, artifacts, checkpoint, lost, refused>>
      /\ turn' = IF turn # None /\ turn.call # None THEN [turn EXCEPT !.call.raced = TRUE]
                 ELSE turn
  BY DEF OtherWrites
<1>2. CASE turn = None \/ turn.call = None
  <2>1. turn' = turn BY <1>1, <1>2
  <2>2. Typed' /\ AttemptIsLast' /\ LostIsKept' /\ CallHolds'
    BY <1>1, <1>2, <2>1 DEF IInv, Typed, AttemptIsLast, LostIsKept, CallHolds
  <2>3. ManifestsHold' /\ PoliciesHold'
    BY <1>1, <2>1 DEF IInv, ManifestsHold, Known, PoliciesHold, PolicyThen
  <2>4. EditIsKnown BY <1>2, <2>1, NoEdit
  <2> QED BY <2>2, <2>3, <2>4 DEF IInv
<1>3. CASE turn # None /\ turn.call # None
  <2>1. turn \in Runs /\ turn.call \in ToolCalls BY <1>3 DEF IInv, Typed, Runs
  <2>2. PICK call : call = [turn.call EXCEPT !.raced = TRUE] OBVIOUS
  <2>3. call \in ToolCalls /\ call.raced BY <2>1, <2>2 DEF ToolCalls
  <2>4. turn' = [turn EXCEPT !.call = call] BY <1>1, <1>3, <2>2
  <2>5. /\ turn' \in Runs /\ turn'.call = call /\ turn'.attempt = turn.attempt
        /\ turn'.policies = turn.policies /\ turn'.advice = turn.advice
        /\ turn'.found = turn.found /\ turn'.had = turn.had
    BY <2>1, <2>3, <2>4 DEF Runs
  <2>6. Typed' BY <1>1, <2>5 DEF IInv, Typed
  <2>7. AttemptIsLast' /\ CallHolds' /\ LostIsKept'
    BY <1>1, <1>3, <2>3, <2>5 DEF IInv, AttemptIsLast, CallHolds, LostIsKept
  <2>8. ManifestsHold' BY <1>1 DEF IInv, ManifestsHold, Known
  <2>9. PoliciesHold' BY <1>1, <1>3, <2>5 DEF IInv, PoliciesHold, PolicyThen
  <2>10. EditIsKnown BY <1>3, NoEdit
  <2> QED BY <2>6, <2>7, <2>8, <2>9, <2>10 DEF IInv
<1> QED BY <1>2, <1>3

----------------------------------------------------------------------------
(* The theorems.                                                           *)

LEMMA Begins ==
  ASSUME FileResumeAssumption, Init
  PROVE  IInv
BY DEF FileResumeAssumption, Init, IInv, Typed, AttemptIsLast, LostIsKept, CallHolds,
       ManifestsHold, PoliciesHold

LEMMA Moves ==
  ASSUME FileResumeAssumption, IInv, Next
  PROVE  IInv' /\ EditIsKnown
<1>1. /\ "context_built" \in Phases /\ "model_turn_started" \in Phases
      /\ "assistant_message_received" \in Phases /\ "failed" \in Phases /\ "completed" \in Phases
  BY DEF Phases
<1>2. CASE BuildContext BY <1>2, BuildContextKeeps
<1>3. CASE CreateAttempt BY <1>3, CreateAttemptKeeps
<1>4. CASE Progress({"context_built"}, "model_turn_started") BY <1>1, <1>4, ProgressKeeps
<1>5. CASE Progress(InTurn, "assistant_message_received") BY <1>1, <1>5, ProgressKeeps
<1>6. CASE \E tool \in Editing, content \in Contents : Edit(tool, content) BY <1>6, EditKeeps
<1>7. CASE Read BY <1>7, ReadKeeps
<1>8. CASE Record BY <1>8, RecordKeeps
<1>9. CASE Ends(InTurn, "failed", "failed") BY <1>1, <1>9, EndsKeep
<1>10. CASE Ends({"assistant_message_received"}, "succeeded", "completed")
  BY <1>1, <1>10, EndsKeep
<1>11. CASE RecoveredByLease BY <1>11, RecoveredByLeaseKeeps
<1>12. CASE RecoveredByExit BY <1>12, RecoveredByExitKeeps
<1>13. CASE \E n \in DOMAIN artifacts, override \in Overrides : Override(n, override)
  BY <1>13, OverrideKeeps
<1>14. CASE OtherWrites BY <1>14, OtherWritesKeeps
<1> QED BY <1>2, <1>3, <1>4, <1>5, <1>6, <1>7, <1>8, <1>9, <1>10, <1>11, <1>12, <1>13, <1>14
        DEF Next

LEMMA Stutters ==
  ASSUME IInv, UNCHANGED vars
  PROVE  IInv' /\ EditIsKnown
<1>1. Typed' /\ AttemptIsLast' /\ LostIsKept' /\ CallHolds'
  BY DEF vars, IInv, Typed, AttemptIsLast, LostIsKept, CallHolds
<1>2. ManifestsHold' /\ PoliciesHold'
  BY DEF vars, IInv, ManifestsHold, Known, PoliciesHold, PolicyThen
<1>3. turn' = turn BY DEF vars
<1> QED BY <1>1, <1>2, <1>3, NoEdit DEF IInv

LEMMA Types ==
  ASSUME FileResumeAssumption, IInv
  PROVE  TypeOK
<1>1. Len(attempts) \in Nat /\ Len(artifacts) \in Nat BY DEF IInv, Typed
<1>2. \A n \in DOMAIN attempts : attempts[n] \in Attempts BY DEF IInv, Typed
<1>3. turn = None \/ turn.attempt \in 0 .. Len(attempts)
  BY <1>1 DEF IInv, AttemptIsLast, Typed, Runs
<1> QED BY <1>1, <1>2, <1>3 DEF IInv, Typed, TypeOK, Attempts, FileResumeAssumption

LEMMA Resumes ==
  ASSUME IInv
  PROVE  ResumesWhereLost
BY DEF IInv, LostIsKept, ResumesWhereLost

\* The invariant: the attempt at work is the last one, what was lost is in the
\* checkpoint, the manifest of an edit is of what it wrote, and a run has the
\* policies of the artifacts its context was built from (build_worker_context,
\* record_tool_artifact, recover_stale_running_tasks, _recover_process_loss).
THEOREM FileHolds == ASSUME FileResumeAssumption PROVE Spec => []IInv
<1>1. Init => IInv BY Begins
<1>2. IInv /\ [Next]_vars => IInv' BY Moves, Stutters
<1> QED BY <1>1, <1>2, PTL DEF Spec

THEOREM TypeCorrect == ASSUME FileResumeAssumption PROVE Spec => []TypeOK
<1>1. IInv => TypeOK BY Types
<1> QED BY <1>1, FileHolds, PTL

\* Of every edit that was recorded before anybody else wrote, that is among the
\* ArtifactLimit oldest artifacts when a context is built, and whose content is
\* small enough to be hashed: a run that found the file as this edit left it does
\* not edit it with the same tool, and one that found it different reads it before
\* it edits it (worker_file_resume_policies_from_artifacts,
\* _file_resume_policy_decision).  Nothing is said of other edits.
THEOREM EditsAreKnown == ASSUME FileResumeAssumption PROVE Spec => EditsKnown
<1>1. IInv /\ [Next]_vars => EditIsKnown BY Moves, Stutters
<1>2. IInv /\ [Next]_vars => [EditIsKnown]_vars BY <1>1
<1> QED BY <1>2, FileHolds, PTL DEF Spec, EditsKnown

\* A run that follows a lost one is told to go on from where that one was, whichever
\* way it was found out (_latest_running_attempt_checkpoint, previousCheckpoint).
THEOREM ResumedWhereLost == ASSUME FileResumeAssumption PROVE Spec => []ResumesWhereLost
<1>1. IInv => ResumesWhereLost BY Resumes
<1> QED BY <1>1, FileHolds, PTL
=============================================================================
