----------------------------- MODULE FileResume -----------------------------
(***************************************************************************)
(* What the next attempt of a task knows of the work of the attempts       *)
(* before it (packages/amadeus/workers.py, memory.py): the checkpoint of   *)
(* the attempt that was lost, and the artifacts of its tool calls, whose   *)
(* file manifests are compared with the workspace and become the policies  *)
(* the guardrail of the turn enforces (ToolLoop has the guardrail itself). *)
(* One task and one file; what other tasks and users write in the shared   *)
(* workspace is OtherWrites.                                               *)
(***************************************************************************)
EXTENDS Naturals, Sequences, FiniteSetsExt

CONSTANTS
  Contents,       \* of the file
  Big,            \* those above WORKER_FILE_MANIFEST_MAX_BYTES, which are not hashed
  ArtifactLimit,  \* WORKER_CONTEXT_TASK_ARTIFACT_LIMIT, 8 in the code
  MaxAttempts, MaxArtifacts,  \* bounds
  None

FileResumeAssumption ==
  /\ Big \subseteq Contents /\ "missing" \notin Contents
  /\ ArtifactLimit \in Nat /\ MaxAttempts \in Nat /\ MaxArtifacts \in Nat
  /\ None \notin {"skip_redundant_mutation", "reinspect_before_mutation"}

VARIABLES
  file,        \* the file in the workspace
  attempts,    \* task_attempts: status and the phase of the checkpoint
  artifacts,   \* task_artifacts of tool calls, in the order of created_at
  checkpoint,  \* tasks.checkpoint_json: the phase in resumeFrom, if any
  turn,        \* the run at work: its attempt, context and tool call
  lost,        \* history: the phase of the run that was lost last
  refused      \* history: an override of a policy was asked for and refused

vars == <<file, attempts, artifacts, checkpoint, turn, lost, refused>>

Files == Contents \union {"missing"}
Editing == {"patch", "write_file"}
Overrides == {"force_rerun", "ignore_artifact", "accept_current_state", None}

Init ==
  /\ file \in Files
  /\ attempts = <<>> /\ artifacts = <<>>
  /\ checkpoint = None /\ turn = None /\ lost = None /\ refused = FALSE

----------------------------------------------------------------------------
(* Manifests and policies.                                                 *)

\* Mutant of Verified: nothing is known of a file that is gone.
VerifiedPresent(saved, now) ==
  IF {saved, now} \intersect (Big \union {"missing"}) # {} THEN "unverifiable"
  ELSE IF saved = now THEN "unchanged" ELSE "changed"

\* _verify_file_manifest, of one entry.
Verified(saved, now) ==
  IF "missing" \notin {saved, now} /\ {saved, now} \intersect Big # {} THEN "unverifiable"
  ELSE IF saved = now THEN "unchanged" ELSE "changed"

\* _artifact_resume_metadata: resumeKind.
Kind(tool) == IF tool \in Editing THEN "file_state" ELSE "file_observation"

\* _file_resume_policy.
Policy(artifact, status) ==
  CASE Kind(artifact.tool) = "file_state" /\ status = "unchanged" -> "skip_redundant_mutation"
    [] Kind(artifact.tool) = "file_state" /\ status = "changed" -> "reinspect_before_mutation"
    [] Kind(artifact.tool) = "file_observation" /\ status = "unchanged" -> "reuse_observation"
    [] Kind(artifact.tool) = "file_observation" /\ status = "changed" -> "refresh_context"
    [] OTHER -> None

\* list_task_artifacts: the first ones.
Listed == {n \in DOMAIN artifacts : n <= ArtifactLimit}

\* _enrich_artifacts_with_manifest_verification, worker_file_resume_policies_from_artifacts:
\* a policy is made anew for every context; it has no override.
PolicyNow(n) == Policy(artifacts[n], Verified(artifacts[n].saved, file))

Policies == {[action |-> PolicyNow(n), source |-> artifacts[n].tool] :
               n \in {k \in Listed : PolicyNow(k) # None}}

\* _file_resume_policy_decision, for a policy without override.
Forbidden(tool) ==
  \E p \in turn.policies :
    \/ p.action = "skip_redundant_mutation" /\ p.source = tool
    \/ p.action = "reinspect_before_mutation" /\ ~turn.read

\* _resume_strategy_for_checkpoint.
Advice(phase) ==
  CASE phase = None -> "nothing"
    [] phase \in {"assistant_message_received", "completed", "blocked_for_review"} -> "verify"
    [] phase \in {"model_turn_started", "model_turn_starting", "scope_validated",
                  "context_built"} -> "continue"
    [] phase \in {"error_received", "failed"} -> "change_approach"
    [] phase \in {"cancelled", "turn_cancelled", "subprocess_exited"} -> "conservatively"
    [] OTHER -> "use_context"

----------------------------------------------------------------------------
(* A run.                                                                  *)

Over == \E n \in DOMAIN attempts : attempts[n].status = "succeeded"

\* build_worker_context.
BuildContext ==
  /\ turn = None /\ ~Over
  /\ turn' = [attempt |-> 0, policies |-> Policies, advice |-> Advice(checkpoint),
              found |-> file, had |-> Len(artifacts), read |-> FALSE, call |-> None]
  /\ UNCHANGED <<file, attempts, artifacts, checkpoint, lost, refused>>

\* create_task_attempt.
CreateAttempt ==
  /\ turn # None /\ turn.attempt = 0 /\ Len(attempts) < MaxAttempts
  /\ attempts' = Append(attempts, [status |-> "running", phase |-> "context_built"])
  /\ turn' = [turn EXCEPT !.attempt = Len(attempts) + 1]
  /\ UNCHANGED <<file, artifacts, checkpoint, lost, refused>>

At(phases) ==
  turn # None /\ turn.attempt # 0 /\ turn.call = None /\ attempts[turn.attempt].phase \in phases

\* heartbeat_task_attempt, with a checkpoint.
Phase(p) == attempts' = [attempts EXCEPT ![turn.attempt].phase = p]

Progress(from, to) ==
  /\ At(from)
  /\ Phase(to)
  /\ UNCHANGED <<file, artifacts, checkpoint, turn, lost, refused>>

InTurn == {"model_turn_started", "tool_finished"}

\* patch, write_file; a change moves the workspace epoch, and with it what was
\* read is out of date.
Edit(tool, content) ==
  /\ At(InTurn)
  /\ content # file /\ ~Forbidden(tool)
  /\ file' = content
  /\ turn' = [turn EXCEPT !.call = [tool |-> tool, wrote |-> content, raced |-> FALSE],
                          !.read = FALSE]
  /\ UNCHANGED <<attempts, artifacts, checkpoint, lost, refused>>

Read ==
  /\ At(InTurn)
  /\ file # "missing"
  /\ turn' = [turn EXCEPT !.call = [tool |-> "read_file", wrote |-> None, raced |-> FALSE],
                          !.read = TRUE]
  /\ UNCHANGED <<file, attempts, artifacts, checkpoint, lost, refused>>

\* record_tool_artifact: the manifest is taken when the event of the tool arrives.
Record ==
  /\ turn # None /\ turn.call # None /\ Len(artifacts) < MaxArtifacts
  /\ artifacts' = Append(artifacts, [tool |-> turn.call.tool, saved |-> file,
                                     wrote |-> turn.call.wrote, raced |-> turn.call.raced,
                                     policy |-> None])
  /\ Phase("tool_finished")
  /\ turn' = [turn EXCEPT !.call = None]
  /\ UNCHANGED <<file, checkpoint, lost, refused>>

\* finish_task_attempt; a retry keeps the checkpoint of the task.
Ends(from, status, phase) ==
  /\ At(from)
  /\ attempts' = [attempts EXCEPT ![turn.attempt] = [status |-> status, phase |-> phase]]
  /\ turn' = None /\ lost' = None
  /\ UNCHANGED <<file, artifacts, checkpoint, refused>>

----------------------------------------------------------------------------
(* A run whose process is gone, at any of its steps.                       *)

Gone ==
  /\ turn # None
  /\ lost' = IF turn.attempt = 0 THEN None ELSE attempts[turn.attempt].phase
  /\ turn' = None
  /\ UNCHANGED <<file, artifacts, refused>>

Running == {n \in DOMAIN attempts : attempts[n].status = "running"}

\* Mutant of LatestRunning: ORDER BY started_at.
EarliestRunning == IF Running = {} THEN None ELSE attempts[Min(Running)].phase

\* _latest_running_attempt_checkpoint.
LatestRunning == IF Running = {} THEN None ELSE attempts[Max(Running)].phase

\* recover_stale_running_tasks, when its lease ran out: the attempt stays "running".
RecoveredByLease ==
  /\ Gone
  /\ checkpoint' = LatestRunning
  /\ UNCHANGED attempts

\* _recover_process_loss: the attempt of this run is abandoned, and its phase
\* goes to the checkpoint through previousCheckpoint.
RecoveredByExit ==
  /\ Gone
  /\ IF turn.attempt = 0
       THEN checkpoint' = None /\ UNCHANGED attempts
       ELSE /\ checkpoint' = attempts[turn.attempt].phase
            /\ attempts' = [attempts EXCEPT ![turn.attempt] =
                              [status |-> "abandoned", phase |-> "subprocess_exited"]]

OtherWrites ==
  /\ \E content \in Files \ {file} : file' = content
  /\ turn' = IF turn # None /\ turn.call # None THEN [turn EXCEPT !.call.raced = TRUE] ELSE turn
  /\ UNCHANGED <<attempts, artifacts, checkpoint, lost, refused>>

\* set_task_artifact_file_resume_override: of the policy stored with the artifact.
\* Nothing stores one: contexts only compute them.
Override(n, override) ==
  /\ IF artifacts[n].policy = None
       THEN /\ refused' = (refused \/ PolicyNow(n) # None)
            /\ UNCHANGED artifacts
       ELSE /\ artifacts' = [artifacts EXCEPT ![n].policy.override = override]
            /\ UNCHANGED refused
  /\ UNCHANGED <<file, attempts, checkpoint, turn, lost>>

Next ==
  \/ BuildContext \/ CreateAttempt
  \/ Progress({"context_built"}, "model_turn_started")
  \/ Progress(InTurn, "assistant_message_received")
  \/ \E tool \in Editing, content \in Contents : Edit(tool, content)
  \/ Read \/ Record
  \/ Ends(InTurn, "failed", "failed")
  \/ Ends({"assistant_message_received"}, "succeeded", "completed")
  \/ RecoveredByLease \/ RecoveredByExit
  \/ \E n \in DOMAIN artifacts, override \in Overrides : Override(n, override)
  \/ OtherWrites

Spec == Init /\ [][Next]_vars

----------------------------------------------------------------------------
(* Properties.                                                             *)

TypeOK ==
  /\ file \in Files
  /\ Len(attempts) \in 0 .. MaxAttempts /\ Len(artifacts) \in 0 .. MaxArtifacts
  /\ \A n \in DOMAIN attempts :
       attempts[n].status \in {"running", "succeeded", "failed", "abandoned"}
  /\ turn = None \/ turn.attempt \in 0 .. Len(attempts)

\* The edit an artifact is of, unless somebody else wrote before it was recorded.
Known(n) == artifacts[n].tool \in Editing /\ ~artifacts[n].raced

Edits(tool) == turn # None /\ turn.call = None /\ turn'.call # None /\ turn'.call.tool = tool

\* A run that finds the file as an edit of an earlier attempt left it does not
\* edit it with this tool again, ...
NotRedone(n) ==
  Known(n) /\ artifacts[n].wrote \notin Big /\ turn.found = artifacts[n].wrote
    => ~Edits(artifacts[n].tool)

\* ... and one that finds it different reads it before it edits it.
ReadFirst(n) ==
  /\ Known(n)
  /\ turn.found # artifacts[n].wrote /\ {turn.found, artifacts[n].wrote} \cap Big = {}
  /\ \E tool \in Editing : Edits(tool)
  => turn.read

\* Every edit of a resumed attempt takes into account the recorded edits that its
\* context has: those among the ArtifactLimit oldest artifacts when it was built.
\* Of edits that were raced, or of contents too big to hash, nothing is said.
EditIsKnown == turn # None /\ turn' # None =>
  \A n \in 1 .. turn.had : n <= ArtifactLimit => NotRedone(n) /\ ReadFirst(n)

EditsKnown == [][EditIsKnown]_vars

\* The user interface can set and clear the override of the policy an artifact has
\* (docs/project-status.md:531).  Not so: workers.py:1953 gives the policy to a copy
\* made for one context, and memory.py:2883 looks for it in the stored artifact.
OverrideHeard == ~refused

\* A run that follows a lost one is told to go on from where that one was,
\* whichever attempts before were left "running".
ResumesWhereLost == turn # None /\ lost # None => turn.advice = Advice(lost)
=============================================================================
