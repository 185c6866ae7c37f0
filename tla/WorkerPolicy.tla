---------------------------- MODULE WorkerPolicy ----------------------------
(***************************************************************************)
(* packages/amadeus/worker_policy.py: what tools a task's worker is given, *)
(* and which of its actions need no approval.  What the patterns find in a *)
(* command, a path or a URL is part of the input.                          *)
(***************************************************************************)
EXTENDS Naturals, FiniteSets

CONSTANT None

Profiles == {"researcher", "planner", "coder", "reviewer", "synthesizer"}

Toolsets == {"read", "search", "memory", "web", "plan", "task", "skills", "patch",
             "write", "terminal", "code", "browser", "vision"}

ProfilePolicy ==
  [researcher |-> {"read", "search", "memory", "web"},
   planner |-> {"read", "search", "memory", "plan", "task", "skills"},
   coder |-> Toolsets \ {"plan", "task"},
   reviewer |-> {"read", "search", "memory"},
   synthesizer |-> {"read", "memory"}]

ProfileDefault ==
  [researcher |-> {"read", "search", "memory", "web"},
   planner |-> {"read", "search", "memory", "plan"},
   coder |-> {"read", "search", "memory", "patch"},
   reviewer |-> {"read", "search", "memory"},
   synthesizer |-> {"read", "memory"}]

BaseTools == {"get_current_time", "clarify"}

\* The thirteen browser tools are one.
ToolsOf ==
  [read |-> {"search_files", "read_file", "read_session_messages"},
   search |-> {"search_files", "search_memory"},
   memory |-> {"search_memory", "search_memory_items", "read_memory"},
   web |-> {"web_search", "web_extract"}, plan |-> {"update_plan"},
   task |-> {"create_task", "list_tasks", "cancel_task"},
   skills |-> {"skills_list", "skill_view"}, patch |-> {"patch"},
   write |-> {"write_file"}, terminal |-> {"terminal", "process"},
   code |-> {"execute_code"}, browser |-> {"browser"}, vision |-> {"vision_analyze"}]

Mutates == {"patch", "write_file"}
Executes == {"terminal", "process", "execute_code"}

----------------------------------------------------------------------------
(* The scope of a task: [profile, toolsets, disallowed, sandbox].          *)

ProfileOf(task) == IF task.profile \in Profiles THEN task.profile ELSE "planner"

\* Mutant of ToolsetsFor: an explicit choice is taken as it is.
ToolsetsForUnfiltered(task) ==
  IF task.toolsets # {} THEN task.toolsets ELSE ProfileDefault[ProfileOf(task)]

\* worker_toolsets_for_task.
ToolsetsFor(task) ==
  LET filtered == task.toolsets \intersect ProfilePolicy[ProfileOf(task)]
  IN IF filtered # {} THEN filtered ELSE ProfileDefault[ProfileOf(task)]

\* worker_sandbox_mode_for_task.
SandboxFor(task) ==
  IF task.sandbox \in {"read_only", "workspace_write", "workspace_execute"} THEN task.sandbox
  ELSE IF ProfileOf(task) = "coder" THEN "workspace_write" ELSE "read_only"

\* worker_sandbox_allows_tool_name.
SandboxAllows(mode, tool) ==
  CASE mode = "workspace_execute" -> TRUE
    [] mode = "workspace_write" -> tool \notin Executes
    [] OTHER -> tool \notin Mutates \union Executes

\* worker_tool_names_for_task and worker_tool_names_for_sandbox.
ToolsFor(task) ==
  LET named == (BaseTools \union UNION {ToolsOf[s] : s \in ToolsetsFor(task)}) \ task.disallowed
  IN {tool \in named : SandboxAllows(SandboxFor(task), tool)}

\* The approvals in a task's checkpoint count only while it is resumed for
\* them; tools by name only when no action is named.
ApprovedActions(checkpoint) == IF checkpoint.resuming THEN checkpoint.actions ELSE {}
ApprovedTools(checkpoint) ==
  IF checkpoint.resuming /\ checkpoint.actions = {} THEN checkpoint.tools ELSE {}

\* build_worker_runtime_scope.
Scope(task, checkpoint) ==
  [profile |-> ProfileOf(task), tools |-> ToolsFor(task),
   approvedTools |-> ApprovedTools(checkpoint) \intersect ToolsFor(task),
   approvedActions |-> ApprovedActions(checkpoint),
   expired |-> IF checkpoint.resuming THEN checkpoint.expired ELSE {}]

----------------------------------------------------------------------------
(* Actions and their risk.                                                 *)

HighRisk == {"destructive", "installer", "network_script", "privileged", "sensitive_data",
             "sensitive_path", "workspace_external_path", "whole_file_write", "bulk_replace"}
Blocking == HighRisk \union {"insecure_transport", "unknown_target"}

\* worker_action_policy of a process call: an action and whether its pid is one.
ProcessLabels(a) ==
  (IF a.does \in {"kill", "signal"} THEN {"destructive", "process_signal"}
                                    ELSE {"local_process_inspection"})
    \union IF a.does \in {"kill", "signal", "status"} /\ ~a.target
             THEN {"unknown_target"} ELSE {}

\* _file_action_risk_labels.
FileLabels(a) ==
  (IF a.tool \in Mutates THEN {"workspace_mutation"} ELSE {"local_file_exposure"})
    \union (IF a.tool = "write_file" THEN {"whole_file_write"} ELSE {})
    \union (IF a.tool = "patch" /\ a.does = "all" THEN {"bulk_replace"} ELSE {})
    \union a.found

\* worker_action_policy: the risk labels of an action.
Labels(a) ==
  CASE a.tool = "terminal" -> {"shell_command"} \union a.found
    [] a.tool = "process" -> ProcessLabels(a)
    [] a.tool \in {"patch", "write_file", "read_file", "vision_analyze"} -> FileLabels(a)
    [] a.tool = "web_extract" -> {"external_content"} \union a.found
    [] OTHER -> {"ask_tool"}

\* _risk_level_for_labels with each tool's default.
Risk(a) ==
  IF Labels(a) \intersect HighRisk # {} THEN "high"
  ELSE IF a.tool \in {"read_file", "vision_analyze"} THEN "low" ELSE "medium"

AutoApproved ==
  [p \in Profiles |-> CASE p = "researcher" -> {"web_extract"} [] p = "coder" -> {"patch"}
                        [] OTHER -> {}]

Harmless(a) == Risk(a) # "high" /\ Labels(a) \intersect Blocking = {}

\* Mutant of Decision: an approval has no end.
DecisionForEver(scope, a, permission) ==
  IF scope = None \/ permission # "ask" THEN "prompt"
  ELSE IF a.key \in scope.approvedActions /\ a.tool \in scope.tools THEN "auto_approve"
  ELSE "deny"

\* worker_action_permission_decision.
Decision(scope, a, permission) ==
  IF scope = None \/ permission # "ask" THEN "prompt"
  ELSE IF a.key \in scope.approvedActions /\ a.tool \in scope.tools
    THEN IF a.key \in scope.expired THEN "deny" ELSE "auto_approve"
  ELSE IF /\ \/ a.tool \in scope.approvedTools
             \/ a.tool \in AutoApproved[scope.profile] /\ a.tool \in scope.tools
          /\ Harmless(a)
    THEN "auto_approve" ELSE "deny"

----------------------------------------------------------------------------
\* Whatever a task asks for, its worker gets no tool its profile's policy does
\* not reach, none that was disallowed, and none its sandbox keeps out; and it
\* is never left without a toolset.
ScopeWithinPolicy(task) ==
  /\ ToolsetsFor(task) # {} /\ ToolsetsFor(task) \subseteq ProfilePolicy[ProfileOf(task)]
  /\ \A tool \in ToolsFor(task) :
       /\ tool \in BaseTools
            \/ \E s \in ProfilePolicy[ProfileOf(task)] : tool \in ToolsOf[s]
       /\ tool \notin task.disallowed
       /\ SandboxFor(task) = "read_only" => tool \notin Mutates \union Executes

\* An action goes ahead unasked only with a tool of the scope, and only if this
\* very action was approved for this resumption and the approval has not
\* expired, or it is neither of high risk nor of an unknown target.
UnaskedIsCovered(task, checkpoint, a) ==
  LET scope == Scope(task, checkpoint) IN
    Decision(scope, a, "ask") = "auto_approve" =>
      /\ a.tool \in scope.tools
      /\ \/ checkpoint.resuming /\ a.key \in checkpoint.actions \ checkpoint.expired
         \/ Labels(a) \intersect (HighRisk \union {"unknown_target"}) = {}
=============================================================================
