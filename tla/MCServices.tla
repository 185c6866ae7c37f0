----------------------------- MODULE MCServices -----------------------------
(***************************************************************************)
(* Small instances of the parts in Services: two threads each, and every    *)
(* input of a small set for the pure functions.                            *)
(***************************************************************************)
EXTENDS Services

LoopCall(tool, path, key, rest) == [tool |-> tool, path |-> path, key |-> key, rest |-> rest]

CallsTried ==
  {LoopCall("patch", "f", "o", "a"), LoopCall("patch", "f", "o", "b"),
   LoopCall("read_file", "f", "w", "a"), LoopCall("terminal", None, "c", "a")}

LoopPolicy(override, action) ==
  [paths |-> {"f"}, override |-> override, action |-> action, source |-> "patch"]

PoliciesGiven ==
  {<<>>, <<LoopPolicy(None, "reinspect_before_mutation")>>,
   <<LoopPolicy("ignore_artifact", "reinspect_before_mutation"),
     LoopPolicy(None, "skip_redundant_mutation")>>}

\* One update of every kind, and one of both parts of the configuration.
Updates ==
  {<<<<"env", "llm">>, <<"providers", "b">>, <<"runtime", "x">>>>, <<<<"runtime", "y">>>>,
   <<<<"env", "tts">>, <<"providers", "tts">>>>, <<<<"tools", "mcp">>>>,
   <<<<"env", "embedding">>, <<"providers", "embedding">>>>}

Matches == UNION {[1 .. n -> [session : {"s1", "s2"}, same : BOOLEAN]] : n \in 0 .. 6}

ItemsKept ==
  UNION {[1 .. n -> [vector : {-1, 0, 1}, text : 0 .. 1, known : {0}, live : BOOLEAN,
                     updated : 0 .. 1]] : n \in 0 .. 3}

Recalls ==
  [matches : Matches, items : {<<>>},
   provider : {"builtin", "hybrid", "external", "fails"}, summary : {0, 2}]
    \union [matches : {<<>>}, items : ItemsKept, provider : {"hybrid"}, summary : {0}]

Moments ==
  {[text |-> x, now |-> n] :
     x \in Times!Texts({0, 2}, {0, 1, 28, 29, 30, 31, 32}, {{1}, {0, 6}, {7}}), n \in 0 .. 240}

PolicyTasks ==
  [profile : {"researcher", "planner", "coder", "reviewer", "other"},
   toolsets : {{}, {"read", "terminal"}, {"patch", "write", "plan"}, {"web"}, {"code"}, {"task"}},
   disallowed : {{}, {"patch", "read_file"}},
   sandbox : {None, "read_only", "workspace_write", "workspace_execute"}]

Checkpoints ==
  [resuming : BOOLEAN, actions : SUBSET {"k1"}, expired : SUBSET {"k1"},
   tools : {{}, {"patch", "terminal", "web_extract"}}]

Actions ==
  [tool : {"terminal", "patch", "web_extract", "read_file", "execute_code"}, key : {"k1", "k2"},
   does : {"all", "one"}, found : {{}, {"destructive"}, {"unknown_target"}}, target : {TRUE}]
    \union [tool : {"process"}, key : {"k1"}, does : {"kill", "status", "list"}, found : {{}},
            target : BOOLEAN]

Scopes == [task : PolicyTasks, checkpoint : Checkpoints]

PlanTask(id, profile, toolsets, after) ==
  [id |-> id, title |-> TRUE, profile |-> profile, toolsets |-> toolsets, after |-> after]

\* Three tasks with every dependency between them, and two of every policy.
Graphs ==
  {[tasks |-> <<PlanTask("a", None, {}, x[1]), PlanTask("b", None, {}, x[2]),
                PlanTask("c", None, {}, x[3])>>,
    edges |-> e, max |-> 3] :
      x \in [1 .. 3 -> SUBSET {"a", "b", "c"}],
      e \in {<<>>} \union [1 .. 1 -> [from : {"a"}, to : {"c", "d"},
                                     type : {"blocks", "soft"}, needs : {"failed"}]]}
    \union
  {[tasks |-> <<PlanTask(i, p, s, {}), PlanTask("b", q, s, {})>>, edges |-> <<>>, max |-> m] :
      i \in {"a", "b"}, m \in 1 .. 2, p \in {None, "coder", "reviewer"},
      q \in {"planner", "pilot"}, s \in {{}, {"read"}, {"plan"}, {"read", "patch"}, {"air"}}}

\* The first days of the months, from a January to the end of the next year's March.
Months == <<0, 31, 59, 90, 120, 151, 181, 212, 243, 273, 304, 334, 365, 396, 424, 455>>
=============================================================================
