----------------------------- MODULE TaskPlans -----------------------------
(***************************************************************************)
(* validate_graph of packages/amadeus/orchestrator.py: what a planned task *)
(* graph has to be before it is applied.  A raw graph is a sequence of     *)
(* tasks [id, title, profile, toolsets, after] and one of edges [from, to, *)
(* type, needs]; texts are left out.                                       *)
(***************************************************************************)
EXTENDS Integers, Sequences, FiniteSets

CONSTANT None

Policy == INSTANCE WorkerPolicy

\* GraphTaskSpec and GraphEdgeSpec, before anything is checked.
RawGraphs ==
  [tasks : Seq([id : STRING, title : BOOLEAN, profile : {None} \union STRING,
                toolsets : SUBSET STRING, after : SUBSET STRING]),
   edges : Seq([from : STRING, to : STRING, type : STRING, needs : STRING]), max : Int]

Ids(tasks) == {tasks[i].id : i \in DOMAIN tasks}

\* _parse_tasks.
TasksParse(tasks, maxChildren) ==
  /\ tasks # <<>>
  /\ Len(tasks) <= (IF maxChildren > 1 THEN maxChildren ELSE 1)
  /\ \A i, j \in DOMAIN tasks : tasks[i].id = tasks[j].id => i = j
  /\ \A i \in DOMAIN tasks : tasks[i].title

ProfileIn(task) == IF task.profile = None THEN "planner" ELSE task.profile

\* _normalize_and_validate_task_policies.
PoliciesHold(tasks) ==
  \A i \in DOMAIN tasks :
    /\ ProfileIn(tasks[i]) \in Policy!Profiles
    /\ tasks[i].toolsets \subseteq Policy!Toolsets
    /\ tasks[i].toolsets \subseteq Policy!ProfilePolicy[ProfileIn(tasks[i])]

Normalized(task) ==
  [task EXCEPT !.profile = ProfileIn(task),
               !.toolsets = IF task.toolsets = {} THEN Policy!ProfileDefault[ProfileIn(task)]
                                                  ELSE task.toolsets]

\* _parse_edges: the edges of dependsOn come first.
EdgesKnown(tasks, edges) ==
  /\ \A i \in DOMAIN tasks : tasks[i].after \subseteq Ids(tasks)
  /\ \A i \in DOMAIN edges : edges[i].from \in Ids(tasks) /\ edges[i].to \in Ids(tasks)

DependsOn(tasks) ==
  {[from |-> x[1], to |-> tasks[x[2]].id, type |-> "blocks", needs |-> "succeeded"] :
     x \in {y \in Ids(tasks) \X DOMAIN tasks : y[1] \in tasks[y[2]].after}}

SameKey(e, f) == e.from = f.from /\ e.to = f.to /\ e.type = f.type

\* _dedupe_edges: of two edges with one key the later one is kept.
Deduped(tasks, edges) ==
  LET last == {edges[i] : i \in {n \in DOMAIN edges :
                 \A m \in DOMAIN edges : m > n => ~SameKey(edges[m], edges[n])}}
  IN last \union {e \in DependsOn(tasks) : \A f \in last : ~SameKey(e, f)}

\* Mutant of Cyclic: an edge from a task to itself is overlooked.
CyclicLoopsAside(tasks, E) ==
  LET Out(n) == {e.to : e \in {x \in E : x.from = n}} \ {n}
      visit[p \in (SUBSET Ids(tasks)) \X Ids(tasks)] ==
        p[2] \in p[1] \/ \E m \in Out(p[2]) : visit[<<p[1] \union {p[2]}, m>>]
  IN \E i \in DOMAIN tasks : visit[<<{}, tasks[i].id>>]

\* _validate_acyclic: depth first, given the nodes on the way and a node.
Cyclic(tasks, E) ==
  LET Out(n) == {e.to : e \in {x \in E : x.from = n}}
      visit[p \in (SUBSET Ids(tasks)) \X Ids(tasks)] ==
        p[2] \in p[1] \/ \E m \in Out(p[2]) : visit[<<p[1] \union {p[2]}, m>>]
  IN \E i \in DOMAIN tasks : visit[<<{}, tasks[i].id>>]

\* validate_graph: None for a graph that is refused.
Validated(tasks, edges, maxChildren) ==
  IF /\ TasksParse(tasks, maxChildren) /\ PoliciesHold(tasks)
     /\ EdgesKnown(tasks, edges) /\ ~Cyclic(tasks, Deduped(tasks, edges))
    THEN [tasks |-> {Normalized(tasks[i]) : i \in DOMAIN tasks},
          edges |-> Deduped(tasks, edges)]
    ELSE None

----------------------------------------------------------------------------
\* A graph that is let through has an order in which its tasks can all run,
\* one edge per pair and type, and tasks whose workers will be given just the
\* toolsets the graph says: the planner and the worker read the policy alike.
PlanRunsThrough(tasks, edges, maxChildren) ==
  LET plan == Validated(tasks, edges, maxChildren) IN
    plan # None =>
      /\ \A S \in SUBSET Ids(tasks) : S # {} =>
           \E t \in S : \A e \in plan.edges : ~(e.to = t /\ e.from \in S)
      /\ \A e, f \in plan.edges : SameKey(e, f) => e = f
      /\ \A t \in plan.tasks :
           Policy!ToolsetsFor([profile |-> t.profile, toolsets |-> t.toolsets]) = t.toolsets
=============================================================================
