----------------------------- MODULE TaskGraph -----------------------------
(***************************************************************************)
(* Task graphs: OrchestratorService of packages/amadeus/orchestrator.py    *)
(* over the tasks table, called by HTTP handlers that run at once, while   *)
(* workers claim the children and clients cancel, resume or approve them.  *)
(*                                                                         *)
(* The graph has one root.  A child is one of the Planned or a replacement *)
(* of one that did not succeed.  Workers are the statements of TaskStore   *)
(* that TaskWorker issues, without retries and recoveries: leases stay     *)
(* live here.  Planning by the model, events and artifacts are left out.   *)
(***************************************************************************)
EXTENDS TaskStore

CONSTANTS
  Root,
  Planned,     \* the children an applied graph has
  Callers,     \* handler threads
  MaxReplans,  \* clamped maxReplans of the root's checkpoint
  MaxTries,    \* bound: claims of a task
  MaxCalls     \* bound: calls that get past their tests

ASSUME GraphAssumption ==
  /\ Root \in Tasks /\ Planned \subseteq Tasks \ {Root} /\ None \notin Tasks
  /\ RootOf = [t \in Tasks |-> Root]
  /\ MaxReplans \in 0 .. 8 /\ MaxTries \in Nat /\ MaxCalls \in Nat

VARIABLES
  made,      \* the tasks that have a row
  replaces,  \* context_hints.replanOfTaskId
  calls,     \* what each handler is in the middle of
  begun,     \* bound: calls so far
  plan,      \* history: the edges of the graph that was applied
  linked,    \* history: apply_task_graph wrote them all before a child started
  stands,    \* history: the planned child that a task stands for
  stray      \* history: the replacements of one that never got its edges

planVars == <<plan, linked, stands, stray>>
graphVars == <<made, replaces, calls, begun, planVars>>
vars == <<storeVars, graphVars>>

Children == Tasks \ {Root}
Idle == [op |-> "idle"]

TypeOK ==
  /\ StoreTypeOK
  /\ Root \in made /\ made \subseteq Tasks
  /\ replaces \in [Tasks -> Tasks \union {None}]
  /\ plan \subseteq Planned \X Planned
  /\ linked \in BOOLEAN /\ begun \in 0 .. MaxCalls
  /\ stands \in [Tasks -> Tasks] /\ stray \subseteq made
  /\ \A c \in Callers :
       calls[c].op \in {"idle", "block", "build", "cancel", "replace", "wire",
                        "giveup", "complete"}

Init ==
  /\ status = [t \in Tasks |-> "queued"]
  /\ claim = [t \in Tasks |-> None]
  /\ lease = [t \in Tasks |-> "none"]
  /\ tries = [t \in Tasks |-> 0]
  /\ parked = [t \in Tasks |-> FALSE]
  /\ phase = [t \in Tasks |-> "none"]
  /\ edges = {}
  /\ made = {Root}
  /\ replaces = [t \in Tasks |-> None]
  /\ calls = [c \in Callers |-> Idle] /\ begun = 0
  /\ plan = {} /\ linked = FALSE
  /\ stands = [t \in Tasks |-> t] /\ stray = {}

Begin(c, x) ==
  /\ calls[c].op = "idle" /\ begun < MaxCalls
  /\ calls' = [calls EXCEPT ![c] = x] /\ begun' = begun + 1

Then(c, x) == calls' = [calls EXCEPT ![c] = x] /\ UNCHANGED begun

\* Every set of tasks has one that depends on none of the set.
Acyclic(E) ==
  \A S \in SUBSET Tasks :
    S # {} => \E t \in S : \A u \in S : <<u, t>> \notin E

\* Mutant of Graphs: the cycle test of validate_graph is missing.
GraphsUnchecked == SUBSET (Planned \X Planned)

\* What validate_graph lets through.
Graphs == {E \in SUBSET (Planned \X Planned) : Acyclic(E)}

----------------------------------------------------------------------------
(* apply_task_graph.                                                       *)

ApplyReads(c, E) ==
  /\ made = {Root} /\ status[Root] = "queued"
  /\ Begin(c, [op |-> "block", edges |-> E])
  /\ UNCHANGED <<storeVars, made, replaces, planVars>>

\* block_task of the root, with expected_status "queued".  Bound: a root that was
\* resumed before it had children gets no second graph.
ApplyBlocks(c) ==
  /\ calls[c].op = "block"
  /\ status[Root] = "queued" => phase[Root] = "none"
  /\ IF status[Root] = "queued"
       THEN /\ Release(Root, "blocked")
            /\ phase' = [phase EXCEPT ![Root] = "orchestrator_waiting"]
            /\ Then(c, [op |-> "build", left |-> Planned, edges |-> calls[c].edges])
            /\ plan' = calls[c].edges
       ELSE /\ Then(c, Idle)
            /\ UNCHANGED <<status, claim, lease, phase, plan>>
  /\ UNCHANGED <<tries, parked, edges, made, replaces, linked, stands, stray>>

\* Child by child, then edge by edge, each in a transaction of its own.
ApplyCreates(c, t) ==
  /\ calls[c].op = "build" /\ t \in calls[c].left
  /\ made' = made \union {t}
  /\ Then(c, [calls[c] EXCEPT !.left = @ \ {t}])
  /\ UNCHANGED <<storeVars, replaces, planVars>>

ApplyLinks(c, e) ==
  /\ calls[c].op = "build" /\ calls[c].left = {} /\ e \in calls[c].edges
  /\ edges' = edges \union {e}
  /\ Then(c, [calls[c] EXCEPT !.edges = @ \ {e}])
  /\ UNCHANGED <<status, claim, lease, tries, parked, phase, made, replaces, planVars>>

ApplyEnds(c) ==
  /\ calls[c].op = "build" /\ calls[c].left = {} /\ calls[c].edges = {}
  /\ linked' = (\A t \in Planned : tries[t] = 0 /\ status[t] = "queued")
  /\ Then(c, Idle)
  /\ UNCHANGED <<storeVars, made, replaces, plan, stands, stray>>

----------------------------------------------------------------------------
(* cancel_graph: one child, or what was active of the graph, root last.    *)

CancelReads(c, t) ==
  /\ t \in made
  /\ Begin(c, [op |-> "cancel", task |-> None,
               left |-> IF t = Root THEN {u \in made : status[u] \notin Terminal} ELSE {t}])
  /\ UNCHANGED <<storeVars, made, replaces, planVars>>

\* cancel_task reads the status, ...
CancelPicks(c, t) ==
  /\ calls[c].op = "cancel" /\ calls[c].task = None /\ t \in calls[c].left
  /\ t = Root => calls[c].left = {Root}
  /\ Then(c, [calls[c] EXCEPT !.left = @ \ {t},
                              !.task = IF status[t] \in Terminal THEN None ELSE t])
  /\ UNCHANGED <<storeVars, made, replaces, planVars>>

\* ... then writes whatever it has become.
CancelWrites(c) ==
  /\ calls[c].op = "cancel" /\ calls[c].task # None
  /\ CancelTask(calls[c].task)
  /\ Then(c, [calls[c] EXCEPT !.task = None])
  /\ UNCHANGED <<made, replaces, planVars>>

CancelEnds(c) ==
  /\ calls[c].op = "cancel" /\ calls[c].task = None /\ calls[c].left = {}
  /\ Then(c, Idle)
  /\ UNCHANGED <<storeVars, made, replaces, planVars>>

----------------------------------------------------------------------------
(* replan_failed_child.                                                    *)

Waiting == status[Root] = "blocked" /\ phase[Root] = "orchestrator_waiting"
Replacements == {t \in made : replaces[t] # None}

ReplanReads(c, f) ==
  /\ f \in made \ {Root} /\ status[f] \in {"failed", "cancelled"}
  /\ Waiting
  /\ \A t \in Replacements : replaces[t] # f
  /\ Cardinality(Replacements) < MaxReplans
  /\ Begin(c, [op |-> "replace", failed |-> f])
  /\ UNCHANGED <<storeVars, made, replaces, planVars>>

\* The replacement is created with a ready_at ten years ahead.
ReplanCreates(c, t) ==
  /\ calls[c].op = "replace"
  /\ t \in Tasks \ (Planned \union made)
  /\ made' = made \union {t}
  /\ parked' = [parked EXCEPT ![t] = TRUE]
  /\ replaces' = [replaces EXCEPT ![t] = calls[c].failed]
  /\ stands' = [stands EXCEPT ![t] = stands[calls[c].failed]]
  /\ Then(c, [op |-> "wire", failed |-> calls[c].failed, task |-> t])
  /\ UNCHANGED <<status, claim, lease, tries, phase, edges, plan, linked, stray>>

\* Mutant of Rewired: the edges to the dependents are dropped, not moved.
RewiredAway(f, t) ==
  (edges \ {e \in edges : e[1] = f /\ status[e[2]] \in {"queued", "blocked"}})
    \union {<<e[1], t>> : e \in {x \in edges : x[2] = f}}

\* What f depends on is copied, what waits for f waits for t from now on.
Rewired(f, t) ==
  LET moved == {e \in edges : e[1] = f /\ status[e[2]] \in {"queued", "blocked"}} IN
    (edges \ moved)
      \union {<<e[1], t>> : e \in {x \in edges : x[2] = f}}
      \union {<<t, e[2]>> : e \in moved}

\* A replacement has its edges from here on.  What it replaces may be one that
\* never got any: it inherits none, but waits no longer than others.
Edgeless(f) == f \in stray \/ (replaces[f] # None /\ parked[f])

\* rewire_task_dependencies, one immediate transaction.
ReplanWires(c) ==
  /\ calls[c].op = "wire"
  /\ status[calls[c].failed] \in {"failed", "cancelled"}
  /\ status[calls[c].task] = "queued"
  /\ edges' = Rewired(calls[c].failed, calls[c].task)
  /\ parked' = [parked EXCEPT ![calls[c].task] = FALSE]
  /\ stray' = IF Edgeless(calls[c].failed) THEN stray \union {calls[c].task} ELSE stray
  /\ Then(c, Idle)
  /\ UNCHANGED <<status, claim, lease, tries, phase, made, replaces, plan, linked, stands>>

\* It raises, for its tests or for the database, and the replacement goes.
ReplanFails(c) ==
  /\ calls[c].op = "wire"
  /\ IF status[calls[c].task] \in Terminal
       THEN UNCHANGED storeVars
       ELSE CancelTask(calls[c].task)
  /\ Then(c, Idle)
  /\ UNCHANGED <<made, replaces, planVars>>

----------------------------------------------------------------------------
(* synthesize_root.                                                        *)

\* The children that were not replaced.
Effective == {t \in made \ {Root} : \A u \in made : replaces[u] # t}

SynthesisReads(c) ==
  /\ made # {Root}
  /\ \A t \in Effective : status[t] \in Terminal
  /\ IF \E t \in Effective : status[t] # "succeeded"
       THEN status[Root] \notin Terminal /\ Begin(c, [op |-> "giveup"])
       ELSE Waiting /\ Begin(c, [op |-> "complete"])
  /\ UNCHANGED <<storeVars, made, replaces, planVars>>

\* block_task of the root, without an expected status.
SynthesisBlocks(c) ==
  /\ calls[c].op = "giveup"
  /\ IF status[Root] \in Terminal
       THEN UNCHANGED storeVars
       ELSE /\ Release(Root, "blocked")
            /\ parked' = [parked EXCEPT ![Root] = FALSE]
            /\ UNCHANGED <<tries, phase, edges>>
  /\ Then(c, Idle)
  /\ UNCHANGED <<made, replaces, planVars>>

\* Mutant of SynthesisCompletes: the root is still what it was when it was read.
SynthesisCompletesAnyway(c) ==
  /\ calls[c].op = "complete"
  /\ Release(Root, "succeeded")
  /\ phase' = [phase EXCEPT ![Root] = "orchestrator_synthesized"]
  /\ Then(c, Idle)
  /\ UNCHANGED <<tries, parked, edges, made, replaces, planVars>>

\* complete_orchestrated_task, one immediate transaction.
SynthesisCompletes(c) ==
  /\ calls[c].op = "complete"
  /\ IF Waiting
       THEN /\ Release(Root, "succeeded")
            /\ phase' = [phase EXCEPT ![Root] = "orchestrator_synthesized"]
       ELSE UNCHANGED <<status, claim, lease, phase>>
  /\ Then(c, Idle)
  /\ UNCHANGED <<tries, parked, edges, made, replaces, planVars>>

----------------------------------------------------------------------------
(* Workers and clients.                                                    *)

Works(t, r) ==
  /\ t \in made
  /\ \/ (\A u \in Tasks : claim[u] # r) /\ tries[t] < MaxTries /\ StartTask(t, r)
     \/ \E s \in {"succeeded", "failed"} : Owns(t, r) /\ FinishTask(t, r, s)
     \/ BlockTask(t, r, "tool_approval")
  /\ UNCHANGED graphVars

\* A task that is resumed may run again, whatever it was blocked for.
Resumes(t) ==
  /\ t \in made /\ status[t] = "blocked"
  /\ ResumeTask(t, "resumed")
  /\ UNCHANGED graphVars

\* The handler raises or its process ends: the call is not finished.
Abandons(c) ==
  /\ calls[c].op # "idle"
  /\ Then(c, Idle)
  /\ UNCHANGED <<storeVars, made, replaces, planVars>>

----------------------------------------------------------------------------
Handles(c) ==
  \/ \E E \in Graphs : ApplyReads(c, E)
  \/ ApplyBlocks(c) \/ ApplyEnds(c)
  \/ \E t \in Tasks : ApplyCreates(c, t) \/ CancelReads(c, t) \/ CancelPicks(c, t)
                        \/ ReplanReads(c, t) \/ ReplanCreates(c, t)
  \/ \E e \in Planned \X Planned : ApplyLinks(c, e)
  \/ CancelWrites(c) \/ CancelEnds(c) \/ ReplanWires(c) \/ ReplanFails(c)
  \/ SynthesisReads(c) \/ SynthesisBlocks(c) \/ SynthesisCompletes(c)
  \/ Abandons(c)

Next ==
  \/ \E c \in Callers : Handles(c)
  \/ \E t \in Tasks : Resumes(t) \/ \E r \in Runs : Works(t, r)

Spec == Init /\ [][Next]_vars

----------------------------------------------------------------------------
(* Properties.                                                             *)

\* However replans overlap each other and the application of the graph, the
\* dependencies never close into a circle of tasks that wait for each other.
EdgesAcyclic == Acyclic(edges)

\* What the plan made t depend on has succeeded, itself or in the person of a
\* replacement.
PlannedBefore(t) ==
  \A d \in Planned : <<d, stands[t]>> \in plan =>
    \E u \in made : stands[u] = d /\ status[u] = "succeeded"

Starts(t) == linked /\ status[t] = "queued" /\ status'[t] = "running"

\* In a graph that was applied before its first child started, a child or a
\* replacement of it starts only when everything the plan made it depend on has
\* succeeded, although overlapping replans rewrite the edges.  (A child that
\* starts while its edges are still being written may go ahead of what it depends
\* on, and so may the replacement of a replacement that never got its edges.)
PlanFollowed == [][\A t \in Children \ stray : Starts(t) => PlannedBefore(t)]_vars

\* The same of every replacement, as "copies upstream dependencies" says of
\* rewiring.  It does not hold: a replacement whose wiring failed is cancelled
\* without edges, and may be replaced in its turn.
PlanAlwaysFollowed == [][\A t \in Children : Starts(t) => PlannedBefore(t)]_vars

\* A task that is over stays over, at most marked cancelled by a call that read
\* it before: no synthesis, replan or worker brings back a cancelled graph.
OverStaysOver ==
  [][\A t \in made : status[t] \in Terminal =>
       status'[t] \in {status[t], "cancelled"}]_vars

\* maxReplans limits the replacements of a graph, and a child has one at most.
ReplansBounded ==
  /\ Cardinality(Replacements) <= MaxReplans
  /\ \A t, u \in Replacements : replaces[t] = replaces[u] => t = u
=============================================================================
