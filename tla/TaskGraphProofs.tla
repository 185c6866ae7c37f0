-------------------------- MODULE TaskGraphProofs ---------------------------
(***************************************************************************)
(* What holds of TaskGraph for any tasks, plans, callers and bounds.       *)
(***************************************************************************)
EXTENDS TaskGraph, TLAPS

----------------------------------------------------------------------------
(* The inductive invariant.                                                *)

\* What a handler remembers.
Handling ==
  [op : {"idle", "giveup", "complete"}]
    \union [op : {"block"}, edges : Graphs]
    \union [op : {"build"}, left : SUBSET Planned, edges : SUBSET plan]
    \union [op : {"cancel"}, task : made \union {None}, left : SUBSET made]
    \union [op : {"replace"}, failed : made \ {Root}]
    \union [op : {"wire"}, failed : made \ {Root}, task : made]

Handled ==
  /\ calls \in [Callers -> Handling] /\ begun \in 0 .. MaxCalls /\ linked \in BOOLEAN
  /\ \A c \in Callers : calls[c].op = "wire" => replaces[calls[c].task] = calls[c].failed

\* A replacement stands for what its failed child stands for, and every edge there
\* is for one of the plan.
Standing ==
  /\ \A t \in Tasks : stands[t] = IF replaces[t] = None THEN t ELSE stands[replaces[t]]
  /\ \A a, b \in Tasks : <<a, b>> \in edges => <<stands[a], stands[b]>> \in plan

Known == made \union Planned

Shaped ==
  /\ Root \in made /\ made \subseteq Tasks
  /\ replaces \in [Tasks -> made \union {None}]
  /\ edges \subseteq Known \X Known
  /\ plan \in Graphs
  /\ stands \in [Tasks -> Tasks] /\ Standing

\* A root that was never blocked has no graph.
Unplanned ==
  phase[Root] = "none" =>
    plan = {} /\ edges = {} /\ \A c \in Callers : calls[c].op # "build"

\* A planned child replaces nothing, and neither does the root.
PlannedAreOrigins == \A t \in Planned \union {Root} : replaces[t] = None

IInv == StoreTypeOK /\ Handled /\ Shaped /\ Unplanned /\ PlannedAreOrigins

----------------------------------------------------------------------------
(* The tasks table.                                                        *)

\* What a step does to the table: no task that is over goes on, at most it is
\* marked cancelled, and no phase becomes "none".
OverStep ==
  \A t \in Tasks : status[t] \in Terminal => status'[t] \in {status[t], "cancelled"}

StoreStep ==
  /\ StoreTypeOK' /\ OverStep
  /\ phase'[Root] = "none" => phase[Root] = "none"

\* A statement that releases a task that is not over, or cancels it.
LEMMA ReleaseSteps ==
  ASSUME StoreTypeOK, NEW t \in Tasks, NEW s \in Status, Release(t, s),
         status[t] \notin Terminal \/ s = "cancelled",
         tries' = tries, parked' \in [Tasks -> BOOLEAN],
         edges' = edges, phase' \in [Tasks -> Phases],
         phase'[Root] = "none" => phase[Root] = "none"
  PROVE  StoreStep
BY DEF StoreTypeOK, Release, StoreStep, OverStep

LEMMA StoreKeeps ==
  ASSUME StoreTypeOK, UNCHANGED <<status, claim, lease, tries, parked, phase>>,
         edges' \subseteq Tasks \X Tasks
  PROVE  StoreStep
BY DEF StoreTypeOK, StoreStep, OverStep

\* Statements of workers and clients.
LEMMA FinishSteps ==
  ASSUME StoreTypeOK, NEW t \in Tasks, NEW r \in Runs, NEW s \in {"succeeded", "failed"},
         FinishTask(t, r, s)
  PROVE  StoreStep
<1>1. CASE ~Owns(t, r)
  BY <1>1, StoreKeeps DEF FinishTask, storeVars, StoreTypeOK
<1>2. CASE Owns(t, r)
  <2>1. /\ s \in Status /\ status[t] \notin Terminal
        /\ Release(t, s) /\ parked' \in [Tasks -> BOOLEAN] /\ UNCHANGED <<tries, phase, edges>>
    BY <1>2 DEF FinishTask, Owns, StoreTypeOK, Status, Terminal
  <2> QED
    BY <2>1, ReleaseSteps DEF StoreTypeOK
<1> QED
  BY <1>1, <1>2

LEMMA WorkSteps ==
  ASSUME StoreTypeOK, NEW t \in Tasks, NEW r \in Runs, Works(t, r)
  PROVE  StoreStep
<1>1. CASE StartTask(t, r)
  <2>1. status[t] = "queued"
    BY <1>1 DEF StartTask, Startable
  <2> QED
    BY <1>1, <2>1 DEF StartTask, StoreTypeOK, StoreStep, OverStep, Status, Terminal
<1>2. ASSUME NEW s \in {"succeeded", "failed"}, FinishTask(t, r, s)
      PROVE  StoreStep
  BY <1>2, FinishSteps
<1>3. CASE BlockTask(t, r, "tool_approval")
  <2>1. /\ "blocked" \in Status /\ status[t] \notin Terminal
        /\ Release(t, "blocked") /\ UNCHANGED <<tries, edges>>
        /\ parked' \in [Tasks -> BOOLEAN] /\ phase' \in [Tasks -> Phases]
        /\ phase'[Root] = "none" => phase[Root] = "none"
    BY <1>3, GraphAssumption DEF BlockTask, Owns, StoreTypeOK, Status, Terminal, Phases
  <2> QED
    BY <2>1, ReleaseSteps
<1> QED
  BY <1>1, <1>2, <1>3 DEF Works

LEMMA ResumeSteps ==
  ASSUME StoreTypeOK, NEW t \in Tasks, Resumes(t)
  PROVE  StoreStep
<1>1. /\ "queued" \in Status /\ status[t] \notin Terminal
      /\ Release(t, "queued") /\ UNCHANGED <<tries, parked, edges>>
      /\ phase' \in [Tasks -> Phases]
      /\ phase'[Root] = "none" => phase[Root] = "none"
  BY GraphAssumption DEF Resumes, ResumeTask, StoreTypeOK, Status, Terminal, Phases
<1> QED
  BY <1>1, ReleaseSteps DEF StoreTypeOK

LEMMA CancelSteps ==
  ASSUME StoreTypeOK, NEW t \in Tasks, CancelTask(t)
  PROVE  StoreStep
BY ReleaseSteps DEF CancelTask, StoreTypeOK, Status, Terminal

\* Statements on the root.
LEMMA RootSteps ==
  ASSUME StoreTypeOK, NEW c \in Callers,
         ApplyBlocks(c) \/ SynthesisBlocks(c) \/ SynthesisCompletes(c)
  PROVE  StoreStep
<1>1. Root \in Tasks /\ {"blocked", "succeeded"} \subseteq Status
      /\ {"orchestrator_waiting", "orchestrator_synthesized"} \subseteq Phases \ {"none"}
      /\ {"queued", "blocked"} \cap Terminal = {}
  BY GraphAssumption DEF Status, Terminal, Phases
<1>2. CASE UNCHANGED storeVars
  BY <1>2, StoreKeeps DEF storeVars, StoreTypeOK
<1>3. CASE ApplyBlocks(c) /\ status[Root] = "queued"
  <2>1. /\ Release(Root, "blocked") /\ UNCHANGED <<tries, parked, edges>>
        /\ phase' = [phase EXCEPT ![Root] = "orchestrator_waiting"]
    BY <1>3 DEF ApplyBlocks
  <2>2. phase' \in [Tasks -> Phases] /\ phase'[Root] # "none"
    BY <1>1, <2>1 DEF StoreTypeOK
  <2> QED
    BY <1>1, <1>3, <2>1, <2>2, ReleaseSteps DEF StoreTypeOK
<1>4. CASE SynthesisBlocks(c) /\ status[Root] \notin Terminal
  <2>1. /\ Release(Root, "blocked") /\ parked' = [parked EXCEPT ![Root] = FALSE]
        /\ UNCHANGED <<tries, phase, edges>>
    BY <1>4 DEF SynthesisBlocks
  <2>2. parked' \in [Tasks -> BOOLEAN]
    BY <2>1 DEF StoreTypeOK
  <2> QED
    BY <1>1, <1>4, <2>1, <2>2, ReleaseSteps DEF StoreTypeOK
<1>5. CASE SynthesisCompletes(c) /\ Waiting
  <2>1. /\ Release(Root, "succeeded") /\ UNCHANGED <<tries, parked, edges>>
        /\ phase' = [phase EXCEPT ![Root] = "orchestrator_synthesized"]
        /\ status[Root] = "blocked"
    BY <1>5 DEF SynthesisCompletes, Waiting
  <2>2. phase' \in [Tasks -> Phases] /\ phase'[Root] # "none"
    BY <1>1, <2>1 DEF StoreTypeOK
  <2> QED
    BY <1>1, <2>1, <2>2, ReleaseSteps DEF StoreTypeOK
<1> QED
  BY <1>2, <1>3, <1>4, <1>5 DEF ApplyBlocks, SynthesisBlocks, SynthesisCompletes, storeVars
----------------------------------------------------------------------------
(* What the handlers remember.                                             *)

\* A handler that goes on with x: nothing it or another remembers is outdated, for
\* tasks are never removed and replace what they have always replaced.
LEMMA ThenKeeps ==
  ASSUME Handled, Shaped, NEW c \in Callers, NEW x \in Handling',
         calls' = [calls EXCEPT ![c] = x], begun' \in 0 .. MaxCalls, linked' \in BOOLEAN,
         made \subseteq made', plan \subseteq plan',
         \A t \in made : replaces'[t] = replaces[t],
         x.op = "wire" => replaces'[x.task] = x.failed
  PROVE  Handled'
<1>1. Handling \subseteq Handling'
  BY DEF Handling
<1>2. calls' \in [Callers -> Handling']
  BY <1>1 DEF Handled
<1>3. ASSUME NEW d \in Callers, calls'[d].op = "wire"
      PROVE  replaces'[calls'[d].task] = calls'[d].failed
  <2>1. CASE d = c
    BY <1>3, <2>1 DEF Handled
  <2>2. CASE d # c
    <3>1. calls'[d] = calls[d] /\ calls[d] \in Handling /\ calls[d].op = "wire"
      BY <1>3, <2>2 DEF Handled
    <3>2. calls[d].task \in made
      BY <3>1 DEF Handling
    <3> QED
      BY <3>1, <3>2 DEF Handled
  <2> QED
    BY <2>1, <2>2
<1> QED
  BY <1>2, <1>3 DEF Handled

\* The same for a step that changes neither tasks nor plan.
LEMMA ThenMoves ==
  ASSUME Handled, Shaped, NEW c \in Callers, NEW x \in Handling,
         calls' = [calls EXCEPT ![c] = x], begun' \in 0 .. MaxCalls, linked' \in BOOLEAN,
         UNCHANGED <<made, replaces, plan>>,
         x.op = "wire" => replaces[x.task] = x.failed
  PROVE  Handled'
<1>1. x \in Handling'
  BY DEF Handling
<1> QED
  BY <1>1, ThenKeeps

\* What is remembered, by the name of the call.
LEMMA Remembered ==
  ASSUME Handled, NEW c \in Callers
  PROVE  /\ calls[c].op = "block" => calls[c].edges \in Graphs
         /\ calls[c].op = "build" =>
              /\ calls[c] \in [op : {"build"}, left : SUBSET Planned, edges : SUBSET plan]
              /\ calls[c].left \subseteq Planned /\ calls[c].edges \subseteq plan
         /\ calls[c].op = "cancel" =>
              /\ calls[c] \in [op : {"cancel"}, task : made \union {None}, left : SUBSET made]
              /\ calls[c].left \subseteq made /\ calls[c].task \in made \union {None}
         /\ calls[c].op = "replace" => calls[c].failed \in made \ {Root}
         /\ calls[c].op = "wire" =>
              /\ calls[c].failed \in made \ {Root} /\ calls[c].task \in made
              /\ replaces[calls[c].task] = calls[c].failed
<1>1. calls[c] \in Handling
  BY DEF Handled
<1> QED
  BY <1>1 DEF Handled, Handling

LEMMA IdleHandling == Idle \in Handling /\ Idle.op = "idle"
BY DEF Idle, Handling

\* Ends of calls.
LEMMA EndKeeps ==
  ASSUME Handled, Shaped, NEW c \in Callers, Then(c, Idle), linked' \in BOOLEAN,
         UNCHANGED <<made, replaces, plan>>
  PROVE  Handled'
BY IdleHandling, ThenMoves DEF Then, Handled

\* Beginnings.
LEMMA BeginKeeps ==
  ASSUME Handled, Shaped, NEW c \in Callers, NEW x \in Handling, Begin(c, x),
         UNCHANGED <<made, replaces, plan, linked>>, x.op # "wire"
  PROVE  Handled'
<1>1. begun' \in 0 .. MaxCalls
  BY GraphAssumption DEF Begin, Handled
<1> QED
  BY <1>1, ThenMoves DEF Begin, Handled

\* Steps in the middle.
LEMMA MiddleKeeps ==
  ASSUME Handled, Shaped, NEW c \in Callers, NEW x \in Handling, Then(c, x),
         UNCHANGED <<made, replaces, plan, linked>>, x.op # "wire"
  PROVE  Handled'
BY ThenMoves DEF Then, Handled

----------------------------------------------------------------------------
(* The dependencies.                                                       *)

\* What is for an acyclic plan is acyclic.
LEMMA StandingIsAcyclic ==
  ASSUME Shaped
  PROVE  EdgesAcyclic
<1>1. Acyclic(plan)
  BY DEF Shaped, Graphs
<1>2. SUFFICES ASSUME NEW S \in SUBSET Tasks, S # {}
               PROVE  \E t \in S : \A u \in S : <<u, t>> \notin edges
  BY DEF EdgesAcyclic, Acyclic
<1> DEFINE image == {stands[t] : t \in S}
<1>3. image \in SUBSET Tasks /\ image # {}
  BY <1>2 DEF Shaped
<1>4. PICK m \in image : \A n \in image : <<n, m>> \notin plan
  BY <1>1, <1>3 DEF Acyclic
<1>5. PICK t \in S : stands[t] = m
  BY <1>4
<1>6. ASSUME NEW u \in S, <<u, t>> \in edges
      PROVE  FALSE
  <2>1. <<stands[u], stands[t]>> \in plan
    BY <1>2, <1>5, <1>6 DEF Shaped, Standing
  <2> QED
    BY <1>4, <1>5, <1>6, <2>1
<1> QED
  BY <1>5, <1>6

LEMMA NothingIsAcyclic == {} \in Graphs
BY DEF Graphs, Acyclic

\* A step that leaves the graph alone.
LEMMA ShapeKeeps ==
  ASSUME Shaped, UNCHANGED <<made, replaces, stands, edges, plan>>
  PROVE  Shaped'
BY DEF Shaped, Known, Standing

\* The plan is made while there are no edges.
LEMMA BlocksShape ==
  ASSUME Shaped, Unplanned, Handled, NEW c \in Callers, ApplyBlocks(c)
  PROVE  Shaped'
<1>1. CASE status[Root] # "queued"
  BY <1>1, ShapeKeeps DEF ApplyBlocks
<1>2. CASE status[Root] = "queued"
  <2>1. edges = {} /\ plan' \in Graphs /\ UNCHANGED <<made, replaces, stands, edges>>
    BY <1>2, Remembered DEF ApplyBlocks, Unplanned
  <2> QED
    BY <2>1 DEF Shaped, Known, Standing
<1> QED
  BY <1>1, <1>2

LEMMA CreatesShape ==
  ASSUME Shaped, NEW t \in Tasks, made' = made \union {t},
         UNCHANGED <<replaces, stands, edges, plan>>
  PROVE  Shaped'
BY DEF Shaped, Known, Standing

\* A planned child stands for itself.
LEMMA LinksShape ==
  ASSUME Shaped, PlannedAreOrigins, NEW a \in Planned, NEW b \in Planned,
         <<a, b>> \in plan, edges' = edges \union {<<a, b>>},
         UNCHANGED <<made, replaces, stands, plan>>
  PROVE  Shaped'
<1>1. a \in Tasks /\ b \in Tasks
  BY GraphAssumption
<1>2. stands[a] = a /\ stands[b] = b
  BY <1>1 DEF Shaped, Standing, PlannedAreOrigins
<1>3. Standing'
  BY <1>1, <1>2 DEF Shaped, Standing
<1> QED
  BY <1>3 DEF Shaped, Known

\* A new replacement has no edges yet.
LEMMA ReplacesShape ==
  ASSUME Shaped, NEW f \in made, NEW t \in Tasks \ Known,
         made' = made \union {t}, replaces' = [replaces EXCEPT ![t] = f],
         stands' = [stands EXCEPT ![t] = stands[f]], UNCHANGED <<edges, plan>>
  PROVE  Shaped'
<1>1. t # f /\ t \notin made /\ f \in Tasks /\ None \notin Tasks
  BY GraphAssumption DEF Known, Shaped
<1>2. /\ stands' \in [Tasks -> Tasks] /\ stands'[t] = stands[f]
      /\ \A u \in Tasks \ {t} : stands'[u] = stands[u]
  BY <1>1 DEF Shaped
<1>3. ASSUME NEW u \in Tasks
      PROVE  stands'[u] = IF replaces'[u] = None THEN u ELSE stands'[replaces'[u]]
  <2>1. CASE u = t
    <3>1. replaces'[u] = f
      BY <2>1 DEF Shaped
    <3> QED
      BY <1>1, <1>2, <2>1, <3>1
  <2>2. CASE u # t
    <3>1. replaces'[u] = replaces[u] /\ replaces[u] \in made \union {None}
      BY <2>2 DEF Shaped
    <3>2. replaces[u] # None => replaces[u] \in Tasks \ {t}
      BY <1>1, <3>1 DEF Shaped
    <3>3. stands[u] = IF replaces[u] = None THEN u ELSE stands[replaces[u]]
      BY DEF Shaped, Standing
    <3> QED
      BY <1>2, <2>2, <3>1, <3>2, <3>3
  <2> QED
    BY <2>1, <2>2
<1>4. ASSUME NEW a \in Tasks, NEW b \in Tasks, <<a, b>> \in edges
      PROVE  <<stands'[a], stands'[b]>> \in plan
  <2>1. a \in Known /\ b \in Known /\ <<stands[a], stands[b]>> \in plan
    BY <1>4 DEF Shaped, Standing
  <2> QED
    BY <1>2, <2>1
<1>5. Standing'
  BY <1>3, <1>4 DEF Standing
<1>6. replaces' \in [Tasks -> made' \union {None}]
  BY DEF Shaped
<1> QED
  BY <1>1, <1>2, <1>5, <1>6 DEF Shaped, Known

\* Rewiring puts a task that stands for the same in the place of another.
LEMMA RewiresShape ==
  ASSUME Shaped, NEW f \in made, NEW t \in made, replaces[t] = f,
         edges' = Rewired(f, t), UNCHANGED <<made, replaces, stands, plan>>
  PROVE  Shaped'
<1>1. Standing
  BY DEF Shaped
<1>2. f \in Tasks /\ t \in Tasks /\ f # None /\ made \subseteq Tasks /\ Known \subseteq Tasks
  BY GraphAssumption DEF Shaped, Known
<1>3. stands[t] = stands[f]
  BY <1>1, <1>2 DEF Standing
<1>4. ASSUME NEW e \in edges'
      PROVE  e \in Known \X Known /\ <<stands[e[1]], stands[e[2]]>> \in plan
  <2>1. \/ e \in edges
        \/ \E x \in edges : x[2] = f /\ e = <<x[1], t>>
        \/ \E x \in edges : x[1] = f /\ e = <<t, x[2]>>
    BY <1>4 DEF Rewired
  <2>2. ASSUME NEW x \in edges
        PROVE  x \in Known \X Known /\ x = <<x[1], x[2]>> /\ <<stands[x[1]], stands[x[2]]>> \in plan
    <3>1. x \in Known \X Known
      BY DEF Shaped
    <3> QED
      BY <1>1, <1>2, <3>1 DEF Standing
  <2>3. t \in Known
    BY DEF Known
  <2> QED
    BY <1>3, <2>1, <2>2, <2>3
<1>5. Standing'
  BY <1>1, <1>4 DEF Standing
<1> QED
  BY <1>4, <1>5 DEF Shaped, Known
----------------------------------------------------------------------------
(* The steps.                                                              *)

LEMMA InitHolds == Init => IInv
<1> SUFFICES ASSUME Init
             PROVE  IInv
  OBVIOUS
<1>1. StoreTypeOK
  BY DEF Init, StoreTypeOK, Status, Phases
<1>2. Handled
  <2>1. calls = [c \in Callers |-> Idle] /\ begun \in 0 .. MaxCalls
    BY GraphAssumption DEF Init
  <2>2. \A c \in Callers : calls[c] \in Handling /\ calls[c].op = "idle"
    BY <2>1, IdleHandling
  <2>3. linked \in BOOLEAN
    BY Zenon DEF Init
  <2> QED
    BY <2>1, <2>2, <2>3 DEF Handled
<1>3. Shaped
  <2>1. stands \in [Tasks -> Tasks] /\ Standing
    BY DEF Init, Standing
  <2>2. replaces \in [Tasks -> made \union {None}] /\ Root \in made /\ made \subseteq Tasks
    BY GraphAssumption DEF Init
  <2> QED
    BY <2>1, <2>2, NothingIsAcyclic DEF Init, Shaped
<1>4. Unplanned
  BY IdleHandling DEF Init, Unplanned
<1> QED
  BY <1>1, <1>2, <1>3, <1>4, GraphAssumption DEF IInv, Init, PlannedAreOrigins

\* Everything but apply_task_graph leaves an unplanned root unplanned.
LEMMA UnplannedKept ==
  ASSUME Unplanned, phase'[Root] = "none" => phase[Root] = "none", plan' = plan,
         edges = {} => edges' = {},
         \A c \in Callers : calls'[c].op = "build" => calls[c].op = "build"
  PROVE  Unplanned'
BY DEF Unplanned

\* A step that only moves one call on.
LEMMA CallMoves ==
  ASSUME IInv, NEW c \in Callers, NEW x \in Handling,
         Begin(c, x) \/ Then(c, x), x.op \notin {"wire", "build"},
         UNCHANGED <<storeVars, made, replaces, planVars>>
  PROVE  IInv' /\ StoreStep
<1>1. Handled'
  BY BeginKeeps, MiddleKeeps DEF IInv, planVars
<1>2. StoreStep
  BY StoreKeeps DEF IInv, storeVars, StoreTypeOK
<1>3. Shaped' /\ PlannedAreOrigins'
  <2>1. UNCHANGED <<made, replaces, stands, edges, plan>>
    BY DEF storeVars, planVars
  <2> QED
    BY <2>1, ShapeKeeps DEF IInv, PlannedAreOrigins
<1>4. calls' = [calls EXCEPT ![c] = x] /\ edges' = edges /\ calls \in [Callers -> Handling]
  BY DEF Begin, Then, storeVars, IInv, Handled
<1>5. Unplanned'
  <2>1. plan' = plan /\ \A d \in Callers : calls'[d].op = "build" => calls[d].op = "build"
    BY <1>4 DEF planVars
  <2> QED
    BY <1>2, <1>4, <2>1, UnplannedKept DEF IInv, StoreStep
<1> QED
  BY <1>1, <1>2, <1>3, <1>5 DEF IInv, StoreStep

\* A step that changes the table, and at most moves a call on.
LEMMA TableMoves ==
  ASSUME IInv, StoreStep, Handled', UNCHANGED <<edges, made, replaces, stands, plan>>,
         \A c \in Callers : calls'[c].op = "build" => calls[c].op = "build"
  PROVE  IInv' /\ StoreStep
<1>1. Shaped' /\ PlannedAreOrigins'
  BY ShapeKeeps DEF IInv, PlannedAreOrigins
<1>2. Unplanned'
  BY UnplannedKept DEF IInv, StoreStep
<1> QED
  BY <1>1, <1>2 DEF IInv, StoreStep

LEMMA ApplyKeeps ==
  ASSUME IInv, NEW c \in Callers,
         \/ \E E \in Graphs : ApplyReads(c, E)
         \/ ApplyBlocks(c) \/ ApplyEnds(c)
         \/ \E t \in Tasks : ApplyCreates(c, t)
         \/ \E e \in Planned \X Planned : ApplyLinks(c, e)
  PROVE  IInv' /\ StoreStep
<1>1. ASSUME NEW E \in Graphs, ApplyReads(c, E)
      PROVE  IInv' /\ StoreStep
  <2> DEFINE x == [op |-> "block", edges |-> E]
  <2>1. x \in Handling /\ x.op = "block" /\ Begin(c, x)
    BY <1>1 DEF Handling, ApplyReads
  <2> HIDE DEF x
  <2> QED
    BY <1>1, <2>1, CallMoves DEF ApplyReads
<1>2. CASE ApplyBlocks(c)
  <2>1. StoreStep /\ Shaped' /\ PlannedAreOrigins'
    BY <1>2, RootSteps, BlocksShape DEF IInv, ApplyBlocks, PlannedAreOrigins
  <2>2. CASE status[Root] # "queued"
    <3>1. /\ Then(c, Idle) /\ UNCHANGED <<made, replaces, stands, plan, linked, edges>>
          /\ calls' = [calls EXCEPT ![c] = Idle] /\ calls \in [Callers -> Handling]
      BY <1>2, <2>2 DEF ApplyBlocks, Then, IInv, Handled
    <3>2. Handled'
      BY <3>1, EndKeeps DEF IInv, Handled
    <3> QED
      BY <2>1, <3>1, <3>2, IdleHandling, TableMoves
  <2>3. CASE status[Root] = "queued"
    <3> DEFINE x == [op |-> "build", left |-> Planned, edges |-> calls[c].edges]
    <3>1. /\ plan = {} /\ Root \in Tasks /\ Planned \subseteq Tasks
          /\ plan' = calls[c].edges /\ phase' = [phase EXCEPT ![Root] = "orchestrator_waiting"]
          /\ calls' = [calls EXCEPT ![c] = x] /\ UNCHANGED <<begun, made, replaces, linked>>
      BY <1>2, <2>3, GraphAssumption DEF ApplyBlocks, Then, IInv, Unplanned
    <3>2. x \in Handling' /\ x.op = "build"
      BY <3>1 DEF Handling
    <3> HIDE DEF x
    <3>3. Handled'
      BY <3>1, <3>2, ThenKeeps DEF IInv, Handled
    <3>4. phase'[Root] # "none"
      BY <3>1 DEF IInv, StoreTypeOK
    <3> QED
      BY <2>1, <3>3, <3>4 DEF IInv, StoreStep, Unplanned
  <2> QED
    BY <2>2, <2>3
<1>3. CASE ApplyEnds(c)
  <2>1. /\ Then(c, Idle) /\ linked' \in BOOLEAN /\ UNCHANGED <<storeVars, made, replaces, stands, plan>>
        /\ calls' = [calls EXCEPT ![c] = Idle] /\ calls \in [Callers -> Handling]
    BY <1>3 DEF ApplyEnds, Then, IInv, Handled, planVars
  <2>2. Handled'
    BY <2>1, EndKeeps DEF IInv
  <2>3. StoreStep
    BY <2>1, StoreKeeps DEF IInv, storeVars, StoreTypeOK
  <2> QED
    BY <2>1, <2>2, <2>3, IdleHandling, TableMoves DEF storeVars
<1>4. ASSUME NEW t \in Tasks, ApplyCreates(c, t)
      PROVE  IInv' /\ StoreStep
  <2> DEFINE x == [calls[c] EXCEPT !.left = @ \ {t}]
  <2>1. calls[c] \in [op : {"build"}, left : SUBSET Planned, edges : SUBSET plan]
    BY <1>4, Remembered DEF IInv, ApplyCreates
  <2>2. x \in [op : {"build"}, left : SUBSET Planned, edges : SUBSET plan]
    BY <2>1
  <2>3. /\ calls' = [calls EXCEPT ![c] = x] /\ made' = made \union {t}
        /\ UNCHANGED <<storeVars, begun, replaces, stands, plan, linked>>
    BY <1>4 DEF ApplyCreates, Then, planVars
  <2>4. x \in Handling' /\ x.op = "build"
    BY <2>2, <2>3 DEF Handling
  <2> HIDE DEF x
  <2>5. Handled'
    BY <2>3, <2>4, ThenKeeps DEF IInv, Handled
  <2>6. StoreStep
    BY <2>3, StoreKeeps DEF IInv, storeVars, StoreTypeOK
  <2>7. Shaped' /\ PlannedAreOrigins'
    BY <2>3, CreatesShape DEF IInv, storeVars, PlannedAreOrigins
  <2>8. phase[Root] # "none"
    BY <2>1 DEF IInv, Unplanned
  <2> QED
    BY <2>5, <2>6, <2>7, <2>8 DEF IInv, StoreStep, Unplanned
<1>5. ASSUME NEW e \in Planned \X Planned, ApplyLinks(c, e)
      PROVE  IInv' /\ StoreStep
  <2> DEFINE x == [calls[c] EXCEPT !.edges = @ \ {e}]
  <2>1. calls[c] \in [op : {"build"}, left : SUBSET Planned, edges : SUBSET plan]
        /\ e \in calls[c].edges
    BY <1>5, Remembered DEF IInv, ApplyLinks
  <2>2. x \in [op : {"build"}, left : SUBSET Planned, edges : SUBSET plan]
    BY <2>1
  <2>3. /\ calls' = [calls EXCEPT ![c] = x] /\ edges' = edges \union {e}
        /\ UNCHANGED <<status, claim, lease, tries, parked, phase,
                       begun, made, replaces, stands, plan, linked>>
    BY <1>5 DEF ApplyLinks, Then, planVars
  <2>4. x \in Handling' /\ x.op = "build"
    BY <2>2, <2>3 DEF Handling
  <2>5. PICK a \in Planned, b \in Planned : e = <<a, b>>
    OBVIOUS
  <2> HIDE DEF x
  <2>6. Handled'
    BY <2>3, <2>4, ThenKeeps DEF IInv, Handled
  <2>7. edges' \subseteq Tasks \X Tasks
    BY <2>3, GraphAssumption DEF IInv, StoreTypeOK
  <2>8. StoreStep
    BY <2>3, <2>7, StoreKeeps DEF IInv
  <2>9. Shaped' /\ PlannedAreOrigins'
    BY <2>1, <2>3, <2>5, LinksShape DEF IInv, PlannedAreOrigins
  <2>10. phase[Root] # "none"
    BY <2>1 DEF IInv, Unplanned
  <2> QED
    BY <2>6, <2>8, <2>9, <2>10 DEF IInv, StoreStep, Unplanned
<1> QED
  BY <1>1, <1>2, <1>3, <1>4, <1>5

\* A cancellation under way.
Cancelling == [op : {"cancel"}, task : made \union {None}, left : SUBSET made]

LEMMA CancellingHandles ==
  ASSUME NEW x \in Cancelling
  PROVE  x \in Handling /\ x.op = "cancel"
BY DEF Cancelling, Handling

LEMMA CancelRemembers ==
  ASSUME Handled, NEW c \in Callers, calls[c].op = "cancel"
  PROVE  calls[c] \in Cancelling
BY Remembered DEF Cancelling

LEMMA CancelKeeps ==
  ASSUME IInv, NEW c \in Callers,
         \/ \E t \in Tasks : CancelReads(c, t) \/ CancelPicks(c, t)
         \/ CancelWrites(c) \/ CancelEnds(c)
  PROVE  IInv' /\ StoreStep
<1>1. ASSUME NEW t \in Tasks, CancelReads(c, t)
      PROVE  IInv' /\ StoreStep
  <2>1. PICK S \in SUBSET made : Begin(c, [op |-> "cancel", task |-> None, left |-> S])
    BY <1>1 DEF CancelReads, IInv, Shaped
  <2> DEFINE x == [op |-> "cancel", task |-> None, left |-> S]
  <2>2. x \in Handling /\ x.op = "cancel" /\ Begin(c, x)
    BY <2>1, CancellingHandles DEF Cancelling
  <2> HIDE DEF x
  <2> QED
    BY <1>1, <2>2, CallMoves DEF CancelReads
<1>2. ASSUME NEW t \in Tasks, CancelPicks(c, t)
      PROVE  IInv' /\ StoreStep
  <2> DEFINE n == IF status[t] \in Terminal THEN None ELSE t
             x == [calls[c] EXCEPT !.left = @ \ {t}, !.task = n]
  <2>1. /\ calls[c].op = "cancel" /\ t \in calls[c].left /\ Then(c, x)
        /\ UNCHANGED <<storeVars, made, replaces, planVars>>
    <3>1. Then(c, x)
      BY <1>2, Zenon DEF CancelPicks
    <3>2. UNCHANGED <<storeVars, made, replaces, planVars>>
      BY <1>2, Zenon DEF CancelPicks
    <3> QED
      BY <1>2, <3>1, <3>2, Zenon DEF CancelPicks
  <2> HIDE DEF x
  <2>2. calls[c] \in Cancelling
    BY <2>1, CancelRemembers DEF IInv
  <2>3. n \in made \union {None}
    BY <2>1, <2>2 DEF Cancelling
  <2> HIDE DEF n
  <2>4. x \in Cancelling
    BY <2>2, <2>3 DEF Cancelling, x
  <2>5. x \in Handling /\ x.op = "cancel"
    BY <2>4, CancellingHandles
  <2> QED
    BY <2>1, <2>5, CallMoves
<1>3. CASE CancelWrites(c)
  <2> DEFINE x == [calls[c] EXCEPT !.task = None]
  <2>1. calls[c] \in Cancelling /\ calls[c].task \in made /\ made \subseteq Tasks
    <3>1. calls[c].op = "cancel" /\ calls[c].task # None
      BY <1>3 DEF CancelWrites
    <3>2. calls[c] \in Cancelling /\ made \subseteq Tasks
      BY <3>1, CancelRemembers DEF IInv, Shaped
    <3> QED
      BY <3>1, <3>2 DEF Cancelling
  <2>2. x \in Cancelling
    BY <2>1 DEF Cancelling
  <2>3. x \in Handling /\ x.op = "cancel" /\ Then(c, x) /\ CancelTask(calls[c].task)
        /\ calls' = [calls EXCEPT ![c] = x] /\ UNCHANGED <<made, replaces, stands, plan, linked, edges>>
    BY <1>3, <2>2, CancellingHandles DEF CancelWrites, CancelTask, Then, planVars
  <2> HIDE DEF x
  <2>4. Handled' /\ calls \in [Callers -> Handling]
    BY <2>3, MiddleKeeps DEF IInv, Handled
  <2>5. StoreStep
    BY <2>1, <2>3, CancelSteps DEF IInv
  <2> QED
    BY <2>3, <2>4, <2>5, TableMoves
<1>4. CASE CancelEnds(c)
  BY <1>4, IdleHandling, CallMoves DEF CancelEnds
<1> QED
  BY <1>1, <1>2, <1>3, <1>4

LEMMA ReplanKeeps ==
  ASSUME IInv, NEW c \in Callers,
         \/ \E t \in Tasks : ReplanReads(c, t) \/ ReplanCreates(c, t)
         \/ ReplanWires(c) \/ ReplanFails(c)
  PROVE  IInv' /\ StoreStep
<1>1. ASSUME NEW f \in Tasks, ReplanReads(c, f)
      PROVE  IInv' /\ StoreStep
  <2> DEFINE x == [op |-> "replace", failed |-> f]
  <2>1. x \in Handling /\ x.op = "replace" /\ Begin(c, x)
    BY <1>1 DEF Handling, ReplanReads
  <2> HIDE DEF x
  <2> QED
    BY <1>1, <2>1, CallMoves DEF ReplanReads
<1>2. ASSUME NEW t \in Tasks, ReplanCreates(c, t)
      PROVE  IInv' /\ StoreStep
  <2> DEFINE f == calls[c].failed
             x == [op |-> "wire", failed |-> f, task |-> t]
  <2>1. f \in made \ {Root} /\ t \in Tasks \ Known
    BY <1>2, Remembered DEF IInv, ReplanCreates, Known
  <2>2. /\ made' = made \union {t} /\ replaces' = [replaces EXCEPT ![t] = f]
        /\ stands' = [stands EXCEPT ![t] = stands[f]]
        /\ parked' = [parked EXCEPT ![t] = TRUE]
        /\ calls' = [calls EXCEPT ![c] = x]
        /\ UNCHANGED <<status, claim, lease, tries, phase, edges, begun, plan, linked>>
    BY <1>2 DEF ReplanCreates, Then, planVars
  <2>3. x \in Handling' /\ x.op = "wire" /\ x.task = t /\ x.failed = f
    BY <2>1, <2>2 DEF Handling
  <2>4. replaces'[t] = f /\ (\A u \in made : replaces'[u] = replaces[u])
    BY <2>1, <2>2 DEF IInv, Shaped, Known
  <2> HIDE DEF x
  <2>5. Handled'
    BY <2>2, <2>3, <2>4, ThenKeeps DEF IInv, Handled
  <2>6. Shaped'
    BY <2>1, <2>2, ReplacesShape DEF IInv
  <2>7. PlannedAreOrigins'
    BY <2>1, <2>2, GraphAssumption DEF IInv, PlannedAreOrigins, Known, Shaped
  <2>8. StoreStep
    BY <2>2 DEF IInv, StoreTypeOK, StoreStep, OverStep
  <2>9. Unplanned'
    BY <2>2, <2>3, UnplannedKept DEF IInv, Handled
  <2> QED
    BY <2>5, <2>6, <2>7, <2>8, <2>9 DEF IInv, StoreStep
<1>3. CASE ReplanWires(c)
  <2> DEFINE f == calls[c].failed
             t == calls[c].task
  <2>1. f \in made \ {Root} /\ t \in made /\ replaces[t] = f
    BY <1>3, Remembered DEF IInv, ReplanWires
  <2>2. /\ edges' = Rewired(f, t) /\ parked' = [parked EXCEPT ![t] = FALSE]
        /\ Then(c, Idle) /\ calls' = [calls EXCEPT ![c] = Idle]
        /\ UNCHANGED <<status, claim, lease, tries, phase, made, replaces, stands, plan, linked>>
    BY <1>3 DEF ReplanWires, Then, planVars
  <2>3. Handled' /\ calls \in [Callers -> Handling]
    BY <2>2, EndKeeps DEF IInv, Handled
  <2>4. Shaped' /\ PlannedAreOrigins'
    BY <2>1, <2>2, RewiresShape DEF IInv, PlannedAreOrigins
  <2>5. edges' \subseteq Tasks \X Tasks
    BY <2>4, GraphAssumption DEF Shaped, Known
  <2>6. StoreStep
    BY <2>2, <2>5 DEF IInv, StoreTypeOK, StoreStep, OverStep
  <2>7. edges = {} => edges' = {}
    BY <2>2 DEF Rewired
  <2>8. Unplanned'
    BY <2>2, <2>3, <2>7, IdleHandling, UnplannedKept DEF IInv
  <2> QED
    BY <2>3, <2>4, <2>6, <2>8 DEF IInv, StoreStep
<1>4. CASE ReplanFails(c)
  <2>1. /\ Then(c, Idle) /\ UNCHANGED <<made, replaces, stands, plan, linked>>
        /\ calls' = [calls EXCEPT ![c] = Idle]
    BY <1>4 DEF ReplanFails, Then, planVars
  <2>2. Handled' /\ calls \in [Callers -> Handling]
    BY <2>1, EndKeeps DEF IInv, Handled
  <2>3. calls[c].task \in Tasks
    BY <1>4, Remembered DEF IInv, Shaped, ReplanFails
  <2>4. StoreStep /\ edges' = edges
    <3>1. CASE CancelTask(calls[c].task)
      BY <2>3, <3>1, CancelSteps DEF IInv, CancelTask
    <3>2. CASE UNCHANGED storeVars
      BY <3>2, StoreKeeps DEF IInv, storeVars, StoreTypeOK
    <3> QED
      BY <1>4, <3>1, <3>2 DEF ReplanFails
  <2> QED
    BY <2>1, <2>2, <2>4, IdleHandling, TableMoves
<1> QED
  BY <1>1, <1>2, <1>3, <1>4

LEMMA SynthesisKeeps ==
  ASSUME IInv, NEW c \in Callers,
         SynthesisReads(c) \/ SynthesisBlocks(c) \/ SynthesisCompletes(c) \/ Abandons(c)
  PROVE  IInv' /\ StoreStep
<1>1. CASE SynthesisReads(c)
  <2>1. PICK x \in {[op |-> "giveup"], [op |-> "complete"]} : Begin(c, x)
    BY <1>1 DEF SynthesisReads
  <2>2. x \in Handling /\ x.op \notin {"wire", "build"}
    BY DEF Handling
  <2> QED
    BY <1>1, <2>1, <2>2, CallMoves DEF SynthesisReads
<1>2. CASE SynthesisBlocks(c) \/ SynthesisCompletes(c)
  <2>1. /\ Then(c, Idle) /\ UNCHANGED <<edges, made, replaces, stands, plan, linked>>
        /\ calls' = [calls EXCEPT ![c] = Idle]
    BY <1>2 DEF SynthesisBlocks, SynthesisCompletes, Then, storeVars, planVars
  <2>2. Handled' /\ calls \in [Callers -> Handling]
    BY <2>1, EndKeeps DEF IInv, Handled
  <2>3. StoreStep
    BY <1>2, RootSteps DEF IInv
  <2> QED
    BY <2>1, <2>2, <2>3, IdleHandling, TableMoves
<1>3. CASE Abandons(c)
  BY <1>3, IdleHandling, CallMoves DEF Abandons
<1> QED
  BY <1>1, <1>2, <1>3

\* Every step keeps the invariant, and leaves what is over over.
LEMMA StepKeeps == IInv /\ [Next]_vars => IInv' /\ StoreStep
<1> SUFFICES ASSUME IInv, [Next]_vars
             PROVE  IInv' /\ StoreStep
  OBVIOUS
<1>1. ASSUME NEW c \in Callers, Handles(c)
      PROVE  IInv' /\ StoreStep
  BY <1>1, ApplyKeeps, CancelKeeps, ReplanKeeps, SynthesisKeeps DEF Handles
<1>2. ASSUME NEW t \in Tasks, Resumes(t) \/ \E r \in Runs : Works(t, r)
      PROVE  IInv' /\ StoreStep
  <2>1. UNCHANGED graphVars /\ edges' = edges
    BY <1>2 DEF Resumes, ResumeTask, Works, StartTask, FinishTask, BlockTask, storeVars
  <2>2. StoreStep
    BY <1>2, ResumeSteps, WorkSteps DEF IInv
  <2>3. Handled'
    BY <2>1 DEF IInv, Handled, Handling, graphVars, planVars
  <2> QED
    BY <2>1, <2>2, <2>3, TableMoves DEF graphVars, planVars
<1>3. CASE UNCHANGED vars
  <2>1. UNCHANGED <<storeVars, graphVars>>
    BY <1>3 DEF vars
  <2>2. StoreStep
    BY <2>1, StoreKeeps DEF IInv, storeVars, StoreTypeOK
  <2>3. Handled'
    BY <2>1 DEF IInv, Handled, Handling, graphVars, planVars
  <2> QED
    BY <2>1, <2>2, <2>3, TableMoves DEF storeVars, graphVars, planVars
<1> QED
  BY <1>1, <1>2, <1>3 DEF Next

----------------------------------------------------------------------------
(* The plan.                                                               *)

\* A child is planned or stands for a planned one that is over; a replacement may
\* still be parked, and has not run then.
Lineage ==
  /\ \A t \in made \ {Root} : stands[t] \in Planned
  /\ \A t \in made : replaces[t] # None => status[stands[t]] \in Terminal
  /\ \A c \in Callers : calls[c].op = "replace" => status[stands[calls[c].failed]] \in Terminal
  /\ \A t \in Planned \union {Root} : ~parked[t]
  /\ \A t \in Tasks : parked[t] => status[t] \in {"queued", "cancelled"}
  /\ \A t \in Tasks \ made : status[t] = "queued"

\* What is left of an application, as long as no planned child is over.
Building ==
  \A c \in Callers : calls[c].op = "build" =>
    /\ Planned \subseteq made \union calls[c].left
    /\ (\A t \in Planned : status[t] \notin Terminal) => plan \subseteq edges \union calls[c].edges

\* t waits for somebody in the place of everything its planned child depends on.
Covered(t) ==
  \A d \in Planned : <<d, stands[t]>> \in plan =>
    \E u \in made : stands[u] = d /\ <<u, t>> \in edges

Linked ==
  linked => /\ phase[Root] # "none"
            /\ Planned \subseteq made
            /\ \A t \in made \ {Root} : parked[t] \/ t \in stray \/ Covered(t)

PlanInv == Lineage /\ Building /\ Linked /\ stray \subseteq made

\* A step that leaves the graph alone, up to the status of tasks and the calls of
\* handlers.
Unmoved == UNCHANGED <<made, replaces, edges, plan, stands, stray, parked, linked>>

\* Parked tasks stay so, and what has no row keeps its status.
TableCalm ==
  \A t \in Tasks : /\ parked[t] => status'[t] \in {"queued", "cancelled"}
                   /\ t \notin made => status'[t] = status[t]

LEMMA UnmovedKeeps ==
  ASSUME IInv, IInv', PlanInv, StoreStep, Unmoved, TableCalm,
         \A c \in Callers :
           \/ calls'[c] = calls[c]
           \/ calls'[c].op \notin {"build", "replace"}
           \/ calls'[c].op = "replace" /\ status[stands[calls'[c].failed]] \in Terminal
  PROVE  PlanInv'
<1>1. /\ made \subseteq Tasks /\ Root \in Tasks /\ Planned \subseteq Tasks
      /\ stands \in [Tasks -> Tasks]
  BY GraphAssumption DEF IInv, Shaped
<1>2. \A t \in Tasks : status[t] \in Terminal => status'[t] \in Terminal
  BY DEF StoreStep, OverStep, Terminal
<1>3. \A c \in Callers : calls[c].op = "replace" => calls[c].failed \in made
  BY Remembered DEF IInv
<1>4. \A c \in Callers : calls'[c].op = "replace" => calls'[c].failed \in Tasks
  <2>1. Handled' /\ made' \subseteq Tasks
    BY DEF IInv, Shaped
  <2> QED
    BY <2>1 DEF Handled, Handling
<1>5. Lineage'
  <2>1. /\ \A t \in made' \ {Root} : stands'[t] \in Planned
        /\ \A t \in Planned \union {Root} : ~parked'[t]
        /\ \A t \in Tasks : parked'[t] => status'[t] \in {"queued", "cancelled"}
        /\ \A t \in Tasks \ made' : status'[t] = "queued"
    BY DEF PlanInv, Lineage, Unmoved, TableCalm
  <2>2. \A t \in made' : replaces'[t] # None => status'[stands'[t]] \in Terminal
    BY <1>1, <1>2 DEF PlanInv, Lineage, Unmoved
  <2>3. ASSUME NEW c \in Callers, calls'[c].op = "replace"
        PROVE  status'[stands'[calls'[c].failed]] \in Terminal
    <3>1. status[stands[calls'[c].failed]] \in Terminal
      BY <2>3 DEF PlanInv, Lineage
    <3> QED
      BY <1>1, <1>2, <1>4, <2>3, <3>1 DEF Unmoved
  <2> QED
    BY <2>1, <2>2, <2>3 DEF Lineage
<1>6. Building'
  <2> SUFFICES ASSUME NEW c \in Callers, calls'[c].op = "build"
               PROVE  /\ Planned \subseteq made' \union calls'[c].left
                      /\ (\A t \in Planned : status'[t] \notin Terminal)
                           => plan' \subseteq edges' \union calls'[c].edges
    BY DEF Building
  <2>1. calls'[c] = calls[c]
    OBVIOUS
  <2> QED
    BY <1>1, <1>2, <2>1 DEF PlanInv, Building, Unmoved
<1>7. Linked'
  BY DEF PlanInv, Linked, Covered, Unmoved, StoreStep
<1> QED
  BY <1>5, <1>6, <1>7 DEF PlanInv, Unmoved

\* The statements of the table that are no part of building or rewiring.
LEMMA TableCalms ==
  ASSUME IInv, PlanInv, NEW t \in made,
         \/ \E r \in Runs : Works(t, r)
         \/ Resumes(t) \/ CancelTask(t)
  PROVE  TableCalm /\ UNCHANGED parked
<1>1. /\ t \in Tasks /\ parked \in [Tasks -> BOOLEAN] /\ status \in [Tasks -> Status]
      /\ \A u \in Tasks : parked[u] => status[u] \in {"queued", "cancelled"}
  BY DEF IInv, Shaped, StoreTypeOK, PlanInv, Lineage
<1>2. ASSUME NEW s, status' = [status EXCEPT ![t] = s],
             ~parked[t] \/ s \in {"queued", "cancelled"}
      PROVE  TableCalm
  BY <1>1, <1>2 DEF TableCalm
<1>3. CASE CancelTask(t)
  BY <1>2, <1>3 DEF CancelTask, Release
<1>4. CASE Resumes(t)
  BY <1>2, <1>4 DEF Resumes, ResumeTask, Release
<1>5. ASSUME NEW r \in Runs, Works(t, r), ~UNCHANGED storeVars
      PROVE  TableCalm /\ UNCHANGED parked
  <2>1. ~parked[t]
    BY <1>1, <1>5 DEF Works, StartTask, Startable, FinishTask, BlockTask, Owns
  <2>2. /\ parked' = [parked EXCEPT ![t] = FALSE]
        /\ \E s : status' = [status EXCEPT ![t] = s]
    BY <1>5 DEF Works, StartTask, FinishTask, BlockTask, Release
  <2> QED
    BY <1>1, <1>2, <2>1, <2>2
<1>6. CASE UNCHANGED storeVars
  BY <1>1, <1>6 DEF TableCalm, storeVars
<1> QED
  BY <1>3, <1>4, <1>5, <1>6

\* Handlers that only read, end, or write the root or a cancellation.
LEMMA OthersPlan ==
  ASSUME IInv, IInv', PlanInv, StoreStep, NEW c \in Callers,
         \/ \E E \in Graphs : ApplyReads(c, E)
         \/ \E t \in Tasks : CancelReads(c, t) \/ CancelPicks(c, t) \/ ReplanReads(c, t)
         \/ CancelWrites(c) \/ CancelEnds(c) \/ ReplanFails(c)
         \/ SynthesisReads(c) \/ SynthesisBlocks(c) \/ SynthesisCompletes(c) \/ Abandons(c)
  PROVE  PlanInv'
<1>1. /\ calls \in [Callers -> Handling] /\ made \subseteq Tasks /\ Root \in made
      /\ stands \in [Tasks -> Tasks] /\ parked \in [Tasks -> BOOLEAN] /\ status \in [Tasks -> Status]
  BY DEF IInv, Shaped, Handled, StoreTypeOK
<1>2. Unmoved /\ TableCalm
  <2>1. CASE UNCHANGED <<storeVars, made, replaces, planVars>>
    BY <2>1 DEF Unmoved, TableCalm, storeVars, planVars, PlanInv, Lineage
  <2>2. ASSUME NEW t \in made, CancelTask(t), UNCHANGED <<made, replaces, planVars>>
        PROVE  Unmoved /\ TableCalm
    BY <2>2, TableCalms DEF Unmoved, planVars, CancelTask
  <2>3. CASE CancelWrites(c)
    <3>1. calls[c].op = "cancel" /\ calls[c].task # None
      BY <2>3 DEF CancelWrites
    <3>2. calls[c].task \in made
      BY <3>1, Remembered DEF IInv
    <3> QED
      BY <2>2, <2>3, <3>2 DEF CancelWrites
  <2>4. CASE ReplanFails(c)
    <3>1. calls[c].task \in made
      BY <2>4, Remembered DEF IInv, ReplanFails
    <3> QED
      BY <2>1, <2>2, <2>4, <3>1 DEF ReplanFails
  <2>5. CASE SynthesisBlocks(c) /\ ~UNCHANGED storeVars
    <3>1. /\ status' = [status EXCEPT ![Root] = "blocked"] /\ parked' = [parked EXCEPT ![Root] = FALSE]
          /\ UNCHANGED <<edges, made, replaces, planVars>>
      BY <2>5 DEF SynthesisBlocks, Release
    <3>2. ~parked[Root]
      BY DEF PlanInv, Lineage
    <3> QED
      BY <1>1, <3>1, <3>2 DEF Unmoved, TableCalm, planVars, PlanInv, Lineage
  <2>6. CASE SynthesisCompletes(c) /\ Waiting
    <3>1. /\ status' = [status EXCEPT ![Root] = "succeeded"]
          /\ UNCHANGED <<parked, edges, made, replaces, planVars>>
      BY <2>6 DEF SynthesisCompletes, Release
    <3>2. ~parked[Root]
      BY DEF PlanInv, Lineage
    <3> QED
      BY <1>1, <3>1, <3>2 DEF Unmoved, TableCalm, planVars, PlanInv, Lineage
  <2>7. CASE SynthesisBlocks(c) /\ UNCHANGED storeVars
    BY <2>1, <2>7 DEF SynthesisBlocks
  <2>8. CASE SynthesisCompletes(c) /\ ~Waiting
    BY <2>1, <2>8 DEF SynthesisCompletes, storeVars
  <2>9. ASSUME NEW t \in Tasks, CancelReads(c, t) \/ CancelPicks(c, t) \/ ReplanReads(c, t)
        PROVE  Unmoved /\ TableCalm
    BY <2>1, <2>9, Zenon DEF CancelReads, CancelPicks, ReplanReads
  <2>10. CASE (\E E \in Graphs : ApplyReads(c, E)) \/ CancelEnds(c) \/ SynthesisReads(c) \/ Abandons(c)
    BY <2>1, <2>10, Zenon DEF ApplyReads, CancelEnds, SynthesisReads, Abandons
  <2> QED
    BY <2>3, <2>4, <2>5, <2>6, <2>7, <2>8, <2>9, <2>10, Zenon
<1>3. ASSUME NEW x, calls' = [calls EXCEPT ![c] = x], x.op \notin {"build", "replace"}
      PROVE  PlanInv'
  BY <1>1, <1>2, <1>3, UnmovedKeeps
<1>4. ASSUME NEW f \in Tasks, ReplanReads(c, f)
      PROVE  PlanInv'
  <2>1. calls' = [calls EXCEPT ![c] = [op |-> "replace", failed |-> f]]
    BY <1>4 DEF ReplanReads, Begin
  <2>2. f \in made \ {Root} /\ status[f] \in Terminal
    BY <1>4 DEF ReplanReads, Terminal
  <2>3. status[stands[f]] \in Terminal
    <3>1. replaces[f] = None => stands[f] = f
      BY <1>1, <2>2 DEF IInv, Shaped, Standing
    <3> QED
      BY <2>2, <3>1 DEF PlanInv, Lineage
  <2> QED
    BY <1>1, <1>2, <2>1, <2>3, UnmovedKeeps
<1>5. CASE \E E \in Graphs : ApplyReads(c, E)
  <2>1. PICK E \in Graphs : calls' = [calls EXCEPT ![c] = [op |-> "block", edges |-> E]]
    BY <1>5 DEF ApplyReads, Begin
  <2> QED
    BY <2>1, <1>3
<1>6. CASE \E t \in Tasks : CancelReads(c, t)
  <2>1. PICK S : calls' = [calls EXCEPT ![c] = [op |-> "cancel", task |-> None, left |-> S]]
    BY <1>6 DEF CancelReads, Begin
  <2> QED
    BY <2>1, <1>3
<1>7. CASE (\E t \in Tasks : CancelPicks(c, t)) \/ CancelWrites(c)
  <2>1. calls[c].op = "cancel"
    BY <1>7, Zenon DEF CancelPicks, CancelWrites
  <2>2. calls[c] \in Cancelling
    BY <2>1, CancelRemembers DEF IInv
  <2>3. CASE CancelWrites(c)
    <3>1. calls' = [calls EXCEPT ![c] = [calls[c] EXCEPT !.task = None]]
      BY <2>3 DEF CancelWrites, Then
    <3>2. [calls[c] EXCEPT !.task = None].op = "cancel"
      BY <2>2 DEF Cancelling
    <3> QED
      BY <1>3, <3>1, <3>2
  <2>4. ASSUME NEW t \in Tasks, CancelPicks(c, t)
        PROVE  PlanInv'
    <3> DEFINE n == IF status[t] \in Terminal THEN None ELSE t
               x == [calls[c] EXCEPT !.left = @ \ {t}, !.task = n]
    <3>1. calls' = [calls EXCEPT ![c] = x]
      BY <2>4, Zenon DEF CancelPicks, Then
    <3> HIDE DEF n
    <3>2. x.op = "cancel"
      BY <2>2 DEF Cancelling
    <3> HIDE DEF x
    <3> QED
      BY <1>3, <3>1, <3>2
  <2> QED
    BY <1>7, <2>3, <2>4
<1>8. CASE SynthesisReads(c)
  <2>1. PICK x \in {[op |-> "giveup"], [op |-> "complete"]} : calls' = [calls EXCEPT ![c] = x]
    BY <1>8 DEF SynthesisReads, Begin
  <2> QED
    BY <2>1, <1>3
<1>9. CASE CancelEnds(c) \/ ReplanFails(c) \/ SynthesisBlocks(c) \/ SynthesisCompletes(c) \/ Abandons(c)
  <2>1. calls' = [calls EXCEPT ![c] = Idle]
    BY <1>9 DEF CancelEnds, ReplanFails, SynthesisBlocks, SynthesisCompletes, Abandons, Then
  <2> QED
    BY <2>1, <1>3, IdleHandling
<1> QED
  BY <1>4, <1>5, <1>6, <1>7, <1>8, <1>9

\* What is blocked, created and linked is the plan.
LEMMA ApplyPlans ==
  ASSUME IInv, IInv', PlanInv, StoreStep, NEW c \in Callers,
         \/ ApplyBlocks(c) \/ ApplyEnds(c)
         \/ \E t \in Tasks : ApplyCreates(c, t)
         \/ \E e \in Planned \X Planned : ApplyLinks(c, e)
  PROVE  PlanInv'
<1>1. /\ calls \in [Callers -> Handling] /\ made \subseteq Tasks /\ Root \in made
      /\ stands \in [Tasks -> Tasks] /\ parked \in [Tasks -> BOOLEAN] /\ status \in [Tasks -> Status]
      /\ phase \in [Tasks -> Phases] /\ Planned \subseteq Tasks \ {Root}
  BY GraphAssumption DEF IInv, Shaped, Handled, StoreTypeOK
<1>2. CASE ApplyBlocks(c) /\ status[Root] # "queued"
  <2>1. /\ UNCHANGED <<status, phase, plan, parked, edges, made, replaces, linked, stands, stray>>
        /\ calls' = [calls EXCEPT ![c] = Idle]
    BY <1>2 DEF ApplyBlocks, Then
  <2>2. Unmoved /\ TableCalm
    BY <2>1 DEF Unmoved, TableCalm, PlanInv, Lineage
  <2> QED
    BY <1>1, <2>1, <2>2, IdleHandling, UnmovedKeeps
<1>3. CASE ApplyBlocks(c) /\ status[Root] = "queued"
  <2>1. /\ status' = [status EXCEPT ![Root] = "blocked"]
        /\ phase[Root] = "none" /\ phase'[Root] # "none"
        /\ UNCHANGED <<parked, edges, made, replaces, linked, stands, stray>>
        /\ plan' = calls[c].edges
        /\ calls' = [calls EXCEPT ![c] = [op |-> "build", left |-> Planned, edges |-> calls[c].edges]]
    BY <1>1, <1>3 DEF ApplyBlocks, Then, Release
  <2>2. ~linked /\ \A d \in Callers : calls[d].op # "build"
    BY <2>1 DEF PlanInv, Linked, IInv, Unplanned
  <2>3. Building'
    BY <1>1, <2>1, <2>2 DEF Building
  <2>4. stands[Root] = Root
    BY <1>1 DEF IInv, Shaped, Standing, PlannedAreOrigins
  <2>5. \A d \in Callers : calls'[d].op = "replace" =>
          /\ calls'[d] = calls[d] /\ calls[d].failed \in made \ {Root}
    BY <1>1, <2>1, Remembered DEF IInv
  <2>6. \A t \in Tasks : t # Root => status'[t] = status[t]
    BY <1>1, <2>1
  <2>7. Lineage'
    <3>1. \A t \in made : stands[t] # Root \/ replaces[t] = None
      BY <1>1 DEF PlanInv, Lineage, IInv, PlannedAreOrigins
    <3>2. \A t \in made \ {Root} : stands[t] \in Tasks \ {Root}
      BY <1>1 DEF PlanInv, Lineage
    <3> QED
      BY <1>1, <2>1, <2>5, <2>6, <3>1, <3>2 DEF PlanInv, Lineage
  <2> QED
    BY <2>1, <2>2, <2>3, <2>7 DEF PlanInv, Linked
<1>4. ASSUME NEW t \in Tasks, ApplyCreates(c, t)
      PROVE  PlanInv'
  <2>1. calls[c] \in [op : {"build"}, left : SUBSET Planned, edges : SUBSET plan]
        /\ t \in calls[c].left
    BY <1>4, Remembered DEF IInv, ApplyCreates
  <2>2. /\ calls' = [calls EXCEPT ![c] = [calls[c] EXCEPT !.left = @ \ {t}]]
        /\ made' = made \union {t}
        /\ UNCHANGED <<status, phase, parked, edges, replaces, plan, linked, stands, stray>>
    BY <1>4 DEF ApplyCreates, Then, storeVars, planVars
  <2>3. /\ calls'[c].op = "build" /\ calls'[c].edges = calls[c].edges
        /\ calls'[c].left = calls[c].left \ {t}
        /\ \A d \in Callers \ {c} : calls'[d] = calls[d]
    BY <1>1, <2>1, <2>2
  <2>4. t \in Planned /\ replaces[t] = None /\ stands[t] = t
    BY <2>1 DEF IInv, PlannedAreOrigins, Shaped, Standing
  <2>5. Lineage'
    <3>1. \A d \in Callers : calls'[d].op = "replace" => calls'[d] = calls[d]
      BY <2>3
    <3> QED
      BY <2>2, <2>4, <3>1 DEF PlanInv, Lineage
  <2>6. Building'
    <3> SUFFICES ASSUME NEW d \in Callers, calls'[d].op = "build"
                 PROVE  /\ Planned \subseteq made' \union calls'[d].left
                        /\ (\A u \in Planned : status'[u] \notin Terminal)
                             => plan' \subseteq edges' \union calls'[d].edges
      BY DEF Building
    <3>1. calls[d].op = "build"
      BY <2>1, <2>3
    <3> QED
      BY <2>2, <2>3, <3>1 DEF PlanInv, Building
  <2>7. Linked'
    BY <2>2, <2>4 DEF PlanInv, Linked, Covered
  <2> QED
    BY <2>2, <2>5, <2>6, <2>7 DEF PlanInv
<1>5. ASSUME NEW e \in Planned \X Planned, ApplyLinks(c, e)
      PROVE  PlanInv'
  <2>1. calls[c] \in [op : {"build"}, left : SUBSET Planned, edges : SUBSET plan]
    BY <1>5, Remembered DEF IInv, ApplyLinks
  <2>2. /\ calls' = [calls EXCEPT ![c] = [calls[c] EXCEPT !.edges = @ \ {e}]]
        /\ edges' = edges \union {e}
        /\ UNCHANGED <<status, phase, parked, made, replaces, plan, linked, stands, stray>>
    BY <1>5 DEF ApplyLinks, Then, planVars
  <2>3. /\ calls'[c].op = "build" /\ calls'[c].edges = calls[c].edges \ {e}
        /\ calls'[c].left = calls[c].left
        /\ \A d \in Callers \ {c} : calls'[d] = calls[d]
    BY <1>1, <2>1, <2>2
  <2>4. Lineage'
    <3>1. \A d \in Callers : calls'[d].op = "replace" => calls'[d] = calls[d]
      BY <2>3
    <3> QED
      BY <2>2, <3>1 DEF PlanInv, Lineage
  <2>5. Building'
    <3> SUFFICES ASSUME NEW d \in Callers, calls'[d].op = "build"
                 PROVE  /\ Planned \subseteq made' \union calls'[d].left
                        /\ (\A u \in Planned : status'[u] \notin Terminal)
                             => plan' \subseteq edges' \union calls'[d].edges
      BY DEF Building
    <3>1. calls[d].op = "build"
      BY <2>1, <2>3
    <3> QED
      BY <2>2, <2>3, <3>1 DEF PlanInv, Building
  <2>6. Linked'
    BY <2>2 DEF PlanInv, Linked, Covered
  <2> QED
    BY <2>2, <2>4, <2>5, <2>6 DEF PlanInv
<1>6. CASE ApplyEnds(c)
  <2>1. /\ calls[c].op = "build" /\ calls[c].left = {} /\ calls[c].edges = {}
        /\ linked' = (\A t \in Planned : tries[t] = 0 /\ status[t] = "queued")
        /\ calls' = [calls EXCEPT ![c] = Idle]
        /\ UNCHANGED <<status, phase, parked, edges, made, replaces, plan, stands, stray>>
    BY <1>6 DEF ApplyEnds, Then, storeVars
  <2>2. \A d \in Callers : calls'[d] = calls[d] \/ calls'[d].op = "idle"
    BY <1>1, <2>1, IdleHandling
  <2>3. Lineage' /\ Building'
    BY <2>1, <2>2 DEF PlanInv, Lineage, Building
  <2>4. ASSUME linked'
        PROVE  /\ phase[Root] # "none" /\ Planned \subseteq made
               /\ \A t \in made \ {Root} : Covered(t)
    <3>1. phase[Root] # "none"
      BY <2>1 DEF IInv, Unplanned
    <3>2. \A t \in Planned : status[t] \notin Terminal
      BY <2>1, <2>4 DEF Terminal
    <3>3. Planned \subseteq made /\ plan \subseteq edges
      BY <2>1, <3>2 DEF PlanInv, Building
    <3>4. \A t \in Planned : stands[t] = t
      BY <1>1 DEF IInv, PlannedAreOrigins, Shaped, Standing
    <3>5. ASSUME NEW t \in made \ {Root}, NEW d \in Planned, <<d, stands[t]>> \in plan
          PROVE  \E u \in made : stands[u] = d /\ <<u, t>> \in edges
      <4>1. replaces[t] = None
        BY <3>2 DEF PlanInv, Lineage
      <4>2. stands[t] = t
        BY <1>1, <4>1 DEF IInv, Shaped, Standing
      <4> QED
        BY <3>3, <3>4, <3>5, <4>2
    <3> QED
      BY <3>1, <3>3, <3>5 DEF Covered
  <2>5. Linked'
    BY <2>1, <2>4 DEF Linked, Covered
  <2> QED
    BY <2>1, <2>3, <2>5 DEF PlanInv
<1> QED
  BY <1>2, <1>3, <1>4, <1>5, <1>6

\* A replacement has the plan's dependencies when it is no longer parked, unless
\* what it replaces never had them.
LEMMA ReplanPlans ==
  ASSUME IInv, IInv', PlanInv, StoreStep, NEW c \in Callers,
         (\E t \in Tasks : ReplanCreates(c, t)) \/ ReplanWires(c)
  PROVE  PlanInv'
<1>1. /\ calls \in [Callers -> Handling] /\ made \subseteq Tasks /\ Root \in made
      /\ stands \in [Tasks -> Tasks] /\ parked \in [Tasks -> BOOLEAN] /\ status \in [Tasks -> Status]
      /\ Planned \subseteq Tasks \ {Root} /\ None \notin Tasks
      /\ replaces \in [Tasks -> made \union {None}] /\ edges \subseteq Known \X Known
  BY GraphAssumption DEF IInv, Shaped, Handled, StoreTypeOK
<1>2. ASSUME NEW t \in Tasks, ReplanCreates(c, t)
      PROVE  PlanInv'
  <2>0. PICK f \in made \ {Root} : f = calls[c].failed
    BY <1>2, Remembered DEF IInv, ReplanCreates
  <2>1. t \in Tasks \ Known /\ status[stands[f]] \in Terminal
    BY <1>2, <2>0 DEF ReplanCreates, Known, PlanInv, Lineage
  <2>2. /\ made' = made \union {t} /\ replaces' = [replaces EXCEPT ![t] = f]
        /\ stands' = [stands EXCEPT ![t] = stands[f]]
        /\ parked' = [parked EXCEPT ![t] = TRUE]
        /\ calls' = [calls EXCEPT ![c] = [op |-> "wire", failed |-> f, task |-> t]]
        /\ UNCHANGED <<status, phase, edges, plan, linked, stray>>
    BY <1>2, <2>0 DEF ReplanCreates, Then
  <2>3. \A d \in Callers : calls'[d] = calls[d] \/ calls'[d].op = "wire"
    BY <1>1, <2>2
  <2>4. /\ t \notin made /\ t # Root /\ t \notin Planned /\ f # t
        /\ \A u \in made : u # t /\ stands'[u] = stands[u] /\ parked'[u] = parked[u]
                           /\ replaces'[u] = replaces[u]
        /\ stands'[t] = stands[f] /\ parked'[t] /\ replaces'[t] = f
    BY <1>1, <2>1, <2>2 DEF Known
  <2>5. Lineage'
    <3>1. status[t] = "queued" /\ stands[f] \in Planned
      BY <2>1 DEF PlanInv, Lineage, Known
    <3>2. /\ \A u \in made' \ {Root} : stands'[u] \in Planned
          /\ \A u \in made' : replaces'[u] # None => status'[stands'[u]] \in Terminal
      BY <2>1, <2>2, <2>4, <3>1 DEF PlanInv, Lineage
    <3>3. \A d \in Callers : calls'[d].op = "replace" =>
            status'[stands'[calls'[d].failed]] \in Terminal
      <4>1. \A d \in Callers : calls[d].op = "replace" => calls[d].failed \in made
        BY Remembered DEF IInv
      <4> QED
        BY <2>2, <2>3, <2>4, <4>1 DEF PlanInv, Lineage
    <3>4. /\ \A u \in Planned \union {Root} : ~parked'[u]
          /\ \A u \in Tasks : parked'[u] => status'[u] \in {"queued", "cancelled"}
          /\ \A u \in Tasks \ made' : status'[u] = "queued"
      BY <1>1, <2>2, <2>4, <3>1 DEF PlanInv, Lineage
    <3> QED
      BY <3>2, <3>3, <3>4 DEF Lineage
  <2>6. Building'
    BY <2>2, <2>3 DEF PlanInv, Building
  <2>7. Linked'
    <3>1. ASSUME NEW u \in made, Covered(u)
          PROVE  Covered(u)'
      <4>1. ASSUME NEW d \in Planned, <<d, stands'[u]>> \in plan'
            PROVE  \E w \in made' : stands'[w] = d /\ <<w, u>> \in edges'
        <5>1. stands'[u] = stands[u] /\ plan' = plan
          BY <2>2, <2>4
        <5>2. <<d, stands[u]>> \in plan
          BY <4>1, <5>1
        <5>3. PICK w \in made : stands[w] = d /\ <<w, u>> \in edges
          BY <3>1, <5>2 DEF Covered
        <5> QED
          BY <2>2, <2>4, <5>3
      <4> QED
        BY <4>1 DEF Covered
    <3>2. ASSUME linked', NEW u \in made' \ {Root}
          PROVE  (parked[u] \/ u \in stray \/ Covered(u))'
      BY <2>2, <2>4, <3>1, <3>2 DEF PlanInv, Linked
    <3> QED
      BY <2>2, <3>2 DEF PlanInv, Linked
  <2> QED
    BY <2>2, <2>5, <2>6, <2>7 DEF PlanInv
<1>3. CASE ReplanWires(c)
  <2>0. PICK f \in made \ {Root}, t \in made : f = calls[c].failed /\ t = calls[c].task
    BY <1>3, Remembered DEF IInv, ReplanWires
  <2>1. replaces[t] = f /\ status[f] \in Terminal /\ status[t] = "queued"
    BY <1>3, <2>0, Remembered DEF IInv, ReplanWires, Terminal
  <2>2. /\ edges' = Rewired(f, t) /\ parked' = [parked EXCEPT ![t] = FALSE]
        /\ stray' = IF Edgeless(f) THEN stray \union {t} ELSE stray
        /\ calls' = [calls EXCEPT ![c] = Idle]
        /\ UNCHANGED <<status, phase, made, replaces, plan, linked, stands>>
    BY <1>3, <2>0 DEF ReplanWires, Then
  <2>3. \A d \in Callers : calls'[d] = calls[d] \/ calls'[d].op = "idle"
    BY <1>1, <2>2, IdleHandling
  <2>4. /\ stands[t] = stands[f]
        /\ \A u \in Tasks : u # t => parked'[u] = parked[u]
        /\ ~parked'[t] /\ t \in Tasks /\ f \in Tasks
    BY <1>1, <2>1, <2>2 DEF IInv, Shaped, Standing
  <2>5. Lineage'
    <3>1. \A d \in Callers : calls'[d].op = "replace" => calls'[d] = calls[d]
      BY <2>3
    <3> QED
      BY <2>1, <2>2, <2>4, <3>1 DEF PlanInv, Lineage
  <2>6. ~\A u \in Planned : status[u] \notin Terminal
    <3>1. stands[t] \in Planned /\ status[stands[t]] \in Terminal
      <4>1. t # Root /\ replaces[t] # None
        BY <1>1, <2>1 DEF IInv, PlannedAreOrigins
      <4> QED
        BY <2>1, <4>1 DEF PlanInv, Lineage
    <3> QED
      BY <3>1
  <2>7. Building'
    BY <2>2, <2>3, <2>6 DEF PlanInv, Building
  <2>8. ASSUME NEW u \in made, NEW w \in made, <<w, u>> \in edges
        PROVE  \E v \in made : stands[v] = stands[w] /\ <<v, u>> \in edges'
    <3>1. CASE <<w, u>> \in edges'
      BY <3>1
    <3>2. CASE <<w, u>> \notin edges'
      <4>1. w = f /\ <<t, u>> \in edges'
        BY <2>2, <2>8, <3>2 DEF Rewired
      <4> QED
        BY <2>1, <2>4, <4>1
    <3> QED
      BY <3>1, <3>2
  <2>9. \A u \in made : Covered(u) => Covered(u)'
    BY <2>2, <2>8 DEF Covered
  <2>10. ASSUME linked
         PROVE  t \in stray' \/ Covered(t)'
    <3>1. CASE Edgeless(f)
      BY <2>2, <3>1
    <3>2. CASE ~Edgeless(f)
      <4>1. f \notin stray /\ ~parked[f]
        BY <2>1, <3>2 DEF Edgeless, PlanInv, Lineage, IInv, Shaped, Standing
      <4>2. Covered(f)
        BY <2>1, <2>10, <4>1 DEF PlanInv, Linked
      <4>3. ASSUME NEW w \in made, <<w, f>> \in edges
            PROVE  <<w, t>> \in edges'
        BY <2>2, <4>3 DEF Rewired
      <4>4. ASSUME NEW d \in Planned, <<d, stands'[t]>> \in plan'
            PROVE  \E w \in made' : stands'[w] = d /\ <<w, t>> \in edges'
        <5>1. PICK w \in made : stands[w] = d /\ <<w, f>> \in edges
          BY <2>2, <2>4, <4>2, <4>4 DEF Covered
        <5> QED
          BY <2>2, <4>3, <5>1
      <4> QED
        BY <4>4 DEF Covered
    <3> QED
      BY <3>1, <3>2
  <2>11. Linked'
    <3>1. stray \subseteq stray'
      BY <2>2
    <3>2. ASSUME linked', NEW u \in made' \ {Root}
          PROVE  (parked[u] \/ u \in stray \/ Covered(u))'
      BY <1>1, <2>2, <2>4, <2>9, <2>10, <3>1, <3>2 DEF PlanInv, Linked
    <3> QED
      BY <2>2, <3>2 DEF PlanInv, Linked
  <2> QED
    BY <2>1, <2>2, <2>5, <2>7, <2>11 DEF PlanInv
<1> QED
  BY <1>2, <1>3

LEMMA PlanBegins == Init => PlanInv
<1> SUFFICES ASSUME Init
             PROVE  PlanInv
  OBVIOUS
<1>1. \A c \in Callers : calls[c].op = "idle"
  BY DEF Init, Idle
<1> QED
  BY <1>1, GraphAssumption DEF Init, PlanInv, Lineage, Building, Linked

LEMMA PlanStep == IInv /\ PlanInv /\ [Next]_vars => PlanInv'
<1> SUFFICES ASSUME IInv, PlanInv, [Next]_vars
             PROVE  PlanInv'
  OBVIOUS
<1>1. IInv' /\ StoreStep
  BY StepKeeps
<1>2. ASSUME NEW c \in Callers, Handles(c)
      PROVE  PlanInv'
  BY <1>1, <1>2, OthersPlan, ApplyPlans, ReplanPlans DEF Handles
<1>3. ASSUME NEW t \in Tasks, Resumes(t) \/ \E r \in Runs : Works(t, r)
      PROVE  PlanInv'
  <2>1. t \in made /\ UNCHANGED <<graphVars, edges>>
    BY <1>3 DEF Resumes, ResumeTask, Works, StartTask, FinishTask, BlockTask, storeVars
  <2>2. TableCalm /\ UNCHANGED parked
    BY <1>3, <2>1, TableCalms
  <2> QED
    BY <1>1, <2>1, <2>2, UnmovedKeeps DEF Unmoved, graphVars, planVars
<1>4. CASE UNCHANGED vars
  <2>1. Unmoved /\ UNCHANGED <<status, calls>>
    BY <1>4 DEF Unmoved, vars, storeVars, graphVars, planVars
  <2>2. TableCalm
    BY <2>1 DEF TableCalm, PlanInv, Lineage
  <2> QED
    BY <1>1, <2>1, <2>2, UnmovedKeeps
<1> QED
  BY <1>2, <1>3, <1>4 DEF Next

THEOREM InvariantHolds == Spec => []IInv
BY InitHolds, StepKeeps, PTL DEF Spec

THEOREM PlanHolds == Spec => []PlanInv
BY PlanBegins, PlanStep, InvariantHolds, PTL DEF Spec

----------------------------------------------------------------------------
(* The properties.                                                         *)

\* The types of TaskGraph, for any tasks, plans, callers and bounds.
THEOREM TypeCorrect == Spec => []TypeOK
<1>1. IInv /\ PlanInv => TypeOK
  <2> SUFFICES ASSUME IInv, PlanInv
               PROVE  TypeOK
    OBVIOUS
  <2>1. /\ StoreTypeOK /\ Root \in made /\ made \subseteq Tasks
        /\ replaces \in [Tasks -> Tasks \union {None}]
        /\ plan \subseteq Planned \X Planned /\ linked \in BOOLEAN /\ begun \in 0 .. MaxCalls
        /\ stands \in [Tasks -> Tasks] /\ stray \subseteq made
    BY DEF IInv, Shaped, Graphs, Handled, PlanInv
  <2>2. \A c \in Callers :
          calls[c].op \in {"idle", "block", "build", "cancel", "replace", "wire",
                           "giveup", "complete"}
    BY DEF IInv, Handled, Handling
  <2> QED
    BY <2>1, <2>2 DEF TypeOK
<1> QED
  BY <1>1, InvariantHolds, PlanHolds, PTL

\* Tasks never wait for each other in a circle, whatever acyclic graph was applied
\* and however many replans of any depth overlap it: every edge there ever is
\* stands for one of the plan.
THEOREM DependenciesNeverCircle == Spec => []EdgesAcyclic
<1>1. IInv => EdgesAcyclic
  BY StandingIsAcyclic DEF IInv
<1> QED
  BY <1>1, InvariantHolds, PTL

\* No synthesis, replan, cancellation, worker or client brings back a task that is
\* over, for any number of them at once.
THEOREM OverTasksStayOver == Spec => OverStaysOver
<1>1. IInv /\ [Next]_vars
        => [\A t \in made : status[t] \in Terminal =>
              status'[t] \in {status[t], "cancelled"}]_vars
  BY StepKeeps DEF StoreStep, OverStep, IInv, Shaped
<1> QED
  BY <1>1, InvariantHolds, PTL DEF Spec, OverStaysOver

\* However overlapping replans rewrite the edges of a graph that was applied before
\* its first child started, a child or replacement starts only when everything the
\* plan put ahead of it has succeeded, itself or in the person of a replacement: its
\* edges still name somebody in the place of each.
THEOREM PlanIsFollowed == Spec => PlanFollowed
<1>1. ASSUME IInv, PlanInv, [Next]_vars, NEW t \in Children \ stray, Starts(t)
      PROVE  PlannedBefore(t)
  <2>1. status[t] = "queued" /\ status'[t] = "running" /\ linked /\ t \in Tasks \ {Root}
    BY <1>1 DEF Starts, Children
  <2>2. t \in made /\ Startable(t)
    <3>1. status \in [Tasks -> Status] /\ Root \in Tasks /\ made \subseteq Tasks
      BY <1>1, GraphAssumption DEF IInv, StoreTypeOK, Shaped
    <3>2. ASSUME NEW u \in Tasks, NEW s \in {"queued", "blocked", "succeeded", "failed", "cancelled"},
                 status' = [status EXCEPT ![u] = s]
          PROVE  FALSE
      BY <2>1, <3>1, <3>2
    <3>3. ASSUME UNCHANGED status
          PROVE  FALSE
      BY <2>1, <3>3
    <3>4. ASSUME NEW u \in Tasks, NEW r \in Runs, Works(u, r)
          PROVE  t \in made /\ Startable(t)
      <4>1. CASE StartTask(u, r)
        BY <2>1, <3>1, <3>4, <4>1 DEF StartTask, Works
      <4>2. CASE \E s \in {"succeeded", "failed"} : FinishTask(u, r, s)
        BY <3>2, <3>3, <4>2 DEF FinishTask, Release, storeVars
      <4>3. CASE BlockTask(u, r, "tool_approval")
        BY <3>2, <4>3 DEF BlockTask, Release
      <4> QED
        BY <3>4, <4>1, <4>2, <4>3 DEF Works
    <3>5. ASSUME NEW u \in Tasks, Resumes(u)
          PROVE  FALSE
      BY <3>2, <3>3, <3>5 DEF Resumes, ResumeTask, Release, storeVars
    <3>6. ASSUME NEW u \in Tasks, CancelTask(u)
          PROVE  FALSE
      BY <3>2, <3>6 DEF CancelTask, Release
    <3>7. ASSUME NEW c \in Callers, Handles(c)
          PROVE  FALSE
      <4>1. CASE CancelWrites(c) \/ ReplanFails(c)
        <5>1. calls[c].op \in {"cancel", "wire"} /\ calls[c].task # None => calls[c].task \in Tasks
          BY <1>1, <3>1, Remembered DEF IInv
        <5>2. CASE CancelWrites(c)
          BY <3>6, <5>1, <5>2 DEF CancelWrites
        <5>3. CASE ReplanFails(c)
          <6>1. calls[c].task \in Tasks
            BY <1>1, <3>1, <5>3, Remembered DEF IInv, ReplanFails
          <6> QED
            BY <3>3, <3>6, <5>3, <6>1 DEF ReplanFails, storeVars
        <5> QED
          BY <4>1, <5>2, <5>3
      <4>2. CASE ApplyBlocks(c) \/ SynthesisBlocks(c) \/ SynthesisCompletes(c)
        BY <3>1, <3>2, <3>3, <4>2
           DEF ApplyBlocks, SynthesisBlocks, SynthesisCompletes, Release, storeVars
      <4>3. CASE UNCHANGED storeVars
        BY <3>3, <4>3 DEF storeVars
      <4>4. ASSUME NEW E \in Graphs, ApplyReads(c, E)
            PROVE  FALSE
        BY <4>3, <4>4 DEF ApplyReads
      <4>5. ASSUME NEW u \in Tasks,
                   ApplyCreates(c, u) \/ CancelReads(c, u) \/ CancelPicks(c, u) \/ ReplanReads(c, u)
            PROVE  FALSE
        BY <4>3, <4>5, Zenon DEF ApplyCreates, CancelReads, CancelPicks, ReplanReads
      <4>6. ASSUME NEW u \in Tasks, ReplanCreates(c, u)
            PROVE  FALSE
        BY <3>3, <4>6 DEF ReplanCreates
      <4>7. ASSUME NEW e \in Planned \X Planned, ApplyLinks(c, e)
            PROVE  FALSE
        BY <3>3, <4>7 DEF ApplyLinks
      <4>8. CASE ReplanWires(c)
        BY <3>3, <4>8 DEF ReplanWires
      <4>9. CASE ApplyEnds(c) \/ CancelEnds(c) \/ SynthesisReads(c) \/ Abandons(c)
        BY <4>3, <4>9, Zenon DEF ApplyEnds, CancelEnds, SynthesisReads, Abandons
      <4> QED
        BY <3>7, <4>1, <4>2, <4>4, <4>5, <4>6, <4>7, <4>8, <4>9, Zenon DEF Handles
    <3>8. CASE UNCHANGED vars
      BY <3>3, <3>8 DEF vars, storeVars
    <3> QED
      BY <1>1, <3>4, <3>5, <3>7, <3>8 DEF Next
  <2>3. Covered(t)
    BY <1>1, <2>1, <2>2 DEF PlanInv, Linked, Startable
  <2>4. \A u \in made : <<u, t>> \in edges => status[u] = "succeeded"
    BY <2>2 DEF Startable, DependenciesMet
  <2> QED
    BY <2>3, <2>4 DEF Covered, PlannedBefore
<1>2. IInv /\ PlanInv /\ [Next]_vars
        => [\A t \in Children \ stray : Starts(t) => PlannedBefore(t)]_vars
  BY <1>1
<1> QED
  BY <1>2, InvariantHolds, PlanHolds, PTL DEF Spec, PlanFollowed
=============================================================================
