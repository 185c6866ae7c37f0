--------------------------- MODULE ServicesProofs ---------------------------
(***************************************************************************)
(* What holds of the parts in Services for any instance of them.           *)
(***************************************************************************)
EXTENDS Services, FiniteSetTheorems, SequenceTheorems, TLAPS

----------------------------------------------------------------------------
(* Todo: the plan of a session and the runs of its turns.                  *)

plan == v1
run == v2
doing == v3
overlap == v5
USE DEF plan, run, doing, overlap

Rows == [status : {"none", "active", "completed", "incomplete"}, items : Steps!Plans]

TodoCalls ==
  [at : {"idle"}]
    \union [at : {"save"}, items : Steps!Plans, turn : Turns \union {None}]
    \union [at : {"mirror"}, item : PlanItems, status : Statuses, items : Steps!Plans]
    \union [at : {"runs"}, item : PlanItems, status : Statuses]
    \union [at : {"write"}, item : PlanItems, status : Statuses, seen : [Turns -> Rows]]
    \union [at : {"finish"}, turn : Turns, complete : BOOLEAN]

TodoTyped ==
  /\ plan \in Steps!Plans /\ run \in [Turns -> Rows] /\ doing \in [Threads -> TodoCalls]
  /\ v4 \in 0 .. MaxPlanCalls /\ overlap \in [Turns -> BOOLEAN]

\* What a call is about to write has one item in progress, or it is yet to be checked.
CallIsNormal(d) ==
  /\ d.at = "save" => Steps!Normal(d.items)
  /\ d.at = "write" => \A t \in Turns : Steps!Normal(d.seen[t].items)

CallsAreNormal == \A p \in Threads : CallIsNormal(doing[p])

\* What the end of a turn has read is so until another call overlaps it.
EndsAreFresh == \A p \in Threads : doing[p].at = "finish" =>
  \/ overlap[doing[p].turn]
  \/ doing[p].complete = Steps!Complete(run[doing[p].turn].items)

TodoHolds ==
  /\ TodoTyped /\ CallsAreNormal /\ EndsAreFresh
  /\ Steps!OneInProgress /\ Steps!ArchivedRunsAgree

TodoInv == part = "todo" => TodoHolds

LEMMA TodoAssumed ==
  /\ IsFiniteSet(PlanItems) /\ MaxPlanCalls \in Nat
  /\ "pending" \in Statuses /\ "in_progress" \in Statuses /\ "completed" \in Statuses
  /\ None \notin Statuses /\ None \notin Turns
<1>1. Steps!IsFiniteSet(PlanItems) => IsFiniteSet(PlanItems)
  BY DEF Steps!IsFiniteSet, IsFiniteSet
<1> QED BY <1>1, ServicesAssumption DEF Steps!PlansAssumption

LEMMA NormalIsAtMostOne ==
  ASSUME NEW items
  PROVE  Steps!Normal(items) <=> Cardinality(Steps!InProgress(items)) <= 1
<1>1. \A S : Steps!Cardinality(S) = Cardinality(S) BY DEF Steps!Cardinality, Cardinality
<1> QED BY <1>1 DEF Steps!Normal

\* Fewer items in progress, or only this one.
LEMMA FewerIsNormal ==
  ASSUME NEW items, NEW others, Steps!Normal(items),
         Steps!InProgress(others) \subseteq Steps!InProgress(items)
  PROVE  Steps!Normal(others)
<1>1. IsFiniteSet(Steps!InProgress(items))
  BY TodoAssumed, FS_Subset DEF Steps!InProgress
<1>2. /\ IsFiniteSet(Steps!InProgress(others))
      /\ Cardinality(Steps!InProgress(others)) <= Cardinality(Steps!InProgress(items))
  BY <1>1, FS_Subset
<1>3. Cardinality(Steps!InProgress(items)) \in Nat /\ Cardinality(Steps!InProgress(others)) \in Nat
  BY <1>1, <1>2, FS_CardinalityType
<1> QED BY <1>2, <1>3, NormalIsAtMostOne

LEMMA AloneIsNormal ==
  ASSUME NEW items, NEW i, Steps!InProgress(items) \subseteq {i}
  PROVE  Steps!Normal(items)
<1>1. IsFiniteSet({i}) /\ Cardinality({i}) = 1 BY FS_Singleton
<1>2. /\ IsFiniteSet(Steps!InProgress(items))
      /\ Cardinality(Steps!InProgress(items)) <= 1
  BY <1>1, FS_Subset
<1> QED BY <1>2, NormalIsAtMostOne

\* Marking an item keeps a plan a plan, with one item in progress if it had no more.
LEMMA MarkedIsNormal ==
  ASSUME NEW items \in Steps!Plans, NEW i \in PlanItems, NEW s \in Statuses
  PROVE  /\ Steps!Marked(items, i, s) \in Steps!Plans
         /\ Steps!Normal(items) => Steps!Normal(Steps!Marked(items, i, s))
<1>1. Steps!Marked(items, i, s) \in Steps!Plans
  BY TodoAssumed DEF Steps!Marked, Steps!Plans
<1>2. CASE s = "in_progress"
  <2>1. Steps!InProgress(Steps!Marked(items, i, s)) \subseteq {i}
    BY <1>2 DEF Steps!InProgress, Steps!Marked, Steps!Plans
  <2> QED BY <1>1, <2>1, AloneIsNormal
<1>3. CASE s # "in_progress"
  <2>1. Steps!InProgress(Steps!Marked(items, i, s)) \subseteq Steps!InProgress(items)
    BY <1>3 DEF Steps!InProgress, Steps!Marked, Steps!Plans
  <2> QED BY <1>1, <2>1, FewerIsNormal
<1> QED BY <1>2, <1>3

\* A call begins, of a thread that has none: it has read what is.
LEMMA TodoCallBegins ==
  ASSUME TodoHolds, NEW p \in Threads, NEW d \in TodoCalls, Steps!Begin(p, d), CallIsNormal(d),
         d.at = "finish" => d.complete = Steps!Complete(run[d.turn].items)
  PROVE  TodoHolds'
<1>1. /\ doing' = [doing EXCEPT ![p] = d] /\ v4' = v4 + 1 /\ v4 < MaxPlanCalls
      /\ UNCHANGED <<plan, run, overlap>>
  BY DEF Steps!Begin
<1>2. doing \in [Threads -> TodoCalls] /\ v4 \in 0 .. MaxPlanCalls BY DEF TodoHolds, TodoTyped
<1>3. /\ doing' \in [Threads -> TodoCalls] /\ doing'[p] = d
      /\ \A q \in Threads \ {p} : doing'[q] = doing[q]
  BY <1>1, <1>2
<1>4. v4' \in 0 .. MaxPlanCalls BY <1>1, <1>2, TodoAssumed
<1>5. TodoTyped' BY <1>1, <1>3, <1>4 DEF TodoHolds, TodoTyped
<1>6. CallsAreNormal'
  <2> SUFFICES ASSUME NEW q \in Threads PROVE CallIsNormal(doing'[q]) BY DEF CallsAreNormal, CallIsNormal
  <2> QED BY <1>3 DEF TodoHolds, CallsAreNormal
<1>7. EndsAreFresh'
  <2> SUFFICES ASSUME NEW q \in Threads, doing'[q].at = "finish"
               PROVE  \/ overlap'[doing'[q].turn]
                      \/ doing'[q].complete = Steps!Complete(run'[doing'[q].turn].items)
    BY DEF EndsAreFresh, Steps!Complete, Steps!NoPlan
  <2> QED BY <1>1, <1>3 DEF TodoHolds, EndsAreFresh
<1>8. Steps!OneInProgress' /\ Steps!ArchivedRunsAgree'
  BY <1>1 DEF TodoHolds, Steps!OneInProgress, Steps!Normal, Steps!InProgress,
     Steps!ArchivedRunsAgree, Steps!Archived, Steps!Complete
<1> QED BY <1>5, <1>6, <1>7, <1>8 DEF TodoHolds

\* A call goes on or ends: what it writes has one item in progress, archived runs
\* agree, and every end of a turn whose run it changes is overlapped.
LEMMA TodoCallGoesOn ==
  ASSUME TodoHolds, NEW p \in Threads, NEW d \in TodoCalls, Steps!Then(p, d), CallIsNormal(d),
         d.at # "finish",
         plan' \in Steps!Plans, run' \in [Turns -> Rows], overlap' \in [Turns -> BOOLEAN],
         Steps!OneInProgress', Steps!ArchivedRunsAgree',
         \A t \in Turns : overlap[t] => overlap'[t],
         \A q \in Threads \ {p} : doing[q].at = "finish" =>
            \/ overlap'[doing[q].turn]
            \/ run'[doing[q].turn].items = run[doing[q].turn].items
  PROVE  TodoHolds'
<1>1. doing' = [doing EXCEPT ![p] = d] /\ v4' = v4 BY DEF Steps!Then
<1>2. doing \in [Threads -> TodoCalls] /\ v4 \in 0 .. MaxPlanCalls BY DEF TodoHolds, TodoTyped
<1>3. /\ doing' \in [Threads -> TodoCalls] /\ doing'[p] = d
      /\ \A q \in Threads \ {p} : doing'[q] = doing[q]
  BY <1>1, <1>2
<1>4. TodoTyped' BY <1>1, <1>2, <1>3 DEF TodoTyped
<1>5. CallsAreNormal'
  <2> SUFFICES ASSUME NEW q \in Threads PROVE CallIsNormal(doing'[q]) BY DEF CallsAreNormal, CallIsNormal
  <2> QED BY <1>3 DEF TodoHolds, CallsAreNormal
<1>6. EndsAreFresh'
  <2> SUFFICES ASSUME NEW q \in Threads, doing'[q].at = "finish"
               PROVE  \/ overlap'[doing'[q].turn]
                      \/ doing'[q].complete = Steps!Complete(run'[doing'[q].turn].items)
    BY DEF EndsAreFresh, Steps!Complete, Steps!NoPlan
  <2>1. q # p /\ doing'[q] = doing[q] BY <1>3
  <2>2. doing[q] \in TodoCalls BY <1>2
  <2>3. doing[q].turn \in Turns BY <2>1, <2>2 DEF TodoCalls
  <2> QED BY <2>1, <2>3 DEF TodoHolds, EndsAreFresh
<1> QED BY <1>4, <1>5, <1>6 DEF TodoHolds

LEMMA SaveReadsKeeps ==
  ASSUME TodoHolds, NEW p \in Threads, NEW u \in Steps!Plans, NEW merge \in BOOLEAN,
         NEW t \in Turns \union {None}, Steps!SaveReads(p, u, merge, t)
  PROVE  TodoHolds'
<1>1. PICK items : items = IF merge THEN Steps!Merged(plan, u) ELSE u OBVIOUS
<1>2. PICK d : d = [at |-> "save", items |-> items, turn |-> t] OBVIOUS
<1>3. Steps!Begin(p, d) /\ Steps!Normal(items) BY <1>1, <1>2 DEF Steps!SaveReads
<1>4. items \in Steps!Plans
  BY <1>1 DEF TodoHolds, TodoTyped, Steps!Merged, Steps!Plans
<1>5. d \in TodoCalls /\ d.at = "save" /\ d.items = items BY <1>2, <1>4 DEF TodoCalls
<1> QED BY <1>3, <1>5, TodoCallBegins DEF CallIsNormal

LEMMA MirrorReadsKeeps ==
  ASSUME TodoHolds, NEW p \in Threads, NEW i \in PlanItems, NEW s \in Statuses,
         Steps!MirrorReads(p, i, s)
  PROVE  TodoHolds'
<1>1. PICK items : items = Steps!Marked(plan, i, s) OBVIOUS
<1>2. PICK d : d = [at |-> "mirror", item |-> i, status |-> s, items |-> items] OBVIOUS
<1>3. Steps!Begin(p, d) BY <1>1, <1>2 DEF Steps!MirrorReads
<1>4. items \in Steps!Plans BY <1>1, MarkedIsNormal DEF TodoHolds, TodoTyped
<1>5. d \in TodoCalls /\ d.at = "mirror" BY <1>2, <1>4 DEF TodoCalls
<1> QED BY <1>3, <1>5, TodoCallBegins DEF CallIsNormal

LEMMA FinishReadsKeeps ==
  ASSUME TodoHolds, NEW p \in Threads, NEW t \in Turns, Steps!FinishReads(p, t)
  PROVE  TodoHolds'
<1>1. PICK complete : complete = Steps!Complete(run[t].items) OBVIOUS
<1>2. PICK d : d = [at |-> "finish", turn |-> t, complete |-> complete] OBVIOUS
<1>3. Steps!Begin(p, d) BY <1>1, <1>2 DEF Steps!FinishReads
<1>4. complete \in BOOLEAN BY <1>1 DEF Steps!Complete
<1>5. d \in TodoCalls /\ d.at = "finish" /\ d.turn = t /\ d.complete = complete
  BY <1>2, <1>4 DEF TodoCalls
<1> QED BY <1>1, <1>3, <1>5, TodoCallBegins DEF CallIsNormal

LEMMA IdleIsCall == Steps!Idle \in TodoCalls /\ CallIsNormal(Steps!Idle) /\ Steps!Idle.at # "finish"
BY DEF Steps!Idle, TodoCalls, CallIsNormal

\* A late save, or one while the turn ends, counts as an overlap.
LEMMA SaveWritesKeeps ==
  ASSUME TodoHolds, NEW p \in Threads, Steps!SaveWrites(p)
  PROVE  TodoHolds'
<1>1. PICK call : call = doing[p] OBVIOUS
<1>2. call \in TodoCalls /\ call.at = "save" /\ CallIsNormal(call)
  BY <1>1 DEF Steps!SaveWrites, TodoHolds, TodoTyped, CallsAreNormal
<1>3. call.items \in Steps!Plans /\ call.turn \in Turns \union {None} /\ Steps!Normal(call.items)
  BY <1>2 DEF TodoCalls, CallIsNormal
<1>4. plan' = call.items /\ Steps!Then(p, Steps!Idle) BY <1>1 DEF Steps!SaveWrites
<1>5. run \in [Turns -> Rows] /\ overlap \in [Turns -> BOOLEAN] BY DEF TodoHolds, TodoTyped
<1>6. Steps!Normal(plan') BY <1>3, <1>4
<1>7. CASE call.turn = None
  <2>1. run' = run /\ overlap' = overlap BY <1>1, <1>7 DEF Steps!SaveWrites
  <2>2. Steps!OneInProgress' /\ Steps!ArchivedRunsAgree'
    BY <1>6, <2>1 DEF TodoHolds, Steps!OneInProgress, Steps!Normal, Steps!InProgress,
       Steps!ArchivedRunsAgree, Steps!Archived, Steps!Complete
  <2> QED BY <1>3, <1>4, <1>5, <2>1, <2>2, IdleIsCall, TodoCallGoesOn
<1>8. CASE call.turn # None
  <2>1. PICK t \in Turns : t = call.turn BY <1>3, <1>8
  <2>2. PICK row : row = [status |-> IF Steps!Archived(t) THEN run[t].status ELSE "active",
                          items |-> call.items]
    OBVIOUS
  <2>3. PICK met : met = (overlap[t] \/ Steps!Archived(t) \/ Steps!Between(t, {"finish"}))
    OBVIOUS
  <2>4. run' = [run EXCEPT ![t] = row] /\ overlap' = [overlap EXCEPT ![t] = met]
    BY <1>1, <1>8, <2>1, <2>2, <2>3 DEF Steps!SaveWrites
  <2>5. run[t] \in Rows BY <1>5
  <2>6. /\ row \in Rows /\ row.items = call.items
        /\ Steps!Archived(t) \/ row.status = "active"
    BY <1>3, <2>2, <2>5 DEF Rows
  <2>7. met \in BOOLEAN BY <1>5, <2>3 DEF Steps!Archived, Steps!Between
  <2>8. /\ run' \in [Turns -> Rows] /\ overlap' \in [Turns -> BOOLEAN]
        /\ run'[t] = row /\ overlap'[t] = met
        /\ \A u \in Turns \ {t} : run'[u] = run[u] /\ overlap'[u] = overlap[u]
    BY <1>5, <2>4, <2>6, <2>7
  <2>9. Steps!OneInProgress'
    <3> SUFFICES ASSUME NEW u \in Turns PROVE Steps!Normal(run'[u].items)
      BY <1>6 DEF Steps!OneInProgress, Steps!Normal, Steps!InProgress
    <3> QED BY <1>3, <2>6, <2>8 DEF TodoHolds, Steps!OneInProgress
  <2>10. Steps!ArchivedRunsAgree'
    <3> SUFFICES ASSUME NEW u \in Turns, run'[u].status \in {"completed", "incomplete"}, ~overlap'[u]
                 PROVE  (run'[u].status = "completed") = Steps!Complete(run'[u].items)
      BY DEF Steps!ArchivedRunsAgree, Steps!Archived, Steps!Complete
    <3>1. CASE u = t BY <2>3, <2>6, <2>8, <3>1
    <3>2. CASE u # t BY <2>8, <3>2 DEF TodoHolds, Steps!ArchivedRunsAgree, Steps!Archived
    <3> QED BY <3>1, <3>2
  <2>11. ASSUME NEW q \in Threads, doing[q].at = "finish"
         PROVE  overlap'[doing[q].turn] \/ run'[doing[q].turn].items = run[doing[q].turn].items
    <3>1. doing[q].turn \in Turns BY <2>11 DEF TodoHolds, TodoTyped, TodoCalls
    <3>2. CASE doing[q].turn = t
      <4>1. Steps!Between(t, {"finish"}) BY <2>11, <3>2 DEF Steps!Between
      <4> QED BY <2>3, <2>8, <3>2, <4>1
    <3> QED BY <2>8, <3>1, <3>2
  <2>12. \A u \in Turns : overlap[u] => overlap'[u] BY <2>3, <2>8
  <2>13. plan' \in Steps!Plans BY <1>3, <1>4
  <2> QED BY <1>4, <2>8, <2>9, <2>10, <2>11, <2>12, <2>13, IdleIsCall, TodoCallGoesOn
<1> QED BY <1>7, <1>8

\* What is saved was checked to have one item in progress.
LEMMA MirrorSavesKeeps ==
  ASSUME TodoHolds, NEW p \in Threads, Steps!MirrorSaves(p)
  PROVE  TodoHolds'
<1>1. PICK call : call = doing[p] OBVIOUS
<1>2. call \in TodoCalls /\ call.at = "mirror"
  BY <1>1 DEF Steps!MirrorSaves, TodoHolds, TodoTyped
<1>3. call.items \in Steps!Plans /\ call.item \in PlanItems /\ call.status \in Statuses
  BY <1>2 DEF TodoCalls
<1>4. PICK next : next = [at |-> "runs", item |-> call.item, status |-> call.status] OBVIOUS
<1>5. next \in TodoCalls /\ next.at = "runs" /\ CallIsNormal(next)
  BY <1>3, <1>4 DEF TodoCalls, CallIsNormal
<1>6. run' = run /\ overlap' = overlap BY DEF Steps!MirrorSaves
<1>7. \/ Steps!Normal(call.items) /\ plan' = call.items /\ Steps!Then(p, next)
      \/ plan' = plan /\ Steps!Then(p, Steps!Idle)
  BY <1>1, <1>4 DEF Steps!MirrorSaves
<1>8. plan' \in Steps!Plans /\ run \in [Turns -> Rows] /\ overlap \in [Turns -> BOOLEAN]
  BY <1>3, <1>7 DEF TodoHolds, TodoTyped
<1>9. Steps!OneInProgress' /\ Steps!ArchivedRunsAgree'
  <2>1. Steps!Normal(plan') BY <1>7 DEF TodoHolds, Steps!OneInProgress
  <2> QED BY <1>6, <2>1 DEF TodoHolds, Steps!OneInProgress, Steps!Normal, Steps!InProgress,
             Steps!ArchivedRunsAgree, Steps!Archived, Steps!Complete
<1> QED BY <1>5, <1>6, <1>7, <1>8, <1>9, IdleIsCall, TodoCallGoesOn

LEMMA RunsReadKeeps ==
  ASSUME TodoHolds, NEW p \in Threads, Steps!RunsRead(p)
  PROVE  TodoHolds'
<1>1. PICK call : call = doing[p] OBVIOUS
<1>2. call \in TodoCalls /\ call.at = "runs" BY <1>1 DEF Steps!RunsRead, TodoHolds, TodoTyped
<1>3. PICK next : next = [at |-> "write", item |-> call.item, status |-> call.status, seen |-> run]
  OBVIOUS
<1>4. run \in [Turns -> Rows] /\ plan \in Steps!Plans /\ overlap \in [Turns -> BOOLEAN]
  BY DEF TodoHolds, TodoTyped
<1>5. next \in TodoCalls /\ next.at = "write" /\ next.seen = run
  BY <1>2, <1>3, <1>4 DEF TodoCalls
<1>6. CallIsNormal(next) BY <1>5 DEF CallIsNormal, TodoHolds, Steps!OneInProgress
<1>7. Steps!Then(p, next) /\ UNCHANGED <<plan, run, overlap>>
  BY <1>1, <1>3 DEF Steps!RunsRead
<1>8. Steps!OneInProgress' /\ Steps!ArchivedRunsAgree'
  BY <1>7 DEF TodoHolds, Steps!OneInProgress, Steps!Normal, Steps!InProgress,
     Steps!ArchivedRunsAgree, Steps!Archived, Steps!Complete
<1> QED BY <1>4, <1>5, <1>6, <1>7, <1>8, TodoCallGoesOn

\* A run that is rewritten stays active or agrees with its items, whatever it has
\* become since it was read.
LEMMA RewrittenAgrees ==
  ASSUME NEW row \in Rows, NEW i \in PlanItems, NEW s \in Statuses
  PROVE  /\ Steps!Rewritten(row, i, s) \in Rows
         /\ Steps!Rewritten(row, i, s).items = Steps!Marked(row.items, i, s)
         /\ Steps!Rewritten(row, i, s).status # "active" =>
              (Steps!Rewritten(row, i, s).status = "completed")
                = Steps!Complete(Steps!Rewritten(row, i, s).items)
<1>1. row.items \in Steps!Plans BY DEF Rows
<1>2. PICK items : items = Steps!Marked(row.items, i, s) OBVIOUS
<1>3. items \in Steps!Plans BY <1>1, <1>2, MarkedIsNormal
<1>4. PICK status : status = IF row.status = "active" THEN "active"
                             ELSE IF Steps!Complete(items) THEN "completed" ELSE "incomplete"
  OBVIOUS
<1>5. Steps!Rewritten(row, i, s) = [items |-> items, status |-> status]
  BY <1>2, <1>4 DEF Steps!Rewritten
<1>6. Steps!Complete(items) \in BOOLEAN BY DEF Steps!Complete
<1> QED BY <1>2, <1>3, <1>4, <1>5, <1>6 DEF Rows

LEMMA RunsWriteKeeps ==
  ASSUME TodoHolds, NEW p \in Threads, Steps!RunsWrite(p)
  PROVE  TodoHolds'
<1>1. PICK call : call = doing[p] OBVIOUS
<1>2. call \in TodoCalls /\ call.at = "write" /\ CallIsNormal(call)
  BY <1>1 DEF Steps!RunsWrite, TodoHolds, TodoTyped, CallsAreNormal
<1>3. /\ call.seen \in [Turns -> Rows] /\ call.item \in PlanItems /\ call.status \in Statuses
      /\ \A t \in Turns : Steps!Normal(call.seen[t].items)
  BY <1>2 DEF TodoCalls, CallIsNormal
<1> DEFINE Has(t) == call.seen[t].status # "none" /\ call.seen[t].items[call.item] # None
           New(t) == Steps!Rewritten(call.seen[t], call.item, call.status)
<1>4. /\ run' = [t \in Turns |-> IF Has(t) THEN New(t) ELSE run[t]]
      /\ overlap' = [t \in Turns |-> overlap[t] \/ (Has(t) /\ Steps!Between(t, {"finish"}))]
      /\ Steps!Then(p, Steps!Idle) /\ plan' = plan
  BY <1>1 DEF Steps!RunsWrite
<1>5. run \in [Turns -> Rows] /\ plan \in Steps!Plans /\ overlap \in [Turns -> BOOLEAN]
  BY DEF TodoHolds, TodoTyped
<1>6. \A t \in Turns :
        /\ New(t) \in Rows /\ Steps!Normal(New(t).items)
        /\ New(t).status # "active" =>
             (New(t).status = "completed") = Steps!Complete(New(t).items)
  <2> SUFFICES ASSUME NEW t \in Turns
               PROVE  /\ New(t) \in Rows /\ Steps!Normal(New(t).items)
                      /\ New(t).status # "active" =>
                           (New(t).status = "completed") = Steps!Complete(New(t).items)
    OBVIOUS
  <2>1. call.seen[t] \in Rows /\ Steps!Normal(call.seen[t].items) BY <1>3
  <2>2. call.seen[t].items \in Steps!Plans BY <2>1 DEF Rows
  <2>3. Steps!Normal(Steps!Marked(call.seen[t].items, call.item, call.status))
    BY <1>3, <2>1, <2>2, MarkedIsNormal
  <2> QED BY <1>3, <2>1, <2>3, RewrittenAgrees
<1> HIDE DEF Has, New
<1>7. run' \in [Turns -> Rows] BY <1>4, <1>5, <1>6
<1>8. /\ overlap' \in [Turns -> BOOLEAN]
      /\ \A t \in Turns : overlap[t] => overlap'[t]
      /\ \A t \in Turns : Has(t) /\ Steps!Between(t, {"finish"}) => overlap'[t]
  <2>1. \A t \in Turns : overlap[t] \in BOOLEAN BY <1>5
  <2>2. \A t \in Turns : (overlap[t] \/ (Has(t) /\ Steps!Between(t, {"finish"}))) \in BOOLEAN
    OBVIOUS
  <2> QED BY <1>4, <2>1, <2>2
<1>9. Steps!OneInProgress'
  <2>1. Steps!Normal(plan') BY <1>4 DEF TodoHolds, Steps!OneInProgress
  <2>2. \A t \in Turns : Steps!Normal(run'[t].items)
    BY <1>4, <1>6 DEF TodoHolds, Steps!OneInProgress
  <2> QED BY <2>1, <2>2 DEF Steps!OneInProgress, Steps!Normal, Steps!InProgress
<1>10. Steps!ArchivedRunsAgree'
  <2> SUFFICES ASSUME NEW t \in Turns, run'[t].status \in {"completed", "incomplete"},
                      ~overlap'[t]
               PROVE  (run'[t].status = "completed") = Steps!Complete(run'[t].items)
    BY DEF Steps!ArchivedRunsAgree, Steps!Archived, Steps!Complete
  <2>1. CASE Has(t)
    <3>1. run'[t] = New(t) BY <1>4, <2>1
    <3> QED BY <1>6, <3>1
  <2>2. CASE ~Has(t)
    <3>1. run'[t] = run[t] BY <1>4, <2>2
    <3>2. ~overlap[t] BY <1>8
    <3> QED BY <3>1, <3>2 DEF TodoHolds, Steps!ArchivedRunsAgree, Steps!Archived
  <2> QED BY <2>1, <2>2
<1>11. ASSUME NEW q \in Threads, doing[q].at = "finish"
       PROVE  overlap'[doing[q].turn] \/ run'[doing[q].turn].items = run[doing[q].turn].items
  <2>1. doing[q] \in TodoCalls BY DEF TodoHolds, TodoTyped
  <2>2. doing[q].turn \in Turns BY <1>11, <2>1 DEF TodoCalls
  <2>3. Steps!Between(doing[q].turn, {"finish"}) BY <1>11 DEF Steps!Between
  <2>4. CASE Has(doing[q].turn) BY <1>8, <2>2, <2>3, <2>4
  <2>5. CASE ~Has(doing[q].turn) BY <1>4, <2>2, <2>5
  <2> QED BY <2>4, <2>5
<1>12. plan' \in Steps!Plans BY <1>4, <1>5
<1> QED BY <1>4, <1>7, <1>8, <1>9, <1>10, <1>11, <1>12, IdleIsCall, TodoCallGoesOn

\* What the end of a turn has read of its run still stands, or it is overlapped.
LEMMA FinishWritesKeeps ==
  ASSUME TodoHolds, NEW p \in Threads, Steps!FinishWrites(p)
  PROVE  TodoHolds'
<1>1. PICK call : call = doing[p] OBVIOUS
<1>2. call \in TodoCalls /\ call.at = "finish"
  BY <1>1 DEF Steps!FinishWrites, TodoHolds, TodoTyped
<1>3. PICK t \in Turns : t = call.turn BY <1>2 DEF TodoCalls
<1>4. call.complete \in BOOLEAN BY <1>2 DEF TodoCalls
<1>5. PICK status : status = IF call.complete THEN "completed" ELSE "incomplete" OBVIOUS
<1>6. PICK met : met = (overlap[t] \/ Steps!Between(t, {"write"})) OBVIOUS
<1>7. /\ run' = [run EXCEPT ![t].status = status] /\ overlap' = [overlap EXCEPT ![t] = met]
      /\ Steps!Then(p, Steps!Idle) /\ plan' = plan
  BY <1>1, <1>3, <1>5, <1>6 DEF Steps!FinishWrites
<1>8. run \in [Turns -> Rows] /\ plan \in Steps!Plans /\ overlap \in [Turns -> BOOLEAN]
  BY DEF TodoHolds, TodoTyped
<1>9. status \in {"completed", "incomplete"} /\ met \in BOOLEAN
  BY <1>5, <1>6 DEF Steps!Between
<1>10. /\ run' \in [Turns -> Rows] /\ run'[t].status = status /\ run'[t].items = run[t].items
       /\ \A u \in Turns \ {t} : run'[u] = run[u]
  BY <1>7, <1>8, <1>9 DEF Rows
<1>11. /\ overlap' \in [Turns -> BOOLEAN] /\ overlap'[t] = met
       /\ \A u \in Turns \ {t} : overlap'[u] = overlap[u]
  BY <1>7, <1>8, <1>9
<1>12. \A u \in Turns : run'[u].items = run[u].items BY <1>10
<1>13. Steps!OneInProgress'
  <2>1. Steps!Normal(plan') BY <1>7 DEF TodoHolds, Steps!OneInProgress
  <2>2. \A u \in Turns : Steps!Normal(run'[u].items)
    BY <1>12 DEF TodoHolds, Steps!OneInProgress
  <2> QED BY <2>1, <2>2 DEF Steps!OneInProgress, Steps!Normal, Steps!InProgress
<1>14. Steps!ArchivedRunsAgree'
  <2> SUFFICES ASSUME NEW u \in Turns, run'[u].status \in {"completed", "incomplete"},
                      ~overlap'[u]
               PROVE  (run'[u].status = "completed") = Steps!Complete(run'[u].items)
    BY DEF Steps!ArchivedRunsAgree, Steps!Archived, Steps!Complete
  <2>1. CASE u = t
    <3>1. ~overlap[t] BY <1>6, <1>11, <2>1
    <3>2. call.complete = Steps!Complete(run[t].items)
      BY <1>1, <1>2, <1>3, <3>1 DEF TodoHolds, EndsAreFresh
    <3>3. (status = "completed") = call.complete BY <1>4, <1>5
    <3> QED BY <1>10, <2>1, <3>2, <3>3
  <2>2. CASE u # t
    BY <1>10, <1>11, <2>2 DEF TodoHolds, Steps!ArchivedRunsAgree, Steps!Archived
  <2> QED BY <2>1, <2>2
<1>15. \A u \in Turns : overlap[u] => overlap'[u] BY <1>6, <1>11
<1>16. ASSUME NEW q \in Threads, doing[q].at = "finish"
       PROVE  run'[doing[q].turn].items = run[doing[q].turn].items
  <2>1. doing[q] \in TodoCalls BY DEF TodoHolds, TodoTyped
  <2> QED BY <1>12, <1>16, <2>1 DEF TodoCalls
<1>17. plan' \in Steps!Plans BY <1>7, <1>8
<1> QED BY <1>7, <1>10, <1>11, <1>13, <1>14, <1>15, <1>16, <1>17, IdleIsCall, TodoCallGoesOn

LEMMA TodoStutters ==
  ASSUME TodoHolds, UNCHANGED <<v1, v2, v3, v4, v5>>
  PROVE  TodoHolds'
<1>1. TodoTyped' /\ CallsAreNormal' /\ EndsAreFresh'
  BY DEF TodoHolds, TodoTyped, CallsAreNormal, CallIsNormal, EndsAreFresh, Steps!Complete
<1>2. Steps!OneInProgress' /\ Steps!ArchivedRunsAgree'
  BY DEF TodoHolds, Steps!OneInProgress, Steps!Normal, Steps!InProgress,
     Steps!ArchivedRunsAgree, Steps!Archived, Steps!Complete
<1> QED BY <1>1, <1>2 DEF TodoHolds

LEMMA TodoBegins ==
  ASSUME Init
  PROVE  TodoInv
<1> SUFFICES ASSUME Steps!Init PROVE TodoHolds BY DEF Init, PartsInit, TodoInv
<1>1. Steps!NoPlan \in Steps!Plans BY DEF Steps!NoPlan, Steps!Plans
<1>2. Steps!Normal(Steps!NoPlan)
  <2>1. Steps!InProgress(Steps!NoPlan) \subseteq {None}
    BY TodoAssumed DEF Steps!InProgress, Steps!NoPlan
  <2> QED BY <2>1, AloneIsNormal
<1>3. /\ plan = Steps!NoPlan /\ doing = [p \in Threads |-> Steps!Idle] /\ v4 = 0
      /\ run = [t \in Turns |-> [status |-> "none", items |-> Steps!NoPlan]]
      /\ overlap = [t \in Turns |-> FALSE]
  BY DEF Steps!Init
<1>4. TodoTyped BY <1>1, <1>3, IdleIsCall, TodoAssumed DEF TodoTyped, Rows
<1>5. CallsAreNormal /\ EndsAreFresh
  BY <1>3, IdleIsCall DEF CallsAreNormal, EndsAreFresh
<1>6. Steps!OneInProgress /\ Steps!ArchivedRunsAgree
  BY <1>2, <1>3 DEF Steps!OneInProgress, Steps!ArchivedRunsAgree, Steps!Archived
<1> QED BY <1>4, <1>5, <1>6 DEF TodoHolds

LEMMA TodoSteps ==
  ASSUME TodoInv, [Next]_<<part, input, partVars>>
  PROVE  TodoInv'
<1>1. CASE part = "todo"
  <2>1. part' = part /\ (Steps!Next \/ UNCHANGED <<v1, v2, v3, v4, v5>>)
    BY <1>1 DEF Next, PartsNext, Ask, partVars
  <2>2. TodoHolds BY <1>1 DEF TodoInv
  <2>3. CASE Steps!Next
    <3>1. PICK p \in Threads :
            \/ \E u \in Steps!Plans, merge \in BOOLEAN, t \in Turns \union {None} :
                 Steps!SaveReads(p, u, merge, t)
            \/ \E i \in PlanItems, s \in Statuses : Steps!MirrorReads(p, i, s)
            \/ \E t \in Turns : Steps!FinishReads(p, t)
            \/ Steps!SaveWrites(p) \/ Steps!MirrorSaves(p) \/ Steps!RunsRead(p)
            \/ Steps!RunsWrite(p) \/ Steps!FinishWrites(p)
      BY <2>3 DEF Steps!Next
    <3>2. TodoHolds'
      BY <2>2, <3>1, SaveReadsKeeps, MirrorReadsKeeps, FinishReadsKeeps, SaveWritesKeeps,
         MirrorSavesKeeps, RunsReadKeeps, RunsWriteKeeps, FinishWritesKeeps
    <3> QED BY <3>2 DEF TodoInv
  <2>4. CASE UNCHANGED <<v1, v2, v3, v4, v5>> BY <2>2, <2>4, TodoStutters DEF TodoInv
  <2> QED BY <2>1, <2>3, <2>4
<1>2. CASE part # "todo"
  <2>1. part' = part BY DEF Next, PartsNext, Ask
  <2> QED BY <1>2, <2>1 DEF TodoInv
<1> QED BY <1>1, <1>2

\* For any items, turns and calls at work at once: no plan and no run has two items
\* in progress, and an archived run is "completed" just if its items are, but for
\* what overlaps its archiving (update_plan_item_status, finish_plan_run).
THEOREM RunsAgreeWithPlans == Spec => []PlanRunsAgree
<1>1. Init => TodoInv BY TodoBegins
<1>2. TodoInv /\ [Next]_<<part, input, partVars>> => TodoInv' BY TodoSteps
<1>3. TodoInv => PlanRunsAgree BY DEF TodoInv, TodoHolds, PlanRunsAgree
<1> QED BY <1>1, <1>2, <1>3, PTL DEF Spec

----------------------------------------------------------------------------
(* Loop: the guardrail of a turn.  Its counters are accounts of the log.   *)

epoch == v1
calling == v2
count == v3
refreshed == v4
policies == v5
log == v6
USE DEF epoch, calling, count, refreshed, policies, log

Entries == [call : LoopCalls, epoch : Nat, end : Loop!Ends, why : {None, "policy", "repeat"}]

Counters == {"failed", "completed", "semFailed", "semCompleted"}

\* The attempt x adds to this counter, under this signature.
Adds(counter, x, signature) ==
  /\ x.end # "blocked"
  /\ counter = "failed" => ~Loop!Works(x.end)
  /\ counter \in {"failed", "completed"} => Loop!Signature(x.call, x.epoch) = signature
  /\ counter \in {"semFailed", "semCompleted"} =>
       Loop!Observation(x.call, x.end) = counter /\ Loop!Semantic(x.call, x.epoch) = signature

Tally(counter, signature) == {k \in 1 .. Len(log) : Adds(counter, log[k], signature)}

LoopTyped ==
  /\ log \in Seq(Entries) /\ Len(log) <= MaxLoopCalls
  /\ epoch \in 0 .. MaxEpoch + Len(log)
  /\ calling = None \/ /\ calling \in [call : LoopCalls, epoch : 0 .. epoch]
                       /\ Len(log) < MaxLoopCalls
  /\ count = [failed |-> count.failed, completed |-> count.completed,
              semFailed |-> count.semFailed, semCompleted |-> count.semCompleted]
  /\ \A counter \in Counters : \A s \in DOMAIN count[counter] :
       count[counter][s] \in Nat \ {0}
  /\ \A path \in DOMAIN refreshed : refreshed[path] \in 0 .. epoch
  /\ policies \in LoopPolicies

CountsMatch == \A counter \in Counters : \A signature :
  Loop!Copies(count[counter], signature) = Cardinality(Tally(counter, signature))

ReadAt(path, e) == \E k \in 1 .. Len(log) :
  /\ log[k].call.tool = "read_file" /\ Loop!Works(log[k].end)
  /\ log[k].call.path = path /\ log[k].epoch = e

RefreshedWasRead == \A path \in DOMAIN refreshed : ReadAt(path, refreshed[path])

LoopHolds ==
  /\ LoopTyped /\ CountsMatch /\ RefreshedWasRead
  /\ Loop!RepeatsStop /\ Loop!EditsAreInformed

LoopInv == part = "loop" => LoopHolds

LEMMA LoopAssumed ==
  /\ MaxRepeats \in Nat \ {0} /\ MaxLoopCalls \in Nat /\ MaxEpoch \in Nat
  /\ \A given \in LoopPolicies : Len(given) \in Nat /\ DOMAIN given = 1 .. Len(given)
  /\ None \notin {"repeat", "semFailed", "semCompleted", "force_rerun", "ignore_artifact",
                  "accept_current_state"}
BY ServicesAssumption DEF Loop!ToolLoopAssumption, Loop!Len, Len

LEMMA AddedOnce ==
  ASSUME NEW bag, NEW x, NEW y
  PROVE  Loop!Copies(Loop!CountedOnce(bag, x), y) =
           IF y = x THEN Loop!Copies(bag, x) + 1 ELSE Loop!Copies(bag, y)
BY DEF Loop!Copies, Loop!CountedOnce

LEMMA AddedIsPositive ==
  ASSUME NEW bag, NEW x, \A y \in DOMAIN bag : bag[y] \in Nat \ {0}
  PROVE  LET more == Loop!CountedOnce(bag, x) IN \A y \in DOMAIN more : more[y] \in Nat \ {0}
BY DEF Loop!Copies, Loop!CountedOnce

LEMMA ObservationIsCounter ==
  ASSUME NEW c, NEW end
  PROVE  Loop!Observation(c, end) \in {None, "semFailed", "semCompleted"}
BY DEF Loop!Observation, Loop!Mutating

\* after_call adds the attempt to the counters it is of, once.
LEMMA CountedAdds ==
  ASSUME LoopTyped, NEW x \in Entries, x.end # "blocked",
         NEW next, next = Loop!Counted(x.call, x.epoch, x.end)
  PROVE  /\ next = [failed |-> next.failed, completed |-> next.completed,
                    semFailed |-> next.semFailed, semCompleted |-> next.semCompleted]
         /\ \A counter \in Counters : \A s :
              Loop!Copies(next[counter], s) = IF Adds(counter, x, s)
                                                THEN Loop!Copies(count[counter], s) + 1
                                                ELSE Loop!Copies(count[counter], s)
         /\ \A counter \in Counters : \A s \in DOMAIN next[counter] :
              next[counter][s] \in Nat \ {0}
<1>1. PICK kind : kind = Loop!Observation(x.call, x.end) OBVIOUS
<1>2. PICK sig : sig = Loop!Signature(x.call, x.epoch) OBVIOUS
<1>3. PICK sem : sem = Loop!Semantic(x.call, x.epoch) OBVIOUS
<1>4. PICK failed, completed :
        /\ failed = IF Loop!Works(x.end) THEN count.failed ELSE Loop!CountedOnce(count.failed, sig)
        /\ completed = Loop!CountedOnce(count.completed, sig)
  OBVIOUS
<1>5. PICK once : once = [failed |-> failed, completed |-> completed,
                          semFailed |-> count.semFailed, semCompleted |-> count.semCompleted]
  OBVIOUS
<1>6. count = [failed |-> count.failed, completed |-> count.completed,
               semFailed |-> count.semFailed, semCompleted |-> count.semCompleted]
  BY DEF LoopTyped
<1>7. once = [count EXCEPT !.completed = completed, !.failed = failed]
  <2>1. PICK a, b, c, d : /\ count = [failed |-> a, completed |-> b, semFailed |-> c,
                                     semCompleted |-> d]
                          /\ count.semFailed = c /\ count.semCompleted = d
    BY <1>6
  <2>2. PICK half : half = [count EXCEPT !.completed = completed] OBVIOUS
  <2>3. half = [failed |-> a, completed |-> completed, semFailed |-> c, semCompleted |-> d]
    BY <2>1, <2>2
  <2>4. [half EXCEPT !.failed = failed] =
          [failed |-> failed, completed |-> completed, semFailed |-> c, semCompleted |-> d]
    BY <2>3
  <2> QED BY <1>5, <2>1, <2>2, <2>4
<1>8. next = IF kind = None THEN once ELSE [once EXCEPT ![kind] = Loop!CountedOnce(@, sem)]
  BY <1>1, <1>2, <1>3, <1>4, <1>7 DEF Loop!Counted
<1>9. kind \in {None, "semFailed", "semCompleted"} /\ None \notin {"semFailed", "semCompleted"}
  BY <1>1, ObservationIsCounter, LoopAssumed
<1>10. PICK semFailed, semCompleted :
         /\ semFailed = IF kind = "semFailed" THEN Loop!CountedOnce(count.semFailed, sem)
                        ELSE count.semFailed
         /\ semCompleted = IF kind = "semCompleted" THEN Loop!CountedOnce(count.semCompleted, sem)
                           ELSE count.semCompleted
  OBVIOUS
<1>11. next = [failed |-> failed, completed |-> completed, semFailed |-> semFailed,
               semCompleted |-> semCompleted]
  BY <1>5, <1>8, <1>9, <1>10
<1>12. ASSUME NEW s
       PROVE  /\ Loop!Copies(failed, s) = IF Adds("failed", x, s)
                    THEN Loop!Copies(count.failed, s) + 1 ELSE Loop!Copies(count.failed, s)
              /\ Loop!Copies(completed, s) = IF Adds("completed", x, s)
                    THEN Loop!Copies(count.completed, s) + 1 ELSE Loop!Copies(count.completed, s)
              /\ Loop!Copies(semFailed, s) = IF Adds("semFailed", x, s)
                    THEN Loop!Copies(count.semFailed, s) + 1 ELSE Loop!Copies(count.semFailed, s)
              /\ Loop!Copies(semCompleted, s) = IF Adds("semCompleted", x, s)
                    THEN Loop!Copies(count.semCompleted, s) + 1
                    ELSE Loop!Copies(count.semCompleted, s)
  <2>1. Adds("failed", x, s) <=> ~Loop!Works(x.end) /\ s = sig BY <1>2 DEF Adds
  <2>2. Adds("completed", x, s) <=> s = sig BY <1>2 DEF Adds
  <2>3. Adds("semFailed", x, s) <=> kind = "semFailed" /\ s = sem BY <1>1, <1>3 DEF Adds
  <2>4. Adds("semCompleted", x, s) <=> kind = "semCompleted" /\ s = sem BY <1>1, <1>3 DEF Adds
  <2> QED BY <1>4, <1>10, <2>1, <2>2, <2>3, <2>4, AddedOnce
<1>13. \A counter \in Counters : \A s \in DOMAIN next[counter] : next[counter][s] \in Nat \ {0}
  <2>1. \A counter \in Counters : \E y :
          next[counter] = count[counter] \/ next[counter] = Loop!CountedOnce(count[counter], y)
    BY <1>4, <1>10, <1>11 DEF Counters
  <2> QED BY <2>1, AddedIsPositive DEF LoopTyped
<1> QED BY <1>6, <1>11, <1>12, <1>13 DEF Counters

LEMMA TallyIsFinite ==
  ASSUME log \in Seq(Entries), NEW counter, NEW s
  PROVE  /\ IsFiniteSet(Tally(counter, s)) /\ Cardinality(Tally(counter, s)) \in Nat
         /\ Cardinality(Tally(counter, s)) <= Len(log)
<1>1. Len(log) \in Nat OBVIOUS
<1>2. IsFiniteSet(1 .. Len(log)) /\ Cardinality(1 .. Len(log)) = Len(log)
  <2>1. 1 \in Int /\ Len(log) \in Int BY <1>1
  <2>2. /\ IsFiniteSet(1 .. Len(log))
        /\ Cardinality(1 .. Len(log)) = IF 1 > Len(log) THEN 0 ELSE Len(log) - 1 + 1
    BY ONLY <2>1, FS_Interval
  <2> QED BY <1>1, <2>2
<1>3. Tally(counter, s) \in SUBSET (1 .. Len(log)) BY DEF Tally
<1>4. IsFiniteSet(Tally(counter, s)) /\ Cardinality(Tally(counter, s)) <= Len(log)
  BY <1>2, <1>3, FS_Subset
<1> QED BY <1>4, FS_CardinalityType

LEMMA LogGrows ==
  ASSUME log \in Seq(Entries), NEW x \in Entries, log' = Append(log, x)
  PROVE  /\ log' \in Seq(Entries) /\ Len(log') = Len(log) + 1 /\ Len(log) \in Nat
         /\ log'[Len(log) + 1] = x /\ \A n \in 1 .. Len(log) : log'[n] = log[n]
OBVIOUS

LEMMA TallyGrows ==
  ASSUME log \in Seq(Entries), NEW x \in Entries, log' = Append(log, x), NEW counter, NEW s
  PROVE  Cardinality(Tally(counter, s)') = IF Adds(counter, x, s)
           THEN Cardinality(Tally(counter, s)) + 1 ELSE Cardinality(Tally(counter, s))
<1>1. /\ Len(log') = Len(log) + 1 /\ Len(log) \in Nat
      /\ log'[Len(log) + 1] = x /\ \A n \in 1 .. Len(log) : log'[n] = log[n]
  BY LogGrows
<1>2. Tally(counter, s)' = {k \in 1 .. Len(log) + 1 : Adds(counter, log'[k], s)}
  BY <1>1 DEF Tally, Adds
<1>3. Tally(counter, s)' = IF Adds(counter, x, s) THEN Tally(counter, s) \cup {Len(log) + 1}
                           ELSE Tally(counter, s)
  BY <1>1, <1>2 DEF Tally
<1>4. Len(log) + 1 \notin Tally(counter, s) BY <1>1 DEF Tally
<1> QED BY <1>3, <1>4, TallyIsFinite, FS_AddElement

\* The attempts in the log that are the same call as x, or its like.
Same(x) == {k \in 1 .. Len(log) :
  log[k].end # "blocked" /\ Loop!SameTime(x, log[k]) /\ Loop!SameCall(x.call, log[k].call)}

Alike(x) == {k \in 1 .. Len(log) :
  log[k].end # "blocked" /\ Loop!SameTime(x, log[k]) /\ Loop!SameTarget(x.call, log[k].call)}

LEMMA SameIsSignature ==
  ASSUME NEW x, NEW y
  PROVE  (Loop!SameTime(x, y) /\ Loop!SameCall(x.call, y.call)) <=>
           Loop!Signature(y.call, y.epoch) = Loop!Signature(x.call, x.epoch)
BY DEF Loop!SameTime, Loop!SameCall, Loop!Signature

LEMMA SemanticIsAlike ==
  ASSUME NEW x, NEW y, Loop!Semantic(y.call, y.epoch) = Loop!Semantic(x.call, x.epoch)
  PROVE  Loop!SameTime(x, y) /\ Loop!SameTarget(x.call, y.call)
<1> DEFINE Remembering == {"search_memory", "search_memory_items", "memory_add",
                           "memory_replace", "memory_forget"}
<1>1. ASSUME NEW c, NEW e
      PROVE  \/ c.tool \in Loop!Observing /\ Loop!Semantic(c, e) = <<c.tool, c.path, c.key, e>>
             \/ c.tool \in Remembering /\ Loop!Semantic(c, e) = <<c.tool, c.path, c.key, None>>
             \/ c.tool \notin Loop!Observing \cup Remembering /\ Loop!Semantic(c, e) = <<c, None>>
  BY DEF Loop!Semantic, Loop!Observing
<1>2. Loop!Observing \cap Remembering = {} BY DEF Loop!Observing
<1>3. \A a, b, c, d, g, h : <<a, b, c, d>> # <<g, h>> OBVIOUS
<1> HIDE DEF Remembering
<1>4. CASE x.call.tool \in Loop!Observing
  <2>1. Loop!Semantic(x.call, x.epoch) = <<x.call.tool, x.call.path, x.call.key, x.epoch>>
    BY <1>1, <1>2, <1>4
  <2>2. \/ Loop!Semantic(y.call, y.epoch) = <<y.call.tool, y.call.path, y.call.key, y.epoch>>
        \/ /\ Loop!Semantic(y.call, y.epoch) = <<y.call.tool, y.call.path, y.call.key, None>>
           /\ y.call.tool \in Remembering
    BY <1>1, <1>3, <2>1
  <2> QED BY <1>2, <1>4, <2>1, <2>2 DEF Loop!SameTime, Loop!SameTarget
<1>5. CASE x.call.tool \in Remembering
  <2>1. Loop!Semantic(x.call, x.epoch) = <<x.call.tool, x.call.path, x.call.key, None>>
    BY <1>1, <1>2, <1>5
  <2>2. \/ Loop!Semantic(y.call, y.epoch) = <<y.call.tool, y.call.path, y.call.key, y.epoch>>
        \/ Loop!Semantic(y.call, y.epoch) = <<y.call.tool, y.call.path, y.call.key, None>>
    BY <1>1, <1>3, <2>1
  <2> QED BY <1>2, <1>5, <2>1, <2>2 DEF Loop!SameTime, Loop!SameTarget
<1>6. CASE x.call.tool \notin Loop!Observing \cup Remembering
  <2>1. Loop!Semantic(x.call, x.epoch) = <<x.call, None>> BY <1>1, <1>6
  <2>2. Loop!Semantic(y.call, y.epoch) = <<y.call, None>> BY <1>1, <1>3, <2>1
  <2>3. x.call = y.call BY <2>1, <2>2
  <2> QED BY <1>6, <2>3 DEF Loop!SameTime, Loop!SameTarget
<1> QED BY <1>4, <1>5, <1>6

LEMMA SameIsTallied ==
  ASSUME NEW x
  PROVE  Same(x) = Tally("completed", Loop!Signature(x.call, x.epoch))
BY SameIsSignature DEF Same, Tally, Adds

\* The edits that failed are counted as such.
LEMMA VainIsTallied ==
  ASSUME NEW x, x.call.tool \in Loop!Mutating
  PROVE  {k \in Alike(x) : ~Loop!Works(log[k].end)} \subseteq
           Tally("semFailed", Loop!Semantic(x.call, x.epoch))
<1> SUFFICES ASSUME NEW k \in Alike(x), ~Loop!Works(log[k].end)
             PROVE  k \in Tally("semFailed", Loop!Semantic(x.call, x.epoch))
  OBVIOUS
<1>1. /\ k \in 1 .. Len(log) /\ log[k].end # "blocked" /\ log[k].call.tool \in Loop!Mutating
      /\ log[k].epoch = x.epoch /\ log[k].call.tool = x.call.tool
      /\ log[k].call.path = x.call.path /\ log[k].call.key = x.call.key
  BY DEF Alike, Loop!SameTime, Loop!SameTarget, Loop!Observing, Loop!Mutating
<1>2. Loop!Observation(log[k].call, log[k].end) = "semFailed"
  BY <1>1 DEF Loop!Observation, Loop!Mutating
<1>3. Loop!Semantic(log[k].call, log[k].epoch) = Loop!Semantic(x.call, x.epoch)
  BY <1>1 DEF Loop!Semantic, Loop!Mutating, Loop!Observing
<1> QED BY <1>1, <1>2, <1>3 DEF Tally, Adds

\* What a counter has is no more than the attempts that are alike.
LEMMA TalliedIsAlike ==
  ASSUME NEW x, NEW counter \in Counters, NEW s,
         s = IF counter \in {"failed", "completed"} THEN Loop!Signature(x.call, x.epoch)
                                                    ELSE Loop!Semantic(x.call, x.epoch)
  PROVE  Tally(counter, s) \subseteq Alike(x)
<1> SUFFICES ASSUME NEW k \in Tally(counter, s)
             PROVE  Loop!SameTime(x, log[k]) /\ Loop!SameTarget(x.call, log[k].call)
  BY DEF Tally, Adds, Alike
<1>1. CASE counter \in {"failed", "completed"}
  <2>1. Loop!Signature(log[k].call, log[k].epoch) = Loop!Signature(x.call, x.epoch)
    BY <1>1 DEF Tally, Adds
  <2> QED BY <2>1, SameIsSignature DEF Loop!SameCall, Loop!SameTarget
<1>2. CASE counter \in {"semFailed", "semCompleted"}
  <2>1. Loop!Semantic(log[k].call, log[k].epoch) = Loop!Semantic(x.call, x.epoch)
    BY <1>2 DEF Tally, Adds
  <2> QED BY <2>1, SemanticIsAlike
<1> QED BY <1>1, <1>2 DEF Counters

LEMMA AttemptsGrow ==
  ASSUME log \in Seq(Entries), NEW x \in Entries, log' = Append(log, x),
         NEW last, last = Len(log) + 1
  PROVE  /\ \A n \in 1 .. Len(log) :
              /\ Loop!Attempts(n, Loop!SameCall)' = Loop!Attempts(n, Loop!SameCall)
              /\ Loop!Attempts(n, Loop!SameTarget)' = Loop!Attempts(n, Loop!SameTarget)
         /\ Loop!Attempts(last, Loop!SameCall)' = Same(x)
         /\ Loop!Attempts(last, Loop!SameTarget)' = Alike(x)
<1>1. /\ Len(log) \in Nat /\ log'[last] = x /\ \A n \in 1 .. Len(log) : log'[n] = log[n]
  BY LogGrows
<1>2. ASSUME NEW n \in 1 .. Len(log)
      PROVE  /\ Loop!Attempts(n, Loop!SameCall)' = Loop!Attempts(n, Loop!SameCall)
             /\ Loop!Attempts(n, Loop!SameTarget)' = Loop!Attempts(n, Loop!SameTarget)
  <2>1. /\ n - 1 \in Nat /\ log'[n] = log[n]
        /\ \A k \in 1 .. n - 1 : log'[k] = log[k]
    BY <1>1
  <2> QED BY <2>1 DEF Loop!Attempts, Loop!SameTime, Loop!SameCall, Loop!SameTarget
<1>3. last - 1 = Len(log) BY <1>1
<1> QED BY <1>1, <1>2, <1>3
        DEF Loop!Attempts, Same, Alike, Loop!SameTime, Loop!SameCall, Loop!SameTarget

\* The guardrail holds of the attempts before x as it did, and must hold of x.
LEMMA RepeatsStay ==
  ASSUME log \in Seq(Entries), Loop!RepeatsStop, NEW x \in Entries, log' = Append(log, x),
         x.end # "blocked" => Cardinality(Same(x)) < MaxRepeats,
         (x.end # "blocked" /\ x.call.tool \in Loop!Mutating) =>
           Cardinality({k \in Alike(x) : ~Loop!Works(log[k].end)}) < MaxRepeats,
         x.why = "repeat" => Cardinality(Alike(x)) >= MaxRepeats
  PROVE  Loop!RepeatsStop'
<1>1. PICK last : last = Len(log) + 1 OBVIOUS
<1>2. /\ Len(log) \in Nat /\ DOMAIN log' = 1 .. last /\ DOMAIN log = 1 .. Len(log)
      /\ log'[last] = x /\ \A n \in 1 .. Len(log) : log'[n] = log[n]
  BY <1>1, LogGrows
<1> DEFINE Stops(n) ==
      /\ log[n].end # "blocked" => Loop!Cardinality(Loop!Attempts(n, Loop!SameCall)) < MaxRepeats
      /\ log[n].end # "blocked" /\ log[n].call.tool \in Loop!Mutating =>
           Loop!Cardinality({k \in Loop!Attempts(n, Loop!SameTarget) : ~Loop!Works(log[k].end)})
             < MaxRepeats
      /\ log[n].why = "repeat" =>
           Loop!Cardinality(Loop!Attempts(n, Loop!SameTarget)) >= MaxRepeats
<1>3. \A S : Loop!Cardinality(S) = Cardinality(S) BY DEF Loop!Cardinality, Cardinality
<1>4. Loop!RepeatsStop <=> \A n \in DOMAIN log : Stops(n) BY DEF Loop!RepeatsStop
<1>5. Loop!RepeatsStop' <=> \A n \in DOMAIN log' : Stops(n)' BY DEF Loop!RepeatsStop
<1>6. ASSUME NEW n \in 1 .. Len(log) PROVE Stops(n)'
  <2>1. Stops(n) BY <1>2, <1>4
  <2>2. /\ Loop!Attempts(n, Loop!SameCall)' = Loop!Attempts(n, Loop!SameCall)
        /\ Loop!Attempts(n, Loop!SameTarget)' = Loop!Attempts(n, Loop!SameTarget)
    BY <1>1, AttemptsGrow
  <2>3. \A k \in Loop!Attempts(n, Loop!SameTarget) : k \in 1 .. Len(log)
    BY <1>2 DEF Loop!Attempts
  <2>4. {k \in Loop!Attempts(n, Loop!SameTarget) : ~Loop!Works(log'[k].end)} =
          {k \in Loop!Attempts(n, Loop!SameTarget) : ~Loop!Works(log[k].end)}
    BY <1>2, <2>3
  <2>5. {k \in Loop!Attempts(n, Loop!SameTarget) : ~Loop!Works(log[k].end)}' =
          {k \in Loop!Attempts(n, Loop!SameTarget) : ~Loop!Works(log[k].end)}
    BY <2>2, <2>4 DEF Loop!Works
  <2> QED BY <1>2, <2>1, <2>2, <2>5
<1>7. Stops(last)'
  <2>1. /\ Loop!Attempts(last, Loop!SameCall)' = Same(x)
        /\ Loop!Attempts(last, Loop!SameTarget)' = Alike(x)
    BY <1>1, AttemptsGrow
  <2>2. \A k \in Alike(x) : log'[k] = log[k] BY <1>2 DEF Alike
  <2>3. {k \in Loop!Attempts(last, Loop!SameTarget) : ~Loop!Works(log[k].end)}' =
          {k \in Alike(x) : ~Loop!Works(log[k].end)}
    BY <2>1, <2>2 DEF Loop!Works
  <2> QED BY <1>2, <1>3, <2>1, <2>3
<1> HIDE DEF Stops
<1> QED BY <1>1, <1>2, <1>5, <1>6, <1>7

LEMMA EditsStay ==
  ASSUME log \in Seq(Entries), Loop!EditsAreInformed, NEW x \in Entries, log' = Append(log, x),
         policies' = policies,
         (/\ x.end # "blocked" /\ x.call.tool \in Loop!Mutating
          /\ \E p \in DOMAIN policies : /\ x.call.path \in policies[p].paths
                                        /\ policies[p].action = "reinspect_before_mutation"
          /\ \A p \in DOMAIN policies : policies[p].override = None)
           => ReadAt(x.call.path, x.epoch)
  PROVE  Loop!EditsAreInformed'
<1>1. PICK last : last = Len(log) + 1 OBVIOUS
<1>2. /\ Len(log) \in Nat /\ DOMAIN log' = 1 .. last /\ DOMAIN log = 1 .. Len(log)
      /\ log'[last] = x /\ \A n \in 1 .. Len(log) : log'[n] = log[n]
  BY <1>1, LogGrows
<1> DEFINE Blind(n) ==
      /\ log[n].end # "blocked" /\ log[n].call.tool \in Loop!Mutating
      /\ \E p \in DOMAIN policies : /\ log[n].call.path \in policies[p].paths
                                    /\ policies[p].action = "reinspect_before_mutation"
      /\ \A p \in DOMAIN policies : policies[p].override = None
    Told(n, k) ==
      /\ log[k].call.tool = "read_file" /\ Loop!Works(log[k].end)
      /\ log[k].call.path = log[n].call.path /\ log[k].epoch = log[n].epoch
<1>3. Loop!EditsAreInformed <=>
        \A n \in DOMAIN log : Blind(n) => \E k \in 1 .. n - 1 : Told(n, k)
  BY DEF Loop!EditsAreInformed
<1>4. Loop!EditsAreInformed' <=>
        \A n \in DOMAIN log' : Blind(n)' => \E k \in 1 .. n - 1 : Told(n, k)'
  BY DEF Loop!EditsAreInformed
<1>5. ASSUME NEW n \in 1 .. last, Blind(n)' PROVE \E k \in 1 .. n - 1 : Told(n, k)'
  <2>1. CASE n = last
    <3>1. log'[n] = x BY <1>2, <2>1
    <3>2. ReadAt(x.call.path, x.epoch) BY <1>5, <3>1 DEF Loop!Mutating
    <3>3. n - 1 = Len(log) BY <1>1, <1>2, <2>1
    <3>4. PICK k \in 1 .. n - 1 :
            /\ log[k].call.tool = "read_file" /\ Loop!Works(log[k].end)
            /\ log[k].call.path = x.call.path /\ log[k].epoch = x.epoch
      BY <3>2, <3>3 DEF ReadAt
    <3>5. log'[k] = log[k] BY <1>2, <3>3
    <3> QED BY <3>1, <3>4, <3>5 DEF Loop!Works
  <2>2. CASE n \in 1 .. Len(log)
    <3>1. log'[n] = log[n] /\ \A k \in 1 .. n - 1 : log'[k] = log[k] BY <1>2, <2>2
    <3>2. Blind(n) BY <1>5, <3>1 DEF Loop!Mutating
    <3>3. PICK k \in 1 .. n - 1 : Told(n, k) BY <1>2, <1>3, <2>2, <3>2
    <3> QED BY <3>1, <3>3 DEF Loop!Works
  <2> QED BY <1>1, <1>2, <2>1, <2>2
<1> HIDE DEF Blind, Told
<1> QED BY <1>2, <1>4, <1>5

\* What a step leaves alone.
LEMMA LoopWaits ==
  ASSUME LoopHolds, UNCHANGED <<count, refreshed, policies, log>>,
         epoch' \in 0 .. MaxEpoch + Len(log), epoch' >= epoch,
         calling' = None \/ /\ calling' \in [call : LoopCalls, epoch : 0 .. epoch]
                            /\ Len(log) < MaxLoopCalls
  PROVE  LoopHolds'
<1>1. LoopTyped'
  <2>1. epoch \in Nat /\ epoch' \in Nat BY LoopAssumed DEF LoopHolds, LoopTyped
  <2>2. 0 .. epoch \subseteq 0 .. epoch' BY <2>1
  <2>3. calling' = None \/ /\ calling' \in [call : LoopCalls, epoch : 0 .. epoch']
                           /\ Len(log) < MaxLoopCalls
    BY <2>2
  <2>4. \A path \in DOMAIN refreshed : refreshed[path] \in 0 .. epoch'
    BY <2>2 DEF LoopHolds, LoopTyped
  <2> QED BY <2>3, <2>4 DEF LoopHolds, LoopTyped
<1>2. CountsMatch' /\ RefreshedWasRead'
  BY DEF LoopHolds, CountsMatch, Tally, Adds, RefreshedWasRead, ReadAt
<1>3. Loop!RepeatsStop'
  <2>1. \A n : /\ Loop!Attempts(n, Loop!SameCall)' = Loop!Attempts(n, Loop!SameCall)
              /\ Loop!Attempts(n, Loop!SameTarget)' = Loop!Attempts(n, Loop!SameTarget)
    BY DEF Loop!Attempts, Loop!SameTime, Loop!SameCall, Loop!SameTarget
  <2>2. \A n : {k \in Loop!Attempts(n, Loop!SameTarget) : ~Loop!Works(log[k].end)}' =
               {k \in Loop!Attempts(n, Loop!SameTarget) : ~Loop!Works(log[k].end)}
    BY <2>1 DEF Loop!Works
  <2> QED BY <2>1, <2>2 DEF LoopHolds, Loop!RepeatsStop
<1>4. Loop!EditsAreInformed' BY DEF LoopHolds, Loop!EditsAreInformed, Loop!Works
<1> QED BY <1>1, <1>2, <1>3, <1>4 DEF LoopHolds

\* A call is refused, or over: its entry is what the counters grow by.
LEMMA LoopLogs ==
  ASSUME LoopHolds, NEW x \in Entries, calling # None, x.call = calling.call,
         x.epoch = calling.epoch, log' = Append(log, x), calling' = None, policies' = policies,
         epoch' \in {epoch, epoch + 1},
         count' = IF x.end = "blocked" THEN count ELSE Loop!Counted(x.call, x.epoch, x.end),
         \/ refreshed' = refreshed
         \/ /\ x.call.tool = "read_file" /\ Loop!Works(x.end)
            /\ refreshed' = [path \in DOMAIN refreshed \union {x.call.path} |->
                               IF path = x.call.path THEN x.epoch ELSE refreshed[path]]
  PROVE  LoopTyped' /\ CountsMatch' /\ RefreshedWasRead'
<1>1. log \in Seq(Entries) BY DEF LoopHolds, LoopTyped
<1>2. /\ log' \in Seq(Entries) /\ Len(log') = Len(log) + 1 /\ Len(log) \in Nat
      /\ log'[Len(log) + 1] = x /\ \A n \in 1 .. Len(log) : log'[n] = log[n]
  BY <1>1, LogGrows
<1>3. /\ epoch \in 0 .. MaxEpoch + Len(log) /\ Len(log) < MaxLoopCalls
      /\ calling \in [call : LoopCalls, epoch : 0 .. epoch]
  BY DEF LoopHolds, LoopTyped
<1>4. epoch' \in 0 .. MaxEpoch + Len(log') /\ Len(log') <= MaxLoopCalls /\ epoch \in Nat
  BY <1>2, <1>3, LoopAssumed
<1>5. /\ count' = [failed |-> count'.failed, completed |-> count'.completed,
                   semFailed |-> count'.semFailed, semCompleted |-> count'.semCompleted]
      /\ \A counter \in Counters : \A s \in DOMAIN count'[counter] :
           count'[counter][s] \in Nat \ {0}
      /\ \A counter \in Counters : \A s : Loop!Copies(count'[counter], s) =
           IF Adds(counter, x, s) THEN Loop!Copies(count[counter], s) + 1
                                  ELSE Loop!Copies(count[counter], s)
  <2>1. CASE x.end = "blocked"
    <3>1. \A counter, s : ~Adds(counter, x, s) BY <2>1 DEF Adds
    <3> QED BY <2>1, <3>1 DEF LoopHolds, LoopTyped
  <2>2. CASE x.end # "blocked"
    <3>1. PICK next : next = Loop!Counted(x.call, x.epoch, x.end) OBVIOUS
    <3>2. count' = next BY <2>2, <3>1
    <3>3. /\ next = [failed |-> next.failed, completed |-> next.completed,
                      semFailed |-> next.semFailed, semCompleted |-> next.semCompleted]
          /\ \A counter \in Counters : \A s : Loop!Copies(next[counter], s) =
               IF Adds(counter, x, s) THEN Loop!Copies(count[counter], s) + 1
                                      ELSE Loop!Copies(count[counter], s)
          /\ \A counter \in Counters : \A s \in DOMAIN next[counter] :
               next[counter][s] \in Nat \ {0}
      <4>1. LoopTyped BY DEF LoopHolds
      <4> QED BY ONLY <2>2, <3>1, <4>1, x \in Entries, CountedAdds
    <3> QED BY <3>2, <3>3
  <2> QED BY <2>1, <2>2
<1>6. \A path \in DOMAIN refreshed' : refreshed'[path] \in 0 .. epoch'
  <2>1. x.epoch \in 0 .. epoch BY <1>3
  <2>2. 0 .. epoch \subseteq 0 .. epoch' BY <1>4
  <2>3. \A path \in DOMAIN refreshed : refreshed[path] \in 0 .. epoch' 
    BY <2>2 DEF LoopHolds, LoopTyped
  <2> QED BY <2>1, <2>2, <2>3
<1>7. LoopTyped' BY <1>2, <1>4, <1>5, <1>6 DEF LoopHolds, LoopTyped
<1>8. CountsMatch'
  <2> SUFFICES ASSUME NEW counter \in Counters, NEW s
               PROVE  Loop!Copies(count'[counter], s) = Cardinality(Tally(counter, s)')
    BY DEF CountsMatch, Loop!Copies, Tally, Adds
  <2> QED BY <1>1, <1>5, TallyGrows DEF LoopHolds, CountsMatch
<1>9. RefreshedWasRead'
  <2>1. ASSUME NEW path, NEW e, ReadAt(path, e) PROVE ReadAt(path, e)'
    BY <1>2, <2>1 DEF ReadAt, Loop!Works
  <2>2. CASE refreshed' = refreshed
    BY <2>1, <2>2 DEF LoopHolds, RefreshedWasRead, ReadAt, Loop!Works
  <2>3. CASE /\ x.call.tool = "read_file" /\ Loop!Works(x.end)
             /\ refreshed' = [path \in DOMAIN refreshed \union {x.call.path} |->
                                IF path = x.call.path THEN x.epoch ELSE refreshed[path]]
    <3> SUFFICES ASSUME NEW path \in DOMAIN refreshed'
                 PROVE  \E k \in 1 .. Len(log') :
                          /\ log'[k].call.tool = "read_file" /\ Loop!Works(log'[k].end)
                          /\ log'[k].call.path = path /\ log'[k].epoch = refreshed'[path]
      BY DEF RefreshedWasRead, ReadAt, Loop!Works
    <3>1. CASE path = x.call.path
      <4>1. Len(log) + 1 \in 1 .. Len(log') BY <1>2
      <4> QED BY <1>2, <2>3, <3>1, <4>1
    <3>2. CASE path # x.call.path
      <4>1. path \in DOMAIN refreshed /\ refreshed'[path] = refreshed[path] BY <2>3, <3>2
      <4>2. PICK k \in 1 .. Len(log) :
              /\ log[k].call.tool = "read_file" /\ Loop!Works(log[k].end)
              /\ log[k].call.path = path /\ log[k].epoch = refreshed[path]
        BY <4>1 DEF LoopHolds, RefreshedWasRead, ReadAt
      <4>3. k \in 1 .. Len(log') /\ log'[k] = log[k] BY <1>2
      <4> QED BY <4>1, <4>2, <4>3
    <3> QED BY <3>1, <3>2
  <2> QED BY <2>2, <2>3
<1> QED BY <1>7, <1>8, <1>9

LEMMA LoopBeginKeeps ==
  ASSUME LoopHolds, NEW c \in LoopCalls, Loop!Begin(c)
  PROVE  LoopHolds'
<1>1. PICK call : call = [call |-> c, epoch |-> epoch] OBVIOUS
<1>2. /\ calling' = call /\ Loop!Len(log) < MaxLoopCalls
      /\ UNCHANGED <<epoch, count, refreshed, policies, log>>
  BY <1>1 DEF Loop!Begin
<1>3. epoch \in 0 .. MaxEpoch + Len(log) /\ Len(log) \in Nat BY DEF LoopHolds, LoopTyped
<1>4. epoch \in 0 .. epoch BY <1>3, LoopAssumed
<1>5. call \in [call : LoopCalls, epoch : 0 .. epoch] BY <1>1, <1>4
<1>6. Len(log) < MaxLoopCalls BY <1>2 DEF Loop!Len, Len
<1>7. epoch' \in 0 .. MaxEpoch + Len(log) /\ epoch' >= epoch BY <1>2, <1>3, LoopAssumed
<1> QED BY <1>2, <1>5, <1>6, <1>7, LoopWaits

LEMMA OtherTurnKeeps ==
  ASSUME LoopHolds, Loop!OtherTurnChanges
  PROVE  LoopHolds'
<1>1. /\ epoch < MaxEpoch /\ epoch' = epoch + 1
      /\ UNCHANGED <<calling, count, refreshed, policies, log>>
  BY DEF Loop!OtherTurnChanges
<1>2. /\ epoch \in 0 .. MaxEpoch + Len(log) /\ Len(log) \in Nat
      /\ calling = None \/ /\ calling \in [call : LoopCalls, epoch : 0 .. epoch]
                           /\ Len(log) < MaxLoopCalls
  BY DEF LoopHolds, LoopTyped
<1>3. epoch' \in 0 .. MaxEpoch + Len(log) /\ epoch' >= epoch BY <1>1, <1>2, LoopAssumed
<1> QED BY <1>1, <1>2, <1>3, LoopWaits

\* What is counted often enough was tried often enough.
LEMMA RepeatedWasTried ==
  ASSUME LoopHolds, NEW x \in Entries, Loop!Repeats(x.call, x.epoch)
  PROVE  Cardinality(Alike(x)) >= MaxRepeats
<1>1. PICK counter \in Counters :
        Loop!Copies(count[counter],
                    IF counter \in {"failed", "completed"} THEN Loop!Signature(x.call, x.epoch)
                                                           ELSE Loop!Semantic(x.call, x.epoch))
          >= MaxRepeats
  BY DEF Loop!Repeats, Counters
<1>7. PICK s : s = IF counter \in {"failed", "completed"} THEN Loop!Signature(x.call, x.epoch)
                                                          ELSE Loop!Semantic(x.call, x.epoch)
  OBVIOUS
<1>2. log \in Seq(Entries) BY DEF LoopHolds, LoopTyped
<1>3. Cardinality(Tally(counter, s)) >= MaxRepeats BY <1>1, <1>7 DEF LoopHolds, CountsMatch
<1>4. Tally(counter, s) \subseteq Alike(x) BY <1>1, <1>7, TalliedIsAlike
<1>5. IsFiniteSet(Alike(x))
  <2>1. Len(log) \in Nat BY <1>2
  <2>2. 1 \in Int /\ Len(log) \in Int BY <2>1
  <2>3. IsFiniteSet(1 .. Len(log)) BY ONLY <2>2, FS_Interval
  <2>4. Alike(x) \in SUBSET (1 .. Len(log)) BY DEF Alike
  <2> QED BY <2>3, <2>4, FS_Subset
<1>6. /\ Cardinality(Tally(counter, s)) <= Cardinality(Alike(x))
      /\ Cardinality(Alike(x)) \in Nat /\ Cardinality(Tally(counter, s)) \in Nat
  BY <1>2, <1>4, <1>5, FS_Subset, FS_CardinalityType, TallyIsFinite
<1> QED BY <1>3, <1>6, LoopAssumed

\* What passes was not tried that often.
LEMMA PassedWasNotTried ==
  ASSUME LoopHolds, NEW x \in Entries, ~Loop!Repeats(x.call, x.epoch)
  PROVE  /\ Cardinality(Same(x)) < MaxRepeats
         /\ x.call.tool \in Loop!Mutating =>
              Cardinality({k \in Alike(x) : ~Loop!Works(log[k].end)}) < MaxRepeats
<1>1. log \in Seq(Entries) BY DEF LoopHolds, LoopTyped
<1>2. PICK sig : sig = Loop!Signature(x.call, x.epoch) OBVIOUS
<1>3. PICK sem : sem = Loop!Semantic(x.call, x.epoch) OBVIOUS
<1>4. "completed" \in Counters /\ "semFailed" \in Counters BY DEF Counters
<1>5. ~(Loop!Copies(count["completed"], sig) >= MaxRepeats)
      /\ ~(Loop!Copies(count["semFailed"], sem) >= MaxRepeats)
  BY <1>2, <1>3 DEF Loop!Repeats
<1>6. /\ Loop!Copies(count["completed"], sig) = Cardinality(Tally("completed", sig))
      /\ Loop!Copies(count["semFailed"], sem) = Cardinality(Tally("semFailed", sem))
  BY <1>4 DEF LoopHolds, CountsMatch
<1>7. /\ Cardinality(Tally("completed", sig)) < MaxRepeats
      /\ Cardinality(Tally("semFailed", sem)) < MaxRepeats
  BY <1>1, <1>5, <1>6, TallyIsFinite, LoopAssumed
<1>8. ASSUME x.call.tool \in Loop!Mutating
      PROVE  Cardinality({k \in Alike(x) : ~Loop!Works(log[k].end)}) < MaxRepeats
  <2>1. PICK vain : vain = {k \in Alike(x) : ~Loop!Works(log[k].end)} OBVIOUS
  <2>2. vain \subseteq Tally("semFailed", sem) BY <1>3, <1>8, <2>1, VainIsTallied
  <2>3. IsFiniteSet(Tally("semFailed", sem)) /\ Cardinality(Tally("semFailed", sem)) \in Nat
    BY <1>1, TallyIsFinite
  <2>4. IsFiniteSet(vain) /\ Cardinality(vain) <= Cardinality(Tally("semFailed", sem))
    BY <2>2, <2>3, FS_Subset
  <2>5. Cardinality(vain) \in Nat BY <2>4, FS_CardinalityType
  <2> QED BY <1>7, <2>1, <2>3, <2>4, <2>5, LoopAssumed
<1>9. Cardinality(Same(x)) < MaxRepeats BY <1>2, <1>7, SameIsTallied
<1> QED BY <1>8, <1>9

\* No policy lets an edit pass before the file was read in this epoch.
LEMMA PassedWasRead ==
  ASSUME LoopHolds, NEW c, NEW e, c.tool \in Loop!Mutating, ~Loop!PolicyForbids(c, e),
         NEW p \in DOMAIN policies, c.path \in policies[p].paths,
         policies[p].action = "reinspect_before_mutation",
         \A k \in DOMAIN policies : policies[k].override = None
  PROVE  ReadAt(c.path, e)
<1>1. policies \in LoopPolicies BY DEF LoopHolds, LoopTyped
<1>2. p \in 1 .. Len(policies) /\ DOMAIN policies = 1 .. Len(policies) /\ Len(policies) \in Nat
  BY <1>1, LoopAssumed
<1>3. \A k \in 1 .. p - 1 : k \in DOMAIN policies BY <1>2
<1>4. \A k \in 1 .. p - 1 : policies[k].override # "force_rerun" BY <1>3, LoopAssumed
<1>5. ~Loop!Forbids(policies[p], c, e) BY <1>4 DEF Loop!PolicyForbids
<1>6. Loop!PathWasRefreshed(c.path, e) BY <1>5, LoopAssumed DEF Loop!Forbids, Loop!Overridden
<1> QED BY <1>6 DEF Loop!PathWasRefreshed, LoopHolds, RefreshedWasRead

LEMMA RefusedKeeps ==
  ASSUME LoopHolds, Loop!Refused
  PROVE  LoopHolds'
<1>1. calling # None BY DEF Loop!Refused
<1>2. calling \in [call : LoopCalls, epoch : 0 .. epoch] /\ epoch \in 0 .. MaxEpoch + Len(log)
      /\ log \in Seq(Entries)
  BY <1>1 DEF LoopHolds, LoopTyped
<1>3. PICK why \in {"policy", "repeat"} :
        /\ why = "repeat" => Loop!Repeats(calling.call, calling.epoch)
        /\ Loop!Block(why)
  BY DEF Loop!Refused
<1>4. PICK x : x = [call |-> calling.call, epoch |-> calling.epoch, end |-> "blocked",
                    why |-> why]
  OBVIOUS
<1>5. /\ log' = Append(log, x) /\ calling' = None
      /\ UNCHANGED <<epoch, count, refreshed, policies>>
  BY <1>3, <1>4 DEF Loop!Block, Loop!Logged, Loop!Append, Append, Loop!Len, Len
<1>6. "blocked" \in Loop!Ends BY DEF Loop!Ends
<1>7. calling.call \in LoopCalls /\ calling.epoch \in Nat BY <1>2
<1>8. /\ x \in Entries /\ x.call = calling.call /\ x.epoch = calling.epoch
      /\ x.end = "blocked" /\ x.why = why
  BY <1>3, <1>4, <1>6, <1>7 DEF Entries
<1>9. LoopTyped' /\ CountsMatch' /\ RefreshedWasRead' BY <1>1, <1>5, <1>8, LoopLogs
<1>10. x.why = "repeat" => Cardinality(Alike(x)) >= MaxRepeats
  BY <1>3, <1>8, RepeatedWasTried
<1>11. Loop!RepeatsStop' BY <1>2, <1>5, <1>8, <1>10, RepeatsStay DEF LoopHolds
<1>12. Loop!EditsAreInformed' BY <1>2, <1>5, <1>8, EditsStay DEF LoopHolds
<1> QED BY <1>9, <1>11, <1>12 DEF LoopHolds

LEMMA EndedKeeps ==
  ASSUME LoopHolds, NEW end \in Loop!Ends \ {"blocked"}, Loop!Ended(end)
  PROVE  LoopHolds'
<1>1. calling # None BY DEF Loop!Ended
<1>2. calling \in [call : LoopCalls, epoch : 0 .. epoch] /\ epoch \in 0 .. MaxEpoch + Len(log)
      /\ log \in Seq(Entries)
  BY <1>1 DEF LoopHolds, LoopTyped
<1>3. PICK x : x = [call |-> calling.call, epoch |-> calling.epoch, end |-> end, why |-> None]
  OBVIOUS
<1>4. calling.call \in LoopCalls /\ calling.epoch \in Nat BY <1>2
<1>5. /\ x \in Entries /\ x.call = calling.call /\ x.epoch = calling.epoch
      /\ x.end = end /\ x.why = None
  BY <1>3, <1>4 DEF Entries
<1>6. /\ ~Loop!PolicyForbids(x.call, x.epoch) /\ ~Loop!Repeats(x.call, x.epoch)
      /\ count' = Loop!Counted(x.call, x.epoch, end)
      /\ refreshed' = IF x.call.tool = "read_file" /\ Loop!Works(end)
                        THEN [path \in DOMAIN refreshed \union {x.call.path} |->
                                IF path = x.call.path THEN x.epoch ELSE refreshed[path]]
                        ELSE refreshed
      /\ epoch' \in {epoch, epoch + 1} /\ calling' = None /\ policies' = policies
  BY <1>5 DEF Loop!Ended
<1>7. log' = Append(log, x)
  BY <1>3 DEF Loop!Ended, Loop!Logged, Loop!Append, Append, Loop!Len, Len
<1>8. LoopTyped' /\ CountsMatch' /\ RefreshedWasRead'
  BY <1>1, <1>5, <1>6, <1>7, LoopLogs
<1>9. Loop!RepeatsStop'
  <2>1. /\ Cardinality(Same(x)) < MaxRepeats
        /\ x.call.tool \in Loop!Mutating =>
             Cardinality({k \in Alike(x) : ~Loop!Works(log[k].end)}) < MaxRepeats
    BY <1>5, <1>6, PassedWasNotTried
  <2>2. x.why # "repeat" BY <1>5, LoopAssumed
  <2> QED BY <1>2, <1>5, <1>7, <2>1, <2>2, RepeatsStay DEF LoopHolds
<1>10. Loop!EditsAreInformed'
  <2>1. (/\ x.end # "blocked" /\ x.call.tool \in Loop!Mutating
         /\ \E p \in DOMAIN policies : /\ x.call.path \in policies[p].paths
                                       /\ policies[p].action = "reinspect_before_mutation"
         /\ \A p \in DOMAIN policies : policies[p].override = None)
          => ReadAt(x.call.path, x.epoch)
    BY <1>6, PassedWasRead
  <2> QED BY <1>2, <1>5, <1>6, <1>7, <2>1, EditsStay DEF LoopHolds
<1> QED BY <1>8, <1>9, <1>10 DEF LoopHolds

LEMMA LoopStutters ==
  ASSUME LoopHolds, UNCHANGED <<v1, v2, v3, v4, v5, v6>>
  PROVE  LoopHolds'
<1>1. /\ epoch \in 0 .. MaxEpoch + Len(log) /\ Len(log) \in Nat
      /\ calling = None \/ /\ calling \in [call : LoopCalls, epoch : 0 .. epoch]
                           /\ Len(log) < MaxLoopCalls
  BY DEF LoopHolds, LoopTyped
<1>2. epoch \in Nat BY <1>1, LoopAssumed
<1>3. UNCHANGED <<epoch, calling, count, refreshed, policies, log>> OBVIOUS
<1> QED BY <1>1, <1>2, <1>3, LoopWaits

LEMMA LoopBegins ==
  ASSUME Init
  PROVE  LoopInv
<1> SUFFICES ASSUME Loop!Init PROVE LoopHolds BY DEF Init, PartsInit, LoopInv
<1>1. /\ epoch = 0 /\ calling = None /\ count = Loop!NoCounts /\ refreshed = <<>>
      /\ policies \in LoopPolicies /\ log = <<>>
  BY DEF Loop!Init
<1>2. log \in Seq(Entries) /\ Len(log) = 0 BY <1>1
<1>3. \A counter \in Counters : count[counter] = <<>> BY <1>1 DEF Counters, Loop!NoCounts
<1>4. \A s : s \notin DOMAIN <<>> OBVIOUS
<1>5. LoopTyped BY <1>1, <1>2, <1>3, <1>4, LoopAssumed DEF LoopTyped, Loop!NoCounts
<1>6. CountsMatch
  <2> SUFFICES ASSUME NEW counter \in Counters, NEW s
               PROVE  Loop!Copies(count[counter], s) = Cardinality(Tally(counter, s))
    BY DEF CountsMatch
  <2>1. Tally(counter, s) = {} BY <1>2 DEF Tally
  <2>2. Cardinality({}) = 0 BY FS_EmptySet
  <2>3. Loop!Copies(count[counter], s) = 0 BY <1>3, <1>4 DEF Loop!Copies
  <2> QED BY <2>1, <2>2, <2>3
<1>7. RefreshedWasRead BY <1>1, <1>4 DEF RefreshedWasRead
<1>8. Loop!RepeatsStop /\ Loop!EditsAreInformed
  BY <1>1, <1>4 DEF Loop!RepeatsStop, Loop!EditsAreInformed
<1> QED BY <1>5, <1>6, <1>7, <1>8 DEF LoopHolds

LEMMA LoopSteps ==
  ASSUME LoopInv, [Next]_<<part, input, partVars>>
  PROVE  LoopInv'
<1>1. CASE part = "loop"
  <2>1. part' = part /\ (Loop!Next \/ UNCHANGED <<v1, v2, v3, v4, v5, v6>>)
    BY <1>1 DEF Next, PartsNext, Ask, partVars
  <2>2. LoopHolds BY <1>1 DEF LoopInv
  <2>3. CASE Loop!Next
    <3>1. LoopHolds'
      BY <2>2, <2>3, LoopBeginKeeps, RefusedKeeps, EndedKeeps, OtherTurnKeeps DEF Loop!Next
    <3> QED BY <3>1 DEF LoopInv
  <2>4. CASE UNCHANGED <<v1, v2, v3, v4, v5, v6>> BY <2>2, <2>4, LoopStutters DEF LoopInv
  <2> QED BY <2>1, <2>3, <2>4
<1>2. CASE part # "loop"
  <2>1. part' = part BY DEF Next, PartsNext, Ask
  <2> QED BY <1>2, <2>1 DEF LoopInv
<1> QED BY <1>1, <1>2

THEOREM LoopIsCounted == Spec => []LoopInv
<1>1. Init => LoopInv BY LoopBegins
<1>2. LoopInv /\ [Next]_<<part, input, partVars>> => LoopInv' BY LoopSteps
<1> QED BY <1>1, <1>2, PTL DEF Spec

\* For any calls, policies and limit of repeats: no call passes the guardrail that
\* was tried MaxRepeats times in this state of the workspace, none is stopped as a
\* repeat that was not, and no edit a policy wants informed passes before its file
\* was read (before_call, after_call, _path_was_refreshed).
THEOREM TurnsAreGuarded == Spec => []LoopGuarded
<1>1. LoopInv => LoopGuarded BY DEF LoopInv, LoopHolds, LoopGuarded
<1> QED BY <1>1, LoopIsCounted, PTL

LEMMA LoopTypes ==
  ASSUME LoopHolds
  PROVE  Loop!TypeOK
<1>1. /\ log \in Seq(Entries) /\ Len(log) <= MaxLoopCalls /\ Len(log) \in Nat
      /\ epoch \in 0 .. MaxEpoch + Len(log)
      /\ calling = None \/ calling \in [call : LoopCalls, epoch : 0 .. epoch]
      /\ \A path \in DOMAIN refreshed : refreshed[path] \in 0 .. epoch
  BY DEF LoopHolds, LoopTyped
<1>2. epoch \in 0 .. MaxEpoch + MaxLoopCalls BY <1>1, LoopAssumed
<1>3. Loop!Len(log) = Len(log) BY DEF Loop!Len, Len
<1>4. DOMAIN Loop!NoCounts = Counters BY DEF Loop!NoCounts, Counters
<1>5. ASSUME NEW counter \in Counters, NEW s \in DOMAIN count[counter]
      PROVE  count[counter][s] \in 1 .. Len(log)
  <2>1. count[counter][s] \in Nat \ {0} BY DEF LoopHolds, LoopTyped
  <2>2. count[counter][s] = Cardinality(Tally(counter, s))
    BY DEF LoopHolds, CountsMatch, Loop!Copies
  <2> QED BY <1>1, <2>1, <2>2, TallyIsFinite
<1>6. ASSUME NEW n \in DOMAIN log
      PROVE  log[n].end \in Loop!Ends
  <2>1. log[n] \in Entries BY <1>1
  <2> QED BY <2>1 DEF Entries
<1> QED BY <1>1, <1>2, <1>3, <1>4, <1>5, <1>6 DEF Loop!TypeOK

----------------------------------------------------------------------------
(* Deployment: the embedding model is deployed, and cancelled.             *)

status == v1
cancelled == v2
process == v3
installed == v4
asking == v5
work == v6
child == v7
asked == v8
raced == v9
USE DEF status, cancelled, process, installed, asking, work, child, asked, raced

Worker == [step : Deployment!Steps, command : 1 .. Commands]

\* One deployment at a time is at work.
SoleDeployment == \A d, e \in Deploys : Deployment!Alive(d) /\ Deployment!Alive(e) => d = e

\* A request that is not answered has had no worker.
FreshRequests == \A d \in Deploys :
  /\ asking[d] # "answered" => work[d].step = "off"
  /\ d \in asked => work[d].step # "off"

\* A child that lives is waited for, as the one that is registered.
ChildrenKnown == \A d \in Deploys :
  /\ child[d] = "alive" => work[d].step \in {"register", "poll", "wait"}
  /\ work[d].step \in {"poll", "wait"} => process = d

\* A worker that is to be cancelled comes to a check.
CancelSeen == \A d \in asked :
  /\ work[d].step \in {"check", "spawn", "register", "poll"} => cancelled
  /\ work[d].step \notin {"wait", "checked"}

DeploymentWorks ==
  /\ SoleDeployment /\ FreshRequests /\ ChildrenKnown /\ CancelSeen
  /\ Deployment!StatusTrue /\ Deployment!CancelHeard

DeploymentHolds == Deployment!TypeOK /\ (~raced => DeploymentWorks)

DeploymentInv == part = "deployment" => DeploymentHolds

LEMMA DeploymentAssumed == Commands \in Nat \ {0} /\ None \notin Deploys
BY ServicesAssumption DEF Deployment!DeploymentAssumption

LEMMA DeploymentEnds == DeploymentWorks => Deployment!NothingLeftRunning
BY DEF DeploymentWorks, ChildrenKnown, Deployment!NothingLeftRunning

LEMMA WorkMoves ==
  ASSUME work \in [Deploys -> Worker], NEW d \in Deploys, NEW s \in Deployment!Steps,
         work' = [work EXCEPT ![d].step = s]
  PROVE  /\ work' \in [Deploys -> Worker]
         /\ work'[d].step = s /\ work'[d].command = work[d].command
         /\ \A e \in Deploys \ {d} : work'[e] = work[e]
BY DEF Worker

\* Requests that only look, and a cancellation.
LEMMA DeploymentAsks ==
  ASSUME DeploymentHolds,
         Deployment!Cancel \/ \E d \in Deploys : Deployment!Ask(d) \/ Deployment!Look(d)
  PROVE  DeploymentHolds'
<1>1. CASE \E d \in Deploys : Deployment!Ask(d) \/ Deployment!Look(d)
  <2>1. PICK d \in Deploys, next \in {"answered", "look", "ready", "launch"} :
          /\ asking[d] \in {"ask", "look"} /\ asking' = [asking EXCEPT ![d] = next]
          /\ UNCHANGED <<status, cancelled, process, installed, work, child, asked, raced>>
    BY <1>1 DEF Deployment!Ask, Deployment!Look
  <2>2. Deployment!TypeOK' BY <2>1 DEF DeploymentHolds, Deployment!TypeOK
  <2>3. ASSUME ~raced PROVE DeploymentWorks'
    <3>1. asking \in [Deploys -> {"ask", "look", "launch", "ready", "answered"}] /\ DeploymentWorks
      BY <2>1, <2>3 DEF DeploymentHolds, Deployment!TypeOK
    <3>2. FreshRequests' BY <2>1, <3>1 DEF DeploymentWorks, FreshRequests
    <3> QED BY <2>1, <3>1, <3>2 DEF DeploymentWorks, SoleDeployment, ChildrenKnown,
              CancelSeen, Deployment!StatusTrue, Deployment!CancelHeard, Deployment!Alive
  <2> QED BY <2>1, <2>2, <2>3 DEF DeploymentHolds
<1>2. CASE Deployment!Cancel
  <2>1. /\ status = "running" /\ cancelled' = TRUE
        /\ asked' = asked \cup {d \in Deploys :
                      work[d].step \in {"check", "spawn", "register", "poll"}}
        /\ child' = Deployment!Terminated(child, process)
        /\ UNCHANGED <<status, process, installed, asking, work, raced>>
    BY <1>2 DEF Deployment!Cancel
  <2>2. child \in [Deploys -> {"none", "alive", "terminated", "exited"}] /\ asked \subseteq Deploys
    BY DEF DeploymentHolds, Deployment!TypeOK
  <2>3. /\ child' \in [Deploys -> {"none", "alive", "terminated", "exited"}]
        /\ \A d \in Deploys : child'[d] = "alive" => child[d] = "alive"
    BY <2>1, <2>2 DEF Deployment!Terminated
  <2>4. Deployment!TypeOK' BY <2>1, <2>2, <2>3 DEF DeploymentHolds, Deployment!TypeOK
  <2>5. ASSUME ~raced PROVE DeploymentWorks'
    <3>1. DeploymentWorks BY <2>5 DEF DeploymentHolds
    <3>2. SoleDeployment' /\ FreshRequests' /\ ChildrenKnown'
      BY <2>1, <2>3, <3>1
      DEF DeploymentWorks, SoleDeployment, FreshRequests, ChildrenKnown, Deployment!Alive
    <3>3. CancelSeen' /\ Deployment!StatusTrue' /\ Deployment!CancelHeard'
      BY <2>1, <3>1
      DEF DeploymentWorks, CancelSeen, Deployment!StatusTrue, Deployment!CancelHeard,
          Deployment!Alive
    <3> QED BY <3>2, <3>3 DEF DeploymentWorks
  <2> QED BY <2>1, <2>4, <2>5 DEF DeploymentHolds
<1> QED BY <1>1, <1>2

\* A request finds the model there, or none at work on it.
LEMMA DeploymentStarts ==
  ASSUME DeploymentHolds, NEW d \in Deploys, Deployment!Ready(d) \/ Deployment!Launch(d)
  PROVE  DeploymentHolds'
<1>1. /\ asking[d] # "answered" /\ asking' = [asking EXCEPT ![d] = "answered"]
      /\ raced' = (raced \/ \E e \in Deploys : Deployment!Alive(e))
      /\ UNCHANGED <<process, installed, child, asked>>
  BY DEF Deployment!Ready, Deployment!Launch
<1>2. /\ asking \in [Deploys -> {"ask", "look", "launch", "ready", "answered"}]
      /\ work \in [Deploys -> Worker] /\ raced \in BOOLEAN
  BY DEF DeploymentHolds, Deployment!TypeOK, Worker
<1>3. /\ asking'[d] = "answered" /\ \A e \in Deploys \ {d} : asking'[e] = asking[e]
      /\ asking' \in [Deploys -> {"ask", "look", "launch", "ready", "answered"}]
      /\ raced' \in BOOLEAN
  BY <1>1, <1>2
<1>4. ASSUME ~raced' 
      PROVE  /\ DeploymentWorks /\ work[d].step = "off" /\ d \notin asked
             /\ \A e \in Deploys : ~Deployment!Alive(e)
  BY <1>1, <1>4 DEF DeploymentHolds, DeploymentWorks, FreshRequests
<1>5. CASE Deployment!Ready(d)
  <2>1. status' = "completed" /\ UNCHANGED <<cancelled, work>> BY <1>5 DEF Deployment!Ready
  <2>2. Deployment!TypeOK' BY <1>1, <1>3, <2>1 DEF DeploymentHolds, Deployment!TypeOK
  <2>3. ASSUME ~raced' PROVE DeploymentWorks'
    <3>1. SoleDeployment' /\ FreshRequests' /\ ChildrenKnown' /\ CancelSeen'
      BY <1>1, <1>3, <1>4, <2>1, <2>3
      DEF DeploymentWorks, SoleDeployment, FreshRequests, ChildrenKnown, CancelSeen,
          Deployment!Alive
    <3>2. Deployment!StatusTrue' /\ Deployment!CancelHeard'
      BY <1>1, <1>4, <2>1, <2>3
      DEF Deployment!StatusTrue, Deployment!CancelHeard, Deployment!Alive,
          DeploymentHolds, Deployment!TypeOK
    <3> QED BY <3>1, <3>2 DEF DeploymentWorks
  <2> QED BY <2>2, <2>3 DEF DeploymentHolds
<1>6. CASE Deployment!Launch(d)
  <2>1. /\ cancelled' = FALSE /\ status' = "running" /\ work' = [work EXCEPT ![d].step = "check"]
    BY <1>6 DEF Deployment!Launch
  <2>2. /\ work' \in [Deploys -> Worker] /\ work'[d].step = "check"
        /\ \A e \in Deploys \ {d} : work'[e] = work[e]
    BY <1>2, <2>1, WorkMoves DEF Deployment!Steps
  <2>3. Deployment!TypeOK' BY <1>1, <1>3, <2>1, <2>2 DEF DeploymentHolds, Deployment!TypeOK, Worker
  <2>4. ASSUME ~raced' PROVE DeploymentWorks'
    <3>1. SoleDeployment' /\ FreshRequests'
      BY <1>1, <1>3, <1>4, <2>2, <2>4
      DEF DeploymentWorks, SoleDeployment, FreshRequests, Deployment!Alive
    <3>2. ChildrenKnown' /\ CancelSeen'
      BY <1>1, <1>4, <2>2, <2>4
      DEF DeploymentWorks, ChildrenKnown, CancelSeen, Deployment!Alive,
          DeploymentHolds, Deployment!TypeOK
    <3>3. Deployment!StatusTrue' /\ Deployment!CancelHeard'
      BY <2>1, <2>2 DEF Deployment!StatusTrue, Deployment!CancelHeard, Deployment!Alive
    <3> QED BY <3>1, <3>2, <3>3 DEF DeploymentWorks
  <2> QED BY <2>3, <2>4 DEF DeploymentHolds
<1> QED BY <1>5, <1>6

\* What a step of the worker must keep, said of that worker only.
LEMMA WorkerKeeps ==
  ASSUME DeploymentHolds, NEW d \in Deploys, Deployment!Alive(d),
         Deployment!TypeOK', UNCHANGED <<cancelled, asking, asked, raced>>,
         \A e \in Deploys \ {d} : work'[e] = work[e],
         \A e \in Deploys \ {d} : child'[e] = "alive" => child[e] = "alive",
         work'[d].step # "off",
         ~raced => /\ child'[d] = "alive" => work'[d].step \in {"register", "poll", "wait"}
                   /\ work'[d].step \in {"poll", "wait"} => process' = d
                   /\ status' = "running" <=> work'[d].step \notin {"leave", "ended"}
                   /\ d \in asked =>
                        /\ work'[d].step \in {"check", "spawn", "register", "poll"} => cancelled
                        /\ work'[d].step \notin {"wait", "checked"}
                        /\ work'[d].step = "leave" => status' # "completed"
  PROVE  DeploymentHolds'
<1> SUFFICES ASSUME ~raced PROVE DeploymentWorks' BY DEF DeploymentHolds
<1>1. DeploymentWorks BY DEF DeploymentHolds
<1>2. \A e \in Deploys \ {d} : ~Deployment!Alive(e) BY <1>1 DEF DeploymentWorks, SoleDeployment
<1>3. \A e \in Deploys \ {d} : work'[e].step \in {"off", "ended"} BY <1>2 DEF Deployment!Alive
<1>4. asking[d] = "answered" BY <1>1 DEF DeploymentWorks, FreshRequests, Deployment!Alive
<1>5. SoleDeployment' BY <1>3 DEF SoleDeployment, Deployment!Alive
<1>6. FreshRequests' BY <1>1, <1>4 DEF DeploymentWorks, FreshRequests
<1>7. ChildrenKnown'
  <2>1. \A e \in Deploys \ {d} : child'[e] # "alive"
    BY <1>1, <1>2 DEF DeploymentWorks, ChildrenKnown, Deployment!Alive
  <2> QED BY <1>3, <2>1 DEF ChildrenKnown
<1>8. CancelSeen' /\ Deployment!CancelHeard'
  <2>1. asked \subseteq Deploys BY DEF DeploymentHolds, Deployment!TypeOK
  <2> QED BY <1>3, <2>1 DEF CancelSeen, Deployment!CancelHeard
<1>9. Deployment!StatusTrue' BY <1>3 DEF Deployment!StatusTrue, Deployment!Alive
<1> QED BY <1>5, <1>6, <1>7, <1>8, <1>9 DEF DeploymentWorks

\* The status is "running" as long as a worker has not ended.
LEMMA WorkerRuns ==
  ASSUME DeploymentHolds, ~raced, NEW d \in Deploys,
         work[d].step \notin {"off", "ended", "leave"}
  PROVE  status = "running"
BY DEF DeploymentHolds, DeploymentWorks, Deployment!StatusTrue, Deployment!Alive

LEMMA StoppedKeeps ==
  ASSUME DeploymentHolds, NEW d \in Deploys, work[d].step \in {"check", "poll"},
         Deployment!Stopped(d)
  PROVE  DeploymentHolds'
<1>1. /\ cancelled /\ child' = Deployment!Terminated(child, process) /\ status' = "cancelled"
      /\ work' = [work EXCEPT ![d].step = "leave"]
      /\ UNCHANGED <<cancelled, process, installed, asking, asked, raced>>
  BY DEF Deployment!Stopped, Deployment!Finish, Deployment!Goes
<1>2. /\ work \in [Deploys -> Worker] /\ process \in Deploys \cup {None}
      /\ child \in [Deploys -> {"none", "alive", "terminated", "exited"}]
  BY DEF DeploymentHolds, Deployment!TypeOK, Worker
<1>3. /\ work' \in [Deploys -> Worker] /\ work'[d].step = "leave"
      /\ \A e \in Deploys \ {d} : work'[e] = work[e]
  BY <1>1, <1>2, WorkMoves DEF Deployment!Steps
<1>4. /\ child' \in [Deploys -> {"none", "alive", "terminated", "exited"}]
      /\ \A e \in Deploys : child'[e] = "alive" => child[e] = "alive" /\ e # process
  BY <1>1, <1>2, DeploymentAssumed DEF Deployment!Terminated
<1>5. Deployment!TypeOK' BY <1>1, <1>3, <1>4 DEF DeploymentHolds, Deployment!TypeOK, Worker
<1>6. ~raced => child'[d] # "alive"
  BY <1>4 DEF DeploymentHolds, DeploymentWorks, ChildrenKnown
<1>7. Deployment!Alive(d) BY DEF Deployment!Alive
<1> QED BY <1>1, <1>3, <1>4, <1>5, <1>6, <1>7, WorkerKeeps

LEMMA CheckKeeps ==
  ASSUME DeploymentHolds, NEW d \in Deploys, Deployment!Check(d)
  PROVE  DeploymentHolds'
<1>1. CASE Deployment!Stopped(d) BY <1>1, StoppedKeeps DEF Deployment!Check
<1>2. CASE ~Deployment!Stopped(d)
  <2>1. /\ work[d].step = "check" /\ ~cancelled /\ status' = "running"
        /\ work' = [work EXCEPT ![d].step = "spawn"]
        /\ UNCHANGED <<cancelled, process, installed, asking, child, asked, raced>>
    BY <1>2 DEF Deployment!Check, Deployment!Goes
  <2>2. work \in [Deploys -> Worker] BY DEF DeploymentHolds, Deployment!TypeOK, Worker
  <2>3. /\ work' \in [Deploys -> Worker] /\ work'[d].step = "spawn"
        /\ \A e \in Deploys \ {d} : work'[e] = work[e]
    BY <2>1, <2>2, WorkMoves DEF Deployment!Steps
  <2>4. Deployment!TypeOK' BY <2>1, <2>3 DEF DeploymentHolds, Deployment!TypeOK, Worker
  <2>5. ~raced => child[d] # "alive" /\ d \notin asked
    BY <2>1 DEF DeploymentHolds, DeploymentWorks, ChildrenKnown, CancelSeen
  <2>6. Deployment!Alive(d) BY <2>1 DEF Deployment!Alive
  <2> QED BY <2>1, <2>3, <2>4, <2>5, <2>6, WorkerKeeps
<1> QED BY <1>1, <1>2

LEMMA SpawnKeeps ==
  ASSUME DeploymentHolds, NEW d \in Deploys, Deployment!Spawn(d)
  PROVE  DeploymentHolds'
<1>1. /\ work[d].step = "spawn" /\ child' = [child EXCEPT ![d] = "alive"]
      /\ work' = [work EXCEPT ![d].step = "register"]
      /\ UNCHANGED <<status, cancelled, process, installed, asking, asked, raced>>
  BY DEF Deployment!Spawn, Deployment!Goes
<1>2. /\ work \in [Deploys -> Worker]
      /\ child \in [Deploys -> {"none", "alive", "terminated", "exited"}]
  BY DEF DeploymentHolds, Deployment!TypeOK, Worker
<1>3. /\ work' \in [Deploys -> Worker] /\ work'[d].step = "register"
      /\ \A e \in Deploys \ {d} : work'[e] = work[e]
  BY <1>1, <1>2, WorkMoves DEF Deployment!Steps
<1>4. /\ child' \in [Deploys -> {"none", "alive", "terminated", "exited"}]
      /\ \A e \in Deploys \ {d} : child'[e] = child[e]
  BY <1>1, <1>2
<1>5. Deployment!TypeOK' BY <1>1, <1>3, <1>4 DEF DeploymentHolds, Deployment!TypeOK, Worker
<1>6. ~raced => status = "running" /\ (d \in asked => cancelled)
  BY <1>1, WorkerRuns DEF DeploymentHolds, DeploymentWorks, CancelSeen
<1>7. Deployment!Alive(d) BY <1>1 DEF Deployment!Alive
<1> QED BY <1>1, <1>3, <1>4, <1>5, <1>6, <1>7, WorkerKeeps

LEMMA RegisterKeeps ==
  ASSUME DeploymentHolds, NEW d \in Deploys, Deployment!Register(d)
  PROVE  DeploymentHolds'
<1>1. /\ work[d].step = "register" /\ process' = d /\ work' = [work EXCEPT ![d].step = "poll"]
      /\ UNCHANGED <<status, cancelled, installed, asking, child, asked, raced>>
  BY DEF Deployment!Register, Deployment!Goes
<1>2. work \in [Deploys -> Worker] BY DEF DeploymentHolds, Deployment!TypeOK, Worker
<1>3. /\ work' \in [Deploys -> Worker] /\ work'[d].step = "poll"
      /\ \A e \in Deploys \ {d} : work'[e] = work[e]
  BY <1>1, <1>2, WorkMoves DEF Deployment!Steps
<1>4. Deployment!TypeOK' BY <1>1, <1>3 DEF DeploymentHolds, Deployment!TypeOK, Worker
<1>5. ~raced => status = "running" /\ (d \in asked => cancelled)
  BY <1>1, WorkerRuns DEF DeploymentHolds, DeploymentWorks, CancelSeen
<1>6. Deployment!Alive(d) BY <1>1 DEF Deployment!Alive
<1> QED BY <1>1, <1>3, <1>4, <1>5, <1>6, WorkerKeeps

LEMMA PollKeeps ==
  ASSUME DeploymentHolds, NEW d \in Deploys, Deployment!Poll(d)
  PROVE  DeploymentHolds'
<1>1. CASE Deployment!Stopped(d) BY <1>1, StoppedKeeps DEF Deployment!Poll
<1>2. CASE ~Deployment!Stopped(d)
  <2>1. /\ work[d].step = "poll" /\ ~cancelled /\ work' = [work EXCEPT ![d].step = "wait"]
        /\ UNCHANGED <<status, cancelled, process, installed, asking, child, asked, raced>>
    BY <1>2 DEF Deployment!Poll, Deployment!Goes
  <2>2. work \in [Deploys -> Worker] BY DEF DeploymentHolds, Deployment!TypeOK, Worker
  <2>3. /\ work' \in [Deploys -> Worker] /\ work'[d].step = "wait"
        /\ \A e \in Deploys \ {d} : work'[e] = work[e]
    BY <2>1, <2>2, WorkMoves DEF Deployment!Steps
  <2>4. Deployment!TypeOK' BY <2>1, <2>3 DEF DeploymentHolds, Deployment!TypeOK, Worker
  <2>5. ~raced => status = "running" /\ process = d /\ d \notin asked
    BY <2>1, WorkerRuns DEF DeploymentHolds, DeploymentWorks, ChildrenKnown, CancelSeen
  <2>6. Deployment!Alive(d) BY <2>1 DEF Deployment!Alive
  <2> QED BY <2>1, <2>3, <2>4, <2>5, <2>6, WorkerKeeps
<1> QED BY <1>1, <1>2

LEMMA WaitedKeeps ==
  ASSUME DeploymentHolds, NEW d \in Deploys, Deployment!Waited(d)
  PROVE  DeploymentHolds'
<1>1. work[d].step = "wait" /\ UNCHANGED <<cancelled, asking, asked, raced>>
  BY DEF Deployment!Waited
<1>2. /\ work \in [Deploys -> Worker] /\ installed \in BOOLEAN
      /\ child \in [Deploys -> {"none", "alive", "terminated", "exited"}]
  BY DEF DeploymentHolds, Deployment!TypeOK, Worker
<1>3. Deployment!Alive(d) BY <1>1 DEF Deployment!Alive
<1>4. ~raced => status = "running" /\ process = d /\ d \notin asked
  BY <1>1, WorkerRuns DEF DeploymentHolds, DeploymentWorks, ChildrenKnown, CancelSeen
<1>5. CASE /\ child[d] = "alive" /\ work' = [work EXCEPT ![d].step = "poll"]
           /\ UNCHANGED <<status, process, installed, child>>
  <2>1. /\ work' \in [Deploys -> Worker] /\ work'[d].step = "poll"
        /\ \A e \in Deploys \ {d} : work'[e] = work[e]
    BY <1>2, <1>5, WorkMoves DEF Deployment!Steps
  <2>2. Deployment!TypeOK' BY <1>1, <1>5, <2>1 DEF DeploymentHolds, Deployment!TypeOK, Worker
  <2> QED BY <1>1, <1>3, <1>4, <1>5, <2>1, <2>2, WorkerKeeps
<1>6. CASE /\ child' = [child EXCEPT ![d] = "exited"]
           /\ process' = IF process = d THEN None ELSE process
           /\ \/ /\ status' \in {"failed", "completed"} /\ installed' = installed
                 /\ work' = [work EXCEPT ![d].step = "leave"]
              \/ /\ work[d].command < Commands
                 /\ work' = [work EXCEPT ![d] = [step |-> "check", command |-> @.command + 1]]
                 /\ installed' \in {installed, TRUE} /\ UNCHANGED status
  <2>1. /\ child' \in [Deploys -> {"none", "alive", "terminated", "exited"}]
        /\ child'[d] = "exited" /\ \A e \in Deploys \ {d} : child'[e] = child[e]
    BY <1>2, <1>6
  <2>2. CASE status' \in {"failed", "completed"} /\ installed' = installed
             /\ work' = [work EXCEPT ![d].step = "leave"]
    <3>1. /\ work' \in [Deploys -> Worker] /\ work'[d].step = "leave"
          /\ \A e \in Deploys \ {d} : work'[e] = work[e]
      BY <1>2, <2>2, WorkMoves DEF Deployment!Steps
    <3>2. Deployment!TypeOK'
      BY <1>1, <1>6, <2>1, <2>2, <3>1 DEF DeploymentHolds, Deployment!TypeOK, Worker
    <3> QED BY <1>1, <1>3, <1>4, <2>1, <2>2, <3>1, <3>2, WorkerKeeps
  <2>3. CASE /\ work[d].command < Commands
             /\ work' = [work EXCEPT ![d] = [step |-> "check", command |-> @.command + 1]]
             /\ installed' \in {installed, TRUE} /\ UNCHANGED status
    <3>1. PICK w : w = [step |-> "check", command |-> work[d].command + 1] OBVIOUS
    <3>2. work[d].command + 1 \in 1 .. Commands
      BY <1>2, <2>3, DeploymentAssumed DEF Worker
    <3>3. w \in Worker /\ w.step = "check" BY <3>1, <3>2 DEF Worker, Deployment!Steps
    <3>4. work' = [work EXCEPT ![d] = w] BY <2>3, <3>1
    <3>5. /\ work' \in [Deploys -> Worker] /\ work'[d].step = "check"
          /\ \A e \in Deploys \ {d} : work'[e] = work[e]
      BY <1>2, <3>3, <3>4
    <3>6. Deployment!TypeOK'
      BY <1>1, <1>2, <1>6, <2>1, <2>3, <3>5 DEF DeploymentHolds, Deployment!TypeOK, Worker
    <3> QED BY <1>1, <1>3, <1>4, <2>1, <2>3, <3>5, <3>6, WorkerKeeps
  <2> QED BY <1>6, <2>2, <2>3
<1> QED BY <1>5, <1>6 DEF Deployment!Waited, Deployment!Finish, Deployment!Goes

LEMMA LeaveKeeps ==
  ASSUME DeploymentHolds, NEW d \in Deploys, Deployment!Leave(d)
  PROVE  DeploymentHolds'
<1>1. /\ work[d].step = "leave" /\ process' = None /\ work' = [work EXCEPT ![d].step = "ended"]
      /\ UNCHANGED <<status, cancelled, installed, asking, child, asked, raced>>
  BY DEF Deployment!Leave, Deployment!Goes
<1>2. work \in [Deploys -> Worker] BY DEF DeploymentHolds, Deployment!TypeOK, Worker
<1>3. /\ work' \in [Deploys -> Worker] /\ work'[d].step = "ended"
      /\ \A e \in Deploys \ {d} : work'[e] = work[e]
  BY <1>1, <1>2, WorkMoves DEF Deployment!Steps
<1>4. Deployment!TypeOK' BY <1>1, <1>3 DEF DeploymentHolds, Deployment!TypeOK, Worker
<1>5. Deployment!Alive(d) BY <1>1 DEF Deployment!Alive
<1>6. ~raced => child[d] # "alive" /\ status # "running"
  <2> SUFFICES ASSUME ~raced PROVE child[d] # "alive" /\ status # "running" OBVIOUS
  <2>1. \A e \in Deploys : Deployment!Alive(e) => e = d
    BY <1>5 DEF DeploymentHolds, DeploymentWorks, SoleDeployment
  <2> QED BY <1>1, <2>1
      DEF DeploymentHolds, DeploymentWorks, ChildrenKnown, Deployment!StatusTrue
<1> QED BY <1>1, <1>3, <1>4, <1>5, <1>6, WorkerKeeps

LEMMA DeploymentBegins ==
  ASSUME Init
  PROVE  DeploymentInv
<1> SUFFICES ASSUME Deployment!Init PROVE DeploymentHolds BY DEF Init, PartsInit, DeploymentInv
<1>1. 1 \in 1 .. Commands BY DeploymentAssumed
<1>2. Deployment!TypeOK BY <1>1 DEF Deployment!Init, Deployment!TypeOK, Deployment!Steps
<1>3. DeploymentWorks
  BY DEF Deployment!Init, DeploymentWorks, SoleDeployment, FreshRequests, ChildrenKnown,
     CancelSeen, Deployment!StatusTrue, Deployment!CancelHeard, Deployment!Alive
<1> QED BY <1>2, <1>3 DEF DeploymentHolds

LEMMA DeploymentSteps ==
  ASSUME DeploymentInv, [Next]_<<part, input, partVars>>
  PROVE  DeploymentInv'
<1>1. CASE part = "deployment"
  <2>1. part' = part /\ (Deployment!Next \/ UNCHANGED partVars)
    BY <1>1 DEF Next, PartsNext, Ask, partVars
  <2>2. DeploymentHolds BY <1>1 DEF DeploymentInv
  <2>3. CASE Deployment!Next
    <3>1. DeploymentHolds'
      BY <2>2, <2>3, DeploymentAsks, DeploymentStarts, CheckKeeps, SpawnKeeps, RegisterKeeps,
         PollKeeps, WaitedKeeps, LeaveKeeps
      DEF Deployment!Next
    <3> QED BY <3>1 DEF DeploymentInv
  <2>4. CASE UNCHANGED partVars
    <3>1. DeploymentHolds'
      BY <2>2, <2>4
      DEF partVars, DeploymentHolds, Deployment!TypeOK, DeploymentWorks, SoleDeployment,
          FreshRequests, ChildrenKnown, CancelSeen, Deployment!StatusTrue,
          Deployment!CancelHeard, Deployment!Alive
    <3> QED BY <3>1 DEF DeploymentInv
  <2> QED BY <2>1, <2>3, <2>4
<1>2. CASE part # "deployment"
  <2>1. part' = part BY DEF Next, PartsNext, Ask
  <2> QED BY <1>2, <2>1 DEF DeploymentInv
<1> QED BY <1>1, <1>2

\* For any requests and commands: but for a deployment that began at the side of
\* another, the status says whether one is at work, none leaves a process behind,
\* and what was cancelled in time is not reported completed (deploy, cancel, _run).
THEOREM DeploymentIsTold == Spec => [](part = "deployment" => Deployment!DeploymentTold)
<1>1. Init => DeploymentInv BY DeploymentBegins
<1>2. DeploymentInv /\ [Next]_<<part, input, partVars>> => DeploymentInv' BY DeploymentSteps
<1>3. DeploymentInv => (part = "deployment" => Deployment!DeploymentTold)
  BY DeploymentEnds DEF DeploymentInv, DeploymentHolds, DeploymentWorks, Deployment!DeploymentTold
<1> QED BY <1>1, <1>2, <1>3, PTL DEF Spec

----------------------------------------------------------------------------
(* Review: a session's messages are reviewed by the side of one another.   *)

latest == v1
gone == v2
job == v3
reviewing == v4
cooling == v5
reviewed == v6
left == v7
alone == v8
USE DEF latest, gone, job, reviewing, cooling, reviewed, left, alone

Reasons == {None, "missing_api_key", "cooldown", "below_threshold", "no_new_messages",
            "no_messages"}

JobRows == [trigger : {"manual", "auto"}, reason : Reasons,
  status : {"running", "completed", "skipped", "failed", "deleted"},
  asof : 0 .. MaxReviewed, start : Nat, end : Nat, saved : Nat, suppressed : Nat]

Reviewings == [job : Nat \ {0}, reason : Reasons,
  step : {"gate", "count", "latest", "load", "ask", "save", "finish"},
  status : {None, "completed", "skipped", "failed"},
  asof : 0 .. MaxReviewed, start : Nat, end : Nat, todo : Nat, saved : Nat, suppressed : Nat]

\* What a review has read, by how far it is.
HasRead(x) ==
  /\ x.step \in {"gate", "count", "latest", "load"} => x.end = 0 /\ x.saved = 0
  /\ x.step \in {"ask", "save"} => 0 < x.start /\ x.start <= x.end
  /\ x.step = "finish" =>
       /\ x.status \in {"completed", "skipped", "failed"}
       /\ x.status = "skipped" => x.end = 0 /\ x.saved = 0
       /\ x.status \in {"completed", "failed"} => 0 < x.start /\ x.start <= x.end

AtWork(r) == reviewing[r].step # "idle"
AutoAtWork(r) == AtWork(r) /\ job[reviewing[r].job].trigger = "auto"

ReviewTyped ==
  /\ latest \in 0 .. MaxReviewed /\ gone \in 0 .. latest
  /\ job \in Seq(JobRows) /\ Len(job) <= MaxJobs
  /\ reviewing \in [Threads -> Reviewings \cup {[step |-> "idle"]}]
  /\ \A r \in Threads : AtWork(r) => reviewing[r].job \in 1 .. Len(job) /\ HasRead(reviewing[r])
  /\ cooling \in BOOLEAN /\ reviewed \in 0 .. MaxReviewed
  /\ left \subseteq 1 .. Len(job) /\ alone \subseteq 1 .. Len(job)

\* Every review has a row of its own, which waits for it.
JobsApart == \A r \in Threads : AtWork(r) =>
  /\ job[reviewing[r].job].status \in {"running", "deleted"}
  /\ \A s \in Threads : AtWork(s) /\ reviewing[s].job = reviewing[r].job => s = r

\* No automatic review works at the side of one that is alone, nor began before it.
AloneIsAlone == \A i \in alone :
  /\ job[i].trigger = "auto"
  /\ \A s \in Threads : AutoAtWork(s) =>
       /\ i <= reviewing[s].job
       /\ \A r \in Threads : AtWork(r) /\ reviewing[r].job = i => s = r

\* The review knows as of which message it is made.
HasAsof(x) == x.step \in {"load", "ask", "save"} \/ (x.step = "finish" /\ x.status = "completed")

\* The last message of the reviews goes up with those that are alone.
AsofGrows ==
  /\ \A i \in alone : job[i].status = "completed" =>
       /\ job[i].asof <= reviewed
       /\ \A s \in Threads : AutoAtWork(s) /\ HasAsof(reviewing[s]) /\ reviewing[s].job > i =>
            job[i].asof < reviewing[s].asof
  /\ \A r \in Threads :
       /\ AtWork(r) /\ reviewing[r].job \in alone
       /\ reviewing[r].step = "finish" /\ reviewing[r].status = "completed"
       => reviewing[r].asof <= reviewed

ReviewHolds ==
  /\ ReviewTyped /\ JobsApart /\ AloneIsAlone /\ AsofGrows
  /\ Review!RunningIsAtWork /\ Review!RowsAreWhole /\ Review!NothingReviewedTwice

ReviewInv == part = "review" => ReviewHolds

LEMMA ReviewAssumed ==
  /\ Threshold \in Nat \ {0} /\ ReviewMax \in Nat \ {0} /\ MaxProposed \in Nat \ {0}
  /\ MaxReviewed \in Nat /\ MaxJobs \in Nat
BY ServicesAssumption DEF Review!ReviewAssumption

LEMMA SameLength == Review!Len(job) = Len(job)
BY DEF Review!Len, Len

\* A review goes on, in the row it has.
LEMMA ReviewGoesOn ==
  ASSUME ReviewHolds, NEW r \in Threads, AtWork(r), NEW y \in Reviewings,
         reviewing' = [reviewing EXCEPT ![r] = y], y.job = reviewing[r].job, HasRead(y),
         UNCHANGED <<latest, gone, job, left, alone>>, cooling' \in BOOLEAN,
         AutoAtWork(r) /\ HasAsof(y) =>
           y.asof > reviewed \/ (HasAsof(reviewing[r]) /\ y.asof = reviewing[r].asof),
         \/ /\ reviewed' = reviewed
            /\ ~AutoAtWork(r) \/ y.step # "finish" \/ y.status # "completed"
         \/ AutoAtWork(r) /\ HasAsof(reviewing[r]) /\ reviewed' = reviewing[r].asof /\ y.asof = reviewed'
  PROVE  ReviewHolds'
<1>1. ReviewTyped /\ JobsApart /\ AloneIsAlone /\ AsofGrows BY DEF ReviewHolds
<1>2. /\ reviewing \in [Threads -> Reviewings \cup {[step |-> "idle"]}]
      /\ \A s \in Threads : AtWork(s) => reviewing[s].job \in 1 .. Len(job)
      /\ reviewed \in 0 .. MaxReviewed
  BY <1>1 DEF ReviewTyped
<1>3. /\ reviewing' \in [Threads -> Reviewings \cup {[step |-> "idle"]}]
      /\ reviewing'[r] = y /\ \A s \in Threads \ {r} : reviewing'[s] = reviewing[s]
  BY <1>2
<1>4. y.step # "idle" BY DEF Reviewings
<1>5. /\ \A s \in Threads : AtWork(s)' <=> AtWork(s)
      /\ \A s \in Threads : AtWork(s) => reviewing'[s].job = reviewing[s].job
      /\ \A s \in Threads : AutoAtWork(s)' <=> AutoAtWork(s)
  BY <1>3, <1>4 DEF AtWork, AutoAtWork
<1>6. reviewed' \in 0 .. MaxReviewed BY <1>2, <1>3 DEF AtWork, Reviewings
<1>7. ReviewTyped'
  <2>1. \A s \in Threads : AtWork(s)' => reviewing'[s].job \in 1 .. Len(job)
    BY <1>2, <1>5
  <2>2. \A s \in Threads : AtWork(s)' => HasRead(reviewing'[s])
    BY <1>1, <1>3, <1>5 DEF ReviewTyped
  <2>3. \A s \in Threads : HasRead(reviewing[s])' <=> HasRead(reviewing'[s]) BY DEF HasRead
  <2> QED BY <1>1, <1>3, <1>6, <2>1, <2>2, <2>3 DEF ReviewTyped
<1>8. JobsApart' BY <1>1, <1>5 DEF JobsApart
<1>9. AloneIsAlone' BY <1>1, <1>5 DEF AloneIsAlone
<1>10. AsofGrows'
  <2>1. \A i \in alone : job[i].status = "completed" => i # reviewing[r].job
    BY <1>1 DEF JobsApart
  <2>2. ASSUME NEW i \in alone
        PROVE  job[i].asof \in Nat /\ i \in Nat
    <3>1. job[i] \in JobRows /\ i \in Nat BY <1>1 DEF ReviewTyped
    <3> QED BY <3>1 DEF JobRows
  <2>3. reviewing[r].job \in Nat BY <1>2
  <2>4. AutoAtWork(r) => \A i \in alone : job[i].status = "completed" => reviewing[r].job > i
    BY <1>1, <2>1, <2>2, <2>3 DEF AloneIsAlone
  <2>5. AutoAtWork(r) /\ HasAsof(y) =>
          \A i \in alone : job[i].status = "completed" => job[i].asof < y.asof
    BY <1>1, <1>2, <2>2, <2>4 DEF AsofGrows, Reviewings
  <2>6. \A i \in alone : job[i].status = "completed" => job[i].asof <= reviewed'
    <3>1. AutoAtWork(r) /\ HasAsof(reviewing[r]) =>
            \A i \in alone : job[i].status = "completed" => job[i].asof < reviewing[r].asof
      BY <1>1, <2>4 DEF AsofGrows
    <3>2. reviewing[r] \in Reviewings BY <1>2 DEF AtWork
    <3>3. reviewing[r].asof \in Nat BY <3>2 DEF Reviewings
    <3> QED BY <1>1, <1>2, <2>2, <3>1, <3>3 DEF AsofGrows
  <2>7. ASSUME NEW s \in Threads, AutoAtWork(s), HasAsof(reviewing'[s]),
               NEW i \in alone, job[i].status = "completed", reviewing[s].job > i
        PROVE  job[i].asof < reviewing'[s].asof
    BY <1>1, <1>3, <2>5, <2>7 DEF AsofGrows
  <2>8. ASSUME NEW s \in Threads, AtWork(s), reviewing[s].job \in alone,
               reviewing'[s].step = "finish", reviewing'[s].status = "completed"
        PROVE  reviewing'[s].asof <= reviewed'
    <3>1. AutoAtWork(s) BY <1>1, <2>8 DEF AloneIsAlone, AutoAtWork
    <3>2. CASE s = r BY <1>2, <1>3, <1>6, <2>8, <3>1, <3>2
    <3>3. CASE s # r
      <4>1. ~AutoAtWork(r) BY <1>1, <2>8, <3>3 DEF AloneIsAlone
      <4> QED BY <1>1, <1>3, <2>8, <3>3, <4>1 DEF AsofGrows
    <3> QED BY <3>2, <3>3
  <2>9. \A s \in Threads : HasAsof(reviewing[s])' <=> HasAsof(reviewing'[s]) BY DEF HasAsof
  <2> QED BY <1>5, <2>6, <2>7, <2>8, <2>9 DEF AsofGrows
<1>11. Review!RunningIsAtWork'
  <2>1. \A s \in Threads : s \in Review!Working => s \in Review!Working'
    BY <1>5 DEF Review!Working, AtWork
  <2>2. \A s \in Review!Working : reviewing'[s].job = reviewing[s].job
    BY <1>5 DEF Review!Working, AtWork
  <2> QED BY <2>1, <2>2 DEF ReviewHolds, Review!RunningIsAtWork, Review!Working
<1>12. Review!RowsAreWhole' /\ Review!NothingReviewedTwice'
  BY DEF ReviewHolds, Review!RowsAreWhole, Review!NothingReviewedTwice
<1> QED BY <1>7, <1>8, <1>9, <1>10, <1>11, <1>12 DEF ReviewHolds

LEMMA ReviewIsTyped ==
  ASSUME ReviewHolds, NEW r \in Threads, reviewing[r].step # "idle"
  PROVE  /\ AtWork(r) /\ reviewing[r] \in Reviewings /\ HasRead(reviewing[r])
         /\ reviewing \in [Threads -> Reviewings \cup {[step |-> "idle"]}]
         /\ reviewing[r].job \in 1 .. Len(job)
         /\ latest \in 0 .. MaxReviewed /\ gone \in 0 .. latest
         /\ cooling \in BOOLEAN /\ reviewed \in 0 .. MaxReviewed
BY DEF ReviewHolds, ReviewTyped, AtWork

LEMMA AutoIsAuto ==
  ASSUME NEW r \in Threads, AtWork(r)
  PROVE  Review!Auto(r) <=> AutoAtWork(r)
BY DEF Review!Auto, AutoAtWork

\* A review is over: its row is still to be written.
LEMMA OverGoesOn ==
  ASSUME ReviewHolds, NEW r \in Threads, reviewing[r].step \notin {"idle", "finish"},
         NEW s \in {"completed", "skipped", "failed"}, NEW why \in Reasons,
         Review!Over(r, s, why),
         s = "skipped" => reviewing[r].step \in {"gate", "count", "latest", "load"},
         s # "skipped" => reviewing[r].step \in {"ask", "save"},
         UNCHANGED <<latest, gone, job, left, alone>>, cooling' \in BOOLEAN,
         reviewed' = IF s = "completed" /\ AutoAtWork(r) THEN reviewing[r].asof ELSE reviewed
  PROVE  ReviewHolds'
<1>1. AtWork(r) /\ reviewing[r] \in Reviewings /\ HasRead(reviewing[r])
  BY ReviewIsTyped
<1>2. PICK x \in Reviewings : x = reviewing[r] BY <1>1
<1>3. PICK y : y = [x EXCEPT !.step = "finish", !.status = s, !.reason = why] OBVIOUS
<1>4. /\ y \in Reviewings /\ y.step = "finish" /\ y.status = s /\ y.job = x.job
      /\ y.asof = x.asof /\ y.start = x.start /\ y.end = x.end /\ y.saved = x.saved
  BY <1>2, <1>3 DEF Reviewings
<1>5. reviewing' = [reviewing EXCEPT ![r] = y]
  BY <1>2, <1>3, ReviewIsTyped DEF Review!Over
<1>6. HasRead(y) BY <1>1, <1>2, <1>4 DEF HasRead
<1>7. /\ HasAsof(y) => s = "completed"
      /\ s = "completed" => HasAsof(x) 
  BY <1>2, <1>4 DEF HasAsof
<1> QED BY <1>1, <1>2, <1>4, <1>5, <1>6, <1>7, ReviewGoesOn


LEMMA GateKeeps ==
  ASSUME ReviewHolds, NEW r \in Threads, Review!Gate(r)
  PROVE  ReviewHolds'
<1>1. /\ reviewing[r].step = "gate"
      /\ UNCHANGED <<latest, gone, job, cooling, reviewed, left, alone>>
  BY DEF Review!Gate, Review!Work, Review!Memory
<1>2. AtWork(r) /\ reviewing[r] \in Reviewings /\ HasRead(reviewing[r]) /\ cooling \in BOOLEAN
      /\ reviewing \in [Threads -> Reviewings \cup {[step |-> "idle"]}]
  BY <1>1, ReviewIsTyped
<1>3. CASE \E why \in {"missing_api_key", "cooldown"} : Review!Over(r, "skipped", why)
  BY <1>1, <1>2, <1>3, OverGoesOn DEF Reasons
<1>4. CASE reviewing' = [reviewing EXCEPT ![r].step = "count"]
  <2>1. PICK x \in Reviewings : x = reviewing[r] BY <1>2
  <2>2. PICK y : y = [x EXCEPT !.step = "count"] OBVIOUS
  <2>3. y \in Reviewings /\ y.step = "count" /\ y.job = x.job /\ y.end = x.end /\ y.saved = x.saved
    BY <2>1, <2>2 DEF Reviewings
  <2>4. reviewing' = [reviewing EXCEPT ![r] = y] BY <1>4, <2>1, <2>2
  <2>5. HasRead(y) /\ ~HasAsof(y) BY <1>1, <1>2, <2>1, <2>3 DEF HasRead, HasAsof
  <2> QED BY <1>1, <1>2, <2>1, <2>3, <2>4, <2>5, ReviewGoesOn
<1> QED BY <1>3, <1>4 DEF Review!Gate, Review!Goes

LEMMA CountKeeps ==
  ASSUME ReviewHolds, NEW r \in Threads, Review!Count(r)
  PROVE  ReviewHolds'
<1>1. /\ reviewing[r].step = "count"
      /\ UNCHANGED <<latest, gone, job, cooling, reviewed, left, alone>>
  BY DEF Review!Count, Review!Work, Review!Memory
<1>2. AtWork(r) /\ reviewing[r] \in Reviewings /\ HasRead(reviewing[r]) /\ cooling \in BOOLEAN
      /\ reviewing \in [Threads -> Reviewings \cup {[step |-> "idle"]}]
  BY <1>1, ReviewIsTyped
<1>3. CASE Review!Over(r, "skipped", "below_threshold")
  BY <1>1, <1>2, <1>3, OverGoesOn DEF Reasons
<1>4. CASE reviewing' = [reviewing EXCEPT ![r].step = "latest"]
  <2>1. PICK x \in Reviewings : x = reviewing[r] BY <1>2
  <2>2. PICK y : y = [x EXCEPT !.step = "latest"] OBVIOUS
  <2>3. y \in Reviewings /\ y.step = "latest" /\ y.job = x.job /\ y.end = x.end /\ y.saved = x.saved
    BY <2>1, <2>2 DEF Reviewings
  <2>4. reviewing' = [reviewing EXCEPT ![r] = y] BY <1>4, <2>1, <2>2
  <2>5. HasRead(y) /\ ~HasAsof(y) BY <1>1, <1>2, <2>1, <2>3 DEF HasRead, HasAsof
  <2> QED BY <1>1, <1>2, <2>1, <2>3, <2>4, <2>5, ReviewGoesOn
<1> QED BY <1>3, <1>4 DEF Review!Count, Review!Goes

\* An automatic review is made as of a later message than the one before.
LEMMA LatestKeeps ==
  ASSUME ReviewHolds, NEW r \in Threads, Review!Latest(r)
  PROVE  ReviewHolds'
<1>1. /\ reviewing[r].step = "latest"
      /\ UNCHANGED <<latest, gone, job, cooling, reviewed, left, alone>>
  BY DEF Review!Latest, Review!Work, Review!Memory
<1>2. AtWork(r) /\ reviewing[r] \in Reviewings /\ HasRead(reviewing[r]) /\ cooling \in BOOLEAN
      /\ reviewing \in [Threads -> Reviewings \cup {[step |-> "idle"]}]
      /\ latest \in 0 .. MaxReviewed /\ reviewed \in 0 .. MaxReviewed
  BY <1>1, ReviewIsTyped
<1>3. CASE Review!Over(r, "skipped", "no_new_messages")
  BY <1>1, <1>2, <1>3, OverGoesOn DEF Reasons
<1>4. CASE /\ AutoAtWork(r) => ~(Review!LatestId <= reviewed)
           /\ reviewing' = [reviewing EXCEPT ![r].step = "load", ![r].asof = Review!LatestId]
  <2>1. PICK x \in Reviewings : x = reviewing[r] BY <1>2
  <2>2. PICK as : as = Review!LatestId OBVIOUS
  <2>3. as \in 0 .. MaxReviewed /\ (AutoAtWork(r) => as > reviewed)
    BY <1>2, <1>4, <2>2, ReviewAssumed DEF Review!LatestId
  <2>4. PICK y : y = [x EXCEPT !.step = "load", !.asof = as] OBVIOUS
  <2>5. /\ y \in Reviewings /\ y.step = "load" /\ y.asof = as /\ y.job = x.job
        /\ y.end = x.end /\ y.saved = x.saved
    BY <2>1, <2>3, <2>4 DEF Reviewings
  <2>6. reviewing' = [reviewing EXCEPT ![r] = y] BY <1>2, <1>4, <2>1, <2>2, <2>4
  <2>7. HasRead(y) BY <1>1, <1>2, <2>1, <2>5 DEF HasRead
  <2> QED BY <1>1, <1>2, <2>1, <2>3, <2>5, <2>6, <2>7, ReviewGoesOn
<1> QED BY <1>2, <1>3, <1>4, AutoIsAuto DEF Review!Latest

LEMMA LoadKeeps ==
  ASSUME ReviewHolds, NEW r \in Threads, Review!Load(r)
  PROVE  ReviewHolds'
<1>1. /\ reviewing[r].step = "load"
      /\ UNCHANGED <<latest, gone, job, cooling, reviewed, left, alone>>
  BY DEF Review!Load, Review!Work, Review!Memory
<1>2. AtWork(r) /\ reviewing[r] \in Reviewings /\ HasRead(reviewing[r]) /\ cooling \in BOOLEAN
      /\ reviewing \in [Threads -> Reviewings \cup {[step |-> "idle"]}]
      /\ latest \in 0 .. MaxReviewed /\ gone \in 0 .. latest
  BY <1>1, ReviewIsTyped
<1>3. CASE Review!Over(r, "skipped", "no_messages")
  BY <1>1, <1>2, <1>3, OverGoesOn DEF Reasons
<1>4. CASE /\ latest # gone
           /\ reviewing' = [reviewing EXCEPT ![r].step = "ask", ![r].start = gone + 1,
                                             ![r].end = Review!LastLoaded]
  <2>1. PICK x \in Reviewings : x = reviewing[r] BY <1>2
  <2>2. PICK first, last : first = gone + 1 /\ last = Review!LastLoaded OBVIOUS
  <2>3. first \in Nat /\ last \in Nat /\ 0 < first /\ first <= last
    BY <1>2, <1>4, <2>2, ReviewAssumed DEF Review!LastLoaded
  <2>4. PICK y : y = [x EXCEPT !.step = "ask", !.start = first, !.end = last] OBVIOUS
  <2>5. /\ y \in Reviewings /\ y.step = "ask" /\ y.start = first /\ y.end = last
        /\ y.job = x.job /\ y.asof = x.asof
    BY <2>1, <2>3, <2>4 DEF Reviewings
  <2>6. reviewing' = [reviewing EXCEPT ![r] = y] BY <1>2, <1>4, <2>1, <2>2, <2>4
  <2>7. HasRead(y) /\ HasAsof(x) BY <1>1, <2>1, <2>3, <2>5 DEF HasRead, HasAsof
  <2> QED BY <1>1, <1>2, <2>1, <2>5, <2>6, <2>7, ReviewGoesOn
<1> QED BY <1>3, <1>4 DEF Review!Load

LEMMA SaveKeeps ==
  ASSUME ReviewHolds, NEW r \in Threads, Review!Save(r)
  PROVE  ReviewHolds'
<1>1. /\ reviewing[r].step = "save" /\ reviewing[r].todo > 0
      /\ UNCHANGED <<latest, gone, job, cooling, reviewed, left, alone>>
  BY DEF Review!Save, Review!Work, Review!Memory
<1>2. AtWork(r) /\ reviewing[r] \in Reviewings /\ HasRead(reviewing[r]) /\ cooling \in BOOLEAN
      /\ reviewing \in [Threads -> Reviewings \cup {[step |-> "idle"]}]
  BY <1>1, ReviewIsTyped
<1>3. PICK x \in Reviewings : x = reviewing[r] BY <1>2
<1>4. PICK m \in {0, 1}, n \in {0, 1} :
        reviewing' = [reviewing EXCEPT ![r].todo = @ - 1, ![r].saved = @ + m,
                                       ![r].suppressed = @ + n]
  BY DEF Review!Save
<1>5. PICK y : y = [x EXCEPT !.todo = x.todo - 1, !.saved = x.saved + m,
                             !.suppressed = x.suppressed + n]
  OBVIOUS
<1>6. x.todo - 1 \in Nat /\ x.saved + m \in Nat /\ x.suppressed + n \in Nat
  BY <1>1, <1>3 DEF Reviewings
<1>7. /\ y \in Reviewings /\ y.step = "save" /\ y.start = x.start /\ y.end = x.end
      /\ y.job = x.job /\ y.asof = x.asof
  BY <1>1, <1>3, <1>5, <1>6 DEF Reviewings
<1>8. reviewing' = [reviewing EXCEPT ![r] = y] BY <1>2, <1>3, <1>4, <1>5
<1>9. HasRead(y) /\ HasAsof(x) BY <1>1, <1>2, <1>3, <1>7 DEF HasRead, HasAsof
<1> QED BY <1>1, <1>2, <1>3, <1>7, <1>8, <1>9, ReviewGoesOn

LEMMA SettleKeeps ==
  ASSUME ReviewHolds, NEW r \in Threads, Review!Settle(r)
  PROVE  ReviewHolds'
<1>1. /\ reviewing[r].step = "save" /\ Review!Over(r, "completed", None)
      /\ cooling' = (cooling \/ Review!Auto(r))
      /\ reviewed' = IF Review!Auto(r) THEN reviewing[r].asof ELSE reviewed
      /\ UNCHANGED <<latest, gone, job, left, alone>>
  BY DEF Review!Settle, Review!Work
<1>2. AtWork(r) /\ cooling \in BOOLEAN BY <1>1, ReviewIsTyped
<1>3. cooling' \in BOOLEAN BY <1>1, <1>2
<1> QED BY <1>1, <1>2, <1>3, AutoIsAuto, OverGoesOn DEF Reasons

RowIsWhole(x) ==
  /\ x.status = "skipped" => x.end = 0 /\ x.saved = 0
  /\ x.status \in {"completed", "failed"} => 0 < x.start /\ x.start <= x.end

\* A review is over, with its row written (y) or left as it is.
LEMMA ReviewEnds ==
  ASSUME ReviewHolds, NEW r \in Threads, AtWork(r), NEW j, j = reviewing[r].job, NEW y \in JobRows,
         reviewing' = [reviewing EXCEPT ![r] = [step |-> "idle"]],
         job' = [job EXCEPT ![j] = y], y.trigger = job[j].trigger, RowIsWhole(y),
         UNCHANGED <<latest, gone, alone, reviewed>>, cooling' \in BOOLEAN,
         \/ y = job[j] /\ left' = left \cup {j}
         \/ /\ y.status # "running" /\ left' = left
            /\ y.status = "completed" =>
                 /\ y.asof = reviewing[r].asof /\ reviewing[r].step = "finish"
                 /\ reviewing[r].status = "completed"
  PROVE  ReviewHolds'
<1>1. ReviewTyped /\ JobsApart /\ AloneIsAlone /\ AsofGrows BY DEF ReviewHolds
<1>2. /\ reviewing \in [Threads -> Reviewings \cup {[step |-> "idle"]}] /\ job \in Seq(JobRows)
      /\ \A s \in Threads : AtWork(s) => reviewing[s].job \in 1 .. Len(job)
      /\ reviewed \in 0 .. MaxReviewed /\ Len(job) \in Nat /\ j \in 1 .. Len(job)
      /\ alone \subseteq 1 .. Len(job)
  BY <1>1 DEF ReviewTyped
<1>3. /\ reviewing' \in [Threads -> Reviewings \cup {[step |-> "idle"]}]
      /\ reviewing'[r].step = "idle" /\ \A s \in Threads \ {r} : reviewing'[s] = reviewing[s]
  BY <1>2
<1>4. /\ job' \in Seq(JobRows) /\ Len(job') = Len(job) /\ job'[j] = y
      /\ \A i \in 1 .. Len(job) : i # j => job'[i] = job[i]
  BY <1>2
<1>5. \A i \in 1 .. Len(job) : job'[i].trigger = job[i].trigger BY <1>4
<1>6. \A s \in Threads : AtWork(s)' => s # r /\ AtWork(s) /\ reviewing'[s] = reviewing[s]
  BY <1>3 DEF AtWork
<1>7. \A s \in Threads : AtWork(s)' => reviewing[s].job # j
  BY <1>1, <1>6 DEF JobsApart
<1>8. \A s \in Threads : AutoAtWork(s)' => AutoAtWork(s) /\ AtWork(s)'
  BY <1>2, <1>5, <1>6 DEF AutoAtWork
<1>9. ReviewTyped'
  <2>1. \A s \in Threads : AtWork(s)' => reviewing'[s].job \in 1 .. Len(job)
    BY <1>2, <1>6
  <2>2. \A s \in Threads : AtWork(s)' => HasRead(reviewing'[s])
    BY <1>1, <1>6 DEF ReviewTyped
  <2>3. \A s \in Threads : HasRead(reviewing[s])' <=> HasRead(reviewing'[s]) BY DEF HasRead
  <2>4. left' \subseteq 1 .. Len(job) BY <1>1, <1>2 DEF ReviewTyped
  <2> QED BY <1>1, <1>3, <1>4, <2>1, <2>2, <2>3, <2>4 DEF ReviewTyped
<1>10. JobsApart'
  <2>1. \A s \in Threads : AtWork(s)' => job'[reviewing[s].job] = job[reviewing[s].job]
    BY <1>2, <1>4, <1>6, <1>7
  <2> QED BY <1>1, <1>6, <2>1 DEF JobsApart
<1>11. AloneIsAlone'
  <2> SUFFICES ASSUME NEW i \in alone
               PROVE  /\ job'[i].trigger = "auto"
                      /\ \A s \in Threads : AutoAtWork(s)' =>
                           /\ i <= reviewing'[s].job
                           /\ \A t \in Threads : AtWork(t)' /\ reviewing'[t].job = i => s = t
    BY DEF AloneIsAlone
  <2> QED BY <1>1, <1>2, <1>5, <1>6, <1>8 DEF AloneIsAlone
<1>12. AsofGrows'
  <2>1. ASSUME NEW i \in alone, job'[i].status = "completed"
        PROVE  /\ job'[i].asof <= reviewed
               /\ \A s \in Threads :
                    AutoAtWork(s)' /\ HasAsof(reviewing'[s]) /\ reviewing'[s].job > i =>
                      job'[i].asof < reviewing'[s].asof
    <3>1. CASE job'[i] = job[i]
      BY <1>1, <1>6, <1>8, <2>1, <3>1 DEF AsofGrows
    <3>2. CASE i = j /\ y # job[j]
      <4>1. /\ y.asof = reviewing[r].asof /\ reviewing[r].step = "finish"
            /\ reviewing[r].status = "completed"
        BY <1>4, <2>1, <3>2
      <4>2. y.asof <= reviewed BY <1>1, <3>2, <4>1 DEF AsofGrows
      <4>3. \A s \in Threads : ~AutoAtWork(s)'
        BY <1>1, <1>6, <1>8, <3>2 DEF AloneIsAlone
      <4> QED BY <1>4, <3>2, <4>2, <4>3
    <3> QED BY <1>2, <1>4, <3>1, <3>2
  <2>2. \A s \in Threads : HasAsof(reviewing[s])' <=> HasAsof(reviewing'[s]) BY DEF HasAsof
  <2>3. \A s \in Threads :
          /\ AtWork(s)' /\ reviewing'[s].job \in alone
          /\ reviewing'[s].step = "finish" /\ reviewing'[s].status = "completed"
          => reviewing'[s].asof <= reviewed
    BY <1>1, <1>6 DEF AsofGrows
  <2> QED BY <2>1, <2>2, <2>3 DEF AsofGrows
<1>13. Review!RunningIsAtWork'
  <2> SUFFICES ASSUME NEW i \in 1 .. Len(job), job'[i].status = "running"
               PROVE  i \in left' \/ \E s \in Review!Working' : reviewing'[s].job = i
    BY <1>4 DEF Review!RunningIsAtWork
  <2>1. CASE i = j BY <1>4, <2>1
  <2>2. CASE i # j
    <3>1. i \in left \/ \E s \in Review!Working : reviewing[s].job = i
      BY <1>4, <2>2 DEF ReviewHolds, Review!RunningIsAtWork
    <3>2. ASSUME NEW s \in Review!Working, reviewing[s].job = i
          PROVE  s \in Review!Working' /\ reviewing'[s].job = i
      BY <1>3, <2>2, <3>2 DEF Review!Working
    <3> QED BY <3>1, <3>2
  <2> QED BY <2>1, <2>2
<1>14. Review!RowsAreWhole'
  <2> SUFFICES ASSUME NEW i \in 1 .. Len(job) PROVE RowIsWhole(job'[i])
    BY <1>4 DEF Review!RowsAreWhole, RowIsWhole
  <2>1. RowIsWhole(job[i]) BY <1>2 DEF ReviewHolds, Review!RowsAreWhole, RowIsWhole
  <2> QED BY <1>4, <2>1
<1>15. Review!NothingReviewedTwice'
  <2> SUFFICES ASSUME NEW i \in alone, NEW k \in alone, i < k, job'[i].status = "completed",
                      job'[k].status = "completed"
               PROVE  job'[i].asof < job'[k].asof
    BY DEF Review!NothingReviewedTwice
  <2>1. CASE job'[i] = job[i] /\ job'[k] = job[k]
    BY <2>1 DEF ReviewHolds, Review!NothingReviewedTwice
  <2>2. CASE k = j /\ y # job[j]
    <3>1. AutoAtWork(r) BY <1>1, <2>2 DEF AloneIsAlone, AutoAtWork
    <3>2. /\ y.asof = reviewing[r].asof /\ reviewing[r].step = "finish"
          /\ reviewing[r].status = "completed"
      BY <1>4, <2>2
    <3>3. HasAsof(reviewing[r]) BY <3>2 DEF HasAsof
    <3>4. i # j /\ i \in 1 .. Len(job) /\ j > i BY <1>2, <2>2
    <3>5. job'[i] = job[i] BY <1>4, <3>4
    <3> QED BY <1>1, <1>4, <2>2, <3>1, <3>2, <3>3, <3>4, <3>5 DEF AsofGrows
  <2>3. CASE i = j /\ y # job[j]
    <3>1. AutoAtWork(r) BY <1>1, <2>3 DEF AloneIsAlone, AutoAtWork
    <3>2. k <= j BY <1>1, <3>1 DEF AloneIsAlone
    <3> QED BY <1>2, <2>3, <3>2
  <2> QED BY <1>2, <1>4, <2>1, <2>2, <2>3
<1> QED BY <1>9, <1>10, <1>11, <1>12, <1>13, <1>14, <1>15 DEF ReviewHolds

\* The review raises: its row stays as it is.
LEMMA RaiseKeeps ==
  ASSUME ReviewHolds, NEW r \in Threads, AtWork(r), Review!Raise(r),
         UNCHANGED <<latest, gone, job, alone, reviewed>>, cooling' \in BOOLEAN
  PROVE  ReviewHolds'
<1>1. PICK j : j = reviewing[r].job OBVIOUS
<1>2. j \in 1 .. Len(job) /\ job \in Seq(JobRows)
  BY <1>1 DEF ReviewHolds, ReviewTyped
<1>3. PICK y \in JobRows : y = job[j] BY <1>2
<1>4. job' = [job EXCEPT ![j] = y] BY <1>2, <1>3
<1>5. RowIsWhole(y) BY <1>2, <1>3 DEF ReviewHolds, Review!RowsAreWhole, RowIsWhole
<1>6. reviewing' = [reviewing EXCEPT ![r] = [step |-> "idle"]] /\ left' = left \cup {j}
  BY <1>1 DEF Review!Raise, Review!Idle
<1> QED BY <1>1, <1>3, <1>4, <1>5, <1>6, ReviewEnds

LEMMA AskKeeps ==
  ASSUME ReviewHolds, NEW r \in Threads, Review!Ask(r)
  PROVE  ReviewHolds'
<1>1. reviewing[r].step = "ask" /\ UNCHANGED <<latest, gone, job, reviewed, alone>>
  BY DEF Review!Ask, Review!Work
<1>2. AtWork(r) /\ reviewing[r] \in Reviewings /\ HasRead(reviewing[r]) /\ cooling \in BOOLEAN
      /\ reviewing \in [Threads -> Reviewings \cup {[step |-> "idle"]}]
  BY <1>1, ReviewIsTyped
<1>3. CASE /\ \E n \in 0 .. MaxProposed :
                reviewing' = [reviewing EXCEPT ![r].step = "save", ![r].todo = n]
           /\ UNCHANGED <<cooling, left>>
  <2>1. PICK x \in Reviewings : x = reviewing[r] BY <1>2
  <2>2. PICK n \in 0 .. MaxProposed :
          reviewing' = [reviewing EXCEPT ![r].step = "save", ![r].todo = n]
    BY <1>3
  <2>3. PICK y : y = [x EXCEPT !.step = "save", !.todo = n] OBVIOUS
  <2>4. n \in Nat BY ReviewAssumed
  <2>5. /\ y \in Reviewings /\ y.step = "save" /\ y.start = x.start /\ y.end = x.end
        /\ y.job = x.job /\ y.asof = x.asof
    BY <2>1, <2>3, <2>4 DEF Reviewings
  <2>6. reviewing' = [reviewing EXCEPT ![r] = y] BY <1>2, <2>1, <2>2, <2>3
  <2>7. HasRead(y) /\ HasAsof(x) BY <1>1, <1>2, <2>1, <2>5 DEF HasRead, HasAsof
  <2> QED BY <1>1, <1>2, <1>3, <2>1, <2>5, <2>6, <2>7, ReviewGoesOn
<1>4. CASE /\ Review!Over(r, "failed", None)
           /\ cooling' = (cooling \/ Review!Auto(r)) /\ UNCHANGED left
  <2>1. cooling' \in BOOLEAN BY <1>2, <1>4
  <2> QED BY <1>1, <1>4, <2>1, OverGoesOn DEF Reasons
<1>5. CASE Review!Raise(r) /\ UNCHANGED cooling BY <1>1, <1>2, <1>5, RaiseKeeps
<1> QED BY <1>3, <1>4, <1>5 DEF Review!Ask

LEMMA FinishKeeps ==
  ASSUME ReviewHolds, NEW r \in Threads, Review!Finish(r)
  PROVE  ReviewHolds'
<1>1. PICK x : x = reviewing[r] OBVIOUS
<1>2. PICK j : j = x.job OBVIOUS
<1>3. x.step = "finish" /\ UNCHANGED <<latest, gone, cooling, reviewed, alone>>
  BY <1>1 DEF Review!Finish, Review!Work, Review!Memory
<1>4. AtWork(r) /\ x \in Reviewings /\ HasRead(x) /\ cooling \in BOOLEAN
      /\ j \in 1 .. Len(job)
  BY <1>1, <1>2, <1>3, ReviewIsTyped
<1>5. CASE Review!Raise(r) /\ UNCHANGED job BY <1>3, <1>4, <1>5, RaiseKeeps
<1>6. CASE /\ job' = [job EXCEPT ![j] = [@ EXCEPT !.status = x.status, !.reason = x.reason,
                !.asof = x.asof, !.start = x.start, !.end = x.end,
                !.saved = x.saved, !.suppressed = x.suppressed]]
           /\ reviewing' = [reviewing EXCEPT ![r] = Review!Idle] /\ UNCHANGED left
  <2>1. PICK row \in JobRows : row = job[j]
    BY <1>4 DEF ReviewHolds, ReviewTyped
  <2>2. PICK y : y = [row EXCEPT !.status = x.status, !.reason = x.reason,
                !.asof = x.asof, !.start = x.start, !.end = x.end,
                !.saved = x.saved, !.suppressed = x.suppressed]
    OBVIOUS
  <2>3. x.status \in {"completed", "skipped", "failed"} BY <1>3, <1>4 DEF HasRead
  <2>4. /\ y \in JobRows /\ y.trigger = row.trigger /\ y.status = x.status /\ y.asof = x.asof
        /\ y.start = x.start /\ y.end = x.end /\ y.saved = x.saved
    BY <1>4, <2>1, <2>2, <2>3 DEF JobRows, Reviewings
  <2>5. job' = [job EXCEPT ![j] = y] BY <1>6, <2>1, <2>2
  <2>6. RowIsWhole(y) BY <1>3, <1>4, <2>4 DEF RowIsWhole, HasRead
  <2>7. reviewing' = [reviewing EXCEPT ![r] = [step |-> "idle"]] BY <1>6 DEF Review!Idle
  <2>8. y.trigger = job[j].trigger /\ y.status # "running" /\ y \in JobRows
    BY <2>1, <2>3, <2>4
  <2>9. j = reviewing[r].job /\ y.asof = reviewing[r].asof /\ reviewing[r].step = "finish"
        /\ reviewing[r].status = y.status
    BY <1>1, <1>2, <1>3, <2>4
  <2>10. /\ UNCHANGED <<latest, gone, alone, reviewed>> /\ left' = left
         /\ cooling' \in BOOLEAN /\ AtWork(r)
    BY <1>3, <1>4, <1>6
  <2> QED BY <2>5, <2>6, <2>7, <2>8, <2>9, <2>10, ReviewEnds
<1> QED BY <1>1, <1>2, <1>5, <1>6 DEF Review!Finish

\* A review begins with a row of its own.
LEMMA StartKeeps ==
  ASSUME ReviewHolds, NEW r \in Threads, NEW trigger \in {"manual", "auto"},
         Review!Start(r, trigger)
  PROVE  ReviewHolds'
<1>1. PICK n : n = Len(job) + 1 OBVIOUS
<1>2. PICK row : row = [trigger |-> trigger, status |-> "running", reason |-> None,
                        asof |-> 0, start |-> 0, end |-> 0, saved |-> 0, suppressed |-> 0]
  OBVIOUS
<1>3. PICK y : y = [step |-> "gate", job |-> n, status |-> None, reason |-> None, asof |-> 0,
                    start |-> 0, end |-> 0, todo |-> 0, saved |-> 0, suppressed |-> 0]
  OBVIOUS
<1>4. /\ reviewing[r].step = "idle" /\ Len(job) < MaxJobs
      /\ job' = Append(job, row) /\ reviewing' = [reviewing EXCEPT ![r] = y]
      /\ UNCHANGED <<latest, gone, cooling, reviewed, left>>
  BY <1>1, <1>2, <1>3
  DEF Review!Start, Review!Work, Review!Memory, Review!Append, Append, Review!Len, Len
<1>5. \/ trigger = "manual" /\ alone' = alone
      \/ /\ trigger = "auto" /\ \A s \in Threads : ~AutoAtWork(s)
         /\ alone' = alone \cup {n}
      \/ trigger = "auto" /\ alone' = alone \ {reviewing[s].job : s \in Review!Working}
  <2>1. \A s \in Threads : s \in Review!Working <=> AtWork(s) BY DEF Review!Working, AtWork
  <2> QED BY <1>1, <2>1 DEF Review!Start, AutoAtWork, Review!Len, Len
<1>6. ReviewTyped /\ JobsApart /\ AloneIsAlone /\ AsofGrows BY DEF ReviewHolds
<1>7. /\ reviewing \in [Threads -> Reviewings \cup {[step |-> "idle"]}] /\ job \in Seq(JobRows)
      /\ \A s \in Threads : AtWork(s) => reviewing[s].job \in 1 .. Len(job)
      /\ Len(job) \in Nat /\ alone \subseteq 1 .. Len(job) /\ left \subseteq 1 .. Len(job)
  BY <1>6 DEF ReviewTyped
<1>8. row \in JobRows /\ row.trigger = trigger /\ row.status = "running"
  BY <1>2, ReviewAssumed DEF JobRows, Reasons
<1>9. y \in Reviewings /\ y.step = "gate" /\ y.job = n /\ y.end = 0 /\ y.saved = 0
  BY <1>1, <1>3, <1>7, ReviewAssumed DEF Reviewings, Reasons
<1>10. /\ job' \in Seq(JobRows) /\ Len(job') = n /\ job'[n] = row
       /\ \A i \in 1 .. Len(job) : job'[i] = job[i] /\ i # n
       /\ 1 .. n = 1 .. Len(job) \cup {n}
  BY <1>1, <1>4, <1>7, <1>8
<1>11. /\ reviewing' \in [Threads -> Reviewings \cup {[step |-> "idle"]}]
       /\ reviewing'[r] = y /\ \A s \in Threads \ {r} : reviewing'[s] = reviewing[s]
  BY <1>4, <1>7, <1>9
<1>12. AtWork(r)' /\ \A s \in Threads \ {r} : AtWork(s)' <=> AtWork(s)
  BY <1>9, <1>11 DEF AtWork
<1>13. \A s \in Threads \ {r} :
         AtWork(s)' => reviewing'[s].job \in 1 .. Len(job) /\ reviewing'[s].job # n
  BY <1>7, <1>10, <1>11, <1>12
<1>14. \A s \in Threads \ {r} : AutoAtWork(s)' <=> AutoAtWork(s)
  BY <1>10, <1>11, <1>12, <1>13 DEF AutoAtWork
<1>15. alone' \subseteq 1 .. n BY <1>5, <1>7, <1>10
<1>16. ReviewTyped'
  <2>1. \A s \in Threads : AtWork(s)' => reviewing'[s].job \in 1 .. n
    BY <1>9, <1>10, <1>11, <1>13
  <2>2. \A s \in Threads : AtWork(s)' => HasRead(reviewing'[s])
    <3>1. HasRead(y) BY <1>9 DEF HasRead
    <3> QED BY <1>6, <1>11, <1>12, <3>1 DEF ReviewTyped
  <2>3. \A s \in Threads : HasRead(reviewing[s])' <=> HasRead(reviewing'[s]) BY DEF HasRead
  <2>4. left' \subseteq 1 .. n /\ n <= MaxJobs BY <1>1, <1>4, <1>7, <1>10, ReviewAssumed
  <2> QED BY <1>4, <1>6, <1>10, <1>11, <1>15, <2>1, <2>2, <2>3, <2>4 DEF ReviewTyped
<1>17. JobsApart' BY <1>6, <1>8, <1>9, <1>10, <1>11, <1>12, <1>13 DEF JobsApart
<1>18. AloneIsAlone'
  <2> SUFFICES ASSUME NEW i \in alone'
               PROVE  /\ job'[i].trigger = "auto"
                      /\ \A s \in Threads : AutoAtWork(s)' =>
                           /\ i <= reviewing'[s].job
                           /\ \A t \in Threads : AtWork(t)' /\ reviewing'[t].job = i => s = t
    BY DEF AloneIsAlone
  <2>1. CASE i = n
    <3>1. trigger = "auto" /\ \A s \in Threads : ~AutoAtWork(s)
      BY <1>5, <1>7, <1>10, <2>1
    <3> QED BY <1>1, <1>7, <1>8, <1>9, <1>10, <1>11, <1>13, <1>14, <2>1, <3>1
  <2>2. CASE i # n
    <3>1. i \in alone /\ i \in 1 .. Len(job) BY <1>5, <1>7, <2>2
    <3>2. job'[i].trigger = "auto" BY <1>6, <1>10, <3>1 DEF AloneIsAlone
    <3>3. ASSUME NEW s \in Threads, AutoAtWork(s)'
          PROVE  i <= reviewing'[s].job
      BY <1>1, <1>6, <1>7, <1>9, <1>11, <1>14, <3>1, <3>3 DEF AloneIsAlone
    <3>4. ASSUME NEW s \in Threads, AutoAtWork(s)', NEW t \in Threads, AtWork(t)',
                 reviewing'[t].job = i
          PROVE  s = t
      <4>1. t # r /\ AtWork(t) /\ reviewing[t].job = i BY <1>9, <1>11, <1>12, <2>2, <3>4
      <4>2. CASE s # r BY <1>6, <1>14, <3>1, <3>4, <4>1, <4>2 DEF AloneIsAlone
      <4>3. CASE s = r
        <5>1. trigger = "auto" BY <1>8, <1>9, <1>10, <1>11, <3>4, <4>3 DEF AutoAtWork
        <5>2. AutoAtWork(t) BY <1>6, <3>1, <4>1 DEF AloneIsAlone, AutoAtWork
        <5>3. t \in Review!Working BY <4>1 DEF Review!Working, AtWork
        <5> QED BY <1>5, <4>1, <5>1, <5>2, <5>3
      <4> QED BY <4>2, <4>3
    <3> QED BY <3>2, <3>3, <3>4
  <2> QED BY <2>1, <2>2
<1>19. \A i \in alone' : job'[i].status = "completed" =>
         i \in alone /\ i \in 1 .. Len(job) /\ job'[i] = job[i]
  BY <1>5, <1>7, <1>8, <1>10
<1>20. AsofGrows'
  <2>1. \A s \in Threads : HasAsof(reviewing[s])' <=> HasAsof(reviewing'[s]) BY DEF HasAsof
  <2>2. ~HasAsof(reviewing'[r]) /\ reviewing'[r].step # "finish" BY <1>9, <1>11 DEF HasAsof
  <2>3. ASSUME NEW i \in alone', job'[i].status = "completed"
        PROVE  /\ job'[i].asof <= reviewed
               /\ \A s \in Threads :
                    AutoAtWork(s)' /\ HasAsof(reviewing'[s]) /\ reviewing'[s].job > i =>
                      job'[i].asof < reviewing'[s].asof
    BY <1>6, <1>11, <1>14, <1>19, <2>2, <2>3 DEF AsofGrows
  <2>4. ASSUME NEW s \in Threads, AtWork(s)', reviewing'[s].job \in alone',
               reviewing'[s].step = "finish", reviewing'[s].status = "completed"
        PROVE  reviewing'[s].asof <= reviewed
    <3>1. s # r /\ AtWork(s) /\ reviewing'[s] = reviewing[s] /\ reviewing[s].job # n
      BY <1>11, <1>12, <1>13, <2>2, <2>4
    <3>2. reviewing[s].job \in alone BY <1>5, <2>4, <3>1
    <3> QED BY <1>6, <2>4, <3>1, <3>2 DEF AsofGrows
  <2> QED BY <1>4, <2>1, <2>3, <2>4 DEF AsofGrows
<1>21. Review!RunningIsAtWork'
  <2> SUFFICES ASSUME NEW i \in 1 .. n, job'[i].status = "running"
               PROVE  i \in left' \/ \E s \in Review!Working' : reviewing'[s].job = i
    BY <1>10 DEF Review!RunningIsAtWork
  <2>1. \A s \in Threads : s \in Review!Working' <=> AtWork(s)'
    BY DEF Review!Working, AtWork
  <2>2. CASE i = n BY <1>9, <1>11, <1>12, <2>1, <2>2
  <2>3. CASE i # n
    <3>1. i \in left \/ \E s \in Review!Working : reviewing[s].job = i
      BY <1>10, <2>3 DEF ReviewHolds, Review!RunningIsAtWork
    <3>2. \A s \in Review!Working : s \in Threads \ {r} /\ AtWork(s)
      BY <1>4 DEF Review!Working, AtWork
    <3> QED BY <1>4, <1>11, <1>12, <2>1, <3>1, <3>2
  <2> QED BY <2>2, <2>3
<1>22. Review!RowsAreWhole' /\ Review!NothingReviewedTwice'
  <2>1. Review!RowsAreWhole'
    <3> SUFFICES ASSUME NEW i \in 1 .. n PROVE RowIsWhole(job'[i])
      BY <1>10 DEF Review!RowsAreWhole, RowIsWhole
    <3>1. CASE i = n BY <1>8, <1>10, <3>1 DEF RowIsWhole
    <3>2. CASE i # n
      BY <1>7, <1>10, <3>2 DEF ReviewHolds, Review!RowsAreWhole, RowIsWhole
    <3> QED BY <3>1, <3>2
  <2>2. Review!NothingReviewedTwice'
    BY <1>19 DEF ReviewHolds, Review!NothingReviewedTwice
  <2> QED BY <2>1, <2>2
<1> QED BY <1>16, <1>17, <1>18, <1>20, <1>21, <1>22 DEF ReviewHolds

\* What leaves the reviews alone: messages, time, other parts.
LEMMA ReviewWaits ==
  ASSUME ReviewHolds, UNCHANGED <<gone, job, reviewing, reviewed, left, alone>>,
         latest' \in 0 .. MaxReviewed, gone \in 0 .. latest', cooling' \in BOOLEAN
  PROVE  ReviewHolds'
<1>1. ReviewTyped' BY DEF ReviewHolds, ReviewTyped, AtWork, HasRead
<1>2. JobsApart' /\ AloneIsAlone'
  BY DEF ReviewHolds, JobsApart, AloneIsAlone, AtWork, AutoAtWork
<1>3. AsofGrows' BY DEF ReviewHolds, AsofGrows, AtWork, AutoAtWork, HasAsof
<1>4. Review!RunningIsAtWork' BY DEF ReviewHolds, Review!RunningIsAtWork, Review!Working
<1>5. Review!RowsAreWhole' /\ Review!NothingReviewedTwice'
  BY DEF ReviewHolds, Review!RowsAreWhole, Review!NothingReviewedTwice
<1> QED BY <1>1, <1>2, <1>3, <1>4, <1>5 DEF ReviewHolds

LEMMA ResetKeeps ==
  ASSUME ReviewHolds, Review!Reset
  PROVE  ReviewHolds'
<1>1. /\ gone' = latest
      /\ job' = [j \in DOMAIN job |-> [job[j] EXCEPT !.status = "deleted"]]
      /\ UNCHANGED <<latest, reviewing, cooling, reviewed, left, alone>>
  BY DEF Review!Reset, Review!Memory
<1>2. ReviewTyped /\ JobsApart /\ AloneIsAlone /\ AsofGrows BY DEF ReviewHolds
<1>3. /\ job \in Seq(JobRows) /\ Len(job) \in Nat /\ latest \in 0 .. MaxReviewed
      /\ alone \subseteq 1 .. Len(job)
      /\ \A s \in Threads : AtWork(s) => reviewing[s].job \in 1 .. Len(job)
  BY <1>2 DEF ReviewTyped
<1>4. ASSUME NEW j \in 1 .. Len(job)
      PROVE  job'[j] \in JobRows /\ job'[j].status = "deleted" /\ job'[j].trigger = job[j].trigger
  <2>1. PICK row \in JobRows : row = job[j] BY <1>3
  <2>2. PICK over : over = [row EXCEPT !.status = "deleted"] OBVIOUS
  <2>3. over \in JobRows /\ over.status = "deleted" /\ over.trigger = row.trigger
    BY <2>1, <2>2 DEF JobRows
  <2>4. j \in DOMAIN job BY <1>3
  <2>5. job'[j] = [job[j] EXCEPT !.status = "deleted"] BY <1>1, <2>4
  <2> QED BY <2>1, <2>2, <2>3, <2>5
<1>5. job' \in Seq(JobRows) /\ Len(job') = Len(job)
  <2>1. DOMAIN job' = 1 .. Len(job) BY <1>1, <1>3
  <2>2. job' \in [1 .. Len(job) -> JobRows] BY <1>1, <1>4, <2>1
  <2> QED BY <1>3, <2>1, <2>2
<1>6. latest \in 0 .. latest BY <1>3
<1>7. ReviewTyped' BY <1>1, <1>2, <1>5, <1>6 DEF ReviewTyped, AtWork, HasRead
<1>8. \A s \in Threads : (AtWork(s)' <=> AtWork(s)) /\ (AutoAtWork(s)' <=> AutoAtWork(s))
  BY <1>1, <1>3, <1>4 DEF AtWork, AutoAtWork
<1>9. JobsApart' BY <1>1, <1>2, <1>3, <1>4, <1>8 DEF JobsApart
<1>10. AloneIsAlone' BY <1>1, <1>2, <1>3, <1>4, <1>8 DEF AloneIsAlone
<1>11. AsofGrows' BY <1>1, <1>2, <1>3, <1>4, <1>8 DEF AsofGrows
<1>12. DOMAIN job' = 1 .. Len(job) BY <1>3, <1>5
<1>13. Review!RunningIsAtWork' BY <1>4, <1>12 DEF Review!RunningIsAtWork
<1>14. Review!RowsAreWhole' BY <1>4, <1>12 DEF Review!RowsAreWhole
<1>15. Review!NothingReviewedTwice' BY <1>1, <1>3, <1>4 DEF Review!NothingReviewedTwice
<1> QED BY <1>7, <1>9, <1>10, <1>11, <1>13, <1>14, <1>15 DEF ReviewHolds

LEMMA RestartKeeps ==
  ASSUME ReviewHolds, Review!Restart
  PROVE  ReviewHolds'
<1>1. /\ left' = left \cup {reviewing[r].job : r \in Review!Working}
      /\ reviewing' = [r \in Threads |-> [step |-> "idle"]]
      /\ cooling' = FALSE /\ reviewed' = 0 /\ alone' = {}
      /\ UNCHANGED <<latest, gone, job>>
  BY DEF Review!Restart, Review!Work, Review!Idle
<1>2. \A r \in Threads : ~AtWork(r)' BY <1>1 DEF AtWork
<1>3. left' \subseteq 1 .. Len(job)
  <2>1. left \subseteq 1 .. Len(job) BY DEF ReviewHolds, ReviewTyped
  <2>2. \A r \in Review!Working : reviewing[r].job \in 1 .. Len(job)
    BY DEF ReviewHolds, ReviewTyped, Review!Working, AtWork
  <2> QED BY <1>1, <2>1, <2>2
<1>4. ReviewTyped'
  <2>1. reviewing' \in [Threads -> Reviewings \cup {[step |-> "idle"]}] BY <1>1
  <2>2. 0 \in 0 .. MaxReviewed BY ReviewAssumed
  <2> QED BY <1>1, <1>2, <1>3, <2>1, <2>2 DEF ReviewHolds, ReviewTyped
<1>5. JobsApart' /\ AloneIsAlone' /\ AsofGrows'
  BY <1>1, <1>2 DEF JobsApart, AloneIsAlone, AsofGrows
<1>6. Review!RunningIsAtWork'
  BY <1>1 DEF ReviewHolds, Review!RunningIsAtWork
<1>7. Review!RowsAreWhole' /\ Review!NothingReviewedTwice'
  BY <1>1 DEF ReviewHolds, Review!RowsAreWhole, Review!NothingReviewedTwice
<1> QED BY <1>4, <1>5, <1>6, <1>7 DEF ReviewHolds

LEMMA ReviewBegins ==
  ASSUME Init
  PROVE  ReviewInv
<1> SUFFICES ASSUME Review!Init PROVE ReviewHolds BY DEF Init, PartsInit, ReviewInv
<1>1. /\ latest = 0 /\ gone = 0 /\ job = <<>> /\ cooling = FALSE /\ reviewed = 0
      /\ reviewing = [r \in Threads |-> [step |-> "idle"]] /\ left = {} /\ alone = {}
  BY DEF Review!Init, Review!Idle
<1>2. job \in Seq(JobRows) /\ Len(job) = 0 /\ DOMAIN job = {} BY <1>1
<1>3. \A r \in Threads : ~AtWork(r) BY <1>1 DEF AtWork
<1>4. ReviewTyped
  <2>1. reviewing \in [Threads -> Reviewings \cup {[step |-> "idle"]}] BY <1>1
  <2>2. latest \in 0 .. MaxReviewed /\ gone \in 0 .. latest /\ reviewed \in 0 .. MaxReviewed
        /\ Len(job) <= MaxJobs
    BY <1>1, <1>2, ReviewAssumed
  <2>3. cooling \in BOOLEAN /\ left \subseteq 1 .. Len(job) /\ alone \subseteq 1 .. Len(job)
    BY <1>1
  <2> QED BY <1>2, <1>3, <2>1, <2>2, <2>3 DEF ReviewTyped
<1>5. JobsApart /\ AloneIsAlone /\ AsofGrows
  BY <1>1, <1>3 DEF JobsApart, AloneIsAlone, AsofGrows
<1>6. Review!RunningIsAtWork /\ Review!RowsAreWhole /\ Review!NothingReviewedTwice
  BY <1>1, <1>2 DEF Review!RunningIsAtWork, Review!RowsAreWhole, Review!NothingReviewedTwice
<1> QED BY <1>4, <1>5, <1>6 DEF ReviewHolds

LEMMA ReviewSteps ==
  ASSUME ReviewInv, [Next]_<<part, input, partVars>>
  PROVE  ReviewInv'
<1>1. CASE part = "review"
  <2>1. part' = part /\ (Review!Next \/ UNCHANGED partVars)
    BY <1>1 DEF Next, PartsNext, Ask, partVars
  <2>2. ReviewHolds BY <1>1 DEF ReviewInv
  <2>3. latest \in 0 .. MaxReviewed /\ gone \in 0 .. latest /\ cooling \in BOOLEAN
    BY <2>2 DEF ReviewHolds, ReviewTyped
  <2>4. CASE Review!Message \/ Review!CooldownEnds \/ UNCHANGED partVars
    <3>1. /\ UNCHANGED <<gone, job, reviewing, reviewed, left, alone>>
          /\ \/ latest < MaxReviewed /\ latest' = latest + 1
             \/ latest' = latest
          /\ cooling' = cooling \/ cooling' = FALSE
      BY <2>4 DEF Review!Message, Review!CooldownEnds, Review!Work, Review!Memory, partVars
    <3>2. cooling' \in BOOLEAN BY <2>3, <3>1
    <3>3. latest' \in 0 .. MaxReviewed /\ gone \in 0 .. latest'
      BY <2>3, <3>1, ReviewAssumed
    <3> QED BY <2>1, <2>2, <3>1, <3>2, <3>3, ReviewWaits DEF ReviewInv
  <2>5. CASE Review!Reset BY <2>1, <2>2, <2>5, ResetKeeps DEF ReviewInv
  <2>6. CASE Review!Restart BY <2>1, <2>2, <2>6, RestartKeeps DEF ReviewInv
  <2>7. CASE \E r \in Threads :
               \/ \E trigger \in {"manual", "auto"} : Review!Start(r, trigger)
               \/ Review!Gate(r) \/ Review!Count(r) \/ Review!Latest(r) \/ Review!Load(r)
               \/ Review!Ask(r) \/ Review!Save(r) \/ Review!Settle(r) \/ Review!Finish(r)
    <3>1. ReviewHolds'
      BY <2>2, <2>7, StartKeeps, GateKeeps, CountKeeps, LatestKeeps, LoadKeeps, AskKeeps,
         SaveKeeps, SettleKeeps, FinishKeeps
    <3> QED BY <3>1 DEF ReviewInv
  <2> QED BY <2>1, <2>4, <2>5, <2>6, <2>7 DEF Review!Next
<1>2. CASE part # "review"
  <2>1. part' = part BY DEF Next, PartsNext, Ask
  <2> QED BY <1>2, <2>1 DEF ReviewInv
<1> QED BY <1>1, <1>2

\* For any number of reviewers, messages and limits: a row that says "running" has
\* a review at work on it unless that one raised or died, a row tells what one review
\* did, and no two automatic reviews that ran alone since a restart are made as of
\* the same message (review_memory, finish_memory_review_job).
THEOREM ReviewsAreTold == Spec => [](part = "review" => Review!ReviewsTold)
<1>1. Init => ReviewInv BY ReviewBegins
<1>2. ReviewInv /\ [Next]_<<part, input, partVars>> => ReviewInv' BY ReviewSteps
<1>3. ReviewInv => (part = "review" => Review!ReviewsTold)
  BY DEF ReviewInv, ReviewHolds, Review!ReviewsTold
<1> QED BY <1>1, <1>2, <1>3, PTL DEF Spec

----------------------------------------------------------------------------
(* Settings: requests rewrite the files, one setting after the other.      *)

file == v1
live == v2
rewriting == v3
used == v4
said == v5
clashed == v6
met == v7
USE DEF file, live, rewriting, used, said, clashed, met

\* What may be left of a request: all of it, or what follows some of its rewrites.
Lefts == Config!Kinds \cup {<<>>}
  \cup {<<<<"providers", m>>>> : m \in Config!Models \cup {"tts", "embedding"}}
  \cup {<<<<"providers", m>>, <<"runtime", s>>>> : m \in Config!Models, s \in Config!Editable}

LEMMA LeftsFollow ==
  ASSUME NEW l \in Lefts, l # <<>>
  PROVE  /\ Config!Tail(l) \in Lefts
         /\ l[1][1] \in Config!Files /\ l[1][2] \in Config!Settings[l[1][1]]
         /\ l[1] = <<l[1][1], l[1][2]>>
         /\ l[1][1] = "env" => l[1][2] \in {"llm", "tts", "embedding"}
         /\ l[1][1] = "providers" => l[1][2] \in Config!Models \cup {"tts", "embedding"}
         /\ l[1][1] = "tools" => l[1][2] = "mcp"
         /\ l[1] = <<"env", "llm">> =>
              \E m \in Config!Models : Config!Tail(l)[1] = <<"providers", m>>
         /\ \A s \in {"tts", "embedding"} :
              l[1] = <<"env", s>> => Config!Tail(l)[1] = <<"providers", s>>
         /\ l[1][1] = "env" => Config!Tail(l) # <<>>
         /\ l[1][1] # "env" /\ Config!Tail(l) # <<>> => Config!Tail(l)[1][1] = "runtime"
<1>1. \A s : Config!Tail(s) = Tail(s) BY DEF Config!Tail, Tail, Config!Len, Len
<1>2. \A a, b, c : /\ Tail(<<a>>) = <<>> /\ Tail(<<a, b>>) = <<b>> /\ Tail(<<a, b, c>>) = <<b, c>>
                   /\ <<a>> # <<>> /\ <<a, b>> # <<>>
  OBVIOUS
<1>3. /\ "env" \in Config!Files /\ "providers" \in Config!Files /\ "runtime" \in Config!Files
      /\ "tools" \in Config!Files
      /\ Config!Settings["env"] = {"key", "llm", "tts", "embedding"}
      /\ Config!Settings["providers"] = {"a", "b", "tts", "asr", "embedding", "other"}
      /\ Config!Settings["runtime"] = {"x", "y", "memory"}
      /\ Config!Settings["tools"] = {"mcp", "other"}
  BY DEF Config!Files, Config!Settings, Config!Models
<1>4. CASE \E m \in Config!Models : l = <<<<"env", "llm">>, <<"providers", m>>>>
  <2>1. PICK m \in Config!Models : l = <<<<"env", "llm">>, <<"providers", m>>>> BY <1>4
  <2>2. Config!Tail(l) = <<<<"providers", m>>>> BY <1>1, <1>2, <2>1
  <2>3. Config!Tail(l) \in Lefts BY <2>2 DEF Lefts
  <2> QED BY <1>2, <1>3, <2>1, <2>2, <2>3
<1>5. CASE \E m \in Config!Models, s \in Config!Editable :
             l = <<<<"env", "llm">>, <<"providers", m>>, <<"runtime", s>>>>
  <2>1. PICK m \in Config!Models, s \in Config!Editable :
          l = <<<<"env", "llm">>, <<"providers", m>>, <<"runtime", s>>>>
    BY <1>5
  <2>2. Config!Tail(l) = <<<<"providers", m>>, <<"runtime", s>>>> BY <1>1, <1>2, <2>1
  <2>3. Config!Tail(l) \in Lefts BY <2>2 DEF Lefts
  <2> QED BY <1>2, <1>3, <2>1, <2>2, <2>3
<1>6. CASE \E s \in {"tts", "embedding"} : l = <<<<"env", s>>, <<"providers", s>>>>
  <2>1. PICK s \in {"tts", "embedding"} : l = <<<<"env", s>>, <<"providers", s>>>> BY <1>6
  <2>2. Config!Tail(l) = <<<<"providers", s>>>> BY <1>1, <1>2, <2>1
  <2>3. Config!Tail(l) \in Lefts BY <2>2 DEF Lefts
  <2> QED BY <1>2, <1>3, <2>1, <2>2, <2>3
<1>7. CASE \E m \in Config!Models \cup {"tts", "embedding"} : l = <<<<"providers", m>>>>
  <2>1. PICK m \in Config!Models \cup {"tts", "embedding"} : l = <<<<"providers", m>>>> BY <1>7
  <2>2. Config!Tail(l) = <<>> BY <1>1, <1>2, <2>1
  <2>3. Config!Tail(l) \in Lefts BY <2>2 DEF Lefts
  <2> QED BY <1>2, <1>3, <2>1, <2>2, <2>3 DEF Config!Models
<1>8. CASE \E m \in Config!Models, s \in Config!Editable :
             l = <<<<"providers", m>>, <<"runtime", s>>>>
  <2>1. PICK m \in Config!Models, s \in Config!Editable :
          l = <<<<"providers", m>>, <<"runtime", s>>>>
    BY <1>8
  <2>2. Config!Tail(l) = <<<<"runtime", s>>>> BY <1>1, <1>2, <2>1
  <2>3. Config!Tail(l) \in Lefts
    BY <2>2 DEF Lefts, Config!Kinds, Config!ConfigUpdates, Config!RuntimeUpdates
  <2> QED BY <1>2, <1>3, <2>1, <2>2, <2>3 DEF Config!Models
<1>9. CASE \E w \in {<<"runtime", "x">>, <<"runtime", "y">>, <<"tools", "mcp">>} : l = <<w>>
  <2>1. PICK w \in {<<"runtime", "x">>, <<"runtime", "y">>, <<"tools", "mcp">>} : l = <<w>>
    BY <1>9
  <2>2. Config!Tail(l) = <<>> BY <1>1, <1>2, <2>1
  <2>3. Config!Tail(l) \in Lefts BY <2>2 DEF Lefts
  <2> QED BY <1>2, <1>3, <2>1, <2>2, <2>3
<1>10. \/ \E m \in Config!Models : l = <<<<"env", "llm">>, <<"providers", m>>>>
       \/ \E m \in Config!Models, s \in Config!Editable :
            l = <<<<"env", "llm">>, <<"providers", m>>, <<"runtime", s>>>>
       \/ \E s \in {"tts", "embedding"} : l = <<<<"env", s>>, <<"providers", s>>>>
       \/ \E m \in Config!Models \cup {"tts", "embedding"} : l = <<<<"providers", m>>>>
       \/ \E m \in Config!Models, s \in Config!Editable :
            l = <<<<"providers", m>>, <<"runtime", s>>>>
       \/ \E w \in {<<"runtime", "x">>, <<"runtime", "y">>, <<"tools", "mcp">>} : l = <<w>>
  BY DEF Lefts, Config!Kinds, Config!ConfigUpdates, Config!ApiUpdates, Config!RuntimeUpdates,
       Config!SpeechUpdate, Config!EmbeddingUpdate, Config!ToolsUpdate, Config!Editable
<1> QED BY <1>4, <1>5, <1>6, <1>7, <1>8, <1>9, <1>10

LEMMA KindsBegin ==
  ASSUME NEW l \in Config!Kinds
  PROVE  l \in Lefts /\ l # <<>> /\ l[1][1] # "providers"
BY DEF Lefts, Config!Kinds, Config!ConfigUpdates, Config!ApiUpdates, Config!RuntimeUpdates,
     Config!SpeechUpdate, Config!EmbeddingUpdate, Config!ToolsUpdate

Values == 0 .. MaxUpdates + 1

LiveSettings == {"llm", "tts", "embedding", "x", "y", "memory", "mcp"}

Parses(x) == x.left # <<>> /\ x.left[1] \in {"providers"} \X Config!Models

\* The record of a request, whose first rewrite is of a setting of a file.
Requesting(x) ==
  /\ x = [left |-> x.left, step |-> x.step, parsed |-> x.parsed, seen |-> x.seen,
          value |-> x.value]
  /\ x.left \in Lefts /\ x.step \in {"idle", "parse", "read", "open", "fill", "apply"}
  /\ x.step = "idle" <=> x.left = <<>>
  /\ x.step = "parse" => Parses(x)
  /\ x.step = "apply" => x.left[1][1] # "env"
  /\ Config!Content("providers", x.parsed) /\ x.value \in Values
  /\ x.left # <<>> => Config!Content(x.left[1][1], x.seen)

SettingsTyped ==
  /\ file = [f \in Config!Files |-> file[f]]
  /\ \A f \in Config!Files : Config!Content(f, file[f])
  /\ said = [f \in Config!Files |-> said[f]]
  /\ \A f \in Config!Files : said[f] \in [Config!Settings[f] -> Values]
  /\ live \in [LiveSettings -> Values]
  /\ rewriting = [p \in Threads |-> rewriting[p]]
  /\ \A p \in Threads : Requesting(rewriting[p])
  /\ used \in 0 .. MaxUpdates /\ clashed \subseteq Config!Files /\ met \in BOOLEAN

\* The request has read something of f that it is about to write.
Holding(x, f) ==
  /\ x.step # "idle" /\ x.left[1][1] = f
  /\ x.step \in {"open", "fill"} \/ (x.step = "read" /\ Parses(x))

Emptying(x, f) == x.step = "fill" /\ x.left[1][1] = f

\* Of a file without a clash: one request at most has read it, what it has read is
\* what was last written, and nobody else writes.
FilesAreSaid == \A f \in Config!Files \ clashed :
  /\ \A p, q \in Threads : Holding(rewriting[p], f) /\ Holding(rewriting[q], f) => p = q
  /\ \A p \in Threads : Holding(rewriting[p], f) =>
       /\ rewriting[p].step \in {"open", "fill"} => rewriting[p].seen = said[f]
       /\ Parses(rewriting[p]) => rewriting[p].parsed = said[f]
  /\ (\A p \in Threads : ~Emptying(rewriting[p], f)) => file[f] = said[f]

\* But for what the request x is about to apply, the runtime has what was written.
Applies(x, f, s) == x.step # "idle" /\ x.left[1] = <<f, s>>

FollowsBut(x) ==
  /\ \A s \in {"tts", "embedding"} :
       IF Applies(x, "providers", s)
         THEN said["env"][s] = x.value /\ (x.step = "apply" => said["providers"][s] = x.value)
         ELSE live[s] = said["env"][s] /\ live[s] = said["providers"][s]
  /\ IF \E m \in Config!Models : Applies(x, "providers", m)
       THEN said["env"]["llm"] = x.value ELSE live["llm"] = said["env"]["llm"]
  /\ \/ x.step = "apply" /\ x.left[1][1] = "runtime"
     \/ \A s \in {"x", "y", "memory"} : live[s] = said["runtime"][s]
  /\ (x.step = "apply" /\ x.left[1][1] = "tools") \/ live["mcp"] = said["tools"]["mcp"]

Follows == ~met =>
  /\ clashed = {}
  /\ \A p, q \in Threads : rewriting[p].step # "idle" /\ rewriting[q].step # "idle" => p = q
  /\ \A p \in Threads : rewriting[p].step # "idle" => FollowsBut(rewriting[p])
  /\ (\A p \in Threads : rewriting[p].step = "idle") => FollowsBut(Config!Idle)

SettingsHold == SettingsTyped /\ FilesAreSaid /\ Follows

SettingsInv == part = "settings" => SettingsHold

LEMMA SettingsAssumed == UpdatesAsked \subseteq Config!Kinds /\ MaxUpdates \in Nat
BY ServicesAssumption DEF Config!SettingsAssumption

LEMMA FilesAre ==
  /\ Config!Files = {"env", "providers", "runtime", "tools"}
  /\ Config!Settings["env"] = {"key", "llm", "tts", "embedding"}
  /\ Config!Settings["providers"] = {"a", "b", "tts", "asr", "embedding", "other"}
  /\ Config!Settings["runtime"] = {"x", "y", "memory"}
  /\ Config!Settings["tools"] = {"mcp", "other"}
  /\ Config!Models = {"a", "b"}
BY DEF Config!Files, Config!Settings, Config!Models

\* What is written of a file that was read as it is: everything, but for the setting.
LEMMA RewrittenIsSaid ==
  ASSUME NEW f \in Config!Files, NEW c \in [Config!Settings[f] -> Values],
         NEW s \in Config!Settings[f], NEW x, x.seen = c,
         f = "providers" /\ s \in Config!Models => x.parsed = c
  PROVE  Config!Rewritten(f, x, s) = [c EXCEPT ![s] = x.value]
<1>1. CASE f = "providers"
  <2>1. Config!Rewritten(f, x, s) = Config!Providers(x.parsed, c, s, x.value)
    BY <1>1 DEF Config!Rewritten
  <2>2. DOMAIN c = {"a", "b", "tts", "asr", "embedding", "other"} /\ s \in DOMAIN c
    BY <1>1, FilesAre
  <2>3. Config!Entries(x.parsed, c, s) = [m \in {"a", "b"} |-> c[m]]
    <3>1. (IF s \in Config!Models THEN x.parsed ELSE c) = c BY <1>1
    <3>2. DOMAIN c \cap Config!Models = {"a", "b"} BY <2>2, FilesAre
    <3> QED BY <3>1, <3>2 DEF Config!Entries
  <2>4. Config!Providers(x.parsed, c, s, x.value) =
          [k \in DOMAIN c |-> IF k = s THEN x.value ELSE c[k]]
    BY <2>2, <2>3, FilesAre DEF Config!Providers, Config!Of
  <2> QED BY <2>1, <2>2, <2>4
<1>2. CASE f = "runtime"
  <2>1. Config!Rewritten(f, x, s) = Config!Runtime(c, s, x.value)
    BY <1>2 DEF Config!Rewritten
  <2>2. DOMAIN c = {"x", "y", "memory"} /\ s \in DOMAIN c BY <1>2, FilesAre
  <2>3. c # Config!Nothing BY <2>2 DEF Config!Nothing
  <2>4. DOMAIN c \cup {s} = DOMAIN c BY <2>2
  <2> QED BY <2>1, <2>3, <2>4 DEF Config!Runtime
<1>3. CASE f \notin {"providers", "runtime"}
  <2>1. Config!Rewritten(f, x, s) = Config!With(c, s, x.value)
    BY <1>3 DEF Config!Rewritten
  <2>2. DOMAIN c \cup {s} = DOMAIN c OBVIOUS
  <2> QED BY <2>1, <2>2 DEF Config!With
<1> QED BY <1>1, <1>2, <1>3

\* Whatever was read, what is written has settings of the file.
LEMMA RewrittenTypes ==
  ASSUME NEW f \in Config!Files, NEW s \in Config!Settings[f], NEW x,
         Config!Content("providers", x.parsed), Config!Content(f, x.seen), x.value \in Values,
         live \in [LiveSettings -> Values]
  PROVE  Config!Content(f, Config!Rewritten(f, x, s))
<1>1. 0 \in Values BY SettingsAssumed DEF Values
<1>2. CASE f = "providers"
  <2>1. Config!Rewritten(f, x, s) = Config!Providers(x.parsed, x.seen, s, x.value)
    BY <1>2 DEF Config!Rewritten
  <2>2. PICK llm : llm = Config!Entries(x.parsed, x.seen, s) OBVIOUS
  <2>3. DOMAIN llm \subseteq Config!Models /\ \A m \in DOMAIN llm : llm[m] \in Values
    BY <1>1, <1>2, <2>2, FilesAre DEF Config!Entries, Config!Content, Values
  <2>4. \A k \in DOMAIN x.seen : x.seen[k] \in Values /\ k \in Config!Settings[f]
    BY <1>2 DEF Config!Content, Values
  <2>5. PICK all : all = Config!Rewritten(f, x, s) OBVIOUS
  <2>6. all = [k \in DOMAIN llm \cup {"tts", "asr", s} \cup (DOMAIN x.seen \ Config!Models) |->
          IF k = s THEN x.value ELSE IF k \in Config!Models THEN llm[k] ELSE Config!Of(x.seen, k)]
    BY <2>1, <2>2, <2>5 DEF Config!Providers
  <2>7. DOMAIN all \subseteq Config!Settings[f] BY <1>2, <2>3, <2>4, <2>6, FilesAre
  <2>8. \A k \in DOMAIN all : k = s \/ k \in DOMAIN llm \/ k \notin Config!Models
    BY <2>6, FilesAre
  <2>9. \A k \in DOMAIN all : all[k] \in Values
    <3> SUFFICES ASSUME NEW k \in DOMAIN all PROVE all[k] \in Values OBVIOUS
    <3>1. CASE k = s BY <2>6, <3>1
    <3>2. CASE k # s /\ k \in Config!Models BY <2>3, <2>6, <2>8, <3>2
    <3>3. CASE k # s /\ k \notin Config!Models BY <1>1, <2>4, <2>6, <3>3 DEF Config!Of
    <3> QED BY <3>1, <3>2, <3>3
  <2> QED BY <2>5, <2>7, <2>9 DEF Config!Content, Values
<1>3. CASE f = "runtime"
  <2>1. Config!Rewritten(f, x, s) = Config!Runtime(x.seen, s, x.value)
    BY <1>3 DEF Config!Rewritten
  <2>2. \A k \in {"x", "y"} : live[k] \in Values BY DEF LiveSettings
  <2> QED BY <1>3, <2>1, <2>2, FilesAre
      DEF Config!Runtime, Config!Content, Config!Editable, Values
<1>4. CASE f \notin {"providers", "runtime"}
  <2>1. Config!Rewritten(f, x, s) = Config!With(x.seen, s, x.value)
    BY <1>4 DEF Config!Rewritten
  <2> QED BY <1>4, <2>1 DEF Config!With, Config!Content, Values
<1> QED BY <1>2, <1>3, <1>4

\* A request takes a step, from x to y: the file stays as far as it was read.
FileStays(p, x, y, f) ==
  /\ Holding(y, f) =>
       /\ Holding(x, f) \/ \A q \in Threads \ {p} : ~Holding(rewriting[q], f)
       /\ y.step \in {"open", "fill"} => y.seen = said'[f]
       /\ Parses(y) => y.parsed = said'[f]
  /\ (file'[f] = file[f] /\ said'[f] = said[f]) \/ Holding(x, f)
  /\ \/ Emptying(y, f) \/ file'[f] = said'[f]
     \/ file'[f] = file[f] /\ said'[f] = said[f] /\ ~Emptying(x, f)

LEMMA FilesMove ==
  ASSUME SettingsTyped, FilesAreSaid, NEW p \in Threads, NEW x, x = rewriting[p], NEW y,
         rewriting' = [rewriting EXCEPT ![p] = y], clashed \subseteq clashed',
         \A f \in Config!Files \ clashed' : FileStays(p, x, y, f)
  PROVE  FilesAreSaid'
<1>1. /\ rewriting'[p] = y /\ \A q \in Threads \ {p} : rewriting'[q] = rewriting[q]
  BY DEF SettingsTyped
<1> SUFFICES ASSUME NEW f \in Config!Files \ clashed'
             PROVE  /\ \A r, q \in Threads : 
                         Holding(rewriting'[r], f) /\ Holding(rewriting'[q], f) => r = q
                    /\ \A q \in Threads : Holding(rewriting'[q], f) =>
                         /\ rewriting'[q].step \in {"open", "fill"} => rewriting'[q].seen = said'[f]
                         /\ Parses(rewriting'[q]) => rewriting'[q].parsed = said'[f]
                    /\ (\A q \in Threads : ~Emptying(rewriting'[q], f)) => file'[f] = said'[f]
  BY DEF FilesAreSaid, Holding, Parses, Emptying
<1> USE DEF FileStays
<1>2. /\ \A r, q \in Threads : Holding(rewriting[r], f) /\ Holding(rewriting[q], f) => r = q
      /\ \A q \in Threads : Holding(rewriting[q], f) =>
           /\ rewriting[q].step \in {"open", "fill"} => rewriting[q].seen = said[f]
           /\ Parses(rewriting[q]) => rewriting[q].parsed = said[f]
      /\ (\A q \in Threads : ~Emptying(rewriting[q], f)) => file[f] = said[f]
  BY DEF FilesAreSaid
<1>3. \A r, q \in Threads : Holding(rewriting'[r], f) /\ Holding(rewriting'[q], f) => r = q
  BY <1>1, <1>2
<1>4. ASSUME NEW q \in Threads, Holding(rewriting'[q], f)
      PROVE  /\ rewriting'[q].step \in {"open", "fill"} => rewriting'[q].seen = said'[f]
             /\ Parses(rewriting'[q]) => rewriting'[q].parsed = said'[f]
  <2>1. CASE q = p BY <1>1, <1>4, <2>1
  <2>2. CASE q # p
    <3>1. rewriting'[q] = rewriting[q] /\ ~Holding(x, f) BY <1>1, <1>2, <1>4, <2>2
    <3> QED BY <1>2, <1>4, <3>1
  <2> QED BY <2>1, <2>2
<1>5. ASSUME \A q \in Threads : ~Emptying(rewriting'[q], f)
      PROVE  file'[f] = said'[f]
  <2>1. ~Emptying(y, f) BY <1>1, <1>5
  <2>2. CASE file'[f] = file[f] /\ said'[f] = said[f] /\ ~Emptying(x, f)
    <3>1. \A q \in Threads : ~Emptying(rewriting[q], f) BY <1>1, <1>5, <2>2
    <3> QED BY <1>2, <2>2, <3>1
  <2> QED BY <2>1, <2>2
<1> QED BY <1>3, <1>4, <1>5

\* No file is read that another is rewriting, or it has a clash.
LEMMA ReadAlone ==
  ASSUME SettingsTyped, FilesAreSaid, NEW p \in Threads, NEW f \in Config!Files,
         Config!Clash(p, f), f \notin clashed', rewriting[p].step \notin {"open", "fill"}
  PROVE  /\ \A q \in Threads \ {p} : ~Holding(rewriting[q], f)
         /\ file[f] = said[f]
<1>1. f \notin clashed /\ \A q \in Threads \ {p} : ~Config!Holds(q, f) BY DEF Config!Clash
<1>2. \A q \in Threads : Parses(rewriting[q]) => Config!First(rewriting[q].left) = "parse"
  BY DEF Parses, Config!First
<1>3. \A q \in Threads \ {p} : ~Holding(rewriting[q], f)
  BY <1>1, <1>2 DEF Holding, Config!Holds, Config!Busy, Config!File
<1>4. \A q \in Threads : ~Emptying(rewriting[q], f) BY <1>3 DEF Emptying, Holding
<1> QED BY <1>1, <1>3, <1>4 DEF FilesAreSaid

LEMMA ClashGrows ==
  ASSUME SettingsTyped, NEW p \in Threads, NEW f \in Config!Files, Config!Clash(p, f)
  PROVE  /\ clashed \subseteq clashed' /\ clashed' \subseteq Config!Files
         /\ (\A q \in Threads \ {p} : rewriting[q].step = "idle") => clashed' = clashed
BY DEF SettingsTyped, Config!Clash, Config!Holds, Config!Busy

\* While no two requests have overlapped, this is the only one.
LEMMA SoleRequest ==
  ASSUME Follows, ~met, NEW p \in Threads, rewriting[p].step # "idle"
  PROVE  /\ \A q \in Threads \ {p} : rewriting[q].step = "idle"
         /\ clashed = {} /\ FollowsBut(rewriting[p])
BY DEF Follows

\* The one request takes a step, from x to y.
LEMMA FollowsMoves ==
  ASSUME SettingsTyped, NEW p \in Threads, NEW y, rewriting' = [rewriting EXCEPT ![p] = y],
         ~met' => /\ \A q \in Threads \ {p} : rewriting[q].step = "idle"
                  /\ clashed' = {}
                  /\ \A z : z = y \/ (y.step = "idle" /\ z = Config!Idle) => FollowsBut(z)'
  PROVE  Follows'
<1> SUFFICES ASSUME ~met' 
             PROVE  /\ clashed' = {}
                    /\ \A r, q \in Threads :
                         rewriting'[r].step # "idle" /\ rewriting'[q].step # "idle" => r = q
                    /\ \A r \in Threads : rewriting'[r].step # "idle" => FollowsBut(rewriting[r])'
                    /\ (\A r \in Threads : rewriting'[r].step = "idle") => FollowsBut(Config!Idle)'
  BY DEF Follows, Config!Idle, Config!Nothing
<1>1. rewriting'[p] = y /\ \A q \in Threads \ {p} : rewriting'[q] = rewriting[q]
  BY DEF SettingsTyped
<1>2. \A q \in Threads \ {p} : rewriting'[q].step = "idle" BY <1>1
<1>3. ASSUME NEW z, z = rewriting'[p], FollowsBut(z)'
      PROVE  FollowsBut(rewriting[p])'
  BY <1>3 DEF FollowsBut, Applies
<1> QED BY <1>1, <1>2, <1>3

LEMMA RequestMoves ==
  ASSUME SettingsTyped, NEW p \in Threads, NEW y, Requesting(y),
         rewriting' = [rewriting EXCEPT ![p] = y],
         file' = [f \in Config!Files |-> file'[f]],
         \A f \in Config!Files : Config!Content(f, file'[f]),
         said' = [f \in Config!Files |-> said'[f]],
         \A f \in Config!Files : said'[f] \in [Config!Settings[f] -> Values],
         live' \in [LiveSettings -> Values], used' \in 0 .. MaxUpdates,
         clashed' \subseteq Config!Files, met' \in BOOLEAN
  PROVE  SettingsTyped'
<1>1. /\ rewriting'[p] = y /\ \A q \in Threads \ {p} : rewriting'[q] = rewriting[q]
      /\ rewriting' = [q \in Threads |-> rewriting'[q]]
  BY DEF SettingsTyped
<1>2. \A q \in Threads : Requesting(rewriting'[q]) BY <1>1 DEF SettingsTyped
<1>3. \A q \in Threads : Requesting(rewriting[q])'
  <2> SUFFICES ASSUME NEW q \in Threads PROVE Requesting(rewriting[q])' OBVIOUS
  <2>1. Requesting(rewriting'[q]) BY <1>2
  <2> QED BY <2>1 DEF Requesting, Parses
<1> QED BY <1>1, <1>3 DEF SettingsTyped

\* What a request is when its first rewrite, if there is one, has not begun.
LEMMA Requested ==
  ASSUME NEW l \in Lefts, NEW v \in Values, NEW y, y = Config!Request(l, v)
  PROVE  /\ Requesting(y) /\ y.left = l /\ y.step \in {"idle", "parse", "read"}
         /\ l # <<>> => y.value = v /\ y.step # "idle"
         /\ l = <<>> => y = Config!Idle /\ y.step = "idle"
         /\ \A f : ~Holding(y, f) /\ ~Emptying(y, f)
<1>1. y = [left |-> l, step |-> Config!First(l), parsed |-> <<>>, seen |-> <<>>,
           value |-> IF l = <<>> THEN 0 ELSE v]
  BY DEF Config!Request, Config!Nothing
<1>2. /\ l = <<>> => Config!First(l) = "idle"
      /\ l # <<>> /\ Parses(y) => Config!First(l) = "parse"
      /\ l # <<>> /\ ~Parses(y) => Config!First(l) = "read"
  BY <1>1 DEF Config!First, Parses
<1>3. \A f : Config!Content(f, <<>>) BY DEF Config!Content
<1>4. 0 \in Values BY SettingsAssumed DEF Values
<1>5. y.left = l /\ y.step = Config!First(l) /\ y.parsed = <<>> /\ y.seen = <<>>
      /\ y.value = IF l = <<>> THEN 0 ELSE v
  BY <1>1
<1>6. y.value \in Values BY <1>4, <1>5
<1>7. Requesting(y)
  <2>1. y.step \in {"idle", "parse", "read"} /\ (y.step = "idle" <=> l = <<>>)
    BY <1>2, <1>5
  <2>2. y.step = "parse" => Parses(y) BY <1>2, <1>5
  <2> QED BY <1>1, <1>3, <1>5, <1>6, <2>1, <2>2 DEF Requesting
<1>8. l = <<>> => y = Config!Idle BY <1>1, <1>2 DEF Config!Idle, Config!Nothing
<1>9. \A f : ~Holding(y, f) /\ ~Emptying(y, f) BY <1>2, <1>5 DEF Holding, Emptying
<1> QED BY <1>2, <1>5, <1>7, <1>8, <1>9

\* The runtime has all that was written.
Settled ==
  /\ \A s \in {"tts", "embedding"} : live[s] = said["env"][s] /\ live[s] = said["providers"][s]
  /\ live["llm"] = said["env"]["llm"]
  /\ \A s \in {"x", "y", "memory"} : live[s] = said["runtime"][s]
  /\ live["mcp"] = said["tools"]["mcp"]

LEMMA IdleIsSettled ==
  /\ FollowsBut(Config!Idle) => Settled
  /\ FollowsBut(Config!Idle)' => Settled'
BY DEF FollowsBut, Settled, Applies, Config!Idle

\* A request that has nothing to apply as yet.
LEMMA SettledFollows ==
  ASSUME Settled', NEW z,
         z.step = "idle" \/ (z.step # "apply" /\ \A s : z.left[1] # <<"providers", s>>)
  PROVE  FollowsBut(z)'
BY DEF FollowsBut, Settled, Applies

\* What a request goes on with, before it has rewritten the file.
LEMMA FollowsOn ==
  ASSUME NEW x, NEW y, FollowsBut(x), y.left = x.left, y.value = x.value,
         x.step \notin {"idle", "apply"}, y.step \notin {"idle", "apply"},
         UNCHANGED <<live, said>>
  PROVE  FollowsBut(y)'
BY DEF FollowsBut, Applies

LEMMA BeginKeeps ==
  ASSUME SettingsHold, NEW p \in Threads, Config!Begin(p)
  PROVE  SettingsHold'
<1>1. PICK x : x = rewriting[p] OBVIOUS
<1>2. PICK l \in UpdatesAsked : rewriting' = [rewriting EXCEPT ![p] = Config!Request(l, used + 2)]
  BY DEF Config!Begin
<1>3. PICK y : y = Config!Request(l, used + 2) OBVIOUS
<1>4. /\ x.step = "idle" /\ used < MaxUpdates /\ used' = used + 1
      /\ met' = (met \/ \E q \in Threads : Config!Busy(q))
      /\ UNCHANGED <<file, live, said, clashed>>
      /\ rewriting' = [rewriting EXCEPT ![p] = y]
  BY <1>1, <1>2, <1>3 DEF Config!Begin, Config!Busy
<1>5. SettingsTyped /\ FilesAreSaid /\ Follows BY DEF SettingsHold
<1>6. l \in Lefts /\ l # <<>> /\ l[1][1] # "providers" BY <1>2, SettingsAssumed, KindsBegin
<1>7. used + 2 \in Values /\ used' \in 0 .. MaxUpdates
  BY <1>4, <1>5, SettingsAssumed DEF SettingsTyped, Values
<1>8. /\ Requesting(y) /\ y.left = l /\ y.step \in {"parse", "read"}
      /\ \A f : ~Holding(y, f) /\ ~Emptying(y, f)
  BY <1>3, <1>6, <1>7, Requested
<1>9. met \in BOOLEAN /\ met' \in BOOLEAN BY <1>4, <1>5 DEF SettingsTyped
<1>10. SettingsTyped'
  <2>1. /\ file' = [f \in Config!Files |-> file'[f]] /\ said' = [f \in Config!Files |-> said'[f]]
        /\ \A f \in Config!Files :
             Config!Content(f, file'[f]) /\ said'[f] \in [Config!Settings[f] -> Values]
        /\ live' \in [LiveSettings -> Values] /\ clashed' \subseteq Config!Files
    BY <1>4, <1>5 DEF SettingsTyped
  <2> QED BY <1>4, <1>5, <1>7, <1>8, <1>9, <2>1, RequestMoves
<1>11. FilesAreSaid'
  <2>1. \A f : ~Emptying(x, f) BY <1>4 DEF Emptying
  <2>2. \A f \in Config!Files \ clashed' : FileStays(p, x, y, f)
    BY <1>4, <1>8, <2>1 DEF FileStays
  <2> QED BY <1>1, <1>4, <1>5, <2>2, FilesMove
<1>12. Follows'
  <2>1. ASSUME ~met'
        PROVE  /\ \A q \in Threads : rewriting[q].step = "idle"
               /\ clashed' = {} /\ Settled'
    <3>1. ~met /\ \A q \in Threads : rewriting[q].step = "idle"
      BY <1>4, <1>9, <2>1 DEF Config!Busy
    <3>2. clashed = {} /\ FollowsBut(Config!Idle) BY <1>5, <3>1 DEF Follows
    <3> QED BY <1>4, <3>1, <3>2, IdleIsSettled DEF Settled
  <2>2. ASSUME ~met', NEW z, z = y \/ (y.step = "idle" /\ z = Config!Idle)
        PROVE  FollowsBut(z)'
    <3>1. z = y /\ \A s : z.left[1] # <<"providers", s>> BY <1>6, <1>8, <2>2
    <3> QED BY <1>8, <2>1, <2>2, <3>1, SettledFollows
  <2> QED BY <1>4, <1>5, <2>1, <2>2, FollowsMoves
<1> QED BY <1>10, <1>11, <1>12 DEF SettingsHold

LEMMA ParseKeeps ==
  ASSUME SettingsHold, NEW p \in Threads, Config!Parse(p)
  PROVE  SettingsHold'
<1>1. PICK x : x = rewriting[p] OBVIOUS
<1>2. PICK y : y = [x EXCEPT !.step = "read", !.parsed = file["providers"]] OBVIOUS
<1>3. SettingsTyped /\ FilesAreSaid /\ Follows BY DEF SettingsHold
<1>4. /\ x.step = "parse" /\ Config!Clash(p, "providers")
      /\ rewriting' = [rewriting EXCEPT ![p] = y]
      /\ UNCHANGED <<file, live, used, said, met>>
  <2>1. rewriting = [q \in Threads |-> rewriting[q]] BY <1>3 DEF SettingsTyped
  <2>2. /\ x.step = "parse" /\ Config!Clash(p, "providers")
        /\ rewriting' = [rewriting EXCEPT ![p].step = "read", ![p].parsed = file["providers"]]
        /\ UNCHANGED <<file, live, used, said, met>>
    BY <1>1 DEF Config!Parse
  <2> QED BY <1>1, <1>2, <2>1, <2>2
<1>5. Requesting(x) /\ "providers" \in Config!Files /\ Config!Content("providers", file["providers"])
  BY <1>1, <1>3, FilesAre DEF SettingsTyped
<1>6. x.left # <<>> /\ x.left[1][1] = "providers" /\ Parses(x)
  BY <1>4, <1>5 DEF Requesting, Parses
<1>7. /\ y = [left |-> x.left, step |-> "read", parsed |-> file["providers"], seen |-> x.seen,
              value |-> x.value]
  BY <1>2, <1>5 DEF Requesting
<1>8. y.step = "read" /\ y.left = x.left /\ y.value = x.value /\ y.parsed = file["providers"]
      /\ y.seen = x.seen
  BY <1>7
<1>9. Requesting(y) /\ Parses(y)
  BY <1>5, <1>6, <1>7, <1>8 DEF Requesting, Parses
<1>10. clashed \subseteq clashed' /\ clashed' \subseteq Config!Files
  BY <1>3, <1>4, <1>5, ClashGrows
<1>11. SettingsTyped'
  <2>1. /\ file' = [f \in Config!Files |-> file'[f]] /\ said' = [f \in Config!Files |-> said'[f]]
        /\ \A f \in Config!Files :
             Config!Content(f, file'[f]) /\ said'[f] \in [Config!Settings[f] -> Values]
        /\ live' \in [LiveSettings -> Values] /\ met' \in BOOLEAN /\ used' \in 0 .. MaxUpdates
    BY <1>3, <1>4 DEF SettingsTyped
  <2> QED BY <1>3, <1>4, <1>9, <1>10, <2>1, RequestMoves
<1>12. FilesAreSaid'
  <2>1. \A f : ~Emptying(x, f) /\ ~Emptying(y, f) BY <1>4, <1>8 DEF Emptying
  <2>2. \A f \in Config!Files : Holding(y, f) => f = "providers"
    BY <1>6, <1>8 DEF Holding
  <2>3. "providers" \notin clashed' =>
          /\ \A q \in Threads \ {p} : ~Holding(rewriting[q], "providers")
          /\ file["providers"] = said["providers"]
    BY <1>1, <1>3, <1>4, <1>5, ReadAlone
  <2>4. ASSUME NEW g \in Config!Files \ clashed'
        PROVE  FileStays(p, x, y, g)
    BY <1>4, <1>8, <2>1, <2>2, <2>3 DEF FileStays
  <2> QED BY <1>1, <1>3, <1>4, <1>10, <2>4, FilesMove
<1>13. Follows'
  <2>1. ASSUME ~met'
        PROVE  /\ \A q \in Threads \ {p} : rewriting[q].step = "idle"
               /\ clashed' = {} /\ FollowsBut(y)'
    <3>1. /\ \A q \in Threads \ {p} : rewriting[q].step = "idle"
          /\ clashed = {} /\ FollowsBut(x)
      BY <1>1, <1>3, <1>4, <2>1, SoleRequest
    <3>2. clashed' = clashed BY <1>3, <1>4, <1>5, <3>1, ClashGrows
    <3> QED BY <1>4, <1>8, <3>1, <3>2, FollowsOn
  <2>2. y.step # "idle" BY <1>8
  <2>3. ASSUME ~met', NEW z, z = y PROVE FollowsBut(z)' BY <2>1, <2>3
  <2> QED BY <1>3, <1>4, <2>1, <2>2, <2>3, FollowsMoves
<1> QED BY <1>11, <1>12, <1>13 DEF SettingsHold

LEMMA ReadKeeps ==
  ASSUME SettingsHold, NEW p \in Threads, Config!Read(p)
  PROVE  SettingsHold'
<1>1. PICK x : x = rewriting[p] OBVIOUS
<1>2. PICK f : f = x.left[1][1] OBVIOUS
<1>3. PICK y : y = [x EXCEPT !.step = "open", !.seen = file[f]] OBVIOUS
<1>4. SettingsTyped /\ FilesAreSaid /\ Follows BY DEF SettingsHold
<1>5. /\ x.step = "read" /\ Config!Clash(p, f)
      /\ rewriting' = [rewriting EXCEPT ![p] = y]
      /\ UNCHANGED <<file, live, used, said, met>>
  <2>1. rewriting = [q \in Threads |-> rewriting[q]] BY <1>4 DEF SettingsTyped
  <2>2. /\ x.step = "read" /\ Config!Clash(p, f)
        /\ rewriting' = [rewriting EXCEPT ![p].step = "open", ![p].seen = file[f]]
        /\ UNCHANGED <<file, live, used, said, met>>
    BY <1>1, <1>2 DEF Config!Read, Config!File
  <2> QED BY <1>1, <1>3, <2>1, <2>2
<1>6. Requesting(x) /\ x.left \in Lefts /\ x.left # <<>>
  BY <1>1, <1>4, <1>5 DEF SettingsTyped, Requesting
<1>7. f \in Config!Files /\ Config!Content(f, file[f])
  BY <1>2, <1>4, <1>6, LeftsFollow DEF SettingsTyped
<1>8. /\ y = [left |-> x.left, step |-> "open", parsed |-> x.parsed, seen |-> file[f],
              value |-> x.value]
  BY <1>3, <1>6 DEF Requesting
<1>9. y.step = "open" /\ y.left = x.left /\ y.value = x.value /\ y.parsed = x.parsed
      /\ y.seen = file[f]
  BY <1>8
<1>10. Requesting(y)
  BY <1>2, <1>6, <1>7, <1>8, <1>9 DEF Requesting
<1>11. Parses(y) <=> Parses(x) BY <1>9 DEF Parses
<1>12. clashed \subseteq clashed' /\ clashed' \subseteq Config!Files
  BY <1>4, <1>5, <1>7, ClashGrows
<1>13. SettingsTyped'
  <2>1. /\ file' = [g \in Config!Files |-> file'[g]] /\ said' = [g \in Config!Files |-> said'[g]]
        /\ \A g \in Config!Files :
             Config!Content(g, file'[g]) /\ said'[g] \in [Config!Settings[g] -> Values]
        /\ live' \in [LiveSettings -> Values] /\ met' \in BOOLEAN /\ used' \in 0 .. MaxUpdates
    BY <1>4, <1>5 DEF SettingsTyped
  <2> QED BY <1>4, <1>5, <1>10, <1>12, <2>1, RequestMoves
<1>14. FilesAreSaid'
  <2>1. \A g : ~Emptying(x, g) /\ ~Emptying(y, g) BY <1>5, <1>9 DEF Emptying
  <2>2. \A g \in Config!Files : Holding(y, g) => g = f BY <1>2, <1>9 DEF Holding
  <2>3. f \notin clashed' =>
          /\ \A q \in Threads \ {p} : ~Holding(rewriting[q], f)
          /\ file[f] = said[f]
    BY <1>1, <1>4, <1>5, <1>7, ReadAlone
  <2>4. f \notin clashed' /\ Parses(y) => y.parsed = said[f]
    <3>1. Parses(y) => Holding(x, f) BY <1>2, <1>5, <1>11 DEF Holding
    <3> QED BY <1>1, <1>4, <1>7, <1>9, <1>11, <1>12, <3>1 DEF FilesAreSaid
  <2>5. ASSUME NEW g \in Config!Files \ clashed'
        PROVE  FileStays(p, x, y, g)
    BY <1>5, <1>9, <2>1, <2>2, <2>3, <2>4 DEF FileStays
  <2> QED BY <1>1, <1>4, <1>5, <1>12, <2>5, FilesMove
<1>15. Follows'
  <2>1. ASSUME ~met'
        PROVE  /\ \A q \in Threads \ {p} : rewriting[q].step = "idle"
               /\ clashed' = {} /\ FollowsBut(y)'
    <3>1. /\ \A q \in Threads \ {p} : rewriting[q].step = "idle"
          /\ clashed = {} /\ FollowsBut(x)
      BY <1>1, <1>4, <1>5, <2>1, SoleRequest
    <3>2. clashed' = clashed BY <1>4, <1>5, <1>7, <3>1, ClashGrows
    <3> QED BY <1>5, <1>9, <3>1, <3>2, FollowsOn
  <2>2. y.step # "idle" BY <1>9
  <2>3. ASSUME ~met', NEW z, z = y PROVE FollowsBut(z)' BY <2>1, <2>3
  <2> QED BY <1>4, <1>5, <2>1, <2>2, <2>3, FollowsMoves
<1> QED BY <1>13, <1>14, <1>15 DEF SettingsHold

LEMMA OpenKeeps ==
  ASSUME SettingsHold, NEW p \in Threads, Config!Open(p)
  PROVE  SettingsHold'
<1>1. PICK x : x = rewriting[p] OBVIOUS
<1>2. PICK f : f = x.left[1][1] OBVIOUS
<1>3. PICK y : y = [x EXCEPT !.step = "fill"] OBVIOUS
<1>4. SettingsTyped /\ FilesAreSaid /\ Follows BY DEF SettingsHold
<1>5. /\ x.step = "open" /\ file' = [file EXCEPT ![f] = <<>>]
      /\ rewriting' = [rewriting EXCEPT ![p] = y]
      /\ UNCHANGED <<live, used, said, clashed, met>>
  BY <1>1, <1>2, <1>3, <1>4 DEF Config!Open, Config!File, Config!Nothing, SettingsTyped
<1>6. Requesting(x) /\ x.left \in Lefts /\ x.left # <<>>
  BY <1>1, <1>4, <1>5 DEF SettingsTyped, Requesting
<1>7. f \in Config!Files BY <1>2, <1>6, LeftsFollow
<1>8. /\ file' = [g \in Config!Files |-> file'[g]]
      /\ file'[f] = <<>> /\ \A g \in Config!Files : g # f => file'[g] = file[g]
  BY <1>4, <1>5, <1>7 DEF SettingsTyped
<1>9. /\ y = [left |-> x.left, step |-> "fill", parsed |-> x.parsed, seen |-> x.seen,
              value |-> x.value]
  BY <1>3, <1>6 DEF Requesting
<1>10. y.step = "fill" /\ y.left = x.left /\ y.value = x.value /\ y.parsed = x.parsed
       /\ y.seen = x.seen
  BY <1>9
<1>11. Requesting(y) BY <1>6, <1>9, <1>10 DEF Requesting
<1>12. Parses(y) <=> Parses(x) BY <1>10 DEF Parses
<1>13. SettingsTyped'
  <2>1. \A g \in Config!Files : Config!Content(g, file'[g])
    <3>1. Config!Content(f, <<>>) BY DEF Config!Content
    <3> QED BY <1>4, <1>8, <3>1 DEF SettingsTyped
  <2>2. /\ said' = [g \in Config!Files |-> said'[g]]
        /\ \A g \in Config!Files : said'[g] \in [Config!Settings[g] -> Values]
        /\ live' \in [LiveSettings -> Values] /\ met' \in BOOLEAN /\ used' \in 0 .. MaxUpdates
        /\ clashed' \subseteq Config!Files
    BY <1>4, <1>5 DEF SettingsTyped
  <2> QED BY <1>4, <1>5, <1>8, <1>11, <2>1, <2>2, RequestMoves
<1>14. FilesAreSaid'
  <2>1. \A g : Holding(x, g) <=> g = f BY <1>2, <1>5 DEF Holding
  <2>2. \A g : (Holding(y, g) => g = f) /\ (Emptying(y, g) <=> g = f) /\ ~Emptying(x, g)
    BY <1>2, <1>5, <1>10 DEF Holding, Emptying
  <2>3. f \notin clashed => x.seen = said[f] /\ (Parses(x) => x.parsed = said[f])
    BY <1>1, <1>4, <1>5, <1>7, <2>1 DEF FilesAreSaid
  <2>4. ASSUME NEW g \in Config!Files \ clashed'
        PROVE  FileStays(p, x, y, g)
    BY <1>5, <1>8, <1>10, <1>12, <2>1, <2>2, <2>3 DEF FileStays
  <2> QED BY <1>1, <1>4, <1>5, <2>4, FilesMove
<1>15. Follows'
  <2>1. ASSUME ~met'
        PROVE  /\ \A q \in Threads \ {p} : rewriting[q].step = "idle"
               /\ clashed' = {} /\ FollowsBut(y)'
    <3>1. /\ \A q \in Threads \ {p} : rewriting[q].step = "idle"
          /\ clashed = {} /\ FollowsBut(x)
      BY <1>1, <1>4, <1>5, <2>1, SoleRequest
    <3> QED BY <1>5, <1>10, <3>1, FollowsOn
  <2>2. y.step # "idle" BY <1>10
  <2>3. ASSUME ~met', NEW z, z = y PROVE FollowsBut(z)' BY <2>1, <2>3
  <2> QED BY <1>4, <1>5, <2>1, <2>2, <2>3, FollowsMoves
<1> QED BY <1>13, <1>14, <1>15 DEF SettingsHold

\* What a file is rewritten with is said of it, and applied next.
LEMMA FollowsFill ==
  ASSUME NEW x, NEW y, NEW f \in Config!Files, NEW s \in Config!Settings[f], NEW v,
         x.left[1] = <<f, s>>, x.step = "fill", x.value = v, FollowsBut(x), UNCHANGED live,
         said = [g \in Config!Files |-> said[g]],
         \A g \in Config!Files : said[g] \in [Config!Settings[g] -> Values],
         said' = [said EXCEPT ![f] = [said[f] EXCEPT ![s] = v]],
         y.value = v,
         \/ /\ f = "env" /\ y.step \notin {"idle", "apply"}
            /\ \/ s = "llm" /\ \E m \in Config!Models : y.left[1] = <<"providers", m>>
               \/ s \in {"tts", "embedding"} /\ y.left[1] = <<"providers", s>>
         \/ /\ f # "env" /\ y.left = x.left /\ y.step = "apply"
            /\ f = "providers" => s \in Config!Models \cup {"tts", "embedding"}
  PROVE  FollowsBut(y)'
<1>2. /\ \A g \in Config!Files : g # f => said'[g] = said[g]
      /\ said'[f] = [said[f] EXCEPT ![s] = v]
  OBVIOUS
<1>3. said'[f][s] = v /\ \A k \in Config!Settings[f] : k # s => said'[f][k] = said[f][k]
  BY <1>2
<1>4. CASE f = "env"
  <2>1. /\ \A k \in {"tts", "embedding"} :
             live[k] = said["env"][k] /\ live[k] = said["providers"][k]
        /\ live["llm"] = said["env"]["llm"]
        /\ \A k \in {"x", "y", "memory"} : live[k] = said["runtime"][k]
        /\ live["mcp"] = said["tools"]["mcp"]
    BY <1>4 DEF FollowsBut, Applies
  <2>2. /\ said'["providers"] = said["providers"] /\ said'["runtime"] = said["runtime"]
        /\ said'["tools"] = said["tools"]
    BY <1>2, <1>4, FilesAre
  <2>3. CASE s = "llm"
    <3>1. PICK m \in Config!Models : y.left[1] = <<"providers", m>> BY <1>4, <2>3
    <3>2. m \notin {"tts", "embedding"} BY FilesAre
    <3>3. said'["env"]["tts"] = said["env"]["tts"]
          /\ said'["env"]["embedding"] = said["env"]["embedding"]
      BY <1>3, <1>4, <2>3, FilesAre
    <3> QED BY <1>3, <1>4, <2>1, <2>2, <2>3, <3>1, <3>2, <3>3 DEF FollowsBut, Applies
  <2>4. CASE s # "llm"
    <3>1. s \in {"tts", "embedding"} /\ y.left[1] = <<"providers", s>> BY <1>4, <2>4
    <3>2. \A m \in Config!Models : y.left[1] # <<"providers", m>> BY <3>1, FilesAre
    <3>3. \A k \in {"tts", "embedding", "llm"} : k # s => said'["env"][k] = said["env"][k]
      BY <1>3, <1>4, FilesAre
    <3> QED BY <1>3, <1>4, <2>1, <2>2, <2>4, <3>1, <3>2, <3>3 DEF FollowsBut, Applies
  <2> QED BY <2>3, <2>4
<1>5. CASE f # "env"
  <2>1. said'["env"] = said["env"] BY <1>2, <1>5, FilesAre
  <2>2. CASE f = "providers"
    <3>1. said'["runtime"] = said["runtime"] /\ said'["tools"] = said["tools"]
      BY <1>2, <2>2, FilesAre
    <3>2. \A k \in {"tts", "embedding"} : k # s => said'["providers"][k] = said["providers"][k]
      BY <1>3, <2>2, FilesAre
    <3> QED BY <1>3, <1>5, <2>1, <2>2, <3>1, <3>2 DEF FollowsBut, Applies
  <2>3. CASE f = "runtime"
    <3>1. said'["providers"] = said["providers"] /\ said'["tools"] = said["tools"]
      BY <1>2, <2>3, FilesAre
    <3> QED BY <1>5, <2>1, <2>3, <3>1 DEF FollowsBut, Applies
  <2>4. CASE f = "tools"
    <3>1. said'["providers"] = said["providers"] /\ said'["runtime"] = said["runtime"]
      BY <1>2, <2>4, FilesAre
    <3> QED BY <1>5, <2>1, <2>4, <3>1 DEF FollowsBut, Applies
  <2> QED BY <1>5, <2>2, <2>3, <2>4, FilesAre
<1> QED BY <1>4, <1>5

LEMMA FillKeeps ==
  ASSUME SettingsHold, NEW p \in Threads, Config!Fill(p)
  PROVE  SettingsHold'
<1>1. PICK x : x = rewriting[p] OBVIOUS
<1>2. PICK l : l = x.left OBVIOUS
<1>3. PICK f : f = l[1][1] OBVIOUS
<1>4. PICK s : s = l[1][2] OBVIOUS
<1>5. PICK c : c = Config!Rewritten(f, x, s) OBVIOUS
<1>6. SettingsTyped /\ FilesAreSaid /\ Follows BY DEF SettingsHold
<1>7. /\ file = [g \in Config!Files |-> file[g]] /\ said = [g \in Config!Files |-> said[g]]
      /\ \A g \in Config!Files :
           Config!Content(g, file[g]) /\ said[g] \in [Config!Settings[g] -> Values]
      /\ live \in [LiveSettings -> Values] /\ met \in BOOLEAN /\ used \in 0 .. MaxUpdates
      /\ clashed \subseteq Config!Files
  BY <1>6 DEF SettingsTyped
<1>8. /\ x.step = "fill" /\ file' = [file EXCEPT ![f] = c]
      /\ said' = [said EXCEPT ![f][s] = x.value]
      /\ rewriting' = [rewriting EXCEPT ![p] =
                         IF f = "env" THEN Config!Request(Config!Tail(l), x.value)
                         ELSE [x EXCEPT !.step = "apply"]]
      /\ UNCHANGED <<live, used, clashed, met>>
  BY <1>1, <1>2, <1>3, <1>4, <1>5 DEF Config!Fill, Config!File, Config!Setting
<1>9. Requesting(x) BY <1>1, <1>6 DEF SettingsTyped
<1>10. l \in Lefts /\ l # <<>> /\ x.value \in Values
       /\ Config!Content("providers", x.parsed) /\ Config!Content(f, x.seen)
  BY <1>2, <1>3, <1>8, <1>9 DEF Requesting
<1>11. /\ f \in Config!Files /\ s \in Config!Settings[f] /\ l[1] = <<f, s>>
       /\ Config!Tail(l) \in Lefts /\ (f = "env" => Config!Tail(l) # <<>>)
  BY <1>3, <1>4, <1>10, LeftsFollow
<1>12. said' = [said EXCEPT ![f] = [said[f] EXCEPT ![s] = x.value]]
  BY <1>7, <1>8, <1>11
<1>13. /\ file' = [g \in Config!Files |-> file'[g]] /\ said' = [g \in Config!Files |-> said'[g]]
       /\ file'[f] = c /\ said'[f] = [said[f] EXCEPT ![s] = x.value]
       /\ \A g \in Config!Files : g # f => file'[g] = file[g] /\ said'[g] = said[g]
  BY <1>7, <1>8, <1>11, <1>12
<1>14. PICK y : y = IF f = "env" THEN Config!Request(Config!Tail(l), x.value)
                    ELSE [x EXCEPT !.step = "apply"]
  OBVIOUS
<1>15. rewriting' = [rewriting EXCEPT ![p] = y] BY <1>8, <1>14
<1>16. f # "env" =>
         y = [left |-> l, step |-> "apply", parsed |-> x.parsed, seen |-> x.seen,
              value |-> x.value]
  BY <1>2, <1>9, <1>14 DEF Requesting
<1>17. /\ Requesting(y) /\ y.value = x.value
       /\ \/ f = "env" /\ y.left = Config!Tail(l) /\ y.step \notin {"idle", "apply"}
          \/ f # "env" /\ y.left = l /\ y.step = "apply"
       /\ \A g : ~Holding(y, g) /\ ~Emptying(y, g)
  <2>1. CASE f = "env"
    <3>1. PICK t : t = Config!Tail(l) OBVIOUS
    <3>2. t \in Lefts /\ t # <<>> BY <1>11, <2>1, <3>1
    <3>4. y = Config!Request(t, x.value) BY <1>14, <2>1, <3>1
    <3>3. /\ Requesting(y) /\ y.left = t /\ y.step \in {"idle", "parse", "read"}
          /\ y.value = x.value /\ y.step # "idle"
          /\ \A g : ~Holding(y, g) /\ ~Emptying(y, g)
      BY <1>10, <3>2, <3>4, Requested
    <3> QED BY <2>1, <3>1, <3>3
  <2>2. CASE f # "env"
    <3>1. /\ y.left = l /\ y.step = "apply" /\ y.parsed = x.parsed /\ y.seen = x.seen
          /\ y.value = x.value
      BY <1>16, <2>2
    <3>2. Requesting(y) BY <1>3, <1>10, <1>16, <2>2, <3>1 DEF Requesting
    <3> QED BY <2>2, <3>1, <3>2 DEF Holding, Emptying
  <2> QED BY <2>1, <2>2
<1>18. SettingsTyped'
  <2>1. Config!Content(f, c) BY <1>5, <1>7, <1>10, <1>11, RewrittenTypes
  <2>2. [said[f] EXCEPT ![s] = x.value] \in [Config!Settings[f] -> Values]
    BY <1>7, <1>10, <1>11
  <2>3. \A g \in Config!Files :
          Config!Content(g, file'[g]) /\ said'[g] \in [Config!Settings[g] -> Values]
    BY <1>7, <1>13, <2>1, <2>2
  <2>4. live' \in [LiveSettings -> Values] /\ met' \in BOOLEAN /\ used' \in 0 .. MaxUpdates
        /\ clashed' \subseteq Config!Files
    BY <1>7, <1>8
  <2> QED BY <1>6, <1>13, <1>15, <1>17, <2>3, <2>4, RequestMoves
<1>19. FilesAreSaid'
  <2>1. \A g : (Holding(x, g) <=> g = f) /\ (Emptying(x, g) <=> g = f)
    BY <1>2, <1>3, <1>8 DEF Holding, Emptying
  <2>2. f \notin clashed => c = said'[f]
    <3> SUFFICES ASSUME f \notin clashed PROVE c = said'[f] OBVIOUS
    <3>1. x.seen = said[f] /\ (Parses(x) => x.parsed = said[f])
      BY <1>1, <1>6, <1>8, <1>11, <2>1 DEF FilesAreSaid
    <3>2. f = "providers" /\ s \in Config!Models => Parses(x)
      BY <1>2, <1>10, <1>11 DEF Parses
    <3>3. Config!Rewritten(f, x, s) = [said[f] EXCEPT ![s] = x.value]
      BY <1>7, <1>11, <3>1, <3>2, RewrittenIsSaid
    <3> QED BY <1>5, <1>13, <3>3
  <2>3. ASSUME NEW g \in Config!Files \ clashed'
        PROVE  FileStays(p, x, y, g)
    BY <1>8, <1>13, <1>17, <2>1, <2>2 DEF FileStays
  <2>4. clashed \subseteq clashed' BY <1>8
  <2> QED BY <1>1, <1>6, <1>15, <2>3, <2>4, FilesMove
<1>20. Follows'
  <2>1. ASSUME ~met'
        PROVE  /\ \A q \in Threads \ {p} : rewriting[q].step = "idle"
               /\ clashed' = {} /\ FollowsBut(y)'
    <3>1. /\ \A q \in Threads \ {p} : rewriting[q].step = "idle"
          /\ clashed = {} /\ FollowsBut(x)
      BY <1>1, <1>6, <1>8, <2>1, SoleRequest
    <3>2. FollowsBut(y)'
      <4>1. /\ x.left[1] = <<f, s>> /\ x.step = "fill" /\ FollowsBut(x)
            /\ UNCHANGED live /\ said = [g \in Config!Files |-> said[g]]
            /\ said' = [said EXCEPT ![f] = [said[f] EXCEPT ![s] = x.value]]
        BY <1>2, <1>7, <1>8, <1>10, <1>11, <1>12, <3>1
      <4>2. \A g \in Config!Files : said[g] \in [Config!Settings[g] -> Values] BY <1>7
      <4>3. /\ f = "env" => s \in {"llm", "tts", "embedding"}
            /\ f = "providers" => s \in Config!Models \cup {"tts", "embedding"}
            /\ l[1] = <<"env", "llm">> =>
                 \E m \in Config!Models : Config!Tail(l)[1] = <<"providers", m>>
            /\ \A k \in {"tts", "embedding"} :
                 l[1] = <<"env", k>> => Config!Tail(l)[1] = <<"providers", k>>
        BY <1>3, <1>4, <1>10, LeftsFollow
      <4>4. f = "env" =>
              \/ s = "llm" /\ \E m \in Config!Models : y.left[1] = <<"providers", m>>
              \/ s \in {"tts", "embedding"} /\ y.left[1] = <<"providers", s>>
        BY <1>11, <1>17, <4>3
      <4>5. \/ /\ f = "env" /\ y.step \notin {"idle", "apply"}
               /\ \/ s = "llm" /\ \E m \in Config!Models : y.left[1] = <<"providers", m>>
                  \/ s \in {"tts", "embedding"} /\ y.left[1] = <<"providers", s>>
            \/ /\ f # "env" /\ y.left = x.left /\ y.step = "apply"
               /\ f = "providers" => s \in Config!Models \cup {"tts", "embedding"}
        BY <1>2, <1>17, <4>3, <4>4
      <4>6. y.value = x.value /\ f \in Config!Files /\ s \in Config!Settings[f]
        BY <1>11, <1>17
      <4> QED BY <4>1, <4>2, <4>5, <4>6, FollowsFill
    <3> QED BY <1>8, <3>1, <3>2
  <2>2. y.step # "idle" BY <1>17
  <2>3. ASSUME ~met', NEW z, z = y PROVE FollowsBut(z)' BY <2>1, <2>3
  <2> QED BY <1>6, <1>15, <2>1, <2>2, <2>3, FollowsMoves
<1> QED BY <1>18, <1>19, <1>20 DEF SettingsHold

\* The request is applied: the runtime has all that was written.
LEMMA AppliedSettles ==
  ASSUME SettingsHold, ~met, NEW p \in Threads, NEW x, x = rewriting[p], NEW l \in Lefts,
         l # <<>>, x.left = l, x.step = "apply", l[1][1] # "env",
         live' = Config!Applied(l[1][1], l[1][2], x.value), UNCHANGED <<file, said>>
  PROVE  Settled' /\ \A q \in Threads \ {p} : rewriting[q].step = "idle"
<1>1. SettingsTyped /\ FilesAreSaid /\ Follows BY DEF SettingsHold
<1>2. /\ \A q \in Threads \ {p} : rewriting[q].step = "idle"
      /\ clashed = {} /\ FollowsBut(x)
  BY <1>1, SoleRequest
<1>3. \A f \in Config!Files : file[f] = said[f]
  <2>1. \A q \in Threads : \A f : ~Emptying(rewriting[q], f) BY <1>2 DEF Emptying
  <2> QED BY <1>1, <1>2, <2>1 DEF FilesAreSaid
<1>4. live \in [LiveSettings -> Values]
      /\ \A f \in Config!Files : DOMAIN said[f] = Config!Settings[f]
  BY <1>1 DEF SettingsTyped
<1>5. PICK f : f = l[1][1] OBVIOUS
<1>6. PICK s : s = l[1][2] OBVIOUS
<1>7. /\ f \in Config!Files /\ s \in Config!Settings[f] /\ x.left[1] = <<f, s>> /\ f # "env"
      /\ f = "providers" => s \in Config!Models \cup {"tts", "embedding"}
      /\ f = "tools" => s = "mcp"
  BY <1>5, <1>6, LeftsFollow
<1>8. /\ file["providers"] = said["providers"] /\ file["runtime"] = said["runtime"]
      /\ file["tools"] = said["tools"]
  BY <1>3, FilesAre
<1>9. /\ DOMAIN said["providers"] = {"a", "b", "tts", "asr", "embedding", "other"}
      /\ DOMAIN said["runtime"] = {"x", "y", "memory"} /\ DOMAIN said["tools"] = {"mcp", "other"}
      /\ DOMAIN live = {"llm", "tts", "embedding", "x", "y", "memory", "mcp"}
  BY <1>4, FilesAre DEF LiveSettings
<1>10. live' = Config!Applied(f, s, x.value) BY <1>5, <1>6
<1>11. Config!Loaded(file["runtime"]) = [k \in {"x", "y", "memory"} |-> said["runtime"][k]]
  BY <1>8, <1>9 DEF Config!Loaded, Config!Of
<1>12. /\ Config!Of(file["tools"], "mcp") = said["tools"]["mcp"]
       /\ Config!Of(file["providers"], "tts") = said["providers"]["tts"]
       /\ Config!Of(file["providers"], "embedding") = said["providers"]["embedding"]
  BY <1>8, <1>9 DEF Config!Of
<1>13. \A m \in Config!Models : m \notin {"tts", "embedding", "x", "y"} BY FilesAre
<1>14. Settled'
  <2>1. CASE f = "tools"
    <3>1. live' = [live EXCEPT !["mcp"] = said["tools"]["mcp"]]
      BY <1>10, <1>12, <2>1 DEF Config!Applied
    <3> QED BY <1>2, <1>7, <1>9, <2>1, <3>1 DEF FollowsBut, Applies, Settled
  <2>2. CASE f = "providers" /\ s \in Config!Models
    <3>1. live' = [live EXCEPT !["llm"] = x.value] BY <1>10, <2>2 DEF Config!Applied
    <3> QED BY <1>2, <1>7, <1>9, <1>13, <2>2, <3>1 DEF FollowsBut, Applies, Settled
  <2>3. CASE f = "providers" /\ s = "tts"
    <3>1. live' = [live EXCEPT !["tts"] = said["providers"]["tts"]]
      BY <1>10, <1>12, <1>13, <2>3 DEF Config!Applied
    <3> QED BY <1>2, <1>7, <1>9, <1>13, <2>3, <3>1 DEF FollowsBut, Applies, Settled
  <2>4. CASE f = "runtime" \/ (f = "providers" /\ s = "embedding")
    <3>1. s \notin Config!Models /\ s # "tts" BY <1>7, <1>13, <2>4, FilesAre
    <3>2. live' = [k \in DOMAIN live |->
                     IF k \in {"x", "y", "memory"} THEN said["runtime"][k]
                     ELSE IF k = "embedding" THEN said["providers"]["embedding"] ELSE live[k]]
      BY <1>10, <1>11, <1>12, <2>4, <3>1 DEF Config!Applied
    <3>3. /\ live'["tts"] = live["tts"] /\ live'["llm"] = live["llm"]
          /\ live'["mcp"] = live["mcp"] /\ live'["embedding"] = said["providers"]["embedding"]
          /\ \A k \in {"x", "y", "memory"} : live'[k] = said["runtime"][k]
      BY <1>9, <3>2
    <3> QED BY <1>2, <1>7, <1>13, <2>4, <3>3 DEF FollowsBut, Applies, Settled
  <2> QED BY <1>7, <2>1, <2>2, <2>3, <2>4, FilesAre
<1> QED BY <1>2, <1>14

\* What is read of a file is a value of a setting.
LEMMA ReadTypes ==
  ASSUME NEW f \in Config!Files, NEW c, Config!Content(f, c), NEW s
  PROVE  Config!Of(c, s) \in Values
BY SettingsAssumed DEF Config!Of, Config!Content, Values

LEMMA ApplyKeeps ==
  ASSUME SettingsHold, NEW p \in Threads, Config!Apply(p)
  PROVE  SettingsHold'
<1>1. PICK x : x = rewriting[p] OBVIOUS
<1>2. PICK l : l = x.left OBVIOUS
<1>3. SettingsTyped /\ FilesAreSaid /\ Follows BY DEF SettingsHold
<1>4. /\ x.step = "apply" /\ live' = Config!Applied(l[1][1], l[1][2], x.value)
      /\ \E t \in {Config!Tail(l), <<>>} :
           rewriting' = [rewriting EXCEPT ![p] = Config!Request(t, x.value)]
      /\ UNCHANGED <<file, used, said, clashed, met>>
  BY <1>1, <1>2 DEF Config!Apply, Config!File, Config!Setting
<1>5. Requesting(x) BY <1>1, <1>3 DEF SettingsTyped
<1>6. l \in Lefts /\ l # <<>> /\ l[1][1] # "env" /\ x.value \in Values
  BY <1>2, <1>4, <1>5 DEF Requesting
<1>7. PICK t : /\ t \in {Config!Tail(l), <<>>}
               /\ rewriting' = [rewriting EXCEPT ![p] = Config!Request(t, x.value)]
  BY <1>4
<1>8. t \in Lefts /\ (t # <<>> => t[1][1] = "runtime")
  <2>1. <<>> \in Lefts BY DEF Lefts
  <2>2. PICK u : u = Config!Tail(l) OBVIOUS
  <2>3. u \in Lefts /\ (u # <<>> => u[1][1] = "runtime") BY <1>6, <2>2, LeftsFollow
  <2>4. t = u \/ t = <<>> BY <1>7, <2>2
  <2> QED BY <2>1, <2>3, <2>4
<1>9. PICK y : y = Config!Request(t, x.value) OBVIOUS
<1>10. rewriting' = [rewriting EXCEPT ![p] = y] BY <1>7, <1>9
<1>11. /\ Requesting(y) /\ y.left = t /\ y.step \in {"idle", "parse", "read"}
       /\ y.step = "idle" <=> t = <<>>
       /\ \A f : ~Holding(y, f) /\ ~Emptying(y, f)
  BY <1>6, <1>8, <1>9, Requested
<1>12. PICK f : f = l[1][1] OBVIOUS
<1>13. PICK s : s = l[1][2] OBVIOUS
<1>14. SettingsTyped'
  <2>1. /\ \A g \in Config!Files : Config!Content(g, file[g]) /\ said[g] \in [Config!Settings[g] -> Values]
        /\ file = [g \in Config!Files |-> file[g]] /\ said = [g \in Config!Files |-> said[g]]
        /\ live \in [LiveSettings -> Values] /\ met \in BOOLEAN /\ used \in 0 .. MaxUpdates
        /\ clashed \subseteq Config!Files
    BY <1>3 DEF SettingsTyped
  <2>2. \A k : /\ Config!Of(file["tools"], k) \in Values
               /\ Config!Of(file["providers"], k) \in Values
               /\ Config!Of(file["runtime"], k) \in Values
    BY <2>1, ReadTypes, FilesAre
  <2>3. live' = Config!Applied(f, s, x.value) BY <1>4, <1>12, <1>13
  <2>4. live' \in [LiveSettings -> Values]
    <3>1. CASE f = "tools"
      <4>1. live' = [live EXCEPT !["mcp"] = Config!Of(file["tools"], "mcp")]
        BY <2>3, <3>1 DEF Config!Applied
      <4> QED BY <2>1, <2>2, <4>1
    <3>2. CASE f # "tools" /\ s \in Config!Models
      <4>1. live' = [live EXCEPT !["llm"] = x.value] BY <2>3, <3>2 DEF Config!Applied
      <4> QED BY <1>6, <2>1, <4>1
    <3>3. CASE f # "tools" /\ s \notin Config!Models /\ s = "tts"
      <4>1. live' = [live EXCEPT !["tts"] = Config!Of(file["providers"], "tts")]
        BY <2>3, <3>3 DEF Config!Applied
      <4> QED BY <2>1, <2>2, <4>1
    <3>4. CASE f # "tools" /\ s \notin Config!Models /\ s # "tts"
      <4>1. PICK r : r = Config!Loaded(file["runtime"]) OBVIOUS
      <4>2. \A k \in DOMAIN r : r[k] \in Values BY <2>2, <4>1 DEF Config!Loaded
      <4>3. live' = [k \in DOMAIN live |->
                       IF k \in DOMAIN r THEN r[k]
                       ELSE IF k = "embedding" THEN Config!Of(file["providers"], k) ELSE live[k]]
        BY <2>3, <3>4, <4>1 DEF Config!Applied
      <4> QED BY <2>1, <2>2, <4>2, <4>3
    <3> QED BY <3>1, <3>2, <3>3, <3>4
  <2> QED BY <1>3, <1>4, <1>10, <1>11, <2>1, <2>4, RequestMoves
<1>15. FilesAreSaid'
  <2>1. \A g : ~Emptying(x, g) BY <1>4 DEF Emptying
  <2>2. ASSUME NEW g \in Config!Files \ clashed'
        PROVE  FileStays(p, x, y, g)
    BY <1>4, <1>11, <2>1 DEF FileStays
  <2>3. clashed \subseteq clashed' BY <1>4
  <2> QED BY <1>1, <1>3, <1>10, <2>2, <2>3, FilesMove
<1>16. Follows'
  <2>1. ASSUME ~met'
        PROVE  /\ \A q \in Threads \ {p} : rewriting[q].step = "idle"
               /\ clashed' = {} /\ Settled'
    <3>1. ~met BY <1>4, <2>1
    <3>2. clashed = {} BY <1>3, <3>1 DEF Follows
    <3> QED BY <1>1, <1>2, <1>4, <1>6, <3>1, <3>2, AppliedSettles
  <2>2. ASSUME ~met', NEW z, z = y \/ (y.step = "idle" /\ z = Config!Idle)
        PROVE  FollowsBut(z)'
    <3>1. z.step = "idle" \/ (z.step # "apply" /\ \A k : z.left[1] # <<"providers", k>>)
      <4>1. CASE z = Config!Idle BY <4>1 DEF Config!Idle
      <4>2. CASE z = y /\ t # <<>>
        <5>1. \A k : t[1] # <<"providers", k>> BY <1>8, <4>2
        <5> QED BY <1>11, <4>2, <5>1
      <4>3. CASE z = y /\ t = <<>> BY <1>11, <4>3
      <4> QED BY <2>2, <4>1, <4>2, <4>3
    <3> QED BY <2>1, <2>2, <3>1, SettledFollows
  <2> QED BY <1>3, <1>10, <2>1, <2>2, FollowsMoves
<1> QED BY <1>14, <1>15, <1>16 DEF SettingsHold

LEMMA SettingsRestart ==
  ASSUME SettingsHold, Config!Restart
  PROVE  SettingsHold'
<1>1. SettingsTyped /\ FilesAreSaid BY DEF SettingsHold
<1>2. /\ rewriting' = [p \in Threads |-> Config!Idle] /\ live' = Config!Started(file)
      /\ clashed' = clashed \cup {f \in Config!Files : \E p \in Threads : Config!Emptied(p, f)}
      /\ met' = TRUE /\ UNCHANGED <<file, used, said>>
  BY DEF Config!Restart
<1>3. Requesting(Config!Idle) /\ Config!Idle.step = "idle"
  <2>1. 0 \in Values /\ <<>> \in Lefts BY SettingsAssumed DEF Values, Lefts
  <2>2. Config!Idle = Config!Request(<<>>, 0)
    BY DEF Config!Idle, Config!Request, Config!First, Config!Nothing
  <2> QED BY <2>1, <2>2, Requested
<1>4. SettingsTyped'
  <2>1. \A p \in Threads : Requesting(rewriting[p])'
    <3> SUFFICES ASSUME NEW p \in Threads PROVE Requesting(rewriting[p])' OBVIOUS
    <3>1. PICK x : x = rewriting'[p] OBVIOUS
    <3>2. Requesting(x) BY <1>2, <1>3, <3>1
    <3> QED BY <3>1, <3>2 DEF Requesting, Parses
  <2>2. live' \in [LiveSettings -> Values]
    <3>1. \A k : /\ Config!Of(file["tools"], k) \in Values
                 /\ Config!Of(file["env"], k) \in Values
                 /\ Config!Of(file["runtime"], k) \in Values
      BY <1>1, ReadTypes, FilesAre DEF SettingsTyped
    <3>2. PICK r : r = Config!Loaded(file["runtime"]) OBVIOUS
    <3>3. DOMAIN r = {"x", "y", "memory"} /\ \A k \in DOMAIN r : r[k] \in Values
      BY <3>1, <3>2 DEF Config!Loaded
    <3>4. DOMAIN live = LiveSettings BY <1>1 DEF SettingsTyped
    <3>5. live' = [s \in LiveSettings |->
                     IF s \in DOMAIN r THEN r[s]
                     ELSE IF s = "mcp" THEN Config!Of(file["tools"], "mcp")
                     ELSE Config!Of(file["env"], s)]
      BY <1>2, <3>2, <3>4 DEF Config!Started
    <3> QED BY <3>1, <3>3, <3>5
  <2>3. clashed' \subseteq Config!Files BY <1>1, <1>2 DEF SettingsTyped
  <2>4. met' \in BOOLEAN /\ rewriting' = [p \in Threads |-> rewriting'[p]] BY <1>2
  <2> QED BY <1>1, <1>2, <2>1, <2>2, <2>3, <2>4 DEF SettingsTyped
<1>5. FilesAreSaid'
  <2>1. \A p \in Threads : \A f : ~Holding(rewriting'[p], f) BY <1>2, <1>3 DEF Holding
  <2>2. ASSUME NEW f \in Config!Files \ clashed' PROVE file'[f] = said'[f]
    <3>1. f \notin clashed /\ \A p \in Threads : ~Config!Emptied(p, f) BY <1>2, <2>2
    <3>2. \A p \in Threads : ~Emptying(rewriting[p], f)
      BY <3>1 DEF Emptying, Config!Emptied, Config!File
    <3> QED BY <1>1, <1>2, <2>2, <3>1, <3>2 DEF FilesAreSaid
  <2>3. \A p \in Threads, f \in Config!Files : ~Holding(rewriting[p], f)'
    BY <2>1 DEF Holding, Parses
  <2> QED BY <2>2, <2>3 DEF FilesAreSaid
<1>6. Follows' BY <1>2 DEF Follows
<1> QED BY <1>4, <1>5, <1>6 DEF SettingsHold

LEMMA SettingsBegin ==
  ASSUME Init
  PROVE  SettingsInv
<1> SUFFICES ASSUME Config!Init PROVE SettingsHold BY DEF Init, PartsInit, SettingsInv
<1>1. /\ file = Config!Written /\ said = Config!Written
      /\ live = [s \in LiveSettings |-> 1] /\ rewriting = [p \in Threads |-> Config!Idle]
      /\ used = 0 /\ clashed = {} /\ met = FALSE
  BY DEF Config!Init, LiveSettings
<1>2. 1 \in Values /\ 0 \in Values /\ <<>> \in Lefts BY SettingsAssumed DEF Values, Lefts
<1>3. Requesting(Config!Idle) /\ Config!Idle.step = "idle"
  <2>1. Config!Idle = Config!Request(<<>>, 0)
    BY DEF Config!Idle, Config!Request, Config!First, Config!Nothing
  <2> QED BY <1>2, <2>1, Requested
<1>4. /\ said = [f \in Config!Files |-> said[f]]
      /\ \A f \in Config!Files : said[f] = [s \in Config!Settings[f] |-> 1]
  BY <1>1 DEF Config!Written
<1>5. SettingsTyped
  <2>1. \A f \in Config!Files : said[f] \in [Config!Settings[f] -> Values] BY <1>2, <1>4
  <2>2. \A f \in Config!Files : Config!Content(f, file[f])
    BY <1>1, <2>1 DEF Config!Content, Values
  <2>3. used \in 0 .. MaxUpdates BY <1>1, SettingsAssumed
  <2> QED BY <1>1, <1>2, <1>3, <1>4, <2>1, <2>2, <2>3 DEF SettingsTyped
<1>6. \A p \in Threads : rewriting[p].step = "idle" BY <1>1, <1>3
<1>7. FilesAreSaid BY <1>1, <1>6 DEF FilesAreSaid, Holding
<1>8. Follows
  <2>1. FollowsBut(Config!Idle)
    BY <1>1, <1>3, <1>4, FilesAre DEF FollowsBut, Applies, LiveSettings
  <2> QED BY <1>1, <1>6, <2>1 DEF Follows
<1> QED BY <1>5, <1>7, <1>8 DEF SettingsHold

LEMMA SettingsSteps ==
  ASSUME SettingsInv, [Next]_<<part, input, partVars>>
  PROVE  SettingsInv'
<1>1. CASE part = "settings"
  <2>1. part' = part /\ (Config!Next \/ UNCHANGED partVars)
    BY <1>1 DEF Next, PartsNext, Ask, partVars
  <2>2. SettingsHold BY <1>1 DEF SettingsInv
  <2>3. CASE UNCHANGED partVars
    <3>1. UNCHANGED <<file, live, rewriting, used, said, clashed, met>> BY <2>3 DEF partVars
    <3>2. SettingsTyped' BY <2>2, <3>1 DEF SettingsHold, SettingsTyped, Requesting, Parses
    <3>3. FilesAreSaid'
      BY <2>2, <3>1 DEF SettingsHold, FilesAreSaid, Holding, Parses, Emptying
    <3>4. Follows' BY <2>2, <3>1 DEF SettingsHold, Follows, FollowsBut, Applies
    <3> QED BY <2>1, <3>2, <3>3, <3>4 DEF SettingsInv, SettingsHold
  <2>4. CASE Config!Restart BY <2>1, <2>2, <2>4, SettingsRestart DEF SettingsInv
  <2>5. CASE \E p \in Threads :
               \/ Config!Begin(p) \/ Config!Parse(p) \/ Config!Read(p)
               \/ Config!Open(p) \/ Config!Fill(p) \/ Config!Apply(p)
    <3>1. SettingsHold'
      BY <2>2, <2>5, BeginKeeps, ParseKeeps, ReadKeeps, OpenKeeps, FillKeeps, ApplyKeeps
    <3> QED BY <3>1 DEF SettingsInv
  <2> QED BY <2>1, <2>3, <2>4, <2>5 DEF Config!Next
<1>2. CASE part # "settings"
  <2>1. part' = part BY DEF Next, PartsNext, Ask
  <2> QED BY <1>2, <2>1 DEF SettingsInv
<1> QED BY <1>1, <1>2

LEMMA SettingsHoldKept ==
  ASSUME SettingsHold
  PROVE  Config!SettingsKept
<1>1. SettingsTyped /\ FilesAreSaid /\ Follows BY DEF SettingsHold
<1>2. Config!OthersKept
  BY <1>1 DEF Config!OthersKept, FilesAreSaid, Emptying, Config!Emptied, Config!File
<1>3. Config!RuntimeFollows
  <2> SUFFICES ASSUME ~met, \A p \in Threads : ~Config!Busy(p)
               PROVE  /\ \A s \in {"tts", "embedding"} :
                           live[s] = file["env"][s] /\ live[s] = file["providers"][s]
                      /\ live["llm"] = file["env"]["llm"]
                      /\ \A s \in {"x", "y", "memory"} : live[s] = file["runtime"][s]
                      /\ live["mcp"] = file["tools"]["mcp"]
    BY DEF Config!RuntimeFollows
  <2>1. \A p \in Threads : rewriting[p].step = "idle" BY DEF Config!Busy
  <2>2. Settled /\ clashed = {} BY <1>1, <2>1, IdleIsSettled DEF Follows
  <2>3. \A f \in Config!Files : file[f] = said[f]
    BY <1>1, <2>1, <2>2 DEF FilesAreSaid, Emptying
  <2>4. /\ file["env"] = said["env"] /\ file["providers"] = said["providers"]
        /\ file["runtime"] = said["runtime"] /\ file["tools"] = said["tools"]
    BY <2>3, FilesAre
  <2> QED BY <2>2, <2>4 DEF Settled
<1> QED BY <1>2, <1>3 DEF Config!SettingsKept

\* For any number of threads, updates and kinds of them: a file that no two requests
\* rewrote at a time, and no crash cut short, has every setting as it was last written,
\* and without overlapping requests the runtime works with what is on disk
\* (assemble_providers_config, update_runtime_config_content, reload_runtime_config).
THEOREM SettingsStayKept == Spec => [](part = "settings" => Config!SettingsKept)
<1>1. Init => SettingsInv BY SettingsBegin
<1>2. SettingsInv /\ [Next]_<<part, input, partVars>> => SettingsInv' BY SettingsSteps
<1>3. SettingsInv => (part = "settings" => Config!SettingsKept)
  BY SettingsHoldKept DEF SettingsInv
<1> QED BY <1>1, <1>2, <1>3, PTL DEF Spec

----------------------------------------------------------------------------
(* The event bus: what a client has got, and what is in its queue.         *)

stream == v1
queued == v2
got == v3
sent == v4
publishing == v5
missed == v6
wasFull == v7
USE DEF stream, queued, got, sent, publishing, missed, wasFull

Events == Threads \X Nat

BusTyped ==
  /\ stream \in {"before", "open", "over"}
  /\ queued \in Seq(Events) /\ got \in Seq(Events) /\ Len(queued) <= QueueSize
  /\ sent \in [Threads -> 0 .. MaxEvents]
  /\ publishing \in [Threads -> {"idle", "put", "drop", "again", "raised"}]
  /\ missed \subseteq Events /\ wasFull \in BOOLEAN

\* No event is younger than the last of its publisher, and while that is on its way
\* the others are older.
Counted(s) == \A m \in 1 .. Len(s) :
  /\ s[m][2] <= sent[s[m][1]]
  /\ publishing[s[m][1]] \in {"put", "drop", "again"} => s[m][2] < sent[s[m][1]]

Ordered(s) == \A m, n \in 1 .. Len(s) : m < n /\ s[m][1] = s[n][1] => s[m][2] < s[n][2]

\* Only who found the queue full drops an event.
NothingMissed(s) == ~wasFull =>
  /\ \A p \in Threads : publishing[p] \in {"idle", "put"}
  /\ \A e \in missed : (\E m \in 1 .. Len(s) : s[m] = e) \/ Bus!OnItsWay(e)

BusHolds ==
  /\ BusTyped
  /\ Counted(Bus!Stream) /\ Ordered(Bus!Stream) /\ NothingMissed(Bus!Stream)

BusInv == part = "bus" => BusHolds

LEMMA BusAssumed == QueueSize \in Nat \ {0} /\ MaxEvents \in Nat
BY ServicesAssumption DEF Bus!BusAssumption

\* A stream s of what was got (g) and what is queued (q).
Joined(s, g, q) ==
  /\ s \in Seq(Events) /\ Len(s) = Len(g) + Len(q)
  /\ \A i \in 1 .. Len(g) : s[i] = g[i]
  /\ \A i \in Len(g) + 1 .. Len(s) : s[i] = q[i - Len(g)]

LEMMA StreamIs ==
  ASSUME NEW g \in Seq(Events), NEW q \in Seq(Events)
  PROVE  Joined(g \o q, g, q)
<1>1. PICK s : s = g \o q OBVIOUS
<1>2. PICK m \in Nat : m = Len(g) OBVIOUS
<1>3. PICK n \in Nat : n = Len(q) OBVIOUS
<1>4. /\ s \in Seq(Events) /\ Len(s) = m + n
      /\ \A i \in 1 .. m + n : s[i] = IF i <= m THEN g[i] ELSE q[i - m]
  BY <1>1, <1>2, <1>3, ConcatProperties
<1>5. \A i \in 1 .. m : s[i] = g[i] BY <1>4
<1>6. \A i \in m + 1 .. m + n : s[i] = q[i - m] BY <1>4
<1> QED BY <1>1, <1>2, <1>3, <1>4, <1>5, <1>6 DEF Joined

\* The client gets the head of the queue.
LEMMA StreamDelivers ==
  ASSUME NEW g \in Seq(Events), NEW q \in Seq(Events), q # <<>>
  PROVE  Append(g, Head(q)) \o Tail(q) = g \o q
<1>1. PICK s : s = g \o q OBVIOUS
<1>2. PICK a : a = Append(g, Head(q)) OBVIOUS
<1>3. PICK r : r = Tail(q) OBVIOUS
<1>4. PICK t : t = a \o r OBVIOUS
<1>5. Len(g) \in Nat /\ Len(q) \in Nat \ {0} /\ Head(q) = q[1] /\ q[1] \in Events BY EmptySeq
<1>6. /\ a \in Seq(Events) /\ Len(a) = Len(g) + 1
      /\ \A i \in 1 .. Len(g) : a[i] = g[i]
      /\ a[Len(g) + 1] = q[1]
  BY <1>2, <1>5
<1>7. /\ r \in Seq(Events) /\ Len(r) = Len(q) - 1
      /\ \A i \in 1 .. Len(r) : r[i] = q[i + 1]
  BY <1>3, HeadTailProperties
<1>8. Joined(s, g, q) BY <1>1, StreamIs
<1>9. Joined(t, a, r) BY <1>4, <1>6, <1>7, StreamIs
<1> USE DEF Joined
<1>10. Len(s) = Len(t) BY <1>5, <1>6, <1>7, <1>8, <1>9
<1>11. ASSUME NEW i \in 1 .. Len(s) PROVE t[i] = s[i]
  <2>1. CASE i <= Len(g) BY <1>5, <1>6, <1>8, <1>9, <1>10, <2>1
  <2>2. CASE i = Len(g) + 1 BY <1>5, <1>6, <1>8, <1>9, <1>10, <2>2
  <2>3. CASE i > Len(g) + 1
    <3>1. /\ i - Len(a) \in 1 .. Len(r) /\ (i - Len(a)) + 1 = i - Len(g)
          /\ i \in Len(a) + 1 .. Len(t) /\ i \in Len(g) + 1 .. Len(s)
      BY <1>5, <1>6, <1>7, <1>8, <1>10, <2>3
    <3>2. t[i] = r[i - Len(a)] BY <1>9, <3>1
    <3>3. s[i] = q[i - Len(g)] BY <1>8, <3>1
    <3> QED BY <1>7, <3>1, <3>2, <3>3
  <2> QED BY <1>5, <2>1, <2>2, <2>3
<1> QED BY <1>1, <1>2, <1>3, <1>4, <1>8, <1>9, <1>10, <1>11, SeqEqual

\* An event is put at its end.
LEMMA StreamGrows ==
  ASSUME NEW g \in Seq(Events), NEW q \in Seq(Events), NEW e \in Events,
         NEW s, s = g \o q, NEW t, t = g \o Append(q, e)
  PROVE  /\ t \in Seq(Events) /\ Len(s) \in Nat /\ Len(t) = Len(s) + 1
         /\ t[Len(t)] = e /\ \A i \in 1 .. Len(s) : t[i] = s[i]
<1>1. PICK r : r = Append(q, e) OBVIOUS
<1>2. /\ r \in Seq(Events) /\ Len(r) = Len(q) + 1 /\ r[Len(q) + 1] = e
      /\ \A i \in 1 .. Len(q) : r[i] = q[i]
  BY <1>1
<1>3. Joined(s, g, q) BY StreamIs
<1>4. Joined(t, g, r) BY <1>1, <1>2, StreamIs
<1> USE DEF Joined
<1>5. Len(g) \in Nat /\ Len(q) \in Nat OBVIOUS
<1>6. t[Len(t)] = e
  <2>1. Len(t) \in 1 .. Len(t) /\ ~(Len(t) <= Len(g)) /\ Len(t) - Len(g) = Len(q) + 1
    BY <1>2, <1>4, <1>5
  <2> QED BY <1>2, <1>4, <2>1
<1>7. ASSUME NEW i \in 1 .. Len(s) PROVE t[i] = s[i]
  <2>1. CASE i <= Len(g) BY <1>2, <1>3, <1>4, <1>5, <2>1
  <2>2. CASE i > Len(g)
    <3>1. i - Len(g) \in 1 .. Len(q) /\ i \in 1 .. Len(t) BY <1>2, <1>3, <1>4, <1>5, <2>2
    <3> QED BY <1>2, <1>3, <1>4, <1>5, <2>2, <3>1
  <2> QED BY <1>3, <1>5, <2>1, <2>2
<1> QED BY <1>2, <1>3, <1>4, <1>5, <1>6, <1>7

\* The head of the queue is dropped: the events after it move by one.
LEMMA StreamDrops ==
  ASSUME NEW g \in Seq(Events), NEW q \in Seq(Events), q # <<>>,
         NEW s, s = g \o q, NEW t, t = g \o Tail(q)
  PROVE  /\ t \in Seq(Events) /\ Len(t) \in Nat /\ Len(s) = Len(t) + 1
         /\ \A i \in 1 .. Len(t) : \/ i <= Len(g) /\ t[i] = s[i]
                                   \/ i > Len(g) /\ t[i] = s[i + 1]
<1>1. PICK r : r = Tail(q) OBVIOUS
<1>2. Len(g) \in Nat /\ Len(q) \in Nat \ {0} BY EmptySeq
<1>3. /\ r \in Seq(Events) /\ Len(r) = Len(q) - 1
      /\ \A i \in 1 .. Len(r) : r[i] = q[i + 1]
  BY <1>1, HeadTailProperties
<1>4. Joined(s, g, q) BY StreamIs
<1>5. Joined(t, g, r) BY <1>1, <1>3, StreamIs
<1> USE DEF Joined
<1>6. ASSUME NEW i \in 1 .. Len(t)
      PROVE  \/ i <= Len(g) /\ t[i] = s[i]
             \/ i > Len(g) /\ t[i] = s[i + 1]
  <2>1. CASE i <= Len(g) BY <1>2, <1>3, <1>4, <1>5, <2>1
  <2>2. CASE i > Len(g)
    <3>1. /\ i - Len(g) \in 1 .. Len(r) /\ i + 1 \in 1 .. Len(s) /\ ~(i + 1 <= Len(g))
          /\ (i - Len(g)) + 1 = (i + 1) - Len(g)
      BY <1>2, <1>3, <1>4, <1>5, <2>2
    <3>2. t[i] = r[i - Len(g)] BY <1>2, <1>5, <2>2
    <3>3. s[i + 1] = q[(i + 1) - Len(g)] BY <1>4, <3>1
    <3> QED BY <1>3, <2>2, <3>1, <3>2, <3>3
  <2> QED BY <1>2, <1>5, <2>1, <2>2
<1> QED BY <1>2, <1>3, <1>4, <1>5, <1>6

\* The stream stays, and so do the publishers.
LEMMA StreamStays ==
  ASSUME BusHolds, BusTyped', Bus!Stream' = Bus!Stream, UNCHANGED <<sent, publishing, missed, wasFull>>
  PROVE  BusHolds'
BY DEF BusHolds, Counted, Ordered, NothingMissed, Bus!OnItsWay, Bus!Event

\* An event comes to the end of the queue.
LEMMA PutKeeps ==
  ASSUME BusHolds, NEW p \in Threads, publishing[p] = "put" \/ (publishing[p] = "again" /\ wasFull),
         Len(queued) < QueueSize, queued' = Append(queued, <<p, sent[p]>>),
         publishing' = [publishing EXCEPT ![p] = "idle"],
         UNCHANGED <<stream, got, sent, missed, wasFull>>
  PROVE  BusHolds'
<1>1. PICK s : s = Bus!Stream OBVIOUS
<1>2. PICK t : t = Bus!Stream' OBVIOUS
<1>3. BusTyped /\ Counted(s) /\ Ordered(s) /\ NothingMissed(s) BY <1>1 DEF BusHolds
<1>4. /\ got \in Seq(Events) /\ queued \in Seq(Events)
      /\ sent \in [Threads -> 0 .. MaxEvents] /\ sent[p] \in Nat
      /\ publishing \in [Threads -> {"idle", "put", "drop", "again", "raised"}]
      /\ missed \subseteq Events
  BY <1>3, BusAssumed DEF BusTyped
<1>5. PICK e \in Events : e = <<p, sent[p]>> BY <1>4 DEF Events
<1>6. s = got \o queued /\ t = got \o Append(queued, e) BY <1>1, <1>2, <1>5 DEF Bus!Stream
<1>7. /\ t \in Seq(Events) /\ Len(s) \in Nat /\ Len(t) = Len(s) + 1
      /\ t[Len(t)] = e /\ \A i \in 1 .. Len(s) : t[i] = s[i]
  BY <1>4, <1>6, StreamGrows
<1>8. \A m \in 1 .. Len(t) : (m \in 1 .. Len(s) /\ t[m] = s[m]) \/ (m = Len(t) /\ t[m] = e)
  BY <1>7
<1>9. /\ e[1] = p /\ e[2] = sent[p] /\ publishing'[p] = "idle"
      /\ \A q \in Threads \ {p} : publishing'[q] = publishing[q]
  BY <1>4, <1>5
<1>10. BusTyped'
  <2>1. Append(queued, e) \in Seq(Events) /\ Len(Append(queued, e)) = Len(queued) + 1
        /\ Len(queued) \in Nat
    BY <1>4
  <2>2. Len(queued') <= QueueSize BY <1>5, <2>1, BusAssumed
  <2>3. publishing' \in [Threads -> {"idle", "put", "drop", "again", "raised"}] BY <1>4
  <2> QED BY <1>3, <1>5, <2>1, <2>2, <2>3 DEF BusTyped
<1>11. Counted(t)'
  <2> SUFFICES ASSUME NEW m \in 1 .. Len(t)
               PROVE  /\ t[m][2] <= sent[t[m][1]]
                      /\ publishing'[t[m][1]] \in {"put", "drop", "again"} =>
                           t[m][2] < sent[t[m][1]]
    BY DEF Counted
  <2>1. CASE m \in 1 .. Len(s) /\ t[m] = s[m]
    <3>1. s \in Seq(Events) BY <1>4, <1>6, StreamIs DEF Joined
    <3>2. t[m] \in Events BY <2>1, <3>1
    <3>3. t[m][1] \in Threads BY <3>2 DEF Events
    <3> QED BY <1>3, <1>9, <2>1, <3>3 DEF Counted
  <2>2. CASE m = Len(t) /\ t[m] = e BY <1>4, <1>9, <2>2
  <2> QED BY <1>8, <2>1, <2>2
<1>12. Ordered(t)
  <2> SUFFICES ASSUME NEW m \in 1 .. Len(t), NEW n \in 1 .. Len(t), m < n, t[m][1] = t[n][1]
               PROVE  t[m][2] < t[n][2]
    BY DEF Ordered
  <2>1. m \in 1 .. Len(s) /\ t[m] = s[m]
    <3>1. m \in 1 .. Len(s) BY <1>7
    <3> QED BY <1>7, <3>1
  <2>2. CASE n \in 1 .. Len(s) /\ t[n] = s[n] BY <1>3, <2>1, <2>2 DEF Ordered
  <2>3. CASE n = Len(t) /\ t[n] = e BY <1>3, <1>9, <2>1, <2>3 DEF Counted
  <2> QED BY <1>8, <2>2, <2>3
<1>13. NothingMissed(t)'
  <2> SUFFICES ASSUME ~wasFull
               PROVE  /\ \A q \in Threads : publishing'[q] \in {"idle", "put"}
                      /\ \A d \in missed : (\E m \in 1 .. Len(t) : t[m] = d) \/ Bus!OnItsWay(d)'
    BY DEF NothingMissed
  <2>1. \A q \in Threads : publishing'[q] \in {"idle", "put"} BY <1>3, <1>9 DEF NothingMissed
  <2>2. ASSUME NEW d \in missed PROVE (\E m \in 1 .. Len(t) : t[m] = d) \/ Bus!OnItsWay(d)'
    <3>1. d \in Threads \X Nat BY <1>4 DEF Events
    <3>2. CASE \E m \in 1 .. Len(s) : s[m] = d BY <1>7, <3>2
    <3>3. CASE Bus!OnItsWay(d) /\ d[1] = p
      <4>1. d = e /\ Len(t) \in 1 .. Len(t) BY <1>5, <1>7, <3>3 DEF Bus!OnItsWay, Bus!Event
      <4> QED BY <1>7, <4>1
    <3>4. CASE Bus!OnItsWay(d) /\ d[1] # p
      BY <1>9, <3>1, <3>4 DEF Bus!OnItsWay, Bus!Event
    <3> QED BY <1>3, <3>2, <3>3, <3>4 DEF NothingMissed
  <2> QED BY <2>1, <2>2
<1>14. Counted(Bus!Stream)' /\ Ordered(Bus!Stream)' /\ NothingMissed(Bus!Stream)'
  BY <1>2, <1>11, <1>12, <1>13 DEF Counted, Ordered, NothingMissed
<1> QED BY <1>10, <1>14 DEF BusHolds

\* The event at the head of a full queue goes.
LEMMA DropKeeps ==
  ASSUME BusHolds, NEW p \in Threads, publishing[p] = "drop", queued # <<>>,
         queued' = Tail(queued), publishing' = [publishing EXCEPT ![p] = "again"],
         UNCHANGED <<stream, got, sent, missed, wasFull>>
  PROVE  BusHolds'
<1>1. PICK s : s = Bus!Stream OBVIOUS
<1>2. PICK t : t = Bus!Stream' OBVIOUS
<1>3. BusTyped /\ Counted(s) /\ Ordered(s) /\ NothingMissed(s) BY <1>1 DEF BusHolds
<1>4. /\ got \in Seq(Events) /\ queued \in Seq(Events)
      /\ publishing \in [Threads -> {"idle", "put", "drop", "again", "raised"}]
  BY <1>3 DEF BusTyped
<1>5. s = got \o queued /\ t = got \o Tail(queued) BY <1>1, <1>2 DEF Bus!Stream
<1>6. /\ t \in Seq(Events) /\ Len(t) \in Nat /\ Len(s) = Len(t) + 1 /\ Len(got) \in Nat
      /\ \A i \in 1 .. Len(t) : \/ i <= Len(got) /\ t[i] = s[i]
                                \/ i > Len(got) /\ t[i] = s[i + 1]
  BY <1>4, <1>5, StreamDrops
<1>7. wasFull BY <1>3 DEF NothingMissed
<1>8. publishing'[p] = "again" /\ \A q \in Threads \ {p} : publishing'[q] = publishing[q]
  BY <1>4
<1>9. BusTyped'
  <2>1. Tail(queued) \in Seq(Events) /\ Len(Tail(queued)) = Len(queued) - 1 /\ Len(queued) \in Nat
    BY <1>4, HeadTailProperties
  <2>2. Len(queued') <= QueueSize BY <1>3, <2>1, BusAssumed DEF BusTyped
  <2>3. publishing' \in [Threads -> {"idle", "put", "drop", "again", "raised"}] BY <1>4
  <2> QED BY <1>3, <2>1, <2>2, <2>3 DEF BusTyped
<1>10. Counted(t)'
  <2> SUFFICES ASSUME NEW m \in 1 .. Len(t)
               PROVE  /\ t[m][2] <= sent[t[m][1]]
                      /\ publishing'[t[m][1]] \in {"put", "drop", "again"} =>
                           t[m][2] < sent[t[m][1]]
    BY DEF Counted
  <2>1. PICK k \in 1 .. Len(s) : t[m] = s[k]
    <3>1. m \in 1 .. Len(s) /\ m + 1 \in 1 .. Len(s) BY <1>6
    <3>2. t[m] = s[m] \/ t[m] = s[m + 1] BY <1>6
    <3> QED BY <3>1, <3>2
  <2>2. t[m] \in Events BY <1>6
  <2>3. t[m][1] \in Threads BY <2>2 DEF Events
  <2> QED BY <1>3, <1>8, <2>1, <2>3 DEF Counted
<1>11. Ordered(t)
  <2> SUFFICES ASSUME NEW m \in 1 .. Len(t), NEW n \in 1 .. Len(t), m < n, t[m][1] = t[n][1]
               PROVE  t[m][2] < t[n][2]
    BY DEF Ordered
  <2>1. CASE n <= Len(got)
    <3>1. /\ m \in 1 .. Len(s) /\ n \in 1 .. Len(s) /\ t[m] = s[m] /\ t[n] = s[n]
      BY <1>6, <2>1
    <3> QED BY <1>3, <3>1 DEF Ordered
  <2>2. CASE n > Len(got) /\ m <= Len(got)
    <3>1. /\ m \in 1 .. Len(s) /\ n + 1 \in 1 .. Len(s) /\ t[m] = s[m] /\ t[n] = s[n + 1]
          /\ m < n + 1
      BY <1>6, <2>2
    <3> QED BY <1>3, <3>1 DEF Ordered
  <2>3. CASE m > Len(got)
    <3>1. /\ m + 1 \in 1 .. Len(s) /\ n + 1 \in 1 .. Len(s)
          /\ t[m] = s[m + 1] /\ t[n] = s[n + 1] /\ m + 1 < n + 1
      BY <1>6, <2>3
    <3> QED BY <1>3, <3>1 DEF Ordered
  <2> QED BY <1>6, <2>1, <2>2, <2>3
<1>12. Counted(Bus!Stream)' /\ Ordered(Bus!Stream)' /\ NothingMissed(Bus!Stream)'
  BY <1>2, <1>7, <1>10, <1>11 DEF Counted, Ordered, NothingMissed
<1> QED BY <1>9, <1>12 DEF BusHolds

\* A publisher goes on without the queue, which was full.
LEMMA PublisherGoesOn ==
  ASSUME BusHolds, NEW p \in Threads, NEW step \in {"idle", "drop", "raised"},
         publishing[p] \in {"put", "drop", "again", "raised"},
         publishing' = [publishing EXCEPT ![p] = step],
         wasFull' \in BOOLEAN, wasFull \/ wasFull' => wasFull',
         step = "drop" => publishing[p] = "put" /\ wasFull',
         publishing[p] = "put" => wasFull',
         UNCHANGED <<stream, queued, got, sent, missed>>
  PROVE  BusHolds'
<1>1. PICK s : s = Bus!Stream OBVIOUS
<1>2. Bus!Stream' = s BY <1>1 DEF Bus!Stream
<1>3. BusTyped /\ Counted(s) /\ Ordered(s) /\ NothingMissed(s) BY <1>1 DEF BusHolds
<1>4. /\ got \in Seq(Events) /\ queued \in Seq(Events)
      /\ publishing \in [Threads -> {"idle", "put", "drop", "again", "raised"}]
  BY <1>3 DEF BusTyped
<1>5. wasFull' BY <1>3 DEF NothingMissed
<1>6. /\ publishing'[p] = step /\ \A q \in Threads \ {p} : publishing'[q] = publishing[q]
      /\ publishing' \in [Threads -> {"idle", "put", "drop", "again", "raised"}]
  BY <1>4
<1>7. BusTyped' BY <1>3, <1>6 DEF BusTyped
<1>8. Counted(s)'
  <2> SUFFICES ASSUME NEW m \in 1 .. Len(s)
               PROVE  /\ s[m][2] <= sent[s[m][1]]
                      /\ publishing'[s[m][1]] \in {"put", "drop", "again"} =>
                           s[m][2] < sent[s[m][1]]
    BY DEF Counted
  <2>1. s \in Seq(Events) BY <1>1, <1>4, StreamIs DEF Joined, Bus!Stream
  <2>2. s[m] \in Events BY <2>1
  <2>3. s[m][1] \in Threads BY <2>2 DEF Events
  <2> QED BY <1>3, <1>6, <2>3 DEF Counted
<1>9. Counted(Bus!Stream)' /\ Ordered(Bus!Stream)' /\ NothingMissed(Bus!Stream)'
  BY <1>2, <1>3, <1>5, <1>8 DEF Counted, Ordered, NothingMissed
<1> QED BY <1>7, <1>9 DEF BusHolds

\* An event is made; while the stream is open, it is on its way to the queue.
LEMMA PublishKeeps ==
  ASSUME BusHolds, NEW p \in Threads, Bus!Publish(p)
  PROVE  BusHolds'
<1>1. PICK s : s = Bus!Stream OBVIOUS
<1>2. /\ publishing[p] = "idle" /\ sent[p] < MaxEvents
      /\ sent' = [sent EXCEPT ![p] = sent[p] + 1]
      /\ \/ /\ publishing' = [publishing EXCEPT ![p] = "put"]
            /\ missed' = missed \cup {<<p, sent[p] + 1>>}
         \/ UNCHANGED <<publishing, missed>>
      /\ UNCHANGED <<stream, queued, got, wasFull>>
  BY DEF Bus!Publish, Bus!Goes
<1>3. BusTyped /\ Counted(s) /\ Ordered(s) /\ NothingMissed(s) BY <1>1 DEF BusHolds
<1>4. /\ got \in Seq(Events) /\ queued \in Seq(Events) /\ missed \subseteq Events
      /\ sent \in [Threads -> 0 .. MaxEvents] /\ sent[p] \in Nat /\ sent[p] + 1 \in 0 .. MaxEvents
      /\ publishing \in [Threads -> {"idle", "put", "drop", "again", "raised"}]
  BY <1>2, <1>3, BusAssumed DEF BusTyped
<1>5. /\ sent'[p] = sent[p] + 1 /\ \A q \in Threads \ {p} : sent'[q] = sent[q]
      /\ sent' \in [Threads -> 0 .. MaxEvents]
      /\ \A q \in Threads \ {p} : publishing'[q] = publishing[q]
      /\ publishing'[p] \in {"idle", "put"}
      /\ publishing' \in [Threads -> {"idle", "put", "drop", "again", "raised"}]
  BY <1>2, <1>4
<1>6. missed' \subseteq Events
  <2>1. <<p, sent[p] + 1>> \in Events BY <1>4 DEF Events
  <2> QED BY <1>2, <1>4, <2>1
<1>7. BusTyped' BY <1>2, <1>3, <1>5, <1>6 DEF BusTyped
<1>8. Bus!Stream' = s BY <1>1, <1>2 DEF Bus!Stream
<1>9. Counted(s)'
  <2> SUFFICES ASSUME NEW m \in 1 .. Len(s)
               PROVE  /\ s[m][2] <= sent'[s[m][1]]
                      /\ publishing'[s[m][1]] \in {"put", "drop", "again"} =>
                           s[m][2] < sent'[s[m][1]]
    BY DEF Counted
  <2>1. s \in Seq(Events) BY <1>1, <1>4, StreamIs DEF Joined, Bus!Stream
  <2>2. s[m] \in Events BY <2>1
  <2>3. PICK q \in Threads : q = s[m][1] BY <2>2 DEF Events
  <2>4. PICK n \in Nat : n = s[m][2] BY <2>2 DEF Events
  <2>5. n <= sent[q] /\ (publishing[q] \in {"put", "drop", "again"} => n < sent[q])
    BY <1>3, <2>3, <2>4 DEF Counted
  <2>6. CASE q = p BY <1>4, <1>5, <2>3, <2>4, <2>5, <2>6
  <2>7. CASE q # p BY <1>5, <2>3, <2>4, <2>5, <2>7
  <2> QED BY <2>6, <2>7
<1>10. NothingMissed(s)'
  <2> SUFFICES ASSUME ~wasFull
               PROVE  /\ \A q \in Threads : publishing'[q] \in {"idle", "put"}
                      /\ \A d \in missed' : (\E m \in 1 .. Len(s) : s[m] = d) \/ Bus!OnItsWay(d)'
    BY <1>2 DEF NothingMissed
  <2>1. \A q \in Threads : publishing'[q] \in {"idle", "put"}
    BY <1>3, <1>5 DEF NothingMissed
  <2>2. ASSUME NEW d \in missed PROVE (\E m \in 1 .. Len(s) : s[m] = d) \/ Bus!OnItsWay(d)'
    <3>1. d \in Threads \X Nat BY <1>4 DEF Events
    <3>2. CASE Bus!OnItsWay(d)
      <4>1. d[1] # p BY <1>2, <3>2 DEF Bus!OnItsWay
      <4> QED BY <1>5, <3>1, <3>2, <4>1 DEF Bus!OnItsWay, Bus!Event
    <3> QED BY <1>3, <3>2 DEF NothingMissed
  <2>3. ASSUME NEW d \in missed', d \notin missed PROVE Bus!OnItsWay(d)'
    <3>1. d = <<p, sent[p] + 1>> /\ publishing' = [publishing EXCEPT ![p] = "put"]
      BY <1>2, <2>3
    <3>2. publishing'[p] = "put" /\ d[1] = p /\ d = <<p, sent'[p]>> BY <1>4, <1>5, <3>1
    <3> QED BY <3>2 DEF Bus!OnItsWay, Bus!Event
  <2> QED BY <2>1, <2>2, <2>3
<1>11. Counted(Bus!Stream)' /\ Ordered(Bus!Stream)' /\ NothingMissed(Bus!Stream)'
  BY <1>3, <1>8, <1>9, <1>10 DEF Counted, Ordered, NothingMissed
<1> QED BY <1>7, <1>11 DEF BusHolds

LEMMA BusBegins ==
  ASSUME Init
  PROVE  BusInv
<1> SUFFICES ASSUME Bus!Init PROVE BusHolds BY DEF Init, PartsInit, BusInv
<1>1. /\ stream = "before" /\ queued = <<>> /\ got = <<>> /\ sent = [p \in Threads |-> 0]
      /\ publishing = [p \in Threads |-> "idle"] /\ missed = {} /\ wasFull = FALSE
  BY DEF Bus!Init
<1>2. queued \in Seq(Events) /\ got \in Seq(Events) /\ Len(queued) = 0 /\ Len(got) = 0 BY <1>1
<1>3. BusTyped
  <2>1. Len(queued) <= QueueSize BY <1>2, BusAssumed
  <2>2. sent \in [Threads -> 0 .. MaxEvents] BY <1>1, BusAssumed
  <2> QED BY <1>1, <1>2, <2>1, <2>2 DEF BusTyped
<1>4. PICK s : s = Bus!Stream OBVIOUS
<1>5. Len(s) = 0 BY <1>2, <1>4, StreamIs DEF Bus!Stream, Joined
<1>6. Counted(s) /\ Ordered(s) BY <1>5 DEF Counted, Ordered
<1>7. NothingMissed(s) BY <1>1 DEF NothingMissed
<1> QED BY <1>3, <1>4, <1>6, <1>7 DEF BusHolds

LEMMA BusMoves ==
  ASSUME BusHolds, Bus!Next
  PROVE  BusHolds'
<1>1. /\ stream \in {"before", "open", "over"}
      /\ queued \in Seq(Events) /\ got \in Seq(Events) /\ Len(queued) <= QueueSize
      /\ publishing \in [Threads -> {"idle", "put", "drop", "again", "raised"}]
      /\ wasFull \in BOOLEAN /\ BusTyped
  BY DEF BusHolds, BusTyped
<1>2. CASE Bus!Subscribe \/ Bus!Unsubscribe
  <2>1. /\ stream' \in {"before", "open", "over"}
        /\ UNCHANGED <<queued, got, sent, publishing, missed, wasFull>>
    BY <1>2 DEF Bus!Subscribe, Bus!Unsubscribe
  <2>2. BusTyped' BY <1>1, <2>1 DEF BusTyped
  <2>3. Bus!Stream' = Bus!Stream BY <2>1 DEF Bus!Stream
  <2> QED BY <2>1, <2>2, <2>3, StreamStays
<1>3. CASE Bus!Deliver
  <2>1. /\ queued # <<>> /\ got' = Append(got, Head(queued)) /\ queued' = Tail(queued)
        /\ UNCHANGED <<stream, sent, publishing, missed, wasFull>>
    BY <1>3 DEF Bus!Deliver, Bus!Append, Append, Bus!Head, Head, Bus!Tail, Tail, Bus!Len, Len
  <2>2. BusTyped'
    <3>1. /\ Tail(queued) \in Seq(Events) /\ Len(Tail(queued)) = Len(queued) - 1
          /\ Len(queued) \in Nat /\ Head(queued) \in Events
      BY <1>1, <2>1, HeadTailProperties
    <3>2. Append(got, Head(queued)) \in Seq(Events) BY <1>1, <3>1
    <3>3. Len(queued') <= QueueSize BY <1>1, <2>1, <3>1, BusAssumed
    <3> QED BY <1>1, <2>1, <3>1, <3>2, <3>3 DEF BusTyped
  <2>3. Bus!Stream' = Bus!Stream
    <3>1. Bus!Stream' = got' \o queued' /\ Bus!Stream = got \o queued BY DEF Bus!Stream
    <3>2. Append(got, Head(queued)) \o Tail(queued) = got \o queued
      BY <1>1, <2>1, StreamDelivers
    <3> QED BY <2>1, <3>1, <3>2
  <2> QED BY <2>1, <2>2, <2>3, StreamStays
<1>4. ASSUME NEW p \in Threads, Bus!Put(p) \/ Bus!Drop(p) \/ Bus!Again(p) \/ Bus!Raised(p)
      PROVE  BusHolds'
  <2>1. CASE Bus!Put(p)
    <3>1. /\ publishing[p] = "put" /\ UNCHANGED <<stream, got, sent, missed>>
          /\ \/ /\ Len(queued) < QueueSize /\ queued' = Append(queued, <<p, sent[p]>>)
                /\ publishing' = [publishing EXCEPT ![p] = "idle"] /\ wasFull' = wasFull
             \/ /\ publishing' = [publishing EXCEPT ![p] = "drop"] /\ wasFull' = TRUE
                /\ queued' = queued
      BY <2>1 DEF Bus!Put, Bus!Goes, Bus!Event, Bus!Append, Append, Bus!Len, Len
    <3>2. CASE /\ Len(queued) < QueueSize /\ queued' = Append(queued, <<p, sent[p]>>)
               /\ publishing' = [publishing EXCEPT ![p] = "idle"] /\ wasFull' = wasFull
      BY <3>1, <3>2, PutKeeps
    <3>3. CASE /\ publishing' = [publishing EXCEPT ![p] = "drop"] /\ wasFull' = TRUE
               /\ queued' = queued
      <4>1. /\ wasFull' \in BOOLEAN /\ (wasFull \/ wasFull' => wasFull')
            /\ publishing[p] = "put" /\ wasFull'
        BY <3>1, <3>3
      <4> QED BY <3>1, <3>3, <4>1, PublisherGoesOn
    <3> QED BY <3>1, <3>2, <3>3
  <2>2. CASE Bus!Drop(p)
    <3>1. /\ publishing[p] = "drop" /\ UNCHANGED <<stream, got, sent, missed, wasFull>>
          /\ \/ publishing' = [publishing EXCEPT ![p] = "idle"] /\ queued' = queued
             \/ /\ queued # <<>> /\ queued' = Tail(queued)
                /\ publishing' = [publishing EXCEPT ![p] = "again"]
      BY <2>2 DEF Bus!Drop, Bus!Goes, Bus!Tail, Tail, Bus!Len, Len
    <3>2. CASE publishing' = [publishing EXCEPT ![p] = "idle"] /\ queued' = queued
      BY <1>1, <3>1, <3>2, PublisherGoesOn
    <3>3. CASE /\ queued # <<>> /\ queued' = Tail(queued)
               /\ publishing' = [publishing EXCEPT ![p] = "again"]
      BY <3>1, <3>3, DropKeeps
    <3> QED BY <3>1, <3>2, <3>3
  <2>3. CASE Bus!Again(p)
    <3>1. /\ publishing[p] = "again" /\ UNCHANGED <<stream, got, sent, missed, wasFull>>
          /\ \/ /\ Len(queued) < QueueSize /\ queued' = Append(queued, <<p, sent[p]>>)
                /\ publishing' = [publishing EXCEPT ![p] = "idle"]
             \/ /\ publishing' = [publishing EXCEPT ![p] = "raised"] /\ queued' = queued
      BY <2>3 DEF Bus!Again, Bus!Goes, Bus!Event, Bus!Append, Append, Bus!Len, Len
    <3>2. wasFull BY <1>1, <3>1 DEF BusHolds, NothingMissed
    <3>3. CASE /\ Len(queued) < QueueSize /\ queued' = Append(queued, <<p, sent[p]>>)
               /\ publishing' = [publishing EXCEPT ![p] = "idle"]
      BY <3>1, <3>2, <3>3, PutKeeps
    <3>4. CASE publishing' = [publishing EXCEPT ![p] = "raised"] /\ queued' = queued
      BY <1>1, <3>1, <3>4, PublisherGoesOn
    <3> QED BY <3>1, <3>3, <3>4
  <2>4. CASE Bus!Raised(p)
    <3>1. /\ publishing[p] = "raised" /\ publishing' = [publishing EXCEPT ![p] = "idle"]
          /\ UNCHANGED <<stream, queued, got, sent, missed, wasFull>>
      BY <2>4 DEF Bus!Raised, Bus!Goes
    <3> QED BY <1>1, <3>1, PublisherGoesOn
  <2> QED BY <1>4, <2>1, <2>2, <2>3, <2>4
<1> QED BY <1>2, <1>3, <1>4, PublishKeeps DEF Bus!Next

LEMMA BusSteps ==
  ASSUME BusInv, [Next]_<<part, input, partVars>>
  PROVE  BusInv'
<1>1. CASE part = "bus"
  <2>1. part' = part /\ (Bus!Next \/ UNCHANGED partVars)
    BY <1>1 DEF Next, PartsNext, Ask, partVars
  <2>2. BusHolds BY <1>1 DEF BusInv
  <2>3. CASE UNCHANGED partVars
    <3>1. UNCHANGED <<stream, queued, got, sent, publishing, missed, wasFull>>
      BY <2>3 DEF partVars
    <3>2. BusTyped' BY <2>2, <3>1 DEF BusHolds, BusTyped
    <3>3. Bus!Stream' = Bus!Stream BY <3>1 DEF Bus!Stream
    <3>4. BusHolds' BY <2>2, <3>1, <3>2, <3>3, StreamStays
    <3> QED BY <3>4 DEF BusInv
  <2>4. CASE Bus!Next BY <2>2, <2>4, BusMoves DEF BusInv
  <2> QED BY <2>1, <2>3, <2>4
<1>2. CASE part # "bus"
  <2>1. part' = part BY DEF Next, PartsNext, Ask
  <2> QED BY <1>2, <2>1 DEF BusInv
<1> QED BY <1>1, <1>2

\* For any number of publishers, any size of the queue and any number of events: the
\* events of a publisher reach a client in their order and none twice, and the stream
\* misses an event only after its queue was full (RuntimeEventBus.publish).
THEOREM StreamsAreFaithful == Spec => [](part = "bus" => Bus!StreamFaithful)
<1>1. Init => BusInv BY BusBegins
<1>2. BusInv /\ [Next]_<<part, input, partVars>> => BusInv' BY BusSteps
<1>3. BusInv => (part = "bus" => Bus!StreamFaithful)
  <2> SUFFICES ASSUME BusHolds PROVE Bus!StreamFaithful BY DEF BusInv
  <2>1. PICK s : s = Bus!Stream OBVIOUS
  <2>2. Ordered(s) /\ NothingMissed(s) BY <2>1 DEF BusHolds
  <2>3. DOMAIN s = 1 .. Len(s)
    <3>1. s \in Seq(Events) BY <2>1, StreamIs DEF BusHolds, BusTyped, Bus!Stream, Joined
    <3> QED BY <3>1
  <2>4. Bus!InOrder BY <2>1, <2>2, <2>3 DEF Bus!InOrder, Ordered
  <2>5. ASSUME ~wasFull, NEW e \in missed PROVE (\E n \in DOMAIN s : e = s[n]) \/ Bus!OnItsWay(e)
    BY <2>2, <2>3, <2>5 DEF NothingMissed
  <2> QED BY <2>1, <2>4, <2>5 DEF Bus!StreamFaithful
<1> QED BY <1>1, <1>2, <1>3, PTL DEF Spec

----------------------------------------------------------------------------
\* What clients are told: how far a deployment is, what a review did, the events of
\* the runtime, and the settings as they were last written, for any instance of the
\* four parts.
THEOREM ReportsAreFaithful == Spec => []ReportsFaithful
<1> DEFINE Reports == /\ (part = "deployment" => Deployment!DeploymentTold)
                      /\ (part = "bus" => Bus!StreamFaithful)
                      /\ (part = "review" => Review!ReviewsTold)
                      /\ (part = "settings" => Config!SettingsKept)
<1>1. Spec => []Reports
  BY DeploymentIsTold, StreamsAreFaithful, ReviewsAreTold, SettingsStayKept, PTL
<1>2. Reports => ReportsFaithful BY DEF ReportsFaithful
<1> QED BY <1>1, <1>2, PTL

----------------------------------------------------------------------------
(* Memory: LongTermMemoryProofs has the invariant of the part.             *)

Remembered == INSTANCE LongTermMemoryProofs WITH
  fact <- v1, deleted <- v2, index <- v3, history <- v4, vector <- v5, candidate <- v6,
  doing <- v7,
  Items <- MemoryItems

MemoryInv == part = "memory" => Remembered!IInv

\* The part and its proofs speak of the same steps.
LEMMA MemoryIsRemembered ==
  /\ Memory!Init <=> Remembered!Init
  /\ Memory!Next <=> Remembered!Next
<1>1. Memory!Init <=> Remembered!Init
  BY DEF
    Memory!Idle, Memory!NoCandidate, Memory!Init, Remembered!Idle, Remembered!NoCandidate,
    Remembered!Init
<1>2. Memory!Next <=> Remembered!Next
  BY DEF
    Memory!memoryVars, Memory!Idle, Memory!NoCandidate, Memory!Gone, Memory!Active,
    Memory!Goto, Memory!Then, Memory!Logged, Memory!Holders, Memory!Save, Memory!SaveItem,
    Memory!AddLooks, Memory!AddSaves, Memory!ItemRead, Memory!Replaced, Memory!Replace,
    Memory!Delete, Memory!WithStatus, Memory!ProposeLooks, Memory!ProposeInserts,
    Memory!AcceptReads, Memory!AcceptSaves, Memory!AcceptMarks, Memory!Reject, Memory!Reset,
    Memory!NeedsVector, Memory!BackfillLists, Memory!UpsertReads, Memory!UpsertWrites,
    Memory!ItemCalls, Memory!ReviewCalls, Memory!Backfill, Memory!Next,
    Remembered!memoryVars, Remembered!Idle, Remembered!NoCandidate, Remembered!Gone,
    Remembered!Active, Remembered!Goto, Remembered!Then, Remembered!Logged,
    Remembered!Holders, Remembered!Save, Remembered!SaveItem, Remembered!AddLooks,
    Remembered!AddSaves, Remembered!ItemRead, Remembered!Replaced, Remembered!Replace,
    Remembered!Delete, Remembered!WithStatus, Remembered!ProposeLooks,
    Remembered!ProposeInserts, Remembered!AcceptReads, Remembered!AcceptSaves,
    Remembered!AcceptMarks, Remembered!Reject, Remembered!Reset, Remembered!NeedsVector,
    Remembered!BackfillLists, Remembered!UpsertReads, Remembered!UpsertWrites,
    Remembered!ItemCalls, Remembered!ReviewCalls, Remembered!Backfill, Remembered!Next
<1> QED BY <1>1, <1>2

\* Nothing but its own steps moves a part.
LEMMA MemoryMoves ==
  ASSUME part = "memory", [Next]_<<part, input, partVars>>
  PROVE  part' = part /\ (Memory!Next \/ UNCHANGED <<v1, v2, v3, v4, v5, v6, v7>>)
BY DEF Next, PartsNext, Ask, partVars

LEMMA MemoryBegins ==
  ASSUME Init
  PROVE  MemoryInv
<1> SUFFICES ASSUME part = "memory" PROVE Remembered!IInv BY DEF MemoryInv
<1>1. Memory!Init BY DEF Init, PartsInit
<1>2. Remembered!Init BY <1>1, MemoryIsRemembered
<1> QED BY <1>2, Remembered!Begins

LEMMA MemorySteps ==
  ASSUME MemoryInv, [Next]_<<part, input, partVars>>
  PROVE  MemoryInv'
<1> SUFFICES ASSUME part = "memory" PROVE part' = part /\ Remembered!IInv'
  <2>1. CASE part = "memory" BY <2>1 DEF MemoryInv
  <2>2. CASE part # "memory"
    <3>1. part' = part BY DEF Next, PartsNext, Ask
    <3> QED BY <2>2, <3>1 DEF MemoryInv
  <2> QED BY <2>1, <2>2
<1>1. part' = part /\ (Memory!Next \/ UNCHANGED <<v1, v2, v3, v4, v5, v6, v7>>)
  BY MemoryMoves
<1>2. Remembered!IInv BY DEF MemoryInv
<1>3. Remembered!MemoryAssumption
  BY ServicesAssumption DEF Memory!MemoryAssumption, Remembered!MemoryAssumption
<1>4. [Remembered!Next]_(Remembered!vars)
  BY <1>1, MemoryIsRemembered DEF Remembered!vars, Remembered!memoryVars
<1>5. Remembered!IInv' BY <1>2, <1>3, <1>4, Remembered!Steps
<1> QED BY <1>1, <1>5

\* Full-text index, history and accepted candidates account for the items, for
\* any facts, items, candidates and threads.
THEOREM LedgersAccountForFacts == Spec => []LedgersMatch
<1>1. Init => MemoryInv BY MemoryBegins
<1>2. MemoryInv /\ [Next]_<<part, input, partVars>> => MemoryInv' BY MemorySteps
<1>3. MemoryInv => LedgersMatch
  <2> SUFFICES ASSUME MemoryInv, part = "memory"
               PROVE  /\ Memory!IndexMatches /\ Memory!HistoryMatches
                      /\ Memory!AcceptedWasRemembered
    BY DEF LedgersMatch
  <2>1. Remembered!IInv BY DEF MemoryInv
  <2>2. /\ Remembered!IndexMatches /\ Remembered!HistoryMatches
        /\ Remembered!AcceptedWasRemembered
    BY <2>1, Remembered!LedgersAccount
  <2> QED BY <2>2 DEF Memory!IndexMatches, Memory!HistoryMatches, Memory!AcceptedWasRemembered,
        Memory!Active, Remembered!IndexMatches, Remembered!HistoryMatches,
        Remembered!AcceptedWasRemembered, Remembered!Active
<1> QED BY <1>1, <1>2, <1>3, PTL DEF Spec

----------------------------------------------------------------------------
(* File: FileResumeProofs has the invariant of the part.                   *)

Resumed == INSTANCE FileResumeProofs WITH
  file <- v1, attempts <- v2, artifacts <- v3, checkpoint <- v4, turn <- v5, lost <- v6,
  refused <- v7

FileInv == part = "file" => Resumed!IInv

LEMMA FileIsResumed ==
  /\ File!Init <=> Resumed!Init
  /\ File!Next <=> Resumed!Next
<1>1. File!Init <=> Resumed!Init
  BY DEF
    File!Files, File!Init, Resumed!Files, Resumed!Init
<1>2. File!Next <=> Resumed!Next
  BY DEF
    File!Files, File!Editing, File!Overrides, File!Verified, File!Kind, File!Policy,
    File!Listed, File!PolicyNow, File!Policies, File!Forbidden, File!Advice, File!Over,
    File!BuildContext, File!CreateAttempt, File!At, File!Phase, File!Progress, File!InTurn,
    File!Edit, File!Read, File!Record, File!Ends, File!Gone, File!Running,
    File!LatestRunning, File!RecoveredByLease, File!RecoveredByExit, File!OtherWrites,
    File!Override, File!Next, Resumed!Files, Resumed!Editing, Resumed!Overrides,
    Resumed!Verified, Resumed!Kind, Resumed!Policy, Resumed!Listed, Resumed!PolicyNow,
    Resumed!Policies, Resumed!Forbidden, Resumed!Advice, Resumed!Over, Resumed!BuildContext,
    Resumed!CreateAttempt, Resumed!At, Resumed!Phase, Resumed!Progress, Resumed!InTurn,
    Resumed!Edit, Resumed!Read, Resumed!Record, Resumed!Ends, Resumed!Gone, Resumed!Running,
    Resumed!LatestRunning, Resumed!RecoveredByLease, Resumed!RecoveredByExit,
    Resumed!OtherWrites, Resumed!Override, Resumed!Next,
    File!Max, Resumed!Max
<1> QED BY <1>1, <1>2

\* What the two say of a state and of a step.
LEMMA FileSaysTheSame ==
  /\ File!EditIsKnown <=> Resumed!EditIsKnown
  /\ File!ResumesWhereLost <=> Resumed!ResumesWhereLost
<1>1. File!EditIsKnown <=> Resumed!EditIsKnown
  BY DEF
    File!Editing, File!Known, File!Edits, File!NotRedone, File!ReadFirst, File!EditIsKnown,
    Resumed!Editing, Resumed!Known, Resumed!Edits, Resumed!NotRedone, Resumed!ReadFirst,
    Resumed!EditIsKnown
<1>2. File!ResumesWhereLost <=> Resumed!ResumesWhereLost
  BY DEF
    File!Advice, File!ResumesWhereLost, Resumed!Advice, Resumed!ResumesWhereLost
<1> QED BY <1>1, <1>2

LEMMA FileAssumed == Resumed!FileResumeAssumption
BY ServicesAssumption DEF File!FileResumeAssumption, Resumed!FileResumeAssumption

LEMMA FileBegins ==
  ASSUME Init
  PROVE  FileInv
<1> SUFFICES ASSUME part = "file" PROVE Resumed!IInv BY DEF FileInv
<1>1. Resumed!Init BY FileIsResumed DEF Init, PartsInit
<1> QED BY <1>1, FileAssumed, Resumed!Begins

LEMMA FileSteps ==
  ASSUME FileInv, [Next]_<<part, input, partVars>>
  PROVE  FileInv' /\ (part = "file" => File!EditIsKnown)
<1>1. CASE part = "file"
  <2>1. part' = part /\ (File!Next \/ UNCHANGED <<v1, v2, v3, v4, v5, v6, v7>>)
    BY <1>1 DEF Next, PartsNext, Ask, partVars
  <2>2. Resumed!IInv BY <1>1 DEF FileInv
  <2>3. CASE File!Next
    <3>1. Resumed!Next BY <2>3, FileIsResumed
    <3>2. Resumed!IInv' /\ Resumed!EditIsKnown BY <2>2, <3>1, FileAssumed, Resumed!Moves
    <3> QED BY <2>1, <3>2, FileSaysTheSame DEF FileInv
  <2>4. CASE UNCHANGED <<v1, v2, v3, v4, v5, v6, v7>>
    <3>1. UNCHANGED Resumed!vars BY <2>4 DEF Resumed!vars
    <3>2. Resumed!IInv' /\ Resumed!EditIsKnown BY <2>2, <3>1, Resumed!Stutters
    <3> QED BY <2>1, <3>2, FileSaysTheSame DEF FileInv
  <2> QED BY <2>1, <2>3, <2>4
<1>2. CASE part # "file"
  <2>1. part' = part BY DEF Next, PartsNext, Ask
  <2> QED BY <1>2, <2>1 DEF FileInv
<1> QED BY <1>1, <1>2

THEOREM FileHolds == Spec => []FileInv
<1>1. Init => FileInv BY FileBegins
<1>2. FileInv /\ [Next]_<<part, input, partVars>> => FileInv' BY FileSteps
<1> QED BY <1>1, <1>2, PTL DEF Spec

\* A run that follows a lost one is told to go on from where that one was.
THEOREM ResumedWhereLost == Spec => []ResumesWhereLost
<1>1. FileInv => ResumesWhereLost
  BY Resumed!Resumes, FileSaysTheSame DEF FileInv, ResumesWhereLost
<1> QED BY <1>1, FileHolds, PTL

\* Of the recorded, unraced, hashed edits its context has, a resumed run does not
\* redo one it finds in place, and reads a file that has changed since one before
\* it edits it.
THEOREM EditsAreKnown == Spec => EditsKnown
<1>1. FileInv /\ [Next]_<<part, input, partVars>> => [part = "file" => File!EditIsKnown]_partVars
  BY FileSteps
<1> QED BY <1>1, FileHolds, PTL DEF Spec, EditsKnown

----------------------------------------------------------------------------
(* Plans and policy: what a planned graph is, and what a worker may do.    *)

\* The tasks that an edge leads to from this one, and what visit is to compute.
OutOf(E, n) == {e.to : e \in {x \in E : x.from = n}}

Ways(I) == (SUBSET I) \X I

Visits(v, I, E) ==
  v = [p \in Ways(I) |->
         p[2] \in p[1] \/ \E m \in OutOf(E, p[2]) : v[<<p[1] \union {p[2]}, m>>]]

Reaches(X, E, s, n) == n \in s \/ \E m \in OutOf(E, n) : <<s \union {n}, m>> \in X

ReachClosed(X, I, E) == \A s \in SUBSET I, n \in I : Reaches(X, E, s, n) => <<s, n>> \in X

\* What visit is true of is in every set of ways that is closed.
LeastWays(I, E) == {d \in Ways(I) : \A X \in SUBSET Ways(I) : ReachClosed(X, I, E) => d \in X}

LEMMA LeastIsClosed ==
  ASSUME NEW I, NEW E
  PROVE  ReachClosed(LeastWays(I, E), I, E)
<1> SUFFICES ASSUME NEW s \in SUBSET I, NEW n \in I, Reaches(LeastWays(I, E), E, s, n)
             PROVE  <<s, n>> \in LeastWays(I, E)
  BY DEF ReachClosed
<1>1. ASSUME NEW X \in SUBSET Ways(I), ReachClosed(X, I, E) PROVE <<s, n>> \in X
  <2>1. LeastWays(I, E) \subseteq X BY <1>1 DEF LeastWays
  <2>2. Reaches(X, E, s, n) BY <2>1 DEF Reaches
  <2> QED BY <1>1, <2>2 DEF ReachClosed
<1>2. <<s, n>> \in Ways(I) BY DEF Ways
<1> QED BY <1>1, <1>2 DEF LeastWays

LEMMA LeastIsReached ==
  ASSUME NEW I, NEW E, NEW s \in SUBSET I, NEW n \in I, <<s, n>> \in LeastWays(I, E)
  PROVE  Reaches(LeastWays(I, E), E, s, n)
<1> SUFFICES ASSUME ~Reaches(LeastWays(I, E), E, s, n) PROVE FALSE
  OBVIOUS
<1> DEFINE L == LeastWays(I, E)
           M == L \ {<<s, n>>}
<1>1. M \in SUBSET Ways(I) BY DEF LeastWays
<1>2. ReachClosed(M, I, E)
  <2> SUFFICES ASSUME NEW t \in SUBSET I, NEW m \in I, Reaches(M, E, t, m)
               PROVE  <<t, m>> \in M
    BY DEF ReachClosed
  <2>1. Reaches(L, E, t, m) BY DEF Reaches
  <2>2. <<t, m>> \in L BY <2>1, LeastIsClosed DEF ReachClosed
  <2>3. ~(t = s /\ m = n) BY <2>1
  <2> QED BY <2>2, <2>3
<1>3. <<s, n>> \in M BY <1>1, <1>2 DEF LeastWays
<1> QED BY <1>3

\* So there is such a function.
LEMMA VisitExists ==
  ASSUME NEW I, NEW E, \A n \in I : OutOf(E, n) \subseteq I
  PROVE  \E v : Visits(v, I, E)
<1> DEFINE L == LeastWays(I, E)
           f == [p \in Ways(I) |-> p \in L]
           Body(p) == p[2] \in p[1] \/ \E m \in OutOf(E, p[2]) : f[<<p[1] \union {p[2]}, m>>]
<1>1. ASSUME NEW p \in Ways(I) PROVE (p \in L) <=> Body(p)
  <2>1. p[1] \in SUBSET I /\ p[2] \in I /\ p = <<p[1], p[2]>> BY DEF Ways
  <2>2. p \in L <=> Reaches(L, E, p[1], p[2])
    BY <2>1, LeastIsReached, LeastIsClosed DEF ReachClosed
  <2>3. \A m \in OutOf(E, p[2]) :
          f[<<p[1] \union {p[2]}, m>>] <=> <<p[1] \union {p[2]}, m>> \in L
    BY <2>1 DEF Ways
  <2> HIDE DEF f, L
  <2> QED BY <2>2, <2>3 DEF Reaches
<1>2. ASSUME NEW p \in Ways(I) PROVE (p \in L) = Body(p)
  <2>1. Body(p) \in BOOLEAN OBVIOUS
  <2>2. (p \in L) \in BOOLEAN OBVIOUS
  <2>3. (p \in L) <=> Body(p) BY <1>1
  <2> HIDE DEF Body, f, L
  <2> QED BY <2>1, <2>2, <2>3
<1>3. f = [p \in Ways(I) |-> Body(p)]
  <2> DEFINE g == [p \in Ways(I) |-> Body(p)]
  <2>1. \A p \in Ways(I) : f[p] = (p \in L) BY DEF Ways
  <2>2. \A p \in Ways(I) : g[p] = Body(p)
    <3> HIDE DEF Body
    <3> QED OBVIOUS
  <2> HIDE DEF Body, L
  <2> QED BY <1>2
<1>4. Visits(f, I, E) BY <1>3 DEF Visits
<1> QED BY <1>4

\* Of finitely many sets, one that has no other within it.
LEMMA Smallest ==
  ASSUME NEW I, IsFiniteSet(I), NEW B, B \subseteq SUBSET I, B # {}
  PROVE  \E b \in B : \A c \in B : c \subseteq b => c = b
<1>1. B \subseteq FiniteSubsetsOf(I) BY FS_Subset DEF FiniteSubsetsOf
<1>2. PICK b \in B : \A c \in B : <<c, b>> \notin StrictSubsetOrdering(I)
  BY <1>1, FS_StrictSubsetOrderingWellFounded, WFMin
<1> QED BY <1>2 DEF StrictSubsetOrdering

Followed(C, E) == C # {} /\ \A n \in C : \E m \in C : n \in OutOf(E, m)

\* The smallest tasks of which each follows another are each followed by another.
LEMMA SmallestIsCycle ==
  ASSUME NEW I, IsFiniteSet(I), NEW E, NEW S \in SUBSET I, Followed(S, E)
  PROVE  \E C \in SUBSET I : C # {} /\ \A n \in C : \E m \in C : m \in OutOf(E, n)
<1> DEFINE B == {C \in SUBSET I : Followed(C, E)}
<1>1. B # {} /\ B \subseteq SUBSET I OBVIOUS
<1>2. PICK C \in B : \A A \in B : A \subseteq C => A = C
  <2> HIDE DEF B
  <2> QED BY <1>1, Smallest
<1>3. C \in SUBSET I /\ Followed(C, E) OBVIOUS
<1>4. ASSUME NEW n \in C, \A m \in C : m \notin OutOf(E, n) PROVE FALSE
  <2>1. Followed(C \ {n}, E)
    <3>1. PICK p \in C : n \in OutOf(E, p) BY <1>3 DEF Followed
    <3>2. p # n BY <3>1, <1>4
    <3>3. ASSUME NEW k \in C \ {n} PROVE \E m \in C \ {n} : k \in OutOf(E, m)
      <4>1. PICK m \in C : k \in OutOf(E, m) BY <1>3 DEF Followed
      <4>2. m # n BY <4>1, <1>4
      <4> QED BY <4>1, <4>2
    <3> QED BY <3>2, <3>3 DEF Followed
  <2>2. C \ {n} \in B BY <1>3, <2>1
  <2>3. C \ {n} = C
    <3> HIDE DEF B
    <3> QED BY <1>2, <2>2
  <2> QED BY <2>3
<1> HIDE DEF B
<1>5. \A n \in C : \E m \in C : m \in OutOf(E, n) BY <1>4
<1> QED BY <1>3, <1>5 DEF Followed

\* Tasks of which each follows another one of them are found to be cyclic.
LEMMA CyclesAreVisited ==
  ASSUME NEW I, IsFiniteSet(I), NEW E, \A n \in I : OutOf(E, n) \subseteq I,
         NEW v, Visits(v, I, E), NEW S \in SUBSET I, Followed(S, E)
  PROVE  \E n \in I : v[<<{}, n>>]
<1>1. PICK C \in SUBSET I : C # {} /\ \A n \in C : \E m \in C : m \in OutOf(E, n)
  BY SmallestIsCycle
<1>2. ASSUME NEW s \in SUBSET I, NEW n \in I, ~v[<<s, n>>]
      PROVE  n \notin s /\ \A m \in OutOf(E, n) : ~v[<<s \union {n}, m>>]
  <2> DEFINE g == [p \in Ways(I) |->
                     p[2] \in p[1] \/ \E m \in OutOf(E, p[2]) : v[<<p[1] \union {p[2]}, m>>]]
  <2>1. v = g BY DEF Visits
  <2>2. g[<<s, n>>] = (n \in s \/ \E m \in OutOf(E, n) : v[<<s \union {n}, m>>])
    BY DEF Ways
  <2> HIDE DEF g
  <2> QED BY <1>2, <2>1, <2>2
<1> DEFINE Left == {C \ s : s \in {t \in SUBSET I : \E n \in C : ~v[<<t, n>>]}}
<1>3. ASSUME NEW s \in SUBSET I, NEW n \in C, ~v[<<s, n>>] PROVE C \ s \in Left
  BY <1>3
<1>4. Left \subseteq SUBSET I BY <1>1
<1>5. ASSUME NEW b \in Left
      PROVE  \E s \in SUBSET I, n \in C : b = C \ s /\ ~v[<<s, n>>]
  OBVIOUS
<1> HIDE DEF Left
<1>6. Left = {}
  <2> SUFFICES ASSUME Left # {} PROVE FALSE OBVIOUS
  <2>2. PICK b \in Left : \A c \in Left : c \subseteq b => c = b
    BY <1>4, Smallest
  <2>3. PICK s \in SUBSET I, n \in C : b = C \ s /\ ~v[<<s, n>>] BY <1>5
  <2>4. PICK m \in C : m \in OutOf(E, n) BY <1>1
  <2>5. n \in I /\ n \notin s /\ ~v[<<s \union {n}, m>>] BY <1>1, <1>2, <2>3, <2>4
  <2>6. C \ (s \union {n}) \in Left BY <1>1, <1>3, <2>5
  <2>7. C \ (s \union {n}) \subseteq b /\ n \in b /\ n \notin C \ (s \union {n})
    BY <2>3, <2>5
  <2> QED BY <2>2, <2>6, <2>7
<1>7. PICK n \in C : TRUE BY <1>1
<1>8. v[<<{}, n>>]
  <2>1. CASE ~v[<<{}, n>>]
    <3>1. C \ {} \in Left BY <1>3, <2>1
    <3> QED BY <1>6, <3>1
  <2> QED BY <2>1
<1> QED BY <1>1, <1>8

\* A graph that is not cyclic has, among any of its tasks, one that waits for none of them.
LEMMA AcyclicHasFirst ==
  ASSUME NEW tasks, IsFiniteSet(Plans!Ids(tasks)), NEW E,
         \A e \in E : e.to \in Plans!Ids(tasks), ~Plans!Cyclic(tasks, E),
         NEW S \in SUBSET Plans!Ids(tasks), S # {}
  PROVE  \E t \in S : \A e \in E : ~(e.to = t /\ e.from \in S)
<1> DEFINE I == Plans!Ids(tasks)
           V == CHOOSE v : Visits(v, I, E)
<1>1. \A n \in I : OutOf(E, n) \subseteq I BY DEF OutOf
<1>2. Visits(V, I, E)
  <2>1. \E v : Visits(v, I, E)
    <3> HIDE DEF I
    <3> QED BY <1>1, VisitExists
  <2> HIDE DEF I
  <2> QED BY <2>1
<1>3. \A n \in I : ~V[<<{}, n>>]
  <2>1. ~\E i \in DOMAIN tasks : V[<<{}, tasks[i].id>>]
    BY DEF Plans!Cyclic, Visits, OutOf, Ways
  <2> HIDE DEF V
  <2> QED BY <2>1 DEF Plans!Ids
<1> SUFFICES ASSUME \A t \in S : \E e \in E : e.to = t /\ e.from \in S PROVE FALSE
  OBVIOUS
<1>4. Followed(S, E)
  <2> SUFFICES ASSUME NEW n \in S PROVE \E m \in S : n \in OutOf(E, m) BY DEF Followed
  <2>1. PICK e \in E : e.to = n /\ e.from \in S OBVIOUS
  <2>2. n \in OutOf(E, e.from) BY <2>1 DEF OutOf
  <2> QED BY <2>1, <2>2
<1> HIDE DEF V, I
<1>5. IsFiniteSet(I) /\ S \in SUBSET I BY DEF I
<1>6. \E n \in I : V[<<{}, n>>] BY <1>1, <1>2, <1>4, <1>5, CyclesAreVisited
<1> QED BY <1>3, <1>6

\* Of two edges for one pair and type, one is left.
LEMMA OneEdgeEach ==
  ASSUME NEW tasks, NEW edges, NEW m \in Nat, DOMAIN edges = 1 .. m,
         NEW e \in Plans!Deduped(tasks, edges), NEW f \in Plans!Deduped(tasks, edges),
         Plans!SameKey(e, f)
  PROVE  e = f
<1> DEFINE last == {edges[i] : i \in {n \in DOMAIN edges :
                      \A k \in DOMAIN edges : k > n => ~Plans!SameKey(edges[k], edges[n])}}
<1>1. \A x, y : Plans!SameKey(x, y) => Plans!SameKey(y, x) BY DEF Plans!SameKey
<1>2. CASE e \in last /\ f \in last
  <2>1. PICK i \in DOMAIN edges :
          /\ e = edges[i]
          /\ \A k \in DOMAIN edges : k > i => ~Plans!SameKey(edges[k], edges[i])
    BY <1>2
  <2>2. PICK j \in DOMAIN edges :
          /\ f = edges[j]
          /\ \A k \in DOMAIN edges : k > j => ~Plans!SameKey(edges[k], edges[j])
    BY <1>2
  <2>3. ~(i > j) /\ ~(j > i) BY <1>1, <2>1, <2>2
  <2>4. i = j BY <2>3
  <2> QED BY <2>1, <2>2, <2>4
<1>3. CASE e \in Plans!DependsOn(tasks) /\ f \in Plans!DependsOn(tasks)
  BY <1>3 DEF Plans!DependsOn, Plans!SameKey
<1>4. e \notin last => e \in Plans!DependsOn(tasks) /\ \A g \in last : ~Plans!SameKey(g, e)
  BY <1>1 DEF Plans!Deduped
<1>5. f \notin last => f \in Plans!DependsOn(tasks) /\ \A g \in last : ~Plans!SameKey(g, f)
  BY <1>1 DEF Plans!Deduped
<1> HIDE DEF last
<1> QED BY <1>1, <1>2, <1>3, <1>4, <1>5

\* A profile's default toolsets are some that its policy reaches.
LEMMA DefaultsWithinPolicy ==
  ASSUME NEW p \in Plans!Policy!Profiles
  PROVE  /\ Plans!Policy!ProfileDefault[p] \subseteq Plans!Policy!ProfilePolicy[p]
         /\ Plans!Policy!ProfileDefault[p] # {}
  BY DEF Plans!Policy!Profiles, Plans!Policy!ProfileDefault, Plans!Policy!ProfilePolicy,
     Plans!Policy!Toolsets

LEMMA ToolsetsAsPlanned ==
  ASSUME NEW task \in [id : STRING, title : BOOLEAN, profile : {None} \union STRING,
                       toolsets : SUBSET STRING, after : SUBSET STRING],
         Plans!ProfileIn(task) \in Plans!Policy!Profiles,
         task.toolsets \subseteq Plans!Policy!ProfilePolicy[Plans!ProfileIn(task)],
         NEW t, t = Plans!Normalized(task)
  PROVE  Plans!Policy!ToolsetsFor([profile |-> t.profile, toolsets |-> t.toolsets]) = t.toolsets
<1> DEFINE p == Plans!ProfileIn(task)
<1>1. t.profile = p BY DEF Plans!Normalized
<1>2. t.toolsets = IF task.toolsets = {} THEN Plans!Policy!ProfileDefault[p] ELSE task.toolsets
  BY DEF Plans!Normalized
<1>3. Plans!Policy!ProfileDefault[p] \subseteq Plans!Policy!ProfilePolicy[p]
      /\ Plans!Policy!ProfileDefault[p] # {}
  BY DefaultsWithinPolicy
<1> HIDE DEF p
<1>4. t.toolsets \subseteq Plans!Policy!ProfilePolicy[p] /\ t.toolsets # {}
  BY <1>2, <1>3 DEF p
<1> QED BY <1>1, <1>4 DEF Plans!Policy!ToolsetsFor, Plans!Policy!ProfileOf, p

\* What validate_graph lets through of the graphs that are asked about.
LEMMA PlanRuns ==
  ASSUME NEW g \in PlanInputs
  PROVE  Plans!PlanRunsThrough(g.tasks, g.edges, g.max)
<1>1. g \in Plans!RawGraphs BY ServicesAssumption
<1> DEFINE tasks == g.tasks
           edges == g.edges
           E == Plans!Deduped(tasks, edges)
<1>2. DOMAIN tasks = 1 .. Len(tasks) /\ Len(tasks) \in Nat
  BY <1>1 DEF Plans!RawGraphs
<1>3. DOMAIN edges = 1 .. Len(edges) /\ Len(edges) \in Nat
  BY <1>1 DEF Plans!RawGraphs
<1>4. \A i \in DOMAIN tasks :
        tasks[i] \in [id : STRING, title : BOOLEAN, profile : {None} \union STRING,
                      toolsets : SUBSET STRING, after : SUBSET STRING]
  <2> DEFINE X == [id : STRING, title : BOOLEAN, profile : {None} \union STRING,
                   toolsets : SUBSET STRING, after : SUBSET STRING]
  <2>1. tasks \in Seq(X) BY <1>1 DEF Plans!RawGraphs
  <2>2. \A i \in DOMAIN tasks : tasks[i] \in X
    <3> HIDE DEF X, tasks
    <3> QED BY <1>2, <2>1
  <2> QED BY <2>2
<1>5. IsFiniteSet(Plans!Ids(tasks))
  <2> DEFINE f == [i \in 1 .. Len(tasks) |-> tasks[i].id]
  <2>1. IsFiniteSet(1 .. Len(tasks)) BY <1>2, FS_Interval
  <2>2. f \in Surjection(1 .. Len(tasks), Plans!Ids(tasks))
    BY <1>2 DEF Surjection, Plans!Ids
  <2> HIDE DEF f, tasks
  <2> QED BY <2>1, <2>2, FS_Surjection
<1> HIDE DEF tasks, edges, E
<1>6. SUFFICES ASSUME Plans!Validated(tasks, edges, g.max) # None
               PROVE  LET plan_ == Plans!Validated(tasks, edges, g.max) IN
      /\ \A S \in SUBSET Plans!Ids(tasks) : S # {} =>
           \E t \in S : \A e \in plan_.edges : ~(e.to = t /\ e.from \in S)
      /\ \A e, f \in plan_.edges : Plans!SameKey(e, f) => e = f
      /\ \A t \in plan_.tasks :
           Plans!Policy!ToolsetsFor([profile |-> t.profile, toolsets |-> t.toolsets]) = t.toolsets
  BY DEF Plans!PlanRunsThrough, tasks, edges
<1> DEFINE plan_ == Plans!Validated(tasks, edges, g.max)
<1>7. /\ Plans!PoliciesHold(tasks) /\ Plans!EdgesKnown(tasks, edges) /\ ~Plans!Cyclic(tasks, E)
      /\ plan_ = [tasks |-> {Plans!Normalized(tasks[i]) : i \in DOMAIN tasks}, edges |-> E]
  BY <1>6 DEF Plans!Validated, E
<1> HIDE DEF plan_
<1>8. plan_.tasks = {Plans!Normalized(tasks[i]) : i \in DOMAIN tasks} /\ plan_.edges = E
  BY <1>7
<1>9. \A e \in E : e.to \in Plans!Ids(tasks)
  BY <1>7 DEF E, Plans!Deduped, Plans!DependsOn, Plans!EdgesKnown, Plans!Ids
<1>10. \A S \in SUBSET Plans!Ids(tasks) : S # {} =>
         \E t \in S : \A e \in E : ~(e.to = t /\ e.from \in S)
  BY <1>5, <1>7, <1>9, AcyclicHasFirst
<1>11. \A e, f \in E : Plans!SameKey(e, f) => e = f
  BY <1>3, OneEdgeEach DEF E
<1>12. ASSUME NEW t \in plan_.tasks
       PROVE  Plans!Policy!ToolsetsFor([profile |-> t.profile, toolsets |-> t.toolsets])
                = t.toolsets
  <2>1. PICK i \in DOMAIN tasks : t = Plans!Normalized(tasks[i]) BY <1>8
  <2>2. /\ Plans!ProfileIn(tasks[i]) \in Plans!Policy!Profiles
        /\ tasks[i].toolsets \subseteq Plans!Policy!ProfilePolicy[Plans!ProfileIn(tasks[i])]
    BY <1>7 DEF Plans!PoliciesHold
  <2> QED BY <1>4, <2>1, <2>2, ToolsetsAsPlanned
<1> QED BY <1>8, <1>10, <1>11, <1>12 DEF plan_

----------------------------------------------------------------------------
\* build_worker_runtime_scope keeps to the policy of the profile.
LEMMA ScopesWithin ==
  ASSUME NEW task
  PROVE  Policy!ScopeWithinPolicy(task)
<1> DEFINE p == Policy!ProfileOf(task)
<1>1. p \in Policy!Profiles BY DEF Policy!ProfileOf, Policy!Profiles
<1>2. Policy!ProfileDefault[p] \subseteq Policy!ProfilePolicy[p] /\ Policy!ProfileDefault[p] # {}
  <2> HIDE DEF p
  <2> QED BY <1>1 DEF Policy!Profiles, Policy!ProfileDefault, Policy!ProfilePolicy, Policy!Toolsets
<1>3. Policy!ToolsetsFor(task) # {} /\ Policy!ToolsetsFor(task) \subseteq Policy!ProfilePolicy[p]
  BY <1>2 DEF Policy!ToolsetsFor
<1>4. ASSUME NEW tool \in Policy!ToolsFor(task)
      PROVE  /\ \/ tool \in Policy!BaseTools
                \/ \E s \in Policy!ProfilePolicy[p] : tool \in Policy!ToolsOf[s]
             /\ tool \notin task.disallowed
             /\ Policy!SandboxAllows(Policy!SandboxFor(task), tool)
  <2> HIDE DEF p
  <2> QED BY <1>3 DEF Policy!ToolsFor
<1>5. \A tool : Policy!SandboxAllows("read_only", tool)
                  => tool \notin Policy!Mutates \union Policy!Executes
  BY DEF Policy!SandboxAllows
<1> HIDE DEF p
<1> QED BY <1>3, <1>4, <1>5 DEF Policy!ScopeWithinPolicy, p

\* worker_action_permission_decision lets only what is covered go ahead unasked.
LEMMA UnaskedCovered ==
  ASSUME NEW task, NEW checkpoint, NEW a
  PROVE  Policy!UnaskedIsCovered(task, checkpoint, a)
<1> DEFINE scope == Policy!Scope(task, checkpoint)
<1> SUFFICES ASSUME Policy!Decision(scope, a, "ask") = "auto_approve"
             PROVE  /\ a.tool \in scope.tools
                    /\ \/ checkpoint.resuming /\ a.key \in checkpoint.actions \ checkpoint.expired
                       \/ Policy!Labels(a) \intersect (Policy!HighRisk \union {"unknown_target"}) = {}
  BY DEF Policy!UnaskedIsCovered
<1>1. /\ scope.tools = Policy!ToolsFor(task)
      /\ scope.approvedTools = Policy!ApprovedTools(checkpoint) \intersect Policy!ToolsFor(task)
      /\ scope.approvedActions = Policy!ApprovedActions(checkpoint)
      /\ scope.expired = IF checkpoint.resuming THEN checkpoint.expired ELSE {}
  BY DEF Policy!Scope
<1> HIDE DEF scope
<1>2. CASE a.key \in scope.approvedActions /\ a.tool \in scope.tools
  <2>1. a.key \notin scope.expired BY <1>2 DEF Policy!Decision
  <2> QED BY <1>1, <1>2, <2>1 DEF Policy!ApprovedActions
<1>3. CASE ~(a.key \in scope.approvedActions /\ a.tool \in scope.tools)
  <2>1. /\ a.tool \in scope.approvedTools \/ a.tool \in scope.tools
        /\ Policy!Harmless(a)
    BY <1>3 DEF Policy!Decision
  <2>2. Policy!Labels(a) \intersect (Policy!HighRisk \union {"unknown_target"}) = {}
    BY <2>1 DEF Policy!Harmless, Policy!Blocking
  <2> QED BY <1>1, <2>1, <2>2
<1> QED BY <1>2, <1>3

\* What is asked is one of the inputs.
AskedInv == (part = "plans" /\ input # None) => input \in PlanInputs

\* What validate_graph lets through can run, with the toolsets it names; a worker
\* gets no tool and no unasked action that its profile and approvals do not cover.
THEOREM WorkIsPlannedRight == Spec => []PlannedWorkRight
<1>1. Init => AskedInv BY DEF Init, AskedInv
<1>2. AskedInv /\ [Next]_<<part, input, partVars>> => AskedInv'
  BY DEF AskedInv, Next, Ask, partVars
<1>3. AskedInv => PlannedWorkRight
  BY PlanRuns, ScopesWithin, UnaskedCovered DEF AskedInv, PlannedWorkRight
<1> QED BY <1>1, <1>2, <1>3, PTL DEF Spec

----------------------------------------------------------------------------
(* Sessions and roles: what users wrote.                                   *)

Souled == {Roles!Missing} \union {Roles!Written(s) : s \in Souls}
                          \union {Roles!Default(n) : n \in Names}

SessionCalls ==
  [at : {"idle", "insert", "count"}]
    \union [at : {"write"}, title : Given \union {"auto", "message"}, sent : Nat]
    \union [at : {"soul", "default"}, name : Names, text : Souls \union {None}]
    \union [at : {"put"}, name : Names, text : Souls]

SessionsTyped ==
  /\ v1 \in Names \union {None} /\ v2 \in Souled
  /\ v3 \in [there : BOOLEAN, title : Given \union {"auto", "message"}, archived : BOOLEAN]
  /\ v4 \in Nat /\ v5 \in [Threads -> SessionCalls] /\ v6 \in 0 .. MaxSessionCalls
  /\ v7 \in [title : Given \union {None}, soul : Souls \union {None}]
  /\ v8 \subseteq {"title", "soul"}

\* A message is counted only in a session that is there.
CountedIsThere == v3.there \/ \A p \in Threads : v5[p].at \notin {"count", "write"}

\* The title a user gave is there, and nobody is about to write another.
TitleStays ==
  v7.title # None /\ "title" \notin v8 =>
    /\ v3.title = v7.title /\ v7.title # "auto"
    /\ \A p \in Threads : ~(v5[p].at = "write" /\ Roles!Titles(v5[p]))

\* The soul a user wrote is there, and nobody is about to write the default one.
SoulStays ==
  v7.soul # None /\ "soul" \notin v8 =>
    v2 = Roles!Written(v7.soul) /\ \A p \in Threads : v5[p].at # "default"

SessionsHold == SessionsTyped /\ CountedIsThere /\ TitleStays /\ SoulStays

SessionsInv == part = "sessions" => SessionsHold

LEMMA SessionsAssumed ==
  "message" \notin Given /\ None \notin Given \union Souls \union Names /\ MaxSessionCalls \in Nat
  BY ServicesAssumption DEF Roles!SessionsAssumption

LEMMA SessionsBegin == Init => SessionsInv
<1> SUFFICES ASSUME Init, part = "sessions" PROVE SessionsHold BY DEF SessionsInv
<1>1. Roles!Init BY DEF Init, PartsInit
<1>2. SessionsTyped
  BY <1>1, SessionsAssumed DEF Roles!Init, SessionsTyped, SessionCalls, Souled, Roles!Idle, Roles!Missing
<1> QED BY <1>1, <1>2 DEF Roles!Init, SessionsHold, CountedIsThere, TitleStays, SoulStays, Roles!Idle

\* A thread goes on with a call: what the others are doing stays.
LEMMA SessionGoes ==
  ASSUME SessionsHold, NEW p \in Threads, NEW d \in SessionCalls, v5' = [v5 EXCEPT ![p] = d]
  PROVE  /\ v5' \in [Threads -> SessionCalls] /\ v5'[p] = d
         /\ \A q \in Threads \ {p} : v5'[q] = v5[q]
  BY DEF SessionsHold, SessionsTyped

\* save, of a message of the user.
LEMMA SaveMessageKeeps ==
  ASSUME SessionsHold, NEW p \in Threads,
         Roles!Save(p) \/ Roles!Insert(p) \/ Roles!Count(p) \/ Roles!Write(p)
  PROVE  SessionsHold'
<1>1. CASE Roles!Save(p)
  <2> DEFINE d == [at |-> IF v3.there THEN "count" ELSE "insert"]
  <2>1. d \in SessionCalls /\ d.at = (IF v3.there THEN "count" ELSE "insert")
    BY DEF SessionCalls
  <2>2. v5' = [v5 EXCEPT ![p] = d] /\ v6' = v6 + 1 /\ v6 < MaxSessionCalls
        /\ UNCHANGED <<v1, v2, v3, v4, v7, v8>>
    BY <1>1 DEF Roles!Save, Roles!Begin
  <2> HIDE DEF d
  <2>3. /\ v5' \in [Threads -> SessionCalls] /\ v5'[p] = d
        /\ \A q \in Threads \ {p} : v5'[q] = v5[q]
    BY <2>1, <2>2, SessionGoes
  <2>4. v6' \in 0 .. MaxSessionCalls
    BY <2>2, SessionsAssumed DEF SessionsHold, SessionsTyped
  <2>5. SessionsTyped' BY <2>2, <2>3, <2>4 DEF SessionsHold, SessionsTyped, Souled
  <2>6. CountedIsThere' /\ TitleStays' /\ SoulStays'
    BY <2>1, <2>2, <2>3 DEF SessionsHold, CountedIsThere, TitleStays, SoulStays, Roles!Titles
  <2> QED BY <2>5, <2>6 DEF SessionsHold
<1>2. CASE Roles!Insert(p)
  <2> DEFINE d == [at |-> "count"]
  <2>1. d \in SessionCalls /\ d.at = "count" BY DEF SessionCalls
  <2>2. /\ v5' = [v5 EXCEPT ![p] = d] /\ v3' = [v3 EXCEPT !.there = TRUE]
        /\ UNCHANGED <<v1, v2, v4, v6, v7, v8>>
    BY <1>2 DEF Roles!Insert, Roles!Goes
  <2> HIDE DEF d
  <2>3. /\ v5' \in [Threads -> SessionCalls] /\ v5'[p] = d
        /\ \A q \in Threads \ {p} : v5'[q] = v5[q]
    BY <2>1, <2>2, SessionGoes
  <2>4. /\ v3' \in [there : BOOLEAN, title : Given \union {"auto", "message"}, archived : BOOLEAN]
        /\ v3'.there /\ v3'.title = v3.title
    BY <2>2 DEF SessionsHold, SessionsTyped
  <2>5. SessionsTyped' BY <2>2, <2>3, <2>4 DEF SessionsHold, SessionsTyped, Souled
  <2>6. CountedIsThere' /\ TitleStays' /\ SoulStays'
    BY <2>1, <2>2, <2>3, <2>4 DEF SessionsHold, CountedIsThere, TitleStays, SoulStays, Roles!Titles
  <2> QED BY <2>5, <2>6 DEF SessionsHold
<1>3. CASE Roles!Count(p)
  <2> DEFINE d == [at |-> "write", title |-> v3.title, sent |-> v4]
  <2>1. d \in SessionCalls /\ d.at = "write" /\ d.title = v3.title
    BY DEF SessionCalls, SessionsHold, SessionsTyped
  <2>2. /\ v5' = [v5 EXCEPT ![p] = d] /\ v5[p].at = "count"
        /\ UNCHANGED <<v1, v2, v3, v4, v6, v7, v8>>
    BY <1>3 DEF Roles!Count, Roles!Goes
  <2> HIDE DEF d
  <2>3. /\ v5' \in [Threads -> SessionCalls] /\ v5'[p] = d
        /\ \A q \in Threads \ {p} : v5'[q] = v5[q]
    BY <2>1, <2>2, SessionGoes
  <2>5. SessionsTyped' BY <2>2, <2>3 DEF SessionsHold, SessionsTyped, Souled
  <2>6. CountedIsThere' /\ TitleStays' /\ SoulStays'
    BY <2>1, <2>2, <2>3 DEF SessionsHold, CountedIsThere, TitleStays, SoulStays, Roles!Titles
  <2> QED BY <2>5, <2>6 DEF SessionsHold
<1>4. CASE Roles!Write(p)
  <2> DEFINE d == Roles!Idle
  <2>1. d \in SessionCalls /\ d.at = "idle" BY DEF SessionCalls, Roles!Idle
  <2>2. /\ v5' = [v5 EXCEPT ![p] = d] /\ v5[p].at = "write" /\ v4' = v4 + 1
        /\ v3' = IF Roles!Titles(v5[p]) THEN [v3 EXCEPT !.title = "message"] ELSE v3
        /\ UNCHANGED <<v1, v2, v6, v7, v8>>
    BY <1>4 DEF Roles!Write, Roles!Goes
  <2> HIDE DEF d
  <2>3. /\ v5' \in [Threads -> SessionCalls] /\ v5'[p] = d
        /\ \A q \in Threads \ {p} : v5'[q] = v5[q]
    BY <2>1, <2>2, SessionGoes
  <2>4. /\ v3' \in [there : BOOLEAN, title : Given \union {"auto", "message"}, archived : BOOLEAN]
        /\ v3'.there = v3.there /\ (~Roles!Titles(v5[p]) => v3'.title = v3.title)
    BY <2>2 DEF SessionsHold, SessionsTyped
  <2>5. SessionsTyped' BY <2>2, <2>3, <2>4 DEF SessionsHold, SessionsTyped, Souled
  <2>6. CountedIsThere' /\ SoulStays'
    BY <2>1, <2>2, <2>3, <2>4 DEF SessionsHold, CountedIsThere, SoulStays
  <2>7. TitleStays'
    BY <2>1, <2>2, <2>3, <2>4 DEF SessionsHold, TitleStays, Roles!Titles
  <2> QED BY <2>5, <2>6, <2>7 DEF SessionsHold
<1> QED BY <1>1, <1>2, <1>3, <1>4

\* create_session.
LEMMA CreateSessionKeeps ==
  ASSUME SessionsHold, NEW p \in Threads, NEW title \in Given, Roles!Create(p, title)
  PROVE  SessionsHold'
<1>1. v6 < MaxSessionCalls /\ v6' = v6 + 1 /\ UNCHANGED <<v1, v2, v5>>
  BY DEF Roles!Create
<1>2. v6' \in 0 .. MaxSessionCalls
  BY <1>1, SessionsAssumed DEF SessionsHold, SessionsTyped
<1>3. /\ ~v3.there /\ v3' = [v3 EXCEPT !.there = TRUE, !.title = title]
      /\ v7' = [v7 EXCEPT !.title = IF title = "auto" THEN None ELSE title]
      /\ UNCHANGED <<v4, v8>>
  BY DEF Roles!Create
<1>4. /\ v3' \in [there : BOOLEAN, title : Given \union {"auto", "message"}, archived : BOOLEAN]
      /\ v3'.there /\ v3'.title = title
  BY <1>3 DEF SessionsHold, SessionsTyped
<1>5. /\ v7' \in [title : Given \union {None}, soul : Souls \union {None}]
      /\ v7'.soul = v7.soul /\ v7'.title = IF title = "auto" THEN None ELSE title
  BY <1>3 DEF SessionsHold, SessionsTyped
<1>6. SessionsTyped' BY <1>1, <1>2, <1>3, <1>4, <1>5 DEF SessionsHold, SessionsTyped, Souled
<1>7. CountedIsThere' /\ SoulStays'
  BY <1>1, <1>3, <1>4, <1>5 DEF SessionsHold, CountedIsThere, SoulStays
<1>8. TitleStays'
  BY <1>1, <1>3, <1>4, <1>5 DEF SessionsHold, CountedIsThere, TitleStays, Roles!Titles
<1> QED BY <1>6, <1>7, <1>8 DEF SessionsHold

\* update_session.
LEMMA RenameSessionKeeps ==
  ASSUME SessionsHold, NEW p \in Threads, NEW title \in Given, Roles!Rename(p, title)
  PROVE  SessionsHold'
<1>1. v6 < MaxSessionCalls /\ v6' = v6 + 1 /\ UNCHANGED <<v1, v2, v5>>
  BY DEF Roles!Rename
<1>2. v6' \in 0 .. MaxSessionCalls
  BY <1>1, SessionsAssumed DEF SessionsHold, SessionsTyped
<1> DEFINE late == {q \in Threads : v5[q].at = "write" /\ Roles!Titles(v5[q])}
<1>3. /\ v3' = [v3 EXCEPT !.title = title] /\ v4' = v4
      /\ v7' = [v7 EXCEPT !.title = IF title = "auto" THEN None ELSE title]
      /\ v8' = (v8 \ {"title"}) \union {"title" : q \in late}
  BY DEF Roles!Rename
<1>4. /\ v3' \in [there : BOOLEAN, title : Given \union {"auto", "message"}, archived : BOOLEAN]
      /\ v3'.there = v3.there /\ v3'.title = title
  BY <1>3 DEF SessionsHold, SessionsTyped
<1>5. /\ v7' \in [title : Given \union {None}, soul : Souls \union {None}]
      /\ v7'.soul = v7.soul /\ v7'.title = IF title = "auto" THEN None ELSE title
  BY <1>3 DEF SessionsHold, SessionsTyped
<1>6. /\ v8' \subseteq {"title", "soul"} /\ ("soul" \in v8' <=> "soul" \in v8)
      /\ "title" \notin v8' => late = {}
  BY <1>3 DEF SessionsHold, SessionsTyped
<1>7. SessionsTyped' BY <1>1, <1>2, <1>3, <1>4, <1>5, <1>6 DEF SessionsHold, SessionsTyped, Souled
<1>8. CountedIsThere' /\ SoulStays'
  BY <1>1, <1>4, <1>5, <1>6 DEF SessionsHold, CountedIsThere, SoulStays
<1>9. TitleStays'
  BY <1>1, <1>4, <1>5, <1>6 DEF TitleStays, Roles!Titles
<1> QED BY <1>7, <1>8, <1>9 DEF SessionsHold

\* archive_session.
LEMMA ArchiveSessionKeeps ==
  ASSUME SessionsHold, NEW p \in Threads, Roles!Archive(p)
  PROVE  SessionsHold'
<1>1. v6 < MaxSessionCalls /\ v6' = v6 + 1 /\ UNCHANGED <<v1, v2, v5>>
  BY DEF Roles!Archive
<1>2. v6' \in 0 .. MaxSessionCalls
  BY <1>1, SessionsAssumed DEF SessionsHold, SessionsTyped
<1>3. v3' = [v3 EXCEPT !.archived = TRUE] /\ UNCHANGED <<v4, v7, v8>>
  BY DEF Roles!Archive
<1>4. /\ v3' \in [there : BOOLEAN, title : Given \union {"auto", "message"}, archived : BOOLEAN]
      /\ v3'.there = v3.there /\ v3'.title = v3.title
  BY <1>3 DEF SessionsHold, SessionsTyped
<1>5. SessionsTyped' BY <1>1, <1>2, <1>3, <1>4 DEF SessionsHold, SessionsTyped, Souled
<1> QED BY <1>1, <1>3, <1>4, <1>5
      DEF SessionsHold, CountedIsThere, TitleStays, SoulStays, Roles!Titles

\* reset.
LEMMA ResetSessionKeeps ==
  ASSUME SessionsHold, NEW p \in Threads, Roles!Reset(p)
  PROVE  SessionsHold'
<1>1. v6 < MaxSessionCalls /\ v6' = v6 + 1 /\ UNCHANGED <<v1, v2, v5>>
  BY DEF Roles!Reset
<1>2. v6' \in 0 .. MaxSessionCalls
  BY <1>1, SessionsAssumed DEF SessionsHold, SessionsTyped
<1>3. v4' = 0 /\ UNCHANGED <<v3, v7, v8>> BY DEF Roles!Reset
<1>4. SessionsTyped' BY <1>1, <1>2, <1>3 DEF SessionsHold, SessionsTyped, Souled
<1> QED BY <1>1, <1>3, <1>4
      DEF SessionsHold, CountedIsThere, TitleStays, SoulStays, Roles!Titles

\* A call for the role or its soul begins, or goes on without a write.
LEMMA SoulCallKeeps ==
  ASSUME SessionsHold, NEW p \in Threads, NEW d \in SessionCalls, v5' = [v5 EXCEPT ![p] = d],
         d.at \notin {"count", "write"}, d.at = "default" => v2 = Roles!Missing,
         v1' \in Names \union {None}, v6' \in 0 .. MaxSessionCalls,
         UNCHANGED <<v2, v3, v4, v7, v8>>
  PROVE  SessionsHold'
<1>1. /\ v5' \in [Threads -> SessionCalls] /\ v5'[p] = d
      /\ \A q \in Threads \ {p} : v5'[q] = v5[q]
  BY SessionGoes
<1>2. SessionsTyped' BY <1>1 DEF SessionsHold, SessionsTyped, Souled
<1>3. CountedIsThere' /\ TitleStays'
  BY <1>1 DEF SessionsHold, CountedIsThere, TitleStays, Roles!Titles
<1>4. \A s : Roles!Missing # Roles!Written(s) BY DEF Roles!Missing, Roles!Written
<1>5. SoulStays' BY <1>1, <1>4 DEF SessionsHold, SoulStays, Roles!Written
<1> QED BY <1>2, <1>3, <1>5 DEF SessionsHold

LEMMA RoleKeeps ==
  ASSUME SessionsHold, NEW p \in Threads,
         \/ \E name \in Names : Roles!CreateRole(p, name) \/ Roles!UpdateRole(p, name)
         \/ Roles!ReadIdentity(p)
         \/ \E name \in Names \union {None}, text \in Souls \union {None} :
              Roles!PutIdentity(p, name, text)
         \/ Roles!Ensure(p)
  PROVE  SessionsHold'
<1>1. v6 < MaxSessionCalls => v6 + 1 \in 0 .. MaxSessionCalls
  BY SessionsAssumed DEF SessionsHold, SessionsTyped
<1>2. \A n \in Names, t \in Souls \union {None} :
        /\ [at |-> "soul", name |-> n, text |-> t] \in SessionCalls
        /\ [at |-> "soul", name |-> n, text |-> t].at = "soul"
  BY DEF SessionCalls
<1>3. v1 \in Names \union {None} BY DEF SessionsHold, SessionsTyped
<1>4. ASSUME NEW name \in Names, Roles!CreateRole(p, name) PROVE SessionsHold'
  BY <1>1, <1>2, <1>4, SoulCallKeeps DEF Roles!CreateRole, Roles!Begin
<1>5. ASSUME NEW name \in Names, Roles!UpdateRole(p, name) PROVE SessionsHold'
  <2>1. /\ v1' = name /\ v6' \in 0 .. MaxSessionCalls /\ UNCHANGED <<v2, v3, v4, v5, v7, v8>>
    BY <1>1, <1>5 DEF Roles!UpdateRole
  <2>2. SessionsTyped' BY <2>1 DEF SessionsHold, SessionsTyped, Souled
  <2> QED BY <2>1, <2>2
        DEF SessionsHold, CountedIsThere, TitleStays, SoulStays, Roles!Titles
<1>6. CASE Roles!ReadIdentity(p)
  BY <1>1, <1>2, <1>3, <1>6, SoulCallKeeps DEF Roles!ReadIdentity, Roles!Begin
<1>7. ASSUME NEW name \in Names \union {None}, NEW text \in Souls \union {None},
             Roles!PutIdentity(p, name, text)
      PROVE  SessionsHold'
  <2>1. v1' \in Names BY <1>3, <1>7 DEF Roles!PutIdentity
  <2> QED BY <1>1, <1>2, <1>7, <2>1, SoulCallKeeps DEF Roles!PutIdentity, Roles!Begin
<1>8. CASE Roles!Ensure(p)
  <2> DEFINE d == IF v2 = Roles!Missing THEN [v5[p] EXCEPT !.at = "default"]
                  ELSE IF v5[p].text # None THEN [v5[p] EXCEPT !.at = "put"] ELSE Roles!Idle
  <2>1. PICK c \in [at : {"soul", "default", "put"}, name : Names, text : Souls \union {None}] :
          c = v5[p]
    BY <1>8 DEF SessionsHold, SessionsTyped, SessionCalls, Roles!Ensure
  <2>2. /\ d \in SessionCalls /\ d.at \notin {"count", "write"}
        /\ d.at = "default" => v2 = Roles!Missing
    BY <2>1 DEF SessionCalls, Roles!Idle
  <2>3. v5' = [v5 EXCEPT ![p] = d] /\ v6' = v6 /\ UNCHANGED <<v1, v2, v3, v4, v7, v8>>
    BY <1>8 DEF Roles!Ensure, Roles!Goes
  <2>4. v6 \in 0 .. MaxSessionCalls BY DEF SessionsHold, SessionsTyped
  <2> HIDE DEF d
  <2> QED BY <1>3, <2>2, <2>3, <2>4, SoulCallKeeps
<1> QED BY <1>4, <1>5, <1>6, <1>7, <1>8

\* SOUL.md is written.
LEMMA SoulKeeps ==
  ASSUME SessionsHold, NEW p \in Threads, Roles!WriteDefault(p) \/ Roles!Put(p)
  PROVE  SessionsHold'
<1>1. PICK c \in [at : {"soul", "default", "put"}, name : Names, text : Souls \union {None}] :
        c = v5[p] /\ (c.at = "put" => c.text \in Souls)
  BY DEF SessionsHold, SessionsTyped, SessionCalls, Roles!WriteDefault, Roles!Put
<1>2. CASE Roles!WriteDefault(p)
  <2> DEFINE d == IF c.text # None THEN [c EXCEPT !.at = "put"] ELSE Roles!Idle
  <2>1. d \in SessionCalls /\ d.at \in {"put", "idle"} BY DEF SessionCalls, Roles!Idle
  <2>2. /\ c.at = "default" /\ v5' = [v5 EXCEPT ![p] = d] /\ v2' = Roles!Default(c.name)
        /\ UNCHANGED <<v1, v3, v4, v6, v7, v8>>
    BY <1>1, <1>2 DEF Roles!WriteDefault, Roles!Goes
  <2> HIDE DEF d
  <2>3. /\ v5' \in [Threads -> SessionCalls] /\ v5'[p] = d
        /\ \A q \in Threads \ {p} : v5'[q] = v5[q]
    BY <2>1, <2>2, SessionGoes
  <2>4. SessionsTyped' BY <2>2, <2>3 DEF SessionsHold, SessionsTyped, Souled
  <2>5. CountedIsThere' /\ TitleStays'
    BY <2>1, <2>2, <2>3 DEF SessionsHold, CountedIsThere, TitleStays, Roles!Titles
  <2>6. SoulStays' BY <1>1, <2>1, <2>2, <2>3 DEF SessionsHold, SoulStays
  <2> QED BY <2>4, <2>5, <2>6 DEF SessionsHold
<1>3. CASE Roles!Put(p)
  <2> DEFINE late == {q \in Threads : v5[q].at = "default"}
             d == Roles!Idle
  <2>1. d \in SessionCalls /\ d.at = "idle" BY DEF SessionCalls, Roles!Idle
  <2>2. /\ c.at = "put" /\ v5' = [v5 EXCEPT ![p] = d] /\ v2' = Roles!Written(c.text)
        /\ v7' = [v7 EXCEPT !.soul = c.text]
        /\ v8' = (v8 \ {"soul"}) \union {"soul" : q \in late}
        /\ UNCHANGED <<v1, v3, v4, v6>>
    BY <1>1, <1>3 DEF Roles!Put, Roles!Goes
  <2> HIDE DEF d
  <2>3. /\ v5' \in [Threads -> SessionCalls] /\ v5'[p] = d
        /\ \A q \in Threads \ {p} : v5'[q] = v5[q]
    BY <2>1, <2>2, SessionGoes
  <2>4. /\ v7' \in [title : Given \union {None}, soul : Souls \union {None}]
        /\ v7'.soul = c.text /\ v7'.title = v7.title
    BY <2>2 DEF SessionsHold, SessionsTyped
  <2>5. /\ v8' \subseteq {"title", "soul"} /\ ("title" \in v8' <=> "title" \in v8)
        /\ "soul" \notin v8' => late = {}
    BY <2>2 DEF SessionsHold, SessionsTyped
  <2>6. c.text \in Souls /\ c.text # None BY <1>1, <2>2, SessionsAssumed
  <2>7. SessionsTyped' BY <2>2, <2>3, <2>4, <2>5, <2>6 DEF SessionsHold, SessionsTyped, Souled
  <2>8. CountedIsThere' /\ TitleStays'
    BY <2>1, <2>2, <2>3, <2>4, <2>5 DEF SessionsHold, CountedIsThere, TitleStays, Roles!Titles
  <2>9. SoulStays' BY <2>1, <2>2, <2>3, <2>4, <2>5 DEF SoulStays, Roles!Written
  <2> QED BY <2>7, <2>8, <2>9 DEF SessionsHold
<1> QED BY <1>2, <1>3

LEMMA SessionsSteps == SessionsInv /\ [Next]_<<part, input, partVars>> => SessionsInv'
<1> SUFFICES ASSUME SessionsInv, [Next]_<<part, input, partVars>>, part' = "sessions"
             PROVE  SessionsHold'
  BY DEF SessionsInv
<1>1. part = "sessions" /\ SessionsHold BY DEF SessionsInv, Next, PartsNext, Ask, partVars
<1>2. CASE UNCHANGED <<v1, v2, v3, v4, v5, v6, v7, v8>>
  <2>1. SessionsTyped' BY <1>1, <1>2 DEF SessionsHold, SessionsTyped, Souled
  <2> QED BY <1>1, <1>2, <2>1
          DEF SessionsHold, CountedIsThere, TitleStays, SoulStays, Roles!Titles
<1>3. CASE Roles!Next
  BY <1>1, <1>3, SaveMessageKeeps, CreateSessionKeeps, RenameSessionKeeps,
     ArchiveSessionKeeps, ResetSessionKeeps, RoleKeeps, SoulKeeps DEF Roles!Next
<1>4. Roles!Next \/ UNCHANGED <<v1, v2, v3, v4, v5, v6, v7, v8>>
  BY <1>1 DEF Next, PartsNext, Ask, partVars
<1> QED BY <1>2, <1>3, <1>4

\* A title or a soul a user wrote is replaced only by a user, unless a thread that
\* had yet to write an automatic one had decided to before the user wrote.
THEOREM UserTextsStay == Spec => [](part = "sessions" => Roles!UserTextsStay)
<1>1. Init => SessionsInv BY SessionsBegin
<1>2. SessionsInv /\ [Next]_<<part, input, partVars>> => SessionsInv' BY SessionsSteps
<1>3. SessionsInv => (part = "sessions" => Roles!UserTextsStay)
  BY DEF SessionsInv, SessionsHold, TitleStays, SoulStays, Roles!UserTextsStay
<1> QED BY <1>1, <1>2, <1>3, PTL DEF Spec

----------------------------------------------------------------------------
(* Summaries of a conversation.                                            *)

LEMMA CompactionAssumed ==
  KeepTurns \in Nat \ {0} /\ MinKeep \in Nat /\ SummaryMax \in Nat \ {0} /\ MaxMessages \in Nat
    /\ None \notin Nat
  BY ServicesAssumption DEF Compact!CompactionAssumption

\* The least and the greatest of some numbers.
LEMMA LeastIs ==
  ASSUME NEW m \in Nat, NEW S, S \subseteq 0 .. m, S # {}
  PROVE  Compact!Min(S) \in S /\ \A k \in S : Compact!Min(S) <= k
<1> DEFINE Upto(k) == 0 .. k
           B == {Upto(k) : k \in S}
           I == 0 .. m
<1>1. IsFiniteSet(I) BY FS_Interval
<1>2. B \subseteq SUBSET I /\ B # {}
  <2>1. ASSUME NEW k \in S PROVE Upto(k) \subseteq I OBVIOUS
  <2> HIDE DEF Upto
  <2> QED BY <2>1
<1>3. PICK b \in B : \A c \in B : c \subseteq b => c = b
  <2> HIDE DEF B, I
  <2> QED BY <1>1, <1>2, Smallest
<1>4. PICK k \in S : b = Upto(k) OBVIOUS
<1>5. ASSUME NEW j \in S, j < k PROVE FALSE
  <2>1. Upto(j) \in B
    <3> HIDE DEF Upto
    <3> QED OBVIOUS
  <2>2. j \in Int /\ k \in Int /\ 0 <= j /\ 0 <= k OBVIOUS
  <2>3. Upto(j) \subseteq b /\ k \in b /\ k \notin Upto(j) BY <1>4, <1>5, <2>2
  <2> HIDE DEF B, Upto
  <2> QED BY <1>3, <2>1, <2>3
<1>6. k \in S /\ \A j \in S : k <= j BY <1>5
<1> HIDE DEF B, Upto
<1> QED BY <1>6 DEF Compact!Min

LEMMA GreatestIs ==
  ASSUME NEW m \in Nat, NEW S, S \subseteq 0 .. m, S # {}
  PROVE  Compact!Max(S) \in S /\ \A k \in S : k <= Compact!Max(S)
<1> DEFINE From(k) == k .. m
           B == {From(k) : k \in S}
           I == 0 .. m
<1>1. IsFiniteSet(I) BY FS_Interval
<1>2. B \subseteq SUBSET I /\ B # {}
  <2>1. ASSUME NEW k \in S PROVE From(k) \subseteq I OBVIOUS
  <2> HIDE DEF From
  <2> QED BY <2>1
<1>3. PICK b \in B : \A c \in B : c \subseteq b => c = b
  <2> HIDE DEF B, I
  <2> QED BY <1>1, <1>2, Smallest
<1>4. PICK k \in S : b = From(k) OBVIOUS
<1>5. ASSUME NEW j \in S, k < j PROVE FALSE
  <2>1. From(j) \in B
    <3> HIDE DEF From
    <3> QED OBVIOUS
  <2>2. j \in Int /\ k \in Int /\ j <= m /\ k <= m OBVIOUS
  <2>3. From(j) \subseteq b /\ k \in b /\ k \notin From(j) BY <1>4, <1>5, <2>2
  <2> HIDE DEF B, From
  <2> QED BY <1>3, <2>1, <2>3
<1>6. k \in S /\ \A j \in S : k >= j BY <1>5
<1> HIDE DEF B, From
<1> QED BY <1>6 DEF Compact!Max

\* The messages of users in m, from lo on.
UsersFrom(m, lo) == {k \in lo .. Len(m) : m[k] = "user"}

LEMMA SameCount == \A S : Compact!Cardinality(S) = Cardinality(S)
  BY DEF Compact!Cardinality, Cardinality

LEMMA UsersAreFinite ==
  ASSUME NEW m, Len(m) \in Nat, NEW lo \in Nat
  PROVE  /\ UsersFrom(m, lo) \subseteq 0 .. Len(m) /\ IsFiniteSet(UsersFrom(m, lo))
         /\ Cardinality(UsersFrom(m, lo)) \in Nat
<1>1. IsFiniteSet(0 .. Len(m)) BY FS_Interval
<1>2. UsersFrom(m, lo) \subseteq 0 .. Len(m) BY DEF UsersFrom
<1>3. IsFiniteSet(UsersFrom(m, lo)) BY <1>1, <1>2, FS_Subset
<1> QED BY <1>2, <1>3, FS_CardinalityType

\* A later message begins fewer of the users' messages.
LEMMA FewerUsers ==
  ASSUME NEW m, Len(m) \in Nat, NEW i \in Nat, NEW j \in Nat, i < j, i <= Len(m), m[i] = "user"
  PROVE  Cardinality(UsersFrom(m, j)) < Cardinality(UsersFrom(m, i))
<1>1. UsersFrom(m, j) \subseteq UsersFrom(m, i) /\ i \in UsersFrom(m, i) /\ i \notin UsersFrom(m, j)
  BY DEF UsersFrom
<1>2. /\ IsFiniteSet(UsersFrom(m, i))
      /\ Cardinality(UsersFrom(m, j)) \in Nat /\ Cardinality(UsersFrom(m, i)) \in Nat
  BY UsersAreFinite
<1> QED BY <1>1, <1>2, FS_Subset

\* Some user message begins the last `turns' of them.
LEMMA TurnBegins ==
  ASSUME NEW m, Len(m) \in Nat, NEW lo \in Nat, NEW turns \in Nat, turns # 0,
         turns <= Cardinality(UsersFrom(m, lo))
  PROVE  \E k \in UsersFrom(m, lo) : Cardinality(UsersFrom(m, k)) = turns
<1> DEFINE n == Len(m)
           S == {k \in lo .. n : m[k] = "user" /\ Cardinality(UsersFrom(m, k)) <= turns}
<1>1. /\ UsersFrom(m, lo) \subseteq 0 .. n /\ IsFiniteSet(UsersFrom(m, lo))
      /\ Cardinality(UsersFrom(m, lo)) \in Nat
      /\ \A k \in Nat : IsFiniteSet(UsersFrom(m, k)) /\ Cardinality(UsersFrom(m, k)) \in Nat
  BY UsersAreFinite
<1>2. UsersFrom(m, lo) # {}
  <2>1. ASSUME UsersFrom(m, lo) = {} PROVE Cardinality(UsersFrom(m, lo)) = 0
    BY <2>1, FS_EmptySet
  <2> QED BY <2>1
<1>3. S # {}
  <2>1. PICK k \in UsersFrom(m, lo) : \A j \in UsersFrom(m, lo) : j <= k BY <1>1, <1>2, GreatestIs
  <2>2. k \in lo .. n /\ m[k] = "user" BY <2>1 DEF UsersFrom
  <2>3. UsersFrom(m, k) = {k} BY <2>1, <2>2 DEF UsersFrom
  <2>4. Cardinality(UsersFrom(m, k)) = 1 BY <2>3, FS_Singleton
  <2>5. k \in S BY <2>2, <2>4
  <2> QED BY <2>5
<1>4. S \subseteq 0 .. n OBVIOUS
<1>5. PICK k \in S : \A j \in S : k <= j
  <2> HIDE DEF S
  <2> QED BY <1>3, <1>4, LeastIs
<1>6. k \in lo .. n /\ m[k] = "user" /\ Cardinality(UsersFrom(m, k)) <= turns BY <1>5
<1>7. ASSUME Cardinality(UsersFrom(m, k)) # turns PROVE FALSE
  <2> DEFINE R == {j \in lo .. n : m[j] = "user" /\ j < k}
  <2>1. R # {}
    <3>1. ASSUME R = {} PROVE UsersFrom(m, k) = UsersFrom(m, lo)
      BY <3>1, <1>6 DEF UsersFrom
    <3>2. ASSUME UsersFrom(m, k) = UsersFrom(m, lo) PROVE FALSE
      <4>1. Cardinality(UsersFrom(m, k)) = Cardinality(UsersFrom(m, lo)) BY <3>2
      <4> DEFINE c == Cardinality(UsersFrom(m, k))
      <4>2. c \in Nat /\ c <= turns /\ turns <= c /\ c # turns BY <1>1, <1>6, <1>7, <4>1
      <4> HIDE DEF c
      <4> QED BY <4>2
    <3> HIDE DEF R
    <3> QED BY <3>1, <3>2
  <2>2. R \subseteq 0 .. n OBVIOUS
  <2>3. PICK i \in R : \A j \in R : j <= i
    <3> HIDE DEF R
    <3> QED BY <2>1, <2>2, GreatestIs
  <2>4. i \in lo .. n /\ m[i] = "user" /\ i < k BY <2>3
  <2>5. UsersFrom(m, i) = UsersFrom(m, k) \union {i} /\ i \notin UsersFrom(m, k)
    <3>1. ASSUME NEW j \in UsersFrom(m, i) PROVE j = i \/ j \in UsersFrom(m, k)
      <4>1. j \in i .. n /\ m[j] = "user" BY <3>1 DEF UsersFrom
      <4>2. CASE j < k
        <5>1. j \in R BY <2>4, <4>1, <4>2
        <5>2. j <= i BY <2>3, <5>1
        <5> QED BY <2>4, <4>1, <5>2
      <4>3. CASE ~(j < k) BY <1>6, <2>4, <4>1, <4>3 DEF UsersFrom
      <4> QED BY <4>2, <4>3
    <3> QED BY <1>6, <2>4, <3>1 DEF UsersFrom
  <2>6. Cardinality(UsersFrom(m, i)) = Cardinality(UsersFrom(m, k)) + 1
    <3>1. IsFiniteSet(UsersFrom(m, k)) BY <1>1, <1>6
    <3>2. Cardinality(UsersFrom(m, k) \union {i}) =
            IF i \in UsersFrom(m, k) THEN Cardinality(UsersFrom(m, k))
            ELSE Cardinality(UsersFrom(m, k)) + 1
      BY <3>1, FS_AddElement
    <3> QED BY <2>5, <3>2
  <2>7. Cardinality(UsersFrom(m, i)) <= turns
    <3> DEFINE c == Cardinality(UsersFrom(m, k))
    <3>1. c \in Nat /\ c <= turns /\ c # turns
      <4>1. k \in Nat BY <1>6
      <4>2. Cardinality(UsersFrom(m, k)) \in Nat BY <1>1, <4>1
      <4> QED BY <1>6, <1>7, <4>2
    <3>2. c + 1 <= turns
      <4> HIDE DEF c
      <4> QED BY <3>1
    <3> QED BY <2>6, <3>2
  <2>8. i \in S BY <2>4, <2>7
  <2> QED BY <1>5, <1>6, <2>4, <2>8
<1> QED BY <1>6, <1>7 DEF UsersFrom

\* What is kept begins a turn, and so few of them that the next request has them all.
FitKeep(m, lo, keep) ==
  \/ keep = 0 \/ keep = Len(m) - lo + 1
  \/ \E s \in lo .. Len(m) : /\ m[s] = "user" /\ keep = Len(m) - s + 1
                             /\ Cardinality(UsersFrom(m, s)) <= KeepTurns

\* _recent_turn_message_count.
LEMMA RecentCountIs ==
  ASSUME Len(v1) \in Nat, NEW lo \in 1 .. Len(v1) + 1, NEW turns \in Nat
  PROVE  \/ turns = 0 /\ Compact!RecentCount(lo, turns) = 0
         \/ /\ turns # 0 /\ turns > Cardinality(UsersFrom(v1, lo))
            /\ Compact!RecentCount(lo, turns) = Len(v1) - lo + 1
         \/ /\ turns # 0 /\ \E s \in lo .. Len(v1) :
                 /\ v1[s] = "user" /\ Compact!RecentCount(lo, turns) = Len(v1) - s + 1
                 /\ Cardinality(UsersFrom(v1, s)) = turns
<1> DEFINE U == {k \in lo .. Len(v1) : v1[k] = "user"}
           start == CHOOSE k \in U : Compact!Cardinality({j \in U : j >= k}) = turns
           number == IF turns = 0 THEN 0
                    ELSE IF turns > Compact!Cardinality(U) THEN Len(v1) - lo + 1
                    ELSE Len(v1) - start + 1
<1>1. Compact!RecentCount(lo, turns) = number BY DEF Compact!RecentCount
<1>2. U = UsersFrom(v1, lo) BY DEF UsersFrom
<1>3. Compact!Cardinality(U) = Cardinality(UsersFrom(v1, lo)) BY <1>2, SameCount
<1>4. \A k \in U : {j \in U : j >= k} = UsersFrom(v1, k) BY DEF UsersFrom
<1>5. \A k \in U : Compact!Cardinality({j \in U : j >= k}) = Cardinality(UsersFrom(v1, k))
  BY <1>4, SameCount
<1>6. CASE turns = 0 BY <1>1, <1>6
<1>7. CASE turns # 0 /\ turns > Cardinality(UsersFrom(v1, lo)) BY <1>1, <1>3, <1>7
<1>8. CASE turns # 0 /\ ~(turns > Cardinality(UsersFrom(v1, lo)))
  <2>1. turns <= Cardinality(UsersFrom(v1, lo)) BY <1>8, UsersAreFinite
  <2>2. \E k \in U : Compact!Cardinality({j \in U : j >= k}) = turns
    <3>1. PICK k \in UsersFrom(v1, lo) : Cardinality(UsersFrom(v1, k)) = turns
      BY <1>8, <2>1, TurnBegins
    <3> HIDE DEF U
    <3> QED BY <1>2, <1>5, <3>1
  <2>3. start \in U /\ Compact!Cardinality({j \in U : j >= start}) = turns
    <3> HIDE DEF U
    <3> QED BY <2>2
  <2>4. Compact!RecentCount(lo, turns) = Len(v1) - start + 1 BY <1>1, <1>3, <1>8
  <2>5. Cardinality(UsersFrom(v1, start)) = turns
    <3> HIDE DEF U, start
    <3> QED BY <1>5, <2>3
  <2>6. start \in lo .. Len(v1) /\ v1[start] = "user"
    <3> HIDE DEF start
    <3> QED BY <2>3
  <2> HIDE DEF start
  <2> QED BY <1>8, <2>4, <2>5, <2>6
<1> QED BY <1>6, <1>7, <1>8

LEMMA RecentCountFits ==
  ASSUME Len(v1) \in Nat, NEW lo \in 1 .. Len(v1) + 1, NEW turns \in 0 .. KeepTurns
  PROVE  /\ Compact!RecentCount(lo, turns) \in Nat
         /\ FitKeep(v1, lo, Compact!RecentCount(lo, turns))
         /\ lo <= Len(v1) /\ turns > 0 => Compact!RecentCount(lo, turns) > 0
<1> DEFINE keep == Compact!RecentCount(lo, turns)
<1>1. \/ turns = 0 /\ keep = 0
      \/ turns # 0 /\ keep = Len(v1) - lo + 1
      \/ turns # 0 /\ \E s \in lo .. Len(v1) :
           v1[s] = "user" /\ keep = Len(v1) - s + 1 /\ Cardinality(UsersFrom(v1, s)) = turns
  BY RecentCountIs, CompactionAssumed
<1> HIDE DEF keep
<1>2. keep \in Nat /\ (lo <= Len(v1) /\ turns > 0 => keep > 0) BY <1>1
<1>3. FitKeep(v1, lo, keep) BY <1>1, CompactionAssumed DEF FitKeep
<1> QED BY <1>2, <1>3 DEF keep

\* _budget_keep_recent_message_count.
LEMMA BudgetKeepsFit ==
  ASSUME Len(v1) \in Nat, NEW lo \in 1 .. Len(v1) + 1, NEW keep \in Compact!BudgetKeeps(lo)
  PROVE  keep \in Nat /\ FitKeep(v1, lo, keep) /\ (MinKeep > 0 /\ keep = 0 => lo > Len(v1))
<1>1. CASE lo > Len(v1) BY <1>1 DEF Compact!BudgetKeeps, FitKeep
<1>2. CASE ~(lo > Len(v1))
  <2> DEFINE U == {k \in lo .. Len(v1) : v1[k] = "user"}
             most == IF U = {} THEN 1 ELSE Compact!Min({KeepTurns, Compact!Cardinality(U)})
             least == Compact!Min({MinKeep, 3, most})
  <2>1. most \in 1 .. KeepTurns
    <3>1. CASE U = {} BY <3>1, CompactionAssumed
    <3>2. CASE U # {}
      <4> DEFINE number == Compact!Cardinality(U)
      <4>1. IsFiniteSet(U) /\ Cardinality(U) \in Nat
        <5>1. U = UsersFrom(v1, lo) BY DEF UsersFrom
        <5> HIDE DEF U
        <5> QED BY <5>1, UsersAreFinite
      <4>2. number \in Nat /\ number # 0
        <5> HIDE DEF U
        <5> QED BY <3>2, <4>1, FS_EmptySet, SameCount
      <4>3. most = Compact!Min({KeepTurns, number}) BY <3>2
      <4> HIDE DEF number, most
      <4>4. {KeepTurns, number} \subseteq 0 .. KeepTurns + number /\ KeepTurns + number \in Nat
        BY <4>2, CompactionAssumed
      <4>5. most \in {KeepTurns, number} /\ most <= KeepTurns BY <4>3, <4>4, LeastIs
      <4> QED BY <4>2, <4>5, CompactionAssumed
    <3> QED BY <3>1, <3>2
  <2>2. Compact!BudgetKeeps(lo) = {Compact!RecentCount(lo, t) : t \in least .. most}
    BY <1>2 DEF Compact!BudgetKeeps
  <2> HIDE DEF most
  <2>3. least \in {MinKeep, 3, most}
    <3>1. {MinKeep, 3, most} \subseteq 0 .. MinKeep + 3 + most /\ MinKeep + 3 + most \in Nat
      BY <2>1, CompactionAssumed
    <3> QED BY <3>1, LeastIs
  <2> HIDE DEF least
  <2>4. least \in Nat /\ (MinKeep > 0 => least > 0) BY <2>1, <2>3, CompactionAssumed
  <2>5. PICK t \in least .. most : keep = Compact!RecentCount(lo, t) BY <2>2
  <2>6. t \in 0 .. KeepTurns /\ (MinKeep > 0 => t > 0) BY <2>1, <2>4, <2>5, CompactionAssumed
  <2> QED BY <1>2, <2>5, <2>6, RecentCountFits
<1> QED BY <1>1, <1>2
----------------------------------------------------------------------------
\* No decision is followed by another one before its results.
WellMsg(m) ==
  /\ Len(m) \in Nat
  /\ \A k \in 1 .. Len(m) - 1 : m[k] = "calls" => m[k + 1] # "calls"

\* All after b but a call without a result is among the recent turns.
RestShown(m, b) ==
  \E s \in b + 1 .. Len(m) + 1 :
    /\ s <= Len(m) => m[s] = "user"
    /\ Cardinality(UsersFrom(m, s)) <= KeepTurns
    /\ \A k \in b + 1 .. s - 1 : m[k] = "calls"

\* The messages a compaction may fold in, and what it leaves.
LEMMA WindowIs ==
  ASSUME WellMsg(v1), NEW lo \in 1 .. Len(v1) + 1, NEW keep \in Nat,
         Compact!Window(lo, keep) # {}
  PROVE  \E a \in lo .. Len(v1) : \E b \in a .. Len(v1) - keep :
           /\ Compact!Window(lo, keep) = a .. b
           /\ b < Len(v1) => v1[b + 1] # "tool"
           /\ FitKeep(v1, lo, keep) => RestShown(v1, b)
<1> DEFINE n == Len(v1)
           last == n - keep
           from == Compact!Max({lo, last - SummaryMax + 1})
           begins == {k \in from .. last : v1[k] # "tool"}
           ends == {k \in Compact!Min(begins) .. last :
                      k < n => v1[k + 1] # "tool" /\ v1[k] # "calls"}
           a == Compact!Min(begins)
           b == Compact!Max(ends)
<1>1. n \in Nat /\ last \in Int /\ last <= n /\ lo \in Int BY DEF WellMsg
<1>2. ~(last < lo) /\ begins # {} /\ ends # {} /\ Compact!Window(lo, keep) = a .. b
  BY DEF Compact!Window
<1>3. from \in Nat /\ from >= lo
  <2>1. CASE last - SummaryMax + 1 >= 0
    <3>1. {lo, last - SummaryMax + 1} \subseteq 0 .. n + 1 /\ n + 1 \in Nat
      BY <1>1, <2>1, CompactionAssumed
    <3>2. from \in {lo, last - SummaryMax + 1} /\ from >= lo
      BY <3>1, GreatestIs
    <3> QED BY <1>1, <2>1, <3>2, CompactionAssumed
  <2>2. CASE last - SummaryMax + 1 < 0
    <3> DEFINE x == last - SummaryMax + 1
    <3>1. x \in Int /\ x < 0 /\ lo >= 1 BY <1>1, <2>2, CompactionAssumed
    <3>2. from = CHOOSE k \in {lo, x} : \A j \in {lo, x} : k >= j BY DEF Compact!Max
    <3> HIDE DEF from, x
    <3>3. from = lo
      <4>1. \E k \in {lo, x} : \A j \in {lo, x} : k >= j BY <1>1, <3>1
      <4>2. from \in {lo, x} /\ from >= lo BY <3>2, <4>1
      <4> QED BY <1>1, <3>1, <4>2
    <3> QED BY <1>1, <3>3
  <2> QED BY <1>1, <2>1, <2>2, CompactionAssumed
<1> HIDE DEF from
<1>4. begins \subseteq 0 .. n BY <1>1, <1>3
<1>5. a \in begins
  <2> HIDE DEF begins
  <2> QED BY <1>1, <1>2, <1>4, LeastIs
<1>6. a \in from .. last /\ v1[a] # "tool" BY <1>5
<1> HIDE DEF begins, a
<1>7. ends = {k \in a .. last : k < n => v1[k + 1] # "tool" /\ v1[k] # "calls"} BY DEF a
<1> HIDE DEF ends
<1>8. ends \subseteq 0 .. n BY <1>1, <1>3, <1>6, <1>7
<1>9. b \in ends /\ \A k \in ends : k <= b BY <1>1, <1>2, <1>8, GreatestIs
<1> HIDE DEF b
<1>10. b \in a .. last /\ (b < n => v1[b + 1] # "tool" /\ v1[b] # "calls") BY <1>7, <1>9
<1>11. a \in lo .. n /\ b \in a .. n - keep BY <1>1, <1>3, <1>6, <1>10
<1>12. ASSUME keep = 0 PROVE RestShown(v1, b)
  <2>1. n \in ends BY <1>1, <1>3, <1>6, <1>7, <1>12
  <2>2. b = n BY <1>1, <1>9, <1>11, <1>12, <2>1
  <2>3. UsersFrom(v1, n + 1) = {} BY <1>1 DEF UsersFrom
  <2>4. Cardinality(UsersFrom(v1, n + 1)) = 0 BY <2>3, FS_EmptySet
  <2> QED BY <1>1, <2>2, <2>4, CompactionAssumed DEF RestShown
<1>13. ASSUME NEW s \in lo .. n, v1[s] = "user", keep = n - s + 1,
              Cardinality(UsersFrom(v1, s)) <= KeepTurns
       PROVE  RestShown(v1, b)
  <2>1. last = s - 1 /\ last < n BY <1>1, <1>13
  <2>2. s \in b + 1 .. n + 1 BY <1>1, <1>11, <1>13
  <2>3. CASE v1[last] # "calls"
    <3>1. last \in ends BY <1>1, <1>6, <1>7, <1>11, <1>13, <2>1, <2>3
    <3>2. b = last BY <1>1, <1>9, <1>11, <3>1
    <3> QED BY <1>1, <1>13, <2>1, <2>2, <3>2 DEF RestShown
  <2>4. CASE v1[last] = "calls"
    <3>1. b # last BY <1>10, <2>1, <2>4
    <3>2. b <= last - 1 /\ last - 1 >= 1 BY <1>1, <1>11, <3>1
    <3>3. v1[last - 1] # "calls" BY <1>1, <2>1, <2>4, <3>2 DEF WellMsg
    <3>4. last - 1 \in ends
      <4>1. v1[(last - 1) + 1] = "calls" BY <1>1, <2>4
      <4>2. last - 1 \in a .. last BY <1>1, <1>11, <3>2
      <4> QED BY <1>7, <3>3, <4>1, <4>2
    <3>5. b = last - 1
      <4>1. last - 1 <= b BY <1>9, <3>4
      <4>2. b \in Int BY <1>1, <1>11
      <4> QED BY <1>1, <3>2, <4>1, <4>2
    <3>6. \A k \in b + 1 .. s - 1 : k = last BY <1>1, <2>1, <3>5
    <3> QED BY <1>1, <1>13, <2>2, <2>4, <3>6 DEF RestShown
  <2> QED BY <2>3, <2>4
<1>14. keep # n - lo + 1 BY <1>1, <1>2
<1>15. FitKeep(v1, lo, keep) => RestShown(v1, b) BY <1>12, <1>13, <1>14 DEF FitKeep
<1> QED BY <1>2, <1>10, <1>11, <1>15

\* The first message that is not covered.
LEMMA FirstIs ==
  ASSUME NEW covered \in Nat, v2 \in Nat
  PROVE  Compact!First(covered) = (IF covered > v2 THEN covered ELSE v2) + 1
<1>1. {covered, v2} \subseteq 0 .. covered + v2 /\ covered + v2 \in Nat OBVIOUS
<1>2. /\ Compact!Max({covered, v2}) \in {covered, v2}
      /\ \A k \in {covered, v2} : k <= Compact!Max({covered, v2})
  BY <1>1, GreatestIs
<1> QED BY <1>2 DEF Compact!First

LEMMA EndsOf ==
  ASSUME NEW a \in Nat, NEW b \in Nat, a <= b
  PROVE  Compact!Max(a .. b) = b /\ Compact!Min(a .. b) = a
<1>1. a .. b \subseteq 0 .. b /\ a .. b # {} /\ a \in a .. b /\ b \in a .. b OBVIOUS
<1>2. Compact!Max(a .. b) \in a .. b /\ b <= Compact!Max(a .. b) BY <1>1, GreatestIs
<1>3. Compact!Min(a .. b) \in a .. b /\ Compact!Min(a .. b) <= a BY <1>1, LeastIs
<1> QED BY <1>2, <1>3

\* load_recent_turns: what is left is shown.
LEMMA RestIsRecent ==
  ASSUME WellMsg(v1), NEW b \in 0 .. Len(v1), RestShown(v1, b),
         NEW k \in b + 1 .. Len(v1), v1[k] # "calls"
  PROVE  k \in Compact!Recent(b + 1, KeepTurns)
<1> DEFINE n == Len(v1)
           number == Compact!RecentCount(b + 1, KeepTurns)
<1>1. n \in Nat /\ b + 1 \in 1 .. n + 1 /\ KeepTurns \in Nat /\ KeepTurns # 0
  BY CompactionAssumed DEF WellMsg
<1>2. PICK s \in b + 1 .. n + 1 :
        /\ s <= n => v1[s] = "user"
        /\ Cardinality(UsersFrom(v1, s)) <= KeepTurns
        /\ \A j \in b + 1 .. s - 1 : v1[j] = "calls"
  BY DEF RestShown
<1>3. k >= s BY <1>1, <1>2
<1>4. Compact!Recent(b + 1, KeepTurns) = n - number + 1 .. n BY DEF Compact!Recent
<1>5. \/ number = n - b
      \/ \E t \in b + 1 .. n :
           v1[t] = "user" /\ number = n - t + 1 /\ Cardinality(UsersFrom(v1, t)) = KeepTurns
  <2>1. \/ KeepTurns = 0 /\ number = 0
        \/ /\ KeepTurns # 0 /\ KeepTurns > Cardinality(UsersFrom(v1, b + 1))
           /\ number = n - (b + 1) + 1
        \/ /\ KeepTurns # 0 /\ \E t \in b + 1 .. n :
                /\ v1[t] = "user" /\ number = n - t + 1
                /\ Cardinality(UsersFrom(v1, t)) = KeepTurns
    BY <1>1, RecentCountIs
  <2> HIDE DEF number
  <2> QED BY <1>1, <2>1
<1> HIDE DEF number
<1>6. CASE number = n - b BY <1>1, <1>4, <1>6
<1>7. ASSUME NEW t \in b + 1 .. n, v1[t] = "user", number = n - t + 1,
             Cardinality(UsersFrom(v1, t)) = KeepTurns
      PROVE  k \in n - number + 1 .. n
  <2>1. ASSUME s < t PROVE FALSE
    <3>1. Cardinality(UsersFrom(v1, t)) < Cardinality(UsersFrom(v1, s))
      BY <1>1, <1>2, <1>7, <2>1, FewerUsers
    <3>2. Cardinality(UsersFrom(v1, s)) \in Nat BY <1>1, <1>2, UsersAreFinite
    <3> QED BY <1>1, <1>2, <1>7, <3>1, <3>2
  <2> QED BY <1>1, <1>2, <1>3, <1>7, <2>1
<1> QED BY <1>4, <1>5, <1>6, <1>7
----------------------------------------------------------------------------
Kinds == {"user", "calls", "tool", "answer"}
Summed == [covered : Nat, content : SUBSET Nat]
CompactStates ==
  {[step |-> "idle"]} \union [step : {"look"}, keep : Nat \union {None}]
  \union [step : {"load"}, keep : Nat \union {None}, previous : Summed]
  \union [step : {"ask"}, previous : Summed, window : SUBSET Nat, from : Nat]

CompactTyped ==
  /\ v1 \in Seq(Kinds) /\ v2 \in 0 .. Len(v1) /\ v4 \in Summed
  /\ v5 \in [Compact!Compactors -> CompactStates] /\ v6 \in SUBSET Nat

\* A turn that is about to ask the model has the results of what it called.
TalkHolds ==
  /\ WellMsg(v1)
  /\ v3 = "open" => Len(v1) > 0 /\ v1[Len(v1)] # "calls"

\* The messages m, of which g are gone, are all in summary s or cut, as far as it goes.
SumHolds(m, g, cut, s) ==
  /\ s.covered <= Len(m)
  /\ \A k \in g + 1 .. s.covered : k \in s.content \union cut
  /\ \A k \in s.content : k > g

\* A summary leaves a message, and that is not the result of a call.
SumEnds(m, g, s) ==
  /\ s.covered = 0 \/ s.covered < Len(m)
  /\ s.covered + 1 \in g + 2 .. Len(m) /\ s.content # {} => m[s.covered + 1] # "tool"

NextOf(covered, g) == (IF covered > g THEN covered ELSE g) + 1

\* What a compaction has read.
ReadHolds(m, g, cut, d) ==
  /\ d.step \in {"load", "ask"} => SumHolds(m, g, cut, d.previous)
  /\ d.step = "ask" =>
       /\ d.from = NextOf(d.previous.covered, g)
       /\ \E a \in d.from .. Len(m) : \E b \in a .. Len(m) :
            d.window = a .. b /\ (MinKeep > 0 => b < Len(m) /\ m[b + 1] # "tool")
  /\ MinKeep > 0 /\ d.step \in {"look", "load"} /\ d.keep = 0 => g = Len(m)

\* Nothing came since it began.
BegunHolds(m, g, s, d) ==
  /\ d.step \in {"look", "load"} => d.keep = None \/ FitKeep(m, NextOf(s.covered, g), d.keep)
  /\ d.step \in {"load", "ask"} => d.previous = s
  /\ d.step = "ask" => RestShown(m, Compact!Max(d.window))

Idle == [step |-> "idle"]

CompactHold ==
  /\ CompactTyped /\ TalkHolds
  /\ SumHolds(v1, v2, v6, v4)
  /\ MinKeep > 0 => SumEnds(v1, v2, v4)
  /\ \A c \in Compact!Compactors : ReadHolds(v1, v2, v6, v5[c])
  /\ v8 = "begun" =>
       \A c \in Compact!Compactors : v5[c] # Idle =>
         /\ \A d \in Compact!Compactors \ {c} : v5[d] = Idle
         /\ BegunHolds(v1, v2, v4, v5[c])
  /\ v8 = "saved" => v4.covered >= v2 /\ RestShown(v1, v4.covered)

CompactInv == part = "compaction" => v7 \in BOOLEAN /\ (~v7 => CompactHold)
LEMMA CompactBegins == Init => CompactInv
<1> SUFFICES ASSUME Init, part = "compaction" PROVE v7 \in BOOLEAN /\ CompactHold
  BY DEF CompactInv
<1>1. Compact!Init BY DEF Init, PartsInit
<1>2. /\ v1 = <<>> /\ v2 = 0 /\ v3 = "idle" /\ v4 = [covered |-> 0, content |-> {}]
      /\ v5 = [c \in Compact!Compactors |-> Idle] /\ v6 = {} /\ v7 = FALSE /\ v8 = "no"
  BY <1>1 DEF Compact!Init, Compact!NoSummary, Compact!Idle, Idle
<1>3. Len(v1) = 0 BY <1>2
<1>4. CompactTyped BY <1>2 DEF CompactTyped, CompactStates, Summed, Idle
<1>5. TalkHolds BY <1>2, <1>3 DEF TalkHolds, WellMsg
<1>6. SumHolds(v1, v2, v6, v4) /\ SumEnds(v1, v2, v4) BY <1>2, <1>3 DEF SumHolds, SumEnds
<1>7. ReadHolds(v1, v2, v6, Idle) BY DEF ReadHolds, Idle
<1>8. \A c \in Compact!Compactors : ReadHolds(v1, v2, v6, v5[c]) BY <1>2, <1>7
<1> QED BY <1>2, <1>4, <1>5, <1>6, <1>8 DEF CompactHold

\* A compaction goes on, and nothing else changes.
LEMMA CompactGoes ==
  ASSUME CompactHold, NEW c \in Compact!Compactors, NEW d \in CompactStates,
         v5' = [v5 EXCEPT ![c] = d], UNCHANGED <<v1, v2, v3, v4, v6>>,
         ReadHolds(v1, v2, v6, d),
         v8' = "begun" /\ d # Idle =>
           /\ \A e \in Compact!Compactors \ {c} : v5[e] = Idle
           /\ BegunHolds(v1, v2, v4, d),
         v8' = "begun" /\ d = Idle => v8 = "begun",
         v8' = "saved" => v8 = "saved"
  PROVE  CompactHold'
<1>1. v5 \in [Compact!Compactors -> CompactStates] BY DEF CompactHold, CompactTyped
<1>2. /\ v5' \in [Compact!Compactors -> CompactStates] /\ v5'[c] = d
      /\ \A e \in Compact!Compactors \ {c} : v5'[e] = v5[e]
  BY <1>1
<1>3. CompactTyped' BY <1>2 DEF CompactHold, CompactTyped
<1>4. TalkHolds' BY DEF CompactHold, TalkHolds
<1>5. \A e \in Compact!Compactors : ReadHolds(v1, v2, v6, v5'[e]) BY <1>2 DEF CompactHold
<1>6. ASSUME v8' = "begun", NEW e \in Compact!Compactors, v5'[e] # Idle
      PROVE  /\ \A f \in Compact!Compactors \ {e} : v5'[f] = Idle
             /\ BegunHolds(v1, v2, v4, v5'[e])
  <2>1. CASE d = Idle
    <3>1. e # c /\ v5[e] # Idle /\ v8 = "begun" BY <1>2, <1>6, <2>1
    <3>2. \A f \in Compact!Compactors \ {e} : v5[f] = Idle BY <3>1 DEF CompactHold
    <3>3. BegunHolds(v1, v2, v4, v5[e]) BY <3>1 DEF CompactHold
    <3> QED BY <1>2, <2>1, <3>1, <3>2, <3>3
  <2>2. CASE d # Idle BY <1>2, <1>6, <2>2
  <2> QED BY <2>1, <2>2
<1> QED BY <1>3, <1>4, <1>5, <1>6 DEF CompactHold

\* A turn saves a message.
LEMMA SumGrows ==
  ASSUME NEW m \in Seq(Kinds), NEW kind \in Kinds, NEW g \in 0 .. Len(m), NEW cut,
         NEW s \in Summed, SumHolds(m, g, cut, s)
  PROVE  /\ SumHolds(Append(m, kind), g, cut, s)
         /\ SumEnds(m, g, s) => SumEnds(Append(m, kind), g, s)
<1>1. /\ Len(Append(m, kind)) = Len(m) + 1 /\ Len(m) \in Nat
      /\ \A k \in 1 .. Len(m) : Append(m, kind)[k] = m[k]
  OBVIOUS
<1>2. s.covered \in Nat BY DEF Summed
<1> DEFINE M == Append(m, kind)
<1> HIDE DEF M
<1>3. Len(M) = Len(m) + 1 /\ \A k \in 1 .. Len(m) : M[k] = m[k] BY <1>1 DEF M
<1>4. SumHolds(M, g, cut, s) BY <1>1, <1>2, <1>3 DEF SumHolds
<1>5. SumEnds(m, g, s) => SumEnds(M, g, s) BY <1>1, <1>2, <1>3 DEF SumEnds
<1> QED BY <1>4, <1>5 DEF M

LEMMA ReadGrows ==
  ASSUME NEW m \in Seq(Kinds), NEW kind \in Kinds, NEW g \in 0 .. Len(m), NEW cut,
         NEW d \in CompactStates, ReadHolds(m, g, cut, d),
         ~(d.step \in {"look", "load"} /\ d.keep = 0)
  PROVE  ReadHolds(Append(m, kind), g, cut, d)
<1> DEFINE M == Append(m, kind)
<1>1. /\ Len(M) = Len(m) + 1 /\ Len(m) \in Nat
      /\ \A k \in 1 .. Len(m) : M[k] = m[k]
  OBVIOUS
<1>2. ASSUME d.step \in {"load", "ask"} PROVE SumHolds(M, g, cut, d.previous)
  <2>1. d.previous \in Summed BY <1>2 DEF CompactStates
  <2> QED BY <1>2, <2>1, SumGrows DEF ReadHolds
<1> HIDE DEF M
<1>3. ASSUME d.step = "ask"
      PROVE  /\ d.from = NextOf(d.previous.covered, g)
             /\ \E a \in d.from .. Len(M) : \E b \in a .. Len(M) :
                  d.window = a .. b /\ (MinKeep > 0 => b < Len(M) /\ M[b + 1] # "tool")
  <2>1. d.from \in Nat BY <1>3 DEF CompactStates
  <2>2. d.from = NextOf(d.previous.covered, g) BY <1>3 DEF ReadHolds
  <2>3. PICK a \in d.from .. Len(m) : \E b \in a .. Len(m) :
          d.window = a .. b /\ (MinKeep > 0 => b < Len(m) /\ m[b + 1] # "tool")
    BY <1>3 DEF ReadHolds
  <2>4. PICK b \in a .. Len(m) :
           d.window = a .. b /\ (MinKeep > 0 => b < Len(m) /\ m[b + 1] # "tool")
    BY <2>3
  <2>5. a \in d.from .. Len(M) /\ b \in a .. Len(M) BY <1>1, <2>1
  <2>6. MinKeep > 0 => b < Len(M) /\ M[b + 1] # "tool"
    <3>1. ASSUME MinKeep > 0 PROVE b + 1 \in 1 .. Len(m) BY <1>1, <2>1, <2>4, <3>1
    <3> QED BY <1>1, <2>1, <2>4, <3>1
  <2> QED BY <2>2, <2>4, <2>5, <2>6
<1>4. ReadHolds(M, g, cut, d) BY <1>2, <1>3 DEF ReadHolds
<1> QED BY <1>4 DEF M

LEMMA TurnSaves ==
  ASSUME CompactHold, ~v7, NEW kind \in Kinds, NEW next, Compact!Append1(kind, next),
         kind = "calls" => Len(v1) > 0 /\ v1[Len(v1)] # "calls", kind = "calls" => next # "open",
         v7' = FALSE
  PROVE  CompactHold'
<1>1. /\ v1' = Append(v1, kind) /\ v3' = next /\ v8' = "no"
      /\ v5["turn"] = Idle /\ UNCHANGED <<v2, v4, v5, v6>>
      /\ ~(v5["http"].step \in {"look", "load"} /\ v5["http"].keep = 0)
  BY DEF Compact!Append1, Compact!Idle, Idle
<1>2. v1 \in Seq(Kinds) /\ v2 \in 0 .. Len(v1) /\ v4 \in Summed
      /\ v5 \in [Compact!Compactors -> CompactStates]
  BY DEF CompactHold, CompactTyped
<1>3. /\ Len(v1') = Len(v1) + 1 /\ Len(v1) \in Nat
      /\ \A k \in 1 .. Len(v1) : v1'[k] = v1[k]
      /\ v1'[Len(v1) + 1] = kind /\ v1' \in Seq(Kinds)
  BY <1>1, <1>2
<1>4. CompactTyped' BY <1>1, <1>2, <1>3 DEF CompactHold, CompactTyped
<1>5. TalkHolds'
  <2>1. ASSUME NEW k \in 1 .. Len(v1') - 1, v1'[k] = "calls" PROVE v1'[k + 1] # "calls"
    <3>1. k \in 1 .. Len(v1) /\ v1[k] = "calls" BY <1>3, <2>1
    <3>2. CASE k = Len(v1) BY <1>3, <3>1, <3>2
    <3>3. CASE k # Len(v1)
      <4>1. k \in 1 .. Len(v1) - 1 /\ k + 1 \in 1 .. Len(v1) BY <1>3, <3>1, <3>3
      <4> QED BY <1>3, <3>1, <4>1 DEF CompactHold, TalkHolds, WellMsg
    <3> QED BY <3>2, <3>3
  <2>2. v3' = "open" => Len(v1') > 0 /\ v1'[Len(v1')] # "calls" BY <1>1, <1>3
  <2> QED BY <1>3, <2>1, <2>2 DEF TalkHolds, WellMsg
<1>6. SumHolds(v1', v2, v6, v4) /\ (MinKeep > 0 => SumEnds(v1', v2, v4))
  BY <1>1, <1>2, SumGrows DEF CompactHold
<1>7. ASSUME NEW c \in Compact!Compactors PROVE ReadHolds(v1', v2, v6, v5[c])
  <2>1. ReadHolds(v1, v2, v6, v5[c]) /\ v5[c] \in CompactStates BY <1>2 DEF CompactHold
  <2>2. ~(v5[c].step \in {"look", "load"} /\ v5[c].keep = 0)
    BY <1>1 DEF Compact!Compactors, Idle
  <2> QED BY <1>1, <1>2, <2>1, <2>2, ReadGrows
<1> QED BY <1>1, <1>4, <1>5, <1>6, <1>7 DEF CompactHold

LEMMA TurnGoesOn ==
  ASSUME CompactHold, ~v7, v7' = FALSE,
         Compact!SaveUser \/ Compact!SaveCalls \/ Compact!SaveResult \/ Compact!SaveAnswer
  PROVE  CompactHold'
<1>1. CASE Compact!SaveUser
  <2>1. Compact!Append1("user", "open") BY <1>1 DEF Compact!SaveUser
  <2> QED BY <2>1, TurnSaves DEF Kinds
<1>2. CASE Compact!SaveCalls
  <2>1. Compact!Append1("calls", "calling") /\ v3 = "open" BY <1>2 DEF Compact!SaveCalls
  <2>2. Len(v1) > 0 /\ v1[Len(v1)] # "calls" BY <2>1 DEF CompactHold, TalkHolds
  <2> QED BY <2>1, <2>2, TurnSaves DEF Kinds
<1>3. CASE Compact!SaveResult
  <2>1. PICK next \in {"calling", "open"} : Compact!Append1("tool", next)
    BY <1>3 DEF Compact!SaveResult
  <2> QED BY <2>1, TurnSaves DEF Kinds
<1>4. CASE Compact!SaveAnswer
  <2>1. Compact!Append1("answer", "idle") BY <1>4 DEF Compact!SaveAnswer
  <2> QED BY <2>1, TurnSaves DEF Kinds
<1> QED BY <1>1, <1>2, <1>3, <1>4

LEMMA StopTurnKeeps ==
  ASSUME CompactHold, Compact!Stop
  PROVE  CompactHold'
<1>1. v3' = "idle" /\ UNCHANGED <<v1, v2, v4, v5, v6, v8>> BY DEF Compact!Stop
<1>2. CompactTyped' /\ TalkHolds' BY <1>1 DEF CompactHold, CompactTyped, TalkHolds
<1> QED BY <1>1, <1>2 DEF CompactHold

LEMMA ByHandKeeps ==
  ASSUME CompactHold, Compact!SaveByHand
  PROVE  CompactHold'
<1>1. /\ v4' = [covered |-> 0, content |-> {}] /\ v8' = "no"
      /\ UNCHANGED <<v1, v2, v3, v5, v6>>
  BY DEF Compact!SaveByHand, Compact!NoSummary
<1>2. CompactTyped' /\ TalkHolds'
  BY <1>1 DEF CompactHold, CompactTyped, TalkHolds, Summed
<1>3. SumHolds(v1, v2, v6, v4') /\ SumEnds(v1, v2, v4')
  BY <1>1 DEF SumHolds, SumEnds, CompactHold, CompactTyped
<1> QED BY <1>1, <1>2, <1>3 DEF CompactHold

LEMMA ResetConversationKeeps ==
  ASSUME CompactHold, Compact!Reset, v7' = FALSE
  PROVE  CompactHold'
<1>1. /\ v2' = Len(v1) /\ v4' = [covered |-> 0, content |-> {}] /\ v8' = "no" /\ v3 = "idle"
      /\ (\A c \in Compact!Compactors : v5[c] = Idle) /\ UNCHANGED <<v1, v3, v5, v6>>
  BY DEF Compact!Reset, Compact!NoSummary, Compact!Idle, Idle
<1>2. Len(v1) \in Nat BY DEF CompactHold, TalkHolds, WellMsg
<1>3. CompactTyped' /\ TalkHolds'
  BY <1>1, <1>2 DEF CompactHold, CompactTyped, TalkHolds, Summed
<1>4. SumHolds(v1, v2', v6, v4') /\ SumEnds(v1, v2', v4') BY <1>1, <1>2 DEF SumHolds, SumEnds
<1>5. ReadHolds(v1, v2', v6, Idle) BY DEF ReadHolds, Idle
<1> QED BY <1>1, <1>3, <1>4, <1>5 DEF CompactHold
\* What the budget keeps of the messages not covered.
LEMMA KeptFits ==
  ASSUME CompactHold, NEW keep \in Compact!BudgetKeeps(Compact!First(v4.covered))
  PROVE  /\ keep \in Nat /\ FitKeep(v1, NextOf(v4.covered, v2), keep)
         /\ MinKeep > 0 /\ keep = 0 => v2 = Len(v1)
<1> DEFINE lo == NextOf(v4.covered, v2)
<1>1. v4.covered \in Nat /\ Len(v1) \in Nat /\ v2 \in 0 .. Len(v1) /\ v4.covered <= Len(v1)
  BY DEF CompactHold, CompactTyped, Summed, TalkHolds, WellMsg, SumHolds
<1>2. Compact!First(v4.covered) = lo BY <1>1, FirstIs DEF NextOf
<1>3. lo \in 1 .. Len(v1) + 1 BY <1>1 DEF NextOf
<1>4. keep \in Compact!BudgetKeeps(lo) BY <1>2
<1> HIDE DEF lo
<1>5. keep \in Nat /\ FitKeep(v1, lo, keep) /\ (MinKeep > 0 /\ keep = 0 => lo > Len(v1))
  BY <1>1, <1>3, <1>4, BudgetKeepsFit
<1>6. ASSUME MinKeep > 0, keep = 0 PROVE v2 = Len(v1)
  <2>1. lo > Len(v1) BY <1>5, <1>6
  <2>2. v4.covered = 0 \/ v4.covered < Len(v1) BY <1>6 DEF CompactHold, SumEnds
  <2> QED BY <1>1, <2>1, <2>2 DEF lo, NextOf
<1> QED BY <1>5, <1>6 DEF lo

LEMMA BeginsKeep ==
  ASSUME CompactHold, NEW c \in Compact!Compactors, NEW keep, Compact!Begins(c, keep),
         \/ keep = None
         \/ keep \in Compact!BudgetKeeps(Compact!First(v4.covered))
  PROVE  CompactHold'
<1> DEFINE d == [step |-> "look", keep |-> keep]
<1>1. /\ v5[c] = Idle /\ v5' = [v5 EXCEPT ![c] = d]
      /\ v8' = (IF \A e \in Compact!Compactors : v5[e] = Idle THEN "begun" ELSE "no")
      /\ UNCHANGED <<v1, v2, v3, v4, v6>>
  BY DEF Compact!Begins, Compact!Goes, Compact!Idle, Idle
<1>2. /\ keep \in Nat \union {None}
      /\ keep = None \/ FitKeep(v1, NextOf(v4.covered, v2), keep)
      /\ MinKeep > 0 /\ keep = 0 => v2 = Len(v1)
  BY KeptFits, CompactionAssumed
<1>3. d \in CompactStates /\ d # Idle /\ d.step = "look" /\ d.keep = keep
  BY <1>2 DEF CompactStates, Idle
<1> HIDE DEF d
<1>4. ReadHolds(v1, v2, v6, d) BY <1>2, <1>3 DEF ReadHolds
<1>5. BegunHolds(v1, v2, v4, d) BY <1>2, <1>3 DEF BegunHolds
<1>6. v8' = "begun" => \A e \in Compact!Compactors \ {c} : v5[e] = Idle BY <1>1
<1>7. v8' # "saved" BY <1>1
<1> QED BY <1>1, <1>3, <1>4, <1>5, <1>6, <1>7, CompactGoes

\* What goes on as it began.
LEMMA StillAlone ==
  ASSUME CompactHold, NEW c \in Compact!Compactors, v5[c] # Idle, v8 = "begun"
  PROVE  /\ \A e \in Compact!Compactors \ {c} : v5[e] = Idle
         /\ BegunHolds(v1, v2, v4, v5[c])
  BY DEF CompactHold

LEMMA LoadSummaryKeeps ==
  ASSUME CompactHold, NEW c \in Compact!Compactors, Compact!LoadSummary(c)
  PROVE  CompactHold'
<1> DEFINE d == [step |-> "load", keep |-> v5[c].keep, previous |-> v4]
<1>1. /\ v5[c].step = "look" /\ v5' = [v5 EXCEPT ![c] = d]
      /\ v8' = v8 /\ UNCHANGED <<v1, v2, v3, v4, v6>>
  BY DEF Compact!LoadSummary, Compact!Goes
<1>2. v5[c] # Idle BY <1>1 DEF Idle
<1>3. v5[c].keep \in Nat \union {None} /\ v4 \in Summed
  BY <1>1 DEF CompactHold, CompactTyped, CompactStates
<1>4. d \in CompactStates /\ d.step = "load" /\ d.keep = v5[c].keep /\ d.previous = v4
  BY <1>3 DEF CompactStates
<1> HIDE DEF d
<1>5. ReadHolds(v1, v2, v6, d) BY <1>1, <1>4 DEF CompactHold, ReadHolds
<1>6. v8 = "begun" => /\ \A e \in Compact!Compactors \ {c} : v5[e] = Idle
                      /\ BegunHolds(v1, v2, v4, d)
  BY <1>1, <1>2, <1>4, StillAlone DEF BegunHolds
<1>7. d # Idle BY <1>4 DEF Idle
<1> QED BY <1>1, <1>4, <1>5, <1>6, <1>7, CompactGoes

LEMMA CountKeptKeeps ==
  ASSUME CompactHold, NEW c \in Compact!Compactors, Compact!CountKept(c)
  PROVE  CompactHold'
<1>1. PICK keep \in Compact!BudgetKeeps(Compact!First(v4.covered)) :
        v5' = [v5 EXCEPT ![c] = [v5[c] EXCEPT !.keep = keep]]
  BY DEF Compact!CountKept, Compact!Goes
<1> DEFINE d == [v5[c] EXCEPT !.keep = keep]
<1>2. /\ v5[c].step = "load" /\ v5' = [v5 EXCEPT ![c] = d]
      /\ v8' = v8 /\ UNCHANGED <<v1, v2, v3, v4, v6>>
  BY <1>1 DEF Compact!CountKept
<1>3. v5[c] # Idle BY <1>2 DEF Idle
<1>4. /\ keep \in Nat /\ FitKeep(v1, NextOf(v4.covered, v2), keep)
      /\ MinKeep > 0 /\ keep = 0 => v2 = Len(v1)
  BY KeptFits
<1>5. v5[c] \in [step : {"load"}, keep : Nat \union {None}, previous : Summed]
  BY <1>2 DEF CompactHold, CompactTyped, CompactStates
<1>6. d \in CompactStates /\ d.step = "load" /\ d.keep = keep /\ d.previous = v5[c].previous
  BY <1>4, <1>5 DEF CompactStates
<1> HIDE DEF d
<1>7. ReadHolds(v1, v2, v6, d) BY <1>2, <1>4, <1>6 DEF CompactHold, ReadHolds
<1>8. v8 = "begun" => /\ \A e \in Compact!Compactors \ {c} : v5[e] = Idle
                      /\ BegunHolds(v1, v2, v4, d)
  BY <1>2, <1>3, <1>4, <1>6, StillAlone DEF BegunHolds
<1>9. d # Idle BY <1>6 DEF Idle
<1> QED BY <1>2, <1>6, <1>7, <1>8, <1>9, CompactGoes

LEMMA GoesIdle ==
  ASSUME CompactHold, NEW c \in Compact!Compactors, v5' = [v5 EXCEPT ![c] = Idle],
         UNCHANGED <<v1, v2, v3, v4, v6, v8>>
  PROVE  CompactHold'
<1>1. Idle \in CompactStates BY DEF CompactStates, Idle
<1>2. ReadHolds(v1, v2, v6, Idle) BY DEF ReadHolds, Idle
<1> QED BY <1>1, <1>2, CompactGoes

LEMMA LoadMessagesKeeps ==
  ASSUME CompactHold, NEW c \in Compact!Compactors, Compact!LoadMessages(c)
  PROVE  CompactHold'
<1> DEFINE p == v5[c].previous
           lo == Compact!First(p.covered)
           keep == IF v5[c].keep = None THEN Compact!RecentCount(lo, KeepTurns) ELSE v5[c].keep
           window == Compact!Window(lo, keep)
           d == [step |-> "ask", previous |-> p, window |-> window, from |-> lo]
<1>1. /\ v5[c].step = "load"
      /\ v5' = [v5 EXCEPT ![c] = IF window = {} THEN Idle ELSE d]
      /\ UNCHANGED <<v1, v2, v3, v4, v6, v8>>
  BY DEF Compact!LoadMessages, Compact!Goes, Compact!Idle, Idle
<1>2. CASE window = {}
  <2>1. v5' = [v5 EXCEPT ![c] = Idle] BY <1>1, <1>2
  <2> QED BY <1>1, <2>1, GoesIdle
<1>3. CASE window # {}
  <2>1. v5' = [v5 EXCEPT ![c] = d] BY <1>1, <1>3
  <2>2. v5[c] # Idle BY <1>1 DEF Idle
  <2>3. v5[c] \in [step : {"load"}, keep : Nat \union {None}, previous : Summed]
    BY <1>1 DEF CompactHold, CompactTyped, CompactStates
  <2>4. p \in Summed /\ SumHolds(v1, v2, v6, p) BY <1>1, <2>3 DEF CompactHold, ReadHolds
  <2>5. p.covered \in Nat /\ p.covered <= Len(v1) /\ Len(v1) \in Nat /\ v2 \in 0 .. Len(v1)
        /\ WellMsg(v1)
    BY <2>4 DEF SumHolds, Summed, CompactHold, CompactTyped, TalkHolds, WellMsg
  <2>6. lo = NextOf(p.covered, v2)
    <3> HIDE DEF p
    <3> QED BY <2>5, FirstIs DEF NextOf
  <2>7. lo \in 1 .. Len(v1) + 1 /\ lo > v2 BY <2>5, <2>6 DEF NextOf
  <2> HIDE DEF lo
  <2>8. keep \in Nat /\ (v5[c].keep = None => FitKeep(v1, lo, keep))
        /\ (v5[c].keep # None => keep = v5[c].keep)
    BY <2>3, <2>5, <2>7, RecentCountFits, CompactionAssumed
  <2>9. lo <= Len(v1) => (v5[c].keep = None => keep > 0)
    BY <2>5, <2>7, RecentCountFits, CompactionAssumed
  <2> HIDE DEF keep
  <2>10. PICK a \in lo .. Len(v1) : \E b \in a .. Len(v1) - keep :
           /\ window = a .. b
           /\ b < Len(v1) => v1[b + 1] # "tool"
           /\ FitKeep(v1, lo, keep) => RestShown(v1, b)
    BY <1>3, <2>5, <2>7, <2>8, WindowIs
  <2>11. PICK b \in a .. Len(v1) - keep :
           /\ window = a .. b
           /\ b < Len(v1) => v1[b + 1] # "tool"
           /\ FitKeep(v1, lo, keep) => RestShown(v1, b)
    BY <2>10
  <2>12. a \in lo .. Len(v1) /\ b \in a .. Len(v1) /\ a \in Nat /\ b \in Nat /\ a <= b
    BY <2>5, <2>7, <2>8
  <2>13. ASSUME MinKeep > 0 PROVE b < Len(v1) /\ v1[b + 1] # "tool"
    <3>1. keep # 0
      <4>1. ASSUME keep = 0 PROVE FALSE
        <5>1. v5[c].keep = 0 BY <2>5, <2>7, <2>8, <2>9, <2>12, <4>1
        <5>2. v2 = Len(v1) BY <1>1, <2>13, <5>1 DEF CompactHold, ReadHolds
        <5> QED BY <2>5, <2>7, <2>12, <5>2
      <4> QED BY <4>1
    <3>2. b < Len(v1) BY <2>5, <2>8, <2>12, <3>1
    <3> QED BY <2>11, <3>2
  <2> HIDE DEF window
  <2>14. window \in SUBSET Nat /\ lo \in Nat BY <2>7, <2>11, <2>12
  <2>15. d \in CompactStates /\ d.step = "ask" /\ d.previous = p /\ d.window = window
         /\ d.from = lo
    <3> HIDE DEF p
    <3> QED BY <2>4, <2>14 DEF CompactStates
  <2> HIDE DEF d
  <2>16. ReadHolds(v1, v2, v6, d)
    <3> HIDE DEF p
    <3> QED BY <2>4, <2>6, <2>11, <2>12, <2>13, <2>15 DEF ReadHolds
  <2>17. ASSUME v8 = "begun"
         PROVE  /\ \A e \in Compact!Compactors \ {c} : v5[e] = Idle
                /\ BegunHolds(v1, v2, v4, d)
    <3>1. /\ \A e \in Compact!Compactors \ {c} : v5[e] = Idle
          /\ BegunHolds(v1, v2, v4, v5[c])
      BY <2>2, <2>17, StillAlone
    <3>2. p = v4 /\ (v5[c].keep = None \/ FitKeep(v1, NextOf(v4.covered, v2), v5[c].keep))
      BY <1>1, <3>1 DEF BegunHolds
    <3>3. FitKeep(v1, lo, keep) BY <2>6, <2>8, <3>2
    <3>4. RestShown(v1, b) BY <2>11, <3>3
    <3>5. Compact!Max(window) = b BY <2>11, <2>12, EndsOf
    <3> QED BY <2>15, <3>1, <3>2, <3>4, <3>5 DEF BegunHolds
  <2>18. d # Idle BY <2>15 DEF Idle
  <2> QED BY <1>1, <2>1, <2>15, <2>16, <2>17, <2>18, CompactGoes
<1> QED BY <1>2, <1>3

LEMMA FailKeeps ==
  ASSUME CompactHold, NEW c \in Compact!Compactors, Compact!Fail(c)
  PROVE  CompactHold'
<1>1. v5' = [v5 EXCEPT ![c] = Idle] /\ UNCHANGED <<v1, v2, v3, v4, v6, v8>>
  BY DEF Compact!Fail, Compact!Goes, Compact!Idle, Idle
<1> QED BY <1>1, GoesIdle

\* What is cut off is not missed by those that have read a summary before.
LEMMA MoreCut ==
  ASSUME NEW m, NEW g, NEW cut, NEW more, cut \subseteq more
  PROVE  /\ \A s : SumHolds(m, g, cut, s) => SumHolds(m, g, more, s)
         /\ \A d : ReadHolds(m, g, cut, d) => ReadHolds(m, g, more, d)
<1>1. \A s : SumHolds(m, g, cut, s) => SumHolds(m, g, more, s) BY DEF SumHolds
<1> QED BY <1>1 DEF ReadHolds

LEMMA NextIs ==
  ASSUME NEW x \in Nat, NEW g \in Nat
  PROVE  NextOf(x, g) \in Nat /\ NextOf(x, g) > g /\ NextOf(x, g) > x
         /\ (x >= g => NextOf(x, g) = x + 1)
  BY DEF NextOf

LEMMA SaveSummaryKeeps ==
  ASSUME CompactHold, NEW c \in Compact!Compactors, Compact!Save(c)
  PROVE  CompactHold'
<1>1. v5[c].step = "ask" BY DEF Compact!Save
<1>2. v5[c] \in [step : {"ask"}, previous : Summed, window : SUBSET Nat, from : Nat]
  BY <1>1 DEF CompactHold, CompactTyped, CompactStates
<1> DEFINE p == v5[c].previous
           from == v5[c].from
<1>3. SumHolds(v1, v2, v6, p) /\ from = NextOf(p.covered, v2) BY <1>1 DEF CompactHold, ReadHolds
<1>4. PICK a \in from .. Len(v1) : \E b \in a .. Len(v1) :
        v5[c].window = a .. b /\ (MinKeep > 0 => b < Len(v1) /\ v1[b + 1] # "tool")
  BY <1>1 DEF CompactHold, ReadHolds
<1>5. PICK b \in a .. Len(v1) :
        v5[c].window = a .. b /\ (MinKeep > 0 => b < Len(v1) /\ v1[b + 1] # "tool")
  BY <1>4
<1>6. p \in Summed /\ p.covered \in Nat /\ p.content \in SUBSET Nat BY <1>2 DEF Summed
<1>7. Len(v1) \in Nat /\ v2 \in 0 .. Len(v1) /\ p.covered <= Len(v1)
  BY <1>3 DEF CompactHold, CompactTyped, TalkHolds, WellMsg, SumHolds
<1>8. from \in Nat /\ from > v2 /\ from > p.covered
  <2>1. v2 \in Nat BY <1>7
  <2> HIDE DEF from, p
  <2> QED BY <1>3, <1>6, <2>1, NextIs
<1>9. a \in Nat /\ b \in Nat /\ a <= b /\ from <= a /\ b <= Len(v1) BY <1>7, <1>8
<1>10. Compact!Max(v5[c].window) = b /\ Compact!Min(v5[c].window) = a BY <1>5, <1>9, EndsOf
<1> DEFINE s == [covered |-> b, content |-> p.content \union (a .. b)]
           more == v6 \union {k \in from .. a - 1 : a > from}
<1>11. /\ v4' = s /\ v6' = more /\ v5' = [v5 EXCEPT ![c] = Idle]
       /\ v8' = (IF v8 = "begun" THEN "saved" ELSE "no")
       /\ UNCHANGED <<v1, v2, v3>>
  BY <1>5, <1>10 DEF Compact!Save, Compact!Covered, Compact!Goes, Compact!Idle, Idle
<1>12. s \in Summed /\ s.covered = b /\ s.content = p.content \union (a .. b)
  BY <1>6, <1>9 DEF Summed
<1>13. more \in SUBSET Nat /\ v6 \subseteq more /\ \A k \in from .. a - 1 : k \in more
  BY <1>8, <1>9 DEF CompactHold, CompactTyped
<1> HIDE DEF p, from, s, more
<1>14. SumHolds(v1, v2, more, s)
  <2>1. ASSUME NEW k \in v2 + 1 .. b PROVE k \in s.content \union more
    <3>1. k \in Int /\ v2 \in Int BY <1>7, <1>9
    <3>2. CASE k < from
      <4>1. k \in v2 + 1 .. p.covered BY <1>3, <1>6, <1>7, <2>1, <3>1, <3>2 DEF NextOf
      <4> QED BY <1>3, <1>12, <1>13, <4>1 DEF SumHolds
    <3>3. CASE ~(k < from) /\ k < a
      <4>1. k \in from .. a - 1 BY <1>8, <1>9, <3>1, <3>3
      <4> QED BY <1>13, <4>1
    <3>4. CASE ~(k < a)
      <4>1. k \in a .. b BY <1>9, <2>1, <3>1, <3>4
      <4> QED BY <1>12, <4>1
    <3> QED BY <3>2, <3>3, <3>4
  <2>2. ASSUME NEW k \in s.content PROVE k > v2
    <3>1. CASE k \in p.content BY <1>3, <3>1 DEF SumHolds
    <3>2. CASE k \in a .. b BY <1>7, <1>8, <1>9, <3>2
    <3> QED BY <1>12, <2>2, <3>1, <3>2
  <2> QED BY <1>9, <1>12, <2>1, <2>2 DEF SumHolds
<1>15. MinKeep > 0 => SumEnds(v1, v2, s) BY <1>5, <1>12 DEF SumEnds
<1>16. v5 \in [Compact!Compactors -> CompactStates] /\ Idle \in CompactStates
  BY DEF CompactHold, CompactTyped, CompactStates, Idle
<1>17. /\ v5' \in [Compact!Compactors -> CompactStates] /\ v5'[c] = Idle
       /\ \A e \in Compact!Compactors \ {c} : v5'[e] = v5[e]
  BY <1>11, <1>16
<1>18. ASSUME NEW e \in Compact!Compactors PROVE ReadHolds(v1, v2, more, v5'[e])
  <2>1. ReadHolds(v1, v2, more, Idle) BY DEF ReadHolds, Idle
  <2>2. ReadHolds(v1, v2, more, v5[e]) BY <1>13, MoreCut DEF CompactHold
  <2> QED BY <1>17, <2>1, <2>2
<1>19. ASSUME v8' = "saved" PROVE s.covered >= v2 /\ RestShown(v1, s.covered)
  <2>1. v8 = "begun" BY <1>11, <1>19
  <2>2. v5[c] # Idle BY <1>1 DEF Idle
  <2>3. BegunHolds(v1, v2, v4, v5[c]) BY <2>1, <2>2, StillAlone
  <2>4. RestShown(v1, b) BY <1>1, <1>10, <2>3 DEF BegunHolds
  <2> QED BY <1>7, <1>8, <1>9, <1>12, <2>4
<1>20. CompactTyped' BY <1>11, <1>12, <1>13, <1>17 DEF CompactHold, CompactTyped
<1>21. TalkHolds' BY <1>11 DEF CompactHold, TalkHolds
<1>22. v8' # "begun" BY <1>11
<1> QED BY <1>11, <1>14, <1>15, <1>18, <1>19, <1>20, <1>21, <1>22 DEF CompactHold

LEMMA CompactSteps == CompactInv /\ [Next]_<<part, input, partVars>> => CompactInv'
<1> SUFFICES ASSUME CompactInv, [Next]_<<part, input, partVars>>, part' = "compaction"
             PROVE  v7' \in BOOLEAN /\ (~v7' => CompactHold')
  BY DEF CompactInv
<1>1. part = "compaction" /\ v7 \in BOOLEAN /\ (~v7 => CompactHold)
  BY DEF CompactInv, Next, PartsNext, Ask, partVars
<1>2. CASE UNCHANGED <<v1, v2, v3, v4, v5, v6, v7, v8>>
  <2>1. ~v7 => CompactTyped' /\ TalkHolds'
    BY <1>1, <1>2 DEF CompactHold, CompactTyped, TalkHolds
  <2> QED BY <1>1, <1>2, <2>1 DEF CompactHold
<1>3. CASE ~v7 /\ Compact!Next
  <2>1. CompactHold /\ v7 = FALSE BY <1>1, <1>3
  <2>2. CASE Compact!SaveUser \/ Compact!SaveCalls \/ Compact!SaveResult \/ Compact!SaveAnswer
    <3>1. v7' \in BOOLEAN
      BY <1>1, <2>2 DEF Compact!SaveUser, Compact!SaveCalls, Compact!SaveResult,
                        Compact!SaveAnswer, Compact!Append1
    <3> QED BY <1>3, <2>1, <2>2, <3>1, TurnGoesOn
  <2>3. CASE Compact!Stop BY <2>1, <2>3, StopTurnKeeps DEF Compact!Stop
  <2>4. CASE Compact!SaveByHand BY <2>1, <2>4, ByHandKeeps DEF Compact!SaveByHand
  <2>5. CASE Compact!Reset
    <3>1. v7' \in BOOLEAN BY <1>1, <2>5 DEF Compact!Reset
    <3> QED BY <2>1, <2>5, <3>1, ResetConversationKeeps
  <2>6. CASE Compact!Overflow
    <3>1. PICK keep \in Compact!BudgetKeeps(Compact!First(v4.covered)) : Compact!Begins("turn", keep)
      BY <2>6 DEF Compact!Overflow
    <3>2. CompactHold' BY <2>1, <3>1, BeginsKeep DEF Compact!Compactors
    <3> QED BY <2>1, <3>1, <3>2 DEF Compact!Begins
  <2>7. ASSUME NEW c \in Compact!Compactors, Compact!Begin(c)
        PROVE  v7' \in BOOLEAN /\ CompactHold'
    <3>1. \E keep : /\ Compact!Begins(c, keep)
                    /\ keep = None \/ keep \in Compact!BudgetKeeps(Compact!First(v4.covered))
      BY <2>7 DEF Compact!Begin
    <3>2. CompactHold' BY <2>1, <3>1, BeginsKeep
    <3> QED BY <2>1, <3>1, <3>2 DEF Compact!Begins
  <2>8. ASSUME NEW c \in Compact!Compactors, Compact!LoadSummary(c)
        PROVE  v7' \in BOOLEAN /\ CompactHold'
    BY <2>1, <2>8, LoadSummaryKeeps DEF Compact!LoadSummary
  <2>9. ASSUME NEW c \in Compact!Compactors, Compact!CountKept(c)
        PROVE  v7' \in BOOLEAN /\ CompactHold'
    BY <2>1, <2>9, CountKeptKeeps DEF Compact!CountKept
  <2>10. ASSUME NEW c \in Compact!Compactors, Compact!LoadMessages(c)
         PROVE  v7' \in BOOLEAN /\ CompactHold'
    BY <2>1, <2>10, LoadMessagesKeeps DEF Compact!LoadMessages
  <2>11. ASSUME NEW c \in Compact!Compactors, Compact!Fail(c)
         PROVE  v7' \in BOOLEAN /\ CompactHold'
    BY <2>1, <2>11, FailKeeps DEF Compact!Fail
  <2>12. ASSUME NEW c \in Compact!Compactors, Compact!Save(c)
         PROVE  v7' \in BOOLEAN /\ CompactHold'
    BY <2>1, <2>12, SaveSummaryKeeps DEF Compact!Save
  <2> QED BY <1>3, <2>2, <2>3, <2>4, <2>5, <2>6, <2>7, <2>8, <2>9, <2>10, <2>11, <2>12
          DEF Compact!Next
<1>4. (~v7 /\ Compact!Next) \/ UNCHANGED <<v1, v2, v3, v4, v5, v6, v7, v8>>
  BY <1>1 DEF Next, PartsNext, Ask, partVars
<1> QED BY <1>2, <1>3, <1>4

\* What the invariant says of a summary.
LEMMA SummaryTells ==
  ASSUME CompactHold
  PROVE  /\ Compact!Folded /\ Compact!Forgotten /\ (MinKeep > 0 => Compact!PairsWhole)
         /\ v8 = "saved" => Compact!WholeShown
<1>1. Compact!Folded /\ Compact!Forgotten
  BY DEF CompactHold, SumHolds, Compact!Folded, Compact!Forgotten
<1>2. MinKeep > 0 => Compact!PairsWhole BY DEF CompactHold, SumEnds, Compact!PairsWhole
<1>3. ASSUME v8 = "saved", NEW k \in v2 + 1 .. Len(v1)
      PROVE  k \in v4.content \union v6 \union Compact!Shown \/ v1[k] = "calls"
  <2>1. /\ v4.covered \in Nat /\ v4.covered <= Len(v1) /\ Len(v1) \in Nat /\ v2 \in 0 .. Len(v1)
        /\ WellMsg(v1)
    BY DEF CompactHold, CompactTyped, Summed, TalkHolds, WellMsg, SumHolds
  <2>2. v4.covered >= v2 /\ RestShown(v1, v4.covered) BY <1>3 DEF CompactHold
  <2>3. Compact!First(v4.covered) = v4.covered + 1
    <3>1. v2 \in Nat BY <2>1
    <3>2. Compact!First(v4.covered) = NextOf(v4.covered, v2) BY <2>1, <3>1, FirstIs DEF NextOf
    <3> QED BY <2>1, <2>2, <3>1, <3>2, NextIs
  <2>4. CASE k <= v4.covered
    <3>1. k \in v2 + 1 .. v4.covered BY <1>3, <2>1, <2>4
    <3> QED BY <3>1 DEF CompactHold, SumHolds
  <2>5. CASE ~(k <= v4.covered) /\ v1[k] # "calls"
    <3>1. k \in v4.covered + 1 .. Len(v1) /\ v4.covered \in 0 .. Len(v1) BY <1>3, <2>1, <2>5
    <3>2. k \in Compact!Recent(v4.covered + 1, KeepTurns)
      BY <2>1, <2>2, <2>5, <3>1, RestIsRecent
    <3> QED BY <2>3, <3>2 DEF Compact!Shown
  <2> QED BY <2>4, <2>5
<1> QED BY <1>1, <1>2, <1>3 DEF Compact!WholeShown

\* Unless a reset met a turn or a compaction, what a summary covers it has folded
\* in, a call is not parted from its result, and summary and recent turns are the
\* whole conversation.
THEOREM SummariesAreFaithful == Spec => [](part = "compaction" => Compact!SummaryFaithful)
<1>1. Init => CompactInv BY CompactBegins
<1>2. CompactInv /\ [Next]_<<part, input, partVars>> => CompactInv' BY CompactSteps
<1>3. CompactInv => (part = "compaction" => Compact!SummaryFaithful)
  BY SummaryTells DEF CompactInv, Compact!SummaryFaithful
<1> QED BY <1>1, <1>2, <1>3, PTL DEF Spec

----------------------------------------------------------------------------
(* What is recalled.                                                       *)

LEMMA RecallAssumed ==
  /\ RecallLimit \in Nat \ {0} /\ RecallExtra \in Nat /\ RecallCandidates \in Nat
  /\ RecallFound \in Nat /\ RecallInputs \subseteq Reminder!RecallAsked
  BY ServicesAssumption DEF Reminder!RecallAssumption

LEMMA CountIs == \A S : Reminder!Cardinality(S) = Cardinality(S)
  BY DEF Reminder!Cardinality, Cardinality

\* The first n of some numbers.
Early(S, n) == {i \in S : Cardinality({j \in S : j < i}) < n}

LEMMA PartsAreFinite ==
  ASSUME NEW m \in Nat, NEW S, S \subseteq 0 .. m
  PROVE  /\ IsFiniteSet(S) /\ Cardinality(S) \in Nat
         /\ \A T : T \subseteq S => /\ IsFiniteSet(T) /\ Cardinality(T) \in Nat
                                    /\ Cardinality(T) <= Cardinality(S)
<1>1. IsFiniteSet(0 .. m) BY FS_Interval
<1>2. IsFiniteSet(S) BY <1>1, FS_Subset
<1>3. ASSUME NEW T, T \subseteq S
      PROVE  /\ IsFiniteSet(T) /\ Cardinality(T) \in Nat
             /\ Cardinality(T) <= Cardinality(S)
  BY <1>2, <1>3, FS_Subset, FS_CardinalityType
<1> QED BY <1>2, <1>3, FS_CardinalityType

\* They are n at most.
LEMMA EarlyAreFew ==
  ASSUME NEW m \in Nat, NEW S, S \subseteq 0 .. m, NEW n \in Nat
  PROVE  /\ Early(S, n) \subseteq S /\ IsFiniteSet(Early(S, n))
         /\ Cardinality(Early(S, n)) \in Nat /\ Cardinality(Early(S, n)) <= n
<1> DEFINE E == Early(S, n)
<1>1. E \subseteq S BY DEF Early
<1>2. IsFiniteSet(E) /\ Cardinality(E) \in Nat BY <1>1, PartsAreFinite
<1>3. CASE E = {}
  <2>1. Cardinality(E) = 0 BY <1>3, FS_EmptySet
  <2> QED BY <1>1, <1>2, <2>1
<1>4. CASE E # {}
  <2>1. PICK i \in E : \A j \in E : j <= i
    <3>1. E \subseteq 0 .. m BY <1>1
    <3> HIDE DEF E
    <3> QED BY <1>4, <3>1, GreatestIs
  <2>2. i \in S /\ Cardinality({j \in S : j < i}) < n BY <2>1 DEF Early
  <2>3. \A j \in E \ {i} : j \in S /\ j < i
    <3>1. \A j \in S : j \in Int OBVIOUS
    <3> HIDE DEF E
    <3> QED BY <1>1, <2>1, <3>1
  <2> DEFINE B == {j \in S : j < i}
  <2>4. E \ {i} \subseteq B BY <2>3
  <2>5. IsFiniteSet(B) /\ Cardinality(B) \in Nat
    <3>1. B \subseteq S OBVIOUS
    <3> HIDE DEF B
    <3> QED BY <3>1, PartsAreFinite
  <2>6. Cardinality(B) < n BY <2>2
  <2> HIDE DEF B, E
  <2>7. IsFiniteSet(E \ {i}) /\ Cardinality(E \ {i}) <= Cardinality(B) BY <2>4, <2>5, FS_Subset
  <2>8. Cardinality(E \ {i}) = Cardinality(E) - 1 BY <1>2, <2>1, FS_RemoveElement
  <2>9. Cardinality(E) <= n BY <1>2, <2>5, <2>6, <2>7, <2>8
  <2> QED BY <1>1, <1>2, <2>9 DEF E
<1> QED BY <1>3, <1>4

\* They are n, unless they are all.
LEMMA EarlyAreEnough ==
  ASSUME NEW m \in Nat, NEW S, S \subseteq 0 .. m, NEW n \in Nat, Early(S, n) # S
  PROVE  Cardinality(Early(S, n)) >= n
<1> DEFINE R == S \ Early(S, n)
<1>1. R # {} /\ R \subseteq 0 .. m BY DEF Early
<1>2. PICK i \in R : \A j \in R : i <= j
  <2> HIDE DEF R
  <2> QED BY <1>1, LeastIs
<1> DEFINE B == {j \in S : j < i}
<1>3. i \in S /\ ~(Cardinality(B) < n) BY <1>2 DEF Early
<1>4. B \subseteq Early(S, n)
  <2>1. ASSUME NEW j \in B, j \notin Early(S, n) PROVE FALSE
    <3>1. j \in R /\ j < i /\ j \in Int /\ i \in Int BY <2>1, <1>3
    <3>2. i <= j
      <4> HIDE DEF R
      <4> QED BY <1>2, <3>1
    <3> QED BY <3>1, <3>2
  <2> QED BY <2>1
<1>5. Cardinality(B) \in Nat
  <2>1. B \subseteq S OBVIOUS
  <2> HIDE DEF B
  <2> QED BY <2>1, PartsAreFinite
<1>6. IsFiniteSet(Early(S, n)) /\ Cardinality(Early(S, n)) \in Nat BY EarlyAreFew
<1> HIDE DEF B
<1>7. Cardinality(B) <= Cardinality(Early(S, n)) BY <1>4, <1>6, FS_Subset
<1> QED BY <1>3, <1>5, <1>6, <1>7

LEMMA EarlyAreAll ==
  ASSUME NEW m \in Nat, NEW S, S \subseteq 0 .. m, NEW n \in Nat, Cardinality(Early(S, n)) < n
  PROVE  Early(S, n) = S
<1>1. ASSUME Early(S, n) # S PROVE FALSE
  <2> DEFINE c == Cardinality(Early(S, n))
  <2>1. c >= n BY <1>1, EarlyAreEnough
  <2>2. c \in Nat BY EarlyAreFew
  <2>3. c < n OBVIOUS
  <2> HIDE DEF c
  <2> QED BY <2>1, <2>2, <2>3
<1> QED BY <1>1

\* Two sets have no more than both of them.
LEMMA AtMostBoth ==
  ASSUME NEW A, NEW B, NEW C, IsFiniteSet(A), IsFiniteSet(B), C \subseteq A \union B
  PROVE  /\ Cardinality(C) \in Nat /\ Cardinality(A) \in Nat /\ Cardinality(B) \in Nat
         /\ Cardinality(C) <= Cardinality(A) + Cardinality(B)
<1>1. /\ IsFiniteSet(A \union B) /\ Cardinality(A \union B) \in Nat
      /\ Cardinality(A \union B) <= Cardinality(A) + Cardinality(B)
  <2>1. IsFiniteSet(A \union B) BY FS_Union
  <2>2. Cardinality(A \union B) = Cardinality(A) + Cardinality(B) - Cardinality(A \cap B)
    BY FS_Union
  <2>3. IsFiniteSet(A \cap B) BY FS_Subset
  <2>4. /\ Cardinality(A \cap B) \in Nat /\ Cardinality(A) \in Nat /\ Cardinality(B) \in Nat
        /\ Cardinality(A \union B) \in Nat
    BY <2>1, <2>3, FS_CardinalityType
  <2> QED BY <2>1, <2>2, <2>4
<1>2. IsFiniteSet(C) /\ Cardinality(C) <= Cardinality(A \union B) BY <1>1, FS_Subset
<1>3. Cardinality(C) \in Nat /\ Cardinality(A) \in Nat /\ Cardinality(B) \in Nat
  BY <1>2, FS_CardinalityType
<1> QED BY <1>1, <1>2, <1>3

LEMMA FirstAreEarly ==
  ASSUME NEW matches, NEW S, S \subseteq DOMAIN matches, NEW n
  PROVE  Reminder!First(S, n, Reminder!Ranked(matches)) = Early(S, n)
<1>1. ASSUME NEW i \in S
      PROVE  {j \in S : <<j, i>> \in Reminder!Ranked(matches)} = {j \in S : j < i}
  BY DEF Reminder!Ranked
<1>2. \A i \in S : Reminder!Cardinality({j \in S : <<j, i>> \in Reminder!Ranked(matches)})
                     = Cardinality({j \in S : j < i})
  BY <1>1, CountIs
<1> QED BY <1>2 DEF Reminder!First, Early

\* RuntimeMemoryManager.prefetch_for_turn: the summary goes where the messages go.
LEMMA NothingIsUncovered ==
  ASSUME NEW x \in Reminder!RecallAsked
  PROVE  Reminder!NothingUncovered(x.matches, "s1", x.provider, x.summary)
<1>1. x.provider \in {"builtin", "hybrid"} \/ x.provider \in {"external", "fails"}
  BY DEF Reminder!RecallAsked
<1>2. ~(x.provider \in {"builtin", "hybrid"} /\ x.provider \in {"external", "fails"}) OBVIOUS
<1>3. CASE x.provider \in {"builtin", "hybrid"}
  BY <1>2, <1>3 DEF Reminder!NothingUncovered, Reminder!Prefetched
<1>4. CASE x.provider \in {"external", "fails"}
  BY <1>2, <1>4 DEF Reminder!NothingUncovered, Reminder!Prefetched
<1> QED BY <1>1, <1>3, <1>4

\* Both searches fill what room there is.
LEMMA RecallIsComplete ==
  ASSUME NEW matches \in Seq([session : STRING, same : BOOLEAN]), NEW session
  PROVE  Reminder!RecallComplete(matches, session)
<1> DEFINE m == Len(matches)
           D == DOMAIN matches
           O == Reminder!OfSession(matches, session)
           P == Reminder!Repeats(matches)
           A == Early(O, RecallLimit + 1)
           G == Early(A \ P, RecallLimit)
           B == Early(D, RecallLimit + RecallExtra)
           room == RecallLimit - Cardinality(G)
           H == Early((B \ P) \ G, room)
           rest == (D \ P) \ (G \union H)
<1>1. m \in Nat /\ D \subseteq 0 .. m /\ O \subseteq D /\ P \subseteq D
  BY DEF Reminder!OfSession, Reminder!Repeats
<1>2. RecallLimit \in Nat /\ RecallLimit + 1 \in Nat /\ RecallLimit + RecallExtra \in Nat
      /\ RecallExtra \in Nat
  BY RecallAssumed
<1> HIDE DEF m, D, O, P
<1>3. A \subseteq O /\ B \subseteq D
  BY DEF Early
<1>4. /\ G \subseteq A \ P /\ IsFiniteSet(G) /\ Cardinality(G) \in Nat
      /\ Cardinality(G) <= RecallLimit
  <2>1. A \ P \subseteq 0 .. m BY <1>1, <1>3
  <2> HIDE DEF A
  <2> QED BY <1>1, <1>2, <2>1, EarlyAreFew
<1>5. room \in Nat BY <1>2, <1>4
<1>6. /\ H \subseteq (B \ P) \ G /\ IsFiniteSet(H) /\ Cardinality(H) \in Nat
      /\ Cardinality(H) <= room
  <2>1. (B \ P) \ G \subseteq 0 .. m BY <1>1, <1>3
  <2> HIDE DEF A, B, G, room
  <2> QED BY <1>1, <1>5, <2>1, EarlyAreFew
<1>7. Reminder!FromSession(matches, session) = G
  <2>1. Reminder!SearchSession(matches, session, RecallLimit + 1) = A
    BY <1>1, FirstAreEarly DEF Reminder!SearchSession, O, D
  <2>2. A \ P \subseteq D BY <1>1, <1>3
  <2> HIDE DEF A
  <2> QED BY <2>1, <2>2, FirstAreEarly DEF Reminder!FromSession, P, D
<1>8. Reminder!FromAll(matches, G) = H
  <2>1. Reminder!SearchAll(matches, RecallLimit + RecallExtra) = B
    BY FirstAreEarly DEF Reminder!SearchAll, D
  <2>2. (B \ P) \ G \subseteq D BY <1>1, <1>3
  <2>3. RecallLimit - Reminder!Cardinality(G) = room BY CountIs
  <2> HIDE DEF A, B, G, room
  <2> QED BY <2>1, <2>2, <2>3, FirstAreEarly DEF Reminder!FromAll, P, D
<1> HIDE DEF A, B, G, H
<1>9. /\ Reminder!Recalled(matches, session, TRUE).own = G
      /\ Reminder!Recalled(matches, session, TRUE).others = H
  BY <1>7, <1>8 DEF Reminder!Recalled
<1>10. Cardinality(G) + Cardinality(H) <= RecallLimit BY <1>2, <1>4, <1>6
<1>11. G \intersect H = {} /\ (G \union H) \intersect P = {} /\ G \subseteq O
  BY <1>3, <1>4, <1>6
<1>12. IsFiniteSet(P) /\ IsFiniteSet(P \intersect O)
       /\ Cardinality(P) \in Nat /\ Cardinality(P \intersect O) \in Nat
  BY <1>1, PartsAreFinite
<1>13. ASSUME rest # {}, Cardinality(G \union H) < RecallLimit PROVE Cardinality(P) > RecallExtra
  <2>1. Cardinality(G \union H) = Cardinality(G) + Cardinality(H)
    <3>1. Cardinality(G \intersect H) = 0 BY <1>11, FS_EmptySet
    <3>2. Cardinality(G \union H) = Cardinality(G) + Cardinality(H) - Cardinality(G \intersect H)
      BY <1>4, <1>6, FS_Union
    <3> QED BY <1>4, <1>6, <3>1, <3>2
  <2>2. Cardinality(H) < room BY <1>2, <1>4, <1>6, <1>13, <2>1
  <2>3. H = (B \ P) \ G
    <3>1. (B \ P) \ G \subseteq 0 .. m BY <1>1, <1>3
    <3>2. Cardinality(Early((B \ P) \ G, room)) < room BY <2>2 DEF H
    <3> HIDE DEF room
    <3> QED BY <1>1, <1>5, <3>1, <3>2, EarlyAreAll DEF H
  <2>4. B # D BY <1>13, <2>3
  <2>5. Cardinality(B) >= RecallLimit + RecallExtra BY <1>1, <1>2, <2>4, EarlyAreEnough DEF B
  <2>6. B \subseteq P \union (G \union H) BY <2>3
  <2>7. IsFiniteSet(G \union H) BY <1>4, <1>6, FS_Union
  <2>8. /\ Cardinality(B) \in Nat /\ Cardinality(G \union H) \in Nat
        /\ Cardinality(B) <= Cardinality(P) + Cardinality(G \union H)
    BY <1>12, <2>6, <2>7, AtMostBoth
  <2> QED BY <1>2, <1>12, <1>13, <2>5, <2>8
<1>14. ASSUME rest \intersect O # {}, ~(G \union H \subseteq O)
       PROVE  Cardinality(P \intersect O) > 1
  <2>1. Cardinality(G) < RecallLimit
    <3>1. H # {} BY <1>11, <1>14
    <3>2. Cardinality(H) # 0 BY <1>6, <3>1, FS_EmptySet
    <3> QED BY <1>2, <1>4, <1>6, <1>10, <3>2
  <2>2. G = A \ P
    <3>1. A \ P \subseteq 0 .. m BY <1>1, <1>3
    <3>2. Cardinality(Early(A \ P, RecallLimit)) < RecallLimit BY <2>1 DEF G
    <3> QED BY <1>1, <1>2, <3>1, <3>2, EarlyAreAll DEF G
  <2>3. A # O BY <1>14, <2>2
  <2>4. Cardinality(A) >= RecallLimit + 1
    <3>1. O \subseteq 0 .. m BY <1>1
    <3> QED BY <1>1, <1>2, <2>3, <3>1, EarlyAreEnough DEF A
  <2>5. A \subseteq (P \intersect O) \union G BY <1>3, <2>2
  <2>6. /\ Cardinality(A) \in Nat /\ Cardinality(A) <= Cardinality(P \intersect O) + Cardinality(G)
    BY <1>4, <1>12, <2>5, AtMostBoth
  <2> QED BY <1>2, <1>4, <1>12, <2>1, <2>4, <2>6
<1> HIDE DEF room, rest
<1>15. /\ Reminder!Cardinality(G) + Reminder!Cardinality(H) <= RecallLimit
       /\ (rest # {} /\ Reminder!Cardinality(G \union H) < RecallLimit)
            => Reminder!Cardinality(P) > RecallExtra
       /\ (rest \intersect O # {} /\ ~(G \union H \subseteq O))
            => Reminder!Cardinality(P \intersect O) > 1
  BY <1>10, <1>13, <1>14, CountIs
<1>16. rest = (DOMAIN matches \ P) \ (G \union H) BY DEF rest, D
<1> QED BY <1>9, <1>11, <1>15, <1>16 DEF Reminder!RecallComplete, O, P

ItemsKnown == Seq([vector : Int, text : Int, known : Int, live : BOOLEAN, updated : Int])

\* Who is not among the first n of S has n before it.
LEMMA FirstHas ==
  ASSUME NEW S, NEW n, NEW before
  PROVE  /\ Reminder!First(S, n, before) \subseteq S
         /\ \A i \in S : i \in Reminder!First(S, n, before)
                           <=> Cardinality({j \in S : <<j, i>> \in before}) < n
  BY CountIs DEF Reminder!First

\* search_memory_items_hybrid.
LEMMA BestIsFound ==
  ASSUME NEW items \in ItemsKnown
  PROVE  Reminder!BestFound(items)
<1> DEFINE D == DOMAIN items
           V == {i \in D : items[i].live /\ items[i].vector # -1}
           T == {i \in D : items[i].live /\ items[i].text > 0}
           byAge == {p \in D \X D : Reminder!Newer(items, p[1], p[2])}
           byText == {p \in D \X D : Reminder!TextBefore(items, p[1], p[2])}
           byScore == {p \in D \X D : Reminder!Better(items, p[1], p[2])}
           vectors == Reminder!First(V, RecallCandidates, byAge)
           texts == Reminder!First(T, RecallCandidates, byText)
           U == vectors \union texts
           hits == Reminder!First(U, RecallFound, byScore)
<1>1. Reminder!ItemsFound(items) = hits
  BY DEF Reminder!ItemsFound, Reminder!VectorLane, Reminder!TextLane
<1>2. /\ RecallCandidates \in Nat /\ RecallFound \in Nat BY RecallAssumed
<1>3. \A i \in D : /\ items[i].vector \in Int /\ items[i].text \in Int
                   /\ items[i].live \in BOOLEAN /\ items[i].updated \in Int
                   /\ Reminder!Score(items[i]) \in Int
  <2> DEFINE Known == [vector : Int, text : Int, known : Int, live : BOOLEAN,
                       updated : Int]
  <2>1. items \in Seq(Known) BY DEF ItemsKnown
  <2>2. ASSUME NEW i \in D PROVE items[i] \in Known
    <3> HIDE DEF Known
    <3>1. i \in 1 .. Len(items) BY <2>1
    <3> QED BY <2>1, <3>1
  <2> QED BY <2>2 DEF Reminder!Score
<1>4. D = 1 .. Len(items) /\ Len(items) \in Nat BY DEF ItemsKnown
<1>5. \A A : A \subseteq D => IsFiniteSet(A) /\ Cardinality(A) \in Nat
  <2>1. D \subseteq 0 .. Len(items) BY <1>4
  <2> HIDE DEF D
  <2> QED BY <1>4, <2>1, PartsAreFinite
<1> HIDE DEF D
<1>6. /\ vectors \subseteq V /\ texts \subseteq T /\ V \subseteq D /\ T \subseteq D
      /\ hits \subseteq U
  <2> HIDE DEF byAge, byText, byScore, vectors, texts
  <2>1. vectors \subseteq V BY FirstHas DEF vectors
  <2>2. texts \subseteq T BY FirstHas DEF texts
  <2>3. hits \subseteq U BY FirstHas
  <2> QED BY <2>1, <2>2, <2>3
<1>7. \A i \in hits : i \in D /\ items[i].live
  <2> HIDE DEF byAge, byText, byScore, vectors, texts, hits
  <2> QED BY <1>6
<1>8. ASSUME NEW i \in D \ hits, NEW j \in hits, items[i].live,
             Reminder!Score(items[i]) > Reminder!Score(items[j])
      PROVE  /\ items[i].vector # -1 =>
                  Reminder!Cardinality({k \in D : items[k].vector # -1 /\ Reminder!Newer(items, k, i)})
                    >= RecallCandidates
             /\ items[i].text > 0 =>
                  Reminder!Cardinality({k \in D : items[k].text >= items[i].text}) > RecallCandidates
  <2>1. j \in D BY <1>7
  <2>2. i \notin U
    <3>1. ASSUME i \in U PROVE FALSE
      <4> DEFINE I == {k \in U : <<k, i>> \in byScore}
                 J == {k \in U : <<k, j>> \in byScore}
      <4>1. j \in U BY <1>6
      <4>2. ~(Cardinality(I) < RecallFound) /\ Cardinality(J) < RecallFound
        <5> HIDE DEF U, byScore
        <5>1. i \notin hits /\ j \in hits BY <1>8
        <5> QED BY <3>1, <4>1, <5>1, FirstHas
      <4>3. I \subseteq J
        <5>1. ASSUME NEW k \in I PROVE <<k, j>> \in byScore
          <6>1. k \in D /\ Reminder!Better(items, k, i) BY <5>1
          <6>2. Reminder!Score(items[k]) >= Reminder!Score(items[i])
            BY <1>3, <1>8, <6>1 DEF Reminder!Better
          <6>3. Reminder!Score(items[k]) > Reminder!Score(items[j])
            BY <1>3, <1>8, <2>1, <6>1, <6>2
          <6> QED BY <2>1, <6>1, <6>3 DEF Reminder!Better
        <5> HIDE DEF byScore, U
        <5> QED BY <5>1
      <4>4. J \subseteq D /\ I \subseteq D
        <5> HIDE DEF vectors, texts, byScore
        <5> QED BY <1>6
      <4> HIDE DEF I, J
      <4>5. /\ IsFiniteSet(J) /\ Cardinality(J) \in Nat /\ Cardinality(I) \in Nat BY <1>5, <4>4
      <4>6. Cardinality(I) <= Cardinality(J) BY <4>3, <4>5, FS_Subset
      <4> QED BY <1>2, <4>2, <4>5, <4>6
    <3> QED BY <3>1
  <2>3. ASSUME items[i].vector # -1
        PROVE  Reminder!Cardinality({k \in D : items[k].vector # -1 /\ Reminder!Newer(items, k, i)})
                 >= RecallCandidates
    <3> DEFINE N == {k \in V : <<k, i>> \in byAge}
               M == {k \in D : items[k].vector # -1 /\ Reminder!Newer(items, k, i)}
    <3>1. i \in V /\ i \notin vectors BY <1>8, <2>2, <2>3
    <3>2. ~(Cardinality(N) < RecallCandidates)
      <4> HIDE DEF V, byAge
      <4> QED BY <3>1, FirstHas
    <3>3. N \subseteq M /\ M \subseteq D /\ N \subseteq D OBVIOUS
    <3> HIDE DEF N, M
    <3>4. IsFiniteSet(M) /\ Cardinality(M) \in Nat /\ Cardinality(N) \in Nat BY <1>5, <3>3
    <3>5. Cardinality(N) <= Cardinality(M) BY <3>3, <3>4, FS_Subset
    <3>6. Reminder!Cardinality(M) >= RecallCandidates BY <1>2, <3>2, <3>4, <3>5, CountIs
    <3> QED BY <3>6 DEF M
  <2>4. ASSUME items[i].text > 0
        PROVE  Reminder!Cardinality({k \in D : items[k].text >= items[i].text}) > RecallCandidates
    <3> DEFINE N == {k \in T : <<k, i>> \in byText}
               M == {k \in D : items[k].text >= items[i].text}
    <3>1. i \in T /\ i \notin texts BY <1>8, <2>2, <2>4
    <3>2. ~(Cardinality(N) < RecallCandidates)
      <4> HIDE DEF T, byText
      <4> QED BY <3>1, FirstHas
    <3>3. N \subseteq M \ {i} /\ M \subseteq D /\ N \subseteq D /\ i \in M
      <4>1. ASSUME NEW k \in N PROVE k \in D /\ items[k].text >= items[i].text /\ k # i
        <5>1. k \in D /\ Reminder!TextBefore(items, k, i) BY <4>1
        <5>2. i \in D BY <1>8
        <5>3. i \in Int BY <1>4, <5>2 DEF D
        <5> QED BY <1>3, <5>1, <5>2, <5>3 DEF Reminder!TextBefore, Reminder!Newer
      <4>2. i \in M BY <1>3, <1>8
      <4> HIDE DEF N
      <4> QED BY <4>1, <4>2
    <3> HIDE DEF N, M
    <3>4. /\ IsFiniteSet(M) /\ Cardinality(M) \in Nat /\ Cardinality(N) \in Nat
          /\ IsFiniteSet(M \ {i}) /\ Cardinality(M \ {i}) \in Nat
      <4>1. M \ {i} \subseteq D BY <3>3
      <4> QED BY <1>5, <3>3, <4>1
    <3>5. Cardinality(N) <= Cardinality(M \ {i}) BY <3>3, <3>4, FS_Subset
    <3>6. Cardinality(M \ {i}) = Cardinality(M) - 1 BY <3>3, <3>4, FS_RemoveElement
    <3>7. Cardinality(M) > RecallCandidates BY <1>2, <3>2, <3>4, <3>5, <3>6
    <3>8. Reminder!Cardinality(M) > RecallCandidates BY <3>7, CountIs
    <3> QED BY <3>8 DEF M
  <2> QED BY <2>3, <2>4
<1> HIDE DEF hits
<1> QED BY <1>1, <1>7, <1>8 DEF Reminder!BestFound, D

\* Whatever a query finds.
LEMMA RecallIsRight ==
  ASSUME NEW x \in RecallInputs
  PROVE  /\ Reminder!RecallComplete(x.matches, "s1")
         /\ Reminder!NothingUncovered(x.matches, "s1", x.provider, x.summary)
         /\ Reminder!BestFound(x.items)
<1>1. x \in Reminder!RecallAsked BY RecallAssumed
<1>2. x.matches \in Seq([session : STRING, same : BOOLEAN]) /\ x.items \in ItemsKnown
  BY <1>1 DEF Reminder!RecallAsked, ItemsKnown
<1> QED BY <1>1, <1>2, RecallIsComplete, NothingIsUncovered, BestIsFound

RecallInv == (part = "recall" /\ input # None) => input \in RecallInputs

\* What is kept of a conversation that no reset raced stands for all of it, a text
\* of a user gives way to no automatic one that was chosen after it, and what a
\* turn is reminded of is what matches best and is not there yet.
THEOREM TextsAreFaithful == Spec => []TextsFaithful
<1>1. Init => RecallInv BY DEF Init, RecallInv
<1>2. RecallInv /\ [Next]_<<part, input, partVars>> => RecallInv'
  BY DEF RecallInv, Next, Ask, partVars
<1>3. RecallInv /\ (part = "compaction" => Compact!SummaryFaithful)
        /\ (part = "sessions" => Roles!UserTextsStay) => TextsFaithful
  BY RecallIsRight DEF RecallInv, TextsFaithful
<1> QED BY <1>1, <1>2, <1>3, SummariesAreFaithful, UserTextsStay, PTL DEF Spec

----------------------------------------------------------------------------
(* The calendar.                                                           *)

LEMMA CalendarAssumed ==
  /\ DayLength \in Nat \ {0} /\ FirstWeekday \in 0 .. 6 /\ None \notin Nat
  /\ Len(MonthStarts) \in Nat /\ Len(MonthStarts) > 2 /\ MonthStarts[1] = 0
  /\ \A m \in 1 .. Len(MonthStarts) : MonthStarts[m] \in Nat
  /\ \A m \in 1 .. Len(MonthStarts) - 1 :
       MonthStarts[m + 1] >= MonthStarts[m] + 28 /\ MonthStarts[m + 1] <= MonthStarts[m] + 31
  /\ \A m \in 1 .. Len(MonthStarts) - 2 :
       \/ MonthStarts[m + 1] = MonthStarts[m] + 31
       \/ MonthStarts[m + 2] = MonthStarts[m + 1] + 31
  /\ \A x \in CalendarInputs : Times!CalendarAsked(x)
<1>1. Times!ScheduleAssumption BY ServicesAssumption
<1>2. /\ DayLength \in Nat \ {0} /\ FirstWeekday \in 0 .. 6 /\ None \notin Nat
      /\ MonthStarts \in Seq(Nat) /\ Len(MonthStarts) > 2 /\ MonthStarts[1] = 0
  BY <1>1 DEF Times!ScheduleAssumption
<1>3. Len(MonthStarts) \in Nat /\ \A m \in 1 .. Len(MonthStarts) : MonthStarts[m] \in Nat
  BY <1>2
<1>4. \A m \in 1 .. Len(MonthStarts) - 1 : Times!MonthLength(m) \in 28 .. 31
  BY <1>1 DEF Times!ScheduleAssumption
<1>5. ASSUME NEW m \in 1 .. Len(MonthStarts) - 1
      PROVE  /\ MonthStarts[m + 1] >= MonthStarts[m] + 28
             /\ MonthStarts[m + 1] <= MonthStarts[m] + 31
  <2> DEFINE x == MonthStarts[m]
             y == MonthStarts[m + 1]
  <2>1. m \in 1 .. Len(MonthStarts) /\ m + 1 \in 1 .. Len(MonthStarts) BY <1>3
  <2>2. x \in Nat /\ y \in Nat BY <1>3, <2>1
  <2>3. y - x \in 28 .. 31 BY <1>4 DEF Times!MonthLength
  <2> HIDE DEF x, y
  <2>4. y >= x + 28 /\ y <= x + 31 BY <2>2, <2>3
  <2> QED BY <2>4 DEF x, y
<1>6. ASSUME NEW m \in 1 .. Len(MonthStarts) - 2
      PROVE  \/ MonthStarts[m + 1] = MonthStarts[m] + 31
             \/ MonthStarts[m + 2] = MonthStarts[m + 1] + 31
  <2>1. MonthStarts[m + 2] \in Nat /\ MonthStarts[m + 1] \in Nat /\ MonthStarts[m] \in Nat
    BY <1>3
  <2>2. m + 1 \in Nat /\ (m + 1) + 1 = m + 2 OBVIOUS
  <2>3. Times!MonthLength(m) = 31 \/ Times!MonthLength(m + 1) = 31
    BY <1>1 DEF Times!ScheduleAssumption
  <2> QED BY <2>1, <2>2, <2>3 DEF Times!MonthLength
<1> QED BY <1>2, <1>3, <1>5, <1>6, ServicesAssumption

LEMMA StartsGrow ==
  ASSUME NEW i \in 1 .. Len(MonthStarts), NEW j \in 1 .. Len(MonthStarts), i < j
  PROVE  MonthStarts[i] < MonthStarts[j]
<1> DEFINE S == {k \in i + 1 .. Len(MonthStarts) : MonthStarts[k] <= MonthStarts[i]}
<1>1. SUFFICES ASSUME S # {} PROVE FALSE
  <2> DEFINE x == MonthStarts[i]
             y == MonthStarts[j]
  <2>1. x \in Nat /\ y \in Nat BY CalendarAssumed
  <2>2. Len(MonthStarts) \in Nat BY CalendarAssumed
  <2>3. j \in i + 1 .. Len(MonthStarts) BY <2>2
  <2>4. ~(y <= x) BY <1>1, <2>3
  <2> HIDE DEF x, y
  <2>5. x < y BY <2>1, <2>4
  <2> QED BY <2>5 DEF x, y
<1>2. Len(MonthStarts) \in Nat /\ S \subseteq 0 .. Len(MonthStarts) BY CalendarAssumed
<1>3. PICK k \in S : \A l \in S : k <= l
  <2> HIDE DEF S
  <2> QED BY <1>1, <1>2, LeastIs
<1>4. k - 1 \in 1 .. Len(MonthStarts) - 1 /\ (k - 1) + 1 = k BY <1>2, <1>3
<1>5. MonthStarts[k] >= MonthStarts[k - 1] + 28 BY <1>4, CalendarAssumed
<1>6. MonthStarts[i] \in Nat /\ MonthStarts[k] \in Nat /\ MonthStarts[k - 1] \in Nat
  BY <1>2, <1>3, <1>4, CalendarAssumed
<1>7. CASE k = i + 1
  <2>1. k - 1 = i BY <1>7
  <2> QED BY <1>3, <1>5, <1>6, <2>1
<1>8. CASE k # i + 1
  <2> DEFINE x == MonthStarts[i]
             y == MonthStarts[k]
             z == MonthStarts[k - 1]
  <2>1. k - 1 \in i + 1 .. Len(MonthStarts) /\ k - 1 \notin S BY <1>2, <1>3, <1>8
  <2>2. ~(z <= x) /\ y <= x /\ y >= z + 28 BY <1>3, <1>5, <2>1
  <2>3. x \in Nat /\ y \in Nat /\ z \in Nat BY <1>6
  <2> HIDE DEF x, y, z
  <2> QED BY <2>2, <2>3
<1> QED BY <1>7, <1>8

\* A day of a month of the calendar.
LEMMA DayOfMonthIs ==
  ASSUME NEW m \in 1 .. Len(MonthStarts) - 1, NEW d \in Nat,
         MonthStarts[m] <= d, d < MonthStarts[m + 1]
  PROVE  Times!DayOfMonth(d) = d - MonthStarts[m] + 1
<1> DEFINE In(i) == MonthStarts[i] <= d /\ d < MonthStarts[i + 1]
           c == CHOOSE i \in 1 .. Len(MonthStarts) - 1 : In(i)
<1>1. Len(MonthStarts) \in Nat /\ \A k \in 1 .. Len(MonthStarts) : MonthStarts[k] \in Nat
  BY CalendarAssumed
<1>2. c \in 1 .. Len(MonthStarts) - 1 /\ In(c) OBVIOUS
<1> HIDE DEF c
<1>3. c = m
  <2>1. /\ c \in 1 .. Len(MonthStarts) /\ c + 1 \in 1 .. Len(MonthStarts)
        /\ m \in 1 .. Len(MonthStarts) /\ m + 1 \in 1 .. Len(MonthStarts)
    BY <1>1, <1>2
  <2>2. /\ MonthStarts[c] \in Nat /\ MonthStarts[c + 1] \in Nat
        /\ MonthStarts[m] \in Nat /\ MonthStarts[m + 1] \in Nat BY <1>1, <2>1
  <2>3. ~(c < m)
    <3>1. SUFFICES ASSUME c < m PROVE FALSE OBVIOUS
    <3>2. c + 1 = m \/ MonthStarts[c + 1] < MonthStarts[m]
      <4>1. CASE c + 1 < m BY <2>1, <4>1, StartsGrow
      <4> QED BY <2>1, <3>1, <4>1
    <3> QED BY <1>2, <2>2, <3>2
  <2>4. ~(m < c)
    <3>1. SUFFICES ASSUME m < c PROVE FALSE OBVIOUS
    <3>2. m + 1 = c \/ MonthStarts[m + 1] < MonthStarts[c]
      <4>1. CASE m + 1 < c BY <2>1, <4>1, StartsGrow
      <4> QED BY <2>1, <3>1, <4>1
    <3> QED BY <1>2, <2>2, <3>2
  <2> QED BY <2>1, <2>3, <2>4
<1> QED BY <1>3 DEF Times!DayOfMonth, c

\* Every day of the month comes in less than a hundred days.
LEMMA DayComes ==
  ASSUME NEW f \in Nat, f < MonthStarts[Len(MonthStarts) - 2], NEW day \in 1 .. 31
  PROVE  \E d \in f .. f + 99 : Times!DayOfMonth(d) = day
<1> DEFINE L == Len(MonthStarts)
           S == {m \in 1 .. L : MonthStarts[m] <= f}
<1>1. /\ L \in Nat /\ L > 2 /\ MonthStarts[1] = 0
      /\ \A k \in 1 .. L : MonthStarts[k] \in Nat
      /\ \A m \in 1 .. L - 1 :
           MonthStarts[m + 1] >= MonthStarts[m] + 28 /\ MonthStarts[m + 1] <= MonthStarts[m] + 31
      /\ \A m \in 1 .. L - 2 :
           \/ MonthStarts[m + 1] = MonthStarts[m] + 31
           \/ MonthStarts[m + 2] = MonthStarts[m + 1] + 31
  BY CalendarAssumed
<1> HIDE DEF L
<1>2. 1 \in S /\ S \subseteq 0 .. L BY <1>1
<1>3. PICK m \in S : \A k \in S : k <= m
  <2> HIDE DEF S
  <2>1. S # {} BY <1>2
  <2> QED BY <1>1, <1>2, <2>1, GreatestIs
<1>4. m < L - 2
  <2>1. m \in 1 .. L /\ MonthStarts[m] <= f /\ L - 2 \in 1 .. L BY <1>1, <1>3
  <2>2. f < MonthStarts[L - 2] BY DEF L
  <2>3. ~(L - 2 < m)
    <3>1. SUFFICES ASSUME L - 2 < m PROVE FALSE OBVIOUS
    <3>2. MonthStarts[L - 2] < MonthStarts[m] BY <2>1, <3>1, StartsGrow DEF L
    <3>3. MonthStarts[L - 2] \in Nat /\ MonthStarts[m] \in Nat BY <1>1, <2>1
    <3> QED BY <2>1, <2>2, <3>2, <3>3
  <2>4. m # L - 2
    <3>1. MonthStarts[L - 2] \in Nat BY <1>1, <2>1
    <3> QED BY <2>1, <2>2, <3>1
  <2> QED BY <1>1, <2>1, <2>3, <2>4
<1>5. /\ m \in 1 .. L - 3 /\ m + 1 \in 1 .. L - 2 /\ m + 2 \in 1 .. L - 1 /\ m + 3 \in 1 .. L
      /\ (m + 1) + 1 = m + 2 /\ (m + 2) + 1 = m + 3 /\ (m + 1) + 2 = m + 3
  BY <1>1, <1>3, <1>4
<1>6. /\ MonthStarts[m] \in Nat /\ MonthStarts[m + 1] \in Nat
      /\ MonthStarts[m + 2] \in Nat /\ MonthStarts[m + 3] \in Nat
  BY <1>1, <1>5
<1>7. MonthStarts[m] <= f /\ f < MonthStarts[m + 1]
  <2>1. m + 1 \notin S BY <1>3, <1>5
  <2> QED BY <1>1, <1>3, <1>5, <1>6, <2>1
<1>8. /\ MonthStarts[m + 1] <= MonthStarts[m] + 31
      /\ MonthStarts[m + 2] <= MonthStarts[m + 1] + 31
      /\ MonthStarts[m + 2] >= MonthStarts[m + 1] + 28
      /\ MonthStarts[m + 2] = MonthStarts[m + 1] + 31 \/ MonthStarts[m + 3] = MonthStarts[m + 2] + 31
  <2>1. m \in 1 .. L - 1 /\ m + 1 \in 1 .. L - 1 BY <1>1, <1>5
  <2>2. MonthStarts[m + 1] <= MonthStarts[m] + 31 BY <1>1, <2>1
  <2>3. /\ MonthStarts[m + 2] <= MonthStarts[m + 1] + 31
        /\ MonthStarts[m + 2] >= MonthStarts[m + 1] + 28 BY <1>1, <1>5, <2>1
  <2>4. \/ MonthStarts[m + 2] = MonthStarts[m + 1] + 31
        \/ MonthStarts[m + 3] = MonthStarts[m + 2] + 31 BY <1>1, <1>5
  <2> QED BY <2>2, <2>3, <2>4
<1>9. ASSUME NEW k \in {m + 1, m + 2}, MonthStarts[k + 1] = MonthStarts[k] + 31
      PROVE  \E d \in f .. f + 99 : Times!DayOfMonth(d) = day
  <2> DEFINE x == MonthStarts[k]
             y == MonthStarts[k + 1]
             d == x + day - 1
  <2>1. k \in 1 .. L - 1 BY <1>1, <1>5
  <2>2. x \in Nat /\ x > f /\ x <= f + 62
    <3>1. CASE k = m + 1
      <4> DEFINE u == MonthStarts[m]
                 v == MonthStarts[m + 1]
      <4>1. u \in Nat /\ v \in Nat /\ u <= f /\ f < v /\ v <= u + 31 BY <1>6, <1>7, <1>8
      <4>2. x = v BY <3>1
      <4> HIDE DEF x, u, v
      <4> QED BY <4>1, <4>2
    <3>2. CASE k = m + 2
      <4> DEFINE u == MonthStarts[m]
                 v == MonthStarts[m + 1]
                 w == MonthStarts[m + 2]
      <4>1. /\ u \in Nat /\ v \in Nat /\ w \in Nat /\ u <= f /\ f < v /\ v <= u + 31
            /\ w <= v + 31 /\ w >= v + 28 BY <1>6, <1>7, <1>8
      <4>2. x = w BY <3>2
      <4> HIDE DEF x, u, v, w
      <4> QED BY <4>1, <4>2
    <3> QED BY <1>9, <3>1, <3>2
  <2>3. y = x + 31 BY <1>9
  <2>4. d \in f .. f + 99 /\ d \in Nat /\ x <= d /\ d < y
    <3> HIDE DEF x, y
    <3> QED BY <2>2, <2>3
  <2>5. Times!DayOfMonth(d) = d - x + 1
    <3> HIDE DEF d
    <3> QED BY <2>1, <2>4, DayOfMonthIs DEF L
  <2>6. d - x + 1 = day
    <3> HIDE DEF x
    <3> QED BY <2>2
  <2> HIDE DEF d, x
  <2> QED BY <2>4, <2>5, <2>6
<1> QED BY <1>5, <1>8, <1>9

\* Every day of the week comes in less than seven.
LEMMA WeekdayComes ==
  ASSUME NEW f \in Nat, NEW w \in 0 .. 6
  PROVE  \E d \in f .. f + 99 : Times!CronWeekday(d) = w
<1> DEFINE r == (FirstWeekday + f) % 7
           k == IF w >= r THEN w - r ELSE w - r + 7
<1>1. FirstWeekday \in 0 .. 6 BY CalendarAssumed
<1>2. r \in 0 .. 6 BY <1>1
<1>3. k \in 0 .. 6 /\ f + k \in f .. f + 99 BY <1>2
<1>4. (FirstWeekday + (f + k)) % 7 = w BY <1>1, <1>2
<1> QED BY <1>3, <1>4 DEF Times!CronWeekday

\* Moments and their days.
LEMMA DaysPass ==
  /\ \A d \in Nat, r \in 0 .. DayLength - 1 :
       /\ d * DayLength + r \in Nat
       /\ Times!DayOf(d * DayLength + r) = d /\ (d * DayLength + r) % DayLength = r
  /\ \A t \in Nat : /\ Times!DayOf(t) \in Nat
                     /\ Times!DayOf(t) * DayLength <= t
                     /\ t < (Times!DayOf(t) + 1) * DayLength
  /\ \A d, e \in Nat : d < e => (d + 1) * DayLength <= e * DayLength
<1>1. DayLength \in Nat \ {0} BY CalendarAssumed
<1>2. ASSUME NEW d \in Nat, NEW r \in 0 .. DayLength - 1
      PROVE  /\ d * DayLength + r \in Nat
             /\ Times!DayOf(d * DayLength + r) = d /\ (d * DayLength + r) % DayLength = r
  BY <1>1 DEF Times!DayOf
<1>3. ASSUME NEW t \in Nat
      PROVE  /\ Times!DayOf(t) \in Nat
             /\ Times!DayOf(t) * DayLength <= t
             /\ t < (Times!DayOf(t) + 1) * DayLength
  BY <1>1 DEF Times!DayOf
<1>4. ASSUME NEW d \in Nat, NEW e \in Nat, d < e
      PROVE  (d + 1) * DayLength <= e * DayLength
  BY <1>1, <1>4
<1> QED BY <1>2, <1>3, <1>4

\* The day _next_matching_time comes to, if one of the next hundred matches.
LEMMA FirstMatches ==
  ASSUME NEW s, NEW now, NEW f \in Nat, Times!FirstDay(s, now) = f,
         \E d \in f .. f + 99 : Times!OnDay(s, d)
  PROVE  \E d \in f .. f + 369 :
           /\ Times!OnDay(s, d) /\ \A e \in f .. d - 1 : ~Times!OnDay(s, e)
           /\ Times!NextMatching(s, now) = d * DayLength + s.at
<1> DEFINE Matches(d) == Times!OnDay(s, d) /\ \A e \in f .. d - 1 : ~Times!OnDay(s, e)
           S == {d \in 0 .. f + 99 : d >= f /\ Times!OnDay(s, d)}
<1>1. PICK a \in f .. f + 369 : Matches(a)
  <2>1. S # {} /\ S \subseteq 0 .. f + 99 /\ f + 99 \in Nat OBVIOUS
  <2>2. PICK a \in S : \A d \in S : a <= d
    <3> HIDE DEF S
    <3> QED BY <2>1, LeastIs
  <2>3. a \in f .. f + 369 /\ Times!OnDay(s, a) BY <2>2
  <2>4. ASSUME NEW e \in f .. a - 1 PROVE ~Times!OnDay(s, e)
    <3>1. e \in 0 .. f + 99 /\ e >= f /\ ~(a <= e) BY <2>2, <2>4
    <3> QED BY <2>2, <3>1
  <2> QED BY <2>3, <2>4
<1> DEFINE c == CHOOSE d \in f .. f + 369 : Matches(d)
<1>2. Times!NextMatching(s, now) = c * DayLength + s.at
  BY <1>1 DEF Times!NextMatching
<1>3. c \in f .. f + 369 /\ Matches(c)
  <2> HIDE DEF Matches
  <2> QED BY <1>1
<1> HIDE DEF c
<1> QED BY <1>2, <1>3

\* What a schedule may say of its days.
DaysSaid(s) ==
  \/ s.kind = "daily"
  \/ s.kind = "weekly" /\ s.days \in (SUBSET (0 .. 6)) \ {{}}
  \/ s.kind = "monthly" /\ s.day \in 1 .. 31

LEMMA CronIsNext ==
  ASSUME NEW s, DaysSaid(s), s.at \in 0 .. DayLength - 1, NEW now \in Nat,
         Times!DayOf(now) + 1 < MonthStarts[Len(MonthStarts) - 2]
  PROVE  LET next == Times!NextMatching(s, now) IN
           /\ next \in Nat /\ next > now
           /\ Times!OnDay(s, Times!DayOf(next)) /\ next % DayLength = s.at
           /\ \A d \in Times!DayOf(now) .. Times!DayOf(next) :
                LET t == d * DayLength + s.at
                IN (now < t /\ t < next) => ~Times!OnDay(s, d)
<1> DEFINE f == Times!FirstDay(s, now)
           today == Times!DayOf(now)
           at == s.at
           next == Times!NextMatching(s, now)
<1>1. DayLength \in Nat \ {0} /\ MonthStarts[Len(MonthStarts) - 2] \in Nat
  BY CalendarAssumed
<1>2. at \in 0 .. DayLength - 1 OBVIOUS
<1>3. today \in Nat /\ today * DayLength <= now /\ now < (today + 1) * DayLength BY DaysPass
<1>4. /\ f = today \/ f = today + 1
      /\ f = today => today * DayLength + at > now
      /\ f = today + 1 => today * DayLength + at <= now
  <2>1. f = IF today * DayLength + at <= now THEN today + 1 ELSE today
    BY DEF Times!FirstDay
  <2>2. today * DayLength \in Nat BY <1>1, <1>3
  <2> HIDE DEF f, today, at
  <2> QED BY <1>2, <1>3, <2>1, <2>2
<1>5. f \in Nat /\ f < MonthStarts[Len(MonthStarts) - 2]
  <2>1. today + 1 < MonthStarts[Len(MonthStarts) - 2] OBVIOUS
  <2> HIDE DEF f, today
  <2> QED BY <1>1, <1>3, <1>4, <2>1
<1>6. \E d \in f .. f + 99 : Times!OnDay(s, d)
  <2> HIDE DEF f
  <2>1. CASE s.kind = "daily"
    <3>1. f \in f .. f + 99 BY <1>5
    <3> QED BY <2>1, <3>1 DEF Times!OnDay
  <2>2. CASE s.kind = "weekly" /\ s.days \in (SUBSET (0 .. 6)) \ {{}}
    <3>1. PICK w \in s.days : w \in 0 .. 6 BY <2>2
    <3>2. PICK d \in f .. f + 99 : Times!CronWeekday(d) = w BY <1>5, <3>1, WeekdayComes
    <3> QED BY <2>2, <3>1, <3>2 DEF Times!OnDay
  <2>3. CASE s.kind = "monthly" /\ s.day \in 1 .. 31
    <3>1. PICK d \in f .. f + 99 : Times!DayOfMonth(d) = s.day BY <1>5, <2>3, DayComes
    <3> QED BY <2>3, <3>1 DEF Times!OnDay
  <2> QED BY <2>1, <2>2, <2>3 DEF DaysSaid
<1>7. PICK c \in f .. f + 369 :
        /\ Times!OnDay(s, c) /\ \A e \in f .. c - 1 : ~Times!OnDay(s, e)
        /\ next = c * DayLength + at
  <2>1. Times!FirstDay(s, now) = f OBVIOUS
  <2> HIDE DEF f
  <2> QED BY <1>5, <1>6, <2>1, FirstMatches
<1> HIDE DEF f, today, at, next
<1>8. c \in Nat /\ c >= f BY <1>5, <1>7
<1>9. next \in Nat /\ Times!DayOf(next) = c /\ next % DayLength = at
  BY <1>2, <1>7, <1>8, DaysPass
<1>10. next > now
  <2>1. f * DayLength <= c * DayLength
    <3>1. CASE f = c
      <4>1. f * DayLength \in Nat BY <1>1, <1>5
      <4> QED BY <3>1, <4>1
    <3>2. CASE f < c
      <4>1. (f + 1) * DayLength <= c * DayLength BY <1>5, <1>8, <3>2, DaysPass
      <4>2. f * DayLength <= (f + 1) * DayLength BY <1>1, <1>5
      <4>3. f * DayLength \in Nat /\ (f + 1) * DayLength \in Nat /\ c * DayLength \in Nat
        BY <1>1, <1>5, <1>8
      <4> QED BY <4>1, <4>2, <4>3
    <3> QED BY <1>5, <1>8, <3>1, <3>2
  <2>2. f * DayLength + at > now
    <3>1. CASE f = today BY <1>4, <3>1
    <3>2. CASE f = today + 1
      <4>1. f * DayLength \in Nat /\ now < f * DayLength BY <1>1, <1>3, <1>5, <3>2
      <4> QED BY <1>2, <4>1
    <3> QED BY <1>4, <3>1, <3>2
  <2>3. f * DayLength \in Nat /\ c * DayLength \in Nat BY <1>1, <1>5, <1>8
  <2> QED BY <1>2, <1>7, <2>1, <2>2, <2>3
<1>11. ASSUME NEW d \in today .. c, now < d * DayLength + at, d * DayLength + at < next
       PROVE  ~Times!OnDay(s, d)
  <2>1. d \in Nat /\ d * DayLength \in Nat /\ c * DayLength \in Nat BY <1>1, <1>3, <1>8
  <2>2. d # c BY <1>2, <1>7, <1>11, <2>1
  <2>3. d >= f
    <3>1. CASE f = today BY <3>1, <1>3
    <3>2. CASE f = today + 1
      <4>1. d # today BY <1>2, <1>4, <1>11, <2>1, <3>2
      <4> QED BY <1>3, <3>2, <4>1
    <3> QED BY <1>4, <3>1, <3>2
  <2>4. d \in f .. c - 1 BY <1>5, <1>8, <2>1, <2>2, <2>3
  <2> QED BY <1>7, <2>4
<1> QED BY <1>7, <1>9, <1>10, <1>11 DEF today, at, next

\* compute_next_run_at and parse_schedule.
LEMMA NextRunIsRight ==
  ASSUME NEW x \in CalendarInputs
  PROVE  Times!NextRunIsNext(x.text, x.now)
<1> DEFINE text == x.text
           now == x.now
           s == Times!Parse(text, now)
<1>1. /\ text \in Times!Texts(Nat, Nat, SUBSET Nat) /\ now \in Nat
      /\ text.form = "cron" => text.at < DayLength
      /\ Times!DayOf(now) + 1 < MonthStarts[Len(MonthStarts) - 2]
  BY CalendarAssumed DEF Times!CalendarAsked
<1> HIDE DEF text, now
<1> SUFFICES ASSUME s # None PROVE Times!NextRunIsNext(text, now) BY DEF Times!NextRunIsNext, text, now
<1>2. None \notin Nat BY CalendarAssumed
<1>3. CASE text.form = "duration"
  <2>1. text \in [form : {"duration"}, every : BOOLEAN, seconds : Nat]
    BY <1>1, <1>3 DEF Times!Texts
  <2>2. text.seconds \in Nat \ {0} BY <1>3, <2>1 DEF Times!Parse
  <2>3. \/ s = [kind |-> "interval", seconds |-> text.seconds]
        \/ s = [kind |-> "once"]
    BY <1>3, <2>2 DEF Times!Parse
  <2>4. Times!FirstRun(text, now) = now + text.seconds BY <1>3 DEF Times!FirstRun
  <2>5. now + text.seconds \in Nat /\ now + text.seconds > now BY <1>1, <2>2
  <2>6. s.kind \in {"once", "interval"}
        /\ (s.kind # "once" => Times!NextRun(s, now) = now + text.seconds)
    <3> HIDE DEF s
    <3> QED BY <2>3 DEF Times!NextRun
  <2> HIDE DEF s
  <2> QED BY <1>2, <2>4, <2>5, <2>6 DEF Times!NextRunIsNext, s
<1>4. CASE text.form = "moment"
  <2>1. text \in [form : {"moment"}, at : Nat] BY <1>1, <1>4 DEF Times!Texts
  <2>2. text.at > now /\ s = [kind |-> "once"] BY <1>1, <1>4, <2>1 DEF Times!Parse
  <2>3. Times!FirstRun(text, now) = text.at BY <1>4 DEF Times!FirstRun
  <2>4. text.at \in Nat /\ s.kind = "once" BY <2>1, <2>2
  <2> HIDE DEF s
  <2> QED BY <1>2, <2>2, <2>3, <2>4 DEF Times!NextRunIsNext, s
<1>5. CASE text.form = "cron"
  <2>1. text \in [form : {"cron"}, at : Nat, day : Nat \union {None},
                  month : {None, 1}, weekdays : (SUBSET Nat) \union {None}]
    BY <1>1, <1>5 DEF Times!Texts
  <2>2. s = Times!ParseCron(text) BY <1>5 DEF Times!Parse
  <2>3. \/ s = [kind |-> "daily", at |-> text.at]
        \/ /\ text.weekdays \in (SUBSET (0 .. 6)) \ {{}}
           /\ s = [kind |-> "weekly", at |-> text.at, days |-> text.weekdays]
        \/ /\ text.day \in 1 .. 31
           /\ s = [kind |-> "monthly", at |-> text.at, day |-> text.day]
    <3> HIDE DEF s
    <3>1. s # None BY DEF s
    <3> QED BY <2>2, <3>1 DEF Times!ParseCron
  <2>4. text.at \in 0 .. DayLength - 1 BY <1>1, <1>5, <2>1, CalendarAssumed
  <2>5. DaysSaid(s) /\ s.at \in 0 .. DayLength - 1 /\ s.kind \in {"daily", "weekly", "monthly"}
    <3> HIDE DEF s
    <3> QED BY <2>3, <2>4 DEF DaysSaid
  <2>6. Times!FirstRun(text, now) = Times!NextMatching(s, now) BY <1>5 DEF Times!FirstRun
  <2> HIDE DEF s
  <2>7. Times!NextRun(s, now) = Times!NextMatching(s, now) BY <2>5 DEF Times!NextRun
  <2> DEFINE next == Times!NextMatching(s, now)
  <2>8. /\ next \in Nat /\ next > now
        /\ Times!OnDay(s, Times!DayOf(next)) /\ next % DayLength = s.at
        /\ \A d \in Times!DayOf(now) .. Times!DayOf(next) :
             (now < d * DayLength + s.at /\ d * DayLength + s.at < next) => ~Times!OnDay(s, d)
    BY <1>1, <2>5, CronIsNext
  <2> HIDE DEF next
  <2> QED BY <1>2, <2>6, <2>7, <2>8 DEF Times!NextRunIsNext, s, next
<1> QED BY <1>1, <1>3, <1>4, <1>5 DEF Times!Texts

CalendarInv == (part = "calendar" /\ input # None) => input \in CalendarInputs

\* A schedule that is accepted has a first run in the future, on a day and at the
\* time it names, and no moment that matches is left out before it.
THEOREM NextRunsAreNext == Spec => []CalendarRight
<1>1. Init => CalendarInv BY DEF Init, CalendarInv
<1>2. CalendarInv /\ [Next]_<<part, input, partVars>> => CalendarInv'
  BY DEF CalendarInv, Next, Ask, partVars
<1>3. CalendarInv => CalendarRight BY NextRunIsRight DEF CalendarInv, CalendarRight
<1> QED BY <1>1, <1>2, <1>3, PTL DEF Spec

----------------------------------------------------------------------------
(* Types.                                                                  *)

\* A summary, of messages it covers.
SummaryTyped(s) == s.covered \in 0 .. Len(v1) /\ s.content \subseteq 1 .. s.covered

\* What a step that races leaves is typed as well.
TalkTyped ==
  /\ Len(v1) \in 0 .. MaxMessages /\ v2 \in 0 .. Len(v1)
  /\ v3 \in {"idle", "open", "calling"}
  /\ SummaryTyped(v4)
  /\ \A c \in Compact!Compactors :
       /\ v5[c].step \in {"idle", "look", "load", "ask"}
       /\ v5[c].step \in {"load", "ask"} => SummaryTyped(v5[c].previous)
  /\ v7 \in BOOLEAN /\ v8 \in {"no", "begun", "saved"}

TalkInv == part = "compaction" => TalkTyped

LEMMA TalkBegins == Init => TalkInv
<1> SUFFICES ASSUME Init, part = "compaction" PROVE TalkTyped BY DEF TalkInv
<1>1. Compact!Init BY DEF Init, PartsInit
<1>2. /\ v1 = <<>> /\ v2 = 0 /\ v3 = "idle" /\ v4 = [covered |-> 0, content |-> {}]
      /\ v5 = [c \in Compact!Compactors |-> Idle] /\ v7 = FALSE /\ v8 = "no"
  BY <1>1 DEF Compact!Init, Compact!NoSummary, Compact!Idle, Idle
<1>3. Len(v1) = 0 /\ MaxMessages \in Nat BY <1>2, CompactionAssumed
<1>4. SummaryTyped(v4) BY <1>2, <1>3 DEF SummaryTyped
<1>5. \A c \in Compact!Compactors : v5[c].step = "idle" BY <1>2 DEF Idle
<1>6. Len(v1) \in 0 .. MaxMessages /\ v2 \in 0 .. Len(v1) BY <1>2, <1>3
<1>7. v3 = "idle" /\ v7 \in BOOLEAN /\ v8 = "no" BY <1>2
<1> QED BY <1>4, <1>5, <1>6, <1>7 DEF TalkTyped

\* A compaction goes on.
LEMMA TypedGoes ==
  ASSUME CompactHold, TalkTyped, NEW c \in Compact!Compactors, NEW d, Compact!Goes(c, d),
         d.step \in {"idle", "look", "load", "ask"},
         d.step \in {"load", "ask"} => SummaryTyped(d.previous),
         UNCHANGED <<v1, v2, v3, v7>>, SummaryTyped(v4'), v8' \in {"no", "begun", "saved"}
  PROVE  TalkTyped'
<1>1. DOMAIN v5 = Compact!Compactors BY DEF CompactHold, CompactTyped
<1>2. \A e \in Compact!Compactors : v5'[e] = IF e = c THEN d ELSE v5[e]
  BY <1>1 DEF Compact!Goes
<1>3. \A s : SummaryTyped(s) => s.covered \in 0 .. Len(v1') /\ s.content \subseteq 1 .. s.covered
  BY DEF SummaryTyped
<1>4. ASSUME NEW e \in Compact!Compactors
      PROVE  /\ v5'[e].step \in {"idle", "look", "load", "ask"}
             /\ v5'[e].step \in {"load", "ask"} => SummaryTyped(v5'[e].previous)
  BY <1>2 DEF TalkTyped
<1> QED BY <1>3, <1>4 DEF TalkTyped, SummaryTyped

LEMMA TypedSaves ==
  ASSUME CompactHold, TalkTyped, NEW c \in Compact!Compactors, Compact!Save(c)
  PROVE  TalkTyped'
<1> DEFINE x == v5[c]
<1>1. x.step = "ask" /\ Compact!Goes(c, Idle) BY DEF Compact!Save, Compact!Idle, Idle
<1>2. SummaryTyped(x.previous) BY <1>1 DEF TalkTyped
<1>3. /\ SumHolds(v1, v2, v6, x.previous) /\ x.from = NextOf(x.previous.covered, v2)
      /\ \E a \in x.from .. Len(v1) : \E b \in a .. Len(v1) : x.window = a .. b
  BY <1>1 DEF CompactHold, ReadHolds
<1>4. v2 \in Nat /\ Len(v1) \in Nat /\ x.previous.covered \in Nat
  <2> HIDE DEF x
  <2> QED BY <1>2 DEF TalkTyped, SummaryTyped
<1>5. x.from \in Nat /\ x.from > x.previous.covered
  <2> HIDE DEF x
  <2> QED BY <1>3, <1>4, NextIs
<1> HIDE DEF x
<1>6. PICK a \in x.from .. Len(v1) : \E b \in a .. Len(v1) : x.window = a .. b BY <1>3
<1>7. PICK b \in a .. Len(v1) : x.window = a .. b BY <1>6
<1>8. a \in Nat /\ b \in Nat /\ a <= b /\ b <= Len(v1) /\ x.previous.covered < a
  BY <1>4, <1>5, <1>6, <1>7
<1>9. Compact!Covered(x.window) = b BY <1>7, <1>8, EndsOf DEF Compact!Covered
<1>10. v4' = [covered |-> b, content |-> x.previous.content \union a .. b]
  BY <1>7, <1>9 DEF Compact!Save, x
<1>11. UNCHANGED <<v1, v2, v3, v7>> /\ v8' \in {"no", "begun", "saved"} BY DEF Compact!Save
<1>12. x.previous.content \union a .. b \subseteq 1 .. b
  BY <1>2, <1>4, <1>8 DEF SummaryTyped
<1>13. v4'.covered = b /\ v4'.content = x.previous.content \union a .. b BY <1>10
<1>14. v4'.covered \in 0 .. Len(v1) /\ v4'.content \subseteq 1 .. v4'.covered
  BY <1>4, <1>8, <1>12, <1>13
<1>15. SummaryTyped(v4') BY <1>14 DEF SummaryTyped
<1> QED BY <1>1, <1>11, <1>15, TypedGoes DEF Idle

\* A message is appended, or all are deleted.
LEMMA TypedTalks ==
  ASSUME CompactHold, TalkTyped,
         \/ \E kind, next : Compact!Append1(kind, next) /\ next \in {"idle", "open", "calling"}
         \/ Compact!Reset \/ Compact!SaveByHand \/ Compact!Stop
  PROVE  TalkTyped'
<1>1. Len(v1) \in Nat /\ v2 \in 0 .. Len(v1) /\ v1 \in Seq(Kinds) /\ Compact!Len(v1) = Len(v1)
  BY DEF TalkTyped, CompactHold, CompactTyped, Compact!Len, Len
<1>2. /\ Len(v1') \in 0 .. MaxMessages /\ Len(v1') >= Len(v1) /\ v2' \in 0 .. Len(v1')
      /\ v3' \in {"idle", "open", "calling"} /\ v5' = v5
  <2>1. ASSUME NEW kind, NEW next, Compact!Append1(kind, next),
               next \in {"idle", "open", "calling"}
        PROVE  /\ Len(v1') \in 0 .. MaxMessages /\ Len(v1') >= Len(v1) /\ v2' \in 0 .. Len(v1')
               /\ v3' \in {"idle", "open", "calling"} /\ v5' = v5
    <3>1. /\ v1' = Append(v1, kind) /\ v2' = v2 /\ v3' = next /\ v5' = v5
          /\ Len(v1) < MaxMessages
      BY <1>1, <2>1 DEF Compact!Append1, Compact!Append, Append, Compact!Len, Len
    <3>2. Len(v1') = Len(v1) + 1 BY <1>1, <3>1
    <3> QED BY <1>1, <2>1, <3>1, <3>2, CompactionAssumed
  <2>2. CASE Compact!Reset BY <1>1, <2>2 DEF Compact!Reset, TalkTyped
  <2>3. CASE Compact!SaveByHand BY <1>1, <2>3 DEF Compact!SaveByHand, TalkTyped
  <2>4. CASE Compact!Stop BY <1>1, <2>4 DEF Compact!Stop, TalkTyped
  <2> QED BY <2>1, <2>2, <2>3, <2>4
<1>3. \A s : SummaryTyped(s) =>
            s.covered \in 0 .. Len(v1') /\ s.content \subseteq 1 .. s.covered
  BY <1>1, <1>2 DEF SummaryTyped
<1>4. v4' = v4 \/ v4' = [covered |-> 0, content |-> {}]
  BY DEF Compact!Append1, Compact!Reset, Compact!SaveByHand, Compact!Stop, Compact!NoSummary
<1>5. v4'.covered \in 0 .. Len(v1') /\ v4'.content \subseteq 1 .. v4'.covered
  <2>1. CASE v4' = v4 BY <1>3, <2>1 DEF TalkTyped
  <2>2. CASE v4' = [covered |-> 0, content |-> {}] BY <1>1, <1>2, <2>2
  <2> QED BY <1>4, <2>1, <2>2
<1>6. v7' \in BOOLEAN /\ v8' \in {"no", "begun", "saved"}
  BY DEF Compact!Append1, Compact!Reset, Compact!SaveByHand, Compact!Stop, TalkTyped
<1>7. \A c \in Compact!Compactors :
       /\ v5[c].step \in {"idle", "look", "load", "ask"}
       /\ v5[c].step \in {"load", "ask"} =>
            /\ v5[c].previous.covered \in 0 .. Len(v1')
            /\ v5[c].previous.content \subseteq 1 .. v5[c].previous.covered
  BY <1>3 DEF TalkTyped
<1> QED BY <1>2, <1>5, <1>6, <1>7 DEF TalkTyped, SummaryTyped

LEMMA TalkSteps == CompactInv /\ TalkInv /\ [Next]_<<part, input, partVars>> => TalkInv'
<1> SUFFICES ASSUME CompactInv, TalkInv, [Next]_<<part, input, partVars>>, part' = "compaction"
             PROVE  TalkTyped'
  BY DEF TalkInv
<1>1. /\ part = "compaction" /\ TalkTyped
      /\ (~v7 /\ Compact!Next) \/ UNCHANGED <<v1, v2, v3, v4, v5, v6, v7, v8>>
  BY DEF TalkInv, Next, PartsNext, Ask, partVars
<1>2. CASE UNCHANGED <<v1, v2, v3, v4, v5, v6, v7, v8>> BY <1>1, <1>2 DEF TalkTyped, SummaryTyped
<1>3. CASE ~v7 /\ Compact!Next
  <2>1. CompactHold BY <1>1, <1>3 DEF CompactInv
  <2>2. CASE Compact!SaveUser \/ Compact!SaveCalls \/ Compact!SaveResult \/ Compact!SaveAnswer
             \/ Compact!Stop \/ Compact!SaveByHand \/ Compact!Reset
    BY <1>1, <2>1, <2>2, TypedTalks
       DEF Compact!SaveUser, Compact!SaveCalls, Compact!SaveResult, Compact!SaveAnswer
  <2>3. ASSUME NEW c \in Compact!Compactors, NEW keep, Compact!Begins(c, keep) PROVE TalkTyped'
    <3>1. /\ Compact!Goes(c, [step |-> "look", keep |-> keep])
          /\ UNCHANGED <<v1, v2, v3, v4, v7>> /\ v8' \in {"begun", "no"}
      BY <2>3 DEF Compact!Begins
    <3>2. SummaryTyped(v4') BY <1>1, <3>1 DEF TalkTyped
    <3> QED BY <1>1, <2>1, <3>1, <3>2, TypedGoes
  <2>4. CASE Compact!Overflow
    BY <2>3, <2>4 DEF Compact!Overflow, Compact!Compactors
  <2>5. ASSUME NEW c \in Compact!Compactors, Compact!Begin(c) PROVE TalkTyped'
    BY <2>3, <2>5 DEF Compact!Begin
  <2>6. ASSUME NEW c \in Compact!Compactors,
               \/ Compact!LoadSummary(c) \/ Compact!CountKept(c) \/ Compact!LoadMessages(c)
               \/ Compact!Fail(c)
        PROVE  TalkTyped'
    <3>1. UNCHANGED <<v1, v2, v3, v4, v7, v8>> /\ v5 \in [Compact!Compactors -> CompactStates]
      BY <2>1, <2>6 DEF Compact!LoadSummary, Compact!CountKept, Compact!LoadMessages,
                        Compact!Fail, CompactHold, CompactTyped
    <3>2. SummaryTyped(v4') /\ v8' \in {"no", "begun", "saved"} BY <1>1, <3>1 DEF TalkTyped
    <3>3. PICK d : /\ Compact!Goes(c, d) /\ d.step \in {"idle", "look", "load", "ask"}
                   /\ d.step \in {"load", "ask"} => SummaryTyped(d.previous)
      <4>1. CASE Compact!LoadSummary(c)
        <5> DEFINE d == [step |-> "load", keep |-> v5[c].keep, previous |-> v4]
        <5>1. Compact!Goes(c, d) BY <4>1 DEF Compact!LoadSummary
        <5>2. d.step = "load" /\ SummaryTyped(d.previous) BY <1>1 DEF TalkTyped
        <5> HIDE DEF d
        <5> QED BY <5>1, <5>2
      <4>2. CASE Compact!CountKept(c)
        <5>1. PICK keep : Compact!Goes(c, [v5[c] EXCEPT !.keep = keep])
          BY <4>2 DEF Compact!CountKept
        <5> DEFINE d == [v5[c] EXCEPT !.keep = keep]
        <5>2. v5[c].step = "load" /\ v5[c] \in CompactStates BY <3>1, <4>2 DEF Compact!CountKept
        <5>3. v5[c] \in [step : {"load"}, keep : Nat \union {None}, previous : Summed]
          BY <5>2 DEF CompactStates
        <5>4. d.step = "load" /\ d.previous = v5[c].previous BY <5>3
        <5>5. SummaryTyped(d.previous) BY <1>1, <5>2, <5>4 DEF TalkTyped
        <5> HIDE DEF d
        <5> QED BY <5>1, <5>4, <5>5 DEF d
      <4>3. CASE Compact!LoadMessages(c)
        <5>1. v5[c].step = "load" /\ SummaryTyped(v5[c].previous)
          BY <1>1, <4>3 DEF Compact!LoadMessages, TalkTyped
        <5>2. \/ Compact!Goes(c, Idle)
              \/ \E w, lo : Compact!Goes(c, [step |-> "ask", previous |-> v5[c].previous,
                                            window |-> w, from |-> lo])
          BY <4>3 DEF Compact!LoadMessages, Compact!Idle, Idle
        <5>3. CASE Compact!Goes(c, Idle) BY <5>3 DEF Idle
        <5>4. ASSUME NEW w, NEW lo, Compact!Goes(c, [step |-> "ask", previous |-> v5[c].previous,
                                                    window |-> w, from |-> lo])
              PROVE  \E d : /\ Compact!Goes(c, d) /\ d.step \in {"idle", "look", "load", "ask"}
                            /\ d.step \in {"load", "ask"} => SummaryTyped(d.previous)
          <6> DEFINE d == [step |-> "ask", previous |-> v5[c].previous, window |-> w, from |-> lo]
          <6>1. Compact!Goes(c, d) BY <5>4
          <6>2. d.step = "ask" /\ SummaryTyped(d.previous) BY <5>1
          <6> HIDE DEF d
          <6> QED BY <6>1, <6>2
        <5> QED BY <5>2, <5>3, <5>4
      <4>4. CASE Compact!Fail(c)
        <5>1. Compact!Goes(c, Idle) BY <4>4 DEF Compact!Fail, Compact!Idle, Idle
        <5> QED BY <5>1 DEF Idle
      <4> QED BY <2>6, <4>1, <4>2, <4>3, <4>4
    <3> QED BY <1>1, <2>1, <3>1, <3>2, <3>3, TypedGoes
  <2>7. ASSUME NEW c \in Compact!Compactors, Compact!Save(c) PROVE TalkTyped'
    BY <1>1, <2>1, <2>7, TypedSaves
  <2> QED BY <1>3, <2>2, <2>4, <2>5, <2>6, <2>7 DEF Compact!Next
<1> QED BY <1>1, <1>2, <1>3

\* The other invariants have the types of their parts.
LEMMA PartsTyped ==
  /\ MemoryInv => (part = "memory" => Memory!TypeOK)
  /\ TodoInv => (part = "todo" => Steps!TypeOK)
  /\ LoopInv => (part = "loop" => Loop!TypeOK)
  /\ FileInv => (part = "file" => File!TypeOK)
  /\ DeploymentInv => (part = "deployment" => Deployment!TypeOK)
  /\ BusInv => (part = "bus" => Bus!TypeOK)
  /\ TalkInv => (part = "compaction" => Compact!TypeOK)
  /\ SessionsInv => (part = "sessions" => Roles!TypeOK)
  /\ ReviewInv => (part = "review" => Review!TypeOK)
  /\ SettingsInv => (part = "settings" => Config!TypeOK)
<1>1. MemoryInv => (part = "memory" => Memory!TypeOK)
  BY Remembered!Types DEF MemoryInv, Memory!TypeOK, Remembered!TypeOK
<1>2. TodoInv => (part = "todo" => Steps!TypeOK)
  <2> SUFFICES ASSUME TodoTyped PROVE Steps!TypeOK BY DEF TodoInv, TodoHolds
  <2>1. ASSUME NEW p \in Threads
        PROVE  doing[p].at \in {"idle", "save", "mirror", "runs", "write", "finish"}
    <3>1. doing[p] \in TodoCalls BY DEF TodoTyped
    <3> QED BY <3>1 DEF TodoCalls
  <2> QED BY <2>1 DEF TodoTyped, Steps!TypeOK, Rows
<1>3. LoopInv => (part = "loop" => Loop!TypeOK) BY LoopTypes DEF LoopInv
<1>4. FileInv => (part = "file" => File!TypeOK)
  <2> SUFFICES ASSUME Resumed!IInv PROVE File!TypeOK BY DEF FileInv
  <2>1. Resumed!TypeOK BY FileAssumed, Resumed!Types
  <2> QED BY <2>1 DEF File!TypeOK, Resumed!TypeOK, File!Files, Resumed!Files
<1>5. DeploymentInv => (part = "deployment" => Deployment!TypeOK)
  BY DEF DeploymentInv, DeploymentHolds
<1>6. BusInv => (part = "bus" => Bus!TypeOK)
  BY DEF BusInv, BusHolds, BusTyped, Bus!TypeOK, Bus!Len, Len
<1>7. TalkInv => (part = "compaction" => Compact!TypeOK)
  BY DEF TalkInv, TalkTyped, SummaryTyped, Compact!TypeOK, Compact!Len, Len
<1>8. SessionsInv => (part = "sessions" => Roles!TypeOK)
  <2> SUFFICES ASSUME SessionsTyped PROVE Roles!TypeOK BY DEF SessionsInv, SessionsHold
  <2>1. ASSUME NEW p \in Threads
        PROVE  v5[p].at \in {"idle", "insert", "count", "write", "soul", "default", "put"}
    <3>1. v5[p] \in SessionCalls BY DEF SessionsTyped
    <3> QED BY <3>1 DEF SessionCalls
  <2> QED BY <2>1 DEF SessionsTyped, Souled, Roles!TypeOK
<1>9. ReviewInv => (part = "review" => Review!TypeOK)
  <2> SUFFICES ASSUME ReviewTyped PROVE Review!TypeOK BY DEF ReviewInv, ReviewHolds
  <2>1. ASSUME NEW r \in Threads
        PROVE  reviewing[r].step \in {"idle", "gate", "count", "latest", "load", "ask",
                                      "save", "settle", "finish"}
    <3>1. reviewing[r] \in Reviewings \cup {[step |-> "idle"]} BY DEF ReviewTyped
    <3> QED BY <3>1 DEF Reviewings
  <2>2. DOMAIN job = 1 .. Len(job) /\ Review!Len(job) = Len(job) BY SameLength DEF ReviewTyped
  <2>3. ASSUME NEW j \in DOMAIN job
        PROVE  job[j].status \in {"running", "completed", "skipped", "failed", "deleted"}
    <3>1. job[j] \in JobRows BY <2>2 DEF ReviewTyped
    <3> QED BY <3>1 DEF JobRows
  <2> QED BY <2>1, <2>2, <2>3 DEF ReviewTyped, Review!TypeOK
<1>10. SettingsInv => (part = "settings" => Config!TypeOK)
  <2> SUFFICES ASSUME SettingsTyped PROVE Config!TypeOK BY DEF SettingsInv, SettingsHold
  <2>1. \A f \in Config!Files : Config!Content(f, said[f])
    BY DEF SettingsTyped, Config!Content, Values
  <2>2. \A p \in Threads : rewriting[p].step \in {"idle", "parse", "read", "open", "fill", "apply"}
    BY DEF SettingsTyped, Requesting
  <2>3. DOMAIN rewriting = Threads BY DEF SettingsTyped
  <2> QED BY <2>1, <2>2, <2>3 DEF SettingsTyped, Config!TypeOK, LiveSettings, Values
<1> QED BY <1>1, <1>2, <1>3, <1>4, <1>5, <1>6, <1>7, <1>8, <1>9, <1>10

\* Every part keeps the types of its state.
THEOREM TypeCorrect == Spec => []TypeOK
<1> DEFINE TypeInv == /\ MemoryInv /\ TodoInv /\ LoopInv /\ FileInv /\ DeploymentInv /\ BusInv
                      /\ CompactInv /\ TalkInv /\ SessionsInv /\ ReviewInv /\ SettingsInv
<1>1. Init => TypeInv
  BY MemoryBegins, TodoBegins, LoopBegins, FileBegins, DeploymentBegins, BusBegins,
     CompactBegins, TalkBegins, SessionsBegin, ReviewBegins, SettingsBegin
<1>2. TypeInv /\ [Next]_<<part, input, partVars>> => TypeInv'
  BY MemorySteps, TodoSteps, LoopSteps, FileSteps, DeploymentSteps, BusSteps, CompactSteps,
     TalkSteps, SessionsSteps, ReviewSteps, SettingsSteps
<1>3. TypeInv => TypeOK BY PartsTyped DEF TypeOK
<1> QED BY <1>1, <1>2, <1>3, PTL DEF Spec
=============================================================================
