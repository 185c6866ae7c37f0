---------------------------- MODULE SessionPlans ----------------------------
(***************************************************************************)
(* The plan of a session and the plan runs of its turns (packages/amadeus/ *)
(* memory.py, planning.py): the tool update_plan and PUT plan save it, the *)
(* worker mirrors the status of a task in the item it was created for, and *)
(* a turn that ends archives its run.  Every method reads, then writes in  *)
(* a transaction of its own.  The order and the texts of items are left    *)
(* out; an item that is not in a plan has status None.                     *)
(***************************************************************************)
EXTENDS Naturals, FiniteSets

CONSTANTS
  Items, Turns, Threads,
  Statuses,  \* with "pending", "in_progress" and "completed"; the others are alike here
  MaxCalls,  \* bound: calls of all threads
  None

PlansAssumption ==
  /\ IsFiniteSet(Items)
  /\ {"pending", "in_progress", "completed"} \subseteq Statuses
  /\ None \notin Statuses \union Turns
  /\ MaxCalls \in Nat

VARIABLES
  plan,     \* session_plans.items_json
  run,      \* plan_runs: status and items
  doing,    \* the call of each thread
  begun,    \* calls begun
  overlap   \* history: the end of a turn overlapped another call, or a late one came

vars == <<plan, run, doing, begun, overlap>>

Plans == [Items -> Statuses \union {None}]
NoPlan == [i \in Items |-> None]
Idle == [at |-> "idle"]

InProgress(items) == {i \in Items : items[i] = "in_progress"}

\* normalize_plan_items lets it through.
Normal(items) == Cardinality(InProgress(items)) <= 1

\* merge_plan_items.
Merged(current, updates) ==
  [i \in Items |-> IF updates[i] # None THEN updates[i] ELSE current[i]]

\* plan_items_are_complete.
Complete(items) ==
  /\ items # NoPlan
  /\ \A i \in Items : items[i] \in {None, "completed"}

TypeOK ==
  /\ plan \in Plans
  /\ run \in [Turns -> [status : {"none", "active", "completed", "incomplete"}, items : Plans]]
  /\ \A p \in Threads : doing[p].at \in {"idle", "save", "mirror", "runs", "write", "finish"}
  /\ begun \in 0 .. MaxCalls
  /\ overlap \in [Turns -> BOOLEAN]

Init ==
  /\ plan = NoPlan
  /\ run = [t \in Turns |-> [status |-> "none", items |-> NoPlan]]
  /\ doing = [p \in Threads |-> Idle]
  /\ begun = 0
  /\ overlap = [t \in Turns |-> FALSE]

Begin(p, d) ==
  /\ doing[p] = Idle /\ begun < MaxCalls
  /\ doing' = [doing EXCEPT ![p] = d] /\ begun' = begun + 1
  /\ UNCHANGED <<plan, run, overlap>>

Then(p, d) == doing' = [doing EXCEPT ![p] = d] /\ UNCHANGED begun

Archived(t) == run[t].status \in {"completed", "incomplete"}

\* Another thread stands between reading the run of t and writing it.
Between(t, ats) == \E p \in Threads : doing[p].at \in ats /\
                     (doing[p].at = "finish" => doing[p].turn = t)

----------------------------------------------------------------------------
(* save_session_plan: for PUT plan without a turn.  A merge and the result *)
(* are normalized before anything is written.                              *)

SaveReads(p, updates, merge, t) ==
  LET items == IF merge THEN Merged(plan, updates) ELSE updates IN
    /\ Begin(p, [at |-> "save", items |-> items, turn |-> t])
    /\ Normal(updates) /\ Normal(items)

\* The run is created with its first plan; a run that is archived stays so.
SaveWrites(p) ==
  /\ doing[p].at = "save"
  /\ plan' = doing[p].items
  /\ LET t == doing[p].turn IN
       IF t = None THEN UNCHANGED <<run, overlap>>
       ELSE /\ run' = [run EXCEPT ![t] =
                         [status |-> IF Archived(t) THEN @.status ELSE "active",
                          items |-> doing[p].items]]
            /\ overlap' = [overlap EXCEPT ![t] = @ \/ Archived(t) \/ Between(t, {"finish"})]
  /\ Then(p, Idle)

----------------------------------------------------------------------------
(* update_plan_item_status, for a task that starts, ends or is cancelled.  *)

\* Mutant of Marked: what was in progress stays in progress.
MarkedBeside(items, i, s) == [items EXCEPT ![i] = s]

\* The item gets the status; only one item is in progress.
Marked(items, i, s) ==
  [j \in Items |-> CASE j = i -> s
                     [] j # i /\ s = "in_progress" /\ items[j] = "in_progress" -> "pending"
                     [] OTHER -> items[j]]

MirrorReads(p, i, s) ==
  /\ plan[i] # None
  /\ Begin(p, [at |-> "mirror", item |-> i, status |-> s, items |-> Marked(plan, i, s)])

\* save_session_plan without a merge: it raises when the items are not normal.
MirrorSaves(p) ==
  /\ doing[p].at = "mirror"
  /\ IF Normal(doing[p].items)
       THEN /\ plan' = doing[p].items
            /\ Then(p, [at |-> "runs", item |-> doing[p].item, status |-> doing[p].status])
       ELSE /\ UNCHANGED plan
            /\ Then(p, Idle)
  /\ UNCHANGED <<run, overlap>>

\* _update_plan_runs_containing_item: the SELECT of the runs, ...
RunsRead(p) ==
  /\ doing[p].at = "runs"
  /\ Then(p, [at |-> "write", item |-> doing[p].item, status |-> doing[p].status,
              seen |-> run])
  /\ UNCHANGED <<plan, run, overlap>>

\* Mutant of Rewritten: an archived run keeps the status it was archived with.
RewrittenAsIs(row, i, s) == [row EXCEPT !.items = Marked(@, i, s)]

Rewritten(row, i, s) ==
  LET items == Marked(row.items, i, s) IN
    [items |-> items,
     status |-> IF row.status = "active" THEN "active"
                ELSE IF Complete(items) THEN "completed" ELSE "incomplete"]

\* ... and the UPDATE of each that has the item.
RunsWrite(p) ==
  /\ doing[p].at = "write"
  /\ LET seen == doing[p].seen
         i == doing[p].item
         Has(t) == seen[t].status # "none" /\ seen[t].items[i] # None
     IN /\ run' = [t \in Turns |-> IF Has(t) THEN Rewritten(seen[t], i, doing[p].status)
                                            ELSE run[t]]
        /\ overlap' = [t \in Turns |-> overlap[t] \/ (Has(t) /\ Between(t, {"finish"}))]
  /\ Then(p, Idle)
  /\ UNCHANGED plan

----------------------------------------------------------------------------
(* finish_plan_run, by a turn that answered.                               *)

FinishReads(p, t) ==
  /\ run[t].status # "none"
  /\ Begin(p, [at |-> "finish", turn |-> t, complete |-> Complete(run[t].items)])

FinishWrites(p) ==
  /\ doing[p].at = "finish"
  /\ LET t == doing[p].turn IN
       /\ run' = [run EXCEPT ![t].status =
                    IF doing[p].complete THEN "completed" ELSE "incomplete"]
       /\ overlap' = [overlap EXCEPT ![t] = @ \/ Between(t, {"write"})]
  /\ Then(p, Idle)
  /\ UNCHANGED plan

----------------------------------------------------------------------------
Next == \E p \in Threads :
  \/ \E u \in Plans, merge \in BOOLEAN, t \in Turns \union {None} : SaveReads(p, u, merge, t)
  \/ \E i \in Items, s \in Statuses : MirrorReads(p, i, s)
  \/ \E t \in Turns : FinishReads(p, t)
  \/ SaveWrites(p) \/ MirrorSaves(p) \/ RunsRead(p) \/ RunsWrite(p) \/ FinishWrites(p)

Spec == Init /\ [][Next]_vars

----------------------------------------------------------------------------
(* Properties.                                                             *)

\* No plan and no run ever has two items in progress: a plan that had could not
\* be loaded again, for plan_response normalizes what it reads.
OneInProgress == Normal(plan) /\ \A t \in Turns : Normal(run[t].items)

\* An archived run is "completed" just if all its items are, also when a task
\* of it ends, is retried or approved after the turn; only a call that overlaps
\* the archiving itself, or a late save, can part the two.
ArchivedRunsAgree == \A t \in Turns :
  Archived(t) /\ ~overlap[t] => (run[t].status = "completed") = Complete(run[t].items)
=============================================================================
