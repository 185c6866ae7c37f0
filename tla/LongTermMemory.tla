--------------------------- MODULE LongTermMemory ---------------------------
(***************************************************************************)
(* Structured memory: the tables memory_items, memory_items_fts,           *)
(* memory_item_history, memory_item_embeddings and                         *)
(* memory_review_candidates of packages/amadeus/memory.py, used at once by *)
(* tools, HTTP handlers, memory reviews and the embedding backfill.        *)
(*                                                                         *)
(* A fact stands for a scope and a content.  What one method writes it     *)
(* writes in one transaction; what it read before is not part of it, so a  *)
(* method that reads first takes two steps or more.  Scope, confidence,    *)
(* metadata and times are left out; one session and one embedding provider *)
(* stand for all.                                                          *)
(***************************************************************************)
EXTENDS Naturals, Sequences, FiniteSets

CONSTANTS
  Facts, Items, Candidates, Threads,
  MaxHistory,  \* bound: history rows of an item
  None

MemoryAssumption == MaxHistory \in Nat \ {0} /\ None \notin Facts \union Items

VARIABLES
  fact,       \* memory_items.content, None for no row
  deleted,    \* memory_items.deleted_at is set
  index,      \* what memory_items_fts holds for an item
  history,    \* memory_item_history of an item
  vector,     \* memory_item_embeddings: the fact encoded, the content_hash
  candidate,  \* memory_review_candidates: the fact, its status, memory_item_id
  doing       \* what each thread is in the middle of

memoryVars == <<fact, deleted, index, history, vector, candidate>>
vars == <<memoryVars, doing>>

Idle == [at |-> "idle"]
NoCandidate == [status |-> "none", fact |-> None, item |-> None]
Gone == [status |-> "gone", fact |-> None, item |-> None]

TypeOK ==
  /\ fact \in [Items -> Facts \union {None}]
  /\ deleted \in [Items -> BOOLEAN]
  /\ index \in [Items -> Facts \union {None}]
  /\ history \in [Items -> Seq([event : {"ADD", "UPDATE", "DELETE"},
                                old : Facts \union {None}, new : Facts \union {None}])]
  /\ vector \in [Items -> [of : Facts \union {None}, hash : Facts \union {None}]]
  /\ candidate \in [Candidates -> [status : {"none", "pending", "accepted", "rejected", "gone"},
                                   fact : Facts \union {None}, item : Items \union {None}]]
  /\ \A p \in Threads :
       doing[p].at \in {"idle", "add", "propose", "accept", "mark",
                        "replace", "delete", "encode", "upsert", "store"}

Init ==
  /\ fact = [i \in Items |-> None]
  /\ deleted = [i \in Items |-> FALSE]
  /\ index = [i \in Items |-> None]
  /\ history = [i \in Items |-> <<>>]
  /\ vector = [i \in Items |-> [of |-> None, hash |-> None]]
  /\ candidate = [c \in Candidates |-> NoCandidate]
  /\ doing = [p \in Threads |-> Idle]

Active(i) == fact[i] # None /\ ~deleted[i]

Goto(p, d) == doing[p].at = "idle" /\ doing' = [doing EXCEPT ![p] = d]
Then(p, d) == doing' = [doing EXCEPT ![p] = d]

Logged(i, event, old, new) ==
  history' = [history EXCEPT ![i] =
                Append(@, [event |-> event, old |-> old, new |-> new])]

\* Mutant of Holders: what the full-text search returns is taken as a match.
HoldersLike(f) == {i \in Items : Active(i)}

\* list_memory_items with the fact as its query, and the comparison of contents:
\* the active items that hold the fact already.
Holders(f) == {i \in Items : Active(i) /\ fact[i] = f}

\* save_memory_item: the row, its history and its index entry.
Save(i, f) ==
  /\ fact[i] = None
  /\ fact' = [fact EXCEPT ![i] = f]
  /\ index' = [index EXCEPT ![i] = f]
  /\ Logged(i, "ADD", None, f)
  /\ UNCHANGED <<deleted, vector>>

----------------------------------------------------------------------------
(* Items: POST /memory/items, and the tools memory_add, memory_replace and *)
(* memory_forget.                                                          *)

SaveItem(p, i, f) ==
  /\ doing[p].at = "idle"
  /\ Save(i, f)
  /\ UNCHANGED <<candidate, doing>>

\* memory_add looks for a duplicate, then saves.
AddLooks(p, f) ==
  /\ Holders(f) = {}
  /\ Goto(p, [at |-> "add", fact |-> f])
  /\ UNCHANGED memoryVars

AddSaves(p, i) ==
  /\ doing[p].at = "add"
  /\ Save(i, doing[p].fact)
  /\ Then(p, Idle)
  /\ UNCHANGED candidate

\* replace_memory_item and delete_memory_item: the SELECT of the active row.
ItemRead(p, op, i, f) ==
  /\ Active(i) /\ Len(history[i]) < MaxHistory
  /\ Goto(p, [at |-> op, item |-> i, fact |-> f, old |-> fact[i]])
  /\ UNCHANGED memoryVars

\* Mutant of Replaced: the row that was read is taken to be there still.
ReplacedAnyway(i) == TRUE

\* UPDATE ... WHERE id = ? AND deleted_at IS NULL matched the row.
Replaced(i) == ~deleted[i]

Replace(p) ==
  /\ doing[p].at = "replace"
  /\ LET i == doing[p].item
         f == doing[p].fact
     IN IF Replaced(i)
          THEN /\ fact' = [fact EXCEPT ![i] = f]
               /\ index' = [index EXCEPT ![i] = f]
               /\ Logged(i, "UPDATE", doing[p].old, f)
          ELSE UNCHANGED <<fact, index, history>>
  /\ Then(p, Idle)
  /\ UNCHANGED <<deleted, vector, candidate>>

\* Mutant of Delete: the history row is written although nothing was deleted.
DeleteLogged(p) ==
  /\ doing[p].at = "delete"
  /\ LET i == doing[p].item IN
       /\ deleted' = [deleted EXCEPT ![i] = TRUE]
       /\ index' = [index EXCEPT ![i] = None]
       /\ Logged(i, "DELETE", doing[p].old, None)
  /\ Then(p, Idle)
  /\ UNCHANGED <<fact, vector, candidate>>

Delete(p) ==
  /\ doing[p].at = "delete"
  /\ LET i == doing[p].item IN
       IF ~deleted[i]
         THEN /\ deleted' = [deleted EXCEPT ![i] = TRUE]
              /\ index' = [index EXCEPT ![i] = None]
              /\ Logged(i, "DELETE", doing[p].old, None)
         ELSE UNCHANGED <<deleted, index, history>>
  /\ Then(p, Idle)
  /\ UNCHANGED <<fact, vector, candidate>>

----------------------------------------------------------------------------
(* Candidates: proposed by a handler or by a memory review, which accepts  *)
(* what it proposed at once; accepted and rejected by handlers.            *)

WithStatus(f, s) == {c \in Candidates : candidate[c].fact = f /\ candidate[c].status = s}

\* save_memory_review_candidate looks for a rejected or a pending one.  A
\* review ends with a suppressed candidate, and accepts a pending duplicate.
ProposeLooks(p, f, review) ==
  /\ WithStatus(f, "rejected") = {}
  /\ IF WithStatus(f, "pending") = {}
       THEN Goto(p, [at |-> "propose", fact |-> f, review |-> review])
       ELSE /\ review
            /\ \E c \in WithStatus(f, "pending") :
                 Goto(p, [at |-> "accept", candidate |-> c, fact |-> f])
  /\ UNCHANGED memoryVars

ProposeInserts(p, c) ==
  /\ doing[p].at = "propose"
  /\ candidate[c] = NoCandidate
  /\ candidate' = [candidate EXCEPT ![c] =
                     [status |-> "pending", fact |-> doing[p].fact, item |-> None]]
  /\ Then(p, IF doing[p].review
               THEN [at |-> "accept", candidate |-> c, fact |-> doing[p].fact]
               ELSE Idle)
  /\ UNCHANGED <<fact, deleted, index, history, vector>>

\* accept_memory_review_candidate: the SELECT of a pending candidate, the item
\* that has the fact already or a new one, and the UPDATE of the candidate by
\* its id alone.
AcceptReads(p, c) ==
  /\ candidate[c].status = "pending"
  /\ Goto(p, [at |-> "accept", candidate |-> c, fact |-> candidate[c].fact])
  /\ UNCHANGED memoryVars

AcceptSaves(p, i) ==
  /\ doing[p].at = "accept"
  /\ \/ i \in Holders(doing[p].fact) /\ UNCHANGED <<fact, deleted, index, history, vector>>
     \/ Holders(doing[p].fact) = {} /\ Save(i, doing[p].fact)
  /\ Then(p, [at |-> "mark", candidate |-> doing[p].candidate, item |-> i])
  /\ UNCHANGED candidate

AcceptMarks(p) ==
  /\ doing[p].at = "mark"
  /\ LET c == doing[p].candidate IN
       candidate' = [candidate EXCEPT ![c] =
         IF @ = Gone THEN @
         ELSE [@ EXCEPT !.status = "accepted", !.item = doing[p].item]]
  /\ Then(p, Idle)
  /\ UNCHANGED <<fact, deleted, index, history, vector>>

Reject(p, c) ==
  /\ doing[p].at = "idle" /\ candidate[c].status = "pending"
  /\ candidate' = [candidate EXCEPT ![c].status = "rejected"]
  /\ UNCHANGED <<fact, deleted, index, history, vector, doing>>

\* reset of the session: its candidates go, and their ids are not used again;
\* items stay.
Reset(p) ==
  /\ doing[p].at = "idle"
  /\ candidate' = [c \in Candidates |->
                     IF candidate[c] = NoCandidate THEN NoCandidate ELSE Gone]
  /\ UNCHANGED <<fact, deleted, index, history, vector, doing>>

----------------------------------------------------------------------------
(* The embedding backfill.                                                 *)

\* list_memory_items_needing_embeddings.
NeedsVector(i) == Active(i) /\ vector[i].hash # fact[i]

BackfillLists(p, i) ==
  /\ NeedsVector(i)
  /\ Goto(p, [at |-> "encode", item |-> i, fact |-> fact[i]])
  /\ UNCHANGED memoryVars

\* encode_texts of what was listed; upsert_memory_item_embedding then takes the
\* content_hash of the row it finds, and raises when the item is gone.
UpsertReads(p) ==
  /\ doing[p].at = "encode"
  /\ LET i == doing[p].item IN
       Then(p, IF Active(i)
                 THEN [at |-> "upsert", item |-> i, fact |-> doing[p].fact, hash |-> fact[i]]
                 ELSE Idle)
  /\ UNCHANGED memoryVars

UpsertWrites(p) ==
  /\ doing[p].at = "upsert"
  /\ vector' = [vector EXCEPT ![doing[p].item] =
                  [of |-> doing[p].fact, hash |-> doing[p].hash]]
  /\ Then(p, Idle)
  /\ UNCHANGED <<fact, deleted, index, history, candidate>>

----------------------------------------------------------------------------
ItemCalls(p) ==
  \/ \E i \in Items, f \in Facts : \/ SaveItem(p, i, f)
                                   \/ ItemRead(p, "replace", i, f)
  \/ \E i \in Items : ItemRead(p, "delete", i, None) \/ AddSaves(p, i)
  \/ \E f \in Facts : AddLooks(p, f)
  \/ Replace(p) \/ Delete(p)

ReviewCalls(p) ==
  \/ \E f \in Facts, review \in BOOLEAN : ProposeLooks(p, f, review)
  \/ \E c \in Candidates : ProposeInserts(p, c) \/ AcceptReads(p, c) \/ Reject(p, c)
  \/ \E i \in Items : AcceptSaves(p, i)
  \/ AcceptMarks(p) \/ Reset(p)

Backfill(p) ==
  (\E i \in Items : BackfillLists(p, i)) \/ UpsertReads(p) \/ UpsertWrites(p)

Next == \E p \in Threads : ItemCalls(p) \/ ReviewCalls(p) \/ Backfill(p)

Spec == Init /\ [][Next]_vars

----------------------------------------------------------------------------
(* Properties.                                                             *)

\* The full-text index, which is what recall searches, holds the content of
\* every active item and nothing of a forgotten one, however replacements and
\* deletions that read the row earlier overlap.
IndexMatches == \A i \in Items : index[i] = IF Active(i) THEN fact[i] ELSE None

\* The history of an item accounts for the item, however calls that read it
\* earlier overlap: one that is deleted was deleted once and never changed
\* after, and the last entry of any other names the content it has now.
HistoryMatches ==
  \A i \in Items : fact[i] # None =>
    LET last == Len(history[i])
        deletions == {n \in 1 .. last : history[i][n].event = "DELETE"}
    IN IF deleted[i] THEN deletions = {last}
                     ELSE deletions = {} /\ history[i][last].new = fact[i]

\* A candidate is accepted with an item that was given its content, by this or
\* by an earlier acceptance, even if the item was replaced or forgotten since.
AcceptedWasRemembered ==
  \A c \in Candidates : candidate[c].status = "accepted" =>
    \E n \in DOMAIN history[candidate[c].item] :
      history[candidate[c].item][n].new = candidate[c].fact

\* A vector that counts as ready (its content_hash is the item's) encodes the
\* content the item has.
ReadyVectorsFresh ==
  \A i \in Items : (Active(i) /\ vector[i].hash = fact[i]) => vector[i].of = fact[i]

\* A candidate the user rejected stays rejected.
RejectionHolds ==
  [][\A c \in Candidates :
       candidate[c].status = "rejected" => candidate'[c].status # "accepted"]_vars
=============================================================================
