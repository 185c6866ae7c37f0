------------------------ MODULE LongTermMemoryProofs ------------------------
(***************************************************************************)
(* What holds of LongTermMemory for any facts, items, candidates, threads  *)
(* and any length of a history.                                            *)
(***************************************************************************)
EXTENDS LongTermMemory, TLAPS

----------------------------------------------------------------------------
(* The inductive invariant.                                                *)

Entries == [event : {"ADD", "UPDATE", "DELETE"},
            old : Facts \union {None}, new : Facts \union {None}]

\* What a thread that is in the middle of a call knows, typed.
Remembers(d) ==
  /\ d.at \in {"idle", "add", "propose", "accept", "mark",
               "replace", "delete", "encode", "upsert", "store"}
  /\ d.at \in {"add", "propose", "accept", "replace", "encode", "upsert"} => d.fact \in Facts
  /\ d.at = "propose" => d.review \in BOOLEAN
  /\ d.at \in {"accept", "mark"} => d.candidate \in Candidates
  /\ d.at \in {"mark", "replace", "delete", "encode", "upsert"} => d.item \in Items
  /\ d.at \in {"replace", "delete"} => d.old \in Facts
  /\ d.at = "upsert" => d.hash \in Facts \union {None}

Threaded ==
  /\ DOMAIN doing = Threads
  /\ \A p \in Threads : Remembers(doing[p])

\* What HistoryMatches says of an item's log, with the entry it speaks of.
Accounts(log, f, gone) ==
  /\ log # <<>>
  /\ gone => log[Len(log)].event = "DELETE"
  /\ \A n \in 1 .. Len(log) : log[n].event = "DELETE" => gone /\ n = Len(log)
  /\ ~gone => log[Len(log)].new = f

\* The rows of the items, their index and their history.
Ledgers ==
  /\ fact \in [Items -> Facts \union {None}]
  /\ deleted \in [Items -> BOOLEAN]
  /\ index \in [Items -> Facts \union {None}]
  /\ history \in [Items -> Seq(Entries)]
  /\ \A i \in Items : fact[i] = None => ~deleted[i] /\ history[i] = <<>>
  /\ IndexMatches
  /\ \A i \in Items : fact[i] # None => Accounts(history[i], fact[i], deleted[i])

\* A row that is to be replaced or deleted is there, deleted or not.
RowsStay == \A p \in Threads :
  doing[p].at \in {"replace", "delete"} => fact[doing[p].item] # None

\* A fact was given to an item at some time.
WasGiven(i, f) == \E n \in 1 .. Len(history[i]) : history[i][n].new = f

Vectors == vector \in [Items -> [of : Facts \union {None}, hash : Facts \union {None}]]

\* A candidate that is "none" or "gone" is nothing else.
Rows ==
  /\ candidate \in [Candidates -> [status : {"none", "pending", "accepted", "rejected", "gone"},
                                   fact : Facts \union {None}, item : Items \union {None}]]
  /\ \A c \in Candidates :
       /\ candidate[c].status = "none" => candidate[c] = NoCandidate
       /\ candidate[c].status = "gone" => candidate[c] = Gone
       /\ candidate[c].status \in {"pending", "accepted", "rejected"}
            => candidate[c].fact \in Facts

\* Between the steps of an acceptance: the candidate says what the thread read of
\* it, or its session was reset; the item that is to be marked has been given it.
Offered(d) ==
  LET c == d.candidate IN
    /\ d.at = "accept" =>
         candidate[c] = Gone \/ (candidate[c] # NoCandidate /\ candidate[c].fact = d.fact)
    /\ d.at = "mark" =>
         candidate[c] = Gone \/ (candidate[c] # NoCandidate /\ WasGiven(d.item, candidate[c].fact))

Accepting == \A p \in Threads : Offered(doing[p])

Accepted == \A c \in Candidates :
  candidate[c].status = "accepted" =>
    candidate[c].item \in Items /\ WasGiven(candidate[c].item, candidate[c].fact)

IInv == Ledgers /\ Vectors /\ Rows /\ Accepted /\ Threaded /\ RowsStay /\ Accepting

----------------------------------------------------------------------------
(* What statements do to the ledgers.                                      *)

\* They account for the items again; no row goes, and no entry of a history.
LedgerStep ==
  /\ Ledgers'
  /\ \A i \in Items : fact[i] # None => fact'[i] # None
  /\ \A i \in Items : \A f : WasGiven(i, f) => WasGiven(i, f)'

\* An entry after others than a deletion: what it says goes.
LEMMA EntryAccounts ==
  ASSUME NEW log \in Seq(Entries), NEW e \in Entries,
         \A n \in 1 .. Len(log) : log[n].event # "DELETE"
  PROVE  Accounts(Append(log, e), e.new, e.event = "DELETE")
<1>1. /\ Len(Append(log, e)) = Len(log) + 1 /\ Len(log) \in Nat
      /\ \A n \in 1 .. Len(log) : Append(log, e)[n] = log[n]
      /\ Append(log, e)[Len(log) + 1] = e
  OBVIOUS
<1>2. Append(log, e) # <<>> BY <1>1
<1>3. ASSUME NEW n \in 1 .. Len(Append(log, e)), Append(log, e)[n].event = "DELETE"
      PROVE  e.event = "DELETE" /\ n = Len(Append(log, e))
  BY <1>1, <1>3
<1> QED BY <1>1, <1>2, <1>3 DEF Accounts

LEMMA LoggedKeeps ==
  ASSUME Ledgers, NEW i \in Items, NEW event, NEW old, NEW new,
         [event |-> event, old |-> old, new |-> new] \in Entries, Logged(i, event, old, new)
  PROVE  /\ history' \in [Items -> Seq(Entries)]
         /\ \A j \in Items \ {i} : history'[j] = history[j]
         /\ history'[i] # <<>>
         /\ ~deleted[i] => Accounts(history'[i], new, event = "DELETE")
         /\ \A j \in Items : \A g : WasGiven(j, g) => WasGiven(j, g)'
         /\ WasGiven(i, new)'
<1> DEFINE e == [event |-> event, old |-> old, new |-> new]
           log == history[i]
<1>1. /\ e.event = event /\ e.new = new
      /\ history' = [history EXCEPT ![i] = Append(log, e)] /\ e \in Entries
  BY DEF Logged
<1>2. log \in Seq(Entries) BY DEF Ledgers
<1>3. Append(log, e) \in Seq(Entries) BY <1>1, <1>2
<1>4. history'[i] = Append(log, e) /\ \A j \in Items \ {i} : history'[j] = history[j]
  BY <1>1 DEF Ledgers
<1>5. history' \in [Items -> Seq(Entries)] BY <1>1, <1>3 DEF Ledgers
<1>6. /\ Len(Append(log, e)) = Len(log) + 1 /\ Len(log) \in Nat
      /\ \A n \in 1 .. Len(log) : Append(log, e)[n] = log[n]
      /\ Append(log, e)[Len(log) + 1] = e
  <2> HIDE DEF e, log
  <2> QED BY <1>1, <1>2
<1>7. ASSUME ~deleted[i] PROVE \A n \in 1 .. Len(log) : log[n].event # "DELETE"
  BY <1>2, <1>7 DEF Ledgers, Accounts
<1>8. ~deleted[i] => Accounts(Append(log, e), e.new, e.event = "DELETE")
  <2> HIDE DEF e, log
  <2> QED BY <1>1, <1>2, <1>7, EntryAccounts
<1>9. WasGiven(i, new)'
  <2>1. Len(log) + 1 \in 1 .. Len(history'[i]) /\ history'[i][Len(log) + 1].new = new
    <3> HIDE DEF e, log
    <3> QED BY <1>1, <1>4, <1>6
  <2> QED BY <2>1 DEF WasGiven
<1>10. ASSUME NEW j \in Items, NEW g, WasGiven(j, g) PROVE WasGiven(j, g)'
  <2>1. CASE j = i
    <3>1. PICK n \in 1 .. Len(log) : log[n].new = g BY <1>10, <2>1 DEF WasGiven
    <3>2. n \in 1 .. Len(history'[i]) /\ history'[i][n].new = g
      <4> HIDE DEF e, log
      <4> QED BY <1>4, <1>6, <3>1
    <3> QED BY <2>1, <3>2 DEF WasGiven
  <2>2. CASE j # i BY <1>4, <1>10, <2>2 DEF WasGiven
  <2> QED BY <2>1, <2>2
<1>11. history'[i] # <<>>
  <2> HIDE DEF e, log
  <2> QED BY <1>2, <1>4, <1>6
<1>12. ~deleted[i] => Accounts(history'[i], new, event = "DELETE")
  <2> HIDE DEF e, log
  <2> QED BY <1>1, <1>4, <1>8
<1> QED BY <1>4, <1>5, <1>9, <1>10, <1>11, <1>12

LEMMA SaveKeeps ==
  ASSUME MemoryAssumption, Ledgers, NEW i \in Items, NEW f \in Facts, Save(i, f)
  PROVE  LedgerStep /\ WasGiven(i, f)'
<1>1. f # None BY DEF MemoryAssumption
<1>2. [event |-> "ADD", old |-> None, new |-> f] \in Entries BY DEF Entries
<1>3. /\ fact' \in [Items -> Facts \union {None}] /\ index' \in [Items -> Facts \union {None}]
      /\ \A j \in Items : fact'[j] = (IF j = i THEN f ELSE fact[j])
                          /\ index'[j] = (IF j = i THEN f ELSE index[j])
      /\ deleted' = deleted /\ deleted \in [Items -> BOOLEAN]
      /\ fact[i] = None /\ ~deleted[i]
  BY DEF Ledgers, Save
<1>4. /\ history' \in [Items -> Seq(Entries)]
      /\ \A j \in Items \ {i} : history'[j] = history[j]
      /\ history'[i] # <<>> /\ Accounts(history'[i], f, FALSE)
      /\ \A j \in Items : \A g : WasGiven(j, g) => WasGiven(j, g)'
      /\ WasGiven(i, f)'
  BY <1>2, <1>3, LoggedKeeps DEF Save
<1>5. IndexMatches' BY <1>1, <1>3 DEF Ledgers, IndexMatches, Active
<1>6. ASSUME NEW j \in Items
      PROVE  /\ fact'[j] # None => Accounts(history'[j], fact'[j], deleted'[j])
             /\ fact'[j] = None => ~deleted'[j] /\ history'[j] = <<>>
  BY <1>1, <1>3, <1>4 DEF Ledgers
<1> QED BY <1>1, <1>3, <1>4, <1>5, <1>6 DEF LedgerStep, Ledgers

\* The UPDATE of replace_memory_item, on a row that is there.
LEMMA ReplaceKeeps ==
  ASSUME MemoryAssumption, Ledgers, Threaded, RowsStay, NEW p \in Threads, Replace(p)
  PROVE  LedgerStep
<1> DEFINE i == doing[p].item
           f == doing[p].fact
           old == doing[p].old
<1>1. i \in Items /\ f \in Facts /\ old \in Facts /\ fact[i] # None /\ f # None
  BY DEF Replace, Threaded, Remembers, RowsStay, MemoryAssumption
<1>2. CASE Replaced(i)
  <2>1. /\ fact' = [fact EXCEPT ![i] = f] /\ index' = [index EXCEPT ![i] = f]
        /\ Logged(i, "UPDATE", old, f) /\ deleted' = deleted /\ ~deleted[i]
    BY <1>2 DEF Replace, Replaced
  <2> HIDE DEF i, f, old
  <2>2. [event |-> "UPDATE", old |-> old, new |-> f] \in Entries BY <1>1 DEF Entries
  <2>3. /\ history' \in [Items -> Seq(Entries)]
        /\ \A j \in Items \ {i} : history'[j] = history[j]
        /\ history'[i] # <<>> /\ Accounts(history'[i], f, FALSE)
        /\ \A j \in Items : \A g : WasGiven(j, g) => WasGiven(j, g)'
    BY <1>1, <2>1, <2>2, LoggedKeeps
  <2>4. /\ fact' \in [Items -> Facts \union {None}] /\ index' \in [Items -> Facts \union {None}]
        /\ \A j \in Items : fact'[j] = (IF j = i THEN f ELSE fact[j])
                            /\ index'[j] = (IF j = i THEN f ELSE index[j])
        /\ deleted \in [Items -> BOOLEAN]
    BY <1>1, <2>1 DEF Ledgers
  <2>5. IndexMatches' BY <1>1, <2>1, <2>4 DEF Ledgers, IndexMatches, Active
  <2>6. ASSUME NEW j \in Items
        PROVE  /\ fact'[j] # None => Accounts(history'[j], fact'[j], deleted'[j])
               /\ fact'[j] = None => ~deleted'[j] /\ history'[j] = <<>>
    <3>1. CASE j = i
      <4>1. fact'[i] = f /\ deleted'[i] = FALSE BY <1>1, <2>1, <2>4
      <4> QED BY <1>1, <2>3, <3>1, <4>1
    <3>2. CASE j # i
      <4>1. fact'[j] = fact[j] /\ deleted'[j] = deleted[j] /\ history'[j] = history[j]
        BY <2>1, <2>3, <2>4, <3>2
      <4> QED BY <4>1 DEF Ledgers
    <3> QED BY <3>1, <3>2
  <2> QED BY <1>1, <2>1, <2>3, <2>4, <2>5, <2>6 DEF LedgerStep, Ledgers
<1>3. CASE ~Replaced(i)
  <2>1. UNCHANGED <<fact, deleted, index, history>> BY <1>3 DEF Replace
  <2> QED BY <2>1 DEF LedgerStep, Ledgers, IndexMatches, Active, WasGiven
<1> QED BY <1>2, <1>3

\* The UPDATE of delete_memory_item: it deletes once.
LEMMA DeleteKeeps ==
  ASSUME MemoryAssumption, Ledgers, Threaded, RowsStay, NEW p \in Threads, Delete(p)
  PROVE  LedgerStep
<1> DEFINE i == doing[p].item
           old == doing[p].old
<1>1. i \in Items /\ old \in Facts /\ fact[i] # None
  BY DEF Delete, Threaded, Remembers, RowsStay
<1>2. CASE ~deleted[i]
  <2>1. /\ deleted' = [deleted EXCEPT ![i] = TRUE] /\ index' = [index EXCEPT ![i] = None]
        /\ Logged(i, "DELETE", old, None) /\ fact' = fact /\ ~deleted[i]
    BY <1>2 DEF Delete
  <2> HIDE DEF i, old
  <2>2. [event |-> "DELETE", old |-> old, new |-> None] \in Entries BY <1>1 DEF Entries
  <2>3. /\ history' \in [Items -> Seq(Entries)]
        /\ \A j \in Items \ {i} : history'[j] = history[j]
        /\ history'[i] # <<>> /\ Accounts(history'[i], None, TRUE)
        /\ \A j \in Items : \A g : WasGiven(j, g) => WasGiven(j, g)'
    BY <1>1, <2>1, <2>2, LoggedKeeps
  <2>4. /\ deleted' \in [Items -> BOOLEAN] /\ index' \in [Items -> Facts \union {None}]
        /\ \A j \in Items : deleted'[j] = (IF j = i THEN TRUE ELSE deleted[j])
                            /\ index'[j] = (IF j = i THEN None ELSE index[j])
    BY <1>1, <2>1 DEF Ledgers
  <2>5. IndexMatches' BY <1>1, <2>1, <2>4 DEF Ledgers, IndexMatches, Active
  <2>6. Accounts(history'[i], fact[i], TRUE) BY <2>3 DEF Accounts
  <2>7. ASSUME NEW j \in Items
        PROVE  /\ fact'[j] # None => Accounts(history'[j], fact'[j], deleted'[j])
               /\ fact'[j] = None => ~deleted'[j] /\ history'[j] = <<>>
    BY <1>1, <2>1, <2>3, <2>4, <2>6 DEF Ledgers
  <2> QED BY <1>1, <2>1, <2>3, <2>4, <2>5, <2>7 DEF LedgerStep, Ledgers
<1>3. CASE deleted[i]
  <2>1. UNCHANGED <<fact, deleted, index, history>> BY <1>3 DEF Delete
  <2> QED BY <2>1 DEF LedgerStep, Ledgers, IndexMatches, Active, WasGiven
<1> QED BY <1>2, <1>3

\* What leaves the items alone leaves their ledgers alone.
LEMMA LedgersRest ==
  ASSUME Ledgers, UNCHANGED <<fact, deleted, index, history>>
  PROVE  LedgerStep
BY DEF LedgerStep, Ledgers, IndexMatches, Active, WasGiven

----------------------------------------------------------------------------
(* What statements do to the candidates.                                   *)

\* They keep what Rows and Accepted say; no candidate is given another fact, and
\* one that is gone stays so.
CandidateStep ==
  /\ Rows' /\ Accepted'
  /\ \A c \in Candidates :
       /\ candidate[c] = Gone => candidate'[c] = Gone
       /\ candidate[c] # NoCandidate =>
            \/ candidate'[c] = Gone
            \/ candidate'[c] # NoCandidate /\ candidate'[c].fact = candidate[c].fact

\* What was given stays given, so what was accepted stays right.
LEMMA CandidatesRest ==
  ASSUME Rows, Accepted, LedgerStep, UNCHANGED candidate
  PROVE  CandidateStep
<1>1. Rows' BY DEF Rows
<1>2. Accepted' BY DEF Accepted, LedgerStep
<1> QED BY <1>1, <1>2 DEF CandidateStep

\* Of one candidate.
LEMMA CandidateSet ==
  ASSUME MemoryAssumption, Rows, Accepted, LedgerStep, NEW c \in Candidates, NEW r,
         candidate' = [candidate EXCEPT ![c] = r],
         r \in [status : {"pending", "accepted", "rejected"}, fact : Facts,
                item : Items \union {None}],
         candidate[c] = NoCandidate \/ (candidate[c] # Gone /\ r.fact = candidate[c].fact),
         r.status = "accepted" => r.item \in Items /\ WasGiven(r.item, r.fact)'
  PROVE  CandidateStep
<1>1. candidate'[c] = r /\ \A e \in Candidates \ {c} : candidate'[e] = candidate[e]
  BY DEF Rows
<1>2. r # NoCandidate /\ r # Gone BY DEF NoCandidate, Gone
<1>3. Rows'
  <2>1. candidate' \in [Candidates -> [status : {"none", "pending", "accepted", "rejected", "gone"},
                                     fact : Facts \union {None}, item : Items \union {None}]]
    BY DEF Rows
  <2>2. \A e \in Candidates :
          /\ candidate'[e].status = "none" => candidate'[e] = NoCandidate
          /\ candidate'[e].status = "gone" => candidate'[e] = Gone
          /\ candidate'[e].status \in {"pending", "accepted", "rejected"}
               => candidate'[e].fact \in Facts
    BY <1>1 DEF Rows
  <2> QED BY <2>1, <2>2 DEF Rows, NoCandidate, Gone
<1>4. ASSUME NEW e \in Candidates, candidate'[e].status = "accepted"
      PROVE  candidate'[e].item \in Items /\ WasGiven(candidate[e].item, candidate[e].fact)'
  <2>1. CASE e = c BY <1>1, <1>4, <2>1 DEF WasGiven
  <2>2. CASE e # c
    <3>1. candidate'[e] = candidate[e] BY <1>1, <2>2
    <3>2. candidate[e].item \in Items /\ WasGiven(candidate[e].item, candidate[e].fact)
      BY <1>4, <3>1 DEF Accepted
    <3>3. PICK i \in Items : i = candidate[e].item BY <3>2
    <3>4. PICK f : f = candidate[e].fact OBVIOUS
    <3>5. WasGiven(i, f)' BY <3>2, <3>3, <3>4 DEF LedgerStep
    <3> QED BY <3>1, <3>2, <3>3, <3>4, <3>5 DEF WasGiven
  <2> QED BY <2>1, <2>2
<1>5. Accepted' BY <1>4 DEF Accepted, WasGiven
<1>6. NoCandidate # Gone BY DEF NoCandidate, Gone
<1>7. ASSUME NEW e \in Candidates
      PROVE  /\ candidate[e] = Gone => candidate'[e] = Gone
             /\ candidate[e] # NoCandidate =>
                  \/ candidate'[e] = Gone
                  \/ candidate'[e] # NoCandidate /\ candidate'[e].fact = candidate[e].fact
  <2>1. CASE e = c BY <1>1, <1>2, <1>6, <2>1
  <2>2. CASE e # c BY <1>1, <2>2
  <2> QED BY <2>1, <2>2
<1> QED BY <1>3, <1>5, <1>7 DEF CandidateStep

LEMMA CandidatesGo ==
  ASSUME Rows, candidate' = [c \in Candidates |->
                     IF candidate[c] = NoCandidate THEN NoCandidate ELSE Gone]
  PROVE  CandidateStep
<1>1. Rows' /\ Accepted' BY DEF Rows, Accepted, NoCandidate, Gone
<1>2. NoCandidate # Gone BY DEF NoCandidate, Gone
<1> QED BY <1>1, <1>2 DEF CandidateStep

----------------------------------------------------------------------------
(* What a thread does is the business of no other.                         *)

\* What was offered stays so: neither the history nor the candidate takes it back.
LEMMA OffersStay ==
  ASSUME LedgerStep, CandidateStep, NEW d, Remembers(d), Offered(d)
  PROVE  Offered(d)'
BY DEF LedgerStep, CandidateStep, Remembers, Offered

LEMMA ThreadGoes ==
  ASSUME Threaded, RowsStay, Accepting, LedgerStep, CandidateStep, NEW p \in Threads, NEW d,
         Then(p, d), Remembers(d), Offered(d)',
         d.at \in {"replace", "delete"} => fact'[d.item] # None
  PROVE  Threaded' /\ RowsStay' /\ Accepting'
<1>1. /\ DOMAIN doing' = Threads /\ doing'[p] = d
      /\ \A q \in Threads \ {p} : doing'[q] = doing[q]
  BY DEF Then, Threaded
<1>2. Threaded' BY <1>1 DEF Threaded, Remembers
<1>3. RowsStay' BY <1>1 DEF RowsStay, Threaded, Remembers, LedgerStep
<1>4. ASSUME NEW q \in Threads PROVE Offered(doing[q])'
  <2>1. CASE q = p BY <1>1, <2>1 DEF Offered
  <2>2. CASE q # p
    <3>1. PICK e : e = doing[q] OBVIOUS
    <3>2. Remembers(e) /\ Offered(e) BY <3>1 DEF Threaded, Accepting
    <3>3. Offered(e)' BY <3>2, OffersStay
    <3>4. doing'[q] = e BY <1>1, <2>2, <3>1
    <3> QED BY <3>3, <3>4 DEF Offered
  <2> QED BY <2>1, <2>2
<1> QED BY <1>2, <1>3, <1>4 DEF Accepting

LEMMA ThreadsRest ==
  ASSUME Threaded, RowsStay, Accepting, LedgerStep, CandidateStep, UNCHANGED doing
  PROVE  Threaded' /\ RowsStay' /\ Accepting'
<1>1. Threaded' BY DEF Threaded, Remembers
<1>2. RowsStay' BY DEF RowsStay, Threaded, Remembers, LedgerStep
<1>3. ASSUME NEW q \in Threads PROVE Offered(doing[q])'
  <2>1. PICK e : e = doing[q] OBVIOUS
  <2>2. Remembers(e) /\ Offered(e) BY <2>1 DEF Threaded, Accepting
  <2>3. Offered(e)' BY <2>2, OffersStay
  <2> QED BY <2>1, <2>3 DEF Offered
<1> QED BY <1>1, <1>2, <1>3 DEF Accepting

\* So a call has come to its end.
LEMMA ThreadIdles ==
  ASSUME Threaded, RowsStay, Accepting, LedgerStep, CandidateStep, NEW p \in Threads, Then(p, Idle)
  PROVE  Threaded' /\ RowsStay' /\ Accepting'
<1>1. PICK d : d = Idle OBVIOUS
<1>2. d.at = "idle" BY <1>1 DEF Idle
<1>3. Then(p, d) BY <1>1
<1>4. Remembers(d) /\ Offered(d)' BY <1>2 DEF Remembers, Offered
<1> QED BY <1>2, <1>3, <1>4, ThreadGoes

----------------------------------------------------------------------------
(* The steps.                                                              *)

\* A step is put together of what it does to the items, to the candidates and to
\* the threads.
LEMMA StepOf ==
  ASSUME LedgerStep, CandidateStep, Vectors', Threaded', RowsStay', Accepting'
  PROVE  IInv'
BY DEF LedgerStep, CandidateStep, IInv

\* The first step of a call, which reads.
LEMMA ReadKeeps ==
  ASSUME IInv, NEW p \in Threads, NEW d, UNCHANGED memoryVars, Then(p, d),
         Remembers(d), Offered(d), d.at \in {"replace", "delete"} => fact[d.item] # None
  PROVE  IInv'
<1>1. LedgerStep BY LedgersRest DEF IInv, memoryVars
<1>2. CandidateStep BY <1>1, CandidatesRest DEF IInv, memoryVars
<1>3. Offered(d)' BY <1>1, <1>2, OffersStay
<1>4. d.at \in {"replace", "delete"} => fact'[d.item] # None BY DEF memoryVars
<1>5. Threaded' /\ RowsStay' /\ Accepting' BY <1>1, <1>2, <1>3, <1>4, ThreadGoes DEF IInv
<1>6. Vectors' BY DEF IInv, Vectors, memoryVars
<1> QED BY <1>1, <1>2, <1>5, <1>6, StepOf

LEMMA SaveItemKeeps ==
  ASSUME MemoryAssumption, IInv, NEW p \in Threads, NEW i \in Items, NEW f \in Facts,
         SaveItem(p, i, f)
  PROVE  IInv'
<1>1. Save(i, f) /\ UNCHANGED <<candidate, doing>> BY DEF SaveItem
<1>2. LedgerStep BY <1>1, SaveKeeps DEF IInv
<1>3. CandidateStep BY <1>1, <1>2, CandidatesRest DEF IInv
<1>4. Threaded' /\ RowsStay' /\ Accepting' BY <1>1, <1>2, <1>3, ThreadsRest DEF IInv
<1>5. Vectors' BY <1>1 DEF IInv, Vectors, Save
<1> QED BY <1>2, <1>3, <1>4, <1>5, StepOf

LEMMA AddLooksKeeps ==
  ASSUME IInv, NEW p \in Threads, NEW f \in Facts, AddLooks(p, f)
  PROVE  IInv'
<1>1. PICK d : d = [at |-> "add", fact |-> f] OBVIOUS
<1>2. Then(p, d) /\ UNCHANGED memoryVars BY <1>1 DEF AddLooks, Goto, Then
<1>3. Remembers(d) /\ Offered(d) BY <1>1 DEF Remembers, Offered
<1>4. d.at = "add" BY <1>1
<1> QED BY <1>2, <1>3, <1>4, ReadKeeps

LEMMA AddSavesKeeps ==
  ASSUME MemoryAssumption, IInv, NEW p \in Threads, NEW i \in Items, AddSaves(p, i)
  PROVE  IInv'
<1>1. PICK f : f = doing[p].fact OBVIOUS
<1>2. f \in Facts BY <1>1 DEF AddSaves, IInv, Threaded, Remembers
<1>3. Save(i, f) /\ Then(p, Idle) /\ UNCHANGED candidate BY <1>1 DEF AddSaves
<1>4. LedgerStep BY <1>2, <1>3, SaveKeeps DEF IInv
<1>5. CandidateStep BY <1>3, <1>4, CandidatesRest DEF IInv
<1>6. Threaded' /\ RowsStay' /\ Accepting' BY <1>3, <1>4, <1>5, ThreadIdles DEF IInv
<1>7. Vectors' BY <1>3 DEF IInv, Vectors, Save
<1> QED BY <1>4, <1>5, <1>6, <1>7, StepOf

\* The SELECT for a replacement or a deletion.
LEMMA ItemReadKeeps ==
  ASSUME IInv, NEW p \in Threads, NEW i \in Items, NEW op \in {"replace", "delete"}, NEW f,
         op = "replace" => f \in Facts, ItemRead(p, op, i, f)
  PROVE  IInv'
<1>1. PICK d : d = [at |-> op, item |-> i, fact |-> f, old |-> fact[i]] OBVIOUS
<1>2. Then(p, d) /\ UNCHANGED memoryVars BY <1>1 DEF ItemRead, Goto, Then
<1>3. fact[i] \in Facts BY DEF ItemRead, Active, IInv, Ledgers
<1>4. Remembers(d) /\ Offered(d) BY <1>1, <1>3 DEF Remembers, Offered
<1>5. fact[d.item] # None BY <1>1 DEF ItemRead, Active
<1> QED BY <1>2, <1>4, <1>5, ReadKeeps

LEMMA ReplaceOrDeleteKeeps ==
  ASSUME MemoryAssumption, IInv, NEW p \in Threads, Replace(p) \/ Delete(p)
  PROVE  IInv'
<1>1. LedgerStep BY ReplaceKeeps, DeleteKeeps DEF IInv
<1>2. Then(p, Idle) /\ UNCHANGED <<vector, candidate>> BY DEF Replace, Delete
<1>3. CandidateStep BY <1>1, <1>2, CandidatesRest DEF IInv
<1>4. Threaded' /\ RowsStay' /\ Accepting' BY <1>1, <1>2, <1>3, ThreadIdles DEF IInv
<1>5. Vectors' BY <1>2 DEF IInv, Vectors
<1> QED BY <1>1, <1>3, <1>4, <1>5, StepOf

LEMMA ProposeLooksKeeps ==
  ASSUME IInv, NEW p \in Threads, NEW f \in Facts, NEW review \in BOOLEAN,
         ProposeLooks(p, f, review)
  PROVE  IInv'
<1>1. CASE WithStatus(f, "pending") = {}
  <2>1. PICK d : d = [at |-> "propose", fact |-> f, review |-> review] OBVIOUS
  <2>2. Then(p, d) /\ UNCHANGED memoryVars BY <1>1, <2>1 DEF ProposeLooks, Goto, Then
  <2>3. Remembers(d) /\ Offered(d) BY <2>1 DEF Remembers, Offered
  <2>4. d.at = "propose" BY <2>1
  <2> QED BY <2>2, <2>3, <2>4, ReadKeeps
<1>2. CASE WithStatus(f, "pending") # {}
  <2>1. PICK c \in WithStatus(f, "pending") :
          Goto(p, [at |-> "accept", candidate |-> c, fact |-> f])
    BY <1>2 DEF ProposeLooks
  <2>2. PICK d : d = [at |-> "accept", candidate |-> c, fact |-> f] OBVIOUS
  <2>3. Then(p, d) /\ UNCHANGED memoryVars BY <2>1, <2>2 DEF ProposeLooks, Goto, Then
  <2>4. c \in Candidates /\ candidate[c].fact = f /\ candidate[c] # NoCandidate
    BY <2>1 DEF WithStatus, NoCandidate
  <2>5. Remembers(d) /\ Offered(d) /\ d.at = "accept"
    BY <2>2, <2>4 DEF Remembers, Offered
  <2> QED BY <2>3, <2>5, ReadKeeps
<1> QED BY <1>1, <1>2

LEMMA ProposeInsertsKeeps ==
  ASSUME MemoryAssumption, IInv, NEW p \in Threads, NEW c \in Candidates, ProposeInserts(p, c)
  PROVE  IInv'
<1>1. PICK f : f = doing[p].fact OBVIOUS
<1>2. PICK r : r = [status |-> "pending", fact |-> f, item |-> None] OBVIOUS
<1>3. f \in Facts BY <1>1 DEF ProposeInserts, IInv, Threaded, Remembers
<1>4. /\ candidate[c] = NoCandidate /\ candidate' = [candidate EXCEPT ![c] = r]
      /\ UNCHANGED <<fact, deleted, index, history, vector>>
  BY <1>1, <1>2 DEF ProposeInserts
<1>5. LedgerStep BY <1>4, LedgersRest DEF IInv
<1>6. /\ r \in [status : {"pending", "accepted", "rejected"}, fact : Facts,
                item : Items \union {None}]
      /\ r.status # "accepted" /\ r.fact = f /\ r # NoCandidate
  BY <1>2, <1>3 DEF NoCandidate
<1>7. CandidateStep BY <1>4, <1>5, <1>6, CandidateSet DEF IInv
<1>8. Threaded' /\ RowsStay' /\ Accepting'
  <2>1. CASE doing[p].review
    <3>1. PICK d : d = [at |-> "accept", candidate |-> c, fact |-> f] OBVIOUS
    <3>2. Then(p, d) BY <1>1, <2>1, <3>1 DEF ProposeInserts
    <3>3. candidate'[c] = r BY <1>4 DEF IInv, Rows
    <3>4. Remembers(d) /\ Offered(d)' /\ d.at = "accept"
      BY <1>3, <1>6, <3>1, <3>3 DEF Remembers, Offered
    <3> QED BY <1>5, <1>7, <3>2, <3>4, ThreadGoes DEF IInv
  <2>2. CASE ~doing[p].review
    <3>1. Then(p, Idle) BY <2>2 DEF ProposeInserts
    <3> QED BY <1>5, <1>7, <3>1, ThreadIdles DEF IInv
  <2> QED BY <2>1, <2>2
<1>9. Vectors' BY <1>4 DEF IInv, Vectors
<1> QED BY <1>5, <1>7, <1>8, <1>9, StepOf

LEMMA AcceptReadsKeeps ==
  ASSUME IInv, NEW p \in Threads, NEW c \in Candidates, AcceptReads(p, c)
  PROVE  IInv'
<1>1. PICK d : d = [at |-> "accept", candidate |-> c, fact |-> candidate[c].fact] OBVIOUS
<1>2. Then(p, d) /\ UNCHANGED memoryVars BY <1>1 DEF AcceptReads, Goto, Then
<1>3. candidate[c].fact \in Facts /\ candidate[c] # NoCandidate
  BY DEF AcceptReads, IInv, Rows, NoCandidate
<1>4. Remembers(d) /\ Offered(d) /\ d.at = "accept" BY <1>1, <1>3 DEF Remembers, Offered
<1> QED BY <1>2, <1>4, ReadKeeps

\* An item that holds a fact was given it.
LEMMA HoldersWereGiven ==
  ASSUME Ledgers, NEW f \in Facts, NEW i \in Holders(f)
  PROVE  i \in Items /\ WasGiven(i, f)
<1>1. i \in Items /\ fact[i] = f /\ fact[i] # None /\ ~deleted[i] BY DEF Holders, Active
<1>2. Accounts(history[i], fact[i], deleted[i]) /\ history[i] \in Seq(Entries)
  BY <1>1 DEF Ledgers
<1>3. history[i] # <<>> /\ history[i][Len(history[i])].new = f BY <1>1, <1>2 DEF Accounts
<1>4. Len(history[i]) \in 1 .. Len(history[i]) BY <1>2, <1>3
<1> QED BY <1>1, <1>3, <1>4 DEF WasGiven

LEMMA AcceptSavesKeeps ==
  ASSUME MemoryAssumption, IInv, NEW p \in Threads, NEW i \in Items, AcceptSaves(p, i)
  PROVE  IInv'
<1>1. PICK f, c : f = doing[p].fact /\ c = doing[p].candidate OBVIOUS
<1>2. PICK d : d = [at |-> "mark", candidate |-> c, item |-> i] OBVIOUS
<1>3. /\ f \in Facts /\ c \in Candidates
      /\ candidate[c] = Gone \/ (candidate[c] # NoCandidate /\ candidate[c].fact = f)
  BY <1>1 DEF AcceptSaves, IInv, Threaded, Remembers, Accepting, Offered
<1>4. Then(p, d) /\ UNCHANGED candidate BY <1>1, <1>2 DEF AcceptSaves
<1>5. LedgerStep /\ WasGiven(i, f)' /\ UNCHANGED vector
  <2>1. CASE i \in Holders(f) /\ UNCHANGED <<fact, deleted, index, history, vector>>
    <3>1. LedgerStep BY <2>1, LedgersRest DEF IInv
    <3>2. WasGiven(i, f) BY <1>3, <2>1, HoldersWereGiven DEF IInv
    <3> QED BY <2>1, <3>1, <3>2 DEF LedgerStep
  <2>2. CASE Save(i, f)
    BY <1>3, <2>2, SaveKeeps DEF IInv, Save
  <2> QED BY <1>1, <2>1, <2>2 DEF AcceptSaves
<1>6. CandidateStep BY <1>4, <1>5, CandidatesRest DEF IInv
<1>7. Remembers(d) /\ d.at = "mark" BY <1>2, <1>3 DEF Remembers
<1>8. Offered(d)'
  <2>1. candidate'[c] = candidate[c] BY <1>4
  <2> QED BY <1>2, <1>3, <1>5, <2>1 DEF Offered, WasGiven
<1>9. Threaded' /\ RowsStay' /\ Accepting' BY <1>4, <1>5, <1>6, <1>7, <1>8, ThreadGoes DEF IInv
<1>10. Vectors' BY <1>5 DEF IInv, Vectors
<1> QED BY <1>5, <1>6, <1>9, <1>10, StepOf

LEMMA AcceptMarksKeeps ==
  ASSUME MemoryAssumption, IInv, NEW p \in Threads, AcceptMarks(p)
  PROVE  IInv'
<1>1. PICK c, i : c = doing[p].candidate /\ i = doing[p].item OBVIOUS
<1>2. /\ c \in Candidates /\ i \in Items
      /\ candidate[c] = Gone \/ (candidate[c] # NoCandidate /\ WasGiven(i, candidate[c].fact))
  BY <1>1 DEF AcceptMarks, IInv, Threaded, Remembers, Accepting, Offered
<1>3. Then(p, Idle) /\ UNCHANGED <<fact, deleted, index, history, vector>> BY DEF AcceptMarks
<1>4. LedgerStep BY <1>3, LedgersRest DEF IInv
<1>5. CandidateStep
  <2>1. CASE candidate[c] = Gone
    <3>1. candidate' = candidate BY <1>1, <1>2, <2>1 DEF AcceptMarks, IInv, Rows
    <3> QED BY <1>4, <3>1, CandidatesRest DEF IInv
  <2>2. CASE candidate[c] # Gone
    <3>1. PICK r : r = [candidate[c] EXCEPT !.status = "accepted", !.item = i] OBVIOUS
    <3>2. candidate' = [candidate EXCEPT ![c] = r] BY <1>1, <2>2, <3>1 DEF AcceptMarks
    <3>3. /\ candidate[c] \in [status : {"none", "pending", "accepted", "rejected", "gone"},
                             fact : Facts \union {None}, item : Items \union {None}]
          /\ candidate[c].fact \in Facts
      BY <1>2, <2>2 DEF IInv, Rows
    <3>4. r = [status |-> "accepted", fact |-> candidate[c].fact, item |-> i] BY <3>1, <3>3
    <3>5. r \in [status : {"pending", "accepted", "rejected"}, fact : Facts,
                 item : Items \union {None}]
      BY <1>2, <3>3, <3>4
    <3>6. r.fact = candidate[c].fact /\ r.item = i BY <3>4
    <3>7. WasGiven(r.item, r.fact) BY <1>2, <2>2, <3>6
    <3>8. WasGiven(r.item, r.fact)' BY <1>3, <3>7 DEF WasGiven
    <3> QED BY <1>2, <1>4, <2>2, <3>2, <3>5, <3>6, <3>8, CandidateSet DEF IInv
  <2> QED BY <2>1, <2>2
<1>6. Threaded' /\ RowsStay' /\ Accepting' BY <1>3, <1>4, <1>5, ThreadIdles DEF IInv
<1>7. Vectors' BY <1>3 DEF IInv, Vectors
<1> QED BY <1>4, <1>5, <1>6, <1>7, StepOf

LEMMA RejectOrResetKeeps ==
  ASSUME MemoryAssumption, IInv, NEW p \in Threads,
         Reset(p) \/ \E c \in Candidates : Reject(p, c)
  PROVE  IInv'
<1>1. UNCHANGED <<fact, deleted, index, history, vector, doing>> BY DEF Reset, Reject
<1>2. LedgerStep BY <1>1, LedgersRest DEF IInv
<1>3. CandidateStep
  <2>1. CASE Reset(p) BY <2>1, CandidatesGo DEF Reset, IInv
  <2>2. ASSUME NEW c \in Candidates, Reject(p, c) PROVE CandidateStep
    <3>1. PICK r : r = [candidate[c] EXCEPT !.status = "rejected"] OBVIOUS
    <3>2. candidate' = [candidate EXCEPT ![c] = r] /\ candidate[c].status = "pending"
      BY <2>2, <3>1 DEF Reject
    <3>3. /\ candidate[c] \in [status : {"none", "pending", "accepted", "rejected", "gone"},
                             fact : Facts \union {None}, item : Items \union {None}]
          /\ candidate[c].fact \in Facts /\ candidate[c] # Gone
      BY <3>2 DEF IInv, Rows, Gone
    <3>4. r = [status |-> "rejected", fact |-> candidate[c].fact, item |-> candidate[c].item]
      BY <3>1, <3>3
    <3>5. /\ r \in [status : {"pending", "accepted", "rejected"}, fact : Facts,
                    item : Items \union {None}]
          /\ r.status # "accepted" /\ r.fact = candidate[c].fact
      BY <3>3, <3>4
    <3> QED BY <1>2, <3>2, <3>3, <3>5, CandidateSet DEF IInv
  <2> QED BY <2>1, <2>2
<1>4. Threaded' /\ RowsStay' /\ Accepting' BY <1>1, <1>2, <1>3, ThreadsRest DEF IInv
<1>5. Vectors' BY <1>1 DEF IInv, Vectors
<1> QED BY <1>2, <1>3, <1>4, <1>5, StepOf

LEMMA BackfillKeeps ==
  ASSUME IInv, NEW p \in Threads, Backfill(p)
  PROVE  IInv'
<1>1. CASE \E i \in Items : BackfillLists(p, i)
  <2>1. PICK i \in Items : BackfillLists(p, i) BY <1>1
  <2>2. PICK d : d = [at |-> "encode", item |-> i, fact |-> fact[i]] OBVIOUS
  <2>3. Then(p, d) /\ UNCHANGED memoryVars BY <2>1, <2>2 DEF BackfillLists, Goto, Then
  <2>4. fact[i] \in Facts BY <2>1 DEF BackfillLists, NeedsVector, Active, IInv, Ledgers
  <2>5. Remembers(d) /\ Offered(d) /\ d.at = "encode" BY <2>2, <2>4 DEF Remembers, Offered
  <2> QED BY <2>3, <2>5, ReadKeeps
<1>2. CASE UpsertReads(p)
  <2>1. PICK i, f : i = doing[p].item /\ f = doing[p].fact OBVIOUS
  <2>2. i \in Items /\ f \in Facts
    BY <1>2, <2>1 DEF UpsertReads, IInv, Threaded, Remembers
  <2>3. PICK d : d = IF Active(i)
                       THEN [at |-> "upsert", item |-> i, fact |-> f, hash |-> fact[i]] ELSE Idle
    OBVIOUS
  <2>4. Then(p, d) /\ UNCHANGED memoryVars BY <1>2, <2>1, <2>3 DEF UpsertReads
  <2>5. CASE Active(i)
    <3>1. d = [at |-> "upsert", item |-> i, fact |-> f, hash |-> fact[i]] BY <2>3, <2>5
    <3>2. fact[i] \in Facts BY <2>2, <2>5 DEF Active, IInv, Ledgers
    <3>3. Remembers(d) /\ Offered(d) /\ d.at = "upsert"
      BY <2>2, <3>1, <3>2 DEF Remembers, Offered
    <3> QED BY <2>4, <3>3, ReadKeeps
  <2>6. CASE ~Active(i)
    <3>1. d.at = "idle" BY <2>3, <2>6 DEF Idle
    <3>2. Remembers(d) /\ Offered(d) BY <3>1 DEF Remembers, Offered
    <3> QED BY <2>4, <3>1, <3>2, ReadKeeps
  <2> QED BY <2>5, <2>6
<1>3. CASE UpsertWrites(p)
  <2>1. /\ Then(p, Idle) /\ UNCHANGED <<fact, deleted, index, history, candidate>>
        /\ doing[p].fact \in Facts /\ doing[p].hash \in Facts \union {None}
        /\ vector' = [vector EXCEPT ![doing[p].item] =
                        [of |-> doing[p].fact, hash |-> doing[p].hash]]
    BY <1>3 DEF UpsertWrites, IInv, Threaded, Remembers
  <2>2. LedgerStep BY <2>1, LedgersRest DEF IInv
  <2>3. CandidateStep BY <2>1, <2>2, CandidatesRest DEF IInv
  <2>4. Threaded' /\ RowsStay' /\ Accepting' BY <2>1, <2>2, <2>3, ThreadIdles DEF IInv
  <2>5. Vectors' BY <2>1 DEF IInv, Vectors
  <2> QED BY <2>2, <2>3, <2>4, <2>5, StepOf
<1> QED BY <1>1, <1>2, <1>3 DEF Backfill

----------------------------------------------------------------------------
(* The invariant and what follows from it.                                 *)

LEMMA Begins ==
  ASSUME Init
  PROVE  IInv
<1>1. Ledgers
  <2>1. history \in [Items -> Seq(Entries)] BY DEF Init
  <2> QED BY <2>1 DEF Init, Ledgers, IndexMatches, Active
<1>2. Vectors BY DEF Init, Vectors
<1>3. Rows BY DEF Init, Rows, NoCandidate
<1>4. Accepted BY DEF Init, Accepted, NoCandidate
<1>5. Threaded /\ RowsStay /\ Accepting
  BY DEF Init, Idle, Threaded, Remembers, RowsStay, Accepting, Offered
<1> QED BY <1>1, <1>2, <1>3, <1>4, <1>5 DEF IInv

LEMMA Steps ==
  ASSUME MemoryAssumption, IInv, [Next]_vars
  PROVE  IInv'
<1>1. ASSUME NEW p \in Threads, ItemCalls(p) PROVE IInv'
  <2>1. CASE \E i \in Items, f \in Facts : SaveItem(p, i, f) BY <2>1, SaveItemKeeps
  <2>2. CASE \E i \in Items, f \in Facts : ItemRead(p, "replace", i, f) BY <2>2, ItemReadKeeps
  <2>3. CASE \E i \in Items : ItemRead(p, "delete", i, None)
    <3>1. PICK i \in Items, op \in {"delete"} : ItemRead(p, op, i, None) BY <2>3
    <3> QED BY <3>1, ItemReadKeeps
  <2>4. CASE \E i \in Items : AddSaves(p, i) BY <2>4, AddSavesKeeps
  <2>5. CASE \E f \in Facts : AddLooks(p, f) BY <2>5, AddLooksKeeps
  <2>6. CASE Replace(p) \/ Delete(p) BY <2>6, ReplaceOrDeleteKeeps
  <2> QED BY <1>1, <2>1, <2>2, <2>3, <2>4, <2>5, <2>6 DEF ItemCalls
<1>2. ASSUME NEW p \in Threads, ReviewCalls(p) PROVE IInv'
  <2>1. CASE \E f \in Facts, review \in BOOLEAN : ProposeLooks(p, f, review)
    BY <2>1, ProposeLooksKeeps
  <2>2. CASE \E c \in Candidates : ProposeInserts(p, c) BY <2>2, ProposeInsertsKeeps
  <2>3. CASE \E c \in Candidates : AcceptReads(p, c) BY <2>3, AcceptReadsKeeps
  <2>4. CASE \E i \in Items : AcceptSaves(p, i) BY <2>4, AcceptSavesKeeps
  <2>5. CASE AcceptMarks(p) BY <2>5, AcceptMarksKeeps
  <2>6. CASE Reset(p) \/ \E c \in Candidates : Reject(p, c) BY <2>6, RejectOrResetKeeps
  <2> QED BY <1>2, <2>1, <2>2, <2>3, <2>4, <2>5, <2>6 DEF ReviewCalls
<1>3. CASE Next BY <1>1, <1>2, <1>3, BackfillKeeps DEF Next
<1>4. CASE UNCHANGED vars
  <2>1. UNCHANGED <<fact, deleted, index, history, vector, candidate, doing>>
    BY <1>4 DEF vars, memoryVars
  <2>2. LedgerStep BY <2>1, LedgersRest DEF IInv
  <2>3. CandidateStep BY <2>1, <2>2, CandidatesRest DEF IInv
  <2>4. Threaded' /\ RowsStay' /\ Accepting' BY <2>1, <2>2, <2>3, ThreadsRest DEF IInv
  <2>5. Vectors' BY <2>1 DEF IInv, Vectors
  <2> QED BY <2>2, <2>3, <2>4, <2>5, StepOf
<1> QED BY <1>3, <1>4

LEMMA Types ==
  ASSUME IInv
  PROVE  TypeOK
BY DEF IInv, TypeOK, Ledgers, Entries, Vectors, Rows, Threaded, Remembers

\* The ledgers account for the items.
LEMMA LedgersAccount ==
  ASSUME IInv
  PROVE  IndexMatches /\ HistoryMatches /\ AcceptedWasRemembered
<1>1. IndexMatches BY DEF IInv, Ledgers
<1>2. HistoryMatches
  <2> SUFFICES ASSUME NEW i \in Items, fact[i] # None
               PROVE  LET last == Len(history[i])
                          deletions == {n \in 1 .. last : history[i][n].event = "DELETE"}
                      IN IF deleted[i] THEN deletions = {last}
                                       ELSE deletions = {} /\ history[i][last].new = fact[i]
    BY DEF HistoryMatches
  <2> DEFINE log == history[i]
  <2>1. Accounts(log, fact[i], deleted[i]) /\ log \in Seq(Entries) /\ deleted[i] \in BOOLEAN
    BY DEF IInv, Ledgers
  <2>2. Len(log) \in 1 .. Len(log) BY <2>1 DEF Accounts
  <2> HIDE DEF log
  <2>3. IF deleted[i] THEN {n \in 1 .. Len(log) : log[n].event = "DELETE"} = {Len(log)}
        ELSE {n \in 1 .. Len(log) : log[n].event = "DELETE"} = {} /\ log[Len(log)].new = fact[i]
    BY <2>1, <2>2 DEF Accounts
  <2> QED BY <2>3 DEF log
<1>3. AcceptedWasRemembered
  <2> SUFFICES ASSUME NEW c \in Candidates, candidate[c].status = "accepted"
               PROVE  \E n \in DOMAIN history[candidate[c].item] :
                        history[candidate[c].item][n].new = candidate[c].fact
    BY DEF AcceptedWasRemembered
  <2>1. PICK i : i = candidate[c].item OBVIOUS
  <2>2. i \in Items /\ WasGiven(i, candidate[c].fact) BY <2>1 DEF IInv, Accepted
  <2>3. DOMAIN history[i] = 1 .. Len(history[i]) BY <2>2 DEF IInv, Ledgers
  <2> QED BY <2>1, <2>2, <2>3 DEF WasGiven
<1> QED BY <1>1, <1>2, <1>3

\* The invariant, for any facts, items, candidates and threads.
THEOREM MemoryHolds == ASSUME MemoryAssumption PROVE Spec => []IInv
<1>1. Init => IInv BY Begins
<1>2. IInv /\ [Next]_vars => IInv' BY Steps
<1> QED BY <1>1, <1>2, PTL DEF Spec

\* Types of rows, candidates and threads.
THEOREM TypeCorrect == ASSUME MemoryAssumption PROVE Spec => []TypeOK
BY MemoryHolds, Types, PTL

\* Index, history and accepted candidates account for the items.
THEOREM LedgersKept ==
  ASSUME MemoryAssumption
  PROVE  Spec => [](IndexMatches /\ HistoryMatches /\ AcceptedWasRemembered)
BY MemoryHolds, LedgersAccount, PTL
=============================================================================
