------------------------------- MODULE Recall -------------------------------
(***************************************************************************)
(* What a turn is reminded of, and what a search of the long-term memory    *)
(* finds: memory_provider.py, and the searches of memory.py.  Pure           *)
(* functions of what the full-text index gives for the query.               *)
(*                                                                         *)
(* A match is a message [session, same]: same says that its text is the     *)
(* text of the query itself.  A sequence of matches is in the order of      *)
(* their rank (bm25); a message is known by its place in it.                *)
(***************************************************************************)
EXTENDS Integers, Sequences, FiniteSets

CONSTANTS
  Limit,       \* retrieval_limit
  Extra,       \* rows of the global search beyond those: 5
  Candidates,  \* candidate_limit of the search for items
  Found        \* limit of the search for items

RecallAssumption ==
  {Limit, Extra, Candidates, Found} \subseteq Nat \ {0} /\ Found <= Candidates

\* What is asked, with what the index has for it.
RecallAsked ==
  [matches : Seq([session : STRING, same : BOOLEAN]),
   items : Seq([vector : Int, text : Int, known : Int, live : BOOLEAN, updated : Int]),
   provider : {"builtin", "hybrid", "external", "fails"}, summary : Nat]

----------------------------------------------------------------------------
(* Messages.                                                               *)

\* The first n of S, "before" the pairs of an order.
First(S, n, before) == {i \in S : Cardinality({j \in S : <<j, i>> \in before}) < n}

Ranked(matches) == {p \in (DOMAIN matches) \X (DOMAIN matches) : p[1] < p[2]}
Repeats(matches) == {i \in DOMAIN matches : matches[i].same}
OfSession(matches, session) == {i \in DOMAIN matches : matches[i].session = session}

\* MessageMemoryStore.search, of one session or of all (whatever their role).
SearchSession(matches, session, n) == First(OfSession(matches, session), n, Ranked(matches))
SearchAll(matches, n) == First(DOMAIN matches, n, Ranked(matches))

\* LocalRuntimeMemoryProvider.prefetch: one row more than is wanted, as the
\* message that asks may be in the session already.
FromSession(matches, session) ==
  First(SearchSession(matches, session, Limit + 1) \ Repeats(matches), Limit, Ranked(matches))

\* _global_fallback_retrievals: what is not there yet.
FromAll(matches, known) ==
  First((SearchAll(matches, Limit + Extra) \ Repeats(matches)) \ known,
        Limit - Cardinality(known), Ranked(matches))

\* HybridRuntimeMemoryProvider.prefetch: those of the session, and then others.
Recalled(matches, session, fallback) ==
  LET own == FromSession(matches, session) IN
    [own |-> own, others |-> IF fallback THEN FromAll(matches, own) ELSE {}]

(***************************************************************************)
(* RuntimeMemoryManager.prefetch_for_turn: an external provider, if there   *)
(* is one, replaces the runtime's own; when it fails the turn goes on with  *)
(* nothing.  The messages up to "covered" are left out of the turn, as the   *)
(* summary stands for them (ContextAssembler.assemble).                     *)
(***************************************************************************)
Prefetched(matches, session, provider, summary) ==
  CASE provider \in {"builtin", "hybrid"} ->
         [recalled |-> Recalled(matches, session, provider = "hybrid"), summary |-> summary > 0,
          external |-> FALSE, covered |-> summary]
    [] provider \in {"external", "fails"} ->
         [recalled |-> [own |-> {}, others |-> {}], summary |-> FALSE,
          external |-> provider = "external", covered |-> 0]

----------------------------------------------------------------------------
(* Items of the long-term memory: [vector, text, known, live, updated],     *)
(* vector the similarity of the embedding of what it says, -1 without one,   *)
(* text the match of its words, known what confidence, use and age add.     *)

\* The younger first.  Of two items as good the searches prefer what is more
\* certain, and then this; the first is part of what "known" says.
Newer(items, i, j) ==
  items[i].updated > items[j].updated \/ (items[i].updated = items[j].updated /\ i > j)

\* The newest of those with a vector of what they say now.
VectorLane(items) ==
  First({i \in DOMAIN items : items[i].live /\ items[i].vector # -1}, Candidates,
        {p \in (DOMAIN items) \X (DOMAIN items) : Newer(items, p[1], p[2])})

\* search_memory_items_bm25.
TextBefore(items, i, j) ==
  items[i].text > items[j].text \/ (items[i].text = items[j].text /\ Newer(items, i, j))

TextLane(items) ==
  First({i \in DOMAIN items : items[i].live /\ items[i].text > 0}, Candidates,
        {p \in (DOMAIN items) \X (DOMAIN items) : TextBefore(items, p[1], p[2])})

\* In hundredths; a vector of something else counts for nothing.
Score(item) ==
  55 * (IF item.vector = -1 THEN 0 ELSE item.vector) + 25 * item.text + 20 * item.known

Better(items, i, j) ==
  \/ Score(items[i]) > Score(items[j])
  \/ Score(items[i]) = Score(items[j]) /\ Newer(items, i, j)

\* search_memory_items_hybrid.
ItemsFound(items) ==
  First(VectorLane(items) \union TextLane(items), Found,
        {p \in (DOMAIN items) \X (DOMAIN items) : Better(items, p[1], p[2])})

----------------------------------------------------------------------------
(* Properties.                                                             *)

(***************************************************************************)
(* A turn is reminded of no message twice, and never of what the user is    *)
(* just saying; its own session goes first.  Repeating a question does not  *)
(* hide an answer: unless more than Extra messages say the same, what        *)
(* matches is recalled as far as there is room, and unless more than one of  *)
(* the session does, before what other sessions have.                       *)
(***************************************************************************)
RecallComplete(matches, session) ==
  LET got == Recalled(matches, session, TRUE)
      all == got.own \union got.others
      rest == (DOMAIN matches \ Repeats(matches)) \ all
      own == OfSession(matches, session)
  IN /\ Cardinality(got.own) + Cardinality(got.others) <= Limit
     /\ got.own \intersect got.others = {}
     /\ got.own \subseteq own /\ all \intersect Repeats(matches) = {}
     /\ (rest # {} /\ Cardinality(all) < Limit) => Cardinality(Repeats(matches)) > Extra
     /\ (rest \intersect own # {} /\ ~(all \subseteq own))
          => Cardinality(Repeats(matches) \intersect own) > 1

\* A message is left out of a turn only if the turn has the summary of it.
NothingUncovered(matches, session, provider, summary) ==
  LET p == Prefetched(matches, session, provider, summary) IN p.covered > 0 => p.summary

(***************************************************************************)
(* Of items with a fresh vector, or that match, a better one is passed over  *)
(* for a worse one only where its lane is full: Candidates newer ones have   *)
(* vectors, and Candidates match better.  Deleted ones are never found.      *)
(***************************************************************************)
BestFound(items) ==
  LET got == ItemsFound(items) IN
    /\ \A i \in got : items[i].live
    /\ \A i \in DOMAIN items \ got, j \in got :
         (items[i].live /\ Score(items[i]) > Score(items[j])
            /\ (items[i].vector # -1 \/ items[i].text > 0))
           => /\ items[i].vector # -1 =>
                   Cardinality({k \in DOMAIN items : items[k].vector # -1 /\ Newer(items, k, i)})
                     >= Candidates
              /\ items[i].text > 0 =>
                   Cardinality({k \in DOMAIN items : items[k].text >= items[i].text}) > Candidates
=============================================================================
