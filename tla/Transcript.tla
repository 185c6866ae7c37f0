----------------------------- MODULE Transcript -----------------------------
(***************************************************************************)
(* The messages of a conversation as packages/amadeus/agent.py keeps them  *)
(* (the messages table of memory.py, and the history of a turn) and what   *)
(* it does to them before a provider sees them.                            *)
(*                                                                         *)
(* A message is its role, the turn that wrote it and the tool-call ids it  *)
(* carries: the calls an assistant message makes, the one call a tool      *)
(* message answers.  Texts are left out.                                   *)
(***************************************************************************)
EXTENDS SequencesExt, Naturals

User(t) == [role |-> "user", turn |-> t, ids |-> {}]
Assistant(t, ids) == [role |-> "assistant", turn |-> t, ids |-> ids]
ToolResult(t, id) == [role |-> "tool", turn |-> t, ids |-> {id}]
System(t) == [role |-> "system", turn |-> t, ids |-> {}]

CallsIn(m) == UNION {m[k].ids : k \in {j \in DOMAIN m : m[j].role = "assistant"}}
ResultsIn(m) == UNION {m[k].ids : k \in {j \in DOMAIN m : m[j].role = "tool"}}

\* What Sanitize makes of a message x of m: a result without its call is
\* dropped; behind a message whose calls have no result a stub for each.
Piece(m, x) ==
  LET stubs == SetToSeq(IF x.role = "assistant" THEN x.ids \ ResultsIn(m) ELSE {}) IN
    IF x.role = "tool" /\ ~(x.ids \subseteq CallsIn(m)) THEN <<>>
    ELSE <<x>> \o [i \in DOMAIN stubs |-> ToolResult(x.turn, stubs[i])]

\* Mutant of Sanitize: calls without a result are left as they are.
SanitizeNoStubs(m) ==
  SelectSeq(m, LAMBDA x : x.role = "tool" => x.ids \subseteq CallsIn(m))

\* _sanitize_tool_pairs, message by message.
Sanitize(m) ==
  LET sanitized[k \in 0..Len(m)] ==
        IF k = 0 THEN <<>> ELSE sanitized[k - 1] \o Piece(m, m[k])
  IN sanitized[Len(m)]

\* What of a conversation may be loaded: everything from one of its user
\* messages on or, if the summary covers the last of them, the last message.
Windows(m) ==
  {SubSeq(m, k, Len(m)) : k \in {j \in DOMAIN m : m[j].role = "user" \/ j = Len(m)}}
  \union {<<>>}

\* The current user message, already saved, is not repeated (no two turns have
\* the same text).
WithoutCurrent(m, t) ==
  IF m # <<>> /\ Last(m) = User(t) THEN Front(m) ELSE m

----------------------------------------------------------------------------
\* Every call has exactly one result, every result belongs to a call.
Paired(m) ==
  /\ ResultsIn(m) = CallsIn(m)
  /\ \A j, k \in DOMAIN m :
       m[j].role = "tool" /\ m[k].role = "tool" /\ m[j].ids = m[k].ids => j = k

\* The results follow the message that made the calls, nothing in between.
Adjacent(m) ==
  \A k \in DOMAIN m :
    m[k].role = "assistant" =>
      \A id \in m[k].ids :
        \E j \in k + 1 .. Len(m) :
          m[j].ids = {id} /\ \A i \in k + 1 .. j : m[i].role = "tool"
=============================================================================
