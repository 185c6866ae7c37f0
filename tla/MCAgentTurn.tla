---------------------------- MODULE MCAgentTurn -----------------------------
(***************************************************************************)
(* Small instances of AgentTurn for TLC.                                   *)
(***************************************************************************)
EXTENDS AgentTurn, TLC

CONSTANTS u1, u2, main

\* Both turns belong to one session.
OneSession == [t \in Turns |-> main]

\* u1 may use tools, the role of u2 has none.
OneWithTools == [t \in Turns |-> IF t = u1 THEN {"refused", "ask", "skill"} ELSE {}]
=============================================================================
