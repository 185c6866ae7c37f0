---------------------------- MODULE MCTaskWorker ----------------------------
(***************************************************************************)
(* Small instances of TaskWorker for TLC.  Runs that live in the same kind *)
(* of process are interchangeable, and so are the clients.                 *)
(***************************************************************************)
EXTENDS TaskWorker, TLC

CONSTANTS t1, t2, t3, t4, r1, r2, r3, c1, c2

RunSymmetry == Permutations({r1, r2, r3})
PairSymmetry == Permutations({r1, r2})
CallSymmetry == PairSymmetry \union Permutations({c1, c2})

\* One task of its own.
SoloRoot == [t \in {t1} |-> t1]

\* t1 is the root of a graph with the children t2, t3 and t4.
GraphRoot == [t \in {t1, t2, t3, t4} |-> t1]
AfterT2 == {<<t2, t4>>}
=============================================================================
