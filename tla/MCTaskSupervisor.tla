-------------------------- MODULE MCTaskSupervisor --------------------------
(***************************************************************************)
(* Small instances of TaskSupervisor for TLC.                              *)
(***************************************************************************)
EXTENDS TaskSupervisor, TLC

CONSTANTS t1, t2, r1, r2, r3, s1, s2

OwnRoot == [t \in {t1, t2} |-> t]
SoloRoot == [t \in {t1} |-> t]
SupervisorSymmetry == Permutations(Runs) \union Permutations(Supervisors)
=============================================================================
