----------------------------- MODULE MCMemoryStore -----------------------------
(* Instances of MemoryStore small enough for TLC. *)
EXTENDS MemoryStore, TLC

CONSTANTS k1, age, t1, t2, t3

KeysOfTwoTables == {k1, age}
ThreeTasks == {t1, t2, t3}
TwoTasks == {t1, t2}
TheAge == {age}
TheRow == {k1}
TaskSymmetry == Permutations(Tasks)
================================================================================
