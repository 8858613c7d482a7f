------------------------------- MODULE MCSessions ------------------------------
(* Instances of Sessions small enough for TLC. *)
EXTENDS Sessions, TLC

EitherWay == Permutations(Tabs) \cup Permutations(People)
================================================================================
