----------------------------- MODULE MCCollector -----------------------------
(* A heap of a few objects, small enough to pass nextGC after two.         *)
EXTENDS Collector, TLC

SizeDef == [str |-> 1, fun |-> 2, map |-> 1]
Symmetric == Permutations(Objects)
=============================================================================
