------------------------------ MODULE MCThreads ------------------------------
(* A few threads that may start each other; which is which does not matter *)
(* but for one whose routine takes a parameter.                            *)
EXTENDS Threads, TLC

CONSTANTS t1, t2, t3

Symmetric == Permutations(Threads \ Unfit)
=============================================================================
