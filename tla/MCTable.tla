------------------------------ MODULE MCTable ------------------------------
(***************************************************************************)
(* Small instances of Table.  The hashes make the probes collide, wrap     *)
(* around the end of the array, and separate again when the array doubles. *)
(***************************************************************************)
EXTENDS Table

CONSTANTS k1, k2, k3, k4

(* In 4 slots k1, k2 and k4 start at 3 and k3 at 0; in 8, k4 moves to 7.   *)
(* k1 and k2 also agree in length: tab_findstr takes one for the other.    *)
HashOf == [k \in Keys |-> CASE k = k1 -> 3 [] k = k2 -> 3 [] k = k3 -> 0 [] OTHER -> 7]
LengthOf == [k \in Keys |-> IF k \in {k1, k2} THEN 1 ELSE 2]

Inputs == {<<[key |-> k3, value |-> True], [key |-> k4, value |-> Null]>>}
=============================================================================
