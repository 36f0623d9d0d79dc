-------------------------------- MODULE Dict --------------------------------
(***************************************************************************)
(* What the hash table of table.c promises its callers: a dictionary from  *)
(* interned strings to values.  Every call is one atomic step, and the     *)
(* variable ret says which call completed last, on which key, and what it  *)
(* returned, so an implementation must agree on return values too.         *)
(***************************************************************************)
EXTENDS Integers

CONSTANTS
  Keys,      \* the strings that may be keys (str_t objects, compared by pointer)
  Values,    \* the values that may be stored
  Null,      \* VAL_NULL, what an unsuccessful lookup leaves in its result
  Absent,    \* marks a key the dictionary does not hold
  SameText(_, _) \* whether two keys agree in all that tab_findstr compares

VARIABLES
  dict,      \* the contents: the value of each key, or Absent
  ret        \* the last completed call and its result

vars == <<dict, ret>>

Answer(op, key, ok, value) == [op |-> op, key |-> key, ok |-> ok, value |-> value]

Held == {k \in Keys : dict[k] # Absent}

Get(k) ==
  /\ ret' = IF k \in Held THEN Answer("get", k, TRUE, dict[k])
                          ELSE Answer("get", k, FALSE, Null)
  /\ UNCHANGED dict

Set(k, v) ==
  /\ dict' = [dict EXCEPT ![k] = v]
  /\ ret' = Answer("set", k, k \notin Held, Null)

Remove(k) ==
  /\ dict' = [dict EXCEPT ![k] = Absent]
  /\ ret' = Answer("remove", k, k \in Held, Null)

Clear ==
  /\ dict' = [k \in Keys |-> Absent]
  /\ ret' = Answer("free", Null, FALSE, Null)

(* Look for a held key with the text of k: any such key, or none at all.   *)
Findstr(k) ==
  LET twins == {x \in Held : SameText(x, k)} IN
  /\ \/ \E x \in twins : ret' = Answer("findstr", k, TRUE, x)
     \/ twins = {} /\ ret' = Answer("findstr", k, FALSE, Null)
  /\ UNCHANGED dict

Init ==
  /\ dict = [k \in Keys |-> Absent]
  /\ ret = Answer("none", Null, FALSE, Null)

Next ==
  \/ Clear
  \/ \E k \in Keys :
       \/ Get(k)
       \/ Remove(k)
       \/ Findstr(k)
       \/ \E v \in Values : Set(k, v)

Spec == Init /\ [][Next]_vars
=============================================================================
