------------------------------- MODULE MCGlobals -------------------------------
(***************************************************************************)
(* Main, one other thread, and three variables whose probes collide.       *)
(***************************************************************************)
EXTENDS Globals

LOCAL INSTANCE SequencesExt

CONSTANTS k1, k2, k3

HashOf == [k \in Keys |-> CASE k = k1 -> 3 [] k = k2 -> 3 [] OTHER -> 0]

Two == [type |-> "num", raw |-> 2]
MCValues == {Null, Two}

Def(k) == [op |-> "DEF", key |-> k, value |-> Two]
Gst(k) == [op |-> "GST", key |-> k, value |-> Two]

(* Two variables and room for one more; two variables and a tombstone,     *)
(* when the next tab_set, whatever it sets, makes it grow; and a variable  *)
(* and a tombstone for the next one to go to.                              *)
MCScripts == {<<Def(k1), Def(k2)>>, <<Def(k1), Def(k3), Gst(k2)>>, <<Def(k1), Gst(k2)>>}

(* What main makes of a first array with these instructions: a variable is *)
(* defined, or assigned to though it is undefined, which leaves a          *)
(* tombstone.                                                              *)
Before(script) ==
  LET entry(s) == IF s.op = "DEF" THEN [key |-> s.key, type |-> s.value.type, raw |-> s.value.raw]
                                  ELSE [key |-> NoKey, type |-> True.type, raw |-> True.raw]
      step(slots, s) == [slots EXCEPT ![Place(slots, s.key)] = entry(s)]
  IN FoldLeft(step, Fresh(MinCap), script)

(* No table yet, or one of these.                                          *)
MCTables == {<<>>} \cup {Before(script) : script \in MCScripts}
=============================================================================
