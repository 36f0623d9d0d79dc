----------------------------- MODULE GlobalsProofs -----------------------------
(***************************************************************************)
(* For any number of threads, variables and instructions: the types of the *)
(* shared table, and that freed memory is used only where a thread makes   *)
(* the table grow while another is on an instruction.                      *)
(***************************************************************************)
EXTENDS Globals, FiniteSetTheorems, SequenceTheorems, WellFoundedInduction, TLAPS

-----------------------------------------------------------------------------
(* Types.                                                                  *)

Growth == {"copy", "install", "resize"}
OnSlot == {"key", "value", "found", "fetch", "store"}
Places == {"idle", "count", "load", "compare", "find", "done"} \cup Growth \cup OnSlot
Fields == {"key", "type", "raw"}

Arrays == UNION {[0..n-1 -> Slot] : n \in Nat}
Answer == [type : Types \cup {"undefined"}, raw : Nat]
Index == Nat \cup {None}

Frame ==
  [op : {"DEF", "GLD", "GST"}, key : Keys, value : Value, call : {"get", "set", "remove"},
   array : Index, size : Index, index : Index, grave : Index, load : Index,
   fresh : Arrays \cup {None}, isNew : BOOLEAN, todo : SUBSET Fields, answer : Answer]

(* What a thread's place says of its instruction.                          *)
Control(p, my) ==
  /\ p \in {"load", "compare"} \cup Growth => my.op # "GLD"
  /\ p = "compare" => my.load \in Nat
  /\ p \in Growth => my.fresh \in Arrays /\ 0 \in DOMAIN my.fresh
  /\ p = "copy" => my.index \in Nat
  /\ p \in {"count", "load", "compare"} => my.array = None /\ my.size = None
  /\ p \in {"count", "load", "compare", "find"} => my.grave = None
  /\ p \in {"key", "value"} /\ my.index \in Nat => my.size \in Nat /\ my.size > 0

TypeInv ==
  /\ count \in Nat /\ capacity \in Nat
  /\ arrays \in Seq(Arrays) /\ entries = Len(arrays)
  /\ known \subseteq Keys /\ undefined \in BOOLEAN
  /\ pc \in [Threads -> Places] /\ local \in [Threads -> [op : {"none"}] \cup Frame]
  /\ \A t \in Threads : pc[t] # "idle" => local[t] \in Frame /\ Control(pc[t], local[t])

(* A step of thread t leaves it at p with my.                              *)
Moves(t, p, my) ==
  pc' = [pc EXCEPT ![t] = p] /\ local' = [local EXCEPT ![t] = my]

LEMMA MovesTypes ==
  ASSUME TypeInv, NEW t \in Threads, NEW p \in Places, NEW my, Moves(t, p, my),
         my \in Frame, Control(p, my)
  PROVE  /\ pc' \in [Threads -> Places] /\ local' \in [Threads -> [op : {"none"}] \cup Frame]
         /\ \A s \in Threads : pc'[s] # "idle" => local'[s] \in Frame /\ Control(pc'[s], local'[s])
<1>1. /\ pc' \in [Threads -> Places] /\ local' \in [Threads -> [op : {"none"}] \cup Frame]
      /\ pc'[t] = p /\ local'[t] = my
      /\ \A s \in Threads : s # t => pc'[s] = pc[s] /\ local'[s] = local[s]
  BY DEF TypeInv, Moves
<1>2. ASSUME NEW s \in Threads, pc'[s] # "idle"
      PROVE  local'[s] \in Frame /\ Control(pc'[s], local'[s])
  <2>1. CASE s = t
    BY <1>1, <2>1
  <2>2. CASE s # t
    BY <1>1, <1>2, <2>2 DEF TypeInv
  <2> QED  BY <2>1, <2>2
<1> QED  BY <1>1, <1>2

LEMMA FreshArray ==
  ASSUME NEW n \in Nat
  PROVE  Fresh(n) \in [0..n-1 -> Slot] /\ Fresh(n) \in Arrays
<1>1. EmptyEntry \in Slot
  <2>1. Null.type = "null" /\ Null.raw = 0
    BY DEF Null
  <2>2. "null" \in Types /\ 0 \in Nat
    BY DEF Types
  <2> QED  BY <2>1, <2>2 DEF EmptyEntry, Slot
<1>2. Fresh(n) \in [0..n-1 -> Slot]
  BY <1>1 DEF Fresh
<1> QED  BY <1>2 DEF Arrays

LEMMA NoArray == <<>> \in Arrays /\ DOMAIN <<>> = {}
<1>1. <<>> \in [0..0-1 -> Slot]
  OBVIOUS
<1> QED  BY <1>1 DEF Arrays

LEMMA ArrayDomain ==
  ASSUME NEW f \in Arrays
  PROVE  \E n \in Nat : f \in [0..n-1 -> Slot] /\ DOMAIN f = 0..n-1 /\ Cardinality(DOMAIN f) = n
<1>1. PICK n \in Nat : f \in [0..n-1 -> Slot]
  BY DEF Arrays
<1>2. Cardinality(0..n-1) = n
  BY FS_Interval
<1> QED  BY <1>1, <1>2

LEMMA GrowCapType == capacity \in Nat => GrowCap \in Nat /\ GrowCap > 0
BY GlobalsAssumption DEF GrowCap

(* An entry of the array at address a, and one word of it overwritten.     *)
LEMMA EntriesIn == ASSUME TypeInv, entries # 0 PROVE entries \in DOMAIN arrays
<1>1. arrays \in Seq(Arrays) /\ entries = Len(arrays)
  BY DEF TypeInv
<1>2. DOMAIN arrays = 1..Len(arrays) /\ Len(arrays) \in Nat
  BY <1>1
<1> QED  BY <1>1, <1>2

LEMMA EntryType ==
  ASSUME NEW mem \in Seq(Arrays), NEW a \in DOMAIN mem, NEW i \in DOMAIN mem[a]
  PROVE  mem[a][i] \in Slot
<1>1. DOMAIN mem = 1..Len(mem)
  OBVIOUS
<1>2. mem[a] \in Arrays
  BY <1>1
<1> QED  BY <1>2 DEF Arrays

LEMMA PutType ==
  ASSUME NEW f \in Arrays, NEW i, NEW e \in Slot
  PROVE  [f EXCEPT ![i] = e] \in Arrays /\ DOMAIN [f EXCEPT ![i] = e] = DOMAIN f
<1>1. PICK n \in Nat : f \in [0..n-1 -> Slot]
  BY DEF Arrays
<1>2. [f EXCEPT ![i] = e] \in [0..n-1 -> Slot]
  BY <1>1
<1> QED  BY <1>1, <1>2 DEF Arrays

IsPut(mem2, mem, a, f) == mem2 = [mem EXCEPT ![a] = f]

LEMMA PutArray ==
  ASSUME NEW mem \in Seq(Arrays), NEW a \in 1..Len(mem), NEW f \in Arrays, NEW mem2,
         IsPut(mem2, mem, a, f)
  PROVE  /\ mem2 \in Seq(Arrays) /\ Len(mem2) = Len(mem)
         /\ \A b \in 1..Len(mem) : mem2[b] = IF b = a THEN f ELSE mem[b]
<1>1. mem \in [1..Len(mem) -> Arrays] /\ Len(mem) \in Nat
  OBVIOUS
<1>2. mem2 \in [1..Len(mem) -> Arrays]
  BY <1>1 DEF IsPut
<1>3. mem2 \in Seq(Arrays) /\ Len(mem2) = Len(mem)
  BY <1>1, <1>2
<1>4. \A b \in 1..Len(mem) : mem2[b] = IF b = a THEN f ELSE mem[b]
  BY <1>1 DEF IsPut
<1> QED  BY <1>3, <1>4

LEMMA WordType ==
  ASSUME NEW e \in Slot, NEW word \in Fields, NEW s \in Slot
  PROVE  [e EXCEPT ![word] = s[word]] \in Slot
BY DEF Slot, Fields

IsStored(mem2, mem, a, i, word, s) == mem2 = [mem EXCEPT ![a][i][word] = s[word]]

LEMMA StoreType ==
  ASSUME NEW mem \in Seq(Arrays), NEW a \in DOMAIN mem, NEW i \in DOMAIN mem[a],
         NEW word \in Fields, NEW s \in Slot, NEW mem2,
         IsStored(mem2, mem, a, i, word, s)
  PROVE  /\ mem2 \in Seq(Arrays) /\ Len(mem2) = Len(mem)
         /\ \A b \in DOMAIN mem : DOMAIN mem2[b] = DOMAIN mem[b]
<1> DEFINE e == [mem[a][i] EXCEPT ![word] = s[word]]
           f == [mem[a] EXCEPT ![i] = e]
<1>1. DOMAIN mem = 1..Len(mem) /\ Len(mem) \in Nat
  OBVIOUS
<1>2. mem[a] \in Arrays /\ mem[a][i] \in Slot
  BY <1>1, EntryType
<1>3. e \in Slot
  BY <1>2, WordType
<1>4. IsPut(mem2, mem, a, f)
  BY DEF IsPut, IsStored
<1> HIDE DEF e
<1>5. f \in Arrays /\ DOMAIN f = DOMAIN mem[a]
  BY <1>2, <1>3, PutType
<1> HIDE DEF f
<1>6. a \in 1..Len(mem)
  BY <1>1
<1>7. mem2 \in Seq(Arrays) /\ Len(mem2) = Len(mem)
      /\ \A b \in 1..Len(mem) : mem2[b] = IF b = a THEN f ELSE mem[b]
  BY <1>4, <1>5, <1>6, PutArray
<1> QED  BY <1>1, <1>5, <1>7

-----------------------------------------------------------------------------
(* What a step does to the types.                                          *)

LEMMA Running ==
  ASSUME TypeInv, NEW t \in Threads, pc[t] # "idle"
  PROVE  pc[t] \in Places /\ local[t] \in Frame /\ Control(pc[t], local[t])
BY DEF TypeInv

LEMMA BeginTypes ==
  ASSUME TypeInv, NEW t \in Threads, NEW op \in {"DEF", "GLD", "GST"}, NEW k \in Keys,
         NEW v \in Value, Begin(t, op, k, v)
  PROVE  TypeInv'
<1> DEFINE my == [op |-> op, key |-> k, value |-> v, call |-> IF op = "GLD" THEN "get" ELSE "set",
                  array |-> None, size |-> None, index |-> None, grave |-> None,
                  load |-> None, fresh |-> None, isNew |-> FALSE,
                  todo |-> {}, answer |-> NotDefined]
           p == IF op = "GLD" THEN "count" ELSE "load"
<1>1. Moves(t, p, my)
  BY DEF Begin, Goto, Moves
<1>2. my \in Frame
  <2>1. NotDefined \in Answer
    BY DEF NotDefined, Answer
  <2> QED  BY <2>1 DEF Frame, Index
<1>3. Control(p, my) /\ p \in Places
  BY DEF Control, Places, Growth, OnSlot
<1> HIDE DEF my, p
<1>4. UNCHANGED <<count, capacity, entries, arrays, known, undefined>>
  BY DEF Begin, shared
<1> QED  BY <1>1, <1>2, <1>3, <1>4, MovesTypes DEF TypeInv

LEMMA CountTypes == ASSUME TypeInv, NEW t \in Threads, TestCount(t) \/ LoadCount(t) PROVE TypeInv'
<1> DEFINE my == local[t]
<1>1. /\ my \in Frame /\ Control(pc[t], my)
      /\ my.array = None /\ my.size = None /\ my.grave = None
  <2>1. my \in Frame /\ Control(pc[t], my) /\ pc[t] \in {"count", "load"}
    BY Running DEF TestCount, LoadCount, At
  <2> QED  BY <2>1 DEF Control
<1>2. CASE TestCount(t) /\ count = 0
  <2> DEFINE my2 == [WithoutSlot(my) EXCEPT !.todo = {}, !.answer = NotDefined]
  <2>1. NotDefined \in Answer
    BY DEF NotDefined, Answer
  <2>2. my2 \in Frame
    BY <1>1, <2>1 DEF Frame, Index, WithoutSlot
  <2>3. Moves(t, "done", my2)
    BY <1>2 DEF TestCount, Finished, Goto, Moves
  <2>4. Control("done", my2) /\ "done" \in Places
    BY DEF Control, Places, Growth
  <2> HIDE DEF my2
  <2> QED  BY <1>2, <2>2, <2>3, <2>4, MovesTypes DEF TypeInv, TestCount, shared
<1>3. CASE TestCount(t) /\ count # 0
  <2>1. Moves(t, "find", my)
    BY <1>3 DEF TestCount, Goto, Moves, TypeInv
  <2>2. Control("find", my) /\ "find" \in Places
    BY <1>1 DEF Control, Places, Growth
  <2> QED  BY <1>1, <1>3, <2>1, <2>2, MovesTypes DEF TypeInv, TestCount, shared
<1>4. CASE LoadCount(t)
  <2> DEFINE my2 == [my EXCEPT !.load = count]
  <2>1. /\ my2 \in Frame /\ my2.load \in Nat /\ my2.op = my.op
        /\ my2.array = my.array /\ my2.size = my.size /\ my2.grave = my.grave
    BY <1>1 DEF Frame, Index, TypeInv
  <2>2. Moves(t, "compare", my2)
    BY <1>4 DEF LoadCount, Let, Goto, Moves
  <2>3. Control("compare", my2) /\ "compare" \in Places
    BY <1>1, <1>4, <2>1 DEF Control, Places, Growth, LoadCount, At
  <2> HIDE DEF my2
  <2> QED  BY <1>4, <2>1, <2>2, <2>3, MovesTypes DEF TypeInv, LoadCount, shared
<1> QED  BY <1>2, <1>3, <1>4

LEMMA CompareTypes == ASSUME TypeInv, NEW t \in Threads, Compare(t) PROVE TypeInv'
<1> DEFINE my == local[t]
<1>1. my \in Frame /\ Control(pc[t], my) /\ pc[t] = "compare"
  BY Running DEF Compare, At
<1>2. my.op # "GLD" /\ my.grave = None
  BY <1>1 DEF Control
<1>3. CASE MustGrow(my.load)
  <2> DEFINE new == Fresh(GrowCap)  my2 == [my EXCEPT !.fresh = new, !.index = 0, !.load = None]
  <2>1. new \in Arrays /\ 0 \in DOMAIN new
    <3>1. GrowCap \in Nat /\ GrowCap > 0
      BY GrowCapType DEF TypeInv
    <3>2. new \in [0..GrowCap-1 -> Slot] /\ new \in Arrays
      BY <3>1, FreshArray
    <3> HIDE DEF new
    <3> QED  BY <3>1, <3>2
  <2>2. Moves(t, "copy", my2) /\ count' = 0
    BY <1>3 DEF Compare, My, Goto, Moves
  <2> HIDE DEF new
  <2>3. my2 \in Frame /\ my2.fresh = new /\ my2.index = 0 /\ my2.op = my.op
    BY <1>1, <2>1 DEF Frame, Index
  <2>4. Control("copy", my2) /\ "copy" \in Places
    BY <1>2, <2>1, <2>3 DEF Control, Places, Growth
  <2> HIDE DEF my2
  <2> QED  BY <2>2, <2>3, <2>4, MovesTypes DEF TypeInv, Compare
<1>4. CASE ~MustGrow(my.load)
  <2> DEFINE my2 == [my EXCEPT !.load = None]
  <2>1. my2 \in Frame /\ my2.grave = my.grave
    BY <1>1 DEF Frame, Index
  <2>2. Moves(t, "find", my2) /\ UNCHANGED count
    BY <1>4 DEF Compare, My, Let, Goto, Moves
  <2>3. Control("find", my2) /\ "find" \in Places
    BY <1>2, <2>1 DEF Control, Places, Growth
  <2> HIDE DEF my2
  <2> QED  BY <2>1, <2>2, <2>3, MovesTypes DEF TypeInv, Compare
<1> QED  BY <1>3, <1>4

LEMMA CopyTypes == ASSUME TypeInv, NEW t \in Threads, CopyEntry(t) PROVE TypeInv'
<1> DEFINE my == local[t]  i == my.index  e == arrays[entries][i]
<1>1. my \in Frame /\ Control(pc[t], my) /\ pc[t] = "copy"
  BY Running DEF CopyEntry, At
<1>2. my.op # "GLD" /\ i \in Nat /\ my.fresh \in Arrays /\ 0 \in DOMAIN my.fresh
  BY <1>1 DEF Control, Growth
<1>3. "copy" \in Places
  BY DEF Places, Growth
<1>4. e \in Slot
  BY EntryType DEF CopyEntry, My, Valid, TypeInv
<1>5. CASE e.key = NoKey
  <2> DEFINE my2 == [my EXCEPT !.index = i + 1]
  <2>1. my2 \in Frame /\ my2.fresh = my.fresh /\ my2.index = i + 1 /\ my2.op = my.op
    BY <1>1, <1>2 DEF Frame, Index
  <2>2. Moves(t, "copy", my2) /\ UNCHANGED count
    BY <1>1, <1>5 DEF CopyEntry, My, Let, Moves, TypeInv
  <2>3. Control("copy", my2)
    BY <1>2, <2>1 DEF Control, Growth
  <2> HIDE DEF my2
  <2> QED  BY <1>3, <2>1, <2>2, <2>3, MovesTypes DEF TypeInv, CopyEntry
<1>6. CASE e.key # NoKey
  <2> DEFINE place == Place(my.fresh, e.key)  new == [my.fresh EXCEPT ![place] = e]
             my2 == [my EXCEPT !.fresh = new, !.index = i + 1]
  <2>1. Moves(t, "copy", my2) /\ count' = count + 1
    BY <1>1, <1>6 DEF CopyEntry, My, Moves, TypeInv
  <2> HIDE DEF place
  <2>2. new \in Arrays /\ DOMAIN new = DOMAIN my.fresh
    BY <1>2, <1>4, PutType
  <2> HIDE DEF new
  <2>3. my2 \in Frame /\ my2.fresh = new /\ my2.index = i + 1 /\ my2.op = my.op
    <3>1. i + 1 \in Index
      BY <1>2 DEF Index
    <3> QED  BY <1>1, <2>2, <3>1 DEF Frame
  <2>4. Control("copy", my2)
    BY <1>2, <2>2, <2>3 DEF Control, Growth
  <2> HIDE DEF my2
  <2> QED  BY <1>3, <2>1, <2>3, <2>4, MovesTypes DEF TypeInv, CopyEntry
<1> QED  BY <1>5, <1>6

LEMMA FreeTypes == ASSUME TypeInv, NEW t \in Threads, Free(t) PROVE TypeInv'
<1> DEFINE my == local[t]
<1>1. my \in Frame /\ Control(pc[t], my) /\ pc[t] = "copy"
  BY Running DEF Free, At
<1>2. Control("install", my) /\ "install" \in Places
  BY <1>1 DEF Control, Places, Growth
<1>3. Moves(t, "install", my)
  BY DEF Free, Goto, Moves, TypeInv
<1>4. arrays' \in Seq(Arrays) /\ Len(arrays') = Len(arrays)
  <2>1. CASE entries = 0
    BY <2>1 DEF Free, TypeInv
  <2>2. CASE entries # 0
    <3> DEFINE none == <<>>
    <3>1. entries \in 1..Len(arrays) /\ arrays \in Seq(Arrays) /\ none \in Arrays
      BY <2>2, NoArray DEF TypeInv
    <3>2. IsPut(arrays', arrays, entries, none)
      BY <2>2 DEF Free, IsPut
    <3> HIDE DEF none
    <3> QED  BY <3>1, <3>2, PutArray
  <2> QED  BY <2>1, <2>2
<1> QED  BY <1>1, <1>2, <1>3, <1>4, MovesTypes DEF TypeInv, Free

LEMMA InstallTypes ==
  ASSUME TypeInv, NEW t \in Threads, InstallEntries(t) \/ InstallCapacity(t)
  PROVE  TypeInv'
<1> DEFINE my == local[t]
<1>1. my \in Frame /\ Control(pc[t], my) /\ pc[t] \in Growth
  BY Running DEF InstallEntries, InstallCapacity, At, Growth
<1>2. my.fresh \in Arrays /\ 0 \in DOMAIN my.fresh /\ my.op # "GLD"
  BY <1>1 DEF Control
<1>3. CASE InstallEntries(t)
  <2>1. Control("resize", my) /\ "resize" \in Places
    BY <1>1, <1>2 DEF Control, Places, Growth
  <2>2. Moves(t, "resize", my)
    BY <1>3 DEF InstallEntries, Goto, Moves, TypeInv
  <2>3. arrays' = Append(arrays, my.fresh) /\ entries' = Len(arrays')
    BY <1>3 DEF InstallEntries, My
  <2> HIDE DEF my
  <2>4. arrays' \in Seq(Arrays)
    BY <1>2, <2>3 DEF TypeInv
  <2> QED  BY <1>1, <1>3, <2>1, <2>2, <2>3, <2>4, MovesTypes DEF TypeInv, InstallEntries
<1>4. CASE InstallCapacity(t)
  <2> DEFINE my2 == [WithoutSlot(my) EXCEPT !.fresh = None]
  <2>1. Moves(t, "find", my2)
    BY <1>4 DEF InstallCapacity, Goto, Moves
  <2>2. my2 \in Frame /\ my2.grave = None
    BY <1>1 DEF Frame, Index, WithoutSlot
  <2>3. Control("find", my2) /\ "find" \in Places
    BY <2>2 DEF Control, Places, Growth
  <2>4. capacity' = Cardinality(DOMAIN my.fresh)
    BY <1>4 DEF InstallCapacity, My
  <2> HIDE DEF my, my2
  <2>5. capacity' \in Nat
    BY <1>2, <2>4, ArrayDomain
  <2> QED  BY <1>4, <2>1, <2>2, <2>3, <2>5, MovesTypes DEF TypeInv, InstallCapacity
<1> QED  BY <1>3, <1>4

(* The place in an array of this size where a name is looked for first,    *)
(* and the one after another.                                              *)
LEMMA Remainder ==
  ASSUME NEW n \in Nat, NEW m \in Nat, m > 0
  PROVE  (n % m) \in 0..m-1
OBVIOUS

LEMMA ArgumentsTypes ==
  ASSUME TypeInv, NEW t \in Threads, ReadEntries(t) \/ ReadCapacity(t)
  PROVE  TypeInv'
<1> DEFINE my == local[t]
<1>1. my \in Frame /\ pc[t] = "find" /\ my.grave = None
  BY Running DEF ReadEntries, ReadCapacity, At, Control
<1>2. ASSUME NEW array \in Index, NEW size \in Index, Arguments(t, array, size)
      PROVE  TypeInv'
  <2> DEFINE index == IF array = None \/ size \in {None, 0} THEN None ELSE Hash[my.key] % size
             my2 == [my EXCEPT !.array = array, !.size = size, !.index = index]
             p == IF array # None /\ size # None THEN "key" ELSE "find"
  <2>1. index \in Index
    <3>1. CASE array = None \/ size \in {None, 0}
      BY <3>1 DEF Index
    <3>2. CASE ~(array = None \/ size \in {None, 0})
      <4>1. size \in Nat /\ size > 0
        BY <3>2 DEF Index
      <4>2. Hash[my.key] \in Nat
        BY <1>1, GlobalsAssumption DEF Frame
      <4>3. (Hash[my.key] % size) \in 0..size-1
        BY <4>1, <4>2, Remainder
      <4> QED  BY <3>2, <4>1, <4>3 DEF Index
    <3> QED  BY <3>1, <3>2
  <2>2. local' = [local EXCEPT ![t] = my2]
    BY <1>2 DEF Arguments, My
  <2>3. pc' = [pc EXCEPT ![t] = p]
    BY <1>1, <1>2 DEF Arguments, Goto, TypeInv
  <2> HIDE DEF index
  <2>4. my2 \in Frame
    BY <1>1, <2>1 DEF Frame
  <2>5. Control(p, my2) /\ p \in Places
    <3>1. my2.size = size /\ my2.index = index /\ my2.grave = my.grave
      BY <1>1 DEF Frame
    <3>2. index \in Nat => size \in Nat /\ size > 0
      BY DEF index, Index, None
    <3> HIDE DEF my2
    <3> QED  BY <1>1, <3>1, <3>2 DEF Control, Places, Growth, OnSlot
  <2> HIDE DEF my2, p
  <2>6. Moves(t, p, my2)
    BY <2>2, <2>3 DEF Moves
  <2> QED  BY <1>2, <2>4, <2>5, <2>6, MovesTypes DEF TypeInv, Arguments, shared
<1>3. my.array \in Index /\ my.size \in Index /\ entries \in Index /\ capacity \in Index
  BY <1>1 DEF Frame, TypeInv, Index
<1> QED  BY <1>2, <1>3 DEF ReadEntries, ReadCapacity, My
(* findEntry goes on to the next entry, or stops at this one or at the     *)
(* first tombstone it has passed.                                          *)
Onward(t) == [local[t] EXCEPT !.index = NextIndex(t)]
AtSlot(t) ==
  [local[t] EXCEPT !.index = IF local[t].grave = None THEN local[t].index ELSE local[t].grave]
PastGrave(t) ==
  [local[t] EXCEPT !.grave = IF local[t].grave = None THEN local[t].index ELSE local[t].grave,
                   !.index = NextIndex(t)]

LEMMA ProbeMoves ==
  ASSUME TypeInv, NEW t \in Threads, ProbeKey(t) \/ ProbeValue(t)
  PROVE  /\ pc[t] \in {"key", "value"} /\ local[t] \in Frame
         /\ local[t].index \in Nat /\ local[t].size \in Nat /\ local[t].size > 0
         /\ UNCHANGED <<count, capacity, entries, arrays, known, undefined>>
         /\ \/ Moves(t, "found", local[t]) \/ Moves(t, "value", local[t])
            \/ Moves(t, "key", Onward(t)) \/ Moves(t, "found", AtSlot(t))
            \/ Moves(t, "key", PastGrave(t))
<1> DEFINE my == local[t]
<1>1. my \in Frame /\ pc[t] \in {"key", "value"} /\ Control(pc[t], my)
  BY Running DEF ProbeKey, ProbeValue, At
<1>2. UNCHANGED <<count, capacity, entries, arrays, known, undefined>>
  BY DEF ProbeKey, ProbeValue, shared
<1>3. my.index \in Nat /\ my.size \in Nat /\ my.size > 0
  <2>1. my.array \in 1..Len(arrays) /\ my.index \in DOMAIN arrays[my.array]
    BY DEF ProbeKey, ProbeValue, InArray, Valid, My, TypeInv
  <2>2. arrays[my.array] \in Arrays
    BY <2>1 DEF TypeInv
  <2>3. my.index \in Nat
    BY <2>1, <2>2, ArrayDomain
  <2> QED  BY <1>1, <2>3 DEF Control
<1>4. UNCHANGED pc => pc' = [pc EXCEPT ![t] = pc[t]]
  BY DEF TypeInv
<1>5. UNCHANGED local => local' = [local EXCEPT ![t] = local[t]]
  BY DEF TypeInv
<1>6. CASE ProbeKey(t)
  <2>1. \/ Goto(t, "found") /\ UNCHANGED local
        \/ Goto(t, "value") /\ UNCHANGED local
        \/ Let(t, "index", NextIndex(t)) /\ UNCHANGED pc /\ pc[t] = "key"
    BY <1>6 DEF ProbeKey, At
  <2>2. CASE UNCHANGED local /\ (Goto(t, "found") \/ Goto(t, "value"))
    BY <1>1, <1>2, <1>3, <1>5, <2>2 DEF Goto, Moves
  <2>3. CASE Let(t, "index", NextIndex(t)) /\ UNCHANGED pc /\ pc[t] = "key"
    <3>1. Moves(t, "key", Onward(t))
      BY <1>4, <2>3 DEF Let, Moves, Onward
    <3> QED  BY <1>1, <1>2, <1>3, <3>1
  <2> QED  BY <2>1, <2>2, <2>3
<1>7. CASE ProbeValue(t)
  <2>1. Moves(t, "found", AtSlot(t)) \/ Moves(t, "key", PastGrave(t))
    BY <1>7 DEF ProbeValue, Goto, Let, Moves, My, AtSlot, PastGrave
  <2> QED  BY <1>1, <1>2, <1>3, <2>1
<1> QED  BY <1>6, <1>7

LEMMA NextIn ==
  ASSUME NEW t \in Threads, local[t].index \in Nat, local[t].size \in Nat, local[t].size > 0
  PROVE  /\ NextIndex(t) = (local[t].index + 1) % local[t].size
         /\ NextIndex(t) \in 0..local[t].size-1
<1> DEFINE i == local[t].index  n == local[t].size
<1>1. NextIndex(t) = (i + 1) % n
  BY DEF NextIndex, My
<1>2. i + 1 \in Nat /\ n \in Nat /\ n > 0
  OBVIOUS
<1> HIDE DEF i, n
<1>3. ((i + 1) % n) \in 0..n-1
  BY <1>2, Remainder
<1> QED  BY <1>1, <1>3 DEF i, n

LEMMA ProbeTypes ==
  ASSUME TypeInv, NEW t \in Threads, ProbeKey(t) \/ ProbeValue(t)
  PROVE  TypeInv'
<1> DEFINE my == local[t]
<1>1. /\ my \in Frame /\ my.index \in Nat /\ my.size \in Nat /\ my.size > 0
      /\ UNCHANGED <<count, capacity, entries, arrays, known, undefined>>
  BY ProbeMoves
<1>2. NextIndex(t) \in Index
  BY <1>1, NextIn DEF Index
<1>3. /\ Onward(t) \in Frame /\ AtSlot(t) \in Frame /\ PastGrave(t) \in Frame
      /\ Onward(t).size = my.size /\ PastGrave(t).size = my.size
  BY <1>1, <1>2 DEF Frame, Onward, AtSlot, PastGrave
<1>4. Control("found", my) /\ Control("found", AtSlot(t)) /\ Control("value", my)
      /\ Control("key", Onward(t)) /\ Control("key", PastGrave(t))
  BY <1>1, <1>3 DEF Control, Growth
<1>5. {"key", "value", "found"} \subseteq Places
  BY DEF Places, Growth, OnSlot
<1>6. ASSUME NEW p \in {"key", "value", "found"}, NEW my2 \in Frame, Moves(t, p, my2), Control(p, my2)
      PROVE  TypeInv'
  BY <1>1, <1>5, <1>6, MovesTypes DEF TypeInv
<1> QED  BY <1>1, <1>3, <1>4, <1>6, ProbeMoves

LEMMA FoundTypes ==
  ASSUME TypeInv, NEW t \in Threads, FoundToGet(t) \/ FoundToRemove(t) \/ FoundToSet(t)
  PROVE  TypeInv'
<1> DEFINE my == local[t]
           none == [WithoutSlot(my) EXCEPT !.todo = {}, !.answer = NotDefined]
           get == [my EXCEPT !.todo = {"type", "raw"}]
           remove == [my EXCEPT !.todo = {"key", "type", "raw"}]
           set == [my EXCEPT !.isNew = (Entry(t).key = NoKey), !.todo = {"key", "type", "raw"}]
<1>1. my \in Frame
  BY Running DEF FoundToGet, FoundToRemove, FoundToSet, At
<1>2. UNCHANGED <<capacity, entries, arrays, known, undefined>> /\ count' \in Nat
  BY DEF FoundToGet, FoundToRemove, FoundToSet, shared, TypeInv
<1>3. none \in Frame /\ get \in Frame /\ remove \in Frame /\ set \in Frame
  <2>1. NotDefined \in Answer
    BY DEF NotDefined, Answer
  <2>2. {"type", "raw"} \in SUBSET Fields /\ {"key", "type", "raw"} \in SUBSET Fields
    BY DEF Fields
  <2>3. none \in Frame
    BY <1>1, <2>1 DEF Frame, Index, WithoutSlot
  <2>4. get \in Frame /\ remove \in Frame
    BY <1>1, <2>2 DEF Frame
  <2>5. set \in Frame
    <3>1. (Entry(t).key = NoKey) \in BOOLEAN
      OBVIOUS
    <3> QED  BY <1>1, <2>2, <3>1 DEF Frame
  <2> QED  BY <2>3, <2>4, <2>5
<1>4. \/ Moves(t, "done", none) \/ Moves(t, "fetch", get)
      \/ Moves(t, "store", remove) \/ Moves(t, "store", set)
  BY DEF FoundToGet, FoundToRemove, FoundToSet, Finished, Goto, Let, Moves, My, At
<1> HIDE DEF none, get, remove, set
<1>5. ASSUME NEW p \in {"done", "fetch", "store"}, NEW my2 \in Frame, Moves(t, p, my2)
      PROVE  TypeInv'
  <2>1. Control(p, my2) /\ p \in Places
    BY DEF Control, Places, Growth, OnSlot
  <2> QED  BY <1>2, <1>5, <2>1, MovesTypes DEF TypeInv
<1> QED  BY <1>3, <1>4, <1>5

LEMMA FetchTypes == ASSUME TypeInv, NEW t \in Threads, Fetch(t) PROVE TypeInv'
<1> DEFINE my == local[t]
<1>1. my \in Frame /\ pc[t] = "fetch"
  BY Running DEF Fetch, At
<1> PICK word \in my.todo :
      LET answer == [my.answer EXCEPT ![word] = Entry(t)[word]] IN
      IF my.todo = {word}
      THEN Finished(t, answer) /\ Goto(t, "done")
      ELSE local' = [local EXCEPT ![t].answer = answer, ![t].todo = @ \ {word}] /\ UNCHANGED pc
  BY DEF Fetch, My
<1> DEFINE answer == [my.answer EXCEPT ![word] = Entry(t)[word]]
           end == [WithoutSlot(my) EXCEPT !.todo = {}, !.answer = answer]
           on == [my EXCEPT !.answer = answer, !.todo = my.todo \ {word}]
<1>2. answer \in Answer
  <2>1. Entry(t) \in Slot
    BY EntryType DEF Fetch, InArray, Valid, Entry, My, TypeInv
  <2>2. my.answer \in Answer
    BY <1>1 DEF Frame
  <2> QED  BY <2>1, <2>2 DEF Answer, Slot
<1>3. Moves(t, "done", end) \/ Moves(t, "fetch", on)
  BY <1>1 DEF Finished, Goto, Moves, TypeInv
<1> HIDE DEF answer
<1>4. my.todo \ {word} \in SUBSET Fields
  BY <1>1 DEF Frame
<1>5. end \in Frame /\ on \in Frame
  <2>1. end \in Frame
    BY <1>1, <1>2 DEF Frame, Index, WithoutSlot
  <2>2. on \in Frame
    BY <1>1, <1>2, <1>4 DEF Frame
  <2> QED  BY <2>1, <2>2
<1> HIDE DEF end, on
<1>6. ASSUME NEW p \in {"done", "fetch"}, NEW my2 \in Frame, Moves(t, p, my2)
      PROVE  TypeInv'
  <2>1. Control(p, my2) /\ p \in Places
    BY DEF Control, Places, Growth, OnSlot
  <2>2. UNCHANGED <<count, capacity, entries, arrays, known, undefined>>
    BY DEF Fetch, shared
  <2> QED  BY <1>6, <2>1, <2>2, MovesTypes DEF TypeInv
<1> QED  BY <1>3, <1>5, <1>6

LEMMA StoredType == ASSUME NEW t \in Threads, local[t] \in Frame PROVE Stored(t) \in Slot
<1>1. local[t].key \in Keys /\ local[t].value.type \in Types /\ local[t].value.raw \in Nat
  BY DEF Frame, Value
<1>2. True.type \in Types /\ True.raw \in Nat
  BY DEF True, Types
<1> QED  BY <1>1, <1>2 DEF Stored, Slot, My

LEMMA StoreTypes == ASSUME TypeInv, NEW t \in Threads, Store(t) PROVE TypeInv'
<1> DEFINE my == local[t]
           remove == [WithoutSlot(my) EXCEPT !.call = "remove", !.todo = {}]
           end(answer) == [WithoutSlot(my) EXCEPT !.todo = {}, !.answer = answer]
           answer == IF my.call = "remove" THEN NotDefined ELSE my.value
           on(word) == [my EXCEPT !.todo = my.todo \ {word}]
<1>1. my \in Frame /\ pc[t] = "store"
  BY Running DEF Store, At
<1>2. PICK word \in my.todo :
        /\ arrays' = [arrays EXCEPT ![my.array][my.index][word] = Stored(t)[word]]
        /\ \/ Let(t, "todo", my.todo \ {word}) /\ UNCHANGED pc
           \/ local' = [local EXCEPT ![t] = remove] /\ Goto(t, "count")
           \/ Finished(t, answer) /\ Goto(t, "done")
  BY DEF Store, My
<1>3. arrays' \in Seq(Arrays) /\ Len(arrays') = Len(arrays)
  <2>1. my.array \in DOMAIN arrays /\ my.index \in DOMAIN arrays[my.array]
    BY DEF Store, InArray, Valid, My
  <2>2. IsStored(arrays', arrays, my.array, my.index, word, Stored(t))
    BY <1>2 DEF IsStored
  <2>3. word \in Fields /\ Stored(t) \in Slot /\ arrays \in Seq(Arrays)
    BY <1>1, StoredType DEF Frame, TypeInv
  <2> HIDE DEF my
  <2> QED  BY <2>1, <2>2, <2>3, StoreType
<1>4. answer \in Answer
  BY <1>1 DEF Frame, NotDefined, Answer, Value
<1>5. Moves(t, "store", on(word)) \/ Moves(t, "count", remove) \/ Moves(t, "done", end(answer))
  BY <1>1, <1>2 DEF Let, Goto, Finished, Moves, TypeInv
<1> HIDE DEF answer
<1>6. my.todo \ {word} \in SUBSET Fields
  BY <1>1 DEF Frame
<1>7. /\ on(word) \in Frame /\ remove \in Frame /\ end(answer) \in Frame
      /\ remove.array = None /\ remove.size = None /\ remove.grave = None
  <2>1. on(word) \in Frame
    BY <1>1, <1>6 DEF Frame
  <2>2. /\ remove \in Frame
        /\ remove.array = None /\ remove.size = None /\ remove.grave = None
    BY <1>1 DEF Frame, Index, WithoutSlot
  <2>3. end(answer) \in Frame
    BY <1>1, <1>4 DEF Frame, Index, WithoutSlot
  <2> QED  BY <2>1, <2>2, <2>3
<1> HIDE DEF on, remove, end
<1>8. ASSUME NEW p \in {"store", "count", "done"}, NEW my2 \in Frame, Moves(t, p, my2),
             p = "count" => my2 = remove
      PROVE  TypeInv'
  <2>1. Control(p, my2) /\ p \in Places
    BY <1>7, <1>8 DEF Control, Places, Growth, OnSlot
  <2>2. UNCHANGED <<count, capacity, entries, known, undefined>>
    BY DEF Store
  <2> QED  BY <1>3, <1>8, <2>1, <2>2, MovesTypes DEF TypeInv
<1> QED  BY <1>5, <1>7, <1>8

LEMMA ReturnTypes == ASSUME TypeInv, NEW t \in Threads, Return(t) PROVE TypeInv'
<1>1. pc' = [pc EXCEPT ![t] = "idle"] /\ "idle" \in Places
  BY DEF Return, Goto, Places
<1> QED  BY <1>1 DEF TypeInv, Return, shared

LEMMA BadTypes == ASSUME TypeInv, NEW t \in Threads, BadAccess(t) PROVE TypeInv'
BY DEF TypeInv, BadAccess, shared

LEMMA InstructionTypes == ASSUME TypeInv, NEW t \in Threads, Instruction(t) PROVE TypeInv'
<1>1. Null \in Value /\ Values \subseteq Value
  BY GlobalsAssumption DEF Null, Value, Types
<1>2. \E op \in {"DEF", "GLD", "GST"}, k \in Keys, v \in Value : Begin(t, op, k, v)
  BY <1>1 DEF Instruction
<1> QED  BY <1>2, BeginTypes

LEMMA InitTypes == Init => TypeInv
<1> SUFFICES ASSUME Init PROVE TypeInv
  OBVIOUS
<1> PICK slots \in Tables :
      /\ count = Cardinality({i \in DOMAIN slots : ~IsEmpty(slots[i])})
      /\ capacity = Cardinality(DOMAIN slots)
      /\ arrays = (IF capacity = 0 THEN <<>> ELSE <<slots>>) /\ entries = Len(arrays)
  BY DEF Init
<1>1. count \in Nat /\ capacity \in Nat
  <2>1. IsFiniteSet(DOMAIN slots)
    BY TablesAssumption
  <2>2. {i \in DOMAIN slots : ~IsEmpty(slots[i])} \subseteq DOMAIN slots
    OBVIOUS
  <2>3. IsFiniteSet({i \in DOMAIN slots : ~IsEmpty(slots[i])})
    BY <2>1, <2>2, FS_Subset, Zenon
  <2> QED  BY <2>1, <2>3, FS_CardinalityType
<1>2. slots \in Arrays
  BY <1>1, TablesAssumption DEF Arrays
<1>3. arrays \in Seq(Arrays) /\ entries = Len(arrays)
  BY <1>2
<1>4. known \subseteq Keys /\ undefined \in BOOLEAN
  BY DEF Init
<1>5. pc = [t \in Threads |-> "idle"] /\ local = [t \in Threads |-> [op |-> "none"]]
  BY DEF Init
<1>6. pc \in [Threads -> Places] /\ local \in [Threads -> [op : {"none"}] \cup Frame]
      /\ \A t \in Threads : pc[t] = "idle"
  BY <1>5 DEF Places
<1> QED  BY <1>1, <1>3, <1>4, <1>6 DEF TypeInv

LEMMA NextTypes == TypeInv /\ [Next]_vars => TypeInv'
<1> SUFFICES ASSUME TypeInv, [Next]_vars PROVE TypeInv'
  OBVIOUS
<1>1. CASE UNCHANGED vars
  BY <1>1 DEF TypeInv, vars, shared
<1>2. ASSUME NEW t \in Threads, Step(t) PROVE TypeInv'
  BY <1>2, CountTypes, CompareTypes, CopyTypes, FreeTypes, InstallTypes, ArgumentsTypes,
     ProbeTypes, FoundTypes, FetchTypes, StoreTypes, BadTypes, ReturnTypes DEF Step, Quietly
<1>3. ASSUME NEW t \in Threads, Instruction(t) PROVE TypeInv'
  BY <1>3, InstructionTypes
<1> QED  BY <1>1, <1>2, <1>3 DEF Next

THEOREM GlobalsTypes == Spec => []TypeInv
BY InitTypes, NextTypes, PTL DEF Spec

(* The fields of the table are in range and its keys are names, whatever   *)
(* threads do at once: count++ and the loop of adjustCapacity only add to  *)
(* the count, and entries only ever is an address that malloc has given.   *)
THEOREM GlobalsTypeOK == Spec => []TypeOK
<1>1. ASSUME TypeInv PROVE TypeOK
  <2>1. ASSUME NEW a \in DOMAIN arrays, NEW i \in DOMAIN arrays[a]
        PROVE  arrays[a][i].key \in Keys \cup {NoKey}
    <3>1. arrays[a][i] \in Slot
      BY <1>1, EntryType DEF TypeInv
    <3> QED  BY <3>1 DEF Slot
  <2> QED  BY <1>1, <2>1 DEF TypeOK, TypeInv
<1> QED  BY <1>1, GlobalsTypes, PTL

-----------------------------------------------------------------------------
(* What threads do to one another.  Until an instruction that stores is    *)
(* disturbed, a thread that makes the table grow is the only one that      *)
(* stores, and every other thread on an instruction is disturbed: so that  *)
(* the array and the capacity an undisturbed one has read are those of the *)
(* table, at whatever step it is.                                          *)

(* Where an instruction that no other thread has come in the way of is.    *)
Aims(p, my) ==
  /\ p = "find" => /\ capacity > 0 /\ entries # 0
                   /\ my.array \in {None, entries} /\ my.size \in {None, capacity}
                   /\ my.array = None \/ my.size = None
  /\ p \in OnSlot => /\ my.array = entries /\ entries # 0
                     /\ my.size = capacity /\ capacity > 0
                     /\ my.index \in 0..capacity-1 /\ my.grave \in {None} \cup 0..capacity-1

(* The fields of the table agree.                                          *)
Sound ==
  \/ entries = 0 /\ capacity = 0 /\ count = 0
  \/ entries # 0 /\ capacity > 0 /\ DOMAIN arrays[entries] = 0..capacity-1

Whole ==
  /\ (\A s \in Threads : pc[s] \notin {"install", "resize"}) => Sound
  /\ \A s \in Threads : pc[s] = "resize" =>
       entries # 0 /\ DOMAIN arrays[entries] = DOMAIN local[s].fresh

GrowthInv ==
  /\ disturbed \in [Threads -> BOOLEAN]
  /\ \A t \in Threads : Busy(t) /\ (\E s \in Threads \ {t} : Growing(s)) => disturbed[t]
  /\ ~damaged => /\ \A t \in Threads : Busy(t) /\ disturbed[t] => local[t].op = "GLD"
                 /\ Whole
                 /\ \A t \in Threads : Busy(t) /\ ~disturbed[t] => Aims(pc[t], local[t])

LEMMA RecordFacts ==
  ASSUME GrowthInv, Record
  PROVE  /\ disturbed' \in [Threads -> BOOLEAN]
         /\ \A t \in Threads : Busy(t)' /\ (\E s \in Threads \ {t} : Growing(s)') => disturbed'[t]
         /\ ~damaged' => /\ ~damaged
                         /\ \A t \in Threads : Busy(t)' /\ disturbed'[t] => local'[t].op = "GLD"
         /\ \A t \in Threads : disturbed[t] /\ pc'[t] # "idle" => disturbed'[t]
<1>1. \A t \in Threads : disturbed'[t] <=>
        pc'[t] # "idle" /\ (disturbed[t] \/ (Busy(t)' /\ \E s \in Threads \ {t} : Disturbs(s, t)'))
  BY DEF Record
<1>2. disturbed' \in [Threads -> BOOLEAN]
  BY DEF Record
<1>3. \A t \in Threads : Busy(t)' => pc'[t] # "idle"
  BY DEF Busy
<1>4. ASSUME NEW t \in Threads, NEW s \in Threads \ {t}, Growing(s)' PROVE Disturbs(s, t)'
  BY <1>4 DEF Disturbs
<1>5. ~damaged' => /\ ~damaged
                   /\ \A t \in Threads : Busy(t)' /\ disturbed'[t] => local'[t].op = "GLD"
  BY DEF Record
<1> QED  BY <1>1, <1>2, <1>3, <1>4, <1>5

LEMMA Alone ==
  ASSUME TypeInv, GrowthInv, ~damaged, NEW t \in Threads, Growing(t)
  PROVE  ~disturbed[t] /\ \A s \in Threads \ {t} : ~Growing(s) /\ (Busy(s) => disturbed[s])
<1>1. pc[t] \in Growth /\ Busy(t)
  BY DEF Growing, Growth, Busy
<1>2. local[t].op # "GLD"
  BY <1>1, Running DEF Control, Growth
<1>3. ~disturbed[t]
  BY <1>1, <1>2 DEF GrowthInv
<1> QED  BY <1>1, <1>3 DEF GrowthInv

LEMMA Calm ==
  ASSUME TypeInv, GrowthInv, ~damaged, NEW t \in Threads, Busy(t), ~disturbed[t],
         pc[t] \notin {"install", "resize"}
  PROVE  Sound
<1>1. \A s \in Threads \ {t} : ~Growing(s)
  BY DEF GrowthInv
<1>2. \A s \in Threads : pc[s] \notin {"install", "resize"}
  BY <1>1 DEF Growing
<1> QED  BY <1>2 DEF GrowthInv, Whole

(* What is to be shown of a step of thread t.                              *)
LEMMA GrowthStep ==
  ASSUME TypeInv, GrowthInv, Record, NEW t \in Threads, NEW p \in Places, NEW my, Moves(t, p, my),
         ~damaged => Whole',
         UNCHANGED <<entries, capacity>> \/ Growing(t),
         ~damaged /\ (pc[t] # "idle" => ~disturbed[t]) => Aims(p, my)'
  PROVE  GrowthInv'
<1>1. /\ pc'[t] = p /\ local'[t] = my
      /\ \A s \in Threads : s # t => pc'[s] = pc[s] /\ local'[s] = local[s]
  BY DEF TypeInv, Moves
<1>2. ASSUME ~damaged', NEW s \in Threads, Busy(s)', ~disturbed'[s]
      PROVE  Aims(pc[s], local[s])'
  <2>1. ~damaged /\ (disturbed[s] => pc'[s] = "idle")
    BY <1>2, RecordFacts
  <2>2. pc'[s] # "idle"
    BY <1>2 DEF Busy
  <2>3. ~disturbed[s]
    BY <2>1, <2>2
  <2>4. CASE s = t
    BY <1>1, <2>1, <2>3, <2>4 DEF Aims
  <2>5. CASE s # t
    <3>1. Busy(s)
      BY <1>1, <1>2, <2>5 DEF Busy
    <3>2. Aims(pc[s], local[s])
      BY <2>1, <2>3, <3>1 DEF GrowthInv
    <3>3. UNCHANGED <<entries, capacity>>
      BY <2>1, <2>3, <2>5, <3>1, Alone
    <3> QED  BY <1>1, <2>5, <3>2, <3>3 DEF Aims
  <2> QED  BY <2>4, <2>5
<1>3. ~damaged' => ~damaged
  BY RecordFacts
<1> QED  BY <1>2, <1>3, RecordFacts DEF GrowthInv

(* One that leaves the table's fields and the sizes of its arrays alone.   *)
LEMMA GrowthKept ==
  ASSUME TypeInv, GrowthInv, Record, NEW t \in Threads, NEW p \in Places, NEW my, Moves(t, p, my),
         UNCHANGED <<entries, capacity>>, TypeInv',
         \A a \in DOMAIN arrays : DOMAIN arrays'[a] = DOMAIN arrays[a],
         entries = 0 => count' \in {0, count},
         pc[t] \notin {"install", "resize"}, p \notin {"install", "resize"},
         ~damaged /\ (pc[t] # "idle" => ~disturbed[t]) => Aims(p, my)
  PROVE  GrowthInv'
<1>1. /\ pc'[t] = p /\ local'[t] = my
      /\ \A s \in Threads : s # t => pc'[s] = pc[s] /\ local'[s] = local[s]
  BY DEF TypeInv, Moves
<1>2. entries # 0 => DOMAIN arrays'[entries] = DOMAIN arrays[entries]
  BY EntriesIn
<1>3. ASSUME Whole PROVE Whole'
  <2>1. Sound => Sound'
    BY <1>2 DEF Sound
  <2>2. (\A s \in Threads : pc'[s] \notin {"install", "resize"}) =>
          \A s \in Threads : pc[s] \notin {"install", "resize"}
    BY <1>1
  <2>3. ASSUME NEW s \in Threads, pc'[s] = "resize"
        PROVE  entries' # 0 /\ DOMAIN arrays'[entries'] = DOMAIN local'[s].fresh
    <3>1. s # t /\ pc[s] = "resize" /\ local'[s] = local[s]
      BY <1>1, <2>3
    <3> QED  BY <1>2, <1>3, <3>1 DEF Whole
  <2> QED  BY <1>3, <2>1, <2>2, <2>3 DEF Whole
<1>4. ~damaged => Whole'
  BY <1>3 DEF GrowthInv
<1>5. Aims(p, my) => Aims(p, my)'
  BY DEF Aims
<1> QED  BY <1>4, <1>5, GrowthStep

LEMMA BeginGrowth ==
  ASSUME TypeInv, GrowthInv, TypeInv', Record, NEW t \in Threads, Instruction(t)
  PROVE  GrowthInv'
<1>1. PICK op, k, v : Begin(t, op, k, v)
  BY DEF Instruction
<1> DEFINE my == [op |-> op, key |-> k, value |-> v, call |-> IF op = "GLD" THEN "get" ELSE "set",
                  array |-> None, size |-> None, index |-> None, grave |-> None,
                  load |-> None, fresh |-> None, isNew |-> FALSE,
                  todo |-> {}, answer |-> NotDefined]
           p == IF op = "GLD" THEN "count" ELSE "load"
<1>2. Moves(t, p, my)
  BY <1>1 DEF Begin, Goto, Moves
<1> HIDE DEF my
<1>3. Aims(p, my) /\ p \in Places /\ p \notin {"install", "resize"}
  BY DEF Aims, Places, OnSlot
<1>4. pc[t] = "idle" /\ UNCHANGED <<count, capacity, entries, arrays>>
  BY <1>1 DEF Begin, At, shared
<1> HIDE DEF p
<1> QED  BY <1>2, <1>3, <1>4, GrowthKept

LEMMA CountGrowth ==
  ASSUME TypeInv, GrowthInv, TypeInv', Record, NEW t \in Threads, TestCount(t) \/ LoadCount(t)
  PROVE  GrowthInv'
<1> DEFINE my == local[t]
           none == [WithoutSlot(my) EXCEPT !.todo = {}, !.answer = NotDefined]
           loaded == [my EXCEPT !.load = count]
<1>1. pc[t] \in {"count", "load"} /\ UNCHANGED <<count, capacity, entries, arrays>>
  BY DEF TestCount, LoadCount, At, shared
<1>2. \/ Moves(t, "done", none)
      \/ Moves(t, "find", my) /\ count # 0
      \/ Moves(t, "compare", loaded)
  <2>1. UNCHANGED local => local' = [local EXCEPT ![t] = my]
    BY DEF TypeInv
  <2>2. CASE TestCount(t)
    <3>1. CASE count = 0
      <4>1. Goto(t, "done") /\ Finished(t, NotDefined)
        BY <2>2, <3>1 DEF TestCount
      <4> QED  BY <4>1 DEF Finished, Goto, Moves
    <3>2. CASE count # 0
      <4>1. Goto(t, "find") /\ UNCHANGED local
        BY <2>2, <3>2 DEF TestCount
      <4> QED  BY <2>1, <3>2, <4>1 DEF Goto, Moves
    <3> QED  BY <3>1, <3>2
  <2>3. CASE LoadCount(t)
    BY <2>3 DEF LoadCount, Let, Goto, Moves
  <2> QED  BY <2>2, <2>3
<1> HIDE DEF none, loaded
<1>3. Aims("done", none) /\ Aims("compare", loaded)
  BY DEF Aims, OnSlot
<1>4. ASSUME ~damaged, ~disturbed[t], count # 0 PROVE Aims("find", my)
  <2>1. Busy(t)
    BY <1>1 DEF Busy
  <2>2. Sound
    BY <1>1, <1>4, <2>1, Calm
  <2>3. Control(pc[t], my)
    BY <1>1, Running
  <2>4. my.array = None /\ my.size = None
    BY <1>1, <2>3 DEF Control
  <2> QED  BY <1>4, <2>2, <2>4 DEF Aims, OnSlot, Sound
<1> HIDE DEF my
<1>5. {"done", "find", "compare"} \subseteq Places
  BY DEF Places
<1>6. CASE Moves(t, "done", none)
  BY <1>1, <1>3, <1>5, <1>6, GrowthKept
<1>7. CASE Moves(t, "find", my) /\ count # 0
  BY <1>1, <1>4, <1>5, <1>7, GrowthKept
<1>8. CASE Moves(t, "compare", loaded)
  BY <1>1, <1>3, <1>5, <1>8, GrowthKept
<1> QED  BY <1>2, <1>6, <1>7, <1>8

LEMMA CompareGrowth ==
  ASSUME TypeInv, GrowthInv, TypeInv', Record, NEW t \in Threads, Compare(t)
  PROVE  GrowthInv'
<1> DEFINE my == local[t]
           grows == [my EXCEPT !.fresh = Fresh(GrowCap), !.index = 0, !.load = None]
           stays == [my EXCEPT !.load = None]
<1>1. pc[t] = "compare" /\ UNCHANGED <<capacity, entries, arrays>>
  BY DEF Compare, At
<1>2. my \in Frame /\ my.load \in Nat /\ my.array = None /\ my.size = None
  <2>1. my \in Frame /\ Control(pc[t], my)
    BY <1>1, Running
  <2> QED  BY <1>1, <2>1 DEF Control
<1>3. \/ Moves(t, "copy", grows) /\ count' = 0
      \/ Moves(t, "find", stays) /\ UNCHANGED count /\ ~MustGrow(my.load)
  BY DEF Compare, My, Goto, Let, Moves
<1>4. Aims("copy", grows)
  BY DEF Aims, OnSlot
<1>5. ASSUME ~damaged, ~disturbed[t], ~MustGrow(my.load) PROVE Aims("find", stays)
  <2>1. Busy(t)
    BY <1>1 DEF Busy
  <2>2. Sound
    BY <1>1, <1>5, <2>1, Calm
  <2>3. capacity > 0
    BY <1>2, <1>5 DEF MustGrow, TypeInv
  <2>4. stays.array = None /\ stays.size = None
    BY <1>2 DEF Frame
  <2> HIDE DEF stays
  <2> QED  BY <2>2, <2>3, <2>4 DEF Aims, OnSlot, Sound
<1> HIDE DEF my, grows, stays
<1>6. {"copy", "find"} \subseteq Places
  BY DEF Places, Growth
<1>7. CASE Moves(t, "copy", grows) /\ count' = 0
  BY <1>1, <1>4, <1>6, <1>7, GrowthKept
<1>8. CASE Moves(t, "find", stays) /\ UNCHANGED count /\ ~MustGrow(my.load)
  BY <1>1, <1>5, <1>6, <1>8, GrowthKept
<1> QED  BY <1>3, <1>7, <1>8

LEMMA CopyGrowth ==
  ASSUME TypeInv, GrowthInv, TypeInv', Record, NEW t \in Threads, CopyEntry(t)
  PROVE  GrowthInv'
<1>1. pc[t] = "copy" /\ UNCHANGED <<capacity, entries, arrays>> /\ pc' = pc
  BY DEF CopyEntry, At
<1>2. entries # 0
  BY DEF CopyEntry, Valid, TypeInv
<1>3. PICK my : Moves(t, "copy", my)
  <2>1. pc' = [pc EXCEPT ![t] = "copy"]
    BY <1>1 DEF TypeInv
  <2> QED  BY <2>1 DEF CopyEntry, My, Let, Moves
<1>4. Aims("copy", my)
  BY DEF Aims, OnSlot
<1>5. "copy" \in Places
  BY DEF Places, Growth
<1> QED  BY <1>1, <1>2, <1>3, <1>4, <1>5, GrowthKept

LEMMA FreeGrowth ==
  ASSUME TypeInv, GrowthInv, Record, NEW t \in Threads, Free(t)
  PROVE  GrowthInv'
<1>1. pc[t] = "copy" /\ UNCHANGED <<entries, capacity>> /\ Growing(t)
  BY DEF Free, At, Growing
<1>2. PICK my : my = local[t]
  OBVIOUS
<1>3. Moves(t, "install", my)
  BY <1>2 DEF Free, Goto, Moves, TypeInv
<1>4. /\ pc'[t] = "install" /\ \A s \in Threads : s # t => pc'[s] = pc[s]
  BY <1>3 DEF Moves, TypeInv
<1>5. ~damaged => Whole'
  BY <1>1, <1>4, Alone DEF Whole, Growing
<1>6. Aims("install", my)' /\ "install" \in Places
  BY DEF Aims, OnSlot, Places, Growth
<1> QED  BY <1>1, <1>3, <1>5, <1>6, GrowthStep

LEMMA InstallEntriesGrowth ==
  ASSUME TypeInv, GrowthInv, Record, NEW t \in Threads, InstallEntries(t)
  PROVE  GrowthInv'
<1>1. pc[t] = "install" /\ Growing(t)
  BY DEF InstallEntries, At, Growing
<1>2. PICK my : my = local[t]
  OBVIOUS
<1>3. Moves(t, "resize", my)
  BY <1>2 DEF InstallEntries, Goto, Moves, TypeInv
<1>4. /\ pc'[t] = "resize" /\ local' = local
      /\ \A s \in Threads : s # t => pc'[s] = pc[s]
  BY <1>3 DEF Moves, TypeInv, InstallEntries
<1>5. entries' # 0 /\ arrays'[entries'] = my.fresh
  <2>1. arrays' = Append(arrays, my.fresh) /\ entries' = Len(arrays')
    BY <1>2 DEF InstallEntries, My
  <2>2. Len(arrays') = Len(arrays) + 1 /\ arrays'[Len(arrays) + 1] = my.fresh /\ Len(arrays) \in Nat
    BY <2>1 DEF TypeInv
  <2> QED  BY <2>1, <2>2
<1>6. ~damaged => Whole'
  <2> SUFFICES ASSUME ~damaged PROVE Whole'
    OBVIOUS
  <2>1. \A s \in Threads \ {t} : ~Growing(s)
    BY <1>1, Alone
  <2>2. \A s \in Threads : pc'[s] = "resize" => s = t
    BY <1>4, <2>1 DEF Growing
  <2> QED  BY <1>2, <1>4, <1>5, <2>2 DEF Whole
<1>7. Aims("resize", my)' /\ "resize" \in Places
  BY DEF Aims, OnSlot, Places, Growth
<1> QED  BY <1>1, <1>3, <1>6, <1>7, GrowthStep

LEMMA InstallCapacityGrowth ==
  ASSUME TypeInv, GrowthInv, Record, NEW t \in Threads, InstallCapacity(t)
  PROVE  GrowthInv'
<1> DEFINE my == local[t]
<1>1. pc[t] = "resize" /\ Growing(t)
  BY DEF InstallCapacity, At, Growing
<1>2. my \in Frame /\ my.fresh \in Arrays /\ 0 \in DOMAIN my.fresh
  BY <1>1, Running DEF Control, Growth
<1> PICK bare : bare = [WithoutSlot(my) EXCEPT !.fresh = None]
  OBVIOUS
<1>3. Moves(t, "find", bare)
  BY DEF InstallCapacity, Goto, Moves
<1>4. bare.array = None /\ bare.size = None
  BY <1>2 DEF Frame, WithoutSlot
<1>5. capacity' \in Nat /\ capacity' > 0 /\ DOMAIN my.fresh = 0..capacity'-1
  <2>1. capacity' = Cardinality(DOMAIN my.fresh)
    BY DEF InstallCapacity, My
  <2>2. PICK n \in Nat : DOMAIN my.fresh = 0..n-1 /\ Cardinality(DOMAIN my.fresh) = n
    BY <1>2, ArrayDomain
  <2>3. 0 \in 0..n-1
    BY <1>2, <2>2
  <2> HIDE DEF my
  <2>4. capacity' = n
    BY <2>1, <2>2
  <2> QED  BY <2>2, <2>3, <2>4
<1>6. UNCHANGED <<count, entries, arrays>>
  BY DEF InstallCapacity
<1>7. /\ pc'[t] = "find" /\ \A s \in Threads : s # t => pc'[s] = pc[s]
  BY <1>3 DEF Moves, TypeInv
<1>8. ~damaged => entries' # 0 /\ Whole'
  <2> SUFFICES ASSUME ~damaged PROVE entries' # 0 /\ Whole'
    OBVIOUS
  <2>1. \A s \in Threads \ {t} : ~Growing(s)
    BY <1>1, Alone
  <2>2. \A s \in Threads : pc'[s] \notin {"install", "resize"}
    BY <1>7, <2>1 DEF Growing
  <2>3. entries # 0 /\ DOMAIN arrays[entries] = DOMAIN my.fresh
    BY <1>1 DEF GrowthInv, Whole
  <2>4. Sound'
    BY <1>5, <1>6, <2>3 DEF Sound
  <2> QED  BY <1>6, <2>2, <2>3, <2>4 DEF Whole
<1>9. ~damaged => Aims("find", bare)'
  BY <1>4, <1>5, <1>8 DEF Aims, OnSlot
<1>10. "find" \in Places
  BY DEF Places
<1> QED  BY <1>1, <1>3, <1>8, <1>9, <1>10, GrowthStep

LEMMA ArgumentsGrowth ==
  ASSUME TypeInv, GrowthInv, TypeInv', Record, NEW t \in Threads, ReadEntries(t) \/ ReadCapacity(t)
  PROVE  GrowthInv'
<1> DEFINE my == local[t]
<1>1. pc[t] = "find" /\ UNCHANGED <<count, capacity, entries, arrays>>
  BY DEF ReadEntries, ReadCapacity, Arguments, At, shared
<1>2. my \in Frame /\ my.grave = None
  BY <1>1, Running DEF Control
<1>3. ASSUME NEW array, NEW size, Arguments(t, array, size),
             \/ array = entries /\ size = my.size
             \/ array = my.array /\ size = capacity
      PROVE  GrowthInv'
  <2> DEFINE index == IF array = None \/ size \in {None, 0} THEN None ELSE Hash[my.key] % size
             my2 == [my EXCEPT !.array = array, !.size = size, !.index = index]
             p == IF array # None /\ size # None THEN "key" ELSE "find"
  <2>1. pc' = [pc EXCEPT ![t] = p]
    BY <1>1, <1>3 DEF Arguments, Goto, TypeInv
  <2>2. Moves(t, p, my2)
    BY <1>3, <2>1 DEF Arguments, My, Moves
  <2> HIDE DEF index
  <2>3. my2.array = array /\ my2.size = size /\ my2.index = index /\ my2.grave = None
    BY <1>2 DEF Frame
  <2> HIDE DEF my2
  <2>4. ASSUME ~damaged, ~disturbed[t] PROVE Aims(p, my2)
    <3>1. Aims("find", my)
      BY <1>1, <2>4 DEF GrowthInv, Busy
    <3>2. /\ array \in {None, entries} /\ size \in {None, capacity}
          /\ capacity > 0 /\ entries # 0 /\ capacity \in Nat /\ entries \in Nat
      BY <1>3, <3>1 DEF Aims, TypeInv
    <3>3. CASE p = "key"
      <4>1. array = entries /\ size = capacity
        BY <3>2, <3>3
      <4>2. index = Hash[my.key] % capacity
        BY <3>2, <4>1 DEF index, None
      <4>3. Hash[my.key] \in Nat
        BY <1>2, GlobalsAssumption DEF Frame
      <4>4. index \in 0..capacity-1
        BY <3>2, <4>2, <4>3, Remainder
      <4> QED  BY <2>3, <3>2, <3>3, <4>1, <4>4 DEF Aims
    <3>4. CASE p # "key"
      <4>1. p = "find" /\ (array = None \/ size = None)
        BY <3>4
      <4> QED  BY <2>3, <3>2, <4>1 DEF Aims, OnSlot
    <3> QED  BY <3>3, <3>4
  <2>5. p \in Places /\ p \notin {"install", "resize"}
    BY DEF Places, OnSlot
  <2> HIDE DEF p
  <2> QED  BY <1>1, <2>2, <2>4, <2>5, GrowthKept
<1> QED  BY <1>3 DEF ReadEntries, ReadCapacity, My

(* A step on an entry: Aims stays, unless the step leaves it.              *)
LEMMA OnSlotGrowth ==
  ASSUME TypeInv, GrowthInv, TypeInv', Record, NEW t \in Threads, pc[t] \in OnSlot,
         NEW p \in Places, p \notin {"install", "resize"}, NEW my, Moves(t, p, my),
         UNCHANGED <<entries, capacity>>,
         \A a \in DOMAIN arrays : DOMAIN arrays'[a] = DOMAIN arrays[a],
         entries = 0 => count' \in {0, count},
         \/ p \in {"done", "count"}
         \/ /\ p \in OnSlot /\ my.array = local[t].array /\ my.size = local[t].size
            /\ my.index \in {local[t].index, local[t].grave,
                             (local[t].index + 1) % local[t].size} \ {None}
            /\ my.grave \in {local[t].grave, local[t].index}
  PROVE  GrowthInv'
<1> DEFINE old == local[t]
<1>1. ASSUME ~damaged, ~disturbed[t] PROVE Aims(p, my)
  <2>1. CASE p \in {"done", "count"}
    BY <2>1 DEF Aims, OnSlot
  <2>2. CASE p \notin {"done", "count"}
    <3>1. Aims(pc[t], old) /\ Busy(t)
      BY <1>1 DEF GrowthInv, Busy, OnSlot
    <3>2. /\ old.array = entries /\ entries # 0 /\ old.size = capacity /\ capacity > 0
          /\ old.index \in 0..capacity-1 /\ old.grave \in {None} \cup 0..capacity-1
      BY <3>1 DEF Aims
    <3>3. capacity \in Nat
      BY DEF TypeInv
    <3> HIDE DEF old
    <3>4. ((old.index + 1) % capacity) \in 0..capacity-1
      BY <3>2, <3>3, Remainder
    <3>5. /\ p \in OnSlot /\ my.array = old.array /\ my.size = old.size
          /\ my.index \in {old.index, old.grave, (old.index + 1) % old.size} \ {None}
          /\ my.grave \in {old.grave, old.index}
      BY <2>2 DEF old
    <3>6. my.index \in 0..capacity-1 /\ my.grave \in {None} \cup 0..capacity-1
      BY <3>2, <3>4, <3>5
    <3>7. p # "find"
      BY <3>5 DEF OnSlot
    <3> QED  BY <3>2, <3>5, <3>6, <3>7 DEF Aims
  <2> QED  BY <2>1, <2>2
<1>2. pc[t] \notin {"install", "resize", "idle"}
  BY DEF OnSlot
<1> QED  BY <1>1, <1>2, GrowthKept

LEMMA ProbeGrowth ==
  ASSUME TypeInv, GrowthInv, TypeInv', Record, NEW t \in Threads, ProbeKey(t) \/ ProbeValue(t)
  PROVE  GrowthInv'
<1> DEFINE my == local[t]
<1>1. /\ pc[t] \in {"key", "value"} /\ UNCHANGED <<count, entries, capacity, arrays>>
      /\ my \in Frame /\ my.index \in Nat /\ my.size \in Nat /\ my.size > 0
  BY ProbeMoves
<1>2. NextIndex(t) = (my.index + 1) % my.size /\ NextIndex(t) # None /\ my.index # None
  <2>1. NextIndex(t) = (my.index + 1) % my.size /\ NextIndex(t) \in 0..my.size-1
    BY <1>1, NextIn
  <2>2. NextIndex(t) # None
    BY <1>1, <2>1 DEF None
  <2> QED  BY <1>1, <2>1, <2>2 DEF None
<1>3. \A m \in {my, Onward(t), AtSlot(t), PastGrave(t)} :
        /\ m.array = my.array /\ m.size = my.size
        /\ m.index \in {my.index, my.grave, (my.index + 1) % my.size} \ {None}
        /\ m.grave \in {my.grave, my.index}
  BY <1>1, <1>2 DEF Frame, Onward, AtSlot, PastGrave
<1>4. ASSUME NEW p \in {"found", "value", "key"},
             NEW m \in {my, Onward(t), AtSlot(t), PastGrave(t)}, Moves(t, p, m)
      PROVE  GrowthInv'
  <2>1. p \in OnSlot /\ p \in Places /\ p \notin {"install", "resize"} /\ pc[t] \in OnSlot
    BY <1>1 DEF OnSlot, Places
  <2> QED  BY <1>1, <1>3, <1>4, <2>1, OnSlotGrowth
<1> QED  BY <1>4, ProbeMoves

LEMMA FoundGrowth ==
  ASSUME TypeInv, GrowthInv, TypeInv', Record, NEW t \in Threads,
         FoundToGet(t) \/ FoundToRemove(t) \/ FoundToSet(t)
  PROVE  GrowthInv'
<1> DEFINE my == local[t]
           none == [WithoutSlot(my) EXCEPT !.todo = {}, !.answer = NotDefined]
           get == [my EXCEPT !.todo = {"type", "raw"}]
           remove == [my EXCEPT !.todo = {"key", "type", "raw"}]
           set == [my EXCEPT !.isNew = (Entry(t).key = NoKey), !.todo = {"key", "type", "raw"}]
<1>1. /\ pc[t] = "found" /\ UNCHANGED <<entries, capacity, arrays>>
      /\ my.array \in DOMAIN arrays /\ my.index \in DOMAIN arrays[my.array]
  BY DEF FoundToGet, FoundToRemove, FoundToSet, At, InArray, Valid, My, shared
<1>2. my \in Frame
  BY <1>1, Running
<1>3. entries # 0 /\ my.index # None
  <2>1. entries # 0 /\ arrays[my.array] \in Arrays
    BY <1>1 DEF TypeInv
  <2>2. my.index \in Nat
    BY <1>1, <2>1, ArrayDomain
  <2> QED  BY <2>1, <2>2 DEF None
<1>4. \/ Moves(t, "done", none) \/ Moves(t, "fetch", get)
      \/ Moves(t, "store", remove) \/ Moves(t, "store", set)
  BY DEF FoundToGet, FoundToRemove, FoundToSet, Finished, Goto, Let, Moves, My, At
<1>5. \A m \in {get, remove, set} :
        /\ m.array = my.array /\ m.size = my.size /\ m.index = my.index /\ m.grave = my.grave
  BY <1>2 DEF Frame
<1> HIDE DEF none, get, remove, set
<1>6. /\ pc[t] \in OnSlot /\ {"fetch", "store"} \subseteq OnSlot
      /\ {"fetch", "store", "done"} \subseteq Places \ {"install", "resize"}
  BY <1>1 DEF OnSlot, Places
<1>7. CASE Moves(t, "done", none)
  BY <1>1, <1>3, <1>6, <1>7, OnSlotGrowth
<1>8. ASSUME NEW p \in {"fetch", "store"}, NEW m \in {get, remove, set}, Moves(t, p, m)
      PROVE  GrowthInv'
  <2>1. p \in OnSlot /\ p \in Places /\ p \notin {"install", "resize"}
    BY <1>6
  <2> QED  BY <1>1, <1>3, <1>5, <1>6, <1>8, <2>1, OnSlotGrowth
<1> QED  BY <1>4, <1>7, <1>8

LEMMA FetchGrowth ==
  ASSUME TypeInv, GrowthInv, TypeInv', Record, NEW t \in Threads, Fetch(t)
  PROVE  GrowthInv'
<1> DEFINE my == local[t]
<1>1. /\ pc[t] = "fetch" /\ UNCHANGED <<count, entries, capacity, arrays>>
      /\ my.array \in DOMAIN arrays /\ my.index \in DOMAIN arrays[my.array]
  BY DEF Fetch, At, InArray, Valid, My, shared
<1>2. my \in Frame
  BY <1>1, Running
<1>3. my.index # None
  <2>1. arrays[my.array] \in Arrays
    BY <1>1 DEF TypeInv
  <2>2. my.index \in Nat
    BY <1>1, <2>1, ArrayDomain
  <2> QED  BY <2>2 DEF None
<1> PICK word \in my.todo :
      LET answer == [my.answer EXCEPT ![word] = Entry(t)[word]] IN
      IF my.todo = {word}
      THEN Finished(t, answer) /\ Goto(t, "done")
      ELSE local' = [local EXCEPT ![t].answer = answer, ![t].todo = @ \ {word}] /\ UNCHANGED pc
  BY DEF Fetch, My
<1> DEFINE answer == [my.answer EXCEPT ![word] = Entry(t)[word]]
           end == [WithoutSlot(my) EXCEPT !.todo = {}, !.answer = answer]
           on == [my EXCEPT !.answer = answer, !.todo = my.todo \ {word}]
<1>4. Moves(t, "done", end) \/ Moves(t, "fetch", on)
  BY <1>1 DEF Finished, Goto, Moves, TypeInv
<1> HIDE DEF answer
<1>5. on.array = my.array /\ on.size = my.size /\ on.index = my.index /\ on.grave = my.grave
  BY <1>2 DEF Frame
<1> HIDE DEF end, on
<1>6. /\ pc[t] \in OnSlot /\ "fetch" \in OnSlot
      /\ {"fetch", "done"} \subseteq Places \ {"install", "resize"}
  BY <1>1 DEF OnSlot, Places
<1>7. CASE Moves(t, "done", end)
  BY <1>1, <1>6, <1>7, OnSlotGrowth
<1>8. CASE Moves(t, "fetch", on)
  BY <1>1, <1>3, <1>5, <1>6, <1>8, OnSlotGrowth
<1> QED  BY <1>4, <1>7, <1>8

LEMMA StoreGrowth ==
  ASSUME TypeInv, GrowthInv, TypeInv', Record, NEW t \in Threads, Store(t)
  PROVE  GrowthInv'
<1> DEFINE my == local[t]
           remove == [WithoutSlot(my) EXCEPT !.call = "remove", !.todo = {}]
           end(answer) == [WithoutSlot(my) EXCEPT !.todo = {}, !.answer = answer]
           answer == IF my.call = "remove" THEN NotDefined ELSE my.value
           on(word) == [my EXCEPT !.todo = my.todo \ {word}]
<1>1. /\ pc[t] = "store" /\ UNCHANGED <<count, entries, capacity>>
      /\ my.array \in DOMAIN arrays /\ my.index \in DOMAIN arrays[my.array]
  BY DEF Store, At, InArray, Valid, My
<1>2. my \in Frame
  BY <1>1, Running
<1>3. my.index # None
  <2>1. arrays[my.array] \in Arrays
    BY <1>1 DEF TypeInv
  <2>2. my.index \in Nat
    BY <1>1, <2>1, ArrayDomain
  <2> QED  BY <2>2 DEF None
<1>4. PICK word \in my.todo :
        /\ arrays' = [arrays EXCEPT ![my.array][my.index][word] = Stored(t)[word]]
        /\ \/ Let(t, "todo", my.todo \ {word}) /\ UNCHANGED pc
           \/ local' = [local EXCEPT ![t] = remove] /\ Goto(t, "count")
           \/ Finished(t, answer) /\ Goto(t, "done")
  BY DEF Store, My
<1>5. \A a \in DOMAIN arrays : DOMAIN arrays'[a] = DOMAIN arrays[a]
  <2>1. IsStored(arrays', arrays, my.array, my.index, word, Stored(t))
    BY <1>4 DEF IsStored
  <2>2. word \in Fields /\ Stored(t) \in Slot /\ arrays \in Seq(Arrays)
    BY <1>2, StoredType DEF Frame, TypeInv
  <2> HIDE DEF my
  <2> QED  BY <1>1, <2>1, <2>2, StoreType
<1>6. Moves(t, "store", on(word)) \/ Moves(t, "count", remove) \/ Moves(t, "done", end(answer))
  BY <1>1, <1>4 DEF Let, Goto, Finished, Moves, TypeInv
<1> HIDE DEF answer
<1>7. /\ on(word).array = my.array /\ on(word).size = my.size
      /\ on(word).index = my.index /\ on(word).grave = my.grave
  BY <1>2 DEF Frame
<1> HIDE DEF on, remove, end
<1>8. /\ pc[t] \in OnSlot /\ "store" \in OnSlot
      /\ {"store", "count", "done"} \subseteq Places \ {"install", "resize"}
  BY <1>1 DEF OnSlot, Places
<1>9. CASE Moves(t, "store", on(word))
  BY <1>1, <1>3, <1>5, <1>7, <1>8, <1>9, OnSlotGrowth
<1>10. CASE Moves(t, "count", remove)
  BY <1>1, <1>5, <1>8, <1>10, OnSlotGrowth
<1>11. CASE Moves(t, "done", end(answer))
  BY <1>1, <1>5, <1>8, <1>11, OnSlotGrowth
<1> QED  BY <1>6, <1>9, <1>10, <1>11

LEMMA ReturnGrowth ==
  ASSUME TypeInv, GrowthInv, TypeInv', Record, NEW t \in Threads, Return(t) \/ BadAccess(t)
  PROVE  GrowthInv'
<1> DEFINE my == local[t]
<1>1. UNCHANGED <<count, entries, capacity, arrays>>
  BY DEF Return, BadAccess, shared
<1>2. pc = [pc EXCEPT ![t] = pc[t]] /\ local = [local EXCEPT ![t] = local[t]]
  BY DEF TypeInv
<1>3. CASE Return(t)
  <2>1. pc[t] = "done" /\ Moves(t, "idle", my)
    BY <1>2, <1>3 DEF Return, At, Goto, Moves
  <2>2. Aims("idle", my) /\ "idle" \in Places
    BY DEF Aims, OnSlot, Places
  <2> HIDE DEF my
  <2> QED  BY <1>1, <2>1, <2>2, GrowthKept
<1>4. CASE BadAccess(t)
  <2> DEFINE p == pc[t]
  <2>1. Moves(t, p, my) /\ p \in OnSlot \cup {"copy"}
    BY <1>2, <1>4 DEF BadAccess, Moves, OnSlot, At
  <2>2. p \in Places /\ p \notin {"install", "resize", "idle"}
    BY <2>1 DEF OnSlot, Places, Growth
  <2>3. ~damaged /\ ~disturbed[t] => Aims(p, my)
    BY <2>1 DEF GrowthInv, Busy, OnSlot
  <2> HIDE DEF my, p
  <2>4. pc[t] = p
    BY DEF p
  <2> QED  BY <1>1, <2>1, <2>2, <2>3, <2>4, GrowthKept
<1> QED  BY <1>3, <1>4

(* Where memory that is no entry of the table would be used, a growth has  *)
(* come in the way.                                                        *)
LEMMA BadBreaks ==
  ASSUME TypeInv, GrowthInv, GrowthInv', Record, NEW t \in Threads, BadAccess(t)
  PROVE  OnlyGrowthBreaks'
<1> DEFINE my == local[t]
<1>1. UNCHANGED <<pc, local, arrays>>
  BY DEF BadAccess, shared
<1>2. damaged => damaged'
  BY DEF Record
<1>3. ASSUME pc[t] \in OnSlot, ~InArray(t) PROVE OnlyGrowthBreaks'
  <2>1. CASE damaged
    BY <1>2, <2>1 DEF OnlyGrowthBreaks
  <2>2. CASE disturbed[t]
    <3>1. disturbed'[t]
      BY <1>1, <1>3, <2>2, RecordFacts DEF OnSlot
    <3>2. ~InArray(t)'
      BY <1>1, <1>3 DEF InArray, Valid, My
    <3> QED  BY <3>1, <3>2 DEF OnlyGrowthBreaks
  <2>3. CASE ~damaged /\ ~disturbed[t]
    <3>1. Busy(t) /\ Aims(pc[t], my) /\ Sound
      BY <1>3, <2>3, Calm DEF GrowthInv, Busy, OnSlot
    <3>2. my.array = entries /\ entries # 0 /\ my.index \in 0..capacity-1
      BY <1>3, <3>1 DEF Aims
    <3>3. entries \in DOMAIN arrays /\ DOMAIN arrays[entries] = 0..capacity-1
      BY <3>1, <3>2 DEF Sound, TypeInv
    <3> QED  BY <1>3, <3>2, <3>3 DEF InArray, Valid, My
  <2> QED  BY <2>1, <2>2, <2>3
<1>4. ASSUME pc[t] = "copy", ~damaged
      PROVE  /\ my.index < capacity => Valid(entries, my.index)
             /\ my.index >= capacity => ~Freed(entries)
  <2>1. Busy(t) /\ Growing(t)
    BY <1>4 DEF Busy, Growing
  <2>2. Sound
    BY <1>4, <2>1, Alone, Calm
  <2>3. my.index \in Nat /\ capacity \in Nat
    BY <1>4, Running DEF Control, TypeInv
  <2>4. entries # 0 => entries \in DOMAIN arrays
    BY DEF TypeInv
  <2> HIDE DEF my
  <2>5. my.index < capacity => Valid(entries, my.index)
    BY <2>2, <2>3, <2>4 DEF Sound, Valid
  <2>6. ~Freed(entries)
    <3>1. capacity > 0 => 0 \in 0..capacity-1
      BY <2>3
    <3> QED  BY <2>2, <3>1 DEF Sound, Freed
  <2> QED  BY <2>5, <2>6
<1>5. \/ pc[t] \in OnSlot /\ ~InArray(t)
      \/ pc[t] = "copy" /\ my.index < capacity /\ ~Valid(entries, my.index)
      \/ pc[t] = "copy" /\ my.index >= capacity /\ Freed(entries)
  BY DEF BadAccess, At, My, OnSlot
<1> QED  BY <1>2, <1>3, <1>4, <1>5 DEF OnlyGrowthBreaks

SharingInv == TypeInv /\ GrowthInv /\ OnlyGrowthBreaks

LEMMA InitSharing == Init => SharingInv
<1> SUFFICES ASSUME Init PROVE SharingInv
  OBVIOUS
<1>1. TypeInv
  BY InitTypes
<1>2. /\ \A t \in Threads : pc[t] = "idle"
      /\ disturbed = [t \in Threads |-> FALSE] /\ undefined = FALSE
  BY DEF Init
<1>3. PICK slots \in Tables :
        /\ count = Cardinality({i \in DOMAIN slots : ~IsEmpty(slots[i])})
        /\ capacity = Cardinality(DOMAIN slots)
        /\ arrays = (IF capacity = 0 THEN <<>> ELSE <<slots>>) /\ entries = Len(arrays)
  BY DEF Init
<1>4. capacity \in Nat /\ IsFiniteSet(DOMAIN slots) /\ DOMAIN slots = 0..capacity-1
  <2>1. IsFiniteSet(DOMAIN slots) /\ DOMAIN slots = 0..capacity-1
    BY <1>3, TablesAssumption
  <2> QED  BY <1>1, <2>1 DEF TypeInv
<1>5. Sound
  <2>1. CASE capacity = 0
    <3>1. entries = 0
      BY <1>3, <2>1
    <3>2. {i \in DOMAIN slots : ~IsEmpty(slots[i])} = {}
      BY <1>4, <2>1
    <3>3. count = 0
      BY <1>3, <3>2, FS_EmptySet
    <3> QED  BY <2>1, <3>1, <3>3 DEF Sound
  <2>2. CASE capacity # 0
    <3>1. entries = 1 /\ arrays[1] = slots
      BY <1>3, <2>2
    <3> QED  BY <1>4, <2>2, <3>1 DEF Sound
  <2> QED  BY <2>1, <2>2
<1>6. GrowthInv
  BY <1>2, <1>5 DEF GrowthInv, Whole, Busy
<1> QED  BY <1>1, <1>2, <1>6 DEF SharingInv, OnlyGrowthBreaks

LEMMA NextSharing == SharingInv /\ [Next]_vars => SharingInv'
<1> SUFFICES ASSUME SharingInv, [Next]_vars PROVE SharingInv'
  OBVIOUS
<1>1. TypeInv /\ GrowthInv /\ TypeInv'
  BY NextTypes DEF SharingInv
<1>2. CASE UNCHANGED vars
  <2>1. GrowthInv'
    BY <1>1, <1>2 DEF GrowthInv, Whole, Sound, Aims, Busy, Growing, vars, shared, history
  <2>2. OnlyGrowthBreaks'
    BY <1>2 DEF SharingInv, OnlyGrowthBreaks, InArray, Valid, My, vars, shared, history
  <2> QED  BY <1>1, <2>1, <2>2 DEF SharingInv
<1>3. ASSUME NEW t \in Threads, Step(t) PROVE SharingInv'
  <2>1. Record
    BY <1>3 DEF Step
  <2>2. GrowthInv'
    BY <1>1, <1>3, <2>1, CountGrowth, CompareGrowth, CopyGrowth, FreeGrowth,
       InstallEntriesGrowth, InstallCapacityGrowth, ArgumentsGrowth, ProbeGrowth, FoundGrowth,
       FetchGrowth, StoreGrowth, ReturnGrowth DEF Step, Quietly
  <2>3. BadAccess(t) \/ (~undefined /\ UNCHANGED undefined)
    BY <1>3 DEF Step, Quietly, TestCount, LoadCount, Compare, CopyEntry, Free, InstallEntries,
       InstallCapacity, ReadEntries, ReadCapacity, Arguments, ProbeKey, ProbeValue, FoundToGet,
       Fetch, FoundToRemove, FoundToSet, Return, Store, At
  <2>4. OnlyGrowthBreaks'
    BY <1>1, <2>1, <2>2, <2>3, BadBreaks DEF OnlyGrowthBreaks
  <2> QED  BY <1>1, <2>2, <2>4 DEF SharingInv
<1>4. ASSUME NEW t \in Threads, Instruction(t), Record PROVE SharingInv'
  <2>1. GrowthInv'
    BY <1>1, <1>4, BeginGrowth
  <2>2. ~undefined /\ UNCHANGED undefined
    BY <1>4 DEF Instruction, Begin, At
  <2> QED  BY <1>1, <2>1, <2>2 DEF SharingInv, OnlyGrowthBreaks
<1> QED  BY <1>2, <1>3, <1>4 DEF Next

THEOREM GlobalsSharing == Spec => []SharingInv
BY InitSharing, NextSharing, PTL DEF Spec

(* Memory that is freed, or outside the array, is used only by a thread    *)
(* in whose way another has come, or after an instruction that stores was  *)
(* disturbed: however many threads there are, an instruction no growth has *)
(* met stays in the table's array.                                         *)
THEOREM GlobalsOnlyGrowthBreaks == Spec => []OnlyGrowthBreaks
BY GlobalsSharing, PTL DEF SharingInv

-----------------------------------------------------------------------------
(***************************************************************************)
(* For any number of threads, variables and instructions: what the shared  *)
(* table holds is what was stored, and what an instruction reads is what a *)
(* variable was, as long as nobody came in its way.                        *)
(*                                                                         *)
(* Every variable is where its probe first comes to an entry without one:  *)
(* tombstones are left only by the assignments main makes to what is not   *)
(* defined, and by then nothing has been put behind them.  So while a key  *)
(* appears in an entry and goes again, no probe for a defined variable     *)
(* comes that far.                                                         *)
(***************************************************************************)

-----------------------------------------------------------------------------
(* Probes in an array of n entries.                                        *)

Spot(n, k, d) == (Hash[k] + d) % n

(* The probe for k comes to entry i, over entries of others: none of them  *)
(* has a key that is vacant.                                               *)
Leads(slots, n, vacant, k, i) ==
  \E d \in 0..n-1 :
    /\ Spot(n, k, d) = i
    /\ \A e \in 0..d-1 : slots[Spot(n, k, e)].key \notin vacant \cup {k}

InOrder(slots, n, vacant) ==
  \A i \in 0..n-1 : slots[i].key # NoKey => Leads(slots, n, vacant, slots[i].key, i)

LEMMA DivMod ==
  ASSUME NEW n \in Nat, n > 0, NEW h \in Nat
  PROVE  \E q \in Nat, r \in 0..n-1 : h = n * q + r /\ (h % n) = r
<1>1. h = n * (h \div n) + (h % n) /\ (h % n) \in 0..n-1 /\ (h \div n) \in Nat
  OBVIOUS
<1> QED  BY <1>1

LEMMA ModShift ==
  ASSUME NEW n \in Nat, n > 0, NEW q \in Nat, NEW r \in 0..n-1, NEW h, h = n * q + r
  PROVE  (h % n) = r
OBVIOUS

LEMMA SpotIn ==
  ASSUME NEW n \in Nat, n > 0, NEW k \in Keys, NEW d \in Nat
  PROVE  Spot(n, k, d) \in 0..n-1
<1>1. Hash[k] + d \in Nat
  BY GlobalsAssumption
<1> QED  BY <1>1, Remainder DEF Spot

LEMMA SpotNext ==
  ASSUME NEW n \in Nat, n > 0, NEW k \in Keys, NEW d \in Nat
  PROVE  Spot(n, k, d + 1) = ((Spot(n, k, d) + 1) % n)
<1> PICK h \in Nat : h = Hash[k] + d
  BY GlobalsAssumption
<1>1. PICK q \in Nat, r \in 0..n-1 : h = n * q + r /\ (h % n) = r
  BY DivMod
<1>2. Spot(n, k, d) = r /\ Spot(n, k, d + 1) = ((h + 1) % n)
  <2>1. Hash[k] \in Nat
    BY GlobalsAssumption
  <2>2. Hash[k] + (d + 1) = h + 1
    BY <2>1
  <2> QED  BY <1>1, <2>2 DEF Spot
<1>3. CASE r + 1 < n
  <2>1. h + 1 = n * q + (r + 1) /\ r + 1 \in 0..n-1
    BY <1>1, <1>3
  <2>2. ((h + 1) % n) = r + 1
    BY <1>1, <2>1, ModShift
  <2>3. ((r + 1) % n) = r + 1
    BY <1>1, <1>3
  <2> QED  BY <1>2, <2>2, <2>3
<1>4. CASE r + 1 = n
  <2>1. n * (q + 1) = n * q + n
    BY <1>1
  <2>2. h + 1 = n * (q + 1) + 0
    BY <1>1, <1>4, <2>1
  <2>3. ((h + 1) % n) = 0
    BY <1>1, <2>2, ModShift
  <2>4. n = n * 1 + 0
    OBVIOUS
  <2>5. (n % n) = 0
    BY <2>4, ModShift
  <2> QED  BY <1>2, <1>4, <2>3, <2>5
<1> QED  BY <1>1, <1>3, <1>4

LEMMA LeadsIn ==
  ASSUME NEW n \in Nat, NEW k \in Keys, NEW slots, NEW vacant, NEW i,
         Leads(slots, n, vacant, k, i)
  PROVE  i \in 0..n-1
BY SpotIn DEF Leads

LEMMA LeadsStart ==
  ASSUME NEW n \in Nat, n > 0, NEW k \in Keys, NEW slots, NEW vacant
  PROVE  Leads(slots, n, vacant, k, Hash[k] % n)
<1>1. Hash[k] + 0 = Hash[k]
  BY GlobalsAssumption
<1>2. Spot(n, k, 0) = (Hash[k] % n)
  BY <1>1 DEF Spot
<1>3. 0 \in 0..n-1 /\ 0..0-1 = {}
  OBVIOUS
<1> QED  BY <1>2, <1>3 DEF Leads

(* A probe goes on over an entry of another variable.                      *)
LEMMA LeadsOn ==
  ASSUME NEW n \in Nat, NEW k \in Keys, NEW slots, NEW vacant, NEW i,
         Leads(slots, n, vacant, k, i), slots[i].key \notin vacant \cup {k}
  PROVE  Leads(slots, n, vacant, k, (i + 1) % n)
<1>1. PICK d \in 0..n-1 :
        /\ Spot(n, k, d) = i
        /\ \A e \in 0..d-1 : slots[Spot(n, k, e)].key \notin vacant \cup {k}
  BY DEF Leads
<1> n > 0
  BY <1>1
<1>2. Spot(n, k, d + 1) = ((i + 1) % n)
  BY <1>1, SpotNext
<1>3. CASE d < n - 1
  <2>1. d + 1 \in 0..n-1 /\ \A e \in 0..(d+1)-1 : e = d \/ e \in 0..d-1
    BY <1>3
  <2> QED  BY <1>1, <1>2, <2>1 DEF Leads
<1>4. CASE d = n - 1
  <2> PICK h \in Nat : h = Hash[k]
    BY GlobalsAssumption
  <2>1. Spot(n, k, d + 1) = ((h + n) % n)
    BY <1>4 DEF Spot
  <2>2. PICK q \in Nat, r \in 0..n-1 : h = n * q + r /\ (h % n) = r
    BY DivMod
  <2>3. n * (q + 1) = n * q + n
    BY <2>2
  <2>4. h + n = n * (q + 1) + r
    BY <2>2, <2>3
  <2>5. ((h + n) % n) = r
    BY <2>2, <2>4, ModShift
  <2> QED  BY <1>2, <2>1, <2>2, <2>5, LeadsStart
<1> QED  BY <1>3, <1>4

(* A probe that led somewhere leads there still, if no entry on its way    *)
(* became vacant, or the variable's.                                       *)
LEMMA LeadsKept ==
  ASSUME NEW n \in Nat, NEW k \in Keys, NEW slots, NEW slots2, NEW vacant, NEW vacant2,
         NEW i, Leads(slots, n, vacant, k, i),
         \A j \in 0..n-1 : slots2[j].key \in vacant2 \cup {k} => slots[j].key \in vacant \cup {k}
  PROVE  Leads(slots2, n, vacant2, k, i)
<1>1. PICK d \in 0..n-1 :
        /\ Spot(n, k, d) = i
        /\ \A e \in 0..d-1 : slots[Spot(n, k, e)].key \notin vacant \cup {k}
  BY DEF Leads
<1>2. \A e \in 0..d-1 : Spot(n, k, e) \in 0..n-1
  BY SpotIn
<1> QED  BY <1>1, <1>2 DEF Leads

(* Where the probe for a variable of the array gets to is an entry of      *)
(* another, or the variable's.                                             *)
LEMMA Behind ==
  ASSUME NEW n \in Nat, NEW k \in Keys, NEW slots, NEW vacant, InOrder(slots, n, vacant),
         NEW i \in 0..n-1, slots[i].key = k, NEW j, Leads(slots, n, vacant, k, j)
  PROVE  j = i \/ slots[j].key \notin vacant \cup {k}
<1>1. k # NoKey
  BY GlobalsAssumption
<1>2. PICK d \in 0..n-1 :
        /\ Spot(n, k, d) = i
        /\ \A e \in 0..d-1 : slots[Spot(n, k, e)].key \notin vacant \cup {k}
  BY <1>1 DEF InOrder, Leads
<1>3. PICK c \in 0..n-1 :
        /\ Spot(n, k, c) = j
        /\ \A e \in 0..c-1 : slots[Spot(n, k, e)].key \notin vacant \cup {k}
  BY DEF Leads
<1>4. CASE c < d
  BY <1>2, <1>3, <1>4
<1>5. CASE c = d
  BY <1>2, <1>3, <1>5
<1>6. CASE d < c
  <2>1. d \in 0..c-1
    BY <1>6
  <2> QED  BY <1>2, <1>3, <2>1
<1> QED  BY <1>4, <1>5, <1>6

LEMMA LeastIsLeast ==
  ASSUME NEW S \in SUBSET Nat, S # {}
  PROVE  Least(S) \in S /\ \A e \in S : Least(S) <= e
<1> DEFINE R == StrictSubsetOrdering(Nat)
           F == FiniteSubsetsOf(Nat)
           T == {0..n : n \in S}
<1>1. IsWellFoundedOn(R, F)
  BY FS_StrictSubsetOrderingWellFounded
<1>2. \A n \in Nat : 0..n \in F
  <2>1. \A n \in Nat : IsFiniteSet(0..n)
    BY FS_Interval
  <2> QED  BY <2>1 DEF FiniteSubsetsOf
<1>3. T \subseteq F /\ T # {}
  BY <1>2
<1>4. PICK I \in T : \A J \in T : <<J, I>> \notin R
  <2> HIDE DEF F, R, T
  <2> QED  BY <1>1, <1>3, WFMin
<1>5. PICK m \in S : I = 0..m
  BY <1>4
<1>6. \A e \in S : m <= e
  <2> SUFFICES ASSUME NEW e \in S, e < m PROVE FALSE
    OBVIOUS
  <2>1. <<0..e, 0..m>> \in R
    BY DEF StrictSubsetOrdering
  <2> QED  BY <1>4, <1>5, <2>1
<1> QED  BY <1>6 DEF Least

(* Within n steps a probe comes to every entry.                            *)
LEMMA SpotCovers ==
  ASSUME NEW n \in Nat, n > 0, NEW k \in Keys, NEW i \in 0..n-1
  PROVE  \E d \in 0..n-1 : Spot(n, k, d) = i
<1> PICK h \in Nat : h = Hash[k]
  BY GlobalsAssumption
<1>1. PICK q \in Nat, r \in 0..n-1 : h = n * q + r /\ (h % n) = r
  BY DivMod
<1>2. CASE i >= r
  <2>1. i - r \in 0..n-1 /\ h + (i - r) = n * q + i
    BY <1>1, <1>2
  <2>2. ((h + (i - r)) % n) = i
    BY <1>1, <2>1, ModShift
  <2> QED  BY <2>1, <2>2 DEF Spot
<1>3. CASE i < r
  <2>1. n * (q + 1) = n * q + n
    BY <1>1
  <2>2. i - r + n \in 0..n-1 /\ h + (i - r + n) = n * (q + 1) + i
    BY <1>1, <1>3, <2>1
  <2>3. ((h + (i - r + n)) % n) = i
    BY <1>1, <2>2, ModShift
  <2> QED  BY <2>2, <2>3 DEF Spot
<1> QED  BY <1>2, <1>3

(* Where adjustCapacity puts a variable: where its probe first comes to an *)
(* entry without one, or to its own.                                       *)
LEMMA PlaceLeads ==
  ASSUME NEW n \in Nat, n > 0, NEW slots \in [0..n-1 -> Slot], NEW k \in Keys,
         NEW i \in 0..n-1, slots[i].key \in {NoKey, k}
  PROVE  /\ Place(slots, k) \in 0..n-1 /\ slots[Place(slots, k)].key \in {NoKey, k}
         /\ Leads(slots, n, {NoKey}, k, Place(slots, k))
<1> DEFINE S == {d \in 0..n-1 : slots[Spot(n, k, d)].key \in {NoKey, k}}
<1>1. Cardinality(DOMAIN slots) = n
  BY FS_Interval
<1>2. S \in SUBSET Nat /\ S # {}
  <2>1. PICK c \in 0..n-1 : Spot(n, k, c) = i
    BY SpotCovers
  <2>2. c \in S
    BY <2>1
  <2>3. 0..n-1 \subseteq Nat
    OBVIOUS
  <2> QED  BY <2>2, <2>3
<1> DEFINE d == Least(S)
<1>3. d \in S /\ \A e \in S : d <= e
  <2> HIDE DEF S
  <2> QED  BY <1>2, LeastIsLeast
<1>4. Place(slots, k) = Spot(n, k, d)
  BY <1>1 DEF Place, Spot
<1>5. \A e \in 0..d-1 : slots[Spot(n, k, e)].key \notin {NoKey} \cup {k}
  <2> SUFFICES ASSUME NEW e \in 0..d-1, slots[Spot(n, k, e)].key \in {NoKey, k} PROVE FALSE
    OBVIOUS
  <2> HIDE DEF d
  <2>1. d \in 0..n-1
    BY <1>3
  <2>2. e \in 0..n-1 /\ e < d
    BY <2>1
  <2>3. e \in S
    BY <2>2
  <2> HIDE DEF S
  <2> QED  BY <1>3, <2>1, <2>2, <2>3
<1> HIDE DEF d
<1>6. d \in 0..n-1 /\ slots[Spot(n, k, d)].key \in {NoKey, k}
  BY <1>3
<1>7. Spot(n, k, d) \in 0..n-1
  BY <1>6, SpotIn
<1> QED  BY <1>4, <1>5, <1>6, <1>7 DEF Leads

-----------------------------------------------------------------------------
(* What the table holds.                                                   *)

Slots == arrays[entries]
Size(f) == Cardinality(DOMAIN f)
Used(slots, n) == {i \in 0..n-1 : ~IsEmpty(slots[i])}

(* The array has variable k as v says.                                     *)
Agrees(slots, n, k, v) ==
  /\ \A i \in 0..n-1 : slots[i].key = k => slots[i].type = v.type /\ slots[i].raw = v.raw
  /\ v # NotDefined => \E i \in 0..n-1 : slots[i].key = k

Holds(slots, n) ==
  /\ InOrder(slots, n, {NoKey})
  /\ \A k \in Keys : Agrees(slots, n, k, dict[k])
  /\ count = Cardinality(Used(slots, n))

(* Main is making a variable, or taking it out again; and is at the        *)
(* entry, whose key may come or go.                                        *)
Makes(t) == Busy(t) /\ local[t].isNew
Made == IF Makes(Main) THEN {local[Main].key} ELSE {}
Vacant == {NoKey} \cup Made
Filling == pc[Main] = "store" /\ local[Main].isNew
Filled == IF Filling THEN {local[Main].index} ELSE {}

(* What has been stored of an entry e of a variable that v describes.      *)
Partly(e, my, v) ==
  /\ e.key = IF "key" \in my.todo <=> my.call = "set" THEN NoKey ELSE my.key
  /\ my.call = "set" =>
       /\ "type" \notin my.todo => e.type = my.value.type /\ v.type = my.value.type
       /\ "raw" \notin my.todo => e.raw = my.value.raw /\ v.raw = my.value.raw
  /\ my.call # "set" =>
       /\ "type" \notin my.todo => e.type = "bool"
       /\ "key" \notin my.todo => v = NotDefined

Fill ==
  Filling =>
    LET my == local[Main] IN
    /\ \A i \in 0..capacity-1 : i # my.index => Slots[i].key # my.key
    /\ Leads(Slots, capacity, Vacant, my.key, my.index)
    /\ Partly(Slots[my.index], my, dict[my.key])

(* The new array while the old one is copied: the entries passed.          *)
Copied(slots, upto, fresh, n) ==
  /\ InOrder(fresh, n, {NoKey})
  /\ \A j \in 0..n-1 : \/ fresh[j].key = NoKey /\ IsEmpty(fresh[j])
                       \/ fresh[j].key # NoKey /\ \E i \in 0..upto-1 : slots[i] = fresh[j]
  /\ \A i \in 0..upto-1 : slots[i].key # NoKey => \E j \in 0..n-1 : fresh[j] = slots[i]

Grown(g) ==
  LET my == local[g]
      n == Size(my.fresh)
  IN
  /\ pc[g] = "copy" =>
       /\ n > capacity /\ my.index <= capacity
       /\ Copied(Slots, my.index, my.fresh, n)
       /\ count = Cardinality(Used(my.fresh, n)) /\ count <= my.index
  /\ pc[g] = "install" => Holds(my.fresh, n)
  /\ pc[g] = "resize" => Holds(Slots, n)

(* What findEntry has found out so far.                                    *)
Look(slots, n, vacant, p, my) ==
  /\ p \in {"key", "value"} =>
       IF my.grave = None THEN Leads(slots, n, vacant, my.key, my.index)
       ELSE Leads(slots, n, vacant, my.key, my.grave) /\ slots[my.grave].key = NoKey
  /\ p = "value" => slots[my.index].key = NoKey
  /\ p = "found" => /\ Leads(slots, n, vacant, my.key, my.index)
                    /\ slots[my.index].key \in {NoKey, my.key}
  /\ p = "fetch" \/ (p = "store" /\ ~my.isNew) => slots[my.index].key = my.key

Installed == \A s \in Threads : pc[s] \notin {"install", "resize"}

KnownKept == \A k \in known : dict[k].type \in Types /\ k \notin Made
OnlyMainMakes == \A t \in Threads : Makes(t) => t = Main
Placed == Installed => InOrder(Slots, capacity, Vacant)
Faithful ==
  Installed => \A k \in Keys : \/ Filling /\ k = local[Main].key
                               \/ Agrees(Slots, capacity, k, dict[k])
Counted ==
  (\A s \in Threads : ~Growing(s)) => count = Cardinality(Used(Slots, capacity) \cup Filled)
Looking == \A t \in Threads : Busy(t) /\ ~disturbed[t] => Look(Slots, capacity, Vacant, pc[t], local[t])

Sane ==
  /\ KnownKept /\ OnlyMainMakes
  /\ Placed /\ Faithful /\ Counted /\ Fill
  /\ \A g \in Threads : Grown(g)
  /\ Looking

(* What an instruction may be and do.                                      *)
Rules(t, p, my) ==
  /\ my.op = "GLD" => my.call = "get" /\ ~my.isNew
  /\ my.op # "GLD" => my.call # "get" /\ (t # Main => my.op = "GST" /\ my.key \in known)
  /\ my.call = "remove" => my.op = "GST" /\ my.isNew
  /\ my.isNew => my.call = "remove" \/ p = "store"
  /\ p \in {"load", "compare"} \cup Growth => my.call = "set"
  /\ p = "count" => my.call # "set"
  /\ p = "fetch" => my.call = "get" /\ my.todo # {} /\ my.todo \subseteq {"type", "raw"}
  /\ p = "store" => my.call # "get" /\ my.todo # {}

Ruled == \A t \in Threads : Busy(t) => Rules(t, pc[t], local[t])

Noticed == \A t \in Threads : Busy(t) /\ (\E s \in Threads \ {t} : Disturbs(s, t)) => disturbed[t]

KeptInv ==
  /\ SharingInv /\ dict \in [Keys -> Answer]
  /\ Ruled /\ Noticed
  /\ ~damaged => Sane

-----------------------------------------------------------------------------
(* What follows from it at once.                                           *)

LEMMA InOrderLess ==
  ASSUME NEW n \in Nat, NEW slots \in [0..n-1 -> Slot], NEW vacant, NEW vacant2,
         \A j \in 0..n-1 : slots[j].key \in vacant2 => slots[j].key \in vacant,
         InOrder(slots, n, vacant)
  PROVE  InOrder(slots, n, vacant2)
<1> SUFFICES ASSUME NEW i \in 0..n-1, slots[i].key # NoKey
             PROVE  Leads(slots, n, vacant2, slots[i].key, i)
  BY DEF InOrder
<1>1. slots[i].key \in Keys
  BY DEF Slot
<1>2. Leads(slots, n, vacant, slots[i].key, i)
  BY DEF InOrder
<1> QED  BY <1>1, <1>2, LeadsKept

LEMMA LookLess ==
  ASSUME NEW n \in Nat, NEW slots, NEW vacant, NEW vacant2,
         \A j \in 0..n-1 : slots[j].key \in vacant2 => slots[j].key \in vacant,
         NEW p, NEW my, my.key \in Keys, Look(slots, n, vacant, p, my)
  PROVE  Look(slots, n, vacant2, p, my)
<1>1. \A i : Leads(slots, n, vacant, my.key, i) => Leads(slots, n, vacant2, my.key, i)
  BY LeadsKept
<1> QED  BY <1>1 DEF Look

LEMMA NoticedNext == ASSUME GrowthInv, Record PROVE Noticed'
BY DEF Record, Noticed, Busy

(* The installed array.                                                    *)
LEMMA SlotsType ==
  ASSUME TypeInv, GrowthInv, ~damaged, Installed
  PROVE  /\ capacity \in Nat
         /\ capacity > 0 => entries # 0 /\ Slots \in [0..capacity-1 -> Slot]
<1>1. Sound
  BY DEF Installed, GrowthInv, Whole
<1>2. capacity \in Nat
  BY DEF TypeInv
<1>3. CASE entries # 0
  <2>1. entries \in DOMAIN arrays /\ arrays \in Seq(Arrays)
    BY <1>3, EntriesIn DEF TypeInv
  <2>2. Slots \in Arrays /\ DOMAIN Slots = 0..capacity-1
    BY <1>1, <1>3, <2>1 DEF Sound, Slots
  <2>3. PICK n \in Nat : Slots \in [0..n-1 -> Slot]
    BY <2>2 DEF Arrays
  <2> QED  BY <1>2, <1>3, <2>2, <2>3
<1> QED  BY <1>1, <1>2, <1>3 DEF Sound

LEMMA MovesAt ==
  ASSUME TypeInv, NEW t \in Threads, NEW p, NEW my, Moves(t, p, my)
  PROVE  /\ pc'[t] = p /\ local'[t] = my
         /\ \A s \in Threads \ {t} : pc'[s] = pc[s] /\ local'[s] = local[s]
BY DEF TypeInv, Moves

-----------------------------------------------------------------------------
(* What holds of a step whatever has been disturbed.                       *)
LEMMA Outer ==
  ASSUME KeptInv, SharingInv', Record, NEW t \in Threads, NEW p, NEW my, Moves(t, p, my),
         UNCHANGED known, dict' \in [Keys -> Answer], ~damaged' => Sane',
         p \notin {"idle", "done"} => Rules(t, p, my)
  PROVE  KeptInv'
<1>1. TypeInv /\ GrowthInv
  BY DEF KeptInv, SharingInv
<1>2. /\ pc'[t] = p /\ local'[t] = my
      /\ \A s \in Threads \ {t} : pc'[s] = pc[s] /\ local'[s] = local[s]
  BY <1>1, MovesAt
<1>3. Ruled'
  <2> SUFFICES ASSUME NEW s \in Threads, Busy(s)' PROVE Rules(s, pc[s], local[s])'
    BY DEF Ruled
  <2>1. CASE s = t
    <3>1. Rules(t, p, my)
      BY <1>2, <2>1 DEF Busy
    <3> QED  BY <1>2, <2>1, <3>1 DEF Rules
  <2>2. CASE s # t
    <3>1. Rules(s, pc[s], local[s]) /\ pc'[s] = pc[s] /\ local'[s] = local[s]
      BY <1>2, <2>2 DEF KeptInv, Ruled, Busy
    <3> QED  BY <3>1 DEF Rules
  <2> QED  BY <2>1, <2>2
<1>4. Noticed'
  BY <1>1, NoticedNext
<1> QED  BY <1>3, <1>4 DEF KeptInv

(* A step of thread t that changes nothing the threads share, and does not *)
(* begin or go on with an entry of a new variable.                         *)
LEMMA Private ==
  ASSUME KeptInv, SharingInv', Record, NEW t \in Threads, NEW p, NEW my, Moves(t, p, my),
         UNCHANGED <<count, capacity, entries, arrays, known, dict>>,
         pc[t] \notin Growth, p \notin Growth,
         p \notin {"idle", "done"} => Rules(t, p, my),
         t = Main => ~Filling,
         ~(p = "store" /\ my.isNew),
         p \notin {"idle", "done"} /\ my.isNew => Makes(t) /\ my.key = local[t].key,
         ~damaged /\ ~damaged' /\ ~disturbed[t] /\ ~disturbed'[t] =>
           Look(Slots, capacity, Vacant, p, my)
  PROVE  KeptInv'
<1>1. TypeInv /\ GrowthInv /\ TypeInv' /\ GrowthInv'
  BY DEF KeptInv, SharingInv
<1>2. /\ pc'[t] = p /\ local'[t] = my
      /\ \A s \in Threads \ {t} : pc'[s] = pc[s] /\ local'[s] = local[s]
  BY <1>1, MovesAt
<1>3. ASSUME ~damaged' PROVE Sane'
  <2>1. ~damaged /\ Sane
    BY <1>1, <1>3, RecordFacts DEF KeptInv
  <2>2. Slots' = Slots
    BY DEF Slots
  <2>3. \A s \in Threads : Makes(s)' => Makes(s) /\ local'[s].key = local[s].key
    BY <1>2 DEF Makes, Busy
  <2>4. Main \in Threads
    BY DEF Threads
  <2>5. Made' \subseteq Made /\ Vacant' \subseteq Vacant
    BY <2>3, <2>4 DEF Made, Vacant
  <2>6. Filling' = Filling /\ Filled' = Filled /\ (Filling => local'[Main] = local[Main])
    BY <1>2, <2>4 DEF Filling, Filled
  <2>7. \A s \in Threads : (pc'[s] \in Growth <=> pc[s] \in Growth)
                           /\ (pc[s] \in Growth => pc'[s] = pc[s] /\ local'[s] = local[s])
    BY <1>2
  <2>8. Installed' = Installed /\ \A s \in Threads : Growing(s)' = Growing(s)
    BY <2>7 DEF Installed, Growing, Growth
  <2>9. KnownKept' /\ OnlyMainMakes'
    BY <2>1, <2>3, <2>5 DEF Sane, KnownKept, OnlyMainMakes
  <2>10. Placed'
    <3> SUFFICES ASSUME Installed PROVE InOrder(Slots, capacity, Vacant')
      BY <2>2, <2>8 DEF Placed
    <3>1. InOrder(Slots, capacity, Vacant)
      BY <2>1 DEF Sane, Placed
    <3>2. CASE capacity > 0
      BY <1>1, <2>1, <2>5, <3>1, <3>2, SlotsType, InOrderLess
    <3>3. CASE ~(capacity > 0)
      BY <1>1, <2>1, <3>3, SlotsType DEF InOrder
    <3> QED  BY <3>2, <3>3
  <2>11. Faithful' /\ Counted'
    BY <2>1, <2>2, <2>6, <2>8 DEF Sane, Faithful, Counted
  <2>12. Fill'
    <3> SUFFICES ASSUME Filling PROVE Fill'
      BY <2>6 DEF Fill
    <3>1. local'[Main] = local[Main]
      BY <2>6
    <3>2. capacity \in Nat /\ local[Main].key \in Keys
      BY <1>1, <2>4, Running DEF Filling, Frame, TypeInv
    <3>3. Leads(Slots, capacity, Vacant, local[Main].key, local[Main].index)
      BY <2>1 DEF Sane, Fill
    <3>4. Leads(Slots, capacity, Vacant', local[Main].key, local[Main].index)
      BY <2>5, <3>2, <3>3, LeadsKept
    <3> QED  BY <2>1, <2>2, <3>1, <3>4 DEF Sane, Fill
  <2>13. \A g \in Threads : Grown(g)'
    BY <2>1, <2>2, <2>7 DEF Sane, Grown, Growth, Holds
  <2>14. ASSUME NEW s \in Threads, Busy(s)', ~disturbed'[s]
         PROVE  Look(Slots, capacity, Vacant', pc'[s], local'[s])
    <3>1. ~disturbed[s]
      BY <1>1, <2>14, RecordFacts DEF Busy
    <3>2. Look(Slots, capacity, Vacant, pc'[s], local'[s])
      <4>1. CASE s = t
        BY <1>2, <1>3, <2>1, <2>14, <3>1, <4>1
      <4>2. CASE s # t
        BY <1>2, <2>1, <2>14, <3>1, <4>2 DEF Sane, Looking, Busy
      <4> QED  BY <4>1, <4>2
    <3>3. local'[s].key \in Keys /\ capacity \in Nat
      <4>1. local'[s] \in Frame
        BY <1>1, <2>14 DEF TypeInv, Busy
      <4> QED  BY <1>1, <4>1 DEF Frame, TypeInv
    <3> QED  BY <2>5, <3>2, <3>3, LookLess
  <2>15. Looking'
    BY <2>2, <2>14 DEF Looking
  <2> QED  BY <2>9, <2>10, <2>11, <2>12, <2>13, <2>15 DEF Sane
<1> QED  BY <1>3, Outer DEF KeptInv

-----------------------------------------------------------------------------
(* An undisturbed thread at an entry.                                      *)
LEMMA Here ==
  ASSUME KeptInv, ~damaged, NEW t \in Threads, pc[t] \in OnSlot, ~disturbed[t]
  PROVE  /\ Busy(t) /\ Rules(t, pc[t], local[t]) /\ Look(Slots, capacity, Vacant, pc[t], local[t])
         /\ Installed /\ \A s \in Threads : ~Growing(s)
         /\ capacity \in Nat /\ capacity > 0 /\ Slots \in [0..capacity-1 -> Slot]
         /\ InOrder(Slots, capacity, Vacant)
         /\ entries # 0 /\ entries \in DOMAIN arrays
         /\ local[t] \in Frame /\ local[t].key \in Keys /\ local[t].key # NoKey
         /\ local[t].array = entries /\ local[t].size = capacity
         /\ local[t].index \in 0..capacity-1 /\ local[t].grave \in {None} \cup 0..capacity-1
         /\ Entry(t) = Slots[local[t].index]
<1> DEFINE my == local[t]
<1>1. TypeInv /\ GrowthInv /\ Ruled /\ Sane
  BY DEF KeptInv, SharingInv
<1>2. Busy(t) /\ pc[t] \notin Growth \cup {"idle"}
  BY DEF Busy, OnSlot, Growth
<1>3. \A s \in Threads : ~Growing(s)
  BY <1>1, <1>2 DEF GrowthInv, Growing, Growth
<1>4. Installed
  BY <1>3 DEF Installed, Growing
<1>5. Aims(pc[t], my)
  BY <1>1, <1>2 DEF GrowthInv
<1>6. /\ my.array = entries /\ my.size = capacity /\ entries # 0 /\ capacity > 0
      /\ my.index \in 0..capacity-1 /\ my.grave \in {None} \cup 0..capacity-1
  BY <1>5 DEF Aims
<1>7. capacity \in Nat /\ Slots \in [0..capacity-1 -> Slot]
  BY <1>1, <1>4, <1>6, SlotsType
<1>8. my \in Frame /\ my.key \in Keys /\ my.key # NoKey
  <2>1. my \in Frame
    BY <1>1, <1>2, Running
  <2> QED  BY <2>1, GlobalsAssumption DEF Frame
<1>9. Rules(t, pc[t], my) /\ Look(Slots, capacity, Vacant, pc[t], my) /\ InOrder(Slots, capacity, Vacant)
  BY <1>1, <1>2, <1>4 DEF Ruled, Sane, Looking, Placed
<1>10. Entry(t) = Slots[my.index] /\ entries \in DOMAIN arrays
  BY <1>1, <1>6, EntriesIn DEF Entry, My, Slots
<1> QED  BY <1>2, <1>3, <1>4, <1>6, <1>7, <1>8, <1>9, <1>10

(* While main makes a variable, an undisturbed instruction of another      *)
(* thread is on one that is defined.                                       *)
LEMMA LiveKey ==
  ASSUME KeptInv, ~damaged, NEW t \in Threads \ {Main}, pc[t] \in OnSlot, ~disturbed[t],
         Makes(Main)
  PROVE  local[t].key # local[Main].key /\ \E i \in 0..capacity-1 : Slots[i].key = local[t].key
<1>1. Busy(t) /\ local[t].key \in Keys /\ Installed
  BY Here
<1>2. Main \in Threads \ {t}
  BY DEF Threads
<1>3. ~Disturbs(Main, t)
  BY <1>1, <1>2 DEF KeptInv, Noticed
<1>4. local[t].key # local[Main].key /\ dict[local[t].key] # NotDefined
  BY <1>3 DEF Disturbs, Making, Makes, Busy
<1>5. Agrees(Slots, capacity, local[t].key, dict[local[t].key])
  BY <1>1, <1>4 DEF KeptInv, Sane, Faithful
<1> QED  BY <1>4, <1>5 DEF Agrees

(* So its probe does not come over the entry of the one that is made.      *)
LEMMA NotMade ==
  ASSUME KeptInv, ~damaged, NEW t \in Threads, pc[t] \in OnSlot, ~disturbed[t],
         NEW j, Leads(Slots, capacity, Vacant, local[t].key, j),
         Slots[j].key \notin {NoKey, local[t].key}
  PROVE  Slots[j].key \notin Vacant \cup {local[t].key}
<1>1. CASE t # Main /\ Makes(Main)
  <2>1. PICK i \in 0..capacity-1 : Slots[i].key = local[t].key
    BY <1>1, LiveKey
  <2>2. capacity \in Nat /\ local[t].key \in Keys /\ InOrder(Slots, capacity, Vacant)
    BY Here
  <2> QED  BY <2>1, <2>2, Behind
<1>2. CASE t = Main \/ ~Makes(Main)
  BY <1>2 DEF Vacant, Made
<1> QED  BY <1>1, <1>2

(* The probe of an undisturbed instruction whose variable has no entry.    *)
LEMMA Missing ==
  ASSUME KeptInv, ~damaged, NEW t \in Threads, pc[t] \in OnSlot, ~disturbed[t],
         NEW j, Leads(Slots, capacity, Vacant, local[t].key, j), Slots[j].key = NoKey
  PROVE  \A i \in 0..capacity-1 : Slots[i].key # local[t].key
<1> SUFFICES ASSUME NEW i \in 0..capacity-1, Slots[i].key = local[t].key PROVE FALSE
  OBVIOUS
<1>1. /\ capacity \in Nat /\ local[t].key \in Keys /\ local[t].key # NoKey
      /\ InOrder(Slots, capacity, Vacant)
  BY Here
<1>2. j = i \/ Slots[j].key \notin Vacant \cup {local[t].key}
  BY <1>1, Behind
<1> QED  BY <1>1, <1>2 DEF Vacant

-----------------------------------------------------------------------------
(* The steps, one by one.                                                  *)

LEMMA BeginKept ==
  ASSUME KeptInv, SharingInv', Record, UNCHANGED dict, NEW t \in Threads, Instruction(t)
  PROVE  KeptInv'
<1>1. PICK op, k, v : /\ Begin(t, op, k, v) /\ op \in {"DEF", "GLD", "GST"}
                      /\ t # Main /\ op # "GLD" => op = "GST" /\ k \in known
  BY DEF Instruction
<1> DEFINE my == [op |-> op, key |-> k, value |-> v, call |-> IF op = "GLD" THEN "get" ELSE "set",
                  array |-> None, size |-> None, index |-> None, grave |-> None,
                  load |-> None, fresh |-> None, isNew |-> FALSE,
                  todo |-> {}, answer |-> NotDefined]
           p == IF op = "GLD" THEN "count" ELSE "load"
<1>2. Moves(t, p, my)
  BY <1>1 DEF Begin, Goto, Moves
<1>3. Rules(t, p, my)
  BY <1>1 DEF Rules, Growth
<1>4. ~my.isNew /\ p \notin Growth /\ p # "store"
  BY DEF Growth
<1> HIDE DEF my
<1>5. Look(Slots, capacity, Vacant, p, my)
  BY DEF Look
<1>6. pc[t] = "idle" /\ UNCHANGED <<count, capacity, entries, arrays, known>>
  BY <1>1 DEF Begin, At, shared
<1> HIDE DEF p
<1>7. t = Main => ~Filling
  BY <1>6 DEF Filling
<1>8. pc[t] \notin Growth
  BY <1>6 DEF Growth
<1> QED  BY <1>2, <1>3, <1>4, <1>5, <1>6, <1>7, <1>8, Private

LEMMA CountKept ==
  ASSUME KeptInv, SharingInv', Record, UNCHANGED dict, NEW t \in Threads,
         TestCount(t) \/ LoadCount(t)
  PROVE  KeptInv'
<1>1. TypeInv
  BY DEF KeptInv, SharingInv
<1> PICK my : my = local[t]
  OBVIOUS
<1> DEFINE none == [WithoutSlot(my) EXCEPT !.todo = {}, !.answer = NotDefined]
           loaded == [my EXCEPT !.load = count]
<1>2. /\ pc[t] \in {"count", "load"} /\ UNCHANGED <<count, capacity, entries, arrays, known>>
      /\ Busy(t)
  BY DEF TestCount, LoadCount, At, shared, Busy
<1>3. my \in Frame /\ Rules(t, pc[t], my)
  BY <1>1, <1>2, Running DEF KeptInv, Ruled, Busy
<1>4. \/ Moves(t, "done", none)
      \/ Moves(t, "find", my) /\ pc[t] = "count"
      \/ Moves(t, "compare", loaded) /\ pc[t] = "load"
  <2>1. UNCHANGED local => local' = [local EXCEPT ![t] = my]
    BY <1>1 DEF TypeInv
  <2>2. CASE TestCount(t)
    <3>1. (Goto(t, "done") /\ Finished(t, NotDefined)) \/ (Goto(t, "find") /\ UNCHANGED local)
      BY <2>2 DEF TestCount
    <3>2. pc[t] = "count"
      BY <2>2 DEF TestCount, At
    <3>3. CASE Goto(t, "done") /\ Finished(t, NotDefined)
      BY <3>3 DEF Finished, Goto, Moves
    <3>4. CASE Goto(t, "find") /\ UNCHANGED local
      BY <2>1, <3>2, <3>4 DEF Goto, Moves
    <3> QED  BY <3>1, <3>3, <3>4
  <2>3. CASE LoadCount(t)
    BY <2>3 DEF LoadCount, Let, Goto, Moves, At
  <2> QED  BY <2>2, <2>3, Zenon
<1>5. Rules(t, "compare", loaded) \/ pc[t] # "load"
  BY <1>3 DEF Rules, Frame, Growth
<1>6. Rules(t, "find", my)
  BY <1>2, <1>3 DEF Rules, Growth
<1>7. loaded.isNew = my.isNew /\ loaded.key = my.key
  BY <1>3 DEF Frame
<1> HIDE DEF none, loaded
<1>8. \A m : \A p \in {"done", "find", "compare"} : Look(Slots, capacity, Vacant, p, m)
  BY DEF Look
<1>9. {"done", "find", "compare", "count", "load"} \cap (Growth \cup {"store"}) = {}
  BY DEF Growth
<1>10. t = Main => ~Filling
  BY <1>2 DEF Filling
<1>11. my.isNew => Makes(t)
  BY <1>2 DEF Makes
<1>12. CASE Moves(t, "done", none)
  BY <1>2, <1>8, <1>9, <1>10, <1>12, Private
<1>13. CASE Moves(t, "find", my)
  BY <1>2, <1>6, <1>8, <1>9, <1>10, <1>11, <1>13, Private
<1>14. CASE Moves(t, "compare", loaded) /\ pc[t] = "load"
  BY <1>2, <1>5, <1>7, <1>8, <1>9, <1>10, <1>11, <1>14, Private
<1> QED  BY <1>4, <1>12, <1>13, <1>14

(* A tab_set that does not make the table grow.                            *)
LEMMA StayKept ==
  ASSUME KeptInv, SharingInv', Record, UNCHANGED dict, NEW t \in Threads, Compare(t),
         pc'[t] = "find"
  PROVE  KeptInv'
<1>1. TypeInv
  BY DEF KeptInv, SharingInv
<1> PICK my : my = local[t]
  OBVIOUS
<1> DEFINE stays == [my EXCEPT !.load = None]
<1>2. pc[t] = "compare" /\ Busy(t)
  BY DEF Compare, At, Busy
<1>3. my \in Frame /\ Rules(t, pc[t], my)
  BY <1>1, <1>2, Running DEF KeptInv, Ruled, Busy
<1>4. Moves(t, "find", stays) /\ UNCHANGED <<count, capacity, entries, arrays, known>>
  BY <1>1 DEF Compare, My, Goto, Let, Moves, TypeInv
<1>5. Rules(t, "find", stays) /\ stays.isNew = my.isNew /\ stays.key = my.key
  BY <1>2, <1>3 DEF Rules, Frame, Growth
<1> HIDE DEF stays
<1>6. Look(Slots, capacity, Vacant, "find", stays)
  BY DEF Look
<1>7. {"compare", "find"} \cap (Growth \cup {"store"}) = {}
  BY DEF Growth
<1>8. t = Main => ~Filling
  BY <1>2 DEF Filling
<1>9. my.isNew => Makes(t)
  BY <1>2 DEF Makes
<1> QED  BY <1>2, <1>4, <1>5, <1>6, <1>7, <1>8, <1>9, Private

LEMMA ArgumentsKept ==
  ASSUME KeptInv, SharingInv', Record, UNCHANGED dict, NEW t \in Threads,
         ReadEntries(t) \/ ReadCapacity(t)
  PROVE  KeptInv'
<1>1. TypeInv /\ TypeInv' /\ GrowthInv'
  BY DEF KeptInv, SharingInv
<1> PICK my : my = local[t]
  OBVIOUS
<1>2. pc[t] = "find" /\ Busy(t)
  BY DEF ReadEntries, ReadCapacity, At, Busy
<1>3. my \in Frame /\ my.grave = None /\ Rules(t, pc[t], my)
  <2>1. my \in Frame /\ Control(pc[t], my)
    BY <1>1, <1>2, Running
  <2> QED  BY <1>2, <2>1 DEF Control, KeptInv, Ruled
<1>4. PICK array, size : Arguments(t, array, size)
  BY DEF ReadEntries, ReadCapacity
<1> DEFINE index == IF array = None \/ size \in {None, 0} THEN None ELSE Hash[my.key] % size
           my2 == [my EXCEPT !.array = array, !.size = size, !.index = index]
           p == IF array # None /\ size # None THEN "key" ELSE "find"
<1>5. Moves(t, p, my2) /\ UNCHANGED <<count, capacity, entries, arrays, known>>
  <2>1. pc' = [pc EXCEPT ![t] = p]
    BY <1>1, <1>2, <1>4 DEF Arguments, Goto, TypeInv
  <2> QED  BY <1>4, <2>1 DEF Arguments, My, Moves, shared
<1> HIDE DEF index
<1>6. /\ my2.array = array /\ my2.size = size /\ my2.index = index /\ my2.grave = None
      /\ my2.isNew = my.isNew /\ my2.key = my.key
  BY <1>3 DEF Frame
<1>7. Rules(t, p, my2)
  BY <1>2, <1>3 DEF Rules, Frame, Growth
<1>8. p \notin Growth /\ p # "store"
  BY DEF Growth
<1> HIDE DEF my2
<1>9. ASSUME ~damaged', ~disturbed'[t] PROVE Look(Slots, capacity, Vacant, p, my2)
  <2>1. CASE p = "key"
    <3>1. pc'[t] = "key" /\ local'[t] = my2
      BY <1>1, <1>5, <2>1, MovesAt
    <3>2. Aims("key", my2)'
      BY <1>1, <1>9, <3>1 DEF GrowthInv, Busy
    <3>3. size = capacity /\ capacity > 0 /\ array = entries
      BY <1>5, <1>6, <3>2 DEF Aims, OnSlot
    <3>4. capacity \in Nat /\ my.key \in Keys
      BY <1>1, <1>3 DEF TypeInv, Frame
    <3>5. index = Hash[my.key] % capacity
      BY <2>1, <3>3, <3>4 DEF index, None
    <3>6. Leads(Slots, capacity, Vacant, my.key, index)
      BY <3>3, <3>4, <3>5, LeadsStart
    <3> QED  BY <1>6, <2>1, <3>6 DEF Look
  <2>2. CASE p # "key"
    BY <2>2 DEF Look
  <2> QED  BY <2>1, <2>2
<1>10. pc[t] \notin Growth /\ (t = Main => ~Filling) /\ (my.isNew => Makes(t))
  BY <1>2 DEF Filling, Makes, Growth
<1> HIDE DEF p
<1> QED  BY <1>5, <1>6, <1>7, <1>8, <1>9, <1>10, Private

LEMMA ReturnKept ==
  ASSUME KeptInv, SharingInv', Record, UNCHANGED dict, NEW t \in Threads, Return(t)
  PROVE  KeptInv'
<1>1. TypeInv
  BY DEF KeptInv, SharingInv
<1> PICK my : my = local[t]
  OBVIOUS
<1>2. pc[t] = "done" /\ UNCHANGED <<count, capacity, entries, arrays, known>>
  BY DEF Return, At, shared
<1>3. Moves(t, "idle", my)
  BY <1>1 DEF Return, Goto, Moves, TypeInv
<1>4. Look(Slots, capacity, Vacant, "idle", my)
  BY DEF Look
<1>5. pc[t] \notin Growth /\ "idle" \notin Growth /\ (t = Main => ~Filling)
  BY <1>2 DEF Filling, Growth
<1> QED  BY <1>2, <1>3, <1>4, <1>5, Private

(* A step that changes nothing but whether it is all over.                 *)
LEMMA SameKept ==
  ASSUME KeptInv, SharingInv', UNCHANGED <<shared, pc, local, known, dict>>, Noticed',
         ~damaged' => ~damaged,
         \A s \in Threads : Busy(s) /\ ~disturbed'[s] => ~disturbed[s]
  PROVE  KeptInv'
<1>1. UNCHANGED <<count, capacity, entries, arrays, pc, local, known, dict>>
  BY DEF shared
<1>2. /\ Slots' = Slots /\ Made' = Made /\ Vacant' = Vacant /\ Installed' = Installed
      /\ Filling' = Filling /\ Filled' = Filled
      /\ \A s \in Threads : (Busy(s)' <=> Busy(s)) /\ (Growing(s)' <=> Growing(s))
      /\ \A s \in Threads : Makes(s)' <=> Makes(s)
  BY <1>1 DEF Slots, Made, Vacant, Makes, Installed, Filling, Filled, Busy, Growing
<1>3. Ruled'
  BY <1>1, <1>2 DEF KeptInv, Ruled, Rules
<1>4. ASSUME ~damaged', Sane PROVE Sane'
  <2>1. KnownKept' /\ OnlyMainMakes'
    BY <1>1, <1>2, <1>4 DEF Sane, KnownKept, OnlyMainMakes
  <2>2. Placed' /\ Faithful' /\ Counted'
    BY <1>1, <1>2, <1>4 DEF Sane, Placed, Faithful, Counted
  <2>3. Fill'
    BY <1>1, <1>2, <1>4 DEF Sane, Fill
  <2>4. \A g \in Threads : Grown(g)'
    BY <1>1, <1>2, <1>4 DEF Sane, Grown, Holds
  <2>5. Looking'
    BY <1>1, <1>2, <1>4 DEF Sane, Looking
  <2> QED  BY <2>1, <2>2, <2>3, <2>4, <2>5 DEF Sane
<1> QED  BY <1>1, <1>3, <1>4 DEF KeptInv

LEMMA BadKept ==
  ASSUME KeptInv, SharingInv', Record, UNCHANGED dict, NEW t \in Threads, BadAccess(t)
  PROVE  KeptInv'
<1>1. GrowthInv
  BY DEF KeptInv, SharingInv
<1>2. UNCHANGED <<shared, pc, local, known>>
  BY DEF BadAccess
<1>3. \A s \in Threads : Busy(s) /\ ~disturbed'[s] => ~disturbed[s]
  BY <1>1, <1>2, RecordFacts DEF Busy
<1> QED  BY <1>1, <1>2, <1>3, SameKept, NoticedNext, RecordFacts

(* Another entry, or the end of the search.                                *)
LEMMA ProbeKeyKept ==
  ASSUME KeptInv, SharingInv', Record, UNCHANGED dict, NEW t \in Threads, ProbeKey(t)
  PROVE  KeptInv'
<1>1. TypeInv
  BY DEF KeptInv, SharingInv
<1> PICK my : my = local[t]
  OBVIOUS
<1>2. /\ pc[t] = "key" /\ my \in Frame
      /\ my.index \in Nat /\ my.size \in Nat /\ my.size > 0
      /\ UNCHANGED <<count, capacity, entries, arrays, known>>
  BY <1>1, ProbeMoves DEF ProbeKey, At
<1>3. \/ Entry(t).key = my.key /\ Moves(t, "found", my)
      \/ Entry(t).key = NoKey /\ Moves(t, "value", my)
      \/ Entry(t).key \notin {my.key, NoKey} /\ Moves(t, "key", Onward(t))
  <2>1. \/ Entry(t).key = my.key /\ Goto(t, "found") /\ UNCHANGED local
        \/ Entry(t).key = NoKey /\ Goto(t, "value") /\ UNCHANGED local
        \/ Entry(t).key \notin {my.key, NoKey} /\ Let(t, "index", NextIndex(t)) /\ UNCHANGED pc
    BY DEF ProbeKey, My
  <2>2. pc = [pc EXCEPT ![t] = pc[t]] /\ local = [local EXCEPT ![t] = local[t]]
    BY <1>1 DEF TypeInv
  <2> QED  BY <1>2, <2>1, <2>2 DEF Goto, Let, Moves, Onward
<1>4. Busy(t) /\ pc[t] \in OnSlot /\ pc[t] \notin Growth
  BY <1>2 DEF Busy, OnSlot, Growth
<1>5. Rules(t, pc[t], my)
  BY <1>4 DEF KeptInv, Ruled
<1>6. /\ Onward(t).isNew = my.isNew /\ Onward(t).key = my.key /\ Onward(t).grave = my.grave
      /\ Onward(t).index = NextIndex(t)
  BY <1>2 DEF Frame, Onward
<1>7. Rules(t, "found", my) /\ Rules(t, "value", my) /\ Rules(t, "key", Onward(t))
  <2>1. Rules(t, "found", my) /\ Rules(t, "value", my)
    BY <1>2, <1>5 DEF Rules, Growth
  <2>2. Onward(t).op = my.op /\ Onward(t).call = my.call
    BY <1>2 DEF Frame, Onward
  <2> QED  BY <1>2, <1>5, <1>6, <2>1, <2>2 DEF Rules, Growth
<1>8. /\ {"key", "value", "found"} \cap (Growth \cup {"store"}) = {}
      /\ t = Main => ~Filling
      /\ my.isNew => Makes(t)
  BY <1>2, <1>4 DEF Growth, Filling, Makes
<1>9. ASSUME ~damaged, ~disturbed[t]
      PROVE  /\ Look(Slots, capacity, Vacant, "key", my)
             /\ capacity \in Nat /\ my.key \in Keys
             /\ Entry(t) = Slots[my.index] /\ my.size = capacity
             /\ my.grave # None =>
                  \A i \in 0..capacity-1 : Slots[i].key # my.key
             /\ my.index \in 0..capacity-1
  <2>1. /\ Look(Slots, capacity, Vacant, "key", my) /\ capacity \in Nat /\ my.key \in Keys
        /\ Entry(t) = Slots[my.index] /\ my.size = capacity /\ my.index \in 0..capacity-1
    BY <1>2, <1>4, <1>9, Here
  <2>2. my.grave # None => \A i \in 0..capacity-1 : Slots[i].key # my.key
    BY <1>4, <1>9, <2>1, Missing DEF Look
  <2> QED  BY <2>1, <2>2
<1>10. CASE Entry(t).key = my.key /\ Moves(t, "found", my)
  <2>1. ASSUME ~damaged, ~disturbed[t] PROVE Look(Slots, capacity, Vacant, "found", my)
    BY <1>9, <1>10, <2>1 DEF Look
  <2> QED  BY <1>2, <1>4, <1>7, <1>8, <1>10, <2>1, Private
<1>11. CASE Entry(t).key = NoKey /\ Moves(t, "value", my)
  <2>1. ASSUME ~damaged, ~disturbed[t] PROVE Look(Slots, capacity, Vacant, "value", my)
    BY <1>9, <1>11, <2>1 DEF Look
  <2> QED  BY <1>2, <1>4, <1>7, <1>8, <1>11, <2>1, Private
<1>12. CASE Entry(t).key \notin {my.key, NoKey} /\ Moves(t, "key", Onward(t))
  <2>1. ASSUME ~damaged, ~disturbed[t] PROVE Look(Slots, capacity, Vacant, "key", Onward(t))
    <3>1. NextIndex(t) = (my.index + 1) % capacity
      BY <1>2, <1>9, <2>1, NextIn
    <3>2. CASE my.grave = None
      <4>1. Leads(Slots, capacity, Vacant, my.key, my.index)
        BY <1>9, <2>1, <3>2 DEF Look
      <4>2. Slots[my.index].key \notin Vacant \cup {my.key}
        BY <1>4, <1>9, <1>12, <2>1, <4>1, NotMade
      <4>3. Leads(Slots, capacity, Vacant, my.key, (my.index + 1) % capacity)
        BY <1>9, <2>1, <4>1, <4>2, LeadsOn
      <4> QED  BY <1>6, <3>1, <3>2, <4>3 DEF Look
    <3>3. CASE my.grave # None
      BY <1>6, <1>9, <2>1, <3>3 DEF Look
    <3> QED  BY <3>2, <3>3
  <2> QED  BY <1>2, <1>4, <1>6, <1>7, <1>8, <1>12, <2>1, Private
<1> QED  BY <1>3, <1>10, <1>11, <1>12

LEMMA ProbeValueKept ==
  ASSUME KeptInv, SharingInv', Record, UNCHANGED dict, NEW t \in Threads, ProbeValue(t)
  PROVE  KeptInv'
<1>1. TypeInv
  BY DEF KeptInv, SharingInv
<1> PICK my : my = local[t]
  OBVIOUS
<1>2. /\ pc[t] = "value" /\ my \in Frame /\ my.index \in Nat
      /\ UNCHANGED <<count, capacity, entries, arrays, known>>
  BY <1>1, ProbeMoves DEF ProbeValue, At
<1>3. Moves(t, "found", AtSlot(t)) \/ Moves(t, "key", PastGrave(t))
  BY DEF ProbeValue, Goto, Let, Moves, My, AtSlot, PastGrave
<1>4. Busy(t) /\ pc[t] \in OnSlot /\ pc[t] \notin Growth
  BY <1>2 DEF Busy, OnSlot, Growth
<1>5. Rules(t, pc[t], my)
  BY <1>4 DEF KeptInv, Ruled
<1>6. /\ \A m \in {AtSlot(t), PastGrave(t)} :
           m.isNew = my.isNew /\ m.key = my.key /\ m.op = my.op /\ m.call = my.call
      /\ AtSlot(t).index = IF my.grave = None THEN my.index ELSE my.grave
      /\ PastGrave(t).grave = IF my.grave = None THEN my.index ELSE my.grave
  BY <1>2 DEF Frame, AtSlot, PastGrave
<1>7. Rules(t, "found", AtSlot(t)) /\ Rules(t, "key", PastGrave(t))
  BY <1>2, <1>5, <1>6 DEF Rules, Growth
<1>8. /\ {"key", "value", "found"} \cap (Growth \cup {"store"}) = {}
      /\ t = Main => ~Filling
      /\ my.isNew => Makes(t)
  BY <1>2, <1>4 DEF Growth, Filling, Makes
<1>9. ASSUME ~damaged, ~disturbed[t]
      PROVE  /\ Look(Slots, capacity, Vacant, "found", AtSlot(t))
             /\ Look(Slots, capacity, Vacant, "key", PastGrave(t))
  <2>1. Look(Slots, capacity, Vacant, "value", my)
    BY <1>2, <1>4, <1>9, Here
  <2>2. my.index # None
    BY <1>2 DEF None
  <2> QED  BY <1>6, <2>1, <2>2 DEF Look
<1>10. CASE Moves(t, "found", AtSlot(t))
  BY <1>2, <1>4, <1>6, <1>7, <1>8, <1>9, <1>10, Private
<1>11. CASE Moves(t, "key", PastGrave(t))
  BY <1>2, <1>4, <1>6, <1>7, <1>8, <1>9, <1>11, Private
<1> QED  BY <1>3, <1>10, <1>11

(* tab_get's two ways on, and the words it reads.                          *)
LEMMA GetKept ==
  ASSUME KeptInv, SharingInv', Record, UNCHANGED dict, NEW t \in Threads,
         FoundToGet(t) \/ Fetch(t)
  PROVE  KeptInv'
<1>1. TypeInv
  BY DEF KeptInv, SharingInv
<1> PICK my : my = local[t]
  OBVIOUS
<1>2. /\ pc[t] \in {"found", "fetch"} /\ my \in Frame
      /\ UNCHANGED <<count, capacity, entries, arrays, known>>
  BY <1>1, Running DEF FoundToGet, Fetch, At, shared
<1>3. Busy(t) /\ pc[t] \in OnSlot /\ pc[t] \notin Growth
  BY <1>2 DEF Busy, OnSlot, Growth
<1>4. Rules(t, pc[t], my)
  BY <1>3 DEF KeptInv, Ruled
<1>5. \/ \E m : Moves(t, "done", m)
      \/ \E m : /\ Moves(t, "fetch", m) /\ m.op = my.op /\ m.call = "get" /\ my.call = "get"
                /\ m.key = my.key /\ m.index = my.index /\ m.isNew = my.isNew
                /\ m.todo # {} /\ m.todo \subseteq {"type", "raw"}
                /\ pc[t] = "found" => Entry(t).key # NoKey
  <2>1. CASE FoundToGet(t)
    <3>1. my.call = "get" /\ pc[t] = "found"
      BY <2>1 DEF FoundToGet, At, My
    <3>2. CASE Entry(t).key = NoKey
      BY <2>1, <3>2 DEF FoundToGet, Finished, Goto, Moves
    <3>3. CASE Entry(t).key # NoKey
      <4> DEFINE m == [my EXCEPT !.todo = {"type", "raw"}]
      <4>1. Moves(t, "fetch", m)
        BY <2>1, <3>3 DEF FoundToGet, Let, Goto, Moves
      <4>2. /\ m.op = my.op /\ m.call = "get" /\ m.key = my.key /\ m.index = my.index
            /\ m.isNew = my.isNew /\ m.todo = {"type", "raw"}
        BY <1>2, <3>1 DEF Frame
      <4> QED  BY <3>1, <3>3, <4>1, <4>2
    <3> QED  BY <3>2, <3>3
  <2>2. CASE Fetch(t)
    <3>1. pc[t] = "fetch"
      BY <2>2 DEF Fetch, At
    <3>2. my.call = "get" /\ my.todo \subseteq {"type", "raw"}
      BY <1>4, <3>1 DEF Rules
    <3>3. PICK word \in my.todo :
            LET answer == [my.answer EXCEPT ![word] = Entry(t)[word]] IN
            IF my.todo = {word}
            THEN Finished(t, answer) /\ Goto(t, "done")
            ELSE local' = [local EXCEPT ![t].answer = answer, ![t].todo = @ \ {word}] /\ UNCHANGED pc
      BY <2>2 DEF Fetch, My
    <3> PICK answer : answer = [my.answer EXCEPT ![word] = Entry(t)[word]]
      OBVIOUS
    <3>4. CASE my.todo = {word}
      BY <3>3, <3>4 DEF Finished, Goto, Moves
    <3>5. CASE my.todo # {word}
      <4> DEFINE m == [my EXCEPT !.answer = answer, !.todo = my.todo \ {word}]
      <4>1. Moves(t, "fetch", m)
        BY <1>1, <3>1, <3>3, <3>5 DEF Moves, TypeInv
      <4>2. /\ m.op = my.op /\ m.call = "get" /\ m.key = my.key /\ m.index = my.index
            /\ m.isNew = my.isNew /\ m.todo = my.todo \ {word}
        BY <1>2, <3>2 DEF Frame
      <4>3. m.todo # {} /\ m.todo \subseteq {"type", "raw"}
        BY <3>2, <3>5, <4>2
      <4> QED  BY <3>1, <3>2, <4>1, <4>2, <4>3
    <3> QED  BY <3>4, <3>5
  <2> QED  BY <2>1, <2>2
<1>6. /\ {"done", "fetch"} \cap (Growth \cup {"store"}) = {}
      /\ t = Main => ~Filling
      /\ my.isNew => Makes(t)
  BY <1>2, <1>3 DEF Growth, Filling, Makes
<1>7. CASE \E m : Moves(t, "done", m)
  <2> PICK m : Moves(t, "done", m)
    BY <1>7
  <2>1. Look(Slots, capacity, Vacant, "done", m)
    BY DEF Look
  <2> QED  BY <1>2, <1>3, <1>6, <2>1, Private
<1>8. ASSUME NEW m, Moves(t, "fetch", m), m.op = my.op, m.call = "get", my.call = "get",
             m.key = my.key, m.index = my.index, m.isNew = my.isNew,
             m.todo # {}, m.todo \subseteq {"type", "raw"}, pc[t] = "found" => Entry(t).key # NoKey
      PROVE  KeptInv'
  <2>1. Rules(t, "fetch", m)
    BY <1>2, <1>4, <1>8 DEF Rules, Growth
  <2>2. ASSUME ~damaged, ~disturbed[t] PROVE Look(Slots, capacity, Vacant, "fetch", m)
    <3>1. Look(Slots, capacity, Vacant, pc[t], my) /\ Entry(t) = Slots[my.index]
      BY <1>3, <2>2, Here
    <3>2. Slots[my.index].key = my.key
      BY <1>2, <1>8, <3>1 DEF Look
    <3> QED  BY <1>8, <3>2 DEF Look
  <2> QED  BY <1>2, <1>3, <1>6, <1>8, <2>1, <2>2, Private
<1> QED  BY <1>5, <1>7, <1>8

(* tab_remove finds nothing; tab_set finds the variable.                   *)
LEMMA FoundKept ==
  ASSUME KeptInv, SharingInv', Record, UNCHANGED dict, NEW t \in Threads,
         \/ FoundToRemove(t) /\ Entry(t).key = NoKey
         \/ FoundToSet(t) /\ Entry(t).key # NoKey
  PROVE  KeptInv'
<1>1. TypeInv
  BY DEF KeptInv, SharingInv
<1> PICK my : my = local[t]
  OBVIOUS
<1>2. /\ pc[t] = "found" /\ my \in Frame
      /\ UNCHANGED <<count, capacity, entries, arrays, known>>
  BY <1>1, Running DEF FoundToRemove, FoundToSet, At, shared, IsEmpty
<1>3. Busy(t) /\ pc[t] \in OnSlot /\ pc[t] \notin Growth
  BY <1>2 DEF Busy, OnSlot, Growth
<1>4. Rules(t, pc[t], my)
  BY <1>3 DEF KeptInv, Ruled
<1>5. /\ {"done", "store"} \cap Growth = {}
      /\ t = Main => ~Filling
  BY <1>2, <1>3 DEF Growth, Filling
<1>6. CASE FoundToRemove(t) /\ Entry(t).key = NoKey
  <2> PICK m : Moves(t, "done", m)
    BY <1>6 DEF FoundToRemove, Finished, Goto, Moves
  <2>1. Look(Slots, capacity, Vacant, "done", m)
    BY DEF Look
  <2> QED  BY <1>2, <1>3, <1>5, <2>1, Private
<1>7. CASE FoundToSet(t) /\ Entry(t).key # NoKey
  <2> DEFINE m == [my EXCEPT !.isNew = FALSE, !.todo = {"key", "type", "raw"}]
  <2>1. Moves(t, "store", m) /\ my.call = "set"
    BY <1>7 DEF FoundToSet, Goto, Moves, My
  <2>2. /\ m.op = my.op /\ m.call = my.call /\ m.key = my.key /\ m.index = my.index
        /\ m.isNew = FALSE /\ m.todo = {"key", "type", "raw"}
    BY <1>2 DEF Frame
  <2> HIDE DEF m
  <2>3. Rules(t, "store", m)
    BY <1>2, <1>4, <2>1, <2>2 DEF Rules, Growth
  <2>4. ASSUME ~damaged, ~disturbed[t] PROVE Look(Slots, capacity, Vacant, "store", m)
    <3>1. Look(Slots, capacity, Vacant, "found", my) /\ Entry(t) = Slots[my.index]
      BY <1>2, <1>3, <2>4, Here
    <3>2. Slots[my.index].key = my.key
      BY <1>7, <3>1 DEF Look
    <3> QED  BY <2>2, <3>2 DEF Look
  <2> QED  BY <1>2, <1>3, <1>5, <2>1, <2>2, <2>3, <2>4, Private
<1> QED  BY <1>6, <1>7

-----------------------------------------------------------------------------
(* Main makes a variable, and takes it out again.                          *)

LEMMA UsedFinite ==
  ASSUME NEW n \in Nat, NEW slots
  PROVE  IsFiniteSet(Used(slots, n)) /\ Cardinality(Used(slots, n)) \in Nat
<1>1. IsFiniteSet(0..n-1) /\ Used(slots, n) \subseteq 0..n-1
  BY FS_Interval DEF Used
<1> QED  BY <1>1, FS_Subset, FS_CardinalityType

(* A thread that stores is undisturbed, or all bets are off.               *)
LEMMA StoresCalmly ==
  ASSUME KeptInv, SharingInv', Record, ~damaged', NEW t \in Threads, Busy(t), local[t].op # "GLD"
  PROVE  ~damaged /\ Sane /\ ~disturbed[t]
<1>1. GrowthInv
  BY DEF KeptInv, SharingInv
<1> QED  BY <1>1, RecordFacts DEF KeptInv, GrowthInv

(* Whoever is not disturbed by main's making of k is on a variable that    *)
(* is defined, and another one.                                            *)
LEMMA OthersApart ==
  ASSUME Noticed, NEW s \in Threads \ {Main}, Busy(s), ~disturbed[s], Makes(Main)
  PROVE  local[s].key # local[Main].key /\ dict[local[s].key] # NotDefined
<1>1. Main \in Threads \ {s}
  BY DEF Threads
<1>2. ~Disturbs(Main, s)
  BY <1>1 DEF Noticed
<1> QED  BY <1>2 DEF Disturbs, Making, Makes, Busy

(* tab_set has found no entry of the variable.                             *)
LEMMA OnlyMainDefines ==
  ASSUME KeptInv, ~damaged, NEW t \in Threads, pc[t] = "found", ~disturbed[t],
         local[t].call = "set", Entry(t).key = NoKey
  PROVE  /\ t = Main /\ local[t].key \notin known
         /\ \A i \in 0..capacity-1 : Slots[i].key # local[t].key
<1> PICK k : k = local[t].key
  OBVIOUS
<1>1. pc[t] \in OnSlot
  BY DEF OnSlot
<1>2. /\ Rules(t, pc[t], local[t]) /\ Look(Slots, capacity, Vacant, pc[t], local[t])
      /\ Installed /\ k \in Keys /\ Entry(t) = Slots[local[t].index]
  BY <1>1, Here
<1>3. \A i \in 0..capacity-1 : Slots[i].key # k
  BY <1>1, <1>2, Missing DEF Look
<1>4. k \notin known
  <2> SUFFICES ASSUME k \in known PROVE FALSE
    OBVIOUS
  <2>1. dict[k].type \in Types /\ k \notin Made
    BY DEF KeptInv, Sane, KnownKept
  <2>2. dict[k] # NotDefined
    BY <2>1 DEF NotDefined, Types
  <2>3. ~(Filling /\ k = local[Main].key)
    BY <2>1 DEF Filling, Made, Makes, Busy
  <2>4. Agrees(Slots, capacity, k, dict[k])
    BY <1>2, <2>3 DEF KeptInv, Sane, Faithful
  <2> QED  BY <1>3, <2>2, <2>4 DEF Agrees
<1>5. t = Main
  BY <1>2, <1>4 DEF Rules
<1> QED  BY <1>3, <1>4, <1>5

LEMMA FillStarts ==
  ASSUME KeptInv, SharingInv', Record, NEW t \in Threads, NEW my, pc[t] = "found",
         Moves(t, "store", my), UNCHANGED <<capacity, entries, arrays, known, dict>>,
         Rules(t, "store", my), my.isNew, my.todo = {"key", "type", "raw"},
         my.key = local[t].key, my.index = local[t].index, my.op = local[t].op,
         my.call = local[t].call,
         \/ /\ my.call = "set" /\ Entry(t).key = NoKey
            /\ count' = IF IsEmpty(Entry(t)) THEN count + 1 ELSE count
         \/ my.call = "remove" /\ local[t].isNew /\ Entry(t).key # NoKey /\ UNCHANGED count
  PROVE  KeptInv'
<1> PICK k, i : k = my.key /\ i = my.index
  OBVIOUS
<1>1. TypeInv /\ GrowthInv /\ TypeInv' /\ GrowthInv'
  BY DEF KeptInv, SharingInv
<1>2. /\ pc'[t] = "store" /\ local'[t] = my
      /\ \A s \in Threads \ {t} : pc'[s] = pc[s] /\ local'[s] = local[s]
  BY <1>1, MovesAt
<1>3. ASSUME ~damaged' PROVE Sane'
  <2>1. Busy(t) /\ pc[t] \in OnSlot
    BY DEF Busy, OnSlot
  <2>2. ~damaged /\ Sane /\ ~disturbed[t]
    <3>1. local[t].op # "GLD"
      BY DEF Rules
    <3> QED  BY <1>3, <2>1, <3>1, StoresCalmly
  <2>3. /\ Rules(t, "found", local[t]) /\ Look(Slots, capacity, Vacant, "found", local[t])
        /\ Installed /\ \A s \in Threads : ~Growing(s)
        /\ capacity \in Nat /\ capacity > 0 /\ Slots \in [0..capacity-1 -> Slot]
        /\ InOrder(Slots, capacity, Vacant)
        /\ k \in Keys /\ k # NoKey /\ i \in 0..capacity-1 /\ Entry(t) = Slots[i]
    BY <2>1, <2>2, Here
  <2>4. t = Main /\ k \notin known
    <3>1. CASE my.call = "set" /\ Entry(t).key = NoKey
      BY <2>2, <3>1, OnlyMainDefines
    <3>2. CASE local[t].isNew
      BY <2>1, <2>2, <3>2 DEF Sane, OnlyMainMakes, Makes, KnownKept, Made
    <3> QED  BY <3>1, <3>2
  <2>5. Slots' = Slots /\ ~Filling /\ Filling' /\ Filled' = {i} /\ Filled = {}
    BY <1>2, <2>4 DEF Slots, Filling, Filled
  <2>6. Vacant' = {NoKey, k} /\ Made' = {k} /\ Made \subseteq {k}
    BY <1>2, <2>1, <2>4 DEF Vacant, Made, Makes, Busy
  <2>7. /\ \A j \in 0..capacity-1 : Slots[j].key \in Vacant' => Slots[j].key \in Vacant
        /\ \A j \in 0..capacity-1 : j # i => Slots[j].key # k
        /\ Slots[i].key = IF my.call = "set" THEN NoKey ELSE k
    <3>1. CASE my.call = "set" /\ Entry(t).key = NoKey
      <4>1. \A j \in 0..capacity-1 : Slots[j].key # k
        BY <2>2, <3>1, OnlyMainDefines
      <4> QED  BY <2>3, <2>6, <3>1, <4>1 DEF Vacant
    <3>2. CASE my.call = "remove" /\ local[t].isNew /\ Entry(t).key # NoKey
      <4>1. Vacant = {NoKey, k}
        BY <2>1, <2>4, <3>2 DEF Vacant, Made, Makes
      <4>2. Slots[i].key = k /\ Leads(Slots, capacity, Vacant, k, i)
        BY <2>3, <3>2 DEF Look
      <4>3. \A j \in 0..capacity-1 : j # i => Slots[j].key # k
        BY <2>3, <4>1, <4>2, Behind
      <4> QED  BY <2>6, <3>2, <4>1, <4>2, <4>3
    <3> QED  BY <3>1, <3>2
  <2>8. Installed' /\ \A s \in Threads : ~Growing(s)'
    BY <1>2, <2>3 DEF Installed, Growing
  <2>9. KnownKept' /\ OnlyMainMakes'
    <3>1. \A s \in Threads \ {t} : Makes(s)' = Makes(s)
      BY <1>2 DEF Makes, Busy
    <3> QED  BY <2>2, <2>4, <2>6, <3>1 DEF Sane, KnownKept, OnlyMainMakes
  <2>10. Placed'
    <3>1. InOrder(Slots, capacity, Vacant')
      BY <2>3, <2>7, InOrderLess
    <3> QED  BY <2>5, <3>1 DEF Placed
  <2>11. Faithful'
    <3>1. \A j \in Keys : Agrees(Slots, capacity, j, dict[j])
      BY <2>2, <2>3, <2>5 DEF Sane, Faithful
    <3> QED  BY <2>5, <3>1 DEF Faithful
  <2>12. Counted'
    <3>1. count = Cardinality(Used(Slots, capacity))
      BY <2>2, <2>3, <2>5 DEF Sane, Counted
    <3>2. IsFiniteSet(Used(Slots, capacity)) /\ Cardinality(Used(Slots, capacity)) \in Nat
      BY <2>3, UsedFinite
    <3>3. CASE i \in Used(Slots, capacity)
      <4>1. ~IsEmpty(Entry(t))
        BY <2>3, <3>3 DEF Used
      <4>2. Used(Slots, capacity) \cup {i} = Used(Slots, capacity)
        BY <3>3
      <4> QED  BY <2>5, <3>1, <4>1, <4>2 DEF Counted
    <3>4. CASE i \notin Used(Slots, capacity)
      <4>1. IsEmpty(Entry(t)) /\ count' = count + 1
        BY <2>3, <3>4 DEF Used, IsEmpty
      <4>2. Cardinality(Used(Slots, capacity) \cup {i}) = Cardinality(Used(Slots, capacity)) + 1
        BY <3>2, <3>4, FS_AddElement
      <4> QED  BY <2>5, <3>1, <4>1, <4>2 DEF Counted
    <3> QED  BY <3>3, <3>4
  <2>13. Fill'
    <3>1. Leads(Slots, capacity, Vacant', k, i)
      <4>1. Leads(Slots, capacity, Vacant, k, i)
        BY <2>3 DEF Look
      <4> QED  BY <2>3, <2>7, <4>1, LeadsKept
    <3>2. Partly(Slots[i], my, dict[k])
      BY <2>7 DEF Partly
    <3> QED  BY <1>2, <2>4, <2>5, <2>7, <3>1, <3>2 DEF Fill
  <2>14. \A g \in Threads : Grown(g)'
    BY <2>8 DEF Grown, Growing
  <2>15. Looking'
    <3> SUFFICES ASSUME NEW s \in Threads, Busy(s)', ~disturbed'[s]
                 PROVE  Look(Slots, capacity, Vacant', pc'[s], local'[s])
      BY <2>5 DEF Looking
    <3>1. CASE s = t
      BY <1>2, <3>1 DEF Look
    <3>2. CASE s # t
      <4>1. ~disturbed[s] /\ Busy(s)
        BY <1>1, <1>2, <3>2, RecordFacts DEF Busy
      <4>2. Look(Slots, capacity, Vacant, pc'[s], local'[s])
        BY <1>2, <2>2, <3>2, <4>1 DEF Sane, Looking
      <4>3. local'[s].key \in Keys
        <5>1. local'[s] \in Frame
          BY <1>1 DEF TypeInv, Busy
        <5> QED  BY <5>1 DEF Frame
      <4> QED  BY <2>3, <2>7, <4>2, <4>3, LookLess
    <3> QED  BY <3>1, <3>2
  <2> QED  BY <2>9, <2>10, <2>11, <2>12, <2>13, <2>14, <2>15 DEF Sane
<1> QED  BY <1>3, Outer DEF KeptInv

LEMMA FillStartKept ==
  ASSUME KeptInv, SharingInv', Record, UNCHANGED dict, NEW t \in Threads,
         \/ FoundToRemove(t) /\ Entry(t).key # NoKey
         \/ FoundToSet(t) /\ Entry(t).key = NoKey
  PROVE  KeptInv'
<1>1. TypeInv
  BY DEF KeptInv, SharingInv
<1> PICK my : my = local[t]
  OBVIOUS
<1>2. /\ pc[t] = "found" /\ my \in Frame
      /\ UNCHANGED <<capacity, entries, arrays, known>>
  BY <1>1, Running DEF FoundToRemove, FoundToSet, At, shared
<1>3. Rules(t, pc[t], my)
  BY <1>2 DEF KeptInv, Ruled, Busy
<1>4. CASE FoundToRemove(t) /\ Entry(t).key # NoKey
  <2> DEFINE m == [my EXCEPT !.todo = {"key", "type", "raw"}]
  <2>1. Moves(t, "store", m) /\ my.call = "remove" /\ UNCHANGED count
    BY <1>4 DEF FoundToRemove, Let, Goto, Moves, My, shared
  <2>2. /\ m.op = my.op /\ m.call = my.call /\ m.key = my.key /\ m.index = my.index
        /\ m.isNew = my.isNew /\ m.todo = {"key", "type", "raw"}
    BY <1>2 DEF Frame
  <2> HIDE DEF m
  <2>3. Rules(t, "store", m) /\ my.isNew
    BY <1>2, <1>3, <2>1, <2>2 DEF Rules, Growth
  <2> QED  BY <1>2, <1>4, <2>1, <2>2, <2>3, FillStarts
<1>5. CASE FoundToSet(t) /\ Entry(t).key = NoKey
  <2> DEFINE m == [my EXCEPT !.isNew = TRUE, !.todo = {"key", "type", "raw"}]
  <2>1. /\ Moves(t, "store", m) /\ my.call = "set"
        /\ count' = IF IsEmpty(Entry(t)) THEN count + 1 ELSE count
    BY <1>5 DEF FoundToSet, Goto, Moves, My
  <2>2. /\ m.op = my.op /\ m.call = my.call /\ m.key = my.key /\ m.index = my.index
        /\ m.isNew = TRUE /\ m.todo = {"key", "type", "raw"}
    BY <1>2 DEF Frame
  <2> HIDE DEF m
  <2>3. Rules(t, "store", m)
    BY <1>2, <1>3, <2>1, <2>2 DEF Rules, Growth
  <2> QED  BY <1>2, <1>5, <2>1, <2>2, <2>3, FillStarts
<1> QED  BY <1>4, <1>5

-----------------------------------------------------------------------------
(* The store of a word.                                                    *)

Onto(e, word, s) ==
  [key |-> IF word = "key" THEN s.key ELSE e.key,
   type |-> IF word = "type" THEN s.type ELSE e.type,
   raw |-> IF word = "raw" THEN s.raw ELSE e.raw]

Told(t, word) ==
  LET my == local[t]
      v == dict[my.key]
  IN
  /\ dict' \in [Keys -> Answer]
  /\ \A k \in Keys \ {my.key} : dict'[k] = dict[k]
  /\ my.call = "set" =>
       dict'[my.key] = [type |-> IF word = "type" THEN my.value.type ELSE v.type,
                        raw |-> IF word = "raw" THEN my.value.raw ELSE v.raw]
  /\ my.call = "remove" => dict'[my.key] = IF word = "key" THEN NotDefined ELSE v

Outcome(my) == IF my.call = "remove" THEN NotDefined ELSE my.value

Ends(t, word) ==
  LET my == local[t] IN
  \/ my.todo # {word} /\ Moves(t, "store", [my EXCEPT !.todo = my.todo \ {word}])
  \/ /\ my.todo = {word} /\ my.op = "GST" /\ my.call = "set" /\ my.isNew
     /\ Moves(t, "count", [WithoutSlot(my) EXCEPT !.call = "remove", !.todo = {}])
  \/ /\ my.todo = {word} /\ ~(my.op = "GST" /\ my.call = "set" /\ my.isNew)
     /\ \E m : Moves(t, "done", m) /\ m.answer = Outcome(my)

LEMMA OntoWord ==
  ASSUME NEW e \in Slot, NEW word \in Fields, NEW s \in Slot
  PROVE  [e EXCEPT ![word] = s[word]] = Onto(e, word, s)
<1>1. e = [key |-> e.key, type |-> e.type, raw |-> e.raw]
  BY DEF Slot
<1> PICK a, b, c, x, y, z :
      a = e.key /\ b = e.type /\ c = e.raw /\ x = s.key /\ y = s.type /\ z = s.raw
  OBVIOUS
<1>2. CASE word = "key"
  <2>1. [[key |-> a, type |-> b, raw |-> c] EXCEPT !["key"] = x]
          = [key |-> x, type |-> b, raw |-> c]
    OBVIOUS
  <2> QED  BY <1>1, <1>2, <2>1 DEF Onto
<1>3. CASE word = "type"
  <2>1. [[key |-> a, type |-> b, raw |-> c] EXCEPT !["type"] = y]
          = [key |-> a, type |-> y, raw |-> c]
    OBVIOUS
  <2> QED  BY <1>1, <1>3, <2>1 DEF Onto
<1>4. CASE word = "raw"
  <2>1. [[key |-> a, type |-> b, raw |-> c] EXCEPT !["raw"] = z]
          = [key |-> a, type |-> b, raw |-> z]
    OBVIOUS
  <2> QED  BY <1>1, <1>4, <2>1 DEF Onto
<1> QED  BY <1>2, <1>3, <1>4 DEF Fields

LEMMA AnswerWord ==
  ASSUME NEW v \in Answer, NEW word \in {"type", "raw"}, NEW w \in Value
  PROVE  /\ [v EXCEPT ![word] = w[word]] \in Answer
         /\ [v EXCEPT ![word] = w[word]] =
              [type |-> IF word = "type" THEN w.type ELSE v.type,
               raw |-> IF word = "raw" THEN w.raw ELSE v.raw]
<1>1. v = [type |-> v.type, raw |-> v.raw] /\ v.type \in Types \cup {"undefined"} /\ v.raw \in Nat
  BY DEF Answer
<1>2. w.type \in Types /\ w.raw \in Nat
  BY DEF Value
<1> PICK a, b, c, d : a = v.type /\ b = v.raw /\ c = w.type /\ d = w.raw
  OBVIOUS
<1>3. CASE word = "type"
  <2>1. [[type |-> a, raw |-> b] EXCEPT !["type"] = c] = [type |-> c, raw |-> b]
    OBVIOUS
  <2>2. [type |-> c, raw |-> b] \in Answer
    BY <1>1, <1>2 DEF Answer
  <2> QED  BY <1>1, <1>3, <2>1, <2>2
<1>4. CASE word = "raw"
  <2>1. [[type |-> a, raw |-> b] EXCEPT !["raw"] = d] = [type |-> a, raw |-> d]
    OBVIOUS
  <2>2. [type |-> a, raw |-> d] \in Answer
    BY <1>1, <1>2 DEF Answer
  <2> QED  BY <1>1, <1>4, <2>1, <2>2
<1> QED  BY <1>3, <1>4

LEMMA StoreWord ==
  ASSUME TypeInv, dict \in [Keys -> Answer], NEW t \in Threads, Store(t), local[t].call # "get"
  PROVE  \E word \in local[t].todo :
           /\ word \in Fields
           /\ arrays' = [arrays EXCEPT ![local[t].array][local[t].index][word] = Stored(t)[word]]
           /\ Told(t, word) /\ Ends(t, word)
<1> PICK my : my = local[t]
  OBVIOUS
<1>1. pc[t] = "store" /\ my \in Frame
  BY Running DEF Store, At
<1>2. PICK word \in my.todo :
        /\ arrays' = [arrays EXCEPT ![my.array][my.index][word] = Stored(t)[word]]
        /\ dict' = [dict EXCEPT ![my.key] =
                      CASE my.call = "set" /\ word # "key"    -> [@ EXCEPT ![word] = my.value[word]]
                        [] my.call = "remove" /\ word = "key" -> NotDefined
                        [] OTHER -> @]
        /\ \/ my.todo # {word} /\ Let(t, "todo", my.todo \ {word}) /\ UNCHANGED pc
           \/ /\ my.todo = {word} /\ my.op = "GST" /\ my.call = "set" /\ my.isNew
              /\ local' = [local EXCEPT ![t] =
                             [WithoutSlot(my) EXCEPT !.call = "remove", !.todo = {}]]
              /\ Goto(t, "count")
           \/ /\ my.todo = {word} /\ ~(my.op = "GST" /\ my.call = "set" /\ my.isNew)
              /\ Finished(t, IF my.call = "remove" THEN NotDefined ELSE my.value)
              /\ Goto(t, "done")
  BY DEF Store, My
<1>3. word \in Fields /\ my.key \in Keys /\ my.value \in Value /\ my.call \in {"set", "remove"}
  BY <1>1 DEF Frame
<1>4. Told(t, word)
  <2> PICK v : v = dict[my.key]
    OBVIOUS
  <2>1. v \in Answer /\ NotDefined \in Answer
    BY <1>3 DEF NotDefined, Answer
  <2>2. PICK v2 : v2 = CASE my.call = "set" /\ word # "key"    -> [v EXCEPT ![word] = my.value[word]]
                         [] my.call = "remove" /\ word = "key" -> NotDefined
                         [] OTHER -> v
    OBVIOUS
  <2>3. dict' = [dict EXCEPT ![my.key] = v2]
    BY <1>2, <2>2
  <2>4. /\ v2 \in Answer
        /\ my.call = "set" => v2 = [type |-> IF word = "type" THEN my.value.type ELSE v.type,
                                    raw |-> IF word = "raw" THEN my.value.raw ELSE v.raw]
        /\ my.call = "remove" => v2 = IF word = "key" THEN NotDefined ELSE v
    <3>1. CASE my.call = "set" /\ word # "key"
      <4>1. word \in {"type", "raw"} /\ v2 = [v EXCEPT ![word] = my.value[word]]
        BY <1>3, <2>2, <3>1 DEF Fields
      <4> QED  BY <1>3, <2>1, <3>1, <4>1, AnswerWord
    <3>2. CASE my.call = "set" /\ word = "key"
      <4>1. v2 = v
        BY <2>2, <3>2
      <4>2. v = [type |-> v.type, raw |-> v.raw]
        BY <2>1 DEF Answer
      <4> QED  BY <2>1, <3>2, <4>1, <4>2
    <3>3. CASE my.call = "remove"
      BY <2>1, <2>2, <3>3
    <3> QED  BY <1>3, <3>1, <3>2, <3>3
  <2>5. dict' \in [Keys -> Answer] /\ dict'[my.key] = v2
        /\ \A k \in Keys \ {my.key} : dict'[k] = dict[k]
    BY <1>3, <2>3, <2>4
  <2> QED  BY <2>4, <2>5 DEF Told
<1>5. Ends(t, word)
  <2>1. pc = [pc EXCEPT ![t] = "store"]
    BY <1>1 DEF TypeInv
  <2>2. CASE my.todo # {word} /\ Let(t, "todo", my.todo \ {word}) /\ UNCHANGED pc
    BY <2>1, <2>2 DEF Let, Moves, Ends
  <2>3. CASE /\ my.todo = {word} /\ my.op = "GST" /\ my.call = "set" /\ my.isNew
             /\ local' = [local EXCEPT ![t] =
                            [WithoutSlot(my) EXCEPT !.call = "remove", !.todo = {}]]
             /\ Goto(t, "count")
    BY <2>3 DEF Goto, Moves, Ends
  <2>4. CASE /\ my.todo = {word} /\ ~(my.op = "GST" /\ my.call = "set" /\ my.isNew)
             /\ Finished(t, IF my.call = "remove" THEN NotDefined ELSE my.value)
             /\ Goto(t, "done")
    <3> PICK answer : answer = Outcome(my)
      OBVIOUS
    <3> DEFINE m == [WithoutSlot(my) EXCEPT !.todo = {}, !.answer = answer]
    <3>1. m.answer = answer
      BY <1>1 DEF Frame, WithoutSlot
    <3>2. Moves(t, "done", m)
      BY <2>4 DEF Finished, Goto, Moves, Outcome
    <3> HIDE DEF m
    <3>3. \E m2 : Moves(t, "done", m2) /\ m2.answer = Outcome(my)
      BY <3>1, <3>2
    <3> QED  BY <2>4, <3>3 DEF Ends
  <2> QED  BY <1>2, <2>2, <2>3, <2>4
<1> QED  BY <1>2, <1>3, <1>4, <1>5

(* What it does to the array, as long as nobody was in the way.            *)
LEMMA StoreSlots ==
  ASSUME KeptInv, ~damaged, NEW t \in Threads, pc[t] = "store", ~disturbed[t], UNCHANGED entries,
         NEW word \in Fields,
         arrays' = [arrays EXCEPT ![local[t].array][local[t].index][word] = Stored(t)[word]]
  PROVE  /\ Slots' \in [0..capacity-1 -> Slot]
         /\ Slots'[local[t].index] = Onto(Slots[local[t].index], word, Stored(t))
         /\ \A j \in 0..capacity-1 : j # local[t].index => Slots'[j] = Slots[j]
<1> PICK i : i = local[t].index
  OBVIOUS
<1>1. pc[t] \in OnSlot
  BY DEF OnSlot
<1>2. /\ capacity \in Nat /\ Slots \in [0..capacity-1 -> Slot]
      /\ entries \in DOMAIN arrays /\ local[t].array = entries /\ i \in 0..capacity-1
      /\ local[t] \in Frame
  BY <1>1, Here
<1>3. Stored(t) \in Slot /\ Slots[i] \in Slot
  BY <1>2, StoredType
<1>4. Onto(Slots[i], word, Stored(t)) \in Slot
  BY <1>3 DEF Onto, Slot
<1> PICK e : e = Onto(Slots[i], word, Stored(t))
  OBVIOUS
<1>5. [Slots[i] EXCEPT ![word] = Stored(t)[word]] = e
  BY <1>3, OntoWord
<1>6. arrays'[entries] = [Slots EXCEPT ![i] = [Slots[i] EXCEPT ![word] = Stored(t)[word]]]
  BY <1>2 DEF Slots
<1>7. Slots' = [Slots EXCEPT ![i] = e]
  BY <1>5, <1>6 DEF Slots
<1> QED  BY <1>2, <1>4, <1>7

(* How the thread goes on.                                                 *)
After(t, word, p, m) ==
  LET my == local[t] IN
  /\ Moves(t, p, m) /\ p \in {"store", "count", "done"}
  /\ p # "done" => Rules(t, p, m) /\ m.key = my.key /\ m.isNew = my.isNew
  /\ p = "store" => /\ m.todo = my.todo \ {word} /\ m.todo # {}
                    /\ m.index = my.index /\ m.call = my.call /\ m.value = my.value
  /\ p = "count" => my.isNew /\ my.call = "set"
  /\ p # "store" => my.todo = {word}
  /\ p = "done" => m.answer = Outcome(my)

LEMMA StoreAfter ==
  ASSUME NEW t \in Threads, local[t] \in Frame, Rules(t, "store", local[t]),
         NEW word \in local[t].todo, Ends(t, word)
  PROVE  \E p, m : After(t, word, p, m)
<1> PICK my : my = local[t]
  OBVIOUS
<1>1. CASE my.todo # {word} /\ Moves(t, "store", [my EXCEPT !.todo = my.todo \ {word}])
  <2> DEFINE m == [my EXCEPT !.todo = my.todo \ {word}]
  <2>1. /\ m.todo = my.todo \ {word} /\ m.op = my.op /\ m.call = my.call /\ m.key = my.key
        /\ m.isNew = my.isNew /\ m.index = my.index /\ m.value = my.value
    BY DEF Frame
  <2>2. m.todo # {}
    BY <1>1, <2>1
  <2> HIDE DEF m
  <2>3. Rules(t, "store", m)
    BY <2>1, <2>2 DEF Rules, Growth
  <2>4. Moves(t, "store", m)
    BY <1>1 DEF m
  <2>5. After(t, word, "store", m)
    BY <2>1, <2>2, <2>3, <2>4 DEF After
  <2> QED  BY <2>5
<1>2. CASE /\ my.todo = {word} /\ my.op = "GST" /\ my.call = "set" /\ my.isNew
           /\ Moves(t, "count", [WithoutSlot(my) EXCEPT !.call = "remove", !.todo = {}])
  <2> DEFINE m == [WithoutSlot(my) EXCEPT !.call = "remove", !.todo = {}]
  <2>1. /\ m.op = my.op /\ m.call = "remove" /\ m.key = my.key /\ m.isNew = my.isNew
    BY DEF Frame, WithoutSlot
  <2> HIDE DEF m
  <2>2. Rules(t, "count", m)
    BY <1>2, <2>1 DEF Rules, Growth
  <2>3. Moves(t, "count", m)
    BY <1>2 DEF m
  <2>4. After(t, word, "count", m)
    BY <1>2, <2>1, <2>2, <2>3 DEF After
  <2> QED  BY <2>4
<1>3. CASE my.todo = {word} /\ \E m : Moves(t, "done", m) /\ m.answer = Outcome(my)
  <2> PICK m : Moves(t, "done", m) /\ m.answer = Outcome(my)
    BY <1>3
  <2>1. After(t, word, "done", m)
    BY <1>3 DEF After
  <2> QED  BY <2>1
<1> QED  BY <1>1, <1>2, <1>3 DEF Ends

(* A store to a variable that is there leaves every key where it is.       *)
LEMMA LookKeys ==
  ASSUME NEW n \in Nat, NEW slots, NEW slots2, NEW vacant, NEW p, NEW my, my.key \in Keys,
         p \in OnSlot => my.index \in 0..n-1 /\ my.grave \in {None} \cup 0..n-1,
         \A j \in 0..n-1 : slots2[j].key = slots[j].key,
         Look(slots, n, vacant, p, my)
  PROVE  Look(slots2, n, vacant, p, my)
<1>1. \A i : Leads(slots, n, vacant, my.key, i) => Leads(slots2, n, vacant, my.key, i)
  BY LeadsKept
<1> QED  BY <1>1 DEF Look, OnSlot

LEMMA StoreOldKept ==
  ASSUME KeptInv, SharingInv', Record, NEW t \in Threads, Store(t), ~local[t].isNew
  PROVE  KeptInv'
<1> PICK my : my = local[t]
  OBVIOUS
<1>1. TypeInv /\ GrowthInv /\ TypeInv' /\ GrowthInv' /\ dict \in [Keys -> Answer]
  BY DEF KeptInv, SharingInv
<1>2. /\ pc[t] = "store" /\ Busy(t) /\ pc[t] \in OnSlot /\ my \in Frame
      /\ UNCHANGED <<count, capacity, entries, known>>
  BY <1>1, Running DEF Store, At, Busy, OnSlot
<1>3. Rules(t, "store", my)
  BY <1>2 DEF KeptInv, Ruled
<1>4. my.call = "set" /\ my.op # "GLD"
  BY <1>2, <1>3 DEF Rules, Frame
<1>5. PICK word \in my.todo :
        /\ word \in Fields
        /\ arrays' = [arrays EXCEPT ![my.array][my.index][word] = Stored(t)[word]]
        /\ Told(t, word) /\ Ends(t, word)
  BY <1>1, <1>4, StoreWord
<1>6. PICK p, m : After(t, word, p, m)
  BY <1>2, <1>3, <1>5, StoreAfter
<1>7. /\ pc'[t] = p /\ local'[t] = m
      /\ \A s \in Threads \ {t} : pc'[s] = pc[s] /\ local'[s] = local[s]
  BY <1>1, <1>6, MovesAt DEF After
<1>8. ASSUME ~damaged' PROVE Sane'
  <2>1. ~damaged /\ Sane /\ ~disturbed[t]
    BY <1>2, <1>4, <1>8, StoresCalmly
  <2> PICK n, k, i : n = capacity /\ k = my.key /\ i = my.index
    OBVIOUS
  <2>2. /\ Installed /\ \A s \in Threads : ~Growing(s)
        /\ n \in Nat /\ Slots \in [0..n-1 -> Slot] /\ InOrder(Slots, n, Vacant)
        /\ k \in Keys /\ k # NoKey /\ i \in 0..n-1
    BY <1>2, <2>1, Here
  <2>3. Slots[i].key = k
    <3>1. Look(Slots, n, Vacant, "store", my)
      BY <1>2, <2>1, Here
    <3> QED  BY <3>1 DEF Look
  <2>4. /\ Slots' \in [0..n-1 -> Slot]
        /\ Slots'[i] = Onto(Slots[i], word, Stored(t))
        /\ \A j \in 0..n-1 : j # i => Slots'[j] = Slots[j]
    BY <1>2, <1>5, <2>1, StoreSlots
  <2>5. /\ Slots'[i].key = k
        /\ Slots'[i].type = IF word = "type" THEN my.value.type ELSE Slots[i].type
        /\ Slots'[i].raw = IF word = "raw" THEN my.value.raw ELSE Slots[i].raw
    <3>1. Stored(t) = [key |-> k, type |-> my.value.type, raw |-> my.value.raw]
      BY <1>4 DEF Stored, My
    <3> QED  BY <2>3, <2>4, <3>1 DEF Onto
  <2>6. \A j \in 0..n-1 : Slots'[j].key = Slots[j].key
    BY <2>3, <2>4, <2>5
  <2>7. /\ dict' \in [Keys -> Answer] /\ \A j \in Keys \ {k} : dict'[j] = dict[j]
        /\ dict'[k] = [type |-> IF word = "type" THEN my.value.type ELSE dict[k].type,
                       raw |-> IF word = "raw" THEN my.value.raw ELSE dict[k].raw]
    BY <1>4, <1>5 DEF Told
  <2>8. Makes(t) = FALSE /\ Makes(t)' = FALSE /\ \A s \in Threads \ {t} : Makes(s)' = Makes(s)
    <3>1. Makes(t)' = FALSE
      BY <1>6, <1>7 DEF After, Makes, Busy
    <3> QED  BY <1>7, <3>1 DEF Makes, Busy
  <2>9. Main \in Threads
    BY DEF Threads
  <2>10. Made' = Made /\ Vacant' = Vacant /\ Filling' = Filling /\ Filled' = Filled
         /\ (Filling => t # Main /\ local'[Main] = local[Main] /\ Makes(Main))
    <3>1. CASE t = Main
      BY <1>6, <1>7, <2>8, <3>1 DEF After, Made, Vacant, Filling, Filled
    <3>2. CASE t # Main
      BY <1>7, <2>8, <2>9, <3>2 DEF Made, Vacant, Filling, Filled, Makes, Busy
    <3> QED  BY <3>1, <3>2
  <2>11. Installed' /\ \A s \in Threads : ~Growing(s)'
    BY <1>6, <1>7, <2>2 DEF After, Installed, Growing
  <2>12. Filling => k # local[Main].key
    BY <1>2, <2>1, <2>10, LiveKey
  <2>13. KnownKept' /\ OnlyMainMakes'
    <3>1. ASSUME NEW j \in known PROVE dict'[j].type \in Types /\ j \notin Made'
      <4>1. dict[j].type \in Types /\ j \notin Made /\ j \in Keys
        BY <1>1, <2>1, <3>1 DEF Sane, KnownKept, TypeInv
      <4>2. my.value.type \in Types
        BY <1>2 DEF Frame, Value
      <4>3. dict'[j].type \in Types
        <5>1. CASE j = k
          BY <2>7, <4>1, <4>2, <5>1
        <5>2. CASE j # k
          BY <2>7, <4>1, <5>2
        <5> QED  BY <5>1, <5>2
      <4> QED  BY <2>10, <4>1, <4>3
    <3> QED  BY <1>2, <2>1, <2>8, <3>1 DEF Sane, KnownKept, OnlyMainMakes
  <2>14. Placed'
    <3>1. InOrder(Slots', n, Vacant)
      <4> SUFFICES ASSUME NEW j \in 0..n-1, Slots'[j].key # NoKey
                   PROVE  Leads(Slots', n, Vacant, Slots'[j].key, j)
        BY DEF InOrder
      <4>1. Leads(Slots, n, Vacant, Slots[j].key, j) /\ Slots[j].key \in Keys
        BY <2>2, <2>6 DEF InOrder, Slot
      <4>2. Leads(Slots', n, Vacant, Slots[j].key, j)
        BY <2>2, <2>6, <4>1, LeadsKept
      <4> QED  BY <2>6, <4>2
    <3> QED  BY <1>2, <2>10, <3>1 DEF Placed
  <2>15. Faithful'
    <3> SUFFICES ASSUME NEW x \in Keys, ~(Filling /\ x = local[Main].key)
                 PROVE  Agrees(Slots', n, x, dict'[x])
      BY <1>2, <2>10 DEF Faithful
    <3>1. Agrees(Slots, n, x, dict[x])
      BY <2>1, <2>2 DEF Sane, Faithful
    <3>2. CASE x = k
      <4>1. ASSUME NEW j \in 0..n-1, Slots'[j].key = k PROVE j = i
        <5>1. Slots[j].key = k
          BY <2>6, <4>1
        <5>2. Leads(Slots, n, Vacant, k, j)
          BY <2>2, <5>1 DEF InOrder
        <5> QED  BY <2>2, <2>3, <5>1, <5>2, Behind
      <4>2. Slots[i].type = dict[k].type /\ Slots[i].raw = dict[k].raw
        BY <2>2, <2>3, <3>1, <3>2 DEF Agrees
      <4>3. Slots'[i].type = dict'[k].type /\ Slots'[i].raw = dict'[k].raw
        BY <2>5, <2>7, <4>2
      <4> QED  BY <2>2, <2>5, <3>2, <4>1, <4>3 DEF Agrees
    <3>3. CASE x # k
      <4>1. \A j \in 0..n-1 : Slots'[j].key = x => j # i
        BY <2>5, <3>3
      <4> QED  BY <2>4, <2>6, <2>7, <3>1, <3>3, <4>1 DEF Agrees
    <3> QED  BY <3>2, <3>3
  <2>16. Counted'
    <3>1. \A j \in 0..n-1 : IsEmpty(Slots'[j]) <=> IsEmpty(Slots[j])
      BY <2>2, <2>3, <2>4, <2>5 DEF IsEmpty
    <3>2. Used(Slots', n) = Used(Slots, n)
      BY <3>1 DEF Used
    <3>3. count = Cardinality(Used(Slots, n) \cup Filled)
      BY <2>1, <2>2 DEF Sane, Counted
    <3> QED  BY <1>2, <2>10, <3>2, <3>3 DEF Counted
  <2>17. Fill'
    <3> SUFFICES ASSUME Filling PROVE Fill'
      BY <2>10 DEF Fill
    <3> PICK mm : mm = local[Main]
      OBVIOUS
    <3>1. /\ \A j \in 0..n-1 : j # mm.index => Slots[j].key # mm.key
          /\ Leads(Slots, n, Vacant, mm.key, mm.index)
          /\ Partly(Slots[mm.index], mm, dict[mm.key])
      BY <2>1 DEF Sane, Fill
    <3>2. mm.key \in Keys
      BY <1>1, <2>9, Running DEF Filling, Frame
    <3>3. mm.index \in 0..n-1
      BY <2>2, <3>1, <3>2, LeadsIn
    <3>4. mm.index # i
      <4>1. Slots[mm.index].key \in {NoKey, mm.key}
        BY <3>1 DEF Partly
      <4> QED  BY <2>2, <2>3, <2>12, <4>1
    <3>5. Leads(Slots', n, Vacant, mm.key, mm.index)
      BY <2>2, <2>6, <3>1, <3>2, LeadsKept
    <3>6. Slots'[mm.index] = Slots[mm.index] /\ dict'[mm.key] = dict[mm.key]
      BY <2>4, <2>7, <2>12, <3>2, <3>3, <3>4
    <3>7. \A j \in 0..n-1 : j # mm.index => Slots'[j].key # mm.key
      BY <2>6, <3>1
    <3> QED  BY <1>2, <2>10, <3>1, <3>5, <3>6, <3>7 DEF Fill
  <2>18. \A g \in Threads : Grown(g)'
    BY <2>11 DEF Grown, Growing
  <2>19. Looking'
    <3> SUFFICES ASSUME NEW s \in Threads, Busy(s)', ~disturbed'[s]
                 PROVE  Look(Slots', n, Vacant, pc'[s], local'[s])
      BY <1>2, <2>10 DEF Looking
    <3>1. CASE s = t
      BY <1>6, <1>7, <2>5, <3>1 DEF After, Look
    <3>2. CASE s # t
      <4>1. ~disturbed[s] /\ Busy(s) /\ pc'[s] = pc[s] /\ local'[s] = local[s]
        BY <1>1, <1>7, <3>2, RecordFacts DEF Busy
      <4>2. Look(Slots, n, Vacant, pc[s], local[s])
        BY <2>1, <4>1 DEF Sane, Looking
      <4>3. local[s].key \in Keys
        BY <1>1, <4>1, Running DEF Frame, Busy
      <4>4. pc[s] \in OnSlot =>
              local[s].index \in 0..n-1 /\ local[s].grave \in {None} \cup 0..n-1
        BY <2>1, <4>1, Here
      <4> QED  BY <2>2, <2>6, <4>1, <4>2, <4>3, <4>4, LookKeys
    <3> QED  BY <3>1, <3>2
  <2> QED  BY <2>13, <2>14, <2>15, <2>16, <2>17, <2>18, <2>19 DEF Sane
<1>9. p \notin {"idle", "done"} => Rules(t, p, m)
  BY <1>6 DEF After
<1>10. Moves(t, p, m) /\ dict' \in [Keys -> Answer]
  BY <1>5, <1>6 DEF After, Told
<1> QED  BY <1>2, <1>8, <1>9, <1>10, Outer

(* Where an undisturbed instruction of another thread is meanwhile.        *)
LEMMA LiveLook ==
  ASSUME KeptInv, ~damaged, NEW s \in Threads \ {Main}, pc[s] \in OnSlot, ~disturbed[s],
         Makes(Main), NEW slots2, NEW vacant2,
         \A j \in 0..capacity-1 : slots2[j].key \in vacant2 => Slots[j].key \in Vacant,
         \A j \in 0..capacity-1 : Slots[j].key = local[s].key <=> slots2[j].key = local[s].key
  PROVE  Look(slots2, capacity, vacant2, pc[s], local[s])
<1> PICK ys : ys = local[s]
  OBVIOUS
<1>1. /\ Look(Slots, capacity, Vacant, pc[s], ys) /\ capacity \in Nat /\ ys.key \in Keys
      /\ ys.index \in 0..capacity-1 /\ ys.grave \in {None} \cup 0..capacity-1
      /\ Rules(s, pc[s], ys)
  BY Here
<1>2. PICK i \in 0..capacity-1 : Slots[i].key = ys.key
  BY LiveKey
<1>3. \A j : Leads(Slots, capacity, Vacant, ys.key, j) => Slots[j].key # NoKey
  BY <1>2, Missing
<1>4. \A j : Leads(Slots, capacity, Vacant, ys.key, j) => Leads(slots2, capacity, vacant2, ys.key, j)
  <2>1. \A j \in 0..capacity-1 : slots2[j].key \in vacant2 \cup {ys.key}
          => Slots[j].key \in Vacant \cup {ys.key}
    OBVIOUS
  <2> QED  BY <1>1, <2>1, LeadsKept
<1>5. CASE pc[s] \in {"key", "value"}
  BY <1>1, <1>3, <1>4, <1>5 DEF Look
<1>6. CASE pc[s] = "found"
  BY <1>1, <1>3, <1>4, <1>6 DEF Look
<1>7. CASE pc[s] \in {"fetch", "store"}
  BY <1>1, <1>7 DEF Look
<1> QED  BY <1>5, <1>6, <1>7 DEF OnSlot

(* The words of a new variable, or of a tombstone, one after the other.    *)
LEMMA PartlyOn ==
  ASSUME NEW my \in Frame, NEW e, NEW v, my.key # NoKey, Partly(e, my, v),
         my.call \in {"set", "remove"},
         NEW word \in my.todo, NEW s, NEW v2, NEW m,
         my.call = "set" => /\ s.key = my.key /\ s.type = my.value.type /\ s.raw = my.value.raw
                            /\ v2.type = IF word = "type" THEN my.value.type ELSE v.type
                            /\ v2.raw = IF word = "raw" THEN my.value.raw ELSE v.raw,
         my.call = "remove" => /\ s.key = NoKey /\ s.type = "bool"
                               /\ v2 = IF word = "key" THEN NotDefined ELSE v,
         m.todo = my.todo \ {word}, m.call = my.call, m.key = my.key, m.value = my.value
  PROVE  Partly(Onto(e, word, s), m, v2)
<1> PICK f : f = Onto(e, word, s)
  OBVIOUS
<1>1. /\ f.key = IF word = "key" THEN s.key ELSE e.key
      /\ f.type = IF word = "type" THEN s.type ELSE e.type
      /\ f.raw = IF word = "raw" THEN s.raw ELSE e.raw
  BY DEF Onto
<1>2. CASE my.call = "set"
  <2>1. s.key = my.key /\ s.type = my.value.type /\ s.raw = my.value.raw
    BY <1>2
  <2>2. v2.type = IF word = "type" THEN my.value.type ELSE v.type
    BY <1>2
  <2>3. v2.raw = IF word = "raw" THEN my.value.raw ELSE v.raw
    BY <1>2
  <2>4. f.key = IF "key" \in m.todo <=> m.call = "set" THEN NoKey ELSE m.key
    BY <1>1, <1>2, <2>1 DEF Partly
  <2>5. "type" \notin m.todo => f.type = m.value.type /\ v2.type = m.value.type
    BY <1>1, <1>2, <2>1, <2>2 DEF Partly
  <2>6. "raw" \notin m.todo => f.raw = m.value.raw /\ v2.raw = m.value.raw
    BY <1>1, <1>2, <2>1, <2>3 DEF Partly
  <2> QED  BY <1>2, <2>4, <2>5, <2>6 DEF Partly
<1>3. CASE my.call = "remove"
  <2>1. s.key = NoKey /\ s.type = "bool"
    BY <1>3
  <2>2. f.key = IF "key" \in m.todo <=> m.call = "set" THEN NoKey ELSE m.key
    BY <1>1, <1>3, <2>1 DEF Partly
  <2>3. "type" \notin m.todo => f.type = "bool"
    BY <1>1, <1>3, <2>1 DEF Partly
  <2>4. "key" \notin m.todo => v2 = NotDefined
    BY <1>3 DEF Partly
  <2> QED  BY <1>3, <2>2, <2>3, <2>4 DEF Partly
<1> QED  BY <1>2, <1>3

LEMMA StoreNewKept ==
  ASSUME KeptInv, SharingInv', Record, NEW t \in Threads, Store(t), local[t].isNew
  PROVE  KeptInv'
<1> PICK my : my = local[t]
  OBVIOUS
<1>1. TypeInv /\ GrowthInv /\ TypeInv' /\ GrowthInv' /\ dict \in [Keys -> Answer]
  BY DEF KeptInv, SharingInv
<1>2. /\ pc[t] = "store" /\ Busy(t) /\ pc[t] \in OnSlot /\ my \in Frame
      /\ UNCHANGED <<count, capacity, entries, known>>
  BY <1>1, Running DEF Store, At, Busy, OnSlot
<1>3. Rules(t, "store", my)
  BY <1>2 DEF KeptInv, Ruled
<1>4. my.call \in {"set", "remove"} /\ my.op # "GLD"
  BY <1>2, <1>3 DEF Rules, Frame
<1>5. PICK word \in my.todo :
        /\ word \in Fields
        /\ arrays' = [arrays EXCEPT ![my.array][my.index][word] = Stored(t)[word]]
        /\ Told(t, word) /\ Ends(t, word)
  BY <1>1, <1>4, StoreWord
<1>6. PICK p, m : After(t, word, p, m)
  BY <1>2, <1>3, <1>5, StoreAfter
<1>7. /\ pc'[t] = p /\ local'[t] = m
      /\ \A s \in Threads \ {t} : pc'[s] = pc[s] /\ local'[s] = local[s]
  BY <1>1, <1>6, MovesAt DEF After
<1>8. ASSUME ~damaged' PROVE Sane'
  <2>1. ~damaged /\ Sane /\ ~disturbed[t]
    BY <1>2, <1>4, <1>8, StoresCalmly
  <2> PICK n, k, i : n = capacity /\ k = my.key /\ i = my.index
    OBVIOUS
  <2>2. /\ Installed /\ \A s \in Threads : ~Growing(s)
        /\ n \in Nat /\ Slots \in [0..n-1 -> Slot] /\ InOrder(Slots, n, Vacant)
        /\ k \in Keys /\ k # NoKey /\ i \in 0..n-1
    BY <1>2, <2>1, Here
  <2>3. t = Main /\ Makes(Main)
    BY <1>2, <2>1 DEF Sane, OnlyMainMakes, Makes
  <2>4. Filling /\ Vacant = {NoKey, k} /\ Made = {k} /\ Filled = {i}
    BY <1>2, <2>3 DEF Filling, Vacant, Made, Filled
  <2>5. /\ \A j \in 0..n-1 : j # i => Slots[j].key # k
        /\ Leads(Slots, n, Vacant, k, i)
        /\ Partly(Slots[i], my, dict[k])
    BY <2>1, <2>3, <2>4 DEF Sane, Fill
  <2>6. /\ Slots' \in [0..n-1 -> Slot]
        /\ Slots'[i] = Onto(Slots[i], word, Stored(t))
        /\ \A j \in 0..n-1 : j # i => Slots'[j] = Slots[j]
    BY <1>2, <1>5, <2>1, StoreSlots
  <2>7. /\ dict' \in [Keys -> Answer] /\ \A j \in Keys \ {k} : dict'[j] = dict[j]
        /\ my.call = "set" => dict'[k] = [type |-> IF word = "type" THEN my.value.type ELSE dict[k].type,
                                          raw |-> IF word = "raw" THEN my.value.raw ELSE dict[k].raw]
        /\ my.call = "remove" => dict'[k] = IF word = "key" THEN NotDefined ELSE dict[k]
    BY <1>5 DEF Told
  <2>8. PICK on : /\ on.todo = my.todo \ {word} /\ on.call = my.call /\ on.key = my.key
                  /\ on.value = my.value /\ on.index = my.index
    <3> DEFINE on == [my EXCEPT !.todo = my.todo \ {word}]
    <3>1. /\ on.todo = my.todo \ {word} /\ on.call = my.call /\ on.key = my.key
          /\ on.value = my.value /\ on.index = my.index
      BY <1>2 DEF Frame
    <3> QED  BY <3>1
  <2>9. Partly(Slots'[i], on, dict'[k])
    <3>1. Stored(t) = IF my.call = "set"
                      THEN [key |-> my.key, type |-> my.value.type, raw |-> my.value.raw]
                      ELSE [key |-> NoKey, type |-> "bool", raw |-> 1]
      BY DEF Stored, My, True
    <3> PICK e, v, s, v2 : e = Slots[i] /\ v = dict[k] /\ s = Stored(t) /\ v2 = dict'[k]
      OBVIOUS
    <3>2. Partly(e, my, v) /\ my.key # NoKey
      BY <2>2, <2>5
    <3>3. my.call = "set" => /\ s.key = my.key /\ s.type = my.value.type /\ s.raw = my.value.raw
                             /\ v2.type = IF word = "type" THEN my.value.type ELSE v.type
                             /\ v2.raw = IF word = "raw" THEN my.value.raw ELSE v.raw
      BY <2>7, <3>1
    <3>4. my.call = "remove" => /\ s.key = NoKey /\ s.type = "bool"
                                /\ v2 = IF word = "key" THEN NotDefined ELSE v
      BY <2>7, <3>1
    <3>5. Partly(Onto(e, word, s), on, v2)
      <4>1. my \in Frame /\ my.call \in {"set", "remove"} /\ word \in my.todo
        BY <1>2, <1>4, <1>5
      <4> QED  BY <2>8, <3>2, <3>3, <3>4, <4>1, PartlyOn
    <3> QED  BY <2>6, <3>5
  <2>10. Slots[i].key \in {NoKey, k} /\ Slots'[i].key \in {NoKey, k}
    BY <2>5, <2>8, <2>9 DEF Partly
  <2>11. Vacant' \subseteq Vacant /\ Made' \subseteq Made /\ (p # "done" => Vacant' = Vacant)
    BY <1>6, <1>7, <2>3, <2>4 DEF After, Vacant, Made, Makes, Busy
  <2>12. /\ \A j \in 0..n-1 : Slots'[j].key \in Vacant' => Slots[j].key \in Vacant
         /\ \A x \in Keys \ {k} : \A j \in 0..n-1 : Slots[j].key = x <=> Slots'[j].key = x
    <3>1. NoKey \notin Keys
      BY GlobalsAssumption
    <3>2. ASSUME NEW j \in 0..n-1
          PROVE  /\ Slots'[j].key \in Vacant' => Slots[j].key \in Vacant
                 /\ \A x \in Keys \ {k} : Slots[j].key = x <=> Slots'[j].key = x
      <4>1. CASE j = i
        BY <2>4, <2>10, <3>1, <4>1
      <4>2. CASE j # i
        BY <2>6, <2>11, <4>2
      <4> QED  BY <4>1, <4>2
    <3> QED  BY <3>2
  <2>13. ASSUME NEW x \in Keys, NEW j, Leads(Slots, n, Vacant, x, j)
         PROVE  Leads(Slots', n, Vacant', x, j)
    <3>1. \A l \in 0..n-1 : Slots'[l].key \in Vacant' \cup {x} => Slots[l].key \in Vacant \cup {x}
      <4>1. CASE x = k
        <5>1. \A l \in 0..n-1 : Slots'[l].key = k => Slots[l].key \in Vacant
          BY <2>4, <2>5, <2>6, <2>10
        <5> QED  BY <2>12, <4>1, <5>1
      <4>2. CASE x # k
        BY <2>12, <4>2
      <4> QED  BY <4>1, <4>2
    <3> QED  BY <2>2, <2>13, <3>1, LeadsKept
  <2>14. Installed' /\ \A s \in Threads : ~Growing(s)'
    BY <1>6, <1>7, <2>2 DEF After, Installed, Growing
  <2>15. KnownKept' /\ OnlyMainMakes'
    <3>1. ASSUME NEW j \in known PROVE dict'[j].type \in Types /\ j \notin Made'
      <4>1. dict[j].type \in Types /\ j \notin Made /\ j \in Keys
        BY <1>1, <2>1, <3>1 DEF Sane, KnownKept, TypeInv
      <4> QED  BY <2>4, <2>7, <2>11, <4>1
    <3>2. \A s \in Threads \ {t} : Makes(s)' = Makes(s)
      BY <1>7 DEF Makes, Busy
    <3> QED  BY <1>2, <2>1, <2>3, <3>1, <3>2 DEF Sane, KnownKept, OnlyMainMakes
  <2>16. Placed'
    <3>1. ASSUME NEW j \in 0..n-1, Slots'[j].key # NoKey
          PROVE  Leads(Slots', n, Vacant', Slots'[j].key, j)
      <4>1. CASE j = i
        BY <2>2, <2>5, <2>10, <2>13, <3>1, <4>1
      <4>2. CASE j # i
        <5>1. Slots'[j] = Slots[j] /\ Slots[j].key \in Keys
          BY <2>2, <2>6, <3>1, <4>2 DEF Slot
        <5>2. Leads(Slots, n, Vacant, Slots[j].key, j)
          BY <2>2, <3>1, <5>1 DEF InOrder
        <5> QED  BY <2>13, <5>1, <5>2
      <4> QED  BY <4>1, <4>2
    <3> QED  BY <1>2, <3>1 DEF Placed, InOrder
  <2>17. Faithful'
    <3>1. ASSUME NEW x \in Keys, x # k PROVE Agrees(Slots', n, x, dict'[x])
      <4>1. Agrees(Slots, n, x, dict[x])
        BY <2>1, <2>2, <2>3, <3>1 DEF Sane, Faithful
      <4>2. \A j \in 0..n-1 : Slots'[j].key = x => j # i
        BY <2>2, <2>10, <3>1, GlobalsAssumption
      <4> QED  BY <2>6, <2>7, <2>12, <3>1, <4>1, <4>2 DEF Agrees
    <3>2. CASE p = "store"
      <4>1. Filling' /\ local'[Main].key = k
        BY <1>6, <1>7, <2>3, <3>2 DEF After, Filling
      <4> QED  BY <1>2, <3>1, <4>1 DEF Faithful
    <3>3. CASE p # "store"
      <4>1. on.todo = {}
        BY <1>6, <2>8, <3>3 DEF After
      <4>2. \A j \in 0..n-1 : Slots'[j].key = k => j = i
        BY <2>5, <2>6
      <4>3. Agrees(Slots', n, k, dict'[k])
        <5>1. CASE my.call = "set"
          BY <2>2, <2>8, <2>9, <4>1, <4>2, <5>1 DEF Agrees, Partly
        <5>2. CASE my.call = "remove"
          BY <2>2, <2>8, <2>9, <4>1, <4>2, <5>2 DEF Agrees, Partly
        <5> QED  BY <1>4, <5>1, <5>2
      <4> QED  BY <1>2, <3>1, <4>3 DEF Faithful
    <3> QED  BY <3>2, <3>3
  <2>18. Counted'
    <3>1. count = Cardinality(Used(Slots, n) \cup {i})
      BY <2>1, <2>2, <2>4 DEF Sane, Counted
    <3>2. Used(Slots', n) \cup {i} = Used(Slots, n) \cup {i}
      BY <2>6 DEF Used
    <3>3. CASE p = "store"
      <4>1. Filled' = {i}
        BY <1>6, <1>7, <2>3, <3>3 DEF After, Filling, Filled
      <4> QED  BY <1>2, <3>1, <3>2, <4>1 DEF Counted
    <3>4. CASE p # "store"
      <4>1. on.todo = {}
        BY <1>6, <2>8, <3>4 DEF After
      <4>2. ~IsEmpty(Slots'[i])
        <5>1. CASE my.call = "set"
          BY <2>2, <2>8, <2>9, <4>1, <5>1 DEF IsEmpty, Partly
        <5>2. CASE my.call = "remove"
          BY <2>8, <2>9, <4>1, <5>2 DEF IsEmpty, Partly
        <5> QED  BY <1>4, <5>1, <5>2
      <4>3. Used(Slots', n) \cup {} = Used(Slots', n) \cup {i}
        BY <2>2, <4>2 DEF Used
      <4>4. Filled' = {}
        BY <1>7, <2>3, <3>4 DEF Filling, Filled
      <4> QED  BY <1>2, <3>1, <3>2, <4>3, <4>4 DEF Counted
    <3> QED  BY <3>3, <3>4
  <2>19. Fill'
    <3>1. CASE p = "store"
      <4>1. /\ m.todo = on.todo /\ m.call = on.call /\ m.key = k /\ m.value = on.value
            /\ m.index = i /\ local'[Main] = m
        BY <1>6, <1>7, <2>3, <2>8, <3>1 DEF After
      <4>2. Partly(Slots'[i], m, dict'[k])
        BY <2>8, <2>9, <4>1 DEF Partly
      <4>3. Leads(Slots', n, Vacant', k, i)
        BY <2>2, <2>5, <2>13
      <4>4. \A j \in 0..n-1 : j # i => Slots'[j].key # k
        BY <2>5, <2>6
      <4> QED  BY <1>2, <4>1, <4>2, <4>3, <4>4 DEF Fill
    <3>2. CASE p # "store"
      BY <1>7, <2>3, <3>2 DEF Fill, Filling
    <3> QED  BY <3>1, <3>2
  <2>20. \A g \in Threads : Grown(g)'
    BY <2>14 DEF Grown, Growing
  <2>21. Looking'
    <3> SUFFICES ASSUME NEW s \in Threads, Busy(s)', ~disturbed'[s]
                 PROVE  Look(Slots', n, Vacant', pc'[s], local'[s])
      BY <1>2 DEF Looking
    <3>1. CASE s = t
      BY <1>6, <1>7, <3>1 DEF After, Look
    <3>2. CASE s # t
      <4>1. ~disturbed[s] /\ Busy(s) /\ pc'[s] = pc[s] /\ local'[s] = local[s]
        BY <1>1, <1>7, <3>2, RecordFacts DEF Busy
      <4>2. CASE pc[s] \in OnSlot
        <5>1. local[s].key \in Keys \ {k}
          BY <2>1, <2>3, <3>2, <4>1, <4>2, Here, LiveKey
        <5>2. Look(Slots', n, Vacant', pc[s], local[s])
          BY <2>1, <2>3, <2>12, <3>2, <4>1, <4>2, <5>1, LiveLook
        <5> QED  BY <4>1, <5>2
      <4>3. CASE pc[s] \notin OnSlot
        BY <4>1, <4>3 DEF Look, OnSlot
      <4> QED  BY <4>2, <4>3
    <3> QED  BY <3>1, <3>2
  <2> QED  BY <2>15, <2>16, <2>17, <2>18, <2>19, <2>20, <2>21 DEF Sane
<1>9. p \notin {"idle", "done"} => Rules(t, p, m)
  BY <1>6 DEF After
<1>10. Moves(t, p, m) /\ dict' \in [Keys -> Answer]
  BY <1>5, <1>6 DEF After, Told
<1> QED  BY <1>2, <1>8, <1>9, <1>10, Outer

-----------------------------------------------------------------------------
(* The table grows.                                                        *)

(* While an instruction makes the table grow, or is about to, main makes   *)
(* no variable; and after its step every other instruction is disturbed.   *)
LEMMA GrowthCalm ==
  ASSUME KeptInv, SharingInv', Record, ~damaged', NEW t \in Threads, NEW p, NEW m, Moves(t, p, m),
         \/ pc[t] = "compare" /\ p = "copy"
         \/ pc[t] \in Growth /\ p \in Growth \cup {"find"}
  PROVE  /\ ~damaged /\ Sane /\ ~disturbed[t] /\ (pc[t] \notin {"install", "resize"} => Installed)
         /\ \A s \in Threads : ~Makes(s)
         /\ Made = {} /\ Vacant = {NoKey} /\ ~Filling /\ Filled = {}
         /\ \A s \in Threads \ {t} : ~Growing(s) /\ (Busy(s)' => disturbed'[s])
<1>1. TypeInv /\ GrowthInv /\ TypeInv' /\ GrowthInv' /\ Ruled
  BY DEF KeptInv, SharingInv
<1>2. /\ pc'[t] = p /\ local'[t] = m
      /\ \A s \in Threads \ {t} : pc'[s] = pc[s] /\ local'[s] = local[s]
  BY <1>1, MovesAt
<1>3. Busy(t) /\ pc[t] \in {"compare"} \cup Growth /\ pc[t] # "store"
  BY DEF Busy, Growth
<1>4. Rules(t, pc[t], local[t])
  BY <1>1, <1>3 DEF Ruled
<1>5. local[t].call = "set" /\ local[t].op # "GLD" /\ ~local[t].isNew
  <2>1. local[t].call = "set"
    BY <1>3, <1>4 DEF Rules
  <2> QED  BY <1>3, <1>4, <2>1 DEF Rules
<1>6. ~damaged /\ Sane /\ ~disturbed[t]
  BY <1>3, <1>5, StoresCalmly
<1>7. \A s \in Threads \ {t} : ~Growing(s)
  BY <1>1, <1>3, <1>6 DEF GrowthInv
<1>8. ASSUME NEW s \in Threads \ {t}, Busy(s)' PROVE disturbed'[s]
  <2>1. CASE pc[t] = "compare" /\ p = "copy"
    <3>1. Growing(t)'
      BY <1>2, <2>1 DEF Growing
    <3>2. t \in Threads \ {s}
      OBVIOUS
    <3> QED  BY <1>1, <1>8, <3>1, <3>2, RecordFacts
  <2>2. CASE pc[t] \in Growth
    <3>1. Growing(t) /\ t \in Threads \ {s}
      BY <2>2 DEF Growing, Growth
    <3>2. Busy(s)
      BY <1>2, <1>8 DEF Busy
    <3>3. disturbed[s]
      BY <1>1, <3>1, <3>2 DEF GrowthInv
    <3> QED  BY <1>1, <1>8, <3>3, RecordFacts DEF Busy
  <2> QED  BY <2>1, <2>2
<1>9. ASSUME NEW s \in Threads PROVE ~Makes(s) /\ ~(pc[s] = "store" /\ local[s].isNew)
  <2>1. CASE s = t
    BY <1>5, <2>1 DEF Makes
  <2>2. CASE s # t /\ Busy(s)
    <3>1. Busy(s)' /\ local'[s] = local[s]
      BY <1>2, <2>2 DEF Busy
    <3>2. local'[s].op = "GLD"
      BY <1>1, <1>8, <2>2, <3>1, RecordFacts
    <3>3. local[s].op = "GLD" /\ Rules(s, pc[s], local[s])
      BY <1>1, <2>2, <3>1, <3>2 DEF Ruled
    <3> QED  BY <3>3 DEF Rules, Makes
  <2>3. CASE ~Busy(s)
    BY <2>3 DEF Makes, Busy
  <2> QED  BY <2>1, <2>2, <2>3
<1>10. Main \in Threads
  BY DEF Threads
<1>11. pc[t] \notin {"install", "resize"} => Installed
  BY <1>7 DEF Installed, Growing
<1> QED  BY <1>6, <1>7, <1>8, <1>9, <1>10, <1>11 DEF Made, Vacant, Filling, Filled

(* What is to be shown of a step of a growth.                              *)
LEMMA GrowthKeeps ==
  ASSUME KeptInv, SharingInv', Record, UNCHANGED <<dict, known>>,
         NEW t \in Threads, NEW p, NEW m, Moves(t, p, m),
         \/ pc[t] = "compare" /\ p = "copy"
         \/ pc[t] \in Growth /\ p \in Growth \cup {"find"},
         Rules(t, p, m), ~m.isNew,
         ~damaged' /\ p \notin {"install", "resize"} =>
           /\ InOrder(Slots', capacity', {NoKey})
           /\ \A k \in Keys : Agrees(Slots', capacity', k, dict[k]),
         ~damaged' /\ p = "find" => count' = Cardinality(Used(Slots', capacity')),
         ~damaged' => Grown(t)'
  PROVE  KeptInv'
<1>1. TypeInv /\ GrowthInv /\ TypeInv' /\ GrowthInv' /\ dict' \in [Keys -> Answer]
  BY DEF KeptInv, SharingInv
<1>2. /\ pc'[t] = p /\ local'[t] = m
      /\ \A s \in Threads \ {t} : pc'[s] = pc[s] /\ local'[s] = local[s]
  BY <1>1, MovesAt
<1>3. ASSUME ~damaged' PROVE Sane'
  <2>1. /\ ~damaged /\ Sane
        /\ \A s \in Threads : ~Makes(s)
        /\ Made = {} /\ Vacant = {NoKey} /\ ~Filling /\ Filled = {}
        /\ \A s \in Threads \ {t} : ~Growing(s) /\ (Busy(s)' => disturbed'[s])
    BY <1>3, GrowthCalm
  <2>2. Main \in Threads
    BY DEF Threads
  <2>3. \A s \in Threads : ~Makes(s)'
    BY <1>2, <2>1 DEF Makes, Busy
  <2>4. p # "store"
    BY DEF Growth
  <2>5. Made' = {} /\ Vacant' = {NoKey} /\ ~Filling' /\ Filled' = {}
    BY <1>2, <2>1, <2>2, <2>3, <2>4 DEF Made, Vacant, Filling, Filled
  <2>6. KnownKept' /\ OnlyMainMakes'
    BY <2>1, <2>3, <2>5 DEF Sane, KnownKept, OnlyMainMakes
  <2>7. Placed' /\ Faithful'
    <3>1. Installed' => p \notin {"install", "resize"}
      BY <1>2 DEF Installed
    <3> QED  BY <1>3, <2>5, <3>1 DEF Placed, Faithful
  <2>8. Counted'
    <3>1. (\A s \in Threads : ~Growing(s)') => p = "find"
      BY <1>2 DEF Growing, Growth
    <3> QED  BY <1>3, <2>5, <3>1 DEF Counted
  <2>9. Fill'
    BY <2>5 DEF Fill
  <2>10. \A g \in Threads : Grown(g)'
    <3>1. ASSUME NEW g \in Threads \ {t} PROVE Grown(g)'
      BY <1>2, <2>1 DEF Grown, Growing
    <3> QED  BY <1>3, <3>1
  <2>11. Looking'
    <3>1. Look(Slots', capacity', Vacant', p, m)
      <4>1. p \notin {"key", "value", "found", "fetch", "store"}
        BY DEF Growth
      <4> QED  BY <4>1 DEF Look
    <3> QED  BY <1>2, <2>1, <3>1 DEF Looking
  <2> QED  BY <2>6, <2>7, <2>8, <2>9, <2>10, <2>11 DEF Sane
<1> QED  BY <1>1, <1>3, Outer

LEMMA GrowCapMore ==
  ASSUME capacity \in Nat
  PROVE  GrowCap \in Nat /\ GrowCap > 0 /\ GrowCap > capacity
BY GlobalsAssumption DEF GrowCap

LEMMA GrowKept ==
  ASSUME KeptInv, SharingInv', Record, UNCHANGED dict, NEW t \in Threads, Compare(t),
         pc'[t] # "find"
  PROVE  KeptInv'
<1> PICK my : my = local[t]
  OBVIOUS
<1>1. TypeInv /\ capacity \in Nat
  BY DEF KeptInv, SharingInv, TypeInv
<1>2. pc[t] = "compare" /\ UNCHANGED <<capacity, entries, arrays, known>> /\ Busy(t)
  BY DEF Compare, At, Busy
<1>3. my \in Frame /\ Rules(t, "compare", my)
  BY <1>1, <1>2, Running DEF KeptInv, Ruled
<1> DEFINE new == Fresh(GrowCap)
           m == [my EXCEPT !.fresh = new, !.index = 0, !.load = None]
<1>4. Moves(t, "copy", m) /\ count' = 0
  BY <1>1 DEF Compare, My, Goto, Let, Moves, TypeInv
<1> HIDE DEF new
<1>5. /\ m.fresh = new /\ m.index = 0 /\ m.op = my.op /\ m.call = my.call /\ m.key = my.key
      /\ m.isNew = my.isNew
  BY <1>3 DEF Frame
<1> HIDE DEF m
<1>6. my.call = "set" /\ ~my.isNew
  BY <1>3 DEF Rules
<1>7. Rules(t, "copy", m)
  BY <1>3, <1>5, <1>6 DEF Rules, Growth
<1>8. pc'[t] = "copy" /\ local'[t] = m
  BY <1>1, <1>4, MovesAt
<1>9. ASSUME ~damaged'
      PROVE  /\ InOrder(Slots', capacity', {NoKey})
             /\ \A k \in Keys : Agrees(Slots', capacity', k, dict[k])
  <2>1. pc[t] = "compare" /\ pc[t] \notin {"install", "resize"}
    BY <1>2
  <2>2. Sane /\ Installed /\ Vacant = {NoKey} /\ ~Filling
    BY <1>4, <1>9, <2>1, GrowthCalm
  <2>3. Slots' = Slots
    BY <1>2 DEF Slots
  <2> QED  BY <1>2, <2>2, <2>3 DEF Sane, Placed, Faithful
<1>10. Grown(t)'
  <2> PICK n : n = GrowCap
    OBVIOUS
  <2>1. n \in Nat /\ n > 0 /\ n > capacity
    BY <1>1, GrowCapMore
  <2>2. new \in [0..n-1 -> Slot] /\ \A j \in 0..n-1 : new[j] = EmptyEntry
    BY <2>1, FreshArray DEF new, Fresh
  <2>3. Cardinality(0..n-1) = n
    BY <2>1, FS_Interval
  <2>4. Size(new) = n
    BY <2>2, <2>3 DEF Size
  <2>5. \A j \in 0..n-1 : new[j].key = NoKey /\ IsEmpty(new[j])
    BY <2>2 DEF EmptyEntry, IsEmpty, Null
  <2>6. Copied(Slots', 0, new, n)
    BY <2>5 DEF Copied, InOrder
  <2>7. Used(new, n) = {}
    BY <2>5 DEF Used
  <2>8. count' = Cardinality(Used(new, n)) /\ count' <= 0
    BY <1>4, <2>7, FS_EmptySet
  <2>9. local'[t].fresh = new /\ local'[t].index = 0 /\ capacity' = capacity /\ pc'[t] = "copy"
    BY <1>2, <1>5, <1>8
  <2>10. Size(local'[t].fresh) = n
    BY <2>4, <2>9
  <2>11. n > capacity' /\ 0 <= capacity'
    BY <1>1, <2>1, <2>9
  <2> HIDE DEF new
  <2>12. /\ n > capacity' /\ local'[t].index <= capacity'
         /\ Copied(Slots', local'[t].index, local'[t].fresh, n)
         /\ count' = Cardinality(Used(local'[t].fresh, n)) /\ count' <= local'[t].index
    BY <2>6, <2>8, <2>9, <2>11
  <2> QED  BY <2>9, <2>10, <2>12 DEF Grown
<1> QED  BY <1>2, <1>4, <1>5, <1>6, <1>7, <1>9, <1>10, GrowthKeeps

(* The next entry to copy is i, and fresh2 is what fresh then is.          *)
Copies(slots, c, i, fresh, n) ==
  /\ c \in Nat /\ slots \in [0..c-1 -> Slot] /\ InOrder(slots, c, {NoKey})
  /\ i \in 0..c-1 /\ slots[i].key # NoKey
  /\ n \in Nat /\ n > c /\ fresh \in [0..n-1 -> Slot]
  /\ Copied(slots, i, fresh, n) /\ Cardinality(Used(fresh, n)) <= i

Puts(e, n, fresh, place, fresh2) ==
  /\ fresh2 \in [0..n-1 -> Slot] /\ (place \in 0..n-1 => fresh2[place] = e)
  /\ \A j \in 0..n-1 : j # place => fresh2[j] = fresh[j]

LEMMA SizeOf ==
  ASSUME NEW n \in Nat
  PROVE  Cardinality(0..n-1) = n
<1>1. 0 \in Int /\ n-1 \in Int /\ (IF 0 > n-1 THEN 0 ELSE n-1-0+1) = n
  OBVIOUS
<1> QED  BY <1>1, FS_Interval

(* An entry is copied: to where it belongs in the new array.               *)
LEMMA Recopied ==
  ASSUME NEW slots, NEW c, NEW i, NEW fresh, NEW n, Copies(slots, c, i, fresh, n),
         NEW fresh2, Puts(slots[i], n, fresh, Place(fresh, slots[i].key), fresh2)
  PROVE  /\ Copied(slots, i + 1, fresh2, n)
         /\ Cardinality(Used(fresh2, n)) = Cardinality(Used(fresh, n)) + 1
<1> PICK place : place = Place(fresh, slots[i].key)
  OBVIOUS
<1>0. /\ c \in Nat /\ slots \in [0..c-1 -> Slot] /\ InOrder(slots, c, {NoKey})
      /\ i \in 0..c-1 /\ slots[i].key # NoKey
      /\ n \in Nat /\ n > c /\ fresh \in [0..n-1 -> Slot]
      /\ Copied(slots, i, fresh, n) /\ Cardinality(Used(fresh, n)) <= i
      /\ fresh2 \in [0..n-1 -> Slot] /\ (place \in 0..n-1 => fresh2[place] = slots[i])
      /\ \A j \in 0..n-1 : j # place => fresh2[j] = fresh[j]
  BY DEF Copies, Puts
<1> PICK k : k = slots[i].key
  OBVIOUS
<1>1. k \in Keys /\ k # NoKey /\ slots[i] \in Slot /\ n > 0
  BY <1>0 DEF Slot
<1>2. \A j \in 0..n-1 : fresh[j].key # k
  <2> SUFFICES ASSUME NEW j \in 0..n-1, fresh[j].key = k PROVE FALSE
    OBVIOUS
  <2>1. PICK l \in 0..i-1 : slots[l] = fresh[j]
    BY <1>0, <1>1 DEF Copied
  <2>2. l \in 0..c-1 /\ slots[l].key = k /\ l # i
    BY <1>0, <2>1
  <2>3. Leads(slots, c, {NoKey}, k, l)
    BY <1>0, <1>1, <2>2 DEF InOrder
  <2>4. slots[i].key = k
    OBVIOUS
  <2>5. l = i \/ slots[l].key \notin {NoKey} \cup {k}
    BY <1>0, <1>1, <2>3, <2>4, Behind
  <2> QED  BY <2>2, <2>5
<1>3. PICK free \in 0..n-1 : fresh[free].key = NoKey
  <2> SUFFICES ASSUME \A j \in 0..n-1 : fresh[j].key # NoKey PROVE FALSE
    OBVIOUS
  <2>1. Used(fresh, n) = 0..n-1
    BY DEF Used, IsEmpty
  <2>2. Cardinality(0..n-1) = n
    BY <1>0, SizeOf
  <2> QED  BY <1>0, <2>1, <2>2
<1>4. place \in 0..n-1 /\ fresh[place].key \in {NoKey, k} /\ Leads(fresh, n, {NoKey}, k, place)
  BY <1>0, <1>1, <1>3, PlaceLeads
<1>5. fresh[place].key = NoKey
  BY <1>2, <1>4
<1>6. /\ fresh2[place] = slots[i] /\ \A j \in 0..n-1 : fresh2[j] \in Slot
      /\ \A j \in 0..n-1 : j # place => fresh2[j] = fresh[j]
  BY <1>0, <1>4
<1>7. \A x : \A j \in 0..n-1 : fresh2[j].key \in {NoKey} \cup {x} =>
         fresh[j].key \in {NoKey} \cup {x}
  BY <1>5, <1>6
<1>8. InOrder(fresh2, n, {NoKey})
  <2> SUFFICES ASSUME NEW j \in 0..n-1, fresh2[j].key # NoKey
               PROVE  Leads(fresh2, n, {NoKey}, fresh2[j].key, j)
    BY DEF InOrder
  <2> PICK x : x = fresh2[j].key
    OBVIOUS
  <2>1. x \in Keys
    BY <1>0, <1>6 DEF Slot
  <2>2. Leads(fresh, n, {NoKey}, x, j)
    <3>1. CASE j = place
      BY <1>4, <1>6, <3>1
    <3>2. CASE j # place
      BY <1>0, <1>6, <3>2 DEF Copied, InOrder
    <3> QED  BY <3>1, <3>2
  <2>3. \A l \in 0..n-1 : fresh2[l].key \in {NoKey} \cup {x} => fresh[l].key \in {NoKey} \cup {x}
    BY <1>7
  <2>4. Leads(fresh2, n, {NoKey}, x, j)
    BY <1>0, <2>1, <2>2, <2>3, LeadsKept
  <2> QED  BY <2>4
<1>9. \A j \in 0..n-1 : \/ fresh2[j].key = NoKey /\ IsEmpty(fresh2[j])
                        \/ fresh2[j].key # NoKey /\ \E l \in 0..(i+1)-1 : slots[l] = fresh2[j]
  <2> TAKE j \in 0..n-1
  <2>1. CASE j = place
    <3>1. i \in 0..(i+1)-1
      BY <1>0
    <3> QED  BY <1>0, <1>6, <2>1, <3>1
  <2>2. CASE j # place
    <3>1. 0..i-1 \subseteq 0..(i+1)-1
      BY <1>0
    <3> QED  BY <1>0, <1>6, <2>2, <3>1 DEF Copied
  <2> QED  BY <2>1, <2>2
<1>10. ASSUME NEW l \in 0..(i+1)-1, slots[l].key # NoKey
       PROVE  \E j \in 0..n-1 : fresh2[j] = slots[l]
  <2>1. CASE l = i
    BY <1>4, <1>6, <2>1
  <2>2. CASE l # i
    <3>1. l \in 0..i-1
      BY <1>0, <2>2
    <3>2. PICK j \in 0..n-1 : fresh[j] = slots[l]
      BY <1>0, <1>10, <3>1 DEF Copied
    <3>3. j # place
      BY <1>5, <1>10, <3>2
    <3> QED  BY <1>6, <3>2, <3>3
  <2> QED  BY <2>1, <2>2
<1>11. Cardinality(Used(fresh2, n)) = Cardinality(Used(fresh, n)) + 1
  <2>1. place \notin Used(fresh, n)
    BY <1>0, <1>4, <1>5 DEF Used, Copied
  <2>2. ~IsEmpty(fresh2[place])
    BY <1>0, <1>6 DEF IsEmpty
  <2>3. Used(fresh2, n) = Used(fresh, n) \cup {place}
    BY <1>0, <1>4, <1>5, <1>6, <2>2 DEF Used
  <2> PICK used : used = Used(fresh, n)
    OBVIOUS
  <2>4. IsFiniteSet(used) /\ place \notin used /\ Used(fresh2, n) = used \cup {place}
    BY <1>0, <2>1, <2>3, UsedFinite
  <2>5. Cardinality(used \cup {place}) = Cardinality(used) + 1
    BY <2>4, FS_AddElement
  <2> QED  BY <2>4, <2>5
<1> QED  BY <1>4, <1>6, <1>8, <1>9, <1>10, <1>11 DEF Copied

LEMMA CopyKept ==
  ASSUME KeptInv, SharingInv', Record, UNCHANGED dict, NEW t \in Threads, CopyEntry(t)
  PROVE  KeptInv'
<1> PICK my, i, e : my = local[t] /\ i = my.index /\ e = arrays[entries][i]
  OBVIOUS
<1>1. TypeInv /\ GrowthInv /\ capacity \in Nat
  BY DEF KeptInv, SharingInv, TypeInv
<1>2. /\ pc[t] = "copy" /\ UNCHANGED <<capacity, entries, arrays, known, pc>> /\ Busy(t)
      /\ i < capacity /\ entries # 0
  <2>1. i < capacity /\ pc[t] = "copy" /\ Valid(entries, i)
    BY DEF CopyEntry, At, My
  <2>2. entries # 0
    BY <1>1, <2>1 DEF Valid, TypeInv
  <2> QED  BY <2>1, <2>2 DEF CopyEntry, Busy
<1>3. my \in Frame /\ Rules(t, "copy", my) /\ Control("copy", my) /\ e = Slots[i]
  BY <1>1, <1>2, Running DEF KeptInv, Ruled, Slots
<1>4. my.call = "set" /\ ~my.isNew /\ my.fresh \in Arrays /\ i \in Nat
  BY <1>3 DEF Rules, Control, Growth
<1> PICK fresh2 : fresh2 = IF e.key = NoKey THEN my.fresh
                           ELSE [my.fresh EXCEPT ![Place(my.fresh, e.key)] = e]
  OBVIOUS
<1> DEFINE m == [my EXCEPT !.fresh = fresh2, !.index = i + 1]
<1>5. /\ Moves(t, "copy", m)
      /\ count' = IF e.key = NoKey THEN count ELSE count + 1
  <2>1. pc' = [pc EXCEPT ![t] = "copy"]
    BY <1>1, <1>2 DEF TypeInv
  <2>2. CASE e.key = NoKey
    <3>1. fresh2 = my.fresh
      BY <2>2
    <3>2. [my EXCEPT !.index = i + 1] = m
      BY <1>3, <3>1 DEF Frame
    <3>3. local' = [local EXCEPT ![t].index = i + 1] /\ count' = count
      BY <2>2 DEF CopyEntry, My, Let
    <3>4. local' = [local EXCEPT ![t] = [my EXCEPT !.index = i + 1]]
      BY <3>3
    <3> HIDE DEF m
    <3> QED  BY <2>1, <2>2, <3>2, <3>3, <3>4 DEF Moves
  <2>3. CASE e.key # NoKey
    BY <2>1, <2>3 DEF CopyEntry, My, Moves
  <2> QED  BY <2>2, <2>3
<1>6. /\ m.fresh = fresh2 /\ m.index = i + 1 /\ m.op = my.op /\ m.call = my.call /\ m.key = my.key
      /\ m.isNew = my.isNew
  BY <1>3 DEF Frame
<1> HIDE DEF m
<1>7. Rules(t, "copy", m)
  BY <1>3, <1>4, <1>6 DEF Rules, Growth
<1>8. pc'[t] = "copy" /\ local'[t] = m
  BY <1>1, <1>5, MovesAt
<1>9. pc[t] \in Growth /\ "copy" \in Growth \cup {"find"} /\ "copy" \notin {"install", "resize"}
  BY <1>2 DEF Growth
<1>10. Slots' = Slots
  BY <1>2 DEF Slots
<1>11. ASSUME ~damaged'
       PROVE  /\ InOrder(Slots', capacity', {NoKey})
              /\ \A k \in Keys : Agrees(Slots', capacity', k, dict[k])
  <2>1. Sane /\ Installed /\ Vacant = {NoKey} /\ ~Filling
    BY <1>2, <1>5, <1>9, <1>11, GrowthCalm
  <2> QED  BY <1>2, <1>10, <2>1 DEF Sane, Placed, Faithful
<1>12. ASSUME ~damaged' PROVE Grown(t)'
  <2>1. ~damaged /\ Sane /\ Installed
    BY <1>2, <1>5, <1>9, <1>12, GrowthCalm
  <2> PICK n : n = Size(my.fresh)
    OBVIOUS
  <2>2. /\ n > capacity /\ Copied(Slots, i, my.fresh, n)
        /\ count = Cardinality(Used(my.fresh, n)) /\ count <= i
    BY <1>2, <2>1 DEF Sane, Grown
  <2>3. n \in Nat /\ my.fresh \in [0..n-1 -> Slot]
    BY <1>4, ArrayDomain DEF Size
  <2>4. i \in 0..capacity-1 /\ Slots \in [0..capacity-1 -> Slot] /\ count \in Nat
    BY <1>1, <1>2, <1>4, <2>1, SlotsType DEF TypeInv
  <2>5. /\ Copied(Slots, i + 1, fresh2, n) /\ Size(fresh2) = n
        /\ count' = Cardinality(Used(fresh2, n)) /\ count' <= i + 1
    <3>1. CASE e.key = NoKey
      <4>1. fresh2 = my.fresh
        BY <3>1
      <4>2. \A l \in 0..(i+1)-1 : l = i \/ l \in 0..i-1
        BY <1>4
      <4>3. 0..i-1 \subseteq 0..(i+1)-1
        BY <1>4
      <4>4. Copied(Slots, i + 1, my.fresh, n)
        BY <1>3, <2>2, <3>1, <4>2, <4>3 DEF Copied
      <4> QED  BY <1>4, <1>5, <2>2, <2>4, <3>1, <4>1, <4>4
    <3>2. CASE e.key # NoKey
      <4>1. InOrder(Slots, capacity, {NoKey})
        BY <1>2, <1>10, <1>11, <1>12
      <4>2. fresh2 = [my.fresh EXCEPT ![Place(my.fresh, e.key)] = e]
        BY <3>2
      <4>3. Cardinality(Used(my.fresh, n)) <= i
        BY <2>2
      <4> PICK slots, c, f, place : /\ slots = Slots /\ c = capacity /\ f = my.fresh
                                    /\ place = Place(f, slots[i].key)
        OBVIOUS
      <4>4. /\ c \in Nat /\ slots \in [0..c-1 -> Slot] /\ InOrder(slots, c, {NoKey})
            /\ i \in 0..c-1 /\ n > c /\ f \in [0..n-1 -> Slot] /\ Copied(slots, i, f, n)
        BY <1>1, <1>3, <2>2, <2>3, <2>4, <4>1
      <4>5. slots[i] = e /\ slots[i].key # NoKey /\ slots[i] \in Slot
        BY <1>3, <3>2, <4>4
      <4>8. Copies(slots, c, i, f, n)
        BY <2>3, <4>3, <4>4, <4>5 DEF Copies
      <4>9. fresh2 = [f EXCEPT ![place] = slots[i]]
        BY <4>2, <4>5
      <4>10. /\ fresh2 \in [0..n-1 -> Slot] /\ (place \in 0..n-1 => fresh2[place] = slots[i])
             /\ \A j \in 0..n-1 : j # place => fresh2[j] = f[j]
        BY <4>4, <4>5, <4>9
      <4>11. Puts(slots[i], n, f, Place(f, slots[i].key), fresh2)
        BY <4>10 DEF Puts
      <4>12. /\ Copied(slots, i + 1, fresh2, n)
             /\ Cardinality(Used(fresh2, n)) = Cardinality(Used(f, n)) + 1
        BY <4>8, <4>11, Recopied
      <4>6. Size(fresh2) = n
        <5>1. Cardinality(0..n-1) = n
          BY <2>3, SizeOf
        <5>2. DOMAIN fresh2 = 0..n-1
          BY <4>10
        <5> QED  BY <5>1, <5>2 DEF Size
      <4>7. count' = count + 1
        BY <1>5, <3>2
      <4>13. Copied(Slots, i + 1, fresh2, n) /\ Cardinality(Used(fresh2, n)) = count + 1
        BY <2>2, <4>12
      <4> QED  BY <1>4, <2>2, <2>4, <4>6, <4>7, <4>13
    <3> QED  BY <3>1, <3>2
  <2>6. local'[t].fresh = fresh2 /\ local'[t].index = i + 1 /\ capacity' = capacity /\ pc'[t] = "copy"
    BY <1>2, <1>6, <1>8
  <2>7. Size(local'[t].fresh) = n
    BY <2>5, <2>6
  <2>8. /\ n > capacity' /\ local'[t].index <= capacity'
        /\ Copied(Slots', local'[t].index, local'[t].fresh, n)
        /\ count' = Cardinality(Used(local'[t].fresh, n)) /\ count' <= local'[t].index
    BY <1>1, <1>2, <1>4, <1>10, <2>2, <2>5, <2>6
  <2> QED  BY <2>6, <2>7, <2>8 DEF Grown
<1> QED  BY <1>2, <1>4, <1>5, <1>6, <1>7, <1>9, <1>11, <1>12, GrowthKeeps

LEMMA CopiedHolds ==
  ASSUME NEW c \in Nat, NEW slots, NEW fresh, NEW n, \A k \in Keys : Agrees(slots, c, k, dict[k]),
         Copied(slots, c, fresh, n), count = Cardinality(Used(fresh, n))
  PROVE  Holds(fresh, n)
<1>1. ASSUME NEW k \in Keys PROVE Agrees(fresh, n, k, dict[k])
  <2> PICK v : v = dict[k]
    OBVIOUS
  <2>1. k # NoKey
    BY GlobalsAssumption
  <2>2. Agrees(slots, c, k, v)
    OBVIOUS
  <2>3. ASSUME NEW j \in 0..n-1, fresh[j].key = k
        PROVE  fresh[j].type = v.type /\ fresh[j].raw = v.raw
    <3>1. PICK i \in 0..c-1 : slots[i] = fresh[j]
      BY <2>1, <2>3 DEF Copied
    <3> QED  BY <2>2, <2>3, <3>1 DEF Agrees
  <2>4. ASSUME v # NotDefined PROVE \E j \in 0..n-1 : fresh[j].key = k
    <3>1. PICK i \in 0..c-1 : slots[i].key = k
      BY <2>2, <2>4 DEF Agrees
    <3>2. PICK j \in 0..n-1 : fresh[j] = slots[i]
      BY <2>1, <3>1 DEF Copied
    <3> QED  BY <3>1, <3>2
  <2> QED  BY <2>3, <2>4 DEF Agrees
<1> QED  BY <1>1 DEF Holds, Copied

LEMMA FreeKept ==
  ASSUME KeptInv, SharingInv', Record, UNCHANGED dict, NEW t \in Threads, Free(t)
  PROVE  KeptInv'
<1> PICK my : my = local[t]
  OBVIOUS
<1>1. TypeInv /\ capacity \in Nat
  BY DEF KeptInv, SharingInv, TypeInv
<1>2. /\ pc[t] = "copy" /\ UNCHANGED <<count, capacity, known>> /\ Busy(t)
      /\ my.index >= capacity /\ Moves(t, "install", my)
  BY <1>1 DEF Free, At, Busy, My, Goto, Moves, TypeInv
<1>3. my \in Frame /\ Rules(t, "copy", my) /\ Control("copy", my)
  BY <1>1, <1>2, Running DEF KeptInv, Ruled
<1>4. my.call = "set" /\ ~my.isNew /\ my.index \in Nat
  BY <1>3 DEF Rules, Control, Growth
<1>5. Rules(t, "install", my)
  BY <1>3, <1>4 DEF Rules, Growth
<1>6. pc'[t] = "install" /\ local'[t] = my
  BY <1>1, <1>2, MovesAt
<1>7. pc[t] \in Growth /\ "install" \in Growth \cup {"find"}
  BY <1>2 DEF Growth
<1>8. ASSUME ~damaged' PROVE Grown(t)'
  <2>1. ~damaged /\ Sane /\ Installed /\ ~Filling
    BY <1>2, <1>7, <1>8, GrowthCalm
  <2> PICK n, slots : n = Size(my.fresh) /\ slots = Slots
    OBVIOUS
  <2>2. /\ my.index <= capacity /\ Copied(slots, my.index, my.fresh, n)
        /\ count = Cardinality(Used(my.fresh, n))
    BY <1>2, <2>1 DEF Sane, Grown
  <2>3. Copied(slots, capacity, my.fresh, n)
    <3>1. my.index = capacity
      BY <1>1, <1>2, <1>4, <2>2
    <3> QED  BY <2>2, <3>1
  <2>4. \A k \in Keys : Agrees(slots, capacity, k, dict[k])
    BY <2>1 DEF Sane, Faithful
  <2>5. Holds(my.fresh, n)
    BY <1>1, <2>2, <2>3, <2>4, CopiedHolds
  <2>6. local'[t].fresh = my.fresh
    BY <1>6
  <2>7. Size(local'[t].fresh) = n
    BY <2>6
  <2>8. Holds(my.fresh, n)'
    BY <1>2, <2>5 DEF Holds
  <2>9. Holds(local[t].fresh, n)'
    BY <2>6, <2>8 DEF Holds
  <2> QED  BY <1>6, <2>7, <2>9 DEF Grown
<1> QED  BY <1>2, <1>4, <1>5, <1>7, <1>8, GrowthKeeps

LEMMA InstallEntriesKept ==
  ASSUME KeptInv, SharingInv', Record, UNCHANGED dict, NEW t \in Threads, InstallEntries(t)
  PROVE  KeptInv'
<1> PICK my : my = local[t]
  OBVIOUS
<1>1. TypeInv /\ capacity \in Nat
  BY DEF KeptInv, SharingInv, TypeInv
<1>2. /\ pc[t] = "install" /\ UNCHANGED <<count, capacity, known>> /\ Busy(t)
      /\ Moves(t, "resize", my)
  BY <1>1 DEF InstallEntries, At, Busy, Goto, Moves, TypeInv
<1>3. my \in Frame /\ Rules(t, "install", my)
  BY <1>1, <1>2, Running DEF KeptInv, Ruled
<1>4. my.call = "set" /\ ~my.isNew
  BY <1>3 DEF Rules, Growth
<1>5. Rules(t, "resize", my)
  BY <1>3, <1>4 DEF Rules, Growth
<1>6. pc'[t] = "resize" /\ local'[t] = my
  BY <1>1, <1>2, MovesAt
<1>7. pc[t] \in Growth /\ "resize" \in Growth \cup {"find"}
  BY <1>2 DEF Growth
<1>8. Slots' = my.fresh
  <2>1. arrays' = Append(arrays, my.fresh) /\ entries' = Len(arrays')
    BY DEF InstallEntries, My
  <2>2. Len(arrays') = Len(arrays) + 1 /\ arrays'[Len(arrays) + 1] = my.fresh /\ Len(arrays) \in Nat
    BY <1>1, <2>1 DEF TypeInv
  <2> QED  BY <2>1, <2>2 DEF Slots
<1>9. ASSUME ~damaged' PROVE Grown(t)'
  <2>1. Sane
    BY <1>2, <1>7, <1>9, GrowthCalm
  <2> PICK n : n = Size(my.fresh)
    OBVIOUS
  <2>2. Holds(my.fresh, n)
    BY <1>2, <2>1 DEF Sane, Grown
  <2>3. local'[t].fresh = my.fresh
    BY <1>6
  <2>4. Size(local'[t].fresh) = n
    BY <2>3
  <2>5. Holds(Slots, n)'
    BY <1>2, <1>8, <2>2 DEF Holds
  <2> QED  BY <1>6, <2>4, <2>5 DEF Grown
<1> QED  BY <1>2, <1>4, <1>5, <1>7, <1>9, GrowthKeeps

LEMMA InstallCapacityKept ==
  ASSUME KeptInv, SharingInv', Record, UNCHANGED dict, NEW t \in Threads, InstallCapacity(t)
  PROVE  KeptInv'
<1> PICK my : my = local[t]
  OBVIOUS
<1> PICK bare : bare = [WithoutSlot(my) EXCEPT !.fresh = None]
  OBVIOUS
<1>1. TypeInv
  BY DEF KeptInv, SharingInv
<1>2. /\ pc[t] = "resize" /\ UNCHANGED <<count, entries, arrays, known>> /\ Busy(t)
      /\ Moves(t, "find", bare) /\ capacity' = Size(my.fresh)
  BY DEF InstallCapacity, At, Busy, Goto, Moves, My, Size
<1>3. my \in Frame /\ Rules(t, "resize", my)
  BY <1>1, <1>2, Running DEF KeptInv, Ruled
<1>4. my.call = "set" /\ ~my.isNew
  BY <1>3 DEF Rules, Growth
<1>5. bare.op = my.op /\ bare.call = my.call /\ bare.key = my.key /\ bare.isNew = my.isNew
  BY <1>3 DEF Frame, WithoutSlot
<1>6. Rules(t, "find", bare)
  BY <1>3, <1>4, <1>5 DEF Rules, Growth
<1>7. pc'[t] = "find"
  BY <1>1, <1>2, MovesAt
<1>8. pc[t] \in Growth /\ "find" \in Growth \cup {"find"}
  BY <1>2 DEF Growth
<1>9. ASSUME ~damaged' PROVE Holds(Slots, capacity)'
  <2>1. Sane
    BY <1>2, <1>8, <1>9, GrowthCalm
  <2> PICK n : n = Size(my.fresh)
    OBVIOUS
  <2>2. Holds(Slots, n)
    BY <1>2, <2>1 DEF Sane, Grown
  <2>3. Slots' = Slots /\ capacity' = n
    BY <1>2 DEF Slots
  <2> QED  BY <1>2, <2>2, <2>3 DEF Holds
<1>10. Grown(t)'
  BY <1>7 DEF Grown
<1> QED  BY <1>2, <1>4, <1>5, <1>6, <1>8, <1>9, <1>10, GrowthKeeps DEF Holds

-----------------------------------------------------------------------------
(* The table main has made before the others start.                        *)

LEMMA TableInOrder ==
  ASSUME NEW slots \in Tables, NEW n, n = Cardinality(DOMAIN slots), n \in Nat
  PROVE  /\ slots \in [0..n-1 -> Slot] /\ DOMAIN slots = 0..n-1
         /\ InOrder(slots, n, {NoKey})
         /\ \A i \in 0..n-1 : \A j \in 0..n-1 :
              slots[i].key = slots[j].key /\ slots[i].key # NoKey => i = j
<1>1. slots \in [0..n-1 -> Slot] /\ DOMAIN slots = 0..n-1
  BY TablesAssumption
<1>2. ASSUME NEW i \in 0..n-1, slots[i].key # NoKey PROVE Leads(slots, n, {NoKey}, slots[i].key, i)
  <2> PICK k : k = slots[i].key
    OBVIOUS
  <2>1. k \in Keys /\ n > 0 /\ slots[i].key \in {NoKey, k}
    BY <1>1, <1>2 DEF Slot
  <2>2. Leads(slots, n, {NoKey}, k, Place(slots, k))
    BY <1>1, <2>1, PlaceLeads
  <2>3. Place(slots, k) = i
    BY <1>1, <1>2, TablesAssumption
  <2> QED  BY <2>2, <2>3
<1>3. InOrder(slots, n, {NoKey})
  BY <1>2 DEF InOrder
<1>4. ASSUME NEW i \in 0..n-1, NEW j \in 0..n-1, slots[i].key = slots[j].key, slots[i].key # NoKey
      PROVE  i = j
  <2> PICK k : k = slots[i].key
    OBVIOUS
  <2>1. k \in Keys
    BY <1>1, <1>4 DEF Slot
  <2>2. Leads(slots, n, {NoKey}, k, j)
    BY <1>2, <1>4
  <2>3. j = i \/ slots[j].key \notin {NoKey} \cup {k}
    BY <1>3, <2>1, <2>2, Behind
  <2> QED  BY <1>4, <2>3
<1> QED  BY <1>1, <1>3, <1>4

LEMMA InitKept == Init => KeptInv
<1> SUFFICES ASSUME Init PROVE KeptInv
  OBVIOUS
<1>1. SharingInv /\ TypeInv /\ Main \in Threads
  BY InitSharing DEF SharingInv, Threads
<1>2. \A t \in Threads : pc[t] = "idle"
  BY DEF Init
<1>3. PICK slots \in Tables :
        /\ count = Cardinality({i \in DOMAIN slots : ~IsEmpty(slots[i])})
        /\ capacity = Cardinality(DOMAIN slots)
        /\ arrays = (IF capacity = 0 THEN <<>> ELSE <<slots>>) /\ entries = Len(arrays)
        /\ known = {k \in Keys : {i \in DOMAIN slots : slots[i].key = k} # {}}
        /\ dict = [k \in Keys |->
                    IF k \notin known THEN NotDefined
                    ELSE LET e == slots[Least({i \in DOMAIN slots : slots[i].key = k})]
                         IN  [type |-> e.type, raw |-> e.raw]]
  BY DEF Init
<1>4. capacity \in Nat
  BY <1>1 DEF TypeInv
<1>5. /\ slots \in [0..capacity-1 -> Slot] /\ DOMAIN slots = 0..capacity-1
      /\ InOrder(slots, capacity, {NoKey})
      /\ \A i \in 0..capacity-1 : \A j \in 0..capacity-1 :
           slots[i].key = slots[j].key /\ slots[i].key # NoKey => i = j
  BY <1>3, <1>4, TableInOrder
<1>6. \A i \in 0..capacity-1 : Slots[i] = slots[i]
  <2> SUFFICES ASSUME NEW i \in 0..capacity-1 PROVE Slots[i] = slots[i]
    OBVIOUS
  <2>1. capacity # 0
    BY <1>4
  <2> QED  BY <1>3, <2>1 DEF Slots
<1>7. ASSUME NEW k \in Keys
      PROVE  /\ k \in known => \E i \in 0..capacity-1 : /\ slots[i].key = k
                                                         /\ dict[k] = [type |-> slots[i].type, raw |-> slots[i].raw]
             /\ k \notin known => dict[k] = NotDefined /\ \A i \in 0..capacity-1 : slots[i].key # k
  <2> DEFINE S == {i \in DOMAIN slots : slots[i].key = k}
  <2>1. CASE k \in known
    <3>1. S \in SUBSET Nat /\ S # {} /\ S \subseteq 0..capacity-1
      BY <1>3, <1>4, <1>5, <2>1
    <3>2. dict[k] = LET e == slots[Least(S)] IN [type |-> e.type, raw |-> e.raw]
      BY <1>3, <2>1
    <3>3. Least(S) \in S
      <4> HIDE DEF S
      <4> QED  BY <3>1, LeastIsLeast
    <3>4. Least(S) \in 0..capacity-1 /\ slots[Least(S)].key = k
      BY <3>1, <3>3
    <3> HIDE DEF S
    <3> QED  BY <2>1, <3>2, <3>4
  <2>2. CASE k \notin known
    BY <1>3, <1>5, <2>2
  <2> QED  BY <2>1, <2>2
<1>8. dict \in [Keys -> Answer] /\ \A k \in known : dict[k].type \in Types
  <2>1. known \subseteq Keys /\ NotDefined \in Answer
    BY <1>1 DEF TypeInv, NotDefined, Answer
  <2>2. \A i \in 0..capacity-1 : slots[i].type \in Types /\ slots[i].raw \in Nat
    BY <1>5 DEF Slot
  <2>3. ASSUME NEW k \in Keys PROVE dict[k] \in Answer /\ (k \in known => dict[k].type \in Types)
    <3>1. CASE k \in known
      <4>1. PICK i \in 0..capacity-1 : dict[k] = [type |-> slots[i].type, raw |-> slots[i].raw]
        BY <1>7, <3>1
      <4> PICK type, raw : type = slots[i].type /\ raw = slots[i].raw
        OBVIOUS
      <4>2. type \in Types /\ raw \in Nat /\ dict[k] = [type |-> type, raw |-> raw]
        BY <2>2, <4>1
      <4> QED  BY <4>2 DEF Answer
    <3>2. CASE k \notin known
      BY <1>7, <2>1, <3>2
    <3> QED  BY <3>1, <3>2
  <2> DEFINE value(k) == IF k \notin known THEN NotDefined
                         ELSE LET e == slots[Least({i \in DOMAIN slots : slots[i].key = k})]
                              IN  [type |-> e.type, raw |-> e.raw]
  <2>4. dict = [k \in Keys |-> value(k)]
    BY <1>3
  <2> HIDE DEF value
  <2>5. \A k \in Keys : value(k) = dict[k]
    BY <2>4
  <2> QED  BY <2>1, <2>3, <2>4, <2>5
<1>9. ASSUME NEW k \in Keys PROVE Agrees(Slots, capacity, k, dict[k])
  <2> PICK v : v = dict[k]
    OBVIOUS
  <2>1. k # NoKey
    BY GlobalsAssumption
  <2>2. CASE k \in known
    <3>1. PICK i \in 0..capacity-1 : /\ slots[i].key = k
                                     /\ v = [type |-> slots[i].type, raw |-> slots[i].raw]
      BY <1>7, <2>2
    <3>2. \A j \in 0..capacity-1 : slots[j].key = k => j = i
      BY <1>5, <2>1, <3>1
    <3>3. v.type = slots[i].type /\ v.raw = slots[i].raw
      BY <3>1
    <3> QED  BY <1>6, <3>1, <3>2, <3>3 DEF Agrees
  <2>3. CASE k \notin known
    BY <1>6, <1>7, <2>3 DEF Agrees
  <2> QED  BY <2>2, <2>3
<1>10. InOrder(Slots, capacity, {NoKey})
  <2> SUFFICES ASSUME NEW i \in 0..capacity-1, Slots[i].key # NoKey
               PROVE  Leads(Slots, capacity, {NoKey}, Slots[i].key, i)
    BY DEF InOrder
  <2> PICK k : k = slots[i].key
    OBVIOUS
  <2>1. k \in Keys /\ Leads(slots, capacity, {NoKey}, k, i)
    BY <1>5, <1>6 DEF InOrder, Slot
  <2>2. \A j \in 0..capacity-1 : Slots[j].key \in {NoKey} \cup {k} => slots[j].key \in {NoKey} \cup {k}
    BY <1>6
  <2>3. Leads(Slots, capacity, {NoKey}, k, i)
    BY <1>4, <2>1, <2>2, LeadsKept
  <2> QED  BY <1>6, <2>3
<1>11. ~Filling /\ Filled = {} /\ Made = {} /\ Vacant = {NoKey} /\ \A t \in Threads : ~Busy(t) /\ ~Growing(t)
  BY <1>1, <1>2 DEF Filling, Filled, Made, Vacant, Makes, Busy, Growing
<1>12. Sane
  <2>1. KnownKept /\ OnlyMainMakes
    BY <1>8, <1>11 DEF KnownKept, OnlyMainMakes, Makes
  <2>2. Placed /\ Faithful /\ Fill
    BY <1>9, <1>10, <1>11 DEF Placed, Faithful, Fill
  <2>3. Counted
    <3>1. {i \in DOMAIN slots : ~IsEmpty(slots[i])} = Used(Slots, capacity)
      BY <1>5, <1>6 DEF Used
    <3> QED  BY <1>3, <1>11, <3>1 DEF Counted
  <2>4. (\A g \in Threads : Grown(g)) /\ Looking
    BY <1>2, <1>11 DEF Grown, Looking
  <2> QED  BY <2>1, <2>2, <2>3, <2>4 DEF Sane
<1> QED  BY <1>1, <1>8, <1>11, <1>12 DEF KeptInv, Ruled, Noticed

LEMMA NextKept == KeptInv /\ [Next]_vars => KeptInv'
<1> SUFFICES ASSUME KeptInv, [Next]_vars PROVE KeptInv'
  OBVIOUS
<1>1. SharingInv'
  BY NextSharing DEF KeptInv
<1>2. CASE UNCHANGED vars
  <2>1. UNCHANGED <<shared, pc, local, known, dict, disturbed, damaged>>
    BY <1>2 DEF vars, history
  <2>2. Noticed'
    BY <2>1 DEF KeptInv, Noticed, Busy, Disturbs, Growing, Making
  <2> QED  BY <1>1, <2>1, <2>2, SameKept
<1>3. ASSUME NEW t \in Threads, Step(t) PROVE KeptInv'
  <2>1. Record
    BY <1>3 DEF Step
  <2>2. CASE Quietly(t) /\ UNCHANGED dict
    <3>1. CASE Compare(t)
      BY <1>1, <2>1, <2>2, <3>1, StayKept, GrowKept
    <3>2. CASE FoundToRemove(t) \/ FoundToSet(t)
      BY <1>1, <2>1, <2>2, <3>2, FoundKept, FillStartKept
    <3>3. CASE TestCount(t) \/ LoadCount(t) \/ Return(t) \/ BadAccess(t)
      BY <1>1, <2>1, <2>2, <3>3, CountKept, ReturnKept, BadKept
    <3>4. CASE CopyEntry(t) \/ Free(t) \/ InstallEntries(t) \/ InstallCapacity(t)
      BY <1>1, <2>1, <2>2, <3>4, CopyKept, FreeKept, InstallEntriesKept, InstallCapacityKept
    <3>5. CASE ReadEntries(t) \/ ReadCapacity(t) \/ ProbeKey(t) \/ ProbeValue(t)
      BY <1>1, <2>1, <2>2, <3>5, ArgumentsKept, ProbeKeyKept, ProbeValueKept
    <3>6. CASE FoundToGet(t) \/ Fetch(t)
      BY <1>1, <2>1, <2>2, <3>6, GetKept
    <3> QED  BY <2>2, <3>1, <3>2, <3>3, <3>4, <3>5, <3>6 DEF Quietly
  <2>3. CASE Store(t)
    BY <1>1, <2>1, <2>3, StoreOldKept, StoreNewKept
  <2> QED  BY <1>3, <2>2, <2>3 DEF Step
<1>4. ASSUME NEW t \in Threads, Instruction(t), UNCHANGED dict, Record PROVE KeptInv'
  BY <1>1, <1>4, BeginKept
<1> QED  BY <1>2, <1>3, <1>4 DEF Next

THEOREM GlobalsKeptInv == Spec => []KeptInv
BY InitKept, NextKept, PTL DEF Spec

(* Between instructions the table holds what was stored, no assignment     *)
(* lost and no variable twice, and its fields are right, however many      *)
(* threads there are and whatever their scripts: as long as no instruction *)
(* that stores was disturbed.                                              *)
THEOREM GlobalsKept == Spec => []Kept
<1>1. ASSUME KeptInv PROVE Kept
  <2> SUFFICES ASSUME \A t \in Threads : pc[t] = "idle", ~damaged, entries # 0
      PROVE  LET slots == Slots
                 of(k) == {i \in DOMAIN slots : slots[i].key = k}
             IN
             /\ capacity = Cardinality(DOMAIN slots)
             /\ count = Cardinality({i \in DOMAIN slots : ~IsEmpty(slots[i])})
             /\ \A k \in Keys :
                  IF dict[k] = NotDefined THEN of(k) = {}
                  ELSE \E i \in of(k) : of(k) = {i} /\ slots[i] = [key |-> k, type |-> dict[k].type, raw |-> dict[k].raw]
    BY DEF Kept, Slots
  <2>1. Main \in Threads /\ TypeInv /\ GrowthInv /\ Sane
    BY <1>1 DEF Threads, KeptInv, SharingInv
  <2>2. ~Filling /\ Filled = {} /\ Made = {} /\ Vacant = {NoKey} /\ Installed /\ \A t \in Threads : ~Growing(t)
    BY <2>1 DEF Filling, Filled, Made, Vacant, Makes, Busy, Growing, Installed
  <2>3. DOMAIN Slots = 0..capacity-1 /\ capacity \in Nat /\ capacity > 0
    BY <2>1, <2>2 DEF GrowthInv, Whole, Sound, Slots, Installed, TypeInv
  <2>4. Slots \in [0..capacity-1 -> Slot]
    BY <2>1, <2>2, <2>3, SlotsType
  <2>5. InOrder(Slots, capacity, {NoKey}) /\ count = Cardinality(Used(Slots, capacity))
    BY <2>1, <2>2 DEF Sane, Placed, Counted
  <2>6. ASSUME NEW k \in Keys PROVE Agrees(Slots, capacity, k, dict[k])
    BY <2>1, <2>2 DEF Sane, Faithful
  <2>7. capacity = Cardinality(DOMAIN Slots)
    BY <2>3, SizeOf
  <2>8. Used(Slots, capacity) = {i \in DOMAIN Slots : ~IsEmpty(Slots[i])}
    BY <2>3 DEF Used
  <2>9. ASSUME NEW k \in Keys, dict[k] = NotDefined PROVE {i \in DOMAIN Slots : Slots[i].key = k} = {}
    <3> SUFFICES ASSUME NEW i \in 0..capacity-1, Slots[i].key = k PROVE FALSE
      BY <2>3
    <3>1. Slots[i].type = "undefined"
      BY <2>6, <2>9 DEF Agrees, NotDefined
    <3> QED  BY <2>4, <3>1 DEF Slot, Types
  <2>10. ASSUME NEW k \in Keys, dict[k] # NotDefined
         PROVE  \E i \in {i \in DOMAIN Slots : Slots[i].key = k} :
                  /\ {j \in DOMAIN Slots : Slots[j].key = k} = {i}
                  /\ Slots[i] = [key |-> k, type |-> dict[k].type, raw |-> dict[k].raw]
    <3>1. PICK i \in 0..capacity-1 : Slots[i].key = k
      BY <2>6, <2>10 DEF Agrees
    <3>2. Slots[i].type = dict[k].type /\ Slots[i].raw = dict[k].raw
      BY <2>6, <3>1 DEF Agrees
    <3>3. Slots[i] = [key |-> k, type |-> dict[k].type, raw |-> dict[k].raw]
      BY <2>4, <3>1, <3>2 DEF Slot
    <3>4. ASSUME NEW j \in 0..capacity-1, Slots[j].key = k PROVE j = i
      <4>1. Leads(Slots, capacity, {NoKey}, k, j)
        BY <2>5, <3>4, GlobalsAssumption DEF InOrder
      <4>2. j = i \/ Slots[j].key \notin {NoKey} \cup {k}
        BY <2>3, <2>5, <3>1, <4>1, Behind
      <4> QED  BY <3>4, <4>2
    <3> QED  BY <2>3, <3>1, <3>3, <3>4
  <2> QED  BY <2>5, <2>7, <2>8, <2>9, <2>10
<1> QED  BY <1>1, GlobalsKeptInv, PTL

-----------------------------------------------------------------------------
(* What an instruction reads.                                              *)

TypeIn(S, type) == type \in {v.type : v \in S}
RawIn(S, raw) == raw \in {v.raw : v \in S}

(* The words an instruction has read, or stored, are of what its variable  *)
(* has been during it.                                                     *)
Reads(S, p, my) ==
  /\ p = "fetch" => /\ "type" \notin my.todo => TypeIn(S, my.answer.type)
                    /\ "raw" \notin my.todo => RawIn(S, my.answer.raw)
  /\ p = "store" /\ my.call = "set" => /\ "type" \notin my.todo => TypeIn(S, my.value.type)
                                       /\ "raw" \notin my.todo => RawIn(S, my.value.raw)
  /\ p = "store" /\ my.call = "remove" => ("key" \notin my.todo => NotDefined \in S)
  /\ p = "done" => TypeIn(S, my.answer.type) /\ RawIn(S, my.answer.raw)

Reading == {"fetch", "store", "done"}

ReadInv ==
  /\ KeptInv
  /\ \A t \in Threads : Busy(t) => dict[local[t].key] \in seen[t]
  /\ ~damaged => \A t \in Threads : ~disturbed[t] => Reads(seen[t], pc[t], local[t])

LEMMA ReadsMore ==
  ASSUME NEW S, NEW S2, S \subseteq S2, NEW p, NEW my, Reads(S, p, my)
  PROVE  Reads(S2, p, my)
<1>1. \A x : (TypeIn(S, x) => TypeIn(S2, x)) /\ (RawIn(S, x) => RawIn(S2, x))
  BY DEF TypeIn, RawIn
<1> QED  BY <1>1 DEF Reads

LEMMA WordsIn ==
  ASSUME NEW S, NEW v \in S
  PROVE  TypeIn(S, v.type) /\ RawIn(S, v.raw)
BY DEF TypeIn, RawIn

LEMMA SeenNext ==
  ASSUME Record, NEW t \in Threads
  PROVE  /\ Busy(t) /\ pc'[t] # "idle" => seen'[t] = seen[t] \cup {dict'[local'[t].key]}
         /\ pc[t] = "done" /\ pc'[t] = "done" => seen'[t] = seen[t]
         /\ pc[t] = "idle" /\ pc'[t] # "idle" => seen'[t] = {dict'[local'[t].key]}
<1>1. seen'[t] = Watch(t)
  BY DEF Record
<1>2. Busy(t) /\ pc'[t] # "idle" => Watch(t) = seen[t] \cup {dict'[local'[t].key]}
  BY DEF Watch, Busy
<1>3. pc[t] = "done" /\ pc'[t] = "done" => Watch(t) = seen[t]
  BY DEF Watch
<1>4. pc[t] = "idle" /\ pc'[t] # "idle" => Watch(t) = {dict'[local'[t].key]}
  BY DEF Watch
<1> QED  BY <1>1, <1>2, <1>3, <1>4

(* What is to be shown of a step of thread t.                              *)
LEMMA ReadStep ==
  ASSUME ReadInv, KeptInv', Record, NEW t \in Threads,
         \A s \in Threads \ {t} : pc'[s] = pc[s] /\ local'[s] = local[s],
         pc[t] = "done" => pc'[t] = "idle",
         pc'[t] \in Reading => Busy(t),
         pc'[t] \in Reading /\ ~damaged /\ ~damaged' /\ ~disturbed[t] /\ ~disturbed'[t] =>
           Reads(seen[t] \cup {dict'[local'[t].key]}, pc'[t], local'[t])
  PROVE  ReadInv'
<1>1. GrowthInv
  BY DEF ReadInv, KeptInv, SharingInv
<1>2. ASSUME NEW s \in Threads, Busy(s)' PROVE dict'[local'[s].key] \in seen'[s]
  <2>1. pc'[s] # "idle" /\ pc[s] # "done"
    BY <1>2 DEF Busy
  <2>2. Busy(s) \/ pc[s] = "idle"
    BY <2>1 DEF Busy
  <2> QED  BY <2>1, <2>2, SeenNext
<1>3. ASSUME ~damaged', NEW s \in Threads, ~disturbed'[s] PROVE Reads(seen'[s], pc'[s], local'[s])
  <2>1. CASE pc'[s] \notin Reading
    BY <2>1 DEF Reads, Reading
  <2>2. CASE pc'[s] \in Reading
    <3>1. pc'[s] # "idle" /\ ~damaged /\ ~disturbed[s]
      BY <1>1, <1>3, <2>2, RecordFacts DEF Reading
    <3>2. CASE s = t
      <4>1. seen'[t] = seen[t] \cup {dict'[local'[t].key]}
        BY <2>2, <3>1, <3>2, SeenNext
      <4> QED  BY <1>3, <2>2, <3>1, <3>2, <4>1
    <3>3. CASE s # t
      <4>1. Reads(seen[s], pc'[s], local'[s])
        BY <3>1, <3>3 DEF ReadInv
      <4>2. Busy(s) \/ (pc[s] = "done" /\ pc'[s] = "done")
        BY <3>1, <3>3 DEF Busy
      <4>3. seen[s] \subseteq seen'[s]
        BY <3>1, <4>2, SeenNext
      <4> QED  BY <4>1, <4>3, ReadsMore
    <3> QED  BY <3>2, <3>3
  <2> QED  BY <2>1, <2>2
<1> QED  BY <1>2, <1>3 DEF ReadInv

LEMMA OthersRest ==
  ASSUME TypeInv, NEW t \in Threads, Quietly(t) \/ Store(t) \/ Instruction(t)
  PROVE  \A s \in Threads \ {t} : pc'[s] = pc[s] /\ local'[s] = local[s]
<1> SUFFICES ASSUME NEW s \in Threads \ {t} PROVE pc'[s] = pc[s] /\ local'[s] = local[s]
  OBVIOUS
<1>2. \A p : Goto(t, p) => pc'[s] = pc[s]
  BY DEF Goto, TypeInv
<1>3. \A m : local' = [local EXCEPT ![t] = m] => local'[s] = local[s]
  BY DEF TypeInv
<1>4. \A a : Finished(t, a) => local'[s] = local[s]
  BY DEF Finished, TypeInv
<1>5. CASE TestCount(t)
  BY <1>2, <1>4, <1>5 DEF TestCount
<1>6. CASE LoadCount(t) \/ Compare(t)
  BY <1>2, <1>6 DEF LoadCount, Compare, Let, TypeInv
<1>7. CASE CopyEntry(t)
  BY <1>7 DEF CopyEntry, Let, TypeInv
<1>8. CASE Free(t) \/ InstallEntries(t) \/ InstallCapacity(t)
  BY <1>2, <1>8 DEF Free, InstallEntries, InstallCapacity, TypeInv
<1>9. CASE ReadEntries(t) \/ ReadCapacity(t)
  BY <1>2, <1>9 DEF ReadEntries, ReadCapacity, Arguments, TypeInv
<1>10. CASE ProbeKey(t) \/ ProbeValue(t)
  BY <1>2, <1>10 DEF ProbeKey, ProbeValue, Let, TypeInv
<1>11. CASE FoundToGet(t)
  BY <1>2, <1>4, <1>11 DEF FoundToGet, Let, TypeInv
<1>12. CASE Fetch(t)
  <2>1. PICK word \in My(t).todo :
          LET answer == [My(t).answer EXCEPT ![word] = Entry(t)[word]] IN
          IF My(t).todo = {word}
          THEN Finished(t, answer) /\ Goto(t, "done")
          ELSE local' = [local EXCEPT ![t].answer = answer, ![t].todo = @ \ {word}] /\ UNCHANGED pc
    BY <1>12 DEF Fetch
  <2> PICK answer : answer = [My(t).answer EXCEPT ![word] = Entry(t)[word]]
    OBVIOUS
  <2>2. \/ Finished(t, answer) /\ Goto(t, "done")
        \/ local' = [local EXCEPT ![t].answer = answer, ![t].todo = @ \ {word}] /\ UNCHANGED pc
    BY <2>1
  <2> QED  BY <1>2, <1>4, <2>2 DEF TypeInv
<1>13. CASE FoundToRemove(t) \/ FoundToSet(t)
  BY <1>2, <1>4, <1>13 DEF FoundToRemove, FoundToSet, Let, TypeInv
<1>14. CASE BadAccess(t) \/ Return(t)
  BY <1>2, <1>14 DEF BadAccess, Return
<1>15. CASE Store(t)
  <2>1. PICK word \in My(t).todo :
          \/ Let(t, "todo", My(t).todo \ {word}) /\ UNCHANGED pc
          \/ /\ local' = [local EXCEPT ![t] = [WithoutSlot(@) EXCEPT !.call = "remove", !.todo = {}]]
             /\ Goto(t, "count")
          \/ /\ Finished(t, IF My(t).call = "remove" THEN NotDefined ELSE My(t).value)
             /\ Goto(t, "done")
    BY <1>15 DEF Store
  <2> QED  BY <1>2, <1>4, <2>1 DEF Let, TypeInv
<1>16. CASE Instruction(t)
  <2>1. PICK op, k, v : Begin(t, op, k, v)
    BY <1>16 DEF Instruction
  <2> QED  BY <1>2, <2>1 DEF Begin, TypeInv
<1> QED  BY <1>5, <1>6, <1>7, <1>8, <1>9, <1>10, <1>11, <1>12, <1>13, <1>14, <1>15, <1>16 DEF Quietly

(* Steps that neither read a word nor store one, nor end.                  *)
LEMMA NotReading ==
  ASSUME TypeInv, NEW t \in Threads,
         \/ LoadCount(t) \/ Compare(t) \/ CopyEntry(t) \/ Free(t) \/ InstallEntries(t)
         \/ InstallCapacity(t) \/ ReadEntries(t) \/ ReadCapacity(t) \/ ProbeKey(t) \/ ProbeValue(t)
         \/ Return(t) \/ Instruction(t)
  PROVE  pc'[t] \notin Reading /\ (pc[t] = "done" => pc'[t] = "idle")
<1>1. \A p : Goto(t, p) => pc'[t] = p
  BY DEF Goto, TypeInv
<1>2. CASE LoadCount(t) \/ Compare(t)
  BY <1>1, <1>2 DEF LoadCount, Compare, At, Reading
<1>3. CASE CopyEntry(t)
  BY <1>3 DEF CopyEntry, At, Reading
<1>4. CASE Free(t) \/ InstallEntries(t) \/ InstallCapacity(t)
  BY <1>1, <1>4 DEF Free, InstallEntries, InstallCapacity, At, Reading
<1>5. CASE ReadEntries(t) \/ ReadCapacity(t)
  BY <1>1, <1>5 DEF ReadEntries, ReadCapacity, Arguments, At, Reading
<1>6. CASE ProbeKey(t)
  <2>1. pc[t] = "key" /\ (Goto(t, "found") \/ Goto(t, "value") \/ UNCHANGED pc)
    BY <1>6 DEF ProbeKey, At
  <2> QED  BY <1>1, <2>1 DEF Reading
<1>7. CASE ProbeValue(t)
  <2>1. pc[t] = "value" /\ (Goto(t, "found") \/ Goto(t, "key"))
    BY <1>7 DEF ProbeValue, At
  <2> QED  BY <1>1, <2>1 DEF Reading
<1>8. CASE Return(t)
  BY <1>1, <1>8 DEF Return, Reading
<1>9. CASE Instruction(t)
  <2>1. PICK op, k, v : Begin(t, op, k, v)
    BY <1>9 DEF Instruction
  <2> QED  BY <1>1, <2>1 DEF Begin, At, Reading
<1> QED  BY <1>2, <1>3, <1>4, <1>5, <1>6, <1>7, <1>8, <1>9

(* With a count of 0 no variable has an entry.                             *)
LEMMA EmptyTable ==
  ASSUME KeptInv, ~damaged, NEW t \in Threads, pc[t] = "count", ~disturbed[t], count = 0
  PROVE  dict[local[t].key] = NotDefined
<1>1. TypeInv /\ GrowthInv /\ Sane
  BY DEF KeptInv, SharingInv
<1>2. Busy(t) /\ local[t] \in Frame /\ ~Growing(t)
  BY <1>1, Running DEF Busy, Growing
<1> PICK k : k = local[t].key
  OBVIOUS
<1>3. k \in Keys /\ k # NoKey
  BY <1>2, GlobalsAssumption DEF Frame
<1>4. \A s \in Threads : ~Growing(s)
  BY <1>1, <1>2 DEF GrowthInv
<1>5. Installed
  BY <1>4 DEF Installed, Growing
<1> PICK used : used = Used(Slots, capacity)
  OBVIOUS
<1>6. IsFiniteSet(used) /\ IsFiniteSet(used \cup {local[Main].index})
  <2>1. IsFiniteSet(used)
    BY <1>1, UsedFinite DEF TypeInv
  <2> QED  BY <2>1, FS_AddElement
<1>7. used \cup Filled = {}
  <2>1. Cardinality(used \cup Filled) = 0
    BY <1>1, <1>4 DEF Sane, Counted
  <2>2. IsFiniteSet(used \cup Filled)
    <3>1. Filled = {} \/ Filled = {local[Main].index}
      BY DEF Filled
    <3>2. used \cup {} = used
      OBVIOUS
    <3> QED  BY <1>6, <3>1, <3>2
  <2> QED  BY <2>1, <2>2, FS_EmptySet
<1>8. ~Filling
  BY <1>7 DEF Filled
<1>9. Agrees(Slots, capacity, k, dict[k])
  BY <1>1, <1>3, <1>5, <1>8 DEF Sane, Faithful
<1>10. \A i \in 0..capacity-1 : Slots[i].key # k
  BY <1>3, <1>7 DEF Used, IsEmpty
<1> QED  BY <1>9, <1>10 DEF Agrees

(* An undisturbed instruction at an entry sees its variable as it is,      *)
(* unless it is itself about to store.                                     *)
LEMMA OwnAgrees ==
  ASSUME KeptInv, ~damaged, NEW t \in Threads, pc[t] \in OnSlot, pc[t] # "store", ~disturbed[t]
  PROVE  Agrees(Slots, capacity, local[t].key, dict[local[t].key])
<1>1. Busy(t) /\ Installed /\ local[t].key \in Keys
  BY Here
<1>2. ~(Filling /\ local[t].key = local[Main].key)
  <2> SUFFICES ASSUME Filling, local[t].key = local[Main].key PROVE FALSE
    OBVIOUS
  <2>1. Main \in Threads \ {t}
    BY DEF Filling, Threads
  <2>2. Disturbs(Main, t)
    BY DEF Disturbs, Making, Filling
  <2> QED  BY <1>1, <2>1, <2>2 DEF KeptInv, Noticed
<1> QED  BY <1>1, <1>2 DEF KeptInv, Sane, Faithful

LEMMA FoundNothing ==
  ASSUME KeptInv, ~damaged, NEW t \in Threads, pc[t] = "found", ~disturbed[t],
         Entry(t).key = NoKey
  PROVE  dict[local[t].key] = NotDefined
<1>1. pc[t] \in OnSlot
  BY DEF OnSlot
<1>2. /\ Look(Slots, capacity, Vacant, pc[t], local[t])
      /\ Entry(t) = Slots[local[t].index]
  BY <1>1, Here
<1>3. \A i \in 0..capacity-1 : Slots[i].key # local[t].key
  BY <1>1, <1>2, Missing DEF Look
<1> QED  BY <1>1, <1>3, OwnAgrees DEF Agrees

LEMMA NothingRead ==
  ASSUME NEW S, NotDefined \in S, NEW my, my.answer = NotDefined
  PROVE  Reads(S, "done", my)
<1>1. TypeIn(S, NotDefined.type) /\ RawIn(S, NotDefined.raw)
  BY WordsIn
<1> QED  BY <1>1 DEF Reads

(* A tab function that finds nothing.                                      *)
LEMMA FinishedNone ==
  ASSUME TypeInv, NEW t \in Threads, pc[t] # "idle", Finished(t, NotDefined)
  PROVE  local'[t].answer = NotDefined /\ local'[t].key = local[t].key
<1> PICK my : my = local[t]
  OBVIOUS
<1> DEFINE m == [WithoutSlot(my) EXCEPT !.todo = {}, !.answer = NotDefined]
<1>1. my \in Frame
  BY Running
<1>2. m.answer = NotDefined /\ m.key = my.key
  BY <1>1 DEF Frame, WithoutSlot
<1>3. local'[t] = m
  BY DEF Finished, TypeInv
<1> HIDE DEF m
<1> QED  BY <1>2, <1>3

LEMMA CountReads ==
  ASSUME ReadInv, KeptInv', Record, UNCHANGED dict, NEW t \in Threads, TestCount(t)
  PROVE  ReadInv'
<1>1. TypeInv /\ pc[t] = "count" /\ Busy(t)
  BY DEF ReadInv, KeptInv, SharingInv, TestCount, At, Busy
<1>2. CASE count = 0
  <2>1. Goto(t, "done") /\ Finished(t, NotDefined)
    BY <1>2 DEF TestCount
  <2>2. pc'[t] = "done" /\ local'[t].answer = NotDefined /\ local'[t].key = local[t].key
    BY <1>1, <2>1, FinishedNone DEF Goto, TypeInv
  <2>3. ASSUME ~damaged, ~disturbed[t]
        PROVE  Reads(seen[t] \cup {dict'[local'[t].key]}, pc'[t], local'[t])
    <3>1. dict'[local'[t].key] = NotDefined
      BY <1>1, <1>2, <2>2, <2>3, EmptyTable DEF ReadInv
    <3> QED  BY <2>2, <3>1, NothingRead
  <2>4. Quietly(t)
    BY DEF Quietly
  <2> QED  BY <1>1, <2>3, <2>4, OthersRest, ReadStep
<1>3. CASE count # 0
  <2>1. pc'[t] = "find"
    BY <1>1, <1>3 DEF TestCount, Goto, TypeInv
  <2>2. pc'[t] \notin Reading
    BY <2>1 DEF Reading
  <2>3. Quietly(t)
    BY DEF Quietly
  <2> QED  BY <1>1, <2>2, <2>3, OthersRest, ReadStep
<1> QED  BY <1>2, <1>3

LEMMA FoundReads ==
  ASSUME ReadInv, KeptInv', Record, UNCHANGED dict, NEW t \in Threads,
         FoundToGet(t) \/ FoundToRemove(t) \/ FoundToSet(t)
  PROVE  ReadInv'
<1> PICK my : my = local[t]
  OBVIOUS
<1>1. TypeInv /\ pc[t] = "found" /\ Busy(t) /\ my \in Frame
  <2>1. TypeInv /\ pc[t] = "found"
    BY DEF ReadInv, KeptInv, SharingInv, FoundToGet, FoundToRemove, FoundToSet, At
  <2> QED  BY <2>1, Running DEF Busy
<1>2. Quietly(t)
  BY DEF Quietly
<1>3. \/ Goto(t, "done") /\ Finished(t, NotDefined) /\ Entry(t).key = NoKey
      \/ /\ Goto(t, "fetch") \/ Goto(t, "store")
         /\ local'[t].todo \in {Fields, {"type", "raw"}}
         /\ Goto(t, "store") => local'[t].todo = Fields
  <2>1. CASE FoundToGet(t)
    <3>1. CASE Entry(t).key = NoKey
      BY <2>1, <3>1 DEF FoundToGet
    <3>2. CASE Entry(t).key # NoKey
      <4>1. Goto(t, "fetch") /\ local' = [local EXCEPT ![t].todo = {"type", "raw"}]
        BY <2>1, <3>2 DEF FoundToGet, Let
      <4>2. local'[t].todo = {"type", "raw"}
        BY <1>1, <4>1 DEF TypeInv, Frame
      <4>3. ~Goto(t, "store")
        BY <1>1, <4>1 DEF Goto, TypeInv
      <4> QED  BY <4>1, <4>2, <4>3
    <3> QED  BY <3>1, <3>2
  <2>2. CASE FoundToRemove(t)
    <3>1. CASE Entry(t).key = NoKey
      BY <2>2, <3>1 DEF FoundToRemove
    <3>2. CASE Entry(t).key # NoKey
      <4>1. Goto(t, "store") /\ local' = [local EXCEPT ![t].todo = Fields]
        BY <2>2, <3>2 DEF FoundToRemove, Let, Fields
      <4>2. local'[t].todo = Fields
        BY <1>1, <4>1 DEF TypeInv, Frame
      <4> QED  BY <4>1, <4>2
    <3> QED  BY <3>1, <3>2
  <2>3. CASE FoundToSet(t)
    <3> PICK new : new = (Entry(t).key = NoKey)
      OBVIOUS
    <3>1. Goto(t, "store") /\ local' = [local EXCEPT ![t].isNew = new, ![t].todo = Fields]
      BY <2>3 DEF FoundToSet, Fields
    <3>2. local'[t].todo = Fields
      BY <1>1, <3>1 DEF TypeInv, Frame
    <3> QED  BY <3>1, <3>2
  <2> QED  BY <2>1, <2>2, <2>3
<1>4. ASSUME ~damaged, ~disturbed[t]
      PROVE  Reads(seen[t] \cup {dict'[local'[t].key]}, pc'[t], local'[t])
  <2>1. CASE Goto(t, "done") /\ Finished(t, NotDefined) /\ Entry(t).key = NoKey
    <3>1. pc'[t] = "done" /\ local'[t].answer = NotDefined /\ local'[t].key = local[t].key
      BY <1>1, <2>1, FinishedNone DEF Goto, TypeInv
    <3>2. dict'[local'[t].key] = NotDefined
      BY <1>1, <1>4, <2>1, <3>1, FoundNothing DEF ReadInv
    <3> QED  BY <3>1, <3>2, NothingRead
  <2>2. CASE Goto(t, "fetch") /\ local'[t].todo \in {Fields, {"type", "raw"}}
    <3>1. pc'[t] = "fetch"
      BY <1>1, <2>2 DEF Goto, TypeInv
    <3> QED  BY <2>2, <3>1 DEF Reads, Fields
  <2>3. CASE Goto(t, "store") /\ local'[t].todo = Fields
    <3>1. pc'[t] = "store"
      BY <1>1, <2>3 DEF Goto, TypeInv
    <3> QED  BY <2>3, <3>1 DEF Reads, Fields
  <2> QED  BY <1>3, <2>1, <2>2, <2>3
<1> QED  BY <1>1, <1>2, <1>4, OthersRest, ReadStep

LEMMA FetchReads ==
  ASSUME ReadInv, KeptInv', Record, UNCHANGED dict, NEW t \in Threads, Fetch(t)
  PROVE  ReadInv'
<1> PICK my, e : my = local[t] /\ e = Entry(t)
  OBVIOUS
<1>1. TypeInv /\ pc[t] = "fetch" /\ Busy(t) /\ my \in Frame
  <2>1. TypeInv /\ pc[t] = "fetch"
    BY DEF ReadInv, KeptInv, SharingInv, Fetch, At
  <2> QED  BY <2>1, Running DEF Busy
<1>2. my.todo \subseteq {"type", "raw"}
  BY <1>1 DEF ReadInv, KeptInv, Ruled, Rules
<1>3. PICK word \in my.todo :
        LET answer == [my.answer EXCEPT ![word] = e[word]] IN
        IF my.todo = {word}
        THEN Finished(t, answer) /\ Goto(t, "done")
        ELSE local' = [local EXCEPT ![t].answer = answer, ![t].todo = @ \ {word}] /\ UNCHANGED pc
  BY DEF Fetch, My
<1> PICK answer : answer = [my.answer EXCEPT ![word] = e[word]]
  OBVIOUS
<1>4. /\ answer.type = IF word = "type" THEN e.type ELSE my.answer.type
      /\ answer.raw = IF word = "raw" THEN e.raw ELSE my.answer.raw
  <2>1. my.answer \in Answer
    BY <1>1 DEF Frame
  <2>2. CASE word = "type"
    <3>1. answer = [my.answer EXCEPT !.type = e.type]
      BY <2>2
    <3> QED  BY <2>1, <2>2, <3>1 DEF Answer
  <2>3. CASE word = "raw"
    <3>1. answer = [my.answer EXCEPT !.raw = e.raw]
      BY <2>3
    <3> QED  BY <2>1, <2>3, <3>1 DEF Answer
  <2> QED  BY <1>2, <2>2, <2>3
<1>5. /\ local'[t].key = my.key /\ local'[t].answer = answer
      /\ \/ pc'[t] = "done" /\ my.todo = {word}
         \/ pc'[t] = "fetch" /\ local'[t].todo = my.todo \ {word}
  <2>1. CASE my.todo = {word}
    <3> DEFINE m == [WithoutSlot(my) EXCEPT !.todo = {}, !.answer = answer]
    <3>1. m.key = my.key /\ m.answer = answer
      BY <1>1 DEF Frame, WithoutSlot
    <3>2. local'[t] = m /\ pc'[t] = "done"
      BY <1>1, <1>3, <2>1 DEF Finished, Goto, TypeInv
    <3> HIDE DEF m
    <3> QED  BY <2>1, <3>1, <3>2
  <2>2. CASE my.todo # {word}
    <3> DEFINE m == [my EXCEPT !.answer = answer, !.todo = my.todo \ {word}]
    <3>1. m.key = my.key /\ m.answer = answer /\ m.todo = my.todo \ {word}
      BY <1>1 DEF Frame
    <3>2. local'[t] = m /\ pc'[t] = "fetch"
      BY <1>1, <1>3, <2>2 DEF TypeInv
    <3> HIDE DEF m
    <3> QED  BY <3>1, <3>2
  <2> QED  BY <2>1, <2>2
<1>6. ASSUME ~damaged, ~disturbed[t]
      PROVE  Reads(seen[t] \cup {dict'[local'[t].key]}, pc'[t], local'[t])
  <2> PICK v, S : v = dict[my.key] /\ S = seen[t] \cup {dict'[local'[t].key]}
    OBVIOUS
  <2>1. pc[t] \in OnSlot /\ pc[t] # "store"
    BY <1>1 DEF OnSlot
  <2>2. e = Slots[my.index] /\ my.index \in 0..capacity-1 /\ Look(Slots, capacity, Vacant, pc[t], my)
    BY <1>6, <2>1, Here DEF ReadInv
  <2>3. e.key = my.key
    BY <1>1, <2>2 DEF Look
  <2>4. e.type = v.type /\ e.raw = v.raw
    BY <1>6, <2>1, <2>2, <2>3, OwnAgrees DEF ReadInv, Agrees
  <2>5. v \in S /\ seen[t] \subseteq S
    BY <1>5
  <2>6. TypeIn(S, e.type) /\ RawIn(S, e.raw)
    BY <2>4, <2>5, WordsIn
  <2>7. Reads(S, "fetch", my)
    BY <1>1, <1>6, <2>5, ReadsMore DEF ReadInv
  <2>8. /\ word = "type" \/ "type" \notin my.todo => TypeIn(S, answer.type)
        /\ word = "raw" \/ "raw" \notin my.todo => RawIn(S, answer.raw)
    BY <1>4, <2>6, <2>7 DEF Reads
  <2>9. CASE pc'[t] = "done" /\ my.todo = {word}
    BY <1>5, <2>8, <2>9 DEF Reads
  <2>10. CASE pc'[t] = "fetch" /\ local'[t].todo = my.todo \ {word}
    BY <1>5, <2>8, <2>10 DEF Reads
  <2> QED  BY <1>5, <2>9, <2>10
<1>7. Quietly(t)
  BY DEF Quietly
<1> QED  BY <1>1, <1>6, <1>7, OthersRest, ReadStep

LEMMA StoreReads ==
  ASSUME ReadInv, KeptInv', Record, NEW t \in Threads, Store(t)
  PROVE  ReadInv'
<1> PICK my : my = local[t]
  OBVIOUS
<1>1. TypeInv /\ pc[t] = "store" /\ Busy(t) /\ my \in Frame /\ dict \in [Keys -> Answer]
  <2>1. TypeInv /\ pc[t] = "store" /\ dict \in [Keys -> Answer]
    BY DEF ReadInv, KeptInv, SharingInv, Store, At
  <2> QED  BY <2>1, Running DEF Busy
<1>2. Rules(t, "store", my)
  BY <1>1 DEF ReadInv, KeptInv, Ruled
<1>3. my.call # "get" /\ my.call \in {"set", "remove"} /\ my.key \in Keys
  BY <1>1, <1>2 DEF Rules, Frame
<1>4. PICK word \in my.todo : Told(t, word) /\ Ends(t, word)
  BY <1>1, <1>3, StoreWord
<1>5. PICK p, m : After(t, word, p, m)
  BY <1>1, <1>2, <1>4, StoreAfter
<1>6. pc'[t] = p /\ local'[t] = m
  BY <1>1, <1>5, MovesAt DEF After
<1>7. p = "done" => m.key = my.key
  <2>1. p = "done" => local' = [local EXCEPT ![t] = [WithoutSlot(my) EXCEPT !.todo = {}, !.answer = Outcome(my)]]
    BY <1>1, <1>6 DEF Store, Finished, Goto, Let, Outcome, My, TypeInv
  <2> DEFINE m2 == [WithoutSlot(my) EXCEPT !.todo = {}, !.answer = Outcome(my)]
  <2>2. m2.key = my.key
    BY <1>1 DEF Frame, WithoutSlot
  <2>3. p = "done" => m = m2
    BY <1>1, <1>6, <2>1 DEF TypeInv
  <2> HIDE DEF m2
  <2> QED  BY <2>2, <2>3
<1>8. ASSUME p \in Reading, ~damaged, ~disturbed[t]
      PROVE  Reads(seen[t] \cup {dict'[m.key]}, p, m)
  <2> PICK v, S : v = dict'[my.key] /\ S = seen[t] \cup {dict'[m.key]}
    OBVIOUS
  <2>1. m.key = my.key
    BY <1>5, <1>7 DEF After
  <2>2. v \in S /\ seen[t] \subseteq S /\ dict[my.key] \in S
    BY <1>1, <2>1 DEF ReadInv
  <2>3. Reads(S, "store", my)
    BY <1>1, <1>8, <2>2, ReadsMore DEF ReadInv
  <2>4. TypeIn(S, v.type) /\ RawIn(S, v.raw)
    BY <2>2, WordsIn
  <2>5. ASSUME my.call = "set"
        PROVE  /\ word = "type" \/ "type" \notin my.todo => TypeIn(S, my.value.type)
               /\ word = "raw" \/ "raw" \notin my.todo => RawIn(S, my.value.raw)
    <3>1. word = "type" => v.type = my.value.type
      BY <1>4, <2>5 DEF Told
    <3>2. word = "raw" => v.raw = my.value.raw
      BY <1>4, <2>5 DEF Told
    <3> QED  BY <2>3, <2>4, <2>5, <3>1, <3>2 DEF Reads
  <2>6. ASSUME my.call = "remove", word = "key" \/ "key" \notin my.todo
        PROVE  NotDefined \in S
    <3>1. word = "key" => v = NotDefined
      BY <1>4, <2>6 DEF Told
    <3> QED  BY <2>2, <2>3, <2>6, <3>1 DEF Reads
  <2>7. CASE p = "store"
    <3>1. m.todo = my.todo \ {word} /\ m.call = my.call /\ m.value = my.value
      BY <1>5, <2>7 DEF After
    <3> QED  BY <1>3, <2>5, <2>6, <2>7, <3>1 DEF Reads
  <2>8. CASE p = "done"
    <3>1. my.todo = {word} /\ m.answer = Outcome(my)
      BY <1>5, <2>8 DEF After
    <3>2. CASE my.call = "set"
      <4>1. m.answer = my.value
        BY <3>1, <3>2 DEF Outcome
      <4>2. TypeIn(S, my.value.type) /\ RawIn(S, my.value.raw)
        BY <2>5, <3>1, <3>2
      <4> QED  BY <2>8, <4>1, <4>2 DEF Reads
    <3>3. CASE my.call = "remove"
      <4>1. m.answer = NotDefined
        BY <3>1, <3>3 DEF Outcome
      <4>2. NotDefined \in S
        BY <2>6, <3>1, <3>3
      <4> QED  BY <2>8, <4>1, <4>2, NothingRead
    <3> QED  BY <1>3, <3>2, <3>3
  <2>9. p \in {"store", "count", "done"}
    BY <1>5 DEF After
  <2> QED  BY <1>8, <2>7, <2>8, <2>9 DEF Reading
<1> QED  BY <1>1, <1>6, <1>8, OthersRest, ReadStep

LEMMA BadReads ==
  ASSUME ReadInv, KeptInv', Record, UNCHANGED dict, NEW t \in Threads, BadAccess(t)
  PROVE  ReadInv'
<1>1. Busy(t) /\ UNCHANGED <<pc, local>>
  BY DEF BadAccess, At, Busy
<1>2. ASSUME ~damaged, ~disturbed[t]
      PROVE  Reads(seen[t] \cup {dict'[local'[t].key]}, pc'[t], local'[t])
  <2> PICK S : S = seen[t] \cup {dict'[local'[t].key]}
    OBVIOUS
  <2>1. Reads(S, pc[t], local[t])
    BY <1>2, ReadsMore DEF ReadInv
  <2> QED  BY <1>1, <2>1
<1>3. pc[t] # "done"
  BY <1>1 DEF Busy
<1> QED  BY <1>1, <1>2, <1>3, ReadStep

LEMMA NextRead == ReadInv /\ [Next]_vars => ReadInv'
<1> SUFFICES ASSUME ReadInv, [Next]_vars PROVE ReadInv'
  OBVIOUS
<1>1. KeptInv' /\ TypeInv
  BY NextKept DEF ReadInv, KeptInv, SharingInv
<1>2. CASE UNCHANGED vars
  <2>1. UNCHANGED <<pc, local, dict, seen, disturbed, damaged>>
    BY <1>2 DEF vars, history
  <2> QED  BY <1>1, <2>1 DEF ReadInv, Busy, Reads
<1>3. ASSUME NEW t \in Threads, Step(t) PROVE ReadInv'
  <2>1. Record
    BY <1>3 DEF Step
  <2>2. CASE Quietly(t) /\ UNCHANGED dict
    <3>1. CASE TestCount(t) \/ BadAccess(t) \/ Fetch(t)
      BY <1>1, <2>1, <2>2, <3>1, CountReads, BadReads, FetchReads
    <3>2. CASE FoundToGet(t) \/ FoundToRemove(t) \/ FoundToSet(t)
      BY <1>1, <2>1, <2>2, <3>2, FoundReads
    <3>3. CASE ~(\/ TestCount(t) \/ BadAccess(t) \/ Fetch(t)
                 \/ FoundToGet(t) \/ FoundToRemove(t) \/ FoundToSet(t))
      <4>1. pc'[t] \notin Reading /\ (pc[t] = "done" => pc'[t] = "idle")
        BY <1>1, <2>2, <3>3, NotReading DEF Quietly
      <4> QED  BY <1>1, <2>1, <2>2, <4>1, OthersRest, ReadStep
    <3> QED  BY <3>1, <3>2, <3>3
  <2>3. CASE Store(t)
    BY <1>1, <2>1, <2>3, StoreReads
  <2> QED  BY <1>3, <2>2, <2>3 DEF Step
<1>4. ASSUME NEW t \in Threads, Instruction(t), UNCHANGED dict, Record PROVE ReadInv'
  <2>1. pc'[t] \notin Reading /\ (pc[t] = "done" => pc'[t] = "idle")
    BY <1>1, <1>4, NotReading
  <2> QED  BY <1>1, <1>4, <2>1, OthersRest, ReadStep
<1> QED  BY <1>2, <1>3, <1>4 DEF Next

LEMMA InitRead == Init => ReadInv
<1> SUFFICES ASSUME Init PROVE ReadInv
  OBVIOUS
<1>1. \A t \in Threads : pc[t] = "idle"
  BY DEF Init
<1> QED  BY <1>1, InitKept DEF ReadInv, Busy, Reads

(* What an undisturbed instruction has read is what its variable was at    *)
(* some time during it, word by word, and that it is not defined only if   *)
(* it was not: whatever the other threads do meanwhile.                    *)
THEOREM GlobalsReadsRight == Spec => []ReadsRight
<1>1. Spec => []ReadInv
  BY InitRead, NextRead, PTL DEF Spec
<1>2. ReadInv => ReadsRight
  BY DEF ReadInv, Reads, ReadsRight, TypeIn, RawIn
<1> QED  BY <1>1, <1>2, PTL
=============================================================================
