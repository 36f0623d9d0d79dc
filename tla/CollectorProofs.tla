--------------------------- MODULE CollectorProofs ---------------------------
(***************************************************************************)
(* Proofs about Collector for every heap: what marking computes, that the  *)
(* gray stack holds no object twice, that the sweep keeps the list of      *)
(* objects sound, and that the account of its bytes is exact.              *)
(* The invariant of marking is that of tracing in general:                 *)
(* what a marked object refers to is marked or still to be looked at,      *)
(* unless the object is gray or was marked before; and nothing is marked   *)
(* that a closed set could do without.                                     *)
(***************************************************************************)
EXTENDS Collector, TLAPS, SequenceTheorems, FiniteSetTheorems

Typed ==
  /\ objects \in Seq(Objects) /\ rest \in Seq(Objects) /\ gray \in Seq(Objects)
  /\ refs \in [Objects -> SUBSET Objects]
  /\ roots \subseteq Objects /\ isMarked \subseteq Objects /\ stale \subseteq Objects
  /\ pending \subseteq Objects

(* Outside gc_collect there is nothing of it left.                         *)
Quiet ==
  /\ phase \in {"run", "allocate"} => gray = <<>> /\ pending = {} /\ rest = <<>>
                                      /\ stale = {} /\ freed = {}
  /\ phase = "mark" => rest = <<>> /\ freed = {}
  /\ phase = "sweep" => gray = <<>> /\ pending = {}

Marking ==
  phase = "mark" =>
    /\ stale \subseteq isMarked
    /\ roots \subseteq isMarked \cup pending
    /\ \A o \in (isMarked \ stale) \ ToSet(gray) : refs[o] \subseteq isMarked \cup pending
    /\ ToSet(gray) \cap stale = {}
    /\ \A S \in SUBSET Objects : Closed(S) => (isMarked \ stale) \cup pending \subseteq S

Inv == Typed /\ Quiet /\ GrayOnce /\ Marking /\ TraceExact /\ ListSound

-----------------------------------------------------------------------------
(* Sequences without repetition.                                           *)

LEMMA AppendOnce ==
  ASSUME NEW S, NEW s \in Seq(S), NEW x \in S
  PROVE  /\ Append(s, x) \in Seq(S)
         /\ ToSet(Append(s, x)) = ToSet(s) \cup {x}
         /\ IsInjective(s) /\ x \notin ToSet(s) => IsInjective(Append(s, x))
<1> DEFINE n == Len(s)  t == Append(s, x)
<1>1. n \in Nat /\ t \in Seq(S) /\ Len(t) = n + 1 /\ t[n + 1] = x /\ \A i \in 1..n : t[i] = s[i]
  OBVIOUS
<1>2. DOMAIN s = 1..n /\ DOMAIN t = 1..n+1
  BY <1>1
<1> HIDE DEF t, n
<1>3. 1..n+1 = (1..n) \cup {n + 1}
  BY <1>1
<1>4. ToSet(t) = ToSet(s) \cup {x}
  BY <1>1, <1>2, <1>3 DEF ToSet
<1>5. ASSUME IsInjective(s), x \notin ToSet(s)  PROVE IsInjective(t)
  <2>1. \A i \in 1..n : s[i] # x
    BY <1>2, <1>5 DEF ToSet
  <2>2. \A i, j \in 1..n : s[i] = s[j] => i = j
    BY <1>2, <1>5 DEF IsInjective
  <2> QED BY <1>1, <1>2, <1>3, <2>1, <2>2 DEF IsInjective
<1> QED BY <1>1, <1>4, <1>5 DEF t

LEMMA FrontOnce ==
  ASSUME NEW S, NEW s \in Seq(S), s # <<>>, IsInjective(s)
  PROVE  /\ Front(s) \in Seq(S) /\ Last(s) \in S
         /\ ToSet(Front(s)) = ToSet(s) \ {Last(s)} /\ Last(s) \in ToSet(s)
         /\ IsInjective(Front(s))
<1> DEFINE n == Len(s)  t == SubSeq(s, 1, n - 1)
<1>1. n \in Nat /\ n >= 1 /\ DOMAIN s = 1..n
  OBVIOUS
<1>2. t \in Seq(S) /\ Len(t) = n - 1 /\ \A i \in 1..n-1 : t[i] = s[i]
  BY <1>1
<1>3. DOMAIN t = 1..n-1 /\ s[n] \in S
  BY <1>1, <1>2
<1> HIDE DEF t, n
<1>4. 1..n = (1..n-1) \cup {n} /\ n \notin 1..n-1
  BY <1>1
<1>5. \A i, j \in 1..n : s[i] = s[j] => i = j
  BY <1>1 DEF IsInjective
<1>6. ToSet(t) = ToSet(s) \ {s[n]} /\ s[n] \in ToSet(s)
  BY <1>1, <1>2, <1>3, <1>4, <1>5 DEF ToSet
<1>7. IsInjective(t)
  BY <1>2, <1>3, <1>4, <1>5 DEF IsInjective
<1> QED BY <1>2, <1>3, <1>6, <1>7 DEF Front, Last, t, n

LEMMA TailOnce ==
  ASSUME NEW S, NEW s \in Seq(S), s # <<>>, IsInjective(s)
  PROVE  /\ Tail(s) \in Seq(S) /\ Head(s) \in S
         /\ ToSet(Tail(s)) = ToSet(s) \ {Head(s)} /\ Head(s) \in ToSet(s)
         /\ IsInjective(Tail(s))
<1> DEFINE n == Len(s)  t == Tail(s)
<1>1. n \in Nat /\ n >= 1 /\ DOMAIN s = 1..n /\ Head(s) = s[1] /\ s[1] \in S
  OBVIOUS
<1>2. t \in Seq(S) /\ Len(t) = n - 1 /\ \A i \in 1..n-1 : t[i] = s[i + 1]
  BY <1>1
<1>3. DOMAIN t = 1..n-1
  BY <1>1, <1>2
<1> HIDE DEF t, n
<1>4. \A i, j \in 1..n : s[i] = s[j] => i = j
  BY <1>1 DEF IsInjective
<1>5. \A i \in 1..n-1 : i + 1 \in 1..n /\ i + 1 # 1
  BY <1>1
<1>6. \A i \in 1..n : i # 1 => i - 1 \in 1..n-1 /\ (i - 1) + 1 = i
  BY <1>1
<1>7. 1 \in 1..n
  BY <1>1
<1>8. ToSet(t) = {s[i] : i \in (1..n) \ {1}}
  <2>1. \A i \in 1..n-1 : t[i] \in {s[j] : j \in (1..n) \ {1}}
    BY <1>2, <1>5
  <2>2. \A j \in (1..n) \ {1} : s[j] = t[j - 1] /\ j - 1 \in 1..n-1
    BY <1>2, <1>6
  <2> QED BY <1>3, <2>1, <2>2 DEF ToSet
<1>9. ToSet(t) = ToSet(s) \ {s[1]} /\ s[1] \in ToSet(s)
  BY <1>1, <1>4, <1>7, <1>8 DEF ToSet
<1>10. IsInjective(t)
  <2>1. ASSUME NEW i \in 1..n-1, NEW j \in 1..n-1, t[i] = t[j]  PROVE i = j
    <3>1. s[i + 1] = s[j + 1]
      BY <1>2, <2>1
    <3>2. i + 1 = j + 1
      BY <1>4, <1>5, <3>1
    <3> QED BY <1>1, <3>2
  <2> QED BY <1>3, <2>1 DEF IsInjective
<1> QED BY <1>1, <1>2, <1>9, <1>10 DEF t

LEMMA ConsOnce ==
  ASSUME NEW S, NEW s \in Seq(S), NEW x \in S, IsInjective(s), x \notin ToSet(s)
  PROVE  /\ <<x>> \o s \in Seq(S)
         /\ ToSet(<<x>> \o s) = ToSet(s) \cup {x}
         /\ IsInjective(<<x>> \o s)
<1> DEFINE n == Len(s)  t == <<x>> \o s
<1>1. n \in Nat /\ DOMAIN s = 1..n
  OBVIOUS
<1>2. t \in Seq(S) /\ Len(t) = n + 1 /\ t[1] = x /\ \A i \in 2..n+1 : t[i] = s[i - 1]
  BY <1>1
<1>3. DOMAIN t = 1..n+1
  BY <1>1, <1>2
<1> HIDE DEF t, n
<1>4. \A i, j \in 1..n : s[i] = s[j] => i = j
  BY <1>1 DEF IsInjective
<1>5. \A i \in 1..n : s[i] # x
  BY <1>1 DEF ToSet
<1>6. \A i \in 1..n+1 : i = 1 \/ (i \in 2..n+1 /\ i - 1 \in 1..n)
  BY <1>1
<1>7. \A i \in 1..n : i + 1 \in 2..n+1 /\ (i + 1) - 1 = i /\ i + 1 \in 1..n+1
  BY <1>1
<1>8. ToSet(t) = ToSet(s) \cup {x}
  <2>1. \A i \in 1..n+1 : t[i] \in ToSet(s) \cup {x}
    BY <1>1, <1>2, <1>6 DEF ToSet
  <2>2. \A i \in 1..n : s[i] = t[i + 1]
    BY <1>2, <1>7
  <2>3. 1 \in 1..n+1
    BY <1>1
  <2>4. ToSet(t) \subseteq ToSet(s) \cup {x}
    BY <1>3, <2>1 DEF ToSet
  <2>5. ToSet(s) \subseteq ToSet(t)
    BY <1>1, <1>3, <1>7, <2>2 DEF ToSet
  <2>6. x \in ToSet(t)
    BY <1>2, <1>3, <2>3 DEF ToSet
  <2> QED BY <2>4, <2>5, <2>6
<1>9. IsInjective(t)
  <2>1. ASSUME NEW i \in 1..n+1, NEW j \in 1..n+1, t[i] = t[j]  PROVE i = j
    <3>1. CASE i = 1 /\ j = 1
      BY <3>1
    <3>2. CASE i = 1 /\ j # 1
      BY <1>2, <1>5, <1>6, <2>1, <3>2
    <3>3. CASE i # 1 /\ j = 1
      BY <1>2, <1>5, <1>6, <2>1, <3>3
    <3>4. CASE i # 1 /\ j # 1
      <4>1. s[i - 1] = s[j - 1] /\ i - 1 \in 1..n /\ j - 1 \in 1..n
        BY <1>2, <1>6, <2>1, <3>4
      <4>2. i - 1 = j - 1
        BY <1>4, <4>1
      <4> QED BY <1>1, <4>2
    <3> QED BY <3>1, <3>2, <3>3, <3>4
  <2> QED BY <1>3, <2>1 DEF IsInjective
<1> QED BY <1>2, <1>8, <1>9 DEF t

LEMMA EmptyOnce ==
  ASSUME NEW S
  PROVE  <<>> \in Seq(S) /\ ToSet(<<>>) = {} /\ IsInjective(<<>>)
BY DEF ToSet, IsInjective

-----------------------------------------------------------------------------
(* The invariant.                                                          *)

LEMMA InitInv == Init => Inv
<1> SUFFICES ASSUME Init PROVE Inv
  OBVIOUS
<1>1. objects = <<>> /\ rest = <<>> /\ gray = <<>> /\ pending = {} /\ phase = "run"
  BY DEF Init
<1>2. Typed
  BY EmptyOnce, <1>1 DEF Init, Typed
<1>3. Quiet
  BY <1>1 DEF Init, Quiet
<1>4. GrayOnce /\ ListSound
  BY EmptyOnce, <1>1 DEF Init, GrayOnce, ListSound, Heap
<1>5. Marking /\ TraceExact
  BY <1>1 DEF Marking, TraceExact
<1> QED BY <1>2, <1>3, <1>4, <1>5 DEF Inv

(* What does not touch the lists or the marks leaves the rest as it was.   *)
LEMMA ProgramInv ==
  ASSUME Inv, phase = "run", phase' = "run",
         refs' \in [Objects -> SUBSET Objects], roots' \subseteq Objects,
         UNCHANGED <<objects, rest, isMarked, gray, pending, stale, freed>>
  PROVE  Inv'
<1>1. Typed'
  BY DEF Inv, Typed
<1>2. Quiet'
  BY DEF Inv, Quiet
<1>3. GrayOnce' /\ ListSound'
  BY DEF Inv, GrayOnce, ListSound, Heap
<1>4. Marking' /\ TraceExact'
  BY DEF Marking, TraceExact
<1> QED BY <1>1, <1>2, <1>3, <1>4 DEF Inv

LEMMA HeapTyped == Typed => Heap \subseteq Objects
BY DEF Typed, Heap, ToSet

LEMMA HoldInv ==
  ASSUME Inv, NEW o \in Heap, Hold(o) \/ Release(o)
  PROVE  Inv'
<1>1. o \in Objects
  BY HeapTyped DEF Inv
<1>2. phase = "run" /\ phase' = "run" /\ refs' = refs /\ roots' \subseteq roots \cup {o}
      /\ UNCHANGED <<objects, rest, isMarked, gray, pending, stale, freed>>
  BY DEF Hold, Release, Running, Unmoved
<1>3. refs' \in [Objects -> SUBSET Objects] /\ roots' \subseteq Objects
  BY <1>1, <1>2 DEF Inv, Typed
<1> QED BY <1>2, <1>3, ProgramInv

LEMMA LinkInv ==
  ASSUME Inv, NEW o \in Heap, NEW p \in Heap, Link(o, p)
  PROVE  Inv'
<1>1. o \in Objects /\ p \in Objects
  BY HeapTyped DEF Inv
<1>2. phase = "run" /\ phase' = "run" /\ roots' = roots
      /\ UNCHANGED <<objects, rest, isMarked, gray, pending, stale, freed>>
  BY DEF Link, Running, Unmoved
<1>3. refs' = [refs EXCEPT ![o] = @ \cup {p}]
  BY DEF Link
<1>4. refs' \in [Objects -> SUBSET Objects] /\ roots' \subseteq Objects
  BY <1>1, <1>2, <1>3 DEF Inv, Typed
<1> QED BY <1>2, <1>4, ProgramInv

LEMMA GcReallocInv ==
  ASSUME Inv, NEW k \in Kinds, GcRealloc(k)
  PROVE  Inv'
<1>1. phase = "run" /\ gray = <<>> /\ pending = {} /\ rest = <<>> /\ stale = {} /\ freed = {}
  BY DEF GcRealloc, Running, Inv, Quiet
<1>2. UNCHANGED <<objects, rest, kind, refs, roots, isMarked, gray, freed>>
  BY DEF GcRealloc, heap
<1>3. \/ phase' = "allocate" /\ pending' = pending /\ stale' = stale
      \/ phase' \in {"mark", "crashed"} /\ pending' = roots /\ stale' = isMarked
  BY DEF GcRealloc
<1>4. Typed'
  BY <1>2, <1>3 DEF Inv, Typed
<1>5. Quiet'
  BY <1>1, <1>2, <1>3 DEF Quiet
<1>6. GrayOnce' /\ ListSound'
  BY <1>1, <1>2, <1>3 DEF Inv, GrayOnce, ListSound, Heap
<1>7. TraceExact'
  BY <1>3 DEF TraceExact
<1>8. Marking'
  <2> SUFFICES ASSUME phase' = "mark" PROVE Marking'
    BY DEF Marking
  <2>1. pending' = roots' /\ stale' = isMarked' /\ gray' = <<>> /\ ToSet(gray') = {}
    BY <1>1, <1>2, <1>3, EmptyOnce
  <2> QED BY <2>1 DEF Marking, Closed
<1> QED BY <1>4, <1>5, <1>6, <1>7, <1>8 DEF Inv

LEMMA AllocObjInv ==
  ASSUME Inv, NEW o \in Objects, AllocObj(o)
  PROVE  Inv'
<1>1. phase = "allocate" /\ phase' = "run" /\ o \notin Heap
  BY DEF AllocObj
<1>2. gray = <<>> /\ pending = {} /\ rest = <<>> /\ stale = {} /\ freed = {}
  BY <1>1 DEF Inv, Quiet
<1>3. UNCHANGED <<rest, roots, gray, pending, stale, freed>>
  BY DEF AllocObj
<1>4. objects' = <<o>> \o objects /\ refs' = [refs EXCEPT ![o] = {}]
      /\ isMarked' \subseteq isMarked \cup {o}
  BY DEF AllocObj
<1>5. /\ objects' \in Seq(Objects)
      /\ ToSet(objects') = ToSet(objects) \cup {o}
      /\ IsInjective(objects')
  BY <1>1, <1>4, ConsOnce DEF Inv, Typed, ListSound, Heap
<1>6. Typed'
  BY <1>3, <1>4, <1>5 DEF Inv, Typed
<1>7. Quiet'
  BY <1>1, <1>2, <1>3 DEF Quiet
<1>8. GrayOnce'
  BY <1>2, <1>3, EmptyOnce DEF GrayOnce
<1>9. ListSound'
  BY <1>1, <1>2, <1>3, <1>5, EmptyOnce DEF ListSound, Heap
<1>10. Marking' /\ TraceExact'
  BY <1>1 DEF Marking, TraceExact
<1> QED BY <1>6, <1>7, <1>8, <1>9, <1>10 DEF Inv

LEMMA GcFreeInv ==
  ASSUME Inv, GcFree
  PROVE  Inv'
<1>1. phase = "run" /\ phase' = "closed" /\ objects' = <<>> /\ roots' = {} /\ isMarked' = {}
      /\ refs' = [o \in Objects |-> {}]
  BY DEF GcFree, Running
<1>2. UNCHANGED <<rest, gray, pending, stale, freed>>
  BY DEF GcFree
<1>3. gray = <<>> /\ rest = <<>> /\ freed = {}
  BY <1>1 DEF Inv, Quiet
<1>4. Typed'
  BY <1>1, <1>2, EmptyOnce DEF Inv, Typed
<1>5. Quiet' /\ Marking' /\ TraceExact'
  BY <1>1 DEF Quiet, Marking, TraceExact
<1>6. GrayOnce' /\ ListSound'
  BY <1>1, <1>2, <1>3, EmptyOnce DEF GrayOnce, ListSound, Heap
<1> QED BY <1>4, <1>5, <1>6 DEF Inv

LEMMA MarkObjectInv ==
  ASSUME Inv, MarkObject
  PROVE  Inv'
<1>1. phase = "mark" /\ phase' = "mark"
  BY DEF MarkObject
<1>2. UNCHANGED <<objects, rest, kind, refs, roots, stale, freed>>
  BY DEF MarkObject, heap, accounts
<1>3. PICK o \in pending :
        /\ pending' = pending \ {o}
        /\ \/ o \in isMarked /\ isMarked' = isMarked /\ gray' = gray
           \/ o \notin isMarked /\ isMarked' = isMarked \cup {o} /\ gray' = Append(gray, o)
  BY DEF MarkObject
<1>4. o \in Objects /\ gray \in Seq(Objects) /\ GrayOnce
  BY DEF Inv, Typed
<1>5. isMarked' \cup pending' = isMarked \cup pending
  BY <1>3
<1>6. /\ gray' \in Seq(Objects)
      /\ IsInjective(gray') /\ ToSet(gray') \subseteq isMarked'
      /\ isMarked' \ ToSet(gray') = isMarked \ ToSet(gray)
      /\ ToSet(gray') \ isMarked = ToSet(gray') \ ToSet(gray)
  <2>1. CASE o \in isMarked
    BY <1>3, <1>4, <2>1 DEF GrayOnce
  <2>2. CASE o \notin isMarked
    <3>1. isMarked' = isMarked \cup {o} /\ gray' = Append(gray, o)
      BY <1>3, <2>2
    <3>2. ToSet(gray) \subseteq isMarked /\ IsInjective(gray)
      BY <1>4 DEF GrayOnce
    <3>3. o \notin ToSet(gray)
      BY <2>2, <3>2
    <3>4. gray' \in Seq(Objects) /\ ToSet(gray') = ToSet(gray) \cup {o} /\ IsInjective(gray')
      BY <1>4, <3>1, <3>2, <3>3, AppendOnce
    <3> QED BY <2>2, <3>1, <3>2, <3>3, <3>4
  <2> QED BY <2>1, <2>2
<1>7. Typed'
  BY <1>2, <1>3, <1>4, <1>6 DEF Inv, Typed
<1>8. Quiet'
  BY <1>1, <1>2 DEF Inv, Quiet
<1>9. GrayOnce'
  BY <1>6 DEF GrayOnce
<1>10. ListSound'
  BY <1>1, <1>2 DEF Inv, ListSound, Heap
<1>11. TraceExact'
  BY <1>1 DEF TraceExact
<1>12. Marking'
  <2>1. stale' \subseteq isMarked'
    BY <1>1, <1>2, <1>3 DEF Inv, Marking
  <2>2. roots' \subseteq isMarked' \cup pending'
    BY <1>1, <1>2, <1>5 DEF Inv, Marking
  <2>3. \A q \in (isMarked' \ stale') \ ToSet(gray') : refs'[q] \subseteq isMarked' \cup pending'
    BY <1>1, <1>2, <1>5, <1>6 DEF Inv, Marking
  <2>4. ToSet(gray') \cap stale' = {}
    BY <1>1, <1>2, <1>6 DEF Inv, Marking
  <2>5. ASSUME NEW S \in SUBSET Objects, Closed(S)'
        PROVE  (isMarked' \ stale') \cup pending' \subseteq S
    <3>1. Closed(S)
      BY <1>2, <2>5 DEF Closed
    <3>2. (isMarked \ stale) \cup pending \subseteq S
      BY <1>1, <3>1 DEF Inv, Marking
    <3> QED BY <1>2, <1>3, <3>2
  <2> QED BY <2>1, <2>2, <2>3, <2>4, <2>5 DEF Marking
<1> QED BY <1>7, <1>8, <1>9, <1>10, <1>11, <1>12 DEF Inv

(* A step of the collector after which the machine has crashed.            *)
LEMMA CrashInv ==
  ASSUME Inv, phase' = "crashed", Typed', GrayOnce',
         UNCHANGED <<objects, rest, isMarked, freed>>
  PROVE  Inv'
<1>1. Quiet' /\ Marking' /\ TraceExact'
  BY DEF Quiet, Marking, TraceExact
<1>2. ListSound'
  BY DEF Inv, ListSound, Heap
<1> QED BY <1>1, <1>2 DEF Inv

LEMMA BlackenObjectInv ==
  ASSUME Inv, BlackenObject
  PROVE  Inv'
<1> DEFINE o == Last(gray)
<1>1. phase = "mark" /\ pending = {} /\ gray # <<>> /\ gray' = Front(gray)
  BY DEF BlackenObject
<1>2. \/ pending' = refs[o] /\ phase' = "mark"
      \/ phase' = "crashed" /\ pending' = pending
  BY <1>1 DEF BlackenObject
<1>3. UNCHANGED <<objects, rest, kind, refs, roots, isMarked, stale, freed>>
  BY DEF BlackenObject, heap, accounts
<1>4. /\ gray' \in Seq(Objects) /\ o \in Objects
      /\ ToSet(gray') = ToSet(gray) \ {o} /\ o \in ToSet(gray)
      /\ IsInjective(gray')
  BY <1>1, FrontOnce DEF Inv, Typed, GrayOnce
<1> HIDE DEF o
<1>5. Typed'
  BY <1>2, <1>3, <1>4 DEF Inv, Typed
<1>6. GrayOnce'
  BY <1>3, <1>4 DEF Inv, GrayOnce
<1>7. CASE phase' = "crashed"
  BY <1>3, <1>5, <1>6, <1>7, CrashInv
<1>8. CASE phase' = "mark" /\ pending' = refs[o]
  <2>1. Quiet'
    BY <1>1, <1>3, <1>8 DEF Inv, Quiet
  <2>2. ListSound' /\ TraceExact'
    BY <1>1, <1>3, <1>8 DEF Inv, ListSound, Heap, TraceExact
  <2>3. stale' \subseteq isMarked' /\ roots' \subseteq isMarked' \cup pending'
    BY <1>1, <1>3 DEF Inv, Marking
  <2>4. \A q \in (isMarked' \ stale') \ ToSet(gray') : refs'[q] \subseteq isMarked' \cup pending'
    BY <1>1, <1>3, <1>4, <1>8 DEF Inv, Marking
  <2>5. ToSet(gray') \cap stale' = {}
    BY <1>1, <1>3, <1>4 DEF Inv, Marking
  <2>6. ASSUME NEW S \in SUBSET Objects, Closed(S)'
        PROVE  (isMarked' \ stale') \cup pending' \subseteq S
    <3>1. Closed(S)
      BY <1>3, <2>6 DEF Closed
    <3>2. isMarked \ stale \subseteq S
      BY <1>1, <3>1 DEF Inv, Marking
    <3>3. o \in isMarked \ stale
      BY <1>1, <1>4 DEF Inv, GrayOnce, Marking
    <3>4. refs[o] \subseteq S
      BY <3>1, <3>2, <3>3 DEF Closed
    <3> QED BY <1>3, <1>8, <3>2, <3>4
  <2>7. Marking'
    BY <2>3, <2>4, <2>5, <2>6 DEF Marking
  <2> QED BY <1>5, <1>6, <2>1, <2>2, <2>7 DEF Inv
<1> QED BY <1>2, <1>7, <1>8

(* When nothing is left to mark, what is marked is closed, so that it      *)
(* holds all that tracing should find; and it is within every closed set.  *)
LEMMA MarkedIsTraced ==
  ASSUME Inv, phase = "mark", pending = {}, gray = <<>>
  PROVE  isMarked = stale \cup Traced
<1>1. isMarked \in SUBSET Objects /\ stale \subseteq isMarked
  BY DEF Inv, Typed, Marking
<1>2. Closed(isMarked)
  BY EmptyOnce DEF Inv, Marking, Closed
<1>3. Traced \subseteq isMarked
  BY <1>1, <1>2 DEF Traced
<1>4. isMarked \ stale \subseteq Traced
  BY <1>1 DEF Inv, Marking, Traced
<1> QED BY <1>1, <1>3, <1>4

LEMMA TracedUnchanged ==
  ASSUME UNCHANGED <<refs, roots, stale>>
  PROVE  Traced' = Traced
BY DEF Traced, Closed

LEMMA RemoveWhiteInv ==
  ASSUME Inv, RemoveWhite
  PROVE  Inv'
<1>1. phase = "mark" /\ pending = {} /\ gray = <<>> /\ phase' = "sweep"
      /\ rest' = objects /\ objects' = <<>>
  BY DEF RemoveWhite
<1>2. UNCHANGED <<kind, refs, roots, isMarked, gray, pending, stale, freed>>
  BY DEF RemoveWhite, heap, accounts
<1>3. Typed'
  BY <1>1, <1>2, EmptyOnce DEF Inv, Typed
<1>4. Quiet' /\ Marking'
  BY <1>1, <1>2 DEF Quiet, Marking
<1>5. GrayOnce'
  BY <1>2 DEF Inv, GrayOnce
<1>6. TraceExact'
  BY <1>1, <1>2, MarkedIsTraced, TracedUnchanged DEF TraceExact
<1>7. freed = {} /\ rest = <<>>
  BY <1>1 DEF Inv, Quiet
<1>8. ListSound'
  BY <1>1, <1>2, <1>7, EmptyOnce DEF Inv, ListSound, Heap
<1> QED BY <1>3, <1>4, <1>5, <1>6, <1>8 DEF Inv

(* The steps of the sweep leave everything but the lists alone.            *)
LEMMA SweepInv ==
  ASSUME Inv, phase = "sweep", phase' = "sweep",
         UNCHANGED <<refs, roots, isMarked, gray, pending, stale>>,
         objects' \in Seq(Objects), rest' \in Seq(Objects), ListSound'
  PROVE  Inv'
<1>1. Typed' /\ Quiet' /\ GrayOnce'
  BY DEF Inv, Typed, Quiet, GrayOnce
<1>2. Marking'
  BY DEF Marking
<1>3. TraceExact'
  BY TracedUnchanged DEF Inv, TraceExact
<1> QED BY <1>1, <1>2, <1>3 DEF Inv

LEMMA SweepKeepInv ==
  ASSUME Inv, SweepKeep
  PROVE  Inv'
<1> DEFINE o == Head(rest)
<1>1. phase = "sweep" /\ phase' = "sweep" /\ rest # <<>> /\ o \notin isMarked
      /\ objects' = Append(objects, o) /\ rest' = Tail(rest)
  BY DEF SweepKeep
<1>2. UNCHANGED <<refs, roots, isMarked, gray, pending, stale, freed>>
  BY DEF SweepKeep, heap, accounts
<1>3. /\ rest' \in Seq(Objects) /\ o \in Objects
      /\ ToSet(rest') = ToSet(rest) \ {o} /\ o \in ToSet(rest)
      /\ IsInjective(rest')
  BY <1>1, TailOnce DEF Inv, Typed, ListSound
<1> HIDE DEF o
<1>4. o \notin ToSet(objects)
  BY <1>3 DEF Inv, ListSound
<1>5. /\ objects' \in Seq(Objects)
      /\ ToSet(objects') = ToSet(objects) \cup {o}
      /\ IsInjective(objects')
  BY <1>1, <1>3, <1>4, AppendOnce DEF Inv, Typed, ListSound
<1>6. ListSound'
  BY <1>1, <1>2, <1>3, <1>5 DEF Inv, ListSound, Heap
<1> QED BY <1>1, <1>2, <1>3, <1>5, <1>6, SweepInv

LEMMA SweepFreeInv ==
  ASSUME Inv, SweepFree
  PROVE  Inv'
<1> DEFINE o == Head(rest)
<1>1. phase = "sweep" /\ phase' = "sweep" /\ rest # <<>> /\ o \in isMarked
      /\ objects' = objects /\ rest' = Tail(rest) /\ freed' = freed \cup {o}
  BY DEF SweepFree
<1>2. UNCHANGED <<refs, roots, isMarked, gray, pending, stale>>
  BY DEF SweepFree, heap
<1>3. /\ rest' \in Seq(Objects) /\ o \in Objects
      /\ ToSet(rest') = ToSet(rest) \ {o} /\ o \in ToSet(rest)
      /\ IsInjective(rest')
  BY <1>1, TailOnce DEF Inv, Typed, ListSound
<1>4. objects' \in Seq(Objects)
  BY <1>1 DEF Inv, Typed
<1> HIDE DEF o
<1>5. ListSound'
  BY <1>1, <1>2, <1>3 DEF Inv, ListSound, Heap
<1> QED BY <1>1, <1>2, <1>3, <1>4, <1>5, SweepInv

LEMMA SweepEndInv ==
  ASSUME Inv, SweepEnd
  PROVE  Inv'
<1>1. phase = "sweep" /\ rest = <<>> /\ phase' = "allocate" /\ stale' = {} /\ freed' = {}
  BY DEF SweepEnd
<1>2. UNCHANGED <<objects, rest, refs, roots, isMarked, gray, pending>>
  BY DEF SweepEnd, heap
<1>3. gray = <<>> /\ pending = {}
  BY <1>1 DEF Inv, Quiet
<1>4. Typed' /\ Quiet' /\ GrayOnce'
  BY <1>1, <1>2, <1>3 DEF Inv, Typed, Quiet, GrayOnce
<1>5. ListSound' /\ Marking' /\ TraceExact'
  BY <1>1, <1>2 DEF Inv, ListSound, Heap, Marking, TraceExact
<1> QED BY <1>4, <1>5 DEF Inv

LEMMA NextInv == Inv /\ [Next]_vars => Inv'
<1> SUFFICES ASSUME Inv, [Next]_vars PROVE Inv'
  OBVIOUS
<1>1. CASE Program
  <2>1. CASE \E o \in Heap : Hold(o) \/ Release(o)
    BY <2>1, HoldInv
  <2>2. CASE \E o, p \in Heap : Link(o, p)
    BY <2>2, LinkInv
  <2>3. CASE \E k \in Kinds : GcRealloc(k)
    BY <2>3, GcReallocInv
  <2>4. CASE \E o \in Objects : AllocObj(o)
    BY <2>4, AllocObjInv
  <2>5. CASE GcFree
    BY <2>5, GcFreeInv
  <2> QED BY <1>1, <2>1, <2>2, <2>3, <2>4, <2>5 DEF Program
<1>2. CASE Collect
  BY <1>2, MarkObjectInv, BlackenObjectInv, RemoveWhiteInv, SweepKeepInv, SweepFreeInv,
     SweepEndInv DEF Collect
<1>3. CASE UNCHANGED vars
  <2>1. UNCHANGED <<objects, rest, refs, roots, isMarked, gray, pending, phase, stale, freed>>
    BY <1>3 DEF vars
  <2>2. Typed' /\ Quiet' /\ GrayOnce' /\ ListSound'
    BY <2>1 DEF Inv, Typed, Quiet, GrayOnce, ListSound, Heap
  <2>3. Marking'
    BY <2>1 DEF Inv, Marking, Closed
  <2>4. TraceExact'
    BY <2>1, TracedUnchanged DEF Inv, TraceExact
  <2> QED BY <2>2, <2>3, <2>4 DEF Inv
<1> QED BY <1>1, <1>2, <1>3 DEF Next

-----------------------------------------------------------------------------
(* The collector keeps its invariant in every heap: the one above, of      *)
(* which what follows are parts.                                           *)
THEOREM CollectorInvariant == Spec => []Inv
<1>1. Init => Inv
  BY InitInv
<1>2. Inv /\ [Next]_vars => Inv'
  BY NextInv
<1> QED BY <1>1, <1>2, PTL DEF Spec

(* markRoots, markTable and traceReferences mark what they should and      *)
(* nothing else: what is reachable through objects that were not marked    *)
(* before.  That they ever stop is left to TLC.                            *)
THEOREM CollectorTraceExact == Spec => []TraceExact
<1>1. Inv => TraceExact
  BY DEF Inv
<1> QED BY <1>1, CollectorInvariant, PTL

(* markObject pushes no object that is on the gray stack.                  *)
THEOREM CollectorGrayOnce == Spec => []GrayOnce
<1>1. Inv => GrayOnce
  BY DEF Inv
<1> QED BY <1>1, CollectorInvariant, PTL

(* sweep unlinks what it frees and nothing else, and frees nothing twice.  *)
THEOREM CollectorListSound == Spec => []ListSound
<1>1. Inv => ListSound
  BY DEF Inv
<1> QED BY <1>1, CollectorInvariant, PTL

-----------------------------------------------------------------------------
(* The account.  What a step adds to the list or takes from it is one      *)
(* object with all its bytes; between gc_realloc, which accounts for an    *)
(* object, and allocObj, which links it, the object is the one wanted.     *)

Accounted ==
  /\ kind \in [Objects -> Kinds]
  /\ strings \subseteq Objects /\ freed \subseteq Objects
  /\ phase \in {"run", "mark", "sweep", "allocate", "crashed", "closed"}
  /\ wanted \in Kinds \cup {"none"} /\ nextGC \in Nat /\ vmRead \in BOOLEAN
  /\ phase \in {"run", "closed"} => wanted = "none"
  /\ phase \in {"mark", "sweep", "allocate"} => wanted \in Kinds
  /\ IsFiniteSet(Bytes) /\ AllocatedExact

AccountInv == Inv /\ Accounted

LEMMA OneObject ==
  ASSUME NEW B, IsFiniteSet(B), NEW o, NEW n \in Nat, B \cap ({o} \X (1..n)) = {}
  PROVE  /\ IsFiniteSet(B \cup ({o} \X (1..n)))
         /\ Cardinality(B \cup ({o} \X (1..n))) = Cardinality(B) + n
<1> DEFINE P == {o} \X (1..n)
<1>1. IsFiniteSet({o}) /\ Cardinality({o}) = 1
  BY FS_Singleton, Zenon
<1>2. IsFiniteSet(1..n) /\ Cardinality(1..n) = n
  <2>1. 1 \in Int /\ n \in Int
    OBVIOUS
  <2>2. IsFiniteSet(1..n) /\ Cardinality(1..n) = IF 1 > n THEN 0 ELSE n - 1 + 1
    BY <2>1, FS_Interval, Zenon
  <2> QED BY <2>2
<1>3. IsFiniteSet(P) /\ Cardinality(P) = Cardinality({o}) * Cardinality(1..n)
  BY <1>1, <1>2, FS_Product, Zenon
<1>4. IsFiniteSet(P) /\ Cardinality(P) = n
  BY <1>1, <1>2, <1>3
<1>5. B \cap P = {}
  OBVIOUS
<1> HIDE DEF P
<1>6. /\ IsFiniteSet(B \cup P)
      /\ Cardinality(B \cup P) = Cardinality(B) + Cardinality(P) - Cardinality(B \cap P)
  BY <1>4, FS_Union, Zenon
<1>7. Cardinality(B) \in Nat
  BY FS_CardinalityType, Zenon
<1>8. Cardinality(B \cap P) = 0
  BY <1>5, FS_EmptySet, Zenon
<1> QED BY <1>4, <1>6, <1>7, <1>8 DEF P

LEMMA SizeTyped == \A k \in Kinds : Size[k] \in Nat
BY CollectorAssumption DEF CollectorAssumption

(* A step that moves objects within the list, or changes nothing of it.    *)
LEMMA SameAccount ==
  ASSUME Accounted, Heap' = Heap, kind' = kind, allocated' = allocated, wanted' = wanted
  PROVE  IsFiniteSet(Bytes)' /\ AllocatedExact' /\ kind' \in [Objects -> Kinds]
<1>1. Bytes' = Bytes
  BY DEF Bytes
<1> QED BY <1>1 DEF Accounted, AllocatedExact

LEMMA ProgramAccount ==
  ASSUME Inv, Accounted,
         \/ \E o \in Heap : Hold(o) \/ Release(o)
         \/ \E o, p \in Heap : Link(o, p)
  PROVE  Accounted'
<1>1. phase = "run" /\ phase' = "run"
      /\ UNCHANGED <<objects, rest, kind, strings, wanted, allocated, nextGC, vmRead, freed>>
  BY DEF Hold, Release, Link, Running, Unmoved, accounts
<1>2. Heap' = Heap
  BY <1>1 DEF Heap
<1>3. IsFiniteSet(Bytes)' /\ AllocatedExact' /\ kind' \in [Objects -> Kinds]
  BY <1>1, <1>2, SameAccount
<1> QED BY <1>1, <1>3 DEF Accounted

LEMMA GcReallocAccount ==
  ASSUME Inv, Accounted, NEW k \in Kinds, GcRealloc(k)
  PROVE  Accounted'
<1>1. phase = "run" /\ wanted = "none" /\ wanted' = k /\ allocated' = allocated + Size[k]
  BY DEF GcRealloc, Running, Accounted
<1>2. phase' \in {"allocate", "mark", "crashed"} /\ vmRead' \in BOOLEAN
  BY DEF GcRealloc, Accounted
<1>3. UNCHANGED <<objects, rest, kind, strings, nextGC, freed>>
  BY DEF GcRealloc, heap
<1>4. Bytes' = Bytes
  BY <1>3 DEF Bytes, Heap
<1>5. k # "none"
  BY DEF Kinds
<1>6. allocated = Cardinality(Bytes) + 0 /\ Cardinality(Bytes) \in Nat
  BY <1>1, FS_CardinalityType DEF Accounted, AllocatedExact
<1>7. AllocatedExact'
  <2>1. allocated' = Cardinality(Bytes) + Size[k]
    BY <1>1, <1>6, SizeTyped
  <2> QED BY <1>1, <1>4, <1>5, <2>1 DEF AllocatedExact
<1> QED BY <1>1, <1>2, <1>3, <1>4, <1>7 DEF Accounted

LEMMA AllocObjAccount ==
  ASSUME Inv, Accounted, NEW o \in Objects, AllocObj(o)
  PROVE  Accounted'
<1> DEFINE n == Size[wanted]  P == {o} \X (1..n)
<1>1. phase = "allocate" /\ phase' = "run" /\ o \notin Heap /\ wanted \in Kinds
      /\ wanted' = "none" /\ objects' = <<o>> \o objects /\ kind' = [kind EXCEPT ![o] = wanted]
  BY DEF AllocObj, Accounted
<1>2. strings' \subseteq strings \cup {o} /\ UNCHANGED <<rest, allocated, nextGC, vmRead, freed>>
  BY DEF AllocObj
<1>3. n \in Nat /\ wanted # "none"
  BY <1>1, SizeTyped DEF Kinds
<1>4. Heap' = Heap \cup {o}
  <2>1. ToSet(objects') = ToSet(objects) \cup {o}
    BY <1>1, ConsOnce DEF Inv, Typed, ListSound, Heap
  <2> QED BY <1>2, <2>1 DEF Heap
<1>5. Bytes' = Bytes \cup P
  <2>1. \A p \in Heap : kind'[p] = kind[p]
    BY <1>1, HeapTyped DEF Accounted, Inv
  <2>2. kind'[o] = wanted
    BY <1>1 DEF Accounted
  <2> QED BY <1>4, <2>1, <2>2 DEF Bytes
<1>6. Bytes \cap P = {}
  BY <1>1 DEF Bytes
<1>7. IsFiniteSet(Bytes) /\ Cardinality(Bytes) \in Nat /\ allocated = Cardinality(Bytes) + n
  BY <1>3, FS_CardinalityType DEF Accounted, AllocatedExact
<1>8. IsFiniteSet(Bytes') /\ Cardinality(Bytes') = Cardinality(Bytes) + n
  <2> DEFINE B == Bytes
  <2>1. IsFiniteSet(B) /\ B \cap P = {} /\ Bytes' = B \cup P
    BY <1>5, <1>6, <1>7
  <2> HIDE DEF B, n
  <2>2. IsFiniteSet(B \cup P) /\ Cardinality(B \cup P) = Cardinality(B) + n
    BY <1>3, <2>1, OneObject
  <2> QED BY <2>1, <2>2 DEF B
<1>9. AllocatedExact'
  <2> HIDE DEF n
  <2>1. allocated' = Cardinality(Bytes') + 0
    BY <1>2, <1>3, <1>7, <1>8
  <2> QED BY <1>1, <2>1 DEF AllocatedExact
<1>10. kind' \in [Objects -> Kinds]
  BY <1>1 DEF Accounted
<1> QED BY <1>1, <1>2, <1>8, <1>9, <1>10 DEF Accounted

(* gc_free: everything in the list, and so all there is to account for.    *)
LEMMA GcFreeAccount ==
  ASSUME Inv, Accounted, GcFree
  PROVE  Accounted'
<1>1. phase = "run" /\ phase' = "closed" /\ wanted = "none" /\ wanted' = wanted
      /\ allocated' = allocated - Cardinality(Bytes)
      /\ objects' = <<>> /\ kind' = [o \in Objects |-> "str"] /\ strings' = {}
  BY DEF GcFree, Running, Accounted
<1>2. rest = <<>> /\ UNCHANGED <<rest, nextGC, vmRead, freed>>
  BY <1>1 DEF GcFree, Inv, Quiet
<1>3. Bytes' = {}
  BY <1>1, <1>2, EmptyOnce DEF Bytes, Heap
<1>4. allocated = Cardinality(Bytes) + 0 /\ Cardinality(Bytes) \in Nat
  BY <1>1, FS_CardinalityType DEF Accounted, AllocatedExact
<1>5. IsFiniteSet(Bytes') /\ Cardinality(Bytes') = 0
  BY <1>3, FS_EmptySet
<1>6. AllocatedExact'
  BY <1>1, <1>4, <1>5 DEF AllocatedExact
<1>7. kind' \in [Objects -> Kinds]
  BY <1>1 DEF Kinds
<1> QED BY <1>1, <1>2, <1>5, <1>6, <1>7 DEF Accounted

(* Marking and what follows it leave the list a list of the same objects.  *)
LEMMA CollectAccount ==
  ASSUME Inv, Accounted, MarkObject \/ BlackenObject \/ RemoveWhite \/ SweepKeep \/ SweepEnd
  PROVE  Accounted'
<1>1. UNCHANGED <<kind, wanted, allocated, vmRead>> /\ phase \in {"mark", "sweep"}
      /\ phase' \in {"mark", "crashed", "sweep", "allocate"}
  BY DEF MarkObject, BlackenObject, RemoveWhite, SweepKeep, SweepEnd, heap, accounts
<1>2. Heap' = Heap
  <2>1. CASE MarkObject \/ BlackenObject \/ SweepEnd
    BY <2>1 DEF MarkObject, BlackenObject, SweepEnd, Heap
  <2>2. CASE RemoveWhite
    BY <2>2, EmptyOnce DEF RemoveWhite, Inv, Quiet, Heap
  <2>3. CASE SweepKeep
    <3> DEFINE o == Head(rest)
    <3>1. rest # <<>> /\ objects' = Append(objects, o) /\ rest' = Tail(rest)
      BY <2>3 DEF SweepKeep
    <3>2. o \in Objects /\ ToSet(rest') = ToSet(rest) \ {o} /\ o \in ToSet(rest)
      BY <3>1, TailOnce DEF Inv, Typed, ListSound
    <3> HIDE DEF o
    <3>3. ToSet(objects') = ToSet(objects) \cup {o}
      BY <3>1, <3>2, AppendOnce DEF Inv, Typed
    <3> QED BY <3>2, <3>3 DEF Heap
  <2> QED BY <2>1, <2>2, <2>3
<1>3. IsFiniteSet(Bytes)' /\ AllocatedExact' /\ kind' \in [Objects -> Kinds]
  BY <1>1, <1>2, SameAccount
<1>4. strings' \subseteq strings /\ freed' \subseteq freed
  BY DEF MarkObject, BlackenObject, RemoveWhite, SweepKeep, SweepEnd
<1>5. nextGC' \in Nat
  <2>1. CASE SweepEnd
    <3>1. allocated \in Nat
      <4>1. wanted \in Kinds /\ wanted # "none"
        BY <1>1 DEF Accounted, Kinds
      <4>2. Cardinality(Bytes) \in Nat /\ Size[wanted] \in Nat
            /\ allocated = Cardinality(Bytes) + Size[wanted]
        BY <4>1, SizeTyped, FS_CardinalityType DEF Accounted, AllocatedExact
      <4> QED BY <4>2
    <3> QED BY <2>1, <3>1 DEF SweepEnd
  <2>2. CASE ~SweepEnd
    BY <2>2 DEF MarkObject, BlackenObject, RemoveWhite, SweepKeep, accounts, Accounted
  <2> QED BY <2>1, <2>2
<1> QED BY <1>1, <1>3, <1>4, <1>5 DEF Accounted

LEMMA SweepFreeAccount ==
  ASSUME Inv, Accounted, SweepFree
  PROVE  Accounted'
<1> DEFINE o == Head(rest)  n == Size[kind[o]]  P == {o} \X (1..n)
<1>1. phase = "sweep" /\ phase' = "sweep" /\ rest # <<>> /\ rest' = Tail(rest)
      /\ objects' = objects /\ freed' = freed \cup {o} /\ allocated' = allocated - n
  BY DEF SweepFree
<1>2. UNCHANGED <<kind, strings, wanted, nextGC, vmRead>>
  BY DEF SweepFree, heap
<1>3. o \in Objects /\ ToSet(rest') = ToSet(rest) \ {o} /\ o \in ToSet(rest)
  BY <1>1, TailOnce DEF Inv, Typed, ListSound
<1>4. o \notin ToSet(objects)
  BY <1>3 DEF Inv, ListSound
<1>5. n \in Nat /\ wanted \in Kinds /\ wanted # "none" /\ Size[wanted] \in Nat
  <2>1. kind[o] \in Kinds /\ wanted \in Kinds
    BY <1>1, <1>3 DEF Accounted
  <2> QED BY <2>1, SizeTyped DEF Kinds
<1> HIDE DEF o
<1>6. Heap = Heap' \cup {o} /\ o \notin Heap'
  BY <1>1, <1>3, <1>4 DEF Heap
<1>7. Bytes = Bytes' \cup P /\ Bytes' \cap P = {}
  BY <1>2, <1>6 DEF Bytes
<1>8. IsFiniteSet(Bytes) /\ IsFiniteSet(Bytes')
  BY <1>7, FS_Subset DEF Accounted
<1>9. Cardinality(Bytes) = Cardinality(Bytes') + n
  <2> DEFINE B == Bytes'
  <2>1. IsFiniteSet(B) /\ B \cap P = {} /\ Bytes = B \cup P
    BY <1>7, <1>8
  <2> HIDE DEF B, n
  <2>2. Cardinality(B \cup P) = Cardinality(B) + n
    BY <1>5, <2>1, OneObject
  <2> QED BY <2>1, <2>2 DEF B
<1>10. allocated = Cardinality(Bytes) + Size[wanted] /\ Cardinality(Bytes') \in Nat
  BY <1>5, <1>8, FS_CardinalityType DEF Accounted, AllocatedExact
<1>11. AllocatedExact'
  <2> DEFINE w == Size[wanted]
  <2>1. allocated' = Cardinality(Bytes') + w
    <3> HIDE DEF n
    <3>1. w \in Nat
      BY <1>5
    <3> QED BY <1>1, <1>5, <1>9, <1>10
  <2> QED BY <1>2, <1>5, <2>1 DEF AllocatedExact
<1> QED BY <1>1, <1>2, <1>3, <1>8, <1>11 DEF Accounted

LEMMA NextAccount == AccountInv /\ [Next]_vars => AccountInv'
<1> SUFFICES ASSUME Inv, Accounted, [Next]_vars PROVE AccountInv'
  BY DEF AccountInv
<1>1. Inv'
  BY NextInv
<1>2. Accounted'
  <2>1. ASSUME NEW k \in Kinds, GcRealloc(k) PROVE Accounted'
    BY <2>1, GcReallocAccount
  <2>2. ASSUME NEW o \in Objects, AllocObj(o) PROVE Accounted'
    BY <2>2, AllocObjAccount
  <2>3. CASE GcFree
    BY <2>3, GcFreeAccount
  <2>4. CASE (\E o \in Heap : Hold(o) \/ Release(o)) \/ \E o, p \in Heap : Link(o, p)
    BY <2>4, ProgramAccount
  <2>5. CASE Collect
    BY <2>5, CollectAccount, SweepFreeAccount DEF Collect
  <2>6. CASE UNCHANGED vars
    <3>1. Heap' = Heap
      BY <2>6 DEF vars, Heap
    <3>2. IsFiniteSet(Bytes)' /\ AllocatedExact' /\ kind' \in [Objects -> Kinds]
      BY <2>6, <3>1, SameAccount DEF vars
    <3> QED BY <2>6, <3>2 DEF vars, Accounted
  <2> QED BY <2>1, <2>2, <2>3, <2>4, <2>5, <2>6 DEF Next, Program
<1> QED BY <1>1, <1>2 DEF AccountInv

LEMMA InitAccount == Init => AccountInv
<1> SUFFICES ASSUME Init PROVE AccountInv
  OBVIOUS
<1>1. Bytes = {}
  BY EmptyOnce DEF Init, Bytes, Heap
<1>2. IsFiniteSet(Bytes) /\ Cardinality(Bytes) = 0
  BY <1>1, FS_EmptySet
<1>3. AllocatedExact
  BY <1>2 DEF Init, AllocatedExact
<1>4. Accounted
  BY <1>2, <1>3, CollectorAssumption DEF Init, Accounted, CollectorAssumption, Kinds
<1> QED BY <1>4, InitInv DEF AccountInv

(* gc->allocated is exactly the size of what the list holds and what is    *)
(* being allocated, whatever was collected: allocObj and obj_free keep one *)
(* account.                                                                *)
THEOREM CollectorAllocatedExact == Spec => []AllocatedExact
<1>1. AccountInv => AllocatedExact
  BY DEF AccountInv, Accounted
<1> QED BY <1>1, InitAccount, NextAccount, PTL DEF Spec

(* The types of Collector's variables; that gc->allocated, of a type       *)
(* without a sign, never passes below 0 rests on its being exact.          *)
THEOREM CollectorTypeOK == Spec => []TypeOK
<1>1. AccountInv => TypeOK
  <2> SUFFICES ASSUME AccountInv PROVE TypeOK
    OBVIOUS
  <2>1. Cardinality(Bytes) \in Nat
    BY FS_CardinalityType DEF AccountInv, Accounted
  <2>2. allocated \in Nat
    <3>1. CASE wanted = "none"
      BY <2>1, <3>1 DEF AccountInv, Accounted, AllocatedExact
    <3>2. CASE wanted # "none"
      <4>1. Size[wanted] \in Nat
        BY <3>2, SizeTyped DEF AccountInv, Accounted
      <4> QED BY <2>1, <3>2, <4>1 DEF AccountInv, Accounted, AllocatedExact
    <3> QED BY <3>1, <3>2
  <2> QED BY <2>2 DEF AccountInv, Accounted, Inv, Typed, TypeOK
<1> QED BY <1>1, InitAccount, NextAccount, PTL DEF Spec
=============================================================================
