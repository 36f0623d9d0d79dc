----------------------------- MODULE TableProofs -----------------------------
(***************************************************************************)
(* Proofs about Table, for every set of keys, every hash and every         *)
(* starting capacity of at least 2.  The lemmas on probing come first;     *)
(* then Inv is shown inductive, one step per action; the theorems follow.  *)
(***************************************************************************)
EXTENDS Table, FiniteSetTheorems, WellFoundedInduction, TLAPS

-----------------------------------------------------------------------------
(* Probing.                                                                *)

(* The least element CHOOSE picks out of a non-empty set of distances.     *)
LEMMA LeastIsLeast ==
  ASSUME NEW S \in SUBSET Nat, S # {}
  PROVE  Least(S) \in S /\ \A e \in S : Least(S) <= e
<1> DEFINE R == StrictSubsetOrdering(Nat)
           F == FiniteSubsetsOf(Nat)
           T == {0..n : n \in S}
<1>1. IsWellFoundedOn(R, F)
  BY FS_StrictSubsetOrderingWellFounded
<1>2. \A n \in Nat : 0..n \in F
  <2>1. \A n \in Nat : IsFiniteSet(0..n)
    BY FS_Interval
  <2>. QED  BY <2>1 DEF FiniteSubsetsOf
<1>3. T \subseteq F /\ T # {}
  BY <1>2
<1>4. PICK I \in T : \A J \in T : <<J, I>> \notin R
  <2> HIDE DEF F, R, T
  <2>. QED  BY <1>1, <1>3, WFMin
<1>5. PICK m \in S : I = 0..m
  BY <1>4
<1>6. \A e \in S : m <= e
  <2> SUFFICES ASSUME NEW e \in S, e < m PROVE FALSE
    OBVIOUS
  <2>1. <<0..e, 0..m>> \in R
    BY DEF StrictSubsetOrdering
  <2>. QED  BY <2>1, <1>4, <1>5
<1>. QED  BY <1>6 DEF Least

(* A probe looks at entries of the array only.                             *)
LEMMA AtInRange ==
  ASSUME NEW cap \in Nat \ {0}, NEW k \in Keys, NEW d \in Nat
  PROVE  At(cap, k, d) \in 0..cap-1
BY ConstantsAssumption, SMT DEF At

(* Quotient and remainder.                                                 *)
LEMMA DivMod ==
  ASSUME NEW n \in Nat \ {0}, NEW h \in Nat
  PROVE  /\ h = n * (h \div n) + (h % n)
         /\ h % n \in 0..n-1
         /\ h \div n \in Nat
BY SMT

(* A multiple of n adds nothing to a remainder.                            *)
LEMMA ModShift ==
  ASSUME NEW n \in Nat \ {0}, NEW p \in Nat, NEW i \in 0..n-1
  PROVE  (n * p + i) % n = i
BY SMT

(* n consecutive numbers have every remainder.                             *)
LEMMA ModCovers ==
  ASSUME NEW n \in Nat \ {0}, NEW h \in Nat, NEW i \in 0..n-1
  PROVE  \E d \in 0..n-1 : (h + d) % n = i
<1> DEFINE q == h \div n
           r == h % n
<1>1. h = n * q + r /\ r \in 0..n-1 /\ q \in Nat
  BY DivMod
<1> HIDE DEF q, r
<1>2. CASE i >= r
  <2>1. i - r \in 0..n-1 /\ h + (i - r) = n * q + i
    BY <1>1, <1>2
  <2>2. (n * q + i) % n = i
    BY <1>1, ModShift
  <2>. QED  BY <2>1, <2>2
<1>3. CASE i < r
  <2>0. n * (q + 1) = n * q + n
    BY <1>1
  <2>1. i - r + n \in 0..n-1 /\ h + (i - r + n) = n * (q + 1) + i
    BY <1>1, <1>3, <2>0
  <2>2. (n * (q + 1) + i) % n = i
    BY <1>1, ModShift
  <2>. QED  BY <2>1, <2>2
<1>. QED  BY <1>1, <1>2, <1>3

(* Within cap steps a probe looks at every entry of the array.             *)
LEMMA ProbeCovers ==
  ASSUME NEW cap \in Nat \ {0}, NEW k \in Keys, NEW i \in 0..cap-1
  PROVE  \E d \in 0..cap-1 : At(cap, k, d) = i
BY ModCovers, ConstantsAssumption DEF At

(* The entries in use and the live ones are finite sets of slots.          *)
LEMMA SlotSetsFinite ==
  ASSUME NEW cap \in Nat, NEW es \in [0..cap-1 -> Entry]
  PROVE  /\ Used(es) \subseteq 0..cap-1 /\ IsFiniteSet(Used(es))
         /\ Cardinality(Used(es)) \in Nat
         /\ Live(es) \subseteq Used(es) /\ IsFiniteSet(Live(es))
<1>1. IsFiniteSet(0..cap-1)
  BY FS_Interval
<1>2. Used(es) \subseteq 0..cap-1 /\ Live(es) \subseteq Used(es)
  BY DEF Used, Live, IsEmpty
<1>. QED  BY <1>1, <1>2, FS_Subset, FS_CardinalityType

(* An array with an entry not in use ends every probe.                     *)
LEMMA EmptyEndsProbe ==
  ASSUME NEW cap \in Nat, NEW es \in [0..cap-1 -> Entry],
         Cardinality(Used(es)) < cap, NEW k \in Keys
  PROVE  \E d \in 0..cap-1 : IsEmpty(es[At(cap, k, d)])
<1>1. Used(es) \subseteq 0..cap-1 /\ Cardinality(Used(es)) \in Nat
  BY SlotSetsFinite
<1>2. cap \in Nat \ {0} /\ 0 \in Int /\ cap - 1 \in Int /\ ~(0 > cap - 1)
  BY <1>1
<1>3. Cardinality(0..cap-1) = cap
  BY <1>2, FS_Interval
<1>4. Used(es) # 0..cap-1
  BY <1>2, <1>3
<1>5. PICK i \in 0..cap-1 : i \notin Used(es)
  BY <1>1, <1>4
<1>6. IsEmpty(es[i])
  BY <1>5 DEF Used
<1>. QED  BY <1>2, <1>6, ProbeCovers

(* Where findEntry ends: at the key's entry if the key has one, otherwise  *)
(* at an entry without a key, and before it on the probe nothing is empty. *)
LEMMA Found ==
  ASSUME NEW cap \in Nat \ {0}, NEW es \in [0..cap-1 -> Entry], NEW k \in Keys,
         WellProbed(es, cap), Stops(es, cap, k) # {}
  PROVE  LET s == FindEntry(es, cap, k) IN
         /\ s \in 0..cap-1
         /\ es[s].key \in {k, NoKey}
         /\ \A i \in 0..cap-1 : es[i].key = k => es[s].key = k
         /\ \E d \in 0..cap-1 :
              At(cap, k, d) = s /\ \A e \in 0..d-1 : ~IsEmpty(es[At(cap, k, e)])
<1> DEFINE last  == Least(Stops(es, cap, k))
           tombs == {d \in 0..last-1 : IsTombstone(es[At(cap, k, d)])}
           s == FindEntry(es, cap, k)
<1>1. Stops(es, cap, k) \in SUBSET Nat /\ Stops(es, cap, k) \subseteq 0..cap-1
  BY DEF Stops
<1>2. last \in Stops(es, cap, k) /\ \A e \in Stops(es, cap, k) : last <= e
  BY <1>1, LeastIsLeast
<1>3. last \in 0..cap-1 /\ (IsEmpty(es[At(cap, k, last)]) \/ es[At(cap, k, last)].key = k)
  BY <1>2 DEF Stops
<1>4. ASSUME NEW e \in 0..last-1
      PROVE  ~IsEmpty(es[At(cap, k, e)]) /\ es[At(cap, k, e)].key # k
  BY <1>1, <1>2, <1>3 DEF Stops
<1>5. ASSUME NEW i \in 0..cap-1, es[i].key = k
      PROVE  es[At(cap, k, last)].key = k
  <2>1. i \in Live(es)
    BY <1>5, ConstantsAssumption DEF Live
  <2>2. PICK d \in 0..cap-1 :
          At(cap, k, d) = i /\ \A e \in 0..d-1 : ~IsEmpty(es[At(cap, k, e)])
    BY <2>1, <1>5 DEF WellProbed
  <2>3. last <= d
    BY <1>2, <2>2, <1>5 DEF Stops
  <2>4. last \in 0..d-1 => es[At(cap, k, last)].key = k
    BY <2>2, <1>3
  <2>. QED  BY <2>2, <2>3, <2>4, <1>5, <1>3
<1>6. CASE es[At(cap, k, last)].key # k /\ tombs # {}
  <2>1. s = At(cap, k, Least(tombs))
    BY <1>6 DEF FindEntry
  <2>2. tombs \in SUBSET Nat
    OBVIOUS
  <2>3. Least(tombs) \in tombs
    BY <2>2, <1>6, LeastIsLeast
  <2>. DEFINE t == Least(tombs)
  <2>4. t \in 0..last-1 /\ IsTombstone(es[At(cap, k, t)])
    BY <2>3
  <2>. HIDE DEF t, tombs, s
  <2>5. t \in 0..cap-1 /\ t \in Nat
    BY <2>4, <1>3
  <2>6. s \in 0..cap-1
    BY <2>1, <2>5, AtInRange DEF t
  <2>7. es[s].key = NoKey
    BY <2>1, <2>4 DEF IsTombstone, t
  <2>8. \A e \in 0..t-1 : ~IsEmpty(es[At(cap, k, e)])
    BY <1>4, <2>4, <1>3
  <2>9. \A i \in 0..cap-1 : es[i].key # k
    BY <1>5, <1>6
  <2>10. At(cap, k, t) = s
    BY <2>1 DEF t
  <2>. QED  BY <2>5, <2>6, <2>7, <2>8, <2>9, <2>10 DEF s
<1>7. CASE ~(es[At(cap, k, last)].key # k /\ tombs # {})
  <2>1. s = At(cap, k, last)
    BY <1>7 DEF FindEntry
  <2>. HIDE DEF last, s
  <2>2. s \in 0..cap-1
    BY <2>1, <1>3, AtInRange
  <2>3. es[s].key \in {k, NoKey}
    BY <2>1, <1>3 DEF IsEmpty
  <2>. QED  BY <2>1, <2>2, <2>3, <1>3, <1>4, <1>5 DEF s
<1>. QED  BY <1>6, <1>7

(* What was not empty and is not emptied still leads a probe on.           *)
LEMMA StillProbed ==
  ASSUME NEW cap \in Nat \ {0}, NEW es, NEW new, NEW k \in Keys, NEW d \in 0..cap-1,
         \A i \in 0..cap-1 : IsEmpty(new[i]) => IsEmpty(es[i]),
         \A e \in 0..d-1 : ~IsEmpty(es[At(cap, k, e)])
  PROVE  \A e \in 0..d-1 : ~IsEmpty(new[At(cap, k, e)])
<1> TAKE e \in 0..d-1
<1>1. e \in Nat
  OBVIOUS
<1>2. At(cap, k, e) \in 0..cap-1
  BY <1>1, AtInRange
<1>. QED  BY <1>2

(* Storing a pair where findEntry ends keeps every probe sound, and puts   *)
(* one more entry in use at most.                                          *)
LEMMA Stored ==
  ASSUME NEW cap \in Nat \ {0}, NEW es \in [0..cap-1 -> Entry], NEW pair \in Pair,
         WellProbed(es, cap), Stops(es, cap, pair.key) # {}
  PROVE  LET s == FindEntry(es, cap, pair.key)
             new == [es EXCEPT ![s] = pair]
         IN
         /\ s \in 0..cap-1
         /\ new \in [0..cap-1 -> Entry]
         /\ WellProbed(new, cap)
         /\ Used(new) = Used(es) \cup {s}
         /\ Live(new) = Live(es) \cup {s}
<1> DEFINE k == pair.key
           s == FindEntry(es, cap, k)
           new == [es EXCEPT ![s] = pair]
<1>1. k \in Keys /\ k # NoKey /\ pair \in Entry
  BY ConstantsAssumption DEF Pair, Entry
<1>2. /\ s \in 0..cap-1
      /\ es[s].key \in {k, NoKey}
      /\ \A i \in 0..cap-1 : es[i].key = k => es[s].key = k
      /\ \E d \in 0..cap-1 :
           At(cap, k, d) = s /\ \A e \in 0..d-1 : ~IsEmpty(es[At(cap, k, e)])
  BY <1>1, Found
<1> HIDE DEF s
<1>3. new \in [0..cap-1 -> Entry] /\ new[s] = pair
      /\ \A i \in 0..cap-1 : i # s => new[i] = es[i]
  BY <1>1, <1>2
<1> HIDE DEF k, new
<1>4. Used(new) = Used(es) \cup {s} /\ Live(new) = Live(es) \cup {s}
  BY <1>1, <1>2, <1>3 DEF Used, Live, IsEmpty, k
<1>5. \A i \in 0..cap-1 : IsEmpty(new[i]) => IsEmpty(es[i])
  BY <1>1, <1>3 DEF IsEmpty, k
<1>7. ASSUME NEW i \in Live(new)
      PROVE  \E d \in 0..cap-1 :
               /\ At(cap, new[i].key, d) = i
               /\ \A e \in 0..d-1 : ~IsEmpty(new[At(cap, new[i].key, e)])
  <2>1. CASE i = s
    <3>1. new[i].key = k
      BY <2>1, <1>3 DEF k
    <3>2. PICK d \in 0..cap-1 :
            At(cap, k, d) = s /\ \A e \in 0..d-1 : ~IsEmpty(es[At(cap, k, e)])
      BY <1>2
    <3>3. \A e \in 0..d-1 : ~IsEmpty(new[At(cap, k, e)])
      BY <3>2, <1>1, <1>5, StillProbed
    <3>. QED  BY <2>1, <3>1, <3>2, <3>3
  <2>2. CASE i # s
    <3>1. i \in Live(es) /\ i \in 0..cap-1 /\ new[i] = es[i] /\ es[i].key \in Keys
      BY <2>2, <1>4, <1>3 DEF Live, Entry
    <3>2. PICK d \in 0..cap-1 :
            /\ At(cap, es[i].key, d) = i
            /\ \A e \in 0..d-1 : ~IsEmpty(es[At(cap, es[i].key, e)])
      BY <3>1 DEF WellProbed
    <3>3. \A e \in 0..d-1 : ~IsEmpty(new[At(cap, es[i].key, e)])
      BY <3>1, <3>2, <1>5, StillProbed
    <3>. QED  BY <3>1, <3>2, <3>3
  <2>. QED  BY <2>1, <2>2
<1>8. ASSUME NEW i \in Live(new), NEW j \in Live(new), new[i].key = new[j].key
      PROVE  i = j
  <2>0. i \in 0..cap-1 /\ j \in 0..cap-1
    BY <1>3 DEF Live
  <2>1. CASE i # s /\ j # s
    <3>. i \in Live(es) /\ j \in Live(es) /\ es[i].key = es[j].key
      BY <2>1, <1>3, <1>4, <1>8, <2>0
    <3>. QED  BY DEF WellProbed
  <2>2. ASSUME NEW x \in Live(new), x # s, new[x].key = new[s].key
        PROVE  FALSE
    <3>1. x \in Live(es) /\ x \in 0..cap-1 /\ es[x].key = k
      BY <2>2, <1>3, <1>4 DEF Live, k
    <3>2. es[s].key = k /\ s \in Live(es)
      BY <3>1, <1>2, <1>1 DEF Live
    <3>. QED  BY <3>1, <3>2, <2>2 DEF WellProbed
  <2>. QED  BY <2>1, <2>2, <1>8
<1>. QED  BY <1>2, <1>3, <1>4, <1>7, <1>8 DEF WellProbed, s, new, k

(* A tombstone in place of an entry keeps every probe sound and the entry  *)
(* in use.                                                                 *)
LEMMA Removed ==
  ASSUME NEW cap \in Nat \ {0}, NEW es \in [0..cap-1 -> Entry],
         WellProbed(es, cap), NEW s \in Live(es),
         NEW new, new = [es EXCEPT ![s] = [key |-> NoKey, value |-> True]]
  PROVE  /\ new \in [0..cap-1 -> Entry]
         /\ WellProbed(new, cap)
         /\ Used(new) = Used(es)
         /\ Live(new) = Live(es) \ {s}
<1>1. s \in 0..cap-1 /\ [key |-> NoKey, value |-> True] \in Entry /\ True # Null
  BY ConstantsAssumption DEF Live, Entry
<1>2. new \in [0..cap-1 -> Entry] /\ new[s] = [key |-> NoKey, value |-> True]
      /\ \A i \in 0..cap-1 : i # s => new[i] = es[i]
  BY <1>1
<1>3. Used(new) = Used(es) /\ Live(new) = Live(es) \ {s}
  BY <1>1, <1>2 DEF Used, Live, IsEmpty
<1>4. \A i \in 0..cap-1 : IsEmpty(new[i]) => IsEmpty(es[i])
  BY <1>1, <1>2 DEF IsEmpty
<1>5. ASSUME NEW i \in Live(new)
      PROVE  \E d \in 0..cap-1 :
               /\ At(cap, new[i].key, d) = i
               /\ \A e \in 0..d-1 : ~IsEmpty(new[At(cap, new[i].key, e)])
  <2>1. i \in Live(es) /\ i \in 0..cap-1 /\ new[i] = es[i] /\ es[i].key \in Keys
    BY <1>2, <1>3 DEF Live, Entry
  <2>2. PICK d \in 0..cap-1 :
          /\ At(cap, es[i].key, d) = i
          /\ \A e \in 0..d-1 : ~IsEmpty(es[At(cap, es[i].key, e)])
    BY <2>1 DEF WellProbed
  <2>3. \A e \in 0..d-1 : ~IsEmpty(new[At(cap, es[i].key, e)])
    BY <2>1, <2>2, <1>4, StillProbed
  <2>. QED  BY <2>1, <2>2, <2>3
<1>6. \A i, j \in Live(new) : new[i].key = new[j].key => i = j
  BY <1>2, <1>3 DEF WellProbed, Live
<1>. QED  BY <1>2, <1>3, <1>5, <1>6 DEF WellProbed

(* A table with a count has an array, and an array the load limit governs  *)
(* ends every probe.                                                       *)
LEMMA LoadEndsProbe ==
  ASSUME NEW cap \in Nat, NEW es \in [0..cap-1 -> Entry], cap > 0,
         4 * Cardinality(Used(es)) <= 3 * cap, NEW k \in Keys
  PROVE  /\ \E d \in 0..cap-1 : IsEmpty(es[At(cap, k, d)])
         /\ Stops(es, cap, k) # {}
<1>1. Cardinality(Used(es)) < cap
  BY SlotSetsFinite
<1>2. PICK d \in 0..cap-1 : IsEmpty(es[At(cap, k, d)])
  BY <1>1, EmptyEndsProbe
<1>. QED  BY <1>2 DEF Stops

(* An array of empty entries.                                              *)
LEMMA Blank ==
  ASSUME NEW cap \in Nat, NEW es, es = [i \in 0..cap-1 |-> EmptyEntry]
  PROVE  /\ es \in [0..cap-1 -> Entry]
         /\ Live(es) = {} /\ Used(es) = {}
         /\ WellProbed(es, cap)
<1>1. es \in [0..cap-1 -> Entry] /\ \A i \in 0..cap-1 : IsEmpty(es[i])
  BY ConstantsAssumption DEF EmptyEntry, Entry, IsEmpty
<1>2. Live(es) = {} /\ Used(es) = {}
  BY <1>1 DEF Live, Used, IsEmpty
<1>. QED  BY <1>1, <1>2 DEF WellProbed

(* Growing at least doubles the array.                                     *)
LEMMA Grows ==
  ASSUME NEW cap \in Nat, cap = 0 \/ cap >= MinCap
  PROVE  /\ GrowCap(cap) \in Nat /\ GrowCap(cap) >= MinCap
         /\ GrowCap(cap) > 0 /\ GrowCap(cap) >= 2 * cap
         /\ \A c \in Nat : 4 * c <= 3 * cap => 4 * (c + 1) <= 3 * GrowCap(cap)
<1>1. MinCap \in Nat /\ MinCap >= 2
  BY ConstantsAssumption
<1>2. CASE cap = 0
  BY <1>1, <1>2 DEF GrowCap
<1>3. CASE cap >= MinCap
  BY <1>1, <1>3 DEF GrowCap
<1>. QED  BY <1>2, <1>3

-----------------------------------------------------------------------------
(* Inv is inductive.                                                       *)

(* The empty table of tab_init.                                            *)
LEMMA InitInv == Init => Inv
<1> SUFFICES ASSUME Init PROVE Inv
  OBVIOUS
<1>1. entries \in [0..capacity-1 -> Entry] /\ capacity = 0
  BY DEF Init
<1>2. Live(entries) = {} /\ Used(entries) = {}
  BY <1>1 DEF Live, Used
<1>3. TypeOK
  BY <1>1 DEF Init, TypeOK
<1>4. CountExact
  BY <1>2, FS_EmptySet DEF Init, CountExact
<1>5. WellProbed(entries, capacity)
  BY <1>2 DEF WellProbed
<1>. QED  BY <1>3, <1>4, <1>5 DEF Init, Inv

(* The calls that store nothing.                                           *)
LEMMA ReadInv ==
  ASSUME Inv, UNCHANGED <<entries, capacity, count, pc, todo, fresh, scan>>
  PROVE  Inv'
BY DEF Inv, TypeOK, CountExact, Copied, MustGrow, WellProbed

(* tab_remove.                                                             *)
LEMMA RemoveInv ==
  ASSUME Inv, NEW k \in Keys, TabRemove(k)
  PROVE  Inv'
<1> DEFINE s == FindEntry(entries, capacity, k)
<1>1. CASE Lookup(k).key = NoKey
  BY <1>1, ReadInv DEF TabRemove
<1>2. CASE Lookup(k).key # NoKey
  <2>1. count # 0 /\ entries[s].key # NoKey /\ Stops(entries, capacity, k) # {}
    BY <1>2 DEF TabRemove, Lookup, EmptyEntry, CanProbe
  <2>2. /\ pc = "idle" /\ capacity \in Nat /\ entries \in [0..capacity-1 -> Entry]
        /\ count = Cardinality(Used(entries)) /\ WellProbed(entries, capacity)
    BY DEF TabRemove, Idle, Inv, TypeOK, CountExact
  <2>3. capacity # 0
    BY <2>1 DEF Stops
  <2>4. entries' = [entries EXCEPT ![s] = [key |-> NoKey, value |-> True]]
        /\ UNCHANGED <<capacity, count, pc, todo, fresh, scan>>
    BY <1>2 DEF TabRemove
  <2>5. s \in 0..capacity-1
    BY <2>1, <2>2, <2>3, Found
  <2> HIDE DEF s
  <2>6. s \in Live(entries)
    BY <2>1, <2>2, <2>5 DEF Live
  <2>7. /\ entries' \in [0..capacity-1 -> Entry]
        /\ WellProbed(entries', capacity)
        /\ Used(entries') = Used(entries)
    BY <2>2, <2>3, <2>4, <2>6, Removed
  <2>8. TypeOK'
    BY <2>2, <2>4, <2>7 DEF Inv, TypeOK
  <2>9. CountExact'
    BY <2>2, <2>4, <2>7 DEF Inv, CountExact
  <2>. QED  BY <2>2, <2>4, <2>7, <2>8, <2>9 DEF Inv
<1>. QED  BY <1>1, <1>2

(* tab_free.                                                               *)
LEMMA FreeInv == Inv /\ TabFree => Inv'
<1> SUFFICES ASSUME Inv, TabFree PROVE Inv'
  OBVIOUS
<1>1. /\ entries' = <<>> /\ capacity' = 0 /\ count' = 0 /\ pc = "idle"
      /\ UNCHANGED <<pc, todo, fresh, scan>>
  BY DEF TabFree, Idle
<1>2. entries' \in [0..capacity'-1 -> Entry]
  BY <1>1
<1>3. Live(entries') = {} /\ Used(entries') = {}
  BY <1>1, <1>2 DEF Live, Used
<1>4. TypeOK'
  BY <1>1, <1>2 DEF Inv, TypeOK
<1>5. CountExact'
  BY <1>1, <1>3, FS_EmptySet DEF CountExact
<1>6. WellProbed(entries', capacity')
  BY <1>3 DEF WellProbed
<1>. QED  BY <1>1, <1>4, <1>5, <1>6 DEF Inv

(* tab_set and tab_add, up to their first check of the load.               *)
LEMMA CallInv ==
  ASSUME Inv, NEW from \in Seq(Pair), from # <<>>, Idle,
         todo' = from, pc' = "set",
         UNCHANGED <<entries, capacity, count, fresh, scan>>
  PROVE  Inv'
<1>1. pc = "idle"
  BY DEF Idle
<1>2. TypeOK'
  BY DEF Inv, TypeOK
<1>3. CountExact'
  BY <1>1 DEF Inv, CountExact
<1>. QED  BY <1>2, <1>3 DEF Inv, WellProbed

(* The check of the load: the table has room, or a blank array is made.    *)
LEMMA CheckLoadInv == Inv /\ CheckLoad => Inv'
<1> SUFFICES ASSUME Inv, CheckLoad PROVE Inv'
  OBVIOUS
<1>1. /\ TypeOK /\ CountExact /\ todo # <<>> /\ WellProbed(entries, capacity)
      /\ pc = "set" /\ scan' = 0 /\ UNCHANGED <<entries, capacity, todo>>
  BY DEF Inv, CheckLoad
<1>2. CASE ~MustGrow
  <2>1. pc' = "insert" /\ UNCHANGED <<fresh, count>> /\ ~MustGrow'
    BY <1>1, <1>2 DEF CheckLoad, MustGrow
  <2>2. TypeOK'
    BY <1>1, <2>1 DEF TypeOK
  <2>3. CountExact'
    BY <1>1, <2>1 DEF CountExact
  <2>. QED  BY <1>1, <2>1, <2>2, <2>3 DEF Inv
<1>3. CASE MustGrow
  <2> DEFINE cap == GrowCap(capacity)
  <2>1. pc' = "resize" /\ fresh' = [i \in 0..cap-1 |-> EmptyEntry] /\ count' = 0
    BY <1>1, <1>3 DEF CheckLoad
  <2>2. capacity \in Nat /\ cap \in Nat
    BY <1>1, Grows DEF TypeOK
  <2>3. fresh' \in [0..cap-1 -> Entry] /\ Live(fresh') = {} /\ Used(fresh') = {}
        /\ WellProbed(fresh', cap)
    BY <2>1, <2>2, Blank
  <2>4. TypeOK'
    BY <1>1, <2>1, <2>3 DEF TypeOK, GrowCap
  <2>5. CountExact'
    BY <1>1, <2>1 DEF CountExact
  <2>6. Cardinality(Used(fresh')) = 0 /\ Cardinality(Live(entries) \cap 0..scan'-1) = 0
    <3>1. Live(entries) \cap 0..scan'-1 = {}
      BY <1>1
    <3>. QED  BY <3>1, <2>3, FS_EmptySet
  <2>7. \A i \in Live(entries) : ~(i < 0)
    BY <1>1, <2>2 DEF Live, TypeOK
  <2>8. Copied'
    <3>1. WellProbed(fresh', GrowCap(capacity)')
      BY <1>1, <2>3 DEF GrowCap
    <3>2. scan' <= capacity'
      BY <1>1, <2>2
    <3>3. \A i \in Live(entries') : ~(i < scan')
      BY <1>1, <2>7
    <3>4. count' = Cardinality(Used(fresh')) /\ Used(fresh') = Live(fresh')
          /\ count' <= Cardinality(Live(entries') \cap 0..scan'-1)
      <4>1. count' = 0 /\ Used(fresh') = Live(fresh') /\ entries' = entries
        BY <1>1, <2>1, <2>3
      <4>2. Cardinality(Live(entries') \cap 0..scan'-1) = 0
        BY <4>1, <2>6
      <4>. QED  BY <4>1, <4>2, <2>6
    <3>. QED  BY <2>3, <3>1, <3>2, <3>3, <3>4 DEF Copied
  <2>. QED  BY <1>1, <2>1, <2>4, <2>5, <2>8 DEF Inv
<1>. QED  BY <1>2, <1>3

(* One entry copied: a tombstone is dropped, a live entry finds an empty   *)
(* place in the new array, for its key is not there yet.                   *)
LEMMA CopyEntryInv == Inv /\ CopyEntry => Inv'
<1> SUFFICES ASSUME Inv, CopyEntry PROVE Inv'
  OBVIOUS
<1> DEFINE cap == GrowCap(capacity)
           e == entries[scan]
           s == FindEntry(fresh, cap, e.key)
<1>1. /\ TypeOK /\ CountExact /\ Copied /\ todo # <<>> /\ WellProbed(entries, capacity)
      /\ pc = "resize" /\ scan < capacity /\ scan' = scan + 1
      /\ UNCHANGED <<entries, capacity, pc, todo>>
  BY DEF Inv, CopyEntry
<1>2. /\ capacity \in Nat /\ cap \in Nat \ {0} /\ scan \in Nat /\ scan \in 0..capacity-1
      /\ entries \in [0..capacity-1 -> Entry] /\ fresh \in [0..cap-1 -> Entry] /\ e \in Entry
  <2>1. capacity \in Nat /\ scan \in Nat /\ scan \in 0..capacity-1
    BY <1>1 DEF TypeOK
  <2>2. cap \in Nat \ {0}
    BY <1>1, Grows DEF TypeOK
  <2>3. entries \in [0..capacity-1 -> Entry] /\ fresh \in [0..cap-1 -> Entry]
    BY <1>1 DEF TypeOK
  <2>. QED  BY <2>1, <2>2, <2>3
<1>3. CountExact'
  BY <1>1 DEF CountExact
<1>4. DEFINE Passed(n) == Live(entries) \cap 0..n-1
<1>5. CASE e.key = NoKey
  <2>1. UNCHANGED <<fresh, count>>
    BY <1>5 DEF CopyEntry
  <2>2. scan \notin Live(entries)
    BY <1>5 DEF Live
  <2>3. Passed(scan + 1) = Passed(scan)
    BY <1>2, <2>2
  <2>4. \A i \in Live(entries) : i < scan + 1 => i < scan
    BY <1>2, <2>2 DEF Live
  <2>5. TypeOK'
    BY <1>1, <1>2, <2>1 DEF TypeOK, GrowCap
  <2>6. Copied'
    <3>1. WellProbed(fresh', GrowCap(capacity)')
      BY <1>1, <2>1 DEF GrowCap, Copied
    <3>2. scan' <= capacity' /\ \A i \in Nat : i < scan => i < scan'
      BY <1>1, <1>2
    <3>3. DOMAIN entries \subseteq Nat
      BY <1>2
    <3>. QED  BY <1>1, <2>1, <2>3, <2>4, <3>1, <3>2, <3>3 DEF Copied
  <2>. QED  BY <1>1, <1>3, <2>5, <2>6 DEF Inv
<1>6. CASE e.key # NoKey
  <2>1. /\ Stops(fresh, cap, e.key) # {}
        /\ fresh' = [fresh EXCEPT ![s] = e] /\ count' = count + 1
    BY <1>6 DEF CopyEntry
  <2>2. e \in Pair /\ e.key \in Keys /\ scan \in Live(entries)
    BY <1>2, <1>6 DEF Entry, Pair, Live
  <2>3. WellProbed(fresh, cap) /\ Used(fresh) = Live(fresh) /\ count = Cardinality(Used(fresh))
    BY <1>1 DEF Copied
  <2>4. /\ s \in 0..cap-1 /\ fresh' \in [0..cap-1 -> Entry] /\ WellProbed(fresh', cap)
        /\ Used(fresh') = Used(fresh) \cup {s} /\ Live(fresh') = Live(fresh) \cup {s}
    <3>1. s = FindEntry(fresh, cap, e.key)
      OBVIOUS
    <3>2. fresh \in [0..cap-1 -> Entry] /\ e \in Pair /\ cap \in Nat \ {0}
      BY <1>2, <2>2
    <3>3. /\ WellProbed(fresh, cap) /\ Stops(fresh, cap, e.key) # {}
          /\ fresh' = [fresh EXCEPT ![s] = e]
      BY <2>1, <2>3
    <3> HIDE DEF s, e, cap
    <3>. QED  BY <3>1, <3>2, <3>3, Stored
  <2>5. s \notin Live(fresh)
    <3> SUFFICES ASSUME s \in Live(fresh) PROVE FALSE
      OBVIOUS
    <3>1. fresh[s].key = e.key
      <4>1. fresh[s].key \in {e.key, NoKey}
        <5>1. s = FindEntry(fresh, cap, e.key)
          OBVIOUS
        <5> HIDE DEF s, e, cap
        <5>. QED  BY <5>1, <1>2, <2>1, <2>2, <2>3, Found
      <4>. QED  BY <4>1 DEF Live
    <3>2. PICK i \in DOMAIN entries : i < scan /\ entries[i] = fresh[s]
      BY <1>1 DEF Copied
    <3>3. i \in Live(entries) /\ entries[i].key = entries[scan].key
      BY <3>1, <3>2, <1>6 DEF Live
    <3>4. i = scan
      BY <3>3, <2>2, <1>1 DEF WellProbed
    <3>. QED  BY <3>2, <3>4, <1>2
  <2> HIDE DEF s
  <2>6. IsFiniteSet(Used(fresh)) /\ Cardinality(Used(fresh)) \in Nat
    BY <1>2, SlotSetsFinite
  <2>7. count' = Cardinality(Used(fresh')) /\ count' \in Nat
    <3>1. Cardinality(Used(fresh) \cup {s}) = Cardinality(Used(fresh)) + 1
      BY <2>3, <2>5, <2>6, FS_AddElement
    <3>2. count' = Cardinality(Used(fresh)) + 1
      BY <2>1, <2>3
    <3>3. Cardinality(Used(fresh')) = Cardinality(Used(fresh)) + 1
      BY <3>1, <2>4
    <3>4. count' \in Nat
      BY <3>2, <2>6
    <3>. QED  BY <3>2, <3>3, <3>4
  <2>8. Cardinality(Passed(scan + 1)) = Cardinality(Passed(scan)) + 1
    <3>1. Passed(scan + 1) = Passed(scan) \cup {scan} /\ scan \notin Passed(scan)
      BY <1>2, <2>2
    <3>2. IsFiniteSet(Passed(scan))
      BY <1>2, SlotSetsFinite, FS_Subset
    <3>. QED  BY <3>1, <3>2, FS_AddElement
  <2>9. count <= Cardinality(Passed(scan)) /\ Cardinality(Passed(scan)) \in Nat
    <3>1. IsFiniteSet(Passed(scan))
      BY <1>2, SlotSetsFinite, FS_Subset
    <3>. QED  BY <1>1, <3>1, FS_CardinalityType DEF Copied
  <2>10. count' <= Cardinality(Passed(scan'))
    BY <1>1, <2>1, <2>3, <2>6, <2>8, <2>9
  <2>11. fresh'[s] = e /\ \A j \in 0..cap-1 : j # s => fresh'[j] = fresh[j]
    BY <1>2, <2>1, <2>4
  <2>12. \A i \in Live(entries) : i < scan' => \E j \in DOMAIN fresh' : fresh'[j] = entries[i]
    <3> SUFFICES ASSUME NEW i \in Live(entries), i < scan'
                 PROVE  \E j \in DOMAIN fresh' : fresh'[j] = entries[i]
      OBVIOUS
    <3>1. i \in 0..capacity-1 /\ entries[i].key # NoKey
      BY <1>2 DEF Live
    <3>2. CASE i = scan
      BY <3>2, <2>4, <2>11
    <3>3. CASE i < scan
      <4>1. PICK j \in DOMAIN fresh : fresh[j] = entries[i]
        BY <1>1, <3>3 DEF Copied
      <4>2. j \in Live(fresh) /\ j \in 0..cap-1
        BY <4>1, <3>1, <1>2 DEF Live
      <4>. QED  BY <4>1, <4>2, <2>5, <2>11, <2>4
    <3>. QED  BY <3>1, <3>2, <3>3, <1>1, <1>2
  <2>13. \A j \in Live(fresh') : \E i \in DOMAIN entries : i < scan' /\ entries[i] = fresh'[j]
    <3> SUFFICES ASSUME NEW j \in Live(fresh')
                 PROVE  \E i \in DOMAIN entries : i < scan' /\ entries[i] = fresh'[j]
      OBVIOUS
    <3>1. CASE j = s
      <4>1. scan \in DOMAIN entries /\ scan < scan'
        BY <1>1, <1>2
      <4>. QED  BY <3>1, <4>1, <2>11
    <3>2. CASE j # s
      <4>1. j \in Live(fresh) /\ j \in 0..cap-1
        BY <3>2, <2>4 DEF Live
      <4>2. PICK i \in DOMAIN entries : i < scan /\ entries[i] = fresh[j]
        BY <4>1, <1>1 DEF Copied
      <4>3. i < scan'
        BY <4>2, <1>1, <1>2
      <4>. QED  BY <3>2, <4>1, <4>2, <4>3, <2>11
    <3>. QED  BY <3>1, <3>2
  <2>14. TypeOK'
    BY <1>1, <1>2, <2>4, <2>7 DEF TypeOK, GrowCap
  <2>15. Copied'
    <3>1. WellProbed(fresh', GrowCap(capacity)')
      BY <1>1, <2>4 DEF GrowCap
    <3>2. scan' <= capacity'
      BY <1>1, <1>2
    <3>. QED  BY <1>1, <2>3, <2>4, <2>7, <2>10, <2>12, <2>13, <3>1, <3>2 DEF Copied
  <2>. QED  BY <1>1, <1>3, <2>14, <2>15 DEF Inv
<1>. QED  BY <1>5, <1>6

(* The live entries fill less than half of the new array's three quarters, *)
(* so the pair to be set has room.                                         *)
LEMMA InstallInv == Inv /\ InstallEntries => Inv'
<1> SUFFICES ASSUME Inv, InstallEntries PROVE Inv'
  OBVIOUS
<1> DEFINE cap == GrowCap(capacity)
<1>1. /\ TypeOK /\ CountExact /\ Copied /\ todo # <<>> /\ pc = "resize" /\ scan >= capacity
      /\ entries' = fresh /\ capacity' = cap /\ scan' = 0 /\ pc' = "insert"
      /\ UNCHANGED <<count, todo>>
  BY DEF Inv, InstallEntries
<1>2. capacity \in Nat /\ (capacity = 0 \/ capacity >= MinCap)
  BY <1>1 DEF TypeOK
<1>3. /\ cap \in Nat /\ cap >= MinCap
      /\ \A c \in Nat : 4 * c <= 3 * capacity => 4 * (c + 1) <= 3 * cap
  BY <1>2, Grows
<1>4. fresh \in [0..cap-1 -> Entry] /\ entries \in [0..capacity-1 -> Entry] /\ count \in Nat
  BY <1>1 DEF TypeOK
<1>5. count = Cardinality(Used(fresh)) /\ 4 * count <= 3 * capacity
  <2>1. IsFiniteSet(Used(entries)) /\ Live(entries) \subseteq Used(entries)
        /\ Cardinality(Used(entries)) \in Nat
    BY <1>2, <1>4, SlotSetsFinite
  <2>2. Live(entries) \cap 0..scan-1 \subseteq Used(entries)
    BY <2>1
  <2>3. /\ IsFiniteSet(Live(entries) \cap 0..scan-1)
        /\ Cardinality(Live(entries) \cap 0..scan-1) <= Cardinality(Used(entries))
    BY <2>1, <2>2, FS_Subset
  <2>4. Cardinality(Live(entries) \cap 0..scan-1) \in Nat
    BY <2>3, FS_CardinalityType
  <2>5. count = Cardinality(Used(fresh)) /\ count <= Cardinality(Live(entries) \cap 0..scan-1)
    BY <1>1 DEF Copied
  <2>6. 4 * Cardinality(Used(entries)) <= 3 * capacity
    BY <1>1 DEF CountExact
  <2>. QED  BY <2>1, <2>3, <2>4, <2>5, <2>6, <1>2, <1>4
<1>6. 4 * (count + 1) <= 3 * cap
  BY <1>3, <1>4, <1>5
<1>7. TypeOK'
  BY <1>1, <1>3, <1>4 DEF TypeOK
<1>8. CountExact'
  BY <1>1, <1>3, <1>4, <1>5, <1>6 DEF CountExact, MustGrow
<1>9. WellProbed(entries', capacity')
  BY <1>1 DEF Copied
<1>. QED  BY <1>1, <1>7, <1>8, <1>9 DEF Inv

(* The pair is stored where findEntry ends.                                *)
LEMMA InsertInv == Inv /\ Insert => Inv'
<1> SUFFICES ASSUME Inv, Insert PROVE Inv'
  OBVIOUS
<1> DEFINE pair == Head(todo)
           s == FindEntry(entries, capacity, pair.key)
<1>1. /\ TypeOK /\ CountExact /\ todo # <<>> /\ WellProbed(entries, capacity)
      /\ pc = "insert" /\ Stops(entries, capacity, pair.key) # {}
      /\ entries' = [entries EXCEPT ![s] = pair]
      /\ count' = IF IsEmpty(entries[s]) THEN count + 1 ELSE count
      /\ todo' = Tail(todo)
      /\ pc' = IF Tail(todo) = <<>> THEN "idle" ELSE "set"
      /\ UNCHANGED <<capacity, fresh, scan>>
  BY DEF Inv, Insert
<1>2. /\ capacity \in Nat /\ entries \in [0..capacity-1 -> Entry] /\ count \in Nat
      /\ todo \in Seq(Pair) /\ pair \in Pair /\ Tail(todo) \in Seq(Pair)
  BY <1>1 DEF TypeOK
<1>3. capacity \in Nat \ {0}
  BY <1>1, <1>2 DEF Stops
<1>4. /\ s \in 0..capacity-1 /\ entries' \in [0..capacity-1 -> Entry]
      /\ WellProbed(entries', capacity) /\ Used(entries') = Used(entries) \cup {s}
  <2>1. s = FindEntry(entries, capacity, pair.key)
    OBVIOUS
  <2>2. entries \in [0..capacity-1 -> Entry] /\ pair \in Pair /\ capacity \in Nat \ {0}
    BY <1>2, <1>3
  <2>3. /\ WellProbed(entries, capacity) /\ Stops(entries, capacity, pair.key) # {}
        /\ entries' = [entries EXCEPT ![s] = pair]
    BY <1>1
  <2> HIDE DEF s, pair
  <2>. QED  BY <2>1, <2>2, <2>3, Stored
<1> HIDE DEF s
<1>5. count = Cardinality(Used(entries)) /\ 4 * (count + 1) <= 3 * capacity
      /\ IsFiniteSet(Used(entries))
  <2>1. IsFiniteSet(Used(entries))
    BY <1>2, SlotSetsFinite
  <2>. QED  BY <1>1, <1>2, <2>1 DEF CountExact, MustGrow
<1>6. count' = Cardinality(Used(entries'))
  <2>1. IsEmpty(entries[s]) <=> s \notin Used(entries)
    BY <1>2, <1>4 DEF Used
  <2>. QED  BY <1>1, <1>4, <1>5, <2>1, FS_AddElement
<1>7. count' \in Nat /\ 4 * count' <= 3 * capacity
  BY <1>1, <1>2, <1>5
<1>8. TypeOK'
  BY <1>1, <1>2, <1>4, <1>7 DEF TypeOK
<1>9. CountExact'
  BY <1>1, <1>6, <1>7 DEF CountExact
<1>. QED  BY <1>1, <1>4, <1>8, <1>9 DEF Inv

(* Every step of the table preserves Inv.                                  *)
LEMMA NextInv == Inv /\ [Next]_vars => Inv'
<1> SUFFICES ASSUME Inv, [Next]_vars PROVE Inv'
  OBVIOUS
<1>1. ASSUME NEW k \in Keys, TabGet(k) \/ TabFindstr(k) PROVE Inv'
  BY <1>1, ReadInv DEF TabGet, TabFindstr
<1>2. ASSUME NEW k \in Keys, NEW v \in Values, TabSet(k, v) PROVE Inv'
  <2> DEFINE from == <<[key |-> k, value |-> v]>>
  <2>1. from \in Seq(Pair) /\ from # <<>>
    BY DEF Pair
  <2>. QED  BY <1>2, <2>1, CallInv DEF TabSet
<1>3. ASSUME NEW from \in AddInputs, TabAdd(from) PROVE Inv'
  <2>1. from \in Seq(Pair) /\ from # <<>>
    BY ConstantsAssumption
  <2>. QED  BY <1>3, <2>1, CallInv DEF TabAdd
<1>4. CASE UNCHANGED vars
  BY <1>4, ReadInv DEF vars
<1>. QED  BY <1>1, <1>2, <1>3, <1>4, RemoveInv, FreeInv, CheckLoadInv, CopyEntryInv,
             InstallInv, InsertInv DEF Next, Advance

-----------------------------------------------------------------------------
(* What Inv gives.                                                         *)

(* tab_findstr stops wherever findEntry would find an empty entry.         *)
LEMMA InvProbes == Inv => ProbeTerminates
<1> SUFFICES ASSUME Inv, NEW k \in Keys
             PROVE  /\ capacity > 0 => Stops(entries, capacity, k) # {} /\ FindstrStops(k) # {}
                    /\ pc = "resize" => Stops(fresh, GrowCap(capacity), k) # {}
  BY DEF ProbeTerminates
<1>1. /\ capacity \in Nat /\ entries \in [0..capacity-1 -> Entry]
      /\ capacity = 0 \/ capacity >= MinCap
      /\ 4 * Cardinality(Used(entries)) <= 3 * capacity
  BY DEF Inv, TypeOK, CountExact
<1>2. ASSUME capacity > 0
      PROVE  Stops(entries, capacity, k) # {} /\ FindstrStops(k) # {}
  <2>1. PICK d \in 0..capacity-1 : IsEmpty(entries[At(capacity, k, d)])
    BY <1>1, <1>2, LoadEndsProbe
  <2>2. d \in FindstrStops(k)
    BY <2>1 DEF FindstrStops, IsEmpty
  <2>. QED  BY <1>1, <1>2, <2>2, LoadEndsProbe
<1>3. ASSUME pc = "resize" PROVE Stops(fresh, GrowCap(capacity), k) # {}
  <2>1. /\ GrowCap(capacity) \in Nat /\ GrowCap(capacity) > 0 /\ GrowCap(capacity) >= 2 * capacity
    BY <1>1, Grows
  <2>2. fresh \in [0..GrowCap(capacity)-1 -> Entry]
    BY <1>3 DEF Inv, TypeOK
  <2>3. 4 * Cardinality(Used(fresh)) <= 3 * capacity
    <3>1. IsFiniteSet(Used(entries)) /\ Live(entries) \subseteq Used(entries)
          /\ Cardinality(Used(entries)) \in Nat
      BY <1>1, SlotSetsFinite
    <3>2. /\ IsFiniteSet(Live(entries) \cap 0..scan-1)
          /\ Cardinality(Live(entries) \cap 0..scan-1) <= Cardinality(Used(entries))
      BY <3>1, FS_Subset
    <3>3. Cardinality(Live(entries) \cap 0..scan-1) \in Nat
      BY <3>2, FS_CardinalityType
    <3>4. Cardinality(Used(fresh)) <= Cardinality(Live(entries) \cap 0..scan-1)
      BY <1>3 DEF Inv, Copied
    <3>5. Cardinality(Used(fresh)) \in Nat
      BY <2>1, <2>2, SlotSetsFinite
    <3>. QED  BY <1>1, <3>1, <3>2, <3>3, <3>4, <3>5
  <2>4. Cardinality(Used(fresh)) \in Nat
    BY <2>1, <2>2, SlotSetsFinite
  <2>5. 4 * Cardinality(Used(fresh)) <= 3 * GrowCap(capacity)
    BY <1>1, <2>1, <2>3, <2>4
  <2>. QED  BY <2>1, <2>2, <2>5, LoadEndsProbe
<1>. QED  BY <1>2, <1>3

(* The state is always as described: types, probes, count, copied part.    *)
THEOREM TableInvariant == Spec => []Inv
<1>. QED  BY InitInv, NextInv, PTL DEF Spec

(* The table's fields have their types in every reachable state.           *)
THEOREM TableTypeOK == Spec => []TypeOK
<1>1. Inv => TypeOK
  BY DEF Inv
<1>. QED  BY <1>1, TableInvariant, PTL

(* count is the number of entries in use, and a quarter stays empty.       *)
THEOREM TableCountExact == Spec => []CountExact
<1>1. Inv => CountExact
  BY DEF Inv
<1>. QED  BY <1>1, TableInvariant, PTL

(* No lookup, removal, insertion or copy probes for ever.                  *)
THEOREM TableProbeTerminates == Spec => []ProbeTerminates
<1>. QED  BY InvProbes, TableInvariant, PTL

-----------------------------------------------------------------------------
(* The table implements the dictionary.                                    *)

(* What the dictionary of an array holds, for a key with an entry and for  *)
(* one without.                                                            *)
LEMMA ContentsAt ==
  ASSUME NEW cap \in Nat, NEW es \in [0..cap-1 -> Entry], WellProbed(es, cap),
         NEW i \in 0..cap-1, es[i].key \in Keys
  PROVE  ContentsOf(es)[es[i].key] = es[i].value /\ es[i].value # Absent
<1> DEFINE k == es[i].key
           c == CHOOSE j \in DOMAIN es : es[j].key = k
<1>1. c \in DOMAIN es /\ es[c].key = k
  OBVIOUS
<1>2. c \in Live(es) /\ i \in Live(es)
  BY <1>1, ConstantsAssumption DEF Live
<1>3. c = i
  BY <1>1, <1>2 DEF WellProbed
<1>4. ContentsOf(es)[k] = es[c].value
  BY <1>1 DEF ContentsOf
<1>5. es[i].value # Absent
  BY ConstantsAssumption DEF Entry
<1>. QED  BY <1>3, <1>4, <1>5

LEMMA ContentsMissing ==
  ASSUME NEW cap \in Nat, NEW es \in [0..cap-1 -> Entry], NEW k \in Keys,
         \A i \in 0..cap-1 : es[i].key # k
  PROVE  ContentsOf(es)[k] = Absent
BY DEF ContentsOf

(* A table that counts nothing holds nothing.                              *)
LEMMA CountZero ==
  ASSUME Inv, pc # "resize", count = 0
  PROVE  \A i \in 0..capacity-1 : entries[i].key = NoKey
<1>1. capacity \in Nat /\ entries \in [0..capacity-1 -> Entry] /\ Cardinality(Used(entries)) = 0
  BY DEF Inv, TypeOK, CountExact
<1>2. IsFiniteSet(Used(entries)) /\ Live(entries) \subseteq Used(entries)
  BY <1>1, SlotSetsFinite
<1>3. Used(entries) = {}
  BY <1>1, <1>2, FS_EmptySet
<1>. QED  BY <1>1, <1>2, <1>3 DEF Live

(* What tab_get and tab_remove find is what the dictionary holds.          *)
LEMMA LookupHeld ==
  ASSUME Inv, Idle, NEW k \in Keys, CanProbe(k)
  PROVE  \/ Lookup(k).key = NoKey /\ Contents[k] = Absent
         \/ /\ Lookup(k).key = k /\ Contents[k] = Lookup(k).value /\ Contents[k] # Absent
            /\ capacity \in Nat \ {0} /\ FindEntry(entries, capacity, k) \in 0..capacity-1
            /\ Lookup(k) = entries[FindEntry(entries, capacity, k)]
<1>1. /\ capacity \in Nat /\ entries \in [0..capacity-1 -> Entry]
      /\ WellProbed(entries, capacity) /\ pc = "idle"
  BY DEF Inv, TypeOK, Idle
<1>2. CASE count = 0
  <2>1. \A i \in 0..capacity-1 : entries[i].key # k
    BY <1>1, <1>2, CountZero, ConstantsAssumption
  <2>. QED  BY <1>1, <1>2, <2>1, ContentsMissing DEF Lookup, EmptyEntry, Contents
<1>3. CASE count # 0
  <2> DEFINE s == FindEntry(entries, capacity, k)
  <2>1. Stops(entries, capacity, k) # {} /\ Lookup(k) = entries[s]
    BY <1>3 DEF CanProbe, Lookup
  <2>2. capacity \in Nat \ {0}
    BY <1>1, <2>1 DEF Stops
  <2>3. /\ s \in 0..capacity-1
        /\ entries[s].key \in {k, NoKey}
        /\ \A i \in 0..capacity-1 : entries[i].key = k => entries[s].key = k
    BY <1>1, <2>1, <2>2, Found
  <2> HIDE DEF s
  <2>4. CASE entries[s].key = NoKey
    <3>1. \A i \in 0..capacity-1 : entries[i].key # k
      BY <2>3, <2>4, ConstantsAssumption
    <3>. QED  BY <1>1, <2>1, <2>4, <3>1, ContentsMissing DEF Contents
  <2>5. CASE entries[s].key = k
    <3>1. Contents[k] = entries[s].value /\ entries[s].value # Absent
      BY <1>1, <2>3, <2>5, ContentsAt DEF Contents
    <3>. QED  BY <2>1, <2>2, <2>3, <2>5, <3>1 DEF s
  <2>. QED  BY <2>3, <2>4, <2>5
<1>. QED  BY <1>2, <1>3

(* Storing a pair is Set; a tombstone is Remove.                           *)
LEMMA ContentsStored ==
  ASSUME NEW cap \in Nat \ {0}, NEW es \in [0..cap-1 -> Entry], NEW pair \in Pair,
         WellProbed(es, cap), Stops(es, cap, pair.key) # {}
  PROVE  LET s == FindEntry(es, cap, pair.key)
             new == [es EXCEPT ![s] = pair]
         IN
         /\ ContentsOf(new) = [ContentsOf(es) EXCEPT ![pair.key] = pair.value]
         /\ es[s].key = NoKey <=> ContentsOf(es)[pair.key] = Absent
<1> DEFINE k == pair.key
           s == FindEntry(es, cap, k)
           new == [es EXCEPT ![s] = pair]
<1>1. k \in Keys /\ pair \in Entry /\ NoKey \notin Keys
  BY ConstantsAssumption DEF Pair, Entry
<1>2. /\ s \in 0..cap-1 /\ es[s].key \in {k, NoKey}
      /\ \A i \in 0..cap-1 : es[i].key = k => es[s].key = k
  BY <1>1, Found
<1>3. new \in [0..cap-1 -> Entry] /\ WellProbed(new, cap)
  BY Stored
<1> HIDE DEF s
<1>4. new[s] = pair /\ \A i \in 0..cap-1 : i # s => new[i] = es[i]
  BY <1>2
<1> HIDE DEF new, k
<1>5. ContentsOf(new)[k] = pair.value
  BY <1>1, <1>2, <1>3, <1>4, ContentsAt DEF k
<1>6. ASSUME NEW x \in Keys, x # k
      PROVE  ContentsOf(new)[x] = ContentsOf(es)[x]
  <2>1. CASE \E i \in 0..cap-1 : es[i].key = x
    <3>1. PICK i \in 0..cap-1 : es[i].key = x
      BY <2>1
    <3>2. new[i] = es[i]
      BY <3>1, <1>1, <1>2, <1>4, <1>6
    <3>. QED  BY <3>1, <3>2, <1>3, ContentsAt
  <2>2. CASE ~\E i \in 0..cap-1 : es[i].key = x
    <3>1. \A i \in 0..cap-1 : new[i].key # x
      BY <2>2, <1>4, <1>6, <1>1, <1>2 DEF k
    <3>. QED  BY <3>1, <2>2, <1>3, ContentsMissing
  <2>. QED  BY <2>1, <2>2
<1>7. /\ ContentsOf(new) = [x \in Keys |-> ContentsOf(new)[x]]
      /\ ContentsOf(es) = [x \in Keys |-> ContentsOf(es)[x]]
  BY DEF ContentsOf
<1>8. ContentsOf(new) = [ContentsOf(es) EXCEPT ![k] = pair.value]
  BY <1>1, <1>5, <1>6, <1>7
<1>9. es[s].key = NoKey <=> ContentsOf(es)[k] = Absent
  <2>1. CASE es[s].key = NoKey
    <3>1. \A i \in 0..cap-1 : es[i].key # k
      BY <1>1, <1>2, <2>1
    <3>. QED  BY <3>1, <2>1, <1>1, ContentsMissing
  <2>2. CASE es[s].key = k
    <3>1. ContentsOf(es)[k] # Absent
      BY <1>1, <1>2, <2>2, ContentsAt
    <3>. QED  BY <3>1, <2>2, <1>1
  <2>. QED  BY <1>2, <2>1, <2>2
<1>. QED  BY <1>8, <1>9 DEF s, new, k

LEMMA ContentsRemoved ==
  ASSUME NEW cap \in Nat \ {0}, NEW es \in [0..cap-1 -> Entry], WellProbed(es, cap),
         NEW s \in 0..cap-1, es[s].key \in Keys
  PROVE  ContentsOf([es EXCEPT ![s] = [key |-> NoKey, value |-> True]])
           = [ContentsOf(es) EXCEPT ![es[s].key] = Absent]
<1> DEFINE k == es[s].key
           new == [es EXCEPT ![s] = [key |-> NoKey, value |-> True]]
<1>1. NoKey \notin Keys
  BY ConstantsAssumption
<1>2. s \in Live(es)
  BY <1>1 DEF Live
<1>3. new \in [0..cap-1 -> Entry] /\ WellProbed(new, cap)
  BY <1>2, Removed
<1>4. new[s].key = NoKey /\ \A i \in 0..cap-1 : i # s => new[i] = es[i]
  OBVIOUS
<1> HIDE DEF new
<1>5. ContentsOf(new)[k] = Absent
  <2>1. \A i \in 0..cap-1 : new[i].key # k
    BY <1>1, <1>2, <1>4 DEF WellProbed, Live
  <2>. QED  BY <2>1, <1>3, ContentsMissing
<1>6. ASSUME NEW x \in Keys, x # k
      PROVE  ContentsOf(new)[x] = ContentsOf(es)[x]
  <2>1. CASE \E i \in 0..cap-1 : es[i].key = x
    <3>1. PICK i \in 0..cap-1 : es[i].key = x
      BY <2>1
    <3>2. new[i] = es[i]
      BY <3>1, <1>4, <1>6
    <3>. QED  BY <3>1, <3>2, <1>3, ContentsAt
  <2>2. CASE ~\E i \in 0..cap-1 : es[i].key = x
    <3>1. \A i \in 0..cap-1 : new[i].key # x
      BY <2>2, <1>4, <1>1
    <3>2. ContentsOf(new)[x] = Absent
      BY <3>1, <1>3, ContentsMissing
    <3>3. ContentsOf(es)[x] = Absent
      BY <2>2, ContentsMissing
    <3>. QED  BY <3>2, <3>3
  <2>. QED  BY <2>1, <2>2
<1>7. /\ ContentsOf(new) = [x \in Keys |-> ContentsOf(new)[x]]
      /\ ContentsOf(es) = [x \in Keys |-> ContentsOf(es)[x]]
  BY DEF ContentsOf
<1>. QED  BY <1>5, <1>6, <1>7 DEF new

(* The array installed holds what the old one holds.                       *)
LEMMA ContentsCopied ==
  ASSUME Inv, pc = "resize", scan >= capacity
  PROVE  ContentsOf(fresh) = ContentsOf(entries)
<1> DEFINE cap == GrowCap(capacity)
<1>1. /\ capacity \in Nat /\ entries \in [0..capacity-1 -> Entry]
      /\ WellProbed(entries, capacity) /\ NoKey \notin Keys
  BY ConstantsAssumption DEF Inv, TypeOK
<1>2. cap \in Nat /\ fresh \in [0..cap-1 -> Entry] /\ WellProbed(fresh, cap)
  <2>1. cap \in Nat
    BY Grows DEF Inv, TypeOK
  <2>2. fresh \in [0..cap-1 -> Entry]
    BY DEF Inv, TypeOK
  <2>. QED  BY <2>1, <2>2 DEF Inv, Copied
<1>3. /\ \A i \in Live(entries) : i < scan => \E j \in DOMAIN fresh : fresh[j] = entries[i]
      /\ \A j \in Live(fresh) : \E i \in DOMAIN entries : i < scan /\ entries[i] = fresh[j]
      /\ scan \in Nat
  BY DEF Inv, Copied, TypeOK
<1> HIDE DEF cap
<1>4. ASSUME NEW x \in Keys
      PROVE  ContentsOf(fresh)[x] = ContentsOf(entries)[x]
  <2>1. CASE \E i \in 0..capacity-1 : entries[i].key = x
    <3>1. PICK i \in 0..capacity-1 : entries[i].key = x
      BY <2>1
    <3>2. i \in Live(entries) /\ i < scan
      BY <3>1, <1>1, <1>3 DEF Live
    <3>3. PICK j \in 0..cap-1 : fresh[j] = entries[i]
      BY <3>2, <1>2, <1>3
    <3>4. ContentsOf(entries)[x] = entries[i].value
      BY <3>1, <1>1, ContentsAt
    <3>5. ContentsOf(fresh)[x] = fresh[j].value
      BY <3>1, <3>3, <1>2, ContentsAt
    <3>. QED  BY <3>3, <3>4, <3>5
  <2>2. CASE ~\E i \in 0..capacity-1 : entries[i].key = x
    <3>1. ASSUME NEW j \in 0..cap-1, fresh[j].key = x PROVE FALSE
      <4>1. j \in Live(fresh)
        BY <3>1, <1>1, <1>2 DEF Live
      <4>2. PICK i \in 0..capacity-1 : entries[i] = fresh[j]
        BY <4>1, <1>1, <1>3
      <4>. QED  BY <4>2, <3>1, <2>2
    <3>. QED  BY <3>1, <2>2, <1>1, <1>2, ContentsMissing
  <2>. QED  BY <2>1, <2>2
<1>5. /\ ContentsOf(fresh) = [x \in Keys |-> ContentsOf(fresh)[x]]
      /\ ContentsOf(entries) = [x \in Keys |-> ContentsOf(entries)[x]]
  BY DEF ContentsOf
<1>. QED  BY <1>4, <1>5

(* tab_findstr finds a held key that agrees in length and hash, if any.    *)
LEMMA FindstrHeld ==
  ASSUME Inv, NEW k \in Keys, TabFindstr(k)
  PROVE  D!Findstr(k)
<1>1. /\ capacity \in Nat /\ entries \in [0..capacity-1 -> Entry]
      /\ WellProbed(entries, capacity) /\ pc = "idle" /\ NoKey \notin Keys
  BY ConstantsAssumption DEF Inv, TypeOK, TabFindstr, Idle
<1>2. UNCHANGED Contents
  BY DEF TabFindstr, Contents, ContentsOf
<1> DEFINE twins == {x \in D!Held : SameText(x, k)}
<1>3. CASE count = 0
  <2>1. \A x \in Keys : Contents[x] = Absent
    BY <1>1, <1>3, CountZero, ContentsMissing DEF Contents
  <2>2. twins = {}
    BY <2>1 DEF D!Held
  <2>3. ret' = Answer("findstr", k, FALSE, Null)
    BY <1>3 DEF TabFindstr
  <2>. QED  BY <1>2, <2>2, <2>3 DEF D!Findstr, D!Answer, Answer
<1>4. CASE count # 0
  <2> DEFINE last  == Least(FindstrStops(k))
             found == entries[At(capacity, k, last)].key
  <2>1. FindstrStops(k) # {}
    BY <1>4 DEF TabFindstr
  <2>2. FindstrStops(k) \in SUBSET Nat
    BY DEF FindstrStops
  <2>3. last \in FindstrStops(k) /\ \A e \in FindstrStops(k) : last <= e
    BY <2>1, <2>2, LeastIsLeast
  <2>4. capacity \in Nat \ {0} /\ last \in 0..capacity-1 /\ last \in Nat
    BY <1>1, <2>1, <2>3 DEF FindstrStops
  <2>5. ret' = IF found = NoKey THEN Answer("findstr", k, FALSE, Null)
                                ELSE Answer("findstr", k, TRUE, found)
    BY <1>4 DEF TabFindstr
  <2> HIDE DEF last
  <2>6. At(capacity, k, last) \in 0..capacity-1
    BY <2>4, AtInRange
  <2>7. IF found = NoKey THEN entries[At(capacity, k, last)].value = Null
                         ELSE SameText(found, k)
    BY <2>3 DEF FindstrStops
  <2>8. CASE found # NoKey
    <3>1. found \in Keys
      BY <1>1, <2>6, <2>8 DEF Entry
    <3>2. Contents[found] # Absent
      BY <1>1, <2>6, <3>1, ContentsAt DEF Contents
    <3>3. found \in twins
      BY <2>7, <2>8, <3>1, <3>2 DEF D!Held
    <3>. QED  BY <1>2, <2>5, <2>8, <3>3 DEF D!Findstr, D!Answer, Answer
  <2>9. CASE found = NoKey
    <3>1. ASSUME NEW x \in twins PROVE FALSE
      <4>1. x \in Keys /\ Contents[x] # Absent /\ SameText(x, k)
        BY <3>1 DEF D!Held
      <4>2. PICK i \in 0..capacity-1 : entries[i].key = x
        BY <1>1, <4>1, ContentsMissing DEF Contents
      <4>3. i \in Live(entries)
        BY <1>1, <4>1, <4>2 DEF Live
      <4>4. PICK d \in 0..capacity-1 :
              At(capacity, x, d) = i /\ \A e \in 0..d-1 : ~IsEmpty(entries[At(capacity, x, e)])
        BY <4>2, <4>3 DEF WellProbed, Inv
      <4>5. Hash[x] = Hash[k]
        BY <4>1 DEF SameText
      <4>6. At(capacity, k, d) = i /\ \A e \in 0..d-1 : ~IsEmpty(entries[At(capacity, k, e)])
        BY <4>4, <4>5 DEF At
      <4>7. d \in FindstrStops(k)
        BY <1>1, <4>1, <4>2, <4>6 DEF FindstrStops
      <4>8. last <= d
        BY <2>3, <4>7
      <4>9. IsEmpty(entries[At(capacity, k, last)])
        BY <2>7, <2>9 DEF IsEmpty
      <4>10. last = d
        BY <2>4, <4>6, <4>8, <4>9
      <4>. QED  BY <4>1, <4>2, <4>6, <4>10, <2>9, <1>1
    <3>2. twins = {}
      BY <3>1
    <3>. QED  BY <1>2, <2>5, <2>9, <3>2 DEF D!Findstr, D!Answer, Answer
  <2>. QED  BY <2>8, <2>9
<1>. QED  BY <1>3, <1>4

(* Every step of the table is a call of the dictionary, or none.           *)
LEMMA StepRefines == Inv /\ [Next]_vars => [D!Next]_(D!vars)
<1> SUFFICES ASSUME Inv, [Next]_vars PROVE [D!Next]_(D!vars)
  OBVIOUS
<1> USE DEF D!vars
<1>1. ASSUME NEW k \in Keys, TabGet(k) PROVE D!Get(k)
  <2>1. UNCHANGED Contents
    BY <1>1 DEF TabGet, Contents, ContentsOf
  <2>2. Idle /\ CanProbe(k)
        /\ ret' = IF Lookup(k).key = NoKey THEN Answer("get", k, FALSE, Null)
                                            ELSE Answer("get", k, TRUE, Lookup(k).value)
    BY <1>1 DEF TabGet
  <2>3. CASE Lookup(k).key = NoKey
    <3>1. Contents[k] = Absent
      BY <2>2, <2>3, LookupHeld, ConstantsAssumption
    <3>. QED  BY <2>1, <2>2, <2>3, <3>1 DEF D!Get, D!Held, D!Answer, Answer
  <2>4. CASE Lookup(k).key # NoKey
    <3>1. Contents[k] = Lookup(k).value /\ Contents[k] # Absent
      BY <2>2, <2>4, LookupHeld
    <3>. QED  BY <2>1, <2>2, <2>4, <3>1 DEF D!Get, D!Held, D!Answer, Answer
  <2>. QED  BY <2>3, <2>4
<1>2. ASSUME NEW k \in Keys, TabRemove(k) PROVE D!Remove(k)
  <2>1. Idle /\ CanProbe(k)
    BY <1>2 DEF TabRemove
  <2>2. CASE Lookup(k).key = NoKey
    <3>1. Contents[k] = Absent
      BY <2>1, <2>2, LookupHeld, ConstantsAssumption
    <3>2. UNCHANGED Contents /\ ret' = Answer("remove", k, FALSE, Null)
      BY <1>2, <2>2 DEF TabRemove, Contents, ContentsOf
    <3>3. Contents = [Contents EXCEPT ![k] = Absent]
      BY <3>1 DEF Contents, ContentsOf
    <3>4. (k \in D!Held) = FALSE
      BY <3>1 DEF D!Held
    <3>. QED  BY <3>2, <3>3, <3>4 DEF D!Remove, D!Answer, Answer
  <2>3. CASE Lookup(k).key # NoKey
    <3> DEFINE s == FindEntry(entries, capacity, k)
    <3>1. /\ Lookup(k).key = k /\ Contents[k] # Absent
          /\ capacity \in Nat \ {0} /\ s \in 0..capacity-1 /\ Lookup(k) = entries[s]
      BY <2>1, <2>3, LookupHeld
    <3>2. /\ entries' = [entries EXCEPT ![s] = [key |-> NoKey, value |-> True]]
          /\ ret' = Answer("remove", k, TRUE, Null)
      BY <1>2, <2>3 DEF TabRemove
    <3>3. entries \in [0..capacity-1 -> Entry] /\ WellProbed(entries, capacity)
      BY DEF Inv, TypeOK
    <3> HIDE DEF s
    <3>4. ContentsOf(entries') = [ContentsOf(entries) EXCEPT ![k] = Absent]
      <4>1. entries[s].key = k /\ s \in 0..capacity-1 /\ capacity \in Nat \ {0}
        BY <3>1
      <4>2. ContentsOf([entries EXCEPT ![s] = [key |-> NoKey, value |-> True]])
              = [ContentsOf(entries) EXCEPT ![entries[s].key] = Absent]
        BY <3>3, <4>1, ContentsRemoved
      <4>. QED  BY <3>2, <4>1, <4>2
    <3>5. Contents' = [Contents EXCEPT ![k] = Absent]
      BY <3>4 DEF Contents, ContentsOf
    <3>6. (k \in D!Held) = TRUE
      BY <3>1 DEF D!Held
    <3>. QED  BY <3>2, <3>5, <3>6 DEF D!Remove, D!Answer, Answer
  <2>. QED  BY <2>2, <2>3
<1>3. CASE TabFree
  <2>1. entries' = <<>> /\ ret' = Answer("free", Null, FALSE, Null)
    BY <1>3 DEF TabFree
  <2>2. Contents' = [k \in Keys |-> Absent]
    BY <2>1 DEF Contents, ContentsOf
  <2>. QED  BY <2>1, <2>2 DEF D!Clear, D!Next, D!Answer, Answer
<1>4. CASE Insert
  <2> DEFINE pair == Head(todo)
             s == FindEntry(entries, capacity, pair.key)
  <2>1. /\ pc = "insert" /\ Stops(entries, capacity, pair.key) # {}
        /\ entries' = [entries EXCEPT ![s] = pair]
        /\ ret' = Answer("set", pair.key, entries[s].key = NoKey, Null)
    BY <1>4 DEF Insert
  <2>2. /\ capacity \in Nat /\ entries \in [0..capacity-1 -> Entry]
        /\ WellProbed(entries, capacity) /\ todo \in Seq(Pair) /\ todo # <<>>
    BY <2>1 DEF Inv, TypeOK
  <2>3. pair \in Pair /\ pair.key \in Keys /\ pair.value \in Values
    <3>1. pair \in Pair
      BY <2>2
    <3> HIDE DEF pair
    <3>. QED  BY <3>1 DEF Pair
  <2>4. capacity \in Nat \ {0}
    BY <2>1, <2>2 DEF Stops
  <2>5. /\ ContentsOf(entries') = [ContentsOf(entries) EXCEPT ![pair.key] = pair.value]
        /\ entries[s].key = NoKey <=> ContentsOf(entries)[pair.key] = Absent
    <3>1. ContentsOf([entries EXCEPT ![s] = pair])
            = [ContentsOf(entries) EXCEPT ![pair.key] = pair.value]
      <4> HIDE DEF pair
      <4>. QED  BY <2>1, <2>2, <2>3, <2>4, ContentsStored
    <3>2. entries[s].key = NoKey <=> ContentsOf(entries)[pair.key] = Absent
      <4> HIDE DEF pair
      <4>. QED  BY <2>1, <2>2, <2>3, <2>4, ContentsStored
    <3>. QED  BY <2>1, <3>1, <3>2
  <2>6. D!Set(pair.key, pair.value)
    <3>1. Contents' = ContentsOf(entries') /\ Contents = ContentsOf(entries)
      BY DEF Contents, ContentsOf
    <3> HIDE DEF pair, s
    <3>. QED  BY <2>1, <2>3, <2>5, <3>1 DEF D!Set, D!Held, D!Answer, Answer
  <2>. QED  BY <2>3, <2>6 DEF D!Next
<1>5. CASE InstallEntries
  <2>1. /\ pc = "resize" /\ scan >= capacity /\ entries' = fresh /\ UNCHANGED ret
    BY <1>5 DEF InstallEntries
  <2>2. UNCHANGED Contents
    BY <2>1, ContentsCopied DEF Contents, ContentsOf
  <2>. QED  BY <2>1, <2>2
<1>6. ASSUME UNCHANGED <<entries, ret>> PROVE UNCHANGED D!vars
  BY <1>6 DEF Contents, ContentsOf
<1>7. CASE CheckLoad \/ CopyEntry
  BY <1>6, <1>7 DEF CheckLoad, CopyEntry
<1>8. ASSUME NEW k \in Keys, NEW v \in Values, TabSet(k, v) PROVE UNCHANGED D!vars
  BY <1>6, <1>8 DEF TabSet
<1>9. ASSUME NEW from \in AddInputs, TabAdd(from) PROVE UNCHANGED D!vars
  BY <1>6, <1>9 DEF TabAdd
<1>10. CASE UNCHANGED vars
  BY <1>6, <1>10 DEF vars
<1>. QED  BY <1>1, <1>2, <1>3, <1>4, <1>5, <1>7, <1>8, <1>9, <1>10, FindstrHeld
          DEF Next, Advance, D!Next

(* tab_init's table is the empty dictionary.                               *)
LEMMA InitRefines == Init => D!Init
<1> SUFFICES ASSUME Init PROVE D!Init
  OBVIOUS
<1>1. Contents = [k \in Keys |-> Absent]
  BY DEF Init, Contents, ContentsOf
<1>. QED  BY <1>1 DEF Init, D!Init, D!Answer, Answer

(* Whatever collides, is removed or grows in between, every call answers   *)
(* as a dictionary would, for every set of keys and every hash.            *)
THEOREM TableIsDict == Spec => DictSpec
<1>. QED  BY InitRefines, StepRefines, TableInvariant, PTL DEF Spec, DictSpec, D!Spec
=============================================================================
