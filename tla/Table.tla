-------------------------------- MODULE Table --------------------------------
(***************************************************************************)
(* The hash table of table.c: open addressing with linear probing, a       *)
(* tombstone left where a key is removed, and an array that doubles when   *)
(* the entries in use, tombstones included, would exceed three quarters of *)
(* it.  The globals, the interned strings and the named fields of every    *)
(* map are such tables.                                                    *)
(*                                                                         *)
(* A lookup or a removal is one step.  tab_set is several, because         *)
(* adjustCapacity moves the entries one at a time: TabSet (or TabAdd)      *)
(* records the call, CheckLoad decides whether to grow, CopyEntry is one   *)
(* iteration of the copying loop, InstallEntries swaps the arrays and      *)
(* Insert stores the pair and returns.  A probe that would never reach an  *)
(* empty or matching entry is the loop of findEntry not ending: the step   *)
(* that needs it is then disabled.                                         *)
(***************************************************************************)
EXTENDS Integers, FiniteSets, Sequences

CONSTANTS
  Keys,      \* the strings used as keys (compared by pointer)
  Hash,      \* key->hash of each key
  Length,    \* key->length of each key
  Values,    \* the values stored
  Null,      \* VAL_NULL
  True,      \* VAL_TRUE, the value that marks a tombstone
  NoKey,     \* the NULL key of an empty entry or a tombstone
  Absent,    \* marks a missing key in the abstract dictionary
  MinCap,    \* the capacity GROW_CAP starts from (8 in common.h)
  AddInputs  \* contents of the tables tab_add may copy from, in slot order

Pair == [key : Keys, value : Values]

ASSUME ConstantsAssumption ==
  /\ NoKey \notin Keys
  /\ Null \in Values /\ True \in Values /\ Null # True
  /\ Absent \notin Values
  /\ Hash \in [Keys -> Nat]
  /\ Length \in [Keys -> Nat]
  /\ MinCap \in Nat /\ MinCap >= 2
  /\ AddInputs \subseteq Seq(Pair) \ {<<>>}

VARIABLES
  entries,   \* table->entries, indexed 0 .. capacity - 1
  capacity,  \* table->capacity
  count,     \* table->count: entries in use, tombstones included
  pc,        \* where the current tab_set is: see the header
  todo,      \* the pairs still to be set by the call in progress
  fresh,     \* the new array adjustCapacity is filling
  scan,      \* its loop index over the old array
  ret        \* the last completed call and its result

vars == <<entries, capacity, count, pc, todo, fresh, scan, ret>>

Entry == [key : Keys \cup {NoKey}, value : Values]

EmptyEntry == [key |-> NoKey, value |-> Null]
IsEmpty(e) == e.key = NoKey /\ e.value = Null
IsTombstone(e) == e.key = NoKey /\ e.value # Null

Live(es) == {i \in DOMAIN es : es[i].key # NoKey}
Used(es) == {i \in DOMAIN es : ~IsEmpty(es[i])}

(***************************************************************************)
(* Probing.  The d-th entry a probe for key looks at in an array of cap    *)
(* entries, the distances at which it may stop, and where findEntry ends.  *)
(***************************************************************************)
At(cap, key, d) == (Hash[key] + d) % cap

Stops(es, cap, key) ==
  {d \in 0..cap-1 : IsEmpty(es[At(cap, key, d)]) \/ es[At(cap, key, d)].key = key}

Least(S) == CHOOSE d \in S : \A e \in S : d <= e

(* Fault: take the first tombstone without probing on for the key.         *)
FindEntryEager(es, cap, key) ==
  At(cap, key, Least({d \in 0..cap-1 : \/ es[At(cap, key, d)].key \in {NoKey, key}}))

FindEntry(es, cap, key) ==
  LET last  == Least(Stops(es, cap, key))
      tombs == {d \in 0..last-1 : IsTombstone(es[At(cap, key, d)])}
  IN IF es[At(cap, key, last)].key # key /\ tombs # {}
     THEN At(cap, key, Least(tombs))
     ELSE At(cap, key, last)

GrowCap(cap) == IF cap < MinCap THEN MinCap ELSE 2 * cap

Answer(op, key, ok, value) == [op |-> op, key |-> key, ok |-> ok, value |-> value]

-----------------------------------------------------------------------------
Init ==
  /\ entries = <<>>
  /\ capacity = 0
  /\ count = 0
  /\ pc = "idle"
  /\ todo = <<>>
  /\ fresh = <<>>
  /\ scan = 0
  /\ ret = Answer("none", Null, FALSE, Null)

Idle == pc = "idle"

(* The entry of key, when the table has been given any: tab_get and        *)
(* tab_remove return early when count is 0.                                *)
Lookup(key) ==
  IF count = 0 THEN EmptyEntry ELSE entries[FindEntry(entries, capacity, key)]

CanProbe(key) == count = 0 \/ Stops(entries, capacity, key) # {}

TabGet(key) ==
  /\ Idle /\ CanProbe(key)
  /\ LET e == Lookup(key) IN
     ret' = IF e.key = NoKey THEN Answer("get", key, FALSE, Null)
                             ELSE Answer("get", key, TRUE, e.value)
  /\ UNCHANGED <<entries, capacity, count, pc, todo, fresh, scan>>

(* Fault: give the removed entry back to the count.                        *)
TabRemoveUncounted(key) ==
  /\ Idle /\ CanProbe(key)
  /\ IF Lookup(key).key = NoKey
     THEN ret' = Answer("remove", key, FALSE, Null) /\ UNCHANGED <<entries, count>>
     ELSE /\ entries' = [entries EXCEPT ![FindEntry(entries, capacity, key)] =
                                          [key |-> NoKey, value |-> True]]
          /\ count' = count - 1
          /\ ret' = Answer("remove", key, TRUE, Null)
  /\ UNCHANGED <<capacity, pc, todo, fresh, scan>>

(* Fault: leave an empty entry, not a tombstone.                           *)
TabRemoveToEmpty(key) ==
  /\ Idle /\ CanProbe(key)
  /\ IF Lookup(key).key = NoKey
     THEN ret' = Answer("remove", key, FALSE, Null) /\ UNCHANGED entries
     ELSE /\ entries' = [entries EXCEPT ![FindEntry(entries, capacity, key)] = EmptyEntry]
          /\ ret' = Answer("remove", key, TRUE, Null)
  /\ UNCHANGED <<capacity, count, pc, todo, fresh, scan>>

(* A removed key leaves a tombstone, which count goes on counting.         *)
TabRemove(key) ==
  /\ Idle /\ CanProbe(key)
  /\ IF Lookup(key).key = NoKey
     THEN ret' = Answer("remove", key, FALSE, Null) /\ UNCHANGED entries
     ELSE /\ entries' = [entries EXCEPT ![FindEntry(entries, capacity, key)] =
                                          [key |-> NoKey, value |-> True]]
          /\ ret' = Answer("remove", key, TRUE, Null)
  /\ UNCHANGED <<capacity, count, pc, todo, fresh, scan>>

(* tab_findstr compares length and hash, not characters, and has a probe   *)
(* of its own that walks over tombstones.                                  *)
SameText(a, b) == Length[a] = Length[b] /\ Hash[a] = Hash[b]

FindstrStops(key) ==
  {d \in 0..capacity-1 :
     LET e == entries[At(capacity, key, d)] IN
     IF e.key = NoKey THEN e.value = Null ELSE SameText(e.key, key)}

TabFindstr(key) ==
  /\ Idle /\ (count = 0 \/ FindstrStops(key) # {})
  /\ LET found == IF count = 0 THEN NoKey
                  ELSE entries[At(capacity, key, Least(FindstrStops(key)))].key
     IN ret' = IF found = NoKey THEN Answer("findstr", key, FALSE, Null)
                                ELSE Answer("findstr", key, TRUE, found)
  /\ UNCHANGED <<entries, capacity, count, pc, todo, fresh, scan>>

(* tab_free gives the array back and leaves the table as tab_init does.    *)
TabFree ==
  /\ Idle
  /\ entries' = <<>> /\ capacity' = 0 /\ count' = 0
  /\ ret' = Answer("free", Null, FALSE, Null)
  /\ UNCHANGED <<pc, todo, fresh, scan>>

(* tab_set, and tab_add which calls it for each live entry of a table.     *)
TabSet(key, value) ==
  /\ Idle
  /\ todo' = <<[key |-> key, value |-> value]>>
  /\ pc' = "set"
  /\ UNCHANGED <<entries, capacity, count, fresh, scan, ret>>

TabAdd(from) ==
  /\ Idle
  /\ todo' = from
  /\ pc' = "set"
  /\ UNCHANGED <<entries, capacity, count, fresh, scan, ret>>

(* Fault: a load of 1, growing only when no entry is left.                 *)
MustGrowFull == count + 1 > capacity

(* TABLE_MAX_LOAD is 0.75: grow when count + 1 > capacity * 0.75.          *)
MustGrow == 4 * (count + 1) > 3 * capacity

CheckLoad ==
  /\ pc = "set"
  /\ IF MustGrow
     THEN /\ pc' = "resize"
          /\ fresh' = [i \in 0..GrowCap(capacity)-1 |-> EmptyEntry]
          /\ count' = 0
     ELSE pc' = "insert" /\ UNCHANGED <<fresh, count>>
  /\ scan' = 0
  /\ UNCHANGED <<entries, capacity, todo, ret>>

(* Fault: leave the index behind when the entry holds no key.              *)
CopyEntryStuck ==
  LET e == entries[scan]
      cap == GrowCap(capacity)
  IN
  /\ pc = "resize" /\ scan < capacity
  /\ IF e.key = NoKey
     THEN UNCHANGED <<fresh, count, scan>>
     ELSE /\ Stops(fresh, cap, e.key) # {}
          /\ fresh' = [fresh EXCEPT ![FindEntry(fresh, cap, e.key)] = e]
          /\ count' = count + 1
          /\ scan' = scan + 1
  /\ UNCHANGED <<entries, capacity, pc, todo, ret>>

(* One iteration of the loop of adjustCapacity.                            *)
CopyEntry ==
  LET e == entries[scan]
      cap == GrowCap(capacity)
  IN
  /\ pc = "resize" /\ scan < capacity
  /\ IF e.key = NoKey
     THEN UNCHANGED <<fresh, count>>
     ELSE /\ Stops(fresh, cap, e.key) # {}
          /\ fresh' = [fresh EXCEPT ![FindEntry(fresh, cap, e.key)] = e]
          /\ count' = count + 1
  /\ scan' = scan + 1
  /\ UNCHANGED <<entries, capacity, pc, todo, ret>>

(* Fault: install the new array and keep the old capacity.                 *)
InstallEntriesOldCapacity ==
  /\ pc = "resize" /\ scan >= capacity
  /\ entries' = fresh
  /\ fresh' = <<>>
  /\ scan' = 0
  /\ pc' = "insert"
  /\ UNCHANGED <<capacity, count, todo, ret>>

InstallEntries ==
  /\ pc = "resize" /\ scan >= capacity
  /\ entries' = fresh
  /\ capacity' = GrowCap(capacity)
  /\ fresh' = <<>>
  /\ scan' = 0
  /\ pc' = "insert"
  /\ UNCHANGED <<count, todo, ret>>

Insert ==
  LET pair == Head(todo)
      slot == FindEntry(entries, capacity, pair.key)
      old  == entries[slot]
  IN
  /\ pc = "insert" /\ Stops(entries, capacity, pair.key) # {}
  /\ entries' = [entries EXCEPT ![slot] = pair]
  /\ count' = IF IsEmpty(old) THEN count + 1 ELSE count
  /\ ret' = Answer("set", pair.key, old.key = NoKey, Null)
  /\ todo' = Tail(todo)
  /\ pc' = IF Tail(todo) = <<>> THEN "idle" ELSE "set"
  /\ UNCHANGED <<capacity, fresh, scan>>

Advance == CheckLoad \/ CopyEntry \/ InstallEntries \/ Insert

Next ==
  \/ \E k \in Keys :
       \/ TabGet(k)
       \/ TabRemove(k)
       \/ TabFindstr(k)
       \/ \E v \in Values : TabSet(k, v)
  \/ \E from \in AddInputs : TabAdd(from)
  \/ TabFree
  \/ Advance

Spec == Init /\ [][Next]_vars

(* The thread that called tab_set goes on executing it.                    *)
FairSpec == Spec /\ WF_vars(Advance)

-----------------------------------------------------------------------------
TypeOK ==
  /\ capacity \in Nat /\ (capacity = 0 \/ capacity >= MinCap)
  /\ entries \in [0..capacity-1 -> Entry]
  /\ count \in Nat
  /\ pc \in {"idle", "set", "resize", "insert"}
  /\ todo \in Seq(Pair)
  /\ scan \in Nat
  /\ pc = "resize" => fresh \in [0..GrowCap(capacity)-1 -> Entry]

(* No probe loops for ever: whatever the history of insertions, removals   *)
(* and growth, the probe of findEntry and of tab_findstr for any key meets *)
(* an empty entry or the key, in the table and in the array being filled.  *)
ProbeTerminates ==
  \A k \in Keys :
    /\ capacity > 0 => Stops(entries, capacity, k) # {} /\ FindstrStops(k) # {}
    /\ pc = "resize" => Stops(fresh, GrowCap(capacity), k) # {}

(* tab_set returns, however often it has to grow the table first.          *)
SetReturns == (pc # "idle") ~> (pc = "idle")

(* Every live entry is where a probe for its key finds it: no empty entry  *)
(* lies before it on the probe.  And no key has two entries.               *)
WellProbed(es, cap) ==
  /\ \A i \in Live(es) : \E d \in 0..cap-1 :
       /\ At(cap, es[i].key, d) = i
       /\ \A e \in 0..d-1 : ~IsEmpty(es[At(cap, es[i].key, e)])
  /\ \A i, j \in Live(es) : es[i].key = es[j].key => i = j

(* count is the number of entries in use, tombstones included, and they    *)
(* fill at most three quarters of the array: a quarter stays empty, which  *)
(* is what ends every probe.                                               *)
CountExact ==
  /\ 4 * Cardinality(Used(entries)) <= 3 * capacity
  /\ pc # "resize" => count = Cardinality(Used(entries))
  /\ pc = "insert" => ~MustGrow

(* While the array grows, the new one holds exactly the live entries the   *)
(* loop has passed, no tombstone among them, and count counts them.        *)
Copied ==
  /\ WellProbed(fresh, GrowCap(capacity))
  /\ scan <= capacity
  /\ Used(fresh) = Live(fresh)
  /\ count = Cardinality(Used(fresh))
  /\ count <= Cardinality(Live(entries) \cap 0..scan-1)
  /\ \A i \in Live(entries) : i < scan => \E j \in DOMAIN fresh : fresh[j] = entries[i]
  /\ \A j \in Live(fresh) : \E i \in DOMAIN entries : i < scan /\ entries[i] = fresh[j]

(* The inductive invariant of the table.                                   *)
Inv ==
  /\ TypeOK
  /\ pc # "idle" => todo # <<>>
  /\ WellProbed(entries, capacity)
  /\ CountExact
  /\ pc = "resize" => Copied

(* The dictionary an array of entries represents: the value of the entry   *)
(* of each live key.  The array being filled does not count until it is    *)
(* installed.                                                              *)
ContentsOf(es) ==
  [k \in Keys |-> IF \E i \in DOMAIN es : es[i].key = k
                  THEN es[CHOOSE i \in DOMAIN es : es[i].key = k].value
                  ELSE Absent]

Contents == ContentsOf(entries)

D == INSTANCE Dict WITH dict <- Contents

(* The table is a dictionary: each call returns what the last tab_set of   *)
(* its key, not undone by a tab_remove, says, whatever the collisions,     *)
(* tombstones and growth in between.                                       *)
DictSpec == D!Spec
=============================================================================
