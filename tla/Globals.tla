-------------------------------- MODULE Globals --------------------------------
(***************************************************************************)
(* The global variables as several threads use them: the clones of a vm    *)
(* share its table of globals (vm_clone), and DEF, GLD and GST call        *)
(* tab_set, tab_get and tab_remove on it without a lock.  Table is the     *)
(* same code on one thread, a lookup at a time; here every access to what  *)
(* the threads share is a step of its own.                                 *)
(*                                                                         *)
(* A value is two words, its type and the rest, and a store of one is two  *)
(* stores.  The compiler may order the stores to an entry as it likes, and *)
(* the loads of the two arguments of findEntry.                            *)
(*                                                                         *)
(* Of scripts it is assumed that main alone defines variables, and that    *)
(* other threads assign only to those that are defined when main starts    *)
(* them; they may read any.                                                *)
(***************************************************************************)
EXTENDS Integers, FiniteSets, Sequences

CONSTANTS
  Main,      \* the thread of main()
  Others,    \* the threads it starts
  Keys,      \* the names of the variables
  Hash,      \* their hashes
  Values,    \* what is assigned
  Tables,    \* what main makes of the table before it starts the others
  NoKey,     \* the NULL key
  MinCap,    \* the capacity GROW_CAP starts from (8)
  MaxMain,   \* bound: instructions main executes on globals
  MaxOther   \* and each of the others

Threads == {Main} \cup Others

Null == [type |-> "null", raw |-> 0]
True == [type |-> "bool", raw |-> 1]

Types == {"null", "bool", "num", "obj", "cfn", "ptr"}
Value == [type : Types, raw : Nat]
Slot == [key : Keys \cup {NoKey}, type : Types, raw : Nat]

ASSUME GlobalsAssumption ==
  /\ Main \notin Others /\ NoKey \notin Keys
  /\ Hash \in [Keys -> Nat]
  /\ Values \subseteq Value
  /\ MinCap \in Nat /\ MinCap >= 2
  /\ MaxMain \in Nat /\ MaxOther \in Nat

VARIABLES
  count,     \* the fields of vm->globals: count,
  capacity,
  entries,   \* and the address of the array
  arrays,    \* what is at the addresses malloc has given; nothing when freed
  pc,        \* where each thread is
  local,     \* its local variables, see Begin
  known,     \* the variables that are defined when main starts the others
  executed,  \* the instructions each thread has begun
  undefined, \* freed memory has been used: anything may happen
  dict,      \* history: what the stores made so far say the variables are
  seen,      \* history: what the variable an instruction is on was during it
  disturbed, \* history: whether another thread has come in its way
  damaged    \* history: whether that happened to one that stores

shared == <<count, capacity, entries, arrays>>
history == <<dict, seen, disturbed, damaged>>
vars == <<shared, pc, local, known, executed, undefined, history>>

EmptyEntry == [key |-> NoKey, type |-> Null.type, raw |-> Null.raw]
IsEmpty(e) == e.key = NoKey /\ e.type = "null"
Fresh(cap) == [i \in 0..cap-1 |-> EmptyEntry]
NotDefined == [type |-> "undefined", raw |-> 0]
None == -1

Least(S) == CHOOSE d \in S : \A e \in S : d <= e
Place(slots, key) ==
  LET cap == Cardinality(DOMAIN slots)
      at(d) == (Hash[key] + d) % cap
  IN at(Least({d \in 0..cap-1 : slots[at(d)].key \in {NoKey, key}}))

(* An array of entries, <<>> where there is none yet.  A variable is where *)
(* it was put when it was made, for none is ever taken out again: at the   *)
(* first entry without one.                                                *)
ASSUME TablesAssumption ==
  \A slots \in Tables :
    /\ IsFiniteSet(DOMAIN slots)
    /\ slots \in [0..Cardinality(DOMAIN slots)-1 -> Slot]
    /\ \A i \in DOMAIN slots : slots[i].key # NoKey => Place(slots, slots[i].key) = i

Init ==
  \E slots \in Tables :
    LET defined(k) == {i \in DOMAIN slots : slots[i].key = k} IN
    /\ count = Cardinality({i \in DOMAIN slots : ~IsEmpty(slots[i])})
    /\ capacity = Cardinality(DOMAIN slots)
    /\ arrays = (IF capacity = 0 THEN <<>> ELSE <<slots>>) /\ entries = Len(arrays)
    /\ known = {k \in Keys : defined(k) # {}}
    /\ dict = [k \in Keys |->
                IF k \notin known THEN NotDefined
                ELSE LET e == slots[Least(defined(k))] IN [type |-> e.type, raw |-> e.raw]]
    /\ pc = [t \in Threads |-> "idle"]
    /\ local = [t \in Threads |-> [op |-> "none"]]
    /\ executed = [t \in Threads |-> 0]
    /\ undefined = FALSE
    /\ seen = [t \in Threads |-> {}]
    /\ disturbed = [t \in Threads |-> FALSE] /\ damaged = FALSE

At(t, place) == ~undefined /\ pc[t] = place
Goto(t, place) == pc' = [pc EXCEPT ![t] = place]
My(t) == local[t]
Let(t, field, value) == local' = [local EXCEPT ![t][field] = value]

(* The entry at index of array; freed arrays have none.                    *)
Valid(a, i) == a \in DOMAIN arrays /\ i \in DOMAIN arrays[a]
Freed(a) == a # 0 /\ DOMAIN arrays[a] = {}
Entry(t) == arrays[My(t).array][My(t).index]
InArray(t) == Valid(My(t).array, My(t).index)

(* The pointer an instruction finds, before findEntry has been called.     *)
(* array and size are its arguments, index its loop's, grave the first     *)
(* tombstone.                                                              *)
WithoutSlot(my) == [my EXCEPT !.array = None, !.size = None, !.index = None, !.grave = None]

-----------------------------------------------------------------------------
(* DEF, GLD and GST.                                                       *)

Budget(t) == IF t = Main THEN MaxMain ELSE MaxOther

Begin(t, op, k, v) ==
  /\ At(t, "idle") /\ executed[t] < Budget(t)
  /\ executed' = [executed EXCEPT ![t] = @ + 1]
  /\ local' = [local EXCEPT ![t] =
                 [op |-> op, key |-> k, value |-> v, call |-> IF op = "GLD" THEN "get" ELSE "set",
                  array |-> None, size |-> None, index |-> None, grave |-> None,
                  load |-> None, fresh |-> None, isNew |-> FALSE,
                  todo |-> {}, answer |-> NotDefined]]
  /\ Goto(t, IF op = "GLD" THEN "count" ELSE "load")
  /\ UNCHANGED <<shared, known, undefined>>

Instruction(t) ==
  \E k \in Keys :
    \/ Begin(t, "GLD", k, Null)
    \/ \E v \in Values :
         \/ t = Main /\ Begin(t, "DEF", k, v)
         \/ (t # Main => k \in known) /\ Begin(t, "GST", k, v)

(* A tab function returns: GST removes what was not there, and fails.      *)
Finished(t, answer) ==
  local' = [local EXCEPT ![t] = [WithoutSlot(@) EXCEPT !.todo = {}, !.answer = answer]]

Return(t) ==
  /\ At(t, "done") /\ Goto(t, "idle")
  /\ UNCHANGED <<shared, local, known, executed, undefined>>

-----------------------------------------------------------------------------
(* What tab_get and tab_remove do first.                                   *)
TestCount(t) ==
  /\ At(t, "count")
  /\ IF count = 0 THEN Goto(t, "done") /\ Finished(t, NotDefined)
                  ELSE Goto(t, "find") /\ UNCHANGED local
  /\ UNCHANGED <<shared, known, executed, undefined>>

(* What tab_set does first: both fields are read, then compared.           *)
LoadCount(t) ==
  /\ At(t, "load") /\ Let(t, "load", count) /\ Goto(t, "compare")
  /\ UNCHANGED <<shared, known, executed, undefined>>

MustGrow(load) == 4 * (load + 1) > 3 * capacity
GrowCap == IF capacity < MinCap THEN MinCap ELSE 2 * capacity

(* adjustCapacity up to its second loop: no other thread can reach the new *)
(* array before it is installed.  The capacity it doubles, like what a     *)
(* round of the loop reads, is taken at once: it only changes when another *)
(* thread grows the table too, and nothing is claimed of that.             *)
Compare(t) ==
  /\ At(t, "compare")
  /\ \/ /\ MustGrow(My(t).load)
        /\ local' = [local EXCEPT ![t].fresh = Fresh(GrowCap),
                                  ![t].index = 0, ![t].load = None]
        /\ count' = 0
        /\ Goto(t, "copy")
     \/ ~MustGrow(My(t).load) /\ Let(t, "load", None) /\ Goto(t, "find") /\ UNCHANGED count
  /\ UNCHANGED <<capacity, entries, arrays, known, executed, undefined>>

CopyEntry(t) ==
  LET i == My(t).index
      e == arrays[entries][i]
  IN
  /\ At(t, "copy") /\ i < capacity /\ Valid(entries, i)
  /\ \/ e.key = NoKey
        /\ Let(t, "index", i + 1)
        /\ UNCHANGED count
     \/ e.key # NoKey
        /\ local' = [local EXCEPT ![t].fresh[Place(My(t).fresh, e.key)] = e, ![t].index = i + 1]
        /\ count' = count + 1
  /\ UNCHANGED <<capacity, entries, arrays, pc, known, executed, undefined>>

Free(t) ==
  /\ At(t, "copy") /\ My(t).index >= capacity
  /\ ~Freed(entries)
  /\ arrays' = IF entries = 0 THEN arrays ELSE [arrays EXCEPT ![entries] = <<>>]
  /\ Goto(t, "install")
  /\ UNCHANGED <<count, capacity, entries, local, known, executed, undefined>>

(* Fault: keep the array that has been freed.                              *)
InstallEntriesFreed(t) ==
  /\ At(t, "install") /\ Goto(t, "resize")
  /\ UNCHANGED <<shared, local, known, executed, undefined>>

(* The two fields, one after the other.                                    *)
InstallEntries(t) ==
  /\ At(t, "install")
  /\ arrays' = Append(arrays, My(t).fresh) /\ entries' = Len(arrays')
  /\ Goto(t, "resize")
  /\ UNCHANGED <<count, capacity, local, known, executed, undefined>>

InstallCapacity(t) ==
  /\ At(t, "resize")
  /\ capacity' = Cardinality(DOMAIN My(t).fresh)
  /\ local' = [local EXCEPT ![t] = [WithoutSlot(@) EXCEPT !.fresh = None]]
  /\ Goto(t, "find")
  /\ UNCHANGED <<count, entries, arrays, known, executed, undefined>>

-----------------------------------------------------------------------------
(* findEntry.                                                              *)

(* Its arguments, read in either order.                                    *)
Arguments(t, array, size) ==
  /\ local' = [local EXCEPT ![t].array = array, ![t].size = size,
        ![t].index = IF array = None \/ size \in {None, 0} THEN None ELSE Hash[My(t).key] % size]
  /\ IF array # None /\ size # None THEN Goto(t, "key") ELSE UNCHANGED pc
  /\ UNCHANGED <<shared, known, executed, undefined>>

ReadEntries(t) == At(t, "find") /\ My(t).array = None /\ Arguments(t, entries, My(t).size)
ReadCapacity(t) == At(t, "find") /\ My(t).size = None /\ Arguments(t, My(t).array, capacity)

NextIndex(t) == (My(t).index + 1) % My(t).size

(* Fault: take a variable of the same hash for the one looked for.         *)
ProbeKeyByHash(t) ==
  /\ At(t, "key") /\ InArray(t)
  /\ Goto(t, IF Entry(t).key = NoKey THEN "value" ELSE "found")
  /\ UNCHANGED <<shared, local, known, executed, undefined>>

ProbeKey(t) ==
  /\ At(t, "key") /\ InArray(t)
  /\ \/ Entry(t).key = My(t).key /\ Goto(t, "found") /\ UNCHANGED local
     \/ Entry(t).key = NoKey /\ Goto(t, "value") /\ UNCHANGED local
     \/ /\ Entry(t).key \notin {My(t).key, NoKey}
        /\ Let(t, "index", NextIndex(t)) /\ UNCHANGED pc
  /\ UNCHANGED <<shared, known, executed, undefined>>

(* An entry without a key: empty, or a tombstone.                          *)
ProbeValue(t) ==
  LET my == My(t) IN
  /\ At(t, "value") /\ InArray(t)
  /\ \/ /\ Entry(t).type = "null"
        /\ Let(t, "index", IF my.grave = None THEN my.index ELSE my.grave)
        /\ Goto(t, "found")
     \/ /\ Entry(t).type # "null"
        /\ local' = [local EXCEPT ![t].grave = IF @ = None THEN my.index ELSE @,
                                  ![t].index = NextIndex(t)]
        /\ Goto(t, "key")
  /\ UNCHANGED <<shared, known, executed, undefined>>

-----------------------------------------------------------------------------
(* What the three functions do with the entry.                             *)

(* tab_get reads the key again, then the value.                            *)
FoundToGet(t) ==
  /\ At(t, "found") /\ My(t).call = "get" /\ InArray(t)
  /\ IF Entry(t).key = NoKey
     THEN Finished(t, NotDefined) /\ Goto(t, "done")
     ELSE Let(t, "todo", {"type", "raw"}) /\ Goto(t, "fetch")
  /\ UNCHANGED <<shared, known, executed, undefined>>

Fetch(t) ==
  /\ At(t, "fetch") /\ InArray(t)
  /\ \E word \in My(t).todo :
       LET answer == [My(t).answer EXCEPT ![word] = Entry(t)[word]] IN
       IF My(t).todo = {word}
       THEN Finished(t, answer) /\ Goto(t, "done")
       ELSE /\ local' = [local EXCEPT ![t].answer = answer, ![t].todo = @ \ {word}]
            /\ UNCHANGED pc
  /\ UNCHANGED <<shared, known, executed, undefined>>

(* Fault: give the entry back to the count.                                *)
FoundToRemoveUncounted(t) ==
  /\ At(t, "found") /\ My(t).call = "remove" /\ InArray(t)
  /\ IF Entry(t).key = NoKey
     THEN Finished(t, NotDefined) /\ Goto(t, "done") /\ UNCHANGED count
     ELSE Let(t, "todo", {"key", "type", "raw"}) /\ Goto(t, "store") /\ count' = count - 1
  /\ UNCHANGED <<capacity, entries, arrays, known, executed, undefined>>

FoundToRemove(t) ==
  /\ At(t, "found") /\ My(t).call = "remove" /\ InArray(t)
  /\ IF Entry(t).key = NoKey
     THEN Finished(t, NotDefined) /\ Goto(t, "done")
     ELSE Let(t, "todo", {"key", "type", "raw"}) /\ Goto(t, "store")
  /\ UNCHANGED <<shared, known, executed, undefined>>

(* Fault: leave a new entry uncounted.                                     *)
FoundToSetUncounted(t) ==
  /\ At(t, "found") /\ My(t).call = "set" /\ InArray(t)
  /\ local' = [local EXCEPT ![t].isNew = (Entry(t).key = NoKey),
                            ![t].todo = {"key", "type", "raw"}]
  /\ Goto(t, "store")
  /\ UNCHANGED <<shared, known, executed, undefined>>

(* Nobody else changes an entry without a key: one step will do.           *)
FoundToSet(t) ==
  /\ At(t, "found") /\ My(t).call = "set" /\ InArray(t)
  /\ count' = IF IsEmpty(Entry(t)) THEN count + 1 ELSE count
  /\ local' = [local EXCEPT ![t].isNew = (Entry(t).key = NoKey),
                            ![t].todo = {"key", "type", "raw"}]
  /\ Goto(t, "store")
  /\ UNCHANGED <<capacity, entries, arrays, known, executed, undefined>>

Stored(t) ==
  LET my == My(t) IN
  IF my.call = "set" THEN [key |-> my.key, type |-> my.value.type, raw |-> my.value.raw]
                     ELSE [key |-> NoKey, type |-> True.type, raw |-> True.raw]

(* A GST that has made the variable removes it.                            *)
Store(t) ==
  LET my == My(t) IN
  /\ At(t, "store") /\ InArray(t)
  /\ \E word \in my.todo :
       /\ arrays' = [arrays EXCEPT ![my.array][my.index][word] = Stored(t)[word]]
       /\ dict' = [dict EXCEPT ![my.key] =
                     CASE my.call = "set" /\ word # "key"    -> [@ EXCEPT ![word] = my.value[word]]
                       [] my.call = "remove" /\ word = "key" -> NotDefined
                       [] OTHER -> @]
       /\ \/ my.todo # {word} /\ Let(t, "todo", my.todo \ {word}) /\ UNCHANGED pc
          \/ /\ my.todo = {word} /\ my.op = "GST" /\ my.call = "set" /\ my.isNew
             /\ local' = [local EXCEPT ![t] =
                            [WithoutSlot(@) EXCEPT !.call = "remove", !.todo = {}]]
             /\ Goto(t, "count")
          \/ /\ my.todo = {word} /\ ~(my.op = "GST" /\ my.call = "set" /\ my.isNew)
             /\ Finished(t, IF my.call = "remove" THEN NotDefined ELSE my.value)
             /\ Goto(t, "done")
  /\ UNCHANGED <<count, capacity, entries, known, executed, undefined>>

(* An access to an array that has been freed, or outside it.               *)
BadAccess(t) ==
  /\ \/ pc[t] \in {"key", "value", "found", "fetch", "store"} /\ ~InArray(t)
     \/ At(t, "copy") /\ My(t).index < capacity /\ ~Valid(entries, My(t).index)
     \/ At(t, "copy") /\ My(t).index >= capacity /\ Freed(entries)
  /\ ~undefined /\ undefined' = TRUE
  /\ UNCHANGED <<shared, pc, local, known, executed>>

-----------------------------------------------------------------------------
(* The history.                                                            *)

(* What thread s does now that an instruction on variable k must not meet: *)
(* a growth; the making of the same variable, or of any when k is not      *)
(* defined, for tab_get then looks again at the entry where the other may  *)
(* go, and takes its value.                                                *)
Growing(s) == pc[s] \in {"copy", "install", "resize"}
Making(s, k) ==
  pc[s] \notin {"idle", "done"} /\ local[s].isNew /\ (local[s].key = k \/ dict[k] = NotDefined)
Disturbs(s, t) == Growing(s) \/ Making(s, local[t].key)

Busy(t) == pc[t] \notin {"idle", "done"}

Watch(t) ==
  CASE pc'[t] = "idle" -> {}
    [] pc[t] = "idle" /\ pc'[t] # "idle" -> {dict'[local'[t].key]}
    [] pc[t] = "done" /\ pc'[t] = "done" -> seen[t]
    [] OTHER -> seen[t] \cup {dict'[local'[t].key]}

Record ==
  /\ seen' = [t \in Threads |-> Watch(t)]
  /\ disturbed' = [t \in Threads |->
        pc'[t] # "idle" /\ (disturbed[t] \/ (Busy(t)' /\ \E s \in Threads \ {t} : Disturbs(s, t)'))]
  /\ damaged' = (damaged \/ \E t \in Threads : Busy(t)' /\ disturbed'[t] /\ local'[t].op # "GLD")

-----------------------------------------------------------------------------
Quietly(t) ==
  \/ TestCount(t) \/ LoadCount(t) \/ Compare(t) \/ CopyEntry(t) \/ Free(t)
  \/ InstallEntries(t) \/ InstallCapacity(t)
  \/ ReadEntries(t) \/ ReadCapacity(t) \/ ProbeKey(t) \/ ProbeValue(t)
  \/ FoundToGet(t) \/ Fetch(t) \/ FoundToRemove(t) \/ FoundToSet(t)
  \/ BadAccess(t) \/ Return(t)

Step(t) == ((Quietly(t) /\ UNCHANGED dict) \/ Store(t)) /\ Record

Next ==
  \/ \E t \in Threads : Step(t)
  \/ \E t \in Threads : Instruction(t) /\ UNCHANGED dict /\ Record

Spec == Init /\ [][Next]_vars

-----------------------------------------------------------------------------
TypeOK ==
  /\ count \in Nat /\ capacity \in Nat
  /\ entries \in 0..Len(arrays)
  /\ \A a \in DOMAIN arrays : \A i \in DOMAIN arrays[a] :
       arrays[a][i].key \in Keys \cup {NoKey}
  /\ known \subseteq Keys
  /\ undefined \in BOOLEAN

(* An instruction that no other thread has come in the way of finds a      *)
(* variable when it is defined, and only then, and reads each word as it   *)
(* was at some time during the instruction: other threads may meanwhile    *)
(* assign to it, and assign to, make and fail to make others.  Whether a   *)
(* variable changes its type while it is read is for the script to know.   *)
ReadsRight ==
  \A t \in Threads :
    (pc[t] = "done" /\ ~disturbed[t] /\ ~damaged) =>
      /\ local[t].answer.type \in {v.type : v \in seen[t]}
      /\ local[t].answer.raw \in {v.raw : v \in seen[t]}

(* Between instructions the table holds what was stored, no assignment     *)
(* lost and no variable twice, and its fields are right: as long as no     *)
(* instruction that stores was disturbed.                                  *)
Kept ==
  ((\A t \in Threads : pc[t] = "idle") /\ ~damaged /\ ~undefined /\ entries # 0) =>
    LET slots == arrays[entries]
        of(k) == {i \in DOMAIN slots : slots[i].key = k}
    IN
    /\ capacity = Cardinality(DOMAIN slots)
    /\ count = Cardinality({i \in DOMAIN slots : ~IsEmpty(slots[i])})
    /\ \A k \in Keys :
         IF dict[k] = NotDefined THEN of(k) = {}
         ELSE \E i \in of(k) : of(k) = {i} /\ slots[i] = [key |-> k, type |-> dict[k].type, raw |-> dict[k].raw]

(* Only a growth that another thread has met leads to freed memory.        *)
OnlyGrowthBreaks ==
  undefined => damaged \/ \E t \in Threads : disturbed[t] /\ ~InArray(t)
=============================================================================
