------------------------------ MODULE Collector ------------------------------
(***************************************************************************)
(* The garbage collector of gc.c: allocObj and gc_realloc, which start a   *)
(* collection when what is allocated passes nextGC, then gc_collect step   *)
(* by step: one markObject, one blackenObject, one object of the sweep.    *)
(*                                                                         *)
(* The heap is a set of objects that refer to others; which table, array   *)
(* or hash holds a reference, and in what order a loop finds it, is left   *)
(* open.  Strings, functions and maps are the objects the program makes:   *)
(* nothing allocates an upvalue.                                           *)
(*                                                                         *)
(* Four things are read that nothing has written: gc->vm, which no line    *)
(* assigns, the isMarked of a new object and the upvalueCount and upvalues *)
(* of a function.  Each is a choice here, made when it is read, and a run  *)
(* that follows a bad pointer has crashed.                                 *)
(***************************************************************************)
EXTENDS Integers, Sequences, SequencesExt, FiniteSetsExt

CONSTANTS
  Objects,   \* addresses an object may have
  Size,      \* sizeof of each kind of object
  FirstGC,   \* what gc_init sets nextGC to
  MaxLinks   \* bound: references between objects

Kinds == {"str", "fun", "map"}

ASSUME CollectorAssumption ==
  /\ Size \in [Kinds -> Nat \ {0}]
  /\ FirstGC \in Nat
  /\ MaxLinks \in Nat

VARIABLES
  objects,   \* the list gc->objects; during a sweep, what it has passed and kept
  rest,      \* during a sweep, the list from obj on
  kind,      \* object->type
  refs,      \* the objects an object refers to
  roots,     \* the objects stack, frames and globals of gc->vm refer to
  strings,   \* the keys of vm->strings, which do not keep a string alive
  isMarked,  \* the objects whose isMarked is set
  gray,      \* grayStack, up to grayCount
  pending,   \* what the loop that calls markObject has yet to come to
  phase,     \* "run", "mark", "sweep", "allocate", "crashed" or "closed"
  wanted,    \* the kind of the object being allocated, if one is
  allocated, \* gc->allocated
  nextGC,    \* gc->nextGC
  vmRead,    \* whether gc->vm was read and found to hold the machine
  stale,     \* history: objects marked when the collection began
  freed      \* history: objects this collection has freed

vars == <<objects, rest, kind, refs, roots, strings, isMarked, gray, pending, phase,
          wanted, allocated, nextGC, vmRead, stale, freed>>
heap == <<kind, refs, roots>>
accounts == <<allocated, nextGC, wanted, vmRead>>

Heap == ToSet(objects) \cup ToSet(rest)

(* The bytes of the objects on the heap, as pairs of an object and a       *)
(* number.                                                                 *)
Bytes == UNION {{o} \X (1..Size[kind[o]]) : o \in Heap}

Init ==
  /\ objects = <<>> /\ rest = <<>>
  /\ kind = [o \in Objects |-> "str"]
  /\ refs = [o \in Objects |-> {}]
  /\ roots = {} /\ strings = {}
  /\ isMarked = {}
  /\ gray = <<>> /\ pending = {}
  /\ phase = "run"
  /\ wanted = "none"
  /\ allocated = 0 /\ nextGC = FirstGC
  /\ vmRead = FALSE
  /\ stale = {} /\ freed = {}

-----------------------------------------------------------------------------
(* The program.  It may hold any object in a local of C, so it may store a *)
(* reference to any; with a reference to a freed object it is no longer    *)
(* defined what it does, and the model stops.                              *)

Intact ==
  /\ roots \subseteq Heap /\ strings \subseteq Heap
  /\ \A o \in Heap : refs[o] \subseteq Heap

Running == phase = "run" /\ Intact

Unmoved == <<objects, rest, kind, isMarked, gray, pending, phase, accounts, stale, freed>>

(* PUSH, tab_set on the globals, a new frame.                              *)
Hold(o) == Running /\ roots' = roots \cup {o} /\ UNCHANGED <<refs, strings, Unmoved>>

(* POP, resetStack, an entry overwritten.                                  *)
Release(o) == Running /\ roots' = roots \ {o} /\ UNCHANGED <<refs, strings, Unmoved>>

Links == MapThenSumSet(LAMBDA o : Cardinality(refs[o]), Heap)

(* A constant or the name of a function, a key or value of a map.          *)
Link(o, p) ==
  /\ Running /\ kind[o] # "str"
  /\ Links < MaxLinks
  /\ refs' = [refs EXCEPT ![o] = @ \cup {p}]
  /\ UNCHANGED <<roots, strings, Unmoved>>

(* gc_realloc for a new object: account for it, then perhaps collect.      *)
GcRealloc(k) ==
  LET total == allocated + Size[k] IN
  /\ Running
  /\ wanted' = k
  /\ allocated' = total
  /\ \/ total <= nextGC /\ phase' = "allocate" /\ UNCHANGED <<pending, stale, vmRead>>
     \/ /\ total > nextGC
        /\ \/ phase' = "mark" /\ vmRead' = TRUE
           \/ ~vmRead /\ phase' = "crashed" /\ UNCHANGED vmRead
        /\ pending' = roots
        /\ stale' = isMarked
  /\ UNCHANGED <<objects, rest, heap, strings, isMarked, gray, nextGC, freed>>

(* allocObj: the new object goes to the front of the list; its isMarked    *)
(* is what the memory held.  A string is interned by allocStr.  With no    *)
(* address left the model stops, where the code would follow a NULL.       *)
AllocObj(o) ==
  /\ phase = "allocate" /\ o \notin Heap
  /\ phase' = "run"
  /\ objects' = <<o>> \o objects
  /\ kind' = [kind EXCEPT ![o] = wanted]
  /\ refs' = [refs EXCEPT ![o] = {}]
  /\ \E mark \in BOOLEAN : isMarked' = IF mark THEN isMarked \cup {o} ELSE isMarked \ {o}
  /\ strings' = IF wanted = "str" THEN strings \cup {o} ELSE strings
  /\ wanted' = "none"
  /\ UNCHANGED <<rest, roots, gray, pending, allocated, nextGC, vmRead, stale, freed>>

(* gc_free: obj_free for the whole list, and what the objects held goes    *)
(* with them.                                                              *)
GcFree ==
  /\ Running
  /\ phase' = "closed"
  /\ allocated' = allocated - Cardinality(Bytes)
  /\ objects' = <<>>
  /\ kind' = [o \in Objects |-> "str"] /\ refs' = [o \in Objects |-> {}]
  /\ roots' = {} /\ strings' = {} /\ isMarked' = {}
  /\ UNCHANGED <<rest, gray, pending, wanted, nextGC, vmRead, stale, freed>>

-----------------------------------------------------------------------------
(* gc_collect.                                                             *)

(* Fault: mark and push whether marked or not.                             *)
MarkObjectAgain ==
  /\ phase = "mark"
  /\ \E o \in pending :
       /\ pending' = pending \ {o}
       /\ isMarked' = isMarked \cup {o} /\ gray' = Append(gray, o)
  /\ UNCHANGED <<objects, rest, heap, strings, phase, accounts, stale, freed>>

(* One call of markObject, from markRoots, markTable or blackenObject.     *)
MarkObject ==
  /\ phase = "mark"
  /\ \E o \in pending :
       /\ pending' = pending \ {o}
       /\ \/ o \in isMarked /\ UNCHANGED <<isMarked, gray>>
          \/ o \notin isMarked /\ isMarked' = isMarked \cup {o} /\ gray' = Append(gray, o)
  /\ UNCHANGED <<objects, rest, heap, strings, phase, accounts, stale, freed>>

(* Fault: a function's constants are left out.                             *)
BlackenObjectMapsOnly ==
  /\ phase = "mark" /\ pending = {} /\ gray # <<>>
  /\ LET o == Last(gray) IN
     /\ gray' = Front(gray)
     /\ \/ pending' = (IF kind[o] = "map" THEN refs[o] ELSE {}) /\ UNCHANGED phase
        \/ kind[o] = "fun" /\ phase' = "crashed" /\ UNCHANGED pending
  /\ UNCHANGED <<objects, rest, heap, strings, isMarked, accounts, stale, freed>>

(* traceReferences takes the last gray object and blackenObject goes       *)
(* through its references; a function has upvalues by an upvalueCount      *)
(* nobody set.                                                             *)
BlackenObject ==
  /\ phase = "mark" /\ pending = {} /\ gray # <<>>
  /\ LET o == Last(gray) IN
     /\ gray' = Front(gray)
     /\ \/ pending' = refs[o] /\ UNCHANGED phase
        \/ kind[o] = "fun" /\ phase' = "crashed" /\ UNCHANGED pending
  /\ UNCHANGED <<objects, rest, heap, strings, isMarked, accounts, stale, freed>>

(* removeWhite, and the start of sweep.                                    *)
RemoveWhite ==
  /\ phase = "mark" /\ pending = {} /\ gray = <<>>
  /\ strings' = strings \cap isMarked
  /\ phase' = "sweep"
  /\ rest' = objects /\ objects' = <<>>
  /\ UNCHANGED <<heap, isMarked, gray, pending, accounts, stale, freed>>

(* Fault: forget to go on to the next object.                              *)
SweepKeepForever ==
  /\ phase = "sweep" /\ rest # <<>> /\ Head(rest) \notin isMarked
  /\ UNCHANGED vars

(* An object that is not marked stays where it is.                         *)
SweepKeep ==
  /\ phase = "sweep" /\ rest # <<>> /\ Head(rest) \notin isMarked
  /\ objects' = Append(objects, Head(rest)) /\ rest' = Tail(rest)
  /\ UNCHANGED <<heap, strings, isMarked, gray, pending, phase, accounts, stale, freed>>

(* Fault: unlink at the front of the list whatever came before.            *)
SweepFreeAtFront ==
  /\ phase = "sweep" /\ rest # <<>> /\ Head(rest) \in isMarked
  /\ objects' = <<>> /\ rest' = Tail(rest)
  /\ freed' = freed \cup {Head(rest)}
  /\ allocated' = allocated - Size[kind[Head(rest)]]
  /\ UNCHANGED <<heap, strings, isMarked, gray, pending, phase, nextGC, wanted, vmRead, stale>>

(* Fault: free without unlinking.                                          *)
SweepFreeStillLinked ==
  /\ phase = "sweep" /\ rest # <<>> /\ Head(rest) \in isMarked
  /\ objects' = Append(objects, Head(rest)) /\ rest' = Tail(rest)
  /\ freed' = freed \cup {Head(rest)}
  /\ allocated' = allocated - Size[kind[Head(rest)]]
  /\ UNCHANGED <<heap, strings, isMarked, gray, pending, phase, nextGC, wanted, vmRead, stale>>

(* Fault: free every object as if it were a function.                      *)
SweepFreeAsFun ==
  /\ phase = "sweep" /\ rest # <<>> /\ Head(rest) \in isMarked
  /\ rest' = Tail(rest)
  /\ freed' = freed \cup {Head(rest)}
  /\ allocated' = allocated - Size["fun"]
  /\ UNCHANGED <<objects, heap, strings, isMarked, gray, pending, phase, nextGC, wanted,
                 vmRead, stale>>

(* One that is marked is unlinked and goes through obj_free.               *)
SweepFree ==
  /\ phase = "sweep" /\ rest # <<>> /\ Head(rest) \in isMarked
  /\ rest' = Tail(rest)
  /\ freed' = freed \cup {Head(rest)}
  /\ allocated' = allocated - Size[kind[Head(rest)]]
  /\ UNCHANGED <<objects, heap, strings, isMarked, gray, pending, phase, nextGC, wanted,
                 vmRead, stale>>

(* The end of gc_collect: gc_realloc goes on to allocate.                  *)
SweepEnd ==
  /\ phase = "sweep" /\ rest = <<>>
  /\ nextGC' = allocated * 2
  /\ phase' = "allocate"
  /\ stale' = {} /\ freed' = {}
  /\ UNCHANGED <<objects, rest, heap, strings, isMarked, gray, pending, allocated, wanted,
                 vmRead>>

Collect ==
  MarkObject \/ BlackenObject \/ RemoveWhite \/ SweepKeep \/ SweepFree \/ SweepEnd

Program ==
  \/ \E o \in Heap : Hold(o) \/ Release(o)
  \/ \E o, p \in Heap : Link(o, p)
  \/ \E k \in Kinds : GcRealloc(k)
  \/ \E o \in Objects : AllocObj(o)
  \/ GcFree

Next == Program \/ Collect

Spec == Init /\ [][Next]_vars

(* gc_collect runs to its end before the program goes on.                  *)
FairSpec == Spec /\ WF_vars(Collect)

-----------------------------------------------------------------------------
TypeOK ==
  /\ objects \in Seq(Objects) /\ rest \in Seq(Objects)
  /\ kind \in [Objects -> Kinds]
  /\ refs \in [Objects -> SUBSET Objects]
  /\ roots \subseteq Objects /\ strings \subseteq Objects
  /\ isMarked \subseteq Objects /\ stale \subseteq Objects /\ freed \subseteq Objects
  /\ gray \in Seq(Objects) /\ pending \subseteq Objects
  /\ phase \in {"run", "mark", "sweep", "allocate", "crashed", "closed"}
  /\ wanted \in Kinds \cup {"none"}
  /\ allocated \in Nat /\ nextGC \in Nat
  /\ vmRead \in BOOLEAN

(* What a collection should mark: the least set with the roots in it and,  *)
(* with every object that was not marked before, what that refers to.      *)
Closed(S) == roots \subseteq S /\ \A o \in S \ stale : refs[o] \subseteq S
Traced == {o \in Objects : \A S \in SUBSET Objects : Closed(S) => o \in S}

(* Between mark and sweep an object is marked if and only if it was before *)
(* or is reachable through objects that were not: marking stops only when  *)
(* nothing is left to find, and finds nothing else.                        *)
TraceExact == phase = "sweep" => isMarked = stale \cup Traced

(* While marking, an object is on the gray stack at most once, so the      *)
(* stack needs at most one entry for each object.                          *)
GrayOnce == IsInjective(gray) /\ ToSet(gray) \subseteq isMarked

(* The sweep keeps the list a list of the objects that are not freed, each *)
(* once, and frees none twice.                                             *)
ListSound ==
  /\ IsInjective(objects) /\ IsInjective(rest) /\ ToSet(objects) \cap ToSet(rest) = {}
  /\ Heap \cap freed = {}
  /\ phase = "sweep" => ToSet(objects) \cap isMarked = {} /\ freed \subseteq isMarked

(* gc->allocated is the size of what is in the list and what is about to   *)
(* be: no object is lost from the list, none is accounted for twice.       *)
AllocatedExact ==
  allocated = Cardinality(Bytes) + (IF wanted = "none" THEN 0 ELSE Size[wanted])

(* A collection ends, unless it crashes.                                   *)
CollectionEnds == phase = "mark" ~> phase \in {"allocate", "crashed"}

(* What sweep calls the objects it frees: unreached (gc.c:163).  It is not *)
(* so even when every mark was clear as the collection began.              *)
Closure == {o \in Objects : \A S \in SUBSET Objects :
              (roots \subseteq S /\ \A p \in S : refs[p] \subseteq S) => o \in S}
FreesUnreached == phase = "sweep" /\ stale = {} => freed \cap Closure = {}
=============================================================================
