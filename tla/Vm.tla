---------------------------------- MODULE Vm ----------------------------------
(***************************************************************************)
(* The virtual machine of vm.c: vm_execute's loop over one array of values *)
(* (stack, top) and one array of frames, each with the function, the ip    *)
(* STORE_FRAME saved and the place of its slots in the stack.  The ip of   *)
(* the innermost frame is a register, saved only before what may call or   *)
(* fail.  One step is one instruction, with everything it calls: vm_call,  *)
(* prepareCall, runtimeError, tab_set and tab_remove.                      *)
(*                                                                         *)
(* Nothing in the source checks the stack pointer: a PUSH with top at      *)
(* StackMax or an access below a frame's slots would overrun the array.    *)
(* StackDiscipline says that code as the compiler makes it never does.     *)
(***************************************************************************)
EXTENDS Bytecode

CONSTANTS
  FramesMax, \* FRAMES_MAX
  StackMax,  \* STACK_MAX
  MaxMaps,   \* bound: maps a model run may make
  MaxRuns,   \* bound: calls of vm_dofile
  Absent     \* marks an undefined global or a key a map lacks

ASSUME VmAssumption ==
  /\ FramesMax \in Nat \ {0}
  /\ StackMax \in Nat /\ StackMax >= 2 /\ StackMax >= FramesMax * MaxDepth
  /\ MaxRuns \in Nat
  /\ Absent \notin Value

VARIABLES
  stack,     \* vm->stack
  top,       \* vm->top, as an index
  frames,    \* vm->frames, up to frameCount
  ip,        \* the register ip of vm_execute
  globals,   \* vm->globals
  maps,      \* the table and hash of each map
  status,    \* "idle", "running" inside vm_execute, "closed" after vm_close
  outcome,   \* how the last vm_dofile ended
  trace,     \* the traceback of the last runtime error, innermost first
  runs       \* how often vm_dofile was called

vars == <<stack, top, frames, ip, globals, maps, status, outcome, trace, runs>>
host == <<status, outcome, trace, runs>>

Keys == Nums \cup Strs
EmptyMap == [k \in Keys |-> Absent]
Field(m, k) == IF maps[m][k] = Absent THEN NullVal ELSE maps[m][k]

Init ==
  /\ stack = [i \in 0..StackMax-1 |-> NullVal]
  /\ top = 0
  /\ frames = <<>>
  /\ ip = 1
  /\ globals = [s \in Strs |-> Absent]
  /\ maps = <<>>
  /\ status = "idle"
  /\ outcome = "none"
  /\ trace = <<>>
  /\ runs = 0

Frame(f, slots) == [fn |-> f, ip |-> 1, slots |-> slots]

-----------------------------------------------------------------------------
(* The host: vm_dofile up to vm_execute, set_global, vm_close.             *)

VmDofile(f) ==
  /\ status = "idle" /\ runs < MaxRuns
  /\ runs' = runs + 1
  /\ \/ /\ stack' = [stack EXCEPT ![top] = FunVal(f)]
        /\ top' = top + 1
        /\ frames' = Append(frames, Frame(f, top))
        /\ ip' = 1
        /\ status' = "running"
        /\ UNCHANGED outcome
     \/ outcome' = "compile error" /\ UNCHANGED <<stack, top, frames, ip, status>>
  /\ UNCHANGED <<globals, maps, trace>>

(* The name and the value are on the stack only while tab_set runs.        *)
SetGlobal(s, x) ==
  /\ status = "idle"
  /\ stack' = [stack EXCEPT ![top] = s, ![top + 1] = x]
  /\ globals' = [globals EXCEPT ![s] = x]
  /\ UNCHANGED <<top, frames, ip, maps, host>>

VmClose ==
  /\ status = "idle"
  /\ status' = "closed"
  /\ globals' = [s \in Strs |-> Absent]
  /\ UNCHANGED <<stack, top, frames, ip, maps, outcome, trace, runs>>

-----------------------------------------------------------------------------
(* vm_execute: one instruction.                                            *)

Innermost == frames[Len(frames)]
Slots == Innermost.slots
I == Code[Innermost.fn][ip]
Const == Consts[Innermost.fn][I.a + 1]
Peek(n) == stack[top - 1 - n]

At(op) == status = "running" /\ I.op = op

(* STORE_FRAME: the instruction has been read, so ip is past it.           *)
StoredFrames == [frames EXCEPT ![Len(frames)].ip = ip + 1]

(* runtimeError: the traceback, then resetStack.                           *)
RuntimeError(stored) ==
  /\ trace' = [i \in 1..Len(stored) |->
                 LET f == stored[Len(stored) + 1 - i] IN [fn |-> f.fn, at |-> f.ip - 1]]
  /\ top' = 0 /\ frames' = <<>>
  /\ status' = "idle" /\ outcome' = "runtime error"
  /\ UNCHANGED <<stack, ip, globals, maps, runs>>

(* Fault: report without saving the register first.                        *)
ErrorUnstored == RuntimeError(frames)

(* ERROR                                                                   *)
Error == RuntimeError(StoredFrames)

NextInstruction == ip' = ip + 1 /\ UNCHANGED <<frames, host>>

(* PRINT and POP only move top.                                            *)
Discard ==
  /\ \/ At("PRINT") /\ top' = top - I.a
     \/ At("POP") /\ top' = top - 1
  /\ NextInstruction /\ UNCHANGED <<stack, globals, maps>>

PushValue(x) ==
  /\ stack' = [stack EXCEPT ![top] = x]
  /\ top' = top + 1
  /\ NextInstruction /\ UNCHANGED <<globals, maps>>

Push ==
  \/ At("NIL") /\ PushValue(NullVal)
  \/ At("TRUE") /\ PushValue(Bool(TRUE))
  \/ At("FALSE") /\ PushValue(Bool(FALSE))
  \/ At("CONST") /\ PushValue(Const)
  \/ At("LD") /\ PushValue(stack[Slots + I.a])

Store ==
  /\ At("ST")
  /\ stack' = [stack EXCEPT ![Slots + I.a] = Peek(0)]
  /\ NextInstruction /\ UNCHANGED <<top, globals, maps>>

(* PUSH(...POP()...) moves top twice in one expression and C does not say  *)
(* which comes first.  Popping first replaces the operand by the result;   *)
(* pushing first reads the value above the operand, stores the result over *)
(* it and leaves the operand where it was.  The type checked is the        *)
(* operand's; the number an unchecked value makes is any number.           *)
Unary ==
  \E op \in UnaryOps :
    /\ At(op)
    /\ LET results == UnaryResults(op, Peek(0)) IN
       \/ /\ results # {}
          /\ \E r \in results : stack' = [stack EXCEPT ![top - 1] = r]
          /\ NextInstruction /\ UNCHANGED <<top, globals, maps>>
       \/ /\ results # {}
          /\ \E r \in IF op = "NOT" THEN Bools ELSE Nums : stack' = [stack EXCEPT ![top] = r]
          /\ NextInstruction /\ UNCHANGED <<top, globals, maps>>
       \/ results = {} /\ Error

Binary ==
  \E op \in BinaryOps :
    /\ At(op)
    /\ LET results == BinaryResults(op, Peek(1), Peek(0)) IN
       \/ /\ \E r \in results : stack' = [stack EXCEPT ![top - 2] = r]
          /\ top' = top - 1
          /\ NextInstruction /\ UNCHANGED <<globals, maps>>
       \/ results = {} /\ Error

(* Fault: the offset taken backwards.                                      *)
JumpBackwards ==
  /\ \/ At("JMP") /\ ip' = ip + 1 - I.a
     \/ At("JMPF") /\ ip' = IF Falsey(Peek(0)) THEN ip + 1 + I.a ELSE ip + 1
  /\ UNCHANGED <<stack, top, frames, globals, maps, host>>

(* JMPF leaves the condition on the stack; the code it reaches pops it.    *)
Jump ==
  /\ \/ At("JMP") /\ ip' = ip + 1 + I.a
     \/ At("JMPF") /\ ip' = IF Falsey(Peek(0)) THEN ip + 1 + I.a ELSE ip + 1
  /\ UNCHANGED <<stack, top, frames, globals, maps, host>>

Def ==
  /\ At("DEF")
  /\ globals' = [globals EXCEPT ![Const] = Peek(0)]
  /\ top' = top - 1
  /\ NextInstruction /\ UNCHANGED <<stack, maps>>

GetGlobal ==
  /\ At("GLD")
  /\ \/ globals[Const] # Absent /\ PushValue(globals[Const])
     \/ globals[Const] = Absent /\ Error

(* tab_set says the name was new: it is removed again and the run fails.   *)
AssignGlobal ==
  /\ At("GST")
  /\ \/ /\ globals[Const] # Absent
        /\ globals' = [globals EXCEPT ![Const] = Peek(0)]
        /\ NextInstruction /\ UNCHANGED <<stack, top, maps>>
     \/ globals[Const] = Absent /\ Error

(* OP_MAP: element i of the literal's hash is PEEK(i), the last one first. *)
MakeMap ==
  LET n == I.a IN
  /\ At("MAP") /\ Len(maps) < MaxMaps
  /\ maps' = Append(maps, [k \in Keys |->
                IF k.type = "num" /\ k.v \in 0..n-1 THEN Peek(k.v) ELSE Absent])
  /\ stack' = [stack EXCEPT ![top - n] = MapVal(Len(maps) + 1)]
  /\ top' = top - n + 1
  /\ NextInstruction /\ UNCHANGED globals

(* Replace n values by x, with map m's key k set to x when there is a key. *)
PopPush(n, x) ==
  /\ stack' = [stack EXCEPT ![top - n] = x]
  /\ top' = top - n + 1
  /\ NextInstruction /\ UNCHANGED globals

GetField ==
  /\ At("GET")
  /\ \/ Peek(0).type = "map" /\ PopPush(1, Field(Peek(0).v, Const)) /\ UNCHANGED maps
     \/ Peek(0).type # "map" /\ Error

(* Fault: pop the value and leave the map.                                 *)
SetFieldLeavesMap ==
  /\ At("SET")
  /\ \/ /\ Peek(1).type = "map"
        /\ maps' = [maps EXCEPT ![Peek(1).v][Const] = Peek(0)]
        /\ PopPush(1, Peek(0))
     \/ Peek(1).type # "map" /\ Error

SetField ==
  /\ At("SET")
  /\ \/ /\ Peek(1).type = "map"
        /\ maps' = [maps EXCEPT ![Peek(1).v][Const] = Peek(0)]
        /\ PopPush(2, Peek(0))
     \/ Peek(1).type # "map" /\ Error

Indexable(m, k) == m.type = "map" /\ k.type \in IndexTypes

GetIndex ==
  /\ At("GETI")
  /\ \/ Indexable(Peek(1), Peek(0)) /\ PopPush(2, Field(Peek(1).v, Peek(0))) /\ UNCHANGED maps
     \/ ~Indexable(Peek(1), Peek(0)) /\ Error

SetIndex ==
  /\ At("SETI")
  /\ \/ /\ Indexable(Peek(2), Peek(1))
        /\ maps' = [maps EXCEPT ![Peek(2).v][Peek(1)] = Peek(0)]
        /\ PopPush(3, Peek(0))
     \/ ~Indexable(Peek(2), Peek(1)) /\ Error

(* Fault: no limit on the frames.                                          *)
PrepareCallUnlimited(f, n) ==
  \/ n # Arity[f] /\ RuntimeError(StoredFrames)
  \/ /\ n = Arity[f]
     /\ frames' = Append(StoredFrames, Frame(f, top - n - 1))
     /\ ip' = 1
     /\ UNCHANGED <<stack, top, globals, maps, host>>

PrepareCall(f, n) ==
  \/ /\ n # Arity[f] \/ Len(frames) = FramesMax
     /\ RuntimeError(StoredFrames)
  \/ /\ n = Arity[f] /\ Len(frames) < FramesMax
     /\ frames' = Append(StoredFrames, Frame(f, top - n - 1))
     /\ ip' = 1
     /\ UNCHANGED <<stack, top, globals, maps, host>>

(* vm_call of a C function: its result replaces it and its arguments.      *)
CallNative(n) ==
  \E x \in Nums :
    /\ stack' = [stack EXCEPT ![top - n - 1] = x]
    /\ top' = top - n
    /\ frames' = StoredFrames
    /\ ip' = ip + 1
    /\ UNCHANGED <<globals, maps, host>>

VmCall ==
  LET n == I.a
      callee == Peek(n)
  IN
  /\ At("CALL")
  /\ \/ callee.type = "fun" /\ PrepareCall(callee.v, n)
     \/ callee.type = "cfn" /\ CallNative(n)
     \/ callee.type \notin {"fun", "cfn"} /\ RuntimeError(StoredFrames)

(* Fault: put the result on top of what the callee left.                   *)
RetKeepingLocals ==
  /\ At("RET")
  /\ IF Len(frames) = 1
     THEN /\ top' = top - 2 /\ frames' = <<>>
          /\ status' = "idle" /\ outcome' = "ok"
          /\ UNCHANGED <<stack, ip, globals, maps, trace, runs>>
     ELSE /\ stack' = [stack EXCEPT ![top - 2] = Peek(0)]
          /\ top' = top - 1
          /\ frames' = SubSeq(frames, 1, Len(frames) - 1)
          /\ ip' = frames[Len(frames) - 1].ip
          /\ UNCHANGED <<globals, maps, host>>

(* The outermost return ends vm_execute with VM_OK; any other puts the     *)
(* result where the callee was and reloads the caller's registers.         *)
Ret ==
  /\ At("RET")
  /\ IF Len(frames) = 1
     THEN /\ top' = top - 2 /\ frames' = <<>>
          /\ status' = "idle" /\ outcome' = "ok"
          /\ UNCHANGED <<stack, ip, globals, maps, trace, runs>>
     ELSE /\ stack' = [stack EXCEPT ![Slots] = Peek(0)]
          /\ top' = Slots + 1
          /\ frames' = SubSeq(frames, 1, Len(frames) - 1)
          /\ ip' = frames[Len(frames) - 1].ip
          /\ UNCHANGED <<globals, maps, host>>

Execute ==
  \/ Discard \/ Push \/ Store \/ Unary \/ Binary \/ Jump \/ Def \/ GetGlobal
  \/ AssignGlobal \/ MakeMap \/ GetField \/ SetField \/ GetIndex \/ SetIndex
  \/ VmCall \/ Ret

Host ==
  \/ \E f \in Scripts : VmDofile(f)
  \/ \E s \in Strs, c \in Natives : SetGlobal(s, Val("cfn", c))
  \/ VmClose

Next == Execute \/ Host

Spec == Init /\ [][Next]_vars

(* Inside vm_execute the thread goes from instruction to instruction.      *)
FairSpec == Spec /\ WF_vars(Execute)

-----------------------------------------------------------------------------
FrameType == [fn : Funs, ip : Nat \ {0}, slots : Nat]

(* A value a variable may hold: the map it refers to exists.               *)
Live == Scalar \cup [type : {"map"}, v : 1..Len(maps)]

TypeOK ==
  /\ stack \in [0..StackMax-1 -> Live]
  /\ top \in 0..StackMax
  /\ frames \in Seq(FrameType) /\ Len(frames) <= FramesMax
  /\ ip \in Nat \ {0}
  /\ globals \in [Strs -> Live \cup {Absent}]
  /\ maps \in Seq([Keys -> Live \cup {Absent}])
  /\ status \in {"idle", "running", "closed"}
  /\ outcome \in {"none", "ok", "compile error", "runtime error"}
  /\ runs \in Nat

(* The position a frame is at: the register's for the innermost frame.     *)
Position(i) == IF i = Len(frames) THEN ip ELSE frames[i].ip

(* A frame that waits for a call: its saved ip is past the call, and the   *)
(* callee's slots start at the callee and arguments it pushed.             *)
WaitsFor(i) ==
  LET f == frames[i] IN
  /\ f.ip - 1 \in DOMAIN Code[f.fn]
  /\ LET c == Code[f.fn][f.ip - 1] IN
     /\ c.op = "CALL"
     /\ c.a = Arity[frames[i + 1].fn]
     /\ frames[i + 1].slots = f.slots + Depth[f.fn][f.ip - 1] - c.a - 1

(* The stack is cut up among the frames without gap or overlap, each has   *)
(* as many values as its position in the code calls for, and between runs  *)
(* the stack is empty, whether the last script returned or failed.  So no  *)
(* instruction pops what is not its own, and top stays below STACK_MAX     *)
(* though nothing checks it.                                               *)
StackDiscipline ==
  /\ status = "running" <=> frames # <<>>
  /\ status # "running" => top = 0
  /\ status = "running" =>
       /\ frames[1].slots = 0 /\ frames[1].fn \in Scripts
       /\ \A i \in 1..Len(frames)-1 : WaitsFor(i)
       /\ ip \in DOMAIN Code[Innermost.fn]
       /\ top = Slots + Depth[Innermost.fn][ip] /\ top + Room(I) <= StackMax
       /\ \A i \in 1..Len(frames) : frames[i].slots <= (i - 1) * MaxDepth

(* The traceback names the instruction each frame was at: the innermost    *)
(* one that can fail, all others a call.                                   *)
Fallible == UnaryOps \cup BinaryOps \cup {"GLD", "GST", "GET", "SET", "GETI", "SETI", "CALL"}

TracebackSound ==
  outcome = "runtime error" =>
    /\ trace # <<>> /\ trace[Len(trace)].fn \in Scripts
    /\ \A i \in 1..Len(trace) :
         LET t == trace[i] IN
         /\ t.at \in DOMAIN Code[t.fn]
         /\ Code[t.fn][t.at].op \in IF i = 1 THEN Fallible ELSE {"CALL"}

(* Each frame's part of the stack, seen as a stack of its own.             *)
End(i) == IF i = Len(frames) THEN top ELSE frames[i + 1].slots

Calls ==
  [i \in 1..Len(frames) |->
     [fn   |-> frames[i].fn,
      pc   |-> Position(i),
      work |-> [j \in 1..(End(i) - frames[i].slots) |-> stack[frames[i].slots + j - 1]]]]

M == INSTANCE Machine WITH calls <- Calls

(* Calls are isolated from each other: on the shared array every           *)
(* instruction does what it would on an operand stack of its own call, a   *)
(* return restores the caller's operands with the result on top, and a     *)
(* failed assignment defines nothing.                                      *)
CallsImplemented == M!Spec

(* Every script ends: jumps only go forward and FRAMES_MAX bounds the      *)
(* recursion, which is all there is to repeat.                             *)
ScriptsEnd == (status = "running") ~> (status = "idle")

(* What code.h:29 says of JMPF, [-1, +0]: it takes the condition off the   *)
(* stack.  vm_execute only looks at it.                                    *)
JmpfPops == [][At("JMPF") => top' = top - 1]_vars
=============================================================================
