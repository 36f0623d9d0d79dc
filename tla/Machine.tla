-------------------------------- MODULE Machine --------------------------------
(***************************************************************************)
(* What vm.c promises a script: calls that nest, each with an operand      *)
(* stack of its own.  A call takes its callee and arguments from the       *)
(* caller's operands and gives one result back; nothing else passes        *)
(* between them but globals and maps.  Vm implements this on one array     *)
(* that all calls share.                                                   *)
(***************************************************************************)
EXTENDS Bytecode

CONSTANTS
  FramesMax, \* how deep calls may nest
  MaxMaps,   \* bound: maps a model run may make
  MaxRuns,   \* bound: scripts run one after the other
  Absent     \* marks an undefined global or a key a map lacks

VARIABLES
  calls,     \* the calls in progress: function, next instruction, operands
  globals,   \* the value of each global
  maps,      \* the contents of each map
  status,    \* "idle" between scripts, "running" in one, "closed"
  outcome,   \* how the last script ended
  runs       \* scripts run so far

vars == <<calls, globals, maps, status, outcome, runs>>

Keys == Nums \cup Strs
EmptyMap == [k \in Keys |-> Absent]
Field(m, k) == IF maps[m][k] = Absent THEN NullVal ELSE maps[m][k]

Init ==
  /\ calls = <<>>
  /\ globals = [s \in Strs |-> Absent]
  /\ maps = <<>>
  /\ status = "idle"
  /\ outcome = "none"
  /\ runs = 0

Call(f, work) == [fn |-> f, pc |-> 1, work |-> work]

-----------------------------------------------------------------------------
(* The host.                                                               *)

(* Run a source file; it may not compile.                                  *)
RunScript(f) ==
  /\ status = "idle" /\ runs < MaxRuns
  /\ runs' = runs + 1
  /\ \/ /\ calls' = <<Call(f, <<FunVal(f)>>)>>
        /\ status' = "running"
        /\ UNCHANGED outcome
     \/ outcome' = "compile error" /\ UNCHANGED <<calls, status>>
  /\ UNCHANGED <<globals, maps>>

Define(s, x) ==
  /\ status = "idle"
  /\ globals' = [globals EXCEPT ![s] = x]
  /\ UNCHANGED <<calls, maps, status, outcome, runs>>

Close ==
  /\ status = "idle"
  /\ status' = "closed"
  /\ globals' = [s \in Strs |-> Absent]
  /\ UNCHANGED <<calls, maps, outcome, runs>>

-----------------------------------------------------------------------------
(* One instruction of the innermost call.                                  *)

Top  == calls[Len(calls)]
I    == Code[Top.fn][Top.pc]
Arg(n) == Top.work[Len(Top.work) - n]
Const == Consts[Top.fn][I.a + 1]
Below(n) == SubSeq(Top.work, 1, Len(Top.work) - n)
Waiting == SubSeq(calls, 1, Len(calls) - 1)

At(op) == status = "running" /\ I.op = op

(* Go on at position p with the given operands.                            *)
Continue(p, work) ==
  /\ calls' = Append(Waiting, [fn |-> Top.fn, pc |-> p, work |-> work])
  /\ UNCHANGED <<status, outcome, runs>>

Fail ==
  /\ calls' = <<>> /\ status' = "idle" /\ outcome' = "runtime error"
  /\ UNCHANGED <<globals, maps, runs>>

(* Replace the n topmost operands by what is pushed.                       *)
Replace(n, pushed) ==
  Continue(Top.pc + 1, Below(n) \o pushed) /\ UNCHANGED <<globals, maps>>

Discard ==
  \/ At("PRINT") /\ Replace(I.a, <<>>)
  \/ At("POP") /\ Replace(1, <<>>)

Push ==
  \/ At("NIL") /\ Replace(0, <<NullVal>>)
  \/ At("TRUE") /\ Replace(0, <<Bool(TRUE)>>)
  \/ At("FALSE") /\ Replace(0, <<Bool(FALSE)>>)
  \/ At("CONST") /\ Replace(0, <<Const>>)
  \/ At("LD") /\ Replace(0, <<Top.work[I.a + 1]>>)

Store ==
  /\ At("ST")
  /\ Continue(Top.pc + 1, [Top.work EXCEPT ![I.a + 1] = Arg(0)])
  /\ UNCHANGED <<globals, maps>>

(* The operand may also stay as it is: see Vm on the order of evaluation.  *)
Unary ==
  \E op \in UnaryOps :
    /\ At(op)
    /\ LET rs == UnaryResults(op, Arg(0)) IN
       \/ \E r \in rs \cup {Arg(0)} : rs # {} /\ Replace(1, <<r>>)
       \/ rs = {} /\ Fail

Binary ==
  \E op \in BinaryOps :
    /\ At(op)
    /\ LET rs == BinaryResults(op, Arg(1), Arg(0)) IN
       \/ \E r \in rs : Replace(2, <<r>>)
       \/ rs = {} /\ Fail

Jump ==
  \/ At("JMP") /\ Continue(Top.pc + 1 + I.a, Top.work) /\ UNCHANGED <<globals, maps>>
  \/ /\ At("JMPF")
     /\ Continue(IF Falsey(Arg(0)) THEN Top.pc + 1 + I.a ELSE Top.pc + 1, Top.work)
     /\ UNCHANGED <<globals, maps>>

Global ==
  \/ /\ At("DEF") /\ Continue(Top.pc + 1, Below(1))
     /\ globals' = [globals EXCEPT ![Const] = Arg(0)] /\ UNCHANGED maps
  \/ At("GLD") /\ globals[Const] # Absent /\ Replace(0, <<globals[Const]>>)
  \/ /\ At("GST") /\ globals[Const] # Absent /\ Continue(Top.pc + 1, Top.work)
     /\ globals' = [globals EXCEPT ![Const] = Arg(0)] /\ UNCHANGED maps
  \/ (At("GLD") \/ At("GST")) /\ globals[Const] = Absent /\ Fail

(* A literal's elements become the values ..., 1, 0 of the new map: the    *)
(* last element is element 0.                                              *)
Literal ==
  LET n == I.a IN
  /\ At("MAP") /\ Len(maps) < MaxMaps
  /\ maps' = Append(maps, [k \in Keys |->
                IF k.type = "num" /\ k.v \in 0..n-1 THEN Arg(k.v) ELSE Absent])
  /\ Continue(Top.pc + 1, Below(n) \o <<MapVal(Len(maps) + 1)>>)
  /\ UNCHANGED globals

SetKey(m, k, x) == maps' = [maps EXCEPT ![m][k] = x] /\ UNCHANGED globals

Member ==
  \/ /\ At("GET")
     /\ \/ Arg(0).type = "map" /\ Replace(1, <<Field(Arg(0).v, Const)>>)
        \/ Arg(0).type # "map" /\ Fail
  \/ /\ At("SET")
     /\ \/ /\ Arg(1).type = "map" /\ Continue(Top.pc + 1, Below(2) \o <<Arg(0)>>)
           /\ SetKey(Arg(1).v, Const, Arg(0))
        \/ Arg(1).type # "map" /\ Fail

Indexable(m, k) == m.type = "map" /\ k.type \in IndexTypes

Element ==
  \/ /\ At("GETI")
     /\ \/ Indexable(Arg(1), Arg(0)) /\ Replace(2, <<Field(Arg(1).v, Arg(0))>>)
        \/ ~Indexable(Arg(1), Arg(0)) /\ Fail
  \/ /\ At("SETI")
     /\ \/ /\ Indexable(Arg(2), Arg(1)) /\ Continue(Top.pc + 1, Below(3) \o <<Arg(0)>>)
           /\ SetKey(Arg(2).v, Arg(1), Arg(0))
        \/ ~Indexable(Arg(2), Arg(1)) /\ Fail

(* A call takes the callee and its n arguments as its first operands.      *)
CallFunction ==
  LET n == I.a
      f == Arg(n)
      given == SubSeq(Top.work, Len(Top.work) - n, Len(Top.work))
      caller == [fn |-> Top.fn, pc |-> Top.pc + 1, work |-> Below(n + 1)]
  IN
  /\ At("CALL")
  /\ \/ /\ f.type = "fun" /\ n = Arity[f.v] /\ Len(calls) < FramesMax
        /\ calls' = Waiting \o <<caller, Call(f.v, given)>>
        /\ UNCHANGED <<globals, maps, status, outcome, runs>>
     \/ f.type = "cfn" /\ \E x \in Nums : Replace(n + 1, <<x>>)
     \/ /\ f.type = "fun" => n # Arity[f.v] \/ Len(calls) = FramesMax
        /\ f.type # "cfn"
        /\ Fail

(* A return gives its result to the caller's operands, or ends the script. *)
Return ==
  /\ At("RET")
  /\ IF Len(calls) = 1
     THEN /\ calls' = <<>> /\ status' = "idle" /\ outcome' = "ok"
          /\ UNCHANGED <<globals, maps, runs>>
     ELSE /\ calls' = [Waiting EXCEPT ![Len(Waiting)].work = Append(@, Arg(0))]
          /\ UNCHANGED <<globals, maps, status, outcome, runs>>

Step == Discard \/ Push \/ Store \/ Unary \/ Binary \/ Jump \/ Global \/ Literal
        \/ Member \/ Element \/ CallFunction \/ Return

Host ==
  \/ \E f \in Scripts : RunScript(f)
  \/ \E s \in Strs, c \in Natives : Define(s, Val("cfn", c))
  \/ Close

Next == Step \/ Host

Spec == Init /\ [][Next]_vars
=============================================================================
