------------------------------- MODULE VmProofs -------------------------------
(***************************************************************************)
(* Proofs about Vm, for every compiled program BytecodeAssumption allows   *)
(* and every FRAMES_MAX and STACK_MAX: the invariants TLC checks on the    *)
(* scripts of MCVm hold.  They are inductive together: where a frame's     *)
(* part of the stack starts and ends follows from the instruction it is    *)
(* at, so the invariant only relates frames, ip and top to Depth.  The     *)
(* second part proves the refinement of Machine.                           *)
(***************************************************************************)
EXTENDS Vm, TLAPS, SequenceTheorems

Inv == TypeOK /\ StackDiscipline /\ TracebackSound

(* What one frame may use, counted for all frames, fits the stack.         *)
LEMMA FramesFit ==
  ASSUME NEW n \in Nat, n >= 1, n <= FramesMax
  PROVE  (n - 1) * MaxDepth + MaxDepth <= StackMax
<1>1. FramesMax \in Nat /\ MaxDepth \in Nat /\ StackMax \in Nat
  BY VmAssumption, BytecodeAssumption DEF VmAssumption, BytecodeAssumption
<1>2. FramesMax * MaxDepth <= StackMax
  BY VmAssumption DEF VmAssumption
<1> DEFINE D == MaxDepth  F == FramesMax
<1>3. (n - 1) * D + D = n * D
  BY <1>1
<1>4. F * D = n * D + (F - n) * D
  BY <1>1
<1>5. (F - n) * D >= 0
  BY <1>1
<1>6. n * D \in Nat /\ (F - n) * D \in Int /\ F * D \in Nat
  BY <1>1
<1> QED BY <1>1, <1>2, <1>3, <1>4, <1>5, <1>6

LEMMA TopInStack ==
  ASSUME TypeOK
  PROVE  top \in Nat /\ top <= StackMax /\ StackMax \in Nat /\ StackMax >= 2
<1>1. top \in 0..StackMax
  BY DEF TypeOK
<1>2. StackMax \in Nat /\ StackMax >= 2
  BY VmAssumption DEF VmAssumption
<1> QED BY <1>1, <1>2

LEMMA Sums ==
  ASSUME NEW s \in Nat, NEW d \in Nat, NEW r \in Nat, NEW before \in Nat,
         NEW D \in Nat, NEW S \in Nat,
         s <= before, before + D <= S, d + r <= D
  PROVE  s + d + r <= S /\ s + d \in 0..S
OBVIOUS

(* A waiting caller and its callee, one frame further.                     *)
LEMMA NextFrame ==
  ASSUME NEW n \in Nat, n >= 1
  PROVE  (n - 1) * MaxDepth + MaxDepth = n * MaxDepth
BY BytecodeAssumption DEF BytecodeAssumption

LEMMA Compiled == ASSUME NEW f \in Funs PROVE WellFormed(f)
BY BytecodeAssumption DEF BytecodeAssumption

(* A frame uses at most MaxDepth entries, one of which is the function.    *)
LEMMA DepthInFrame ==
  ASSUME NEW f \in Funs, NEW p \in DOMAIN Code[f]
  PROVE  Depth[f][p] \in 1..MaxDepth
<1>1. Code[f][p] \in Instr /\ Depth[f][p] \in Nat \ {0}
  BY Compiled DEF WellFormed, Balanced
<1>2. Room(Code[f][p]) \in Nat
  BY DEF Room
<1>3. Depth[f][p] + Room(Code[f][p]) <= MaxDepth
  BY Compiled DEF WellFormed, Bounded
<1> QED BY <1>1, <1>2, <1>3, BytecodeAssumption DEF BytecodeAssumption

(* What a running machine knows of its innermost frame.                    *)
LEMMA Here ==
  ASSUME TypeOK, StackDiscipline, status = "running"
  PROVE  /\ Len(frames) \in Nat /\ Len(frames) >= 1
         /\ Innermost \in FrameType /\ Innermost.fn \in Funs /\ Slots \in Nat
         /\ I \in Instr
         /\ Depth[Innermost.fn][ip] \in 1..MaxDepth
         /\ top \in Nat /\ top = Slots + Depth[Innermost.fn][ip]
         /\ Depth[Innermost.fn][ip] >= Needs(I) + 1
         /\ top + Room(I) <= StackMax
<1>1. frames \in Seq(FrameType) /\ frames # <<>>
  BY DEF TypeOK, StackDiscipline
<1>2. Len(frames) \in Nat /\ Len(frames) >= 1
  BY <1>1
<1>3. Innermost \in FrameType
  BY <1>1, <1>2 DEF Innermost
<1>4. Innermost.fn \in Funs /\ Slots \in Nat
  BY <1>3 DEF FrameType, Slots
<1>5. ip \in DOMAIN Code[Innermost.fn]
  BY DEF StackDiscipline
<1>6. WellFormed(Innermost.fn)
  BY <1>4, Compiled
<1>7. I \in Instr
  BY <1>5, <1>6 DEF WellFormed, Balanced, Bounded, I
<1>8. Depth[Innermost.fn][ip] \in 1..MaxDepth
  BY <1>4, <1>5, DepthInFrame
<1>9. Depth[Innermost.fn][ip] >= Needs(I) + 1
  BY <1>5, <1>6 DEF WellFormed, Balanced, Bounded, I
<1>10. top = Slots + Depth[Innermost.fn][ip] /\ top + Room(I) <= StackMax
  BY DEF StackDiscipline
<1>11. top \in Nat
  BY TopInStack
<1> QED BY <1>2, <1>3, <1>4, <1>7, <1>8, <1>9, <1>10, <1>11

(* An instruction's operands are values of its own frame.                  *)
LEMMA Operand ==
  ASSUME TypeOK, StackDiscipline, status = "running", NEW n \in Nat, n < Needs(I)
  PROVE  /\ Peek(n) \in Live
         /\ top - 1 - n \in 0..StackMax-1
<1>1. top \in Nat /\ top <= StackMax /\ StackMax \in Nat
  BY TopInStack
<1>2. Needs(I) \in Nat
  BY Here DEF Needs, Instr
<1>3. top >= Needs(I) + 1
  BY Here, <1>1, <1>2
<1>4. top - 1 - n \in 0..StackMax-1
  BY <1>1, <1>2, <1>3
<1>5. Peek(n) \in Live
  BY <1>4 DEF Peek, TypeOK
<1> QED BY <1>4, <1>5

-----------------------------------------------------------------------------
(* Steps inside a frame: one lemma for all instructions that go on to a    *)
(* successor and change the depth as Effect says.                          *)

LEMMA Moved ==
  ASSUME TypeOK, StackDiscipline, status = "running",
         frames' = frames, status' = status,
         ip' \in Successors(Innermost.fn, ip), top' = top + Effect(I)
  PROVE  StackDiscipline' /\ ip' \in Nat \ {0} /\ top' \in 0..StackMax
<1> DEFINE f == Innermost.fn  d == Depth[f][ip]
<1>1. f \in Funs /\ Len(frames) \in Nat /\ Len(frames) >= 1 /\ Slots \in Nat /\ top = Slots + d
  BY Here
<1>2. WellFormed(f)
  BY <1>1, Compiled
<1>3. ip \in DOMAIN Code[f]
  BY DEF StackDiscipline
<1>4. ip' \in DOMAIN Code[f] /\ Depth[f][ip'] = d + Effect(I)
  BY <1>2, <1>3 DEF WellFormed, Balanced, Bounded, I
<1>5. Code[f] \in Seq(Instr)
  BY <1>2 DEF WellFormed, Balanced, Bounded
<1>6. ip' \in Nat \ {0}
  BY <1>4, <1>5
<1>7. Depth[f][ip'] \in 1..MaxDepth /\ Depth[f][ip'] + Room(Code[f][ip']) <= MaxDepth
  <2> HIDE DEF f
  <2> QED BY <1>1, <1>2, <1>4, DepthInFrame DEF WellFormed, Bounded
<1>8. Innermost' = Innermost /\ Slots' = Slots
  BY DEF Innermost, Slots
<1>9. I' = Code[f][ip']
  BY <1>8 DEF I
<1>10. Slots <= (Len(frames) - 1) * MaxDepth
  BY <1>1 DEF StackDiscipline, Slots, Innermost
<1>11. Len(frames) <= FramesMax
  BY DEF TypeOK
<1>12. (Len(frames) - 1) * MaxDepth + MaxDepth <= StackMax
  BY <1>1, <1>11, FramesFit
<1>13. Room(I') \in {0, 1}
  BY DEF Room
<1>14. Effect(I) \in Int
  BY Here DEF Effect, Instr
<1>15. MaxDepth \in Nat /\ StackMax \in Nat
  BY BytecodeAssumption, VmAssumption DEF BytecodeAssumption, VmAssumption
<1>16. (Len(frames) - 1) * MaxDepth \in Nat
  BY <1>1, <1>15
<1>17. top' = Slots + Depth[f][ip']
  BY <1>1, <1>4, <1>7, <1>14, Here
<1>18. top' + Room(I') <= StackMax /\ top' \in 0..StackMax
  <2>1. Depth[f][ip'] \in Nat /\ Room(I') \in Nat /\ Depth[f][ip'] + Room(I') <= MaxDepth
    BY <1>7, <1>9, <1>13, <1>15
  <2> DEFINE e == Depth[f][ip']  r == Room(I')  b == (Len(frames) - 1) * MaxDepth
  <2>2. e \in Nat /\ r \in Nat /\ b \in Nat /\ e + r <= MaxDepth /\ Slots <= b
        /\ b + MaxDepth <= StackMax /\ Slots \in Nat
    BY <1>1, <1>10, <1>12, <1>16, <2>1
  <2>3. top' = Slots + e
    BY <1>17
  <2> HIDE DEF e, r, b
  <2>4. Slots + e + r <= StackMax /\ Slots + e \in 0..StackMax
    BY <1>15, <2>2, Sums
  <2>5. top' + r <= StackMax /\ top' \in 0..StackMax
    BY <2>3, <2>4
  <2> QED BY <2>5 DEF r
<1>19. \A i \in 1..Len(frames)-1 : WaitsFor(i)'
  BY DEF StackDiscipline, WaitsFor
<1>20. StackDiscipline'
  BY <1>4, <1>8, <1>9, <1>17, <1>18, <1>19 DEF StackDiscipline
<1> QED BY <1>6, <1>18, <1>20

-----------------------------------------------------------------------------
(* A runtime error: the traceback is made from the frames as they are, with *)
(* the register saved, before they are dropped.                            *)

LEMMA Stored ==
  ASSUME TypeOK, StackDiscipline, status = "running"
  PROVE  /\ Len(StoredFrames) = Len(frames)
         /\ StoredFrames \in Seq(FrameType)
         /\ \A i \in 1..Len(frames) :
              /\ StoredFrames[i].fn = frames[i].fn
              /\ StoredFrames[i].slots = frames[i].slots
              /\ StoredFrames[i].ip = IF i = Len(frames) THEN ip + 1 ELSE frames[i].ip
<1> DEFINE n == Len(frames)
<1>1. frames \in Seq(FrameType) /\ ip \in Nat \ {0}
  BY DEF TypeOK
<1>2. n \in Nat /\ n >= 1
  BY Here
<1>3. frames \in [1..n -> FrameType]
  BY <1>1
<1>4. \A i \in 1..n : frames[i] \in FrameType
  BY <1>3
<1>5. StoredFrames = [i \in 1..n |-> IF i = n THEN [frames[i] EXCEPT !.ip = ip + 1] ELSE frames[i]]
  BY <1>3, <1>2 DEF StoredFrames
<1>6. ASSUME NEW i \in 1..n
      PROVE  /\ StoredFrames[i] \in FrameType
             /\ StoredFrames[i].fn = frames[i].fn
             /\ StoredFrames[i].slots = frames[i].slots
             /\ StoredFrames[i].ip = IF i = n THEN ip + 1 ELSE frames[i].ip
  <2>1. CASE i = n
    <3>1. StoredFrames[i] = [frames[i] EXCEPT !.ip = ip + 1]
      BY <1>5, <2>1
    <3>2. frames[i] \in FrameType /\ ip + 1 \in Nat \ {0}
      BY <1>4, <1>1
    <3> QED BY <2>1, <3>1, <3>2 DEF FrameType
  <2>2. CASE i # n
    BY <1>4, <1>5, <2>2
  <2> QED BY <2>1, <2>2
<1>7. StoredFrames \in [1..n -> FrameType]
  BY <1>5, <1>6
<1>8. StoredFrames \in Seq(FrameType)
  BY <1>2, <1>7
<1>9. Len(StoredFrames) = n
  BY <1>2, <1>7, <1>8
<1> QED BY <1>6, <1>8, <1>9

LEMMA Failed ==
  ASSUME Inv, status = "running", I.op \in Fallible, RuntimeError(StoredFrames)
  PROVE  Inv'
<1> DEFINE n == Len(frames)
           entry(i) == [fn |-> StoredFrames[n + 1 - i].fn, at |-> StoredFrames[n + 1 - i].ip - 1]
<1>1. TypeOK /\ StackDiscipline
  BY DEF Inv
<1>2. n \in Nat /\ n >= 1 /\ Len(StoredFrames) = n
  BY <1>1, Here, Stored
<1>3. trace' = [i \in 1..n |-> entry(i)]
  BY <1>2 DEF RuntimeError
<1>4. ASSUME NEW i \in 1..n
      PROVE  /\ entry(i).fn = frames[n + 1 - i].fn
             /\ entry(i).at = IF i = 1 THEN ip ELSE frames[n + 1 - i].ip - 1
             /\ entry(i) \in [fn : Funs, at : Int]
  <2>1. n + 1 - i \in 1..n /\ (n + 1 - i = n <=> i = 1)
    BY <1>2
  <2>2. StoredFrames[n + 1 - i].ip = IF i = 1 THEN ip + 1 ELSE frames[n + 1 - i].ip
    BY <1>1, <2>1, Stored
  <2>3. StoredFrames[n + 1 - i].fn = frames[n + 1 - i].fn
    BY <1>1, <2>1, Stored
  <2>4. ip \in Nat
    BY <1>1 DEF TypeOK
  <2>5. frames[n + 1 - i] \in FrameType
    <3>1. frames \in Seq(FrameType)
      BY <1>1 DEF TypeOK
    <3> QED BY <2>1, <3>1
  <2>6. frames[n + 1 - i].fn \in Funs /\ frames[n + 1 - i].ip \in Nat
    BY <2>5 DEF FrameType
  <2> QED BY <2>2, <2>3, <2>4, <2>6
<1> HIDE DEF entry
<1> DEFINE T == [fn : Funs, at : Int]
<1>5. trace' \in [1..n -> T]
  BY <1>3, <1>4
<1>7. Len(trace') = n
  <2> HIDE DEF T
  <2>1. trace' \in Seq(T)
    BY <1>2, <1>5
  <2> QED BY <1>2, <1>5, <2>1
<1>8. frames[1].fn \in Scripts /\ \A i \in 1..n-1 : WaitsFor(i)
  BY <1>1 DEF StackDiscipline
<1>9. trace' # <<>> /\ trace'[n].fn \in Scripts
  <2>1. trace'[n].fn = frames[1].fn
    BY <1>2, <1>3, <1>4
  <2> QED BY <1>2, <1>7, <1>8, <2>1
<1>10. ASSUME NEW i \in 1..n
       PROVE  /\ trace'[i].at \in DOMAIN Code[trace'[i].fn]
              /\ Code[trace'[i].fn][trace'[i].at].op \in IF i = 1 THEN Fallible ELSE {"CALL"}
  <2>1. trace'[i] = entry(i)
    BY <1>3
  <2>2. CASE i = 1
    <3>1. trace'[i].fn = Innermost.fn /\ trace'[i].at = ip
      BY <1>2, <1>4, <2>1, <2>2 DEF Innermost
    <3> QED BY <1>1, <2>2, <3>1 DEF StackDiscipline, I
  <2>3. CASE i # 1
    <3>1. n + 1 - i \in 1..n-1
      BY <1>2, <2>3
    <3>2. WaitsFor(n + 1 - i)
      BY <1>8, <3>1
    <3>3. trace'[i].fn = frames[n + 1 - i].fn /\ trace'[i].at = frames[n + 1 - i].ip - 1
      BY <1>4, <2>1, <2>3
    <3> QED BY <2>3, <3>2, <3>3 DEF WaitsFor
  <2> QED BY <2>2, <2>3
<1>11. TracebackSound'
  BY <1>7, <1>9, <1>10 DEF TracebackSound, Fallible
<1>12. StackDiscipline'
  BY DEF RuntimeError, StackDiscipline
<1>13. TypeOK'
  <2>1. stack' = stack /\ ip' = ip /\ globals' = globals /\ maps' = maps /\ runs' = runs
        /\ top' = 0 /\ frames' = <<>> /\ status' = "idle" /\ outcome' = "runtime error"
    BY DEF RuntimeError
  <2>2. Live' = Live
    BY <2>1 DEF Live
  <2>3. top' \in 0..StackMax
    <3>1. StackMax \in Nat
      BY <1>1, TopInStack
    <3>2. 0 \in 0..StackMax
      BY <3>1
    <3>3. top' = 0
      BY <2>1
    <3> QED BY <3>2, <3>3
  <2>4. frames' \in Seq(FrameType) /\ Len(frames') <= FramesMax
    <3>1. FramesMax \in Nat
      BY VmAssumption DEF VmAssumption
    <3>2. <<>> \in Seq(FrameType) /\ Len(<<>>) = 0
      OBVIOUS
    <3>3. frames' = <<>>
      BY <2>1
    <3> QED BY <3>1, <3>2, <3>3
  <2> QED BY <1>1, <2>1, <2>2, <2>3, <2>4 DEF TypeOK
<1> QED BY <1>11, <1>12, <1>13 DEF Inv

-----------------------------------------------------------------------------
(* Values.                                                                 *)

LEMMA Kinds ==
  ASSUME NEW x \in Live
  PROVE  /\ x.type = "map" => x.v \in 1..Len(maps)
         /\ x.type = "fun" => x.v \in Funs
         /\ x.type \in IndexTypes => x \in Keys
<1>1. x.type = "map" => x.v \in 1..Len(maps)
  BY DEF Live, Scalar, Constant
<1>2. x.type = "fun" => x.v \in Funs
  BY DEF Live, Scalar, Constant
<1>3. ASSUME x.type = "num"  PROVE x \in Keys
  <2>1. x \in [type : {"num"}, v : Numbers]
    BY <1>3 DEF Live, Scalar, Constant
  <2>2. x.v \in Numbers /\ x = Val("num", x.v)
    BY <2>1 DEF Val
  <2> QED BY <2>2 DEF Keys, Nums
<1>4. ASSUME x.type = "str"  PROVE x \in Keys
  <2>1. x \in [type : {"str"}, v : Strings]
    BY <1>4 DEF Live, Scalar, Constant
  <2>2. x.v \in Strings /\ x = Val("str", x.v)
    BY <2>1 DEF Val
  <2> QED BY <2>2 DEF Keys, Strs
<1> QED BY <1>1, <1>2, <1>3, <1>4 DEF IndexTypes

LEMMA Scalars ==
  /\ Scalar \subseteq Live /\ Constant \subseteq Scalar
  /\ Nums \subseteq Scalar /\ Strs \subseteq Scalar /\ Bools \subseteq Scalar /\ NullVal \in Scalar
  /\ \A f \in Funs : FunVal(f) \in Scalar
  /\ \A c \in Natives : Val("cfn", c) \in Scalar
<1>1. Scalar \subseteq Live /\ Constant \subseteq Scalar
  BY DEF Live, Scalar
<1>2. Nums \subseteq Scalar /\ Strs \subseteq Scalar
  BY DEF Nums, Strs, Scalar, Constant, Val
<1>3. Bools \subseteq Scalar
  BY DEF Bools, Bool, Scalar, Val
<1>4. NullVal \in Scalar
  BY DEF NullVal, Scalar, Val
<1>5. (\A f \in Funs : FunVal(f) \in Scalar) /\ \A c \in Natives : Val("cfn", c) \in Scalar
  BY DEF FunVal, Scalar, Constant, Val
<1> QED BY <1>1, <1>2, <1>3, <1>4, <1>5

(* The results of the operators are no maps.                               *)
LEMMA Results ==
  ASSUME NEW op, NEW x, NEW y
  PROVE  /\ BinaryResults(op, x, y) \subseteq Live
         /\ UnaryResults(op, x) \subseteq Live
<1>1. \A b \in BOOLEAN : Bool(b) \in Bools
  BY DEF Bool, Bools
<1>2. Bool(Equal(x, y)) \in Bools /\ Bool(x.v < y.v) \in Bools /\ Bool(x.v <= y.v) \in Bools
      /\ Bool(Falsey(x)) \in Bools
  BY DEF Bool, Bools
<1>3. BinaryResults(op, x, y) \subseteq Bools \cup Nums \cup Strs
  BY <1>2 DEF BinaryResults
<1>4. UnaryResults(op, x) \subseteq Bools \cup Nums
  BY <1>2 DEF UnaryResults
<1> QED BY <1>3, <1>4, Scalars

(* Storing a value in the stack, wherever.                                 *)
LEMMA StackStored ==
  ASSUME TypeOK, NEW k, NEW x \in Live
  PROVE  [stack EXCEPT ![k] = x] \in [0..StackMax-1 -> Live]
BY DEF TypeOK

(* Constants of the function executed.                                     *)
LEMMA Named ==
  ASSUME TypeOK, StackDiscipline, status = "running",
         I.op \in {"DEF", "GLD", "GST", "GET", "SET"}
  PROVE  Const \in Strs /\ Const \in Keys
<1>1. WellFormed(Innermost.fn) /\ ip \in DOMAIN Code[Innermost.fn]
  BY Here, Compiled DEF StackDiscipline
<1>2. NamesString(Innermost.fn, I)
  BY <1>1 DEF WellFormed, Balanced, Bounded, I
<1> QED BY <1>2 DEF NamesString, Const, Keys

LEMMA Literal ==
  ASSUME TypeOK, StackDiscipline, status = "running", I.op = "CONST"
  PROVE  Const \in Live
<1>1. WellFormed(Innermost.fn) /\ ip \in DOMAIN Code[Innermost.fn]
  BY Here, Compiled DEF StackDiscipline
<1>2. Consts[Innermost.fn] \in Seq(Constant) /\ I.a + 1 \in DOMAIN Consts[Innermost.fn]
  BY <1>1 DEF WellFormed, Balanced, Bounded, I
<1>3. Const \in Constant
  BY <1>2 DEF Const
<1> QED BY <1>3, Scalars

LEMMA FieldLive ==
  ASSUME TypeOK, NEW m \in 1..Len(maps), NEW k \in Keys
  PROVE  Field(m, k) \in Live
<1>1. maps \in Seq([Keys -> Live \cup {Absent}])
  BY DEF TypeOK
<1>2. maps[m] \in [Keys -> Live \cup {Absent}]
  BY <1>1
<1> QED BY <1>2, Scalars DEF Field

LEMMA FieldSet ==
  ASSUME TypeOK, NEW m \in 1..Len(maps), NEW k \in Keys, NEW x \in Live
  PROVE  /\ [maps EXCEPT ![m][k] = x] \in Seq([Keys -> Live \cup {Absent}])
         /\ Len([maps EXCEPT ![m][k] = x]) = Len(maps)
<1> DEFINE T == [Keys -> Live \cup {Absent}]
<1>1. maps \in Seq(T)
  BY DEF TypeOK
<1>2. maps[m] \in T
  BY <1>1
<1>3. [maps[m] EXCEPT ![k] = x] \in T
  BY <1>2
<1> HIDE DEF T
<1>4. [maps EXCEPT ![m] = [maps[m] EXCEPT ![k] = x]] \in Seq(T)
      /\ Len([maps EXCEPT ![m] = [maps[m] EXCEPT ![k] = x]]) = Len(maps)
  BY <1>1, <1>3
<1>5. [maps EXCEPT ![m] = [maps[m] EXCEPT ![k] = x]] = [maps EXCEPT ![m][k] = x]
  OBVIOUS
<1> QED BY <1>4, <1>5 DEF T

-----------------------------------------------------------------------------
(* One lemma for the bookkeeping of every instruction that stays in its    *)
(* frame; each action only has to show where it goes on, what becomes of   *)
(* top, and that what it stores are values.                                *)

LEMMA Stepped ==
  ASSUME Inv, status = "running", frames' = frames, UNCHANGED host,
         ip' \in Successors(Innermost.fn, ip), top' = top + Effect(I),
         stack' \in [0..StackMax-1 -> Live'],
         globals' \in [Strs -> Live' \cup {Absent}],
         maps' \in Seq([Keys -> Live' \cup {Absent}])
  PROVE  Inv'
<1>1. TypeOK /\ StackDiscipline /\ TracebackSound
  BY DEF Inv
<1>2. status' = status /\ outcome' = outcome /\ trace' = trace /\ runs' = runs
  BY DEF host
<1>3. StackDiscipline' /\ ip' \in Nat \ {0} /\ top' \in 0..StackMax
  BY <1>1, <1>2, Moved
<1>4. TracebackSound'
  BY <1>1, <1>2 DEF TracebackSound
<1>5. TypeOK'
  <2>1. frames \in Seq(FrameType) /\ Len(frames) <= FramesMax
    BY <1>1 DEF TypeOK
  <2>2. status \in {"idle", "running", "closed"} /\ runs \in Nat
        /\ outcome \in {"none", "ok", "compile error", "runtime error"}
    BY <1>1 DEF TypeOK
  <2> QED BY <1>2, <1>3, <2>1, <2>2 DEF TypeOK
<1> QED BY <1>3, <1>4, <1>5 DEF Inv

(* No map is made: stack, globals or maps change within what they may hold. *)
LEMMA SteppedHere ==
  ASSUME Inv, status = "running", frames' = frames, UNCHANGED host,
         ip' \in Successors(Innermost.fn, ip), top' = top + Effect(I),
         stack' \in [0..StackMax-1 -> Live],
         globals' \in [Strs -> Live \cup {Absent}],
         maps' \in Seq([Keys -> Live \cup {Absent}]),
         Len(maps') = Len(maps)
  PROVE  Inv'
<1>1. Live' = Live
  BY DEF Live
<1> QED BY <1>1, Stepped

LEMMA Unchanged ==
  ASSUME Inv
  PROVE  /\ stack \in [0..StackMax-1 -> Live]
         /\ globals \in [Strs -> Live \cup {Absent}]
         /\ maps \in Seq([Keys -> Live \cup {Absent}])
BY DEF Inv, TypeOK

LEMMA Straight ==
  ASSUME I.op \notin {"RET", "JMP", "JMPF"}
  PROVE  ip + 1 \in Successors(Innermost.fn, ip)
BY DEF Successors, I

(* A value pushed, and a value replacing n others.                         *)
LEMMA Pushed ==
  ASSUME Inv, status = "running", I.op \in {"NIL", "TRUE", "FALSE", "CONST", "GLD", "LD"},
         NEW x \in Live, PushValue(x)
  PROVE  Inv'
<1>1. frames' = frames /\ ip' = ip + 1 /\ top' = top + 1 /\ globals' = globals /\ maps' = maps
      /\ stack' = [stack EXCEPT ![top] = x] /\ UNCHANGED host
  BY DEF PushValue, NextInstruction
<1>2. Effect(I) = 1
  BY DEF Effect, BinaryOps
<1>3. ip' \in Successors(Innermost.fn, ip)
  BY <1>1, Straight
<1>4. stack' \in [0..StackMax-1 -> Live]
  BY <1>1, StackStored DEF Inv
<1> QED BY <1>1, <1>2, <1>3, <1>4, SteppedHere, Unchanged

LEMMA Popped ==
  ASSUME Inv, status = "running", NEW n \in Nat, NEW x \in Live, PopPush(n, x),
         I.op \notin {"RET", "JMP", "JMPF"}, Effect(I) = 1 - n,
         maps' \in Seq([Keys -> Live \cup {Absent}]), Len(maps') = Len(maps)
  PROVE  Inv'
<1>1. frames' = frames /\ ip' = ip + 1 /\ top' = top - n + 1 /\ globals' = globals
      /\ stack' = [stack EXCEPT ![top - n] = x] /\ UNCHANGED host
  BY DEF PopPush, NextInstruction
<1>2. top' = top + Effect(I)
  <2>1. top \in Nat
    BY TopInStack DEF Inv
  <2> QED BY <1>1, <2>1
<1>3. ip' \in Successors(Innermost.fn, ip)
  BY <1>1, Straight
<1>4. stack' \in [0..StackMax-1 -> Live]
  BY <1>1, StackStored DEF Inv
<1> QED BY <1>1, <1>2, <1>3, <1>4, SteppedHere, Unchanged

-----------------------------------------------------------------------------
(* The instructions.                                                       *)

LEMMA InvDiscard == ASSUME Inv, Discard PROVE Inv'
<1>1. status = "running" /\ I.op \in {"PRINT", "POP"}
  BY DEF Discard, At
<1>2. frames' = frames /\ ip' = ip + 1 /\ UNCHANGED host /\ UNCHANGED <<stack, globals, maps>>
  BY DEF Discard, NextInstruction
<1>3. top' = top + Effect(I)
  <2>1. top \in Nat /\ I.a \in Nat
    BY <1>1, TopInStack, Here DEF Inv, Instr
  <2>2. CASE I.op = "PRINT"
    <3>1. top' = top - I.a
      BY <2>2 DEF Discard, At
    <3>2. Effect(I) = -I.a
      BY <2>1, <2>2 DEF Effect, BinaryOps
    <3> QED BY <2>1, <3>1, <3>2
  <2>3. CASE I.op = "POP"
    BY <2>1, <2>3 DEF Discard, At, Effect, BinaryOps
  <2> QED BY <1>1, <2>2, <2>3
<1>4. ip' \in Successors(Innermost.fn, ip)
  BY <1>1, <1>2, Straight
<1> QED BY <1>1, <1>2, <1>3, <1>4, SteppedHere, Unchanged

LEMMA InvPush == ASSUME Inv, Push PROVE Inv'
<1>1. status = "running" /\ I.op \in {"NIL", "TRUE", "FALSE", "CONST", "LD"}
  BY DEF Push, At
<1>2. PICK x \in Live : PushValue(x)
  <2>1. NullVal \in Live /\ Bool(TRUE) \in Live /\ Bool(FALSE) \in Live
    BY Scalars DEF Bools
  <2>2. CASE I.op = "NIL"
    BY <2>1, <2>2 DEF Push, At
  <2>3. CASE I.op = "TRUE"
    BY <2>1, <2>3 DEF Push, At
  <2>4. CASE I.op = "FALSE"
    BY <2>1, <2>4 DEF Push, At
  <2>5. CASE I.op = "CONST"
    <3>1. Const \in Live
      BY <1>1, <2>5, Literal DEF Inv
    <3> QED BY <2>5, <3>1 DEF Push, At
  <2>6. CASE I.op = "LD"
    <3>1. stack[Slots + I.a] \in Live
      <4>1. I.a \in Nat /\ Slots \in Nat /\ top <= StackMax /\ StackMax \in Nat
            /\ Depth[Innermost.fn][ip] \in Nat /\ top = Slots + Depth[Innermost.fn][ip]
        BY <1>1, Here, TopInStack, BytecodeAssumption DEF Inv, Instr, BytecodeAssumption
      <4>2. I.a < Depth[Innermost.fn][ip]
        BY <1>1, <2>6, Here, Compiled DEF Inv, StackDiscipline, WellFormed, Balanced, Bounded, I
      <4>3. Slots + I.a \in 0..StackMax-1
        BY <4>1, <4>2
      <4> QED BY <4>3, Unchanged
    <3> QED BY <2>6, <3>1 DEF Push, At
  <2> QED BY <1>1, <2>2, <2>3, <2>4, <2>5, <2>6
<1> QED BY <1>1, <1>2, Pushed

LEMMA InvStore == ASSUME Inv, Store PROVE Inv'
<1>1. status = "running" /\ I.op = "ST" /\ frames' = frames /\ ip' = ip + 1 /\ top' = top
      /\ UNCHANGED host /\ UNCHANGED <<globals, maps>>
      /\ stack' = [stack EXCEPT ![Slots + I.a] = Peek(0)]
  BY DEF Store, At, NextInstruction
<1>2. Needs(I) = 1 /\ Effect(I) = 0
  BY <1>1 DEF Needs, Effect, BinaryOps, UnaryOps
<1>3. Peek(0) \in Live
  BY <1>1, <1>2, Operand DEF Inv
<1>4. stack' \in [0..StackMax-1 -> Live]
  BY <1>1, <1>3, StackStored DEF Inv
<1>5. top' = top + Effect(I)
  BY <1>1, <1>2, TopInStack DEF Inv
<1>6. ip' \in Successors(Innermost.fn, ip)
  BY <1>1, Straight
<1> QED BY <1>1, <1>4, <1>5, <1>6, SteppedHere, Unchanged

LEMMA InvUnary == ASSUME Inv, Unary PROVE Inv'
<1>1. PICK op \in UnaryOps :
        /\ At(op)
        /\ \/ \E x \in Live, k \in {top - 1, top} :
                /\ stack' = [stack EXCEPT ![k] = x]
                /\ NextInstruction /\ UNCHANGED <<top, globals, maps>>
           \/ Error
  <2>1. PICK op \in UnaryOps :
          /\ At(op)
          /\ LET results == UnaryResults(op, Peek(0)) IN
             \/ /\ results # {}
                /\ \E r \in results : stack' = [stack EXCEPT ![top - 1] = r]
                /\ NextInstruction /\ UNCHANGED <<top, globals, maps>>
             \/ /\ results # {}
                /\ \E r \in IF op = "NOT" THEN Bools ELSE Nums : stack' = [stack EXCEPT ![top] = r]
                /\ NextInstruction /\ UNCHANGED <<top, globals, maps>>
             \/ results = {} /\ Error
    BY DEF Unary
  <2>2. UnaryResults(op, Peek(0)) \subseteq Live /\ Bools \subseteq Live /\ Nums \subseteq Live
    BY Results, Scalars
  <2> QED BY <2>1, <2>2
<1>2. status = "running" /\ I.op \in UnaryOps
  BY <1>1 DEF At
<1>3. CASE Error
  BY <1>2, <1>3, Failed DEF Error, Fallible
<1>4. ASSUME NEW x \in Live, NEW k, stack' = [stack EXCEPT ![k] = x],
             NextInstruction, UNCHANGED <<top, globals, maps>>
      PROVE  Inv'
  <2>1. frames' = frames /\ ip' = ip + 1 /\ top' = top /\ UNCHANGED host
        /\ globals' = globals /\ maps' = maps
    BY <1>4 DEF NextInstruction
  <2>2. Effect(I) = 0
    BY <1>2 DEF Effect, BinaryOps, UnaryOps
  <2>3. top' = top + Effect(I)
    BY <2>1, <2>2, TopInStack DEF Inv
  <2>4. stack' \in [0..StackMax-1 -> Live]
    BY <1>4, StackStored DEF Inv
  <2>5. ip' \in Successors(Innermost.fn, ip)
    BY <1>2, <2>1, Straight DEF UnaryOps
  <2> QED BY <1>2, <2>1, <2>3, <2>4, <2>5, SteppedHere, Unchanged
<1> QED BY <1>1, <1>3, <1>4

LEMMA InvBinary == ASSUME Inv, Binary PROVE Inv'
<1>1. PICK op \in BinaryOps :
        /\ At(op)
        /\ \/ \E x \in Live :
                /\ stack' = [stack EXCEPT ![top - 2] = x]
                /\ top' = top - 1
                /\ NextInstruction /\ UNCHANGED <<globals, maps>>
           \/ Error
  BY Results DEF Binary
<1>2. status = "running" /\ I.op \in BinaryOps
  BY <1>1 DEF At
<1>3. CASE Error
  BY <1>2, <1>3, Failed DEF Error, Fallible
<1>4. ASSUME NEW x \in Live, stack' = [stack EXCEPT ![top - 2] = x], top' = top - 1,
             NextInstruction, UNCHANGED <<globals, maps>>
      PROVE  Inv'
  <2>1. frames' = frames /\ ip' = ip + 1 /\ UNCHANGED host /\ globals' = globals /\ maps' = maps
    BY <1>4 DEF NextInstruction
  <2>2. Effect(I) = -1
    BY <1>2 DEF Effect, BinaryOps
  <2>3. top' = top + Effect(I)
    BY <1>4, <2>2, TopInStack DEF Inv
  <2>4. stack' \in [0..StackMax-1 -> Live]
    BY <1>4, StackStored DEF Inv
  <2>5. ip' \in Successors(Innermost.fn, ip)
    BY <1>2, <2>1, Straight DEF BinaryOps
  <2> QED BY <1>2, <2>1, <2>3, <2>4, <2>5, SteppedHere, Unchanged
<1> QED BY <1>1, <1>3, <1>4

LEMMA InvJump == ASSUME Inv, Jump PROVE Inv'
<1>1. status = "running" /\ I.op \in {"JMP", "JMPF"}
      /\ UNCHANGED <<stack, top, frames, globals, maps, host>>
  BY DEF Jump, At
<1>2. Effect(I) = 0
  BY <1>1 DEF Effect, BinaryOps
<1>3. top' = top + Effect(I)
  BY <1>1, <1>2, TopInStack DEF Inv
<1>4. ip' \in Successors(Innermost.fn, ip)
  BY <1>1 DEF Jump, At, Successors, I
<1> QED BY <1>1, <1>3, <1>4, SteppedHere, Unchanged

LEMMA InvDef == ASSUME Inv, Def PROVE Inv'
<1>1. status = "running" /\ I.op = "DEF" /\ frames' = frames /\ ip' = ip + 1 /\ top' = top - 1
      /\ UNCHANGED host /\ UNCHANGED <<stack, maps>>
      /\ globals' = [globals EXCEPT ![Const] = Peek(0)]
  BY DEF Def, At, NextInstruction
<1>2. Needs(I) = 1 /\ Effect(I) = -1
  BY <1>1 DEF Needs, Effect, BinaryOps, UnaryOps
<1>3. Peek(0) \in Live
  BY <1>1, <1>2, Operand DEF Inv
<1>4. globals' \in [Strs -> Live \cup {Absent}]
  BY <1>1, <1>3, Unchanged
<1>5. top' = top + Effect(I)
  BY <1>1, <1>2, TopInStack DEF Inv
<1>6. ip' \in Successors(Innermost.fn, ip)
  BY <1>1, Straight
<1> QED BY <1>1, <1>4, <1>5, <1>6, SteppedHere, Unchanged

LEMMA InvGetGlobal == ASSUME Inv, GetGlobal PROVE Inv'
<1>1. status = "running" /\ I.op = "GLD"
  BY DEF GetGlobal, At
<1>2. CASE Error
  BY <1>1, <1>2, Failed DEF Error, Fallible
<1>3. CASE globals[Const] # Absent /\ PushValue(globals[Const])
  <2>1. globals[Const] \in Live
    BY <1>1, <1>3, Named, Unchanged DEF Inv
  <2> QED BY <1>1, <1>3, <2>1, Pushed
<1> QED BY <1>2, <1>3 DEF GetGlobal

LEMMA InvAssignGlobal == ASSUME Inv, AssignGlobal PROVE Inv'
<1>1. status = "running" /\ I.op = "GST"
  BY DEF AssignGlobal, At
<1>2. CASE Error
  BY <1>1, <1>2, Failed DEF Error, Fallible
<1>3. CASE globals' = [globals EXCEPT ![Const] = Peek(0)] /\ NextInstruction /\ UNCHANGED <<stack, top, maps>>
  <2>1. frames' = frames /\ ip' = ip + 1 /\ top' = top /\ UNCHANGED host /\ stack' = stack /\ maps' = maps
    BY <1>3 DEF NextInstruction
  <2>2. Needs(I) = 1 /\ Effect(I) = 0
    BY <1>1 DEF Needs, Effect, BinaryOps, UnaryOps
  <2>3. Peek(0) \in Live
    BY <1>1, <2>2, Operand DEF Inv
  <2>4. globals' \in [Strs -> Live \cup {Absent}]
    BY <1>3, <2>3, Unchanged
  <2>5. top' = top + Effect(I)
    BY <2>1, <2>2, TopInStack DEF Inv
  <2>6. ip' \in Successors(Innermost.fn, ip)
    BY <1>1, <2>1, Straight
  <2> QED BY <1>1, <2>1, <2>4, <2>5, <2>6, SteppedHere, Unchanged
<1> QED BY <1>2, <1>3 DEF AssignGlobal

LEMMA InvMakeMap == ASSUME Inv, MakeMap PROVE Inv'
<1> DEFINE n == I.a
           fresh == [k \in Keys |-> IF k.type = "num" /\ k.v \in 0..n-1 THEN Peek(k.v) ELSE Absent]
           x == MapVal(Len(maps) + 1)
<1>1. status = "running" /\ I.op = "MAP" /\ frames' = frames /\ ip' = ip + 1 /\ top' = top - n + 1
      /\ UNCHANGED host /\ globals' = globals /\ maps' = Append(maps, fresh)
      /\ stack' = [stack EXCEPT ![top - n] = x]
  BY DEF MakeMap, At, NextInstruction
<1>2. n \in Nat
  BY <1>1, Here DEF Inv, Instr
<1>3. Needs(I) = n /\ Effect(I) = 1 - n
  BY <1>1, <1>2 DEF Needs, Effect, BinaryOps, UnaryOps
<1>4. top' = top + Effect(I)
  <2>1. top \in Nat
    BY TopInStack DEF Inv
  <2> HIDE DEF n
  <2> QED BY <1>1, <1>2, <1>3, <2>1
<1>5. fresh \in [Keys -> Live \cup {Absent}]
  <2>1. ASSUME NEW k, k \in 0..n-1  PROVE Peek(k) \in Live
    <3>1. k \in Nat /\ k < Needs(I)
      BY <1>2, <1>3, <2>1
    <3> QED BY <1>1, <3>1, Operand DEF Inv
  <2> QED BY <2>1
<1>6. maps \in Seq([Keys -> Live \cup {Absent}])
  BY Unchanged
<1>7. Len(maps) \in Nat /\ Len(maps') = Len(maps) + 1
      /\ maps' \in Seq([Keys -> Live \cup {Absent}])
  <2> DEFINE T == [Keys -> Live \cup {Absent}]
  <2>1. maps \in Seq(T) /\ fresh \in T /\ maps' = Append(maps, fresh)
    BY <1>1, <1>5, <1>6
  <2> HIDE DEF T, fresh
  <2>2. Len(maps) \in Nat /\ Len(maps') = Len(maps) + 1 /\ maps' \in Seq(T)
    BY <2>1
  <2> QED BY <2>2 DEF T
<1>8. Live \subseteq Live' /\ x \in Live'
  BY <1>7 DEF Live, MapVal, Val
<1>9. stack' \in [0..StackMax-1 -> Live']
  <2>1. stack \in [0..StackMax-1 -> Live']
    BY <1>8, Unchanged
  <2> QED BY <1>1, <1>8, <2>1
<1>10. globals' \in [Strs -> Live' \cup {Absent}]
  BY <1>1, <1>8, Unchanged
<1>11. maps' \in Seq([Keys -> Live' \cup {Absent}])
  <2> DEFINE T == [Keys -> Live \cup {Absent}]  T2 == [Keys -> Live' \cup {Absent}]
  <2>1. T \subseteq T2
    BY <1>8
  <2>2. maps' \in Seq(T)
    BY <1>7
  <2> HIDE DEF T, T2
  <2>3. maps' \in Seq(T2)
    BY <2>1, <2>2
  <2> QED BY <2>3 DEF T2
<1>12. ip' \in Successors(Innermost.fn, ip)
  BY <1>1, Straight
<1> QED BY <1>1, <1>4, <1>9, <1>10, <1>11, <1>12, Stepped

LEMMA InvGetField == ASSUME Inv, GetField PROVE Inv'
<1>1. status = "running" /\ I.op = "GET"
  BY DEF GetField, At
<1>2. Needs(I) = 1 /\ Effect(I) = 0
  BY <1>1 DEF Needs, Effect, BinaryOps, UnaryOps
<1>3. CASE Error
  BY <1>1, <1>3, Failed DEF Error, Fallible
<1>4. CASE Peek(0).type = "map" /\ PopPush(1, Field(Peek(0).v, Const)) /\ UNCHANGED maps
  <2>1. Peek(0) \in Live
    BY <1>1, <1>2, Operand DEF Inv
  <2>2. Field(Peek(0).v, Const) \in Live
    BY <1>1, <1>4, <2>1, Kinds, Named, FieldLive DEF Inv
  <2>3. Effect(I) = 1 - 1
    BY <1>2
  <2> QED BY <1>1, <1>4, <2>2, <2>3, Popped, Unchanged
<1> QED BY <1>3, <1>4 DEF GetField

LEMMA InvSetField == ASSUME Inv, SetField PROVE Inv'
<1>1. status = "running" /\ I.op = "SET"
  BY DEF SetField, At
<1>2. Needs(I) = 2 /\ Effect(I) = -1
  BY <1>1 DEF Needs, Effect, BinaryOps, UnaryOps
<1>3. CASE Error
  BY <1>1, <1>3, Failed DEF Error, Fallible
<1>4. CASE /\ Peek(1).type = "map"
           /\ maps' = [maps EXCEPT ![Peek(1).v][Const] = Peek(0)]
           /\ PopPush(2, Peek(0))
  <2>1. Peek(0) \in Live /\ Peek(1) \in Live
    BY <1>1, <1>2, Operand DEF Inv
  <2>2. Peek(1).v \in 1..Len(maps) /\ Const \in Keys
    BY <1>1, <1>4, <2>1, Kinds, Named DEF Inv
  <2>3. maps' \in Seq([Keys -> Live \cup {Absent}]) /\ Len(maps') = Len(maps)
    BY <1>4, <2>1, <2>2, FieldSet DEF Inv
  <2>4. Effect(I) = 1 - 2
    BY <1>2
  <2> QED BY <1>1, <1>4, <2>1, <2>3, <2>4, Popped
<1> QED BY <1>3, <1>4 DEF SetField

LEMMA InvGetIndex == ASSUME Inv, GetIndex PROVE Inv'
<1>1. status = "running" /\ I.op = "GETI"
  BY DEF GetIndex, At
<1>2. Needs(I) = 2 /\ Effect(I) = -1
  BY <1>1 DEF Needs, Effect, BinaryOps, UnaryOps
<1>3. CASE Error
  BY <1>1, <1>3, Failed DEF Error, Fallible
<1>4. CASE /\ Indexable(Peek(1), Peek(0))
           /\ PopPush(2, Field(Peek(1).v, Peek(0))) /\ UNCHANGED maps
  <2>1. Peek(0) \in Live /\ Peek(1) \in Live
    BY <1>1, <1>2, Operand DEF Inv
  <2>2. Peek(1).v \in 1..Len(maps) /\ Peek(0) \in Keys
    BY <1>4, <2>1, Kinds DEF Indexable
  <2>3. Field(Peek(1).v, Peek(0)) \in Live
    BY <2>2, FieldLive DEF Inv
  <2>4. Effect(I) = 1 - 2
    BY <1>2
  <2> QED BY <1>1, <1>4, <2>3, <2>4, Popped, Unchanged
<1> QED BY <1>3, <1>4 DEF GetIndex

LEMMA InvSetIndex == ASSUME Inv, SetIndex PROVE Inv'
<1>1. status = "running" /\ I.op = "SETI"
  BY DEF SetIndex, At
<1>2. Needs(I) = 3 /\ Effect(I) = -2
  BY <1>1 DEF Needs, Effect, BinaryOps, UnaryOps
<1>3. CASE Error
  BY <1>1, <1>3, Failed DEF Error, Fallible
<1>4. CASE /\ Indexable(Peek(2), Peek(1))
           /\ maps' = [maps EXCEPT ![Peek(2).v][Peek(1)] = Peek(0)]
           /\ PopPush(3, Peek(0))
  <2>1. Peek(0) \in Live /\ Peek(1) \in Live /\ Peek(2) \in Live
    BY <1>1, <1>2, Operand DEF Inv
  <2>2. Peek(2).v \in 1..Len(maps) /\ Peek(1) \in Keys
    BY <1>4, <2>1, Kinds DEF Indexable
  <2>3. maps' \in Seq([Keys -> Live \cup {Absent}]) /\ Len(maps') = Len(maps)
    BY <1>4, <2>1, <2>2, FieldSet DEF Inv
  <2>4. Effect(I) = 1 - 3
    BY <1>2
  <2> QED BY <1>1, <1>4, <2>1, <2>3, <2>4, Popped
<1> QED BY <1>3, <1>4 DEF SetIndex

-----------------------------------------------------------------------------
(* Calls and returns: the frames change.                                   *)

LEMMA FramesTyped ==
  ASSUME TypeOK
  PROVE  /\ frames \in Seq(FrameType) /\ Len(frames) \in Nat /\ Len(frames) <= FramesMax
         /\ \A i \in 1..Len(frames) : frames[i] \in FrameType /\ frames[i].fn \in Funs
                                      /\ frames[i].slots \in Nat /\ frames[i].ip \in Nat \ {0}
<1>1. frames \in Seq(FrameType) /\ Len(frames) <= FramesMax
  BY DEF TypeOK
<1>2. \A i \in 1..Len(frames) : frames[i] \in FrameType
  BY <1>1
<1> QED BY <1>1, <1>2 DEF FrameType

(* A frame at position p of its code, with the slots it may have, has room *)
(* for what the instruction there needs.                                   *)
LEMMA RoomAt ==
  ASSUME NEW f \in Funs, NEW p \in DOMAIN Code[f], NEW k \in Nat, k >= 1, k <= FramesMax,
         NEW s \in Nat, s <= (k - 1) * MaxDepth
  PROVE  /\ Depth[f][p] \in Nat /\ s + Depth[f][p] \in 0..StackMax
         /\ s + Depth[f][p] + Room(Code[f][p]) <= StackMax
<1> DEFINE d == Depth[f][p]  r == Room(Code[f][p])  b == (k - 1) * MaxDepth
<1>1. MaxDepth \in Nat /\ StackMax \in Nat
  BY BytecodeAssumption, VmAssumption DEF BytecodeAssumption, VmAssumption
<1>2. d \in Nat /\ d + r <= MaxDepth
  BY Compiled DEF WellFormed, Balanced, Bounded
<1>3. r \in Nat
  BY DEF Room
<1>4. b \in Nat /\ b + MaxDepth <= StackMax /\ s <= b
  BY <1>1, FramesFit
<1> HIDE DEF d, r, b
<1>5. s + d + r <= StackMax /\ s + d \in 0..StackMax
  BY <1>1, <1>2, <1>3, <1>4, Sums
<1> QED BY <1>2, <1>5 DEF d, r

LEMMA InvPrepareCall ==
  ASSUME Inv, status = "running", I.op = "CALL", Peek(I.a).type = "fun",
         PrepareCall(Peek(I.a).v, I.a)
  PROVE  Inv'
<1> DEFINE n == Len(frames)  f == Peek(I.a).v  s == top - I.a - 1
<1>1. TypeOK /\ StackDiscipline /\ TracebackSound
  BY DEF Inv
<1>2. CASE RuntimeError(StoredFrames)
  BY <1>2, Failed DEF Fallible
<1>3. CASE /\ I.a = Arity[f] /\ n < FramesMax
           /\ frames' = Append(StoredFrames, Frame(f, s))
           /\ ip' = 1
           /\ UNCHANGED <<stack, top, globals, maps, host>>
  <2>1. I.a \in Nat /\ Needs(I) = I.a + 1 /\ n \in Nat /\ n >= 1 /\ n < FramesMax
    <3>1. I \in Instr /\ n \in Nat /\ n >= 1
      BY <1>1, Here
    <3>2. I.a \in Nat
      BY <3>1 DEF Instr
    <3>3. Needs(I) = I.a + 1
      BY <3>2 DEF Needs, BinaryOps, UnaryOps
    <3> QED BY <1>3, <3>1, <3>2, <3>3
  <2>2. f \in Funs
    <3>1. Peek(I.a) \in Live
      BY <1>1, <2>1, Operand
    <3> QED BY <3>1, Kinds
  <2>3. Slots \in Nat /\ Depth[Innermost.fn][ip] \in Nat /\ Depth[Innermost.fn][ip] <= MaxDepth
        /\ top = Slots + Depth[Innermost.fn][ip] /\ Depth[Innermost.fn][ip] >= I.a + 2
        /\ MaxDepth \in Nat
    BY <1>1, <2>1, Here, BytecodeAssumption DEF BytecodeAssumption
  <2>4. /\ s \in Nat /\ s = Slots + Depth[Innermost.fn][ip] - I.a - 1
        /\ s <= Slots + MaxDepth /\ top = s + (I.a + 1)
    <3> DEFINE e == Depth[Innermost.fn][ip]  a == I.a
    <3>1. e \in Nat /\ a \in Nat /\ Slots \in Nat /\ e <= MaxDepth /\ e >= a + 2
          /\ top = Slots + e /\ s = top - a - 1 /\ MaxDepth \in Nat
      BY <2>1, <2>3
    <3> HIDE DEF e, a, s
    <3>2. s \in Nat /\ s = Slots + e - a - 1 /\ s <= Slots + MaxDepth /\ top = s + (a + 1)
      BY <3>1
    <3> QED BY <3>2 DEF e, a
  <2>5. s <= n * MaxDepth
    <3>1. Slots <= (n - 1) * MaxDepth
      BY <1>1, <2>1 DEF StackDiscipline, Slots, Innermost
    <3>2. (n - 1) * MaxDepth + MaxDepth = n * MaxDepth
      BY <2>1, NextFrame
    <3> DEFINE b == (n - 1) * MaxDepth  c == n * MaxDepth
    <3>3. b \in Nat /\ c \in Nat /\ Slots <= b /\ b + MaxDepth = c
      BY <2>1, <2>3, <3>1, <3>2
    <3>4. s <= Slots + MaxDepth
      BY <2>4
    <3> HIDE DEF b, c, s
    <3>5. s <= c
      BY <2>3, <2>4, <3>3, <3>4
    <3> QED BY <3>5 DEF c
  <2> HIDE DEF f, s
  <2>6. Frame(f, s) \in FrameType /\ Frame(f, s).fn = f /\ Frame(f, s).slots = s
    BY <2>2, <2>4 DEF Frame, FrameType
  <2>7. /\ frames' \in Seq(FrameType) /\ Len(frames') = n + 1
        /\ frames'[n + 1] = Frame(f, s)
        /\ \A i \in 1..n : frames'[i] = StoredFrames[i]
    <3>1. StoredFrames \in Seq(FrameType) /\ Len(StoredFrames) = n
      BY <1>1, Stored
    <3> QED BY <1>3, <2>1, <2>6, <3>1
  <2>8. \A i \in 1..n : /\ frames'[i].fn = frames[i].fn
                        /\ frames'[i].slots = frames[i].slots
                        /\ frames'[i].ip = IF i = n THEN ip + 1 ELSE frames[i].ip
    BY <1>1, <2>7, Stored
  <2>9. Innermost' = Frame(f, s) /\ Slots' = s /\ I' = Code[f][1]
    BY <1>3, <2>6, <2>7 DEF Innermost, Slots, I
  <2>10. 1 \in DOMAIN Code[f] /\ Depth[f][1] = I.a + 1
    BY <1>3, <2>2, Compiled DEF WellFormed, Balanced, Bounded, f
  <2>11. top = s + Depth[f][1]
    BY <2>4, <2>10
  <2>12. top + Room(Code[f][1]) <= StackMax
    <3>1. s <= ((n + 1) - 1) * MaxDepth
      BY <2>1, <2>5
    <3>2. n + 1 \in Nat /\ n + 1 >= 1 /\ n + 1 <= FramesMax
      BY <2>1, VmAssumption DEF VmAssumption
    <3>3. s + Depth[f][1] + Room(Code[f][1]) <= StackMax
      BY <2>2, <2>4, <2>10, <3>1, <3>2, RoomAt
    <3> QED BY <2>11, <3>3
  <2>13. ASSUME NEW i \in 1..n  PROVE WaitsFor(i)'
    <3>1. CASE i = n
      <4>1. frames'[i].ip - 1 = ip /\ frames'[i].fn = Innermost.fn /\ frames'[i].slots = Slots
        <5>1. ip \in Nat
          BY <1>1 DEF TypeOK
        <5> QED BY <2>1, <2>8, <3>1, <5>1 DEF Innermost, Slots
      <4>2. ip \in DOMAIN Code[Innermost.fn]
        BY <1>1 DEF StackDiscipline
      <4>3. frames'[i + 1].fn = f /\ frames'[i + 1].slots = s
        BY <2>6, <2>7, <3>1
      <4>4. I.a = Arity[f]
        BY <1>3 DEF f
      <4> QED BY <2>4, <4>1, <4>2, <4>3, <4>4 DEF WaitsFor, I
    <3>2. CASE i # n
      <4>1. i \in 1..n-1 /\ i + 1 \in 1..n
        BY <2>1, <3>2
      <4>2. WaitsFor(i)
        BY <1>1, <4>1 DEF StackDiscipline
      <4>3. frames'[i].fn = frames[i].fn /\ frames'[i].slots = frames[i].slots /\ frames'[i].ip = frames[i].ip
            /\ frames'[i + 1].fn = frames[i + 1].fn /\ frames'[i + 1].slots = frames[i + 1].slots
        BY <2>8, <3>2, <4>1
      <4> QED BY <4>2, <4>3 DEF WaitsFor
    <3> QED BY <3>1, <3>2
  <2>14. \A i \in 1..n+1 : frames'[i].slots <= (i - 1) * MaxDepth
    <3>1. \A i \in 1..n : frames'[i].slots <= (i - 1) * MaxDepth
      BY <1>1, <2>8 DEF StackDiscipline
    <3>2. frames'[n + 1].slots <= ((n + 1) - 1) * MaxDepth
      BY <2>1, <2>5, <2>6, <2>7
    <3>3. \A i \in 1..n+1 : i \in 1..n \/ i = n + 1
      BY <2>1
    <3> QED BY <3>1, <3>2, <3>3
  <2>15. frames'[1].slots = 0 /\ frames'[1].fn \in Scripts
    BY <1>1, <2>1, <2>8 DEF StackDiscipline
  <2>16. status' = status /\ top' = top /\ ip' = 1 /\ frames' # <<>>
    BY <1>3, <2>1, <2>7 DEF host
  <2>17. StackDiscipline'
    BY <2>1, <2>7, <2>9, <2>6, <2>10, <2>11, <2>12, <2>13, <2>14, <2>15, <2>16 DEF StackDiscipline
  <2>18. TypeOK'
    <3>1. Live' = Live
      BY <1>3 DEF Live
    <3>2. stack' = stack /\ top' = top /\ globals' = globals /\ maps' = maps
          /\ status' = status /\ outcome' = outcome /\ runs' = runs
      BY <1>3 DEF host
    <3>3. Len(frames') <= FramesMax
      BY <2>1, <2>7, VmAssumption DEF VmAssumption
    <3>4. ip' \in Nat \ {0}
      BY <1>3
    <3> QED BY <1>1, <2>7, <3>1, <3>2, <3>3, <3>4 DEF TypeOK
  <2>19. TracebackSound'
    BY <1>1, <1>3 DEF TracebackSound, host
  <2> QED BY <2>17, <2>18, <2>19 DEF Inv
<1> QED BY <1>2, <1>3 DEF PrepareCall

LEMMA InvVmCall == ASSUME Inv, VmCall PROVE Inv'
<1> DEFINE n == I.a
<1>1. status = "running" /\ I.op = "CALL"
  BY DEF VmCall, At
<1>2. CASE Peek(n).type = "fun" /\ PrepareCall(Peek(n).v, n)
  BY <1>1, <1>2, InvPrepareCall
<1>3. CASE RuntimeError(StoredFrames)
  BY <1>1, <1>3, Failed DEF Fallible
<1>4. ASSUME NEW x \in Nums,
             stack' = [stack EXCEPT ![top - n - 1] = x], top' = top - n,
             frames' = StoredFrames, ip' = ip + 1, UNCHANGED <<globals, maps, host>>
      PROVE  Inv'
  (* The caller's saved ip is of no consequence while it is the innermost. *)
  <2> DEFINE m == Len(frames)
  <2>1. TypeOK /\ StackDiscipline /\ TracebackSound
    BY DEF Inv
  <2>2. m \in Nat /\ m >= 1 /\ m <= FramesMax /\ I \in Instr /\ Slots \in Nat
        /\ Innermost.fn \in Funs /\ top \in Nat
    BY <1>1, <2>1, Here, FramesTyped
  <2>3. Effect(I) = -n /\ n \in Nat
    <3>1. n \in Nat
      BY <2>2 DEF Instr
    <3> QED BY <1>1, <3>1 DEF Effect, BinaryOps
  <2>4. ip + 1 \in Successors(Innermost.fn, ip)
    BY <1>1, Straight
  <2> DEFINE q == ip + 1
  <2>5. /\ q \in DOMAIN Code[Innermost.fn]
        /\ Depth[Innermost.fn][q] = Depth[Innermost.fn][ip] + Effect(I)
        /\ q \in Nat \ {0}
    <3>1. WellFormed(Innermost.fn) /\ ip \in DOMAIN Code[Innermost.fn]
      BY <2>1, <2>2, Compiled DEF StackDiscipline
    <3>2. q \in DOMAIN Code[Innermost.fn]
          /\ Depth[Innermost.fn][q] = Depth[Innermost.fn][ip] + Effect(I)
      BY <2>4, <3>1 DEF WellFormed, Balanced, Bounded, I
    <3>3. ip \in Nat
      BY <2>1 DEF TypeOK
    <3> QED BY <3>2, <3>3
  <2>6. /\ frames' \in Seq(FrameType) /\ Len(frames') = m
        /\ \A i \in 1..m : /\ frames'[i].fn = frames[i].fn
                           /\ frames'[i].slots = frames[i].slots
                           /\ i # m => frames'[i].ip = frames[i].ip
    BY <1>1, <1>4, <2>1, Stored
  <2>7. Innermost'.fn = Innermost.fn /\ Slots' = Slots /\ I' = Code[Innermost.fn][q]
    BY <1>4, <2>2, <2>6 DEF Innermost, Slots, I
  <2>8. top' = Slots + Depth[Innermost.fn][q]
    <3> DEFINE e == Depth[Innermost.fn][ip]  e2 == Depth[Innermost.fn][q]
    <3>1. e \in Nat /\ top = Slots + e /\ e2 = e + Effect(I) /\ top' = top - n
      BY <1>1, <1>4, <2>1, <2>5, Here, BytecodeAssumption DEF BytecodeAssumption
    <3> HIDE DEF e, e2, n
    <3>2. top' = Slots + e2
      BY <2>2, <2>3, <3>1
    <3> QED BY <3>2 DEF e2
  <2>9. top' \in 0..StackMax /\ top' + Room(I') <= StackMax
    <3>1. Slots <= (m - 1) * MaxDepth
      BY <2>1, <2>2 DEF StackDiscipline, Slots, Innermost
    <3> QED BY <2>2, <2>5, <2>7, <2>8, <3>1, RoomAt
  <2>10. ASSUME NEW i \in 1..m-1  PROVE WaitsFor(i)'
    <3>1. i \in 1..m /\ i # m /\ i + 1 \in 1..m
      BY <2>2
    <3>2. WaitsFor(i)
      BY <2>1 DEF StackDiscipline
    <3>3. frames'[i].fn = frames[i].fn /\ frames'[i].slots = frames[i].slots /\ frames'[i].ip = frames[i].ip
          /\ frames'[i + 1].fn = frames[i + 1].fn /\ frames'[i + 1].slots = frames[i + 1].slots
      BY <2>6, <3>1
    <3> QED BY <3>2, <3>3 DEF WaitsFor
  <2>11. \A i \in 1..m : frames'[i].slots <= (i - 1) * MaxDepth
    BY <2>1, <2>6 DEF StackDiscipline
  <2>12. frames'[1].slots = 0 /\ frames'[1].fn \in Scripts /\ frames' # <<>>
    BY <2>1, <2>2, <2>6 DEF StackDiscipline
  <2>13. status' = status /\ ip' = q
    BY <1>4 DEF host
  <2>14. StackDiscipline'
    BY <1>1, <2>5, <2>6, <2>7, <2>8, <2>9, <2>10, <2>11, <2>12, <2>13 DEF StackDiscipline
  <2>15. TypeOK'
    <3>1. Live' = Live
      BY <1>4 DEF Live
    <3>2. globals' = globals /\ maps' = maps /\ status' = status /\ outcome' = outcome /\ runs' = runs
      BY <1>4 DEF host
    <3>3. stack' \in [0..StackMax-1 -> Live]
      BY <1>4, <2>1, StackStored, Scalars
    <3>4. ip' \in Nat \ {0} /\ Len(frames') <= FramesMax
      BY <2>2, <2>5, <2>6, <2>13
    <3> QED BY <2>1, <2>6, <2>9, <3>1, <3>2, <3>3, <3>4 DEF TypeOK
  <2>16. TracebackSound'
    BY <1>4, <2>1 DEF TracebackSound, host
  <2> QED BY <2>14, <2>15, <2>16 DEF Inv
<1> QED BY <1>2, <1>3, <1>4 DEF VmCall, CallNative

LEMMA InvRet == ASSUME Inv, Ret PROVE Inv'
<1> DEFINE n == Len(frames)  k == n - 1
<1>1. TypeOK /\ StackDiscipline /\ TracebackSound /\ status = "running" /\ I.op = "RET"
  BY DEF Inv, Ret, At
<1>2. n \in Nat /\ n >= 1 /\ n <= FramesMax
  BY <1>1, Here, FramesTyped
<1>3. Needs(I) = 1
  BY <1>1 DEF Needs, BinaryOps, UnaryOps
<1>4. CASE n = 1
  <2>1. top' = top - 2 /\ frames' = <<>> /\ status' = "idle" /\ outcome' = "ok"
        /\ UNCHANGED <<stack, ip, globals, maps, trace, runs>>
    BY <1>4 DEF Ret
  <2>2. top' = 0
    <3>1. Slots = 0 /\ Innermost.fn \in Scripts /\ ip \in DOMAIN Code[Innermost.fn]
          /\ top = Slots + Depth[Innermost.fn][ip]
      BY <1>1, <1>4 DEF StackDiscipline, Innermost, Slots
    <3>2. Depth[Innermost.fn][ip] = 2
      BY <1>1, <3>1, Here, Compiled DEF WellFormed, Balanced, Bounded, I
    <3> QED BY <2>1, <3>1, <3>2
  <2>3. StackDiscipline'
    BY <2>1, <2>2 DEF StackDiscipline
  <2>4. TracebackSound'
    BY <2>1 DEF TracebackSound
  <2>5. TypeOK'
    <3>1. Live' = Live
      BY <2>1 DEF Live
    <3>2. top' \in 0..StackMax
      BY <2>2, <1>1, TopInStack
    <3>3. <<>> \in Seq(FrameType) /\ Len(<<>>) = 0 /\ 0 <= FramesMax
      BY <1>2, VmAssumption DEF VmAssumption
    <3>4. frames' \in Seq(FrameType) /\ Len(frames') <= FramesMax
      <4>1. frames' = <<>>
        BY <2>1
      <4> QED BY <3>3, <4>1
    <3> QED BY <1>1, <2>1, <3>1, <3>2, <3>4 DEF TypeOK
  <2> QED BY <2>3, <2>4, <2>5 DEF Inv
<1>5. CASE n # 1
  <2>1. /\ stack' = [stack EXCEPT ![Slots] = Peek(0)]
        /\ top' = Slots + 1
        /\ frames' = SubSeq(frames, 1, k)
        /\ ip' = frames[k].ip
        /\ UNCHANGED <<globals, maps, host>>
    BY <1>5 DEF Ret
  <2>2. k \in Nat /\ k >= 1 /\ k <= FramesMax /\ k \in 1..n-1 /\ k \in 1..n
    <3>1. FramesMax \in Nat
      BY VmAssumption DEF VmAssumption
    <3> HIDE DEF n
    <3> QED BY <1>2, <1>5, <3>1
  <2>3. frames \in Seq(FrameType) /\ frames[k].fn \in Funs /\ frames[k].slots \in Nat
        /\ frames[k].ip \in Nat \ {0}
    BY <1>1, <2>2, FramesTyped
  <2>4. /\ frames' \in Seq(FrameType) /\ Len(frames') = k
        /\ \A i \in 1..k : frames'[i] = frames[i]
    BY <2>1, <2>2, <2>3
  <2> DEFINE g == frames[k].fn  q == frames[k].ip  c == Code[g][q - 1]
  <2>5. /\ q - 1 \in DOMAIN Code[g] /\ c.op = "CALL"
        /\ Slots = frames[k].slots + Depth[g][q - 1] - c.a - 1
    <3>1. WaitsFor(k)
      BY <1>1, <2>2 DEF StackDiscipline
    <3>2. frames[k + 1].slots = Slots
      BY <1>2 DEF Slots, Innermost
    <3> QED BY <3>1, <3>2 DEF WaitsFor
  <2>6. q \in DOMAIN Code[g] /\ Depth[g][q] = Depth[g][q - 1] + Effect(c)
    <3>1. WellFormed(g)
      BY <2>3, Compiled
    <3>2. (q - 1) + 1 = q
      BY <2>3
    <3>3. q \in Successors(g, q - 1)
      BY <2>5, <3>2 DEF Successors
    <3> QED BY <2>5, <3>1, <3>3 DEF WellFormed, Balanced, Bounded
  <2>7. c.a \in Nat /\ Effect(c) = -c.a /\ Depth[g][q - 1] \in Nat
    <3>1. WellFormed(g)
      BY <2>3, Compiled
    <3>2. c \in Instr
      <4>1. Code[g] \in Seq(Instr) /\ q - 1 \in DOMAIN Code[g]
        BY <2>5, <3>1 DEF WellFormed, Balanced, Bounded
      <4> HIDE DEF g, q
      <4> QED BY <4>1
    <3>3. c.a \in Nat
      BY <3>2 DEF Instr
    <3>4. Effect(c) = -c.a
      BY <2>5, <3>3 DEF Effect, BinaryOps
    <3>5. Depth[g][q - 1] \in 1..MaxDepth
      <4>1. g \in Funs /\ q - 1 \in DOMAIN Code[g]
        BY <2>3, <2>5
      <4> HIDE DEF g, q
      <4> QED BY <4>1, DepthInFrame
    <3> QED BY <3>3, <3>4, <3>5
  <2>8. top' = frames[k].slots + Depth[g][q]
    <3> DEFINE e == Depth[g][q - 1]  e2 == Depth[g][q]  a == c.a  s == frames[k].slots
    <3>1. e \in Nat /\ a \in Nat /\ e2 = e + (-a) /\ Slots = s + e - a - 1 /\ s \in Nat /\ top' = Slots + 1
      BY <2>1, <2>3, <2>5, <2>6, <2>7
    <3> HIDE DEF e, e2, a, s
    <3>2. top' = s + e2
      BY <3>1
    <3> QED BY <3>2 DEF s, e2
  <2>9. top' \in 0..StackMax /\ top' + Room(Code[g][q]) <= StackMax
    <3>1. frames[k].slots <= (k - 1) * MaxDepth
      BY <1>1, <2>2 DEF StackDiscipline
    <3> QED BY <2>2, <2>3, <2>6, <2>8, <3>1, RoomAt
  <2>10. Innermost' = frames[k] /\ Slots' = frames[k].slots /\ I' = Code[g][q]
    BY <2>1, <2>2, <2>4 DEF Innermost, Slots, I
  <2>11. ASSUME NEW i \in 1..k-1  PROVE WaitsFor(i)'
    <3>1. i \in 1..n-1 /\ i \in 1..k /\ i + 1 \in 1..k
      BY <1>2, <2>2
    <3>2. WaitsFor(i)
      BY <1>1, <3>1 DEF StackDiscipline
    <3>3. frames'[i] = frames[i] /\ frames'[i + 1] = frames[i + 1]
      BY <2>4, <3>1
    <3> QED BY <3>2, <3>3 DEF WaitsFor
  <2>12. \A i \in 1..k : frames'[i].slots <= (i - 1) * MaxDepth
    <3>1. \A i \in 1..k : i \in 1..n
      BY <1>2, <2>2
    <3> QED BY <1>1, <2>4, <3>1 DEF StackDiscipline
  <2>13. frames'[1].slots = 0 /\ frames'[1].fn \in Scripts /\ frames' # <<>>
    BY <1>1, <2>2, <2>4 DEF StackDiscipline
  <2>14. status' = status
    BY <2>1 DEF host
  <2>15. StackDiscipline'
    BY <1>1, <2>1, <2>4, <2>6, <2>8, <2>9, <2>10, <2>11, <2>12, <2>13, <2>14 DEF StackDiscipline
  <2>16. TypeOK'
    <3>1. Live' = Live
      BY <2>1 DEF Live
    <3>2. globals' = globals /\ maps' = maps /\ status' = status /\ outcome' = outcome /\ runs' = runs
      BY <2>1 DEF host
    <3>3. Peek(0) \in Live
      BY <1>1, <1>3, Operand
    <3>4. stack' \in [0..StackMax-1 -> Live]
      BY <1>1, <2>1, <3>3, StackStored
    <3>5. ip' \in Nat \ {0} /\ Len(frames') <= FramesMax
      BY <2>1, <2>2, <2>3, <2>4
    <3> QED BY <1>1, <2>4, <2>9, <3>1, <3>2, <3>4, <3>5 DEF TypeOK
  <2>17. TracebackSound'
    BY <1>1, <2>1 DEF TracebackSound, host
  <2> QED BY <2>15, <2>16, <2>17 DEF Inv
<1> QED BY <1>4, <1>5

-----------------------------------------------------------------------------
(* The host, and all of it together.                                       *)

LEMMA InvVmDofile == ASSUME Inv, NEW f \in Scripts, VmDofile(f) PROVE Inv'
<1>1. TypeOK /\ StackDiscipline /\ TracebackSound /\ status = "idle"
  BY DEF Inv, VmDofile
<1>2. top = 0 /\ frames = <<>>
  BY <1>1 DEF StackDiscipline
<1>3. f \in Funs /\ WellFormed(f) /\ Arity[f] = 0
  BY Compiled, BytecodeAssumption DEF BytecodeAssumption
<1>4. globals' = globals /\ maps' = maps /\ trace' = trace /\ runs' \in Nat
  <2>1. runs \in Nat
    BY <1>1 DEF TypeOK
  <2>2. runs' = runs + 1
    BY DEF VmDofile
  <2>3. globals' = globals /\ maps' = maps /\ trace' = trace
    BY DEF VmDofile
  <2> QED BY <2>1, <2>2, <2>3
<1>5. Live' = Live
  BY <1>4 DEF Live
<1>6. CASE outcome' = "compile error" /\ UNCHANGED <<stack, top, frames, ip, status>>
  <2>1. StackDiscipline'
    BY <1>1, <1>2, <1>6 DEF StackDiscipline
  <2>2. TracebackSound'
    BY <1>6 DEF TracebackSound
  <2>3. TypeOK'
    BY <1>1, <1>4, <1>5, <1>6 DEF TypeOK
  <2> QED BY <2>1, <2>2, <2>3 DEF Inv
<1>7. CASE /\ stack' = [stack EXCEPT ![top] = FunVal(f)]
           /\ top' = top + 1
           /\ frames' = Append(frames, Frame(f, top))
           /\ ip' = 1
           /\ status' = "running"
           /\ UNCHANGED outcome
  <2>1. top' = 1 /\ frames' = <<Frame(f, 0)>>
    BY <1>2, <1>7
  <2>2. Frame(f, 0) \in FrameType /\ Frame(f, 0).fn = f /\ Frame(f, 0).slots = 0
    BY <1>3 DEF Frame, FrameType
  <2>3. frames' \in Seq(FrameType) /\ Len(frames') = 1 /\ frames'[1] = Frame(f, 0) /\ frames' # <<>>
    BY <2>1, <2>2
  <2>4. Innermost' = Frame(f, 0) /\ Slots' = 0 /\ I' = Code[f][1]
    BY <1>7, <2>2, <2>3 DEF Innermost, Slots, I
  <2>5. 1 \in DOMAIN Code[f] /\ Depth[f][1] = 1
    BY <1>3 DEF WellFormed, Balanced, Bounded
  <2>6. FramesMax \in Nat /\ FramesMax >= 1 /\ MaxDepth \in Nat
    BY VmAssumption, BytecodeAssumption DEF VmAssumption, BytecodeAssumption
  <2>7. 0 <= (1 - 1) * MaxDepth
    BY <2>6
  <2>8. top' + Room(Code[f][1]) <= StackMax /\ top' \in 0..StackMax
    <3>1. /\ Depth[f][1] \in Nat /\ 0 + Depth[f][1] \in 0..StackMax
          /\ 0 + Depth[f][1] + Room(Code[f][1]) <= StackMax
      <4>1. 1 \in Nat /\ 0 \in Nat /\ 1 >= 1 /\ 1 <= FramesMax
        BY <2>6
      <4> QED BY <1>3, <2>5, <2>7, <4>1, RoomAt
    <3> QED BY <2>1, <2>5, <3>1
  <2>9. \A i \in 1..Len(frames')-1 : WaitsFor(i)'
    BY <2>3
  <2>10. \A i \in 1..Len(frames') : frames'[i].slots <= (i - 1) * MaxDepth
    BY <2>2, <2>3, <2>7
  <2>11. StackDiscipline'
    BY <1>7, <2>1, <2>2, <2>3, <2>4, <2>5, <2>8, <2>9, <2>10 DEF StackDiscipline
  <2>12. TracebackSound'
    BY <1>1, <1>4, <1>7 DEF TracebackSound
  <2>13. TypeOK'
    <3>1. stack' \in [0..StackMax-1 -> Live]
      BY <1>1, <1>3, <1>7, StackStored, Scalars
    <3>2. Len(frames') <= FramesMax /\ ip' \in Nat \ {0}
      BY <1>7, <2>3, <2>6
    <3> QED BY <1>1, <1>4, <1>5, <1>7, <2>3, <2>8, <3>1, <3>2 DEF TypeOK
  <2> QED BY <2>11, <2>12, <2>13 DEF Inv
<1> QED BY <1>6, <1>7 DEF VmDofile

LEMMA InvSetGlobal ==
  ASSUME Inv, NEW s \in Strs, NEW c \in Natives, SetGlobal(s, Val("cfn", c)) PROVE Inv'
<1> DEFINE x == Val("cfn", c)
<1>1. TypeOK /\ StackDiscipline /\ TracebackSound
  BY DEF Inv
<1>2. s \in Live /\ x \in Live
  BY Scalars
<1>3. stack' = [stack EXCEPT ![top] = s, ![top + 1] = x] /\ globals' = [globals EXCEPT ![s] = x]
      /\ top' = top /\ frames' = frames /\ ip' = ip /\ maps' = maps
      /\ status' = status /\ outcome' = outcome /\ trace' = trace /\ runs' = runs
      /\ status = "idle"
  BY DEF SetGlobal, host
<1>4. Live' = Live
  BY <1>3 DEF Live
<1>5. stack' \in [0..StackMax-1 -> Live] /\ globals' \in [Strs -> Live \cup {Absent}]
  BY <1>2, <1>3, Unchanged
<1>6. TypeOK'
  BY <1>1, <1>3, <1>4, <1>5 DEF TypeOK
<1>7. StackDiscipline' /\ TracebackSound'
  BY <1>1, <1>3 DEF StackDiscipline, TracebackSound
<1> QED BY <1>6, <1>7 DEF Inv

LEMMA InvVmClose == ASSUME Inv, VmClose PROVE Inv'
<1>1. TypeOK /\ StackDiscipline /\ TracebackSound
  BY DEF Inv
<1>2. status = "idle" /\ status' = "closed" /\ globals' = [s \in Strs |-> Absent]
      /\ UNCHANGED <<stack, top, frames, ip, maps, outcome, trace, runs>>
  BY DEF VmClose
<1>3. Live' = Live
  BY <1>2 DEF Live
<1>4. TypeOK'
  BY <1>1, <1>2, <1>3 DEF TypeOK
<1>5. StackDiscipline' /\ TracebackSound'
  BY <1>1, <1>2 DEF StackDiscipline, TracebackSound
<1> QED BY <1>4, <1>5 DEF Inv

LEMMA InitInv == Init => Inv
<1> SUFFICES ASSUME Init PROVE Inv
  OBVIOUS
<1>1. NullVal \in Live
  BY Scalars
<1>2. StackMax \in Nat /\ FramesMax \in Nat
  BY VmAssumption DEF VmAssumption
<1>3. <<>> \in Seq(FrameType) /\ Len(<<>>) = 0
  OBVIOUS
<1>4. <<>> \in Seq([Keys -> Live \cup {Absent}])
  OBVIOUS
<1>5. stack \in [0..StackMax-1 -> Live] /\ globals \in [Strs -> Live \cup {Absent}]
  BY <1>1 DEF Init
<1>6. top \in 0..StackMax /\ frames = <<>> /\ maps = <<>>
  BY <1>2 DEF Init
<1>7. TypeOK
  <2>1. frames \in Seq(FrameType) /\ Len(frames) <= FramesMax
    BY <1>2, <1>3, <1>6
  <2>2. maps \in Seq([Keys -> Live \cup {Absent}])
    BY <1>4, <1>6
  <2> QED BY <1>5, <1>6, <2>1, <2>2 DEF TypeOK, Init
<1>8. StackDiscipline /\ TracebackSound
  BY DEF Init, StackDiscipline, TracebackSound
<1> QED BY <1>7, <1>8 DEF Inv

LEMMA NextInv == Inv /\ [Next]_vars => Inv'
<1> SUFFICES ASSUME Inv, [Next]_vars PROVE Inv'
  OBVIOUS
<1>1. CASE UNCHANGED vars
  <2>1. TypeOK'
    BY <1>1 DEF Inv, TypeOK, Live, vars
  <2>2. StackDiscipline'
    BY <1>1 DEF Inv, StackDiscipline, WaitsFor, Innermost, Slots, I, vars
  <2>3. TracebackSound'
    BY <1>1 DEF Inv, TracebackSound, vars
  <2> QED BY <2>1, <2>2, <2>3 DEF Inv
<1>2. CASE Execute
  BY <1>2, InvDiscard, InvPush, InvStore, InvUnary, InvBinary, InvJump, InvDef, InvGetGlobal,
     InvAssignGlobal, InvMakeMap, InvGetField, InvSetField, InvGetIndex, InvSetIndex,
     InvVmCall, InvRet DEF Execute
<1>3. CASE Host
  BY <1>3, InvVmDofile, InvSetGlobal, InvVmClose DEF Host
<1> QED BY <1>1, <1>2, <1>3 DEF Next

(* Whatever the program: every reachable state satisfies the invariant.    *)
THEOREM VmInvariant == Spec => []Inv
BY InitInv, NextInv, PTL DEF Spec

(* Variables keep their types: no value refers to a map that does not      *)
(* exist, FRAMES_MAX is respected and top stays in the array.              *)
THEOREM VmTypeOK == Spec => []TypeOK
<1>1. Inv => TypeOK
  BY DEF Inv
<1> QED BY <1>1, VmInvariant, PTL

(* The stack pointer nothing checks never leaves the array, and each frame *)
(* has exactly the values its position in the code calls for.              *)
THEOREM VmStackDiscipline == Spec => []StackDiscipline
<1>1. Inv => StackDiscipline
  BY DEF Inv
<1> QED BY <1>1, VmInvariant, PTL

(* Tracebacks name an instruction that can fail, called through calls.     *)
THEOREM VmTracebackSound == Spec => []TracebackSound
<1>1. Inv => TracebackSound
  BY DEF Inv
<1> QED BY <1>1, VmInvariant, PTL

-----------------------------------------------------------------------------
(***************************************************************************)
(* Vm implements Machine: what an instruction does on the one array all    *)
(* frames share is what Machine says it does on an operand stack of its    *)
(* own call.  The parts the array is cut into do not overlap, for the      *)
(* frames' slots are in order, so what the innermost call stores leaves    *)
(* the others' parts as they are.                                          *)
(***************************************************************************)

(* A frame's slots begin above those of the frames before it.              *)
Ordered ==
  \A i, j \in 1..Len(frames) : i < j => frames[i].slots < frames[j].slots

CallInv == Inv /\ Ordered

-----------------------------------------------------------------------------
(* Sequences.                                                              *)

(* The entries of an array from b up to e, as a sequence.                  *)
Slice(s, b, e) == [j \in 1..(e - b) |-> s[b + j - 1]]

Holds(s, b, e, S) == \A k \in b..e-1 : s[k] \in S

LEMMA SliceSeq ==
  ASSUME NEW S, NEW s, NEW b \in Nat, NEW e \in Nat, b <= e, Holds(s, b, e, S)
  PROVE  Slice(s, b, e) \in Seq(S) /\ Len(Slice(s, b, e)) = e - b
<1>1. e - b \in Nat
  OBVIOUS
<1>2. ASSUME NEW j \in 1..e-b PROVE b + j - 1 \in b..e-1
  OBVIOUS
<1>3. Slice(s, b, e) \in [1..e-b -> S]
  BY <1>2 DEF Slice, Holds
<1> QED  BY <1>1, <1>3

LEMMA SliceAt ==
  ASSUME NEW s, NEW b, NEW e, NEW j \in 1..e-b
  PROVE  Slice(s, b, e)[j] = s[b + j - 1]
BY DEF Slice

LEMMA SameSequence ==
  ASSUME NEW S, NEW s \in Seq(S), NEW t \in Seq(S), Len(s) = Len(t),
         \A i \in 1..Len(s) : s[i] = t[i]
  PROVE  s = t
OBVIOUS

Agree(s, t, b, e) == \A k \in b..e-1 : s[k] = t[k]

(* Entries that are the same make the same slice.                          *)
LEMMA SliceKept ==
  ASSUME NEW s, NEW t, NEW b \in Nat, NEW e \in Nat, Agree(s, t, b, e)
  PROVE  Slice(s, b, e) = Slice(t, b, e)
<1>1. ASSUME NEW j \in 1..e-b PROVE s[b + j - 1] = t[b + j - 1]
  BY DEF Agree
<1> QED  BY <1>1 DEF Slice

(* What lies below an entry is the beginning of the slice.                 *)
LEMMA SliceBelow ==
  ASSUME NEW S, NEW s, NEW b \in Nat, NEW e \in Nat, NEW u \in Nat, b <= u, u <= e,
         Holds(s, b, e, S)
  PROVE  SubSeq(Slice(s, b, e), 1, Len(Slice(s, b, u))) = Slice(s, b, u)
<1>0. b <= e /\ Holds(s, b, u, S)
  BY DEF Holds
<1>1. Slice(s, b, e) \in Seq(S) /\ Len(Slice(s, b, e)) = e - b
  BY <1>0, SliceSeq
<1>2. Slice(s, b, u) \in Seq(S) /\ Len(Slice(s, b, u)) = u - b
  BY <1>0, SliceSeq
<1> DEFINE w == Slice(s, b, e)  v == Slice(s, b, u)  t == SubSeq(w, 1, Len(v))
<1> HIDE DEF w, v
<1>3. w \in Seq(S) /\ Len(w) = e - b /\ v \in Seq(S) /\ Len(v) = u - b
  BY <1>1, <1>2 DEF w, v
<1>4. Len(v) \in Nat /\ Len(v) <= Len(w)
  BY <1>3
<1>5. t \in Seq(S) /\ Len(t) = Len(v) /\ \A j \in 1..Len(v) : t[j] = w[j]
  BY <1>3, <1>4
<1>6. ASSUME NEW j \in 1..Len(v) PROVE w[j] = v[j]
  <2>1. j \in 1..u-b /\ j \in 1..e-b
    BY <1>3, <1>4
  <2> QED  BY <2>1, SliceAt DEF w, v
<1> HIDE DEF t
<1>7. t = v
  BY <1>3, <1>5, <1>6, SameSequence
<1> QED  BY <1>7 DEF t, w, v

IsPart(t, w, m, n) == t = SubSeq(w, m, n)

(* What lies above an entry is the end of the slice.                       *)
LEMMA SliceAbove ==
  ASSUME NEW S, NEW s, NEW b \in Nat, NEW e \in Nat, NEW u \in Nat, b <= u, u <= e,
         Holds(s, b, e, S), NEW m, m = u - b + 1, NEW n, n = e - b
  PROVE  IsPart(Slice(s, u, e), Slice(s, b, e), m, n)
<1>0. b <= e /\ Holds(s, b, u, S) /\ Holds(s, u, e, S)
  BY DEF Holds
<1>1. Slice(s, b, e) \in Seq(S) /\ Len(Slice(s, b, e)) = e - b
  BY <1>0, SliceSeq
<1>3. Slice(s, u, e) \in Seq(S) /\ Len(Slice(s, u, e)) = e - u
  BY <1>0, SliceSeq
<1> DEFINE w == Slice(s, b, e)  v == Slice(s, u, e)  t == SubSeq(w, m, n)
<1>4. w \in Seq(S) /\ Len(w) = e - b /\ v \in Seq(S) /\ Len(v) = e - u
  BY <1>1, <1>3
<1> HIDE DEF w, v
<1>5. m \in Nat /\ n \in Nat /\ m >= 1 /\ n = Len(w) /\ Len(v) = n - m + 1 /\ m <= n + 1
  BY <1>4
<1>6. t \in Seq(S) /\ Len(t) = Len(v) /\ \A j \in 1..Len(v) : t[j] = w[m + j - 1]
  BY <1>4, <1>5
<1>7. ASSUME NEW j \in 1..Len(v) PROVE w[m + j - 1] = v[j]
  <2>1. j \in 1..e-u /\ m + j - 1 \in 1..e-b /\ b + (m + j - 1) - 1 = u + j - 1
    BY <1>4
  <2> QED  BY <2>1 DEF w, v, Slice
<1> HIDE DEF t
<1>8. t = v
  BY <1>4, <1>6, <1>7, SameSequence
<1> QED  BY <1>8 DEF IsPart, t, w, v

(* One more entry.                                                         *)
LEMMA SliceAppend ==
  ASSUME NEW S, NEW s, NEW b \in Nat, NEW e \in Nat, b <= e, Holds(s, b, e + 1, S)
  PROVE  Slice(s, b, e + 1) = Slice(s, b, e) \o <<s[e]>>
<1> DEFINE u == e + 1
<1>0. b <= u /\ u \in Nat /\ Holds(s, b, e, S) /\ Holds(s, b, u, S) /\ s[e] \in S
  BY DEF Holds
<1>9. u = e + 1
  OBVIOUS
<1> HIDE DEF u
<1>1. Slice(s, b, e) \in Seq(S) /\ Len(Slice(s, b, e)) = e - b
  BY <1>0, SliceSeq
<1>2. Slice(s, b, u) \in Seq(S) /\ Len(Slice(s, b, u)) = u - b
  BY <1>0, SliceSeq
<1> DEFINE w == Slice(s, b, e)  v == Slice(s, b, u)  x == s[e]
<1>3. v[u - b] = x
  <2>1. u - b \in 1..u-b /\ b + (u - b) - 1 = e
    BY <1>9
  <2> QED  BY <2>1, SliceAt
<1>4. x \in S
  BY <1>0
<1>5. w \in Seq(S) /\ Len(w) = e - b /\ v \in Seq(S) /\ Len(v) = u - b
  BY <1>1, <1>2
<1>6. ASSUME NEW j \in 1..e-b PROVE w[j] = v[j]
  <2>1. j \in 1..u-b
    BY <1>9
  <2> QED  BY <2>1, SliceAt
<1> HIDE DEF w, v, x
<1>7. w \o <<x>> \in Seq(S) /\ Len(w \o <<x>>) = Len(w) + 1
      /\ (w \o <<x>>)[Len(w) + 1] = x /\ \A j \in 1..Len(w) : (w \o <<x>>)[j] = w[j]
  BY <1>4, <1>5
<1>8. Len(v) = Len(w) + 1 /\ Len(w) \in Nat /\ u - b = Len(w) + 1
  BY <1>5, <1>9
<1>10. ASSUME NEW j \in 1..Len(v) PROVE v[j] = (w \o <<x>>)[j]
  <2>1. CASE j = Len(w) + 1
    BY <1>3, <1>7, <1>8, <2>1
  <2>2. CASE j # Len(w) + 1
    <3>1. j \in 1..Len(w)
      BY <1>8, <2>2
    <3> QED  BY <1>5, <1>6, <1>7, <3>1
  <2> QED  BY <2>1, <2>2
<1>11. v = w \o <<x>>
  BY <1>5, <1>7, <1>8, <1>10, SameSequence
<1> QED  BY <1>9, <1>11 DEF w, v, x

IsAppended(w, v, x) == w = Append(v, x)

(* The same, of two arrays that agree below the new entry.                 *)
LEMMA SliceLonger ==
  ASSUME NEW S, NEW s, NEW s2, NEW b \in Nat, NEW e \in Nat, NEW u, u = e + 1, b <= e,
         Agree(s, s2, 0, e), Holds(s, 0, e, S)
  PROVE  IsAppended(Slice(s2, b, u), Slice(s, b, e), s2[e])
<1> DEFINE T == S \cup {s2[e]}
<1>1. Agree(s, s2, b, e) /\ Holds(s, b, e, T) /\ s2[e] \in T
  BY DEF Agree, Holds
<1>2. Holds(s2, b, e + 1, T)
  <2>1. ASSUME NEW j \in b..(e + 1)-1 PROVE s2[j] \in T
    <3>1. j = e \/ j \in b..e-1
      OBVIOUS
    <3> QED  BY <1>1, <3>1 DEF Agree, Holds
  <2> QED  BY <2>1 DEF Holds
<1> HIDE DEF T
<1>3. Slice(s2, b, e + 1) = Slice(s2, b, e) \o <<s2[e]>>
  BY <1>2, SliceAppend
<1>4. Slice(s, b, e) = Slice(s2, b, e)
  BY <1>1, SliceKept
<1>5. Slice(s, b, e) \in Seq(T)
  BY <1>1, SliceSeq
<1>6. Append(Slice(s, b, e), s2[e]) = Slice(s, b, e) \o <<s2[e]>>
  BY <1>1, <1>5
<1> QED  BY <1>3, <1>4, <1>6 DEF IsAppended

-----------------------------------------------------------------------------
(* The frames' slots stay in order.                                        *)

IsOrdered(fr) == \A i, j \in 1..Len(fr) : i < j => fr[i].slots < fr[j].slots

SameFrames(fr, fr2) ==
  /\ Len(fr2) = Len(fr)
  /\ \A i \in 1..Len(fr) : /\ fr2[i].fn = fr[i].fn /\ fr2[i].slots = fr[i].slots
                           /\ i # Len(fr) => fr2[i].ip = fr[i].ip

LEMMA KeptOrdered ==
  ASSUME NEW fr, NEW fr2, SameFrames(fr, fr2), IsOrdered(fr)
  PROVE  IsOrdered(fr2)
BY DEF SameFrames, IsOrdered

(* Saving the register changes no more than the innermost frame's ip.      *)
LEMMA StoredSame ==
  ASSUME Inv, status = "running"
  PROVE  SameFrames(frames, StoredFrames)
BY Stored DEF Inv, SameFrames

LEMMA FramesSame == SameFrames(frames, frames)
BY DEF SameFrames

(* A callee's slots begin among its caller's operands, above its slots.    *)
LEMMA OrderedPrepareCall ==
  ASSUME CallInv, status = "running", I.op = "CALL", NEW f,
         frames' = Append(StoredFrames, Frame(f, top - I.a - 1))
  PROVE  Ordered'
<1> DEFINE n == Len(frames)  s == top - I.a - 1
<1>1. Inv /\ TypeOK /\ StackDiscipline /\ IsOrdered(frames)
  BY DEF CallInv, Inv, Ordered, IsOrdered
<1>2. n \in Nat /\ n >= 1 /\ I \in Instr /\ Slots \in Nat
  BY <1>1, Here
<1>3. s > Slots
  <2>1. I.a \in Nat
    BY <1>2 DEF Instr
  <2>2. Needs(I) = I.a + 1
    BY <2>1 DEF Needs, BinaryOps, UnaryOps
  <2> DEFINE e == Depth[Innermost.fn][ip]  a == I.a
  <2>3. e \in Nat /\ top = Slots + e /\ e >= a + 2 /\ a \in Nat /\ s = top - a - 1
    BY <1>1, <2>1, <2>2, Here, BytecodeAssumption DEF BytecodeAssumption
  <2> HIDE DEF e, a, s
  <2> QED  BY <1>2, <2>3
<1>4. StoredFrames \in Seq(FrameType) /\ Len(StoredFrames) = n
      /\ \A i \in 1..n : StoredFrames[i].slots = frames[i].slots
  BY <1>1, Stored
<1> HIDE DEF s
<1> DEFINE g == Frame(f, s)
<1>5. frames' = Append(StoredFrames, g) /\ g.slots = s
  BY DEF s, Frame
<1> HIDE DEF g
<1>6. Len(frames') = n + 1 /\ frames'[n + 1].slots = s
      /\ \A i \in 1..n : frames'[i].slots = frames[i].slots
  BY <1>2, <1>4, <1>5
<1>7. \A i \in 1..n : frames[i].slots \in Nat /\ frames[i].slots <= Slots
  <2>1. Slots = frames[n].slots /\ \A i \in 1..n : frames[i].slots \in Nat
    BY <1>1, FramesTyped DEF Slots, Innermost
  <2> QED  BY <1>1, <1>2, <2>1 DEF IsOrdered
<1>8. top \in Int /\ I.a \in Nat /\ s \in Int
  BY <1>1, <1>2, Here DEF Instr, s
<1>9. ASSUME NEW i \in 1..n+1, NEW j \in 1..n+1, i < j
      PROVE  frames'[i].slots < frames'[j].slots
  <2>1. CASE j = n + 1
    <3>1. i \in 1..n
      BY <1>2, <1>9, <2>1
    <3> QED  BY <1>2, <1>3, <1>6, <1>7, <1>8, <2>1, <3>1
  <2>2. CASE j # n + 1
    <3>1. i \in 1..n /\ j \in 1..n
      BY <1>2, <1>9, <2>2
    <3> QED  BY <1>1, <1>6, <1>9, <3>1 DEF IsOrdered
  <2> QED  BY <2>1, <2>2
<1> QED  BY <1>6, <1>9 DEF Ordered

LEMMA OrderedNone == ASSUME frames' = <<>> PROVE Ordered'
BY DEF Ordered

LEMMA OrderedSame == ASSUME Ordered, SameFrames(frames, frames') PROVE Ordered'
BY DEF Ordered, SameFrames

LEMMA OrderedRet == ASSUME CallInv, Ret PROVE Ordered'
<1> DEFINE n == Len(frames)
<1>1. TypeOK /\ StackDiscipline /\ Ordered /\ status = "running"
  BY DEF CallInv, Inv, Ret, At
<1>2. n \in Nat /\ n >= 1 /\ frames \in Seq(FrameType)
  BY <1>1, Here DEF TypeOK
<1>3. CASE n = 1
  BY <1>3, OrderedNone DEF Ret
<1>4. CASE n # 1
  <2>1. frames' = SubSeq(frames, 1, n - 1)
    BY <1>4 DEF Ret
  <2>2. Len(frames') = n - 1 /\ \A i \in 1..n-1 : frames'[i] = frames[i]
    <3> DEFINE k == n - 1
    <3>1. k \in Nat /\ k >= 1 /\ k \in 1..n
      <4> HIDE DEF n
      <4> QED  BY <1>2, <1>4
    <3>2. frames' = SubSeq(frames, 1, k)
      BY <2>1
    <3> HIDE DEF k
    <3>3. frames' \in Seq(FrameType) /\ Len(frames') = k /\ \A i \in 1..k : frames'[i] = frames[i]
      BY <1>2, <3>1, <3>2
    <3> QED  BY <3>3 DEF k
  <2>3. ASSUME NEW i \in 1..n-1, NEW j \in 1..n-1, i < j
        PROVE  frames'[i].slots < frames'[j].slots
    <3>1. i \in 1..n /\ j \in 1..n
      BY <1>2
    <3> QED  BY <1>1, <2>2, <2>3, <3>1 DEF Ordered
  <2> QED  BY <2>2, <2>3 DEF Ordered
<1> QED  BY <1>3, <1>4

LEMMA OrderedVmCall == ASSUME CallInv, VmCall PROVE Ordered'
<1> DEFINE n == I.a  f == Peek(n).v
<1>1. status = "running" /\ I.op = "CALL" /\ Inv /\ Ordered
  BY DEF VmCall, At, CallInv
<1>2. CASE RuntimeError(StoredFrames)
  BY <1>2, OrderedNone DEF RuntimeError
<1>3. CASE frames' = StoredFrames
  BY <1>1, <1>3, StoredSame, OrderedSame
<1>4. CASE frames' = Append(StoredFrames, Frame(f, top - n - 1))
  BY <1>1, <1>4, OrderedPrepareCall
<1> QED  BY <1>2, <1>3, <1>4 DEF VmCall, PrepareCall, CallNative

LEMMA OrderedVmDofile == ASSUME CallInv, NEW f, VmDofile(f) PROVE Ordered'
<1>1. status = "idle" /\ StackDiscipline
  BY DEF VmDofile, CallInv, Inv
<1>2. frames = <<>>
  BY <1>1 DEF StackDiscipline
<1>3. CASE frames' = frames
  BY <1>2, <1>3, OrderedNone
<1>4. CASE frames' = Append(frames, Frame(f, top))
  <2>1. Len(frames') = 1
    BY <1>2, <1>4
  <2> QED  BY <2>1 DEF Ordered
<1> QED  BY <1>3, <1>4 DEF VmDofile

(* All other instructions keep the frames or drop them all.                *)
LEMMA OrderedStraight ==
  ASSUME CallInv, frames' = frames \/ frames' = <<>>
  PROVE  Ordered'
BY OrderedNone DEF CallInv, Ordered

LEMMA NextCallInv == CallInv /\ [Next]_vars => CallInv'
<1> SUFFICES ASSUME CallInv, [Next]_vars PROVE CallInv'
  OBVIOUS
<1>1. Inv'
  BY NextInv DEF CallInv
<1> SUFFICES Ordered'
  BY <1>1 DEF CallInv
<1>2. CASE UNCHANGED vars
  BY <1>2, OrderedStraight DEF vars
<1>3. CASE Discard \/ Push \/ Store \/ Jump \/ Def \/ MakeMap
  <2>1. frames' = frames
    BY <1>3 DEF Discard, Push, PushValue, Store, Jump, Def, MakeMap, NextInstruction
  <2> QED  BY <2>1, OrderedStraight
<1>4. CASE Unary
  <2>1. frames' = frames \/ frames' = <<>>
    BY <1>4 DEF Unary, NextInstruction, Error, RuntimeError
  <2> QED  BY <2>1, OrderedStraight
<1>5. CASE Binary
  <2>1. frames' = frames \/ frames' = <<>>
    BY <1>5 DEF Binary, NextInstruction, Error, RuntimeError
  <2> QED  BY <2>1, OrderedStraight
<1>6. CASE GetGlobal \/ AssignGlobal
  <2>1. frames' = frames \/ frames' = <<>>
    BY <1>6 DEF GetGlobal, AssignGlobal, PushValue, NextInstruction, Error, RuntimeError
  <2> QED  BY <2>1, OrderedStraight
<1>7. CASE GetField \/ SetField \/ GetIndex \/ SetIndex
  <2>1. frames' = frames \/ frames' = <<>>
    BY <1>7 DEF GetField, SetField, GetIndex, SetIndex, PopPush, NextInstruction, Error, RuntimeError
  <2> QED  BY <2>1, OrderedStraight
<1>8. CASE VmCall
  BY <1>8, OrderedVmCall
<1>9. CASE Ret
  BY <1>9, OrderedRet
<1>10. CASE Host
  <2>1. ASSUME NEW f \in Scripts, VmDofile(f) PROVE Ordered'
    BY <2>1, OrderedVmDofile
  <2>2. ASSUME NEW s \in Strs, NEW c \in Natives, SetGlobal(s, Val("cfn", c)) PROVE Ordered'
    BY <2>2, OrderedStraight DEF SetGlobal
  <2>3. CASE VmClose
    BY <2>3, OrderedStraight DEF VmClose
  <2> QED  BY <1>10, <2>1, <2>2, <2>3 DEF Host
<1> QED  BY <1>2, <1>3, <1>4, <1>5, <1>6, <1>7, <1>8, <1>9, <1>10 DEF Next, Execute

LEMMA InitCallInv == Init => CallInv
<1> SUFFICES ASSUME Init PROVE CallInv
  OBVIOUS
<1>1. Ordered
  BY DEF Init, Ordered
<1> QED  BY <1>1, InitInv DEF CallInv

(* Each frame's slots begin above those of the frames before it.           *)
THEOREM VmFramesOrdered == Spec => []CallInv
BY InitCallInv, NextCallInv, PTL DEF Spec

-----------------------------------------------------------------------------
(* The calls the frames stand for.                                         *)

CallOf(f, p, st, b, e) == [fn |-> f, pc |-> p, work |-> Slice(st, b, e)]

(* For any frames, stack, top and ip.                                      *)
CallsOf(fr, st, t, p) ==
  [i \in 1..Len(fr) |->
     CallOf(fr[i].fn, IF i = Len(fr) THEN p ELSE fr[i].ip, st, fr[i].slots,
            IF i = Len(fr) THEN t ELSE fr[i + 1].slots)]

LEMMA CallsAre ==
  /\ Calls = CallsOf(frames, stack, top, ip)
  /\ Calls' = CallsOf(frames', stack', top', ip')
<1>1. Calls = CallsOf(frames, stack, top, ip)
  BY DEF Calls, CallsOf, CallOf, Slice, Position, End
<1>2. Calls' = CallsOf(frames', stack', top', ip')
  BY DEF Calls, CallsOf, CallOf, Slice, Position, End
<1> QED  BY <1>1, <1>2

LEMMA CallsLen ==
  ASSUME NEW fr, NEW st, NEW t, NEW p, Len(fr) \in Nat
  PROVE  Len(CallsOf(fr, st, t, p)) = Len(fr)
BY DEF CallsOf

LEMMA CallsAt ==
  ASSUME NEW fr, NEW st, NEW t, NEW p, NEW i \in 1..Len(fr)
  PROVE  CallsOf(fr, st, t, p)[i]
           = CallOf(fr[i].fn, IF i = Len(fr) THEN p ELSE fr[i].ip, st, fr[i].slots,
                    IF i = Len(fr) THEN t ELSE fr[i + 1].slots)
BY DEF CallsOf

(* Any function on 1..n is a sequence of its own values.                   *)
ValuesOf(c) == {c[i] : i \in DOMAIN c}

LEMMA CallsSeq ==
  ASSUME NEW fr, NEW st, NEW t, NEW p, Len(fr) \in Nat
  PROVE  CallsOf(fr, st, t, p) \in Seq(ValuesOf(CallsOf(fr, st, t, p)))
<1> DEFINE n == Len(fr)  c == CallsOf(fr, st, t, p)
<1>1. DOMAIN c = 1..n
  BY DEF CallsOf
<1>2. c = [i \in 1..n |-> c[i]]
  BY DEF CallsOf
<1> HIDE DEF c
<1>3. c \in [1..n -> ValuesOf(c)]
  BY <1>1, <1>2 DEF ValuesOf
<1>4. c \in Seq(ValuesOf(c))
  BY <1>3
<1> QED  BY <1>4 DEF c

(* A waiting call is not touched by what happens above the slots of the    *)
(* frame after it.                                                         *)
FrameKept(fr, st, fr2, st2, i) ==
  /\ i \in 1..Len(fr) /\ i # Len(fr) /\ i \in 1..Len(fr2) /\ i # Len(fr2)
  /\ fr2[i].fn = fr[i].fn /\ fr2[i].ip = fr[i].ip /\ fr2[i].slots = fr[i].slots
  /\ fr2[i + 1].slots = fr[i + 1].slots
  /\ fr[i].slots \in Nat /\ fr[i + 1].slots \in Nat
  /\ Agree(st, st2, 0, fr[i + 1].slots)

LEMMA CallKept ==
  ASSUME NEW fr, NEW st, NEW t, NEW p, NEW fr2, NEW st2, NEW t2, NEW p2, NEW i,
         FrameKept(fr, st, fr2, st2, i)
  PROVE  CallsOf(fr2, st2, t2, p2)[i] = CallsOf(fr, st, t, p)[i]
<1> DEFINE b == fr[i].slots  e == fr[i + 1].slots
<1>1. i \in 1..Len(fr) /\ i \in 1..Len(fr2) /\ i # Len(fr) /\ i # Len(fr2)
      /\ fr2[i].fn = fr[i].fn /\ fr2[i].ip = fr[i].ip /\ fr2[i].slots = b
      /\ fr2[i + 1].slots = e
  BY DEF FrameKept
<1>2. b \in Nat /\ e \in Nat /\ Agree(st, st2, 0, e)
  BY DEF FrameKept
<1>3. CallsOf(fr2, st2, t2, p2)[i] = CallOf(fr[i].fn, fr[i].ip, st2, b, e)
  BY <1>1, CallsAt
<1>4. CallsOf(fr, st, t, p)[i] = CallOf(fr[i].fn, fr[i].ip, st, b, e)
  BY <1>1, CallsAt
<1> HIDE DEF b, e
<1>5. Agree(st, st2, b, e)
  BY <1>2 DEF Agree
<1>6. Slice(st, b, e) = Slice(st2, b, e)
  BY <1>2, <1>5, SliceKept
<1> QED  BY <1>3, <1>4, <1>6 DEF CallOf

AllButLast(c) == SubSeq(c, 1, Len(c) - 1)

SlotsTyped(fr) == \A i \in 1..Len(fr) : fr[i].slots \in Nat

(* What changes only the innermost frame's part makes one new call.        *)
LEMMA CallsMoved ==
  ASSUME NEW n \in Nat, n >= 1, NEW fr, NEW fr2, Len(fr) = n, SameFrames(fr, fr2),
         IsOrdered(fr), SlotsTyped(fr), NEW st, NEW st2, Agree(st, st2, 0, fr[n].slots),
         NEW t, NEW p, NEW t2, NEW p2
  PROVE  CallsOf(fr2, st2, t2, p2)
           = Append(AllButLast(CallsOf(fr, st, t, p)),
                    CallOf(fr[n].fn, p2, st2, fr[n].slots, t2))
<1> DEFINE c == CallsOf(fr, st, t, p)  d == CallsOf(fr2, st2, t2, p2)  k == n - 1
           x == CallOf(fr[n].fn, p2, st2, fr[n].slots, t2)  w == SubSeq(c, 1, k)
<1>1. Len(fr2) = n
  BY DEF SameFrames
<1>2. Len(c) = n /\ c \in Seq(ValuesOf(c)) /\ Len(d) = n /\ d \in Seq(ValuesOf(d))
  BY <1>1, CallsLen, CallsSeq
<1>3. d[n] = x
  <2>1. n \in 1..n /\ n \in 1..Len(fr2)
    BY <1>1
  <2>2. fr2[n].fn = fr[n].fn /\ fr2[n].slots = fr[n].slots
    BY <2>1 DEF SameFrames
  <2> QED  BY <1>1, <2>1, <2>2, CallsAt
<1>4. ASSUME NEW i \in 1..k PROVE d[i] = c[i]
  <2>1. i \in Nat /\ i >= 1 /\ i + 1 <= n /\ i \in 1..n /\ i + 1 \in 1..n /\ i # n
    OBVIOUS
  <2>2. /\ fr2[i].fn = fr[i].fn /\ fr2[i].ip = fr[i].ip /\ fr2[i].slots = fr[i].slots
        /\ fr2[i + 1].slots = fr[i + 1].slots
    BY <2>1 DEF SameFrames
  <2>3. fr[i].slots \in Nat /\ fr[i + 1].slots \in Nat /\ fr[n].slots \in Nat
    BY <2>1 DEF SlotsTyped
  <2>4. fr[i + 1].slots <= fr[n].slots
    BY <2>1, <2>3 DEF IsOrdered
  <2>5. Agree(st, st2, 0, fr[i + 1].slots)
    BY <2>3, <2>4 DEF Agree
  <2>6. FrameKept(fr, st, fr2, st2, i)
    BY <1>1, <2>1, <2>2, <2>3, <2>5 DEF FrameKept
  <2> QED  BY <2>6, CallKept
<1>5. k \in Nat /\ k <= n /\ n = k + 1
  OBVIOUS
<1> DEFINE S == ValuesOf(c) \cup ValuesOf(d)
<1>6. c \in Seq(S) /\ d \in Seq(S) /\ x \in S
  <2>1. c \in Seq(S) /\ d \in Seq(S)
    <3> DEFINE U == ValuesOf(c)  V == ValuesOf(d)
    <3>1. c \in Seq(U) /\ d \in Seq(V)
      BY <1>2
    <3> HIDE DEF U, V, c, d
    <3>2. c \in Seq(U \cup V) /\ d \in Seq(U \cup V)
      BY <3>1
    <3> QED  BY <3>2 DEF U, V
  <2>2. n \in DOMAIN d
    <3> HIDE DEF d
    <3> QED  BY <1>2
  <2>3. d[n] \in ValuesOf(d)
    BY <2>2 DEF ValuesOf
  <2> QED  BY <1>3, <2>1, <2>3
<1> HIDE DEF c, d, x, k, S
<1>7. w \in Seq(S) /\ Len(w) = k /\ \A i \in 1..k : w[i] = c[i]
  BY <1>2, <1>5, <1>6
<1> HIDE DEF w
<1>8. Append(w, x) \in Seq(S) /\ Len(Append(w, x)) = n /\ Append(w, x)[n] = x
      /\ \A i \in 1..k : Append(w, x)[i] = w[i]
  BY <1>5, <1>6, <1>7
<1>9. \A i \in 1..n : Append(w, x)[i] = d[i]
  <2>1. \A i \in 1..n : i \in 1..k \/ i = n
    BY <1>5
  <2> QED  BY <1>3, <1>4, <1>7, <1>8, <2>1
<1>10. Append(w, x) = d
  BY <1>2, <1>6, <1>8, <1>9, SameSequence
<1>11. w = AllButLast(c)
  BY <1>2 DEF AllButLast, w, k
<1> QED  BY <1>10, <1>11 DEF x, d, c

(* Calls d are calls c with the last one replaced by x, and y after it.    *)
ArePushed(d, c, x, y) == d = AllButLast(c) \o <<x, y>>

(* A callee takes the end of its caller's part of the stack.               *)
LEMMA CallsPushed ==
  ASSUME NEW n \in Nat, n >= 1, NEW fr, NEW fr2, NEW g, Len(fr) = n, fr2 \in Seq(FrameType),
         g \in FrameType, NEW f3, IsAppended(f3, fr2, g), SameFrames(fr, fr2), IsOrdered(fr),
         SlotsTyped(fr), NEW st, NEW t, NEW p, NEW t2, NEW p2
  PROVE  ArePushed(CallsOf(f3, st, t2, p2), CallsOf(fr, st, t, p),
                   CallOf(fr[n].fn, fr2[n].ip, st, fr[n].slots, g.slots),
                   CallOf(g.fn, p2, st, g.slots, t2))
<1> DEFINE c == CallsOf(fr, st, t, p)  d == CallsOf(f3, st, t2, p2)
           k == n - 1  x == CallOf(fr[n].fn, fr2[n].ip, st, fr[n].slots, g.slots)
           y == CallOf(g.fn, p2, st, g.slots, t2)  w == SubSeq(c, 1, k)
<1>1. Len(fr2) = n
  BY DEF SameFrames
<1>2. Len(f3) = n + 1 /\ f3[n + 1] = g /\ \A i \in 1..n : f3[i] = fr2[i]
  BY <1>1 DEF IsAppended
<1>3. Len(c) = n /\ c \in Seq(ValuesOf(c)) /\ Len(d) = n + 1 /\ d \in Seq(ValuesOf(d))
  BY <1>2, CallsLen, CallsSeq
<1>4. d[n + 1] = y
  <2>1. n + 1 \in 1..Len(f3)
    BY <1>2
  <2> QED  BY <1>2, <2>1, CallsAt
<1>5. d[n] = x
  <2>1. n \in 1..Len(f3) /\ n # Len(f3) /\ n \in 1..n
    BY <1>2
  <2>2. f3[n].fn = fr[n].fn /\ f3[n].slots = fr[n].slots /\ f3[n].ip = fr2[n].ip
        /\ f3[n + 1].slots = g.slots
    BY <1>2, <2>1 DEF SameFrames
  <2> QED  BY <2>1, <2>2, CallsAt
<1>6. ASSUME NEW i \in 1..k PROVE d[i] = c[i]
  <2>1. i \in Nat /\ i >= 1 /\ i + 1 <= n /\ i \in 1..n /\ i + 1 \in 1..n /\ i # n
    OBVIOUS
  <2>2. /\ f3[i].fn = fr[i].fn /\ f3[i].ip = fr[i].ip /\ f3[i].slots = fr[i].slots
        /\ f3[i + 1].slots = fr[i + 1].slots
    BY <1>2, <2>1 DEF SameFrames
  <2>3. fr[i].slots \in Nat /\ fr[i + 1].slots \in Nat
    BY <2>1 DEF SlotsTyped
  <2>4. Agree(st, st, 0, fr[i + 1].slots)
    BY DEF Agree
  <2>5. i \in 1..Len(f3) /\ i # Len(f3)
    BY <1>2, <2>1
  <2>6. FrameKept(fr, st, f3, st, i)
    BY <2>1, <2>2, <2>3, <2>4, <2>5 DEF FrameKept
  <2> QED  BY <2>6, CallKept
<1>7. k \in Nat /\ k <= n /\ n = k + 1
  OBVIOUS
<1> DEFINE S == ValuesOf(c) \cup ValuesOf(d)
<1>8. c \in Seq(S) /\ d \in Seq(S) /\ x \in S /\ y \in S
  <2>1. c \in Seq(S) /\ d \in Seq(S)
    <3> DEFINE U == ValuesOf(c)  V == ValuesOf(d)
    <3>1. c \in Seq(U) /\ d \in Seq(V)
      BY <1>3
    <3> HIDE DEF U, V, c, d
    <3>2. c \in Seq(U \cup V) /\ d \in Seq(U \cup V)
      BY <3>1
    <3> QED  BY <3>2 DEF U, V
  <2>2. n \in DOMAIN d /\ n + 1 \in DOMAIN d
    <3> HIDE DEF d
    <3> QED  BY <1>3
  <2>3. d[n] \in ValuesOf(d) /\ d[n + 1] \in ValuesOf(d)
    BY <2>2 DEF ValuesOf
  <2> QED  BY <1>4, <1>5, <2>1, <2>3
<1> HIDE DEF c, d, x, y, k, S
<1>9. w \in Seq(S) /\ Len(w) = k /\ \A i \in 1..k : w[i] = c[i]
  BY <1>3, <1>7, <1>8
<1> HIDE DEF w
<1> DEFINE r == w \o <<x, y>>
<1>10. r \in Seq(S) /\ Len(r) = n + 1 /\ r[n] = x /\ r[n + 1] = y
       /\ \A i \in 1..k : r[i] = w[i]
  BY <1>7, <1>8, <1>9
<1> HIDE DEF r
<1>11. \A i \in 1..n+1 : r[i] = d[i]
  <2>1. \A i \in 1..n+1 : i \in 1..k \/ i = n \/ i = n + 1
    BY <1>7
  <2> QED  BY <1>4, <1>5, <1>6, <1>9, <1>10, <2>1
<1>12. r = d
  BY <1>3, <1>8, <1>10, <1>11, SameSequence
<1>13. w = AllButLast(c)
  BY <1>3 DEF AllButLast, w, k
<1> QED  BY <1>12, <1>13 DEF ArePushed, x, y, d, c, r

(* Call d is call c with x pushed.                                         *)
HasOperand(d, c, x) == d = [c EXCEPT !.work = Append(@, x)]

LEMMA Returned ==
  ASSUME NEW f, NEW q, NEW st, NEW st2, NEW b, NEW e, NEW u, NEW x, NEW c, NEW d,
         c = CallOf(f, q, st, b, e), d = CallOf(f, q, st2, b, u),
         IsAppended(Slice(st2, b, u), Slice(st, b, e), x)
  PROVE  HasOperand(d, c, x)
<1> DEFINE v == Slice(st, b, e)  w == Append(v, x)
<1>1. c = [fn |-> f, pc |-> q, work |-> v] /\ d = [fn |-> f, pc |-> q, work |-> w]
  BY DEF CallOf, IsAppended
<1>2. c.work = v
  BY <1>1
<1>3. [c EXCEPT !.work = Append(@, x)] = [c EXCEPT !.work = w]
  BY <1>2
<1> HIDE DEF v, w
<1>4. [c EXCEPT !.work = w] = d
  BY <1>1
<1> QED  BY <1>3, <1>4 DEF HasOperand

IsFront(f2, fr, k) == f2 = SubSeq(fr, 1, k)

(* Calls d are calls c without the last one, and x pushed in the kth.      *)
IsReturned(d, c, k, x) == d = [AllButLast(c) EXCEPT ![k].work = Append(@, x)]

(* When the innermost frame returns, its caller has one operand more: what *)
(* lies where the frame's slots were.                                      *)
LEMMA CallsPopped ==
  ASSUME NEW n \in Nat, n >= 2, NEW fr \in Seq(FrameType), NEW k, k = n - 1, Len(fr) = n,
         IsOrdered(fr), SlotsTyped(fr), NEW st, NEW st2, NEW S, NEW e, e = fr[n].slots,
         Agree(st, st2, 0, e), Holds(st, 0, e, S), NEW u, u = e + 1, NEW q, q = fr[k].ip,
         NEW t, NEW p, NEW f2, IsFront(f2, fr, k)
  PROVE  IsReturned(CallsOf(f2, st2, u, q), CallsOf(fr, st, t, p), k, st2[e])
<1> DEFINE c == CallsOf(fr, st, t, p)
           d == CallsOf(f2, st2, u, q)  w == SubSeq(c, 1, k)  b == fr[k].slots
<1>1. k \in Nat /\ k >= 1 /\ k \in 1..n /\ n \in 1..n /\ n = k + 1 /\ k < n
  OBVIOUS
<1>2. Len(f2) = k /\ \A i \in 1..k : f2[i] = fr[i]
  <2>1. f2 \in Seq(FrameType) /\ Len(f2) = k /\ \A i \in 1..k : f2[i] = fr[i]
    BY <1>1 DEF IsFront
  <2> QED  BY <2>1
<1>3. Len(c) = n /\ c \in Seq(ValuesOf(c)) /\ Len(d) = k /\ d \in Seq(ValuesOf(d))
  BY <1>1, <1>2, CallsLen, CallsSeq
<1>4. b \in Nat /\ e \in Nat /\ b < e
  BY <1>1 DEF SlotsTyped, IsOrdered
<1>5. d[k] = CallOf(fr[k].fn, q, st2, b, u)
  <2>1. k \in 1..k
    BY <1>1
  <2>2. k \in 1..Len(f2) /\ f2[k] = fr[k] /\ k = Len(f2)
    BY <1>2, <2>1
  <2> QED  BY <2>2, CallsAt
<1>6. c[k] = CallOf(fr[k].fn, q, st, b, e)
  <2>1. k \in 1..Len(fr) /\ k # Len(fr) /\ k + 1 = n
    BY <1>1
  <2> QED  BY <2>1, CallsAt
<1>7. ASSUME NEW i \in 1..k-1 PROVE d[i] = c[i]
  <2>1. i \in 1..k /\ i + 1 \in 1..k /\ i \in 1..n /\ i + 1 \in 1..n
    BY <1>1
  <2>2. /\ f2[i].fn = fr[i].fn /\ f2[i].ip = fr[i].ip /\ f2[i].slots = fr[i].slots
        /\ f2[i + 1].slots = fr[i + 1].slots
    BY <1>2, <2>1
  <2>3. fr[i].slots \in Nat /\ fr[i + 1].slots \in Nat /\ fr[n].slots \in Nat
    BY <1>1, <2>1 DEF SlotsTyped
  <2>4. fr[i + 1].slots <= fr[n].slots
    BY <1>1, <2>1, <2>3 DEF IsOrdered
  <2>5. Agree(st, st2, 0, fr[i + 1].slots)
    <3>1. \A j \in 0..fr[i + 1].slots-1 : j \in 0..e-1
      BY <1>4, <2>3, <2>4
    <3> QED  BY <3>1 DEF Agree
  <2>6. i \in 1..Len(f2) /\ i # Len(f2) /\ i # Len(fr)
    BY <1>1, <1>2, <2>1
  <2>7. FrameKept(fr, st, f2, st2, i)
    BY <2>1, <2>2, <2>3, <2>5, <2>6 DEF FrameKept
  <2> QED  BY <2>7, CallKept
<1> HIDE DEF b
<1>8. IsAppended(Slice(st2, b, u), Slice(st, b, e), st2[e])
  <2>1. b <= e
    BY <1>4
  <2>2. b \in Nat /\ e \in Nat /\ u = e + 1 /\ Agree(st, st2, 0, e) /\ Holds(st, 0, e, S)
    BY <1>4
  <2> QED  BY <2>1, <2>2, SliceLonger
<1> HIDE DEF c, d
<1>9. HasOperand(d[k], c[k], st2[e])
  BY <1>5, <1>6, <1>8, Returned
<1>10. w \in Seq(ValuesOf(c)) /\ Len(w) = k /\ \A i \in 1..k : w[i] = c[i]
  BY <1>1, <1>3
<1>11. w = AllButLast(c)
  BY <1>1, <1>3 DEF AllButLast
<1> HIDE DEF w
<1>12. d = [w EXCEPT ![k].work = Append(@, st2[e])]
  <2> DEFINE r == [w EXCEPT ![k].work = Append(@, st2[e])]
  <2>1. w = [i \in 1..k |-> w[i]] /\ d = [i \in 1..k |-> d[i]]
    BY <1>1, <1>3, <1>10
  <2>2. r = [i \in 1..k |-> IF i = k THEN [w[k] EXCEPT !.work = Append(@, st2[e])] ELSE w[i]]
    BY <1>1, <2>1
  <2>3. ASSUME NEW i \in 1..k
        PROVE  d[i] = IF i = k THEN [w[k] EXCEPT !.work = Append(@, st2[e])] ELSE w[i]
    <3>1. CASE i = k
      BY <1>1, <1>9, <1>10, <3>1 DEF HasOperand
    <3>2. CASE i # k
      <4>1. i \in 1..k-1
        BY <1>1, <3>2
      <4> QED  BY <1>7, <1>10, <3>2, <4>1
    <3> QED  BY <3>1, <3>2
  <2> QED  BY <2>1, <2>2, <2>3
<1> QED  BY <1>11, <1>12 DEF IsReturned, c, d

-----------------------------------------------------------------------------
(* What Machine reads, in Vm's terms.                                      *)

(* Both modules speak of the same values and of the same operators.        *)
LEMMA SameValues ==
  /\ M!NullVal = NullVal /\ M!Bool(TRUE) = Bool(TRUE) /\ M!Bool(FALSE) = Bool(FALSE)
  /\ M!Nums = Nums /\ M!Strs = Strs /\ M!Keys = Keys
  /\ M!UnaryOps = UnaryOps /\ M!BinaryOps = BinaryOps /\ M!IndexTypes = IndexTypes
BY DEF M!NullVal, NullVal, M!Bool, Bool, M!Nums, Nums, M!Strs, Strs, M!Keys, Keys, M!Val, Val,
       M!UnaryOps, UnaryOps, M!BinaryOps, BinaryOps, M!IndexTypes, IndexTypes

LEMMA SameMade ==
  ASSUME NEW x
  PROVE  M!FunVal(x) = FunVal(x) /\ M!MapVal(x) = MapVal(x) /\ M!Val("cfn", x) = Val("cfn", x)
         /\ M!Falsey(x) = Falsey(x)
BY DEF M!FunVal, FunVal, M!MapVal, MapVal, M!Val, Val, M!Falsey, Falsey, M!Arithmetic, Arithmetic

LEMMA SameResults ==
  ASSUME NEW op, NEW x, NEW y
  PROVE  /\ M!UnaryResults(op, x) = UnaryResults(op, x)
         /\ M!BinaryResults(op, x, y) = BinaryResults(op, x, y)
         /\ M!Indexable(x, y) = Indexable(x, y)
         /\ M!Field(x, y) = Field(x, y)
<1>1. M!Nums = Nums /\ M!Strs = Strs /\ M!NullVal = NullVal /\ M!IndexTypes = IndexTypes
  BY SameValues
<1>2. M!Arithmetic = Arithmetic /\ M!Equal(x, y) = Equal(x, y) /\ M!Falsey(x) = Falsey(x)
  BY DEF M!Arithmetic, Arithmetic, M!Equal, Equal, M!Falsey, Falsey
<1>3. \A b \in BOOLEAN : M!Bool(b) = Bool(b)
  BY DEF M!Bool, Bool, M!Val, Val
<1>4. M!UnaryResults(op, x) = UnaryResults(op, x)
  <2>1. M!Bool(M!Falsey(x)) = Bool(Falsey(x))
    BY DEF M!Bool, Bool, M!Val, Val, M!Falsey, Falsey, M!Arithmetic, Arithmetic
  <2> QED  BY <1>1, <1>2, <2>1 DEF M!UnaryResults, UnaryResults
<1>5. M!BinaryResults(op, x, y) = BinaryResults(op, x, y)
  <2>1. M!Bool(M!Equal(x, y)) = Bool(Equal(x, y)) /\ M!Bool(x.v < y.v) = Bool(x.v < y.v)
        /\ M!Bool(x.v <= y.v) = Bool(x.v <= y.v)
    BY DEF M!Bool, Bool, M!Val, Val, M!Equal, Equal, M!Arithmetic, Arithmetic
  <2> QED  BY <1>1, <1>2, <2>1 DEF M!BinaryResults, BinaryResults
<1> QED  BY <1>1, <1>4, <1>5 DEF M!Indexable, Indexable, M!Field, Field

(* The innermost frame's part of the stack holds values.                   *)
LEMMA WorkHolds ==
  ASSUME Inv, status = "running"
  PROVE  /\ Holds(stack, Slots, top, Live) /\ Slots \in Nat /\ top \in Nat /\ Slots <= top
         /\ top <= StackMax /\ StackMax \in Nat
<1>1. TypeOK /\ StackDiscipline /\ stack \in [0..StackMax-1 -> Live]
  BY DEF Inv, TypeOK
<1>2. top \in Nat /\ top <= StackMax /\ StackMax \in Nat /\ Slots \in Nat
  BY <1>1, TopInStack, Here
<1>3. Slots <= top
  BY <1>1, <1>2, Here, BytecodeAssumption DEF BytecodeAssumption
<1>4. \A k \in Slots..top-1 : k \in 0..StackMax-1
  BY <1>2
<1> QED  BY <1>1, <1>2, <1>3, <1>4 DEF Holds

LEMMA MachineHere ==
  ASSUME CallInv, status = "running"
  PROVE  /\ Len(Calls) = Len(frames)
         /\ M!Top.fn = Innermost.fn /\ M!Top.pc = ip /\ M!Top.work = Slice(stack, Slots, top)
         /\ M!I = I /\ M!Const = Const
<1>1. Inv /\ TypeOK /\ StackDiscipline
  BY DEF CallInv, Inv
<1>2. Len(frames) \in Nat /\ Len(frames) >= 1
  BY <1>1, Here
<1>3. Len(Calls) = Len(frames)
  BY <1>2, CallsAre, CallsLen
<1>4. M!Top = CallOf(Innermost.fn, ip, stack, Slots, top)
  <2>1. Len(frames) \in 1..Len(frames)
    BY <1>2
  <2>2. Calls[Len(frames)] = CallOf(Innermost.fn, ip, stack, Slots, top)
    BY <2>1, CallsAre, CallsAt DEF Innermost, Slots
  <2> QED  BY <1>3, <2>2 DEF M!Top
<1>5. M!Top.fn = Innermost.fn /\ M!Top.pc = ip /\ M!Top.work = Slice(stack, Slots, top)
  BY <1>4 DEF CallOf
<1> QED  BY <1>3, <1>5 DEF M!I, I, M!Const, Const

LEMMA MachineWork ==
  ASSUME CallInv, status = "running"
  PROVE  M!Top.work \in Seq(Live) /\ Len(M!Top.work) = top - Slots
<1>1. Inv
  BY DEF CallInv
<1> QED  BY <1>1, WorkHolds, SliceSeq, MachineHere

(* An instruction's operands, seen from either module.                     *)
LEMMA OperandsOwn ==
  ASSUME Inv, status = "running"
  PROVE  Needs(I) \in Nat /\ top - Needs(I) >= Slots + 1
<1>1. TypeOK /\ StackDiscipline
  BY DEF Inv
<1>2. I \in Instr /\ Slots \in Nat
  BY <1>1, Here
<1>3. Needs(I) \in Nat
  BY <1>2 DEF Needs, Instr
<1> DEFINE e == Depth[Innermost.fn][ip]  d == Needs(I)
<1>4. e \in Nat /\ top = Slots + e /\ e >= d + 1
  BY <1>1, Here, BytecodeAssumption DEF BytecodeAssumption
<1> HIDE DEF e, d
<1>5. d \in Nat
  BY <1>3 DEF d
<1>6. top - d >= Slots + 1
  BY <1>2, <1>4, <1>5
<1> QED  BY <1>3, <1>6 DEF d

LEMMA MachineArg ==
  ASSUME CallInv, status = "running", NEW n \in Nat, n < Needs(I)
  PROVE  M!Arg(n) = Peek(n)
<1>1. Inv
  BY DEF CallInv
<1>2. Slots \in Nat /\ top \in Nat /\ Needs(I) \in Nat /\ top - Needs(I) >= Slots + 1
  BY <1>1, WorkHolds, OperandsOwn
<1> DEFINE j == (top - Slots) - n
<1>3. j \in 1..top-Slots /\ Slots + j - 1 = top - 1 - n
  BY <1>2
<1>4. M!Arg(n) = Slice(stack, Slots, top)[j]
  BY MachineHere, MachineWork DEF M!Arg
<1> HIDE DEF j
<1>5. Slice(stack, Slots, top)[j] = stack[Slots + j - 1]
  BY <1>3, SliceAt
<1> QED  BY <1>3, <1>4, <1>5 DEF Peek

LEMMA MachineBelow ==
  ASSUME CallInv, status = "running", NEW n \in Nat, n <= Needs(I)
  PROVE  M!Below(n) = Slice(stack, Slots, top - n)
<1>1. Inv
  BY DEF CallInv
<1>2. Slots \in Nat /\ top \in Nat /\ Needs(I) \in Nat /\ top - Needs(I) >= Slots + 1
      /\ Holds(stack, Slots, top, Live)
  BY <1>1, WorkHolds, OperandsOwn
<1>3. Slots <= top - n
  BY <1>2
<1>4. M!Below(n) = SubSeq(Slice(stack, Slots, top), 1, Len(Slice(stack, Slots, top)) - n)
  BY MachineHere DEF M!Below
<1> DEFINE b == Slots  e == top  S == Live  u == top - n
<1>5. b \in Nat /\ e \in Nat /\ u \in Nat /\ b <= u /\ u <= e /\ b <= e
      /\ Holds(stack, b, e, S) /\ Holds(stack, b, u, S) /\ u = e - n
  BY <1>2, <1>3 DEF Holds
<1> HIDE DEF b, e, S, u
<1>6. Len(Slice(stack, b, e)) = e - b /\ Len(Slice(stack, b, u)) = u - b
  <2>1. Len(Slice(stack, b, e)) = e - b
    BY <1>5, SliceSeq
  <2>2. b \in Nat /\ u \in Nat /\ b <= u /\ Holds(stack, b, u, S)
    BY <1>5
  <2>3. Len(Slice(stack, b, u)) = u - b
    BY <2>2, SliceSeq
  <2> QED  BY <2>1, <2>3
<1>7. Len(Slice(stack, b, e)) - n = Len(Slice(stack, b, u))
  BY <1>5, <1>6
<1>8. SubSeq(Slice(stack, b, e), 1, Len(Slice(stack, b, u))) = Slice(stack, b, u)
  BY <1>5, SliceBelow
<1> QED  BY <1>4, <1>7, <1>8 DEF b, e, u

-----------------------------------------------------------------------------
(* Steps that stay in their frame, or save its register: the innermost     *)
(* call goes on with what its part of the stack becomes.                   *)

StaysInFrame == SameFrames(frames, frames') /\ UNCHANGED <<status, outcome, runs>>

LEMMA Continues ==
  ASSUME CallInv, status = "running", StaysInFrame, Agree(stack, stack', 0, Slots)
  PROVE  M!Continue(ip', Slice(stack', Slots, top'))
<1> DEFINE n == Len(frames)
<1>1. Inv /\ TypeOK /\ StackDiscipline /\ IsOrdered(frames)
  BY DEF CallInv, Inv, Ordered, IsOrdered
<1>2. n \in Nat /\ n >= 1 /\ SlotsTyped(frames) /\ SameFrames(frames, frames')
  BY <1>1, Here, FramesTyped DEF SlotsTyped, StaysInFrame
<1>3. Agree(stack, stack', 0, frames[n].slots)
  BY DEF Slots, Innermost
<1>4. CallsOf(frames', stack', top', ip')
        = Append(AllButLast(CallsOf(frames, stack, top, ip)),
                 CallOf(frames[n].fn, ip', stack', frames[n].slots, top'))
  <2>1. Len(frames) = n
    OBVIOUS
  <2> DEFINE fr == frames  fr2 == frames'  st == stack  st2 == stack'
  <2>2. n \in Nat /\ n >= 1 /\ Len(fr) = n /\ SameFrames(fr, fr2) /\ IsOrdered(fr)
        /\ SlotsTyped(fr) /\ Agree(st, st2, 0, fr[n].slots)
    BY <1>1, <1>2, <1>3
  <2> HIDE DEF n, fr, fr2, st, st2
  <2>3. CallsOf(fr2, st2, top', ip')
          = Append(AllButLast(CallsOf(fr, st, top, ip)),
                   CallOf(fr[n].fn, ip', st2, fr[n].slots, top'))
    BY <2>2, CallsMoved
  <2> QED  BY <2>3 DEF fr, fr2, st, st2
<1>5. Calls' = Append(AllButLast(Calls),
                      CallOf(Innermost.fn, ip', stack', Slots, top'))
  BY <1>4, CallsAre, MachineHere DEF Innermost, Slots
<1>6. M!Top.fn = Innermost.fn
  BY MachineHere
<1> QED  BY <1>5, <1>6 DEF M!Continue, M!Waiting, AllButLast, CallOf, StaysInFrame

(* Storing a value in the stack changes that entry only.                   *)
LEMMA StoredAt ==
  ASSUME Inv, NEW u \in Nat, u < StackMax, NEW x, stack' = [stack EXCEPT ![u] = x]
  PROVE  Agree(stack, stack', 0, u) /\ stack'[u] = x
<1>1. stack \in [0..StackMax-1 -> Live] /\ StackMax \in Nat
  BY Unchanged, TopInStack DEF Inv
<1>2. u \in 0..StackMax-1
  BY <1>1
<1> QED  BY <1>1, <1>2 DEF Agree

(* n operands are replaced by x.                                           *)
LEMMA Replaces ==
  ASSUME CallInv, status = "running", StaysInFrame, NEW n \in Nat, n <= Needs(I), NEW x,
         Agree(stack, stack', 0, top - n), stack'[top - n] = x, top' = top - n + 1
  PROVE  M!Continue(ip', M!Below(n) \o <<x>>)
<1> DEFINE u == top - n  b == Slots  S == Live \cup {x}
<1>1. Inv
  BY DEF CallInv
<1>2. Slots \in Nat /\ top \in Nat /\ Needs(I) \in Nat /\ top - Needs(I) >= Slots + 1
      /\ Holds(stack, Slots, top, Live)
  BY <1>1, WorkHolds, OperandsOwn
<1>3. u \in Nat /\ b \in Nat /\ b <= u /\ u <= top /\ top' = u + 1 /\ u + 1 \in Nat
  BY <1>2
<1>4. Agree(stack, stack', 0, u) /\ stack'[u] = x
  OBVIOUS
<1>5. M!Below(n) = Slice(stack, b, u)
  BY MachineBelow
<1> HIDE DEF u
<1>6. Agree(stack, stack', 0, b) /\ Agree(stack, stack', b, u)
  BY <1>3, <1>4 DEF Agree
<1>7. Holds(stack', b, u + 1, S)
  <2>1. ASSUME NEW k \in b..(u + 1)-1 PROVE stack'[k] \in S
    <3>1. CASE k = u
      BY <1>4, <3>1
    <3>2. CASE k # u
      <4>1. k \in b..u-1 /\ k \in b..top-1
        BY <1>2, <1>3, <3>2
      <4> QED  BY <1>2, <1>6, <4>1 DEF Holds, Agree
    <3> QED  BY <3>1, <3>2
  <2> QED  BY <2>1 DEF Holds
<1>8. M!Continue(ip', Slice(stack', b, top'))
  BY <1>6, Continues
<1> HIDE DEF b, S
<1>9. Slice(stack', b, u + 1) = Slice(stack', b, u) \o <<stack'[u]>>
  BY <1>3, <1>7, SliceAppend
<1>10. Slice(stack', b, u) = Slice(stack, b, u)
  BY <1>3, <1>6, SliceKept
<1>11. Slice(stack', b, top') = M!Below(n) \o <<x>>
  BY <1>3, <1>4, <1>5, <1>9, <1>10
<1> QED  BY <1>8, <1>11

(* n operands are dropped, or none.                                        *)
LEMMA Drops ==
  ASSUME CallInv, status = "running", StaysInFrame, NEW n \in Nat, n <= Needs(I),
         Agree(stack, stack', 0, top - n), top' = top - n
  PROVE  M!Continue(ip', M!Below(n)) /\ M!Below(n) \o <<>> = M!Below(n)
<1> DEFINE u == top - n  b == Slots
<1>1. Inv
  BY DEF CallInv
<1>2. Slots \in Nat /\ top \in Nat /\ Needs(I) \in Nat /\ top - Needs(I) >= Slots + 1
      /\ Holds(stack, Slots, top, Live)
  BY <1>1, WorkHolds, OperandsOwn
<1>3. u \in Nat /\ b \in Nat /\ b <= u /\ top' = u /\ Holds(stack, b, u, Live)
  BY <1>2 DEF Holds
<1>4. M!Below(n) = Slice(stack, b, u)
  BY MachineBelow
<1>5. Agree(stack, stack', 0, u)
  OBVIOUS
<1> HIDE DEF u
<1>6. Agree(stack, stack', 0, b) /\ Agree(stack, stack', b, u)
  BY <1>3, <1>5 DEF Agree
<1>7. M!Continue(ip', Slice(stack', b, top'))
  BY <1>6, Continues
<1> HIDE DEF b
<1>8. Slice(stack', b, u) = Slice(stack, b, u)
  BY <1>3, <1>6, SliceKept
<1>9. Slice(stack, b, u) \in Seq(Live)
  BY <1>3, SliceSeq
<1>10. Slice(stack, b, u) \o <<>> = Slice(stack, b, u)
  BY <1>9
<1> QED  BY <1>3, <1>4, <1>7, <1>8, <1>10

LEMMA Stays ==
  ASSUME CallInv, status = "running", StaysInFrame, Agree(stack, stack', 0, top), top' = top
  PROVE  M!Continue(ip', M!Top.work)
<1> DEFINE b == Slots  u == top
<1>1. u \in Nat /\ b \in Nat /\ b <= u /\ Agree(stack, stack', 0, u) /\ top' = u
  BY WorkHolds DEF CallInv
<1>2. M!Top.work = Slice(stack, b, u)
  BY MachineHere
<1> HIDE DEF u
<1>3. Agree(stack, stack', 0, b) /\ Agree(stack, stack', b, u)
  BY <1>1 DEF Agree
<1>4. M!Continue(ip', Slice(stack', b, top'))
  BY <1>3, Continues
<1> HIDE DEF b
<1>5. Slice(stack, b, u) = Slice(stack', b, u)
  BY <1>1, <1>3, SliceKept
<1> QED  BY <1>1, <1>2, <1>4, <1>5

(* A runtime error ends all calls.                                         *)
LEMMA NoCalls == ASSUME frames' = <<>> PROVE Calls' = <<>>
<1>1. CallsOf(<<>>, stack', top', ip') = <<>>
  BY DEF CallsOf
<1> QED  BY <1>1, CallsAre

LEMMA Fails == ASSUME NEW fr, RuntimeError(fr) PROVE M!Fail
BY NoCalls DEF RuntimeError, M!Fail

-----------------------------------------------------------------------------
(* The instructions: each is a step of Machine.                            *)

LEMMA SameAt ==
  ASSUME CallInv, status = "running", NEW op
  PROVE  M!At(op) <=> At(op)
BY MachineHere DEF M!At, At

LEMMA NextStays ==
  ASSUME CallInv, status = "running", NextInstruction
  PROVE  StaysInFrame /\ ip' = M!Top.pc + 1
<1>1. frames' = frames /\ ip' = ip + 1 /\ UNCHANGED host
  BY DEF NextInstruction
<1>2. SameFrames(frames, frames')
  BY <1>1, FramesSame
<1> QED  BY <1>1, <1>2, MachineHere DEF StaysInFrame, host

(* The n topmost entries are replaced by x.                                *)
ReplaceTop(n, x) == stack' = [stack EXCEPT ![top - n] = x] /\ top' = top - n + 1

LEMMA ReplacesNext ==
  ASSUME CallInv, status = "running", NextInstruction, NEW n \in Nat, n <= Needs(I), NEW x,
         n >= 1 \/ Room(I) = 1, ReplaceTop(n, x)
  PROVE  M!Continue(M!Top.pc + 1, M!Below(n) \o <<x>>)
<1>1. Inv /\ TypeOK /\ StackDiscipline
  BY DEF CallInv, Inv
<1>2. top \in Nat /\ top <= StackMax /\ StackMax \in Nat /\ Needs(I) \in Nat
      /\ top - Needs(I) >= Slots + 1 /\ Slots \in Nat
  BY <1>1, WorkHolds, OperandsOwn
<1>3. top + Room(I) <= StackMax /\ Room(I) \in Nat
  BY <1>1, Here DEF Room
<1> DEFINE u == top - n
<1>4. u \in Nat /\ u < StackMax /\ stack' = [stack EXCEPT ![u] = x]
  BY <1>2, <1>3 DEF ReplaceTop
<1> HIDE DEF u
<1>5. Agree(stack, stack', 0, u) /\ stack'[u] = x
  BY <1>1, <1>4, StoredAt
<1>6. Agree(stack, stack', 0, top - n) /\ stack'[top - n] = x /\ top' = top - n + 1
  BY <1>5 DEF u, ReplaceTop
<1>7. StaysInFrame /\ ip' = M!Top.pc + 1
  BY NextStays
<1>8. M!Continue(ip', M!Below(n) \o <<x>>)
  BY <1>6, <1>7, Replaces
<1> QED  BY <1>7, <1>8

LEMMA AgreeSame == ASSUME NEW s, NEW e PROVE Agree(s, s, 0, e)
BY DEF Agree

LEMMA StepDiscard == ASSUME CallInv, Discard PROVE M!Discard
<1>1. status = "running" /\ NextInstruction /\ UNCHANGED <<stack, globals, maps>> /\ Inv
      /\ I \in Instr
  <2>1. status = "running" /\ NextInstruction /\ UNCHANGED <<stack, globals, maps>> /\ Inv
    BY DEF Discard, At, CallInv
  <2> QED  BY <2>1, Here DEF Inv
<1>2. StaysInFrame /\ ip' = M!Top.pc + 1
  BY <1>1, NextStays
<1>3. ASSUME NEW n \in Nat, n = Needs(I), top' = top - n
      PROVE  M!Replace(n, <<>>)
  <2>1. Agree(stack, stack', 0, top - n) /\ n <= Needs(I)
    BY <1>1, <1>3, AgreeSame
  <2>2. M!Continue(ip', M!Below(n)) /\ M!Below(n) \o <<>> = M!Below(n)
    BY <1>1, <1>2, <1>3, <2>1, Drops
  <2> QED  BY <1>1, <1>2, <2>2 DEF M!Replace
<1>4. CASE At("PRINT") /\ top' = top - I.a
  <2>1. I.a \in Nat /\ I.a = Needs(I)
    <3>1. I.a \in Nat /\ I.op = "PRINT"
      BY <1>1, <1>4 DEF Instr, At
    <3> QED  BY <3>1 DEF Needs, UnaryOps, BinaryOps
  <2>2. M!Replace(I.a, <<>>)
    BY <1>3, <1>4, <2>1
  <2> QED  BY <1>1, <1>4, <2>2, SameAt, MachineHere DEF M!Discard
<1>5. CASE At("POP") /\ top' = top - 1
  <2>1. 1 = Needs(I)
    BY <1>5 DEF Needs, At, UnaryOps, BinaryOps
  <2>2. M!Replace(1, <<>>)
    BY <1>3, <1>5, <2>1
  <2> QED  BY <1>1, <1>5, <2>2, SameAt DEF M!Discard
<1> QED  BY <1>4, <1>5 DEF Discard

LEMMA Pushes ==
  ASSUME CallInv, status = "running", NEW x, PushValue(x), Effect(I) = 1
  PROVE  M!Replace(0, <<x>>)
<1>1. NextInstruction /\ stack' = [stack EXCEPT ![top] = x] /\ top' = top + 1
      /\ UNCHANGED <<globals, maps>>
  BY DEF PushValue
<1>2. Needs(I) \in Nat /\ top \in Nat /\ Room(I) = 1
  BY OperandsOwn, WorkHolds DEF CallInv, Room
<1>3. top - 0 = top /\ 0 <= Needs(I) /\ 0 \in Nat
  BY <1>2
<1>4. stack' = [stack EXCEPT ![top - 0] = x] /\ top' = top - 0 + 1
  BY <1>1, <1>3
<1>5. M!Continue(M!Top.pc + 1, M!Below(0) \o <<x>>)
  <2>1. ReplaceTop(0, x)
    BY <1>4 DEF ReplaceTop
  <2> QED  BY <1>1, <1>2, <1>3, <2>1, ReplacesNext
<1> QED  BY <1>1, <1>5 DEF M!Replace

LEMMA StepPush == ASSUME CallInv, Push PROVE M!Push
<1>1. status = "running" /\ I.op \in {"NIL", "TRUE", "FALSE", "CONST", "LD"} /\ Inv
  BY DEF Push, At, CallInv
<1>2. Effect(I) = 1
  BY <1>1 DEF Effect, BinaryOps
<1>3. ASSUME NEW x, PushValue(x) PROVE M!Replace(0, <<x>>)
  BY <1>1, <1>2, <1>3, Pushes
<1>4. CASE At("NIL") /\ PushValue(NullVal)
  BY <1>1, <1>3, <1>4, SameAt, SameValues DEF M!Push
<1>5. CASE At("TRUE") /\ PushValue(Bool(TRUE))
  BY <1>1, <1>3, <1>5, SameAt, SameValues DEF M!Push
<1>6. CASE At("FALSE") /\ PushValue(Bool(FALSE))
  BY <1>1, <1>3, <1>6, SameAt, SameValues DEF M!Push
<1>7. CASE At("CONST") /\ PushValue(Const)
  BY <1>1, <1>3, <1>7, SameAt, MachineHere DEF M!Push
<1>8. CASE At("LD") /\ PushValue(stack[Slots + I.a])
  <2>1. I.a \in Nat /\ Slots \in Nat /\ top \in Nat /\ I.a < top - Slots
    <3>1. I.a \in Nat /\ Slots \in Nat /\ top \in Nat /\ Depth[Innermost.fn][ip] \in Nat
          /\ top = Slots + Depth[Innermost.fn][ip]
      BY <1>1, Here, BytecodeAssumption DEF Inv, Instr, BytecodeAssumption
    <3>2. I.a < Depth[Innermost.fn][ip]
      BY <1>1, <1>8, Here, Compiled DEF Inv, StackDiscipline, WellFormed, Balanced, Bounded, I, At
    <3> QED  BY <3>1, <3>2
  <2> DEFINE j == I.a + 1  b == Slots  e == top
  <2>2. j \in 1..e-b /\ b + j - 1 = b + I.a
    BY <2>1
  <2>3. M!Top.work[j] = Slice(stack, b, e)[j]
    BY <1>1, MachineHere
  <2> HIDE DEF j, b, e
  <2>4. M!Top.work[j] = stack[b + j - 1]
    BY <2>2, <2>3 DEF Slice
  <2>5. M!Top.work[I.a + 1] = stack[Slots + I.a]
    BY <2>2, <2>4 DEF j, b
  <2>6. M!Replace(0, <<stack[Slots + I.a]>>)
    BY <1>3, <1>8
  <2> QED  BY <1>1, <1>8, <2>5, <2>6, SameAt, MachineHere DEF M!Push
<1> QED  BY <1>4, <1>5, <1>6, <1>7, <1>8 DEF Push

(* A local: the same entry of its frame's slots and of its call's          *)
(* operands.                                                               *)
LEMMA StepStore == ASSUME CallInv, Store PROVE M!Store
<1> DEFINE a == I.a  x == Peek(0)  b == Slots  e == top
<1>1. status = "running" /\ I.op = "ST" /\ NextInstruction /\ UNCHANGED <<top, globals, maps>>
      /\ stack' = [stack EXCEPT ![b + a] = x] /\ Inv
  BY DEF Store, At, CallInv
<1>2. a \in Nat /\ b \in Nat /\ e \in Nat /\ a < e - b /\ e <= StackMax /\ StackMax \in Nat
  <2>1. I.a \in Nat /\ Slots \in Nat /\ top \in Nat /\ Depth[Innermost.fn][ip] \in Nat
        /\ top = Slots + Depth[Innermost.fn][ip]
    BY <1>1, Here, BytecodeAssumption DEF Inv, Instr, BytecodeAssumption
  <2>2. I.a < Depth[Innermost.fn][ip]
    BY <1>1, Here, Compiled DEF Inv, StackDiscipline, WellFormed, Balanced, Bounded, I
  <2>3. top <= StackMax /\ StackMax \in Nat
    BY <1>1, TopInStack DEF Inv
  <2> QED  BY <2>1, <2>2, <2>3
<1>3. M!Arg(0) = x /\ M!I.a = a /\ M!Top.work = Slice(stack, b, e)
  <2>1. Needs(I) = 1
    BY <1>1 DEF Needs, BinaryOps, UnaryOps
  <2> QED  BY <1>1, <2>1, MachineArg, MachineHere
<1>4. StaysInFrame /\ ip' = M!Top.pc + 1
  BY <1>1, NextStays
<1>5. stack \in [0..StackMax-1 -> Live]
  BY <1>1, Unchanged
<1>6. M!At("ST")
  BY <1>1, SameAt DEF At
<1>7. top' = e
  BY <1>1
<1>8. /\ Agree(stack, stack', 0, b)
      /\ Slice(stack', b, e) = [Slice(stack, b, e) EXCEPT ![a + 1] = x]
  <2> HIDE DEF a, x, b, e
  <2>1. b + a \in 0..StackMax-1
    BY <1>2
  <2>2. stack'[b + a] = x /\ \A k \in 0..StackMax-1 : k # b + a => stack'[k] = stack[k]
    BY <1>1, <1>5, <2>1
  <2>3. Agree(stack, stack', 0, b)
    BY <1>2, <2>2 DEF Agree
  <2>4. ASSUME NEW j \in 1..e-b
        PROVE  stack'[b + j - 1] = IF j = a + 1 THEN x ELSE stack[b + j - 1]
    <3>1. b + j - 1 \in 0..StackMax-1 /\ (b + j - 1 = b + a <=> j = a + 1)
      BY <1>2
    <3> QED  BY <2>2, <3>1
  <2>5. Slice(stack', b, e) = [j \in 1..e-b |-> IF j = a + 1 THEN x ELSE stack[b + j - 1]]
    BY <2>4 DEF Slice
  <2>6. [Slice(stack, b, e) EXCEPT ![a + 1] = x]
          = [j \in 1..e-b |-> IF j = a + 1 THEN x ELSE stack[b + j - 1]]
    BY DEF Slice
  <2> QED  BY <2>3, <2>5, <2>6
<1>9. M!Continue(ip', Slice(stack', Slots, top'))
  BY <1>1, <1>4, <1>8, Continues
<1>10. M!Continue(M!Top.pc + 1, [M!Top.work EXCEPT ![M!I.a + 1] = M!Arg(0)])
  <2>1. Slice(stack', Slots, top') = [M!Top.work EXCEPT ![M!I.a + 1] = M!Arg(0)]
    BY <1>3, <1>7, <1>8
  <2> QED  BY <1>4, <1>9, <2>1
<1> QED  BY <1>1, <1>6, <1>10 DEF M!Store

(* Whichever order the operand is popped and the result pushed in.         *)
LEMMA StepUnary == ASSUME CallInv, Unary PROVE M!Unary
<1>1. PICK op \in UnaryOps :
        /\ At(op)
        /\ LET results == UnaryResults(op, Peek(0)) IN
           \/ /\ results # {}
              /\ \E r \in results : stack' = [stack EXCEPT ![top - 1] = r]
              /\ NextInstruction /\ UNCHANGED <<top, globals, maps>>
           \/ /\ results # {}
              /\ \E r \in IF op = "NOT" THEN Bools ELSE Nums : stack' = [stack EXCEPT ![top] = r]
              /\ NextInstruction /\ UNCHANGED <<top, globals, maps>>
           \/ results = {} /\ Error
  BY DEF Unary
<1> DEFINE R == UnaryResults(op, Peek(0))
<1>2. status = "running" /\ I.op \in UnaryOps /\ Inv /\ top \in Nat
  BY <1>1, WorkHolds DEF At, CallInv
<1>3. Needs(I) = 1 /\ Room(I) = 1
  BY <1>2 DEF Needs, Room, BinaryOps, UnaryOps
<1>4. M!Arg(0) = Peek(0) /\ M!UnaryResults(op, M!Arg(0)) = R /\ M!At(op) /\ op \in M!UnaryOps
  BY <1>1, <1>2, <1>3, MachineArg, SameAt, SameResults, SameValues
<1>5. ASSUME NEW x \in R \cup {Peek(0)}, M!Replace(1, <<x>>), R # {} PROVE M!Unary
  BY <1>4, <1>5 DEF M!Unary
<1>6. CASE R = {} /\ Error
  <2>1. M!Fail
    BY <1>6, Fails DEF Error
  <2> QED  BY <1>4, <1>6, <2>1 DEF M!Unary
<1>7. ASSUME NEW r \in R, stack' = [stack EXCEPT ![top - 1] = r], R # {},
             NextInstruction, UNCHANGED <<top, globals, maps>>
      PROVE  M!Unary
  <2>1. ReplaceTop(1, r) /\ 1 <= Needs(I) /\ 1 \in Nat /\ 1 >= 1
    BY <1>2, <1>3, <1>7 DEF ReplaceTop
  <2>2. M!Continue(M!Top.pc + 1, M!Below(1) \o <<r>>)
    BY <1>2, <1>7, <2>1, ReplacesNext
  <2>3. M!Replace(1, <<r>>)
    BY <1>7, <2>2 DEF M!Replace
  <2> QED  BY <1>5, <1>7, <2>3
<1>8. ASSUME NEW r, stack' = [stack EXCEPT ![top] = r], R # {},
             NextInstruction, UNCHANGED <<top, globals, maps>>
      PROVE  M!Unary
  <2>1. top + Room(I) <= StackMax /\ StackMax \in Nat
    BY <1>2, Here, TopInStack DEF Inv
  <2>2. Agree(stack, stack', 0, top)
    <3>1. top < StackMax
      BY <1>2, <1>3, <2>1
    <3> QED  BY <1>2, <1>8, <3>1, StoredAt
  <2>3. top - 1 \in Nat /\ top' = top - 1 + 1 /\ stack'[top - 1] = Peek(0)
        /\ Agree(stack, stack', 0, top - 1)
    <3>1. top - 1 \in Nat /\ top' = top - 1 + 1
      BY <1>2, <1>3, <1>8, OperandsOwn, WorkHolds
    <3>2. top - 1 \in 0..top-1 /\ top - 1 - 0 = top - 1
      BY <1>2, <3>1
    <3> QED  BY <1>2, <2>2, <3>1, <3>2 DEF Agree, Peek
  <2>4. StaysInFrame /\ ip' = M!Top.pc + 1
    BY <1>2, <1>8, NextStays
  <2>5. M!Continue(ip', M!Below(1) \o <<Peek(0)>>)
    BY <1>2, <1>3, <2>3, <2>4, Replaces
  <2>6. M!Replace(1, <<Peek(0)>>)
    BY <1>8, <2>4, <2>5 DEF M!Replace
  <2> QED  BY <1>5, <1>8, <2>6
<1> QED  BY <1>1, <1>6, <1>7, <1>8

LEMMA StepBinary == ASSUME CallInv, Binary PROVE M!Binary
<1>1. PICK op \in BinaryOps :
        /\ At(op)
        /\ LET results == BinaryResults(op, Peek(1), Peek(0)) IN
           \/ /\ \E r \in results : stack' = [stack EXCEPT ![top - 2] = r]
              /\ top' = top - 1
              /\ NextInstruction /\ UNCHANGED <<globals, maps>>
           \/ results = {} /\ Error
  BY DEF Binary
<1> DEFINE R == BinaryResults(op, Peek(1), Peek(0))
<1>2. status = "running" /\ I.op \in BinaryOps /\ Inv /\ top \in Nat
  BY <1>1, WorkHolds DEF At, CallInv
<1>3. Needs(I) = 2
  BY <1>2 DEF Needs, BinaryOps, UnaryOps
<1>4. M!Arg(0) = Peek(0) /\ M!Arg(1) = Peek(1) /\ M!At(op) /\ op \in M!BinaryOps
      /\ M!BinaryResults(op, M!Arg(1), M!Arg(0)) = R
  BY <1>1, <1>2, <1>3, MachineArg, SameAt, SameResults, SameValues
<1>5. CASE R = {} /\ Error
  <2>1. M!Fail
    BY <1>5, Fails DEF Error
  <2> QED  BY <1>4, <1>5, <2>1 DEF M!Binary
<1>6. ASSUME NEW r \in R, stack' = [stack EXCEPT ![top - 2] = r], top' = top - 1,
             NextInstruction, UNCHANGED <<globals, maps>>
      PROVE  M!Binary
  <2>1. ReplaceTop(2, r) /\ 2 <= Needs(I) /\ 2 \in Nat /\ 2 >= 1
    BY <1>2, <1>3, <1>6 DEF ReplaceTop
  <2>2. M!Continue(M!Top.pc + 1, M!Below(2) \o <<r>>)
    BY <1>2, <1>6, <2>1, ReplacesNext
  <2>3. M!Replace(2, <<r>>)
    BY <1>6, <2>2 DEF M!Replace
  <2> QED  BY <1>4, <1>6, <2>3 DEF M!Binary
<1> QED  BY <1>1, <1>5, <1>6

LEMMA StepJump == ASSUME CallInv, Jump PROVE M!Jump
<1>1. status = "running" /\ UNCHANGED <<stack, top, frames, globals, maps, host>> /\ Inv
      /\ I.op \in {"JMP", "JMPF"}
  BY DEF Jump, At, CallInv
<1>2. Agree(stack, stack', 0, top) /\ StaysInFrame /\ top' = top
  BY <1>1, AgreeSame, FramesSame DEF StaysInFrame, host
<1>3. M!Continue(ip', M!Top.work)
  BY <1>1, <1>2, Stays
<1>4. M!Top.pc = ip /\ M!I.a = I.a
  BY <1>1, MachineHere
<1>5. CASE At("JMP") /\ ip' = ip + 1 + I.a
  BY <1>1, <1>3, <1>4, <1>5, SameAt DEF M!Jump
<1>6. CASE At("JMPF") /\ ip' = IF Falsey(Peek(0)) THEN ip + 1 + I.a ELSE ip + 1
  <2>1. Needs(I) = 1
    BY <1>6 DEF Needs, At, BinaryOps, UnaryOps
  <2>2. M!Arg(0) = Peek(0) /\ M!Falsey(M!Arg(0)) = Falsey(Peek(0))
    BY <1>1, <2>1, MachineArg, SameMade
  <2> QED  BY <1>1, <1>3, <1>4, <1>6, <2>2, SameAt DEF M!Jump
<1> QED  BY <1>5, <1>6 DEF Jump

LEMMA StepDef == ASSUME CallInv, Def PROVE M!Global
<1>1. status = "running" /\ I.op = "DEF" /\ NextInstruction /\ UNCHANGED <<stack, maps>> /\ Inv
      /\ top' = top - 1 /\ globals' = [globals EXCEPT ![Const] = Peek(0)] /\ At("DEF")
  BY DEF Def, At, CallInv
<1>2. Needs(I) = 1
  BY <1>1 DEF Needs, BinaryOps, UnaryOps
<1>3. StaysInFrame /\ ip' = M!Top.pc + 1
  BY <1>1, NextStays
<1>4. M!Continue(ip', M!Below(1))
  <2>1. Agree(stack, stack', 0, top - 1) /\ 1 <= Needs(I) /\ 1 \in Nat
    BY <1>1, <1>2, AgreeSame
  <2> QED  BY <1>1, <1>3, <2>1, Drops
<1>5. M!Arg(0) = Peek(0) /\ M!Const = Const /\ M!At("DEF")
  BY <1>1, <1>2, MachineArg, MachineHere, SameAt
<1> QED  BY <1>1, <1>3, <1>4, <1>5 DEF M!Global

LEMMA StepGetGlobal == ASSUME CallInv, GetGlobal PROVE M!Global
<1>1. status = "running" /\ I.op = "GLD" /\ At("GLD")
  BY DEF GetGlobal, At
<1>2. M!At("GLD") /\ M!Const = Const
  BY <1>1, SameAt, MachineHere
<1>3. CASE globals[Const] # Absent /\ PushValue(globals[Const])
  <2>1. Effect(I) = 1
    BY <1>1 DEF Effect, BinaryOps
  <2>2. M!Replace(0, <<globals[Const]>>)
    BY <1>1, <1>3, <2>1, Pushes
  <2> QED  BY <1>2, <1>3, <2>2 DEF M!Global
<1>4. CASE globals[Const] = Absent /\ Error
  <2>1. M!Fail
    BY <1>4, Fails DEF Error
  <2> QED  BY <1>2, <1>4, <2>1 DEF M!Global
<1> QED  BY <1>3, <1>4 DEF GetGlobal

LEMMA StepAssignGlobal == ASSUME CallInv, AssignGlobal PROVE M!Global
<1>1. status = "running" /\ I.op = "GST" /\ At("GST") /\ Inv
  BY DEF AssignGlobal, At, CallInv
<1>2. M!At("GST") /\ M!Const = Const
  BY <1>1, SameAt, MachineHere
<1>3. CASE /\ globals[Const] # Absent
           /\ globals' = [globals EXCEPT ![Const] = Peek(0)]
           /\ NextInstruction /\ UNCHANGED <<stack, top, maps>>
  <2>1. Needs(I) = 1
    BY <1>1 DEF Needs, BinaryOps, UnaryOps
  <2>2. M!Arg(0) = Peek(0)
    BY <1>1, <2>1, MachineArg
  <2>3. StaysInFrame /\ ip' = M!Top.pc + 1
    BY <1>1, <1>3, NextStays
  <2>4. M!Continue(ip', M!Top.work)
    BY <1>1, <1>3, <2>3, AgreeSame, Stays
  <2> QED  BY <1>2, <1>3, <2>2, <2>3, <2>4 DEF M!Global
<1>4. CASE globals[Const] = Absent /\ Error
  <2>1. M!Fail
    BY <1>4, Fails DEF Error
  <2> QED  BY <1>2, <1>4, <2>1 DEF M!Global
<1> QED  BY <1>3, <1>4 DEF AssignGlobal

LEMMA StepMakeMap == ASSUME CallInv, MakeMap PROVE M!Literal
<1> DEFINE n == I.a
<1>1. status = "running" /\ I.op = "MAP" /\ At("MAP") /\ Inv /\ Len(maps) < MaxMaps
      /\ maps' = Append(maps, [k \in Keys |->
                   IF k.type = "num" /\ k.v \in 0..n-1 THEN Peek(k.v) ELSE Absent])
      /\ stack' = [stack EXCEPT ![top - n] = MapVal(Len(maps) + 1)]
      /\ top' = top - n + 1
      /\ NextInstruction /\ UNCHANGED globals
  BY DEF MakeMap, At, CallInv
<1>2. n \in Nat
  BY <1>1, Here DEF Inv, Instr
<1>3. Needs(I) = n /\ (n >= 1 \/ Room(I) = 1)
  <2>1. Needs(I) = n
    BY <1>1, <1>2 DEF Needs, BinaryOps, UnaryOps
  <2>2. Effect(I) = 1 - n
    BY <1>1, <1>2 DEF Effect, BinaryOps
  <2> HIDE DEF n
  <2>3. n = 0 => Room(I) = 1
    BY <2>2 DEF Room
  <2> QED  BY <1>2, <2>1, <2>3
<1>4. M!At("MAP") /\ M!I.a = n /\ M!MapVal(Len(maps) + 1) = MapVal(Len(maps) + 1)
      /\ M!Keys = Keys
  BY <1>1, SameAt, MachineHere, SameMade, SameValues
<1>5. \A k \in 0..n-1 : M!Arg(k) = Peek(k)
  <2>1. ASSUME NEW k \in 0..n-1 PROVE M!Arg(k) = Peek(k)
    <3>1. k \in Nat /\ k < Needs(I)
      BY <1>2, <1>3
    <3> QED  BY <1>1, <3>1, MachineArg
  <2> QED  BY <2>1
<1>6. M!Continue(M!Top.pc + 1, M!Below(n) \o <<MapVal(Len(maps) + 1)>>)
  <2> DEFINE x == MapVal(Len(maps) + 1)
  <2>1. ReplaceTop(n, x)
    BY <1>1 DEF ReplaceTop
  <2>2. n <= Needs(I)
    BY <1>2, <1>3
  <2> HIDE DEF n, x
  <2>3. M!Continue(M!Top.pc + 1, M!Below(n) \o <<x>>)
    BY <1>1, <1>2, <1>3, <2>1, <2>2, ReplacesNext
  <2> QED  BY <2>3 DEF x
<1>7. maps' = Append(maps, [k \in M!Keys |->
                IF k.type = "num" /\ k.v \in 0..n-1 THEN M!Arg(k.v) ELSE Absent])
  <2>1. [k \in Keys |-> IF k.type = "num" /\ k.v \in 0..n-1 THEN Peek(k.v) ELSE Absent]
        = [k \in Keys |-> IF k.type = "num" /\ k.v \in 0..n-1 THEN M!Arg(k.v) ELSE Absent]
    BY <1>5
  <2> QED  BY <1>1, <1>4, <2>1
<1> QED  BY <1>1, <1>4, <1>6, <1>7 DEF M!Literal

(* A value replaces n operands: what GET, SET, GETI and SETI have in       *)
(* common.                                                                 *)
LEMMA PopsPushes ==
  ASSUME CallInv, status = "running", NEW n \in Nat, n >= 1, n = Needs(I), NEW x, PopPush(n, x)
  PROVE  M!Continue(M!Top.pc + 1, M!Below(n) \o <<x>>) /\ globals' = globals
<1>1. ReplaceTop(n, x) /\ NextInstruction /\ globals' = globals /\ n <= Needs(I)
  BY DEF PopPush, ReplaceTop
<1>2. M!Continue(M!Top.pc + 1, M!Below(n) \o <<x>>)
  BY <1>1, ReplacesNext
<1> QED  BY <1>1, <1>2

LEMMA StepGetField == ASSUME CallInv, GetField PROVE M!Member
<1>1. status = "running" /\ I.op = "GET" /\ At("GET")
  BY DEF GetField, At
<1>2. Needs(I) = 1
  BY <1>1 DEF Needs, BinaryOps, UnaryOps
<1>3. M!At("GET") /\ M!Arg(0) = Peek(0) /\ M!Field(M!Arg(0).v, M!Const) = Field(Peek(0).v, Const)
  BY <1>1, <1>2, SameAt, MachineArg, MachineHere, SameResults
<1>4. CASE Peek(0).type = "map" /\ PopPush(1, Field(Peek(0).v, Const)) /\ UNCHANGED maps
  <2>1. M!Continue(M!Top.pc + 1, M!Below(1) \o <<Field(Peek(0).v, Const)>>) /\ globals' = globals
    BY <1>1, <1>2, <1>4, PopsPushes
  <2> QED  BY <1>3, <1>4, <2>1 DEF M!Member, M!Replace
<1>5. CASE Peek(0).type # "map" /\ Error
  <2>1. M!Fail
    BY <1>5, Fails DEF Error
  <2> QED  BY <1>3, <1>5, <2>1 DEF M!Member
<1> QED  BY <1>4, <1>5 DEF GetField

LEMMA StepSetField == ASSUME CallInv, SetField PROVE M!Member
<1>1. status = "running" /\ I.op = "SET" /\ At("SET")
  BY DEF SetField, At
<1>2. Needs(I) = 2
  BY <1>1 DEF Needs, BinaryOps, UnaryOps
<1>3. M!At("SET") /\ M!Arg(0) = Peek(0) /\ M!Arg(1) = Peek(1) /\ M!Const = Const
  BY <1>1, <1>2, SameAt, MachineArg, MachineHere
<1>4. CASE /\ Peek(1).type = "map"
           /\ maps' = [maps EXCEPT ![Peek(1).v][Const] = Peek(0)]
           /\ PopPush(2, Peek(0))
  <2>1. M!Continue(M!Top.pc + 1, M!Below(2) \o <<Peek(0)>>) /\ globals' = globals
    BY <1>1, <1>2, <1>4, PopsPushes
  <2> QED  BY <1>3, <1>4, <2>1 DEF M!Member, M!SetKey
<1>5. CASE Peek(1).type # "map" /\ Error
  <2>1. M!Fail
    BY <1>5, Fails DEF Error
  <2> QED  BY <1>3, <1>5, <2>1 DEF M!Member
<1> QED  BY <1>4, <1>5 DEF SetField

LEMMA StepGetIndex == ASSUME CallInv, GetIndex PROVE M!Element
<1>1. status = "running" /\ I.op = "GETI" /\ At("GETI")
  BY DEF GetIndex, At
<1>2. Needs(I) = 2
  BY <1>1 DEF Needs, BinaryOps, UnaryOps
<1>3. M!At("GETI") /\ M!Arg(0) = Peek(0) /\ M!Arg(1) = Peek(1)
  BY <1>1, <1>2, SameAt, MachineArg
<1>4. M!Field(M!Arg(1).v, M!Arg(0)) = Field(Peek(1).v, Peek(0))
      /\ (M!Indexable(M!Arg(1), M!Arg(0)) <=> Indexable(Peek(1), Peek(0)))
  BY <1>3, SameResults
<1>5. CASE /\ Indexable(Peek(1), Peek(0))
           /\ PopPush(2, Field(Peek(1).v, Peek(0))) /\ UNCHANGED maps
  <2>1. M!Continue(M!Top.pc + 1, M!Below(2) \o <<Field(Peek(1).v, Peek(0))>>) /\ globals' = globals
    BY <1>1, <1>2, <1>5, PopsPushes
  <2> QED  BY <1>3, <1>4, <1>5, <2>1 DEF M!Element, M!Replace
<1>6. CASE ~Indexable(Peek(1), Peek(0)) /\ Error
  <2>1. M!Fail
    BY <1>6, Fails DEF Error
  <2> QED  BY <1>3, <1>4, <1>6, <2>1 DEF M!Element
<1> QED  BY <1>5, <1>6 DEF GetIndex

LEMMA StepSetIndex == ASSUME CallInv, SetIndex PROVE M!Element
<1>1. status = "running" /\ I.op = "SETI" /\ At("SETI")
  BY DEF SetIndex, At
<1>2. Needs(I) = 3
  BY <1>1 DEF Needs, BinaryOps, UnaryOps
<1>3. M!At("SETI") /\ M!Arg(0) = Peek(0) /\ M!Arg(1) = Peek(1) /\ M!Arg(2) = Peek(2)
  BY <1>1, <1>2, SameAt, MachineArg
<1>4. M!Indexable(M!Arg(2), M!Arg(1)) <=> Indexable(Peek(2), Peek(1))
  BY <1>3, SameResults
<1>5. CASE /\ Indexable(Peek(2), Peek(1))
           /\ maps' = [maps EXCEPT ![Peek(2).v][Peek(1)] = Peek(0)]
           /\ PopPush(3, Peek(0))
  <2>1. M!Continue(M!Top.pc + 1, M!Below(3) \o <<Peek(0)>>) /\ globals' = globals
    BY <1>1, <1>2, <1>5, PopsPushes
  <2> QED  BY <1>3, <1>4, <1>5, <2>1 DEF M!Element, M!SetKey
<1>6. CASE ~Indexable(Peek(2), Peek(1)) /\ Error
  <2>1. M!Fail
    BY <1>6, Fails DEF Error
  <2> QED  BY <1>3, <1>4, <1>6, <2>1 DEF M!Element
<1> QED  BY <1>5, <1>6 DEF SetIndex

(* A callee and its arguments leave the caller's operands for the new      *)
(* call's.                                                                 *)
LEMMA StepPrepareCall ==
  ASSUME CallInv, VmCall, Peek(I.a).type = "fun", I.a = Arity[Peek(I.a).v],
         Len(frames) < FramesMax,
         frames' = Append(StoredFrames, Frame(Peek(I.a).v, top - I.a - 1)), ip' = 1,
         UNCHANGED <<stack, top, globals, maps, host>>
  PROVE  M!CallFunction
<1> DEFINE n == I.a  m == Len(frames)  f == Peek(n).v  u == top - n - 1  g == Frame(f, u)
           c == CallsOf(frames, stack, top, ip)
<1>1. status = "running" /\ I.op = "CALL" /\ At("CALL") /\ Inv /\ TypeOK /\ StackDiscipline
      /\ IsOrdered(frames)
  BY DEF VmCall, At, CallInv, Inv, Ordered, IsOrdered
<1>2. n \in Nat /\ Needs(I) = n + 1 /\ m \in Nat /\ m >= 1
  <2>1. I \in Instr /\ m \in Nat /\ m >= 1
    BY <1>1, Here
  <2>2. n \in Nat
    BY <2>1 DEF Instr
  <2> QED  BY <1>1, <2>1, <2>2 DEF Needs, BinaryOps, UnaryOps
<1>3. Slots \in Nat /\ top \in Nat /\ Holds(stack, Slots, top, Live) /\ Slots <= top
      /\ u \in Nat /\ Slots <= u /\ u <= top /\ u = top - (n + 1)
  <2>1. Slots \in Nat /\ top \in Nat /\ Holds(stack, Slots, top, Live) /\ Slots <= top
        /\ top - (n + 1) >= Slots + 1
    BY <1>1, <1>2, WorkHolds, OperandsOwn
  <2> HIDE DEF n
  <2> QED  BY <1>2, <2>1
<1>4. g \in FrameType /\ g.fn = f /\ g.slots = u
  <2>1. Peek(n) \in Live
    BY <1>1, <1>2, Operand
  <2>2. f \in Funs
    BY <2>1, Kinds
  <2> HIDE DEF f, u
  <2> QED  BY <1>3, <2>2 DEF Frame, FrameType
<1>5. StoredFrames \in Seq(FrameType) /\ SameFrames(frames, StoredFrames)
      /\ StoredFrames[m].ip = ip + 1
  BY <1>1, <1>2, Stored, StoredSame
<1>6. Calls' = AllButLast(Calls)
                 \o <<CallOf(Innermost.fn, ip + 1, stack, Slots, u), CallOf(f, 1, stack, u, top)>>
  <2> DEFINE F == StoredFrames
  <2>1. frames' = Append(F, g) /\ stack' = stack /\ top' = top /\ ip' = 1
    OBVIOUS
  <2>2. Calls' = CallsOf(Append(F, g), stack, top, 1) /\ Calls = c
    BY <2>1, CallsAre
  <2>3. m \in Nat /\ m >= 1 /\ Len(frames) = m /\ F \in Seq(FrameType) /\ g \in FrameType
        /\ SameFrames(frames, F) /\ SlotsTyped(frames)
    BY <1>1, <1>2, <1>4, <1>5, FramesTyped DEF SlotsTyped
  <2> DEFINE p2 == 1  f3 == Append(F, g)
  <2>3a. IsAppended(f3, F, g)
    BY DEF IsAppended
  <2> HIDE DEF F, g, m, p2, f3
  <2>4. ArePushed(CallsOf(f3, stack, top, p2), CallsOf(frames, stack, top, ip),
                  CallOf(frames[m].fn, F[m].ip, stack, frames[m].slots, g.slots),
                  CallOf(g.fn, p2, stack, g.slots, top))
    BY <1>1, <2>3, <2>3a, CallsPushed
  <2>5. F[m].ip = ip + 1 /\ frames[m].fn = Innermost.fn /\ frames[m].slots = Slots
    BY <1>5 DEF F, m, Innermost, Slots
  <2> QED  BY <1>4, <2>2, <2>4, <2>5 DEF p2, f3, ArePushed
<1>7. M!At("CALL") /\ M!I.a = n /\ M!Top.fn = Innermost.fn /\ M!Top.pc = ip
      /\ Len(Calls) = m /\ M!Waiting = AllButLast(Calls)
  BY <1>1, SameAt, MachineHere DEF M!Waiting, AllButLast
<1>8. M!Arg(n) = Peek(n)
  <2>1. n < Needs(I)
    BY <1>2
  <2> QED  BY <1>1, <1>2, <2>1, MachineArg
<1>9. M!Below(n + 1) = Slice(stack, Slots, u)
  <2>1. n + 1 \in Nat /\ n + 1 <= Needs(I)
    BY <1>2
  <2> DEFINE q == n + 1
  <2>2. q \in Nat /\ q <= Needs(I) /\ u = top - q
    BY <1>3, <2>1
  <2> HIDE DEF q, u
  <2>3. M!Below(q) = Slice(stack, Slots, top - q)
    BY <1>1, <2>2, MachineBelow
  <2> QED  BY <2>2, <2>3 DEF q
<1>10. SubSeq(M!Top.work, Len(M!Top.work) - n, Len(M!Top.work)) = Slice(stack, u, top)
  <2> DEFINE b == Slots  e == top  S == Live
  <2>1. M!Top.work = Slice(stack, b, e)
    BY <1>1, MachineHere
  <2>2. b \in Nat /\ e \in Nat /\ u \in Nat /\ b <= u /\ u <= e /\ b <= e /\ Holds(stack, b, e, S)
    BY <1>3
  <2>3. u = e - (n + 1)
    BY <1>3
  <2> HIDE DEF b, e, S, u, n
  <2>4. Len(Slice(stack, b, e)) = e - b
    BY <2>2, SliceSeq
  <2> DEFINE h == Len(Slice(stack, b, e)) - n  l == Len(Slice(stack, b, e))
  <2>5. h = u - b + 1 /\ l = e - b
    <3> DEFINE w == Slice(stack, b, e)
    <3>1. n \in Nat /\ Len(w) = e - b
      BY <1>2, <2>4
    <3> HIDE DEF w
    <3> QED  BY <2>2, <2>3, <3>1 DEF w
  <2> HIDE DEF h, l
  <2>6. IsPart(Slice(stack, u, e), Slice(stack, b, e), h, l)
    BY <2>2, <2>5, SliceAbove
  <2> QED  BY <2>1, <2>6 DEF e, h, l, IsPart
<1>11. UNCHANGED <<globals, maps, status, outcome, runs>>
  BY DEF host
<1>12. CallOf(f, 1, stack, u, top) = M!Call(f, Slice(stack, u, top))
       /\ CallOf(Innermost.fn, ip + 1, stack, Slots, u)
            = [fn |-> Innermost.fn, pc |-> ip + 1, work |-> Slice(stack, Slots, u)]
  BY DEF CallOf, M!Call
<1> HIDE DEF u, g, m, c
<1>13. M!Arg(n).type = "fun" /\ n = Arity[f] /\ Len(Calls) < FramesMax /\ M!Arg(n).v = f
  BY <1>7, <1>8 DEF m
<1> HIDE DEF f, n
<1> QED  BY <1>6, <1>7, <1>9, <1>10, <1>11, <1>12, <1>13 DEF M!CallFunction

LEMMA StepVmCall == ASSUME CallInv, VmCall PROVE M!CallFunction
<1> DEFINE n == I.a  f == Peek(n)
<1>1. status = "running" /\ I.op = "CALL" /\ At("CALL") /\ Inv
  BY DEF VmCall, At, CallInv
<1>2. n \in Nat /\ Needs(I) = n + 1
  <2>1. n \in Nat
    BY <1>1, Here DEF Inv, Instr
  <2> QED  BY <1>1, <2>1 DEF Needs, BinaryOps, UnaryOps
<1>3. M!At("CALL") /\ M!I.a = n /\ M!Arg(n) = f /\ Len(Calls) = Len(frames)
  <2>1. n < Needs(I)
    BY <1>2
  <2> QED  BY <1>1, <1>2, <2>1, SameAt, MachineHere, MachineArg
<1>4. ASSUME RuntimeError(StoredFrames),
             f.type = "fun" => n # Arity[f.v] \/ Len(frames) = FramesMax, f.type # "cfn"
      PROVE  M!CallFunction
  <2>1. M!Fail
    BY <1>4, Fails
  <2> HIDE DEF n, f
  <2> QED  BY <1>3, <1>4, <2>1 DEF M!CallFunction
<1>5. CASE f.type = "fun" /\ PrepareCall(f.v, n)
  <2>1. CASE /\ n = Arity[f.v] /\ Len(frames) < FramesMax
             /\ frames' = Append(StoredFrames, Frame(f.v, top - n - 1))
             /\ ip' = 1
             /\ UNCHANGED <<stack, top, globals, maps, host>>
    BY <1>5, <2>1, StepPrepareCall
  <2>2. CASE (n # Arity[f.v] \/ Len(frames) = FramesMax) /\ RuntimeError(StoredFrames)
    BY <1>4, <1>5, <2>2
  <2> QED  BY <1>5, <2>1, <2>2 DEF PrepareCall
<1>6. CASE f.type = "cfn" /\ CallNative(n)
  <2>1. PICK x \in Nums : /\ stack' = [stack EXCEPT ![top - n - 1] = x]
                          /\ top' = top - n /\ frames' = StoredFrames /\ ip' = ip + 1
                          /\ UNCHANGED <<globals, maps, host>>
    BY <1>6 DEF CallNative
  <2> DEFINE q == n + 1  u == top - q
  <2>2. q \in Nat /\ q = Needs(I) /\ u \in Nat /\ u < StackMax /\ top' = top - q + 1
        /\ top - n - 1 = u
    <3>1. top \in Nat /\ top <= StackMax /\ StackMax \in Nat /\ Slots \in Nat
          /\ top - (n + 1) >= Slots + 1
      BY <1>1, <1>2, WorkHolds, OperandsOwn
    <3>2. top' = top - n
      BY <2>1
    <3> HIDE DEF n
    <3> QED  BY <1>2, <3>1, <3>2
  <2> HIDE DEF q, u
  <2>3. Agree(stack, stack', 0, u) /\ stack'[u] = x
    <3>1. stack' = [stack EXCEPT ![u] = x]
      BY <2>1, <2>2
    <3> QED  BY <1>1, <2>2, <3>1, StoredAt
  <2>4. Agree(stack, stack', 0, top - q) /\ stack'[top - q] = x
    BY <2>3 DEF u
  <2>5. StaysInFrame
    <3>1. SameFrames(frames, frames')
      BY <1>1, <2>1, StoredSame
    <3> QED  BY <2>1, <3>1 DEF StaysInFrame, host
  <2>6. q <= Needs(I)
    BY <2>2
  <2>7. M!Continue(ip', M!Below(q) \o <<x>>)
    BY <1>1, <2>2, <2>4, <2>5, <2>6, Replaces
  <2>8. ip' = M!Top.pc + 1 /\ M!Nums = Nums
    BY <1>1, <2>1, MachineHere, SameValues
  <2>9. M!Replace(n + 1, <<x>>)
    BY <2>1, <2>7, <2>8 DEF M!Replace, q
  <2> HIDE DEF n, f
  <2> QED  BY <1>3, <1>6, <2>8, <2>9 DEF M!CallFunction
<1>7. CASE f.type \notin {"fun", "cfn"} /\ RuntimeError(StoredFrames)
  BY <1>4, <1>7
<1> QED  BY <1>5, <1>6, <1>7 DEF VmCall

(* A return stores its result where the callee was: on top of the caller's *)
(* operands.                                                               *)
LEMMA StepRet == ASSUME CallInv, Ret PROVE M!Return
<1> DEFINE n == Len(frames)  k == n - 1
<1>1. status = "running" /\ I.op = "RET" /\ At("RET") /\ Inv /\ TypeOK /\ StackDiscipline
      /\ IsOrdered(frames)
  BY DEF Ret, At, CallInv, Inv, Ordered, IsOrdered
<1>2. n \in Nat /\ n >= 1 /\ Needs(I) = 1 /\ frames \in Seq(FrameType)
  BY <1>1, Here DEF Needs, BinaryOps, UnaryOps, TypeOK
<1>3. M!At("RET") /\ Len(Calls) = n /\ M!Arg(0) = Peek(0)
  BY <1>1, <1>2, SameAt, MachineHere, MachineArg
<1>4. CASE n = 1
  <2>1. frames' = <<>> /\ status' = "idle" /\ outcome' = "ok" /\ UNCHANGED <<globals, maps, runs>>
    BY <1>4 DEF Ret
  <2>2. Calls' = <<>>
    BY <2>1, NoCalls
  <2> QED  BY <1>3, <1>4, <2>1, <2>2 DEF M!Return
<1>5. CASE n # 1
  <2>1. stack' = [stack EXCEPT ![Slots] = Peek(0)] /\ top' = Slots + 1
        /\ frames' = SubSeq(frames, 1, k) /\ ip' = frames[k].ip
        /\ UNCHANGED <<globals, maps, host>>
    BY <1>5 DEF Ret
  <2>2. n >= 2 /\ SlotsTyped(frames)
    <3>1. n >= 2
      <4> HIDE DEF n
      <4> QED  BY <1>2, <1>5
    <3> QED  BY <1>1, <3>1, FramesTyped DEF SlotsTyped
  <2> DEFINE e == Slots  u == e + 1  q == frames[k].ip  fr == frames  st == stack  st2 == stack'
             S == Live
  <2>3. e \in Nat /\ e < StackMax /\ e = fr[n].slots /\ u = e + 1 /\ q = fr[k].ip
        /\ top \in Nat /\ top <= StackMax /\ StackMax \in Nat
    <3>1. Slots \in Nat /\ top \in Nat /\ top <= StackMax /\ StackMax \in Nat /\ top - 1 >= Slots + 1
      BY <1>1, <1>2, WorkHolds, OperandsOwn
    <3> QED  BY <3>1 DEF Slots, Innermost
  <2>4. Holds(st, 0, e, S)
    <3>1. stack \in [0..StackMax-1 -> Live]
      BY <1>1, Unchanged
    <3>2. \A j \in 0..e-1 : j \in 0..StackMax-1
      BY <2>3
    <3> QED  BY <3>1, <3>2 DEF Holds
  <2>5. Agree(st, st2, 0, e) /\ st2[e] = Peek(0)
    <3> HIDE DEF e
    <3>1. stack' = [stack EXCEPT ![e] = Peek(0)]
      BY <2>1 DEF e
    <3> QED  BY <1>1, <2>3, <3>1, StoredAt
  <2>6. n \in Nat /\ n >= 2 /\ fr \in Seq(FrameType) /\ k = n - 1 /\ Len(fr) = n
        /\ IsOrdered(fr) /\ SlotsTyped(fr)
    BY <1>1, <1>2, <2>2
  <2> DEFINE f2 == SubSeq(fr, 1, k)
  <2>6a. IsFront(f2, fr, k)
    BY DEF IsFront
  <2>7. Calls' = CallsOf(f2, st2, u, q) /\ Calls = CallsOf(fr, st, top, ip)
    BY <2>1, CallsAre
  <2> HIDE DEF e, u, q, fr, st, st2, S, n, k, f2
  <2>8. IsReturned(CallsOf(f2, st2, u, q), CallsOf(fr, st, top, ip), k, st2[e])
    BY <2>3, <2>4, <2>5, <2>6, <2>6a, CallsPopped
  <2>9. Calls' = [AllButLast(Calls) EXCEPT ![k].work = Append(@, Peek(0))]
    BY <2>5, <2>7, <2>8 DEF IsReturned
  <2>10. M!Waiting = AllButLast(Calls)
    BY DEF M!Waiting, AllButLast
  <2>11. Len(M!Waiting) = k
    <3>1. Calls \in Seq(ValuesOf(Calls))
      <4>1. Len(frames) \in Nat
        BY <1>2 DEF n
      <4> QED  BY <4>1, CallsAre, CallsSeq
    <3>2. Len(Calls) = n /\ k \in Nat /\ k <= n /\ k = n - 1
      BY <1>3, <2>6
    <3>3. M!Waiting = SubSeq(Calls, 1, k)
      BY <3>2 DEF M!Waiting
    <3> QED  BY <3>1, <3>2, <3>3
  <2>12. UNCHANGED <<globals, maps, status, outcome, runs>>
    BY <2>1 DEF host
  <2> QED  BY <1>3, <1>5, <2>9, <2>10, <2>11, <2>12 DEF M!Return
<1> QED  BY <1>4, <1>5

-----------------------------------------------------------------------------
(* The host, and all of it together.                                       *)

LEMMA StepVmDofile == ASSUME CallInv, NEW f \in Scripts, VmDofile(f) PROVE M!RunScript(f)
<1>1. status = "idle" /\ top = 0 /\ frames = <<>> /\ runs < MaxRuns /\ runs' = runs + 1 /\ Inv
      /\ UNCHANGED <<globals, maps>>
  BY DEF VmDofile, CallInv, Inv, StackDiscipline
<1>2. CASE outcome' = "compile error" /\ UNCHANGED <<stack, top, frames, ip, status>>
  <2>1. Calls' = Calls
    BY <1>2, CallsAre
  <2> QED  BY <1>1, <1>2, <2>1 DEF M!RunScript
<1>3. CASE /\ stack' = [stack EXCEPT ![top] = FunVal(f)]
           /\ top' = top + 1
           /\ frames' = Append(frames, Frame(f, top))
           /\ ip' = 1
           /\ status' = "running"
           /\ UNCHANGED outcome
  <2>1. top' = 1 /\ frames' = <<Frame(f, 0)>> /\ ip' = 1
    BY <1>1, <1>3
  <2>2. stack'[0] = FunVal(f)
    <3>1. stack \in [0..StackMax-1 -> Live] /\ 0 \in 0..StackMax-1
      BY <1>1, Unchanged, VmAssumption DEF VmAssumption
    <3> QED  BY <1>1, <1>3, <3>1
  <2> DEFINE g == Frame(f, 0)
  <2>3. g.fn = f /\ g.slots = 0
    BY DEF Frame
  <2> HIDE DEF g
  <2>4. Len(frames') = 1 /\ frames'[1] = g
    BY <2>1 DEF g
  <2>5. Calls' = <<CallOf(f, 1, stack', 0, 1)>>
    <3>1. Calls' = CallsOf(frames', stack', top', ip')
      BY CallsAre
    <3>2. CallsOf(frames', stack', top', ip')
            = [i \in 1..1 |-> CallOf(f, 1, stack', 0, 1)]
      BY <2>1, <2>3, <2>4 DEF CallsOf
    <3> QED  BY <3>1, <3>2
  <2>6. Slice(stack', 0, 1) = <<FunVal(f)>>
    <3>1. Slice(stack', 0, 1) = [j \in 1..1 |-> stack'[0]]
      BY DEF Slice
    <3> QED  BY <2>2, <3>1
  <2>7. M!Call(f, <<M!FunVal(f)>>) = CallOf(f, 1, stack', 0, 1)
    BY <2>6, SameMade DEF M!Call, CallOf
  <2> QED  BY <1>1, <1>3, <2>5, <2>7 DEF M!RunScript
<1> QED  BY <1>2, <1>3 DEF VmDofile

LEMMA CallsIdle ==
  ASSUME CallInv, status = "idle", UNCHANGED frames
  PROVE  Calls' = Calls
<1>1. frames = <<>>
  BY DEF CallInv, Inv, StackDiscipline
<1>2. CallsOf(<<>>, stack, top, ip) = CallsOf(<<>>, stack', top', ip')
  BY DEF CallsOf
<1> QED  BY <1>1, <1>2, CallsAre

(* Every step of Vm is a step of Machine or changes nothing Machine sees.  *)
LEMMA StepRefines == ASSUME CallInv, [Next]_vars PROVE [M!Next]_(M!vars)
<1>1. CASE UNCHANGED vars
  <2>1. Calls' = Calls
    BY <1>1, CallsAre DEF vars
  <2> QED  BY <1>1, <2>1 DEF vars, M!vars
<1>2. CASE Execute
  <2>1. M!Step
    BY <1>2, StepDiscard, StepPush, StepStore, StepUnary, StepBinary, StepJump, StepDef,
       StepGetGlobal, StepAssignGlobal, StepMakeMap, StepGetField, StepSetField, StepGetIndex,
       StepSetIndex, StepVmCall, StepRet DEF Execute, M!Step
  <2> QED  BY <2>1 DEF M!Next
<1>3. CASE Host
  <2>1. ASSUME NEW f \in Scripts, VmDofile(f) PROVE M!Host
    BY <2>1, StepVmDofile DEF M!Host
  <2>2. ASSUME NEW s \in Strs, NEW c \in Natives, SetGlobal(s, Val("cfn", c)) PROVE M!Host
    <3> DEFINE x == Val("cfn", c)
    <3>1. status = "idle" /\ globals' = [globals EXCEPT ![s] = x]
          /\ UNCHANGED <<frames, maps, status, outcome, runs>>
      BY <2>2 DEF SetGlobal, host
    <3>2. Calls' = Calls
      BY <3>1, CallsIdle
    <3>3. M!Define(s, x)
      BY <3>1, <3>2 DEF M!Define
    <3>4. s \in M!Strs /\ x = M!Val("cfn", c)
      BY SameValues, SameMade
    <3> HIDE DEF x
    <3> QED  BY <3>3, <3>4 DEF M!Host
  <2>3. ASSUME VmClose PROVE M!Host
    <3>1. Calls' = Calls
      BY <2>3, CallsIdle DEF VmClose
    <3>2. M!Strs = Strs
      BY SameValues
    <3>3. M!Close
      BY <2>3, <3>1, <3>2 DEF VmClose, M!Close
    <3> QED  BY <3>3 DEF M!Host
  <2>4. M!Host
    BY <1>3, <2>1, <2>2, <2>3 DEF Host
  <2> QED  BY <2>4 DEF M!Next
<1> QED  BY <1>1, <1>2, <1>3 DEF Next

LEMMA InitRefines == Init => M!Init
<1> SUFFICES ASSUME Init PROVE M!Init
  OBVIOUS
<1>1. Calls = <<>>
  BY DEF Init, Calls
<1> QED  BY <1>1, SameValues DEF Init, M!Init

(* Every run of Vm, seen as calls with operand stacks of their own, is a   *)
(* run of Machine: no instruction, call, return or error lets one call     *)
(* disturb another's operands, for every program the compiler's guarantees *)
(* allow.                                                                  *)
THEOREM VmImplementsMachine == Spec => CallsImplemented
<1>1. CallInv /\ [Next]_vars => [M!Next]_(M!vars)
  BY StepRefines
<1> QED  BY <1>1, InitRefines, VmFramesOrdered, PTL DEF Spec, CallsImplemented, M!Spec
=============================================================================
