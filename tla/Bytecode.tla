------------------------------- MODULE Bytecode -------------------------------
(***************************************************************************)
(* Values and compiled functions: what vm.c executes, and what the         *)
(* compiler is to guarantee of it.                                         *)
(***************************************************************************)
EXTENDS Instructions, Sequences

CONSTANTS
  Funs,      \* the function objects
  Scripts,   \* those that are the result of compiling a source file
  Code,      \* function->chunk.code of each function
  Consts,    \* function->chunk.constants of each function
  Arity,     \* function->arity of each function
  Depth,     \* entries above frame->slots before each instruction
  Numbers,   \* the numbers considered
  Strings,   \* the interned strings considered
  Natives,   \* the C functions the libraries define
  MaxDepth   \* the largest Depth: what one frame may use of the stack

NullVal == Val("null", 0)
Bool(b) == Val("bool", IF b THEN 1 ELSE 0)
Bools   == {Bool(TRUE), Bool(FALSE)}
Nums    == {Val("num", n) : n \in Numbers}
Strs    == {Val("str", s) : s \in Strings}
FunVal(f) == Val("fun", f)
MapVal(m) == Val("map", m)

(* What a chunk's constants are.                                           *)
Constant ==
  [type : {"num"}, v : Numbers] \cup [type : {"str"}, v : Strings]
  \cup [type : {"fun"}, v : Funs]

Scalar ==
  Constant \cup [type : {"null"}, v : {0}] \cup [type : {"bool"}, v : {0, 1}]
  \cup [type : {"cfn"}, v : Natives]

Value == Scalar \cup [type : {"map"}, v : Nat \ {0}]

Arithmetic == {"num", "bool"}

(* IS_FALSEY looks at the raw bits: null, false and the number 0.          *)
Falsey(x) == x.type = "null" \/ (x.type \in Arithmetic /\ x.v = 0)

(* val_equal: booleans count as 0 and 1 beside numbers.                    *)
Equal(x, y) ==
  \/ x.type = y.type /\ x.v = y.v
  \/ x.type \in Arithmetic /\ y.type \in Arithmetic /\ x.v = y.v

(***************************************************************************)
(* Results of the operators: the set of possible ones, empty when the      *)
(* operand types are an error.  What arithmetic computes, and which string *)
(* a concatenation makes, is left open.                                    *)
(***************************************************************************)
BinaryResults(op, x, y) ==
  LET numeric == x.type \in Arithmetic /\ y.type \in Arithmetic IN
  CASE op = "EQ" -> {Bool(Equal(x, y))}
    [] op = "LT" /\ numeric -> {Bool(x.v < y.v)}
    [] op = "LE" /\ numeric -> {Bool(x.v <= y.v)}
    [] op \in {"ADD", "SUB", "MUL", "DIV"} /\ numeric -> Nums
    [] op = "ADD" /\ x.type = "str" /\ y.type = "str" -> Strs
    [] OTHER -> {}

UnaryResults(op, x) ==
  CASE op = "NOT" -> {Bool(Falsey(x))}
    [] op = "NEG" /\ x.type \in Arithmetic -> Nums
    [] OTHER -> {}

(* What a map may be indexed by.                                           *)
IndexTypes == {"num", "str"}

(* Where control may go from position p: jumps only go forward.            *)
Successors(f, p) ==
  LET i == Code[f][p] IN
  CASE i.op = "RET"  -> {}
    [] i.op = "JMP"  -> {p + 1 + i.a}
    [] i.op = "JMPF" -> {p + 1, p + 1 + i.a}
    [] OTHER         -> {p + 1}

NamesString(f, i) == i.a + 1 \in DOMAIN Consts[f] /\ Consts[f][i.a + 1] \in Strs

(* What the compiler guarantees of a function (endScope pops the locals of *)
(* a block, a statement leaves the stack as it found it, an expression     *)
(* adds one value): the depth at a position does not depend on the way to  *)
(* it, there are always operands, and code ends in a return.               *)
Balanced(f) ==
  LET code == Code[f]
      depth == Depth[f]
  IN
  /\ code \in Seq(Instr) /\ code # <<>>
  /\ Consts[f] \in Seq(Constant)
  /\ Arity[f] \in Nat
  /\ depth \in [DOMAIN code -> Nat \ {0}]
  /\ depth[1] = Arity[f] + 1
  /\ \A p \in DOMAIN code :
       LET i == code[p]
           d == depth[p]
       IN
       /\ d >= Needs(i) + 1
       /\ \A q \in Successors(f, p) : q \in DOMAIN code /\ depth[q] = d + Effect(i)
       /\ i.op \in {"LD", "ST"} => i.a < d
       /\ i.op = "CONST" => i.a + 1 \in DOMAIN Consts[f]
       /\ i.op \in {"DEF", "GLD", "GST", "GET", "SET"} => NamesString(f, i)
       /\ (f \in Scripts /\ i.op = "RET") => d = 2

(* What it does not: nothing limits the operands an expression holds.      *)
Bounded(f) == \A p \in DOMAIN Code[f] : Depth[f][p] + Room(Code[f][p]) <= MaxDepth

WellFormed(f) == Balanced(f) /\ Bounded(f)

ASSUME BytecodeAssumption ==
  /\ MaxDepth \in Nat \ {0}
  /\ Scripts \subseteq Funs
  /\ \A f \in Scripts : Arity[f] = 0
  /\ Numbers \subseteq Int /\ Numbers # {}
  /\ \A f \in Funs : WellFormed(f)
=============================================================================
