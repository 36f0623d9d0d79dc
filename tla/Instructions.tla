----------------------------- MODULE Instructions -----------------------------
(***************************************************************************)
(* The opcodes of code.h: what each needs from the stack and leaves on it. *)
(* The compiler emits them and the machine executes them.  A position in   *)
(* code counts instructions where the source counts bytes.                 *)
(***************************************************************************)
EXTENDS Integers

(***************************************************************************)
(* A value is its type and what the type makes of it: a number, 0 or 1, a  *)
(* string, a function, or the index of a map.                              *)
(***************************************************************************)
Val(type, v) == [type |-> type, v |-> v]

(***************************************************************************)
(* Instructions: op is the opcode, a its byte operand or jump offset.      *)
(***************************************************************************)
UnaryOps == {"NOT", "NEG"}
BinaryOps == {"EQ", "LT", "LE", "ADD", "SUB", "MUL", "DIV"}

Ops == UnaryOps \cup BinaryOps \cup
       {"PRINT", "POP", "CALL", "RET", "NIL", "TRUE", "FALSE", "CONST", "DEF", "GLD",
        "GST", "JMP", "JMPF", "LD", "ST", "MAP", "GET", "SET", "GETI", "SETI"}

Instr == [op : Ops, a : Nat]

(* How many values above the callee's own an instruction looks at, and by  *)
(* how much it changes their number.                                       *)
Needs(i) ==
  CASE i.op \in {"PRINT", "MAP"} -> i.a
    [] i.op = "CALL" -> i.a + 1
    [] i.op \in BinaryOps \cup {"SET", "GETI"} -> 2
    [] i.op = "SETI" -> 3
    [] i.op \in UnaryOps \cup {"POP", "RET", "DEF", "GST", "JMPF", "ST", "GET"} -> 1
    [] OTHER -> 0

Effect(i) ==
  CASE i.op \in {"PRINT", "CALL"} -> -i.a
    [] i.op = "MAP" -> 1 - i.a
    [] i.op \in BinaryOps \cup {"POP", "DEF", "SET", "GETI", "RET"} -> -1
    [] i.op = "SETI" -> -2
    [] i.op \in {"NIL", "TRUE", "FALSE", "CONST", "GLD", "LD"} -> 1
    [] OTHER -> 0

(* Entries stored above the values there, if only while it executes.       *)
Room(i) == IF i.op \in UnaryOps \/ Effect(i) = 1 THEN 1 ELSE 0
=============================================================================
