--------------------------------- MODULE MCVm ---------------------------------
(***************************************************************************)
(* Small scripts for Vm, in the shape parser.c compiles: two functions,    *)
(* one that calls itself for ever, and scripts that between them execute   *)
(* every opcode and run into every error.  Globals survive from one script *)
(* to the next, so what a name holds depends on what ran before.           *)
(***************************************************************************)
EXTENDS Vm

CONSTANTS s1, s2, native, add, loop

i(op, a) == [op |-> op, a |-> a]
o(op) == i(op, 0)

N(n) == Val("num", n)
S(s) == Val("str", s)

(* Constants of a script: names and literals, at fixed places.             *)
Pool == <<S(s1), S(s2), N(0), N(1), FunVal(add), FunVal(loop)>>
K(n) == i("CONST", n)
Ending == <<o("NIL"), o("RET")>>

(* Global s1 under an operation, the result dropped.                       *)
On(code) == <<i("GLD", 0)>> \o code \o <<o("POP")>> \o Ending

Bodies == <<
  (* 1: Func add(a)   Local b = a   Return b + a                           *)
  <<i("LD", 1), i("LD", 2), i("LD", 1), o("ADD"), o("RET")>> \o Ending,
  (* 2: Func loop()   Return s2()                                          *)
  <<i("GLD", 1), i("CALL", 0), o("RET")>> \o Ending,
  (* 3: Func s1 .. add   Print s1(1), s1                                   *)
  <<K(4), i("DEF", 0), i("GLD", 0), K(3), i("CALL", 1), i("GLD", 0), i("PRINT", 2)>> \o Ending,
  (* 4: Func s2 .. loop   s2()                                             *)
  <<K(5), i("DEF", 1), i("GLD", 1), i("CALL", 0), o("POP")>> \o Ending,
  (* 5: Local a = [1, "s2"], every access to it                            *)
  <<K(3), K(1), i("MAP", 2), i("LD", 1), i("DEF", 0), i("LD", 1), i("GET", 0), o("POP"),
    i("LD", 1), o("TRUE"), i("SET", 1), o("POP"), i("LD", 1), K(2), o("GETI"), o("POP"),
    i("LD", 1), K(1), o("FALSE"), o("SETI"), o("POP"), o("POP")>> \o Ending,
  (* 6: If not s1 Then s1 = 1   and an assignment to a local               *)
  <<i("GLD", 0), o("NOT"), i("JMPF", 6), o("POP"), K(3), i("ST", 1), i("GST", 0), o("POP"),
    i("JMP", 1), o("POP")>> \o Ending,
  (* 7 .. 13: one operation on s1, whatever it holds                       *)
  On(<<o("NEG")>>),
  On(<<K(3), o("LT")>>),
  On(<<K(0), o("ADD")>>),
  On(<<i("GET", 1)>>),
  On(<<K(3), i("SET", 1)>>),
  On(<<K(2), o("GETI")>>),
  On(<<o("NIL"), K(3), o("SETI")>>),
  (* 14: s1()                                                              *)
  On(<<i("CALL", 0)>>),
  (* 15: "s1" + "s2" == 1 <= 0                                             *)
  <<K(0), K(1), o("ADD"), K(3), K(2), o("LE"), o("EQ"), o("POP")>> \o Ending,
  (* 16: s1 = 1                                                            *)
  <<K(3), i("GST", 0), o("POP")>> \o Ending
>>

(* The two functions, and one script of each of the other bodies.          *)
FunsDef == {add, loop} \cup 3..Len(Bodies)
ScriptsDef == 3..Len(Bodies)
Body(f) == IF f = add THEN 1 ELSE IF f = loop THEN 2 ELSE f
CodeDef == [f \in Funs |-> Bodies[Body(f)]]
ConstsDef == [f \in Funs |-> Pool]
ArityDef == [f \in Funs |-> IF f = add THEN 1 ELSE 0]

(* The depth at each position, from an earlier one control comes from; the *)
(* compiler's own count where none does.                                   *)
DepthOf(f) ==
  LET d[p \in DOMAIN Code[f]] ==
        IF p = 1 THEN Arity[f] + 1
        ELSE LET from == {q \in 1..p-1 : p \in Successors(f, q)}
                 q == IF from = {} THEN p - 1 ELSE CHOOSE x \in from : TRUE
             IN d[q] + Effect(Code[f][q])
  IN d
DepthDef == [f \in Funs |-> DepthOf(f)]
=============================================================================
