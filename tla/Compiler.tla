------------------------------- MODULE Compiler -------------------------------
(***************************************************************************)
(* The one-pass compiler of parser.c: recursive descent for declarations   *)
(* and statements, a table of precedences for expressions, and code        *)
(* emitted as the text is read.  The C calls in progress are a stack of    *)
(* tasks, what each has still to do, the innermost first; a step is what a *)
(* function does up to its next call of another parsing function.          *)
(*                                                                         *)
(* Tokens are what lexer_scan hands out.  It never makes a TOKEN_EXIT (see *)
(* Lexer), so exitStatement cannot be reached and is left out.  Positions  *)
(* of the emitted code in the text, and the messages, are left out.        *)
(***************************************************************************)
EXTENDS Instructions, Sequences, FiniteSets

CONSTANTS
  Programs,  \* the texts considered, as sequences of tokens
  Lower,     \* what tolower makes of a name that is not in lower case
  Byte,      \* UINT8_COUNT: values of a byte, and locals of a function
  MaxArgs,   \* arguments, parameters or printed values at most (32)
  MaxJump,   \* UINT16_MAX: the longest jump, here in instructions
  MaxCalls   \* C calls in progress the thread's stack has room for

Garbage == [type : {"THEN", "ELSE", "uninitialised"}, text : {""}, line : {0}]

ASSUME CompilerAssumption ==
  /\ Byte \in Nat /\ Byte > 1
  /\ MaxArgs \in Nat /\ MaxArgs < Byte /\ MaxJump \in Nat /\ MaxCalls \in Nat \ {0}
  /\ \A name \in DOMAIN Lower : Lower[name] \in STRING
  /\ \A p \in Programs :
       /\ p \in Seq([type : STRING, text : STRING, line : Nat])
       /\ p # <<>> /\ \A i \in DOMAIN p : p[i].type = "EOF" <=> i = Len(p)
       /\ \A i, j \in DOMAIN p : i < j => p[i].line <= p[j].line

VARIABLES
  input,     \* the tokens of the source
  pos,       \* the index of parser->current
  prev,      \* parser->previous
  tasks,     \* the C calls in progress
  compilers, \* parser->compiler and the compilers it is enclosed by
  functions, \* the function objects made, the script's first
  expr,      \* parser->subExprs (2 stands for more), hadCall, hadAssign
  hadError,  \* parser->hadError
  panicMode, \* parser->panicMode
  status     \* "compiling", "done" or "crashed"

errors == <<hadError, panicMode>>
vars == <<input, pos, prev, tasks, compilers, functions, expr, errors, status>>

Least(S) == CHOOSE i \in S : \A j \in S : i <= j
Greatest(S) == CHOOSE i \in S : \A j \in S : i >= j

NewFunction == [arity |-> 0, code |-> <<>>, consts |-> <<>>]

(* initCompiler: the first local is the function itself, without a name.   *)
NewCompiler(fn, type, scope) ==
  [fn |-> fn, type |-> type, scope |-> scope, locals |-> <<[name |-> "", depth |-> 0]>>]

(* previous is not initialised: the first advance copies what current      *)
(* happens to hold into it.                                                *)
Init ==
  /\ input \in Programs
  /\ pos = 0
  /\ prev \in Garbage
  /\ tasks = <<[do |-> "start"]>>
  /\ compilers = <<NewCompiler(1, "script", 0)>>
  /\ functions = <<NewFunction>>
  /\ expr = [subExprs |-> 0, hadCall |-> FALSE, hadAssign |-> FALSE]
  /\ hadError = FALSE /\ panicMode = FALSE
  /\ status = "compiling"

-----------------------------------------------------------------------------
(* What the parsing functions are made of.                                 *)

Current == input[pos]
Is(types) == Current.type \in types
SameLine == Current.line = prev.line

Task == Head(tasks)
At(name) == status = "compiling" /\ Len(tasks) <= MaxCalls /\ Task.do = name
Continue(calls) == tasks' = calls \o Tail(tasks) /\ UNCHANGED input

(* error, errorAtCurrent: in panic mode no further error is reported, and  *)
(* hadError is set already.                                                *)
Errors(failed) ==
  IF failed THEN hadError' = TRUE /\ panicMode' = TRUE ELSE UNCHANGED errors

(* advance: tokens that are errors of the lexer are reported and skipped.  *)
NextPos ==
  LET later == {q \in pos+1..Len(input) : input[q].type # "ERROR"} IN
  IF later = {} THEN Len(input) ELSE Least(later)

(* errorAt prints currentLine, which errorToken does not set.              *)
Report(lexical) ==
  status' \in {"compiling"} \cup (IF lexical THEN {"crashed"} ELSE {})

Advance(failed) ==
  LET skips == NextPos > pos + 1 IN
  /\ pos' = NextPos /\ prev' = Current
  /\ Errors(failed \/ skips) /\ Report(skips /\ ~panicMode)

(* advance when an error may have been reported just before.               *)
AdvanceAfter(failed) ==
  IF failed THEN pos' = NextPos /\ prev' = Current /\ Errors(TRUE) /\ Report(FALSE)
            ELSE Advance(FALSE)

Stay(failed) == Errors(failed) /\ UNCHANGED <<pos, prev, status>>

(* match, and consume, which takes its absence for an error.               *)
Match(types) == IF Is(types) THEN Advance(FALSE) ELSE Stay(FALSE)
Consume(types) == IF Is(types) THEN Advance(FALSE) ELSE Stay(TRUE)

Comp == Head(compilers)
Scope == Comp.scope
Locals == Comp.locals
SetCompiler(c) == compilers' = <<c>> \o Tail(compilers)

Chunk == functions[Comp.fn]
SetChunk(chunk) == functions' = [functions EXCEPT ![Comp.fn] = chunk]

I(op) == [op |-> op, a |-> 0]
IA(op, a) == [op |-> op, a |-> a]
Emit(code) == SetChunk([Chunk EXCEPT !.code = @ \o code])

(* patchJump: the jump at position p goes to the end of code.              *)
Patched(code, p) == [code EXCEPT ![p].a = Len(code) - p]
TooFar(code, p) == Len(code) - p > MaxJump

(* makeConstant: one that is there already is used again.                  *)
Index(v) ==
  LET same == {i \in DOMAIN Chunk.consts : Chunk.consts[i] = v} IN
  IF same = {} THEN Len(Chunk.consts) ELSE Least(same) - 1
NoRoom(v) == Index(v) >= Byte
Operand(v) == IF NoRoom(v) THEN 0 ELSE Index(v)
WithConstant(v) ==
  [Chunk EXCEPT !.consts = IF Index(v) = Len(@) THEN Append(@, v) ELSE @]

(* identifierConstant: names of globals and fields fold to lower case.     *)
Identifier(text) == Val("str", IF text \in DOMAIN Lower THEN Lower[text] ELSE text)

(* Calls of parsing functions.                                             *)
Call(name) == [do |-> name]
Parse(prec) == [do |-> "parsePrecedence", prec |-> prec]
Expect(types) == [do |-> "consume", types |-> types]
Output(code) == [do |-> "emit", code |-> code, assigns |-> FALSE]
OutputAssignment(code) == [do |-> "emit", code |-> code, assigns |-> TRUE]
PatchJump(p) == [do |-> "patchJump", at |-> p]
DeclareUntil(types) == [do |-> "declareUntil", types |-> types]
DefineVariable(global) == [do |-> "defineVariable", global |-> global]
NextItem(list, count) == [do |-> list, count |-> count]

-----------------------------------------------------------------------------
(* Expressions.                                                            *)

PrecAssignment == 1
PrecOr == 2
PrecAnd == 3
PrecUnary == 8

Precedence(type) ==
  CASE type = "OR" -> PrecOr
    [] type = "AND" -> PrecAnd
    [] type \in {"==", "!="} -> 4
    [] type \in {"<", "<=", ">", ">="} -> 5
    [] type \in {"+", "-"} -> 6
    [] type \in {"*", "/"} -> 7
    [] type \in {"(", "[", "."} -> 9
    [] OTHER -> 0

BinaryCode(type) ==
  CASE type = "==" -> <<I("EQ")>>
    [] type = "!=" -> <<I("EQ"), I("NOT")>>
    [] type = "<"  -> <<I("LT")>>
    [] type = "<=" -> <<I("LE")>>
    [] type = ">"  -> <<I("LE"), I("NOT")>>
    [] type = ">=" -> <<I("LT"), I("NOT")>>
    [] type = "+"  -> <<I("ADD")>>
    [] type = "-"  -> <<I("SUB")>>
    [] type = "*"  -> <<I("MUL")>>
    [] type = "/"  -> <<I("DIV")>>
    [] OTHER -> <<>>

UnaryCode(type) == IF type = "-" THEN <<I("NEG")>> ELSE <<I("NOT")>>

(* The prefix and infix columns of rules: what each parsing function calls *)
(* first; none for a type that has no rule.                                *)
Prefix(type, canAssign) ==
  CASE type = "(" -> <<Parse(PrecAssignment), Expect({")"})>>
    [] type = "[" -> <<Call("map")>>
    [] type \in {"-", "!", "NOT"} -> <<Parse(PrecUnary), Output(UnaryCode(type))>>
    [] type = "IDENTIFIER" -> <<[do |-> "variable", canAssign |-> canAssign]>>
    [] type \in {"NUMBER", "STRING"} -> <<Call("constant")>>
    [] type = "NULL"  -> <<Output(<<I("NIL")>>)>>
    [] type = "TRUE"  -> <<Output(<<I("TRUE")>>)>>
    [] type = "FALSE" -> <<Output(<<I("FALSE")>>)>>
    [] type = "FUNC"  -> <<Output(<<I("LD")>>)>>
    [] OTHER -> <<>>

Assignable(get, set, canAssign, noted) ==
  [do |-> "assignable", get |-> get, canAssign |-> canAssign,
   set |-> IF noted THEN OutputAssignment(<<set>>) ELSE Output(<<set>>)]

Infix(type, canAssign) ==
  CASE type = "AND" -> <<Call("and")>>
    [] type = "OR"  -> <<Call("or")>>
    [] type = "("   -> <<Call("argumentList")>>
    [] type = "."   -> <<[do |-> "dot", canAssign |-> canAssign]>>
    [] type = "["   -> <<Parse(PrecAssignment), Expect({"]"}),
                         Assignable(I("GETI"), I("SETI"), canAssign, TRUE)>>
    [] OTHER -> <<Parse(Precedence(type) + 1), Output(BinaryCode(type))>>

(* subExprs is only read at the end of a statement.                        *)
ParsePrecedence ==
  /\ At("parsePrecedence")
  /\ LET canAssign == Task.prec <= PrecAssignment
         rule == Prefix(Current.type, canAssign)
     IN
     \/ /\ rule = <<>>
        /\ Advance(TRUE)
        /\ Continue(<<>>)
        /\ UNCHANGED expr
     \/ /\ rule # <<>>
        /\ Advance(FALSE)
        /\ Continue(rule \o <<[do |-> "operators", prec |-> Task.prec]>>)
        /\ expr' = [expr EXCEPT !.subExprs = IF @ < 2 THEN @ + 1 ELSE @]
  /\ UNCHANGED <<compilers, functions>>

(* Fault: an operator of the same precedence is left to the caller.        *)
BindsTighter(prec, type) == prec < Precedence(type)

Binds(prec, type) == prec <= Precedence(type)

(* The loop of parsePrecedence; an operator on a later line is not taken.  *)
Operators ==
  /\ At("operators")
  /\ LET canAssign == Task.prec <= PrecAssignment
         taken == Binds(Task.prec, Current.type) /\ Current.line <= prev.line
     IN
     \/ /\ taken
        /\ Advance(FALSE)
        /\ Continue(Infix(Current.type, canAssign) \o <<Task>>)
        /\ expr' = [expr EXCEPT !.hadCall = @ \/ Is({"("})]
     \/ /\ ~taken
        /\ IF canAssign /\ Is({"="}) THEN Advance(TRUE) ELSE Stay(FALSE)
        /\ Continue(<<>>)
        /\ UNCHANGED expr
  /\ UNCHANGED <<compilers, functions>>

NumberOrString ==
  /\ At("constant")
  /\ LET v == Val(IF prev.type = "NUMBER" THEN "num" ELSE "str", prev.text) IN
     /\ SetChunk([WithConstant(v) EXCEPT !.code = Append(@, IA("CONST", Operand(v)))])
     /\ Stay(NoRoom(v))
  /\ Continue(<<>>)
  /\ UNCHANGED <<compilers, expr>>

(* emitBytes after a call has returned.                                    *)
EmitBytes ==
  /\ At("emit")
  /\ Emit(Task.code)
  /\ expr' = [expr EXCEPT !.hadAssign = @ \/ Task.assigns]
  /\ Stay(FALSE) /\ Continue(<<>>)
  /\ UNCHANGED compilers

ConsumeToken ==
  /\ At("consume")
  /\ Consume(Task.types) /\ Continue(<<>>)
  /\ UNCHANGED <<compilers, functions, expr>>

(* resolveLocal: the latest local of the name, spelt exactly so; 0 is none.*)
ResolveLocal(text) ==
  LET same == {i \in DOMAIN Locals : Locals[i].name = text} IN
  IF same = {} THEN 0 ELSE Greatest(same)

(* namedVariable up to the assignment.                                     *)
NamedVariable ==
  /\ At("variable")
  /\ LET slot == ResolveLocal(prev.text)
         name == Identifier(prev.text)
     IN
     \/ /\ slot > 0
        /\ Stay(Locals[slot].depth = -1)
        /\ Continue(<<Assignable(IA("LD", slot - 1), IA("ST", slot - 1), Task.canAssign, TRUE)>>)
        /\ UNCHANGED functions
     \/ /\ slot = 0
        /\ SetChunk(WithConstant(name))
        /\ Stay(NoRoom(name))
        /\ Continue(<<Assignable(IA("GLD", Operand(name)), IA("GST", Operand(name)),
                                 Task.canAssign, TRUE)>>)
  /\ UNCHANGED <<compilers, expr>>

(* canAssign && match(TOKEN_EQUAL): then the value is compiled first.      *)
Assign ==
  /\ At("assignable")
  /\ \/ /\ Task.canAssign /\ Is({"="})
        /\ Advance(FALSE)
        /\ Continue(<<Parse(PrecAssignment), Task.set>>)
        /\ UNCHANGED functions
     \/ /\ ~(Task.canAssign /\ Is({"="}))
        /\ Emit(<<Task.get>>)
        /\ Stay(FALSE) /\ Continue(<<>>)
  /\ UNCHANGED <<compilers, expr>>

Dot ==
  /\ At("dot")
  /\ LET name == Identifier(IF Is({"IDENTIFIER"}) THEN Current.text ELSE prev.text) IN
     /\ SetChunk(WithConstant(name))
     /\ IF Is({"IDENTIFIER"}) THEN Advance(NoRoom(name)) ELSE Stay(TRUE)
     /\ Continue(<<Assignable(IA("GET", Operand(name)), IA("SET", Operand(name)),
                              Task.canAssign, FALSE)>>)
  /\ UNCHANGED <<compilers, expr>>

(* and_: the right operand is skipped when the left one is false.          *)
And ==
  /\ At("and")
  /\ Emit(<<I("JMPF"), I("POP")>>)
  /\ Continue(<<Parse(PrecAnd), PatchJump(Len(Chunk.code) + 1)>>)
  /\ Stay(FALSE) /\ UNCHANGED <<compilers, expr>>

(* or_: JMPF goes over the JMP that skips the right operand.               *)
Or ==
  /\ At("or")
  /\ Emit(<<IA("JMPF", 1), I("JMP"), I("POP")>>)
  /\ Continue(<<Parse(PrecOr), PatchJump(Len(Chunk.code) + 2)>>)
  /\ Stay(FALSE) /\ UNCHANGED <<compilers, expr>>

Patch ==
  /\ At("patchJump")
  /\ SetChunk([Chunk EXCEPT !.code = Patched(@, Task.at)])
  /\ Stay(TooFar(Chunk.code, Task.at)) /\ Continue(<<>>)
  /\ UNCHANGED <<compilers, expr>>

(* argumentList and map, up to the first item.                             *)
Items ==
  /\ \/ /\ At("argumentList")
        /\ Continue(IF Is({")"}) THEN <<Expect({")"}), Output(<<IA("CALL", 0)>>)>>
                    ELSE <<Parse(PrecAssignment), NextItem("arguments", 1)>>)
     \/ /\ At("map")
        /\ Continue(IF Is({"]"}) THEN <<Expect({"]"}), Output(<<IA("MAP", 0)>>)>>
                    ELSE <<Parse(PrecAssignment), NextItem("elements", 1)>>)
  /\ Stay(FALSE) /\ UNCHANGED <<compilers, functions, expr>>

(* After an item of a list: the limits, and the comma before another one.  *)
(* The counts of arguments and elements are bytes.                         *)
Item(list, failed, rest) ==
  /\ At(list)
  /\ IF Is({","}) THEN AdvanceAfter(failed) ELSE Stay(failed)
  /\ Continue(IF Is({","})
              THEN <<Parse(PrecAssignment), NextItem(list, Task.count + 1)>> ELSE rest)
  /\ UNCHANGED <<compilers, functions, expr>>

Arguments ==
  LET argCount == Task.count % Byte IN
  Item("arguments", argCount = MaxArgs, <<Expect({")"}), Output(<<IA("CALL", argCount)>>)>>)

Elements ==
  Item("elements", FALSE, <<Expect({"]"}), Output(<<IA("MAP", Task.count % Byte)>>)>>)

(* printStatement gives up at once when there are too many.                *)
Values ==
  \/ /\ At("values") /\ Task.count > MaxArgs
     /\ Stay(TRUE) /\ Continue(<<>>)
     /\ UNCHANGED <<compilers, functions, expr>>
  \/ /\ At("values") /\ Task.count <= MaxArgs
     /\ Item("values", FALSE, <<Output(<<IA("PRINT", Task.count)>>)>>)

-----------------------------------------------------------------------------
(* Variables and functions.                                                *)

(* parseVariable: the name, the local it declares in a scope, or else the  *)
(* constant of the global.  A local is not initialised until depth is set. *)
NameTaken(text) ==
  \E i \in DOMAIN Locals :
    /\ Locals[i].name = text
    /\ \A j \in i..Len(Locals) : Locals[j].depth = -1 \/ Locals[j].depth >= Scope

Name == IF Is({"IDENTIFIER"}) THEN Current.text ELSE prev.text
Global == IF Scope > 0 THEN 0 ELSE Operand(Identifier(Name))
VariableFailed ==
  \/ ~Is({"IDENTIFIER"})
  \/ Scope > 0 /\ (NameTaken(Name) \/ Len(Locals) = Byte)
  \/ Scope = 0 /\ NoRoom(Identifier(Name))

(* Fault: no check for room in locals.                                     *)
DeclaredUnchecked ==
  IF Scope > 0 THEN Append(Locals, [name |-> Name, depth |-> -1]) ELSE Locals

Declared ==
  IF Scope > 0 /\ Len(Locals) < Byte THEN Append(Locals, [name |-> Name, depth |-> -1])
                                     ELSE Locals

Initialised(locals) ==
  IF Scope > 0 THEN [locals EXCEPT ![Len(locals)].depth = Scope] ELSE locals

ParseVariable(locals, chunk, failed) ==
  /\ IF Is({"IDENTIFIER"}) THEN Advance(VariableFailed \/ failed) ELSE Stay(TRUE)
  /\ SetCompiler([Comp EXCEPT !.locals = locals])
  /\ SetChunk(IF Scope > 0 THEN chunk ELSE WithConstant(Identifier(Name)))
  /\ UNCHANGED expr

FunDeclaration ==
  /\ At("funDeclaration")
  /\ ParseVariable(Initialised(Declared), Chunk, FALSE)
  /\ Continue(<<Call("function"), DefineVariable(Global)>>)

VarDeclaration ==
  /\ At("varDeclaration")
  /\ ParseVariable(Declared, Chunk, FALSE)
  /\ Continue(<<Call("initializer"), DefineVariable(Global)>>)

(* globalDeclaration emits OP_DEF in a scope too, where parseVariable has  *)
(* made a local, which is never initialised, and returned 0.               *)
GlobalDeclaration ==
  /\ At("globalDeclaration")
  /\ ParseVariable(Declared, Chunk, FALSE)
  /\ Continue(<<Call("initializer"), Output(<<IA("DEF", Global)>>), Call("globals")>>)

Parameter ==
  LET arity == Chunk.arity + 1 IN
  /\ At("parameter")
  /\ ParseVariable(Initialised(Declared), [Chunk EXCEPT !.arity = arity], arity > MaxArgs)
  /\ Continue(<<Call("parameters")>>)

(* The comma before another name.                                          *)
Names ==
  /\ \/ /\ At("globals")
        /\ Continue(IF Is({","}) THEN <<Call("globalDeclaration")>> ELSE <<>>)
     \/ /\ At("parameters")
        /\ Continue(IF Is({","}) THEN <<Call("parameter")>> ELSE <<>>)
  /\ Match({","})
  /\ UNCHANGED <<compilers, functions, expr>>

Initializer ==
  /\ At("initializer")
  /\ \/ /\ Is({"="})
        /\ Advance(FALSE) /\ Continue(<<Parse(PrecAssignment)>>)
        /\ UNCHANGED functions
     \/ /\ ~Is({"="})
        /\ Emit(<<I("NIL")>>) /\ Stay(FALSE) /\ Continue(<<>>)
  /\ UNCHANGED <<compilers, expr>>

Define ==
  /\ At("defineVariable")
  /\ IF Scope > 0
     THEN SetCompiler([Comp EXCEPT !.locals = Initialised(@)]) /\ UNCHANGED functions
     ELSE Emit(<<IA("DEF", Task.global)>>) /\ UNCHANGED compilers
  /\ Stay(FALSE) /\ Continue(<<>>) /\ UNCHANGED expr

(* function, up to the parameters.                                         *)
Function ==
  /\ At("function")
  /\ functions' = Append(functions, NewFunction)
  /\ compilers' = <<NewCompiler(Len(functions) + 1, "function", 1)>> \o compilers
  /\ Consume({"("})
  /\ Continue(<<Call("parameterList"), Expect({")"}), DeclareUntil({"END", "ENDFUNC"}),
                Expect({"END", "ENDFUNC"}), Call("endFunction")>>)
  /\ UNCHANGED expr

ParameterList ==
  /\ At("parameterList")
  /\ Continue(IF Is({")"}) THEN <<>> ELSE <<Call("parameter")>>)
  /\ Stay(FALSE) /\ UNCHANGED <<compilers, functions, expr>>

EmitReturn == <<I("NIL"), I("RET")>>

(* endCompiler, and the function as a constant of the enclosing one.  A    *)
(* function is in no constants yet.                                        *)
EndFunction ==
  LET outer == functions[compilers[2].fn]
      index == Len(outer.consts)
  IN
  /\ At("endFunction")
  /\ functions' =
       [functions EXCEPT
         ![Comp.fn].code = @ \o EmitReturn,
         ![compilers[2].fn].consts = Append(@, Val("fun", Comp.fn)),
         ![compilers[2].fn].code = Append(@, IA("CONST", IF index >= Byte THEN 0 ELSE index))]
  /\ compilers' = Tail(compilers)
  /\ Stay(index >= Byte) /\ Continue(<<>>) /\ UNCHANGED expr

-----------------------------------------------------------------------------
(* Statements.                                                             *)

InScope == SetCompiler([Comp EXCEPT !.scope = @ + 1])

(* Fault: leave the locals of the block on the stack.                      *)
EndScopeUnpopped ==
  LET depth == Scope - 1
      kept  == {i \in DOMAIN Locals : Locals[i].depth <= depth}
      count == IF kept = {} THEN 0 ELSE Greatest(kept)
  IN
  /\ At("endScope")
  /\ SetCompiler([Comp EXCEPT !.scope = depth, !.locals = SubSeq(@, 1, count)])
  /\ Stay(FALSE) /\ Continue(<<>>) /\ UNCHANGED <<functions, expr>>

(* endScope pops the locals above the last one that is not of the block.   *)
EndScope ==
  LET depth == Scope - 1
      kept  == {i \in DOMAIN Locals : Locals[i].depth <= depth}
      count == IF kept = {} THEN 0 ELSE Greatest(kept)
  IN
  /\ At("endScope")
  /\ SetCompiler([Comp EXCEPT !.scope = depth, !.locals = SubSeq(@, 1, count)])
  /\ Emit([i \in 1..Len(Locals) - count |-> I("POP")])
  /\ Stay(FALSE) /\ Continue(<<>>) /\ UNCHANGED expr

(* What a keyword begins is compiled after it.                             *)
Keyword(type, calls) ==
  /\ Is({type})
  /\ Advance(FALSE) /\ Continue(calls)
  /\ UNCHANGED <<compilers, functions, expr>>

(* Fault: look at the brace without consuming it.                          *)
BlockUnconsumed ==
  /\ Is({"{"})
  /\ Stay(FALSE) /\ InScope
  /\ Continue(<<DeclareUntil({"}"}), Expect({"}"}), Call("endScope")>>)
  /\ UNCHANGED <<functions, expr>>

Block ==
  /\ Is({"{"})
  /\ Advance(FALSE) /\ InScope
  /\ Continue(<<DeclareUntil({"}"}), Expect({"}"}), Call("endScope")>>)
  /\ UNCHANGED <<functions, expr>>

Statement ==
  /\ At("statement")
  /\ \/ Keyword("PRINT", <<Parse(PrecAssignment), NextItem("values", 1)>>)
     \/ Keyword("IF", <<Parse(PrecAssignment), Expect({"THEN"}), Call("then")>>)
     \/ Keyword("RETURN", <<Call("returnValue")>>)
     \/ Block
     \/ /\ ~Is({"PRINT", "IF", "RETURN", "{"})
        /\ Stay(FALSE) /\ UNCHANGED functions
        /\ \/ /\ prev.type = "THEN"
              /\ InScope
              /\ Continue(<<IF SameLine /\ ~Is({"EOF"}) THEN Call("declaration")
                            ELSE DeclareUntil({"ELSE"}), Call("endScope")>>)
              /\ UNCHANGED expr
           \/ /\ prev.type = "ELSE"
              /\ InScope
              /\ Continue(<<DeclareUntil({"ENDIF"}), Call("endScope")>>)
              /\ UNCHANGED expr
           \/ /\ prev.type \notin {"THEN", "ELSE"}
              /\ Continue(<<Parse(PrecAssignment), Call("endExpression")>>)
              /\ expr' = [subExprs |-> 0, hadCall |-> FALSE, hadAssign |-> FALSE]
              /\ UNCHANGED compilers

(* The end of expressionStatement.                                         *)
EndExpression ==
  /\ At("endExpression")
  /\ Emit(<<I("POP")>>)
  /\ Stay(expr.subExprs <= 1 /\ ~expr.hadCall /\ ~expr.hadAssign)
  /\ Continue(<<>>) /\ UNCHANGED <<compilers, expr>>

(* ifStatement after 'Then', and after the statement that follows.         *)
IfThen ==
  /\ At("then")
  /\ Emit(<<I("JMPF"), I("POP")>>)
  /\ Continue(<<Call("statement"),
                [do |-> "else", at |-> Len(Chunk.code) + 1, inline |-> SameLine]>>)
  /\ Stay(FALSE) /\ UNCHANGED <<compilers, expr>>

(* Fault: the condition is left on the stack when it is false.             *)
IfElseUnpopped ==
  LET code == Append(Chunk.code, I("JMP"))
      ends == IF Task.inline THEN <<>> ELSE <<Expect({"END", "ENDIF"})>>
  IN
  /\ At("else")
  /\ SetChunk([Chunk EXCEPT !.code = Patched(code, Task.at)])
  /\ IF Is({"ELSE"}) THEN AdvanceAfter(TooFar(code, Task.at)) ELSE Stay(TooFar(code, Task.at))
  /\ Continue((IF Is({"ELSE"}) THEN <<Call("statement")>> ELSE <<>>)
              \o <<PatchJump(Len(code))>> \o ends)
  /\ UNCHANGED <<compilers, expr>>

IfElse ==
  LET code == Append(Chunk.code, I("JMP"))
      ends == IF Task.inline THEN <<>> ELSE <<Expect({"END", "ENDIF"})>>
  IN
  /\ At("else")
  /\ SetChunk([Chunk EXCEPT !.code = Append(Patched(code, Task.at), I("POP"))])
  /\ IF Is({"ELSE"}) THEN AdvanceAfter(TooFar(code, Task.at)) ELSE Stay(TooFar(code, Task.at))
  /\ Continue((IF Is({"ELSE"}) THEN <<Call("statement")>> ELSE <<>>)
              \o <<PatchJump(Len(code))>> \o ends)
  /\ UNCHANGED <<compilers, expr>>

ReturnStatement ==
  /\ At("returnValue")
  /\ \/ /\ Comp.type = "script"
        /\ Stay(TRUE) /\ Continue(<<>>) /\ UNCHANGED functions
     \/ /\ Comp.type = "function" /\ (Is({"}", "END", "ENDFUNC"}) \/ Current.line > prev.line)
        /\ Emit(EmitReturn) /\ Stay(FALSE) /\ Continue(<<>>)
     \/ /\ Comp.type = "function" /\ ~Is({"}", "END", "ENDFUNC"}) /\ Current.line <= prev.line
        /\ Continue(<<Parse(PrecAssignment), Output(<<I("RET")>>)>>)
        /\ Stay(FALSE) /\ UNCHANGED functions
  /\ UNCHANGED <<compilers, expr>>

(* The loops of block, inlineBlock, function and statement.                *)
DeclareLoop ==
  /\ At("declareUntil")
  /\ Continue(IF Is(Task.types \cup {"EOF"}) THEN <<>> ELSE <<Call("declaration"), Task>>)
  /\ Stay(FALSE) /\ UNCHANGED <<compilers, functions, expr>>

Declaration ==
  /\ At("declaration")
  /\ \/ Keyword("FUNC", <<Call("funDeclaration"), Call("endDeclaration")>>)
     \/ Keyword("VAR", <<Call("varDeclaration"), Call("endDeclaration")>>)
     \/ Keyword("GLOBAL", <<Call("globalDeclaration"), Call("endDeclaration")>>)
     \/ /\ ~Is({"FUNC", "VAR", "GLOBAL"})
        /\ Continue(<<Call("statement"), Call("endDeclaration")>>)
        /\ Stay(FALSE) /\ UNCHANGED <<compilers, functions, expr>>

(* Where synchronize stops: at a token that may begin a declaration.       *)
ResumePos ==
  Least({q \in pos..Len(input) :
           input[q].type \in {"CLASS", "FUNC", "VAR", "FOR", "IF", "WHILE", "PRINT", "RETURN",
                              "EOF"}})

(* The end of declaration: after an error, synchronize.  What advance says *)
(* of the lexer's errors it skips is panic again.                          *)
EndDeclaration ==
  LET passed == pos..ResumePos-1
      tokens == {q \in passed : input[q].type # "ERROR"}
  IN
  /\ At("endDeclaration")
  /\ IF panicMode
     THEN /\ pos' = ResumePos
          /\ prev' = IF passed = {} THEN prev ELSE input[Greatest(tokens)]
          /\ panicMode' = (passed # tokens)
          /\ Report(passed # tokens) /\ UNCHANGED hadError
     ELSE Stay(FALSE)
  /\ Continue(<<>>) /\ UNCHANGED <<compilers, functions, expr>>

-----------------------------------------------------------------------------
(* compile.                                                                *)

Start ==
  /\ At("start")
  /\ pos' = NextPos /\ UNCHANGED prev
  /\ Errors(NextPos > 1) /\ Report(NextPos > 1)
  /\ Continue(<<Call("program")>>)
  /\ UNCHANGED <<compilers, functions, expr>>

Program ==
  /\ At("program")
  /\ \/ /\ ~Is({"EOF"})
        /\ Continue(<<Call("declaration"), Task>>)
        /\ Stay(FALSE) /\ UNCHANGED <<compilers, functions, expr>>
     \/ /\ Is({"EOF"})
        /\ prev' = Current
        /\ Emit(EmitReturn)
        /\ tasks' = <<>> /\ status' = "done"
        /\ UNCHANGED <<input, pos, errors, compilers, expr>>

(* No room for another C call.                                             *)
StackOverflow ==
  /\ status = "compiling" /\ Len(tasks) > MaxCalls
  /\ status' = "crashed"
  /\ UNCHANGED <<input, pos, prev, tasks, compilers, functions, expr, errors>>

Next ==
  \/ Start \/ Program \/ Declaration \/ EndDeclaration \/ DeclareLoop
  \/ Statement \/ EndExpression \/ IfThen \/ IfElse \/ ReturnStatement \/ EndScope
  \/ FunDeclaration \/ VarDeclaration \/ GlobalDeclaration \/ Parameter \/ Names
  \/ Initializer \/ Define \/ Function \/ ParameterList \/ EndFunction
  \/ ParsePrecedence \/ Operators \/ NumberOrString \/ NamedVariable \/ Assign \/ Dot
  \/ And \/ Or \/ Patch \/ Items \/ Arguments \/ Elements \/ Values
  \/ EmitBytes \/ ConsumeToken
  \/ StackOverflow

(* compile runs to its end on one thread.                                  *)
Spec == Init /\ [][Next]_vars /\ WF_vars(Next)

-----------------------------------------------------------------------------
TypeOK ==
  /\ pos \in 0..Len(input)
  /\ prev \in {input[i] : i \in 1..pos} \cup Garbage
  /\ \A i \in DOMAIN compilers :
       /\ compilers[i].fn \in DOMAIN functions
       /\ compilers[i].type = IF i = Len(compilers) THEN "script" ELSE "function"
       /\ compilers[i].scope \in Nat
       /\ Len(compilers[i].locals) \in 1..Byte
       /\ \A j \in DOMAIN compilers[i].locals :
            compilers[i].locals[j].depth \in Nat \cup {-1}
  /\ \A f \in DOMAIN functions :
       functions[f].arity \in Nat /\ functions[f].code \in Seq(Instr)
  /\ hadError \in BOOLEAN /\ panicMode \in BOOLEAN /\ (panicMode => hadError)
  /\ status \in {"compiling", "done", "crashed"}

(* The depth of the stack above the frame's slots before each instruction  *)
(* of a function's code, and after the last: what the jumps say that go    *)
(* there, or else what the instruction before leaves.                      *)
Jumps(code, p) == {q \in 1..p-1 : code[q].op \in {"JMP", "JMPF"} /\ q + 1 + code[q].a = p}

Depths(fun) ==
  LET depth[p \in 1..Len(fun.code)+1] ==
        IF p = 1 THEN fun.arity + 1
        ELSE IF Jumps(fun.code, p) # {} THEN depth[Least(Jumps(fun.code, p))]
        ELSE depth[p - 1] + Effect(fun.code[p - 1])
  IN depth

(* A `Global` that is, or may be, in a scope, and a list so long that the  *)
(* count of its elements may not fit in a byte: see the README.            *)
ScopedGlobal ==
  \E i, j \in DOMAIN input :
    i < j /\ input[i].type \in {"{", "THEN", "ELSE", "FUNC"} /\ input[j].type = "GLOBAL"
LongList == Cardinality({i \in DOMAIN input : input[i].type = ","}) >= Byte - 1

Clean == ~hadError /\ ~ScopedGlobal /\ ~LongList

(* Between declarations the locals are all there is on the stack, each in  *)
(* its slot, whatever statements, branches and blocks came before; the     *)
(* compiler only ever counts its locals, never the stack.                  *)
LocalsOnStack ==
  (At("declaration") /\ Clean) => Depths(Chunk)[Len(Chunk.code) + 1] = Len(Locals)

Constants == UNION {{f.consts[i] : i \in DOMAIN f.consts} : f \in {functions[g] : g \in DOMAIN functions}}

Compiled ==
  INSTANCE Bytecode WITH
    Funs     <- DOMAIN functions,
    Scripts  <- {1},
    Code     <- [f \in DOMAIN functions |-> functions[f].code],
    Consts   <- [f \in DOMAIN functions |-> functions[f].consts],
    Arity    <- [f \in DOMAIN functions |-> functions[f].arity],
    Depth    <- [f \in DOMAIN functions |->
                   SubSeq(Depths(functions[f]), 1, Len(functions[f].code))],
    Numbers  <- {c.v : c \in {d \in Constants : d.type = "num"}},
    Strings  <- {c.v : c \in {d \in Constants : d.type = "str"}},
    Natives  <- {},
    MaxDepth <- 256

(* What Vm assumes of the code it executes holds of every function of a    *)
(* program compiled without error: depth does not depend on the way,       *)
(* operands are there, jumps, slots and constants exist, a return ends it. *)
CodeWellFormed ==
  (status = "done" /\ Clean)
  => \A f \in DOMAIN functions : Compiled!Balanced(f)

(* The compiler comes to the end of every text, however wrong, or it is at *)
(* a Then or an Else, real or read from uninitialised memory, calling      *)
(* itself without consuming a token: nowhere else can it loop or recurse.  *)
(* It may crash where it reports an error of the lexer.                    *)
CompileEnds ==
  \/ <>(status = "done")
  \/ <>(status = "crashed" /\ \E i \in 1..pos : input[i].type = "ERROR")
  \/ <>[](pos > 0 /\ prev.type \in {"THEN", "ELSE"}
          /\ ~Is({"PRINT", "IF", "RETURN", "{", "FUNC", "VAR", "GLOBAL"}))
=============================================================================
