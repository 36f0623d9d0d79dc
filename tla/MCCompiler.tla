------------------------------ MODULE MCCompiler ------------------------------
(***************************************************************************)
(* Small programs: every short text, expressions of up to four operands    *)
(* under every operator, and statements one after the other and inside     *)
(* every kind of block.                                                    *)
(***************************************************************************)
EXTENDS Grammar

LOCAL INSTANCE SequencesExt

CONSTANTS MaxText, MaxOperands   \* how long the short texts and expressions are

LowerOf == [X |-> "x"]

(* Tokens (a number by a name), NL where a line ends, and a text with its lines counted.        *)
NL == [type |-> "NL", text |-> "", line |-> 0]
T(type) == [type |-> type, text |-> type, line |-> 0]
Id(name) == [T("IDENTIFIER") EXCEPT !.text = name]
Num(n) == [T("NUMBER") EXCEPT !.text = n]

Text(s) ==
  LET next(t, w) ==
        IF w.type = "NL" THEN [t EXCEPT !.line = @ + 1]
        ELSE [t EXCEPT !.read = Append(@, [w EXCEPT !.line = t.line])]
  IN FoldLeft(next, [line |-> 1, read |-> <<>>], Append(s, T("EOF"))).read

Words(set) == {<<t>> : t \in set}
Texts(set, n) == UNION {[1..k -> set] : k \in 0..n}

(* Every text of up to MaxText tokens: of the tokens statements are made    *)
(* of, and, after Print, of those expressions are made of.                 *)
StatementTokens ==
  {Id("x"), NL} \cup {T(t) : t \in {"PRINT", "IF", "THEN", "ELSE", "ENDIF", "FUNC", "VAR",
                                     "GLOBAL", "RETURN", "{", "}", "(", ")", "=", "ERROR",
                                     "WHILE"}}
ExpressionTokens ==
  {Id("x"), Num("1")} \cup {T(t) : t \in {"-", "*", "AND", "(", ")", "[", "]", "=", ",", "."}}

ShortTexts ==
  Texts(StatementTokens, MaxText)
  \cup {<<T("PRINT")>> \o s : s \in Texts(ExpressionTokens, MaxText)}

(* Operands and operators in turn.                                         *)
a == <<Id("a")>>
Operators1 == {<<T(t)>> : t \in {"OR", "AND", "==", ">", "-", "*"}}
Operators2 == Operators1 \cup {<<T(t)>> : t \in {"!=", "<", "<=", ">=", "+", "/", "=", "."}}
Operands ==
  {a, <<Num("1")>>, <<T("NOT")>> \o a, <<T("-")>> \o a, <<T("("), Id("a"), T(")")>>,
   <<Id("a"), T("("), Id("b"), T(")")>>, <<Id("a"), T("["), Id("b"), T("]")>>,
   <<T("["), Id("a"), T(","), Id("b"), T("]")>>, <<Id("a"), T("."), Id("X")>>,
   <<T("FUNC"), T("("), T(")")>>, <<T("["), T("]")>>}

Expressions ==
  {x \o o \o y : x \in Operands, o \in Operators2, y \in Operands}
  \cup {a \o o \o a \o p \o a : o \in Operators2, p \in Operators2}
  \cup (IF MaxOperands > 3
        THEN {a \o o \o a \o p \o a \o q \o a :
                o \in Operators1, p \in Operators1, q \in Operators1}
        ELSE {})
  \cup {<<T("("), Id("a")>> \o o \o a \o <<T(")")>> \o p \o a : o \in Operators1, p \in Operators1}
  \cup Words({T("NULL"), T("TRUE"), T("FALSE"), T("FUNC"), Num("2"),
              [T("STRING") EXCEPT !.text = "x"]})

PrintTexts ==
  {<<T("PRINT")>> \o e : e \in Expressions} \cup {<<T("PRINT")>> \o e \o <<T(",")>> \o a : e \in Operands}

(* Statements, each with its line's end, and what may be around them.      *)
x == <<Id("x")>>
Show(e) == <<T("PRINT")>> \o e \o <<NL>>
Var(e) == <<T("VAR"), Id("x"), T("=")>> \o e \o <<NL>>
Statements ==
  {<<>>, Show(x), Show(a \o <<T("AND")>> \o x), Var(a), Var(x), <<T("VAR"), Id("y"), NL>>,
   <<T("VAR"), NL>>, <<T("GLOBAL"), Id("g"), T(","), Id("h"), T("=")>> \o x \o <<NL>>,
   <<Id("x"), T("="), Id("a"), NL>>, <<Id("X"), T("("), Id("x"), T(")"), NL>>,
   <<T("{"), NL>> \o Var(a) \o Show(x) \o <<T("}"), NL>>,
   <<T("IF"), Id("x"), T("THEN")>> \o Show(x),
   <<T("IF"), Id("x"), T("THEN"), T("VAR"), Id("y"), T("="), Num("1"), NL>>,
   <<T("RETURN"), NL>>, <<T("RETURN"), Id("x"), NL>>,
   <<T("FUNC"), Id("f"), T("("), Id("x"), T(")"), NL>> \o Show(x) \o <<T("END"), NL>>}

Around(s) ==
  {s, <<T("{"), NL>> \o Var(a) \o s \o <<T("}")>> \o Show(x),
   <<T("FUNC"), Id("f"), T("("), Id("x"), T(","), Id("y"), T(")"), NL>> \o s \o <<T("ENDFUNC"), NL>>,
   <<T("IF"), Id("a"), T("THEN"), NL, T("{"), NL>> \o s \o <<T("}"), NL, T("ELSE"), NL>> \o s
     \o <<T("ENDIF"), NL>> \o Show(x),
   <<T("IF"), Id("a"), T("THEN"), NL, T("VAR"), Id("x"), NL>> \o s \o <<T("ELSE"), T("PRINT"), Num("1"), NL>>
     \o <<T("END"), NL>> \o Show(x)}

StatementTexts == UNION {Around(s \o t) : s \in Statements, t \in Statements}

(* At the limits.                                                          *)
List(item, n) == [i \in 1..2*n-1 |-> IF i % 2 = 1 THEN item ELSE T(",")]
LimitTexts ==
  {<<T("PRINT"), Id("a"), T("(")>> \o List(Num("1"), n) \o <<T(")"), NL>> : n \in 1..Byte+1}
  \cup {<<T("PRINT"), T("[")>> \o List(Num("1"), n) \o <<T("]"), NL>> : n \in 1..Byte+1}
  \cup {<<T("PRINT")>> \o List(Num("1"), n) \o <<NL>> : n \in 1..Byte+1}
  \cup {<<T("PRINT")>> \o [i \in 1..2*n-1 |-> IF i % 2 = 1 THEN Num(<<"1","2","3","4","5","6","7","8">>[(i + 1) \div 2]) ELSE T("+")] : n \in 1..Byte+2}
  \cup {<<T("FUNC"), Id("f"), T("(")>>
        \o [i \in 1..2*n-1 |-> IF i % 2 = 1 THEN Id(<<"p", "q", "r", "s", "t", "u", "v", "w">>[(i + 1) \div 2])
                               ELSE T(",")]
        \o <<T(")"), T("END")>> : n \in 1..Byte+1}

(* More code than a jump can go over, between an If and its Else, after an *)
(* Or and after Else.                                                      *)
Sum(n) == [i \in 1..2*n-1 |-> IF i % 2 = 1 THEN Id("a") ELSE T("+")]
LongTexts ==
  UNION {{<<T("PRINT"), Id("a"), T("OR")>> \o Sum(n) \o <<NL>>,
          <<T("IF"), Id("a"), T("THEN"), T("PRINT")>> \o Sum(n) \o <<T("ELSE"), T("PRINT")>> \o a \o <<NL>>,
          <<T("IF"), Id("a"), T("THEN"), NL>> \o Show(a) \o <<T("ELSE"), NL>> \o Show(Sum(n)) \o <<T("ENDIF")>>}
         : n \in 5..8}

MCPrograms == {Text(s) : s \in ShortTexts \cup PrintTexts \cup StatementTexts \cup LimitTexts \cup LongTexts}
=============================================================================
