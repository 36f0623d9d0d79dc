-------------------------------- MODULE Grammar --------------------------------
(***************************************************************************)
(* A reference for the expressions of Compiler: a grammar with one level   *)
(* for each precedence, as the table of prec_t lists them, and the code    *)
(* each phrase stands for.  Parses gives the codes of all the ways to read *)
(* a text at a level; names and constants stand for themselves.  The       *)
(* limits are the code's: a call of exactly MaxArgs arguments is refused,  *)
(* as parser.c:394 does, and a map's elements are counted in a byte.       *)
(***************************************************************************)
EXTENDS Compiler

(* Instructions with the constant they use in the place of its index.      *)
NoValue == Val("none", "")
Op(op, a) == <<[op |-> op, a |-> a, v |-> NoValue]>>
Use(op, v) == <<[op |-> op, a |-> 0, v |-> v]>>
Plain(code) == [p \in DOMAIN code |-> [op |-> code[p].op, a |-> code[p].a, v |-> NoValue]]

Before(s, k) == SubSeq(s, 1, k - 1)
After(s, k) == SubSeq(s, k + 1, Len(s))
Places(s, type) == {k \in DOMAIN s : s[k].type = type}

(* Levels 2 and 3 associate to the right, 4 to 7 to the left.              *)
Levels ==
  <<{"="}, {"OR"}, {"AND"}, {"==", "!="}, {"<", "<=", ">", ">="}, {"+", "-"}, {"*", "/"}>>

Leaf(t) ==
  CASE t.type = "IDENTIFIER" -> {Use("GLD", Identifier(t.text))}
    [] t.type = "NUMBER" -> {Use("CONST", Val("num", t.text))}
    [] t.type = "STRING" -> {Use("CONST", Val("str", t.text))}
    [] t.type = "NULL"   -> {Op("NIL", 0)}
    [] t.type \in {"TRUE", "FALSE"} -> {Op(t.type, 0)}
    [] t.type = "FUNC"   -> {Op("LD", 0)}
    [] OTHER -> {}

Combined(type, x, y) ==
  CASE type = "AND" -> x \o Op("JMPF", 1 + Len(y)) \o Op("POP", 0) \o y
    [] type = "OR"  -> x \o Op("JMPF", 1) \o Op("JMP", 1 + Len(y)) \o Op("POP", 0) \o y
    [] OTHER -> x \o y \o Plain(BinaryCode(type))

RECURSIVE Parses(_, _), Lists(_)

(* Lists of at least one expression: their code and their length.          *)
Lists(s) ==
  {[code |-> x, length |-> 1] : x \in Parses(1, s)}
  \cup UNION {{[code |-> x \o l.code, length |-> l.length + 1] :
                x \in Parses(1, Before(s, k)), l \in Lists(After(s, k))} : k \in Places(s, ",")}

Parses(level, s) ==
  LET n == Len(s)
      inner(k) == SubSeq(s, k + 1, n - 1)
      splits == {k \in 2..n-1 : s[k].type \in Levels[level]}
      closes(k, close) == n > 1 /\ s[n].type = close /\ k < n
      lists(k) == IF k = n - 1 THEN {[code |-> <<>>, length |-> 0]} ELSE Lists(inner(k))
      member == n > 2 /\ s[n].type = "IDENTIFIER" /\ s[n-1].type = "."
  IN
  CASE n = 0 -> {}
    [] n > 0 /\ level = 1 ->
         Parses(2, s)
         \cup UNION {LET t == Before(s, k)
                         last == Len(t)
                     IN {target.code \o v \o target.set :
                          v \in Parses(1, After(s, k)),
                          target \in
                            (IF last = 1 /\ t[1].type = "IDENTIFIER"
                             THEN {[code |-> <<>>, set |-> Use("GST", Identifier(t[1].text))]}
                             ELSE {})
                            \cup (IF last > 2 /\ t[last].type = "IDENTIFIER" /\ t[last-1].type = "."
                                  THEN {[code |-> x, set |-> Use("SET", Identifier(t[last].text))] :
                                          x \in Parses(9, SubSeq(t, 1, last - 2))}
                                  ELSE {})
                            \cup (IF t[last].type = "]"
                                  THEN UNION {{[code |-> x \o e, set |-> Op("SETI", 0)] :
                                                 x \in Parses(9, Before(t, j)),
                                                 e \in Parses(1, SubSeq(t, j + 1, last - 1))} :
                                                j \in Places(t, "[")}
                                  ELSE {})}
                    : k \in splits}
    [] n > 0 /\ level \in {2, 3} ->
         Parses(level + 1, s)
         \cup UNION {{Combined(s[k].type, x, y) :
                        x \in Parses(level + 1, Before(s, k)), y \in Parses(level, After(s, k))}
                    : k \in splits}
    [] n > 0 /\ level \in 4..7 ->
         Parses(level + 1, s)
         \cup UNION {{Combined(s[k].type, x, y) :
                        x \in Parses(level, Before(s, k)), y \in Parses(level + 1, After(s, k))}
                    : k \in splits}
    [] n > 0 /\ level = 8 ->
         Parses(9, s)
         \cup (IF s[1].type \in {"-", "!", "NOT"}
               THEN {x \o Plain(UnaryCode(s[1].type)) : x \in Parses(8, Tail(s))} ELSE {})
    [] n > 0 /\ level = 9 ->
         (IF n = 1 THEN Leaf(s[1]) ELSE {})
         \cup (IF s[1].type = "(" /\ closes(1, ")") THEN Parses(1, inner(1)) ELSE {})
         \cup (IF s[1].type = "[" /\ closes(1, "]")
               THEN {l.code \o Op("MAP", l.length % Byte) : l \in lists(1)} ELSE {})
         \cup (IF member THEN {x \o Use("GET", Identifier(s[n].text)) :
                                 x \in Parses(9, SubSeq(s, 1, n - 2))} ELSE {})
         \cup UNION {IF closes(k, ")")
                     THEN {x \o l.code \o Op("CALL", l.length) :
                             x \in Parses(9, Before(s, k)),
                             l \in {m \in lists(k) : m.length < MaxArgs}}
                     ELSE {} : k \in Places(s, "(") \ {1}}
         \cup UNION {IF closes(k, "]")
                     THEN {x \o e \o Op("GETI", 0) :
                             x \in Parses(9, Before(s, k)), e \in Parses(1, inner(k))}
                     ELSE {} : k \in Places(s, "[") \ {1}}

Spelt(f) ==
  [p \in DOMAIN f.code |->
     IF f.code[p].op \in {"CONST", "GLD", "GST", "GET", "SET"}
     THEN Use(f.code[p].op, f.consts[f.code[p].a + 1])[1]
     ELSE Op(f.code[p].op, f.code[p].a)[1]]

(* A text that is one `Print` on one line, with room for its constants.    *)
PrintLine ==
  /\ input[1].type = "PRINT"
  /\ \A i \in DOMAIN input :
       /\ input[i].line = input[1].line
       /\ i > 1 => input[i].type \notin {"PRINT", "IF", "RETURN", "VAR", "GLOBAL", "ERROR"}
  /\ Len(input) <= 2 * Byte

(* The table of precedences and the parsing functions accept just what the *)
(* grammar does, which reads a text in one way at most, and emit the code  *)
(* it gives: precedence, association, the ways around and, or and          *)
(* assignment.  What no grammar of expressions takes is an error, unless a *)
(* part of it is an expression and a statement without a keyword follows.  *)
FollowsGrammar ==
  (status = "done" /\ PrintLine) =>
    LET s == SubSeq(input, 2, Len(input) - 1)
        lists == {l \in Lists(s) : l.length <= MaxArgs}
    IN
    IF lists # {}
    THEN /\ ~hadError
         /\ \A l \in lists : Spelt(functions[1]) = l.code \o Op("PRINT", l.length) \o Plain(EmitReturn)
    ELSE hadError \/ \E k \in 1..Len(s)-1 : Lists(SubSeq(s, 1, k)) # {}
=============================================================================
