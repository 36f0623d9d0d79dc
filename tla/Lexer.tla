--------------------------------- MODULE Lexer ---------------------------------
(***************************************************************************)
(* The scanner of lexer.c: lexer_scan called again and again until it has  *)
(* handed out the end of the text.  A step is one round of a loop of the   *)
(* code, or what happens between two loops.                                *)
(*                                                                         *)
(* A text is a string, its characters the strings of length one; a pointer *)
(* is an index, and "NUL" the null character at the end.                   *)
(***************************************************************************)
EXTENDS Integers, Sequences, FiniteSets

LOCAL INSTANCE SequencesExt

CONSTANTS
  Sources,   \* the texts considered
  Lower      \* tolower, for the characters it changes

ASSUME LexerAssumption ==
  \A s \in Sources : s \in STRING /\ Len(s) \in Nat

VARIABLES
  text,         \* the source
  start,        \* the fields of lexer_t
  current,
  currentLine,
  line,
  position,
  doing,        \* the loop the scanner is in, "skip" before a token
  tokens        \* the tokens handed out

lexer == <<start, current, currentLine, line, position>>
vars == <<text, lexer, doing, tokens>>

(* lexer_init.                                                             *)
Init ==
  /\ text \in Sources
  /\ start = 1 /\ current = 1 /\ currentLine = 1
  /\ line = 1 /\ position = 1
  /\ doing = "skip"
  /\ tokens = <<>>

-----------------------------------------------------------------------------
Letters ==
  {"a", "b", "c", "d", "e", "f", "g", "h", "i", "j", "k", "l", "m", "n", "o", "p", "q", "r",
   "s", "t", "u", "v", "w", "x", "y", "z", "_", "$"}
Digits == {"0", "1", "2", "3", "4", "5", "6", "7", "8", "9"}
Blanks == {" ", "\r", "\t"}

Char(i) ==
  IF i > Len(text) THEN "NUL"
  ELSE LET c == SubSeq(text, i, i) IN IF c \in DOMAIN Lower THEN Lower[c] ELSE c

Peek == Char(current)
PeekNext == Char(current + 1)
AtEnd == current > Len(text)

(* The characters from i up to j, in lower case.                           *)
Word(i, j) ==
  LET join(w, c) == w \o c IN FoldLeft(join, "", [k \in 1..j - i |-> Char(i + k - 1)])

(* advance and match move over a character of the line.                    *)
Advance(n) ==
  /\ current' = current + n /\ position' = position + n
  /\ UNCHANGED <<currentLine, line>>

(* newLine, where the character is one, and advance.                       *)
AdvanceAnywhere ==
  IF Peek = "\n"
  THEN current' = current + 1 /\ line' = line + 1 /\ currentLine' = current + 1 /\ position' = 1
  ELSE Advance(1)

(* makeToken and errorToken.  The text of an error is its message: from    *)
(* and upto say what was read, and its currentLine is left as it was.      *)
HandOut(type, column) ==
  tokens' = Append(tokens, [type |-> type, from |-> start', upto |-> current',
                            line |-> line', column |-> column, lineStart |-> currentLine'])

MakeToken(type) == HandOut(type, position' - (current' - start'))
ErrorToken == HandOut("ERROR", position' - 1)

(* A loop goes round once more, or ends with a token.                      *)
Round == UNCHANGED <<text, start, doing, tokens>>
Return == doing' = "skip" /\ UNCHANGED <<text, start>>

(* lexer_scan after skipWhitespace: n characters are taken.                *)
Scan(n) == start' = current /\ Advance(n) /\ UNCHANGED text

-----------------------------------------------------------------------------
(* skipWhitespace.                                                         *)

(* Fault: a blank is looked at and not consumed.                           *)
BlankUnconsumed == doing = "skip" /\ Peek \in Blanks /\ UNCHANGED vars

Blank == doing = "skip" /\ Peek \in Blanks /\ Advance(1) /\ Round

NewLine == doing = "skip" /\ Peek = "\n" /\ AdvanceAnywhere /\ Round

LineComment ==
  /\ doing = "skip" /\ Peek = ";"
  /\ doing' = "comment" /\ UNCHANGED <<text, lexer, tokens>>

(* Fault: the comment goes on to the end of the text.                      *)
CommentIgnoresLines ==
  /\ doing = "comment"
  /\ \/ ~AtEnd /\ AdvanceAnywhere /\ Round
     \/ AtEnd /\ doing' = "skip" /\ UNCHANGED <<text, lexer, tokens>>

InLineComment ==
  /\ doing = "comment"
  /\ \/ Peek # "\n" /\ ~AtEnd /\ Advance(1) /\ Round
     \/ (Peek = "\n" \/ AtEnd) /\ doing' = "skip" /\ UNCHANGED <<text, lexer, tokens>>

(* The words checkKeyword is called with.                                  *)
StartWords ==
  {<<"c", "s">>, <<"c", "o", "m", "m", "e", "n", "t", "s", "-", "s", "t", "a", "r", "t">>}
EndWords == {<<"c", "e">>, <<"c", "o", "m", "m", "e", "n", "t", "s", "-", "e", "n", "d">>}

(* checkKeyword looks from start, which is still where the last token      *)
(* began: #cs is a token, and one more # right after it, or after another  *)
(* word of three letters that ends in cs, begins the comment.              *)
CheckKeyword(words) ==
  \E w \in words : /\ current = start + 1 + Len(w)
                   /\ \A k \in 1..Len(w) : Char(start + k) = w[k]

BlockComment ==
  /\ doing = "skip" /\ Peek = "#" /\ CheckKeyword(StartWords)
  /\ Advance(1)
  /\ doing' = "block" /\ UNCHANGED <<text, start, tokens>>

(* The word that ends it is looked for in the same place, where there is   *)
(* another: it ends with the text.                                         *)
InBlockComment ==
  /\ doing = "block"
  /\ LET ends == AtEnd \/ (Peek = "#" /\ CheckKeyword(EndWords)) IN
     \/ ~ends /\ AdvanceAnywhere /\ Round
     \/ ends /\ doing' = "skip" /\ UNCHANGED <<text, lexer, tokens>>

-----------------------------------------------------------------------------
(* lexer_scan, where a token begins.                                       *)

Keywords ==
  [and |-> "AND", case |-> "CASE", class |-> "CLASS", const |-> "CONST", default |-> "DEFAULT",
   dim |-> "DIM", do |-> "DO", end |-> "END", else |-> "ELSE", endif |-> "ENDIF",
   endfunc |-> "ENDFUNC", endwith |-> "ENDWITH", endselect |-> "ENDSELECT",
   endswitch |-> "ENDSWITCH", false |-> "FALSE", for |-> "FOR", func |-> "FUNC",
   global |-> "GLOBAL", if |-> "IF", local |-> "LOCAL", next |-> "NEXT", not |-> "NOT",
   null |-> "NULL", or |-> "OR", print |-> "PRINT", return |-> "RETURN", redim |-> "REDIM",
   select |-> "SELECT", static |-> "STATIC", step |-> "STEP", super |-> "SUPER",
   switch |-> "SWITCH", then |-> "THEN", this |-> "THIS", true |-> "TRUE", var |-> "VAR",
   volatile |-> "VOLATILE", wend |-> "WEND", while |-> "WHILE", with |-> "WITH"]

(* identifierType: enum, to, exit, elseif, until and exitloop, which have  *)
(* tokens too, are found by no branch.                                     *)
IdentifierType(word) == IF word \in DOMAIN Keywords THEN Keywords[word] ELSE "IDENTIFIER"

Single == {"(", ")", "[", "]", "{", "}", ",", ".", "-", "+", "/", "*"}
Double == {"!", "=", "<", ">"}
Quotes == {"'", "\""}
WithEqual(c) == CASE c = "!" -> "!=" [] c = "=" -> "==" [] c = "<" -> "<=" [] c = ">" -> ">="

TokenStart ==
  doing = "skip" /\ Peek \notin Blanks \cup {"\n", ";"}
  /\ ~(Peek = "#" /\ CheckKeyword(StartWords))

Handed == tokens # <<>> /\ tokens[Len(tokens)].type = "EOF"

EndOfText == TokenStart /\ AtEnd /\ ~Handed /\ Scan(0) /\ MakeToken("EOF") /\ UNCHANGED doing

(* What begins a token whose end a loop looks for.                         *)
Begin(chars, loop) ==
  TokenStart /\ ~AtEnd /\ Peek \in chars /\ Scan(1) /\ doing' = loop /\ UNCHANGED tokens

BeginIdentifier == Begin(Letters, "IDENTIFIER")
BeginNumber == Begin(Digits, "digits")
BeginString == Begin(Quotes, "string")
BeginMacro == Begin({"@"}, "MACRO")
BeginPreprocessor == Begin({"#"}, "PREPROCESSOR")

Operator ==
  /\ TokenStart /\ UNCHANGED doing
  /\ \/ Peek \in Single \cup Double /\ ~(Peek \in Double /\ PeekNext = "=")
        /\ Scan(1) /\ MakeToken(Peek)
     \/ Peek \in Double /\ PeekNext = "="
        /\ Scan(2) /\ MakeToken(WithEqual(Peek))

Unexpected ==
  /\ TokenStart /\ ~AtEnd
  /\ Peek \notin Letters \cup Digits \cup Single \cup Double \cup Quotes \cup {"@", "#"}
  /\ Scan(1) /\ ErrorToken /\ UNCHANGED doing

-----------------------------------------------------------------------------
(* identifier, macro, preprocessor.                                        *)
InWord ==
  /\ doing \in {"IDENTIFIER", "MACRO", "PREPROCESSOR"}
  /\ \/ Peek \in Letters \cup Digits /\ Advance(1) /\ Round
     \/ /\ Peek \notin Letters \cup Digits
        /\ Advance(0) /\ Return
        /\ MakeToken(IF doing = "IDENTIFIER" THEN IdentifierType(Word(start, current)) ELSE doing)

(* Fault: take a point that no digit follows.                              *)
TakesAnyPoint == doing = "digits" /\ Peek = "."

TakesPoint == doing = "digits" /\ Peek = "." /\ PeekNext \in Digits

(* number.                                                                 *)
InNumber ==
  /\ doing \in {"digits", "fraction"}
  /\ \/ Peek \in Digits /\ Advance(1) /\ Round
     \/ TakesPoint /\ Advance(1) /\ doing' = "fraction" /\ UNCHANGED <<text, start, tokens>>
     \/ Peek \notin Digits /\ ~TakesPoint /\ Advance(0) /\ Return /\ MakeToken("NUMBER")

(* Fault: lines that end in a string are not counted.                      *)
StringOnOneLine ==
  /\ doing = "string"
  /\ \/ Peek # Char(start) /\ ~AtEnd /\ Advance(1) /\ Round
     \/ AtEnd /\ Advance(0) /\ Return /\ ErrorToken
     \/ Peek = Char(start) /\ Advance(1) /\ Return /\ MakeToken("STRING")

(* Fault: the end of the text is not looked for.                           *)
StringPastEnd ==
  /\ doing = "string"
  /\ \/ Peek # Char(start) /\ AdvanceAnywhere /\ Round
     \/ Peek = Char(start) /\ Advance(1) /\ Return /\ MakeToken("STRING")

(* string, from the character after the quote.                             *)
InString ==
  /\ doing = "string"
  /\ \/ Peek # Char(start) /\ ~AtEnd /\ AdvanceAnywhere /\ Round
     \/ AtEnd /\ Advance(0) /\ Return /\ ErrorToken
     \/ Peek = Char(start) /\ Advance(1) /\ Return /\ MakeToken("STRING")

Next ==
  \/ Blank \/ NewLine \/ LineComment \/ InLineComment \/ BlockComment \/ InBlockComment
  \/ EndOfText \/ BeginIdentifier \/ BeginNumber \/ BeginString \/ BeginMacro
  \/ BeginPreprocessor \/ Operator \/ Unexpected
  \/ InWord \/ InNumber \/ InString

(* The scanner's loops run on one thread.                                  *)
Spec == Init /\ [][Next]_vars /\ WF_vars(Next)

-----------------------------------------------------------------------------
Loops ==
  {"skip", "comment", "block", "IDENTIFIER", "MACRO", "PREPROCESSOR", "digits", "fraction", "string"}

Types ==
  Single \cup Double \cup {WithEqual(c) : c \in Double} \cup {Keywords[w] : w \in DOMAIN Keywords}
  \cup {"IDENTIFIER", "MACRO", "PREPROCESSOR", "NUMBER", "STRING", "ERROR", "EOF"}

Token == [type : Types, from : Nat, upto : Nat, line : Nat, column : Int, lineStart : Nat]

TypeOK ==
  /\ text \in STRING
  /\ start \in Nat \ {0} /\ current \in Nat \ {0} /\ start <= current /\ current <= Len(text) + 1
  /\ currentLine \in Nat \ {0} /\ line \in Nat \ {0} /\ position \in Nat
  /\ doing \in Loops
  /\ tokens \in Seq(Token)

(* The line a place of the text is on, and where the line begins.          *)
LinesBefore(i) == {k \in 1..i-1 : Char(k) = "\n"}
OneLine(from, upto) == \A k \in from..upto-1 : Char(k) # "\n"

IsLineOf(begin, number, i) ==
  /\ Cardinality(LinesBefore(i)) = number - 1
  /\ begin \in 1..i /\ OneLine(begin, i)
  /\ begin = 1 \/ Char(begin - 1) = "\n"

(* The line and the column that errors and stack traces show, and by which *)
(* the compiler tells where a statement ends, are those of the text: after *)
(* comments and strings of several lines too.  A token that spans lines    *)
(* has the line it ends on; an error the column of the last character.     *)
PositionsRight ==
  \A i \in DOMAIN tokens :
    LET t == tokens[i] IN
    /\ IsLineOf(t.lineStart, t.line, t.upto)
    /\ OneLine(t.from, t.upto) =>
         t.column = (IF t.type = "ERROR" THEN t.upto - 1 ELSE t.from) - t.lineStart + 1

(* Every character is in a token, or else a blank or in a comment: one     *)
(* that begins with a semicolon ends with the line, and nothing of it is   *)
(* in a token.  After #cs and another # the rest of the text is skipped.   *)
Skipped(from, upto) ==
  \A k \in from..upto-1 :
    \/ Char(k) \in Blanks \cup {"\n"}
    \/ \E c \in from..k : /\ Char(c) = ";" /\ OneLine(c, k)
                          /\ upto > Len(text) \/ ~OneLine(k, upto)
    \/ Char(from) = "#" /\ upto > Len(text)

EndOf(i) == IF i = 0 THEN 1 ELSE tokens[i].upto

NothingLost ==
  /\ \A i \in DOMAIN tokens :
       EndOf(i - 1) <= tokens[i].from /\ Skipped(EndOf(i - 1), tokens[i].from)
  /\ Handed => EndOf(Len(tokens)) = Len(text) + 1

(* A token of each kind in the text.                                       *)
Matches(t) ==
  LET first == Char(t.from)
      next == Char(t.upto)
      rest == {Char(k) : k \in t.from+1..t.upto-1}
      points == {k \in t.from..t.upto-1 : Char(k) = "."}
  IN
  CASE t.type \in Single \cup Double ->
         t.upto = t.from + 1 /\ first = t.type /\ ~(first \in Double /\ next = "=")
    [] t.type \in {WithEqual(c) : c \in Double} ->
         t.upto = t.from + 2 /\ first \in Double /\ t.type = WithEqual(first) /\ rest = {"="}
    [] t.type = "NUMBER" ->
         /\ first \in Digits /\ rest \subseteq Digits \cup {"."} /\ next \notin Digits
         /\ points = {} => ~(next = "." /\ Char(t.upto + 1) \in Digits)
         /\ points # {} => \E p \in points : points = {p} /\ p < t.upto - 1
    [] t.type = "STRING" ->
         /\ first \in Quotes /\ Char(t.upto - 1) = first /\ t.upto > t.from + 1
         /\ \A k \in t.from+1..t.upto-2 : Char(k) # first
    [] t.type = "EOF" -> t.from = Len(text) + 1
    [] t.type = "ERROR" ->
         \/ first \in Quotes /\ t.upto = Len(text) + 1 /\ first \notin rest
         \/ t.upto = t.from + 1
    [] OTHER ->
         /\ first \in Letters \cup {"@", "#"}
         /\ rest \subseteq Letters \cup Digits /\ next \notin Letters \cup Digits

(* A token is as long as its kind allows, and its characters are of its    *)
(* kind: what reads further, or stops early, is an error far from here.    *)
LongestMatch == \A i \in DOMAIN tokens : Matches(tokens[i])

(* Words that begin a comment of several lines, as a comment of            *)
(* skipWhitespace has it (lexer.c:145), are not tokens.                    *)
CommentsSkipped ==
  \A i \in DOMAIN tokens :
    tokens[i].type = "PREPROCESSOR" => Word(tokens[i].from, tokens[i].upto) \notin {"#cs", "#comments-start"}

(* The scanner comes to the end of every text.                             *)
ScanEnds == <>Handed
=============================================================================
