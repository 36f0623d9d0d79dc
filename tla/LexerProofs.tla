------------------------------ MODULE LexerProofs ------------------------------
(***************************************************************************)
(* For every text: the types of the scanner's state; the lines and columns *)
(* of its tokens are those of the text; what lies between tokens is only   *)
(* what may be skipped; and every token is as long as its kind allows.     *)
(***************************************************************************)
EXTENDS Lexer, FiniteSetTheorems, TLAPS

-----------------------------------------------------------------------------
(* Lines of a text s.                                                      *)

CharOf(s, i) ==
  IF i > Len(s) THEN "NUL"
  ELSE LET c == SubSeq(s, i, i) IN IF c \in DOMAIN Lower THEN Lower[c] ELSE c

Breaks(s, i) == {k \in 1..i-1 : CharOf(s, k) = "\n"}
Unbroken(s, from, upto) == \A k \in from..upto-1 : CharOf(s, k) # "\n"
LineIn(s, begin, number, i) ==
  /\ Cardinality(Breaks(s, i)) = number - 1
  /\ begin \in 1..i /\ Unbroken(s, begin, i)
  /\ begin = 1 \/ CharOf(s, begin - 1) = "\n"

LEMMA BreaksFinite ==
  ASSUME NEW s, NEW i \in Nat \ {0}
  PROVE  IsFiniteSet(Breaks(s, i)) /\ Cardinality(Breaks(s, i)) \in Nat
<1>1. IsFiniteSet(1..i-1)
  BY FS_Interval
<1>2. Breaks(s, i) \subseteq 1..i-1
  BY DEF Breaks
<1> QED  BY <1>1, <1>2, FS_Subset, FS_CardinalityType

(* A character that is no newline leaves the line as it is.                *)
LEMMA SameLine ==
  ASSUME NEW s, NEW begin \in Nat, NEW number \in Nat, NEW i \in Nat \ {0},
         LineIn(s, begin, number, i), CharOf(s, i) # "\n"
  PROVE  LineIn(s, begin, number, i + 1)
<1>1. Breaks(s, i + 1) = Breaks(s, i)
  BY DEF Breaks
<1>2. Unbroken(s, begin, i + 1)
  BY DEF LineIn, Unbroken
<1> QED  BY <1>1, <1>2 DEF LineIn

(* After a newline the next one begins.                                    *)
LEMMA NextLine ==
  ASSUME NEW s, NEW begin \in Nat, NEW number \in Nat, NEW i \in Nat \ {0},
         LineIn(s, begin, number, i), CharOf(s, i) = "\n"
  PROVE  LineIn(s, i + 1, number + 1, i + 1)
<1>1. Breaks(s, i + 1) = Breaks(s, i) \cup {i}
  BY DEF Breaks
<1>2. i \notin Breaks(s, i)
  BY DEF Breaks
<1>3. Cardinality(Breaks(s, i + 1)) = Cardinality(Breaks(s, i)) + 1
  BY <1>1, <1>2, BreaksFinite, FS_AddElement
<1>4. Unbroken(s, i + 1, i + 1)
  BY DEF Unbroken
<1>5. Cardinality(Breaks(s, i + 1)) = (number + 1) - 1
  BY <1>3 DEF LineIn
<1>6. (i + 1) - 1 = i
  OBVIOUS
<1> QED  BY <1>4, <1>5, <1>6 DEF LineIn

LEMMA FirstLine == ASSUME NEW s PROVE LineIn(s, 1, 1, 1)
<1>1. Breaks(s, 1) = {}
  BY DEF Breaks
<1>2. Cardinality(Breaks(s, 1)) = 1 - 1
  BY <1>1, FS_EmptySet
<1> QED  BY <1>2 DEF LineIn, Unbroken

-----------------------------------------------------------------------------
(* Where the scanner is.                                                   *)

CursorAt(s, i, begin, number, column) ==
  /\ s \in Sources /\ Len(s) \in Nat
  /\ number \in Nat \ {0}
  /\ i \in 1..Len(s)+1
  /\ column = i - begin + 1
  /\ LineIn(s, begin, number, i)

Cursor == CursorAt(text, current, currentLine, line, position)

LEMMA CursorAtTypes ==
  ASSUME NEW s, NEW i, NEW begin, NEW number, NEW column, CursorAt(s, i, begin, number, column)
  PROVE  /\ Len(s) \in Nat /\ i \in Nat \ {0} /\ begin \in Nat \ {0}
         /\ number \in Nat \ {0} /\ column \in Nat
         /\ i <= Len(s) + 1 /\ begin <= i /\ column = i - begin + 1
<1>1. Len(s) \in Nat
  BY DEF CursorAt
<1>2. i \in 1..Len(s)+1
  BY DEF CursorAt
<1>3. i \in Nat \ {0} /\ i <= Len(s) + 1
  BY <1>1, <1>2
<1>4. begin \in 1..i
  BY DEF CursorAt, LineIn
<1>5. begin \in Nat \ {0} /\ begin <= i
  BY <1>3, <1>4
<1>6. column = i - begin + 1
  BY DEF CursorAt
<1>7. number \in Nat \ {0}
  BY DEF CursorAt
<1> QED  BY <1>1, <1>3, <1>5, <1>6, <1>7

LEMMA CursorTypes ==
  ASSUME Cursor
  PROVE  /\ Len(text) \in Nat /\ current \in Nat \ {0} /\ currentLine \in Nat \ {0}
         /\ line \in Nat \ {0} /\ position \in Nat
         /\ current <= Len(text) + 1 /\ currentLine <= current
         /\ position = current - currentLine + 1
BY CursorAtTypes DEF Cursor

LEMMA CursorTypesNext ==
  ASSUME Cursor'
  PROVE  /\ Len(text') \in Nat /\ current' \in Nat \ {0} /\ currentLine' \in Nat \ {0}
         /\ line' \in Nat \ {0} /\ position' \in Nat
         /\ current' <= Len(text') + 1 /\ currentLine' <= current'
         /\ position' = current' - currentLine' + 1
BY CursorAtTypes DEF Cursor

LEMMA PeekChar == Peek = CharOf(text, current) /\ PeekNext = CharOf(text, current + 1)
BY DEF Peek, PeekNext, Char, CharOf

LEMMA NotAtEnd ==
  ASSUME Cursor, Peek # "NUL"
  PROVE  ~AtEnd
BY PeekChar DEF Cursor, CursorAt, AtEnd, CharOf

LEMMA AdvanceNone ==
  ASSUME Cursor, Advance(0), UNCHANGED text
  PROVE  Cursor' /\ current' = current
BY DEF Cursor, CursorAt, Advance

LEMMA AdvanceOne ==
  ASSUME Cursor, Advance(1), UNCHANGED text, ~AtEnd, Peek # "\n"
  PROVE  Cursor' /\ current' = current + 1
<1>1. LineIn(text, currentLine, line, current + 1)
  BY PeekChar, CursorTypes, SameLine DEF Cursor, CursorAt
<1>2. current + 1 \in 1..Len(text)+1
  BY CursorTypes DEF AtEnd
<1>3. position + 1 = (current + 1) - currentLine + 1
  BY CursorTypes
<1> QED  BY <1>1, <1>2, <1>3 DEF Cursor, CursorAt, Advance

LEMMA AdvanceTwo ==
  ASSUME Cursor, Advance(2), UNCHANGED text, ~AtEnd, Peek # "\n", PeekNext # "NUL", PeekNext # "\n"
  PROVE  Cursor' /\ current' = current + 2
<1>1. LineIn(text, currentLine, line, current + 1)
  BY PeekChar, CursorTypes, SameLine DEF Cursor, CursorAt
<1>2. current \in Nat \ {0} /\ Len(text) \in Nat /\ currentLine \in Nat /\ line \in Nat
      /\ position = current - currentLine + 1
  BY CursorTypes
<1>3. current + 1 \in Nat \ {0} /\ (current + 1) + 1 = current + 2
  BY <1>2
<1>4. CharOf(text, current + 1) # "\n" /\ CharOf(text, current + 1) # "NUL"
  BY PeekChar
<1>5. LineIn(text, currentLine, line, current + 2)
  BY <1>1, <1>2, <1>3, <1>4, SameLine
<1>6. ~(current + 1 > Len(text))
  BY <1>4 DEF CharOf
<1>7. current + 2 \in 1..Len(text)+1
  BY <1>2, <1>6
<1>8. position + 2 = (current + 2) - currentLine + 1
  BY <1>2
<1> QED  BY <1>5, <1>7, <1>8 DEF Cursor, CursorAt, Advance

LEMMA AdvanceOver ==
  ASSUME Cursor, AdvanceAnywhere, UNCHANGED text, ~AtEnd
  PROVE  Cursor' /\ current' = current + 1
<1>1. CASE Peek = "\n"
  <2>1. LineIn(text, current + 1, line + 1, current + 1)
    BY <1>1, PeekChar, CursorTypes, NextLine DEF Cursor, CursorAt
  <2>2. current + 1 \in 1..Len(text)+1 /\ current + 1 \in Nat \ {0} /\ line + 1 \in Nat \ {0}
    BY CursorTypes DEF AtEnd
  <2>3. 1 = (current + 1) - (current + 1) + 1
    BY CursorTypes
  <2> QED  BY <1>1, <2>1, <2>2, <2>3 DEF Cursor, CursorAt, AdvanceAnywhere
<1>2. CASE Peek # "\n"
  BY <1>2, AdvanceOne DEF AdvanceAnywhere
<1> QED  BY <1>1, <1>2

-----------------------------------------------------------------------------
(* The tokens handed out.                                                  *)

TokenRight(s, t) ==
  /\ LineIn(s, t.lineStart, t.line, t.upto)
  /\ t.column = (IF t.type = "ERROR" THEN t.upto - 1 ELSE t.from) - t.lineStart + 1

TokensRight == tokens \in Seq(Token) /\ \A i \in DOMAIN tokens : TokenRight(text, tokens[i])

LEMMA OneMore ==
  ASSUME TokensRight, UNCHANGED text, NEW t \in Token, tokens' = Append(tokens, t),
         TokenRight(text', t)
  PROVE  TokensRight'
<1>1. tokens' \in Seq(Token)
  BY DEF TokensRight
<1>2. ASSUME NEW i \in DOMAIN tokens'
      PROVE  TokenRight(text', tokens'[i])
  <2>1. CASE i \in DOMAIN tokens
    <3>1. tokens'[i] = tokens[i]
      BY <2>1 DEF TokensRight
    <3> QED  BY <2>1, <3>1 DEF TokensRight
  <2>2. CASE i \notin DOMAIN tokens
    <3>1. i = Len(tokens) + 1
      BY <1>2, <2>2 DEF TokensRight
    <3>2. tokens'[i] = t
      BY <3>1 DEF TokensRight
    <3> QED  BY <3>2
  <2> QED  BY <2>1, <2>2
<1> QED  BY <1>1, <1>2 DEF TokensRight

LEMMA MakeTokenRight ==
  ASSUME TokensRight, UNCHANGED text, Cursor', start' \in Nat,
         NEW type \in Types, type # "ERROR", MakeToken(type)
  PROVE  TokensRight'
<1> DEFINE t == [type |-> type, from |-> start', upto |-> current', line |-> line',
                 column |-> position' - (current' - start'), lineStart |-> currentLine']
<1>1. t \in Token
  BY CursorTypesNext DEF Token
<1>2. position' - (current' - start') = start' - currentLine' + 1
  BY CursorTypesNext
<1>3. TokenRight(text', t)
  BY <1>2 DEF Cursor, CursorAt, TokenRight
<1>4. tokens' = Append(tokens, t)
  BY DEF MakeToken, HandOut
<1> HIDE DEF t
<1> QED  BY <1>1, <1>3, <1>4, OneMore

LEMMA ErrorTokenRight ==
  ASSUME TokensRight, UNCHANGED text, Cursor', start' \in Nat, ErrorToken
  PROVE  TokensRight'
<1> DEFINE t == [type |-> "ERROR", from |-> start', upto |-> current', line |-> line',
                 column |-> position' - 1, lineStart |-> currentLine']
<1>0. position' - 1 \in Int /\ current' \in Nat /\ line' \in Nat /\ currentLine' \in Nat
  BY CursorTypesNext
<1>6. "ERROR" \in Types
  BY DEF Types
<1>1. t \in Token
  BY <1>0, <1>6 DEF Token
<1>2. current' \in Nat /\ currentLine' \in Nat /\ position' = current' - currentLine' + 1
  BY CursorTypesNext
<1>5. position' - 1 = (current' - 1) - currentLine' + 1
  BY <1>2
<1>3. TokenRight(text', t)
  BY <1>5 DEF Cursor, CursorAt, TokenRight
<1>4. tokens' = Append(tokens, t)
  BY DEF ErrorToken, HandOut
<1> HIDE DEF t
<1> QED  BY <1>1, <1>3, <1>4, OneMore

-----------------------------------------------------------------------------
(* The invariant: where the scanner is, and that the tokens so far are     *)
(* right.  In a string start is at the quote, which ends it too.           *)

StartRight ==
  /\ start \in Nat \ {0} /\ start <= current
  /\ doing = "string" => CharOf(text, start) \in Quotes

ScanInv == Cursor /\ StartRight /\ doing \in Loops /\ TokensRight

LEMMA TokensKept ==
  ASSUME TokensRight, UNCHANGED <<text, tokens>>
  PROVE  TokensRight'
BY DEF TokensRight

(* A round of a loop that moves on by a character.                         *)
LEMMA RoundRight ==
  ASSUME ScanInv, Cursor', current' = current + 1, UNCHANGED <<text, start, tokens>>,
         doing' \in Loops, doing' = "string" => doing = "string"
  PROVE  ScanInv'
<1>1. StartRight'
  BY CursorTypes DEF ScanInv, StartRight
<1> QED  BY <1>1, TokensKept DEF ScanInv

(* A token that begins where the scanner is.                               *)
LEMMA ScanRight ==
  ASSUME ScanInv, start' = current, Cursor', current' \in {current, current + 1, current + 2},
         UNCHANGED text, doing' \in Loops, doing' = "string" => Peek \in Quotes
  PROVE  StartRight'
BY CursorTypes, PeekChar DEF ScanInv, StartRight

(* A loop ends: start stays where it is.                                   *)
LEMMA ReturnRight ==
  ASSUME ScanInv, Return, Cursor', current' \in {current, current + 1}
  PROVE  StartRight' /\ start' \in Nat /\ doing' \in Loops
BY CursorTypes DEF ScanInv, StartRight, Return, Loops

LEMMA InitInv == Init => ScanInv
<1> SUFFICES ASSUME Init PROVE ScanInv
  OBVIOUS
<1>1. text \in Sources /\ Len(text) \in Nat
  BY LexerAssumption DEF Init
<1>2. 1 \in 1..Len(text)+1 /\ 1 = 1 - 1 + 1
  BY <1>1
<1>3. Cursor
  BY <1>1, <1>2, FirstLine DEF Init, Cursor, CursorAt
<1>4. StartRight /\ doing \in Loops
  BY DEF Init, StartRight, Loops
<1>5. TokensRight
  BY DEF Init, TokensRight
<1> QED  BY <1>3, <1>4, <1>5 DEF ScanInv

LEMMA NextInv == ScanInv /\ [Next]_vars => ScanInv'
<1> SUFFICES ASSUME ScanInv, [Next]_vars PROVE ScanInv'
  OBVIOUS
<1>0. Cursor /\ TokensRight /\ doing \in Loops
  BY DEF ScanInv
<1>1. CASE Blank
  <2>1. Peek # "\n" /\ ~AtEnd
    BY <1>0, <1>1, NotAtEnd DEF Blank, Blanks
  <2> QED  BY <1>0, <1>1, <2>1, AdvanceOne, RoundRight DEF Blank, Round
<1>2. CASE NewLine
  <2>1. ~AtEnd
    BY <1>0, <1>2, NotAtEnd DEF NewLine
  <2> QED  BY <1>0, <1>2, <2>1, AdvanceOver, RoundRight DEF NewLine, Round
<1>3. CASE LineComment
  BY <1>3, TokensKept DEF LineComment, ScanInv, Cursor, StartRight, lexer, Loops
<1>4. CASE InLineComment
  <2>1. CASE Peek # "\n" /\ ~AtEnd /\ Advance(1) /\ Round
    BY <1>0, <2>1, AdvanceOne, RoundRight DEF Round
  <2>2. CASE doing' = "skip" /\ UNCHANGED <<text, lexer, tokens>>
    BY <2>2, TokensKept DEF ScanInv, Cursor, StartRight, lexer, Loops
  <2> QED  BY <1>4, <2>1, <2>2 DEF InLineComment
<1>5. CASE BlockComment
  <2>1. Peek # "\n" /\ ~AtEnd
    BY <1>0, <1>5, NotAtEnd DEF BlockComment
  <2>2. doing' \in Loops /\ doing' # "string"
    BY <1>5 DEF BlockComment, Loops
  <2> QED  BY <1>0, <1>5, <2>1, <2>2, AdvanceOne, RoundRight DEF BlockComment
<1>6. CASE InBlockComment
  <2>1. CASE ~AtEnd /\ AdvanceAnywhere /\ Round
    BY <1>0, <2>1, AdvanceOver, RoundRight DEF Round
  <2>2. CASE doing' = "skip" /\ UNCHANGED <<text, lexer, tokens>>
    BY <2>2, TokensKept DEF ScanInv, Cursor, StartRight, lexer, Loops
  <2> QED  BY <1>6, <2>1, <2>2 DEF InBlockComment
<1>7. CASE EndOfText
  <2>1. Cursor' /\ current' = current /\ start' = current /\ text' = text
    BY <1>0, <1>7, AdvanceNone DEF EndOfText, Scan
  <2>2. doing' = doing /\ doing = "skip" /\ MakeToken("EOF")
    BY <1>7 DEF EndOfText, TokenStart
  <2>3. StartRight'
    BY <1>0, <2>1, <2>2, ScanRight
  <2>4. "EOF" \in Types /\ start' \in Nat
    BY <2>1, <1>0, CursorTypes DEF Types
  <2>5. TokensRight'
    BY <1>0, <2>1, <2>2, <2>4, MakeTokenRight
  <2> QED  BY <1>0, <2>1, <2>2, <2>3, <2>5 DEF ScanInv
<1>8. ASSUME NEW chars, NEW loop \in Loops, Begin(chars, loop), "\n" \notin chars,
             loop = "string" => chars = Quotes
      PROVE  ScanInv'
  <2>1. Cursor' /\ current' = current + 1 /\ start' = current /\ text' = text
    BY <1>0, <1>8, AdvanceOne DEF Begin, Scan
  <2>2. doing' = loop /\ tokens' = tokens /\ Peek \in chars
    BY <1>8 DEF Begin
  <2>3. StartRight'
    BY <1>0, <1>8, <2>1, <2>2, ScanRight
  <2> QED  BY <1>0, <2>1, <2>2, <2>3, TokensKept DEF ScanInv
<1>9. CASE BeginIdentifier
  BY <1>8, <1>9 DEF BeginIdentifier, Letters, Loops
<1>10. CASE BeginNumber
  BY <1>8, <1>10 DEF BeginNumber, Digits, Loops
<1>11. CASE BeginString
  BY <1>8, <1>11 DEF BeginString, Quotes, Loops
<1>12. CASE BeginMacro
  BY <1>8, <1>12 DEF BeginMacro, Loops
<1>13. CASE BeginPreprocessor
  BY <1>8, <1>13 DEF BeginPreprocessor, Loops
<1>14. CASE Operator
  <2>1. doing = "skip" /\ doing' = "skip"
    BY <1>14 DEF Operator, TokenStart
  <2>2. Peek # "\n" /\ Peek # "NUL"
    BY <1>14 DEF Operator, Single, Double
  <2>3. ~AtEnd
    BY <1>0, <2>2, NotAtEnd
  <2>4. current \in Nat
    BY <1>0, CursorTypes
  <2>5. CASE Peek \in Single \cup Double /\ Scan(1) /\ MakeToken(Peek)
    <3>1. Cursor' /\ current' = current + 1 /\ start' = current /\ text' = text
      BY <1>0, <2>2, <2>3, <2>5, AdvanceOne DEF Scan
    <3>2. StartRight'
      BY <1>0, <2>1, <3>1, ScanRight
    <3>3. Peek \in Types /\ Peek # "ERROR"
      BY <2>5 DEF Types, Single, Double
    <3>4. TokensRight'
      BY <1>0, <2>4, <2>5, <3>1, <3>3, MakeTokenRight
    <3> QED  BY <1>0, <2>1, <3>1, <3>2, <3>4 DEF ScanInv
  <2>6. CASE Peek \in Double /\ PeekNext = "=" /\ Scan(2) /\ MakeToken(WithEqual(Peek))
    <3>1. Cursor' /\ current' = current + 2 /\ start' = current /\ text' = text
      BY <1>0, <2>2, <2>3, <2>6, AdvanceTwo DEF Scan
    <3>2. StartRight'
      BY <1>0, <2>1, <3>1, ScanRight
    <3>3. WithEqual(Peek) \in Types
      BY <2>6 DEF Types
    <3>4. WithEqual(Peek) # "ERROR"
      BY <2>6 DEF WithEqual, Double
    <3>5. TokensRight'
      BY <1>0, <2>4, <2>6, <3>1, <3>3, <3>4, MakeTokenRight
    <3> QED  BY <1>0, <2>1, <3>1, <3>2, <3>5 DEF ScanInv
  <2> QED  BY <1>14, <2>5, <2>6 DEF Operator
<1>15. CASE Unexpected
  <2>1. Peek # "\n" /\ ~AtEnd /\ doing = "skip" /\ doing' = "skip"
    BY <1>15 DEF Unexpected, TokenStart
  <2>2. Cursor' /\ current' = current + 1 /\ start' = current /\ text' = text
    BY <1>0, <1>15, <2>1, AdvanceOne DEF Unexpected, Scan
  <2>3. StartRight'
    BY <1>0, <2>1, <2>2, ScanRight
  <2>4. current \in Nat
    BY <1>0, CursorTypes
  <2>5. TokensRight'
    BY <1>0, <1>15, <2>2, <2>4, ErrorTokenRight DEF Unexpected
  <2> QED  BY <1>0, <2>1, <2>2, <2>3, <2>5 DEF ScanInv
<1>16. CASE InWord
  <2>1. CASE Peek \in Letters \cup Digits /\ Advance(1) /\ Round
    <3>1. Peek # "\n" /\ Peek # "NUL"
      BY <2>1 DEF Letters, Digits
    <3>2. ~AtEnd
      BY <1>0, <3>1, NotAtEnd
    <3> QED  BY <1>0, <2>1, <3>1, <3>2, AdvanceOne, RoundRight DEF Round
  <2>2. ASSUME NEW type, Advance(0), Return, MakeToken(type),
               type = IF doing = "IDENTIFIER" THEN IdentifierType(Word(start, current)) ELSE doing
        PROVE  ScanInv'
    <3>1. Cursor' /\ current' = current /\ text' = text
      BY <1>0, <2>2, AdvanceNone DEF Return
    <3>2. StartRight' /\ start' \in Nat /\ doing' \in Loops
      BY <2>2, <3>1, ReturnRight
    <3>3. ASSUME NEW w PROVE IdentifierType(w) \in Types /\ IdentifierType(w) # "ERROR"
      BY DEF IdentifierType, Types, Keywords
    <3>4. type \in Types /\ type # "ERROR"
      BY <1>16, <2>2, <3>3 DEF InWord, Types
    <3>5. TokensRight'
      BY <1>0, <2>2, <3>1, <3>2, <3>4, MakeTokenRight
    <3> QED  BY <3>1, <3>2, <3>5 DEF ScanInv
  <2> QED  BY <1>16, <2>1, <2>2 DEF InWord
<1>17. CASE InNumber
  <2>1. CASE Peek \in Digits /\ Advance(1) /\ Round
    <3>1. Peek # "\n" /\ Peek # "NUL"
      BY <2>1 DEF Digits
    <3>2. ~AtEnd
      BY <1>0, <3>1, NotAtEnd
    <3> QED  BY <1>0, <2>1, <3>1, <3>2, AdvanceOne, RoundRight DEF Round
  <2>2. CASE TakesPoint /\ Advance(1) /\ doing' = "fraction" /\ UNCHANGED <<text, start, tokens>>
    <3>1. Peek # "\n" /\ Peek # "NUL"
      BY <2>2 DEF TakesPoint
    <3>2. ~AtEnd
      BY <1>0, <3>1, NotAtEnd
    <3>3. doing' \in Loops /\ doing' # "string"
      BY <2>2 DEF Loops
    <3> QED  BY <1>0, <2>2, <3>1, <3>2, <3>3, AdvanceOne, RoundRight
  <2>3. CASE Advance(0) /\ Return /\ MakeToken("NUMBER")
    <3>1. Cursor' /\ current' = current /\ text' = text
      BY <1>0, <2>3, AdvanceNone DEF Return
    <3>2. StartRight' /\ start' \in Nat /\ doing' \in Loops
      BY <2>3, <3>1, ReturnRight
    <3>3. "NUMBER" \in Types
      BY DEF Types
    <3>4. TokensRight'
      BY <1>0, <2>3, <3>1, <3>2, <3>3, MakeTokenRight
    <3> QED  BY <3>1, <3>2, <3>4 DEF ScanInv
  <2> QED  BY <1>17, <2>1, <2>2, <2>3 DEF InNumber
<1>18. CASE InString
  <2>1. CASE Peek # Char(start) /\ ~AtEnd /\ AdvanceAnywhere /\ Round
    BY <1>0, <2>1, AdvanceOver, RoundRight DEF Round
  <2>2. CASE AtEnd /\ Advance(0) /\ Return /\ ErrorToken
    <3>1. Cursor' /\ current' = current /\ text' = text
      BY <1>0, <2>2, AdvanceNone DEF Return
    <3>2. StartRight' /\ start' \in Nat /\ doing' \in Loops
      BY <2>2, <3>1, ReturnRight
    <3>3. TokensRight'
      BY <1>0, <2>2, <3>1, <3>2, ErrorTokenRight
    <3> QED  BY <3>1, <3>2, <3>3 DEF ScanInv
  <2>3. CASE Peek = Char(start) /\ Advance(1) /\ Return /\ MakeToken("STRING")
    <3>1. Char(start) = CharOf(text, start) /\ doing = "string"
      BY <1>18 DEF InString, Char, CharOf
    <3>2. Peek \in Quotes
      BY <2>3, <3>1 DEF ScanInv, StartRight
    <3>3. Peek # "\n" /\ Peek # "NUL"
      BY <3>2 DEF Quotes
    <3>4. ~AtEnd
      BY <1>0, <3>3, NotAtEnd
    <3>5. Cursor' /\ current' = current + 1 /\ text' = text
      BY <1>0, <2>3, <3>3, <3>4, AdvanceOne DEF Return
    <3>6. StartRight' /\ start' \in Nat /\ doing' \in Loops
      BY <2>3, <3>5, ReturnRight
    <3>7. "STRING" \in Types
      BY DEF Types
    <3>8. TokensRight'
      BY <1>0, <2>3, <3>5, <3>6, <3>7, MakeTokenRight
    <3> QED  BY <3>5, <3>6, <3>8 DEF ScanInv
  <2> QED  BY <1>18, <2>1, <2>2, <2>3 DEF InString
<1>19. CASE UNCHANGED vars
  BY <1>19, TokensKept DEF ScanInv, Cursor, StartRight, vars, lexer
<1> QED
  BY <1>1, <1>2, <1>3, <1>4, <1>5, <1>6, <1>7, <1>9, <1>10, <1>11, <1>12, <1>13, <1>14, <1>15,
     <1>16, <1>17, <1>18, <1>19 DEF Next

-----------------------------------------------------------------------------
(* Every state has the invariant.                                          *)
THEOREM LexerInvariant == Spec => []ScanInv
BY InitInv, NextInv, PTL DEF Spec

(* Scanning never leaves the text, and a pointer never comes before the    *)
(* start of what it points into: advance and match are never called at the *)
(* null character.                                                         *)
THEOREM LexerTypeOK == Spec => []TypeOK
<1>1. ASSUME ScanInv PROVE TypeOK
  <2>1. Cursor /\ StartRight /\ TokensRight /\ doing \in Loops
    BY <1>1 DEF ScanInv
  <2>2. text \in Sources
    BY <2>1 DEF Cursor, CursorAt
  <2>3. text \in STRING
    BY <2>2, LexerAssumption
  <2> QED  BY <2>1, <2>3, CursorTypes DEF TypeOK, StartRight, TokensRight
<1> QED  BY <1>1, LexerInvariant, PTL

(* The line and column of every token handed out are those of the text,    *)
(* however comments, strings and lines follow one another: newLine is      *)
(* called for every newline passed over and for nothing else.              *)
THEOREM LexerPositionsRight == Spec => []PositionsRight
<1>1. ASSUME ScanInv PROVE PositionsRight
  <2> SUFFICES ASSUME NEW i \in DOMAIN tokens
               PROVE  /\ IsLineOf(tokens[i].lineStart, tokens[i].line, tokens[i].upto)
                      /\ tokens[i].column = (IF tokens[i].type = "ERROR" THEN tokens[i].upto - 1
                                             ELSE tokens[i].from) - tokens[i].lineStart + 1
    BY DEF PositionsRight
  <2>1. TokenRight(text, tokens[i])
    BY <1>1 DEF ScanInv, TokensRight
  <2>2. \A k : Char(k) = CharOf(text, k)
    BY DEF Char, CharOf
  <2>3. ASSUME NEW begin, NEW number, NEW k
        PROVE  LineIn(text, begin, number, k) => IsLineOf(begin, number, k)
    <3>1. LinesBefore(k) = Breaks(text, k)
      BY <2>2 DEF LinesBefore, Breaks
    <3>2. Unbroken(text, begin, k) => OneLine(begin, k)
      BY <2>2 DEF Unbroken, OneLine
    <3> QED  BY <2>2, <3>1, <3>2 DEF LineIn, IsLineOf
  <2> QED  BY <2>1, <2>3 DEF TokenRight
<1> QED  BY <1>1, LexerInvariant, PTL

-----------------------------------------------------------------------------
(* What lies between tokens.  The scanner skips from e, where the last     *)
(* token ended; a character it has passed is blank, or in a comment that   *)
(* has ended or is about to, or the rest of the text is in a comment of    *)
(* several lines.                                                          *)

BeginsComment(s, i) == CharOf(s, i) = ";"
InRest(s, e, upto) == CharOf(s, e) = "#" /\ upto > Len(s)

(* Of a character k that is skipped for good, the next token being at upto. *)
SkippedAt(s, e, k, upto) ==
  \/ CharOf(s, k) \in Blanks \cup {"\n"}
  \/ \E c \in e..k : /\ BeginsComment(s, c) /\ Unbroken(s, c, k)
                     /\ upto > Len(s) \/ ~Unbroken(s, k, upto)
  \/ InRest(s, e, upto)

(* Of one the scanner has passed when it is at i: a comment that ends here *)
(* ends with the newline at i.                                             *)
PassedAt(s, e, k, i) ==
  \/ CharOf(s, k) \in Blanks \cup {"\n"}
  \/ \E c \in e..k : /\ BeginsComment(s, c) /\ Unbroken(s, c, k)
                     /\ i > Len(s) \/ ~Unbroken(s, k, i + 1)
  \/ InRest(s, e, i)

SkippedUpTo(s, e, upto) == e <= upto /\ \A k \in e..upto-1 : SkippedAt(s, e, k, upto)
PassedUpTo(s, e, i) == e <= i /\ \A k \in e..i-1 : PassedAt(s, e, k, i)

InComment(s, e, i) ==
  \E c \in e..i : /\ BeginsComment(s, c) /\ Unbroken(s, c, i)
                  /\ \A k \in e..c-1 : PassedAt(s, e, k, i)

Spells(s, i, w) == \A k \in 1..Len(w) : CharOf(s, i + k) = w[k]

(* A comment of several lines is entered right after the word that begins  *)
(* it, so that the word that ends it is never where it is looked for.      *)
InBlock(s, st, e, i) ==
  /\ e < i /\ CharOf(s, e) = "#"
  /\ \E w \in StartWords : e = st + 1 + Len(w) /\ Spells(s, st, w)

TokenLoops == Loops \ {"skip", "comment", "block"}

Gap(s, e, st, i, d) ==
  /\ e \in Nat \ {0}
  /\ d = "skip" => PassedUpTo(s, e, i)
  /\ d = "comment" => InComment(s, e, i)
  /\ d = "block" => InBlock(s, st, e, i)
  /\ d \in TokenLoops => SkippedUpTo(s, e, st)

LEMMA StartWord ==
  ASSUME NEW w \in StartWords
  PROVE  /\ Len(w) \in {2, 14}
         /\ w[Len(w)] \notin Blanks \cup {"\n"}
         /\ w[2] = IF Len(w) = 2 THEN "s" ELSE "o"
<1>1. CASE w = <<"c", "s">>
  BY <1>1 DEF Blanks
<1>2. CASE w = <<"c", "o", "m", "m", "e", "n", "t", "s", "-", "s", "t", "a", "r", "t">>
  BY <1>2 DEF Blanks
<1> QED  BY <1>1, <1>2 DEF StartWords

LEMMA EndWord ==
  ASSUME NEW w \in EndWords
  PROVE  Len(w) \in {2, 12} /\ (Len(w) = 12 => w[2] = "o")
<1>1. CASE w = <<"c", "e">>
  BY <1>1
<1>2. CASE w = <<"c", "o", "m", "m", "e", "n", "t", "s", "-", "e", "n", "d">>
  BY <1>2
<1> QED  BY <1>1, <1>2 DEF EndWords

(* What is passed stays passed.                                            *)
LEMMA PassedOn ==
  ASSUME NEW s, NEW e \in Nat, NEW k \in Nat, NEW i \in Nat, PassedAt(s, e, k, i), i <= Len(s),
         Len(s) \in Nat
  PROVE  PassedAt(s, e, k, i + 1)
<1>1. CASE CharOf(s, k) \in Blanks \cup {"\n"}
  BY <1>1 DEF PassedAt
<1>2. ASSUME NEW c \in e..k, BeginsComment(s, c), Unbroken(s, c, k), ~Unbroken(s, k, i + 1)
      PROVE  PassedAt(s, e, k, i + 1)
  <2>1. PICK j \in k..(i + 1)-1 : CharOf(s, j) = "\n"
    BY <1>2 DEF Unbroken
  <2>2. j \in k..((i + 1) + 1)-1
    BY <2>1
  <2>3. ~Unbroken(s, k, (i + 1) + 1)
    BY <2>1, <2>2 DEF Unbroken
  <2> QED  BY <1>2, <2>3 DEF PassedAt
<1>3. ~(i > Len(s))
  OBVIOUS
<1>4. ~InRest(s, e, i)
  BY <1>3 DEF InRest
<1> QED  BY <1>1, <1>2, <1>3, <1>4 DEF PassedAt

(* A blank or a newline.                                                   *)
LEMMA GapBlank ==
  ASSUME NEW s, NEW e, NEW st, NEW i \in Nat, NEW j, j = i + 1, Len(s) \in Nat, i <= Len(s),
         Gap(s, e, st, i, "skip"), CharOf(s, i) \in Blanks \cup {"\n"}
  PROVE  Gap(s, e, st, j, "skip")
<1>1. e \in Nat \ {0} /\ e <= i /\ \A k \in e..i-1 : PassedAt(s, e, k, i)
  BY DEF Gap, PassedUpTo
<1>2. ASSUME NEW k \in e..(i + 1)-1 PROVE PassedAt(s, e, k, i + 1)
  <2>1. CASE k = i
    BY <2>1 DEF PassedAt
  <2>2. CASE k # i
    <3>1. k \in e..i-1 /\ k \in Nat
      BY <1>1, <2>2
    <3> QED  BY <1>1, <3>1, PassedOn
  <2> QED  BY <2>1, <2>2
<1>3. e <= i + 1
  BY <1>1
<1>4. PassedUpTo(s, e, i + 1)
  BY <1>2, <1>3 DEF PassedUpTo
<1> QED  BY <1>1, <1>4 DEF Gap, TokenLoops

LEMMA GapComment ==
  ASSUME NEW s, NEW e, NEW st, NEW i \in Nat, Gap(s, e, st, i, "skip"), BeginsComment(s, i)
  PROVE  Gap(s, e, st, i, "comment")
<1>1. e \in Nat \ {0} /\ e <= i /\ \A k \in e..i-1 : PassedAt(s, e, k, i)
  BY DEF Gap, PassedUpTo
<1>2. i \in e..i /\ Unbroken(s, i, i)
  <2>1. e \in Nat /\ e <= i
    BY <1>1
  <2>2. i \in e..i
    BY <2>1
  <2>3. \A j \in i..i-1 : FALSE
    OBVIOUS
  <2> QED  BY <2>2, <2>3 DEF Unbroken
<1>3. InComment(s, e, i)
  BY <1>1, <1>2 DEF InComment
<1> QED  BY <1>1, <1>3 DEF Gap, TokenLoops

LEMMA GapCommentOn ==
  ASSUME NEW s, NEW e, NEW st, NEW i \in Nat, NEW j, j = i + 1, Len(s) \in Nat, i <= Len(s),
         Gap(s, e, st, i, "comment"), CharOf(s, i) # "\n"
  PROVE  Gap(s, e, st, j, "comment")
<1>1. e \in Nat \ {0}
  BY DEF Gap
<1>2. PICK c \in e..i : /\ BeginsComment(s, c) /\ Unbroken(s, c, i)
                        /\ \A k \in e..c-1 : PassedAt(s, e, k, i)
  BY DEF Gap, InComment
<1>3. c \in e..i+1 /\ c \in Nat /\ c <= i
  <2>1. e \in Nat /\ c \in e..i
    BY <1>1
  <2> QED  BY <2>1
<1>4. Unbroken(s, c, i + 1)
  <2>1. \A x \in c..(i + 1)-1 : x = i \/ x \in c..i-1
    BY <1>3
  <2> QED  BY <1>2, <2>1 DEF Unbroken
<1>5. ASSUME NEW k \in e..c-1 PROVE PassedAt(s, e, k, i + 1)
  <2>1. k \in Nat
    BY <1>1, <1>3
  <2>2. k \in Nat /\ PassedAt(s, e, k, i)
    BY <1>2, <2>1
  <2> QED  BY <1>1, <2>2, PassedOn
<1>6. InComment(s, e, i + 1)
  BY <1>2, <1>3, <1>4, <1>5 DEF InComment
<1> QED  BY <1>1, <1>6 DEF Gap, TokenLoops

LEMMA GapCommentEnds ==
  ASSUME NEW s, NEW e, NEW st, NEW i \in Nat, Gap(s, e, st, i, "comment"),
         CharOf(s, i) = "\n" \/ i > Len(s)
  PROVE  Gap(s, e, st, i, "skip")
<1>1. e \in Nat \ {0}
  BY DEF Gap
<1>2. PICK c \in e..i : /\ BeginsComment(s, c) /\ Unbroken(s, c, i)
                        /\ \A k \in e..c-1 : PassedAt(s, e, k, i)
  BY DEF Gap, InComment
<1>3. c \in Nat /\ e <= c /\ c <= i /\ e <= i
  <2>1. e \in Nat /\ c \in e..i
    BY <1>1
  <2> QED  BY <2>1
<1>4. ASSUME NEW k \in e..i-1 PROVE PassedAt(s, e, k, i)
  <2>1. CASE k \in e..c-1
    BY <1>2, <2>1
  <2>2. CASE k \notin e..c-1
    <3>1. c \in e..k /\ k <= i /\ k \in Nat
      BY <1>1, <1>3, <2>2
    <3>2. Unbroken(s, c, k)
      <4>1. \A j \in c..k-1 : j \in c..i-1
        BY <1>3, <3>1
      <4> QED  BY <1>2, <4>1 DEF Unbroken
    <3>3. i > Len(s) \/ ~Unbroken(s, k, i + 1)
      <4>1. i \in k..(i + 1)-1
        BY <3>1
      <4> QED  BY <4>1 DEF Unbroken
    <3> QED  BY <1>2, <3>1, <3>2, <3>3 DEF PassedAt
  <2> QED  BY <2>1, <2>2
<1>5. PassedUpTo(s, e, i)
  BY <1>4, <1>3 DEF PassedUpTo
<1> QED  BY <1>1, <1>5 DEF Gap, TokenLoops

(* Where the word that begins a comment ends, a token ends: none of its    *)
(* letters is skipped.                                                     *)
LEMMA GapBlock ==
  ASSUME NEW s, NEW e, NEW st \in Nat, NEW i \in Nat, NEW j, j = i + 1, Len(s) \in Nat, i <= Len(s),
         Gap(s, e, st, i, "skip"), CharOf(s, i) = "#",
         NEW w \in StartWords, i = st + 1 + Len(w), Spells(s, st, w)
  PROVE  Gap(s, e, st, j, "block")
<1>1. e \in Nat \ {0} /\ e <= i /\ \A k \in e..i-1 : PassedAt(s, e, k, i)
  BY DEF Gap, PassedUpTo
<1>2. Len(w) \in Nat /\ Len(w) \in 1..Len(w) /\ w[Len(w)] \notin Blanks \cup {"\n"}
  BY StartWord
<1>3. CharOf(s, i - 1) = w[Len(w)]
  <2>1. st + Len(w) = i - 1
    BY <1>2
  <2> QED  BY <1>2, <2>1 DEF Spells
<1>4. e = i
  <2> SUFFICES ASSUME e # i PROVE FALSE
    OBVIOUS
  <2>1. i - 1 \in e..i-1
    BY <1>1
  <2>2. PassedAt(s, e, i - 1, i)
    BY <1>1, <2>1
  <2>3. ~InRest(s, e, i)
    BY DEF InRest
  <2>4. ~Unbroken(s, i - 1, i + 1)
    <3> DEFINE h == i - 1
    <3>1. CharOf(s, h) \notin Blanks \cup {"\n"} /\ PassedAt(s, e, h, i) /\ ~(i > Len(s))
      BY <1>2, <1>3, <2>2
    <3> HIDE DEF h
    <3>2. ~Unbroken(s, h, i + 1)
      BY <2>3, <3>1 DEF PassedAt
    <3> QED  BY <3>2 DEF h
  <2>5. \A x \in i-1..(i + 1)-1 : x = i - 1 \/ x = i
    OBVIOUS
  <2> QED  BY <1>2, <1>3, <2>4, <2>5 DEF Unbroken
<1>5. InBlock(s, st, e, i + 1)
  BY <1>4 DEF InBlock
<1> QED  BY <1>1, <1>5 DEF Gap, TokenLoops

LEMMA GapBlockOn ==
  ASSUME NEW s, NEW e, NEW st, NEW i \in Nat, NEW j, j = i + 1, Gap(s, e, st, i, "block")
  PROVE  Gap(s, e, st, j, "block")
<1>1. e \in Nat \ {0} /\ InBlock(s, st, e, i)
  BY DEF Gap
<1>2. e < i + 1
  BY <1>1 DEF InBlock
<1>3. InBlock(s, st, e, i + 1)
  BY <1>1, <1>2 DEF InBlock
<1> QED  BY <1>1, <1>3 DEF Gap, TokenLoops

(* The word that ends the comment is not found.                            *)
LEMMA NoEndWord ==
  ASSUME NEW s, NEW e, NEW st \in Nat, NEW i \in Nat, Gap(s, e, st, i, "block"),
         NEW w \in EndWords, i = st + 1 + Len(w), Spells(s, st, w)
  PROVE  FALSE
<1>1. e \in Nat /\ e < i
  BY DEF Gap, InBlock
<1>2. PICK v \in StartWords : e = st + 1 + Len(v) /\ Spells(s, st, v)
  BY DEF Gap, InBlock
<1>3. Len(v) \in {2, 14} /\ Len(w) \in {2, 12}
  BY StartWord, EndWord
<1>4. Len(v) = 2 /\ Len(w) = 12
  <2> DEFINE m == Len(v)  n == Len(w)
  <2>1. e = st + 1 + m /\ i = st + 1 + n /\ e < i /\ m \in {2, 14} /\ n \in {2, 12}
    BY <1>1, <1>2, <1>3
  <2> HIDE DEF m, n
  <2>2. m = 2 /\ n = 12
    BY <2>1
  <2> QED  BY <2>2 DEF m, n
<1>5. v[2] = "s" /\ w[2] = "o"
  BY <1>4, StartWord, EndWord
<1>6. 2 \in 1..Len(v) /\ 2 \in 1..Len(w)
  BY <1>4
<1>7. CharOf(s, st + 2) = v[2] /\ CharOf(s, st + 2) = w[2]
  BY <1>2, <1>6 DEF Spells
<1> QED  BY <1>5, <1>7

LEMMA GapBlockEnds ==
  ASSUME NEW s, NEW e, NEW st, NEW i \in Nat, Gap(s, e, st, i, "block"), i > Len(s)
  PROVE  Gap(s, e, st, i, "skip")
<1>1. e \in Nat \ {0} /\ e < i /\ InRest(s, e, i)
  BY DEF Gap, InBlock, InRest
<1>2. PassedUpTo(s, e, i)
  BY <1>1 DEF PassedUpTo, PassedAt
<1> QED  BY <1>1, <1>2 DEF Gap, TokenLoops

(* A token begins: nothing that was passed is left without an end.         *)
LEMMA GapToken ==
  ASSUME NEW s, NEW e, NEW st, NEW i \in Nat, Gap(s, e, st, i, "skip"), CharOf(s, i) # "\n"
  PROVE  e \in Nat \ {0} /\ SkippedUpTo(s, e, i)
<1>1. e \in Nat \ {0} /\ e <= i /\ \A k \in e..i-1 : PassedAt(s, e, k, i)
  BY DEF Gap, PassedUpTo
<1>2. ASSUME NEW k \in e..i-1 PROVE SkippedAt(s, e, k, i)
  <2>1. PassedAt(s, e, k, i) /\ k \in Nat
    BY <1>1
  <2>2. Unbroken(s, k, i) => Unbroken(s, k, i + 1)
    <3>1. \A j \in k..(i + 1)-1 : j = i \/ j \in k..i-1
      BY <2>1
    <3> QED  BY <3>1 DEF Unbroken
  <2> QED  BY <2>1, <2>2 DEF PassedAt, SkippedAt
<1> QED  BY <1>1, <1>2 DEF SkippedUpTo

(* After a token there is nothing skipped yet.                             *)
LEMMA GapNone ==
  ASSUME NEW s, NEW st, NEW i \in Nat \ {0}
  PROVE  Gap(s, i, st, i, "skip")
BY DEF Gap, PassedUpTo, TokenLoops

-----------------------------------------------------------------------------
(* The tokens, each from where the one before it ended.                    *)

EndIn(ts, i) == IF i = 0 THEN 1 ELSE ts[i].upto
LastEnd(ts) == EndIn(ts, Len(ts))

TokenFollows(s, e, t) ==
  /\ SkippedUpTo(s, e, t.from)
  /\ t.type = "EOF" => t.upto = Len(s) + 1

(* What a token of each kind is in the text.                               *)
EqualTypes == {WithEqual(c) : c \in Double}
WordTypes == {Keywords[w] : w \in DOMAIN Keywords} \cup {"IDENTIFIER", "MACRO", "PREPROCESSOR"}

IsOperator(s, t) ==
  /\ t.upto = t.from + 1 /\ CharOf(s, t.from) = t.type
  /\ ~(CharOf(s, t.from) \in Double /\ CharOf(s, t.upto) = "=")
IsDouble(s, t) ==
  /\ t.upto = t.from + 2 /\ CharOf(s, t.from) \in Double
  /\ t.type = WithEqual(CharOf(s, t.from)) /\ CharOf(s, t.from + 1) = "="
IsNumber(s, t) ==
  /\ CharOf(s, t.from) \in Digits /\ CharOf(s, t.upto) \notin Digits
  /\ \/ /\ \A k \in t.from..t.upto-1 : CharOf(s, k) \in Digits
        /\ ~(CharOf(s, t.upto) = "." /\ CharOf(s, t.upto + 1) \in Digits)
     \/ \E p \in t.from+1..t.upto-2 :
          CharOf(s, p) = "." /\ \A k \in t.from..t.upto-1 : k # p => CharOf(s, k) \in Digits
IsString(s, t) ==
  /\ CharOf(s, t.from) \in Quotes /\ CharOf(s, t.upto - 1) = CharOf(s, t.from)
  /\ t.upto > t.from + 1
  /\ \A k \in t.from+1..t.upto-2 : CharOf(s, k) # CharOf(s, t.from)
IsEnd(s, t) == t.from = Len(s) + 1
IsError(s, t) ==
  \/ /\ CharOf(s, t.from) \in Quotes /\ t.upto = Len(s) + 1
     /\ \A k \in t.from+1..t.upto-1 : CharOf(s, k) # CharOf(s, t.from)
  \/ t.upto = t.from + 1
IsWord(s, t) ==
  /\ CharOf(s, t.from) \in Letters \cup {"@", "#"}
  /\ \A k \in t.from+1..t.upto-1 : CharOf(s, k) \in Letters \cup Digits
  /\ CharOf(s, t.upto) \notin Letters \cup Digits

Longest(s, t) ==
  \/ t.type \in Single \cup Double /\ IsOperator(s, t)
  \/ t.type \in EqualTypes /\ IsDouble(s, t)
  \/ t.type = "NUMBER" /\ IsNumber(s, t)
  \/ t.type = "STRING" /\ IsString(s, t)
  \/ t.type = "EOF" /\ IsEnd(s, t)
  \/ t.type = "ERROR" /\ IsError(s, t)
  \/ t.type \in WordTypes /\ IsWord(s, t)

(* What the scanner has read of a token.                                   *)
WordLoops == {"IDENTIFIER", "MACRO", "PREPROCESSOR"}

Reading(s, st, i, d) ==
  /\ d \in TokenLoops => st \in Nat \ {0} /\ st < i
  /\ d \in WordLoops =>
       /\ CharOf(s, st) \in Letters \cup {"@", "#"}
       /\ \A k \in st+1..i-1 : CharOf(s, k) \in Letters \cup Digits
  /\ d = "digits" => \A k \in st..i-1 : CharOf(s, k) \in Digits
  /\ d = "fraction" =>
       \E p \in st+1..i-1 : /\ CharOf(s, p) = "." /\ CharOf(s, p + 1) \in Digits
                            /\ \A k \in st..i-1 : k # p => CharOf(s, k) \in Digits
  /\ d = "string" =>
       CharOf(s, st) \in Quotes /\ \A k \in st+1..i-1 : CharOf(s, k) # CharOf(s, st)

TokensFollow(s, ts) == \A i \in DOMAIN ts : TokenFollows(s, EndIn(ts, i - 1), ts[i])
TokensLongest(s, ts) == \A i \in DOMAIN ts : Longest(s, ts[i])

SpanInv ==
  /\ Gap(text, LastEnd(tokens), start, current, doing)
  /\ Reading(text, start, current, doing)
  /\ TokensFollow(text, tokens) /\ TokensLongest(text, tokens)

TextInv == ScanInv /\ SpanInv

LEMMA TypeClasses ==
  /\ EqualTypes = {"!=", "==", "<=", ">="}
  /\ WordTypes \cap (Single \cup Double \cup EqualTypes \cup {"NUMBER", "STRING", "EOF", "ERROR"}) = {}
<1>1. EqualTypes = {"!=", "==", "<=", ">="}
  <2>1. /\ WithEqual("!") = "!=" /\ WithEqual("=") = "==" /\ WithEqual("<") = "<="
        /\ WithEqual(">") = ">="
    BY DEF WithEqual
  <2> QED  BY <2>1 DEF EqualTypes, Double
<1>2. ASSUME NEW w \in DOMAIN Keywords
      PROVE  Keywords[w] \notin Single \cup Double \cup {"!=", "==", "<=", ">="}
                                \cup {"NUMBER", "STRING", "EOF", "ERROR"}
  <2>1. Keywords[w] \notin Single
    <3>1. Keywords[w] \in
            {"AND", "CASE", "CLASS", "CONST", "DEFAULT", "DIM", "DO", "END", "ELSE", "ENDIF",
             "ENDFUNC", "ENDWITH", "ENDSELECT", "ENDSWITCH", "FALSE", "FOR", "FUNC", "GLOBAL",
             "IF", "LOCAL", "NEXT", "NOT", "NULL", "OR", "PRINT", "RETURN", "REDIM", "SELECT",
             "STATIC", "STEP", "SUPER", "SWITCH", "THEN", "THIS", "TRUE", "VAR", "VOLATILE",
             "WEND", "WHILE", "WITH"}
      BY DEF Keywords
    <3> QED  BY <3>1, ZenonT(60) DEF Single
  <2>2. Keywords[w] \notin Double \cup {"!=", "==", "<=", ">="}
    BY DEF Keywords, Double
  <2>3. Keywords[w] \notin {"NUMBER", "STRING", "EOF", "ERROR"}
    BY DEF Keywords
  <2> QED  BY <2>1, <2>2, <2>3
<1>3. {"IDENTIFIER", "MACRO", "PREPROCESSOR"}
        \cap (Single \cup Double \cup {"!=", "==", "<=", ">="} \cup {"NUMBER", "STRING", "EOF", "ERROR"}) = {}
  BY DEF Single, Double
<1> QED  BY <1>1, <1>2, <1>3 DEF WordTypes

LEMMA LongestAppended ==
  ASSUME NEW s, NEW S, NEW ts \in Seq(S), NEW t \in S, NEW ts2, ts2 = Append(ts, t),
         TokensFollow(s, ts), TokensLongest(s, ts), TokenFollows(s, LastEnd(ts), t),
         Longest(s, t)
  PROVE  TokensFollow(s, ts2) /\ TokensLongest(s, ts2) /\ LastEnd(ts2) = t.upto
<1> DEFINE n == Len(ts)
<1>1. n \in Nat /\ Len(ts2) = n + 1 /\ DOMAIN ts = 1..n /\ DOMAIN ts2 = 1..n+1
      /\ ts2[n + 1] = t /\ \A i \in 1..n : ts2[i] = ts[i]
  OBVIOUS
<1>2. LastEnd(ts) = EndIn(ts, n)
  BY DEF LastEnd
<1> HIDE DEF n
<1>3. ASSUME NEW i \in 1..n+1 PROVE EndIn(ts2, i - 1) = EndIn(ts, i - 1)
  <2>1. i - 1 = 0 \/ i - 1 \in 1..n
    BY <1>1
  <2> QED  BY <1>1, <2>1 DEF EndIn
<1>4. ASSUME NEW i \in 1..n+1 PROVE TokenFollows(s, EndIn(ts2, i - 1), ts2[i]) /\ Longest(s, ts2[i])
  <2>1. CASE i \in 1..n
    BY <1>1, <1>3, <2>1 DEF TokensFollow, TokensLongest
  <2>2. CASE i \notin 1..n
    <3>1. i = n + 1
      BY <1>1, <2>2
    <3>2. i - 1 = n
      BY <1>1, <3>1
    <3> QED  BY <1>1, <1>2, <1>3, <3>1, <3>2
  <2> QED  BY <2>1, <2>2
<1>5. LastEnd(ts2) = t.upto
  <2>1. n + 1 # 0
    BY <1>1
  <2> QED  BY <1>1, <2>1 DEF LastEnd, EndIn
<1> QED  BY <1>1, <1>4, <1>5 DEF TokensFollow, TokensLongest

(* A token is handed out.                                                  *)
LEMMA HandOutSpan ==
  ASSUME SpanInv, ScanInv, ScanInv', UNCHANGED text, doing' = "skip", NEW t,
         tokens' = Append(tokens, t), t.upto = current',
         SkippedUpTo(text, LastEnd(tokens), t.from), t.type = "EOF" => t.upto = Len(text) + 1,
         Longest(text, t)
  PROVE  SpanInv'
<1>1. tokens \in Seq(Token) /\ tokens' \in Seq(Token)
  BY DEF ScanInv, TokensRight
<1>2. t \in Token
  <2> DEFINE n == Len(tokens)
  <2>1. n \in Nat /\ Len(Append(tokens, t)) = n + 1 /\ Append(tokens, t)[n + 1] = t
    BY <1>1
  <2>2. n + 1 \in 1..Len(tokens') /\ tokens'[n + 1] = t
    BY <2>1
  <2> QED  BY <1>1, <2>2
<1>3. TokenFollows(text, LastEnd(tokens), t)
  BY DEF TokenFollows
<1> DEFINE ts == tokens  ts2 == tokens'  s == text
<1>4. ts \in Seq(Token) /\ ts2 = Append(ts, t) /\ TokensFollow(s, ts) /\ TokensLongest(s, ts)
      /\ TokenFollows(s, LastEnd(ts), t) /\ Longest(s, t)
  BY <1>1, <1>3 DEF SpanInv
<1> HIDE DEF ts, ts2, s
<1>5. TokensFollow(s, ts2) /\ TokensLongest(s, ts2) /\ LastEnd(ts2) = t.upto
  BY <1>2, <1>4, LongestAppended
<1>6. TokensFollow(text', tokens') /\ TokensLongest(text', tokens') /\ LastEnd(tokens') = current'
  BY <1>5 DEF ts2, s
<1>7. current' \in Nat \ {0}
  BY CursorTypesNext DEF ScanInv
<1>8. Gap(text', LastEnd(tokens'), start', current', doing')
  BY <1>6, <1>7, GapNone
<1>9. Reading(text', start', current', doing')
  BY DEF Reading, TokenLoops, WordLoops
<1> QED  BY <1>6, <1>8, <1>9 DEF SpanInv

(* No token is handed out.                                                 *)
LEMMA NoToken ==
  ASSUME SpanInv, UNCHANGED <<text, tokens>>,
         Gap(text, LastEnd(tokens), start', current', doing'),
         Reading(text, start', current', doing')
  PROVE  SpanInv'
BY DEF SpanInv

LEMMA MadeToken ==
  ASSUME NEW type, MakeToken(type)
  PROVE  \E t : tokens' = Append(tokens, t) /\ t.type = type /\ t.from = start' /\ t.upto = current'
<1> DEFINE t == [type |-> type, from |-> start', upto |-> current', line |-> line',
                 column |-> position' - (current' - start'), lineStart |-> currentLine']
<1>1. tokens' = Append(tokens, t)
  BY DEF MakeToken, HandOut
<1>2. t.type = type /\ t.from = start' /\ t.upto = current'
  OBVIOUS
<1> QED  BY <1>1, <1>2

LEMMA MadeError ==
  ASSUME ErrorToken
  PROVE  \E t : tokens' = Append(tokens, t) /\ t.type = "ERROR" /\ t.from = start' /\ t.upto = current'
<1> DEFINE t == [type |-> "ERROR", from |-> start', upto |-> current', line |-> line',
                 column |-> position' - 1, lineStart |-> currentLine']
<1>1. tokens' = Append(tokens, t)
  BY DEF ErrorToken, HandOut
<1>2. t.type = "ERROR" /\ t.from = start' /\ t.upto = current'
  OBVIOUS
<1> QED  BY <1>1, <1>2

-----------------------------------------------------------------------------
(* Reading a token, character by character.                                *)

LEMMA ReadingNone ==
  ASSUME NEW s, NEW st, NEW i, NEW d \in {"skip", "comment", "block"}
  PROVE  Reading(s, st, i, d)
BY DEF Reading, TokenLoops, WordLoops

LEMMA ReadFirst ==
  ASSUME NEW s, NEW st \in Nat \ {0}, NEW i, i = st + 1, NEW d,
         \/ d \in WordLoops /\ CharOf(s, st) \in Letters \cup {"@", "#"}
         \/ d = "digits" /\ CharOf(s, st) \in Digits
         \/ d = "string" /\ CharOf(s, st) \in Quotes
  PROVE  Reading(s, st, i, d)
<1>1. st < i /\ (\A k \in st+1..i-1 : FALSE) /\ \A k \in st..i-1 : k = st
  OBVIOUS
<1>2. CASE d \in WordLoops /\ CharOf(s, st) \in Letters \cup {"@", "#"}
  BY <1>1, <1>2 DEF Reading, WordLoops
<1>3. CASE d = "digits" /\ CharOf(s, st) \in Digits
  BY <1>1, <1>3 DEF Reading, WordLoops
<1>4. CASE d = "string" /\ CharOf(s, st) \in Quotes
  BY <1>1, <1>4 DEF Reading, WordLoops
<1> QED  BY <1>2, <1>3, <1>4

LEMMA ReadWord ==
  ASSUME NEW s, NEW st, NEW i \in Nat, NEW j, j = i + 1, NEW d \in WordLoops,
         Reading(s, st, i, d), CharOf(s, i) \in Letters \cup Digits
  PROVE  Reading(s, st, j, d)
<1>1. st \in Nat \ {0} /\ st < i /\ CharOf(s, st) \in Letters \cup {"@", "#"}
      /\ \A k \in st+1..i-1 : CharOf(s, k) \in Letters \cup Digits
  BY DEF Reading, TokenLoops, WordLoops, Loops
<1>2. st < j /\ \A k \in st+1..j-1 : k = i \/ k \in st+1..i-1
  BY <1>1
<1>3. \A k \in st+1..j-1 : CharOf(s, k) \in Letters \cup Digits
  BY <1>1, <1>2
<1> QED  BY <1>1, <1>2, <1>3 DEF Reading, WordLoops

LEMMA ReadDigit ==
  ASSUME NEW s, NEW st, NEW i \in Nat, NEW j, j = i + 1, NEW d \in {"digits", "fraction"},
         Reading(s, st, i, d), CharOf(s, i) \in Digits
  PROVE  Reading(s, st, j, d)
<1>1. st \in Nat \ {0} /\ st < i
  BY DEF Reading, TokenLoops, Loops
<1>2. st < j /\ \A k \in st..j-1 : k = i \/ k \in st..i-1
  BY <1>1
<1>3. CASE d = "digits"
  <2>1. \A k \in st..j-1 : CharOf(s, k) \in Digits
    BY <1>2, <1>3 DEF Reading
  <2> QED  BY <1>1, <1>2, <1>3, <2>1 DEF Reading, WordLoops
<1>4. CASE d = "fraction"
  <2>1. PICK p \in st+1..i-1 : /\ CharOf(s, p) = "." /\ CharOf(s, p + 1) \in Digits
                               /\ \A k \in st..i-1 : k # p => CharOf(s, k) \in Digits
    BY <1>4 DEF Reading
  <2>2. p \in st+1..j-1
    BY <1>1
  <2>3. \A k \in st..j-1 : k # p => CharOf(s, k) \in Digits
    BY <1>2, <2>1
  <2> QED  BY <1>1, <1>2, <1>4, <2>1, <2>2, <2>3 DEF Reading, WordLoops
<1> QED  BY <1>3, <1>4

LEMMA ReadPoint ==
  ASSUME NEW s, NEW st, NEW i \in Nat, NEW j, j = i + 1, Reading(s, st, i, "digits"),
         CharOf(s, i) = ".", CharOf(s, i + 1) \in Digits
  PROVE  Reading(s, st, j, "fraction")
<1>1. st \in Nat \ {0} /\ st < i /\ \A k \in st..i-1 : CharOf(s, k) \in Digits
  BY DEF Reading, TokenLoops, Loops
<1>2. st < j /\ i \in st+1..j-1 /\ \A k \in st..j-1 : k = i \/ k \in st..i-1
  BY <1>1
<1>3. \A k \in st..j-1 : k # i => CharOf(s, k) \in Digits
  BY <1>1, <1>2
<1> QED  BY <1>1, <1>2, <1>3 DEF Reading, WordLoops

LEMMA ReadString ==
  ASSUME NEW s, NEW st, NEW i \in Nat, NEW j, j = i + 1, Reading(s, st, i, "string"),
         CharOf(s, i) # CharOf(s, st)
  PROVE  Reading(s, st, j, "string")
<1>1. st \in Nat \ {0} /\ st < i /\ CharOf(s, st) \in Quotes
      /\ \A k \in st+1..i-1 : CharOf(s, k) # CharOf(s, st)
  BY DEF Reading, TokenLoops, Loops
<1>2. st < j /\ \A k \in st+1..j-1 : k = i \/ k \in st+1..i-1
  BY <1>1
<1>3. \A k \in st+1..j-1 : CharOf(s, k) # CharOf(s, st)
  BY <1>1, <1>2
<1> QED  BY <1>1, <1>2, <1>3 DEF Reading, WordLoops

LEMMA WordRead ==
  ASSUME NEW s, NEW st, NEW i, NEW d \in WordLoops, Reading(s, st, i, d),
         CharOf(s, i) \notin Letters \cup Digits,
         NEW t, t.from = st, t.upto = i, t.type \in WordTypes
  PROVE  Longest(s, t)
BY DEF Reading, Longest, IsWord

LEMMA NumberRead ==
  ASSUME NEW s, NEW st, NEW i \in Nat, NEW d \in {"digits", "fraction"}, Reading(s, st, i, d),
         CharOf(s, i) \notin Digits,
         ~(d = "digits" /\ CharOf(s, i) = "." /\ CharOf(s, i + 1) \in Digits),
         NEW t, t.from = st, t.upto = i, t.type = "NUMBER"
  PROVE  Longest(s, t)
<1>1. st \in Nat \ {0} /\ st < i /\ st \in st..i-1
  BY DEF Reading, TokenLoops, Loops
<1>2. CASE d = "digits"
  <2>1. \A k \in st..i-1 : CharOf(s, k) \in Digits
    BY <1>2 DEF Reading
  <2> QED  BY <1>1, <1>2, <2>1 DEF Longest, IsNumber
<1>3. CASE d = "fraction"
  <2>1. PICK p \in st+1..i-1 : /\ CharOf(s, p) = "." /\ CharOf(s, p + 1) \in Digits
                               /\ \A k \in st..i-1 : k # p => CharOf(s, k) \in Digits
    BY <1>3 DEF Reading
  <2>2. p + 1 # i
    BY <2>1
  <2>3. p \in st+1..i-2 /\ p # st
    BY <1>1, <2>2
  <2> QED  BY <1>1, <2>1, <2>3 DEF Longest, IsNumber
<1> QED  BY <1>2, <1>3

LEMMA StringRead ==
  ASSUME NEW s, NEW st, NEW i \in Nat, NEW j, j = i + 1, Reading(s, st, i, "string"),
         CharOf(s, i) = CharOf(s, st),
         NEW t, t.from = st, t.upto = j, t.type = "STRING"
  PROVE  Longest(s, t)
<1>1. st \in Nat \ {0} /\ st < i /\ CharOf(s, st) \in Quotes
      /\ \A k \in st+1..i-1 : CharOf(s, k) # CharOf(s, st)
  BY DEF Reading, TokenLoops, Loops
<1>2. j > st + 1 /\ j - 1 = i /\ \A k \in st+1..j-2 : k \in st+1..i-1
  BY <1>1
<1> QED  BY <1>1, <1>2 DEF Longest, IsString

LEMMA StringUnended ==
  ASSUME NEW s, NEW st, NEW i, i = Len(s) + 1, Reading(s, st, i, "string"),
         NEW t, t.from = st, t.upto = i, t.type = "ERROR"
  PROVE  Longest(s, t)
BY DEF Reading, Longest, IsError

LEMMA GapLoop ==
  ASSUME NEW s, NEW e, NEW st, NEW i, NEW j, NEW d \in TokenLoops, NEW d2 \in TokenLoops,
         Gap(s, e, st, i, d)
  PROVE  Gap(s, e, st, j, d2)
BY DEF Gap, TokenLoops

-----------------------------------------------------------------------------
(* The steps.                                                              *)

LEMMA CharIs == \A k : Char(k) = CharOf(text, k)
BY DEF Char, CharOf

LEMMA Where ==
  ASSUME TextInv
  PROVE  /\ Len(text) \in Nat /\ current \in Nat \ {0} /\ start \in Nat \ {0}
         /\ current <= Len(text) + 1 /\ doing \in Loops
         /\ Peek = CharOf(text, current) /\ PeekNext = CharOf(text, current + 1)
         /\ Gap(text, LastEnd(tokens), start, current, doing)
         /\ Reading(text, start, current, doing)
         /\ LastEnd(tokens) \in Nat \ {0}
BY CursorTypes, PeekChar DEF TextInv, SpanInv, ScanInv, StartRight, Gap

LEMMA Within ==
  ASSUME TextInv, Peek # "NUL" \/ ~AtEnd
  PROVE  current <= Len(text)
BY NotAtEnd, Where DEF TextInv, ScanInv, AtEnd

(* A step of skipWhitespace.                                               *)
LEMMA SkipSpan ==
  ASSUME TextInv, UNCHANGED <<text, start, tokens>>, doing' \in {"skip", "comment", "block"},
         Gap(text, LastEnd(tokens), start, current', doing')
  PROVE  SpanInv'
<1>1. Reading(text, start', current', doing')
  BY ReadingNone
<1> QED  BY <1>1, NoToken DEF TextInv

LEMMA BlankSpan == ASSUME TextInv, Blank \/ NewLine PROVE SpanInv'
<1>1. doing = "skip" /\ doing' = "skip" /\ current' = current + 1
      /\ UNCHANGED <<text, start, tokens>>
  BY DEF Blank, NewLine, Advance, AdvanceAnywhere, Round
<1>2. Peek \in Blanks \cup {"\n"}
  BY DEF Blank, NewLine
<1>3. current <= Len(text)
  BY <1>2, Within DEF Blanks
<1>4. Gap(text, LastEnd(tokens), start, current', "skip")
  BY <1>1, <1>2, <1>3, Where, GapBlank
<1> QED  BY <1>1, <1>4, SkipSpan

LEMMA LineCommentSpan == ASSUME TextInv, LineComment PROVE SpanInv'
<1>1. doing = "skip" /\ doing' = "comment" /\ current' = current
      /\ UNCHANGED <<text, start, tokens>>
  BY DEF LineComment, lexer
<1>2. BeginsComment(text, current)
  <2>1. Peek = CharOf(text, current)
    BY Where
  <2> QED  BY <2>1 DEF LineComment, BeginsComment
<1>3. Gap(text, LastEnd(tokens), start, current', "comment")
  BY <1>1, <1>2, Where, GapComment
<1> QED  BY <1>1, <1>3, SkipSpan

LEMMA InLineCommentSpan == ASSUME TextInv, InLineComment PROVE SpanInv'
<1>1. doing = "comment"
  BY DEF InLineComment
<1>2. CASE Peek # "\n" /\ ~AtEnd /\ Advance(1) /\ Round
  <2>1. current' = current + 1 /\ doing' = "comment" /\ UNCHANGED <<text, start, tokens>>
    BY <1>1, <1>2 DEF Advance, Round
  <2>2. current <= Len(text) /\ CharOf(text, current) # "\n"
    BY <1>2, Within, Where
  <2>3. Gap(text, LastEnd(tokens), start, current', "comment")
    BY <1>1, <2>1, <2>2, Where, GapCommentOn
  <2> QED  BY <2>1, <2>3, SkipSpan
<1>3. CASE (Peek = "\n" \/ AtEnd) /\ doing' = "skip" /\ UNCHANGED <<text, lexer, tokens>>
  <2>1. current' = current /\ UNCHANGED <<text, start, tokens>>
    BY <1>3 DEF lexer
  <2>2. CharOf(text, current) = "\n" \/ current > Len(text)
    BY <1>3, Where DEF AtEnd
  <2>3. Gap(text, LastEnd(tokens), start, current', "skip")
    BY <1>1, <2>1, <2>2, Where, GapCommentEnds
  <2> QED  BY <1>3, <2>1, <2>3, SkipSpan
<1> QED  BY <1>2, <1>3 DEF InLineComment

LEMMA KeywordSpelt ==
  ASSUME NEW words, CheckKeyword(words)
  PROVE  \E w \in words : current = start + 1 + Len(w) /\ Spells(text, start, w)
BY CharIs DEF CheckKeyword, Spells

LEMMA BlockCommentSpan == ASSUME TextInv, BlockComment PROVE SpanInv'
<1>1. doing = "skip" /\ doing' = "block" /\ current' = current + 1
      /\ UNCHANGED <<text, start, tokens>> /\ Peek = "#" /\ CheckKeyword(StartWords)
  BY DEF BlockComment, Advance
<1>2. PICK w \in StartWords : current = start + 1 + Len(w) /\ Spells(text, start, w)
  BY <1>1, KeywordSpelt
<1>3. current <= Len(text) /\ CharOf(text, current) = "#"
  BY <1>1, Within, Where
<1>4. Gap(text, LastEnd(tokens), start, current', "block")
  BY <1>1, <1>2, <1>3, Where, GapBlock
<1> QED  BY <1>1, <1>4, SkipSpan

LEMMA InBlockCommentSpan == ASSUME TextInv, InBlockComment PROVE SpanInv'
<1>1. doing = "block"
  BY DEF InBlockComment
<1>2. ~CheckKeyword(EndWords)
  <2> SUFFICES ASSUME CheckKeyword(EndWords) PROVE FALSE
    OBVIOUS
  <2>1. PICK w \in EndWords : current = start + 1 + Len(w) /\ Spells(text, start, w)
    BY KeywordSpelt
  <2> QED  BY <1>1, <2>1, Where, NoEndWord
<1>3. CASE AdvanceAnywhere /\ Round
  <2>1. current' = current + 1 /\ doing' = "block" /\ UNCHANGED <<text, start, tokens>>
    BY <1>1, <1>3 DEF AdvanceAnywhere, Advance, Round
  <2>2. Gap(text, LastEnd(tokens), start, current', "block")
    BY <1>1, <2>1, Where, GapBlockOn
  <2> QED  BY <2>1, <2>2, SkipSpan
<1>4. CASE AtEnd /\ doing' = "skip" /\ UNCHANGED <<text, lexer, tokens>>
  <2>1. current' = current /\ UNCHANGED <<text, start, tokens>>
    BY <1>4 DEF lexer
  <2>2. current > Len(text)
    BY <1>4 DEF AtEnd
  <2>3. Gap(text, LastEnd(tokens), start, current', "skip")
    BY <1>1, <2>1, <2>2, Where, GapBlockEnds
  <2> QED  BY <1>4, <2>1, <2>3, SkipSpan
<1> QED  BY <1>2, <1>3, <1>4 DEF InBlockComment

LEMMA TokenStarts ==
  ASSUME TextInv, TokenStart
  PROVE  doing = "skip" /\ SkippedUpTo(text, LastEnd(tokens), current)
<1>1. doing = "skip" /\ Peek # "\n"
  BY DEF TokenStart
<1> QED  BY <1>1, Where, GapToken

LEMMA EndOfTextSpan == ASSUME TextInv, ScanInv', EndOfText PROVE SpanInv'
<1>1. TokenStart /\ AtEnd /\ doing' = doing /\ text' = text /\ start' = current
      /\ current' = current + 0 /\ MakeToken("EOF")
  BY DEF EndOfText, Scan, Advance
<1>2. PICK t : tokens' = Append(tokens, t) /\ t.type = "EOF" /\ t.from = start' /\ t.upto = current'
  BY <1>1, MadeToken
<1>3. current = Len(text) + 1 /\ current' = current
  BY <1>1, Where DEF AtEnd
<1>4. Longest(text, t)
  BY <1>1, <1>2, <1>3 DEF Longest, IsEnd
<1> QED  BY <1>1, <1>2, <1>3, <1>4, TokenStarts, HandOutSpan DEF TextInv

LEMMA BeginSpan ==
  ASSUME TextInv, NEW chars, NEW loop, Begin(chars, loop),
         \/ loop \in WordLoops /\ chars \subseteq Letters \cup {"@", "#"}
         \/ loop = "digits" /\ chars = Digits
         \/ loop = "string" /\ chars = Quotes
  PROVE  SpanInv'
<1>1. TokenStart /\ doing' = loop /\ text' = text /\ start' = current /\ current' = current + 1
      /\ tokens' = tokens /\ CharOf(text, current) \in chars
  BY Where DEF Begin, Scan, Advance
<1>2. loop \in TokenLoops
  BY DEF TokenLoops, WordLoops, Loops
<1>3. Reading(text, start', current', doing')
  <2>1. \/ loop \in WordLoops /\ CharOf(text, current) \in Letters \cup {"@", "#"}
        \/ loop = "digits" /\ CharOf(text, current) \in Digits
        \/ loop = "string" /\ CharOf(text, current) \in Quotes
    BY <1>1
  <2>2. Reading(text, current, current', loop)
    BY <1>1, <2>1, Where, ReadFirst
  <2> QED  BY <1>1, <2>2
<1>4. Gap(text, LastEnd(tokens), start', current', doing')
  <2>1. SkippedUpTo(text, LastEnd(tokens), start') /\ LastEnd(tokens) \in Nat \ {0}
    BY <1>1, TokenStarts, Where
  <2> QED  BY <1>1, <1>2, <2>1 DEF Gap, TokenLoops
<1> QED  BY <1>1, <1>3, <1>4, NoToken DEF TextInv

LEMMA OperatorSpan == ASSUME TextInv, ScanInv', Operator PROVE SpanInv'
<1>1. TokenStart /\ doing' = doing
  BY DEF Operator
<1>2. ASSUME NEW t, tokens' = Append(tokens, t), t.from = current, t.upto = current',
             text' = text, start' = current, Longest(text, t), t.type # "EOF"
      PROVE  SpanInv'
  BY <1>1, <1>2, TokenStarts, HandOutSpan DEF TextInv
<1>3. CASE /\ Peek \in Single \cup Double /\ ~(Peek \in Double /\ PeekNext = "=")
           /\ Scan(1) /\ MakeToken(Peek)
  <2>1. text' = text /\ start' = current /\ current' = current + 1
    BY <1>3 DEF Scan, Advance
  <2>2. PICK t : tokens' = Append(tokens, t) /\ t.type = Peek /\ t.from = start' /\ t.upto = current'
    BY <1>3, MadeToken
  <2>3. IsOperator(text, t)
    BY <1>3, <2>1, <2>2, Where DEF IsOperator
  <2>4. t.type # "EOF"
    BY <1>3, <2>2 DEF Single, Double
  <2> QED  BY <1>2, <1>3, <2>1, <2>2, <2>3, <2>4 DEF Longest
<1>4. CASE Peek \in Double /\ PeekNext = "=" /\ Scan(2) /\ MakeToken(WithEqual(Peek))
  <2>1. text' = text /\ start' = current /\ current' = current + 2
    BY <1>4 DEF Scan, Advance
  <2>2. PICK t : /\ tokens' = Append(tokens, t) /\ t.type = WithEqual(Peek)
                 /\ t.from = start' /\ t.upto = current'
    BY <1>4, MadeToken
  <2>3. IsDouble(text, t)
    BY <1>4, <2>1, <2>2, Where DEF IsDouble
  <2>4. t.type \in EqualTypes /\ t.type # "EOF"
    BY <1>4, <2>2, TypeClasses DEF EqualTypes
  <2> QED  BY <1>2, <2>1, <2>2, <2>3, <2>4 DEF Longest
<1> QED  BY <1>3, <1>4 DEF Operator

LEMMA UnexpectedSpan == ASSUME TextInv, ScanInv', Unexpected PROVE SpanInv'
<1>1. TokenStart /\ doing' = doing /\ text' = text /\ start' = current /\ current' = current + 1
      /\ ErrorToken
  BY DEF Unexpected, Scan, Advance
<1>2. PICK t : tokens' = Append(tokens, t) /\ t.type = "ERROR" /\ t.from = start' /\ t.upto = current'
  BY <1>1, MadeError
<1>3. Longest(text, t)
  BY <1>1, <1>2 DEF Longest, IsError
<1> QED  BY <1>1, <1>2, <1>3, TokenStarts, HandOutSpan DEF TextInv

(* The loops: one more character, or the token.                            *)
LEMMA RoundSpan ==
  ASSUME TextInv, doing \in TokenLoops, doing' \in TokenLoops, UNCHANGED <<text, start, tokens>>,
         Reading(text, start, current', doing')
  PROVE  SpanInv'
<1>1. Gap(text, LastEnd(tokens), start, current', doing')
  BY Where, GapLoop
<1> QED  BY <1>1, NoToken DEF TextInv

LEMMA ReturnSpan ==
  ASSUME TextInv, ScanInv', doing \in TokenLoops, Return, NEW t, tokens' = Append(tokens, t),
         t.from = start', t.upto = current', t.type # "EOF", Longest(text, t)
  PROVE  SpanInv'
<1>1. doing' = "skip" /\ UNCHANGED <<text, start>>
  BY DEF Return
<1>2. SkippedUpTo(text, LastEnd(tokens), t.from)
  BY <1>1, Where DEF Gap
<1> QED  BY <1>1, <1>2, HandOutSpan DEF TextInv

LEMMA InWordSpan == ASSUME TextInv, ScanInv', InWord PROVE SpanInv'
<1>1. doing \in WordLoops /\ doing \in TokenLoops
  BY DEF InWord, WordLoops, TokenLoops, Loops
<1>2. CASE Peek \in Letters \cup Digits /\ Advance(1) /\ Round
  <2>1. current' = current + 1 /\ doing' = doing /\ UNCHANGED <<text, start, tokens>>
    BY <1>2 DEF Advance, Round
  <2>2. Reading(text, start, current', doing)
    BY <1>1, <1>2, <2>1, Where, ReadWord
  <2> QED  BY <1>1, <2>1, <2>2, RoundSpan
<1>3. ASSUME NEW type, Peek \notin Letters \cup Digits, Advance(0), Return, MakeToken(type),
             type = IF doing = "IDENTIFIER" THEN IdentifierType(Word(start, current)) ELSE doing
      PROVE  SpanInv'
  <2>1. current' = current /\ start' = start
    BY <1>3, Where DEF Advance, Return
  <2>2. PICK t : tokens' = Append(tokens, t) /\ t.type = type /\ t.from = start' /\ t.upto = current'
    BY <1>3, MadeToken
  <2>3. type \in WordTypes
    <3>1. \A w : IdentifierType(w) \in WordTypes
      BY DEF IdentifierType, WordTypes
    <3> QED  BY <1>1, <1>3, <3>1 DEF WordTypes, WordLoops
  <2>4. Longest(text, t)
    BY <1>1, <1>3, <2>1, <2>2, <2>3, Where, WordRead
  <2>5. t.type # "EOF"
    BY <2>2, <2>3, TypeClasses
  <2> QED  BY <1>1, <1>3, <2>2, <2>4, <2>5, ReturnSpan
<1> QED  BY <1>2, <1>3 DEF InWord

LEMMA InNumberSpan == ASSUME TextInv, ScanInv', InNumber PROVE SpanInv'
<1>1. doing \in {"digits", "fraction"} /\ doing \in TokenLoops
  BY DEF InNumber, TokenLoops, Loops
<1>2. CASE Peek \in Digits /\ Advance(1) /\ Round
  <2>1. current' = current + 1 /\ doing' = doing /\ UNCHANGED <<text, start, tokens>>
    BY <1>2 DEF Advance, Round
  <2>2. Reading(text, start, current', doing)
    BY <1>1, <1>2, <2>1, Where, ReadDigit
  <2> QED  BY <1>1, <2>1, <2>2, RoundSpan
<1>3. CASE TakesPoint /\ Advance(1) /\ doing' = "fraction" /\ UNCHANGED <<text, start, tokens>>
  <2>1. current' = current + 1 /\ doing = "digits" /\ Peek = "." /\ PeekNext \in Digits
    BY <1>3 DEF Advance, TakesPoint
  <2>2. Reading(text, start, current', "fraction")
    BY <2>1, Where, ReadPoint
  <2>3. "fraction" \in TokenLoops
    BY DEF TokenLoops, Loops
  <2> QED  BY <1>1, <1>3, <2>2, <2>3, RoundSpan
<1>4. CASE Peek \notin Digits /\ ~TakesPoint /\ Advance(0) /\ Return /\ MakeToken("NUMBER")
  <2>1. current' = current /\ start' = start
    BY <1>4, Where DEF Advance, Return
  <2>2. PICK t : /\ tokens' = Append(tokens, t) /\ t.type = "NUMBER"
                 /\ t.from = start' /\ t.upto = current'
    BY <1>4, MadeToken
  <2>3. ~(doing = "digits" /\ CharOf(text, current) = "." /\ CharOf(text, current + 1) \in Digits)
    BY <1>4, Where DEF TakesPoint
  <2>4. Longest(text, t)
    BY <1>1, <1>4, <2>1, <2>2, <2>3, Where, NumberRead
  <2> QED  BY <1>1, <1>4, <2>2, <2>4, ReturnSpan
<1> QED  BY <1>2, <1>3, <1>4 DEF InNumber

LEMMA InStringSpan == ASSUME TextInv, ScanInv', InString PROVE SpanInv'
<1>1. doing = "string" /\ doing \in TokenLoops
  BY DEF InString, TokenLoops, Loops
<1>2. Char(start) = CharOf(text, start)
  BY CharIs
<1>3. CASE Peek # Char(start) /\ ~AtEnd /\ AdvanceAnywhere /\ Round
  <2>1. current' = current + 1 /\ doing' = doing /\ UNCHANGED <<text, start, tokens>>
    BY <1>3 DEF Advance, AdvanceAnywhere, Round
  <2>2. Reading(text, start, current', "string")
    BY <1>1, <1>2, <1>3, <2>1, Where, ReadString
  <2> QED  BY <1>1, <2>1, <2>2, RoundSpan
<1>4. CASE AtEnd /\ Advance(0) /\ Return /\ ErrorToken
  <2>1. current' = current /\ start' = start /\ current = Len(text) + 1
    BY <1>4, Where DEF Advance, Return, AtEnd
  <2>2. PICK t : /\ tokens' = Append(tokens, t) /\ t.type = "ERROR"
                 /\ t.from = start' /\ t.upto = current'
    BY <1>4, MadeError
  <2>3. Longest(text, t)
    BY <1>1, <2>1, <2>2, Where, StringUnended
  <2> QED  BY <1>1, <1>4, <2>2, <2>3, ReturnSpan
<1>5. CASE Peek = Char(start) /\ Advance(1) /\ Return /\ MakeToken("STRING")
  <2>1. current' = current + 1 /\ start' = start
    BY <1>5 DEF Advance, Return
  <2>2. PICK t : /\ tokens' = Append(tokens, t) /\ t.type = "STRING"
                 /\ t.from = start' /\ t.upto = current'
    BY <1>5, MadeToken
  <2>3. Longest(text, t)
    BY <1>1, <1>2, <1>5, <2>1, <2>2, Where, StringRead
  <2> QED  BY <1>1, <1>5, <2>2, <2>3, ReturnSpan
<1> QED  BY <1>3, <1>4, <1>5 DEF InString

LEMMA InitText == Init => TextInv
<1> SUFFICES ASSUME Init PROVE TextInv
  OBVIOUS
<1>1. ScanInv
  BY InitInv
<1>2. tokens = <<>> /\ doing = "skip" /\ current = 1
  BY DEF Init
<1>3. LastEnd(tokens) = 1
  BY <1>2 DEF LastEnd, EndIn
<1>4. Gap(text, LastEnd(tokens), start, current, doing)
  BY <1>2, <1>3, GapNone
<1>5. Reading(text, start, current, doing)
  BY <1>2, ReadingNone
<1>6. TokensFollow(text, tokens) /\ TokensLongest(text, tokens)
  BY <1>2 DEF TokensFollow, TokensLongest
<1> QED  BY <1>1, <1>4, <1>5, <1>6 DEF TextInv, SpanInv

LEMMA NextText == TextInv /\ [Next]_vars => TextInv'
<1> SUFFICES ASSUME TextInv, [Next]_vars PROVE TextInv'
  OBVIOUS
<1>1. ScanInv'
  BY NextInv DEF TextInv
<1>2. CASE Blank \/ NewLine \/ LineComment \/ InLineComment \/ BlockComment \/ InBlockComment
  BY <1>1, <1>2, BlankSpan, LineCommentSpan, InLineCommentSpan, BlockCommentSpan,
     InBlockCommentSpan DEF TextInv
<1>3. CASE EndOfText \/ Operator \/ Unexpected
  BY <1>1, <1>3, EndOfTextSpan, OperatorSpan, UnexpectedSpan DEF TextInv
<1>4. CASE BeginIdentifier
  BY <1>1, <1>4, BeginSpan DEF BeginIdentifier, TextInv, WordLoops
<1>5. CASE BeginNumber
  BY <1>1, <1>5, BeginSpan DEF BeginNumber, TextInv
<1>6. CASE BeginString
  BY <1>1, <1>6, BeginSpan DEF BeginString, TextInv
<1>7. CASE BeginMacro
  BY <1>1, <1>7, BeginSpan DEF BeginMacro, TextInv, WordLoops
<1>8. CASE BeginPreprocessor
  BY <1>1, <1>8, BeginSpan DEF BeginPreprocessor, TextInv, WordLoops
<1>9. CASE InWord \/ InNumber \/ InString
  BY <1>1, <1>9, InWordSpan, InNumberSpan, InStringSpan DEF TextInv
<1>10. CASE UNCHANGED vars
  BY <1>1, <1>10 DEF TextInv, SpanInv, vars, lexer
<1> QED  BY <1>2, <1>3, <1>4, <1>5, <1>6, <1>7, <1>8, <1>9, <1>10 DEF Next

-----------------------------------------------------------------------------
(* Every state has the stronger invariant.                                 *)
THEOREM LexerText == Spec => []TextInv
BY InitText, NextText, PTL DEF Spec

(* Every character of the text is in a token, or is skipped for one of the *)
(* reasons there are; when the end is handed out, all of it has been read. *)
THEOREM LexerNothingLost == Spec => []NothingLost
<1>1. ASSUME TextInv PROVE NothingLost
  <2>1. TokensFollow(text, tokens) /\ tokens \in Seq(Token)
    BY <1>1 DEF TextInv, SpanInv, ScanInv, TokensRight
  <2>2. ASSUME NEW from, NEW upto PROVE OneLine(from, upto) <=> Unbroken(text, from, upto)
    BY CharIs, Zenon DEF OneLine, Unbroken
  <2>3. ASSUME NEW from, NEW upto, SkippedUpTo(text, from, upto)
        PROVE  from <= upto /\ Skipped(from, upto)
    <3> SUFFICES ASSUME NEW k \in from..upto-1
                 PROVE  \/ Char(k) \in Blanks \cup {"\n"}
                        \/ \E c \in from..k : /\ Char(c) = ";" /\ OneLine(c, k)
                                              /\ upto > Len(text) \/ ~OneLine(k, upto)
                        \/ Char(from) = "#" /\ upto > Len(text)
      BY <2>3, Zenon DEF SkippedUpTo, Skipped
    <3>1. SkippedAt(text, from, k, upto)
      BY <2>3, Zenon DEF SkippedUpTo
    <3> QED  BY <2>2, <3>1, CharIs, Zenon DEF SkippedAt, BeginsComment, InRest
  <2>4. ASSUME NEW i \in DOMAIN tokens
        PROVE  EndOf(i - 1) <= tokens[i].from /\ Skipped(EndOf(i - 1), tokens[i].from)
    <3>1. SkippedUpTo(text, EndIn(tokens, i - 1), tokens[i].from)
      BY <2>1 DEF TokensFollow, TokenFollows
    <3>2. EndOf(i - 1) = EndIn(tokens, i - 1)
      BY DEF EndOf, EndIn
    <3> QED  BY <2>3, <3>1, <3>2
  <2>5. ASSUME Handed PROVE EndOf(Len(tokens)) = Len(text) + 1
    <3>1. Len(tokens) \in DOMAIN tokens /\ Len(tokens) # 0 /\ tokens[Len(tokens)].type = "EOF"
      BY <2>1, <2>5 DEF Handed
    <3>2. tokens[Len(tokens)].upto = Len(text) + 1
      BY <2>1, <3>1 DEF TokensFollow, TokenFollows
    <3> QED  BY <3>1, <3>2 DEF EndOf
  <2> QED  BY <2>4, <2>5 DEF NothingLost
<1> QED  BY <1>1, LexerText, PTL

(* One case of Matches at a time.                                          *)
LEMMA Kinds ==
  ASSUME NEW type
  PROVE  /\ type \in Single \cup Double \cup EqualTypes =>
              type \notin {"NUMBER", "STRING", "EOF", "ERROR"}
         /\ type \in EqualTypes => type \notin Single \cup Double
         /\ type \in WordTypes =>
              type \notin Single \cup Double \cup EqualTypes \cup {"NUMBER", "STRING", "EOF", "ERROR"}
<1>1. type \in WordTypes =>
        type \notin Single \cup Double \cup EqualTypes \cup {"NUMBER", "STRING", "EOF", "ERROR"}
  BY TypeClasses, Zenon
<1>2. type \in {"!=", "==", "<=", ">="} => type \notin Single \cup Double
  BY Zenon DEF Single, Double
<1>3. type \in Single \cup Double \cup {"!=", "==", "<=", ">="} =>
        type \notin {"NUMBER", "STRING", "EOF", "ERROR"}
  BY Zenon DEF Single, Double
<1> QED  BY <1>1, <1>2, <1>3, TypeClasses, Zenon

LEMMA OperatorMatches ==
  ASSUME NEW t, t.type \in Single \cup Double, IsOperator(text, t)
  PROVE  Matches(t)
<1>1. t.type \notin EqualTypes \cup {"NUMBER", "STRING", "EOF", "ERROR"}
  BY Kinds, Zenon
<1> QED  BY <1>1, CharIs DEF Matches, IsOperator, EqualTypes

LEMMA DoubleMatches ==
  ASSUME NEW t, t.type \in EqualTypes, t.from \in Nat, IsDouble(text, t)
  PROVE  Matches(t)
<1>1. t.type \notin Single \cup Double \cup {"NUMBER", "STRING", "EOF", "ERROR"}
  BY Kinds, Zenon
<1>2. {Char(k) : k \in t.from+1..t.upto-1} = {"="}
  <2>1. t.from+1..t.upto-1 = {t.from + 1}
    BY DEF IsDouble
  <2> QED  BY <2>1, CharIs DEF IsDouble
<1> QED  BY <1>1, <1>2, CharIs DEF Matches, IsDouble, EqualTypes

LEMMA NumberMatches ==
  ASSUME NEW t, t.type = "NUMBER", t.from \in Nat, t.upto \in Nat, IsNumber(text, t)
  PROVE  Matches(t)
<1>1. t.type \notin Single \cup Double \cup EqualTypes
  BY Kinds, Zenon
<1> DEFINE at == t.from..t.upto-1  points == {k \in at : Char(k) = "."}
           rest == {Char(k) : k \in t.from+1..t.upto-1}
<1>2. "." \notin Digits
  BY Zenon DEF Digits
<1>3. CASE /\ \A k \in at : CharOf(text, k) \in Digits
           /\ ~(CharOf(text, t.upto) = "." /\ CharOf(text, t.upto + 1) \in Digits)
  <2>1. points = {} /\ rest \subseteq Digits
    BY <1>2, <1>3, CharIs
  <2> QED  BY <1>1, <1>3, <2>1, CharIs DEF Matches, IsNumber, EqualTypes
<1>4. CASE \E p \in t.from+1..t.upto-2 :
             CharOf(text, p) = "." /\ \A k \in at : k # p => CharOf(text, k) \in Digits
  <2> PICK p \in t.from+1..t.upto-2 :
             CharOf(text, p) = "." /\ \A k \in at : k # p => CharOf(text, k) \in Digits
    BY <1>4
  <2>1. points = {p} /\ p \in points /\ p < t.upto - 1 /\ rest \subseteq Digits \cup {"."}
    BY <1>2, CharIs
  <2> QED  BY <1>1, <2>1, CharIs DEF Matches, IsNumber, EqualTypes
<1> QED  BY <1>3, <1>4 DEF IsNumber

LEMMA StringMatches ==
  ASSUME NEW t, t.type = "STRING", IsString(text, t)
  PROVE  Matches(t)
<1>1. t.type \notin Single \cup Double \cup EqualTypes
  BY Kinds, Zenon
<1> QED  BY <1>1, CharIs DEF Matches, IsString, EqualTypes

LEMMA EndMatches ==
  ASSUME NEW t, t.type = "EOF", IsEnd(text, t)
  PROVE  Matches(t)
<1>1. t.type \notin Single \cup Double \cup EqualTypes
  BY Kinds, Zenon
<1> QED  BY <1>1 DEF Matches, IsEnd, EqualTypes

LEMMA ErrorMatches ==
  ASSUME NEW t, t.type = "ERROR", IsError(text, t)
  PROVE  Matches(t)
<1>1. t.type \notin Single \cup Double \cup EqualTypes
  BY Kinds, Zenon
<1> QED  BY <1>1, CharIs DEF Matches, IsError, EqualTypes

LEMMA WordMatches ==
  ASSUME NEW t, t.type \in WordTypes, IsWord(text, t)
  PROVE  Matches(t)
<1>1. t.type \notin Single \cup Double \cup EqualTypes \cup {"NUMBER", "STRING", "EOF", "ERROR"}
  BY Kinds, Zenon
<1> QED  BY <1>1, CharIs DEF Matches, IsWord, EqualTypes

(* No token stops early or reads on, whatever the text.                    *)
THEOREM LexerLongestMatch == Spec => []LongestMatch
<1>1. ASSUME TextInv PROVE LongestMatch
  <2> SUFFICES ASSUME NEW i \in DOMAIN tokens PROVE Matches(tokens[i])
    BY DEF LongestMatch
  <2> DEFINE t == tokens[i]
  <2>1. Longest(text, t) /\ t.from \in Nat /\ t.upto \in Nat
    <3>1. tokens \in Seq(Token) /\ TokensLongest(text, tokens)
      BY <1>1 DEF TextInv, SpanInv, ScanInv, TokensRight
    <3>2. t \in Token
      BY <3>1
    <3> QED  BY <3>1, <3>2 DEF TokensLongest, Token
  <2> HIDE DEF t
  <2>2. Matches(t)
    BY <2>1, OperatorMatches, DoubleMatches, NumberMatches, StringMatches, EndMatches,
       ErrorMatches, WordMatches, Zenon DEF Longest
  <2> QED  BY <2>2 DEF t
<1> QED  BY <1>1, LexerText, PTL
=============================================================================
