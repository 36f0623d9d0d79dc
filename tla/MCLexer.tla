-------------------------------- MODULE MCLexer --------------------------------
(***************************************************************************)
(* Every text of up to MaxText characters of an alphabet with one or two   *)
(* of each class, longer ones of the characters of comments and strings,   *)
(* and every keyword, with what may be before and after it.                *)
(***************************************************************************)
EXTENDS Lexer

LOCAL INSTANCE SequencesExt

CONSTANTS MaxText, MaxComment   \* the lengths of the texts

LowerOf == [C |-> "c", S |-> "s", I |-> "i", F |-> "f"]

Joined(s) == LET join(t, c) == t \o c IN FoldLeft(join, "", s)
Texts(chars, n) == UNION {[1..k -> chars] : k \in 0..n}

Alphabet == {"c", "S", "1", " ", "\n", ";", "#", "\"", "'", ".", "=", "<", "(", "?", "@"}
CommentAlphabet == {"c", "s", "#", "\n", ";", "\""}

Words == DOMAIN Keywords \cup {"If", "IF", "exit", "to", "enum", "elseif", "ifs", "i", "_if"}

MCSources ==
  {Joined(s) : s \in
     Texts(Alphabet, MaxText) \cup Texts(CommentAlphabet, MaxComment)
     \cup {<<before, w, after>> :
             before \in {"", "1"}, w \in Words, after \in {"", "1", "(", "\n#ce"}}}
=============================================================================
