---------------------------- MODULE CompilerProofs ----------------------------
(***************************************************************************)
(* For every program and every limit: the compiler keeps its own state in  *)
(* order.                                                                  *)
(*                                                                         *)
(* The calls in progress are what has to be reasoned about: a statement    *)
(* leaves the stack as it found it because of what the calls that are      *)
(* still pending will emit.  So each pending call is given a mark, what is *)
(* true where it will begin, and the invariants say of each call how the   *)
(* marks before and after it are related.                                  *)
(*                                                                         *)
(* That what is compiled without error is balanced needs more of the same  *)
(* kind: each call is given a point, how deep the stack is, how many       *)
(* locals there are and which jumps wait for their target.  The second     *)
(* half is about points and about depths along code, and has the steps     *)
(* that emit nothing, a constant or a jump; CompilerDepthProofs has the    *)
(* others.                                                                 *)
(***************************************************************************)
EXTENDS Compiler, FiniteSetTheorems, SequenceTheorems, WellFoundedInduction, TLAPS

-----------------------------------------------------------------------------
(* The least number of a set.                                              *)

LEMMA LeastIsLeast ==
  ASSUME NEW S \in SUBSET Nat, S # {}
  PROVE  Least(S) \in S /\ \A e \in S : Least(S) <= e
<1> DEFINE R == StrictSubsetOrdering(Nat)
           F == FiniteSubsetsOf(Nat)
           T == {0..n : n \in S}
<1>1. IsWellFoundedOn(R, F)
  BY FS_StrictSubsetOrderingWellFounded
<1>2. \A n \in Nat : 0..n \in F
  <2>1. \A n \in Nat : IsFiniteSet(0..n)
    BY FS_Interval
  <2> QED  BY <2>1 DEF FiniteSubsetsOf
<1>3. T \subseteq F /\ T # {}
  BY <1>2
<1>4. PICK J \in T : \A K \in T : <<K, J>> \notin R
  <2> HIDE DEF F, R, T
  <2> QED  BY <1>1, <1>3, WFMin
<1>5. PICK m \in S : J = 0..m
  BY <1>4
<1>6. \A e \in S : m <= e
  <2> SUFFICES ASSUME NEW e \in S, e < m PROVE FALSE
    OBVIOUS
  <2>1. <<0..e, 0..m>> \in R
    BY DEF StrictSubsetOrdering
  <2> QED  BY <2>1, <1>4, <1>5
<1> QED  BY <1>6 DEF Least

(* The greatest number of a bounded set.                                   *)
LEMMA GreatestIsGreatest ==
  ASSUME NEW n \in Nat, NEW S \in SUBSET (0..n), S # {}
  PROVE  Greatest(S) \in S /\ \A e \in S : e <= Greatest(S)
<1> DEFINE T == {n - e : e \in S}
<1>1. T \in SUBSET Nat /\ T # {}
  <2>1. \A e \in S : n - e \in Nat
    OBVIOUS
  <2> QED  BY <2>1
<1>2. Least(T) \in T /\ \A e \in T : Least(T) <= e
  BY <1>1, LeastIsLeast
<1>3. PICK m \in S : Least(T) = n - m
  BY <1>2
<1>4. \A e \in S : e <= m
  <2> SUFFICES ASSUME NEW e \in S PROVE e <= m
    OBVIOUS
  <2>1. n - e \in T /\ e \in 0..n /\ m \in 0..n
    OBVIOUS
  <2>2. n - m <= n - e
    BY <2>1, <1>2, <1>3
  <2> QED  BY <2>1, <2>2
<1>5. \E i \in S : \A j \in S : i >= j
  <2>1. \A e \in S : e \in Int /\ m \in Int
    OBVIOUS
  <2> QED  BY <1>4, <2>1
<1>6. Greatest(S) \in S /\ \A j \in S : Greatest(S) >= j
  BY <1>5 DEF Greatest
<1>7. \A e \in S : e \in Int
  OBVIOUS
<1> QED  BY <1>6, <1>7

(* Sequences.                                                              *)
LEMMA TailIs ==
  ASSUME NEW S, NEW s \in Seq(S), Len(s) > 1
  PROVE  /\ Tail(s) \in Seq(S) /\ Len(Tail(s)) = Len(s) - 1
         /\ Tail(s) # <<>> /\ DOMAIN Tail(s) = 1..Len(s)-1
         /\ \A i \in 1..Len(s)-1 : Tail(s)[i] = s[i + 1]
<1>1. s # <<>> /\ Len(s) \in Nat
  OBVIOUS
<1>2. Tail(s) \in Seq(S) /\ Len(Tail(s)) = Len(s) - 1
  BY <1>1
<1>3. \A i \in 1..Len(s)-1 : Tail(s)[i] = s[i + 1]
  BY <1>1
<1>4. \A u \in Seq(S) : DOMAIN u = 1..Len(u)
  OBVIOUS
<1>5. PICK t \in Seq(S) : t = Tail(s)
  BY <1>2
<1>6. DOMAIN t = 1..Len(t)
  BY <1>4
<1>7. DOMAIN Tail(s) = 1..Len(s)-1
  BY <1>2, <1>5, <1>6, Zenon
<1>8. Tail(s) # <<>>
  <2>1. Len(Tail(s)) # 0
    BY <1>1, <1>2
  <2>2. Len(<<>>) = 0
    OBVIOUS
  <2> QED  BY <2>1, <2>2, Zenon
<1> QED BY <1>2, <1>3, <1>7, <1>8

LEMMA Pairs ==
  ASSUME NEW S, NEW x \in S, NEW y \in S, NEW s \in Seq(S)
  PROVE  <<x, y>> \o s = <<x>> \o (<<y>> \o s)
<1>1. <<x>> \in Seq(S) /\ <<y>> \in Seq(S) /\ Len(<<x>>) = 1 /\ Len(<<y>>) = 1
  OBVIOUS
<1>2. <<x, y>> = <<x>> \o <<y>>
  <2>1. <<x, y>> \in Seq(S) /\ <<x>> \o <<y>> \in Seq(S)
    OBVIOUS
  <2>2. Len(<<x, y>>) = 2 /\ Len(<<x>> \o <<y>>) = 2
    OBVIOUS
  <2>3. \A i \in 1..2 : <<x, y>>[i] = (<<x>> \o <<y>>)[i]
    OBVIOUS
  <2> QED  BY <2>1, <2>2, <2>3, SeqEqual
<1>3. \A a, b, c \in Seq(S) : (a \o b) \o c = a \o (b \o c)
  OBVIOUS
<1> QED  BY <1>1, <1>2, <1>3

-----------------------------------------------------------------------------
(* What the parts of the state are.                                        *)

Text == STRING \cup {""}
Token == [type : STRING, text : STRING, line : Nat]
Kept == [type : {"num", "str"}, v : Text] \cup [type : {"fun"}, v : Nat]
Fun == [arity : Nat, code : Seq(Instr), consts : Seq(Kept)]
Local == [name : Text, depth : Nat \cup {-1}]
Compiling ==
  [fn : Nat, type : {"script", "function"}, scope : Nat, locals : Seq(Local)]

SimpleCalls ==
  {"start", "program", "declaration", "endDeclaration", "statement", "endExpression", "then",
   "returnValue", "endScope", "funDeclaration", "varDeclaration", "globalDeclaration",
   "parameter", "globals", "parameters", "initializer", "function", "parameterList",
   "endFunction", "constant", "map", "and", "or", "argumentList"}
Expected == {{")"}, {"]"}, {"}"}, {"THEN"}, {"END", "ENDIF"}, {"END", "ENDFUNC"}}
Ends == {{"}"}, {"ELSE"}, {"ENDIF"}, {"END", "ENDFUNC"}}
Emission == [do : {"emit"}, code : Seq(Instr), assigns : BOOLEAN]

ACall ==
  [do : SimpleCalls]
  \cup [do : {"parsePrecedence", "operators"}, prec : Nat]
  \cup [do : {"consume"}, types : Expected]
  \cup [do : {"declareUntil"}, types : Ends]
  \cup [do : {"patchJump"}, at : Nat]
  \cup [do : {"else"}, at : Nat, inline : BOOLEAN]
  \cup [do : {"variable", "dot"}, canAssign : BOOLEAN]
  \cup [do : {"assignable"}, get : Instr, canAssign : BOOLEAN, set : Emission]
  \cup [do : {"defineVariable"}, global : Nat]
  \cup [do : {"arguments", "elements", "values"}, count : Nat]
  \cup Emission

(* The fields of a call.                                                   *)
LEMMA CallFields ==
  ASSUME NEW t \in ACall
  PROVE  /\ t.do \in {"parsePrecedence", "operators"} => t.prec \in Nat
         /\ t.do = "consume" => t.types \in Expected
         /\ t.do = "declareUntil" => t.types \in Ends
         /\ t.do \in {"patchJump", "else"} => t.at \in Nat
         /\ t.do = "else" => t.inline \in BOOLEAN
         /\ t.do \in {"variable", "dot", "assignable"} => t.canAssign \in BOOLEAN
         /\ t.do = "assignable" => t.get \in Instr /\ t.set \in Emission
         /\ t.do = "defineVariable" => t.global \in Nat
         /\ t.do \in {"arguments", "elements", "values"} => t.count \in Nat
         /\ t.do = "emit" => t \in Emission /\ t.code \in Seq(Instr) /\ t.assigns \in BOOLEAN
<1>1. CASE t \in [do : SimpleCalls]
  BY <1>1 DEF SimpleCalls
<1>2. CASE t \in [do : {"parsePrecedence", "operators"}, prec : Nat]
  BY <1>2
<1>3. CASE t \in [do : {"consume"}, types : Expected] \cup [do : {"declareUntil"}, types : Ends]
  BY <1>3
<1>4. CASE t \in [do : {"patchJump"}, at : Nat]
  BY <1>4
<1>5. CASE t \in [do : {"else"}, at : Nat, inline : BOOLEAN]
  BY <1>5
<1>6. CASE t \in [do : {"variable", "dot"}, canAssign : BOOLEAN]
  BY <1>6
<1>7. CASE t \in [do : {"assignable"}, get : Instr, canAssign : BOOLEAN, set : Emission]
  BY <1>7
<1>8. CASE t \in [do : {"defineVariable"}, global : Nat]
  BY <1>8
<1>9. CASE t \in [do : {"arguments", "elements", "values"}, count : Nat]
  BY <1>9
<1>10. CASE t \in Emission
  BY <1>10 DEF Emission
<1> QED
  BY <1>1, <1>2, <1>3, <1>4, <1>5, <1>6, <1>7, <1>8, <1>9, <1>10 DEF ACall

LEMMA CallsMade ==
  /\ \A d \in SimpleCalls : Call(d) \in ACall
  /\ \A n \in Nat : Parse(n) \in ACall /\ [do |-> "operators", prec |-> n] \in ACall
  /\ \A s \in Expected : Expect(s) \in ACall
  /\ \A s \in Ends : DeclareUntil(s) \in ACall
  /\ \A c \in Seq(Instr) : Output(c) \in Emission /\ OutputAssignment(c) \in Emission
  /\ Emission \subseteq ACall
  /\ \A n \in Nat : PatchJump(n) \in ACall /\ DefineVariable(n) \in ACall
  /\ \A n \in Nat, b \in BOOLEAN : [do |-> "else", at |-> n, inline |-> b] \in ACall
  /\ \A b \in BOOLEAN : [do |-> "variable", canAssign |-> b] \in ACall
                        /\ [do |-> "dot", canAssign |-> b] \in ACall
  /\ \A i, j \in Instr, b, c \in BOOLEAN : Assignable(i, j, b, c) \in ACall
  /\ \A n \in Nat : \A l \in {"arguments", "elements", "values"} : NextItem(l, n) \in ACall
<1>1. \A c \in Seq(Instr) : Output(c) \in Emission /\ OutputAssignment(c) \in Emission
  BY DEF Output, OutputAssignment, Emission
<1>2. \A i, j \in Instr, b, c \in BOOLEAN : Assignable(i, j, b, c) \in ACall
  <2> SUFFICES ASSUME NEW i \in Instr, NEW j \in Instr, NEW b \in BOOLEAN, NEW c \in BOOLEAN
               PROVE  Assignable(i, j, b, c) \in ACall
    OBVIOUS
  <2>1. <<j>> \in Seq(Instr)
    OBVIOUS
  <2>2. (IF c THEN OutputAssignment(<<j>>) ELSE Output(<<j>>)) \in Emission
    BY <2>1, <1>1
  <2> QED  BY <2>2 DEF Assignable, ACall
<1> QED
  BY <1>1, <1>2 DEF Call, Parse, Expect, DeclareUntil, PatchJump, DefineVariable, NextItem, ACall, SimpleCalls

-----------------------------------------------------------------------------
(* The shape of the calls in progress: at which level of functions and in  *)
(* which scope each will begin, how much code there will be at least, and  *)
(* whether there are locals besides the function itself.                   *)

Mark == [lvl : Nat, scope : Nat, two : BOOLEAN, len : Nat]

(* What is marked at m holds of the compiler of that level.                *)
Below(cs, fs, m) ==
  /\ m.lvl \in 1..Len(cs)
  /\ LET c == cs[Len(cs) + 1 - m.lvl] IN
     /\ c.scope = m.scope
     /\ m.two => Len(c.locals) >= 2
     /\ m.len <= Len(fs[c.fn].code)

Steady(m, n) ==
  /\ n.lvl = m.lvl /\ n.scope = m.scope
  /\ n.two => m.two
  /\ n.len <= m.len

(* A call of one function that calls do not leave or enter a scope around. *)
Plain(t, m) ==
  /\ t.do \notin {"start", "program", "endScope", "endFunction"}
  /\ t.do = "defineVariable" => (m.scope > 0 => m.two)
  /\ t.do \in {"patchJump", "else"} => t.at \in 1..m.len

(* The calls that come to a statement, and to the end of its scope.        *)
Loud == {"declaration", "declareUntil", "statement", "then", "else"}

(* t begins at m, and what comes after it at n.                            *)
Shape(t, m, n) ==
  \/ Plain(t, m) /\ Steady(m, n) /\ (t.do \in Loud => ~n.two)
  \/ /\ t.do = "endScope"
     /\ n.lvl = m.lvl /\ m.scope = n.scope + 1 /\ n.len <= m.len /\ ~n.two
  \/ t.do = "endFunction" /\ n.lvl = m.lvl - 1 /\ n.lvl > 0 /\ m.scope = 1
  \/ t.do = "program" /\ m.lvl = 1 /\ m.scope = 0 /\ n.lvl = 0

Marks(ts, at, cs, fs) ==
  /\ at \in [1..Len(ts)+1 -> Mark]
  /\ \A k \in 1..Len(ts) :
       /\ Shape(ts[k], at[k], at[k + 1])
       /\ ts[k].do = "endFunction" => Below(cs, fs, at[k + 1])
  /\ \A i, j \in 1..Len(ts)+1 : i <= j => at[j].lvl <= at[i].lvl
  /\ at[Len(ts) + 1].lvl = 0

Shaped(ts, m, cs, fs) == \E at : Marks(ts, at, cs, fs) /\ at[1] = m

LEMMA ShapedFirst ==
  ASSUME NEW ts \in Seq(ACall), NEW m, NEW cs, NEW fs, Shaped(ts, m, cs, fs)
  PROVE  m \in Mark /\ (m.lvl > 0 => ts # <<>>)
<1>1. PICK at : Marks(ts, at, cs, fs) /\ at[1] = m
  BY DEF Shaped
<1>2. Len(ts) \in Nat
  OBVIOUS
<1> QED  BY <1>1, <1>2 DEF Marks

LEMMA ShapedRest ==
  ASSUME NEW ts \in Seq(ACall), ts # <<>>, NEW m, NEW cs, NEW fs, Shaped(ts, m, cs, fs)
  PROVE  \E n \in Mark : /\ Shape(ts[1], m, n) /\ n.lvl <= m.lvl
                         /\ ts[1].do = "endFunction" => Below(cs, fs, n)
                         /\ Shaped(Tail(ts), n, cs, fs)
<1>1. PICK at : Marks(ts, at, cs, fs) /\ at[1] = m
  BY DEF Shaped
<1> DEFINE rest == [k \in 1..Len(ts) |-> at[k + 1]]
<1>2. Len(ts) \in Nat \ {0} /\ Len(Tail(ts)) = Len(ts) - 1
      /\ \A k \in 1..Len(ts)-1 : Tail(ts)[k] = ts[k + 1]
  OBVIOUS
<1>3. at[2] \in Mark /\ Shape(ts[1], m, at[2]) /\ at[2].lvl <= m.lvl
      /\ (ts[1].do = "endFunction" => Below(cs, fs, at[2]))
  BY <1>1, <1>2 DEF Marks
<1>4. Marks(Tail(ts), rest, cs, fs)
  <2>1. rest \in [1..Len(Tail(ts))+1 -> Mark]
    BY <1>1, <1>2 DEF Marks
  <2>2. ASSUME NEW k \in 1..Len(Tail(ts))
        PROVE  /\ Shape(Tail(ts)[k], rest[k], rest[k + 1])
               /\ Tail(ts)[k].do = "endFunction" => Below(cs, fs, rest[k + 1])
    <3>1. k + 1 \in 1..Len(ts) /\ rest[k] = at[k + 1] /\ rest[k + 1] = at[(k + 1) + 1]
          /\ Tail(ts)[k] = ts[k + 1]
      BY <1>2
    <3> QED  BY <3>1, <1>1 DEF Marks
  <2>3. \A i, j \in 1..Len(Tail(ts))+1 : i <= j => rest[j].lvl <= rest[i].lvl
    BY <1>1, <1>2 DEF Marks
  <2>4. rest[Len(Tail(ts)) + 1].lvl = 0
    BY <1>1, <1>2 DEF Marks
  <2> QED  BY <2>1, <2>2, <2>3, <2>4 DEF Marks
<1>5. rest[1] = at[2]
  BY <1>2
<1> QED  BY <1>3, <1>4, <1>5 DEF Shaped

(* One more call in front.                                                 *)
LEMMA ShapedMore ==
  ASSUME NEW ts \in Seq(ACall), NEW t \in ACall, NEW m \in Mark, NEW n, NEW cs, NEW fs,
         Shaped(ts, n, cs, fs), Shape(t, m, n), n.lvl <= m.lvl,
         t.do = "endFunction" => Below(cs, fs, n)
  PROVE  Shaped(<<t>> \o ts, m, cs, fs)
<1>1. PICK at : Marks(ts, at, cs, fs) /\ at[1] = n
  BY DEF Shaped
<1> DEFINE us == <<t>> \o ts
           more == [k \in 1..Len(us)+1 |-> IF k = 1 THEN m ELSE at[k - 1]]
<1>2. Len(ts) \in Nat /\ Len(us) = Len(ts) + 1 /\ us[1] = t
      /\ \A k \in 2..Len(ts)+1 : us[k] = ts[k - 1]
  OBVIOUS
<1>3. more \in [1..Len(us)+1 -> Mark]
  BY <1>1, <1>2 DEF Marks
<1>4. ASSUME NEW k \in 1..Len(us)
      PROVE  /\ Shape(us[k], more[k], more[k + 1])
             /\ us[k].do = "endFunction" => Below(cs, fs, more[k + 1])
  <2>1. CASE k = 1
    BY <2>1, <1>1, <1>2
  <2>2. CASE k # 1
    <3>1. k - 1 \in 1..Len(ts) /\ more[k] = at[k - 1] /\ more[k + 1] = at[(k - 1) + 1]
          /\ us[k] = ts[k - 1]
      BY <2>2, <1>2
    <3> QED  BY <3>1, <1>1 DEF Marks
  <2> QED  BY <2>1, <2>2
<1>5. ASSUME NEW i \in 1..Len(us)+1, NEW j \in 1..Len(us)+1, i <= j
      PROVE  more[j].lvl <= more[i].lvl
  <2>1. ASSUME NEW k \in 1..Len(ts)+1 PROVE at[k].lvl <= n.lvl /\ at[k].lvl \in Nat
    <3>1. 1 \in 1..Len(ts)+1 /\ 1 <= k
      BY <1>2
    <3>2. at[k].lvl <= at[1].lvl /\ at[k] \in Mark
      BY <3>1, <1>1 DEF Marks
    <3> QED  BY <3>2, <1>1 DEF Mark
  <2>2. n.lvl \in Nat /\ m.lvl \in Nat
    BY <1>1, <1>2 DEF Mark, Marks
  <2>3. CASE i = 1
    <3>1. more[i] = m
      BY <2>3, <1>2
    <3>2. CASE j = 1
      BY <3>2, <2>3, <2>2, <3>1
    <3>3. CASE j # 1
      <4>1. more[j] = at[j - 1] /\ j - 1 \in 1..Len(ts)+1
        BY <3>3, <1>2
      <4> QED  BY <4>1, <3>1, <2>1, <2>2
    <3> QED  BY <3>2, <3>3
  <2>4. CASE i # 1
    <3>1. more[j] = at[j - 1] /\ more[i] = at[i - 1]
          /\ j - 1 \in 1..Len(ts)+1 /\ i - 1 \in 1..Len(ts)+1 /\ i - 1 <= j - 1
      BY <2>4, <1>2, <1>5
    <3> QED  BY <3>1, <1>1 DEF Marks
  <2> QED  BY <2>3, <2>4
<1>6. more[Len(us) + 1].lvl = 0 /\ more[1] = m
  BY <1>1, <1>2 DEF Marks
<1>7. Marks(us, more, cs, fs)
  BY <1>3, <1>4, <1>5, <1>6 DEF Marks
<1> QED  BY <1>6, <1>7 DEF Shaped

(* More may be known at the first mark.                                    *)
LEMMA ShapedFrom ==
  ASSUME NEW ts \in Seq(ACall), NEW m \in Mark, NEW n, NEW cs, NEW fs,
         Shaped(ts, n, cs, fs), Steady(m, n), n.lvl > 0
  PROVE  Shaped(ts, m, cs, fs)
<1>1. ts # <<>> /\ n \in Mark
  BY ShapedFirst
<1>2. PICK o \in Mark : /\ Shape(ts[1], n, o) /\ o.lvl <= n.lvl
                        /\ ts[1].do = "endFunction" => Below(cs, fs, o)
                        /\ Shaped(Tail(ts), o, cs, fs)
  BY <1>1, ShapedRest
<1>3. Shape(ts[1], m, o) /\ o.lvl <= m.lvl
  <2>1. ts[1] \in ACall
    BY <1>1
  <2>2. ts[1].do \in {"patchJump", "else"} => ts[1].at \in Nat
    BY <2>1, CallFields
  <2>3. CASE Plain(ts[1], n) /\ Steady(n, o) /\ (ts[1].do \in Loud => ~o.two)
    BY <1>1, <1>2, <2>2, <2>3 DEF Shape, Plain, Steady, Mark
  <2>4. CASE ~(Plain(ts[1], n) /\ Steady(n, o) /\ (ts[1].do \in Loud => ~o.two))
    BY <1>1, <1>2, <2>4 DEF Shape, Steady, Mark
  <2> QED  BY <2>3, <2>4
<1>4. ts[1] \in ACall /\ Tail(ts) \in Seq(ACall) /\ ts = <<ts[1]>> \o Tail(ts)
  BY <1>1
<1>5. Shaped(<<ts[1]>> \o Tail(ts), m, cs, fs)
  BY <1>2, <1>3, <1>4, ShapedMore
<1> QED  BY <1>4, <1>5

(* Calls that stay where they are, in front.                               *)
LEMMA ShapedCalls ==
  ASSUME NEW ts \in Seq(ACall), NEW calls \in Seq(ACall), NEW m \in Mark, NEW n, NEW cs, NEW fs,
         Shaped(ts, n, cs, fs), Steady(m, n), n.lvl > 0,
         \A k \in DOMAIN calls : Plain(calls[k], m) /\ (calls[k].do \in Loud => ~m.two)
  PROVE  Shaped(calls \o ts, m, cs, fs)
<1>1. PICK at : Marks(ts, at, cs, fs) /\ at[1] = m
  <2>1. Shaped(ts, m, cs, fs)
    BY ShapedFrom
  <2> QED  BY <2>1 DEF Shaped
<1> DEFINE us == calls \o ts
           c == Len(calls)
           more == [k \in 1..Len(us)+1 |-> IF k <= c THEN m ELSE at[k - c]]
<1>2. /\ c \in Nat /\ Len(ts) \in Nat /\ Len(us) = c + Len(ts)
      /\ \A k \in 1..c : us[k] = calls[k]
      /\ \A k \in c+1..c+Len(ts) : us[k] = ts[k - c]
      /\ DOMAIN calls = 1..c
  OBVIOUS
<1>3. more \in [1..Len(us)+1 -> Mark]
  BY <1>1, <1>2 DEF Marks
<1>4. ASSUME NEW k \in 1..Len(us)
      PROVE  /\ Shape(us[k], more[k], more[k + 1])
             /\ us[k].do = "endFunction" => Below(cs, fs, more[k + 1])
  <2>1. CASE k <= c
    <3>1. more[k] = m /\ more[k + 1] = m
      BY <2>1, <1>1, <1>2
    <3>2. Plain(us[k], m) /\ (us[k].do \in Loud => ~m.two)
      BY <2>1, <1>2
    <3>3. Steady(m, m)
      BY DEF Steady, Mark
    <3> QED  BY <3>1, <3>2, <3>3 DEF Shape, Plain
  <2>2. CASE ~(k <= c)
    <3>1. k - c \in 1..Len(ts) /\ more[k] = at[k - c] /\ more[k + 1] = at[(k - c) + 1]
          /\ us[k] = ts[k - c]
      BY <2>2, <1>2
    <3> QED  BY <3>1, <1>1 DEF Marks
  <2> QED  BY <2>1, <2>2
<1>5. ASSUME NEW i \in 1..Len(us)+1, NEW j \in 1..Len(us)+1, i <= j
      PROVE  more[j].lvl <= more[i].lvl
  <2>1. ASSUME NEW k \in 1..Len(ts)+1 PROVE at[k].lvl <= m.lvl
    <3>1. 1 \in 1..Len(ts)+1 /\ 1 <= k
      BY <1>2
    <3> QED  BY <3>1, <1>1 DEF Marks
  <2>2. m.lvl <= m.lvl
    BY DEF Mark
  <2>3. CASE i <= c
    <3>1. more[i] = m
      BY <2>3, <1>2
    <3>2. CASE j <= c
      BY <3>2, <2>2, <3>1, <1>2
    <3>3. CASE ~(j <= c)
      <4>1. more[j] = at[j - c] /\ j - c \in 1..Len(ts)+1
        BY <3>3, <1>2
      <4> QED  BY <4>1, <3>1, <2>1
    <3> QED  BY <3>2, <3>3
  <2>4. CASE ~(i <= c)
    <3>1. more[j] = at[j - c] /\ more[i] = at[i - c]
          /\ j - c \in 1..Len(ts)+1 /\ i - c \in 1..Len(ts)+1 /\ i - c <= j - c
      BY <2>4, <1>2, <1>5
    <3> QED  BY <3>1, <1>1 DEF Marks
  <2> QED  BY <2>3, <2>4
<1>6. more[Len(us) + 1].lvl = 0 /\ more[1] = m
  BY <1>1, <1>2 DEF Marks
<1>7. Marks(us, more, cs, fs)
  BY <1>3, <1>4, <1>5, <1>6 DEF Marks
<1> QED  BY <1>6, <1>7 DEF Shaped

(* What happens at a level does not concern the calls of lower ones, as    *)
(* long as code only grows.                                                *)
SameBelow(cs, ds, n) ==
  /\ n <= Len(cs) + 1 /\ n <= Len(ds) + 1
  /\ \A l \in 1..n-1 : ds[Len(ds) + 1 - l] = cs[Len(cs) + 1 - l]

Grown(fs, gs) ==
  /\ fs \in Seq(Fun) /\ gs \in Seq(Fun) /\ Len(fs) <= Len(gs)
  /\ \A f \in DOMAIN fs : Len(fs[f].code) <= Len(gs[f].code)

Compile(cs, fs) == cs \in Seq(Compiling) /\ \A i \in DOMAIN cs : cs[i].fn \in DOMAIN fs

LEMMA CodeGrown ==
  ASSUME NEW fs, NEW gs, Grown(fs, gs), NEW f \in DOMAIN fs
  PROVE  /\ Len(fs[f].code) \in Nat /\ Len(gs[f].code) \in Nat
         /\ Len(fs[f].code) <= Len(gs[f].code)
<1>1. f \in DOMAIN gs /\ fs[f] \in Fun /\ gs[f] \in Fun
  BY DEF Grown
<1>2. fs[f].code \in Seq(Instr) /\ gs[f].code \in Seq(Instr)
  BY <1>1 DEF Fun
<1> QED  BY <1>2 DEF Grown

LEMMA EndFunctionShape ==
  ASSUME NEW t, NEW m \in Mark, NEW n \in Mark, Shape(t, m, n), t.do = "endFunction"
  PROVE  n.lvl = m.lvl - 1 /\ n.lvl > 0 /\ m.scope = 1
BY DEF Shape, Plain, Mark

LEMMA BelowFrame ==
  ASSUME NEW cs, NEW fs, NEW ds \in Seq(Compiling), NEW gs, NEW m \in Mark, NEW n \in Nat, m.lvl < n,
         SameBelow(cs, ds, n), Compile(cs, fs), Grown(fs, gs), Below(cs, fs, m)
  PROVE  Below(ds, gs, m)
<1> DEFINE c == cs[Len(cs) + 1 - m.lvl]
<1>1. m.lvl \in 1..n-1 /\ m.lvl \in 1..Len(cs) /\ cs \in Seq(Compiling)
  BY DEF Below, Mark, Compile
<1>2. ds[Len(ds) + 1 - m.lvl] = c /\ n <= Len(ds) + 1
  BY <1>1 DEF SameBelow
<1>3. Len(cs) + 1 - m.lvl \in DOMAIN cs
  BY <1>1
<1>4. c \in Compiling /\ c.fn \in DOMAIN fs
  BY <1>3, <1>1 DEF Compile
<1>5. c.scope = m.scope /\ (m.two => Len(c.locals) >= 2) /\ m.len <= Len(fs[c.fn].code)
  BY DEF Below
<1>6. m.lvl \in 1..Len(ds)
  BY <1>1, <1>2
<1> HIDE DEF c
<1>7. Len(fs[c.fn].code) <= Len(gs[c.fn].code)
      /\ Len(fs[c.fn].code) \in Nat /\ Len(gs[c.fn].code) \in Nat
  BY <1>4, CodeGrown
<1>8. m.len <= Len(gs[c.fn].code)
  <2>1. m.len \in Nat
    BY DEF Mark
  <2> QED  BY <1>5, <1>7, <2>1
<1> QED  BY <1>2, <1>5, <1>6, <1>8 DEF Below

LEMMA ShapedFrame ==
  ASSUME NEW ts \in Seq(ACall), NEW m, NEW cs, NEW fs, NEW ds \in Seq(Compiling), NEW gs,
         Shaped(ts, m, cs, fs), SameBelow(cs, ds, m.lvl), Compile(cs, fs), Grown(fs, gs)
  PROVE  Shaped(ts, m, ds, gs)
<1>1. PICK at : Marks(ts, at, cs, fs) /\ at[1] = m
  BY DEF Shaped
<1>2. Len(ts) \in Nat
  OBVIOUS
<1>3. ASSUME NEW k \in 1..Len(ts), ts[k].do = "endFunction"
      PROVE  Below(ds, gs, at[k + 1])
  <2>1. 1 \in 1..Len(ts)+1 /\ k \in 1..Len(ts)+1 /\ k + 1 \in 1..Len(ts)+1 /\ 1 <= k
    BY <1>2
  <2>2. /\ Below(cs, fs, at[k + 1]) /\ Shape(ts[k], at[k], at[k + 1])
        /\ at[k] \in Mark /\ at[k + 1] \in Mark /\ at[k].lvl <= m.lvl /\ m \in Mark
    BY <2>1, <1>1, <1>3 DEF Marks
  <2>3. at[k + 1].lvl = at[k].lvl - 1
    BY <2>2, <1>3, EndFunctionShape
  <2>4. at[k + 1].lvl < m.lvl /\ m.lvl \in Nat
    BY <2>2, <2>3, SMTT(30) DEF Mark
  <2> QED  BY <2>2, <2>4, BelowFrame
<1>4. Marks(ts, at, ds, gs)
  <2>1. Marks(ts, at, cs, fs)
    BY <1>1
  <2> QED  BY <2>1, <1>3 DEF Marks
<1> QED  BY <1>1, <1>4 DEF Shaped

-----------------------------------------------------------------------------
(* The text.                                                               *)

InputOK ==
  /\ input \in Programs
  /\ pos \in 0..Len(input)
  /\ pos > 0 => input[pos].type # "ERROR"
  /\ prev \in {input[i] : i \in 1..pos} \cup Garbage
  /\ hadError \in BOOLEAN /\ panicMode \in BOOLEAN /\ (panicMode => hadError)
  /\ status \in {"compiling", "done", "crashed"}

LEMMA ProgramTokens ==
  ASSUME NEW p \in Programs
  PROVE  /\ Len(p) \in Nat \ {0} /\ p \in Seq(Token)
         /\ \A i \in 1..Len(p) : /\ p[i].type = "EOF" <=> i = Len(p)
                                 /\ p[i].text \in STRING /\ p[i].line \in Nat
<1>1. /\ p \in Seq(Token)
      /\ p # <<>> /\ \A i \in DOMAIN p : p[i].type = "EOF" <=> i = Len(p)
  BY CompilerAssumption DEF Token
<1>2. Len(p) \in Nat \ {0} /\ DOMAIN p = 1..Len(p)
  BY <1>1
<1>3. \A i \in 1..Len(p) : p[i] \in Token
  BY <1>1, <1>2
<1>4. \A i \in 1..Len(p) : p[i].text \in STRING /\ p[i].line \in Nat
  BY <1>3, SMTT(30) DEF Token
<1>5. \A i \in 1..Len(p) : p[i].type = "EOF" <=> i = Len(p)
  BY <1>1, <1>2
<1> QED  BY <1>1, <1>2, <1>4, <1>5, Zenon

LEMMA NextPosOK ==
  ASSUME InputOK
  PROVE  /\ NextPos \in 1..Len(input) /\ pos <= NextPos
         /\ input[NextPos].type # "ERROR"
         /\ pos < Len(input) => pos < NextPos
         /\ \A q \in pos+1..NextPos-1 : input[q].type = "ERROR"
<1> DEFINE n == Len(input)
           later == {q \in pos+1..n : input[q].type # "ERROR"}
<1>1. n \in Nat \ {0} /\ pos \in 0..n /\ input[n].type = "EOF"
  BY ProgramTokens DEF InputOK
<1>2. CASE later = {}
  <2>1. NextPos = n
    BY <1>2 DEF NextPos
  <2>2. pos = n
    BY <1>1, <1>2
  <2> QED  BY <1>1, <2>1, <2>2
<1>3. CASE later # {}
  <2>1. NextPos = Least(later)
    BY <1>3 DEF NextPos
  <2>2. later \in SUBSET Nat
    BY <1>1
  <2> HIDE DEF later
  <2>3. Least(later) \in later /\ \A e \in later : Least(later) <= e
    BY <2>2, <1>3, LeastIsLeast
  <2> USE DEF later
  <2>4. NextPos \in pos+1..n /\ input[NextPos].type # "ERROR"
    BY <2>1, <2>3
  <2>5. ASSUME NEW q \in pos+1..NextPos-1 PROVE input[q].type = "ERROR"
    <3>1. q \in pos+1..n /\ ~(NextPos <= q)
      BY <2>4, <1>1
    <3> QED  BY <3>1, <2>1, <2>3
  <2> QED  BY <1>1, <2>4, <2>5
<1> QED  BY <1>2, <1>3

LEMMA PrevKept ==
  ASSUME InputOK, input' = input, prev' = prev, pos' \in Nat, pos <= pos'
  PROVE  prev' \in {input'[i] : i \in 1..pos'} \cup Garbage
<1>1. pos \in Nat /\ 1..pos \subseteq 1..pos'
  BY ProgramTokens DEF InputOK
<1> QED  BY <1>1 DEF InputOK

LEMMA ErrorsOK ==
  ASSUME InputOK, NEW failed, Errors(failed)
  PROVE  hadError' \in BOOLEAN /\ panicMode' \in BOOLEAN /\ (panicMode' => hadError')
BY DEF InputOK, Errors, errors

LEMMA AdvanceOK ==
  ASSUME InputOK, input' = input, pos > 0, NEW failed, Advance(failed) \/ AdvanceAfter(failed)
  PROVE  InputOK' /\ pos' > 0
<1>1. pos' = NextPos /\ prev' = input[pos]
  BY DEF Advance, AdvanceAfter, Current
<1>2. hadError' \in BOOLEAN /\ panicMode' \in BOOLEAN /\ (panicMode' => hadError')
  BY ErrorsOK DEF Advance, AdvanceAfter
<1>3. status' \in {"compiling", "done", "crashed"}
  BY DEF Advance, AdvanceAfter, Report
<1>4. pos' \in 1..Len(input) /\ pos <= pos' /\ input[pos'].type # "ERROR"
  BY <1>1, NextPosOK
<1>5. prev' \in {input'[i] : i \in 1..pos'}
  BY <1>1, <1>4, ProgramTokens DEF InputOK
<1> QED  BY <1>2, <1>3, <1>4, <1>5, ProgramTokens DEF InputOK

LEMMA StayOK ==
  ASSUME InputOK, input' = input, pos > 0, NEW failed, Stay(failed)
  PROVE  InputOK' /\ pos' > 0
<1>1. pos' = pos /\ prev' = prev /\ status' = status
  BY DEF Stay
<1>2. hadError' \in BOOLEAN /\ panicMode' \in BOOLEAN /\ (panicMode' => hadError')
  BY ErrorsOK DEF Stay
<1> QED  BY <1>1, <1>2 DEF InputOK

LEMMA MatchOK ==
  ASSUME InputOK, input' = input, pos > 0, NEW types, Match(types) \/ Consume(types)
  PROVE  InputOK' /\ pos' > 0
BY AdvanceOK, StayOK DEF Match, Consume

-----------------------------------------------------------------------------
(* The compilers and the functions, and the invariant.                     *)

ConstsOK(f, fs) ==
  \A i \in DOMAIN f.consts : f.consts[i].type = "fun" => f.consts[i].v \in 1..Len(fs)

Enclosing(cs) ==
  /\ \A i \in DOMAIN cs :
       /\ cs[i].type = IF i = Len(cs) THEN "script" ELSE "function"
       /\ Len(cs[i].locals) \in 1..Byte
       /\ cs[i].locals[1].depth = 0
  /\ \A i, j \in DOMAIN cs : i < j => cs[j].fn < cs[i].fn
  /\ cs[Len(cs)].fn = 1

CompilersOK(cs, fs) ==
  /\ Compile(cs, fs) /\ cs # <<>> /\ Enclosing(cs)
  /\ fs \in Seq(Fun) /\ \A f \in DOMAIN fs : ConstsOK(fs[f], fs)

ShapeInv ==
  /\ InputOK /\ tasks \in Seq(ACall) /\ CompilersOK(compilers, functions)
  /\ pos = 0 => /\ tasks = <<Call("start")>> /\ compilers = <<NewCompiler(1, "script", 0)>>
                /\ functions = <<NewFunction>> /\ ~hadError /\ ~panicMode
  /\ (pos > 0 /\ status = "compiling")
     => \E m \in Mark : /\ m.lvl = Len(compilers) /\ Below(compilers, functions, m)
                        /\ Shaped(tasks, m, compilers, functions)

(* The innermost compiler and its function.                                *)
LEMMA CompOK ==
  ASSUME CompilersOK(compilers, functions)
  PROVE  /\ Comp \in Compiling /\ Comp = compilers[1] /\ Comp.fn \in 1..Len(functions)
         /\ Comp.type \in {"script", "function"} /\ Scope \in Nat
         /\ Locals \in Seq(Local) /\ Len(Locals) \in 1..Byte /\ Locals[1].depth = 0
         /\ Chunk \in Fun /\ Chunk.code \in Seq(Instr) /\ Chunk.consts \in Seq(Kept)
         /\ Chunk.arity \in Nat /\ Len(Chunk.code) \in Nat
         /\ ConstsOK(Chunk, functions)
<1>1. /\ compilers \in Seq(Compiling) /\ compilers # <<>> /\ functions \in Seq(Fun)
      /\ \A i \in DOMAIN compilers : compilers[i].fn \in DOMAIN functions
  BY DEF CompilersOK, Compile
<1>2. 1 \in DOMAIN compilers /\ Comp = compilers[1] /\ compilers[1] \in Compiling
  BY <1>1 DEF Comp
<1>3. Comp.fn \in DOMAIN functions /\ DOMAIN functions = 1..Len(functions)
  BY <1>1, <1>2
<1>4. Len(Locals) \in 1..Byte /\ Locals[1].depth = 0
  BY <1>2 DEF CompilersOK, Enclosing, Locals
<1>5. /\ Comp.type \in {"script", "function"} /\ Scope \in Nat /\ Locals \in Seq(Local)
  BY <1>2 DEF Compiling, Scope, Locals
<1>6. Chunk \in Fun
  BY <1>1, <1>3 DEF Chunk
<1>7. Chunk.code \in Seq(Instr) /\ Chunk.consts \in Seq(Kept) /\ Chunk.arity \in Nat
  BY <1>6 DEF Fun
<1>8. ConstsOK(Chunk, functions)
  BY <1>3 DEF CompilersOK, Chunk
<1>9. Len(Chunk.code) \in Nat
  BY <1>7
<1> QED  BY <1>2, <1>3, <1>4, <1>5, <1>6, <1>7, <1>8, <1>9

(* Another state of the innermost compiler and another text of its code.   *)
Next1(cs, c) == <<c>> \o Tail(cs)
Replaced(fs, g, f) == [fs EXCEPT ![g] = f]

LEMMA Next1Is ==
  ASSUME NEW cs \in Seq(Compiling), cs # <<>>, NEW c \in Compiling
  PROVE  /\ Next1(cs, c) \in Seq(Compiling) /\ Next1(cs, c) # <<>>
         /\ Len(Next1(cs, c)) = Len(cs) /\ Len(cs) \in Nat \ {0}
         /\ DOMAIN cs = 1..Len(cs) /\ DOMAIN Next1(cs, c) = 1..Len(cs)
         /\ Next1(cs, c)[1] = c
         /\ \A i \in 2..Len(cs) : Next1(cs, c)[i] = cs[i]
BY DEF Next1

LEMMA EnclosingKept ==
  ASSUME NEW cs \in Seq(Compiling), cs # <<>>, Enclosing(cs),
         NEW c \in Compiling, c.fn = cs[1].fn, c.type = cs[1].type,
         Len(c.locals) \in 1..Byte, c.locals[1].depth = 0
  PROVE  Enclosing(Next1(cs, c))
<1> DEFINE ds == Next1(cs, c)
<1>1. /\ Len(ds) = Len(cs) /\ Len(cs) \in Nat \ {0}
      /\ DOMAIN cs = 1..Len(cs) /\ DOMAIN ds = 1..Len(cs)
      /\ ds[1] = c /\ \A i \in 2..Len(cs) : ds[i] = cs[i]
  BY Next1Is
<1> HIDE DEF ds
<1>2. \A i \in DOMAIN cs : ds[i].fn = cs[i].fn /\ ds[i].type = cs[i].type
  BY <1>1
<1>3. \A i \in DOMAIN cs : Len(ds[i].locals) \in 1..Byte /\ ds[i].locals[1].depth = 0
  BY <1>1 DEF Enclosing
<1> QED  BY <1>1, <1>2, <1>3 DEF Enclosing, ds

LEMMA FunctionsKept ==
  ASSUME NEW fs \in Seq(Fun), NEW g \in DOMAIN fs, NEW f \in Fun,
         Len(fs[g].code) <= Len(f.code), ConstsOK(f, fs),
         \A h \in DOMAIN fs : ConstsOK(fs[h], fs)
  PROVE  LET gs == Replaced(fs, g, f) IN
         /\ gs \in Seq(Fun) /\ Len(gs) = Len(fs) /\ gs[g] = f
         /\ Grown(fs, gs) /\ \A h \in DOMAIN gs : ConstsOK(gs[h], gs)
<1> DEFINE gs == Replaced(fs, g, f)
<1>1. /\ gs \in Seq(Fun) /\ Len(gs) = Len(fs) /\ DOMAIN gs = DOMAIN fs /\ gs[g] = f
      /\ \A h \in DOMAIN fs : h # g => gs[h] = fs[h]
  BY DEF Replaced
<1> HIDE DEF gs
<1>2. \A h : ConstsOK(h, fs) => ConstsOK(h, gs)
  BY <1>1 DEF ConstsOK
<1>3. ASSUME NEW h \in DOMAIN gs PROVE ConstsOK(gs[h], gs)
  BY <1>1, <1>2
<1>4. ASSUME NEW h \in DOMAIN fs PROVE Len(fs[h].code) <= Len(gs[h].code)
  <2>1. CASE h = g
    BY <2>1, <1>1
  <2>2. CASE h # g
    <3>1. fs[h] \in Fun /\ gs[h] = fs[h]
      BY <1>1, <2>2
    <3>2. fs[h].code \in Seq(Instr)
      BY <3>1 DEF Fun
    <3> QED  BY <3>1, <3>2
  <2> QED  BY <2>1, <2>2
<1>5. Grown(fs, gs)
  BY <1>1, <1>4 DEF Grown
<1> QED  BY <1>1, <1>3, <1>5 DEF gs

LEMMA CompilersKept ==
  ASSUME NEW cs, NEW fs, CompilersOK(cs, fs),
         NEW c \in Compiling, c.fn = cs[1].fn, c.type = cs[1].type,
         Len(c.locals) \in 1..Byte, c.locals[1].depth = 0,
         NEW f \in Fun, Len(fs[c.fn].code) <= Len(f.code), ConstsOK(f, fs),
         NEW ds, ds = Next1(cs, c), NEW gs, gs = Replaced(fs, cs[1].fn, f)
  PROVE  /\ CompilersOK(ds, gs) /\ Len(ds) = Len(cs) /\ ds[1] = c
         /\ SameBelow(cs, ds, Len(cs)) /\ Grown(fs, gs) /\ Len(gs) = Len(fs) /\ gs[c.fn] = f
<1>1. /\ cs \in Seq(Compiling) /\ cs # <<>> /\ fs \in Seq(Fun) /\ Enclosing(cs)
      /\ \A i \in DOMAIN cs : cs[i].fn \in DOMAIN fs
      /\ \A h \in DOMAIN fs : ConstsOK(fs[h], fs)
  BY DEF CompilersOK, Compile
<1>2. /\ ds \in Seq(Compiling) /\ Len(ds) = Len(cs) /\ ds # <<>> /\ ds[1] = c
      /\ Len(cs) \in Nat \ {0} /\ DOMAIN cs = 1..Len(cs) /\ DOMAIN ds = 1..Len(cs)
      /\ \A i \in 2..Len(cs) : ds[i] = cs[i]
  BY <1>1, Next1Is
<1>3. c.fn \in DOMAIN fs /\ gs = Replaced(fs, c.fn, f)
  BY <1>1, <1>2
<1>4. /\ gs \in Seq(Fun) /\ Len(gs) = Len(fs) /\ gs[c.fn] = f /\ Grown(fs, gs)
      /\ \A h \in DOMAIN gs : ConstsOK(gs[h], gs)
  BY <1>1, <1>3, FunctionsKept
<1>5. DOMAIN gs = DOMAIN fs
  BY <1>1, <1>4
<1>6. Compile(ds, gs)
  BY <1>1, <1>2, <1>5 DEF Compile
<1>7. Enclosing(ds)
  BY <1>1, EnclosingKept
<1>8. SameBelow(cs, ds, Len(cs))
  BY <1>2 DEF SameBelow
<1> QED  BY <1>2, <1>4, <1>6, <1>7, <1>8 DEF CompilersOK

-----------------------------------------------------------------------------
(* The invariant is kept by every step: first the steps that stay in their *)
(* function and scope, which are all but five.                             *)

(* What can be said at the moment of a compiler c and its code f.          *)
Exact(c, f, l) ==
  [lvl |-> l, scope |-> c.scope, two |-> Len(c.locals) >= 2 /\ Task.do \notin Loud,
   len |-> Len(f.code)]

LEMMA ExactIs ==
  ASSUME NEW c \in Compiling, NEW f \in Fun, NEW l \in Nat
  PROVE  /\ Exact(c, f, l) \in Mark /\ Exact(c, f, l).lvl = l
         /\ Exact(c, f, l).scope = c.scope
         /\ Exact(c, f, l).two <=> Len(c.locals) >= 2 /\ Task.do \notin Loud
         /\ Exact(c, f, l).len = Len(f.code)
<1>1. c.scope \in Nat /\ c.locals \in Seq(Local) /\ f.code \in Seq(Instr)
  BY DEF Compiling, Fun
<1>2. Len(f.code) \in Nat
  BY <1>1
<1> DEFINE b == Len(c.locals) >= 2 /\ Task.do \notin Loud
<1>3. b \in BOOLEAN
  OBVIOUS
<1> HIDE DEF b
<1>4. [lvl |-> l, scope |-> c.scope, two |-> b, len |-> Len(f.code)] \in Mark
  BY <1>1, <1>2, <1>3 DEF Mark
<1> USE DEF b
<1> QED  BY <1>4 DEF Exact

LEMMA ExactBelow ==
  ASSUME NEW cs \in Seq(Compiling), cs # <<>>, NEW fs
  PROVE  LET m == Exact(cs[1], fs[cs[1].fn], Len(cs)) IN
         Below(cs, fs, m) <=> Len(fs[cs[1].fn].code) <= Len(fs[cs[1].fn].code)
<1>1. Len(cs) \in 1..Len(cs) /\ Len(cs) + 1 - Len(cs) = 1
  OBVIOUS
<1> QED  BY <1>1 DEF Exact, Below

(* The innermost call, and what the invariant says of it.                  *)
LEMMA ShapeNow ==
  ASSUME ShapeInv, status = "compiling", pos > 0
  PROVE  /\ tasks # <<>> /\ Task = tasks[1] /\ Task \in ACall /\ Tail(tasks) \in Seq(ACall)
         /\ \E m, n \in Mark :
              /\ m.lvl = Len(compilers) /\ m.lvl > 0 /\ m.scope = Scope
              /\ m.two => Len(Locals) >= 2
              /\ m.len <= Len(Chunk.code)
              /\ Shape(Task, m, n) /\ n.lvl <= m.lvl
              /\ Task.do = "endFunction" => Below(compilers, functions, n)
              /\ Shaped(Tail(tasks), n, compilers, functions)
<1>1. PICK m \in Mark : /\ m.lvl = Len(compilers) /\ Below(compilers, functions, m)
                        /\ Shaped(tasks, m, compilers, functions)
  BY DEF ShapeInv
<1>2. tasks \in Seq(ACall) /\ compilers \in Seq(Compiling) /\ compilers # <<>>
  BY DEF ShapeInv, CompilersOK, Compile
<1>3. m.lvl > 0
  BY <1>1 DEF Below
<1>4. tasks # <<>>
  BY <1>1, <1>2, <1>3, ShapedFirst
<1>5. Task = tasks[1] /\ Task \in ACall /\ Tail(tasks) \in Seq(ACall)
  BY <1>2, <1>4 DEF Task
<1>6. \E n \in Mark : /\ Shape(Task, m, n) /\ n.lvl <= m.lvl
                      /\ Task.do = "endFunction" => Below(compilers, functions, n)
                      /\ Shaped(Tail(tasks), n, compilers, functions)
  BY <1>1, <1>2, <1>4, <1>5, ShapedRest
<1>7. Len(compilers) + 1 - m.lvl = 1 /\ Comp = compilers[1]
  BY <1>1, <1>2 DEF Comp
<1>8. m.scope = Scope /\ (m.two => Len(Locals) >= 2) /\ m.len <= Len(Chunk.code)
  BY <1>1, <1>7 DEF Below, Scope, Locals, Chunk
<1> QED  BY <1>1, <1>3, <1>4, <1>5, <1>6, <1>8

Inner == {"endScope", "endFunction", "program", "start"}

(* Calls that can be made at the mark m.                                   *)
Placed(calls, m) ==
  \A k \in DOMAIN calls : Plain(calls[k], m) /\ (calls[k].do \in Loud => Task.do \in Loud)

(* Calls made by a call that stays in its function and scope.              *)
LEMMA ShapeStay ==
  ASSUME ShapeInv, status = "compiling", pos > 0, Task.do \notin Inner,
         NEW c \in Compiling, c.fn = Comp.fn, c.type = Comp.type, c.scope = Scope,
         Len(Locals) <= Len(c.locals), Len(c.locals) <= Byte, c.locals[1].depth = 0,
         NEW f \in Fun, Len(Chunk.code) <= Len(f.code),
         ConstsOK(f, functions),
         NEW calls \in Seq(ACall),
         Placed(calls, Exact(c, f, Len(compilers))),
         SetCompiler(c), SetChunk(f), Continue(calls), InputOK', pos' > 0
  PROVE  ShapeInv'
<1>1. PICK m \in Mark, n \in Mark :
              /\ m.lvl = Len(compilers) /\ m.lvl > 0 /\ m.scope = Scope
              /\ m.two => Len(Locals) >= 2
              /\ m.len <= Len(Chunk.code)
              /\ Shape(Task, m, n) /\ n.lvl <= m.lvl
              /\ Shaped(Tail(tasks), n, compilers, functions)
  BY ShapeNow
<1>2. CompilersOK(compilers, functions) /\ Tail(tasks) \in Seq(ACall)
  BY ShapeNow DEF ShapeInv
<1>3. /\ Len(Locals) \in Nat /\ Len(Chunk.code) \in Nat /\ Comp = compilers[1]
      /\ Len(c.locals) \in 1..Byte
  <2>1. Len(Locals) \in 1..Byte /\ Len(Chunk.code) \in Nat /\ Comp = compilers[1]
    BY <1>2, CompOK
  <2>2. Len(c.locals) \in Nat
    BY DEF Compiling
  <2> QED  BY <2>1, <2>2, CompilerAssumption
<1>4. compilers' = Next1(compilers, c) /\ functions' = Replaced(functions, compilers[1].fn, f)
  BY <1>3 DEF SetCompiler, SetChunk, Next1, Replaced
<1>5. /\ CompilersOK(compilers', functions') /\ Len(compilers') = Len(compilers)
      /\ SameBelow(compilers, compilers', Len(compilers)) /\ Grown(functions, functions')
      /\ functions'[c.fn] = f /\ compilers'[1] = c
  <2>1. c.fn = compilers[1].fn /\ c.type = compilers[1].type
        /\ Len(functions[c.fn].code) <= Len(f.code)
    BY <1>3 DEF Chunk
  <2>2. compilers' = Next1(compilers, c) /\ functions' = Replaced(functions, compilers[1].fn, f)
    BY <1>4
  <2>3. Len(c.locals) \in 1..Byte /\ CompilersOK(compilers, functions)
    BY <1>2, <1>3
  <2> QED  BY <2>1, <2>2, <2>3, CompilersKept
<1> DEFINE e == Exact(c, f, Len(compilers))
<1>6. compilers \in Seq(Compiling) /\ compilers' \in Seq(Compiling) /\ compilers' # <<>>
      /\ Compile(compilers, functions) /\ Len(compilers) \in Nat
  BY <1>2, <1>5 DEF CompilersOK, Compile
<1>7. /\ e \in Mark /\ e.lvl = Len(compilers) /\ e.scope = Scope
      /\ (e.two <=> Len(c.locals) >= 2 /\ Task.do \notin Loud) /\ e.len = Len(f.code)
  BY <1>6, ExactIs
<1> HIDE DEF e
<1>8. Steady(m, n) /\ (Task.do \in Loud => ~n.two)
  BY <1>1 DEF Shape, Inner
<1>9. Steady(e, n) /\ n.lvl = Len(compilers)
  BY <1>1, <1>3, <1>7, <1>8 DEF Steady, Mark
<1>10. Shaped(Tail(tasks), n, compilers', functions')
  BY <1>1, <1>2, <1>5, <1>6, <1>9, ShapedFrame
<1>11. Shaped(tasks', e, compilers', functions')
  <2>1. tasks' = calls \o Tail(tasks)
    BY DEF Continue
  <2>2. \A k \in DOMAIN calls : Plain(calls[k], e) /\ (calls[k].do \in Loud => ~e.two)
    BY <1>7 DEF e, Placed
  <2> QED  BY <1>1, <1>2, <1>7, <1>9, <1>10, <2>1, <2>2, ShapedCalls
<1>12. Below(compilers', functions', e)
  <2>1. e = Exact(compilers'[1], functions'[compilers'[1].fn], Len(compilers'))
    BY <1>5 DEF e
  <2>2. Len(f.code) <= Len(f.code)
    BY <1>7 DEF Mark
  <2> QED  BY <1>5, <1>6, <2>1, <2>2, ExactBelow
<1>13. tasks' \in Seq(ACall)
  BY <1>2 DEF Continue
<1> QED  BY <1>5, <1>7, <1>11, <1>12, <1>13 DEF ShapeInv

(* A call that needs nothing to be marked.                                 *)
Easy(t) ==
  /\ t.do \notin Inner \cup {"defineVariable", "patchJump", "else"}
  /\ t.do \in Loud => Task.do \in Loud

LEMMA EasyPlain ==
  ASSUME NEW t, NEW m, Easy(t) PROVE Plain(t, m)
BY DEF Easy, Plain, Inner

LEMMA Unchanged1 ==
  ASSUME CompilersOK(compilers, functions)
  PROVE  /\ compilers' = compilers => SetCompiler(Comp)
         /\ functions' = functions => SetChunk(Chunk)
<1>1. /\ compilers \in Seq(Compiling) /\ compilers # <<>> /\ functions \in Seq(Fun)
      /\ \A i \in DOMAIN compilers : compilers[i].fn \in DOMAIN functions
  BY DEF CompilersOK, Compile
<1>2. compilers = <<Comp>> \o Tail(compilers)
  BY <1>1 DEF Comp
<1>3. functions = [functions EXCEPT ![Comp.fn] = Chunk]
  BY <1>1, CompOK DEF Chunk
<1> QED  BY <1>2, <1>3 DEF SetCompiler, SetChunk

LEMMA Begun ==
  ASSUME ShapeInv, status = "compiling", Task.do # "start" PROVE pos > 0
<1>1. CASE pos = 0
  BY <1>1 DEF ShapeInv, Task, Call
<1>2. pos \in Nat
  BY ProgramTokens DEF ShapeInv, InputOK
<1> QED  BY <1>1, <1>2

(* A step that emits nothing.                                              *)
LEMMA ShapeCalls ==
  ASSUME ShapeInv, status = "compiling", Task.do \notin Inner,
         UNCHANGED <<compilers, functions>>,
         NEW calls \in Seq(ACall), \A k \in DOMAIN calls : Easy(calls[k]),
         Continue(calls), InputOK', pos' > 0
  PROVE  ShapeInv'
<1>1. CompilersOK(compilers, functions) /\ pos > 0
  BY Begun DEF ShapeInv, Inner
<1>2. /\ Comp \in Compiling /\ Len(Locals) <= Len(Comp.locals) /\ Len(Comp.locals) <= Byte
      /\ Comp.locals[1].depth = 0 /\ Comp.scope = Scope
      /\ Chunk \in Fun /\ Len(Chunk.code) <= Len(Chunk.code) /\ ConstsOK(Chunk, functions)
  BY <1>1, CompOK, CompilerAssumption DEF Locals, Scope
<1>3. SetCompiler(Comp) /\ SetChunk(Chunk)
  BY <1>1, Unchanged1
<1>4. Placed(calls, Exact(Comp, Chunk, Len(compilers)))
  BY EasyPlain DEF Easy, Placed
<1> QED  BY <1>1, <1>2, <1>3, <1>4, ShapeStay

(* A step that changes the function that is compiled and its code.         *)
LEMMA ShapeCode ==
  ASSUME ShapeInv, status = "compiling", Task.do \notin Inner,
         UNCHANGED compilers,
         NEW f \in Fun, Len(Chunk.code) <= Len(f.code), ConstsOK(f, functions), SetChunk(f),
         NEW calls \in Seq(ACall),
         \A k \in DOMAIN calls :
           \/ Easy(calls[k])
           \/ /\ calls[k].do \in {"patchJump", "else"} /\ calls[k].at \in 1..Len(f.code)
              /\ calls[k].do = "else" => Task.do \in Loud,
         Continue(calls), InputOK', pos' > 0
  PROVE  ShapeInv'
<1>1. CompilersOK(compilers, functions) /\ pos > 0
  BY Begun DEF ShapeInv, Inner
<1>2. /\ Comp \in Compiling /\ Len(Locals) <= Len(Comp.locals) /\ Len(Comp.locals) <= Byte
      /\ Comp.locals[1].depth = 0 /\ Comp.scope = Scope
  BY <1>1, CompOK, CompilerAssumption DEF Locals, Scope
<1>3. SetCompiler(Comp)
  BY <1>1, Unchanged1
<1>4. ASSUME NEW k \in DOMAIN calls
      PROVE  /\ Plain(calls[k], Exact(Comp, f, Len(compilers)))
             /\ calls[k].do \in Loud => Task.do \in Loud
  <2>1. Len(compilers) \in Nat
    BY <1>1 DEF CompilersOK, Compile
  <2>2. Exact(Comp, f, Len(compilers)).len = Len(f.code)
    BY <1>2, <2>1, ExactIs
  <2>3. CASE Easy(calls[k])
    BY <2>3, EasyPlain DEF Easy
  <2>4. CASE /\ calls[k].do \in {"patchJump", "else"} /\ calls[k].at \in 1..Len(f.code)
             /\ calls[k].do = "else" => Task.do \in Loud
    BY <2>4, <2>2 DEF Plain, Loud
  <2> QED  BY <2>3, <2>4
<1>5. Placed(calls, Exact(Comp, f, Len(compilers)))
  BY <1>4 DEF Placed
<1> QED  BY <1>1, <1>2, <1>3, <1>5, ShapeStay

-----------------------------------------------------------------------------
(* Tokens and constants.                                                   *)

LEMMA TokenTexts ==
  ASSUME InputOK, pos > 0
  PROVE  /\ Current.text \in Text /\ prev.text \in Text /\ Name \in Text
         /\ (IF Is({"IDENTIFIER"}) THEN Current.text ELSE prev.text) \in Text
<1>1. \A i \in 1..Len(input) : input[i].text \in STRING
  BY ProgramTokens DEF InputOK
<1>2. pos \in 1..Len(input) /\ Len(input) \in Nat
  BY ProgramTokens DEF InputOK
<1>3. Current.text \in STRING
  BY <1>1, <1>2 DEF Current
<1>4. prev.text \in Text
  <2>1. CASE prev \in {input[i] : i \in 1..pos}
    <3>1. PICK i \in 1..pos : prev = input[i]
      BY <2>1
    <3>2. i \in 1..Len(input)
      BY <1>2
    <3> QED  BY <1>1, <3>1, <3>2 DEF Text
  <2>2. CASE prev \in Garbage
    BY <2>2 DEF Text, Garbage
  <2> QED  BY <2>1, <2>2 DEF InputOK
<1> QED  BY <1>3, <1>4 DEF Text, Name

LEMMA IdentifierOK ==
  ASSUME NEW s \in Text
  PROVE  Identifier(s) \in Kept /\ Identifier(s).type = "str"
<1>1. \A n \in DOMAIN Lower : Lower[n] \in STRING
  BY CompilerAssumption
<1> QED  BY <1>1 DEF Identifier, Val, Kept, Text

(* makeConstant adds at most the constant.                                 *)
LEMMA WithConstantOK ==
  ASSUME CompilersOK(compilers, functions), NEW v \in Kept, v.type # "fun"
  PROVE  /\ WithConstant(v) \in Fun /\ ConstsOK(WithConstant(v), functions)
         /\ WithConstant(v).code = Chunk.code /\ WithConstant(v).arity = Chunk.arity
         /\ Index(v) \in 0..Len(Chunk.consts) /\ Operand(v) \in Nat
         /\ Index(v) + 1 \in DOMAIN WithConstant(v).consts
         /\ WithConstant(v).consts[Index(v) + 1] = v
         /\ \A i \in DOMAIN Chunk.consts :
              i \in DOMAIN WithConstant(v).consts /\ WithConstant(v).consts[i] = Chunk.consts[i]
<1> DEFINE cs == Chunk.consts
           same == {i \in DOMAIN cs : cs[i] = v}
           new == IF Index(v) = Len(cs) THEN Append(cs, v) ELSE cs
<1>1. Chunk \in Fun /\ cs \in Seq(Kept) /\ ConstsOK(Chunk, functions)
  BY CompOK
<1>2. Len(cs) \in Nat /\ DOMAIN cs = 1..Len(cs)
  BY <1>1
<1>4. Index(v) \in 0..Len(cs) /\ (same # {} => Index(v) < Len(cs) /\ cs[Index(v) + 1] = v)
  <2>1. CASE same = {}
    BY <2>1, <1>2 DEF Index
  <2>2. CASE same # {}
    <3>1. same \in SUBSET Nat
      BY <1>2
    <3> HIDE DEF same
    <3>2. Least(same) \in same
      BY <2>2, <3>1, LeastIsLeast
    <3> USE DEF same
    <3>3. Index(v) = Least(same) - 1
      BY <2>2 DEF Index
    <3>4. PICK i \in DOMAIN cs : i = Least(same) /\ cs[i] = v
      BY <3>2
    <3>5. Index(v) = i - 1 /\ i \in 1..Len(cs)
      BY <1>2, <3>3, <3>4
    <3>6. Index(v) + 1 = i /\ Index(v) < Len(cs) /\ Index(v) \in 0..Len(cs)
      BY <1>2, <3>5
    <3> QED  BY <3>4, <3>6
  <2> QED  BY <2>1, <2>2
<1>5. /\ new \in Seq(Kept) /\ Index(v) + 1 \in DOMAIN new /\ new[Index(v) + 1] = v
      /\ \A i \in DOMAIN cs : i \in DOMAIN new /\ new[i] = cs[i]
      /\ \A i \in DOMAIN new : i \in DOMAIN cs \/ new[i] = v
  <2>1. CASE same = {}
    <3>1. Index(v) = Len(cs) /\ new = Append(cs, v)
      BY <2>1 DEF Index
    <3> QED  BY <1>1, <1>2, <3>1
  <2>2. CASE same # {}
    <3>1. new = cs
      BY <1>2, <1>4, <2>2
    <3> QED  BY <1>1, <1>2, <1>4, <2>2, <3>1
  <2> QED  BY <2>1, <2>2
<1>6. WithConstant(v) = [Chunk EXCEPT !.consts = new]
  BY DEF WithConstant
<1> HIDE DEF new, same
<1>7. /\ WithConstant(v) \in Fun /\ WithConstant(v).code = Chunk.code
      /\ WithConstant(v).arity = Chunk.arity /\ WithConstant(v).consts = new
  BY <1>1, <1>5, <1>6 DEF Fun
<1>8. ConstsOK(WithConstant(v), functions)
  BY <1>1, <1>5, <1>7 DEF ConstsOK
<1>9. Operand(v) \in Nat
  BY <1>2, <1>4 DEF Operand
<1> QED  BY <1>4, <1>5, <1>7, <1>8, <1>9

-----------------------------------------------------------------------------
(* The steps that emit nothing.                                            *)

LEMMA EasyCalls ==
  /\ \A d \in SimpleCalls \ Inner :
       (d \in Loud => Task.do \in Loud) => Call(d) \in ACall /\ Easy(Call(d))
  /\ \A n \in Nat : /\ Parse(n) \in ACall /\ Easy(Parse(n))
                    /\ [do |-> "operators", prec |-> n] \in ACall
                    /\ Easy([do |-> "operators", prec |-> n])
  /\ \A s \in Expected : Expect(s) \in ACall /\ Easy(Expect(s))
  /\ \A s \in Ends : Task.do \in Loud => DeclareUntil(s) \in ACall /\ Easy(DeclareUntil(s))
  /\ \A c \in Seq(Instr) : Output(c) \in ACall /\ Easy(Output(c))
                           /\ Output(c) \in Emission /\ OutputAssignment(c) \in Emission
  /\ \A e \in Emission : e \in ACall /\ Easy(e)
  /\ \A b \in BOOLEAN : /\ [do |-> "variable", canAssign |-> b] \in ACall
                        /\ Easy([do |-> "variable", canAssign |-> b])
                        /\ [do |-> "dot", canAssign |-> b] \in ACall
                        /\ Easy([do |-> "dot", canAssign |-> b])
  /\ \A i, j \in Instr, b, c \in BOOLEAN :
       Assignable(i, j, b, c) \in ACall /\ Easy(Assignable(i, j, b, c))
  /\ \A n \in Nat : \A l \in {"arguments", "elements", "values"} :
       NextItem(l, n) \in ACall /\ Easy(NextItem(l, n))
<1>1. \A d \in SimpleCalls \ Inner : (d \in Loud => Task.do \in Loud) => Easy(Call(d))
  BY DEF Easy, Inner, Call, SimpleCalls
<1>2. \A n \in Nat : Easy(Parse(n)) /\ Easy([do |-> "operators", prec |-> n])
  BY DEF Easy, Inner, Parse, Loud
<1>3. \A s : Easy(Expect(s)) /\ (Task.do \in Loud => Easy(DeclareUntil(s))) /\ Easy(Output(s))
  BY DEF Easy, Inner, Expect, DeclareUntil, Output, Loud
<1>4. \A e \in Emission : Easy(e)
  BY DEF Easy, Inner, Emission, Loud
<1>5. \A b \in BOOLEAN : Easy([do |-> "variable", canAssign |-> b])
                        /\ Easy([do |-> "dot", canAssign |-> b])
  BY DEF Easy, Inner, Loud
<1>6. \A i, j \in Instr, b, c \in BOOLEAN : Easy(Assignable(i, j, b, c))
  BY DEF Easy, Inner, Assignable, Loud
<1>7. \A n \in Nat : \A l \in {"arguments", "elements", "values"} : Easy(NextItem(l, n))
  BY DEF Easy, Inner, NextItem, Loud
<1> QED
  BY <1>1, <1>2, <1>3, <1>4, <1>5, <1>6, <1>7, CallsMade

LEMMA IsInstr ==
  /\ \A op \in Ops : I(op) \in Instr
  /\ \A op \in Ops, n \in Nat : IA(op, n) \in Instr
BY DEF I, IA, Instr

LEMMA PrecedenceIn ==
  \A type : Precedence(type) \in 0..9
BY DEF Precedence, PrecOr, PrecAnd

LEMMA BinaryCodeIn ==
  ASSUME NEW type
  PROVE  BinaryCode(type) \in Seq(Instr)
<1>1. \A op \in Ops : <<I(op)>> \in Seq(Instr)
  BY IsInstr
<1>2. \A op, po \in Ops : <<I(op), I(po)>> \in Seq(Instr)
  BY IsInstr
<1>3. {"EQ", "NOT", "LT", "LE", "ADD", "SUB", "MUL", "DIV"} \subseteq Ops
  BY DEF Ops, UnaryOps, BinaryOps
<1>4. <<>> \in Seq(Instr)
  OBVIOUS
<1> QED  BY <1>1, <1>2, <1>3, <1>4 DEF BinaryCode

LEMMA UnaryCodeIn ==
  ASSUME NEW type
  PROVE  UnaryCode(type) \in Seq(Instr)
<1>1. {"NOT", "NEG"} \subseteq Ops
  BY DEF Ops, UnaryOps
<1> QED  BY <1>1, IsInstr DEF UnaryCode

EasySeq(calls) == calls \in Seq(ACall) /\ \A k \in DOMAIN calls : Easy(calls[k])

LEMMA EasySeqs ==
  /\ EasySeq(<<>>)
  /\ \A a \in ACall : Easy(a) => EasySeq(<<a>>)
  /\ \A a, b \in ACall : Easy(a) /\ Easy(b) => EasySeq(<<a, b>>)
  /\ \A a, b, c \in ACall : Easy(a) /\ Easy(b) /\ Easy(c) => EasySeq(<<a, b, c>>)
  /\ \A s, a : EasySeq(s) /\ a \in ACall /\ Easy(a) => EasySeq(s \o <<a>>)
<1>1. \A s, a : EasySeq(s) /\ a \in ACall /\ Easy(a) => EasySeq(s \o <<a>>)
  <2> SUFFICES ASSUME NEW s \in Seq(ACall), NEW a \in ACall, Easy(a), EasySeq(s)
               PROVE  EasySeq(s \o <<a>>)
    BY DEF EasySeq
  <2>1. \A k \in DOMAIN (s \o <<a>>) : (s \o <<a>>)[k] = a \/ (k \in DOMAIN s /\ (s \o <<a>>)[k] = s[k])
    OBVIOUS
  <2>2. s \o <<a>> \in Seq(ACall)
    OBVIOUS
  <2> QED  BY <2>1, <2>2 DEF EasySeq
<1> QED  BY <1>1 DEF EasySeq

LEMMA PrefixEasy ==
  ASSUME NEW type, NEW b \in BOOLEAN
  PROVE  EasySeq(Prefix(type, b))
<1>1. /\ Parse(1) \in ACall /\ Easy(Parse(1)) /\ Parse(8) \in ACall /\ Easy(Parse(8))
      /\ Expect({")"}) \in ACall /\ Easy(Expect({")"}))
      /\ [do |-> "variable", canAssign |-> b] \in ACall
      /\ Easy([do |-> "variable", canAssign |-> b])
      /\ Output(UnaryCode(type)) \in ACall /\ Easy(Output(UnaryCode(type)))
  BY EasyCalls, UnaryCodeIn DEF Expected
<1>2. \A d \in {"map", "constant"} : Call(d) \in ACall /\ Easy(Call(d))
  BY EasyCalls DEF SimpleCalls, Inner, Loud
<1>3. \A op \in {"NIL", "TRUE", "FALSE", "LD"} : Output(<<I(op)>>) \in ACall /\ Easy(Output(<<I(op)>>))
  <2>1. \A op \in {"NIL", "TRUE", "FALSE", "LD"} : <<I(op)>> \in Seq(Instr)
    BY IsInstr DEF Ops
  <2> QED  BY <2>1, EasyCalls
<1> QED
  BY <1>1, <1>2, <1>3, EasySeqs DEF Prefix, PrecAssignment, PrecUnary

LEMMA InfixEasy ==
  ASSUME NEW type, NEW b \in BOOLEAN
  PROVE  EasySeq(Infix(type, b))
<1>1. /\ Parse(1) \in ACall /\ Easy(Parse(1))
      /\ Parse(Precedence(type) + 1) \in ACall /\ Easy(Parse(Precedence(type) + 1))
      /\ Expect({"]"}) \in ACall /\ Easy(Expect({"]"}))
      /\ [do |-> "dot", canAssign |-> b] \in ACall
      /\ Easy([do |-> "dot", canAssign |-> b])
      /\ Output(BinaryCode(type)) \in ACall /\ Easy(Output(BinaryCode(type)))
  <2>1. Precedence(type) + 1 \in Nat
    BY PrecedenceIn
  <2> QED  BY <2>1, EasyCalls, BinaryCodeIn DEF Expected
<1>2. \A d \in {"and", "or", "argumentList"} : Call(d) \in ACall /\ Easy(Call(d))
  BY EasyCalls DEF SimpleCalls, Inner, Loud
<1>3. Assignable(I("GETI"), I("SETI"), b, TRUE) \in ACall
      /\ Easy(Assignable(I("GETI"), I("SETI"), b, TRUE))
  <2>1. I("GETI") \in Instr /\ I("SETI") \in Instr
    BY IsInstr DEF Ops
  <2> QED  BY <2>1, EasyCalls
<1> QED
  BY <1>1, <1>2, <1>3, EasySeqs DEF Infix, PrecAssignment

LEMMA ShapeEasy ==
  ASSUME ShapeInv, status = "compiling", Task.do \notin Inner,
         UNCHANGED <<compilers, functions>>,
         NEW calls, EasySeq(calls), Continue(calls), InputOK', pos' > 0
  PROVE  ShapeInv'
BY ShapeCalls DEF EasySeq

(* What a step that is not the first finds.                                *)
LEMMA AtTask ==
  ASSUME ShapeInv, NEW name, At(name), name # "start"
  PROVE  /\ InputOK /\ pos > 0 /\ status = "compiling" /\ Task.do = name /\ Task \in ACall
         /\ CompilersOK(compilers, functions)
<1>1. status = "compiling" /\ Task.do = name
  BY DEF At
<1>2. pos > 0
  BY <1>1, Begun
<1> QED  BY <1>1, <1>2, ShapeNow DEF ShapeInv

LEMMA ShapeDeclaration ==
  ASSUME ShapeInv, Declaration PROVE ShapeInv'
<1>1. /\ InputOK /\ pos > 0 /\ status = "compiling" /\ Task.do = "declaration"
  BY AtTask DEF Declaration
<1>2. PICK d \in {"funDeclaration", "varDeclaration", "globalDeclaration", "statement"} :
        /\ Continue(<<Call(d), Call("endDeclaration")>>)
        /\ Advance(FALSE) \/ Stay(FALSE)
        /\ UNCHANGED <<compilers, functions>>
  BY DEF Declaration, Keyword
<1>3. EasySeq(<<Call(d), Call("endDeclaration")>>)
  BY <1>1, EasyCalls, EasySeqs DEF SimpleCalls, Inner, Loud
<1>4. InputOK' /\ pos' > 0
  BY <1>1, <1>2, AdvanceOK, StayOK DEF Continue
<1> QED  BY <1>1, <1>2, <1>3, <1>4, ShapeEasy DEF Inner

LEMMA ShapeDeclareLoop ==
  ASSUME ShapeInv, DeclareLoop PROVE ShapeInv'
<1>1. /\ InputOK /\ pos > 0 /\ status = "compiling" /\ Task.do = "declareUntil" /\ Task \in ACall
  BY AtTask DEF DeclareLoop
<1>2. PICK calls : /\ calls = <<>> \/ calls = <<Call("declaration"), Task>>
                   /\ Continue(calls) /\ Stay(FALSE) /\ UNCHANGED <<compilers, functions>>
  BY DEF DeclareLoop
<1>3. Call("declaration") \in ACall /\ Easy(Call("declaration")) /\ Easy(Task)
  BY <1>1, EasyCalls DEF SimpleCalls, Inner, Easy, Loud
<1>4. EasySeq(calls)
  BY <1>1, <1>2, <1>3, EasySeqs
<1>5. InputOK' /\ pos' > 0
  BY <1>1, <1>2, StayOK DEF Continue
<1> QED  BY <1>1, <1>2, <1>4, <1>5, ShapeEasy DEF Inner

LEMMA ShapeParsePrecedence ==
  ASSUME ShapeInv, ParsePrecedence PROVE ShapeInv'
<1>1. /\ InputOK /\ pos > 0 /\ status = "compiling" /\ Task.do = "parsePrecedence" /\ Task \in ACall
  BY AtTask DEF ParsePrecedence
<1>2. Task.prec \in Nat
  BY <1>1, CallFields
<1> DEFINE canAssign == Task.prec <= PrecAssignment
           rule == Prefix(Current.type, canAssign)
           loop == [do |-> "operators", prec |-> Task.prec]
<1>3. EasySeq(rule) /\ EasySeq(rule \o <<loop>>)
  <2>1. canAssign \in BOOLEAN
    OBVIOUS
  <2> HIDE DEF canAssign
  <2>2. EasySeq(rule)
    BY <2>1, PrefixEasy
  <2> HIDE DEF rule
  <2> QED  BY <2>2, <1>2, EasyCalls, EasySeqs
<1>4. PICK calls : /\ calls = <<>> \/ calls = rule \o <<loop>>
                   /\ Continue(calls) /\ (Advance(FALSE) \/ Advance(TRUE))
                   /\ UNCHANGED <<compilers, functions>>
  BY DEF ParsePrecedence
<1> HIDE DEF rule, loop
<1>5. EasySeq(calls)
  BY <1>3, <1>4, EasySeqs
<1>6. InputOK' /\ pos' > 0
  BY <1>1, <1>4, AdvanceOK DEF Continue
<1> QED  BY <1>1, <1>4, <1>5, <1>6, ShapeEasy DEF Inner

LEMMA ShapeOperators ==
  ASSUME ShapeInv, Operators PROVE ShapeInv'
<1>1. /\ InputOK /\ pos > 0 /\ status = "compiling" /\ Task.do = "operators" /\ Task \in ACall
  BY AtTask DEF Operators
<1> DEFINE canAssign == Task.prec <= PrecAssignment
           infix == Infix(Current.type, canAssign)
<1>3. EasySeq(infix \o <<Task>>)
  <2>1. canAssign \in BOOLEAN
    OBVIOUS
  <2> HIDE DEF canAssign
  <2>2. EasySeq(infix)
    BY <2>1, InfixEasy
  <2> HIDE DEF infix
  <2>3. Easy(Task)
    BY <1>1 DEF Easy, Inner, Loud
  <2> QED  BY <2>2, <2>3, <1>1, EasySeqs
<1>4. PICK calls : /\ calls = <<>> \/ calls = infix \o <<Task>>
                   /\ Continue(calls) /\ (Advance(FALSE) \/ Advance(TRUE) \/ Stay(FALSE))
                   /\ UNCHANGED <<compilers, functions>>
  BY DEF Operators
<1> HIDE DEF infix
<1>5. EasySeq(calls)
  BY <1>3, <1>4, EasySeqs
<1>6. InputOK' /\ pos' > 0
  BY <1>1, <1>4, AdvanceOK, StayOK DEF Continue
<1> QED  BY <1>1, <1>4, <1>5, <1>6, ShapeEasy DEF Inner

LEMMA ShapeConsumeToken ==
  ASSUME ShapeInv, ConsumeToken PROVE ShapeInv'
<1>1. /\ InputOK /\ pos > 0 /\ status = "compiling" /\ Task.do = "consume"
  BY AtTask DEF ConsumeToken
<1>2. Consume(Task.types) /\ Continue(<<>>) /\ UNCHANGED <<compilers, functions>>
  BY DEF ConsumeToken
<1>3. InputOK' /\ pos' > 0
  BY <1>1, <1>2, MatchOK DEF Continue
<1> QED  BY <1>1, <1>2, <1>3, ShapeEasy, EasySeqs DEF Inner

LEMMA ShapeItems ==
  ASSUME ShapeInv, Items PROVE ShapeInv'
<1>1. /\ InputOK /\ pos > 0 /\ status = "compiling" /\ Task.do \in {"argumentList", "map"}
  BY AtTask DEF Items
<1>2. PICK calls :
        /\ \/ calls = <<Expect({")"}), Output(<<IA("CALL", 0)>>)>>
           \/ calls = <<Expect({"]"}), Output(<<IA("MAP", 0)>>)>>
           \/ \E l \in {"arguments", "elements"} : calls = <<Parse(PrecAssignment), NextItem(l, 1)>>
        /\ Continue(calls) /\ Stay(FALSE) /\ UNCHANGED <<compilers, functions>>
  BY DEF Items
<1>3. EasySeq(calls)
  <2>1. <<IA("CALL", 0)>> \in Seq(Instr) /\ <<IA("MAP", 0)>> \in Seq(Instr)
    BY IsInstr, SMTT(30) DEF Ops
  <2>2. /\ Expect({")"}) \in ACall /\ Easy(Expect({")"}))
        /\ Expect({"]"}) \in ACall /\ Easy(Expect({"]"}))
        /\ Output(<<IA("CALL", 0)>>) \in ACall /\ Easy(Output(<<IA("CALL", 0)>>))
        /\ Output(<<IA("MAP", 0)>>) \in ACall /\ Easy(Output(<<IA("MAP", 0)>>))
        /\ Parse(1) \in ACall /\ Easy(Parse(1))
        /\ \A l \in {"arguments", "elements"} : NextItem(l, 1) \in ACall /\ Easy(NextItem(l, 1))
    BY <2>1, EasyCalls DEF Expected
  <2> QED  BY <1>2, <2>2, EasySeqs DEF PrecAssignment
<1>4. InputOK' /\ pos' > 0
  BY <1>1, <1>2, StayOK DEF Continue
<1> QED  BY <1>1, <1>2, <1>3, <1>4, ShapeEasy DEF Inner

LEMMA ShapeItem ==
  ASSUME ShapeInv, NEW list \in {"arguments", "elements", "values"}, NEW failed, NEW rest,
         EasySeq(rest), Item(list, failed, rest)
  PROVE  ShapeInv'
<1>1. /\ InputOK /\ pos > 0 /\ status = "compiling" /\ Task.do = list /\ Task \in ACall
  BY AtTask DEF Item
<1>2. PICK calls :
        /\ calls = <<Parse(PrecAssignment), NextItem(list, Task.count + 1)>> \/ calls = rest
        /\ Continue(calls) /\ (AdvanceAfter(failed) \/ Stay(failed))
        /\ UNCHANGED <<compilers, functions>>
  BY DEF Item
<1>3. EasySeq(calls)
  <2>1. Task.count + 1 \in Nat
    BY <1>1, CallFields
  <2>2. Parse(1) \in ACall /\ Easy(Parse(1)) /\ NextItem(list, Task.count + 1) \in ACall
        /\ Easy(NextItem(list, Task.count + 1))
    BY <2>1, EasyCalls
  <2> QED  BY <1>2, <2>2, EasySeqs DEF PrecAssignment
<1>4. InputOK' /\ pos' > 0
  BY <1>1, <1>2, AdvanceOK, StayOK DEF Continue
<1> QED  BY <1>1, <1>2, <1>3, <1>4, ShapeEasy DEF Inner

LEMMA ShapeArguments ==
  ASSUME ShapeInv, Arguments PROVE ShapeInv'
<1> DEFINE n == Task.count % Byte
<1>1. Task.do = "arguments" /\ Task \in ACall
  BY AtTask DEF Arguments, Item
<1>2. n \in Nat
  BY <1>1, CallFields, CompilerAssumption
<1> HIDE DEF n
<1>3. <<IA("CALL", n)>> \in Seq(Instr)
  BY <1>2, IsInstr DEF Ops
<1>4. EasySeq(<<Expect({")"}), Output(<<IA("CALL", n)>>)>>)
  BY <1>3, EasyCalls, EasySeqs DEF Expected
<1>5. Item("arguments", n = MaxArgs, <<Expect({")"}), Output(<<IA("CALL", n)>>)>>)
  BY DEF Arguments, n
<1> QED  BY <1>4, <1>5, ShapeItem

LEMMA ShapeElements ==
  ASSUME ShapeInv, Elements PROVE ShapeInv'
<1> DEFINE n == Task.count % Byte
<1>1. Task.do = "elements" /\ Task \in ACall
  BY AtTask DEF Elements, Item
<1>2. n \in Nat
  BY <1>1, CallFields, CompilerAssumption
<1> HIDE DEF n
<1>3. <<IA("MAP", n)>> \in Seq(Instr)
  BY <1>2, IsInstr DEF Ops
<1>4. EasySeq(<<Expect({"]"}), Output(<<IA("MAP", n)>>)>>)
  BY <1>3, EasyCalls, EasySeqs DEF Expected
<1>5. Item("elements", FALSE, <<Expect({"]"}), Output(<<IA("MAP", n)>>)>>)
  BY DEF Elements, n
<1> QED  BY <1>4, <1>5, ShapeItem

LEMMA ShapeValues ==
  ASSUME ShapeInv, Values PROVE ShapeInv'
<1>1. /\ InputOK /\ pos > 0 /\ status = "compiling" /\ Task.do = "values" /\ Task \in ACall
  BY AtTask DEF Values
<1>2. CASE /\ Stay(TRUE) /\ Continue(<<>>) /\ UNCHANGED <<compilers, functions>>
  <2>1. InputOK' /\ pos' > 0
    BY <1>1, <1>2, StayOK DEF Continue
  <2> QED  BY <1>1, <1>2, <2>1, ShapeEasy, EasySeqs DEF Inner
<1>3. CASE Item("values", FALSE, <<Output(<<IA("PRINT", Task.count)>>)>>)
  <2>1. Task.count \in Nat
    BY <1>1, CallFields
  <2>2. <<IA("PRINT", Task.count)>> \in Seq(Instr)
    BY <2>1, IsInstr DEF Ops
  <2>3. EasySeq(<<Output(<<IA("PRINT", Task.count)>>)>>)
    BY <2>2, EasyCalls, EasySeqs
  <2> QED  BY <1>3, <2>3, ShapeItem
<1> QED  BY <1>2, <1>3 DEF Values

LEMMA ShapeNames ==
  ASSUME ShapeInv, Names PROVE ShapeInv'
<1>1. /\ InputOK /\ pos > 0 /\ status = "compiling" /\ Task.do \in {"globals", "parameters"}
  BY AtTask DEF Names
<1>2. PICK calls :
        /\ calls = <<>> \/ \E d \in {"globalDeclaration", "parameter"} : calls = <<Call(d)>>
        /\ Continue(calls) /\ Match({","}) /\ UNCHANGED <<compilers, functions>>
  BY DEF Names
<1>3. EasySeq(calls)
  BY <1>2, EasyCalls, EasySeqs DEF SimpleCalls, Inner, Loud
<1>4. InputOK' /\ pos' > 0
  BY <1>1, <1>2, MatchOK DEF Continue
<1> QED  BY <1>1, <1>2, <1>3, <1>4, ShapeEasy DEF Inner

LEMMA ShapeParameterList ==
  ASSUME ShapeInv, ParameterList PROVE ShapeInv'
<1>1. /\ InputOK /\ pos > 0 /\ status = "compiling" /\ Task.do = "parameterList"
  BY AtTask DEF ParameterList
<1>2. PICK calls :
        /\ calls = <<>> \/ calls = <<Call("parameter")>>
        /\ Continue(calls) /\ Stay(FALSE) /\ UNCHANGED <<compilers, functions>>
  BY DEF ParameterList
<1>3. EasySeq(calls)
  BY <1>2, EasyCalls, EasySeqs DEF SimpleCalls, Inner, Loud
<1>4. InputOK' /\ pos' > 0
  BY <1>1, <1>2, StayOK DEF Continue
<1> QED  BY <1>1, <1>2, <1>3, <1>4, ShapeEasy DEF Inner

-----------------------------------------------------------------------------
(* The steps that emit code.                                               *)

Emitted(code) == [Chunk EXCEPT !.code = @ \o code]

LEMMA EmittedOK ==
  ASSUME CompilersOK(compilers, functions), NEW code \in Seq(Instr)
  PROVE  /\ Emitted(code) \in Fun /\ ConstsOK(Emitted(code), functions)
         /\ Emitted(code).code = Chunk.code \o code
         /\ Len(Chunk.code) \in Nat /\ Len(Emitted(code).code) = Len(Chunk.code) + Len(code)
         /\ Len(Chunk.code) <= Len(Emitted(code).code)
         /\ Emit(code) => SetChunk(Emitted(code))
<1>1. /\ Chunk \in Fun /\ Chunk.code \in Seq(Instr) /\ Len(Chunk.code) \in Nat
      /\ ConstsOK(Chunk, functions)
  BY CompOK
<1> DEFINE new == Chunk.code \o code
<1>2. new \in Seq(Instr) /\ Len(new) = Len(Chunk.code) + Len(code) /\ Len(code) \in Nat
  BY <1>1
<1> HIDE DEF new
<1>3. Emitted(code) = [Chunk EXCEPT !.code = new]
  BY DEF Emitted, new
<1>4. Emitted(code) \in Fun /\ Emitted(code).code = new /\ Emitted(code).consts = Chunk.consts
  BY <1>1, <1>2, <1>3 DEF Fun
<1>5. ConstsOK(Emitted(code), functions)
  BY <1>1, <1>4 DEF ConstsOK
<1>6. Emit(code) => SetChunk(Emitted(code))
  BY DEF Emit, Emitted
<1> QED  BY <1>1, <1>2, <1>4, <1>5, <1>6 DEF new

(* Code that is emitted, without calls that need a mark.                   *)
LEMMA ShapeEmit ==
  ASSUME ShapeInv, status = "compiling", Task.do \notin Inner, UNCHANGED compilers,
         NEW code \in Seq(Instr), Emit(code),
         NEW calls, EasySeq(calls), Continue(calls), InputOK', pos' > 0
  PROVE  ShapeInv'
<1>1. CompilersOK(compilers, functions)
  BY DEF ShapeInv
<1>2. /\ Emitted(code) \in Fun /\ Len(Chunk.code) <= Len(Emitted(code).code)
      /\ ConstsOK(Emitted(code), functions) /\ SetChunk(Emitted(code))
  BY <1>1, EmittedOK
<1>3. calls \in Seq(ACall) /\ \A k \in DOMAIN calls : Easy(calls[k])
  BY DEF EasySeq
<1> QED  BY <1>2, <1>3, ShapeCode

(* Code that is emitted, then an expression and a jump to patch.           *)
LEMMA ShapeJump ==
  ASSUME ShapeInv, status = "compiling", Task.do \notin Inner, UNCHANGED compilers,
         NEW code \in Seq(Instr), Emit(code),
         NEW t \in ACall, Easy(t), NEW u \in ACall, u.do \in {"patchJump", "else"},
         u.do = "else" => Task.do \in Loud,
         u.at \in 1..Len(Chunk.code) + Len(code),
         Continue(<<t, u>>), InputOK', pos' > 0
  PROVE  ShapeInv'
<1>1. CompilersOK(compilers, functions)
  BY DEF ShapeInv
<1>2. /\ Emitted(code) \in Fun /\ Len(Chunk.code) <= Len(Emitted(code).code)
      /\ Len(Emitted(code).code) = Len(Chunk.code) + Len(code)
      /\ ConstsOK(Emitted(code), functions) /\ SetChunk(Emitted(code))
  BY <1>1, EmittedOK
<1>3. /\ <<t, u>> \in Seq(ACall)
      /\ \A k \in DOMAIN <<t, u>> :
           \/ Easy(<<t, u>>[k])
           \/ /\ <<t, u>>[k].do \in {"patchJump", "else"}
              /\ <<t, u>>[k].at \in 1..Len(Emitted(code).code)
              /\ <<t, u>>[k].do = "else" => Task.do \in Loud
  BY <1>2
<1> QED  BY <1>2, <1>3, ShapeCode

LEMMA ShapeEndExpression ==
  ASSUME ShapeInv, EndExpression PROVE ShapeInv'
<1>1. /\ InputOK /\ pos > 0 /\ status = "compiling" /\ Task.do = "endExpression"
  BY AtTask DEF EndExpression
<1>2. PICK failed : Stay(failed) /\ Emit(<<I("POP")>>) /\ Continue(<<>>) /\ UNCHANGED compilers
  BY DEF EndExpression
<1>3. <<I("POP")>> \in Seq(Instr)
  BY IsInstr DEF Ops
<1>4. InputOK' /\ pos' > 0
  BY <1>1, <1>2, StayOK DEF Continue
<1> QED  BY <1>1, <1>2, <1>3, <1>4, ShapeEmit, EasySeqs DEF Inner

LEMMA ShapeIfThen ==
  ASSUME ShapeInv, IfThen PROVE ShapeInv'
<1> DEFINE code == <<I("JMPF"), I("POP")>>
           p == Len(Chunk.code) + 1
           u == [do |-> "else", at |-> p, inline |-> SameLine]
<1>1. /\ InputOK /\ pos > 0 /\ status = "compiling" /\ Task.do = "then"
      /\ Len(Chunk.code) \in Nat
  BY AtTask, CompOK DEF IfThen
<1>2. Stay(FALSE) /\ Emit(code) /\ Continue(<<Call("statement"), u>>) /\ UNCHANGED compilers
  BY DEF IfThen
<1>3. code \in Seq(Instr) /\ Len(code) = 2
  BY IsInstr DEF Ops
<1>4. InputOK' /\ pos' > 0
  BY <1>1, <1>2, StayOK DEF Continue
<1>5. Call("statement") \in ACall /\ Easy(Call("statement")) /\ Task.do \in Loud
  BY <1>1, EasyCalls DEF SimpleCalls, Inner, Loud
<1>6. u \in ACall /\ u.do = "else" /\ u.at = p
  <2>1. SameLine \in BOOLEAN /\ p \in Nat
    BY <1>1 DEF SameLine
  <2> QED  BY <2>1, CallsMade
<1>7. p \in 1..Len(Chunk.code) + Len(code)
  BY <1>1, <1>3
<1> HIDE DEF code, u, p
<1> QED  BY <1>1, <1>2, <1>3, <1>4, <1>5, <1>6, <1>7, ShapeJump DEF Inner

LEMMA ShapeAnd ==
  ASSUME ShapeInv, And PROVE ShapeInv'
<1> DEFINE code == <<I("JMPF"), I("POP")>>
           p == Len(Chunk.code) + 1
           u == PatchJump(p)
<1>1. /\ InputOK /\ pos > 0 /\ status = "compiling" /\ Task.do = "and"
      /\ Len(Chunk.code) \in Nat
  BY AtTask, CompOK DEF And
<1>2. Stay(FALSE) /\ Emit(code) /\ Continue(<<Parse(PrecAnd), u>>) /\ UNCHANGED compilers
  BY DEF And
<1>3. code \in Seq(Instr) /\ Len(code) = 2
  BY IsInstr DEF Ops
<1>4. InputOK' /\ pos' > 0
  BY <1>1, <1>2, StayOK DEF Continue
<1>5. Parse(PrecAnd) \in ACall /\ Easy(Parse(PrecAnd))
  BY EasyCalls DEF PrecAnd
<1>6. u \in ACall /\ u.do = "patchJump" /\ u.at = p
  BY <1>1, CallsMade DEF PatchJump
<1>7. p \in 1..Len(Chunk.code) + Len(code)
  BY <1>1, <1>3
<1> HIDE DEF code, u, p
<1> QED  BY <1>1, <1>2, <1>3, <1>4, <1>5, <1>6, <1>7, ShapeJump DEF Inner

LEMMA ShapeOr ==
  ASSUME ShapeInv, Or PROVE ShapeInv'
<1> DEFINE code == <<IA("JMPF", 1), I("JMP"), I("POP")>>
           p == Len(Chunk.code) + 2
           u == PatchJump(p)
<1>1. /\ InputOK /\ pos > 0 /\ status = "compiling" /\ Task.do = "or"
      /\ Len(Chunk.code) \in Nat
  BY AtTask, CompOK DEF Or
<1>2. Stay(FALSE) /\ Emit(code) /\ Continue(<<Parse(PrecOr), u>>) /\ UNCHANGED compilers
  BY DEF Or
<1>3. code \in Seq(Instr) /\ Len(code) = 3
  BY IsInstr DEF Ops
<1>4. InputOK' /\ pos' > 0
  BY <1>1, <1>2, StayOK DEF Continue
<1>5. Parse(PrecOr) \in ACall /\ Easy(Parse(PrecOr))
  BY EasyCalls DEF PrecOr
<1>6. u \in ACall /\ u.do = "patchJump" /\ u.at = p
  BY <1>1, CallsMade DEF PatchJump
<1>7. p \in 1..Len(Chunk.code) + Len(code)
  BY <1>1, <1>3
<1> HIDE DEF code, u, p
<1> QED  BY <1>1, <1>2, <1>3, <1>4, <1>5, <1>6, <1>7, ShapeJump DEF Inner

LEMMA ShapeEmitBytes ==
  ASSUME ShapeInv, EmitBytes PROVE ShapeInv'
<1>1. /\ InputOK /\ pos > 0 /\ status = "compiling" /\ Task.do = "emit" /\ Task \in ACall
  BY AtTask DEF EmitBytes
<1>2. Stay(FALSE) /\ Emit(Task.code) /\ Continue(<<>>) /\ UNCHANGED compilers
  BY DEF EmitBytes
<1>3. Task.code \in Seq(Instr)
  BY <1>1, CallFields
<1>4. InputOK' /\ pos' > 0
  BY <1>1, <1>2, StayOK DEF Continue
<1> QED  BY <1>1, <1>2, <1>3, <1>4, ShapeEmit, EasySeqs DEF Inner

LEMMA ShapeInitializer ==
  ASSUME ShapeInv, Initializer PROVE ShapeInv'
<1>1. /\ InputOK /\ pos > 0 /\ status = "compiling" /\ Task.do = "initializer"
  BY AtTask DEF Initializer
<1>2. CASE /\ Advance(FALSE) /\ Continue(<<Parse(PrecAssignment)>>)
           /\ UNCHANGED <<compilers, functions>>
  <2>1. InputOK' /\ pos' > 0
    BY <1>1, <1>2, AdvanceOK DEF Continue
  <2>2. EasySeq(<<Parse(PrecAssignment)>>)
    BY EasyCalls, EasySeqs DEF PrecAssignment
  <2> QED  BY <1>1, <1>2, <2>1, <2>2, ShapeEasy DEF Inner
<1>3. CASE Emit(<<I("NIL")>>) /\ Stay(FALSE) /\ Continue(<<>>) /\ UNCHANGED compilers
  <2>1. InputOK' /\ pos' > 0
    BY <1>1, <1>3, StayOK DEF Continue
  <2>2. <<I("NIL")>> \in Seq(Instr)
    BY IsInstr DEF Ops
  <2> QED  BY <1>1, <1>3, <2>1, <2>2, ShapeEmit, EasySeqs DEF Inner
<1> QED  BY <1>2, <1>3 DEF Initializer

LEMMA ShapeAssign ==
  ASSUME ShapeInv, Assign PROVE ShapeInv'
<1>1. /\ InputOK /\ pos > 0 /\ status = "compiling" /\ Task.do = "assignable" /\ Task \in ACall
  BY AtTask DEF Assign
<1>2. Task.get \in Instr /\ Task.set \in Emission
  BY <1>1, CallFields
<1>3. CASE /\ Advance(FALSE) /\ Continue(<<Parse(PrecAssignment), Task.set>>)
           /\ UNCHANGED <<compilers, functions>>
  <2>1. InputOK' /\ pos' > 0
    BY <1>1, <1>3, AdvanceOK DEF Continue
  <2>2. EasySeq(<<Parse(PrecAssignment), Task.set>>)
    BY <1>2, EasyCalls, EasySeqs DEF PrecAssignment
  <2> QED  BY <1>1, <1>3, <2>1, <2>2, ShapeEasy DEF Inner
<1>4. CASE Emit(<<Task.get>>) /\ Stay(FALSE) /\ Continue(<<>>) /\ UNCHANGED compilers
  <2>1. InputOK' /\ pos' > 0
    BY <1>1, <1>4, StayOK DEF Continue
  <2>2. <<Task.get>> \in Seq(Instr)
    BY <1>2
  <2> QED  BY <1>1, <1>4, <2>1, <2>2, ShapeEmit, EasySeqs DEF Inner
<1> QED  BY <1>3, <1>4 DEF Assign

LEMMA ShapeReturnStatement ==
  ASSUME ShapeInv, ReturnStatement PROVE ShapeInv'
<1>1. /\ InputOK /\ pos > 0 /\ status = "compiling" /\ Task.do = "returnValue"
  BY AtTask DEF ReturnStatement
<1>2. CASE Stay(TRUE) /\ Continue(<<>>) /\ UNCHANGED <<compilers, functions>>
  <2>1. InputOK' /\ pos' > 0
    BY <1>1, <1>2, StayOK DEF Continue
  <2> QED  BY <1>1, <1>2, <2>1, ShapeEasy, EasySeqs DEF Inner
<1>3. CASE Emit(EmitReturn) /\ Stay(FALSE) /\ Continue(<<>>) /\ UNCHANGED compilers
  <2>1. InputOK' /\ pos' > 0
    BY <1>1, <1>3, StayOK DEF Continue
  <2>2. EmitReturn \in Seq(Instr)
    BY IsInstr DEF Ops, EmitReturn
  <2> QED  BY <1>1, <1>3, <2>1, <2>2, ShapeEmit, EasySeqs DEF Inner
<1>4. CASE /\ Continue(<<Parse(PrecAssignment), Output(<<I("RET")>>)>>)
           /\ Stay(FALSE) /\ UNCHANGED <<compilers, functions>>
  <2>1. InputOK' /\ pos' > 0
    BY <1>1, <1>4, StayOK DEF Continue
  <2>2. <<I("RET")>> \in Seq(Instr)
    BY IsInstr DEF Ops
  <2>3. EasySeq(<<Parse(PrecAssignment), Output(<<I("RET")>>)>>)
    BY <2>2, EasyCalls, EasySeqs DEF PrecAssignment
  <2> QED  BY <1>1, <1>4, <2>1, <2>3, ShapeEasy DEF Inner
<1> QED  BY <1>2, <1>3, <1>4 DEF ReturnStatement

(* A constant that may be new, and code after it.                          *)
LEMMA ShapeConstant ==
  ASSUME ShapeInv, status = "compiling", Task.do \notin Inner, UNCHANGED compilers,
         NEW v \in Kept, v.type # "fun", NEW code \in Seq(Instr),
         SetChunk([WithConstant(v) EXCEPT !.code = @ \o code]),
         NEW calls, EasySeq(calls), Continue(calls), InputOK', pos' > 0
  PROVE  ShapeInv'
<1> DEFINE w == WithConstant(v)
           f == [w EXCEPT !.code = @ \o code]
<1>1. CompilersOK(compilers, functions)
  BY DEF ShapeInv
<1>2. w \in Fun /\ ConstsOK(w, functions) /\ w.code = Chunk.code
      /\ Chunk.code \in Seq(Instr) /\ Len(Chunk.code) \in Nat
  BY <1>1, WithConstantOK, CompOK
<1> HIDE DEF w
<1>3. w.code \o code \in Seq(Instr) /\ Len(w.code \o code) = Len(Chunk.code) + Len(code)
      /\ Len(code) \in Nat
  BY <1>2
<1>4. f \in Fun /\ f.consts = w.consts /\ f.code = w.code \o code
  BY <1>2, <1>3 DEF Fun
<1>5. ConstsOK(f, functions) /\ Len(Chunk.code) <= Len(f.code)
  BY <1>2, <1>3, <1>4 DEF ConstsOK
<1>6. SetChunk(f)
  BY DEF w
<1>7. calls \in Seq(ACall) /\ \A k \in DOMAIN calls : Easy(calls[k])
  BY DEF EasySeq
<1> HIDE DEF f
<1> QED  BY <1>4, <1>5, <1>6, <1>7, ShapeCode

LEMMA SetWithConstant ==
  ASSUME CompilersOK(compilers, functions), NEW v \in Kept, v.type # "fun",
         SetChunk(WithConstant(v))
  PROVE  SetChunk([WithConstant(v) EXCEPT !.code = @ \o <<>>])
<1>1. WithConstant(v) \in Fun
  BY WithConstantOK
<1>2. WithConstant(v).code \in Seq(Instr)
  BY <1>1 DEF Fun
<1>3. WithConstant(v).code \o <<>> = WithConstant(v).code
  BY <1>2
<1>4. [WithConstant(v) EXCEPT !.code = @ \o <<>>] = WithConstant(v)
  BY <1>1, <1>3 DEF Fun
<1> QED  BY <1>4

LEMMA ShapeNumberOrString ==
  ASSUME ShapeInv, NumberOrString PROVE ShapeInv'
<1> DEFINE v == Val(IF prev.type = "NUMBER" THEN "num" ELSE "str", prev.text)
           code == <<IA("CONST", Operand(v))>>
<1>1. /\ InputOK /\ pos > 0 /\ status = "compiling" /\ Task.do = "constant"
      /\ CompilersOK(compilers, functions)
  BY AtTask DEF NumberOrString
<1>2. v \in Kept /\ v.type # "fun"
  BY <1>1, TokenTexts DEF Val, Kept
<1> HIDE DEF v
<1>3. /\ SetChunk([WithConstant(v) EXCEPT !.code = Append(@, IA("CONST", Operand(v)))])
      /\ Stay(NoRoom(v)) /\ Continue(<<>>) /\ UNCHANGED compilers
  BY DEF NumberOrString, v
<1>4. WithConstant(v) \in Fun /\ Operand(v) \in Nat
  BY <1>1, <1>2, WithConstantOK
<1>5. code \in Seq(Instr)
  BY <1>4, IsInstr DEF Ops
<1>6. Append(WithConstant(v).code, IA("CONST", Operand(v))) = WithConstant(v).code \o code
  <2>1. WithConstant(v).code \in Seq(Instr) /\ IA("CONST", Operand(v)) \in Instr
    BY <1>4, IsInstr DEF Fun, Ops
  <2> QED  BY <2>1
<1>7. SetChunk([WithConstant(v) EXCEPT !.code = @ \o code])
  BY <1>3, <1>6
<1>8. InputOK' /\ pos' > 0
  BY <1>1, <1>3, StayOK DEF Continue
<1> HIDE DEF code
<1> QED  BY <1>1, <1>2, <1>3, <1>5, <1>7, <1>8, ShapeConstant, EasySeqs DEF Inner

LEMMA ShapeNamedVariable ==
  ASSUME ShapeInv, NamedVariable PROVE ShapeInv'
<1> DEFINE slot == ResolveLocal(prev.text)
           name == Identifier(prev.text)
           local == Assignable(IA("LD", slot - 1), IA("ST", slot - 1), Task.canAssign, TRUE)
           global == Assignable(IA("GLD", Operand(name)), IA("GST", Operand(name)),
                                Task.canAssign, TRUE)
<1>1. /\ InputOK /\ pos > 0 /\ status = "compiling" /\ Task.do = "variable" /\ Task \in ACall
      /\ CompilersOK(compilers, functions)
  BY AtTask DEF NamedVariable
<1>2. Task.canAssign \in BOOLEAN /\ name \in Kept /\ name.type = "str"
  BY <1>1, CallFields, TokenTexts, IdentifierOK
<1>3. CASE /\ slot > 0 /\ Stay(Locals[slot].depth = -1) /\ Continue(<<local>>)
           /\ UNCHANGED <<compilers, functions>>
  <2>1. InputOK' /\ pos' > 0
    BY <1>1, <1>3, StayOK DEF Continue
  <2>2. slot - 1 \in Nat
    <3>1. slot \in Nat
      <4> DEFINE same == {i \in DOMAIN Locals : Locals[i].name = prev.text}
      <4>1. Len(Locals) \in Nat /\ DOMAIN Locals = 1..Len(Locals)
        BY <1>1, CompOK
      <4>2. CASE same = {}
        BY <4>2 DEF ResolveLocal
      <4>3. CASE same # {}
        <5>1. same \in SUBSET (0..Len(Locals))
          BY <4>1
        <5>2. Greatest(same) \in same
          <6> HIDE DEF same
          <6> QED  BY <4>1, <4>3, <5>1, GreatestIsGreatest
        <5>3. slot = Greatest(same)
          BY <4>3 DEF ResolveLocal
        <5>4. \E i \in DOMAIN Locals : slot = i
          BY <5>2, <5>3
        <5> HIDE DEF same, slot
        <5> QED  BY <4>1, <5>4
      <4> QED  BY <4>2, <4>3
    <3> HIDE DEF slot
    <3> QED  BY <1>3, <3>1
  <2>3. EasySeq(<<local>>)
    <3>1. IA("LD", slot - 1) \in Instr /\ IA("ST", slot - 1) \in Instr
      <4> HIDE DEF slot
      <4> QED  BY <2>2, IsInstr DEF Ops
    <3> QED  BY <1>2, <3>1, EasyCalls, EasySeqs
  <2> HIDE DEF local
  <2> QED  BY <1>1, <1>3, <2>1, <2>3, ShapeEasy DEF Inner
<1>4. CASE /\ SetChunk(WithConstant(name)) /\ Stay(NoRoom(name)) /\ Continue(<<global>>)
           /\ UNCHANGED compilers
  <2>1. InputOK' /\ pos' > 0
    BY <1>1, <1>4, StayOK DEF Continue
  <2> HIDE DEF name
  <2>2. EasySeq(<<global>>)
    <3>1. IA("GLD", Operand(name)) \in Instr /\ IA("GST", Operand(name)) \in Instr
      BY <1>1, <1>2, WithConstantOK, IsInstr DEF Ops
    <3> QED  BY <1>2, <3>1, EasyCalls, EasySeqs
  <2>3. SetChunk([WithConstant(name) EXCEPT !.code = @ \o <<>>])
    BY <1>1, <1>2, <1>4, SetWithConstant
  <2>4. <<>> \in Seq(Instr)
    OBVIOUS
  <2> HIDE DEF global
  <2> QED  BY <1>1, <1>2, <1>4, <2>1, <2>2, <2>3, <2>4, ShapeConstant DEF Inner
<1> QED  BY <1>3, <1>4 DEF NamedVariable

LEMMA ShapeDot ==
  ASSUME ShapeInv, Dot PROVE ShapeInv'
<1> DEFINE name == Identifier(IF Is({"IDENTIFIER"}) THEN Current.text ELSE prev.text)
           field == Assignable(IA("GET", Operand(name)), IA("SET", Operand(name)),
                               Task.canAssign, FALSE)
<1>1. /\ InputOK /\ pos > 0 /\ status = "compiling" /\ Task.do = "dot" /\ Task \in ACall
      /\ CompilersOK(compilers, functions)
  BY AtTask DEF Dot
<1>2. Task.canAssign \in BOOLEAN /\ name \in Kept /\ name.type = "str"
  BY <1>1, CallFields, TokenTexts, IdentifierOK
<1>3. /\ SetChunk(WithConstant(name)) /\ (Advance(NoRoom(name)) \/ Stay(TRUE)) /\ Continue(<<field>>)
      /\ UNCHANGED compilers
  BY DEF Dot
<1> HIDE DEF name
<1>4. InputOK' /\ pos' > 0
  BY <1>1, <1>3, AdvanceOK, StayOK DEF Continue
<1>5. EasySeq(<<field>>)
  <2>1. IA("GET", Operand(name)) \in Instr /\ IA("SET", Operand(name)) \in Instr
    BY <1>1, <1>2, WithConstantOK, IsInstr DEF Ops
  <2> QED  BY <1>2, <2>1, EasyCalls, EasySeqs
<1>6. SetChunk([WithConstant(name) EXCEPT !.code = @ \o <<>>])
  BY <1>1, <1>2, <1>3, SetWithConstant
<1>7. <<>> \in Seq(Instr)
  OBVIOUS
<1> HIDE DEF field
<1> QED  BY <1>1, <1>2, <1>3, <1>4, <1>5, <1>6, <1>7, ShapeConstant DEF Inner

LEMMA PatchedOK ==
  ASSUME NEW code \in Seq(Instr), NEW p \in 1..Len(code)
  PROVE  /\ Patched(code, p) \in Seq(Instr) /\ Len(Patched(code, p)) = Len(code)
         /\ Patched(code, p)[p] = [code[p] EXCEPT !.a = Len(code) - p]
         /\ \A q \in 1..Len(code) : q # p => Patched(code, p)[q] = code[q]
<1>1. Len(code) - p \in Nat /\ code[p] \in Instr
  OBVIOUS
<1>2. [code[p] EXCEPT !.a = Len(code) - p] \in Instr
  BY <1>1 DEF Instr
<1>3. Patched(code, p) = [code EXCEPT ![p] = [code[p] EXCEPT !.a = Len(code) - p]]
  BY DEF Patched
<1> DEFINE i == [code[p] EXCEPT !.a = Len(code) - p]
<1>4. i \in Instr /\ Patched(code, p) = [code EXCEPT ![p] = i]
  BY <1>2, <1>3
<1> HIDE DEF i
<1>5. /\ Patched(code, p) \in Seq(Instr) /\ Len(Patched(code, p)) = Len(code)
      /\ Patched(code, p)[p] = i
      /\ \A q \in 1..Len(code) : q # p => Patched(code, p)[q] = code[q]
  BY <1>4
<1> QED  BY <1>5 DEF i

(* A jump that is to be patched is in the code.                            *)
LEMMA JumpThere ==
  ASSUME ShapeInv, status = "compiling", pos > 0, Task.do \in {"patchJump", "else"}
  PROVE  Task.at \in 1..Len(Chunk.code)
<1>1. PICK m, n \in Mark : m.len <= Len(Chunk.code) /\ Shape(Task, m, n)
  BY ShapeNow
<1>2. Task.at \in 1..m.len
  BY <1>1 DEF Shape, Plain
<1>3. Len(Chunk.code) \in Nat /\ m.len \in Nat
  BY CompOK DEF ShapeInv, Mark
<1> QED  BY <1>1, <1>2, <1>3

LEMMA ShapePatch ==
  ASSUME ShapeInv, Patch PROVE ShapeInv'
<1> DEFINE code == Patched(Chunk.code, Task.at)
           f == [Chunk EXCEPT !.code = code]
<1>1. /\ InputOK /\ pos > 0 /\ status = "compiling" /\ Task.do = "patchJump"
      /\ CompilersOK(compilers, functions)
  BY AtTask DEF Patch
<1>2. SetChunk(f) /\ Stay(TooFar(Chunk.code, Task.at)) /\ Continue(<<>>) /\ UNCHANGED compilers
  BY DEF Patch
<1>3. Task.at \in 1..Len(Chunk.code) /\ Chunk \in Fun /\ Chunk.code \in Seq(Instr)
      /\ ConstsOK(Chunk, functions) /\ Len(Chunk.code) \in Nat
  BY <1>1, JumpThere, CompOK
<1>4. code \in Seq(Instr) /\ Len(code) = Len(Chunk.code)
  BY <1>3, PatchedOK
<1> HIDE DEF code
<1>5. f \in Fun /\ f.code = code /\ f.consts = Chunk.consts
  BY <1>3, <1>4 DEF Fun
<1>6. ConstsOK(f, functions) /\ Len(Chunk.code) <= Len(f.code)
  BY <1>3, <1>4, <1>5 DEF ConstsOK
<1> HIDE DEF f
<1>7. InputOK' /\ pos' > 0
  BY <1>1, <1>2, StayOK DEF Continue
<1>8. <<>> \in Seq(ACall) /\ DOMAIN <<>> = {}
  OBVIOUS
<1> QED  BY <1>1, <1>2, <1>5, <1>6, <1>7, <1>8, ShapeCode DEF Inner

LEMMA ShapeIfElse ==
  ASSUME ShapeInv, IfElse PROVE ShapeInv'
<1> DEFINE jump == Append(Chunk.code, I("JMP"))
           code == Append(Patched(jump, Task.at), I("POP"))
           f == [Chunk EXCEPT !.code = code]
           ends == IF Task.inline THEN <<>> ELSE <<Expect({"END", "ENDIF"})>>
           first == IF Is({"ELSE"}) THEN <<Call("statement")>> ELSE <<>>
           calls == first \o <<PatchJump(Len(jump))>> \o ends
<1>1. /\ InputOK /\ pos > 0 /\ status = "compiling" /\ Task.do = "else" /\ Task \in ACall
      /\ CompilersOK(compilers, functions)
  BY AtTask DEF IfElse
<1>2. /\ SetChunk(f) /\ Continue(calls) /\ UNCHANGED compilers
      /\ AdvanceAfter(TooFar(jump, Task.at)) \/ Stay(TooFar(jump, Task.at))
  BY DEF IfElse
<1>3. Task.at \in 1..Len(Chunk.code) /\ Chunk \in Fun /\ Chunk.code \in Seq(Instr)
      /\ ConstsOK(Chunk, functions) /\ Len(Chunk.code) \in Nat
  BY <1>1, JumpThere, CompOK
<1>4. I("JMP") \in Instr /\ I("POP") \in Instr
  BY IsInstr DEF Ops
<1>5. jump \in Seq(Instr) /\ Len(jump) = Len(Chunk.code) + 1
  BY <1>3, <1>4
<1>6. Patched(jump, Task.at) \in Seq(Instr) /\ Len(Patched(jump, Task.at)) = Len(Chunk.code) + 1
  <2> HIDE DEF jump
  <2>1. Task.at \in 1..Len(jump)
    BY <1>3, <1>5
  <2> QED  BY <2>1, <1>5, PatchedOK
<1>7. code \in Seq(Instr) /\ Len(code) = Len(Chunk.code) + 2
  BY <1>3, <1>4, <1>6
<1> HIDE DEF code
<1>8. f \in Fun /\ f.code = code /\ f.consts = Chunk.consts
  BY <1>3, <1>7 DEF Fun
<1>9. ConstsOK(f, functions) /\ Len(Chunk.code) <= Len(f.code)
  BY <1>3, <1>7, <1>8 DEF ConstsOK
<1> HIDE DEF f
<1>10. InputOK' /\ pos' > 0
  <2> HIDE DEF jump
  <2> QED  BY <1>1, <1>2, AdvanceOK, StayOK DEF Continue
<1> HIDE DEF jump
<1>11. /\ Expect({"END", "ENDIF"}) \in ACall /\ Easy(Expect({"END", "ENDIF"}))
       /\ Call("statement") \in ACall /\ Easy(Call("statement"))
  BY <1>1, EasyCalls DEF Expected, SimpleCalls, Inner, Loud
<1>12. /\ PatchJump(Len(jump)) \in ACall /\ PatchJump(Len(jump)).do = "patchJump"
       /\ PatchJump(Len(jump)).at = Len(jump) /\ Len(jump) \in 1..Len(f.code)
  BY <1>3, <1>5, <1>7, <1>8, CallsMade DEF PatchJump
<1>13. calls \in Seq(ACall)
       /\ \A k \in DOMAIN calls :
            \/ Easy(calls[k])
            \/ /\ calls[k].do \in {"patchJump", "else"} /\ calls[k].at \in 1..Len(f.code)
               /\ calls[k].do = "else" => Task.do \in Loud
  <2> DEFINE Fits(u) == \/ Easy(u)
                        \/ /\ u.do \in {"patchJump", "else"} /\ u.at \in 1..Len(f.code)
                           /\ u.do = "else" => Task.do \in Loud
             Fit(us) == us \in Seq(ACall) /\ \A k \in DOMAIN us : Fits(us[k])
  <2>1. Fit(first) /\ Fit(<<PatchJump(Len(jump))>>) /\ Fit(ends)
    <3>1. \A u \in ACall : Fits(u) => Fit(<<u>>)
      <4> HIDE DEF Fits
      <4> QED  OBVIOUS
    <3>2. Fit(<<>>)
      OBVIOUS
    <3> HIDE DEF Fit
    <3> QED  BY <1>11, <1>12, <3>1, <3>2
  <2>2. ASSUME NEW us, NEW vs, Fit(us), Fit(vs) PROVE Fit(us \o vs)
    <3> HIDE DEF Fits
    <3>1. us \in Seq(ACall) /\ vs \in Seq(ACall) /\ us \o vs \in Seq(ACall)
      BY <2>2
    <3>2. ASSUME NEW k \in DOMAIN (us \o vs)
          PROVE  \/ k \in DOMAIN us /\ (us \o vs)[k] = us[k]
                 \/ k - Len(us) \in DOMAIN vs /\ (us \o vs)[k] = vs[k - Len(us)]
      BY <3>1
    <3> QED  BY <2>2, <3>1, <3>2
  <2> HIDE DEF Fit, first, ends
  <2>3. Fit(calls)
    BY <2>1, <2>2
  <2> QED  BY <2>3 DEF Fit
<1> HIDE DEF calls
<1> QED  BY <1>1, <1>2, <1>8, <1>9, <1>10, <1>13, ShapeCode DEF Inner

-----------------------------------------------------------------------------
(* Synchronising.                                                          *)

LEMMA ResumePosOK ==
  ASSUME InputOK, pos > 0
  PROVE  /\ ResumePos \in pos..Len(input) /\ input[ResumePos].type # "ERROR"
         /\ ResumePos > pos => /\ pos \in pos..ResumePos-1
                               /\ {q \in pos..ResumePos-1 : input[q].type # "ERROR"} # {}
<1> DEFINE stops == {q \in pos..Len(input) :
                       input[q].type \in {"CLASS", "FUNC", "VAR", "FOR", "IF", "WHILE", "PRINT",
                                          "RETURN", "EOF"}}
<1>1. Len(input) \in Nat \ {0} /\ pos \in 1..Len(input) /\ input[Len(input)].type = "EOF"
      /\ input[pos].type # "ERROR"
  BY ProgramTokens DEF InputOK
<1>2. Len(input) \in stops /\ stops \in SUBSET Nat
  BY <1>1
<1>3. ResumePos \in stops
  <2> HIDE DEF stops
  <2>1. Least(stops) \in stops
    BY <1>2, LeastIsLeast
  <2> QED  BY <2>1 DEF ResumePos, stops
<1>4. ResumePos \in pos..Len(input) /\ input[ResumePos].type # "ERROR"
  BY <1>3
<1>5. ASSUME ResumePos > pos PROVE pos \in pos..ResumePos-1
  BY <1>1, <1>4, <1>5
<1> QED  BY <1>1, <1>4, <1>5

LEMMA ShapeEndDeclaration ==
  ASSUME ShapeInv, EndDeclaration PROVE ShapeInv'
<1>1. /\ InputOK /\ pos > 0 /\ status = "compiling" /\ Task.do = "endDeclaration"
  BY AtTask DEF EndDeclaration
<1>2. Continue(<<>>) /\ UNCHANGED <<compilers, functions>>
  BY DEF EndDeclaration
<1>3. InputOK' /\ pos' > 0
  <2>1. CASE ~panicMode
    BY <1>1, <1>2, <2>1, StayOK DEF Continue, EndDeclaration
  <2>2. CASE panicMode
    <3> DEFINE passed == pos..ResumePos-1
               tokens == {q \in passed : input[q].type # "ERROR"}
    <3>1. /\ pos' = ResumePos /\ prev' = IF passed = {} THEN prev ELSE input[Greatest(tokens)]
          /\ panicMode' = (passed # tokens) /\ hadError' = hadError
          /\ status' \in {"compiling", "crashed"} /\ input' = input
      BY <1>2, <2>2 DEF EndDeclaration, Report, Continue
    <3>2. ResumePos \in pos..Len(input) /\ input[ResumePos].type # "ERROR"
          /\ (ResumePos > pos => tokens # {})
      BY <1>1, ResumePosOK
    <3>3. Len(input) \in Nat /\ pos \in 1..Len(input)
      BY <1>1, ProgramTokens DEF InputOK
    <3>4. prev' \in {input[i] : i \in 1..ResumePos} \cup Garbage
      <4>1. CASE passed = {}
        <5>1. 1..pos \subseteq 1..ResumePos
          BY <3>2, <3>3
        <5> QED  BY <1>1, <3>1, <4>1, <5>1 DEF InputOK
      <4>2. CASE passed # {}
        <5>1. ResumePos > pos
          BY <3>2, <3>3, <4>2
        <5>2. tokens \in SUBSET (0..ResumePos) /\ tokens # {} /\ ResumePos \in Nat
          BY <3>2, <3>3, <5>1
        <5>3. Greatest(tokens) \in tokens
          <6> HIDE DEF tokens
          <6> QED  BY <5>2, GreatestIsGreatest
        <5>4. \A i \in tokens : i \in 1..ResumePos
          BY <3>2, <3>3
        <5> QED  BY <3>1, <4>2, <5>3, <5>4
      <4> QED  BY <4>1, <4>2
    <3>5. hadError /\ hadError \in BOOLEAN
      BY <1>1, <2>2 DEF InputOK
    <3>6. panicMode' \in BOOLEAN
      <4> HIDE DEF passed, tokens
      <4> QED  BY <3>1
    <3>7. pos' \in 1..Len(input) /\ pos' = ResumePos
      BY <3>1, <3>2, <3>3
    <3> HIDE DEF passed, tokens
    <3> QED  BY <1>1, <3>1, <3>2, <3>4, <3>5, <3>6, <3>7 DEF InputOK
  <2> QED  BY <1>1, <2>1, <2>2
<1> QED  BY <1>1, <1>2, <1>3, ShapeEasy, EasySeqs DEF Inner

-----------------------------------------------------------------------------
(* The steps that declare a variable.                                      *)

LEMMA DeclaredOK ==
  ASSUME CompilersOK(compilers, functions), InputOK, pos > 0,
         NEW l, l = Declared \/ l = Initialised(Declared)
  PROVE  /\ l \in Seq(Local) /\ Len(Locals) <= Len(l) /\ Len(l) \in 1..Byte
         /\ l[1].depth = 0 /\ (Scope > 0 => Len(l) >= 2)
<1>1. /\ Locals \in Seq(Local) /\ Len(Locals) \in 1..Byte /\ Locals[1].depth = 0 /\ Scope \in Nat
      /\ Byte \in Nat /\ Byte > 1 /\ Name \in Text
  BY CompOK, TokenTexts, CompilerAssumption
<1> DEFINE new == [name |-> Name, depth |-> -1]
<1>2. new \in Local
  BY <1>1 DEF Local
<1>3. /\ Declared \in Seq(Local) /\ Len(Locals) <= Len(Declared) /\ Len(Declared) \in 1..Byte
      /\ Declared[1].depth = 0 /\ (Scope > 0 => Len(Declared) >= 2)
  <2> HIDE DEF new
  <2>1. Declared = IF Scope > 0 /\ Len(Locals) < Byte THEN Append(Locals, new) ELSE Locals
    BY DEF Declared, new
  <2> QED  BY <1>1, <1>2, <2>1
<1>4. CASE Scope > 0
  <2> DEFINE k == Len(Declared)
             last == [Declared[k] EXCEPT !.depth = Scope]
  <2>1. k \in 2..Byte /\ Declared[k] \in Local
    BY <1>3, <1>4
  <2>2. last \in Local
    BY <1>1, <2>1 DEF Local
  <2>3. Initialised(Declared) = [Declared EXCEPT ![k] = last]
    BY <1>4 DEF Initialised
  <2> HIDE DEF last
  <2>4. /\ Initialised(Declared) \in Seq(Local) /\ Len(Initialised(Declared)) = k
        /\ Initialised(Declared)[1] = Declared[1]
    BY <1>3, <2>1, <2>2, <2>3
  <2> QED  BY <1>3, <1>4, <2>1, <2>4
<1>5. CASE ~(Scope > 0)
  BY <1>3, <1>5 DEF Initialised
<1> QED  BY <1>4, <1>5

(* Calls that can be made where a variable has just been declared.         *)
AfterName(calls) ==
  calls \in Seq(ACall) /\ \A m \in Mark : (m.scope > 0 => m.two) => Placed(calls, m)

LEMMA EasyAfterName ==
  ASSUME NEW calls, EasySeq(calls) PROVE AfterName(calls)
BY EasyPlain DEF AfterName, EasySeq, Placed, Easy

LEMMA ShapeParseVariable ==
  ASSUME ShapeInv, NEW name \in {"funDeclaration", "varDeclaration", "globalDeclaration", "parameter"},
         At(name), NEW l, l = Declared \/ l = Initialised(Declared),
         NEW chunk \in Fun, chunk.code = Chunk.code, chunk.consts = Chunk.consts,
         NEW failed, ParseVariable(l, chunk, failed),
         NEW calls, AfterName(calls), Continue(calls)
  PROVE  ShapeInv'
<1>1. /\ InputOK /\ pos > 0 /\ status = "compiling" /\ Task.do = name
      /\ CompilersOK(compilers, functions)
  BY AtTask
<1> DEFINE c == [Comp EXCEPT !.locals = l]
           w == WithConstant(Identifier(Name))
           f == IF Scope > 0 THEN chunk ELSE w
<1>2. /\ SetCompiler(c) /\ SetChunk(f)
      /\ (\E b \in BOOLEAN : Advance(b)) \/ Stay(TRUE)
  BY DEF ParseVariable
<1>3. InputOK' /\ pos' > 0
  BY <1>1, <1>2, AdvanceOK, StayOK DEF Continue
<1>4. /\ l \in Seq(Local) /\ Len(Locals) <= Len(l) /\ Len(l) \in 1..Byte
      /\ l[1].depth = 0 /\ (Scope > 0 => Len(l) >= 2)
  BY <1>1, DeclaredOK
<1>5. Comp \in Compiling /\ Chunk \in Fun /\ ConstsOK(Chunk, functions) /\ Len(Chunk.code) \in Nat
      /\ Scope \in Nat
  BY <1>1, CompOK
<1>6. /\ c \in Compiling /\ c.fn = Comp.fn /\ c.type = Comp.type /\ c.scope = Scope /\ c.locals = l
  BY <1>4, <1>5 DEF Compiling, Scope
<1>7. w \in Fun /\ ConstsOK(w, functions) /\ w.code = Chunk.code
  BY <1>1, TokenTexts, IdentifierOK, WithConstantOK
<1> HIDE DEF w
<1>8. f \in Fun /\ f.code = Chunk.code /\ ConstsOK(f, functions)
  BY <1>5, <1>7 DEF ConstsOK
<1> HIDE DEF c, f
<1> DEFINE e == Exact(c, f, Len(compilers))
<1>9. Len(compilers) \in Nat
  BY <1>1 DEF CompilersOK, Compile
<1>10. e \in Mark /\ e.scope = Scope /\ (e.two <=> Len(l) >= 2)
  <2>1. Task.do \notin Loud
    BY <1>1 DEF Loud
  <2> QED  BY <1>6, <1>8, <1>9, <2>1, ExactIs
<1>11. Placed(calls, e) /\ calls \in Seq(ACall)
  <2> HIDE DEF e
  <2> QED  BY <1>4, <1>10 DEF AfterName
<1>12. /\ Len(Locals) <= Len(c.locals) /\ Len(c.locals) <= Byte /\ c.locals[1].depth = 0
       /\ Len(Chunk.code) <= Len(f.code) /\ Task.do \notin Inner
  <2>1. Len(l) <= Byte /\ Len(Chunk.code) <= Len(Chunk.code)
    BY <1>4, <1>5, CompilerAssumption
  <2> QED  BY <1>1, <1>4, <1>6, <1>8, <2>1 DEF Inner
<1> QED  BY <1>1, <1>2, <1>3, <1>6, <1>8, <1>11, <1>12, ShapeStay

LEMMA GlobalOK ==
  ASSUME CompilersOK(compilers, functions), InputOK, pos > 0
  PROVE  Global \in Nat
BY TokenTexts, IdentifierOK, WithConstantOK DEF Global

LEMMA DefinedLater ==
  ASSUME NEW d \in {"function", "initializer"}, NEW n \in Nat
  PROVE  AfterName(<<Call(d), DefineVariable(n)>>)
<1>1. Call(d) \in ACall /\ DefineVariable(n) \in ACall
  BY CallsMade DEF SimpleCalls
<1>2. ASSUME NEW m \in Mark, m.scope > 0 => m.two
      PROVE  Plain(Call(d), m) /\ Plain(DefineVariable(n), m)
  BY <1>2 DEF Plain, Call, DefineVariable
<1>3. Call(d).do \notin Loud /\ DefineVariable(n).do \notin Loud
  BY DEF Loud, Call, DefineVariable
<1> QED  BY <1>1, <1>2, <1>3 DEF AfterName, Placed

LEMMA ShapeFunDeclaration ==
  ASSUME ShapeInv, FunDeclaration PROVE ShapeInv'
<1>1. /\ InputOK /\ pos > 0 /\ CompilersOK(compilers, functions)
  BY AtTask DEF FunDeclaration
<1>2. Chunk \in Fun /\ AfterName(<<Call("function"), DefineVariable(Global)>>)
  BY <1>1, CompOK, GlobalOK, DefinedLater
<1> QED  BY <1>2, ShapeParseVariable DEF FunDeclaration

LEMMA ShapeVarDeclaration ==
  ASSUME ShapeInv, VarDeclaration PROVE ShapeInv'
<1>1. /\ InputOK /\ pos > 0 /\ CompilersOK(compilers, functions)
  BY AtTask DEF VarDeclaration
<1>2. Chunk \in Fun /\ AfterName(<<Call("initializer"), DefineVariable(Global)>>)
  BY <1>1, CompOK, GlobalOK, DefinedLater
<1> QED  BY <1>2, ShapeParseVariable DEF VarDeclaration

LEMMA ShapeGlobalDeclaration ==
  ASSUME ShapeInv, GlobalDeclaration PROVE ShapeInv'
<1> DEFINE calls == <<Call("initializer"), Output(<<IA("DEF", Global)>>), Call("globals")>>
<1>1. /\ InputOK /\ pos > 0 /\ CompilersOK(compilers, functions)
  BY AtTask DEF GlobalDeclaration
<1>2. Chunk \in Fun /\ Global \in Nat
  BY <1>1, CompOK, GlobalOK
<1>3. AfterName(calls)
  <2>1. <<IA("DEF", Global)>> \in Seq(Instr)
    BY <1>2, IsInstr DEF Ops
  <2>2. EasySeq(calls)
    BY <2>1, EasyCalls, EasySeqs DEF SimpleCalls, Inner, Loud
  <2> QED  BY <2>2, EasyAfterName
<1>4. At("globalDeclaration") /\ ParseVariable(Declared, Chunk, FALSE) /\ Continue(calls)
  BY DEF GlobalDeclaration
<1> HIDE DEF calls
<1> QED  BY <1>2, <1>3, <1>4, ShapeParseVariable

LEMMA ShapeParameter ==
  ASSUME ShapeInv, Parameter PROVE ShapeInv'
<1> DEFINE arity == Chunk.arity + 1
           chunk == [Chunk EXCEPT !.arity = arity]
           calls == <<Call("parameters")>>
<1>1. /\ InputOK /\ pos > 0 /\ CompilersOK(compilers, functions)
  BY AtTask DEF Parameter
<1>2. /\ chunk \in Fun /\ chunk.code = Chunk.code /\ chunk.consts = Chunk.consts
  <2>1. Chunk \in Fun /\ arity \in Nat
    BY <1>1, CompOK
  <2> HIDE DEF arity
  <2> QED  BY <2>1 DEF Fun
<1>3. AfterName(calls)
  <2>1. EasySeq(calls)
    BY EasyCalls, EasySeqs DEF SimpleCalls, Inner, Loud
  <2> QED  BY <2>1, EasyAfterName
<1>4. At("parameter") /\ ParseVariable(Initialised(Declared), chunk, arity > MaxArgs) /\ Continue(calls)
  BY DEF Parameter
<1> HIDE DEF calls, chunk, arity
<1> QED  BY <1>2, <1>3, <1>4, ShapeParseVariable

LEMMA ShapeDefine ==
  ASSUME ShapeInv, Define PROVE ShapeInv'
<1>1. /\ InputOK /\ pos > 0 /\ status = "compiling" /\ Task.do = "defineVariable" /\ Task \in ACall
      /\ CompilersOK(compilers, functions)
  BY AtTask DEF Define
<1>2. Stay(FALSE) /\ Continue(<<>>)
  BY DEF Define
<1>3. InputOK' /\ pos' > 0
  BY <1>1, <1>2, StayOK DEF Continue
<1>4. /\ Locals \in Seq(Local) /\ Len(Locals) \in 1..Byte /\ Locals[1].depth = 0 /\ Scope \in Nat
      /\ Comp \in Compiling /\ Chunk \in Fun /\ ConstsOK(Chunk, functions) /\ Len(Chunk.code) \in Nat
      /\ Byte \in Nat
  BY <1>1, CompOK, CompilerAssumption
<1>5. CASE Scope > 0
  <2> DEFINE k == Len(Locals)
             last == [Locals[k] EXCEPT !.depth = Scope]
             l == [Locals EXCEPT ![k] = last]
             c == [Comp EXCEPT !.locals = l]
  <2>1. SetCompiler(c) /\ UNCHANGED functions
    BY <1>5 DEF Define, Initialised, Locals
  <2>2. k >= 2
    <3>1. PICK m, n \in Mark : /\ m.scope = Scope /\ (m.two => Len(Locals) >= 2)
                               /\ Shape(Task, m, n)
      BY <1>1, ShapeNow
    <3> QED  BY <1>1, <1>5, <3>1 DEF Shape, Plain
  <2>3. k \in 2..Byte /\ Locals[k] \in Local
    BY <1>4, <2>2
  <2>4. last \in Local
    BY <1>4, <2>3 DEF Local
  <2> HIDE DEF last
  <2>5. l \in Seq(Local) /\ Len(l) = k /\ l[1] = Locals[1]
    <3>1. Locals \in Seq(Local) /\ k \in DOMAIN Locals /\ k # 1 /\ 1 \in DOMAIN Locals
      BY <1>4, <2>3
    <3> QED  BY <2>4, <3>1
  <2> HIDE DEF l
  <2>6. /\ c \in Compiling /\ c.fn = Comp.fn /\ c.type = Comp.type /\ c.scope = Scope /\ c.locals = l
    BY <1>4, <2>5 DEF Compiling, Scope
  <2> HIDE DEF c
  <2>7. /\ Len(Locals) <= Len(c.locals) /\ Len(c.locals) <= Byte /\ c.locals[1].depth = 0
        /\ Len(Chunk.code) <= Len(Chunk.code) /\ SetChunk(Chunk)
    BY <1>1, <1>4, <2>1, <2>3, <2>5, <2>6, Unchanged1
  <2>8. <<>> \in Seq(ACall) /\ Placed(<<>>, Exact(c, Chunk, Len(compilers)))
    BY DEF Placed
  <2> QED  BY <1>1, <1>2, <1>3, <1>4, <2>1, <2>6, <2>7, <2>8, ShapeStay DEF Inner
<1>6. CASE ~(Scope > 0)
  <2>1. Task.global \in Nat
    BY <1>1, CallFields
  <2>2. <<IA("DEF", Task.global)>> \in Seq(Instr)
    <3>1. \A n \in Nat : IA("DEF", n) \in Instr
      BY IsInstr DEF Ops
    <3>2. IA("DEF", Task.global) \in Instr
      BY <2>1, <3>1
    <3> QED  BY <3>2
  <2>3. Emit(<<IA("DEF", Task.global)>>) /\ UNCHANGED compilers
    BY <1>6 DEF Define
  <2> QED  BY <1>1, <1>2, <1>3, <2>2, <2>3, ShapeEmit, EasySeqs DEF Inner
<1> QED  BY <1>5, <1>6

-----------------------------------------------------------------------------
(* The steps into and out of a scope.                                      *)

LEMMA ShapeInScope ==
  ASSUME ShapeInv, At("statement"), InScope, UNCHANGED functions,
         NEW calls, EasySeq(calls), Continue(calls \o <<Call("endScope")>>),
         InputOK', pos' > 0
  PROVE  ShapeInv'
<1>1. /\ InputOK /\ pos > 0 /\ status = "compiling" /\ Task.do = "statement"
      /\ CompilersOK(compilers, functions)
  BY AtTask
<1>2. PICK m \in Mark, n \in Mark :
              /\ m.lvl = Len(compilers) /\ m.lvl > 0 /\ m.scope = Scope
              /\ m.two => Len(Locals) >= 2
              /\ m.len <= Len(Chunk.code)
              /\ Shape(Task, m, n) /\ n.lvl <= m.lvl
              /\ Shaped(Tail(tasks), n, compilers, functions)
  BY <1>1, ShapeNow
<1>3. Steady(m, n) /\ ~n.two
  BY <1>1, <1>2 DEF Shape, Loud
<1>4. Tail(tasks) \in Seq(ACall)
  BY <1>1, ShapeNow
<1>5. /\ Comp \in Compiling /\ Comp = compilers[1] /\ Len(Locals) \in 1..Byte
      /\ Locals[1].depth = 0 /\ Scope \in Nat /\ Chunk \in Fun /\ ConstsOK(Chunk, functions)
      /\ Len(Chunk.code) \in Nat
  BY <1>1, CompOK
<1> DEFINE c == [Comp EXCEPT !.scope = @ + 1]
<1>6. /\ c \in Compiling /\ c.fn = Comp.fn /\ c.type = Comp.type /\ c.scope = Scope + 1
      /\ c.locals = Locals
  <2>1. Comp.scope + 1 \in Nat
    BY <1>5 DEF Scope
  <2> QED  BY <1>5, <2>1 DEF Compiling, Scope, Locals
<1>7. SetCompiler(c) /\ SetChunk(Chunk)
  BY <1>1, Unchanged1 DEF InScope
<1> HIDE DEF c
<1>8. /\ CompilersOK(compilers', functions') /\ Len(compilers') = Len(compilers)
      /\ SameBelow(compilers, compilers', Len(compilers)) /\ Grown(functions, functions')
      /\ functions'[c.fn] = Chunk /\ compilers'[1] = c
  <2>1. c.fn = compilers[1].fn /\ c.type = compilers[1].type
        /\ Len(functions[c.fn].code) <= Len(Chunk.code)
    BY <1>5, <1>6 DEF Chunk
  <2>2. compilers' = Next1(compilers, c) /\ functions' = Replaced(functions, compilers[1].fn, Chunk)
    BY <1>5, <1>7 DEF SetCompiler, SetChunk, Next1, Replaced
  <2>3. Len(c.locals) \in 1..Byte /\ c.locals[1].depth = 0
    BY <1>5, <1>6
  <2> QED  BY <1>1, <1>5, <1>6, <2>1, <2>2, <2>3, CompilersKept
<1> DEFINE e == Exact(c, Chunk, Len(compilers))
<1>9. compilers \in Seq(Compiling) /\ compilers' \in Seq(Compiling) /\ compilers' # <<>>
      /\ Compile(compilers, functions) /\ Len(compilers) \in Nat
  BY <1>1, <1>8 DEF CompilersOK, Compile
<1>10. e \in Mark /\ e.lvl = Len(compilers) /\ e.scope = Scope + 1 /\ ~e.two /\ e.len = Len(Chunk.code)
  BY <1>1, <1>5, <1>6, <1>9, ExactIs DEF Loud
<1>11. Below(compilers', functions', e)
  <2>1. e = Exact(compilers'[1], functions'[compilers'[1].fn], Len(compilers'))
    BY <1>8
  <2>2. Len(Chunk.code) <= Len(Chunk.code)
    BY <1>5
  <2> QED  BY <1>8, <1>9, <2>1, <2>2, ExactBelow
<1> HIDE DEF e
<1>12. Shaped(Tail(tasks), n, compilers', functions')
  <2>1. SameBelow(compilers, compilers', n.lvl)
    BY <1>2, <1>3, <1>8 DEF Steady
  <2> QED  BY <1>2, <1>4, <1>8, <1>9, <2>1, ShapedFrame
<1>13. Shaped(<<Call("endScope")>> \o Tail(tasks), e, compilers', functions')
  <2>1. Call("endScope") \in ACall /\ Call("endScope").do = "endScope"
    BY CallsMade DEF SimpleCalls, Call
  <2>2. Shape(Call("endScope"), e, n) /\ n.lvl <= e.lvl
    <3>1. n.lvl = e.lvl /\ e.scope = n.scope + 1 /\ n.len <= e.len
      BY <1>2, <1>3, <1>5, <1>10 DEF Steady, Mark
    <3> QED  BY <1>2, <1>3, <1>10, <2>1, <3>1 DEF Shape
  <2> QED  BY <1>4, <1>10, <1>12, <2>1, <2>2, ShapedMore
<1>14. Shaped(calls \o (<<Call("endScope")>> \o Tail(tasks)), e, compilers', functions')
  <2>1. Steady(e, e) /\ e.lvl > 0
    BY <1>2, <1>10 DEF Steady, Mark
  <2>2. \A k \in DOMAIN calls : Plain(calls[k], e) /\ (calls[k].do \in Loud => ~e.two)
    BY <1>10, EasyPlain DEF EasySeq
  <2>3. <<Call("endScope")>> \o Tail(tasks) \in Seq(ACall) /\ calls \in Seq(ACall)
    BY <1>4, CallsMade DEF SimpleCalls, EasySeq
  <2> QED  BY <1>10, <1>13, <2>1, <2>2, <2>3, ShapedCalls
<1>15. tasks' = calls \o (<<Call("endScope")>> \o Tail(tasks)) /\ tasks' \in Seq(ACall)
  <2>1. <<Call("endScope")>> \in Seq(ACall) /\ calls \in Seq(ACall)
    BY CallsMade DEF SimpleCalls, EasySeq
  <2>2. tasks' = (calls \o <<Call("endScope")>>) \o Tail(tasks)
    BY DEF Continue
  <2> QED  BY <1>4, <2>1, <2>2
<1>16. Shaped(tasks', e, compilers', functions') /\ e.lvl = Len(compilers')
  BY <1>8, <1>10, <1>14, <1>15
<1>17. \E k \in Mark : /\ k.lvl = Len(compilers') /\ Below(compilers', functions', k)
                      /\ Shaped(tasks', k, compilers', functions')
  BY <1>10, <1>11, <1>16
<1>18. InputOK' /\ pos' # 0 /\ CompilersOK(compilers', functions') /\ tasks' \in Seq(ACall)
  BY <1>8, <1>15
<1> QED  BY <1>17, <1>18 DEF ShapeInv

LEMMA ShapeStatement ==
  ASSUME ShapeInv, Statement PROVE ShapeInv'
<1>1. /\ InputOK /\ pos > 0 /\ status = "compiling" /\ Task.do = "statement" /\ At("statement")
  BY AtTask DEF Statement
<1> DEFINE a == Parse(PrecAssignment)
           ends == Call("endScope")
<1>2. CASE \E calls : /\ calls \in {<<a, NextItem("values", 1)>>,
                                    <<a, Expect({"THEN"}), Call("then")>>,
                                    <<Call("returnValue")>>, <<a, Call("endExpression")>>}
                      /\ (Advance(FALSE) \/ Stay(FALSE))
                      /\ Continue(calls) /\ UNCHANGED <<compilers, functions>>
  <2>1. PICK calls : /\ calls \in {<<a, NextItem("values", 1)>>,
                                    <<a, Expect({"THEN"}), Call("then")>>,
                                    <<Call("returnValue")>>, <<a, Call("endExpression")>>}
                      /\ (Advance(FALSE) \/ Stay(FALSE))
                      /\ Continue(calls) /\ UNCHANGED <<compilers, functions>>
    BY <1>2
  <2>2. InputOK' /\ pos' > 0
    BY <1>1, <2>1, AdvanceOK, StayOK DEF Continue
  <2>3. /\ a \in ACall /\ Easy(a) /\ NextItem("values", 1) \in ACall /\ Easy(NextItem("values", 1))
        /\ Expect({"THEN"}) \in ACall /\ Easy(Expect({"THEN"}))
        /\ Call("then") \in ACall /\ Easy(Call("then"))
    BY <1>1, EasyCalls DEF PrecAssignment, Expected, SimpleCalls, Inner, Loud
  <2>4. /\ Call("returnValue") \in ACall /\ Easy(Call("returnValue"))
        /\ Call("endExpression") \in ACall /\ Easy(Call("endExpression"))
    BY EasyCalls DEF SimpleCalls, Inner, Loud
  <2> HIDE DEF a
  <2>5. EasySeq(calls)
    BY <2>1, <2>3, <2>4, EasySeqs
  <2> QED  BY <1>1, <2>1, <2>2, <2>5, ShapeEasy DEF Inner
<1>3. CASE \E calls : /\ calls \in {<<DeclareUntil({"}"}), Expect({"}"})>>, <<Call("declaration")>>,
                                    <<DeclareUntil({"ELSE"})>>, <<DeclareUntil({"ENDIF"})>>}
                      /\ (Advance(FALSE) \/ Stay(FALSE))
                      /\ Continue(calls \o <<ends>>) /\ InScope /\ UNCHANGED functions
  <2>1. PICK calls : /\ calls \in {<<DeclareUntil({"}"}), Expect({"}"})>>, <<Call("declaration")>>,
                                    <<DeclareUntil({"ELSE"})>>, <<DeclareUntil({"ENDIF"})>>}
                      /\ (Advance(FALSE) \/ Stay(FALSE))
                      /\ Continue(calls \o <<ends>>) /\ InScope /\ UNCHANGED functions
    BY <1>3
  <2>2. InputOK' /\ pos' > 0
    BY <1>1, <2>1, AdvanceOK, StayOK DEF Continue
  <2>3. /\ \A s \in Ends : DeclareUntil(s) \in ACall /\ Easy(DeclareUntil(s))
        /\ Expect({"}"}) \in ACall /\ Easy(Expect({"}"}))
        /\ Call("declaration") \in ACall /\ Easy(Call("declaration"))
    BY <1>1, EasyCalls DEF Expected, SimpleCalls, Inner, Loud
  <2>4. {"}"} \in Ends /\ {"ELSE"} \in Ends /\ {"ENDIF"} \in Ends
    BY DEF Ends
  <2>5. EasySeq(calls)
    BY <2>1, <2>3, <2>4, EasySeqs
  <2> QED  BY <1>1, <2>1, <2>2, <2>5, ShapeInScope
<1> QED
  <2>1. CASE Keyword("PRINT", <<a, NextItem("values", 1)>>)
    BY <1>2, <2>1 DEF Keyword
  <2>2. CASE Keyword("IF", <<a, Expect({"THEN"}), Call("then")>>)
    BY <1>2, <2>2 DEF Keyword
  <2>3. CASE Keyword("RETURN", <<Call("returnValue")>>)
    BY <1>2, <2>3 DEF Keyword
  <2>4. CASE Continue(<<a, Call("endExpression")>>) /\ Stay(FALSE) /\ UNCHANGED <<compilers, functions>>
    BY <1>2, <2>4
  <2>5. CASE Block
    <3>1. <<DeclareUntil({"}"}), Expect({"}"}), ends>> = <<DeclareUntil({"}"}), Expect({"}"})>> \o <<ends>>
      <4>1. \A x, y, z \in ACall : <<x, y, z>> = <<x, y>> \o <<z>>
        OBVIOUS
      <4>2. DeclareUntil({"}"}) \in ACall /\ Expect({"}"}) \in ACall /\ ends \in ACall
        BY CallsMade DEF Expected, Ends, SimpleCalls
      <4> QED  BY <4>1, <4>2
    <3> QED  BY <1>3, <2>5, <3>1 DEF Block
  <2>6. CASE /\ \E d \in {Call("declaration"), DeclareUntil({"ELSE"}), DeclareUntil({"ENDIF"})} :
                  Continue(<<d, ends>>)
             /\ Stay(FALSE) /\ InScope /\ UNCHANGED functions
    <3>1. PICK d \in {Call("declaration"), DeclareUntil({"ELSE"}), DeclareUntil({"ENDIF"})} :
                  Continue(<<d, ends>>)
      BY <2>6
    <3>2. <<d, ends>> = <<d>> \o <<ends>>
      OBVIOUS
    <3>3. Continue(<<d>> \o <<ends>>)
      BY <3>1, <3>2
    <3> QED  BY <1>3, <2>6, <3>1, <3>3
  <2> QED  BY <2>1, <2>2, <2>3, <2>4, <2>5, <2>6 DEF Statement

(* Local 1 is never dropped.                                               *)
LEMMA KeptLocals ==
  ASSUME NEW ls \in Seq(Local), Len(ls) \in Nat \ {0}, ls[1].depth = 0, NEW d \in Nat
  PROVE  LET kept  == {i \in DOMAIN ls : ls[i].depth <= d}
             count == IF kept = {} THEN 0 ELSE Greatest(kept)
         IN  /\ count \in 1..Len(ls) /\ ls[count].depth <= d
             /\ \A i \in count+1..Len(ls) : ~(ls[i].depth <= d)
<1> DEFINE kept  == {i \in DOMAIN ls : ls[i].depth <= d}
           count == IF kept = {} THEN 0 ELSE Greatest(kept)
<1>1. DOMAIN ls = 1..Len(ls) /\ 1 \in kept /\ kept \in SUBSET (0..Len(ls))
  OBVIOUS
<1>2. count \in kept /\ \A i \in kept : i <= count
  <2> HIDE DEF kept
  <2>1. kept # {} /\ Greatest(kept) \in kept /\ \A i \in kept : i <= Greatest(kept)
    BY <1>1, GreatestIsGreatest
  <2> QED  BY <2>1
<1> HIDE DEF count
<1>3. count \in 1..Len(ls) /\ ls[count].depth <= d
  BY <1>1, <1>2
<1>4. ASSUME NEW i \in count+1..Len(ls), ls[i].depth <= d PROVE FALSE
  <2>1. i \in DOMAIN ls /\ ~(i <= count)
    BY <1>1, <1>3
  <2> QED  BY <1>2, <1>4, <2>1
<1> QED  BY <1>3, <1>4 DEF count

LEMMA ShapeEndScope ==
  ASSUME ShapeInv, EndScope PROVE ShapeInv'
<1> DEFINE depth == Scope - 1
           kept  == {i \in DOMAIN Locals : Locals[i].depth <= depth}
           count == IF kept = {} THEN 0 ELSE Greatest(kept)
           pops  == [i \in 1..Len(Locals) - count |-> I("POP")]
           l == SubSeq(Locals, 1, count)
           c == [Comp EXCEPT !.scope = depth, !.locals = l]
           f == Emitted(pops)
<1>1. /\ InputOK /\ pos > 0 /\ status = "compiling" /\ Task.do = "endScope"
      /\ CompilersOK(compilers, functions)
  BY AtTask DEF EndScope
<1>2. PICK m \in Mark, n \in Mark :
              /\ m.lvl = Len(compilers) /\ m.lvl > 0 /\ m.scope = Scope
              /\ m.len <= Len(Chunk.code)
              /\ Shape(Task, m, n) /\ n.lvl <= m.lvl
              /\ Shaped(Tail(tasks), n, compilers, functions)
  BY <1>1, ShapeNow
<1>3. n.lvl = m.lvl /\ m.scope = n.scope + 1 /\ n.len <= m.len /\ ~n.two
  BY <1>1, <1>2 DEF Shape, Plain
<1>4. Tail(tasks) \in Seq(ACall)
  BY <1>1, ShapeNow
<1>5. /\ Comp \in Compiling /\ Comp = compilers[1] /\ Locals \in Seq(Local) /\ Len(Locals) \in 1..Byte
      /\ Locals[1].depth = 0 /\ Scope \in Nat /\ Len(Chunk.code) \in Nat /\ Byte \in Nat
  BY <1>1, CompOK, CompilerAssumption
<1>6. depth \in Nat /\ depth = n.scope
  <2>1. n.scope \in Nat
    BY DEF Mark
  <2> QED  BY <1>2, <1>3, <1>5, <2>1, SMTT(30)
<1>7. count \in 1..Len(Locals)
  <2> HIDE DEF depth
  <2>1. Len(Locals) \in Nat \ {0}
    BY <1>5
  <2> QED  BY <1>5, <1>6, <2>1, KeptLocals
<1>8. InputOK' /\ pos' > 0 /\ Continue(<<>>)
  BY <1>1, StayOK DEF Continue, EndScope
<1>9. SetCompiler(c) /\ Emit(pops)
  BY DEF EndScope, Locals
<1> HIDE DEF count, depth
<1>10. l \in Seq(Local) /\ Len(l) = count /\ l[1] = Locals[1]
  BY <1>5, <1>7
<1> HIDE DEF l
<1>11. c \in Compiling /\ c.fn = Comp.fn /\ c.type = Comp.type /\ c.scope = depth /\ c.locals = l
  BY <1>5, <1>6, <1>10 DEF Compiling
<1>12. pops \in Seq(Instr)
  <2>1. Len(Locals) - count \in Nat /\ I("POP") \in Instr
    BY <1>5, <1>7, IsInstr DEF Ops
  <2> QED  BY <2>1
<1> HIDE DEF c, pops
<1>13. f \in Fun /\ ConstsOK(f, functions) /\ Len(Chunk.code) <= Len(f.code) /\ SetChunk(f)
       /\ Len(f.code) \in Nat
  <2>1. f \in Fun /\ ConstsOK(f, functions) /\ Len(Chunk.code) <= Len(f.code) /\ SetChunk(f)
    BY <1>1, <1>9, <1>12, EmittedOK
  <2>2. f.code \in Seq(Instr)
    BY <2>1 DEF Fun
  <2> QED  BY <2>1, <2>2
<1> HIDE DEF f
<1>14. /\ CompilersOK(compilers', functions') /\ Len(compilers') = Len(compilers)
       /\ SameBelow(compilers, compilers', Len(compilers)) /\ Grown(functions, functions')
       /\ functions'[c.fn] = f /\ compilers'[1] = c
  <2>1. c.fn = compilers[1].fn /\ c.type = compilers[1].type
        /\ Len(functions[c.fn].code) <= Len(f.code)
    BY <1>5, <1>11, <1>13 DEF Chunk
  <2>2. compilers' = Next1(compilers, c) /\ functions' = Replaced(functions, compilers[1].fn, f)
    BY <1>5, <1>9, <1>13 DEF SetCompiler, SetChunk, Next1, Replaced
  <2>3. Len(c.locals) \in 1..Byte /\ c.locals[1].depth = 0
    BY <1>5, <1>7, <1>10, <1>11
  <2> QED  BY <1>1, <1>11, <1>13, <2>1, <2>2, <2>3, CompilersKept
<1> DEFINE e == Exact(c, f, Len(compilers))
<1>15. compilers \in Seq(Compiling) /\ compilers' \in Seq(Compiling) /\ compilers' # <<>>
       /\ Compile(compilers, functions) /\ Len(compilers) \in Nat
  BY <1>1, <1>14 DEF CompilersOK, Compile
<1>16. e \in Mark /\ e.lvl = Len(compilers) /\ e.scope = depth /\ e.len = Len(f.code)
  BY <1>11, <1>13, <1>15, ExactIs
<1>17. Below(compilers', functions', e)
  <2>1. e = Exact(compilers'[1], functions'[compilers'[1].fn], Len(compilers'))
    BY <1>14
  <2>2. Len(f.code) <= Len(f.code)
    BY <1>13
  <2> QED  BY <1>14, <1>15, <2>1, <2>2, ExactBelow
<1> HIDE DEF e
<1>18. Shaped(Tail(tasks), n, compilers', functions')
  <2>1. SameBelow(compilers, compilers', n.lvl)
    BY <1>2, <1>3, <1>14
  <2> QED  BY <1>2, <1>4, <1>14, <1>15, <2>1, ShapedFrame
<1>19. Steady(e, n) /\ n.lvl > 0
  <2>1. n.len <= e.len
    BY <1>2, <1>3, <1>5, <1>13, <1>16 DEF Mark
  <2> QED  BY <1>2, <1>3, <1>6, <1>16, <2>1 DEF Steady
<1>20. Shaped(Tail(tasks), e, compilers', functions')
  BY <1>4, <1>16, <1>18, <1>19, ShapedFrom
<1>21. tasks' = Tail(tasks)
  <2>1. \A s \in Seq(ACall) : <<>> \o s = s
    OBVIOUS
  <2> QED  BY <1>4, <1>8, <2>1 DEF Continue
<1>22. \E k \in Mark : /\ k.lvl = Len(compilers') /\ Below(compilers', functions', k)
                      /\ Shaped(tasks', k, compilers', functions')
  BY <1>14, <1>16, <1>17, <1>20, <1>21
<1>23. InputOK' /\ pos' # 0 /\ CompilersOK(compilers', functions') /\ tasks' \in Seq(ACall)
  BY <1>4, <1>8, <1>14, <1>21
<1> QED  BY <1>22, <1>23 DEF ShapeInv

-----------------------------------------------------------------------------
(* The steps into and out of a function.                                   *)

LEMMA NewOnes ==
  /\ NewFunction \in Fun /\ Len(NewFunction.code) = 0
  /\ \A fs : ConstsOK(NewFunction, fs)
  /\ \A n \in Nat : \A d \in {"script", "function"} : \A k \in Nat :
       /\ NewCompiler(n, d, k) \in Compiling
       /\ NewCompiler(n, d, k).fn = n /\ NewCompiler(n, d, k).type = d
       /\ NewCompiler(n, d, k).scope = k /\ Len(NewCompiler(n, d, k).locals) = 1
       /\ NewCompiler(n, d, k).locals[1].depth = 0
<1>1. <<>> \in Seq(Instr) /\ <<>> \in Seq(Kept) /\ DOMAIN <<>> = {}
  OBVIOUS
<1>2. [name |-> "", depth |-> 0] \in Local
  <2>1. "" \in Text
    BY DEF Text
  <2>2. \A s \in Text : [name |-> s, depth |-> 0] \in Local
    BY DEF Local
  <2> QED  BY <2>1, <2>2
<1>3. <<[name |-> "", depth |-> 0]>> \in Seq(Local)
  <2>1. \A x \in Local : <<x>> \in Seq(Local)
    OBVIOUS
  <2> QED  BY <1>2, <2>1
<1> QED  BY <1>1, <1>3 DEF NewFunction, NewCompiler, Fun, ConstsOK, Compiling

(* One more compiler, of a new function.                                   *)
LEMMA Pushed ==
  ASSUME NEW cs, NEW fs, CompilersOK(cs, fs)
  PROVE  LET c == NewCompiler(Len(fs) + 1, "function", 1)
             ds == <<c>> \o cs
             gs == Append(fs, NewFunction)
         IN  /\ CompilersOK(ds, gs) /\ Len(ds) = Len(cs) + 1 /\ ds[1] = c /\ Len(cs) \in Nat \ {0}
             /\ Grown(fs, gs) /\ SameBelow(cs, ds, Len(cs) + 1) /\ gs[c.fn] = NewFunction
<1> DEFINE c == NewCompiler(Len(fs) + 1, "function", 1)
           ds == <<c>> \o cs
           gs == Append(fs, NewFunction)
<1>1. /\ cs \in Seq(Compiling) /\ cs # <<>> /\ fs \in Seq(Fun) /\ Enclosing(cs)
      /\ \A i \in DOMAIN cs : cs[i].fn \in DOMAIN fs
      /\ \A h \in DOMAIN fs : ConstsOK(fs[h], fs)
  BY DEF CompilersOK, Compile
<1>2. Len(fs) + 1 \in Nat /\ Len(cs) \in Nat \ {0} /\ DOMAIN fs = 1..Len(fs) /\ DOMAIN cs = 1..Len(cs)
  BY <1>1
<1>3. /\ c \in Compiling /\ c.fn = Len(fs) + 1 /\ c.type = "function" /\ Len(c.locals) = 1
      /\ c.locals[1].depth = 0
  BY <1>2, NewOnes
<1> HIDE DEF c
<1>4. /\ ds \in Seq(Compiling) /\ Len(ds) = Len(cs) + 1 /\ ds # <<>> /\ ds[1] = c
      /\ DOMAIN ds = 1..Len(cs)+1 /\ \A i \in 2..Len(cs)+1 : ds[i] = cs[i - 1]
  BY <1>1, <1>3
<1>5. /\ gs \in Seq(Fun) /\ Len(gs) = Len(fs) + 1 /\ gs[Len(fs) + 1] = NewFunction
      /\ DOMAIN gs = 1..Len(fs)+1 /\ \A h \in 1..Len(fs) : gs[h] = fs[h]
  BY <1>1, NewOnes
<1> HIDE DEF ds, gs
<1>6. ASSUME NEW h \in DOMAIN gs PROVE ConstsOK(gs[h], gs)
  <2>1. CASE h = Len(fs) + 1
    BY <2>1, <1>5, NewOnes
  <2>2. CASE h # Len(fs) + 1
    <3>1. h \in 1..Len(fs)
      BY <2>2, <1>2, <1>5
    <3>2. gs[h] = fs[h] /\ ConstsOK(fs[h], fs)
      BY <3>1, <1>1, <1>2, <1>5
    <3> QED  BY <3>2, <1>2, <1>5 DEF ConstsOK
  <2> QED  BY <2>1, <2>2
<1>7. Grown(fs, gs)
  <2>1. ASSUME NEW h \in 1..Len(fs) PROVE Len(fs[h].code) <= Len(gs[h].code)
    <3>1. fs[h] \in Fun /\ gs[h] = fs[h]
      BY <1>1, <1>2, <1>5
    <3>2. fs[h].code \in Seq(Instr)
      BY <3>1 DEF Fun
    <3> QED  BY <3>1, <3>2
  <2> QED  BY <2>1, <1>1, <1>2, <1>5 DEF Grown
<1>8. Compile(ds, gs)
  <2>1. ASSUME NEW i \in DOMAIN ds PROVE ds[i].fn \in DOMAIN gs
    <3>1. CASE i = 1
      BY <3>1, <1>2, <1>3, <1>4, <1>5
    <3>2. CASE i # 1
      <4>1. i - 1 \in DOMAIN cs /\ ds[i] = cs[i - 1]
        BY <3>2, <1>2, <1>4
      <4> QED  BY <4>1, <1>1, <1>2, <1>5
    <3> QED  BY <3>1, <3>2
  <2> QED  BY <2>1, <1>4 DEF Compile
<1>9. Enclosing(ds)
  <2>1. ASSUME NEW i \in DOMAIN ds
        PROVE  /\ ds[i].type = IF i = Len(ds) THEN "script" ELSE "function"
               /\ Len(ds[i].locals) \in 1..Byte
               /\ ds[i].locals[1].depth = 0
    <3>1. CASE i = 1
      <4>1. 1 \in 1..Byte
        BY CompilerAssumption
      <4>2. 1 # Len(ds)
        BY <1>2, <1>4
      <4> QED  BY <3>1, <4>1, <4>2, <1>3, <1>4
    <3>2. CASE i # 1
      <4>1. i - 1 \in DOMAIN cs /\ ds[i] = cs[i - 1] /\ (i = Len(ds) <=> i - 1 = Len(cs))
        BY <3>2, <1>2, <1>4
      <4> QED  BY <4>1, <1>1 DEF Enclosing
    <3> QED  BY <3>1, <3>2
  <2>2. ASSUME NEW i \in DOMAIN ds, NEW j \in DOMAIN ds, i < j PROVE ds[j].fn < ds[i].fn
    <3>1. j - 1 \in DOMAIN cs /\ ds[j] = cs[j - 1]
      BY <2>2, <1>2, <1>4
    <3>2. CASE i = 1
      <4>1. ds[j].fn \in 1..Len(fs)
        BY <3>1, <1>1, <1>2
      <4> QED  BY <3>2, <4>1, <1>2, <1>3, <1>4
    <3>3. CASE i # 1
      <4>1. i - 1 \in DOMAIN cs /\ ds[i] = cs[i - 1] /\ i - 1 < j - 1
        BY <3>3, <2>2, <1>2, <1>4
      <4> QED  BY <3>1, <4>1, <1>1 DEF Enclosing
    <3> QED  BY <3>2, <3>3
  <2>3. ds[Len(ds)].fn = 1
    <3>1. ds[Len(ds)] = cs[Len(cs)]
      BY <1>2, <1>4
    <3> QED  BY <3>1, <1>1 DEF Enclosing
  <2> QED  BY <2>1, <2>2, <2>3 DEF Enclosing
<1>10. SameBelow(cs, ds, Len(cs) + 1)
  <2>1. ASSUME NEW l \in 1..(Len(cs)+1)-1 PROVE ds[Len(ds) + 1 - l] = cs[Len(cs) + 1 - l]
    <3>1. Len(ds) + 1 - l \in 2..Len(cs)+1 /\ (Len(ds) + 1 - l) - 1 = Len(cs) + 1 - l
      BY <1>2, <1>4
    <3> QED  BY <3>1, <1>4
  <2> QED  BY <2>1, <1>2, <1>4 DEF SameBelow
<1>11. gs[c.fn] = NewFunction
  BY <1>3, <1>5
<1> QED  BY <1>2, <1>4, <1>5, <1>6, <1>7, <1>8, <1>9, <1>10, <1>11 DEF CompilersOK, ds, gs, c

(* What holds of the innermost compiler holds of what is less precise.     *)
LEMMA BelowNow ==
  ASSUME CompilersOK(compilers, functions), NEW m \in Mark, NEW n \in Mark, Steady(m, n),
         m.lvl = Len(compilers), m.lvl > 0, m.scope = Scope, m.two => Len(Locals) >= 2,
         m.len <= Len(Chunk.code)
  PROVE  Below(compilers, functions, n)
<1>1. /\ Comp = compilers[1] /\ Len(Chunk.code) \in Nat /\ Len(compilers) \in Nat
  <2>1. compilers \in Seq(Compiling)
    BY DEF CompilersOK, Compile
  <2> QED  BY <2>1, CompOK
<1>2. n.lvl = Len(compilers) /\ n.scope = Scope /\ (n.two => Len(Locals) >= 2)
  BY DEF Steady
<1>3. n.len <= Len(Chunk.code)
  BY <1>1 DEF Steady, Mark
<1>4. n.lvl \in 1..Len(compilers) /\ Len(compilers) + 1 - n.lvl = 1
  BY <1>1, <1>2
<1> QED  BY <1>1, <1>2, <1>3, <1>4 DEF Below, Scope, Locals, Chunk

LEMMA ShapeFunction ==
  ASSUME ShapeInv, Function PROVE ShapeInv'
<1> DEFINE c == NewCompiler(Len(functions) + 1, "function", 1)
           a == <<Call("parameterList"), Expect({")"}), DeclareUntil({"END", "ENDFUNC"}),
                  Expect({"END", "ENDFUNC"})>>
           z == Call("endFunction")
           L == Len(compilers)
           m1 == [lvl |-> L + 1, scope |-> 1, two |-> FALSE, len |-> 0]
<1>1. /\ InputOK /\ pos > 0 /\ status = "compiling" /\ Task.do = "function"
      /\ CompilersOK(compilers, functions)
  BY AtTask DEF Function
<1>2. PICK m \in Mark, n \in Mark :
              /\ m.lvl = L /\ m.lvl > 0 /\ m.scope = Scope
              /\ m.two => Len(Locals) >= 2
              /\ m.len <= Len(Chunk.code)
              /\ Shape(Task, m, n) /\ n.lvl <= m.lvl
              /\ Shaped(Tail(tasks), n, compilers, functions)
  BY <1>1, ShapeNow
<1>3. Tail(tasks) \in Seq(ACall) /\ Steady(m, n)
  BY <1>1, <1>2, ShapeNow DEF Shape
<1>4. Below(compilers, functions, n) /\ n.lvl = L
  BY <1>1, <1>2, <1>3, BelowNow DEF Steady
<1>5. compilers' = <<c>> \o compilers /\ functions' = Append(functions, NewFunction)
  BY DEF Function
<1> HIDE DEF c
<1>6. /\ CompilersOK(compilers', functions') /\ Len(compilers') = L + 1 /\ compilers'[1] = c
      /\ L \in Nat \ {0} /\ Grown(functions, functions')
      /\ SameBelow(compilers, compilers', L + 1) /\ functions'[c.fn] = NewFunction
  BY <1>1, <1>5, Pushed DEF c
<1>7. /\ c.scope = 1 /\ Len(functions'[c.fn].code) = 0
  <2>1. Len(functions) + 1 \in Nat
    BY <1>1 DEF CompilersOK
  <2> QED  BY <1>6, <2>1, NewOnes DEF c
<1>8. m1 \in Mark /\ m1.lvl = L + 1 /\ m1.scope = 1 /\ ~m1.two /\ m1.len = 0
  BY <1>6 DEF Mark
<1> HIDE DEF m1
<1>9. Below(compilers', functions', m1)
  <2>1. L + 1 \in 1..Len(compilers') /\ Len(compilers') + 1 - (L + 1) = 1
    BY <1>6
  <2>2. m1.len <= Len(functions'[c.fn].code)
    BY <1>7, <1>8
  <2> QED  BY <1>6, <1>7, <1>8, <2>1, <2>2 DEF Below
<1>10. Compile(compilers, functions) /\ compilers' \in Seq(Compiling)
  BY <1>1, <1>6 DEF CompilersOK, Compile
<1>11. Below(compilers', functions', n)
  <2>1. n.lvl < L + 1 /\ L + 1 \in Nat
    BY <1>4, <1>6
  <2> QED  BY <1>2, <1>4, <1>6, <1>10, <2>1, BelowFrame
<1>12. Shaped(Tail(tasks), n, compilers', functions')
  <2>1. SameBelow(compilers, compilers', n.lvl)
    BY <1>4, <1>6 DEF SameBelow
  <2> QED  BY <1>2, <1>3, <1>6, <1>10, <2>1, ShapedFrame
<1>13. z \in ACall /\ z.do = "endFunction"
  BY CallsMade DEF SimpleCalls, Call
<1>14. Shaped(<<z>> \o Tail(tasks), m1, compilers', functions')
  <2>1. Shape(z, m1, n) /\ n.lvl <= m1.lvl
    BY <1>2, <1>4, <1>6, <1>8, <1>13 DEF Shape
  <2> HIDE DEF z
  <2> QED  BY <1>2, <1>3, <1>8, <1>11, <1>12, <1>13, <2>1, ShapedMore
<1>15. a \in Seq(ACall) /\ \A k \in DOMAIN a : Plain(a[k], m1) /\ (a[k].do \in Loud => ~m1.two)
  <2>1. /\ Call("parameterList") \in ACall /\ Expect({")"}) \in ACall
        /\ DeclareUntil({"END", "ENDFUNC"}) \in ACall /\ Expect({"END", "ENDFUNC"}) \in ACall
    BY CallsMade DEF SimpleCalls, Expected, Ends
  <2>2. /\ Plain(Call("parameterList"), m1) /\ \A s : Plain(Expect(s), m1) /\ Plain(DeclareUntil(s), m1)
    BY DEF Plain, Call, Expect, DeclareUntil
  <2> QED  BY <1>8, <2>1, <2>2
<1>16. tasks' = a \o (<<z>> \o Tail(tasks))
  <2>1. <<Call("parameterList"), Expect({")"}), DeclareUntil({"END", "ENDFUNC"}),
          Expect({"END", "ENDFUNC"}), z>> = a \o <<z>>
    <3>1. \A p, q, r, s, t \in ACall : <<p, q, r, s, t>> = <<p, q, r, s>> \o <<t>>
      OBVIOUS
    <3>2. /\ Call("parameterList") \in ACall /\ Expect({")"}) \in ACall
          /\ DeclareUntil({"END", "ENDFUNC"}) \in ACall /\ Expect({"END", "ENDFUNC"}) \in ACall
      BY CallsMade DEF SimpleCalls, Expected, Ends
    <3> HIDE DEF z
    <3> QED  BY <1>13, <3>1, <3>2
  <2>2. tasks' = (a \o <<z>>) \o Tail(tasks)
    BY <2>1 DEF Function, Continue
  <2> HIDE DEF a, z
  <2>3. <<z>> \in Seq(ACall)
    BY <1>13
  <2> QED  BY <1>3, <1>15, <2>2, <2>3
<1> HIDE DEF a, z
<1>17. <<z>> \o Tail(tasks) \in Seq(ACall)
  BY <1>3, <1>13
<1>18. Shaped(tasks', m1, compilers', functions') /\ tasks' \in Seq(ACall)
  <2>1. Steady(m1, m1) /\ m1.lvl > 0
    BY <1>6, <1>8 DEF Steady
  <2>2. Shaped(a \o (<<z>> \o Tail(tasks)), m1, compilers', functions')
    BY <1>8, <1>14, <1>15, <1>17, <2>1, ShapedCalls
  <2> QED  BY <1>15, <1>16, <1>17, <2>2
<1>19. InputOK' /\ pos' > 0
  BY <1>1, MatchOK DEF Function, Continue
<1>20. \E k \in Mark : /\ k.lvl = Len(compilers') /\ Below(compilers', functions', k)
                      /\ Shaped(tasks', k, compilers', functions')
  BY <1>6, <1>8, <1>9, <1>18
<1>21. InputOK' /\ pos' # 0 /\ CompilersOK(compilers', functions') /\ tasks' \in Seq(ACall)
  BY <1>6, <1>18, <1>19
<1> QED  BY <1>20, <1>21 DEF ShapeInv

(* The innermost compiler is done, and its function is a constant of the   *)
(* next one.                                                               *)
LEMMA Popped ==
  ASSUME CompilersOK(compilers, functions), EndFunction, Len(compilers) > 1
  PROVE  /\ CompilersOK(compilers', functions') /\ Len(compilers') = Len(compilers) - 1
         /\ Grown(functions, functions') /\ SameBelow(compilers, compilers', Len(compilers))
<1> DEFINE cs == compilers
           ds == compilers'
           fs == functions
           gs == functions'
           g == cs[1].fn
           h == cs[2].fn
           v == Val("fun", g)
           k == IF Len(fs[h].consts) >= Byte THEN 0 ELSE Len(fs[h].consts)
           inner == [fs[g] EXCEPT !.code = @ \o EmitReturn]
           outer == [fs[h] EXCEPT !.consts = Append(@, v), !.code = Append(@, IA("CONST", k))]
<1>1. /\ cs \in Seq(Compiling) /\ fs \in Seq(Fun) /\ Enclosing(cs)
      /\ \A i \in DOMAIN cs : cs[i].fn \in DOMAIN fs
      /\ \A f \in DOMAIN fs : ConstsOK(fs[f], fs)
      /\ Comp = cs[1] /\ Len(cs) \in Nat
  BY CompOK DEF CompilersOK, Compile
<1>2. /\ 1 \in DOMAIN cs /\ 2 \in DOMAIN cs /\ DOMAIN fs = 1..Len(fs) /\ Len(fs) \in Nat
      /\ DOMAIN cs = 1..Len(cs)
  BY <1>1
<1>3. g \in 1..Len(fs) /\ h \in 1..Len(fs) /\ h < g /\ g # h
  BY <1>1, <1>2, SMTT(30) DEF Enclosing
<1>4. ds = Tail(cs) /\ gs = [fs EXCEPT ![g] = inner, ![h] = outer]
  <2>1. /\ compilers' = Tail(compilers)
        /\ functions' = [functions EXCEPT
             ![Comp.fn].code = @ \o EmitReturn,
             ![h].consts = Append(@, Val("fun", Comp.fn)),
             ![h].code = Append(@, IA("CONST", k))]
    BY SMTT(30) DEF EndFunction
  <2>2. functions' = [functions EXCEPT
             ![g].code = @ \o EmitReturn,
             ![h].consts = Append(@, v),
             ![h].code = Append(@, IA("CONST", k))]
    BY <1>1, <2>1, Zenon
  <2>3. fs[g] \in Fun /\ fs[h] \in Fun
    BY <1>1, <1>3
  <2> HIDE DEF g, h, k, v
  <2> QED  BY <1>1, <1>2, <1>3, <2>1, <2>2, <2>3, ZenonT(30) DEF Fun
<1>5. fs[g] \in Fun /\ fs[h] \in Fun
  BY <1>1, <1>3
<1>6. /\ fs[g].code \in Seq(Instr) /\ fs[h].code \in Seq(Instr) /\ fs[h].consts \in Seq(Kept)
      /\ Len(fs[h].consts) \in Nat
  BY <1>5 DEF Fun
<1>7. EmitReturn \in Seq(Instr) /\ Len(EmitReturn) = 2 /\ IA("CONST", k) \in Instr
  <2>1. k \in Nat
    BY <1>6
  <2>2. \A n \in Nat : IA("CONST", n) \in Instr
    BY IsInstr DEF Ops
  <2>3. EmitReturn \in Seq(Instr) /\ Len(EmitReturn) = 2
    BY IsInstr DEF EmitReturn, Ops
  <2> QED  BY <2>1, <2>2, <2>3
<1>8. v \in Kept /\ v.type = "fun" /\ v.v = g
  <2>1. \A n \in Nat : Val("fun", n) \in Kept /\ Val("fun", n).type = "fun" /\ Val("fun", n).v = n
    BY DEF Val, Kept
  <2> QED  BY <1>3, <2>1
<1> HIDE DEF k, v
<1>9. /\ inner \in Fun /\ inner.consts = fs[g].consts /\ inner.code = fs[g].code \o EmitReturn
      /\ Len(fs[g].code) <= Len(inner.code)
  <2> DEFINE code == fs[g].code \o EmitReturn
  <2>1. code \in Seq(Instr) /\ Len(fs[g].code) <= Len(code)
    BY <1>6, <1>7
  <2> HIDE DEF code
  <2>2. [fs[g] EXCEPT !.code = code] \in Fun /\ [fs[g] EXCEPT !.code = code].code = code
        /\ [fs[g] EXCEPT !.code = code].consts = fs[g].consts
    BY <1>5, <2>1 DEF Fun
  <2> QED  BY <2>1, <2>2 DEF code
<1>10. /\ outer \in Fun /\ outer.consts = Append(fs[h].consts, v)
       /\ outer.code = Append(fs[h].code, IA("CONST", k))
       /\ Len(fs[h].code) <= Len(outer.code)
  <2> DEFINE code == Append(fs[h].code, IA("CONST", k))
             consts == Append(fs[h].consts, v)
  <2>1. code \in Seq(Instr) /\ Len(fs[h].code) <= Len(code) /\ consts \in Seq(Kept)
    BY <1>6, <1>7, <1>8, SMTT(30)
  <2> HIDE DEF code, consts
  <2>2. [fs[h] EXCEPT !.consts = consts, !.code = code] \in Fun
        /\ [fs[h] EXCEPT !.consts = consts, !.code = code].code = code
        /\ [fs[h] EXCEPT !.consts = consts, !.code = code].consts = consts
    BY <1>5, <2>1 DEF Fun
  <2> QED  BY <2>1, <2>2 DEF code, consts
<1> HIDE DEF inner, outer, g, h
<1>11. /\ gs \in Seq(Fun) /\ Len(gs) = Len(fs) /\ gs[g] = inner /\ gs[h] = outer
       /\ \A f \in 1..Len(fs) : f # g /\ f # h => gs[f] = fs[f]
  BY <1>1, <1>3, <1>4, <1>9, <1>10
<1>12. ASSUME NEW f \in DOMAIN gs PROVE ConstsOK(gs[f], gs)
  <2>1. f \in 1..Len(fs) /\ ConstsOK(fs[f], fs)
    BY <1>1, <1>2, <1>11
  <2>2. CASE f = h
    <3>1. gs[f].consts = Append(fs[h].consts, v) /\ ConstsOK(fs[h], fs)
      BY <2>1, <2>2, <1>10, <1>11
    <3>2. ASSUME NEW i \in DOMAIN gs[f].consts
          PROVE  (i \in DOMAIN fs[h].consts /\ gs[f].consts[i] = fs[h].consts[i]) \/ gs[f].consts[i] = v
      BY <3>1, <1>6, <1>8
    <3> QED  BY <3>1, <3>2, <1>3, <1>8, <1>11 DEF ConstsOK
  <2>3. CASE f # h
    <3>1. gs[f].consts = fs[f].consts
      BY <2>1, <2>3, <1>9, <1>11
    <3> QED  BY <2>1, <3>1, <1>11 DEF ConstsOK
  <2> QED  BY <2>2, <2>3
<1>13. Grown(fs, gs)
  <2>1. ASSUME NEW f \in 1..Len(fs) PROVE Len(fs[f].code) <= Len(gs[f].code)
    <3>1. CASE f = g \/ f = h
      BY <3>1, <1>9, <1>10, <1>11
    <3>2. CASE f # g /\ f # h
      <4>1. gs[f] = fs[f] /\ fs[f] \in Fun
        BY <3>2, <1>1, <1>11
      <4>2. fs[f].code \in Seq(Instr)
        BY <4>1 DEF Fun
      <4> QED  BY <4>1, <4>2
    <3> QED  BY <3>1, <3>2
  <2> QED  BY <2>1, <1>1, <1>2, <1>11 DEF Grown
<1>14. /\ ds \in Seq(Compiling) /\ Len(ds) = Len(cs) - 1 /\ ds # <<>> /\ DOMAIN ds = 1..Len(cs)-1
       /\ \A i \in 1..Len(cs)-1 : ds[i] = cs[i + 1]
  <2> QED  BY <1>1, <1>4, TailIs
<1> HIDE DEF cs, ds, fs, gs
<1>15. Compile(ds, gs)
  <2>1. ASSUME NEW i \in DOMAIN ds PROVE ds[i].fn \in DOMAIN gs
    <3>1. i + 1 \in DOMAIN cs /\ ds[i] = cs[i + 1]
      BY <1>1, <1>2, <1>14
    <3> QED  BY <3>1, <1>1, <1>2, <1>11
  <2> QED  BY <2>1, <1>14 DEF Compile
<1>16. Enclosing(ds)
  <2>1. ASSUME NEW i \in DOMAIN ds
        PROVE  /\ ds[i].type = IF i = Len(ds) THEN "script" ELSE "function"
               /\ Len(ds[i].locals) \in 1..Byte
               /\ ds[i].locals[1].depth = 0
    <3>1. i + 1 \in DOMAIN cs /\ ds[i] = cs[i + 1] /\ (i = Len(ds) <=> i + 1 = Len(cs))
      BY <1>1, <1>2, <1>14
    <3> QED  BY <3>1, <1>1 DEF Enclosing
  <2>2. ASSUME NEW i \in DOMAIN ds, NEW j \in DOMAIN ds, i < j PROVE ds[j].fn < ds[i].fn
    <3>1. /\ i + 1 \in DOMAIN cs /\ ds[i] = cs[i + 1] /\ j + 1 \in DOMAIN cs /\ ds[j] = cs[j + 1]
          /\ i + 1 < j + 1
      BY <2>2, <1>1, <1>2, <1>14
    <3> QED  BY <3>1, <1>1 DEF Enclosing
  <2>3. ds[Len(ds)].fn = 1
    <3>1. ds[Len(ds)] = cs[Len(cs)]
      <4>1. Len(cs) - 1 \in 1..Len(cs)-1 /\ (Len(cs) - 1) + 1 = Len(cs)
        BY <1>1, <1>2
      <4> QED  BY <4>1, <1>14
    <3> QED  BY <3>1, <1>1 DEF Enclosing
  <2> QED  BY <2>1, <2>2, <2>3 DEF Enclosing
<1>17. SameBelow(cs, ds, Len(cs))
  <2>1. ASSUME NEW l \in 1..Len(cs)-1 PROVE ds[Len(ds) + 1 - l] = cs[Len(cs) + 1 - l]
    <3>1. Len(ds) + 1 - l \in 1..Len(cs)-1 /\ (Len(ds) + 1 - l) + 1 = Len(cs) + 1 - l
      BY <1>1, <1>14
    <3> QED  BY <3>1, <1>14, SMTT(30)
  <2> QED  BY <2>1, <1>1, <1>14 DEF SameBelow
<1> QED  BY <1>11, <1>12, <1>13, <1>14, <1>15, <1>16, <1>17 DEF CompilersOK, cs, ds, fs, gs

LEMMA ShapeEndFunction ==
  ASSUME ShapeInv, EndFunction PROVE ShapeInv'
<1>1. /\ InputOK /\ pos > 0 /\ status = "compiling" /\ Task.do = "endFunction"
      /\ CompilersOK(compilers, functions)
  BY AtTask DEF EndFunction
<1>2. PICK m \in Mark, n \in Mark :
              /\ m.lvl = Len(compilers) /\ m.lvl > 0
              /\ Shape(Task, m, n)
              /\ Below(compilers, functions, n)
              /\ Shaped(Tail(tasks), n, compilers, functions)
  BY <1>1, ShapeNow
<1>3. Tail(tasks) \in Seq(ACall) /\ n.lvl = m.lvl - 1 /\ n.lvl > 0
  BY <1>1, <1>2, ShapeNow, EndFunctionShape
<1>4. n.lvl \in Nat /\ Len(compilers) \in Nat
  <2>1. compilers \in Seq(Compiling)
    BY <1>1 DEF CompilersOK, Compile
  <2> QED  BY <2>1 DEF Mark
<1>5. /\ CompilersOK(compilers', functions') /\ Len(compilers') = Len(compilers) - 1
      /\ Grown(functions, functions') /\ SameBelow(compilers, compilers', Len(compilers))
  <2>1. Len(compilers) > 1
    BY <1>2, <1>3, <1>4
  <2> QED  BY <1>1, <2>1, Popped
<1>6. Compile(compilers, functions) /\ compilers' \in Seq(Compiling)
  BY <1>1, <1>5 DEF CompilersOK, Compile
<1>7. Below(compilers', functions', n)
  <2>1. n.lvl < Len(compilers)
    BY <1>2, <1>3, <1>4
  <2> QED  BY <1>2, <1>4, <1>5, <1>6, <2>1, BelowFrame
<1>8. Shaped(Tail(tasks), n, compilers', functions')
  <2>1. SameBelow(compilers, compilers', n.lvl)
    <3>1. n.lvl <= Len(compilers) + 1 /\ n.lvl <= Len(compilers') + 1
      BY <1>2, <1>3, <1>4, <1>5
    <3>2. \A l \in 1..n.lvl-1 : l \in 1..Len(compilers)-1
      BY <1>2, <1>3, <1>4
    <3> QED  BY <1>5, <3>1, <3>2 DEF SameBelow
  <2> QED  BY <1>2, <1>3, <1>5, <1>6, <2>1, ShapedFrame
<1>9. tasks' = Tail(tasks)
  <2>1. \A s \in Seq(ACall) : <<>> \o s = s
    OBVIOUS
  <2>2. tasks' = <<>> \o Tail(tasks)
    BY DEF EndFunction, Continue
  <2>3. <<>> \o Tail(tasks) = Tail(tasks)
    BY <1>3, <2>1
  <2> QED  BY <2>2, <2>3, SMTT(30)
<1>10. InputOK' /\ pos' > 0
  <2>1. PICK failed : Stay(failed)
    BY SMTT(30) DEF EndFunction
  <2>2. input' = input
    BY DEF EndFunction, Continue
  <2> QED  BY <1>1, <2>1, <2>2, StayOK, SMTT(30)
<1>11. \E k \in Mark : /\ k.lvl = Len(compilers') /\ Below(compilers', functions', k)
                      /\ Shaped(tasks', k, compilers', functions')
  BY <1>2, <1>3, <1>5, <1>7, <1>8, <1>9
<1>12. InputOK' /\ pos' # 0 /\ CompilersOK(compilers', functions') /\ tasks' \in Seq(ACall)
  BY <1>3, <1>5, <1>9, <1>10
<1> QED  BY <1>11, <1>12 DEF ShapeInv

-----------------------------------------------------------------------------
(* The beginning and the end.                                              *)

LEMMA ShapeProgram ==
  ASSUME ShapeInv, Program PROVE ShapeInv'
<1>1. /\ InputOK /\ pos > 0 /\ status = "compiling" /\ Task.do = "program" /\ Task \in ACall
      /\ CompilersOK(compilers, functions)
  BY AtTask DEF Program
<1>2. PICK m \in Mark, n \in Mark :
              /\ m.lvl = Len(compilers) /\ m.lvl > 0 /\ m.scope = Scope
              /\ m.two => Len(Locals) >= 2
              /\ m.len <= Len(Chunk.code)
              /\ Shape(Task, m, n) /\ n.lvl <= m.lvl
              /\ Shaped(Tail(tasks), n, compilers, functions)
  BY <1>1, ShapeNow
<1>3. Tail(tasks) \in Seq(ACall) /\ m.lvl = 1 /\ m.scope = 0 /\ n.lvl = 0
  BY <1>1, <1>2, ShapeNow DEF Shape, Plain
<1>4. CASE Is({"EOF"})
  <2>1. /\ prev' = input[pos] /\ Emit(EmitReturn) /\ tasks' = <<>> /\ status' = "done"
        /\ UNCHANGED <<input, pos, errors, compilers>>
    BY <1>4 DEF Program, Current
  <2>2. EmitReturn \in Seq(Instr)
    BY IsInstr DEF EmitReturn, Ops
  <2> DEFINE f == Emitted(EmitReturn)
  <2>3. f \in Fun /\ ConstsOK(f, functions) /\ Len(Chunk.code) <= Len(f.code) /\ SetChunk(f)
    BY <1>1, <2>1, <2>2, EmittedOK
  <2> HIDE DEF f
  <2>4. /\ Comp \in Compiling /\ Comp = compilers[1] /\ Len(Comp.locals) \in 1..Byte
        /\ Comp.locals[1].depth = 0
    BY <1>1, CompOK DEF Locals
  <2>5. CompilersOK(compilers', functions')
    <3>1. compilers' = Next1(compilers, Comp) /\ functions' = Replaced(functions, compilers[1].fn, f)
      BY <1>1, <2>1, <2>3, <2>4, Unchanged1 DEF SetCompiler, SetChunk, Next1, Replaced
    <3>2. Len(functions[Comp.fn].code) <= Len(f.code)
      BY <2>3 DEF Chunk
    <3> QED  BY <1>1, <2>3, <2>4, <3>1, <3>2, CompilersKept
  <2>6. InputOK' /\ pos' # 0 /\ tasks' \in Seq(ACall)
    <3>1. pos \in 1..Len(input)
      BY <1>1, ProgramTokens DEF InputOK
    <3>2. prev' \in {input[i] : i \in 1..pos}
      BY <2>1, <3>1
    <3> QED  BY <1>1, <2>1, <3>2 DEF InputOK, errors
  <2>7. status' # "compiling"
    BY <2>1
  <2> QED  BY <2>5, <2>6, <2>7 DEF ShapeInv
<1>5. CASE ~Is({"EOF"})
  <2>1. Continue(<<Call("declaration"), Task>>) /\ Stay(FALSE) /\ UNCHANGED <<compilers, functions>>
    BY <1>5 DEF Program
  <2>2. InputOK' /\ pos' > 0
    BY <1>1, <2>1, StayOK DEF Continue
  <2> DEFINE m1 == [lvl |-> 1, scope |-> 0, two |-> FALSE, len |-> 0]
  <2>3. m1 \in Mark /\ m1.lvl = 1 /\ m1.scope = 0 /\ ~m1.two /\ m1.len = 0
    BY DEF Mark
  <2> HIDE DEF m1
  <2>4. Below(compilers, functions, m1)
    <3>1. m.len \in Nat
      BY DEF Mark
    <3>2. Steady(m, m1)
      BY <1>3, <2>3, <3>1 DEF Steady
    <3> QED  BY <1>1, <1>2, <2>3, <3>2, BelowNow
  <2>5. Shaped(<<Task>> \o Tail(tasks), m1, compilers, functions)
    <3>1. Shape(Task, m1, n) /\ n.lvl <= m1.lvl
      BY <1>1, <1>3, <2>3 DEF Shape
    <3> QED  BY <1>1, <1>2, <1>3, <2>3, <3>1, ShapedMore
  <2> DEFINE a == <<Call("declaration")>>
  <2>6. Call("declaration") \in ACall /\ Plain(Call("declaration"), m1)
    BY CallsMade DEF SimpleCalls, Plain, Call
  <2>7. a \in Seq(ACall) /\ \A k \in DOMAIN a : Plain(a[k], m1) /\ (a[k].do \in Loud => ~m1.two)
    BY <2>3, <2>6
  <2>8. tasks' = a \o (<<Task>> \o Tail(tasks)) /\ <<Task>> \o Tail(tasks) \in Seq(ACall)
    <3>1. <<Call("declaration"), Task>> \o Tail(tasks) = a \o (<<Task>> \o Tail(tasks))
      BY <1>1, <1>3, <2>6, Pairs, SMTT(30)
    <3>2. \A x \in ACall, u \in Seq(ACall) : <<x>> \o u \in Seq(ACall)
      OBVIOUS
    <3> QED  BY <1>1, <1>3, <2>1, <3>1, <3>2 DEF Continue
  <2> HIDE DEF a
  <2>9. Shaped(tasks', m1, compilers, functions) /\ tasks' \in Seq(ACall)
    <3>1. Steady(m1, m1) /\ m1.lvl > 0
      BY <2>3 DEF Steady
    <3>2. Shaped(a \o (<<Task>> \o Tail(tasks)), m1, compilers, functions)
      BY <2>3, <2>5, <2>7, <2>8, <3>1, ShapedCalls
    <3> QED  BY <2>7, <2>8, <3>2
  <2>10. \E k \in Mark : /\ k.lvl = Len(compilers') /\ Below(compilers', functions', k)
                         /\ Shaped(tasks', k, compilers', functions')
    BY <1>2, <1>3, <2>1, <2>3, <2>4, <2>9
  <2>11. CompilersOK(compilers', functions')
    BY <1>1, <2>1
  <2>12. pos' # 0
    BY <2>2
  <2> QED  BY <2>2, <2>9, <2>10, <2>11, <2>12 DEF ShapeInv
<1> QED  BY <1>4, <1>5

LEMMA StartShaped ==
  ASSUME NEW cs, NEW fs, NEW m \in Mark, m.lvl = 1, m.scope = 0
  PROVE  Shaped(<<Call("program")>>, m, cs, fs)
<1> DEFINE n == [lvl |-> 0, scope |-> 0, two |-> FALSE, len |-> 0]
           at == [k \in 1..1 |-> n]
<1>1. n \in Mark /\ n.lvl = 0
  BY DEF Mark
<1> HIDE DEF n
<1>2. at \in [1..Len(<<>>)+1 -> Mark] /\ at[Len(<<>>) + 1].lvl = 0 /\ at[1] = n
  BY <1>1
<1>3. \A i, j \in 1..Len(<<>>)+1 : i <= j => at[j].lvl <= at[i].lvl
  BY <1>1
<1>4. Marks(<<>>, at, cs, fs)
  BY <1>2, <1>3 DEF Marks
<1>5. Shaped(<<>>, n, cs, fs)
  BY <1>2, <1>4 DEF Shaped
<1>6. Call("program") \in ACall /\ Call("program").do = "program" /\ <<>> \in Seq(ACall)
  BY CallsMade DEF SimpleCalls, Call
<1>7. Shape(Call("program"), m, n) /\ n.lvl <= m.lvl
  BY <1>1, <1>6 DEF Shape
<1>8. Shaped(<<Call("program")>> \o <<>>, m, cs, fs)
  BY <1>1, <1>5, <1>6, <1>7, ShapedMore
<1>9. \A x \in ACall : <<x>> \o <<>> = <<x>>
  OBVIOUS
<1> QED  BY <1>6, <1>8, <1>9

LEMMA FirstCompiler ==
  ASSUME compilers = <<NewCompiler(1, "script", 0)>>, functions = <<NewFunction>>
  PROVE  /\ CompilersOK(compilers, functions) /\ Len(compilers) = 1
         /\ Comp = NewCompiler(1, "script", 0) /\ Scope = 0 /\ Chunk = NewFunction
<1> DEFINE c == NewCompiler(1, "script", 0)
<1>1. /\ c \in Compiling /\ c.fn = 1 /\ c.type = "script" /\ c.scope = 0
      /\ Len(c.locals) = 1 /\ c.locals[1].depth = 0
  BY NewOnes
<1> HIDE DEF c
<1>2. NewFunction \in Fun /\ ConstsOK(NewFunction, functions)
  BY NewOnes
<1>3. compilers = <<c>>
  BY DEF c
<1>4. compilers \in Seq(Compiling) /\ Len(compilers) = 1 /\ DOMAIN compilers = 1..1 /\ compilers[1] = c
      /\ compilers # <<>>
  BY <1>1, <1>3
<1>5. functions \in Seq(Fun) /\ DOMAIN functions = 1..1 /\ functions[1] = NewFunction
  BY <1>2
<1>6. 1 \in 1..Byte
  BY CompilerAssumption
<1>7. Enclosing(compilers)
  <2>1. \A i \in DOMAIN compilers : i = 1
    BY <1>4
  <2>2. \A i, j \in DOMAIN compilers : ~(i < j)
    BY <2>1
  <2> QED  BY <1>1, <1>4, <1>6, <2>1, <2>2 DEF Enclosing
<1>8. CompilersOK(compilers, functions)
  BY <1>1, <1>2, <1>4, <1>5, <1>7 DEF CompilersOK, Compile
<1>9. Comp = c /\ Scope = 0 /\ Chunk = NewFunction
  BY <1>1, <1>4, <1>5 DEF Comp, Scope, Chunk
<1> QED  BY <1>4, <1>8, <1>9 DEF c

LEMMA ShapeStart ==
  ASSUME ShapeInv, Start PROVE ShapeInv'
<1>1. InputOK /\ CompilersOK(compilers, functions) /\ status = "compiling" /\ Task.do = "start"
  BY DEF Start, At, ShapeInv
<1>2. pos = 0
  <2>1. CASE pos > 0
    <3>1. PICK m, n \in Mark : Shape(Task, m, n)
      BY <1>1, <2>1, ShapeNow
    <3> QED  BY <1>1, <3>1 DEF Shape, Plain
  <2>2. pos \in Nat
    BY <1>1, ProgramTokens DEF InputOK
  <2> QED  BY <2>1, <2>2
<1>3. /\ tasks = <<Call("start")>> /\ compilers = <<NewCompiler(1, "script", 0)>>
      /\ functions = <<NewFunction>>
  BY <1>2 DEF ShapeInv
<1>4. /\ pos' = NextPos /\ prev' = prev /\ Errors(NextPos > 1) /\ Report(NextPos > 1)
      /\ Continue(<<Call("program")>>) /\ UNCHANGED <<compilers, functions>>
  BY DEF Start
<1>5. InputOK' /\ pos' # 0
  <2>1. NextPos \in 1..Len(input) /\ input[NextPos].type # "ERROR" /\ Len(input) \in Nat
    BY <1>1, NextPosOK, ProgramTokens DEF InputOK
  <2>2. hadError' \in BOOLEAN /\ panicMode' \in BOOLEAN /\ (panicMode' => hadError')
    BY <1>1, <1>4, ErrorsOK
  <2>3. prev' \in Garbage
    BY <1>1, <1>2, <1>4 DEF InputOK
  <2>4. input' = input /\ status' \in {"compiling", "crashed"}
    BY <1>4 DEF Continue, Report
  <2> QED  BY <1>1, <1>4, <2>1, <2>2, <2>3, <2>4 DEF InputOK
<1>6. tasks' = <<Call("program")>> /\ tasks' \in Seq(ACall)
  <2>1. \A x, y \in ACall : <<x>> \o Tail(<<y>>) = <<x>>
    OBVIOUS
  <2>2. Call("start") \in ACall /\ Call("program") \in ACall
    BY CallsMade DEF SimpleCalls
  <2> QED  BY <1>3, <1>4, <2>1, <2>2 DEF Continue
<1> DEFINE m == [lvl |-> 1, scope |-> 0, two |-> FALSE, len |-> 0]
<1>7. m \in Mark /\ m.lvl = 1 /\ m.scope = 0 /\ ~m.two /\ m.len = 0
  BY DEF Mark
<1> HIDE DEF m
<1>8. /\ Len(compilers) = 1 /\ Comp = NewCompiler(1, "script", 0) /\ Scope = 0 /\ Chunk = NewFunction
      /\ Len(Chunk.code) = 0
  BY <1>3, FirstCompiler, NewOnes
<1>9. Below(compilers, functions, m)
  <2>1. Steady(m, m)
    BY <1>7 DEF Steady
  <2> QED  BY <1>1, <1>7, <1>8, <2>1, BelowNow
<1>10. Shaped(<<Call("program")>>, m, compilers, functions)
  BY <1>7, StartShaped
<1>11. \E k \in Mark : /\ k.lvl = Len(compilers') /\ Below(compilers', functions', k)
                       /\ Shaped(tasks', k, compilers', functions')
  BY <1>4, <1>6, <1>7, <1>8, <1>9, <1>10
<1>12. CompilersOK(compilers', functions')
  BY <1>1, <1>4
<1> QED  BY <1>5, <1>6, <1>11, <1>12 DEF ShapeInv

LEMMA ShapeStackOverflow ==
  ASSUME ShapeInv, StackOverflow PROVE ShapeInv'
<1>1. /\ UNCHANGED <<input, pos, prev, tasks, compilers, functions, hadError, panicMode>>
      /\ status' = "crashed"
  BY DEF StackOverflow, errors
<1>2. InputOK'
  BY <1>1 DEF ShapeInv, InputOK
<1> QED  BY <1>1, <1>2 DEF ShapeInv

LEMMA ShapeStutter ==
  ASSUME ShapeInv, UNCHANGED vars PROVE ShapeInv'
<1>1. UNCHANGED <<input, pos, prev, tasks, compilers, functions, hadError, panicMode, status>>
  BY DEF vars, errors
<1>2. InputOK'
  BY <1>1 DEF ShapeInv, InputOK
<1> QED  BY <1>1, <1>2 DEF ShapeInv

LEMMA ShapeInit ==
  ASSUME Init PROVE ShapeInv
<1>1. /\ input \in Programs /\ pos = 0 /\ prev \in Garbage /\ tasks = <<Call("start")>>
      /\ compilers = <<NewCompiler(1, "script", 0)>> /\ functions = <<NewFunction>>
      /\ hadError = FALSE /\ panicMode = FALSE /\ status = "compiling"
  BY DEF Init, Call
<1>2. InputOK
  <2>1. pos \in 0..Len(input) /\ ~(pos > 0)
    BY <1>1, ProgramTokens
  <2> QED  BY <1>1, <2>1 DEF InputOK
<1>3. tasks \in Seq(ACall)
  <2>1. \A x \in ACall : <<x>> \in Seq(ACall)
    OBVIOUS
  <2>2. Call("start") \in ACall
    BY CallsMade DEF SimpleCalls
  <2> QED  BY <1>1, <2>1, <2>2
<1>4. CompilersOK(compilers, functions)
  BY <1>1, FirstCompiler
<1> QED  BY <1>1, <1>2, <1>3, <1>4 DEF ShapeInv

LEMMA ShapeNext ==
  ASSUME ShapeInv, [Next]_vars PROVE ShapeInv'
BY ShapeStart, ShapeProgram, ShapeDeclaration, ShapeEndDeclaration, ShapeDeclareLoop,
   ShapeStatement, ShapeEndExpression, ShapeIfThen, ShapeIfElse, ShapeReturnStatement,
   ShapeEndScope, ShapeFunDeclaration, ShapeVarDeclaration, ShapeGlobalDeclaration,
   ShapeParameter, ShapeNames, ShapeInitializer, ShapeDefine, ShapeFunction,
   ShapeParameterList, ShapeEndFunction, ShapeParsePrecedence, ShapeOperators,
   ShapeNumberOrString, ShapeNamedVariable, ShapeAssign, ShapeDot, ShapeAnd, ShapeOr,
   ShapePatch, ShapeItems, ShapeArguments, ShapeElements, ShapeValues, ShapeEmitBytes,
   ShapeConsumeToken, ShapeStackOverflow, ShapeStutter
   DEF Next

LEMMA ShapeTypeOK ==
  ASSUME ShapeInv PROVE TypeOK
<1>1. InputOK /\ CompilersOK(compilers, functions)
  BY DEF ShapeInv
<1>2. ASSUME NEW i \in DOMAIN compilers
      PROVE  /\ compilers[i].fn \in DOMAIN functions
             /\ compilers[i].type = IF i = Len(compilers) THEN "script" ELSE "function"
             /\ compilers[i].scope \in Nat
             /\ Len(compilers[i].locals) \in 1..Byte
             /\ \A j \in DOMAIN compilers[i].locals :
                  compilers[i].locals[j].depth \in Nat \cup {-1}
  <2>1. compilers[i] \in Compiling /\ compilers[i].fn \in DOMAIN functions
    BY <1>1 DEF CompilersOK, Compile
  <2>2. /\ compilers[i].type = IF i = Len(compilers) THEN "script" ELSE "function"
        /\ Len(compilers[i].locals) \in 1..Byte
    BY <1>1 DEF CompilersOK, Enclosing
  <2>3. compilers[i].scope \in Nat /\ compilers[i].locals \in Seq(Local)
    BY <2>1 DEF Compiling
  <2>4. \A j \in DOMAIN compilers[i].locals : compilers[i].locals[j] \in Local
    BY <2>3
  <2> QED  BY <2>1, <2>2, <2>3, <2>4 DEF Local
<1>3. ASSUME NEW f \in DOMAIN functions
      PROVE  functions[f].arity \in Nat /\ functions[f].code \in Seq(Instr)
  <2>1. functions[f] \in Fun
    BY <1>1 DEF CompilersOK
  <2> QED  BY <2>1 DEF Fun
<1> QED  BY <1>1, <1>2, <1>3 DEF TypeOK, InputOK

(* The state of the compiler stays in order whatever the text: the stack   *)
(* of compilers matches the functions being compiled, each has its own     *)
(* slot and at most Byte locals, and what is emitted are instructions.     *)
THEOREM CompilerTypeOK == Spec => []TypeOK
<1>1. Init => ShapeInv
  BY ShapeInit
<1>2. ShapeInv /\ [Next]_vars => ShapeInv'
  BY ShapeNext
<1>3. ShapeInv => TypeOK
  BY ShapeTypeOK
<1> QED  BY <1>1, <1>2, <1>3, PTL DEF Spec

-----------------------------------------------------------------------------
(* The depth of the stack along code.                                      *)

JumpOps == {"JMP", "JMPF"}
NameOps == {"DEF", "GLD", "GST", "GET", "SET"}
StrNames(fun) ==
  {a \in Nat : a + 1 \in DOMAIN fun.consts /\ fun.consts[a + 1].type = "str"}

(* The instruction i of a function may be executed at depth d.             *)
Fits(fun, i, d, script) ==
  /\ d >= Needs(i) + 1
  /\ i.op \in {"LD", "ST"} => i.a < d
  /\ i.op \in NameOps => i.a \in StrNames(fun)
  /\ i.op = "CONST" => i.a + 1 \in DOMAIN fun.consts
  /\ (script /\ i.op = "RET") => d = 2

(* The depth d agrees with the instruction at j; the jumps in pend wait    *)
(* for their target, and nothing comes after a JMP but by a jump.          *)
Agrees(fun, d, pend, script, j) ==
  LET i == fun.code[j] IN
  /\ Fits(fun, i, d[j], script)
  /\ i.op # "JMP" => d[j + 1] = d[j] + Effect(i)
  /\ i.op = "JMP" => \E r \in 1..j-1 : fun.code[r].op \in JumpOps /\ r + fun.code[r].a = j
  /\ i.op \in JumpOps => IF <<j, d[j]>> \in pend THEN i.a = 0
                         ELSE j + i.a <= Len(fun.code) /\ d[j + 1 + i.a] = d[j]

Walk(fun, d, pend, script) ==
  /\ d \in [1..Len(fun.code)+1 -> Int] /\ d[1] = fun.arity + 1
  /\ \A j \in 1..Len(fun.code) : Agrees(fun, d, pend, script, j)
  /\ \A x \in pend : /\ x[1] \in 1..Len(fun.code) /\ x = <<x[1], d[x[1]]>>
                     /\ fun.code[x[1]].op \in JumpOps

CodeOK(fun, D, pend, script) ==
  \E d : Walk(fun, d, pend, script) /\ d[Len(fun.code) + 1] = D

LEMMA InstrIs ==
  ASSUME NEW code \in Seq(Instr)
  PROVE  /\ Len(code) \in Nat
         /\ \A j \in 1..Len(code) : code[j] \in Instr /\ code[j].a \in Nat /\ code[j].op \in Ops
<1>1. \A j \in 1..Len(code) : code[j] \in Instr
  OBVIOUS
<1> QED  BY <1>1 DEF Instr

LEMMA WalkAt ==
  ASSUME NEW fun \in Fun, NEW d, NEW pend, NEW script, Walk(fun, d, pend, script),
         NEW j \in 1..Len(fun.code)
  PROVE  LET i == fun.code[j] IN
         /\ d[j] \in Int /\ d[j + 1] \in Int /\ Fits(fun, i, d[j], script)
         /\ i.op # "JMP" => d[j + 1] = d[j] + Effect(i)
         /\ i.op = "JMP" => \E r \in 1..j-1 : fun.code[r].op \in JumpOps /\ r + fun.code[r].a = j
         /\ i.op \in JumpOps => IF <<j, d[j]>> \in pend THEN i.a = 0
                                ELSE j + i.a <= Len(fun.code) /\ d[j + 1 + i.a] = d[j]
<1>1. j \in 1..Len(fun.code)+1 /\ j + 1 \in 1..Len(fun.code)+1
  BY InstrIs DEF Fun
<1>2. Agrees(fun, d, pend, script, j)
  BY DEF Walk
<1>3. d[j] \in Int /\ d[j + 1] \in Int
  BY <1>1 DEF Walk
<1> QED  BY <1>2, <1>3 DEF Agrees

(* What jumps to p, or else the instruction before it, makes the depth.    *)
LEMMA WalkStep ==
  ASSUME NEW fun \in Fun, NEW d, NEW pend, NEW script, Walk(fun, d, pend, script),
         NEW p \in 2..Len(fun.code)+1
  PROVE  LET js == Jumps(fun.code, p) IN
         /\ js # {} => Least(js) \in 1..p-1 /\ d[p] = d[Least(js)]
         /\ js = {} => d[p] = d[p - 1] + Effect(fun.code[p - 1])
<1> DEFINE n == Len(fun.code)
           code == fun.code
           js == Jumps(fun.code, p)
<1>1. code \in Seq(Instr) /\ n \in Nat /\ p - 1 \in 1..n /\ p \in Nat
  BY InstrIs DEF Fun
<1>2. \A j \in 1..n : code[j].a \in Nat /\ code[j].op \in Ops
  BY <1>1, InstrIs
<1>0. ASSUME NEW j \in 1..n
      PROVE  /\ d[j] \in Int
             /\ code[j].op # "JMP" => d[j + 1] = d[j] + Effect(code[j])
             /\ code[j].op = "JMP" => \E r \in 1..j-1 : code[r].op \in JumpOps /\ r + code[r].a = j
             /\ code[j].op \in JumpOps => IF <<j, d[j]>> \in pend THEN code[j].a = 0
                                          ELSE d[j + 1 + code[j].a] = d[j]
  BY WalkAt
<1>3. CASE js # {}
  <2> DEFINE q == Least(js)
  <2>1. js \in SUBSET Nat
    BY <1>1 DEF Jumps
  <2> HIDE DEF js
  <2>2. q \in js /\ \A r \in js : q <= r
    BY <2>1, <1>3, LeastIsLeast
  <2> HIDE DEF q
  <2> USE DEF js
  <2>3. q \in 1..p-1 /\ q \in 1..n /\ code[q].op \in JumpOps /\ q + 1 + code[q].a = p
    BY <2>2, <1>1 DEF Jumps, JumpOps
  <2>4. ASSUME <<q, d[q]>> \notin pend PROVE d[p] = d[q]
    <3>1. d[q + 1 + code[q].a] = d[q]
      BY <2>3, <2>4, <1>0
    <3> QED  BY <3>1, <2>3
  <2>5. ASSUME <<q, d[q]>> \in pend PROVE d[p] = d[q]
    <3>1. code[q].a = 0 /\ p = q + 1
      BY <2>3, <2>5, <1>1, <1>0
    <3>2. code[q].op # "JMP"
      <4> SUFFICES ASSUME code[q].op = "JMP" PROVE FALSE
        OBVIOUS
      <4>1. PICK r \in 1..q-1 : code[r].op \in JumpOps /\ r + code[r].a = q
        BY <2>3, <1>0
      <4>2. r \in 1..n /\ code[r].a \in Nat
        BY <1>2, <1>1, <2>3, SMTT(30)
      <4>3. r \in 1..p-1 /\ r + 1 + code[r].a = p
        BY <4>1, <4>2, <3>1, <2>3, <1>1
      <4>4. r \in js
        BY <4>1, <4>3 DEF Jumps, JumpOps
      <4> QED  BY <4>4, <2>2, <4>1, <4>2, <2>3
    <3>3. code[q].op = "JMPF"
      BY <3>2, <2>3 DEF JumpOps
    <3>4. Effect(code[q]) = 0
      BY <3>3 DEF Effect, BinaryOps
    <3>5. d[q + 1] = d[q] + 0 /\ d[q] \in Int
      BY <2>3, <3>2, <3>4, <1>0
    <3> QED  BY <3>1, <3>5
  <2> QED  BY <1>3, <2>3, <2>4, <2>5 DEF q
<1>4. CASE js = {}
  <2>1. code[p - 1].op # "JMP"
    <3> SUFFICES ASSUME code[p - 1].op = "JMP" PROVE FALSE
      OBVIOUS
    <3>1. PICK r \in 1..(p - 1)-1 : code[r].op \in JumpOps /\ r + code[r].a = p - 1
      BY <1>1, <1>0
    <3>2. r \in 1..n /\ code[r].a \in Nat
      BY <1>1, <1>2
    <3>5. r \in 1..p-1
      BY <1>1
    <3> DEFINE a == code[r].a
    <3>6. a \in Nat /\ r \in Nat /\ r + a = p - 1
      BY <3>1, <3>2
    <3> HIDE DEF a
    <3>7. r + 1 + a = p
      BY <3>6, <1>1
    <3>3. r \in 1..p-1 /\ r + 1 + code[r].a = p
      BY <3>5, <3>7 DEF a
    <3>4. r \in js
      BY <3>1, <3>3 DEF Jumps, JumpOps
    <3> QED  BY <3>4, <1>4
  <2>2. d[(p - 1) + 1] = d[p - 1] + Effect(code[p - 1])
    BY <2>1, <1>1, <1>0
  <2> QED  BY <2>2, <1>4, <1>1
<1> QED  BY <1>3, <1>4

(* There is one such depth, that of Depths.                                *)
LEMMA DepthsWalk ==
  ASSUME NEW fun \in Fun, NEW d, NEW pend, NEW script, Walk(fun, d, pend, script)
  PROVE  Depths(fun) = d
<1> DEFINE n == Len(fun.code)
           code == fun.code
           body(f, p) == IF p = 1 THEN fun.arity + 1
                         ELSE IF Jumps(code, p) # {} THEN f[Least(Jumps(code, p))]
                         ELSE f[p - 1] + Effect(code[p - 1])
           e == CHOOSE f : f = [p \in 1..n+1 |-> body(f, p)]
<1>1. Depths(fun) = e
  BY DEF Depths
<1>2. n \in Nat
  BY DEF Fun
<1>3. \A p \in 2..n+1 : LET js == Jumps(code, p) IN
         /\ js # {} => Least(js) \in 1..p-1 /\ d[p] = d[Least(js)]
         /\ js = {} => d[p] = d[p - 1] + Effect(code[p - 1])
  BY WalkStep
<1>4. d = [p \in 1..n+1 |-> body(d, p)]
  <2>1. d \in [1..n+1 -> Int] /\ d[1] = fun.arity + 1
    BY DEF Walk
  <2>2. ASSUME NEW p \in 1..n+1 PROVE d[p] = body(d, p)
    <3>1. CASE p = 1
      BY <3>1, <2>1
    <3>2. CASE p # 1
      <4>1. p \in 2..n+1
        BY <3>2, <1>2
      <4> QED  BY <4>1, <3>2, <1>3
    <3> QED  BY <3>1, <3>2
  <2> HIDE DEF body
  <2> QED  BY <2>1, <2>2
<1>5. e = [p \in 1..n+1 |-> body(e, p)]
  <2> HIDE DEF body
  <2> QED  BY <1>4
<1> HIDE DEF e
<1>6. \A p \in 1..n+1 : e[p] = body(e, p)
  <2> HIDE DEF body
  <2> QED  BY <1>5
<1>7. \A p \in 1..n+1 : e[p] = d[p]
  <2> DEFINE bad == {p \in 1..n+1 : e[p] # d[p]}
  <2> SUFFICES ASSUME bad # {} PROVE FALSE
    OBVIOUS
  <2> DEFINE m == Least(bad)
  <2>1. bad \in SUBSET Nat
    BY <1>2
  <2> HIDE DEF bad
  <2>2. m \in bad /\ \A r \in bad : m <= r
    BY <2>1, LeastIsLeast
  <2> HIDE DEF m
  <2>3. m \in 1..n+1 /\ e[m] # d[m]
    BY <2>2 DEF bad
  <2>4. \A r \in 1..m-1 : e[r] = d[r]
    <3> SUFFICES ASSUME NEW r \in 1..m-1, e[r] # d[r] PROVE FALSE
      OBVIOUS
    <3>1. r \in bad
      BY <2>3, <1>2 DEF bad
    <3>2. m <= r
      BY <3>1, <2>2
    <3> QED  BY <2>3, <3>2, <1>2
  <2>5. CASE m = 1
    BY <2>5, <2>3, <1>6 DEF Walk
  <2>6. CASE m # 1
    <3>1. m \in 2..n+1 /\ m - 1 \in 1..m-1
      BY <2>3, <2>6, <1>2
    <3>2. e[m] = body(e, m)
      BY <2>3, <1>6
    <3>3. CASE Jumps(code, m) # {}
      BY <3>1, <3>2, <3>3, <1>3, <2>3, <2>4, <2>6
    <3>4. CASE Jumps(code, m) = {}
      BY <3>1, <3>2, <3>4, <1>3, <2>3, <2>4, <2>6
    <3> QED  BY <3>3, <3>4
  <2> QED  BY <2>5, <2>6
<1>8. e = d
  <2>1. d \in [1..n+1 -> Int]
    BY DEF Walk
  <2> HIDE DEF body
  <2>2. e = [p \in 1..n+1 |-> e[p]]
    BY <1>5, <1>6
  <2> QED  BY <2>1, <2>2, <1>7
<1> QED  BY <1>1, <1>8
-----------------------------------------------------------------------------
(* Code that grows.                                                        *)

(* More code and constants, and perhaps a target for a jump without one.   *)
Grows(f, g) ==
  /\ f \in Fun /\ g \in Fun /\ Len(f.code) <= Len(g.code)
  /\ \A i \in DOMAIN f.consts : i \in DOMAIN g.consts /\ g.consts[i] = f.consts[i]
  /\ \A r \in 1..Len(f.code) : f.code[r].a # 0 => g.code[r] = f.code[r]

LEMMA NeedsIs ==
  ASSUME NEW i \in Instr
  PROVE  Needs(i) \in Nat /\ Effect(i) \in Int /\ i.a \in Nat /\ i.op \in Ops
BY DEF Needs, Effect, Instr

LEMMA FitsGrows ==
  ASSUME NEW f, NEW g, Grows(f, g), NEW i, NEW d, NEW script, Fits(f, i, d, script)
  PROVE  Fits(g, i, d, script)
BY DEF Fits, Grows, StrNames

(* An instruction that is still there agrees with what d becomes.          *)
LEMMA AgreesGrows ==
  ASSUME NEW f, NEW g, Grows(f, g), NEW d, NEW e, NEW pend, NEW wait, NEW script,
         \A k \in 1..Len(f.code)+1 : e[k] = d[k],
         NEW j \in 1..Len(f.code), Agrees(f, d, pend, script, j),
         g.code[j] = f.code[j], <<j, d[j]>> \in pend <=> <<j, d[j]>> \in wait
  PROVE  Agrees(g, e, wait, script, j)
<1> DEFINE i == f.code[j]
           n == Len(f.code)
<1>1. f.code \in Seq(Instr) /\ g.code \in Seq(Instr) /\ n <= Len(g.code)
  BY DEF Grows, Fun
<1>2. n \in Nat /\ Len(g.code) \in Nat
      /\ \A r \in 1..n : f.code[r].a \in Nat
  BY <1>1, InstrIs
<1>3. e[j] = d[j] /\ e[j + 1] = d[j + 1]
  BY <1>2
<1>4. Fits(g, i, e[j], script)
  BY <1>3, FitsGrows DEF Agrees
<1>5. i.op # "JMP" => e[j + 1] = e[j] + Effect(i)
  BY <1>3 DEF Agrees
<1>6. ASSUME i.op = "JMP"
      PROVE  \E r \in 1..j-1 : g.code[r].op \in JumpOps /\ r + g.code[r].a = j
  <2>1. PICK r \in 1..j-1 : f.code[r].op \in JumpOps /\ r + f.code[r].a = j
    BY <1>6 DEF Agrees
  <2>2. r \in 1..n
    BY <1>2
  <2>3. f.code[r].a # 0
    BY <1>2, <2>1, <2>2
  <2>4. g.code[r] = f.code[r]
    BY <2>2, <2>3 DEF Grows
  <2> QED  BY <2>1, <2>4
<1>7. ASSUME i.op \in JumpOps
      PROVE  IF <<j, e[j]>> \in wait THEN i.a = 0
             ELSE j + i.a <= Len(g.code) /\ e[j + 1 + i.a] = e[j]
  <2>1. CASE <<j, d[j]>> \in pend
    BY <2>1, <1>3, <1>7 DEF Agrees
  <2>2. CASE <<j, d[j]>> \notin pend
    <3>1. j + i.a <= n /\ d[j + 1 + i.a] = d[j]
      BY <2>2, <1>7 DEF Agrees
    <3>2. j + 1 + i.a \in 1..n+1
      BY <3>1, <1>2, SMTT(30)
    <3>3. e[j + 1 + i.a] = d[j]
      BY <3>1, <3>2
    <3>4. j + i.a <= Len(g.code)
      BY <3>1, <1>1, <1>2
    <3> QED  BY <3>3, <3>4, <2>2, <1>3
  <2> QED  BY <2>1, <2>2
<1> QED  BY <1>4, <1>5, <1>6, <1>7 DEF Agrees

LEMMA WalkPend ==
  ASSUME NEW fun, NEW d, NEW pend, NEW script, Walk(fun, d, pend, script), NEW x \in pend
  PROVE  /\ x[1] \in 1..Len(fun.code) /\ x = <<x[1], d[x[1]]>>
         /\ fun.code[x[1]].op \in JumpOps
BY DEF Walk

WithCode(fun, code) == [fun EXCEPT !.code = code]

LEMMA WithCodeIs ==
  ASSUME NEW fun \in Fun, NEW code \in Seq(Instr)
  PROVE  /\ WithCode(fun, code) \in Fun /\ WithCode(fun, code).code = code
         /\ WithCode(fun, code).consts = fun.consts /\ WithCode(fun, code).arity = fun.arity
BY DEF WithCode, Fun

(* Instructions that do not jump.                                          *)
Steps(fun, c, e, script) ==
  \A k \in 1..Len(c) : /\ c[k].op \notin JumpOps /\ Fits(fun, c[k], e[k], script)
                       /\ e[k + 1] = e[k] + Effect(c[k])

LEMMA Straight ==
  ASSUME NEW fun \in Fun, NEW c \in Seq(Instr), NEW e \in [1..Len(c)+1 -> Int],
         NEW pend, NEW script, CodeOK(fun, e[1], pend, script),
         Steps(fun, c, e, script)
  PROVE  CodeOK(WithCode(fun, fun.code \o c), e[Len(c) + 1], pend, script)
<1> DEFINE n == Len(fun.code)
           m == Len(c)
           code == fun.code \o c
           g == WithCode(fun, code)
<1>1. PICK d : Walk(fun, d, pend, script) /\ d[n + 1] = e[1]
  BY DEF CodeOK
<1>2. fun.code \in Seq(Instr) /\ n \in Nat /\ m \in Nat
  BY InstrIs DEF Fun
<1>3. /\ code \in Seq(Instr) /\ Len(code) = n + m
      /\ \A j \in 1..n : code[j] = fun.code[j]
      /\ \A k \in 1..m : code[n + k] = c[k]
  BY <1>2
<1> HIDE DEF code
<1>4. g \in Fun /\ g.code = code /\ g.consts = fun.consts /\ g.arity = fun.arity
  BY <1>3, WithCodeIs
<1> HIDE DEF g
<1>5. Grows(fun, g)
  BY <1>2, <1>3, <1>4 DEF Grows
<1> DEFINE h == [k \in 1..n+m+1 |-> IF k <= n + 1 THEN d[k] ELSE e[k - n]]
<1>6. d \in [1..n+1 -> Int] /\ d[1] = fun.arity + 1
  BY <1>1 DEF Walk
<1>7. h \in [1..n+m+1 -> Int]
  BY <1>2, <1>6
<1>8. /\ \A k \in 1..n+1 : h[k] = d[k]
      /\ \A k \in 1..m+1 : h[n + k] = e[k]
  <2>1. \A k \in 1..n+1 : h[k] = d[k]
    BY <1>2
  <2>2. ASSUME NEW k \in 1..m+1 PROVE h[n + k] = e[k]
    <3>1. CASE k = 1
      BY <3>1, <2>1, <1>1, <1>2
    <3>2. CASE k # 1
      BY <3>2, <1>2
    <3> QED  BY <3>1, <3>2
  <2> QED  BY <2>1, <2>2
<1> HIDE DEF h
<1>9. ASSUME NEW j \in 1..n PROVE Agrees(g, h, pend, script, j)
  <2>1. Agrees(fun, d, pend, script, j)
    BY <1>1 DEF Walk
  <2>2. g.code[j] = fun.code[j]
    BY <1>3, <1>4
  <2> QED  BY <2>1, <2>2, <1>5, <1>8, AgreesGrows
<1>10. ASSUME NEW k \in 1..m PROVE Agrees(g, h, pend, script, n + k)
  <2> HIDE DEF n, m
  <2>1. g.code[n + k] = c[k] /\ h[n + k] = e[k] /\ h[n + k + 1] = e[k + 1]
    <3>1. k \in 1..m+1 /\ k + 1 \in 1..m+1
      BY <1>2
    <3>4. n + k + 1 = n + (k + 1)
      BY <1>2
    <3>2. g.code[n + k] = c[k] /\ h[n + k] = e[k]
      BY <3>1, <1>3, <1>4, <1>8
    <3>3. h[n + (k + 1)] = e[k + 1]
      BY <3>1, <1>8
    <3> QED  BY <3>4, <3>2, <3>3
  <2>2. Fits(g, c[k], e[k], script)
    BY <1>5, FitsGrows DEF Steps, m
  <2>3. c[k].op \notin JumpOps /\ e[k + 1] = e[k] + Effect(c[k])
    BY DEF Steps, m
  <2> QED  BY <2>1, <2>2, <2>3 DEF Agrees, JumpOps
<1>11. Walk(g, h, pend, script)
  <2>1. \A j \in 1..n+m : Agrees(g, h, pend, script, j)
    <3>1. ASSUME NEW j \in 1..n+m, j > n PROVE j - n \in 1..m /\ n + (j - n) = j
      BY <3>1, <1>2
    <3>2. ASSUME NEW j \in 1..n+m, j > n PROVE Agrees(g, h, pend, script, j)
      BY <3>2, <3>1, <1>10
    <3> QED  BY <3>2, <1>9, <1>2
  <2>2. ASSUME NEW x \in pend
        PROVE  /\ x[1] \in 1..n+m /\ x = <<x[1], h[x[1]]>> /\ g.code[x[1]].op \in JumpOps
    <3>1. x[1] \in 1..n /\ x = <<x[1], d[x[1]]>> /\ fun.code[x[1]].op \in JumpOps
      BY <1>1, WalkPend
    <3>2. h[x[1]] = d[x[1]] /\ g.code[x[1]] = fun.code[x[1]] /\ x[1] \in 1..n+m
      BY <3>1, <1>2, <1>3, <1>4, <1>8
    <3> QED  BY <3>1, <3>2
  <2>3. h[1] = g.arity + 1
    BY <1>2, <1>4, <1>6, <1>8
  <2> QED  BY <1>3, <1>4, <1>7, <2>1, <2>2, <2>3 DEF Walk
<1>12. h[Len(g.code) + 1] = e[m + 1]
  <2> HIDE DEF n, m
  <2>1. m + 1 \in 1..m+1 /\ n + m + 1 = n + (m + 1)
    BY <1>2
  <2>2. h[n + (m + 1)] = e[m + 1]
    BY <2>1, <1>8
  <2> QED  BY <2>1, <2>2, <1>3, <1>4
<1> QED  BY <1>11, <1>12 DEF CodeOK, g, code
(* A jump that is to be patched.                                           *)
LEMMA JumpAhead ==
  ASSUME NEW fun \in Fun, NEW D \in Int, NEW pend, NEW script, CodeOK(fun, D, pend, script), D >= 2
  PROVE  CodeOK(WithCode(fun, Append(fun.code, I("JMPF"))), D,
                pend \cup {<<Len(fun.code) + 1, D>>}, script)
<1> DEFINE n == Len(fun.code)
           i == I("JMPF")
           code == Append(fun.code, i)
           g == WithCode(fun, code)
           wait == pend \cup {<<n + 1, D>>}
<1>1. PICK d : Walk(fun, d, pend, script) /\ d[n + 1] = D
  BY DEF CodeOK
<1>2. fun.code \in Seq(Instr) /\ n \in Nat /\ i \in Instr
  <2>1. "JMPF" \in Ops
    BY DEF Ops
  <2> QED  BY <2>1, InstrIs, IsInstr DEF Fun
<1>3. /\ code \in Seq(Instr) /\ Len(code) = n + 1 /\ code[n + 1] = i
      /\ \A j \in 1..n : code[j] = fun.code[j]
  BY <1>2
<1> HIDE DEF code
<1>4. g \in Fun /\ g.code = code /\ g.consts = fun.consts /\ g.arity = fun.arity
  BY <1>3, WithCodeIs
<1>5. Grows(fun, g)
  BY <1>2, <1>3, <1>4 DEF Grows
<1>6. d \in [1..n+1 -> Int] /\ d[1] = fun.arity + 1
  BY <1>1 DEF Walk
<1> HIDE DEF n, g, i
<1> DEFINE h == [k \in 1..n+2 |-> IF k <= n + 1 THEN d[k] ELSE D]
<1>7. h \in [1..n+2 -> Int] /\ (\A k \in 1..n+1 : h[k] = d[k]) /\ h[n + 2] = D /\ h[n + 1] = D
  BY <1>1, <1>2, <1>6
<1> HIDE DEF h
<1>8. ASSUME NEW j \in 1..n PROVE Agrees(g, h, wait, script, j)
  <2>1. Agrees(fun, d, pend, script, j)
    BY <1>1 DEF Walk, n
  <2>2. g.code[j] = fun.code[j] /\ (<<j, d[j]>> \in pend <=> <<j, d[j]>> \in wait)
    BY <1>2, <1>3, <1>4
  <2>3. j \in 1..Len(fun.code) /\ \A k \in 1..Len(fun.code)+1 : h[k] = d[k]
    BY <1>7 DEF n
  <2> HIDE DEF wait
  <2> QED  BY <2>1, <2>2, <2>3, <1>5, AgreesGrows
<1>9. Agrees(g, h, wait, script, n + 1)
  <2>1. g.code[n + 1] = i /\ i.op = "JMPF" /\ i.a = 0 /\ Needs(i) = 1 /\ Effect(i) = 0
    BY <1>3, <1>4 DEF i, I, Needs, Effect, BinaryOps, UnaryOps
  <2>2. (n + 1) + 1 = n + 2
    BY <1>2
  <2>3. Fits(g, i, h[n + 1], script)
    BY <2>1, <1>7 DEF Fits, NameOps
  <2>4. <<n + 1, h[n + 1]>> \in wait
    BY <1>7
  <2>5. h[(n + 1) + 1] = h[n + 1] + Effect(i)
    BY <1>7, <2>1, <2>2
  <2> HIDE DEF wait
  <2> QED  BY <2>1, <2>3, <2>4, <2>5 DEF Agrees
<1>10. ASSUME NEW x \in wait
       PROVE  x[1] \in 1..n+1 /\ x = <<x[1], h[x[1]]>> /\ g.code[x[1]].op \in JumpOps
  <2>1. CASE x \in pend
    <3>1. x[1] \in 1..n /\ x = <<x[1], d[x[1]]>> /\ fun.code[x[1]].op \in JumpOps
      BY <2>1, <1>1, WalkPend DEF n
    <3> QED  BY <3>1, <1>2, <1>3, <1>4, <1>7
  <2>2. CASE x = <<n + 1, D>>
    <3>1. x[1] = n + 1 /\ x[2] = D
      BY <2>2
    <3>2. g.code[n + 1].op \in JumpOps
      BY <1>3, <1>4 DEF i, I, JumpOps
    <3>3. n + 1 \in 1..n+1
      BY <1>2
    <3> QED  BY <3>1, <3>2, <3>3, <2>2, <1>7
  <2> QED  BY <2>1, <2>2
<1>11. Walk(g, h, wait, script)
  <2>1. ASSUME NEW j \in 1..n+1 PROVE Agrees(g, h, wait, script, j)
    <3> HIDE DEF wait
    <3>1. j \in 1..n \/ j = n + 1
      BY <1>2
    <3> QED  BY <3>1, <1>8, <1>9
  <2>2. h[1] = g.arity + 1 /\ Len(g.code) = n + 1 /\ Len(g.code) + 1 = n + 2
    BY <1>2, <1>3, <1>4, <1>6, <1>7
  <2> HIDE DEF wait
  <2> QED  BY <1>7, <1>10, <2>1, <2>2 DEF Walk
<1>12. h[Len(g.code) + 1] = D
  BY <1>2, <1>3, <1>4, <1>7
<1> QED  BY <1>11, <1>12 DEF CodeOK, g, code, i, n

(* A jump that is given the end of the code as its target.                 *)
LEMMA JumpHere ==
  ASSUME NEW fun \in Fun, NEW E, NEW pend, NEW script, CodeOK(fun, E, pend, script),
         NEW at, <<at, E>> \in pend
  PROVE  /\ at \in 1..Len(fun.code)
         /\ CodeOK(WithCode(fun, Patched(fun.code, at)), E, pend \ {<<at, E>>}, script)
<1> DEFINE n == Len(fun.code)
           code == Patched(fun.code, at)
           g == WithCode(fun, code)
           wait == pend \ {<<at, E>>}
<1>1. PICK d : Walk(fun, d, pend, script) /\ d[n + 1] = E
  BY DEF CodeOK
<1>2. fun.code \in Seq(Instr) /\ n \in Nat
  BY InstrIs DEF Fun
<1>3. at \in 1..n /\ d[at] = E /\ fun.code[at].op \in JumpOps
  <2>1. <<at, E>>[1] = at /\ <<at, E>>[2] = E
    OBVIOUS
  <2>2. <<at, E>>[1] \in 1..n /\ <<at, E>> = <<<<at, E>>[1], d[<<at, E>>[1]]>>
        /\ fun.code[<<at, E>>[1]].op \in JumpOps
    BY <1>1, WalkPend
  <2> QED  BY <2>1, <2>2
<1>4. /\ code \in Seq(Instr) /\ Len(code) = n
      /\ code[at] = [fun.code[at] EXCEPT !.a = n - at]
      /\ \A j \in 1..n : j # at => code[j] = fun.code[j]
  BY <1>2, <1>3, PatchedOK
<1> HIDE DEF code
<1>5. g \in Fun /\ g.code = code /\ g.consts = fun.consts /\ g.arity = fun.arity
  BY <1>4, WithCodeIs
<1>6. fun.code[at].a = 0
  BY <1>1, <1>3, WalkAt
<1>7. Grows(fun, g)
  BY <1>2, <1>4, <1>5, <1>6 DEF Grows
<1>8. d \in [1..n+1 -> Int] /\ d[1] = fun.arity + 1
  BY <1>1 DEF Walk
<1>9. fun.code[at] \in Instr
  BY <1>2, <1>3, InstrIs
<1> HIDE DEF g
<1>10. ASSUME NEW j \in 1..n PROVE Agrees(g, d, wait, script, j)
  <2>1. Agrees(fun, d, pend, script, j)
    BY <1>1 DEF Walk
  <2>2. CASE j # at
    <3>1. g.code[j] = fun.code[j] /\ (<<j, d[j]>> \in pend <=> <<j, d[j]>> \in wait)
      BY <2>2, <1>4, <1>5
    <3> HIDE DEF wait
    <3> QED  BY <2>1, <3>1, <1>7, AgreesGrows
  <2>3. CASE j = at
    <3> DEFINE i == fun.code[at]
               k == g.code[at]
    <3>1. k.op = i.op /\ k.a = n - at /\ i.op \in JumpOps /\ i.a = 0
      BY <1>3, <1>4, <1>5, <1>6, <1>9 DEF Instr
    <3>2. Needs(k) = Needs(i) /\ Effect(k) = Effect(i)
      BY <3>1 DEF Needs, Effect, JumpOps, BinaryOps, UnaryOps
    <3>3. Fits(g, k, d[at], script)
      <4>1. Fits(fun, i, d[at], script)
        BY <2>1, <2>3 DEF Agrees
      <4> QED  BY <3>1, <3>2, <4>1 DEF Fits, JumpOps, NameOps
    <3>4. k.op # "JMP" => d[at + 1] = d[at] + Effect(k)
      BY <2>1, <2>3, <3>1, <3>2 DEF Agrees
    <3>5. ASSUME k.op = "JMP"
          PROVE  \E r \in 1..at-1 : g.code[r].op \in JumpOps /\ r + g.code[r].a = at
      <4>1. PICK r \in 1..at-1 : fun.code[r].op \in JumpOps /\ r + fun.code[r].a = at
        BY <2>1, <2>3, <3>1, <3>5 DEF Agrees
      <4>2. r \in 1..n /\ r # at
        BY <1>2, <1>3
      <4> QED  BY <4>1, <4>2, <1>4, <1>5
    <3>6. <<at, d[at]>> \notin wait
      BY <1>3
    <3> HIDE DEF n
    <3>7. at + k.a = n /\ at + 1 + k.a = n + 1 /\ n <= n
      <4> HIDE DEF k
      <4> QED  BY <3>1, <1>2, <1>3
    <3>8. at + k.a <= Len(g.code) /\ d[at + 1 + k.a] = d[at]
      BY <3>7, <1>1, <1>3, <1>4, <1>5
    <3> HIDE DEF wait
    <3> QED  BY <2>3, <3>3, <3>4, <3>5, <3>6, <3>8 DEF Agrees
  <2> QED  BY <2>2, <2>3
<1>11. ASSUME NEW x \in wait
       PROVE  x[1] \in 1..n /\ x = <<x[1], d[x[1]]>> /\ g.code[x[1]].op \in JumpOps
  <2>1. x[1] \in 1..n /\ x = <<x[1], d[x[1]]>> /\ fun.code[x[1]].op \in JumpOps
    BY <1>1, WalkPend
  <2>2. x[1] # at
    BY <2>1, <1>3
  <2> QED  BY <2>1, <2>2, <1>4, <1>5
<1>12. Walk(g, d, wait, script)
  <2> HIDE DEF wait
  <2>1. d[1] = g.arity + 1 /\ Len(g.code) = n
    BY <1>4, <1>5, <1>8
  <2> QED  BY <1>8, <1>10, <1>11, <2>1 DEF Walk
<1>13. d[Len(g.code) + 1] = E
  BY <1>1, <1>4, <1>5
<1> QED  BY <1>3, <1>12, <1>13 DEF CodeOK, g, code

(* A jump over what follows, and an earlier one that is given that as its  *)
(* target.                                                                 *)
LEMMA JumpOver ==
  ASSUME NEW fun \in Fun, NEW D \in Int, D >= 1, NEW E \in Int, NEW pend, NEW script,
         CodeOK(fun, D, pend, script), NEW at, <<at, E>> \in pend
  PROVE  /\ at \in 1..Len(fun.code)
         /\ CodeOK(WithCode(fun, Patched(Append(fun.code, I("JMP")), at)), E,
                   (pend \ {<<at, E>>}) \cup {<<Len(fun.code) + 1, D>>}, script)
<1> DEFINE n == Len(fun.code)
           o == I("JMP")
           long == Append(fun.code, o)
           code == Patched(long, at)
           g == WithCode(fun, code)
           wait == (pend \ {<<at, E>>}) \cup {<<n + 1, D>>}
<1>1. PICK d : Walk(fun, d, pend, script) /\ d[n + 1] = D
  BY DEF CodeOK
<1>2. fun.code \in Seq(Instr) /\ n \in Nat /\ o \in Instr
  <2>1. "JMP" \in Ops
    BY DEF Ops
  <2> QED  BY <2>1, InstrIs, IsInstr DEF Fun
<1>3. at \in 1..n /\ d[at] = E /\ fun.code[at].op \in JumpOps
  <2>1. <<at, E>>[1] = at /\ <<at, E>>[2] = E
    OBVIOUS
  <2>2. <<at, E>>[1] \in 1..n /\ <<at, E>> = <<<<at, E>>[1], d[<<at, E>>[1]]>>
        /\ fun.code[<<at, E>>[1]].op \in JumpOps
    BY <1>1, WalkPend
  <2> QED  BY <2>1, <2>2
<1>4. /\ long \in Seq(Instr) /\ Len(long) = n + 1 /\ long[n + 1] = o
      /\ \A j \in 1..n : long[j] = fun.code[j]
  BY <1>2
<1> HIDE DEF long
<1>5. /\ code \in Seq(Instr) /\ Len(code) = n + 1 /\ code[n + 1] = o
      /\ code[at].op = fun.code[at].op /\ code[at].a = n + 1 - at
      /\ \A j \in 1..n : j # at => code[j] = fun.code[j]
  <2>1. at \in 1..Len(long) /\ n + 1 \in 1..Len(long) /\ n + 1 # at
    BY <1>2, <1>3, <1>4
  <2>2. \A j \in 1..n : j \in 1..Len(long)
    BY <1>2, <1>4
  <2>3. /\ code \in Seq(Instr) /\ Len(code) = Len(long)
        /\ code[at] = [long[at] EXCEPT !.a = Len(long) - at]
        /\ \A j \in 1..Len(long) : j # at => code[j] = long[j]
    BY <1>4, <2>1, PatchedOK
  <2> HIDE DEF code, n
  <2>4. code[n + 1] = o
    BY <2>1, <2>3, <1>4
  <2>5. code[at].op = fun.code[at].op /\ code[at].a = n + 1 - at
    <3>1. long[at] = fun.code[at] /\ Len(long) = n + 1
      BY <1>3, <1>4
    <3>2. long[at] \in Instr
      BY <1>4, <2>1, InstrIs
    <3>3. \A i \in Instr : \A m : [i EXCEPT !.a = m].op = i.op /\ [i EXCEPT !.a = m].a = m
      BY DEF Instr
    <3>4. code[at].op = long[at].op /\ code[at].a = Len(long) - at
      BY <3>2, <3>3, <2>3
    <3>5. n \in Nat /\ at \in Nat
      BY <1>2, <1>3 DEF n
    <3> QED  BY <3>1, <3>4, <3>5
  <2>6. ASSUME NEW j \in 1..n, j # at PROVE code[j] = fun.code[j]
    BY <2>2, <2>3, <2>6, <1>4
  <2>7. code \in Seq(Instr) /\ Len(code) = n + 1
    BY <2>3, <1>4
  <2> QED  BY <2>4, <2>5, <2>6, <2>7
<1> HIDE DEF code
<1>6. g \in Fun /\ g.code = code /\ g.consts = fun.consts /\ g.arity = fun.arity
  BY <1>5, WithCodeIs
<1>7. fun.code[at].a = 0 /\ fun.code[at] \in Instr
  BY <1>1, <1>2, <1>3, WalkAt, InstrIs
<1>8. Grows(fun, g)
  <2>1. Len(fun.code) = n /\ Len(g.code) = n + 1 /\ n \in Nat
    BY <1>2, <1>5, <1>6
  <2>2. \A r \in 1..n : fun.code[r].a # 0 => g.code[r] = fun.code[r]
    BY <1>5, <1>6, <1>7
  <2> HIDE DEF n
  <2>3. Len(fun.code) <= Len(g.code)
    BY <2>1
  <2> QED  BY <2>1, <2>2, <2>3, <1>6 DEF Grows
<1>9. d \in [1..n+1 -> Int] /\ d[1] = fun.arity + 1
  BY <1>1 DEF Walk
<1> HIDE DEF g, o
<1> DEFINE h == [k \in 1..n+2 |-> IF k <= n + 1 THEN d[k] ELSE E]
<1>10. h \in [1..n+2 -> Int] /\ (\A k \in 1..n+1 : h[k] = d[k]) /\ h[n + 2] = E /\ h[n + 1] = D
  <2> HIDE DEF n
  <2> QED  BY <1>1, <1>2, <1>9
<1> HIDE DEF h
<1>11. at \in 1..n+1 /\ h[at] = E /\ <<at, h[at]>> \notin wait
  BY <1>2, <1>3, <1>10
<1>12. ASSUME NEW j \in 1..n PROVE Agrees(g, h, wait, script, j)
  <2>1. Agrees(fun, d, pend, script, j)
    BY <1>1 DEF Walk
  <2>2. CASE j # at
    <3>1. g.code[j] = fun.code[j] /\ (<<j, d[j]>> \in pend <=> <<j, d[j]>> \in wait)
      BY <2>2, <1>2, <1>5, <1>6, SMTT(30)
    <3> HIDE DEF wait
    <3> QED  BY <2>1, <3>1, <1>8, <1>10, AgreesGrows
  <2>3. CASE j = at
    <3> DEFINE i == fun.code[at]
               k == g.code[at]
    <3>1. k.op = i.op /\ k.a = n + 1 - at /\ i.op \in JumpOps /\ i.a = 0
      BY <1>3, <1>5, <1>6, <1>7 DEF Instr
    <3>2. Needs(k) = Needs(i) /\ Effect(k) = Effect(i)
      BY <3>1 DEF Needs, Effect, JumpOps, BinaryOps, UnaryOps
    <3>3. Fits(g, k, h[at], script)
      <4>1. Fits(fun, i, d[at], script)
        BY <2>1, <2>3 DEF Agrees
      <4> QED  BY <3>1, <3>2, <4>1, <1>3, <1>11 DEF Fits, JumpOps, NameOps
    <3>4. k.op # "JMP" => h[at + 1] = h[at] + Effect(k)
      <4>1. h[at + 1] = d[at + 1] /\ h[at] = d[at]
        <5> HIDE DEF n
        <5>1. at \in 1..n+1 /\ at + 1 \in 1..n+1
          BY <1>2, <1>3
        <5> QED  BY <5>1, <1>10
      <4> QED  BY <4>1, <2>1, <2>3, <3>1, <3>2 DEF Agrees
    <3>5. ASSUME k.op = "JMP"
          PROVE  \E r \in 1..at-1 : g.code[r].op \in JumpOps /\ r + g.code[r].a = at
      <4>1. PICK r \in 1..at-1 : fun.code[r].op \in JumpOps /\ r + fun.code[r].a = at
        BY <2>1, <2>3, <3>1, <3>5 DEF Agrees
      <4>2. r \in 1..n /\ r # at
        BY <1>2, <1>3
      <4> QED  BY <4>1, <4>2, <1>5, <1>6
    <3> HIDE DEF n
    <3>7. at + k.a = n + 1 /\ at + 1 + k.a = n + 2 /\ n + 1 <= n + 1
      <4> HIDE DEF k
      <4> QED  BY <3>1, <1>2, <1>3
    <3>8. at + k.a <= Len(g.code) /\ h[at + 1 + k.a] = h[at]
      BY <3>7, <1>5, <1>6, <1>10, <1>11
    <3> HIDE DEF wait
    <3> QED  BY <2>3, <3>3, <3>4, <3>5, <3>8, <1>11 DEF Agrees
  <2> QED  BY <2>2, <2>3
<1>13. Agrees(g, h, wait, script, n + 1)
  <2>1. g.code[n + 1] = o /\ o.op = "JMP" /\ o.a = 0 /\ Needs(o) = 0
    BY <1>5, <1>6 DEF o, I, Needs, BinaryOps, UnaryOps
  <2>2. Fits(g, o, h[n + 1], script)
    BY <2>1, <1>10 DEF Fits, NameOps
  <2>3. <<n + 1, h[n + 1]>> \in wait
    BY <1>10
  <2>4. \E r \in 1..(n + 1)-1 : g.code[r].op \in JumpOps /\ r + g.code[r].a = n + 1
    <3>1. at \in 1..(n + 1)-1
      BY <1>2, <1>3
    <3>2. g.code[at].op \in JumpOps /\ g.code[at].a = n + 1 - at
      BY <1>3, <1>5, <1>6, <1>7 DEF Instr
    <3>3. at + g.code[at].a = n + 1
      <4> DEFINE b == g.code[at].a
      <4>1. b = n + 1 - at
        BY <3>2
      <4> HIDE DEF b
      <4>2. at + b = n + 1
        BY <4>1, <1>2, <1>3
      <4> QED  BY <4>2 DEF b
    <3> QED  BY <3>1, <3>2, <3>3
  <2> HIDE DEF wait
  <2> QED  BY <2>1, <2>2, <2>3, <2>4 DEF Agrees, JumpOps
<1>14. ASSUME NEW x \in wait
       PROVE  x[1] \in 1..n+1 /\ x = <<x[1], h[x[1]]>> /\ g.code[x[1]].op \in JumpOps
  <2>1. CASE x \in pend /\ x # <<at, E>>
    <3>1. x[1] \in 1..n /\ x = <<x[1], d[x[1]]>> /\ fun.code[x[1]].op \in JumpOps
      BY <2>1, <1>1, WalkPend
    <3>2. x[1] # at
      BY <2>1, <3>1, <1>3
    <3>3. x[1] \in 1..n+1 /\ h[x[1]] = d[x[1]] /\ g.code[x[1]] = fun.code[x[1]]
      BY <3>1, <3>2, <1>2, <1>5, <1>6, <1>10, SMTT(30)
    <3> QED  BY <3>1, <3>3
  <2>2. CASE x = <<n + 1, D>>
    <3>1. x[1] = n + 1 /\ x[2] = D
      BY <2>2
    <3>2. g.code[n + 1].op \in JumpOps
      BY <1>5, <1>6 DEF o, I, JumpOps
    <3>3. n + 1 \in 1..n+1
      BY <1>2
    <3> QED  BY <3>1, <3>2, <3>3, <2>2, <1>10
  <2> QED  BY <2>1, <2>2
<1>15. Walk(g, h, wait, script)
  <2> HIDE DEF wait, n
  <2>1. ASSUME NEW j \in 1..n+1 PROVE Agrees(g, h, wait, script, j)
    <3>1. j \in 1..n \/ j = n + 1
      BY <1>2
    <3> QED  BY <3>1, <1>12, <1>13
  <2>2. h[1] = g.arity + 1 /\ Len(g.code) = n + 1 /\ Len(g.code) + 1 = n + 2
    BY <1>2, <1>5, <1>6, <1>9, <1>10
  <2> QED  BY <1>10, <1>14, <2>1, <2>2 DEF Walk
<1>16. h[Len(g.code) + 1] = E
  BY <1>2, <1>5, <1>6, <1>10
<1> QED  BY <1>3, <1>15, <1>16 DEF CodeOK, g, code, long, o, n

(* Constants that are added.                                               *)
LEMMA MoreConstants ==
  ASSUME NEW f, NEW g, Grows(f, g), f.code = g.code, f.arity = g.arity,
         NEW D, NEW pend, NEW script, CodeOK(f, D, pend, script)
  PROVE  CodeOK(g, D, pend, script)
<1>1. PICK d : Walk(f, d, pend, script) /\ d[Len(f.code) + 1] = D
  BY DEF CodeOK
<1>2. \A j \in 1..Len(f.code) : Agrees(g, d, pend, script, j)
  <2> SUFFICES ASSUME NEW j \in 1..Len(f.code) PROVE Agrees(g, d, pend, script, j)
    OBVIOUS
  <2>1. Agrees(f, d, pend, script, j)
    BY <1>1 DEF Walk
  <2> QED  BY <2>1, AgreesGrows
<1>3. Walk(g, d, pend, script)
  BY <1>1, <1>2 DEF Walk
<1> QED  BY <1>1, <1>3 DEF CodeOK

-----------------------------------------------------------------------------
(* Points.  What is true where a call begins: rest is the enclosing        *)
(* compilers and their code, bases how many locals there were at the       *)
(* beginning of each scope, L how many there are, D the depth of the       *)
(* stack, uninit whether the last local has no value yet, pend the jumps   *)
(* without a target and their depths, names the operands that are names,   *)
(* empty that there is no code.  After declarations the point is loose:    *)
(* L and D are equal, but nothing is known of what they are.               *)

Enclosure == [comp : Compiling, fun : Fun]

Point ==
  [rest : Seq(Enclosure), bases : Seq(Nat), loose : BOOLEAN, L : Nat, D : Int,
   uninit : BOOLEAN, pend : SUBSET (Nat \X Int), names : SUBSET Nat, empty : BOOLEAN]

Plus(p, n) == [p EXCEPT !.D = @ + n, !.empty = FALSE]
Less(p, x) == [p EXCEPT !.pend = @ \ {x}, !.empty = FALSE]
Loosened(p) == [p EXCEPT !.loose = TRUE, !.empty = FALSE]
Begins(p) == [p EXCEPT !.uninit = FALSE, !.empty = FALSE]
Base(p) == p.bases[Len(p.bases)]
Left(p) ==
  [rest |-> p.rest, bases |-> SubSeq(p.bases, 1, Len(p.bases) - 1), loose |-> FALSE,
   L |-> Base(p), D |-> Base(p), uninit |-> FALSE, pend |-> p.pend, names |-> p.names,
   empty |-> FALSE]

(* Only locals are on the stack; an expression may begin; one is there.    *)
InList(p) == p.loose \/ (p.D = p.L /\ ~p.uninit)
InExpr(p) == ~p.loose /\ p.D >= 1 /\ p.D + (IF p.uninit THEN 1 ELSE 0) >= p.L
Over(p) == ~p.loose /\ p.D >= 2 /\ p.D - 1 + (IF p.uninit THEN 1 ELSE 0) >= p.L
Only(p) == ~p.loose /\ ~p.uninit /\ p.D = p.L + 1 /\ p.D >= 2

(* An instruction that may be emitted at p.                                *)
Good(i, p) ==
  /\ i.op \notin JumpOps \cup {"CONST"}
  /\ p.D >= Needs(i) + 1
  /\ i.op \in {"LD", "ST"} => i.a < p.D
  /\ i.op \in NameOps => i.a \in p.names
  /\ i.op = "RET" => p.rest # <<>>

GoodCode(c, p) ==
  \/ Len(c) = 1 /\ Good(c[1], p)
  \/ Len(c) = 2 /\ Good(c[1], p) /\ Good(c[2], Plus(p, Effect(c[1])))
Effects(c) == IF Len(c) = 1 THEN Effect(c[1]) ELSE Effect(c[1]) + Effect(c[2])

Normal(t) == t.do \notin {"start", "program", "endFunction"}

(* What a call needs of the point where it begins.                         *)
Pre(t, p) ==
  CASE t.do = "parsePrecedence" -> InExpr(p) /\ t.prec >= 1
    [] t.do = "operators" -> Over(p) /\ t.prec >= 1
    [] t.do \in {"constant", "map", "initializer", "variable"} -> InExpr(p)
    [] t.do = "function" -> ~p.loose /\ ~p.uninit /\ p.D >= 1
    [] t.do \in {"dot", "and", "or", "argumentList"} -> Over(p)
    [] t.do = "assignable" ->
         /\ InExpr(p) /\ Len(t.set.code) = 1
         /\ Good(t.get, p) /\ Good(t.set.code[1], Plus(p, 1))
         /\ InExpr(Plus(p, Effect(t.get) - 1))
         /\ Effect(t.get) = Effect(t.set.code[1]) + 1
    [] t.do = "arguments" -> InExpr(p) /\ p.D >= t.count + 2
    [] t.do = "elements" -> InExpr(p) /\ p.D >= t.count + 1
    [] t.do = "values" -> InExpr(p) /\ ~p.uninit /\ p.D = p.L + t.count /\ p.D >= t.count + 1
    [] t.do = "emit" -> ~p.loose /\ GoodCode(t.code, p)
    [] t.do = "patchJump" -> ~p.loose /\ <<t.at, p.D>> \in p.pend
    [] t.do \in {"endExpression", "then"} -> Only(p)
    [] t.do = "else" -> ~p.loose /\ InList(p) /\ <<t.at, p.D + 1>> \in p.pend
    [] t.do \in {"globalDeclaration", "globals"} -> InList(p) /\ p.bases = <<>>
    [] t.do \in {"parameterList", "parameter", "parameters"} ->
         InList(p) /\ p.bases = << 1 >> /\ p.empty
    [] t.do = "defineVariable" ->
         IF p.bases = <<>> THEN Only(p) /\ t.global \in p.names
         ELSE ~p.loose /\ p.D = p.L /\ p.L > Base(p)
    [] t.do = "endScope" -> InList(p) /\ p.bases # <<>>
    [] t.do = "consume" -> TRUE
    [] OTHER -> InList(p)

(* Where the next one begins.                                              *)
Post(t, p) ==
  CASE t.do \in {"parsePrecedence", "constant", "map", "initializer", "variable", "function"} ->
         Plus(p, 1)
    [] t.do = "assignable" -> Plus(p, Effect(t.get))
    [] t.do \in {"arguments", "values"} -> Plus(p, -t.count)
    [] t.do = "elements" -> Plus(p, 1 - t.count)
    [] t.do = "emit" -> Plus(p, Effects(t.code))
    [] t.do = "patchJump" -> Less(p, <<t.at, p.D>>)
    [] t.do = "else" -> Less(p, <<t.at, p.D + 1>>)
    [] t.do \in {"endExpression", "then"} -> Plus(p, -1)
    [] t.do \in {"declaration", "endDeclaration", "declareUntil", "varDeclaration",
                 "funDeclaration", "globalDeclaration", "globals", "parameterList",
                 "parameter", "parameters"} -> Loosened(p)
    [] t.do = "defineVariable" -> IF p.bases = <<>> THEN Plus(p, -1) ELSE Begins(p)
    [] t.do = "endScope" -> Left(p)
    [] OTHER -> Plus(p, 0)

(* The compiler e.comp and its code e.fun are at p.                        *)
Rank(c, i) == IF c.locals[i].depth = -1 THEN c.scope ELSE c.locals[i].depth

LocalsOK(c, p) ==
  /\ c.scope = Len(p.bases) /\ Len(c.locals) = p.L
  /\ \A i \in 1..p.L : /\ c.locals[i].depth \in 0..c.scope \cup {-1}
                       /\ c.locals[i].depth = -1 <=> p.uninit /\ i = p.L
  /\ \A s \in 1..c.scope : /\ p.bases[s] \in 1..p.L
                           /\ \A i \in 1..p.L : i <= p.bases[s] <=> Rank(c, i) < s
  /\ IF c.scope > 0 THEN p.bases[1] = 1 ELSE p.L = 1

Stands(e, p) ==
  /\ ~p.loose /\ LocalsOK(e.comp, p)
  /\ CodeOK(e.fun, p.D, p.pend, p.rest = <<>>)
  /\ p.names \subseteq StrNames(e.fun)
  /\ p.empty => e.fun.code = <<>>

(* Where q is promised, it is enough to be at p.                           *)
Flow(p, q) ==
  /\ p.rest = q.rest /\ p.bases = q.bases /\ p.pend = q.pend
  /\ q.names \subseteq p.names /\ (q.empty => p.empty)
  /\ IF q.loose THEN InList(p)
     ELSE ~p.loose /\ p.L = q.L /\ p.D = q.D /\ (p.uninit <=> q.uninit)

(* The call t begins at p, and the next one at q.                          *)
Deep(t, p, q) ==
  \/ Normal(t) /\ Pre(t, p) /\ Flow(Post(t, p), q)
  \/ /\ t.do = "endFunction" /\ InList(p) /\ p.pend = {} /\ p.bases = << 1 >> /\ p.rest # <<>>
     /\ q.rest = Tail(p.rest) /\ ~q.loose /\ ~q.empty
     /\ Stands(p.rest[1], Plus(q, -1))
  \/ t.do \in {"start", "program"} /\ InList(p) /\ p.pend = {} /\ p.bases = <<>> /\ p.rest = <<>>

Run(ts, p) ==
  \E at \in [1..Len(ts)+1 -> Point] :
    at[1] = p /\ \A k \in 1..Len(ts) : Deep(ts[k], at[k], at[k + 1])

-----------------------------------------------------------------------------
(* The invariant, as long as there is no error.                            *)

Around == [i \in 1..Len(compilers)-1 |->
             [comp |-> compilers[i + 1], fun |-> functions[compilers[i + 1].fn]]]

DeepInv ==
  (Clean /\ status = "compiling" /\ pos > 0)
  => \E p \in Point : /\ p.rest = Around /\ Run(tasks, p)
                      /\ Stands([comp |-> Comp, fun |-> Chunk], p)

-----------------------------------------------------------------------------
(* What becomes of a point.                                                *)

LEMMA PointIs ==
  ASSUME NEW p \in Point
  PROVE  /\ p.rest \in Seq(Enclosure) /\ p.bases \in Seq(Nat) /\ p.L \in Nat /\ p.D \in Int
         /\ p.pend \in SUBSET (Nat \X Int) /\ p.names \in SUBSET Nat
         /\ p.loose \in BOOLEAN /\ p.uninit \in BOOLEAN /\ p.empty \in BOOLEAN
BY DEF Point

LEMMA PlusIs ==
  ASSUME NEW p \in Point, NEW n \in Int
  PROVE  LET q == Plus(p, n) IN
         /\ q \in Point /\ q.rest = p.rest /\ q.bases = p.bases /\ (q.loose <=> p.loose)
         /\ q.L = p.L /\ q.D = p.D + n /\ (q.uninit <=> p.uninit)
         /\ q.pend = p.pend /\ q.names = p.names /\ ~q.empty
<1>1. p.D + n \in Int
  BY PointIs
<1> DEFINE m == p.D + n
<1>2. Plus(p, n) = [p EXCEPT !.D = m, !.empty = FALSE] /\ m \in Int
  BY <1>1 DEF Plus
<1> HIDE DEF m
<1>3. LET q == [p EXCEPT !.D = m, !.empty = FALSE] IN
      /\ q \in Point /\ q.rest = p.rest /\ q.bases = p.bases /\ (q.loose <=> p.loose)
      /\ q.L = p.L /\ q.D = m /\ (q.uninit <=> p.uninit)
      /\ q.pend = p.pend /\ q.names = p.names /\ ~q.empty
  BY <1>2 DEF Point
<1> QED  BY <1>2, <1>3 DEF m

LEMMA LessIs ==
  ASSUME NEW p \in Point, NEW x
  PROVE  LET q == Less(p, x) IN
         /\ q \in Point /\ q.rest = p.rest /\ q.bases = p.bases /\ (q.loose <=> p.loose)
         /\ q.L = p.L /\ q.D = p.D /\ (q.uninit <=> p.uninit)
         /\ q.pend = p.pend \ {x} /\ q.names = p.names /\ ~q.empty
BY DEF Less, Point

LEMMA LoosenedIs ==
  ASSUME NEW p \in Point
  PROVE  LET q == Loosened(p) IN
         /\ q \in Point /\ q.rest = p.rest /\ q.bases = p.bases /\ q.loose
         /\ q.L = p.L /\ q.D = p.D /\ (q.uninit <=> p.uninit)
         /\ q.pend = p.pend /\ q.names = p.names /\ ~q.empty
BY DEF Loosened, Point

LEMMA BeginsIs ==
  ASSUME NEW p \in Point
  PROVE  LET q == Begins(p) IN
         /\ q \in Point /\ q.rest = p.rest /\ q.bases = p.bases /\ (q.loose <=> p.loose)
         /\ q.L = p.L /\ q.D = p.D /\ ~q.uninit
         /\ q.pend = p.pend /\ q.names = p.names /\ ~q.empty
BY DEF Begins, Point

LEMMA LeftIs ==
  ASSUME NEW p \in Point, p.bases # <<>>
  PROVE  LET q == Left(p) IN
         /\ q \in Point /\ q.rest = p.rest /\ ~q.loose
         /\ q.bases = SubSeq(p.bases, 1, Len(p.bases) - 1)
         /\ q.L = Base(p) /\ q.D = Base(p) /\ ~q.uninit /\ Base(p) \in Nat
         /\ q.pend = p.pend /\ q.names = p.names /\ ~q.empty
<1>1. p.bases \in Seq(Nat)
  BY PointIs
<1>2. Base(p) \in Nat /\ SubSeq(p.bases, 1, Len(p.bases) - 1) \in Seq(Nat)
  BY <1>1 DEF Base
<1> QED  BY <1>2, PointIs DEF Left, Point

LEMMA FlowSelf == ASSUME NEW p \in Point PROVE Flow(p, p)
BY DEF Flow, InList

LEMMA FlowList ==
  ASSUME NEW p \in Point, NEW q \in Point, Flow(p, q)
  PROVE  InList(q) => InList(p)
BY DEF Flow, InList

LEMMA FlowTrans ==
  ASSUME NEW p \in Point, NEW q \in Point, NEW r \in Point, Flow(p, q), Flow(q, r)
  PROVE  Flow(p, r)
BY DEF Flow, InList

(* Flow at a point that is not loose.                                      *)
LEMMA FlowPlus ==
  ASSUME NEW p \in Point, NEW q \in Point, Flow(p, q), ~q.loose, NEW n \in Int
  PROVE  Flow(Plus(p, n), Plus(q, n))
BY PlusIs DEF Flow

LEMMA FlowKeep ==
  ASSUME NEW p \in Point, NEW q \in Point, Flow(p, q)
  PROVE  Flow(Plus(p, 0), Plus(q, 0))
<1>1. p.D + 0 = p.D /\ q.D + 0 = q.D
  BY PointIs
<1> QED  BY PlusIs, <1>1 DEF Flow, InList

LEMMA FlowLess ==
  ASSUME NEW p \in Point, NEW q \in Point, Flow(p, q), ~q.loose, NEW x
  PROVE  Flow(Less(p, x), Less(q, x))
<1>1. p.pend = q.pend
  BY DEF Flow
<1>2. Less(p, x).pend = p.pend \ {x} /\ Less(q, x).pend = q.pend \ {x}
  BY LessIs
<1>3. Less(p, x).pend = Less(q, x).pend
  BY <1>1, <1>2, Zenon
<1> QED  BY <1>3, LessIs DEF Flow

LEMMA FlowLoosened ==
  ASSUME NEW p \in Point, NEW q \in Point, Flow(p, q), InList(q)
  PROVE  Flow(Loosened(p), Loosened(q))
BY LoosenedIs DEF Flow, InList

LEMMA FlowBegins ==
  ASSUME NEW p \in Point, NEW q \in Point, Flow(p, q), ~q.loose
  PROVE  Flow(Begins(p), Begins(q))
BY BeginsIs DEF Flow

LEMMA FlowLeft ==
  ASSUME NEW p \in Point, NEW q \in Point, Flow(p, q), q.bases # <<>>
  PROVE  Flow(Left(p), Left(q))
<1>1. p.bases = q.bases /\ p.rest = q.rest /\ p.pend = q.pend
      /\ q.names \subseteq p.names
  BY DEF Flow
<1>2. Base(p) = Base(q) /\ p.bases # <<>>
  BY <1>1 DEF Base
<1>3. Left(p).bases = Left(q).bases
  <2>1. /\ Left(p).bases = SubSeq(p.bases, 1, Len(p.bases) - 1)
        /\ Left(q).bases = SubSeq(q.bases, 1, Len(q.bases) - 1)
    BY <1>2, LeftIs
  <2> QED  BY <1>1, <2>1, Zenon
<1> HIDE DEF Flow
<1>4. Left(p).rest = Left(q).rest /\ Left(p).pend = Left(q).pend
      /\ Left(q).names \subseteq Left(p).names
      /\ ~Left(p).loose /\ ~Left(q).loose /\ Left(p).L = Left(q).L /\ Left(p).D = Left(q).D
      /\ ~Left(p).uninit /\ ~Left(q).uninit /\ ~Left(q).empty
  BY <1>1, <1>2, LeftIs
<1> QED  BY <1>3, <1>4 DEF Flow

(* The tables of Pre and Post, by kind of call.                            *)
Pushing == {"constant", "map", "initializer", "variable"}
Binary == {"dot", "and", "or", "argumentList"}
Heads == {"parameterList", "parameter", "parameters"}
Listed == {"declaration", "endDeclaration", "declareUntil", "varDeclaration", "funDeclaration"}
Single == {"statement", "returnValue"}

LEMMA PreIs ==
  ASSUME NEW t, NEW p
  PROVE  /\ t.do = "parsePrecedence" => (Pre(t, p) <=> InExpr(p) /\ t.prec >= 1)
         /\ t.do = "operators" => (Pre(t, p) <=> Over(p) /\ t.prec >= 1)
         /\ t.do \in Pushing => (Pre(t, p) <=> InExpr(p))
         /\ t.do = "function" => (Pre(t, p) <=> ~p.loose /\ ~p.uninit /\ p.D >= 1)
         /\ t.do \in Binary => (Pre(t, p) <=> Over(p))
         /\ t.do = "assignable" =>
              (Pre(t, p) <=> /\ InExpr(p) /\ Len(t.set.code) = 1
                             /\ Good(t.get, p) /\ Good(t.set.code[1], Plus(p, 1))
                             /\ InExpr(Plus(p, Effect(t.get) - 1))
                             /\ Effect(t.get) = Effect(t.set.code[1]) + 1)
         /\ t.do = "arguments" => (Pre(t, p) <=> InExpr(p) /\ p.D >= t.count + 2)
         /\ t.do = "elements" => (Pre(t, p) <=> InExpr(p) /\ p.D >= t.count + 1)
         /\ t.do = "values" => (Pre(t, p) <=> /\ InExpr(p) /\ ~p.uninit /\ p.D = p.L + t.count
                                              /\ p.D >= t.count + 1)
         /\ t.do = "emit" => (Pre(t, p) <=> ~p.loose /\ GoodCode(t.code, p))
         /\ t.do = "patchJump" => (Pre(t, p) <=> ~p.loose /\ <<t.at, p.D>> \in p.pend)
         /\ t.do \in {"endExpression", "then"} => (Pre(t, p) <=> Only(p))
         /\ t.do = "else" => (Pre(t, p) <=> /\ ~p.loose /\ InList(p)
                                            /\ <<t.at, p.D + 1>> \in p.pend)
         /\ t.do \in {"globalDeclaration", "globals"} => (Pre(t, p) <=> InList(p) /\ p.bases = <<>>)
         /\ t.do \in Heads => (Pre(t, p) <=> InList(p) /\ p.bases = << 1 >> /\ p.empty)
         /\ t.do = "defineVariable" =>
              (Pre(t, p) <=> IF p.bases = <<>> THEN Only(p) /\ t.global \in p.names
                             ELSE ~p.loose /\ p.D = p.L /\ p.L > Base(p))
         /\ t.do = "endScope" => (Pre(t, p) <=> InList(p) /\ p.bases # <<>>)
         /\ t.do = "consume" => Pre(t, p)
         /\ t.do \in Listed \cup Single => (Pre(t, p) <=> InList(p))
<1>1. /\ t.do = "parsePrecedence" => (Pre(t, p) <=> InExpr(p) /\ t.prec >= 1)
      /\ t.do = "operators" => (Pre(t, p) <=> Over(p) /\ t.prec >= 1)
      /\ t.do \in Pushing => (Pre(t, p) <=> InExpr(p))
      /\ t.do = "function" => (Pre(t, p) <=> ~p.loose /\ ~p.uninit /\ p.D >= 1)
      /\ t.do \in Binary => (Pre(t, p) <=> Over(p))
  BY DEF Pre, Pushing, Binary
<1>2. t.do = "assignable" =>
        (Pre(t, p) <=> /\ InExpr(p) /\ Len(t.set.code) = 1
                       /\ Good(t.get, p) /\ Good(t.set.code[1], Plus(p, 1))
                       /\ InExpr(Plus(p, Effect(t.get) - 1))
                       /\ Effect(t.get) = Effect(t.set.code[1]) + 1)
  BY DEF Pre
<1>3. /\ t.do = "arguments" => (Pre(t, p) <=> InExpr(p) /\ p.D >= t.count + 2)
      /\ t.do = "elements" => (Pre(t, p) <=> InExpr(p) /\ p.D >= t.count + 1)
      /\ t.do = "values" => (Pre(t, p) <=> /\ InExpr(p) /\ ~p.uninit /\ p.D = p.L + t.count
                                           /\ p.D >= t.count + 1)
      /\ t.do = "emit" => (Pre(t, p) <=> ~p.loose /\ GoodCode(t.code, p))
      /\ t.do = "patchJump" => (Pre(t, p) <=> ~p.loose /\ <<t.at, p.D>> \in p.pend)
      /\ t.do \in {"endExpression", "then"} => (Pre(t, p) <=> Only(p))
      /\ t.do = "else" => (Pre(t, p) <=> /\ ~p.loose /\ InList(p)
                                         /\ <<t.at, p.D + 1>> \in p.pend)
  BY DEF Pre
<1>4. /\ t.do \in {"globalDeclaration", "globals"} => (Pre(t, p) <=> InList(p) /\ p.bases = <<>>)
      /\ t.do \in Heads => (Pre(t, p) <=> InList(p) /\ p.bases = << 1 >> /\ p.empty)
      /\ t.do = "defineVariable" =>
           (Pre(t, p) <=> IF p.bases = <<>> THEN Only(p) /\ t.global \in p.names
                          ELSE ~p.loose /\ p.D = p.L /\ p.L > Base(p))
      /\ t.do = "endScope" => (Pre(t, p) <=> InList(p) /\ p.bases # <<>>)
      /\ t.do = "consume" => Pre(t, p)
      /\ t.do \in Listed \cup Single => (Pre(t, p) <=> InList(p))
  BY DEF Pre, Heads, Listed, Single
<1> QED  BY <1>1, <1>2, <1>3, <1>4

LEMMA PostIs ==
  ASSUME NEW t, NEW p
  PROVE  /\ t.do \in {"parsePrecedence", "function"} \cup Pushing => Post(t, p) = Plus(p, 1)
         /\ t.do \in {"operators", "consume"} \cup Binary \cup Single => Post(t, p) = Plus(p, 0)
         /\ t.do = "assignable" => Post(t, p) = Plus(p, Effect(t.get))
         /\ t.do \in {"arguments", "values"} => Post(t, p) = Plus(p, -t.count)
         /\ t.do = "elements" => Post(t, p) = Plus(p, 1 - t.count)
         /\ t.do = "emit" => Post(t, p) = Plus(p, Effects(t.code))
         /\ t.do = "patchJump" => Post(t, p) = Less(p, <<t.at, p.D>>)
         /\ t.do \in {"endExpression", "then"} => Post(t, p) = Plus(p, -1)
         /\ t.do = "else" => Post(t, p) = Less(p, <<t.at, p.D + 1>>)
         /\ t.do \in {"globalDeclaration", "globals"} \cup Heads \cup Listed
              => Post(t, p) = Loosened(p)
         /\ t.do = "defineVariable" =>
              Post(t, p) = IF p.bases = <<>> THEN Plus(p, -1) ELSE Begins(p)
         /\ t.do = "endScope" => Post(t, p) = Left(p)
BY DEF Post, Pushing, Binary, Heads, Listed, Single

(* Every call is of one of these kinds.                                    *)
LEMMA Kinds ==
  ASSUME NEW t \in ACall
  PROVE  t.do \in {"start", "program", "endFunction"}
                  \cup {"parsePrecedence", "operators", "function", "assignable", "arguments",
                        "elements", "values", "emit", "patchJump", "endExpression", "then",
                        "else", "globalDeclaration", "globals", "defineVariable", "endScope",
                        "consume"}
                  \cup Pushing \cup Binary \cup Heads \cup Listed \cup Single
BY DEF ACall, Emission, SimpleCalls, Pushing, Binary, Heads, Listed, Single

LEMMA GoodFlow ==
  ASSUME NEW p \in Point, NEW q \in Point, Flow(p, q), ~q.loose, NEW i, Good(i, q)
  PROVE  Good(i, p)
BY DEF Flow, Good

LEMMA EffectsAre ==
  ASSUME NEW c \in Seq(Instr), Len(c) \in {1, 2}
  PROVE  /\ Effects(c) \in Int /\ Effect(c[1]) \in Int
         /\ Len(c) = 1 => Effects(c) = Effect(c[1])
         /\ Len(c) = 2 => Effect(c[2]) \in Int /\ Effects(c) = Effect(c[1]) + Effect(c[2])
<1>1. c[1] \in Instr /\ (Len(c) = 2 => c[2] \in Instr)
  OBVIOUS
<1>2. Effect(c[1]) \in Int /\ (Len(c) = 2 => Effect(c[2]) \in Int)
  BY <1>1, NeedsIs
<1> QED  BY <1>2 DEF Effects

LEMMA GoodCodeFlow ==
  ASSUME NEW p \in Point, NEW q \in Point, Flow(p, q), ~q.loose, NEW c \in Seq(Instr),
         GoodCode(c, q)
  PROVE  GoodCode(c, p) /\ Effects(c) \in Int
<1>1. Len(c) \in {1, 2}
  BY DEF GoodCode
<1>2. Effects(c) \in Int /\ Effect(c[1]) \in Int
  BY <1>1, EffectsAre
<1>3. Good(c[1], p)
  BY GoodFlow DEF GoodCode
<1>4. ASSUME Len(c) = 2 PROVE Good(c[2], Plus(p, Effect(c[1])))
  <2>1. Good(c[2], Plus(q, Effect(c[1])))
    BY <1>4 DEF GoodCode
  <2>2. /\ Plus(p, Effect(c[1])) \in Point /\ Plus(q, Effect(c[1])) \in Point
        /\ ~Plus(q, Effect(c[1])).loose
    BY <1>2, PlusIs
  <2> QED  BY <1>2, <2>1, <2>2, FlowPlus, GoodFlow
<1> QED  BY <1>1, <1>2, <1>3, <1>4 DEF GoodCode

LEMMA ExprFlow ==
  ASSUME NEW p \in Point, NEW q \in Point, Flow(p, q)
  PROVE  /\ InExpr(q) => InExpr(p)
         /\ Over(q) => Over(p)
         /\ Only(q) => Only(p)
         /\ InList(q) => InList(p)
         /\ ~q.loose => ~p.loose /\ p.L = q.L /\ p.D = q.D /\ (p.uninit <=> q.uninit)
         /\ p.rest = q.rest /\ p.bases = q.bases /\ p.pend = q.pend
         /\ Base(p) = Base(q)
BY DEF Flow, InExpr, Over, Only, InList, Base

LEMMA Counts ==
  ASSUME NEW t \in ACall, t.do \in {"arguments", "elements", "values"}
  PROVE  t.count \in Nat /\ -t.count \in Int /\ 1 - t.count \in Int
<1>1. t.count \in Nat
  BY CallFields
<1> QED  BY <1>1

LEMMA AssignableIs ==
  ASSUME NEW t \in ACall, t.do = "assignable"
  PROVE  /\ t.get \in Instr /\ t.set.code \in Seq(Instr) /\ t.set \in Emission
         /\ Effect(t.get) \in Int /\ Effect(t.get) - 1 \in Int
<1>1. t.get \in Instr /\ t.set \in Emission
  BY CallFields
<1>2. Effect(t.get) \in Int
  BY <1>1, NeedsIs
<1> QED  BY <1>1, <1>2 DEF Emission

LEMMA PreFlow ==
  ASSUME NEW p \in Point, NEW q \in Point, Flow(p, q), NEW t \in ACall, Normal(t), Pre(t, q)
  PROVE  Pre(t, p) /\ Post(t, p) \in Point /\ Post(t, q) \in Point
         /\ Flow(Post(t, p), Post(t, q))
<1>1. /\ InExpr(q) => InExpr(p)
      /\ Over(q) => Over(p)
      /\ Only(q) => Only(p)
      /\ InList(q) => InList(p)
      /\ ~q.loose => ~p.loose /\ p.L = q.L /\ p.D = q.D /\ (p.uninit <=> q.uninit)
      /\ p.rest = q.rest /\ p.bases = q.bases /\ p.pend = q.pend
      /\ Base(p) = Base(q)
  BY ExprFlow
<1>2. ASSUME NEW n \in Int, ~q.loose
      PROVE  /\ Plus(p, n) \in Point /\ Plus(q, n) \in Point /\ Flow(Plus(p, n), Plus(q, n))
             /\ ~Plus(q, n).loose
  BY <1>2, PlusIs, FlowPlus
<1>3. /\ Plus(p, 0) \in Point /\ Plus(q, 0) \in Point /\ Flow(Plus(p, 0), Plus(q, 0))
  BY PlusIs, FlowKeep
<1>4. InExpr(q) \/ Over(q) \/ Only(q) => ~q.loose
  BY DEF InExpr, Over, Only
<1>5. CASE t.do \in {"parsePrecedence", "function"} \cup Pushing
  <2>1. ~q.loose /\ Pre(t, p)
    BY <1>5, <1>1, <1>4, PreIs
  <2>2. Post(t, p) = Plus(p, 1) /\ Post(t, q) = Plus(q, 1)
    BY <1>5, PostIs
  <2> QED  BY <2>1, <2>2, <1>2
<1>6. CASE t.do \in {"operators", "consume"} \cup Binary \cup Single
  <2>1. Pre(t, p)
    BY <1>6, <1>1, PreIs
  <2> QED  BY <2>1, <1>6, <1>3, PostIs
<1>7. CASE t.do = "assignable"
  <2>1. /\ InExpr(q) /\ Len(t.set.code) = 1 /\ Good(t.get, q)
        /\ Good(t.set.code[1], Plus(q, 1)) /\ InExpr(Plus(q, Effect(t.get) - 1))
        /\ Effect(t.get) = Effect(t.set.code[1]) + 1
    BY <1>7, PreIs
  <2>2. Effect(t.get) \in Int /\ Effect(t.get) - 1 \in Int
    BY <1>7, AssignableIs
  <2>3. ~q.loose /\ InExpr(p) /\ Good(t.get, p)
    BY <2>1, <1>1, <1>4, GoodFlow
  <2>4. Good(t.set.code[1], Plus(p, 1)) /\ InExpr(Plus(p, Effect(t.get) - 1))
    BY <2>1, <2>2, <2>3, <1>2, GoodFlow, ExprFlow
  <2>5. Pre(t, p)
    BY <1>7, <2>1, <2>3, <2>4, PreIs
  <2> QED  BY <2>2, <2>3, <2>5, <1>7, <1>2, PostIs
<1>8. CASE t.do \in {"arguments", "elements", "values"}
  <2>1. t.count \in Nat /\ -t.count \in Int /\ 1 - t.count \in Int
    BY <1>8, Counts
  <2>2. ~q.loose /\ Pre(t, p)
    BY <1>8, <1>1, <1>4, PreIs
  <2> QED  BY <2>1, <2>2, <1>8, <1>2, PostIs
<1>9. CASE t.do = "emit"
  <2>1. t.code \in Seq(Instr)
    BY <1>9, CallFields
  <2>2. ~q.loose /\ GoodCode(t.code, q)
    BY <1>9, PreIs
  <2>3. GoodCode(t.code, p) /\ Effects(t.code) \in Int
    BY <2>1, <2>2, GoodCodeFlow
  <2> QED  BY <2>2, <2>3, <1>9, <1>1, <1>2, PreIs, PostIs, ZenonT(30)
<1>10. CASE t.do \in {"endExpression", "then"}
  <2>1. ~q.loose /\ Pre(t, p)
    BY <1>10, <1>1, <1>4, PreIs
  <2>2. Post(t, p) = Plus(p, -1)
    BY <1>10, PostIs
  <2>3. Post(t, q) = Plus(q, -1)
    BY <1>10, PostIs
  <2>4. -1 \in Int
    OBVIOUS
  <2> QED  BY <2>1, <2>2, <2>3, <2>4, <1>2
<1>11. CASE t.do = "patchJump"
  <2>1. ~q.loose /\ Pre(t, p) /\ p.D = q.D
    BY <1>11, <1>1, PreIs
  <2>2. Post(t, p) = Less(p, <<t.at, q.D>>) /\ Post(t, q) = Less(q, <<t.at, q.D>>)
    BY <2>1, <1>11, PostIs
  <2> QED  BY <2>1, <2>2, LessIs, FlowLess
<1>12. CASE t.do = "else"
  <2>1. ~q.loose /\ Pre(t, p) /\ p.D = q.D
    BY <1>12, <1>1, PreIs
  <2>2. Post(t, p) = Less(p, <<t.at, q.D + 1>>) /\ Post(t, q) = Less(q, <<t.at, q.D + 1>>)
    BY <2>1, <1>12, PostIs, ZenonT(30)
  <2> QED  BY <2>1, <2>2, LessIs, FlowLess
<1>13. CASE t.do \in {"globalDeclaration", "globals"} \cup Heads \cup Listed
  <2>1. InList(q) /\ Pre(t, p)
    <3>1. q.empty => p.empty
      BY DEF Flow
    <3> QED  BY <3>1, <1>13, <1>1, PreIs
  <2>2. Post(t, p) = Loosened(p) /\ Post(t, q) = Loosened(q)
    BY <1>13, PostIs
  <2> QED  BY <2>1, <2>2, LoosenedIs, FlowLoosened
<1>14. CASE t.do = "defineVariable"
  <2>1. ~q.loose /\ Pre(t, p)
    <3>1. q.names \subseteq p.names
      BY DEF Flow
    <3> QED  BY <3>1, <1>14, <1>1, <1>4, PreIs
  <2>2. CASE p.bases = <<>>
    <3>1. Post(t, p) = Plus(p, -1) /\ Post(t, q) = Plus(q, -1)
      BY <1>14, <1>1, <2>2, PostIs
    <3> QED  BY <2>1, <3>1, <1>2
  <2>3. CASE p.bases # <<>>
    <3>1. Post(t, p) = Begins(p) /\ Post(t, q) = Begins(q)
      BY <1>14, <1>1, <2>3, PostIs
    <3> QED  BY <2>1, <3>1, BeginsIs, FlowBegins
  <2> QED  BY <2>2, <2>3
<1>15. CASE t.do = "endScope"
  <2>1. q.bases # <<>> /\ p.bases # <<>> /\ Pre(t, p)
    BY <1>15, <1>1, PreIs
  <2>2. Post(t, p) = Left(p) /\ Post(t, q) = Left(q)
    BY <1>15, PostIs
  <2> QED  BY <2>1, <2>2, LeftIs, FlowLeft
<1> QED
  BY <1>5, <1>6, <1>7, <1>8, <1>9, <1>10, <1>11, <1>12, <1>13, <1>14, <1>15, Kinds DEF Normal

-----------------------------------------------------------------------------
(* Calls in turn.                                                          *)

LEMMA DeepFlow ==
  ASSUME NEW p \in Point, NEW q \in Point, Flow(p, q), NEW t \in ACall, NEW r \in Point,
         Deep(t, q, r)
  PROVE  Deep(t, p, r)
<1>1. CASE Normal(t) /\ Pre(t, q) /\ Flow(Post(t, q), r)
  <2>1. Pre(t, p) /\ Post(t, p) \in Point /\ Post(t, q) \in Point /\ Flow(Post(t, p), Post(t, q))
    BY <1>1, PreFlow
  <2>2. Flow(Post(t, p), r)
    BY <1>1, <2>1, FlowTrans
  <2> QED  BY <1>1, <2>1, <2>2 DEF Deep
<1>2. CASE ~(Normal(t) /\ Pre(t, q) /\ Flow(Post(t, q), r))
  <2>1. (InList(q) => InList(p)) /\ p.rest = q.rest /\ p.bases = q.bases /\ p.pend = q.pend
    BY ExprFlow
  <2> QED  BY <1>2, <2>1 DEF Deep
<1> QED  BY <1>1, <1>2

LEMMA RunFirst ==
  ASSUME NEW ts \in Seq(ACall), ts # <<>>, NEW p, Run(ts, p)
  PROVE  \E q \in Point : Deep(ts[1], p, q) /\ Run(Tail(ts), q)
<1>1. PICK at \in [1..Len(ts)+1 -> Point] :
        at[1] = p /\ \A k \in 1..Len(ts) : Deep(ts[k], at[k], at[k + 1])
  BY DEF Run
<1> DEFINE rest == [k \in 1..Len(ts) |-> at[k + 1]]
<1>2. Len(ts) \in Nat \ {0} /\ Len(Tail(ts)) = Len(ts) - 1
      /\ \A k \in 1..Len(ts)-1 : Tail(ts)[k] = ts[k + 1]
  OBVIOUS
<1>3. at[2] \in Point /\ Deep(ts[1], p, at[2])
  BY <1>1, <1>2
<1>4. rest \in [1..Len(Tail(ts))+1 -> Point] /\ rest[1] = at[2]
  BY <1>2
<1>5. ASSUME NEW k \in 1..Len(Tail(ts)) PROVE Deep(Tail(ts)[k], rest[k], rest[k + 1])
  <2>1. k + 1 \in 1..Len(ts) /\ rest[k] = at[k + 1] /\ rest[k + 1] = at[(k + 1) + 1]
        /\ Tail(ts)[k] = ts[k + 1]
    BY <1>2
  <2> QED  BY <2>1, <1>1
<1> HIDE DEF rest
<1> QED  BY <1>3, <1>4, <1>5 DEF Run

LEMMA RunMore ==
  ASSUME NEW ts \in Seq(ACall), NEW t \in ACall, NEW p \in Point, NEW q, Run(ts, q), Deep(t, p, q)
  PROVE  Run(<<t>> \o ts, p)
<1>1. PICK at \in [1..Len(ts)+1 -> Point] :
        at[1] = q /\ \A k \in 1..Len(ts) : Deep(ts[k], at[k], at[k + 1])
  BY DEF Run
<1> DEFINE us == <<t>> \o ts
           more == [k \in 1..Len(us)+1 |-> IF k = 1 THEN p ELSE at[k - 1]]
<1>2. Len(ts) \in Nat /\ Len(us) = Len(ts) + 1 /\ us[1] = t
      /\ \A k \in 2..Len(ts)+1 : us[k] = ts[k - 1]
  OBVIOUS
<1>3. more \in [1..Len(us)+1 -> Point] /\ more[1] = p
  BY <1>2
<1>4. ASSUME NEW k \in 1..Len(us) PROVE Deep(us[k], more[k], more[k + 1])
  <2>1. CASE k = 1
    BY <2>1, <1>1, <1>2
  <2>2. CASE k # 1
    <3>1. k - 1 \in 1..Len(ts) /\ k \in 1..Len(us)+1 /\ k + 1 \in 1..Len(us)+1 /\ k + 1 # 1
          /\ (k + 1) - 1 = (k - 1) + 1
      BY <2>2, <1>2
    <3>2. us[k] = ts[k - 1]
      BY <2>2, <1>2
    <3> HIDE DEF us
    <3>3. more[k] = at[k - 1] /\ more[k + 1] = at[(k - 1) + 1]
      BY <2>2, <3>1
    <3> QED  BY <3>1, <3>2, <3>3, <1>1
  <2> QED  BY <2>1, <2>2
<1> HIDE DEF us, more
<1>5. Run(us, p)
  BY <1>3, <1>4 DEF Run
<1> QED  BY <1>5 DEF us

LEMMA RunFlow ==
  ASSUME NEW ts \in Seq(ACall), ts # <<>>, NEW p \in Point, NEW q \in Point, Flow(p, q), Run(ts, q)
  PROVE  Run(ts, p)
<1>1. PICK r \in Point : Deep(ts[1], q, r) /\ Run(Tail(ts), r)
  BY RunFirst
<1>2. ts[1] \in ACall /\ Tail(ts) \in Seq(ACall) /\ ts = <<ts[1]>> \o Tail(ts)
  OBVIOUS
<1>3. Deep(ts[1], p, r)
  BY <1>1, <1>2, DeepFlow
<1>4. Run(<<ts[1]>> \o Tail(ts), p)
  BY <1>1, <1>2, <1>3, RunMore
<1> QED  BY <1>2, <1>4

LEMMA RunRest ==
  ASSUME NEW ts \in Seq(ACall), ts # <<>>, NEW p \in Point, Run(ts, p), Normal(ts[1]),
         Tail(ts) # <<>>
  PROVE  Pre(ts[1], p) /\ Post(ts[1], p) \in Point /\ Run(Tail(ts), Post(ts[1], p))
<1>1. PICK r \in Point : Deep(ts[1], p, r) /\ Run(Tail(ts), r)
  BY RunFirst
<1>2. ts[1] \in ACall /\ Tail(ts) \in Seq(ACall)
  OBVIOUS
<1>3. Pre(ts[1], p) /\ Flow(Post(ts[1], p), r)
  BY <1>1 DEF Deep, Normal
<1>4. Post(ts[1], p) \in Point
  BY <1>2, <1>3, FlowSelf, PreFlow
<1> QED  BY <1>1, <1>2, <1>3, <1>4, RunFlow

LEMMA Run1 ==
  ASSUME NEW ts \in Seq(ACall), NEW p \in Point, NEW r \in Point, Run(ts, r),
         NEW t \in ACall, Normal(t), Pre(t, p), Flow(Post(t, p), r)
  PROVE  Run(<<t>> \o ts, p)
BY RunMore DEF Deep

LEMMA Run2 ==
  ASSUME NEW ts \in Seq(ACall), NEW p \in Point, NEW r \in Point, Run(ts, r),
         NEW t \in ACall, Normal(t), Pre(t, p),
         NEW u \in ACall, Normal(u), Pre(u, Post(t, p)), Flow(Post(u, Post(t, p)), r)
  PROVE  Run(<<t, u>> \o ts, p)
<1> DEFINE q == Post(t, p)
<1>1. q \in Point
  BY FlowSelf, PreFlow
<1> DEFINE us == <<u>> \o ts
<1>2. Run(us, q) /\ us \in Seq(ACall) /\ Flow(q, q)
  BY <1>1, FlowSelf, Run1
<1> HIDE DEF us
<1>4. Run(<<t>> \o us, p)
  BY <1>1, <1>2, Run1
<1>3. Run(<<t>> \o (<<u>> \o ts), p)
  BY <1>4 DEF us
<1>5. <<t, u>> \o ts = <<t>> \o (<<u>> \o ts)
  BY Pairs
<1> QED  BY <1>3, <1>5

LEMMA Run3 ==
  ASSUME NEW ts \in Seq(ACall), NEW p \in Point, NEW r \in Point, Run(ts, r),
         NEW t \in ACall, Normal(t), Pre(t, p),
         NEW u \in ACall, Normal(u), Pre(u, Post(t, p)),
         NEW v \in ACall, Normal(v), Pre(v, Post(u, Post(t, p))),
         Flow(Post(v, Post(u, Post(t, p))), r)
  PROVE  Run(<<t, u, v>> \o ts, p)
<1> DEFINE q == Post(t, p)
<1>1. q \in Point
  BY FlowSelf, PreFlow
<1> DEFINE us == <<u, v>> \o ts
<1>2. Run(us, q) /\ us \in Seq(ACall) /\ Flow(q, q)
  BY <1>1, FlowSelf, Run2
<1> HIDE DEF us
<1>5. Run(<<t>> \o us, p)
  BY <1>1, <1>2, Run1
<1>3. Run(<<t>> \o (<<u, v>> \o ts), p)
  BY <1>5 DEF us
<1>4. <<t, u, v>> \o ts = <<t>> \o (<<u, v>> \o ts)
  <2>1. <<t, u, v>> \o ts \in Seq(ACall) /\ <<t>> \o (<<u, v>> \o ts) \in Seq(ACall)
    OBVIOUS
  <2>2. Len(<<t, u, v>> \o ts) = Len(ts) + 3 /\ Len(<<t>> \o (<<u, v>> \o ts)) = Len(ts) + 3
    OBVIOUS
  <2>3. ASSUME NEW i \in 1..Len(ts)+3
        PROVE (<<t, u, v>> \o ts)[i] = (<<t>> \o (<<u, v>> \o ts))[i]
    <3>1. i = 1 \/ i = 2 \/ i = 3 \/ i > 3
      OBVIOUS
    <3>2. CASE i > 3
      BY <3>2
    <3> QED  BY <3>1, <3>2
  <2> QED  BY <2>1, <2>2, <2>3, SeqEqual
<1> QED  BY <1>3, <1>4

-----------------------------------------------------------------------------
(* Steps.                                                                  *)

Here == [comp |-> Comp, fun |-> Chunk]

LEMMA DeepNow ==
  ASSUME ShapeInv, DeepInv, Clean, status = "compiling", pos > 0
  PROVE  /\ tasks \in Seq(ACall) /\ tasks # <<>> /\ Task = tasks[1] /\ Task \in ACall
         /\ Tail(tasks) \in Seq(ACall)
         /\ \E p \in Point :
              /\ p.rest = Around /\ Stands(Here, p) /\ Run(tasks, p)
              /\ Normal(Task) => /\ Pre(Task, p) /\ Post(Task, p) \in Point
                                 /\ Tail(tasks) # <<>> /\ Run(Tail(tasks), Post(Task, p))
<1>1. /\ tasks # <<>> /\ Task = tasks[1] /\ Task \in ACall /\ Tail(tasks) \in Seq(ACall)
      /\ \E m, n \in Mark :
           /\ m.lvl > 0 /\ Shape(Task, m, n)
           /\ Shaped(Tail(tasks), n, compilers, functions)
  BY ShapeNow
<1>2. tasks \in Seq(ACall)
  BY DEF ShapeInv
<1>3. PICK p \in Point : p.rest = Around /\ Stands(Here, p) /\ Run(tasks, p)
  BY DEF DeepInv, Here
<1>4. ASSUME Normal(Task) PROVE Tail(tasks) # <<>>
  <2>1. PICK m \in Mark, n \in Mark : /\ m.lvl > 0 /\ Shape(Task, m, n)
                                      /\ Shaped(Tail(tasks), n, compilers, functions)
    BY <1>1
  <2>2. n.lvl > 0
    BY <2>1, <1>4 DEF Shape, Steady, Normal
  <2> QED  BY <2>1, <2>2, <1>1, ShapedFirst
<1>5. ASSUME Normal(Task)
      PROVE  Pre(Task, p) /\ Post(Task, p) \in Point /\ Run(Tail(tasks), Post(Task, p))
  BY <1>1, <1>2, <1>3, <1>4, <1>5, RunRest
<1> QED  BY <1>1, <1>2, <1>3, <1>4, <1>5

(* The enclosing compilers and their functions stay what they are.         *)
LEMMA DeepStay ==
  ASSUME ShapeInv, NEW c \in Compiling, c.fn = Comp.fn, NEW f \in Fun,
         SetCompiler(c), SetChunk(f),
         NEW p \in Point, p.rest = Around, Stands([comp |-> c, fun |-> f], p),
         Run(tasks', p)
  PROVE  DeepInv'
<1>1. /\ CompilersOK(compilers, functions) /\ compilers \in Seq(Compiling) /\ compilers # <<>>
      /\ functions \in Seq(Fun) /\ Enclosing(compilers)
      /\ \A i \in DOMAIN compilers : compilers[i].fn \in DOMAIN functions
  BY DEF ShapeInv, CompilersOK, Compile
<1> DEFINE n == Len(compilers)
<1>2. Comp = compilers[1] /\ Comp.fn \in DOMAIN functions /\ n \in Nat \ {0}
  BY <1>1, CompOK
<1>3. /\ compilers' = <<c>> \o Tail(compilers) /\ Len(compilers') = n /\ compilers'[1] = c
      /\ \A i \in 2..n : compilers'[i] = compilers[i]
  <2>1. compilers' = Next1(compilers, c)
    BY DEF SetCompiler, Next1
  <2> QED  BY <2>1, <1>1, Next1Is DEF SetCompiler
<1>4. /\ functions'[c.fn] = f
      /\ \A g \in DOMAIN functions : g # c.fn => functions'[g] = functions[g]
  BY <1>1, <1>2 DEF SetChunk
<1>5. Comp' = c /\ Chunk' = f
  BY <1>3, <1>4 DEF Comp, Chunk
<1>6. Around' = Around
  <2>1. ASSUME NEW i \in 1..n-1
        PROVE  /\ compilers'[i + 1] = compilers[i + 1]
               /\ functions'[compilers[i + 1].fn] = functions[compilers[i + 1].fn]
    <3>1. i + 1 \in 2..n /\ 1 < i + 1 /\ i + 1 \in DOMAIN compilers /\ 1 \in DOMAIN compilers
      BY <1>1, <1>2
    <3>2. compilers[i + 1].fn < compilers[1].fn /\ compilers[i + 1].fn \in DOMAIN functions
      BY <3>1, <1>1 DEF Enclosing
    <3>3. compilers[i + 1].fn # c.fn
      BY <3>2, <1>1, <1>2
    <3> QED  BY <3>1, <3>2, <3>3, <1>3, <1>4
  <2> HIDE DEF n
  <2>2. Around' = [i \in 1..n-1 |->
                     [comp |-> compilers'[i + 1], fun |-> functions'[compilers'[i + 1].fn]]]
    BY <1>3 DEF Around
  <2>3. Around = [i \in 1..n-1 |->
                    [comp |-> compilers[i + 1], fun |-> functions[compilers[i + 1].fn]]]
    BY DEF Around, n
  <2> QED  BY <2>1, <2>2, <2>3
<1> QED  BY <1>5, <1>6 DEF DeepInv

(* Only the code and its constants change, or nothing does.                *)
LEMMA DeepCode ==
  ASSUME ShapeInv, UNCHANGED compilers, NEW f \in Fun, SetChunk(f),
         NEW p \in Point, p.rest = Around, Stands([comp |-> Comp, fun |-> f], p),
         Run(tasks', p)
  PROVE  DeepInv'
<1>1. CompilersOK(compilers, functions)
  BY DEF ShapeInv
<1>2. SetCompiler(Comp) /\ Comp \in Compiling
  BY <1>1, Unchanged1, CompOK
<1> QED  BY <1>2, DeepStay

LEMMA DeepCalls ==
  ASSUME ShapeInv, UNCHANGED <<compilers, functions>>,
         NEW p \in Point, p.rest = Around, Stands(Here, p), Run(tasks', p)
  PROVE  DeepInv'
<1>1. CompilersOK(compilers, functions)
  BY DEF ShapeInv
<1>2. SetChunk(Chunk) /\ Chunk \in Fun
  BY <1>1, Unchanged1, CompOK
<1> QED  BY <1>2, DeepCode DEF Here

LEMMA StandsIs ==
  ASSUME NEW c, NEW f, NEW p \in Point, Stands([comp |-> c, fun |-> f], p)
  PROVE  /\ ~p.loose /\ LocalsOK(c, p) /\ CodeOK(f, p.D, p.pend, p.rest = <<>>)
         /\ p.names \subseteq StrNames(f) /\ (p.empty => f.code = <<>>)
BY DEF Stands

(* The calls of a step that emits nothing, one by one.                     *)
LEMMA NoErrors ==
  ASSUME ~hadError'
  PROVE  /\ \A failed : Errors(failed) => ~failed
         /\ \A failed : Stay(failed) => ~failed
         /\ \A failed : Advance(failed) \/ AdvanceAfter(failed) => ~failed
         /\ \A types : Consume(types) => Is(types)
BY DEF Errors, Stay, Advance, AdvanceAfter, Consume

(* The point of a call that does not end a function or the script.         *)
Now(p) ==
  /\ p \in Point /\ p.rest = Around /\ Stands(Here, p) /\ Pre(Task, p)
  /\ Post(Task, p) \in Point /\ Run(Tail(tasks), Post(Task, p)) /\ Tail(tasks) # <<>>

LEMMA DeepAt ==
  ASSUME ShapeInv, DeepInv, Clean, NEW name, At(name),
         name \notin {"start", "program", "endFunction"}
  PROVE  /\ Task.do = name /\ Task \in ACall /\ Tail(tasks) \in Seq(ACall)
         /\ pos > 0 /\ status = "compiling" /\ Task.do # "start"
         /\ \E p \in Point : Now(p)
<1>1. Task.do = name /\ status = "compiling" /\ pos > 0 /\ Normal(Task)
  BY Begun DEF At, Normal
<1> QED  BY <1>1, DeepNow DEF Now

LEMMA NowIs ==
  ASSUME NEW p, Now(p)
  PROVE  /\ p \in Point /\ p.rest = Around /\ Stands(Here, p) /\ Pre(Task, p)
         /\ Post(Task, p) \in Point /\ Run(Tail(tasks), Post(Task, p)) /\ Tail(tasks) # <<>>
         /\ ~p.loose /\ LocalsOK(Comp, p) /\ CodeOK(Chunk, p.D, p.pend, p.rest = <<>>)
         /\ p.names \subseteq StrNames(Chunk) /\ (p.empty => Chunk.code = <<>>)
<1>1. p \in Point /\ Stands(Here, p)
  BY DEF Now
<1> QED  BY <1>1, StandsIs DEF Now, Here

-----------------------------------------------------------------------------
(* The calls that are made.                                                *)

LEMMA ParseIs ==
  ASSUME NEW n \in Nat, NEW p
  PROVE  /\ Parse(n) \in ACall /\ Normal(Parse(n))
         /\ Pre(Parse(n), p) <=> InExpr(p) /\ n >= 1
         /\ Post(Parse(n), p) = Plus(p, 1)
<1> DEFINE t == Parse(n)
<1>1. t.do = "parsePrecedence" /\ t.prec = n
  BY DEF Parse
<1>2. t \in ACall
  BY CallsMade
<1> HIDE DEF t
<1>3. t \in ACall /\ Normal(t) /\ (Pre(t, p) <=> InExpr(p) /\ n >= 1)
  BY <1>1, <1>2, PreIs DEF Normal
<1>4. Post(t, p) = Plus(p, 1)
  BY <1>1, PostIs
<1> QED  BY <1>3, <1>4 DEF t

LEMMA OperatorsIs ==
  ASSUME NEW n \in Nat, NEW p
  PROVE  LET t == [do |-> "operators", prec |-> n] IN
         /\ t \in ACall /\ Normal(t) /\ (Pre(t, p) <=> Over(p) /\ n >= 1)
         /\ Post(t, p) = Plus(p, 0)
<1> DEFINE t == [do |-> "operators", prec |-> n]
<1>1. t.do = "operators" /\ t.prec = n
  OBVIOUS
<1>2. t \in ACall
  BY CallsMade
<1> HIDE DEF t
<1>3. /\ t \in ACall /\ Normal(t) /\ (Pre(t, p) <=> Over(p) /\ n >= 1)
      /\ Post(t, p) = Plus(p, 0)
  BY <1>1, <1>2, PreIs, PostIs DEF Normal
<1> QED  BY <1>3 DEF t

LEMMA ExpectIs ==
  ASSUME NEW types \in Expected, NEW p
  PROVE  LET t == Expect(types) IN
         t \in ACall /\ Normal(t) /\ Pre(t, p) /\ Post(t, p) = Plus(p, 0)
<1>1. Expect(types).do = "consume"
  BY DEF Expect
<1>2. Expect(types) \in ACall
  BY CallsMade
<1> QED  BY <1>1, <1>2, PreIs, PostIs DEF Normal

LEMMA EmissionIs ==
  ASSUME NEW t \in Emission, NEW p
  PROVE  /\ t \in ACall /\ Normal(t) /\ (Pre(t, p) <=> ~p.loose /\ GoodCode(t.code, p))
         /\ Post(t, p) = Plus(p, Effects(t.code))
<1>1. t.do = "emit" /\ t \in ACall
  BY CallsMade DEF Emission
<1> QED  BY <1>1, PreIs, PostIs DEF Normal

LEMMA OutputIs ==
  ASSUME NEW c \in Seq(Instr), NEW p
  PROVE  LET t == Output(c) IN
         /\ t \in ACall /\ Normal(t) /\ (Pre(t, p) <=> ~p.loose /\ GoodCode(c, p))
         /\ Post(t, p) = Plus(p, Effects(c))
<1>1. Output(c) \in Emission /\ Output(c).code = c
  BY CallsMade DEF Output
<1> QED  BY <1>1, EmissionIs

(* One instruction.                                                        *)
LEMMA Output1 ==
  ASSUME NEW i \in Instr, NEW p
  PROVE  LET t == Output(<<i>>) IN
         /\ t \in ACall /\ Normal(t) /\ (Pre(t, p) <=> ~p.loose /\ Good(i, p))
         /\ Post(t, p) = Plus(p, Effect(i))
<1> DEFINE c == <<i>>
<1>1. c \in Seq(Instr) /\ Len(c) = 1 /\ c[1] = i
  OBVIOUS
<1> HIDE DEF c
<1>2. (GoodCode(c, p) <=> Good(i, p)) /\ Effects(c) = Effect(i)
  BY <1>1 DEF GoodCode, Effects
<1>3. LET t == Output(c) IN
      /\ t \in ACall /\ Normal(t) /\ (Pre(t, p) <=> ~p.loose /\ Good(i, p))
      /\ Post(t, p) = Plus(p, Effect(i))
  BY <1>1, <1>2, OutputIs
<1> QED  BY <1>3 DEF c

Simple == SimpleCalls \ {"start", "program", "endFunction"}

LEMMA CallIs ==
  ASSUME NEW d \in Simple, NEW p
  PROVE  LET t == Call(d) IN
         /\ t \in ACall /\ Normal(t) /\ t.do = d
         /\ d \in {"constant", "map", "initializer"} =>
              (Pre(t, p) <=> InExpr(p)) /\ Post(t, p) = Plus(p, 1)
         /\ d = "function" =>
              (Pre(t, p) <=> ~p.loose /\ ~p.uninit /\ p.D >= 1) /\ Post(t, p) = Plus(p, 1)
         /\ d \in {"and", "or", "argumentList"} => (Pre(t, p) <=> Over(p)) /\ Post(t, p) = Plus(p, 0)
         /\ d \in {"endExpression", "then"} => (Pre(t, p) <=> Only(p)) /\ Post(t, p) = Plus(p, -1)
         /\ d \in {"globalDeclaration", "globals"} =>
              (Pre(t, p) <=> InList(p) /\ p.bases = <<>>) /\ Post(t, p) = Loosened(p)
         /\ d \in Heads =>
              /\ Pre(t, p) <=> InList(p) /\ p.bases = << 1 >> /\ p.empty
              /\ Post(t, p) = Loosened(p)
         /\ d = "endScope" => (Pre(t, p) <=> InList(p) /\ p.bases # <<>>) /\ Post(t, p) = Left(p)
         /\ d \in Single => (Pre(t, p) <=> InList(p)) /\ Post(t, p) = Plus(p, 0)
         /\ d \in Listed \ {"declareUntil"} => (Pre(t, p) <=> InList(p)) /\ Post(t, p) = Loosened(p)
<1> DEFINE t == Call(d)
<1>1. t.do = d
  BY DEF Call
<1>2. t \in ACall
  BY CallsMade DEF Simple
<1> HIDE DEF t
<1>3. Normal(t)
  BY <1>1 DEF Normal, Simple
<1>4. /\ d \in {"constant", "map", "initializer"} =>
           (Pre(t, p) <=> InExpr(p)) /\ Post(t, p) = Plus(p, 1)
      /\ d = "function" =>
           (Pre(t, p) <=> ~p.loose /\ ~p.uninit /\ p.D >= 1) /\ Post(t, p) = Plus(p, 1)
      /\ d \in {"and", "or", "argumentList"} => (Pre(t, p) <=> Over(p)) /\ Post(t, p) = Plus(p, 0)
  BY <1>1, PreIs, PostIs DEF Pushing, Binary
<1>5. d \in {"endExpression", "then"} => (Pre(t, p) <=> Only(p)) /\ Post(t, p) = Plus(p, -1)
  BY <1>1, PreIs, PostIs
<1>6. d \in {"globalDeclaration", "globals"} =>
        (Pre(t, p) <=> InList(p) /\ p.bases = <<>>) /\ Post(t, p) = Loosened(p)
  BY <1>1, PreIs, PostIs
<1>7. d \in Heads => /\ Pre(t, p) <=> InList(p) /\ p.bases = << 1 >> /\ p.empty
                     /\ Post(t, p) = Loosened(p)
  <2>1. d \in Heads => (Pre(t, p) <=> InList(p) /\ p.bases = << 1 >> /\ p.empty)
    BY <1>1, PreIs
  <2>2. d \in Heads => Post(t, p) = Loosened(p)
    BY <1>1, PostIs
  <2> QED  BY <2>1, <2>2
<1>8. d = "endScope" => (Pre(t, p) <=> InList(p) /\ p.bases # <<>>) /\ Post(t, p) = Left(p)
  <2>1. d = "endScope" => (Pre(t, p) <=> InList(p) /\ p.bases # <<>>)
    BY <1>1, PreIs
  <2>2. d = "endScope" => Post(t, p) = Left(p)
    BY <1>1, PostIs
  <2> QED  BY <2>1, <2>2
<1>9. d \in Single => (Pre(t, p) <=> InList(p)) /\ Post(t, p) = Plus(p, 0)
  BY <1>1, PreIs, PostIs
<1>10. d \in Listed \ {"declareUntil"} => (Pre(t, p) <=> InList(p)) /\ Post(t, p) = Loosened(p)
  BY <1>1, PreIs, PostIs
<1> QED  BY <1>1, <1>2, <1>3, <1>4, <1>5, <1>6, <1>7, <1>8, <1>9, <1>10 DEF t

LEMMA DeclareUntilIs ==
  ASSUME NEW types \in Ends, NEW p
  PROVE  LET t == DeclareUntil(types) IN
         t \in ACall /\ Normal(t) /\ (Pre(t, p) <=> InList(p)) /\ Post(t, p) = Loosened(p)
<1>1. DeclareUntil(types).do = "declareUntil" /\ "declareUntil" \in Listed
  BY DEF DeclareUntil, Listed
<1>2. DeclareUntil(types) \in ACall
  BY CallsMade
<1> QED  BY <1>1, <1>2, PreIs, PostIs DEF Normal

LEMMA PatchJumpIs ==
  ASSUME NEW n \in Nat, NEW p
  PROVE  LET t == PatchJump(n) IN
         /\ t \in ACall /\ Normal(t) /\ (Pre(t, p) <=> ~p.loose /\ <<n, p.D>> \in p.pend)
         /\ Post(t, p) = Less(p, <<n, p.D>>)
<1>1. PatchJump(n).do = "patchJump" /\ PatchJump(n).at = n
  BY DEF PatchJump
<1>2. PatchJump(n) \in ACall
  BY CallsMade
<1> QED  BY <1>1, <1>2, PreIs, PostIs, ZenonT(30) DEF Normal

LEMMA ElseIs ==
  ASSUME NEW n \in Nat, NEW b \in BOOLEAN, NEW p
  PROVE  LET t == [do |-> "else", at |-> n, inline |-> b] IN
         /\ t \in ACall /\ Normal(t)
         /\ Pre(t, p) <=> ~p.loose /\ InList(p) /\ <<n, p.D + 1>> \in p.pend
         /\ Post(t, p) = Less(p, <<n, p.D + 1>>)
<1> DEFINE t == [do |-> "else", at |-> n, inline |-> b]
<1>1. t.do = "else" /\ t.at = n
  OBVIOUS
<1>2. t \in ACall
  BY CallsMade
<1> HIDE DEF t
<1>3. /\ t \in ACall /\ Normal(t)
      /\ Pre(t, p) <=> ~p.loose /\ InList(p) /\ <<n, p.D + 1>> \in p.pend
      /\ Post(t, p) = Less(p, <<n, p.D + 1>>)
  BY <1>1, <1>2, PreIs, PostIs DEF Normal
<1> QED  BY <1>3 DEF t

LEMMA DefineIs ==
  ASSUME NEW n \in Nat, NEW p
  PROVE  LET t == DefineVariable(n) IN
         /\ t \in ACall /\ Normal(t)
         /\ Pre(t, p) <=> IF p.bases = <<>> THEN Only(p) /\ n \in p.names
                          ELSE ~p.loose /\ p.D = p.L /\ p.L > Base(p)
         /\ Post(t, p) = IF p.bases = <<>> THEN Plus(p, -1) ELSE Begins(p)
<1>1. DefineVariable(n).do = "defineVariable" /\ DefineVariable(n).global = n
  BY DEF DefineVariable
<1>2. DefineVariable(n) \in ACall
  BY CallsMade
<1> QED  BY <1>1, <1>2, PreIs, PostIs DEF Normal

LEMMA NextItemIs ==
  ASSUME NEW n \in Nat, NEW p
  PROVE  /\ LET t == NextItem("arguments", n) IN
            /\ t \in ACall /\ Normal(t) /\ t.do = "arguments"
            /\ Pre(t, p) <=> InExpr(p) /\ p.D >= n + 2
            /\ Post(t, p) = Plus(p, -n)
         /\ LET t == NextItem("elements", n) IN
            /\ t \in ACall /\ Normal(t) /\ t.do = "elements"
            /\ Pre(t, p) <=> InExpr(p) /\ p.D >= n + 1
            /\ Post(t, p) = Plus(p, 1 - n)
         /\ LET t == NextItem("values", n) IN
            /\ t \in ACall /\ Normal(t) /\ t.do = "values"
            /\ Pre(t, p) <=> InExpr(p) /\ ~p.uninit /\ p.D = p.L + n /\ p.D >= n + 1
            /\ Post(t, p) = Plus(p, -n)
<1>1. \A l : NextItem(l, n).do = l /\ NextItem(l, n).count = n
  BY DEF NextItem
<1>2. \A l \in {"arguments", "elements", "values"} : NextItem(l, n) \in ACall
  BY CallsMade
<1>3. /\ NextItem("arguments", n) \in ACall /\ Normal(NextItem("arguments", n))
      /\ NextItem("elements", n) \in ACall /\ Normal(NextItem("elements", n))
      /\ NextItem("values", n) \in ACall /\ Normal(NextItem("values", n))
  BY <1>1, <1>2 DEF Normal
<1>4. LET t == NextItem("arguments", n) IN
      /\ Pre(t, p) <=> InExpr(p) /\ p.D >= n + 2
      /\ Post(t, p) = Plus(p, -n)
  <2> DEFINE t == NextItem("arguments", n)
  <2>1. t.do = "arguments" /\ t.count = n
    BY <1>1
  <2> HIDE DEF t
  <2>2. Pre(t, p) <=> InExpr(p) /\ p.D >= n + 2
    BY <2>1, PreIs
  <2>3. Post(t, p) = Plus(p, -n)
    BY <2>1, PostIs
  <2> QED  BY <2>2, <2>3 DEF t
<1>5. LET t == NextItem("elements", n) IN
      /\ Pre(t, p) <=> InExpr(p) /\ p.D >= n + 1
      /\ Post(t, p) = Plus(p, 1 - n)
  <2> DEFINE t == NextItem("elements", n)
  <2>1. t.do = "elements" /\ t.count = n
    BY <1>1
  <2> HIDE DEF t
  <2>2. Pre(t, p) <=> InExpr(p) /\ p.D >= n + 1
    BY <2>1, PreIs
  <2>3. Post(t, p) = Plus(p, 1 - n)
    BY <2>1, PostIs
  <2> QED  BY <2>2, <2>3 DEF t
<1>6. LET t == NextItem("values", n) IN
      /\ Pre(t, p) <=> InExpr(p) /\ ~p.uninit /\ p.D = p.L + n /\ p.D >= n + 1
      /\ Post(t, p) = Plus(p, -n)
  <2> DEFINE t == NextItem("values", n)
  <2>1. t.do = "values" /\ t.count = n
    BY <1>1
  <2> HIDE DEF t
  <2>2. Pre(t, p) <=> InExpr(p) /\ ~p.uninit /\ p.D = p.L + n /\ p.D >= n + 1
    BY <2>1, PreIs
  <2>3. Post(t, p) = Plus(p, -n)
    BY <2>1, PostIs
  <2> QED  BY <2>2, <2>3 DEF t
<1> QED  BY <1>1, <1>3, <1>4, <1>5, <1>6

(* Calls one after the other, from p to where the rest begins.             *)
Leads(calls, p, r) ==
  /\ calls \in Seq(ACall)
  /\ \A ts \in Seq(ACall) : ts # <<>> /\ Run(ts, r) => Run(calls \o ts, p)

LEMMA Leads0 ==
  ASSUME NEW p \in Point, NEW r \in Point, Flow(p, r)
  PROVE  Leads(<<>>, p, r)
<1>1. ASSUME NEW ts \in Seq(ACall), ts # <<>>, Run(ts, r) PROVE Run(<<>> \o ts, p)
  <2>1. Run(ts, p)
    BY <1>1, RunFlow
  <2>2. <<>> \o ts = ts
    OBVIOUS
  <2> QED  BY <2>1, <2>2
<1>2. <<>> \in Seq(ACall)
  OBVIOUS
<1> QED  BY <1>1, <1>2 DEF Leads

LEMMA Leads1 ==
  ASSUME NEW p \in Point, NEW r \in Point,
         NEW t \in ACall, Normal(t), Pre(t, p), Flow(Post(t, p), r)
  PROVE  Leads(<<t>>, p, r)
<1>1. <<t>> \in Seq(ACall)
  OBVIOUS
<1> QED  BY <1>1, Run1 DEF Leads

LEMMA Leads2 ==
  ASSUME NEW p \in Point, NEW r \in Point,
         NEW t \in ACall, Normal(t), Pre(t, p),
         NEW u \in ACall, Normal(u), Pre(u, Post(t, p)), Flow(Post(u, Post(t, p)), r)
  PROVE  Leads(<<t, u>>, p, r)
<1>1. <<t, u>> \in Seq(ACall)
  OBVIOUS
<1>2. ASSUME NEW ts \in Seq(ACall), Run(ts, r) PROVE Run(<<t, u>> \o ts, p)
  BY <1>2, Run2
<1> QED  BY <1>1, <1>2 DEF Leads

LEMMA Leads3 ==
  ASSUME NEW p \in Point, NEW r \in Point,
         NEW t \in ACall, Normal(t), Pre(t, p),
         NEW u \in ACall, Normal(u), Pre(u, Post(t, p)),
         NEW v \in ACall, Normal(v), Pre(v, Post(u, Post(t, p))),
         Flow(Post(v, Post(u, Post(t, p))), r)
  PROVE  Leads(<<t, u, v>>, p, r)
<1>1. <<t, u, v>> \in Seq(ACall)
  OBVIOUS
<1>2. ASSUME NEW ts \in Seq(ACall), Run(ts, r) PROVE Run(<<t, u, v>> \o ts, p)
  BY <1>2, Run3
<1> QED  BY <1>1, <1>2 DEF Leads

LEMMA LeadsOn ==
  ASSUME NEW p, NEW q, NEW r, NEW a, NEW b, Leads(a, p, q), Leads(b, q, r), a # <<>>, b # <<>>
  PROVE  Leads(a \o b, p, r)
<1>1. a \in Seq(ACall) /\ b \in Seq(ACall) /\ a \o b \in Seq(ACall)
  BY DEF Leads
<1>2. ASSUME NEW ts \in Seq(ACall), ts # <<>>, Run(ts, r) PROVE Run((a \o b) \o ts, p)
  <2>1. b \o ts \in Seq(ACall) /\ b \o ts # <<>>
    BY <1>1, <1>2
  <2>2. Run(b \o ts, q)
    BY <1>2 DEF Leads
  <2>3. Run(a \o (b \o ts), p)
    BY <2>1, <2>2 DEF Leads
  <2>4. (a \o b) \o ts = a \o (b \o ts)
    BY <1>1
  <2> QED  BY <2>3, <2>4
<1> QED  BY <1>1, <1>2 DEF Leads

(* Flow between points made from one.                                      *)
LEMMA PlusPlus ==
  ASSUME NEW p \in Point, NEW m \in Int, NEW n \in Int
  PROVE  /\ Plus(p, m) \in Point /\ Plus(Plus(p, m), n) \in Point /\ m + n \in Int
         /\ Plus(p, m + n) \in Point
         /\ Flow(Plus(Plus(p, m), n), Plus(p, m + n))
         /\ Flow(Plus(p, m + n), Plus(Plus(p, m), n))
<1>1. m + n \in Int /\ p.D \in Int
  BY PointIs
<1>2. LET q == Plus(p, m) IN
         /\ q \in Point /\ q.rest = p.rest /\ q.bases = p.bases /\ (q.loose <=> p.loose)
         /\ q.L = p.L /\ q.D = p.D + m /\ (q.uninit <=> p.uninit)
         /\ q.pend = p.pend /\ q.names = p.names /\ ~q.empty
  BY PlusIs
<1> DEFINE q == Plus(p, m)
<1> HIDE DEF q
<1>3. LET u == Plus(q, n) IN
         /\ u \in Point /\ u.rest = q.rest /\ u.bases = q.bases /\ (u.loose <=> q.loose)
         /\ u.L = q.L /\ u.D = q.D + n /\ (u.uninit <=> q.uninit)
         /\ u.pend = q.pend /\ u.names = q.names /\ ~u.empty
  BY <1>2, PlusIs DEF q
<1>4. LET v == Plus(p, m + n) IN
         /\ v \in Point /\ v.rest = p.rest /\ v.bases = p.bases /\ (v.loose <=> p.loose)
         /\ v.L = p.L /\ v.D = p.D + (m + n) /\ (v.uninit <=> p.uninit)
         /\ v.pend = p.pend /\ v.names = p.names /\ ~v.empty
  BY <1>1, PlusIs
<1> DEFINE u == Plus(q, n)
           v == Plus(p, m + n)
<1>5. u.D = v.D /\ u.L = v.L /\ u.rest = v.rest /\ u.bases = v.bases /\ (u.loose <=> v.loose)
      /\ (u.uninit <=> v.uninit) /\ u.pend = v.pend /\ u.names = v.names /\ ~u.empty /\ ~v.empty
      /\ u \in Point /\ v \in Point
  <2>1. p.D + (m + n) = (p.D + m) + n
    BY <1>1
  <2> QED  BY <2>1, <1>2, <1>3, <1>4 DEF q
<1> HIDE DEF u, v
<1>6. Flow(u, v) /\ Flow(v, u)
  BY <1>5 DEF Flow, InList
<1> QED  BY <1>1, <1>2, <1>3, <1>5, <1>6 DEF q, u, v

LEMMA VariableIs ==
  ASSUME NEW b \in BOOLEAN, NEW p
  PROVE  LET t == [do |-> "variable", canAssign |-> b] IN
         /\ t \in ACall /\ Normal(t) /\ (Pre(t, p) <=> InExpr(p))
         /\ Post(t, p) = Plus(p, 1)
<1> DEFINE t == [do |-> "variable", canAssign |-> b]
<1>1. t.do = "variable" /\ "variable" \in Pushing
  BY DEF Pushing
<1>2. t \in ACall
  BY CallsMade
<1> HIDE DEF t
<1>3. /\ t \in ACall /\ Normal(t) /\ (Pre(t, p) <=> InExpr(p))
      /\ Post(t, p) = Plus(p, 1)
  BY <1>1, <1>2, PreIs, PostIs DEF Normal
<1> QED  BY <1>3 DEF t

LEMMA DotIs ==
  ASSUME NEW b \in BOOLEAN, NEW p
  PROVE  LET t == [do |-> "dot", canAssign |-> b] IN
         /\ t \in ACall /\ Normal(t) /\ (Pre(t, p) <=> Over(p))
         /\ Post(t, p) = Plus(p, 0)
<1> DEFINE t == [do |-> "dot", canAssign |-> b]
<1>1. t.do = "dot" /\ "dot" \in Binary
  BY DEF Binary
<1>2. t \in ACall
  BY CallsMade
<1> HIDE DEF t
<1>3. /\ t \in ACall /\ Normal(t) /\ (Pre(t, p) <=> Over(p))
      /\ Post(t, p) = Plus(p, 0)
  BY <1>1, <1>2, PreIs, PostIs DEF Normal
<1> QED  BY <1>3 DEF t

LEMMA GetSetIs ==
  ASSUME NEW get \in Instr, NEW set \in Instr, NEW b \in BOOLEAN, NEW c \in BOOLEAN, NEW p,
         InExpr(p), Good(get, p), Good(set, Plus(p, 1)), InExpr(Plus(p, Effect(get) - 1)),
         Effect(get) = Effect(set) + 1
  PROVE  LET t == Assignable(get, set, b, c) IN
         /\ t \in ACall /\ Normal(t) /\ Pre(t, p) /\ Post(t, p) = Plus(p, Effect(get))
<1> DEFINE t == Assignable(get, set, b, c)
<1>1. t \in ACall
  BY CallsMade
<1>2. t.do = "assignable" /\ t.get = get /\ t.set.code = <<set>>
  BY DEF Assignable, Output, OutputAssignment
<1>3. Len(t.set.code) = 1 /\ t.set.code[1] = set
  BY <1>2
<1> HIDE DEF t
<1>4. Pre(t, p)
  BY <1>2, <1>3, PreIs
<1>5. Normal(t) /\ Post(t, p) = Plus(p, Effect(get))
  BY <1>2, PostIs DEF Normal
<1> QED  BY <1>1, <1>4, <1>5 DEF t

(* A step that does not fail.                                              *)
Smooth == ShapeInv /\ DeepInv /\ Clean /\ ~hadError'

LEMMA SmoothAt ==
  ASSUME Smooth, NEW name, At(name), name \notin {"start", "program", "endFunction"}
  PROVE  /\ Task.do = name /\ Task \in ACall /\ Tail(tasks) \in Seq(ACall)
         /\ pos > 0 /\ status = "compiling"
         /\ InputOK /\ CompilersOK(compilers, functions)
         /\ \E p \in Point : Now(p)
BY DeepAt DEF Smooth, ShapeInv

LEMMA SmoothCode ==
  ASSUME Smooth, NEW p, Now(p), UNCHANGED compilers, NEW f \in Fun, SetChunk(f),
         NEW q \in Point, q.rest = p.rest, Stands([comp |-> Comp, fun |-> f], q),
         NEW calls, Continue(calls), Leads(calls, q, Post(Task, p)), Tail(tasks) \in Seq(ACall)
  PROVE  DeepInv'
<1>1. Run(Tail(tasks), Post(Task, p)) /\ Tail(tasks) # <<>> /\ q.rest = Around
  BY DEF Now
<1>2. Run(tasks', q)
  BY <1>1 DEF Continue, Leads
<1> QED  BY <1>1, <1>2, DeepCode DEF Smooth

LEMMA SmoothCalls ==
  ASSUME Smooth, NEW p, Now(p), UNCHANGED <<compilers, functions>>,
         NEW calls, Continue(calls), Leads(calls, p, Post(Task, p)), Tail(tasks) \in Seq(ACall)
  PROVE  DeepInv'
<1>1. Run(Tail(tasks), Post(Task, p)) /\ Tail(tasks) # <<>> /\ p.rest = Around /\ Stands(Here, p)
      /\ p \in Point
  BY DEF Now
<1>2. Run(tasks', p)
  BY <1>1 DEF Continue, Leads
<1> QED  BY <1>1, <1>2, DeepCalls DEF Smooth

-----------------------------------------------------------------------------
(* The steps that emit nothing.                                            *)

LEMMA FlowZero ==
  ASSUME NEW p \in Point
  PROVE  /\ Plus(p, 0) \in Point /\ Flow(p, Plus(p, 0))
         /\ InList(Plus(p, 0)) <=> InList(p)
         /\ \A n \in Int : ~p.loose => /\ Plus(p, n) \in Point
                                       /\ Flow(Plus(Plus(p, n), 0), Plus(p, n))
                                       /\ Flow(Plus(Plus(p, 0), n), Plus(p, n))
<1>1. p.D + 0 = p.D
  BY PointIs
<1>2. Plus(p, 0) \in Point /\ Flow(p, Plus(p, 0)) /\ (InList(Plus(p, 0)) <=> InList(p))
  BY <1>1, PlusIs DEF Flow, InList
<1>3. ASSUME NEW n \in Int
      PROVE  /\ Plus(p, n) \in Point
             /\ Flow(Plus(Plus(p, n), 0), Plus(p, n))
             /\ Flow(Plus(Plus(p, 0), n), Plus(p, n))
  <2>1. n + 0 = n /\ 0 + n = n /\ 0 \in Int
    OBVIOUS
  <2> QED  BY <2>1, PlusPlus
<1> QED  BY <1>2, <1>3

LEMMA DeepConsumeToken ==
  ASSUME Smooth, ConsumeToken PROVE DeepInv'
<1>1. PICK p \in Point : Now(p)
  BY SmoothAt DEF ConsumeToken
<1>2. Task.do = "consume" /\ Tail(tasks) \in Seq(ACall)
  BY SmoothAt DEF ConsumeToken
<1>3. Post(Task, p) = Plus(p, 0)
  BY <1>2, PostIs
<1>4. Plus(p, 0) \in Point /\ Flow(p, Plus(p, 0))
  BY FlowZero
<1>5. Leads(<<>>, p, Post(Task, p))
  BY <1>3, <1>4, Leads0
<1>6. Continue(<<>>) /\ UNCHANGED <<compilers, functions>>
  BY DEF ConsumeToken
<1> QED  BY <1>1, <1>2, <1>5, <1>6, SmoothCalls

(* Loosely, any list position will do.                                     *)
LEMMA FlowLoose ==
  ASSUME NEW p \in Point, NEW q \in Point, InList(q),
         p.rest = q.rest, p.bases = q.bases, p.pend = q.pend, p.names \subseteq q.names
  PROVE  Loosened(p) \in Point /\ Flow(q, Loosened(p)) /\ InList(Loosened(p))
BY LoosenedIs DEF Flow, InList

LEMMA LooseTwice ==
  ASSUME NEW p \in Point
  PROVE  /\ Loosened(p) \in Point /\ InList(Loosened(p))
         /\ Flow(Loosened(Loosened(p)), Loosened(p))
         /\ Flow(Loosened(Plus(p, 0)), Loosened(p))
         /\ InList(p) => Flow(p, Loosened(p)) /\ Flow(Plus(p, 0), Loosened(p))
<1>1. /\ Loosened(p) \in Point /\ InList(Loosened(p))
      /\ InList(p) => Flow(p, Loosened(p))
  BY FlowLoose, LoosenedIs DEF InList
<1>2. Flow(Loosened(Loosened(p)), Loosened(p))
  BY <1>1, LoosenedIs DEF Flow, InList
<1>3. Flow(Loosened(Plus(p, 0)), Loosened(p))
  BY PlusIs, LoosenedIs DEF Flow, InList
<1>4. InList(p) => Flow(Plus(p, 0), Loosened(p))
  BY FlowZero, FlowLoose, PlusIs
<1> QED  BY <1>1, <1>2, <1>3, <1>4

LEMMA DeepDeclareLoop ==
  ASSUME Smooth, DeclareLoop PROVE DeepInv'
<1>1. PICK p \in Point : Now(p)
  BY SmoothAt DEF DeclareLoop
<1>2. Task.do = "declareUntil" /\ Task \in ACall /\ Tail(tasks) \in Seq(ACall)
  BY SmoothAt DEF DeclareLoop
<1>3. "declareUntil" \in Listed /\ Pre(Task, p)
  BY <1>1, NowIs DEF Listed
<1>4. InList(p) /\ Post(Task, p) = Loosened(p) /\ Normal(Task)
  BY <1>2, <1>3, PreIs, PostIs DEF Normal
<1>5. Loosened(p) \in Point /\ InList(Loosened(p)) /\ Flow(Loosened(Loosened(p)), Loosened(p))
      /\ Flow(p, Loosened(p))
  BY <1>4, LooseTwice
<1>6. Leads(<<>>, p, Loosened(p))
  BY <1>5, Leads0
<1>7. Leads(<<Call("declaration"), Task>>, p, Loosened(p))
  <2>1. LET t == Call("declaration") IN
        t \in ACall /\ Normal(t) /\ (Pre(t, p) <=> InList(p)) /\ Post(t, p) = Loosened(p)
    BY CallIs DEF Simple, SimpleCalls, Listed
  <2>2. Pre(Task, Loosened(p))
    BY <1>2, <1>3, <1>5, PreIs
  <2>3. Post(Task, Loosened(p)) = Loosened(Loosened(p))
    BY <1>2, <1>3, PostIs
  <2> QED  BY <2>1, <2>2, <2>3, <1>2, <1>4, <1>5, Leads2
<1>8. PICK calls : /\ calls = <<>> \/ calls = <<Call("declaration"), Task>>
                   /\ Continue(calls) /\ UNCHANGED <<compilers, functions>>
  BY DEF DeclareLoop
<1> QED  BY <1>1, <1>2, <1>4, <1>6, <1>7, <1>8, SmoothCalls

LEMMA DeepParsePrecedence ==
  ASSUME Smooth, ParsePrecedence PROVE DeepInv'
<1>1. PICK p \in Point : Now(p)
  BY SmoothAt DEF ParsePrecedence
<1>2. Task.do = "parsePrecedence" /\ Task \in ACall /\ Tail(tasks) \in Seq(ACall)
  BY SmoothAt DEF ParsePrecedence
<1>3. InExpr(p) /\ Task.prec \in Nat /\ Task.prec >= 1 /\ Post(Task, p) = Plus(p, 1)
  BY <1>1, <1>2, NowIs, PreIs, PostIs, CallFields
<1> DEFINE canAssign == Task.prec <= PrecAssignment
           rule == Prefix(Current.type, canAssign)
           loop == [do |-> "operators", prec |-> Task.prec]
           q == Plus(p, 1)
<1>4. ~p.loose /\ p.D \in Int /\ p.D >= 1 /\ p.L \in Nat
      /\ p.D + (IF p.uninit THEN 1 ELSE 0) >= p.L
  BY <1>3, PointIs DEF InExpr
<1>5. /\ q \in Point /\ ~q.loose /\ q.L = p.L /\ q.D = p.D + 1 /\ (q.uninit <=> p.uninit)
      /\ Flow(Plus(q, 0), q) /\ Flow(q, q)
  <2>1. q \in Point /\ (q.loose <=> p.loose) /\ q.L = p.L /\ q.D = p.D + 1 /\ (q.uninit <=> p.uninit)
    BY PlusIs
  <2>2. Flow(Plus(q, 0), q)
    BY <1>4, FlowZero
  <2>3. Flow(q, q)
    BY <2>1, FlowSelf
  <2> QED  BY <1>4, <2>1, <2>2, <2>3
<1> HIDE DEF q
<1>6. Over(q)
  BY <1>4, <1>5 DEF Over
<1>7. Leads(<<loop>>, q, q)
  <2>1. loop \in ACall /\ Normal(loop) /\ Pre(loop, q) /\ Post(loop, q) = Plus(q, 0)
    BY <1>3, <1>6, OperatorsIs
  <2> QED  BY <2>1, <1>5, Leads1
<1>8. ASSUME rule # <<>> PROVE Leads(rule, p, q)
  <2> DEFINE type == Current.type
  <2>0. rule = Prefix(type, canAssign)
    OBVIOUS
  <2> HIDE DEF type
  <2>1. CASE rule = <<Parse(PrecAssignment), Expect({")"})>>
    <3>1. /\ Parse(1) \in ACall /\ Normal(Parse(1)) /\ Pre(Parse(1), p)
          /\ Post(Parse(1), p) = q
      BY <1>3, ParseIs DEF q
    <3>2. LET t == Expect({")"}) IN
          t \in ACall /\ Normal(t) /\ Pre(t, q) /\ Post(t, q) = Plus(q, 0)
      BY ExpectIs DEF Expected
    <3> QED  BY <2>1, <3>1, <3>2, <1>5, Leads2 DEF PrecAssignment
  <2>2. CASE rule = <<Call("map")>> \/ rule = <<Call("constant")>>
    <3>1. ASSUME NEW d \in {"map", "constant"}
          PROVE  Call(d) \in ACall /\ Normal(Call(d)) /\ Pre(Call(d), p) /\ Post(Call(d), p) = q
      <4>1. d \in Simple
        BY DEF Simple, SimpleCalls
      <4> QED  BY <1>3, <4>1, CallIs DEF q
    <3> QED  BY <2>2, <3>1, <1>5, Leads1
  <2>3. CASE rule = <<Parse(PrecUnary), Output(UnaryCode(type))>>
    <3>1. /\ Parse(8) \in ACall /\ Normal(Parse(8)) /\ Pre(Parse(8), p)
          /\ Post(Parse(8), p) = q
      BY <1>3, ParseIs DEF q
    <3>2. PICK i \in Instr : UnaryCode(type) = <<i>> /\ i.op \in UnaryOps
      <4>1. I("NEG") \in Instr /\ I("NOT") \in Instr /\ I("NEG").op = "NEG" /\ I("NOT").op = "NOT"
        BY IsInstr DEF Ops, UnaryOps, I
      <4> QED  BY <4>1 DEF UnaryCode, UnaryOps
    <3>3. Needs(i) = 1 /\ Effect(i) = 0
      BY <3>2 DEF Needs, Effect, UnaryOps, BinaryOps
    <3>4. Good(i, q)
      BY <3>2, <3>3, <1>4, <1>5 DEF Good, UnaryOps, JumpOps, NameOps
    <3>5. LET t == Output(<<i>>) IN
          t \in ACall /\ Normal(t) /\ Pre(t, q) /\ Post(t, q) = Plus(q, 0)
      BY <3>3, <3>4, <1>5, Output1
    <3> QED  BY <2>3, <3>1, <3>2, <3>5, <1>5, Leads2 DEF PrecUnary
  <2>4. CASE rule = <<[do |-> "variable", canAssign |-> canAssign]>>
    <3>1. canAssign \in BOOLEAN
      OBVIOUS
    <3> HIDE DEF canAssign
    <3>2. LET t == [do |-> "variable", canAssign |-> canAssign] IN
          t \in ACall /\ Normal(t) /\ Pre(t, p) /\ Post(t, p) = q
      BY <3>1, <1>3, VariableIs DEF q
    <3> QED  BY <2>4, <3>2, <1>5, Leads1
  <2>5. CASE \E op \in {"NIL", "TRUE", "FALSE", "LD"} : rule = <<Output(<<I(op)>>)>>
    <3>1. PICK op \in {"NIL", "TRUE", "FALSE", "LD"} : rule = <<Output(<<I(op)>>)>>
      BY <2>5
    <3>2. I(op) \in Instr /\ I(op).op = op /\ I(op).a = 0
      BY IsInstr DEF Ops, I
    <3>3. Needs(I(op)) = 0 /\ Effect(I(op)) = 1
      BY <3>2 DEF Needs, Effect, UnaryOps, BinaryOps
    <3>4. Good(I(op), p)
      BY <3>2, <3>3, <1>4 DEF Good, JumpOps, NameOps
    <3>5. LET t == Output(<<I(op)>>) IN
          t \in ACall /\ Normal(t) /\ Pre(t, p) /\ Post(t, p) = q
      BY <3>2, <3>3, <3>4, <1>4, Output1 DEF q
    <3> QED  BY <3>1, <3>5, <1>5, Leads1
  <2> HIDE DEF rule, canAssign
  <2>6. \/ rule = <<>>
        \/ rule = <<Parse(PrecAssignment), Expect({")"})>>
        \/ rule = <<Call("map")>> \/ rule = <<Call("constant")>>
        \/ rule = <<Parse(PrecUnary), Output(UnaryCode(type))>>
        \/ rule = <<[do |-> "variable", canAssign |-> canAssign]>>
        \/ \E op \in {"NIL", "TRUE", "FALSE", "LD"} : rule = <<Output(<<I(op)>>)>>
    BY <2>0 DEF Prefix
  <2> QED  BY <1>8, <2>1, <2>2, <2>3, <2>4, <2>5, <2>6
<1>9. /\ rule # <<>> /\ Continue(rule \o <<loop>>) /\ UNCHANGED <<compilers, functions>>
  BY NoErrors DEF ParsePrecedence, Smooth
<1> HIDE DEF rule, loop
<1>10. Leads(rule \o <<loop>>, p, q)
  <2>1. <<loop>> # <<>>
    OBVIOUS
  <2> QED  BY <2>1, <1>7, <1>8, <1>9, LeadsOn
<1> QED  BY <1>1, <1>2, <1>3, <1>9, <1>10, SmoothCalls DEF q
LEMMA OverIs ==
  ASSUME NEW p \in Point, Over(p)
  PROVE  /\ ~p.loose /\ p.D \in Int /\ p.D >= 2 /\ p.L \in Nat /\ InExpr(p)
         /\ p.D - 1 + (IF p.uninit THEN 1 ELSE 0) >= p.L
<1>1. p.D \in Int /\ p.L \in Nat
  BY PointIs
<1> QED  BY <1>1 DEF Over, InExpr

LEMMA InExprIs ==
  ASSUME NEW p \in Point, InExpr(p)
  PROVE  /\ ~p.loose /\ p.D \in Int /\ p.D >= 1 /\ p.L \in Nat
         /\ p.D + (IF p.uninit THEN 1 ELSE 0) >= p.L
<1>1. p.D \in Int /\ p.L \in Nat
  BY PointIs
<1> QED  BY <1>1 DEF InExpr

(* More on the stack.                                                      *)
LEMMA Higher ==
  ASSUME NEW p \in Point, ~p.loose, NEW n \in Int
  PROVE  LET q == Plus(p, n) IN
         /\ q \in Point /\ ~q.loose /\ q.D = p.D + n /\ q.D \in Int /\ p.D \in Int
         /\ q.L = p.L /\ p.L \in Nat /\ (q.uninit <=> p.uninit) /\ q.rest = p.rest
         /\ q.bases = p.bases /\ q.names = p.names /\ q.pend = p.pend
         /\ InExpr(p) /\ n >= 0 => InExpr(q)
         /\ InExpr(p) /\ n >= 1 => Over(q)
         /\ Over(p) /\ n >= -1 => InExpr(q)
<1> DEFINE q == Plus(p, n)
<1>1. /\ q \in Point /\ ~q.loose /\ q.D = p.D + n
      /\ q.L = p.L /\ (q.uninit <=> p.uninit) /\ q.rest = p.rest
      /\ q.bases = p.bases /\ q.names = p.names /\ q.pend = p.pend
  BY PlusIs
<1>2. q.D \in Int /\ p.D \in Int /\ p.L \in Nat
  BY <1>1, PointIs
<1> HIDE DEF q
<1>3. InExpr(p) /\ n >= 0 => InExpr(q)
  BY <1>1, <1>2 DEF InExpr
<1>4. InExpr(p) /\ n >= 1 => Over(q)
  BY <1>1, <1>2 DEF InExpr, Over
<1>5. Over(p) /\ n >= -1 => InExpr(q)
  BY <1>1, <1>2 DEF InExpr, Over
<1> QED  BY <1>1, <1>2, <1>3, <1>4, <1>5 DEF q

LEMMA BinaryCodeGood ==
  ASSUME NEW type, BinaryCode(type) # <<>>, NEW p \in Point, ~p.loose, p.D >= 3
  PROVE  GoodCode(BinaryCode(type), p) /\ Effects(BinaryCode(type)) = -1
<1>1. ASSUME NEW op \in BinaryOps
      PROVE  I(op).op = op /\ Good(I(op), p) /\ Effect(I(op)) = -1
  <2>1. I(op).op = op
    BY DEF I
  <2>2. Needs(I(op)) = 2
    BY <2>1 DEF Needs, BinaryOps, UnaryOps
  <2>3. Effect(I(op)) = -1
    BY <2>1 DEF Effect, BinaryOps
  <2> QED  BY <2>1, <2>2, <2>3 DEF Good, BinaryOps, JumpOps, NameOps
<1>2. I("NOT").op = "NOT" /\ Effect(I("NOT")) = 0 /\ Needs(I("NOT")) = 1
  BY DEF I, Needs, Effect, BinaryOps, UnaryOps
<1>3. Good(I("NOT"), Plus(p, -1))
  <2>1. -1 \in Int
    OBVIOUS
  <2>2. Plus(p, -1).D = p.D + -1 /\ p.D \in Int
    BY <2>1, PlusIs, PointIs
  <2>3. Plus(p, -1).D >= 2
    BY <2>2
  <2> QED  BY <1>2, <2>3 DEF Good, JumpOps, NameOps
<1>4. ASSUME NEW op \in BinaryOps
      PROVE  GoodCode(<<I(op)>>, p) /\ Effects(<<I(op)>>) = -1
  <2> DEFINE c == <<I(op)>>
  <2>1. Len(c) = 1 /\ c[1] = I(op)
    OBVIOUS
  <2> HIDE DEF c
  <2>2. GoodCode(c, p) /\ Effects(c) = -1
    BY <2>1, <1>1 DEF GoodCode, Effects
  <2> QED  BY <2>2 DEF c
<1>5. ASSUME NEW op \in BinaryOps
      PROVE  GoodCode(<<I(op), I("NOT")>>, p) /\ Effects(<<I(op), I("NOT")>>) = -1
  <2> DEFINE c == <<I(op), I("NOT")>>
  <2>1. Len(c) = 2 /\ c[1] = I(op) /\ c[2] = I("NOT")
    OBVIOUS
  <2> HIDE DEF c
  <2>2. Effect(c[1]) = -1 /\ Effect(c[2]) = 0
    BY <2>1, <1>1, <1>2
  <2>3. Effects(c) = -1
    BY <2>1, <2>2 DEF Effects
  <2>4. Good(c[1], p) /\ Good(c[2], Plus(p, Effect(c[1])))
    BY <2>1, <2>2, <1>1, <1>3
  <2> QED  BY <2>1, <2>3, <2>4 DEF c, GoodCode
<1>6. \E op \in BinaryOps : BinaryCode(type) = <<I(op)>> \/ BinaryCode(type) = <<I(op), I("NOT")>>
  BY DEF BinaryCode, BinaryOps
<1> QED  BY <1>4, <1>5, <1>6

LEMMA DeepInfix ==
  ASSUME NEW p \in Point, Over(p), NEW type, Precedence(type) >= 1, NEW b \in BOOLEAN
  PROVE  Infix(type, b) # <<>> /\ Leads(Infix(type, b), p, Plus(p, 0))
<1> DEFINE q == Plus(p, 0)
           u == Plus(p, 1)
<1>1. /\ ~p.loose /\ p.D \in Int /\ p.D >= 2 /\ p.L \in Nat /\ InExpr(p)
      /\ p.D - 1 + (IF p.uninit THEN 1 ELSE 0) >= p.L
  BY OverIs
<1>2. q \in Point /\ Flow(q, q)
  BY PlusIs, FlowSelf
<1>3. /\ u \in Point /\ ~u.loose /\ u.D = p.D + 1 /\ u.D \in Int /\ u.D >= 3 /\ u.L = p.L
      /\ (u.uninit <=> p.uninit) /\ InExpr(u) /\ Over(u)
  <2>1. /\ u \in Point /\ ~u.loose /\ u.D = p.D + 1 /\ u.D \in Int /\ u.L = p.L
        /\ (u.uninit <=> p.uninit)
    BY <1>1, Higher
  <2>2. InExpr(u) /\ Over(u)
    BY <1>1, Higher
  <2> HIDE DEF u
  <2> QED  BY <2>1, <2>2, <1>1
<1>4. CASE Infix(type, b) \in {<<Call("and")>>, <<Call("or")>>, <<Call("argumentList")>>}
  <2>1. ASSUME NEW d \in {"and", "or", "argumentList"}
        PROVE  Call(d) \in ACall /\ Normal(Call(d)) /\ Pre(Call(d), p) /\ Post(Call(d), p) = q
    <3>1. d \in Simple
      BY DEF Simple, SimpleCalls
    <3> QED  BY <3>1, CallIs
  <2>2. ASSUME NEW d \in {"and", "or", "argumentList"} PROVE Leads(<<Call(d)>>, p, q)
    <3> HIDE DEF q
    <3> QED  BY <1>2, <2>1, Leads1
  <2> QED  BY <1>4, <2>2
<1>5. CASE Infix(type, b) = <<[do |-> "dot", canAssign |-> b]>>
  <2>1. LET t == [do |-> "dot", canAssign |-> b] IN
        t \in ACall /\ Normal(t) /\ Pre(t, p) /\ Post(t, p) = q
    BY DotIs
  <2> HIDE DEF q
  <2> QED  BY <1>2, <1>5, <2>1, Leads1 DEF q
<1>6. /\ Parse(1) \in ACall /\ Normal(Parse(1)) /\ Pre(Parse(1), p)
      /\ Post(Parse(1), p) = u
  BY <1>1, ParseIs
<1>7. CASE Infix(type, b) = <<Parse(1), Expect({"]"}), Assignable(I("GETI"), I("SETI"), b, TRUE)>>
  <2> DEFINE r == Plus(u, 0)
             get == I("GETI")
             set == I("SETI")
             noted == TRUE
             t == Assignable(get, set, b, noted)
             e == Expect({"]"})
  <2>0. noted \in BOOLEAN
    OBVIOUS
  <2>1. e \in ACall /\ Normal(e) /\ Pre(e, u) /\ Post(e, u) = r
    BY ExpectIs DEF Expected
  <2> HIDE DEF noted, e
  <2>2. /\ get \in Instr /\ set \in Instr /\ get.op = "GETI" /\ set.op = "SETI"
    BY IsInstr DEF Ops, I
  <2>3. Effect(get) = -1 /\ Effect(set) = -2 /\ Needs(get) = 2 /\ Needs(set) = 3
    BY <2>2 DEF Effect, Needs, BinaryOps, UnaryOps
  <2>4. r \in Point /\ ~r.loose /\ r.D = u.D /\ InExpr(r) /\ r.L = u.L /\ (r.uninit <=> u.uninit)
    <3>1. r \in Point /\ ~r.loose /\ r.D = u.D + 0 /\ InExpr(r) /\ r.L = u.L /\ (r.uninit <=> u.uninit)
      BY <1>3, Higher
    <3> QED  BY <3>1, <1>3
  <2> HIDE DEF r
  <2>5. Good(get, r)
    BY <2>2, <2>3, <2>4, <1>3 DEF Good, JumpOps, NameOps
  <2>6. Plus(r, 1).D = r.D + 1 /\ Plus(r, 1) \in Point
    BY <2>4, PlusIs
  <2>7. Good(set, Plus(r, 1))
    BY <2>2, <2>3, <2>4, <2>6, <1>3 DEF Good, JumpOps, NameOps
  <2>8. -2 \in Int /\ -1 \in Int
    OBVIOUS
  <2>9. InExpr(Plus(r, -2))
    <3> DEFINE v == Plus(r, -2)
    <3>1. v \in Point /\ ~v.loose /\ v.D = r.D + -2 /\ v.L = r.L /\ (v.uninit <=> r.uninit)
      BY <2>4, <2>8, PlusIs
    <3> HIDE DEF v
    <3>2. v.D = p.D - 1 /\ v.L = p.L /\ (v.uninit <=> p.uninit)
      BY <3>1, <2>4, <1>3, <1>1
    <3>3. v.D >= 1 /\ v.D + (IF v.uninit THEN 1 ELSE 0) >= v.L
      BY <3>2, <1>1
    <3>4. InExpr(v)
      BY <3>1, <3>3 DEF InExpr
    <3> QED  BY <3>4 DEF v
  <2>10. Effect(get) - 1 = -2 /\ Effect(get) = Effect(set) + 1
    BY <2>3
  <2>11. t \in ACall /\ Normal(t) /\ Pre(t, r) /\ Post(t, r) = Plus(r, -1)
    <3>1. InExpr(Plus(r, Effect(get) - 1))
      BY <2>9, <2>10
    <3> HIDE DEF get, set
    <3>2. t \in ACall /\ Normal(t) /\ Pre(t, r) /\ Post(t, r) = Plus(r, Effect(get))
      BY <2>0, <2>2, <2>4, <2>5, <2>7, <2>10, <3>1, GetSetIs
    <3> QED  BY <3>2, <2>3
  <2>12. Flow(Plus(r, -1), q)
    <3> HIDE DEF u
    <3>1. Flow(r, u) /\ ~u.loose
      <4>1. Flow(Plus(Plus(p, 1), 0), Plus(p, 1))
        BY <1>1, FlowZero
      <4> QED  BY <4>1, <1>3 DEF r, u
    <3>2. Flow(Plus(r, -1), Plus(u, -1)) /\ Plus(r, -1) \in Point
      BY <3>1, <1>3, <2>4, <2>8, FlowPlus, PlusIs
    <3>3. 1 + -1 = 0 /\ 1 \in Int
      OBVIOUS
    <3>4. Plus(u, -1) \in Point /\ Flow(Plus(u, -1), Plus(p, 1 + -1))
      BY <2>8, <3>3, PlusPlus DEF u
    <3>5. Flow(Plus(u, -1), q)
      BY <3>3, <3>4
    <3> HIDE DEF q
    <3> QED  BY <3>2, <3>4, <3>5, <1>2, FlowTrans
  <2> HIDE DEF t, q, u
  <2>13. Leads(<<Parse(1), e, t>>, p, q)
    BY <1>2, <1>6, <2>1, <2>11, <2>12, Leads3
  <2> QED  BY <1>7, <2>13 DEF q, e, t, get, set, noted
<1>8. CASE Infix(type, b) = <<Parse(Precedence(type) + 1), Output(BinaryCode(type))>>
           /\ BinaryCode(type) # <<>>
  <2> DEFINE n == Precedence(type) + 1
             c == BinaryCode(type)
  <2>1. n \in Nat /\ n >= 1
    BY PrecedenceIn
  <2> HIDE DEF n
  <2>2. /\ Parse(n) \in ACall /\ Normal(Parse(n)) /\ Pre(Parse(n), p)
        /\ Post(Parse(n), p) = u
    BY <2>1, <1>1, ParseIs
  <2>3. c \in Seq(Instr) /\ GoodCode(c, u) /\ Effects(c) = -1
    BY <1>3, <1>8, BinaryCodeIn, BinaryCodeGood
  <2> HIDE DEF c
  <2>4. LET t == Output(c) IN
        t \in ACall /\ Normal(t) /\ Pre(t, u) /\ Post(t, u) = Plus(u, -1)
    BY <2>3, <1>3, OutputIs
  <2>5. Flow(Plus(u, -1), q)
    <3>1. 1 + -1 = 0 /\ 1 \in Int /\ -1 \in Int
      OBVIOUS
    <3>4. Flow(Plus(u, -1), Plus(p, 1 + -1))
      BY <3>1, PlusPlus
    <3> QED  BY <3>1, <3>4
  <2>6. Infix(type, b) = <<Parse(n), Output(c)>>
    BY <1>8 DEF n, c
  <2> HIDE DEF q, u
  <2> QED  BY <1>2, <2>2, <2>4, <2>5, <2>6, Leads2 DEF q
<1>9. \/ Infix(type, b) \in {<<Call("and")>>, <<Call("or")>>, <<Call("argumentList")>>}
      \/ Infix(type, b) = <<[do |-> "dot", canAssign |-> b]>>
      \/ Infix(type, b) = <<Parse(1), Expect({"]"}), Assignable(I("GETI"), I("SETI"), b, TRUE)>>
      \/ /\ Infix(type, b) = <<Parse(Precedence(type) + 1), Output(BinaryCode(type))>>
         /\ type \notin {"AND", "OR", "(", ".", "["}
  BY DEF Infix, PrecAssignment
<1>10. type \notin {"AND", "OR", "(", ".", "["} => BinaryCode(type) # <<>>
  BY DEF Precedence, BinaryCode
<1>11. Leads(Infix(type, b), p, q)
  BY <1>4, <1>5, <1>7, <1>8, <1>9, <1>10
<1>12. \A x, y, z : <<x>> # <<>> /\ <<x, y>> # <<>> /\ <<x, y, z>> # <<>>
  OBVIOUS
<1>13. Infix(type, b) # <<>>
  BY <1>9, <1>12
<1> QED  BY <1>11, <1>13
LEMMA DeepOperators ==
  ASSUME Smooth, Operators PROVE DeepInv'
<1>1. PICK p \in Point : Now(p)
  BY SmoothAt DEF Operators
<1>2. Task.do = "operators" /\ Task \in ACall /\ Tail(tasks) \in Seq(ACall)
  BY SmoothAt DEF Operators
<1>3. Over(p) /\ Task.prec \in Nat /\ Task.prec >= 1 /\ Post(Task, p) = Plus(p, 0) /\ Normal(Task)
  BY <1>1, <1>2, NowIs, PreIs, PostIs, CallFields DEF Normal
<1> DEFINE canAssign == Task.prec <= PrecAssignment
           type == Current.type
           infix == Infix(type, canAssign)
           q == Plus(p, 0)
<1>4. ~p.loose /\ q \in Point /\ Flow(p, q) /\ Flow(Plus(q, 0), q)
  BY <1>3, OverIs, FlowZero
<1>5. Over(q)
  <2>1. q.D = p.D + 0 /\ p.D \in Int /\ q.L = p.L /\ (q.uninit <=> p.uninit) /\ ~q.loose
    BY <1>4, PlusIs, PointIs
  <2> HIDE DEF q
  <2>2. q.D = p.D
    BY <2>1
  <2> QED  BY <2>1, <2>2, <1>3 DEF Over
<1>6. Leads(<<>>, p, q)
  BY <1>4, Leads0
<1>7. ASSUME Task.prec <= Precedence(type) PROVE Leads(infix \o <<Task>>, p, q)
  <2>1. canAssign \in BOOLEAN
    OBVIOUS
  <2> HIDE DEF canAssign
  <2>2. Precedence(type) >= 1
    <3>1. Precedence(type) \in 0..9
      BY PrecedenceIn
    <3> QED  BY <3>1, <1>3, <1>7
  <2>3. infix # <<>> /\ Leads(infix, p, q)
    BY <1>3, <2>1, <2>2, DeepInfix
  <2> HIDE DEF infix
  <2>4. Leads(<<Task>>, q, q)
    <3>1. Pre(Task, q)
      BY <1>2, <1>3, <1>5, PreIs
    <3>2. Post(Task, q) = Plus(q, 0)
      BY <1>2, PostIs
    <3> QED  BY <3>1, <3>2, <1>2, <1>3, <1>4, Leads1
  <2>5. <<Task>> # <<>>
    OBVIOUS
  <2> QED  BY <2>3, <2>4, <2>5, LeadsOn
<1>8. PICK calls : /\ calls = <<>> \/ (calls = infix \o <<Task>> /\ Task.prec <= Precedence(type))
                   /\ Continue(calls) /\ UNCHANGED <<compilers, functions>>
  BY DEF Operators, Binds
<1>9. Leads(calls, p, Post(Task, p))
  BY <1>3, <1>6, <1>7, <1>8
<1> QED  BY <1>1, <1>2, <1>8, <1>9, SmoothCalls

LEMMA DeepNames ==
  ASSUME Smooth, Names PROVE DeepInv'
<1>1. PICK d \in {"globals", "parameters"} : At(d)
  BY DEF Names
<1>2. /\ Task.do = d /\ Task \in ACall /\ Tail(tasks) \in Seq(ACall)
      /\ \E p \in Point : Now(p)
  BY <1>1, SmoothAt
<1>3. PICK p \in Point : Now(p)
  BY <1>2
<1> DEFINE e == IF d = "globals" THEN "globalDeclaration" ELSE "parameter"
<1>4. PICK calls : /\ calls = <<>> \/ calls = <<Call(e)>>
                   /\ Continue(calls) /\ UNCHANGED <<compilers, functions>>
  BY <1>1, <1>2 DEF Names, At
<1>5. Pre(Task, p) /\ InList(p) /\ Post(Task, p) = Loosened(p)
  BY <1>2, <1>3, NowIs, PreIs, PostIs DEF Heads
<1>6. Loosened(p) \in Point /\ Flow(p, Loosened(p)) /\ Flow(Loosened(p), Loosened(p))
  BY <1>5, LooseTwice, FlowSelf
<1>7. Call(e) \in ACall /\ Normal(Call(e)) /\ Pre(Call(e), p) /\ Post(Call(e), p) = Loosened(p)
  <2>1. CASE d = "globals"
    <3>1. p.bases = <<>>
      BY <1>2, <1>5, <2>1, PreIs
    <3> QED  BY <2>1, <3>1, <1>5, CallIs DEF Simple, SimpleCalls
  <2>2. CASE d = "parameters"
    <3>1. p.bases = << 1 >> /\ p.empty
      BY <1>2, <1>5, <2>2, PreIs DEF Heads
    <3> QED  BY <2>2, <3>1, <1>5, CallIs DEF Simple, SimpleCalls, Heads
  <2> QED  BY <2>1, <2>2
<1> HIDE DEF e
<1>8. Leads(<<>>, p, Loosened(p)) /\ Leads(<<Call(e)>>, p, Loosened(p))
  BY <1>6, <1>7, Leads0, Leads1
<1> QED  BY <1>2, <1>3, <1>4, <1>5, <1>8, SmoothCalls

LEMMA DeepParameterList ==
  ASSUME Smooth, ParameterList PROVE DeepInv'
<1>1. PICK p \in Point : Now(p)
  BY SmoothAt DEF ParameterList
<1>2. Task.do = "parameterList" /\ Task \in ACall /\ Tail(tasks) \in Seq(ACall)
  BY SmoothAt DEF ParameterList
<1>3. Pre(Task, p) /\ InList(p) /\ p.bases = << 1 >> /\ p.empty /\ Post(Task, p) = Loosened(p)
  BY <1>1, <1>2, NowIs, PreIs, PostIs DEF Heads
<1>4. Loosened(p) \in Point /\ Flow(p, Loosened(p)) /\ Flow(Loosened(p), Loosened(p))
  BY <1>3, LooseTwice, FlowSelf
<1>5. LET t == Call("parameter") IN
      t \in ACall /\ Normal(t) /\ Pre(t, p) /\ Post(t, p) = Loosened(p)
  BY <1>3, CallIs DEF Simple, SimpleCalls, Heads
<1>6. Leads(<<>>, p, Loosened(p)) /\ Leads(<<Call("parameter")>>, p, Loosened(p))
  BY <1>4, <1>5, Leads0, Leads1
<1>7. PICK calls : /\ calls = <<>> \/ calls = <<Call("parameter")>>
                   /\ Continue(calls) /\ UNCHANGED <<compilers, functions>>
  BY DEF ParameterList
<1> QED  BY <1>1, <1>2, <1>3, <1>6, <1>7, SmoothCalls

(* A `Global` is not in a scope: see GlobalOutside.                       *)
LEMMA DeepDeclaration ==
  ASSUME Smooth, Declaration, Is({"GLOBAL"}) => Scope = 0 PROVE DeepInv'
<1>1. PICK p \in Point : Now(p)
  BY SmoothAt DEF Declaration
<1>2. Task.do = "declaration" /\ Task \in ACall /\ Tail(tasks) \in Seq(ACall)
  BY SmoothAt DEF Declaration
<1>3. Pre(Task, p) /\ InList(p) /\ Post(Task, p) = Loosened(p)
  BY <1>1, <1>2, NowIs, PreIs, PostIs DEF Listed
<1>4. PICK d \in {"funDeclaration", "varDeclaration", "globalDeclaration", "statement"} :
        /\ Continue(<<Call(d), Call("endDeclaration")>>)
        /\ d = "globalDeclaration" => Is({"GLOBAL"})
        /\ UNCHANGED <<compilers, functions>>
  BY DEF Declaration, Keyword
<1>5. d = "globalDeclaration" => p.bases = <<>>
  <2>1. p.bases \in Seq(Nat) /\ LocalsOK(Comp, p)
    BY <1>1, NowIs, PointIs
  <2>2. Len(p.bases) = Scope
    BY <2>1 DEF LocalsOK, Scope
  <2> QED  BY <2>1, <2>2, <1>4
<1>6. LET t == Call(d) IN
      /\ t \in ACall /\ Normal(t) /\ Pre(t, p)
      /\ Post(t, p) = Loosened(p) \/ Post(t, p) = Plus(p, 0)
  <2>1. d \in Simple
    BY DEF Simple, SimpleCalls
  <2>2. CASE d = "globalDeclaration"
    BY <2>1, <2>2, <1>3, <1>5, CallIs
  <2>3. CASE d = "statement"
    BY <2>1, <2>3, <1>3, CallIs DEF Single
  <2>4. CASE d \in {"funDeclaration", "varDeclaration"}
    <3>1. d \in Listed \ {"declareUntil"}
      BY <2>4 DEF Listed
    <3> QED  BY <2>1, <3>1, <1>3, CallIs
  <2> QED  BY <2>2, <2>3, <2>4
<1> DEFINE t == Call(d)
           q == Post(t, p)
<1>7. q \in Point /\ InList(q) /\ Loosened(q) \in Point /\ Flow(Loosened(q), Loosened(p))
  <2>1. /\ Loosened(p) \in Point /\ InList(Loosened(p))
        /\ Flow(Loosened(Loosened(p)), Loosened(p)) /\ Flow(Loosened(Plus(p, 0)), Loosened(p))
        /\ Plus(p, 0) \in Point /\ InList(Plus(p, 0))
    BY <1>3, LooseTwice, FlowZero
  <2>2. q \in Point /\ InList(q) /\ Flow(Loosened(q), Loosened(p))
    BY <2>1, <1>6
  <2> HIDE DEF q
  <2> QED  BY <2>2, LooseTwice
<1>8. LET u == Call("endDeclaration") IN
      u \in ACall /\ Normal(u) /\ Pre(u, q) /\ Post(u, q) = Loosened(q)
  <2> HIDE DEF q
  <2> QED  BY <1>7, CallIs DEF Simple, SimpleCalls, Listed
<1>9. Leads(<<t, Call("endDeclaration")>>, p, Loosened(p))
  <2>1. t \in ACall /\ Normal(t) /\ Pre(t, p) /\ Loosened(p) \in Point
    BY <1>6, LooseTwice
  <2> HIDE DEF t
  <2> QED  BY <2>1, <1>7, <1>8, Leads2
<1> QED  BY <1>1, <1>2, <1>3, <1>4, <1>9, SmoothCalls
-----------------------------------------------------------------------------
(* Lists.                                                                  *)

LEMMA CountedIs ==
  ASSUME NEW n \in Nat
  PROVE  /\ IA("CALL", n) \in Instr /\ Needs(IA("CALL", n)) = n + 1 /\ Effect(IA("CALL", n)) = -n
         /\ IA("MAP", n) \in Instr /\ Needs(IA("MAP", n)) = n /\ Effect(IA("MAP", n)) = 1 - n
         /\ IA("PRINT", n) \in Instr /\ Needs(IA("PRINT", n)) = n /\ Effect(IA("PRINT", n)) = -n
         /\ IA("CALL", n).op = "CALL" /\ IA("MAP", n).op = "MAP" /\ IA("PRINT", n).op = "PRINT"
<1>1. /\ IA("CALL", n) \in Instr /\ IA("MAP", n) \in Instr /\ IA("PRINT", n) \in Instr
  BY IsInstr DEF Ops
<1>2. /\ IA("CALL", n).op = "CALL" /\ IA("MAP", n).op = "MAP" /\ IA("PRINT", n).op = "PRINT"
      /\ IA("CALL", n).a = n /\ IA("MAP", n).a = n /\ IA("PRINT", n).a = n
  BY DEF IA
<1>3. /\ Needs(IA("CALL", n)) = n + 1 /\ Needs(IA("MAP", n)) = n /\ Needs(IA("PRINT", n)) = n
  BY <1>2 DEF Needs, BinaryOps, UnaryOps
<1>4. /\ Effect(IA("CALL", n)) = -n /\ Effect(IA("MAP", n)) = 1 - n
      /\ Effect(IA("PRINT", n)) = -n
  BY <1>2 DEF Effect, BinaryOps, UnaryOps
<1> QED  BY <1>1, <1>2, <1>3, <1>4

(* One more value.                                                         *)
LEMMA OneUp ==
  ASSUME NEW p \in Point, InExpr(p)
  PROVE  LET q == Plus(p, 1) IN
         /\ q \in Point /\ ~q.loose /\ q.D = p.D + 1 /\ q.L = p.L /\ (q.uninit <=> p.uninit)
         /\ q.names = p.names /\ q.pend = p.pend /\ q.bases = p.bases /\ q.rest = p.rest
         /\ InExpr(q) /\ Over(q)
<1> DEFINE q == Plus(p, 1)
<1>1. ~p.loose
  BY InExprIs
<1>2. /\ q \in Point /\ ~q.loose /\ q.D = p.D + 1 /\ q.L = p.L /\ (q.uninit <=> p.uninit)
      /\ q.names = p.names /\ q.pend = p.pend /\ q.bases = p.bases /\ q.rest = p.rest
  BY <1>1, Higher
<1>3. InExpr(q) /\ Over(q)
  BY <1>1, Higher
<1> HIDE DEF q
<1>4. /\ q \in Point /\ ~q.loose /\ q.D = p.D + 1 /\ q.L = p.L /\ (q.uninit <=> p.uninit)
      /\ q.names = p.names /\ q.pend = p.pend /\ q.bases = p.bases /\ q.rest = p.rest
      /\ InExpr(q) /\ Over(q)
  BY <1>2, <1>3
<1> QED  BY <1>4 DEF q

(* The end of a list in brackets.                                          *)
LEMMA ClosedList ==
  ASSUME NEW p \in Point, ~p.loose, NEW s \in Expected, NEW i \in Instr, i.op \in {"CALL", "MAP"},
         p.D >= Needs(i) + 1
  PROVE  Leads(<<Expect(s), Output(<<i>>)>>, p, Plus(p, Effect(i)))
<1> DEFINE q == Plus(p, 0)
           e == Expect(s)
           o == Output(<<i>>)
           m == Effect(i)
<1>1. m \in Int /\ p.D \in Int
  BY NeedsIs, PointIs
<1>2. q \in Point /\ ~q.loose /\ q.D = p.D
  <2>1. q \in Point /\ ~q.loose /\ q.D = p.D + 0
    BY PlusIs
  <2> QED  BY <2>1, <1>1
<1>3. Flow(Plus(q, m), Plus(p, m)) /\ Plus(p, m) \in Point
  <2> HIDE DEF m
  <2> QED  BY <1>1, FlowZero
<1>4. e \in ACall /\ Normal(e) /\ Pre(e, p) /\ Post(e, p) = q
  BY ExpectIs
<1> HIDE DEF q
<1>5. Good(i, q)
  BY <1>2 DEF Good, JumpOps, NameOps
<1>6. o \in ACall /\ Normal(o) /\ Pre(o, q) /\ Post(o, q) = Plus(q, m)
  BY <1>2, <1>5, Output1
<1> HIDE DEF e, o, m
<1>7. Leads(<<e, o>>, p, Plus(p, m))
  BY <1>3, <1>4, <1>6, Leads2
<1> QED  BY <1>7 DEF e, o, m

LEMMA DeepItems ==
  ASSUME Smooth, Items PROVE DeepInv'
<1>1. PICK d \in {"argumentList", "map"} : At(d)
  BY DEF Items
<1>2. /\ Task.do = d /\ Task \in ACall /\ Tail(tasks) \in Seq(ACall)
      /\ \E p \in Point : Now(p)
  BY <1>1, SmoothAt
<1>3. PICK p \in Point : Now(p)
  BY <1>2
<1>4. Pre(Task, p)
  BY <1>3, NowIs
<1>0. 0 \in Nat /\ 1 \in Nat
  OBVIOUS
<1>5. CASE d = "argumentList"
  <2>1. Over(p) /\ Post(Task, p) = Plus(p, 0)
    BY <1>2, <1>4, <1>5, PreIs, PostIs, ZenonT(30) DEF Binary
  <2>2. /\ ~p.loose /\ p.D \in Int /\ p.D >= 2 /\ p.L \in Nat /\ InExpr(p)
    BY <2>1, OverIs
  <2>3. Leads(<<Expect({")"}), Output(<<IA("CALL", 0)>>)>>, p, Plus(p, 0))
    <3> DEFINE i == IA("CALL", 0)
    <3>1. i \in Instr /\ i.op = "CALL" /\ Needs(i) = 1 /\ Effect(i) = 0
      BY CountedIs
    <3> HIDE DEF i
    <3>2. p.D >= Needs(i) + 1 /\ {")"} \in Expected
      BY <3>1, <2>2 DEF Expected
    <3>3. Leads(<<Expect({")"}), Output(<<i>>)>>, p, Plus(p, Effect(i)))
      BY <3>1, <3>2, <2>2, ClosedList
    <3> QED  BY <3>1, <3>3 DEF i
  <2>4. Leads(<<Parse(PrecAssignment), NextItem("arguments", 1)>>, p, Plus(p, 0))
    <3> DEFINE q == Plus(p, 1)
               t == NextItem("arguments", 1)
    <3>1. Parse(1) \in ACall /\ Normal(Parse(1)) /\ Pre(Parse(1), p) /\ Post(Parse(1), p) = q
      BY <2>2, ParseIs
    <3>2. q \in Point /\ q.D = p.D + 1 /\ InExpr(q)
      BY <2>2, OneUp
    <3>3. t \in ACall /\ Normal(t) /\ (Pre(t, q) <=> InExpr(q) /\ q.D >= 1 + 2) /\ Post(t, q) = Plus(q, -1)
      BY <1>0, NextItemIs
    <3>4. 1 \in Int /\ -1 \in Int /\ 1 + -1 = 0
      OBVIOUS
    <3>5. Flow(Plus(q, -1), Plus(p, 1 + -1)) /\ Plus(p, 1 + -1) \in Point
      BY <3>4, PlusPlus
    <3>6. Flow(Plus(q, -1), Plus(p, 0)) /\ Plus(p, 0) \in Point
      BY <3>4, <3>5
    <3> HIDE DEF q, t
    <3>7. q.D >= 1 + 2
      BY <3>2, <2>2
    <3>8. Leads(<<Parse(1), t>>, p, Plus(p, 0))
      BY <3>1, <3>2, <3>3, <3>6, <3>7, Leads2
    <3> QED  BY <3>8 DEF t, PrecAssignment
  <2>5. PICK calls : /\ \/ calls = <<Expect({")"}), Output(<<IA("CALL", 0)>>)>>
                        \/ calls = <<Parse(PrecAssignment), NextItem("arguments", 1)>>
                     /\ Continue(calls) /\ UNCHANGED <<compilers, functions>>
    BY <1>2, <1>5 DEF Items, At
  <2> QED  BY <2>1, <2>3, <2>4, <2>5, <1>2, <1>3, SmoothCalls
<1>6. CASE d = "map"
  <2>1. InExpr(p) /\ Post(Task, p) = Plus(p, 1)
    BY <1>2, <1>4, <1>6, PreIs, PostIs, ZenonT(30) DEF Pushing
  <2>2. /\ ~p.loose /\ p.D \in Int /\ p.D >= 1 /\ p.L \in Nat
    BY <2>1, InExprIs
  <2>3. Leads(<<Expect({"]"}), Output(<<IA("MAP", 0)>>)>>, p, Plus(p, 1))
    <3> DEFINE i == IA("MAP", 0)
    <3>1. i \in Instr /\ i.op = "MAP" /\ Needs(i) = 0 /\ Effect(i) = 1
      BY CountedIs
    <3> HIDE DEF i
    <3>2. p.D >= Needs(i) + 1 /\ {"]"} \in Expected
      BY <3>1, <2>2 DEF Expected
    <3>3. Leads(<<Expect({"]"}), Output(<<i>>)>>, p, Plus(p, Effect(i)))
      BY <3>1, <3>2, <2>2, ClosedList
    <3> QED  BY <3>1, <3>3 DEF i
  <2>4. Leads(<<Parse(PrecAssignment), NextItem("elements", 1)>>, p, Plus(p, 1))
    <3> DEFINE q == Plus(p, 1)
               t == NextItem("elements", 1)
    <3>1. Parse(1) \in ACall /\ Normal(Parse(1)) /\ Pre(Parse(1), p) /\ Post(Parse(1), p) = q
      BY <2>1, ParseIs
    <3>2. q \in Point /\ q.D = p.D + 1 /\ InExpr(q)
      BY <2>1, <2>2, OneUp
    <3>3. t \in ACall /\ Normal(t) /\ (Pre(t, q) <=> InExpr(q) /\ q.D >= 1 + 1)
          /\ Post(t, q) = Plus(q, 1 - 1)
      BY <1>0, NextItemIs
    <3>4. 1 - 1 = 0 /\ 1 \in Int
      OBVIOUS
    <3>5. Flow(Plus(q, 0), q)
      BY <3>4, <2>2, FlowZero
    <3> HIDE DEF q, t
    <3>7. q.D >= 1 + 1
      BY <3>2, <2>2
    <3>9. Post(t, q) = Plus(q, 0)
      BY <3>3, <3>4
    <3>8. Leads(<<Parse(1), t>>, p, q)
      BY <3>1, <3>2, <3>3, <3>5, <3>7, <3>9, Leads2
    <3> QED  BY <3>8 DEF t, q, PrecAssignment
  <2>5. PICK calls : /\ \/ calls = <<Expect({"]"}), Output(<<IA("MAP", 0)>>)>>
                        \/ calls = <<Parse(PrecAssignment), NextItem("elements", 1)>>
                     /\ Continue(calls) /\ UNCHANGED <<compilers, functions>>
    BY <1>2, <1>6 DEF Items, At
  <2> QED  BY <2>1, <2>3, <2>4, <2>5, <1>2, <1>3, SmoothCalls
<1> QED  BY <1>5, <1>6

(* Another item.                                                           *)
LEMMA OneMore ==
  ASSUME NEW p \in Point, InExpr(p), NEW n \in Nat, NEW l, NEW k \in Int,
         LET t == NextItem(l, n + 1) IN
           t \in ACall /\ Normal(t) /\ Pre(t, Plus(p, 1)) /\ Post(t, Plus(p, 1)) = Plus(Plus(p, 1), k - 1)
  PROVE  Leads(<<Parse(PrecAssignment), NextItem(l, n + 1)>>, p, Plus(p, k))
<1> DEFINE q == Plus(p, 1)
           t == NextItem(l, n + 1)
<1>1. Parse(1) \in ACall /\ Normal(Parse(1)) /\ Pre(Parse(1), p) /\ Post(Parse(1), p) = q
  BY ParseIs
<1>2. 1 \in Int /\ k - 1 \in Int /\ 1 + (k - 1) = k
  OBVIOUS
<1>3. Flow(Plus(q, k - 1), Plus(p, 1 + (k - 1))) /\ Plus(p, 1 + (k - 1)) \in Point
  BY <1>2, PlusPlus
<1>4. Flow(Plus(q, k - 1), Plus(p, k)) /\ Plus(p, k) \in Point
  BY <1>2, <1>3
<1> HIDE DEF q, t
<1>5. t \in ACall /\ Normal(t) /\ Pre(t, q) /\ Post(t, q) = Plus(q, k - 1)
  BY DEF q, t
<1>6. Leads(<<Parse(1), t>>, p, Plus(p, k))
  BY <1>1, <1>4, <1>5, Leads2
<1> QED  BY <1>6 DEF t, PrecAssignment

LEMMA ItemCalls ==
  ASSUME NEW list, NEW failed, NEW rest, Item(list, failed, rest), Smooth
  PROVE  /\ ~failed /\ UNCHANGED <<compilers, functions>>
         /\ \/ Continue(<<Parse(PrecAssignment), NextItem(list, Task.count + 1)>>)
            \/ Continue(rest)
<1>1. ~failed
  BY NoErrors DEF Smooth, Item
<1> QED  BY <1>1 DEF Item

(* The count of a list that is not too long fits in a byte.                *)
LEMMA DeepArguments ==
  ASSUME Smooth, Arguments, Task.count < Byte PROVE DeepInv'
<1> DEFINE n == Task.count
           rest == <<Expect({")"}), Output(<<IA("CALL", n % Byte)>>)>>
<1>1. At("arguments") /\ UNCHANGED <<compilers, functions>>
      /\ \/ Continue(<<Parse(PrecAssignment), NextItem("arguments", n + 1)>>)
         \/ Continue(rest)
  BY ItemCalls DEF Arguments, Item
<1>2. /\ Task.do = "arguments" /\ Task \in ACall /\ Tail(tasks) \in Seq(ACall)
      /\ \E p \in Point : Now(p)
  BY <1>1, SmoothAt
<1>3. PICK p \in Point : Now(p)
  BY <1>2
<1>4. Pre(Task, p) /\ n \in Nat /\ n % Byte = n
  <2>1. n \in Nat
    BY <1>2, Counts
  <2> QED  BY <1>3, <2>1, NowIs, CompilerAssumption
<1>5. InExpr(p) /\ p.D >= n + 2
  BY <1>2, <1>4, PreIs
<1>6. Post(Task, p) = Plus(p, -n)
  BY <1>2, PostIs
<1> HIDE DEF n
<1>7. ~p.loose /\ p.D \in Int
  BY <1>5, InExprIs
<1>8. Leads(rest, p, Plus(p, -n))
  <2> DEFINE i == IA("CALL", n)
  <2>1. i \in Instr /\ i.op = "CALL" /\ Needs(i) = n + 1 /\ Effect(i) = -n
    BY <1>4, CountedIs
  <2> HIDE DEF i
  <2>2. p.D >= Needs(i) + 1 /\ {")"} \in Expected
    BY <2>1, <1>4, <1>5, <1>7 DEF Expected
  <2>3. Leads(<<Expect({")"}), Output(<<i>>)>>, p, Plus(p, Effect(i)))
    BY <2>1, <2>2, <1>7, ClosedList
  <2> QED  BY <2>1, <2>3, <1>4 DEF i
<1>9. Leads(<<Parse(PrecAssignment), NextItem("arguments", n + 1)>>, p, Plus(p, -n))
  <2> DEFINE q == Plus(p, 1)
             t == NextItem("arguments", n + 1)
  <2>1. q \in Point /\ q.D = p.D + 1 /\ InExpr(q)
    BY <1>5, OneUp
  <2>2. n + 1 \in Nat /\ -(n + 1) = -n - 1 /\ -n \in Int
    BY <1>4
  <2>3. t \in ACall /\ Normal(t) /\ (Pre(t, q) <=> InExpr(q) /\ q.D >= (n + 1) + 2)
        /\ Post(t, q) = Plus(q, -(n + 1))
    BY <2>2, NextItemIs
  <2>4. q.D >= (n + 1) + 2
    BY <2>1, <1>4, <1>5, <1>7
  <2>5. t \in ACall /\ Normal(t) /\ Pre(t, q) /\ Post(t, q) = Plus(q, -n - 1)
    BY <2>1, <2>2, <2>3, <2>4
  <2> QED  BY <2>2, <2>5, <1>4, <1>5, OneMore
<1> HIDE DEF rest
<1>10. DeepInv'
  BY <1>1, <1>2, <1>3, <1>6, <1>8, <1>9, SmoothCalls DEF n
<1> QED  BY <1>10

LEMMA DeepElements ==
  ASSUME Smooth, Elements, Task.count < Byte PROVE DeepInv'
<1> DEFINE n == Task.count
           rest == <<Expect({"]"}), Output(<<IA("MAP", n % Byte)>>)>>
<1>1. At("elements") /\ UNCHANGED <<compilers, functions>>
      /\ \/ Continue(<<Parse(PrecAssignment), NextItem("elements", n + 1)>>)
         \/ Continue(rest)
  BY ItemCalls DEF Elements, Item
<1>2. /\ Task.do = "elements" /\ Task \in ACall /\ Tail(tasks) \in Seq(ACall)
      /\ \E p \in Point : Now(p)
  BY <1>1, SmoothAt
<1>3. PICK p \in Point : Now(p)
  BY <1>2
<1>4. Pre(Task, p) /\ n \in Nat /\ n % Byte = n
  <2>1. n \in Nat
    BY <1>2, Counts
  <2> QED  BY <1>3, <2>1, NowIs, CompilerAssumption
<1>5. InExpr(p) /\ p.D >= n + 1
  BY <1>2, <1>4, PreIs
<1>6. Post(Task, p) = Plus(p, 1 - n)
  BY <1>2, PostIs
<1> HIDE DEF n
<1>7. ~p.loose /\ p.D \in Int
  BY <1>5, InExprIs
<1>8. Leads(rest, p, Plus(p, 1 - n))
  <2> DEFINE i == IA("MAP", n)
  <2>1. i \in Instr /\ i.op = "MAP" /\ Needs(i) = n /\ Effect(i) = 1 - n
    BY <1>4, CountedIs
  <2> HIDE DEF i
  <2>2. p.D >= Needs(i) + 1 /\ {"]"} \in Expected
    BY <2>1, <1>4, <1>5, <1>7 DEF Expected
  <2>3. Leads(<<Expect({"]"}), Output(<<i>>)>>, p, Plus(p, Effect(i)))
    BY <2>1, <2>2, <1>7, ClosedList
  <2> QED  BY <2>1, <2>3, <1>4 DEF i
<1>9. Leads(<<Parse(PrecAssignment), NextItem("elements", n + 1)>>, p, Plus(p, 1 - n))
  <2> DEFINE q == Plus(p, 1)
             t == NextItem("elements", n + 1)
  <2>1. q \in Point /\ q.D = p.D + 1 /\ InExpr(q)
    BY <1>5, OneUp
  <2>2. n + 1 \in Nat /\ 1 - (n + 1) = (1 - n) - 1 /\ 1 - n \in Int
    BY <1>4
  <2>3. t \in ACall /\ Normal(t) /\ (Pre(t, q) <=> InExpr(q) /\ q.D >= (n + 1) + 1)
        /\ Post(t, q) = Plus(q, 1 - (n + 1))
    BY <2>2, NextItemIs
  <2>4. q.D >= (n + 1) + 1
    BY <2>1, <1>4, <1>5, <1>7
  <2>5. t \in ACall /\ Normal(t) /\ Pre(t, q) /\ Post(t, q) = Plus(q, (1 - n) - 1)
    BY <2>1, <2>2, <2>3, <2>4
  <2> QED  BY <2>2, <2>5, <1>4, <1>5, OneMore
<1> HIDE DEF rest
<1>10. DeepInv'
  BY <1>1, <1>2, <1>3, <1>6, <1>8, <1>9, SmoothCalls DEF n
<1> QED  BY <1>10

LEMMA DeepValues ==
  ASSUME Smooth, Values PROVE DeepInv'
<1> DEFINE n == Task.count
           rest == <<Output(<<IA("PRINT", n)>>)>>
<1>1. At("values") /\ UNCHANGED <<compilers, functions>>
      /\ \/ Continue(<<Parse(PrecAssignment), NextItem("values", n + 1)>>)
         \/ Continue(rest)
  <2>1. Item("values", FALSE, rest)
    BY NoErrors DEF Values, Smooth
  <2> QED  BY <2>1, ItemCalls DEF Item
<1>2. /\ Task.do = "values" /\ Task \in ACall /\ Tail(tasks) \in Seq(ACall)
      /\ \E p \in Point : Now(p)
  BY <1>1, SmoothAt
<1>3. PICK p \in Point : Now(p)
  BY <1>2
<1>4. Pre(Task, p) /\ n \in Nat
  BY <1>2, <1>3, Counts, NowIs
<1>5. InExpr(p) /\ ~p.uninit /\ p.D = p.L + n /\ p.D >= n + 1
  BY <1>2, <1>4, PreIs
<1>6. Post(Task, p) = Plus(p, -n)
  BY <1>2, PostIs
<1> HIDE DEF n
<1>7. ~p.loose /\ p.D \in Int /\ p.L \in Nat
  BY <1>5, InExprIs
<1>8. Leads(rest, p, Plus(p, -n))
  <2> DEFINE i == IA("PRINT", n)
  <2>1. i \in Instr /\ i.op = "PRINT" /\ Needs(i) = n /\ Effect(i) = -n
    BY <1>4, CountedIs
  <2> HIDE DEF i
  <2>2. Good(i, p)
    BY <2>1, <1>4, <1>5, <1>7 DEF Good, JumpOps, NameOps
  <2>3. LET t == Output(<<i>>) IN
        t \in ACall /\ Normal(t) /\ Pre(t, p) /\ Post(t, p) = Plus(p, -n)
    BY <2>1, <2>2, <1>7, Output1
  <2>4. -n \in Int
    BY <1>4
  <2>5. Plus(p, -n) \in Point /\ Flow(Plus(p, -n), Plus(p, -n))
    BY <2>4, PlusIs, FlowSelf
  <2> QED  BY <2>3, <2>5, Leads1 DEF i
<1>9. Leads(<<Parse(PrecAssignment), NextItem("values", n + 1)>>, p, Plus(p, -n))
  <2> DEFINE q == Plus(p, 1)
             t == NextItem("values", n + 1)
  <2>1. q \in Point /\ q.D = p.D + 1 /\ InExpr(q) /\ (q.uninit <=> p.uninit) /\ q.L = p.L
    BY <1>5, OneUp
  <2>2. n + 1 \in Nat /\ -(n + 1) = -n - 1 /\ -n \in Int
    BY <1>4
  <2>3. t \in ACall /\ Normal(t) /\ (Pre(t, q) <=> InExpr(q) /\ ~q.uninit /\ q.D = q.L + (n + 1)
                                                  /\ q.D >= (n + 1) + 1)
        /\ Post(t, q) = Plus(q, -(n + 1))
    BY <2>2, NextItemIs
  <2>4. q.D >= (n + 1) + 1 /\ q.D = q.L + (n + 1)
    BY <2>1, <1>4, <1>5, <1>7
  <2>5. t \in ACall /\ Normal(t) /\ Pre(t, q) /\ Post(t, q) = Plus(q, -n - 1)
    BY <2>1, <2>2, <2>3, <2>4, <1>5
  <2> QED  BY <2>2, <2>5, <1>4, <1>5, OneMore
<1> HIDE DEF rest
<1>10. DeepInv'
  BY <1>1, <1>2, <1>3, <1>6, <1>8, <1>9, SmoothCalls DEF n
<1> QED  BY <1>10

-----------------------------------------------------------------------------
(* Code that is emitted.                                                   *)

LEMMA FunIs ==
  ASSUME NEW f \in Fun
  PROVE  /\ f.code \in Seq(Instr) /\ f.consts \in Seq(Kept) /\ f.arity \in Nat
         /\ Len(f.code) \in Nat
BY DEF Fun

LEMMA GoodFits ==
  ASSUME NEW i \in Instr, NEW p \in Point, Good(i, p), NEW f, p.names \subseteq StrNames(f)
  PROVE  i.op \notin JumpOps /\ Fits(f, i, p.D, p.rest = <<>>)
BY DEF Good, Fits

LEMMA StandsCode ==
  ASSUME NEW c, NEW f \in Fun, NEW p \in Point, Stands([comp |-> c, fun |-> f], p),
         NEW code \in Seq(Instr), GoodCode(code, p)
  PROVE  LET g == WithCode(f, f.code \o code)
             q == Plus(p, Effects(code))
         IN  g \in Fun /\ q \in Point /\ Stands([comp |-> c, fun |-> g], q)
<1> DEFINE script == (p.rest = <<>>)
           g == WithCode(f, f.code \o code)
           q == Plus(p, Effects(code))
<1>1. /\ ~p.loose /\ LocalsOK(c, p) /\ CodeOK(f, p.D, p.pend, script)
      /\ p.names \subseteq StrNames(f)
  BY StandsIs
<1>2. f.code \o code \in Seq(Instr) /\ p.D \in Int
  BY FunIs, PointIs
<1>3. g \in Fun /\ g.code = f.code \o code /\ g.consts = f.consts /\ g.arity = f.arity
  BY <1>2, WithCodeIs
<1>4. Len(code) \in {1, 2}
  BY DEF GoodCode
<1>5. /\ Effects(code) \in Int /\ Effect(code[1]) \in Int
      /\ Len(code) = 1 => Effects(code) = Effect(code[1])
      /\ Len(code) = 2 => Effect(code[2]) \in Int /\ Effects(code) = Effect(code[1]) + Effect(code[2])
  BY <1>4, EffectsAre
<1>6. /\ q \in Point /\ q.rest = p.rest /\ q.bases = p.bases /\ ~q.loose
      /\ q.L = p.L /\ q.D = p.D + Effects(code) /\ (q.uninit <=> p.uninit)
      /\ q.pend = p.pend /\ q.names = p.names /\ ~q.empty
  <2>1. /\ q \in Point /\ q.rest = p.rest /\ q.bases = p.bases /\ (q.loose <=> p.loose)
        /\ q.L = p.L /\ q.D = p.D + Effects(code) /\ (q.uninit <=> p.uninit)
        /\ q.pend = p.pend /\ q.names = p.names /\ ~q.empty
    BY <1>5, PlusIs
  <2> HIDE DEF q
  <2> QED  BY <1>1, <2>1
<1>7. CodeOK(g, p.D + Effects(code), p.pend, script)
  <2>1. CASE Len(code) = 1
    <3> DEFINE e == [k \in 1..Len(code)+1 |-> IF k = 1 THEN p.D ELSE p.D + Effects(code)]
    <3>1. e \in [1..Len(code)+1 -> Int]
      BY <1>2, <1>5
    <3>2. e[1] = p.D /\ e[2] = p.D + Effects(code) /\ e[Len(code) + 1] = p.D + Effects(code)
      BY <2>1
    <3>3. code[1] \in Instr /\ Good(code[1], p)
      BY <2>1, SMTT(30) DEF GoodCode
    <3>4. code[1].op \notin JumpOps /\ Fits(f, code[1], p.D, script)
      BY <3>3, <1>1, GoodFits
    <3> HIDE DEF e
    <3>5. Steps(f, code, e, script)
      <4> SUFFICES ASSUME NEW k \in 1..Len(code)
                   PROVE  /\ code[k].op \notin JumpOps /\ Fits(f, code[k], e[k], script)
                          /\ e[k + 1] = e[k] + Effect(code[k])
        BY DEF Steps
      <4>1. k = 1 /\ k + 1 = 2
        BY <2>1
      <4> QED  BY <4>1, <3>2, <3>4, <2>1, <1>5
    <3>6. CodeOK(g, e[Len(code) + 1], p.pend, script)
      BY <3>1, <3>2, <3>5, <1>1, Straight
    <3> QED  BY <3>2, <3>6
  <2>2. CASE Len(code) = 2
    <3> DEFINE m == p.D + Effect(code[1])
               e == [k \in 1..Len(code)+1 |-> IF k = 1 THEN p.D ELSE IF k = 2 THEN m
                                              ELSE p.D + Effects(code)]
    <3>1. e \in [1..Len(code)+1 -> Int] /\ m \in Int
      BY <1>2, <1>5
    <3>2. e[1] = p.D /\ e[2] = m /\ e[3] = p.D + Effects(code)
          /\ e[Len(code) + 1] = p.D + Effects(code)
      BY <2>2
    <3>3. code[1] \in Instr /\ code[2] \in Instr
          /\ Good(code[1], p) /\ Good(code[2], Plus(p, Effect(code[1])))
      <4>1. code[1] \in Instr /\ code[2] \in Instr
        <5>1. \A k \in 1..Len(code) : code[k] \in Instr
          OBVIOUS
        <5>2. 1 \in 1..Len(code) /\ 2 \in 1..Len(code)
          BY <2>2
        <5> HIDE <2>2
        <5> QED  BY <5>1, <5>2
      <4>2. Len(code) # 1
        BY <2>2
      <4>3. Good(code[1], p) /\ Good(code[2], Plus(p, Effect(code[1])))
        BY <4>2, Zenon DEF GoodCode
      <4> QED  BY <4>1, <4>3
    <3>4. code[1].op \notin JumpOps /\ Fits(f, code[1], p.D, script)
      BY <3>3, <1>1, GoodFits
    <3>5. code[2].op \notin JumpOps /\ Fits(f, code[2], m, script)
      <4> DEFINE u == Plus(p, Effect(code[1]))
      <4>1. u \in Point /\ u.rest = p.rest /\ u.D = m /\ u.names = p.names
        BY <1>5, PlusIs
      <4> HIDE DEF u
      <4>2. Good(code[2], u)
        BY <3>3 DEF u
      <4>3. code[2].op \notin JumpOps /\ Fits(f, code[2], u.D, u.rest = <<>>)
        BY <3>3, <4>1, <4>2, <1>1, GoodFits
      <4> QED  BY <4>1, <4>3
    <3>6. p.D + Effects(code) = m + Effect(code[2])
      BY <2>2, <1>2, <1>5
    <3> HIDE DEF e, m
    <3>7. Steps(f, code, e, script)
      <4> SUFFICES ASSUME NEW k \in 1..Len(code)
                   PROVE  /\ code[k].op \notin JumpOps /\ Fits(f, code[k], e[k], script)
                          /\ e[k + 1] = e[k] + Effect(code[k])
        BY DEF Steps
      <4>1. k = 1 \/ k = 2
        BY <2>2
      <4>2. CASE k = 1
        BY <4>2, <3>2, <3>4 DEF m
      <4>3. CASE k = 2
        BY <4>3, <3>2, <3>5, <3>6
      <4> QED  BY <4>1, <4>2, <4>3
    <3>8. CodeOK(g, e[Len(code) + 1], p.pend, script)
      BY <3>1, <3>2, <3>7, <1>1, Straight
    <3> QED  BY <3>2, <3>8
  <2> QED  BY <1>4, <2>1, <2>2
<1>8. LocalsOK(c, q)
  BY <1>1, <1>6 DEF LocalsOK
<1>9. q.names \subseteq StrNames(g)
  BY <1>1, <1>3, <1>6 DEF StrNames
<1> HIDE DEF g, q
<1>10. Stands([comp |-> c, fun |-> g], q)
  BY <1>6, <1>7, <1>8, <1>9 DEF Stands
<1> QED  BY <1>3, <1>6, <1>10 DEF g, q

LEMMA SmoothEmit ==
  ASSUME Smooth, NEW p, Now(p), UNCHANGED compilers, NEW code \in Seq(Instr), GoodCode(code, p),
         Emit(code), NEW calls, Continue(calls),
         Leads(calls, Plus(p, Effects(code)), Post(Task, p)), Tail(tasks) \in Seq(ACall)
  PROVE  DeepInv'
<1> DEFINE g == WithCode(Chunk, Chunk.code \o code)
           q == Plus(p, Effects(code))
<1>1. p \in Point /\ Stands(Here, p)
  BY NowIs
<1>2. Chunk \in Fun
  BY CompOK DEF Smooth, ShapeInv
<1>3. g \in Fun /\ q \in Point /\ Stands([comp |-> Comp, fun |-> g], q)
  BY <1>1, <1>2, StandsCode DEF Here
<1>4. SetChunk(g)
  BY DEF Emit, WithCode
<1>5. q.rest = p.rest
  BY DEF Plus
<1> HIDE DEF g, q
<1>6. Leads(calls, q, Post(Task, p))
  BY DEF q
<1> QED  BY <1>3, <1>4, <1>5, <1>6, SmoothCode

(* Nothing more to call.                                                   *)
LEMMA SmoothEmitted ==
  ASSUME Smooth, NEW p, Now(p), UNCHANGED compilers, NEW code \in Seq(Instr), GoodCode(code, p),
         Emit(code), Continue(<<>>), Post(Task, p) = Plus(p, Effects(code)),
         Tail(tasks) \in Seq(ACall)
  PROVE  DeepInv'
<1>1. p \in Point /\ Post(Task, p) \in Point
  BY NowIs
<1>2. Leads(<<>>, Post(Task, p), Post(Task, p))
  BY <1>1, Leads0, FlowSelf
<1> QED  BY <1>1, <1>2, SmoothEmit

LEMMA DeepEmitBytes ==
  ASSUME Smooth, EmitBytes PROVE DeepInv'
<1>1. PICK p \in Point : Now(p)
  BY SmoothAt DEF EmitBytes
<1>2. Task.do = "emit" /\ Task \in ACall /\ Tail(tasks) \in Seq(ACall)
  BY SmoothAt DEF EmitBytes
<1>3. GoodCode(Task.code, p) /\ Task.code \in Seq(Instr) /\ Post(Task, p) = Plus(p, Effects(Task.code))
  BY <1>1, <1>2, NowIs, PreIs, PostIs, CallFields
<1>4. Emit(Task.code) /\ Continue(<<>>) /\ UNCHANGED compilers
  BY DEF EmitBytes
<1> QED  BY <1>1, <1>2, <1>3, <1>4, SmoothEmitted

(* One instruction.                                                        *)
LEMMA Just ==
  ASSUME NEW i \in Instr
  PROVE  /\ <<i>> \in Seq(Instr) /\ Effects(<<i>>) = Effect(i)
         /\ \A p : GoodCode(<<i>>, p) <=> Good(i, p)
<1> DEFINE c == <<i>>
<1>1. c \in Seq(Instr) /\ Len(c) = 1 /\ c[1] = i
  OBVIOUS
<1> HIDE DEF c
<1>2. Effects(c) = Effect(i) /\ \A p : GoodCode(c, p) <=> Good(i, p)
  BY <1>1 DEF Effects, GoodCode
<1> QED  BY <1>1, <1>2 DEF c

LEMMA SimpleInstr ==
  /\ I("POP") \in Instr /\ I("POP").op = "POP" /\ Needs(I("POP")) = 1 /\ Effect(I("POP")) = -1
  /\ I("NIL") \in Instr /\ I("NIL").op = "NIL" /\ Needs(I("NIL")) = 0 /\ Effect(I("NIL")) = 1
  /\ I("RET") \in Instr /\ I("RET").op = "RET" /\ Needs(I("RET")) = 1 /\ Effect(I("RET")) = -1
  /\ \A p : p.D \in Int /\ p.D >= 2 => Good(I("POP"), p)
  /\ \A p : p.D \in Int /\ p.D >= 1 => Good(I("NIL"), p)
  /\ \A p : p.D \in Int /\ p.D >= 2 /\ p.rest # <<>> => Good(I("RET"), p)
<1>1. I("POP") \in Instr /\ I("NIL") \in Instr /\ I("RET") \in Instr
  BY IsInstr DEF Ops
<1>2. I("POP").op = "POP" /\ I("NIL").op = "NIL" /\ I("RET").op = "RET"
  BY DEF I
<1>3. /\ Needs(I("POP")) = 1 /\ Effect(I("POP")) = -1
      /\ Needs(I("NIL")) = 0 /\ Effect(I("NIL")) = 1
      /\ Needs(I("RET")) = 1 /\ Effect(I("RET")) = -1
  BY <1>2 DEF Needs, Effect, BinaryOps, UnaryOps
<1>4. /\ \A p : p.D \in Int /\ p.D >= 2 => Good(I("POP"), p)
      /\ \A p : p.D \in Int /\ p.D >= 1 => Good(I("NIL"), p)
      /\ \A p : p.D \in Int /\ p.D >= 2 /\ p.rest # <<>> => Good(I("RET"), p)
  BY <1>2, <1>3 DEF Good, JumpOps, NameOps
<1> QED  BY <1>1, <1>2, <1>3, <1>4

LEMMA OnlyIs ==
  ASSUME NEW p \in Point, Only(p)
  PROVE  ~p.loose /\ ~p.uninit /\ p.D = p.L + 1 /\ p.D >= 2 /\ p.D \in Int /\ p.L \in Nat
BY PointIs DEF Only

LEMMA DeepEndExpression ==
  ASSUME Smooth, EndExpression PROVE DeepInv'
<1>1. PICK p \in Point : Now(p)
  BY SmoothAt DEF EndExpression
<1>2. Task.do = "endExpression" /\ Task \in ACall /\ Tail(tasks) \in Seq(ACall)
  BY SmoothAt DEF EndExpression
<1>3. Only(p) /\ Post(Task, p) = Plus(p, -1)
  BY <1>1, <1>2, NowIs, PreIs, PostIs
<1>4. p.D \in Int /\ p.D >= 2
  BY <1>3, OnlyIs
<1>5. GoodCode(<<I("POP")>>, p) /\ <<I("POP")>> \in Seq(Instr) /\ Effects(<<I("POP")>>) = -1
  BY <1>4, SimpleInstr, Just
<1>6. Emit(<<I("POP")>>) /\ Continue(<<>>) /\ UNCHANGED compilers
  BY DEF EndExpression
<1> QED  BY <1>1, <1>2, <1>3, <1>5, <1>6, SmoothEmitted

LEMMA DeepInitializer ==
  ASSUME Smooth, Initializer PROVE DeepInv'
<1>1. PICK p \in Point : Now(p)
  BY SmoothAt DEF Initializer
<1>2. Task.do = "initializer" /\ Task \in ACall /\ Tail(tasks) \in Seq(ACall)
  BY SmoothAt DEF Initializer
<1>3. InExpr(p) /\ Post(Task, p) = Plus(p, 1)
  BY <1>1, <1>2, NowIs, PreIs, PostIs DEF Pushing
<1>4. CASE Is({"="})
  <2>1. Continue(<<Parse(PrecAssignment)>>) /\ UNCHANGED <<compilers, functions>>
    BY <1>4 DEF Initializer
  <2>2. /\ Parse(1) \in ACall /\ Normal(Parse(1)) /\ Pre(Parse(1), p)
        /\ Post(Parse(1), p) = Plus(p, 1)
    BY <1>3, ParseIs
  <2>3. Plus(p, 1) \in Point /\ Flow(Plus(p, 1), Plus(p, 1))
    BY <1>3, OneUp, FlowSelf
  <2>4. Leads(<<Parse(PrecAssignment)>>, p, Plus(p, 1))
    BY <2>2, <2>3, Leads1 DEF PrecAssignment
  <2> QED  BY <2>1, <2>4, <1>1, <1>2, <1>3, SmoothCalls
<1>5. CASE ~Is({"="})
  <2>1. Emit(<<I("NIL")>>) /\ Continue(<<>>) /\ UNCHANGED compilers
    BY <1>5 DEF Initializer
  <2>2. p.D \in Int /\ p.D >= 1
    BY <1>3, InExprIs
  <2>3. GoodCode(<<I("NIL")>>, p) /\ <<I("NIL")>> \in Seq(Instr) /\ Effects(<<I("NIL")>>) = 1
    BY <2>2, SimpleInstr, Just
  <2> QED  BY <2>1, <2>3, <1>1, <1>2, <1>3, SmoothEmitted
<1> QED  BY <1>4, <1>5

LEMMA DeepAssign ==
  ASSUME Smooth, Assign PROVE DeepInv'
<1>1. PICK p \in Point : Now(p)
  BY SmoothAt DEF Assign
<1>2. Task.do = "assignable" /\ Task \in ACall /\ Tail(tasks) \in Seq(ACall)
  BY SmoothAt DEF Assign
<1>3. /\ InExpr(p) /\ Len(Task.set.code) = 1
      /\ Good(Task.get, p) /\ Good(Task.set.code[1], Plus(p, 1))
      /\ Effect(Task.get) = Effect(Task.set.code[1]) + 1
      /\ Post(Task, p) = Plus(p, Effect(Task.get))
  BY <1>1, <1>2, NowIs, PreIs, PostIs
<1>4. /\ Task.get \in Instr /\ Task.set.code \in Seq(Instr) /\ Task.set \in Emission
      /\ Effect(Task.get) \in Int
  BY <1>2, AssignableIs
<1>5. CASE Continue(<<Parse(PrecAssignment), Task.set>>) /\ UNCHANGED <<compilers, functions>>
  <2> DEFINE q == Plus(p, 1)
             s == Task.set
             i == s.code[1]
             m == Effect(i)
  <2>1. i \in Instr /\ s.code = <<i>>
    BY <1>3, <1>4
  <2>2. m \in Int /\ 1 \in Int /\ 1 + m = m + 1
    BY <2>1, NeedsIs
  <2>3. q \in Point /\ ~q.loose
    BY <1>3, OneUp
  <2>4. s \in ACall /\ Normal(s) /\ (Pre(s, q) <=> ~q.loose /\ GoodCode(s.code, q))
        /\ Post(s, q) = Plus(q, Effects(s.code))
    BY <1>4, EmissionIs
  <2>5. GoodCode(s.code, q) /\ Effects(s.code) = m
    <3> HIDE DEF q, m
    <3>1. Good(i, q) /\ m = Effect(i)
      BY <1>3 DEF q, m
    <3> HIDE DEF i
    <3> QED  BY <2>1, <3>1, Just
  <2>6. Flow(Plus(q, m), Plus(p, 1 + m)) /\ Plus(p, 1 + m) \in Point
    BY <2>2, PlusPlus
  <2>7. Parse(1) \in ACall /\ Normal(Parse(1)) /\ Pre(Parse(1), p) /\ Post(Parse(1), p) = q
    BY <1>3, ParseIs
  <2>8. Post(Task, p) = Plus(p, 1 + m)
    BY <1>3, <2>2
  <2> HIDE DEF q, s, m
  <2>9. Leads(<<Parse(1), s>>, p, Plus(p, 1 + m))
    BY <2>3, <2>4, <2>5, <2>6, <2>7, Leads2
  <2>10. Leads(<<Parse(PrecAssignment), Task.set>>, p, Post(Task, p))
    BY <2>8, <2>9 DEF s, PrecAssignment
  <2> QED  BY <2>10, <1>1, <1>2, <1>5, SmoothCalls
<1>6. CASE Emit(<<Task.get>>) /\ Continue(<<>>) /\ UNCHANGED compilers
  <2>1. GoodCode(<<Task.get>>, p) /\ <<Task.get>> \in Seq(Instr)
        /\ Effects(<<Task.get>>) = Effect(Task.get)
    BY <1>3, <1>4, Just
  <2> QED  BY <2>1, <1>1, <1>2, <1>3, <1>6, SmoothEmitted
<1> QED  BY <1>5, <1>6 DEF Assign
-----------------------------------------------------------------------------
(* Constants.                                                              *)

LEMMA StandsInstr ==
  ASSUME NEW c, NEW f \in Fun, NEW p \in Point, Stands([comp |-> c, fun |-> f], p),
         NEW i \in Instr, i.op \notin JumpOps, Fits(f, i, p.D, p.rest = <<>>)
  PROVE  LET g == WithCode(f, Append(f.code, i))
             q == Plus(p, Effect(i))
         IN  g \in Fun /\ q \in Point /\ Stands([comp |-> c, fun |-> g], q)
<1> DEFINE script == (p.rest = <<>>)
           g == WithCode(f, Append(f.code, i))
           q == Plus(p, Effect(i))
           n == p.D + Effect(i)
           code == <<i>>
           e == [k \in 1..2 |-> IF k = 1 THEN p.D ELSE n]
<1>1. /\ ~p.loose /\ LocalsOK(c, p) /\ CodeOK(f, p.D, p.pend, script)
      /\ p.names \subseteq StrNames(f)
  BY StandsIs
<1>2. /\ Append(f.code, i) \in Seq(Instr) /\ Append(f.code, i) = f.code \o code
      /\ p.D \in Int /\ Effect(i) \in Int /\ n \in Int
      /\ code \in Seq(Instr) /\ Len(code) = 1 /\ code[1] = i
  <2>1. f.code \in Seq(Instr) /\ p.D \in Int /\ Effect(i) \in Int
    BY FunIs, PointIs, NeedsIs
  <2>2. code \in Seq(Instr) /\ Len(code) = 1 /\ code[1] = i
    OBVIOUS
  <2>3. Append(f.code, i) \in Seq(Instr) /\ Append(f.code, i) = f.code \o code
    BY <2>1, SMTT(30)
  <2> QED  BY <2>1, <2>2, <2>3
<1>3. g \in Fun /\ g.code = f.code \o code /\ g.consts = f.consts /\ g.arity = f.arity
      /\ g = WithCode(f, f.code \o code)
  BY <1>2, WithCodeIs
<1>4. /\ q \in Point /\ q.rest = p.rest /\ q.bases = p.bases /\ ~q.loose
      /\ q.L = p.L /\ q.D = n /\ (q.uninit <=> p.uninit)
      /\ q.pend = p.pend /\ q.names = p.names /\ ~q.empty
  <2>1. /\ q \in Point /\ q.rest = p.rest /\ q.bases = p.bases /\ (q.loose <=> p.loose)
        /\ q.L = p.L /\ q.D = n /\ (q.uninit <=> p.uninit)
        /\ q.pend = p.pend /\ q.names = p.names /\ ~q.empty
    BY <1>2, PlusIs
  <2> HIDE DEF q
  <2> QED  BY <1>1, <2>1
<1>5. e \in [1..Len(code)+1 -> Int] /\ e[1] = p.D /\ e[2] = n
  BY <1>2
<1> HIDE DEF e, code
<1>6. Steps(f, code, e, script)
  <2> SUFFICES ASSUME NEW k \in 1..Len(code)
               PROVE  /\ code[k].op \notin JumpOps /\ Fits(f, code[k], e[k], script)
                      /\ e[k + 1] = e[k] + Effect(code[k])
    BY DEF Steps
  <2>1. k = 1 /\ k + 1 = 2 /\ code[k] = i
    BY <1>2
  <2> QED  BY <2>1, <1>5
<1>7. CodeOK(g, e[Len(code) + 1], p.pend, script)
  BY <1>1, <1>2, <1>3, <1>5, <1>6, Straight
<1>8. e[Len(code) + 1] = n
  BY <1>2, <1>5
<1>9. LocalsOK(c, q)
  BY <1>1, <1>4 DEF LocalsOK
<1>10. q.names \subseteq StrNames(g)
  BY <1>1, <1>3, <1>4 DEF StrNames
<1> HIDE DEF g, q, n
<1>11. Stands([comp |-> c, fun |-> g], q)
  BY <1>4, <1>7, <1>8, <1>9, <1>10 DEF Stands
<1> QED  BY <1>3, <1>4, <1>11 DEF g, q

Named(p, n) == [p EXCEPT !.names = @ \cup {n}]

LEMMA NamedIs ==
  ASSUME NEW p \in Point, NEW n \in Nat
  PROVE  LET q == Named(p, n) IN
         /\ q \in Point /\ q.rest = p.rest /\ q.bases = p.bases /\ (q.loose <=> p.loose)
         /\ q.L = p.L /\ q.D = p.D /\ (q.uninit <=> p.uninit)
         /\ q.pend = p.pend /\ q.names = p.names \cup {n} /\ (q.empty <=> p.empty)
         /\ Flow(q, p)
         /\ \A k \in Int : ~p.loose => Flow(Plus(q, k), Plus(p, k)) /\ Plus(q, k) \in Point
         /\ (InExpr(q) <=> InExpr(p)) /\ (Over(q) <=> Over(p)) /\ (InList(q) <=> InList(p))
<1> DEFINE q == Named(p, n)
<1>1. /\ q \in Point /\ q.rest = p.rest /\ q.bases = p.bases /\ (q.loose <=> p.loose)
      /\ q.L = p.L /\ q.D = p.D /\ (q.uninit <=> p.uninit)
      /\ q.pend = p.pend /\ q.names = p.names \cup {n} /\ (q.empty <=> p.empty)
  BY DEF Named, Point
<1> HIDE DEF q
<1>2. Flow(q, p)
  BY <1>1 DEF Flow, InList
<1>3. \A k \in Int : ~p.loose => Flow(Plus(q, k), Plus(p, k)) /\ Plus(q, k) \in Point
  BY <1>1, <1>2, FlowPlus, PlusIs
<1>4. (InExpr(q) <=> InExpr(p)) /\ (Over(q) <=> Over(p)) /\ (InList(q) <=> InList(p))
  BY <1>1 DEF InExpr, Over, InList
<1> QED  BY <1>1, <1>2, <1>3, <1>4 DEF q

(* A constant that there is room for.                                      *)
LEMMA StandsConstant ==
  ASSUME CompilersOK(compilers, functions), NEW p \in Point, Stands(Here, p),
         NEW v \in Kept, v.type # "fun", ~NoRoom(v)
  PROVE  LET f == WithConstant(v)
             n == Operand(v)
         IN  /\ f \in Fun /\ n \in Nat /\ n + 1 \in DOMAIN f.consts /\ f.code = Chunk.code
             /\ Stands([comp |-> Comp, fun |-> f], p)
             /\ v.type = "str" => Stands([comp |-> Comp, fun |-> f], Named(p, n))
<1> DEFINE f == WithConstant(v)
           n == Operand(v)
           q == Named(p, n)
<1>1. /\ f \in Fun /\ f.code = Chunk.code /\ f.arity = Chunk.arity
      /\ n \in Nat /\ Index(v) + 1 \in DOMAIN f.consts /\ f.consts[Index(v) + 1] = v
      /\ \A i \in DOMAIN Chunk.consts : i \in DOMAIN f.consts /\ f.consts[i] = Chunk.consts[i]
  BY WithConstantOK
<1>2. n = Index(v)
  BY DEF Operand
<1>3. Chunk \in Fun
  BY CompOK
<1>4. /\ ~p.loose /\ LocalsOK(Comp, p) /\ CodeOK(Chunk, p.D, p.pend, p.rest = <<>>)
      /\ p.names \subseteq StrNames(Chunk) /\ (p.empty => Chunk.code = <<>>)
  BY StandsIs DEF Here
<1>5. Grows(Chunk, f)
  <2>1. Len(Chunk.code) <= Len(f.code)
    <3> DEFINE l == Len(Chunk.code)
    <3>1. l \in Nat /\ Len(f.code) = l
      BY <1>1, <1>3, FunIs
    <3> HIDE DEF l
    <3>2. l <= Len(f.code)
      BY <3>1
    <3> QED  BY <3>2 DEF l
  <2> HIDE DEF f
  <2> QED  BY <2>1, <1>1, <1>3 DEF Grows
<1>6. CodeOK(f, p.D, p.pend, p.rest = <<>>)
  BY <1>1, <1>4, <1>5, MoreConstants
<1>7. p.names \subseteq StrNames(f)
  BY <1>1, <1>4 DEF StrNames
<1> HIDE DEF f, n
<1>8. Stands([comp |-> Comp, fun |-> f], p)
  BY <1>1, <1>4, <1>6, <1>7 DEF Stands
<1>9. ASSUME v.type = "str" PROVE Stands([comp |-> Comp, fun |-> f], q)
  <2>1. n \in StrNames(f)
    BY <1>1, <1>2, <1>9 DEF StrNames
  <2>2. /\ q.rest = p.rest /\ q.bases = p.bases /\ (q.loose <=> p.loose)
        /\ q.L = p.L /\ q.D = p.D /\ (q.uninit <=> p.uninit)
        /\ q.pend = p.pend /\ q.names = p.names \cup {n} /\ (q.empty <=> p.empty)
    BY <1>1, NamedIs
  <2> HIDE DEF q
  <2>3. LocalsOK(Comp, q)
    BY <1>4, <2>2 DEF LocalsOK
  <2> QED  BY <1>1, <1>4, <1>6, <1>7, <2>1, <2>2, <2>3 DEF Stands
<1> QED  BY <1>1, <1>2, <1>8, <1>9 DEF f, n, q

LEMMA SmoothOK ==
  ASSUME Smooth
  PROVE  ShapeInv /\ CompilersOK(compilers, functions) /\ InputOK
BY DEF Smooth, ShapeInv

LEMMA DeepNumberOrString ==
  ASSUME Smooth, NumberOrString PROVE DeepInv'
<1>1. PICK p \in Point : Now(p)
  BY SmoothAt DEF NumberOrString
<1>2. Task.do = "constant" /\ Task \in ACall /\ Tail(tasks) \in Seq(ACall) /\ pos > 0
  BY SmoothAt DEF NumberOrString
<1>3. InExpr(p) /\ Post(Task, p) = Plus(p, 1) /\ Stands(Here, p)
  BY <1>1, <1>2, NowIs, PreIs, PostIs DEF Pushing
<1> DEFINE v == Val(IF prev.type = "NUMBER" THEN "num" ELSE "str", prev.text)
           f == WithConstant(v)
           i == IA("CONST", Operand(v))
           g == WithCode(f, Append(f.code, i))
           q == Plus(p, Effect(i))
<1>4. v \in Kept /\ v.type # "fun"
  BY <1>2, SmoothOK, TokenTexts DEF Val, Kept
<1>5. SetChunk(g) /\ ~NoRoom(v) /\ Continue(<<>>) /\ UNCHANGED compilers
  BY NoErrors DEF NumberOrString, Smooth, WithCode
<1> HIDE DEF v
<1>6. /\ f \in Fun /\ Operand(v) \in Nat /\ Operand(v) + 1 \in DOMAIN f.consts
      /\ Stands([comp |-> Comp, fun |-> f], p)
  BY <1>3, <1>4, <1>5, SmoothOK, StandsConstant
<1>7. i \in Instr /\ i.op = "CONST" /\ i.a = Operand(v)
  BY <1>6, IsInstr DEF Ops, IA
<1>8. Needs(i) = 0 /\ Effect(i) = 1
  BY <1>7 DEF Needs, Effect, UnaryOps, BinaryOps
<1>9. p.D \in Int /\ p.D >= 1
  BY <1>3, InExprIs
<1> HIDE DEF f, i
<1>10. i.op \notin JumpOps /\ Fits(f, i, p.D, p.rest = <<>>)
  BY <1>6, <1>7, <1>8, <1>9 DEF Fits, JumpOps, NameOps
<1>11. g \in Fun /\ q \in Point /\ Stands([comp |-> Comp, fun |-> g], q)
  BY <1>6, <1>7, <1>10, StandsInstr
<1>12. q.rest = p.rest /\ Post(Task, p) = q
  BY <1>3, <1>8 DEF Plus
<1> HIDE DEF g, q
<1>13. Leads(<<>>, q, Post(Task, p))
  BY <1>11, <1>12, Leads0, FlowSelf
<1> QED  BY <1>1, <1>2, <1>5, <1>11, <1>12, <1>13, SmoothCode

LEMMA ResolvedIs ==
  ASSUME CompilersOK(compilers, functions), NEW text, ResolveLocal(text) # 0
  PROVE  ResolveLocal(text) \in 1..Len(Locals)
<1> DEFINE same == {i \in DOMAIN Locals : Locals[i].name = text}
<1>1. same # {} /\ ResolveLocal(text) = Greatest(same)
  BY DEF ResolveLocal
<1>2. Len(Locals) \in Nat /\ same \in SUBSET (0..Len(Locals)) /\ same \subseteq 1..Len(Locals)
  BY CompOK
<1>3. Greatest(same) \in same
  BY <1>1, <1>2, GreatestIsGreatest
<1> QED  BY <1>1, <1>2, <1>3

(* The instructions that read and write a variable.                        *)
LEMMA AccessIs ==
  ASSUME NEW n \in Nat
  PROVE  /\ IA("LD", n) \in Instr /\ IA("LD", n).op = "LD" /\ IA("LD", n).a = n
         /\ IA("ST", n) \in Instr /\ IA("ST", n).op = "ST" /\ IA("ST", n).a = n
         /\ IA("GLD", n) \in Instr /\ IA("GLD", n).op = "GLD" /\ IA("GLD", n).a = n
         /\ IA("GST", n) \in Instr /\ IA("GST", n).op = "GST" /\ IA("GST", n).a = n
         /\ IA("GET", n) \in Instr /\ IA("GET", n).op = "GET" /\ IA("GET", n).a = n
         /\ IA("SET", n) \in Instr /\ IA("SET", n).op = "SET" /\ IA("SET", n).a = n
         /\ \A i \in Instr : /\ i.op \in {"LD", "GLD"} => Needs(i) = 0 /\ Effect(i) = 1
                             /\ i.op \in {"ST", "GST", "GET"} => Needs(i) = 1 /\ Effect(i) = 0
                             /\ i.op = "SET" => Needs(i) = 2 /\ Effect(i) = -1
<1>1. ASSUME NEW op \in {"LD", "ST", "GLD", "GST", "GET", "SET"}
      PROVE  IA(op, n) \in Instr /\ IA(op, n).op = op /\ IA(op, n).a = n
  <2>1. op \in Ops
    BY DEF Ops
  <2> QED  BY <2>1, IsInstr DEF IA
<1>2. \A i \in Instr : /\ i.op \in {"LD", "GLD"} => Needs(i) = 0 /\ Effect(i) = 1
                       /\ i.op \in {"ST", "GST", "GET"} => Needs(i) = 1 /\ Effect(i) = 0
                       /\ i.op = "SET" => Needs(i) = 2 /\ Effect(i) = -1
  BY DEF Needs, Effect, UnaryOps, BinaryOps
<1> QED  BY <1>1, <1>2

LEMMA DeepNamedVariable ==
  ASSUME Smooth, NamedVariable PROVE DeepInv'
<1>1. PICK p \in Point : Now(p)
  BY SmoothAt DEF NamedVariable
<1>2. Task.do = "variable" /\ Task \in ACall /\ Tail(tasks) \in Seq(ACall) /\ pos > 0
  BY SmoothAt DEF NamedVariable
<1>3. InExpr(p) /\ Post(Task, p) = Plus(p, 1) /\ Stands(Here, p) /\ LocalsOK(Comp, p)
  BY <1>1, <1>2, NowIs, PreIs, PostIs DEF Pushing
<1>4. ~p.loose /\ p.D \in Int /\ p.D >= 1 /\ p.L \in Nat
      /\ p.D + (IF p.uninit THEN 1 ELSE 0) >= p.L
  BY <1>3, InExprIs
<1>5. Task.canAssign \in BOOLEAN
  BY <1>2, CallFields
<1> DEFINE slot == ResolveLocal(prev.text)
           name == Identifier(prev.text)
           n == Operand(name)
<1>6. CASE slot > 0
  <2> DEFINE a == slot - 1
             noted == TRUE
  <2>1. /\ Locals[slot].depth # -1 /\ UNCHANGED <<compilers, functions>>
        /\ Continue(<<Assignable(IA("LD", slot - 1), IA("ST", slot - 1), Task.canAssign, TRUE)>>)
    <3>1. slot # 0
      BY <1>6
    <3>2. /\ Stay(Locals[slot].depth = -1) /\ UNCHANGED <<compilers, functions>>
          /\ Continue(<<Assignable(IA("LD", slot - 1), IA("ST", slot - 1), Task.canAssign, TRUE)>>)
      BY <3>1 DEF NamedVariable
    <3> QED  BY <3>2, NoErrors DEF Smooth
  <2>2. slot \in 1..Len(Locals) /\ Len(Locals) = p.L /\ slot <= p.L
    BY <1>3, <1>4, <1>6, SmoothOK, ResolvedIs DEF LocalsOK, Locals
  <2>3. ~(p.uninit /\ slot = p.L)
    BY <1>3, <2>1, <2>2 DEF LocalsOK, Locals
  <2> HIDE DEF slot
  <2>4. a \in Nat /\ a < p.D
    BY <1>4, <2>2, <2>3
  <2> HIDE DEF a
  <2> DEFINE get == IA("LD", a)
             set == IA("ST", a)
  <2>5. /\ get \in Instr /\ get.op = "LD" /\ get.a = a /\ set \in Instr /\ set.op = "ST" /\ set.a = a
        /\ Needs(get) = 0 /\ Effect(get) = 1 /\ Needs(set) = 1 /\ Effect(set) = 0
    BY <2>4, AccessIs
  <2> HIDE DEF get, set
  <2>6. Good(get, p)
    BY <2>4, <2>5, <1>4 DEF Good, JumpOps, NameOps
  <2>7. Good(set, Plus(p, 1))
    <3> DEFINE u == Plus(p, 1)
    <3>1. u.D = p.D + 1
      BY <1>3, OneUp
    <3> HIDE DEF u
    <3>2. Good(set, u)
      BY <3>1, <2>4, <2>5, <1>4 DEF Good, JumpOps, NameOps
    <3> QED  BY <3>2 DEF u
  <2>8. InExpr(Plus(p, Effect(get) - 1))
    <3>1. Effect(get) - 1 = 0 /\ 0 \in Int
      BY <2>5
    <3>2. InExpr(Plus(p, 0))
      BY <1>3, <1>4, <3>1, Higher
    <3> QED  BY <3>1, <3>2
  <2>9. noted \in BOOLEAN
    OBVIOUS
  <2> HIDE DEF noted
  <2>10. LET t == Assignable(get, set, Task.canAssign, noted) IN
         t \in ACall /\ Normal(t) /\ Pre(t, p) /\ Post(t, p) = Plus(p, Effect(get))
    BY <1>3, <1>5, <2>5, <2>6, <2>7, <2>8, <2>9, GetSetIs
  <2>11. Plus(p, 1) \in Point /\ Flow(Plus(p, 1), Plus(p, 1))
    BY <1>3, OneUp, FlowSelf
  <2>12. Leads(<<Assignable(get, set, Task.canAssign, noted)>>, p, Plus(p, 1))
    BY <2>5, <2>10, <2>11, Leads1
  <2> QED  BY <2>1, <2>12, <1>1, <1>2, <1>3, SmoothCalls DEF a, get, set, noted
<1>7. CASE slot = 0
  <2> DEFINE f == WithConstant(name)
             q == Named(p, n)
             noted == TRUE
             get == IA("GLD", n)
             set == IA("GST", n)
  <2>1. /\ ~NoRoom(name) /\ SetChunk(f) /\ UNCHANGED compilers
        /\ Continue(<<Assignable(IA("GLD", n), IA("GST", n), Task.canAssign, TRUE)>>)
    BY <1>7, NoErrors DEF NamedVariable, Smooth
  <2>2. name \in Kept /\ name.type = "str"
    BY <1>2, SmoothOK, TokenTexts, IdentifierOK
  <2> HIDE DEF name
  <2>3. f \in Fun /\ n \in Nat /\ Stands([comp |-> Comp, fun |-> f], q)
    BY <1>3, <2>1, <2>2, SmoothOK, StandsConstant
  <2> HIDE DEF f, n
  <2>4. /\ q \in Point /\ q.rest = p.rest /\ (q.loose <=> p.loose)
        /\ q.L = p.L /\ q.D = p.D /\ (q.uninit <=> p.uninit)
        /\ q.names = p.names \cup {n} /\ (InExpr(q) <=> InExpr(p))
    BY <2>3, NamedIs
  <2>5. Flow(Plus(q, 1), Plus(p, 1)) /\ Plus(q, 1) \in Point /\ Plus(p, 1) \in Point
    <3>1. 1 \in Int
      OBVIOUS
    <3>2. Flow(Plus(q, 1), Plus(p, 1)) /\ Plus(q, 1) \in Point
      BY <1>4, <2>3, <3>1, NamedIs
    <3> QED  BY <1>3, <3>2, OneUp
  <2> HIDE DEF q
  <2>6. InExpr(q)
    BY <1>3, <2>4
  <2>7. /\ get \in Instr /\ get.op = "GLD" /\ get.a = n /\ set \in Instr /\ set.op = "GST" /\ set.a = n
        /\ Needs(get) = 0 /\ Effect(get) = 1 /\ Needs(set) = 1 /\ Effect(set) = 0
    BY <2>3, AccessIs
  <2> HIDE DEF get, set
  <2>8. Good(get, q)
    BY <2>4, <2>7, <1>4 DEF Good, JumpOps, NameOps
  <2>9. Good(set, Plus(q, 1))
    <3> DEFINE u == Plus(q, 1)
    <3>1. u.D = q.D + 1 /\ u.names = q.names
      BY <2>4, <2>6, OneUp
    <3> HIDE DEF u
    <3>2. Good(set, u)
      BY <3>1, <2>4, <2>7, <1>4 DEF Good, JumpOps, NameOps
    <3> QED  BY <3>2 DEF u
  <2>10. InExpr(Plus(q, Effect(get) - 1))
    <3>1. Effect(get) - 1 = 0 /\ 0 \in Int
      BY <2>7
    <3>2. InExpr(Plus(q, 0))
      BY <1>4, <2>4, <2>6, <3>1, Higher, SMTT(30)
    <3> QED  BY <3>1, <3>2
  <2>11. noted \in BOOLEAN
    OBVIOUS
  <2> HIDE DEF noted
  <2>12. LET t == Assignable(get, set, Task.canAssign, noted) IN
         t \in ACall /\ Normal(t) /\ Pre(t, q) /\ Post(t, q) = Plus(q, Effect(get))
    BY <1>5, <2>4, <2>6, <2>7, <2>8, <2>9, <2>10, <2>11, GetSetIs
  <2>13. Leads(<<Assignable(get, set, Task.canAssign, noted)>>, q, Plus(p, 1))
    BY <2>4, <2>5, <2>7, <2>12, Leads1
  <2> QED  BY <2>1, <2>3, <2>4, <2>13, <1>1, <1>2, <1>3, SmoothCode DEF get, set, noted
<1> QED  BY <1>6, <1>7 DEF NamedVariable

LEMMA DeepDot ==
  ASSUME Smooth, Dot PROVE DeepInv'
<1>1. PICK p \in Point : Now(p)
  BY SmoothAt DEF Dot
<1>2. Task.do = "dot" /\ Task \in ACall /\ Tail(tasks) \in Seq(ACall) /\ pos > 0
  BY SmoothAt DEF Dot
<1>3. Over(p) /\ Post(Task, p) = Plus(p, 0) /\ Stands(Here, p)
  BY <1>1, <1>2, NowIs, PreIs, PostIs DEF Binary
<1>4. ~p.loose /\ p.D \in Int /\ p.D >= 2 /\ p.L \in Nat /\ InExpr(p)
  BY <1>3, OverIs
<1>5. Task.canAssign \in BOOLEAN
  BY <1>2, CallFields
<1> DEFINE name == Identifier(IF Is({"IDENTIFIER"}) THEN Current.text ELSE prev.text)
           n == Operand(name)
           f == WithConstant(name)
           q == Named(p, n)
           noted == FALSE
           get == IA("GET", n)
           set == IA("SET", n)
<1>6. /\ ~NoRoom(name) /\ SetChunk(f) /\ UNCHANGED compilers
      /\ Continue(<<Assignable(IA("GET", n), IA("SET", n), Task.canAssign, FALSE)>>)
  BY NoErrors DEF Dot, Smooth
<1>7. name \in Kept /\ name.type = "str"
  BY <1>2, SmoothOK, TokenTexts, IdentifierOK
<1> HIDE DEF name
<1>8. f \in Fun /\ n \in Nat /\ Stands([comp |-> Comp, fun |-> f], q)
  BY <1>3, <1>6, <1>7, SmoothOK, StandsConstant
<1> HIDE DEF f, n
<1>9. /\ q \in Point /\ q.rest = p.rest /\ (q.loose <=> p.loose)
      /\ q.L = p.L /\ q.D = p.D /\ (q.uninit <=> p.uninit)
      /\ q.names = p.names \cup {n} /\ (InExpr(q) <=> InExpr(p)) /\ (Over(q) <=> Over(p))
  BY <1>8, NamedIs
<1>10. Flow(Plus(q, 0), Plus(p, 0)) /\ Plus(q, 0) \in Point /\ Plus(p, 0) \in Point
  <2>1. 0 \in Int
    OBVIOUS
  <2>2. Flow(Plus(q, 0), Plus(p, 0)) /\ Plus(q, 0) \in Point
    BY <1>4, <1>8, <2>1, NamedIs
  <2> QED  BY <2>2, FlowZero
<1> HIDE DEF q
<1>11. InExpr(q) /\ Over(q)
  BY <1>3, <1>4, <1>9
<1>12. /\ get \in Instr /\ get.op = "GET" /\ get.a = n /\ set \in Instr /\ set.op = "SET" /\ set.a = n
       /\ Needs(get) = 1 /\ Effect(get) = 0 /\ Needs(set) = 2 /\ Effect(set) = -1
  BY <1>8, AccessIs
<1> HIDE DEF get, set
<1>13. Good(get, q)
  BY <1>4, <1>9, <1>12 DEF Good, JumpOps, NameOps
<1>14. Good(set, Plus(q, 1))
  <2> DEFINE u == Plus(q, 1)
  <2>1. u.D = q.D + 1 /\ u.names = q.names
    BY <1>9, <1>11, OneUp
  <2> HIDE DEF u
  <2>2. Good(set, u)
    BY <2>1, <1>4, <1>9, <1>12 DEF Good, JumpOps, NameOps
  <2> QED  BY <2>2 DEF u
<1>15. InExpr(Plus(q, Effect(get) - 1))
  <2>1. Effect(get) - 1 = -1 /\ -1 \in Int
    BY <1>12
  <2>2. InExpr(Plus(q, -1))
    BY <1>4, <1>9, <1>11, <2>1, Higher
  <2> QED  BY <2>1, <2>2
<1>16. noted \in BOOLEAN
  OBVIOUS
<1> HIDE DEF noted
<1>17. LET t == Assignable(get, set, Task.canAssign, noted) IN
       t \in ACall /\ Normal(t) /\ Pre(t, q) /\ Post(t, q) = Plus(q, Effect(get))
  <2>1. Effect(get) = Effect(set) + 1
    BY <1>12
  <2> QED  BY <2>1, <1>5, <1>9, <1>11, <1>12, <1>13, <1>14, <1>15, <1>16, GetSetIs
<1>18. Leads(<<Assignable(get, set, Task.canAssign, noted)>>, q, Plus(p, 0))
  BY <1>9, <1>10, <1>12, <1>17, Leads1
<1> QED  BY <1>1, <1>2, <1>3, <1>6, <1>8, <1>9, <1>18, SmoothCode DEF get, set, noted
-----------------------------------------------------------------------------
(* Jumps.                                                                  *)

Waits(p, x) == [p EXCEPT !.pend = @ \cup {x}, !.empty = FALSE]

LEMMA WaitsIs ==
  ASSUME NEW p \in Point, NEW x \in Nat \X Int
  PROVE  LET q == Waits(p, x) IN
         /\ q \in Point /\ q.rest = p.rest /\ q.bases = p.bases /\ (q.loose <=> p.loose)
         /\ q.L = p.L /\ q.D = p.D /\ (q.uninit <=> p.uninit)
         /\ q.pend = p.pend \cup {x} /\ q.names = p.names /\ ~q.empty
BY DEF Waits, Point

(* No jump that waits is beyond the code.                                  *)
LEMMA Fresh ==
  ASSUME NEW c, NEW f \in Fun, NEW p \in Point, Stands([comp |-> c, fun |-> f], p), NEW d
  PROVE  /\ <<Len(f.code) + 1, d>> \notin p.pend /\ <<Len(f.code) + 2, d>> \notin p.pend
         /\ Len(f.code) + 1 \in Nat /\ Len(f.code) + 2 \in Nat
<1>1. PICK w : Walk(f, w, p.pend, p.rest = <<>>)
  BY StandsIs DEF CodeOK
<1> DEFINE n == Len(f.code)
<1>2. n \in Nat
  BY FunIs
<1>3. \A x \in p.pend : x[1] \in 1..n
  BY <1>1, WalkPend
<1> HIDE DEF n
<1>4. n + 1 \notin 1..n /\ n + 2 \notin 1..n /\ n + 1 \in Nat /\ n + 2 \in Nat
  BY <1>2
<1>5. \A k1 : <<k1, d>>[1] = k1
  OBVIOUS
<1> QED  BY <1>3, <1>4, <1>5 DEF n

LEMMA StandsAhead ==
  ASSUME NEW c, NEW f \in Fun, NEW p \in Point, Stands([comp |-> c, fun |-> f], p), p.D >= 2
  PROVE  LET x == <<Len(f.code) + 1, p.D>>
             g == WithCode(f, Append(f.code, I("JMPF")))
             q == Waits(p, x)
         IN  /\ x \in Nat \X Int /\ g \in Fun /\ q \in Point
             /\ Stands([comp |-> c, fun |-> g], q)
<1> DEFINE x == <<Len(f.code) + 1, p.D>>
           g == WithCode(f, Append(f.code, I("JMPF")))
           q == Waits(p, x)
<1>1. /\ ~p.loose /\ LocalsOK(c, p) /\ CodeOK(f, p.D, p.pend, p.rest = <<>>)
      /\ p.names \subseteq StrNames(f)
  BY StandsIs
<1>2. f.code \in Seq(Instr) /\ p.D \in Int /\ I("JMPF") \in Instr
  BY FunIs, PointIs, IsInstr DEF Ops
<1>3. g \in Fun /\ g.consts = f.consts
  <2>1. Append(f.code, I("JMPF")) \in Seq(Instr)
    BY <1>2
  <2> QED  BY <2>1, WithCodeIs
<1>4. CodeOK(g, p.D, p.pend \cup {x}, p.rest = <<>>)
  BY <1>1, <1>2, JumpAhead
<1>5. x \in Nat \X Int
  BY <1>2, Fresh
<1> HIDE DEF x
<1>6. /\ q \in Point /\ q.rest = p.rest /\ q.bases = p.bases /\ (q.loose <=> p.loose)
      /\ q.L = p.L /\ q.D = p.D /\ (q.uninit <=> p.uninit)
      /\ q.pend = p.pend \cup {x} /\ q.names = p.names /\ ~q.empty
  BY <1>5, WaitsIs
<1> HIDE DEF g, q
<1>7. LocalsOK(c, q) /\ q.names \subseteq StrNames(g)
  BY <1>1, <1>3, <1>6 DEF LocalsOK, StrNames
<1>8. Stands([comp |-> c, fun |-> g], q)
  BY <1>1, <1>4, <1>6, <1>7 DEF Stands
<1> QED  BY <1>3, <1>5, <1>6, <1>8 DEF x, g, q

LEMMA StandsHere ==
  ASSUME NEW c, NEW f \in Fun, NEW p \in Point, Stands([comp |-> c, fun |-> f], p),
         NEW at, <<at, p.D>> \in p.pend
  PROVE  LET g == WithCode(f, Patched(f.code, at))
             q == Less(p, <<at, p.D>>)
         IN  g \in Fun /\ q \in Point /\ Stands([comp |-> c, fun |-> g], q)
<1> DEFINE x == <<at, p.D>>
           g == WithCode(f, Patched(f.code, at))
           q == Less(p, x)
<1>1. /\ ~p.loose /\ LocalsOK(c, p) /\ CodeOK(f, p.D, p.pend, p.rest = <<>>)
      /\ p.names \subseteq StrNames(f)
  BY StandsIs
<1>2. /\ at \in 1..Len(f.code) /\ CodeOK(g, p.D, p.pend \ {x}, p.rest = <<>>)
  BY <1>1, JumpHere
<1>3. g \in Fun /\ g.consts = f.consts
  <2>1. Patched(f.code, at) \in Seq(Instr)
    BY <1>2, FunIs, PatchedOK
  <2> QED  BY <2>1, WithCodeIs
<1> HIDE DEF x
<1>4. /\ q \in Point /\ q.rest = p.rest /\ q.bases = p.bases /\ (q.loose <=> p.loose)
      /\ q.L = p.L /\ q.D = p.D /\ (q.uninit <=> p.uninit)
      /\ q.pend = p.pend \ {x} /\ q.names = p.names /\ ~q.empty
  BY LessIs
<1> HIDE DEF g, q
<1>5. LocalsOK(c, q) /\ q.names \subseteq StrNames(g)
  BY <1>1, <1>3, <1>4 DEF LocalsOK, StrNames
<1>6. Stands([comp |-> c, fun |-> g], q)
  BY <1>1, <1>2, <1>4, <1>5 DEF Stands
<1> QED  BY <1>3, <1>4, <1>6 DEF x, g, q

(* From the depth E at which another jump comes here.                      *)
Turn(p, y, x) == [p EXCEPT !.pend = (@ \ {y}) \cup {x}, !.D = y[2], !.empty = FALSE]

LEMMA TurnIs ==
  ASSUME NEW p \in Point, NEW x \in Nat \X Int, NEW y \in p.pend
  PROVE  LET q == Turn(p, y, x) IN
         /\ q \in Point /\ q.rest = p.rest /\ q.bases = p.bases /\ (q.loose <=> p.loose)
         /\ q.L = p.L /\ q.D = y[2] /\ (q.uninit <=> p.uninit)
         /\ q.pend = (p.pend \ {y}) \cup {x} /\ q.names = p.names /\ ~q.empty
<1>1. y[2] \in Int
  BY PointIs
<1> QED  BY <1>1 DEF Turn, Point

LEMMA StandsOver ==
  ASSUME NEW c, NEW f \in Fun, NEW p \in Point, Stands([comp |-> c, fun |-> f], p), p.D >= 1,
         NEW at, NEW E \in Int, <<at, E>> \in p.pend
  PROVE  LET x == <<Len(f.code) + 1, p.D>>
             g == WithCode(f, Patched(Append(f.code, I("JMP")), at))
             q == Turn(p, <<at, E>>, x)
         IN  /\ x \in Nat \X Int /\ at \in 1..Len(f.code) /\ g \in Fun /\ q \in Point
             /\ Stands([comp |-> c, fun |-> g], q)
<1> DEFINE x == <<Len(f.code) + 1, p.D>>
           y == <<at, E>>
           g == WithCode(f, Patched(Append(f.code, I("JMP")), at))
           q == Turn(p, y, x)
<1>1. /\ ~p.loose /\ LocalsOK(c, p) /\ CodeOK(f, p.D, p.pend, p.rest = <<>>)
      /\ p.names \subseteq StrNames(f)
  BY StandsIs
<1>2. f.code \in Seq(Instr) /\ p.D \in Int /\ I("JMP") \in Instr
  BY FunIs, PointIs, IsInstr DEF Ops
<1>3. /\ at \in 1..Len(f.code)
      /\ CodeOK(g, E, (p.pend \ {y}) \cup {x}, p.rest = <<>>)
  BY <1>1, <1>2, JumpOver
<1>4. g \in Fun /\ g.consts = f.consts
  <2>1. Append(f.code, I("JMP")) \in Seq(Instr)
    BY <1>2
  <2>2. at \in 1..Len(Append(f.code, I("JMP")))
    BY <1>2, <1>3
  <2>3. Patched(Append(f.code, I("JMP")), at) \in Seq(Instr)
    BY <2>1, <2>2, PatchedOK
  <2> QED  BY <2>3, WithCodeIs
<1>5. x \in Nat \X Int
  BY <1>2, Fresh
<1>6. y[2] = E
  OBVIOUS
<1> HIDE DEF x, y
<1>7. /\ q \in Point /\ q.rest = p.rest /\ q.bases = p.bases /\ (q.loose <=> p.loose)
      /\ q.L = p.L /\ q.D = E /\ (q.uninit <=> p.uninit)
      /\ q.pend = (p.pend \ {y}) \cup {x} /\ q.names = p.names /\ ~q.empty
  <2>1. y \in p.pend
    BY DEF y
  <2> QED  BY <1>5, <1>6, <2>1, TurnIs
<1> HIDE DEF g, q
<1>8. LocalsOK(c, q) /\ q.names \subseteq StrNames(g)
  BY <1>1, <1>4, <1>7 DEF LocalsOK, StrNames
<1>9. Stands([comp |-> c, fun |-> g], q)
  BY <1>1, <1>3, <1>7, <1>8 DEF Stands
<1> QED  BY <1>3, <1>4, <1>5, <1>7, <1>9 DEF x, y, g, q

LEMMA StandsPop ==
  ASSUME NEW c, NEW f \in Fun, NEW p \in Point, Stands([comp |-> c, fun |-> f], p), p.D >= 2
  PROVE  LET g == WithCode(f, Append(f.code, I("POP")))
             q == Plus(p, -1)
         IN  g \in Fun /\ q \in Point /\ Stands([comp |-> c, fun |-> g], q)
<1>1. p.D \in Int
  BY PointIs
<1>2. I("POP") \in Instr /\ I("POP").op = "POP" /\ Needs(I("POP")) = 1 /\ Effect(I("POP")) = -1
  BY SimpleInstr
<1>3. I("POP").op \notin JumpOps /\ Fits(f, I("POP"), p.D, p.rest = <<>>)
  BY <1>1, <1>2 DEF Fits, JumpOps, NameOps
<1> QED  BY <1>2, <1>3, StandsInstr

(* An operand that a jump skips.                                           *)
LEMMA Skipped ==
  ASSUME NEW p \in Point, ~p.loose, NEW n \in Nat, NEW k \in Nat, k >= 1, NEW u \in Point, InExpr(u),
         u.D + 1 = p.D, u.L = p.L, u.uninit <=> p.uninit, u.rest = p.rest, u.bases = p.bases,
         u.names = p.names, u.pend = p.pend \cup {<<n, p.D>>}, <<n, p.D>> \notin p.pend
  PROVE  Leads(<<Parse(k), PatchJump(n)>>, u, Plus(p, 0))
<1> DEFINE v == Plus(u, 1)
           x == <<n, v.D>>
           w == Less(v, x)
           q == Plus(p, 0)
           t == PatchJump(n)
<1>1. /\ v \in Point /\ ~v.loose /\ v.D = u.D + 1 /\ v.L = u.L /\ (v.uninit <=> u.uninit)
      /\ v.names = u.names /\ v.pend = u.pend /\ v.bases = u.bases /\ v.rest = u.rest
  BY OneUp
<1>2. Parse(k) \in ACall /\ Normal(Parse(k)) /\ Pre(Parse(k), u) /\ Post(Parse(k), u) = v
  BY ParseIs
<1>3. /\ q \in Point /\ q.rest = p.rest /\ q.bases = p.bases /\ (q.loose <=> p.loose)
      /\ q.L = p.L /\ q.D = p.D + 0 /\ (q.uninit <=> p.uninit)
      /\ q.pend = p.pend /\ q.names = p.names /\ ~q.empty
  BY PlusIs, SMTT(30)
<1> HIDE DEF v, q
<1>4. x = <<n, p.D>> /\ q.D = p.D
  <2>1. p.D \in Int
    BY PointIs
  <2> QED  BY <2>1, <1>1, <1>3
<1>5. t \in ACall /\ Normal(t) /\ Pre(t, v) /\ Post(t, v) = w
  BY <1>1, <1>4, PatchJumpIs
<1>6. /\ w \in Point /\ w.rest = v.rest /\ w.bases = v.bases /\ (w.loose <=> v.loose)
      /\ w.L = v.L /\ w.D = v.D /\ (w.uninit <=> v.uninit)
      /\ w.pend = v.pend \ {x} /\ w.names = v.names /\ ~w.empty
  BY <1>1, LessIs
<1> HIDE DEF x, w, t
<1>7. w.pend = p.pend
  BY <1>1, <1>4, <1>6
<1>8. Flow(w, q)
  BY <1>1, <1>3, <1>4, <1>6, <1>7 DEF Flow
<1>9. Leads(<<Parse(k), t>>, u, q)
  BY <1>1, <1>2, <1>3, <1>5, <1>8, Leads2
<1> QED  BY <1>9 DEF q, t

(* A condition: where the code after JMPF and POP stands.                  *)
LEMMA Conditional ==
  ASSUME NEW c, NEW f \in Fun, NEW p \in Point, Stands([comp |-> c, fun |-> f], p), p.D >= 2
  PROVE  LET x == <<Len(f.code) + 1, p.D>>
             g == WithCode(f, f.code \o <<I("JMPF"), I("POP")>>)
             u == Plus(Waits(p, x), -1)
         IN  /\ g \in Fun /\ u \in Point /\ Stands([comp |-> c, fun |-> g], u)
             /\ ~u.loose /\ u.D + 1 = p.D /\ u.L = p.L /\ (u.uninit <=> p.uninit)
             /\ u.rest = p.rest /\ u.bases = p.bases /\ u.names = p.names
             /\ u.pend = p.pend \cup {x} /\ x \notin p.pend /\ Len(f.code) + 1 \in Nat
<1> DEFINE x == <<Len(f.code) + 1, p.D>>
           h == WithCode(f, Append(f.code, I("JMPF")))
           g == WithCode(h, Append(h.code, I("POP")))
           w == Waits(p, x)
           u == Plus(w, -1)
<1>1. p.D \in Int /\ ~p.loose /\ f.code \in Seq(Instr) /\ I("JMPF") \in Instr /\ I("POP") \in Instr
  BY PointIs, StandsIs, FunIs, IsInstr DEF Ops
<1>2. x \notin p.pend /\ Len(f.code) + 1 \in Nat
  BY Fresh
<1>3. x \in Nat \X Int /\ h \in Fun /\ w \in Point /\ Stands([comp |-> c, fun |-> h], w)
  BY StandsAhead
<1>4. Append(f.code, I("JMPF")) \in Seq(Instr)
  BY <1>1
<1>5. h.code = Append(f.code, I("JMPF"))
  BY <1>4, WithCodeIs
<1> HIDE DEF x
<1>6. /\ w.rest = p.rest /\ w.bases = p.bases /\ (w.loose <=> p.loose)
      /\ w.L = p.L /\ w.D = p.D /\ (w.uninit <=> p.uninit)
      /\ w.pend = p.pend \cup {x} /\ w.names = p.names
  BY <1>3, WaitsIs
<1>7. g = WithCode(f, f.code \o <<I("JMPF"), I("POP")>>)
  <2>1. Append(Append(f.code, I("JMPF")), I("POP")) = f.code \o <<I("JMPF"), I("POP")>>
    BY <1>1
  <2> QED  BY <2>1, <1>5 DEF WithCode
<1> HIDE DEF h, w
<1>8. g \in Fun /\ u \in Point /\ Stands([comp |-> c, fun |-> g], u)
  BY <1>3, <1>6, StandsPop
<1>9. /\ ~u.loose /\ u.D + 1 = p.D /\ u.L = p.L /\ (u.uninit <=> p.uninit)
      /\ u.rest = p.rest /\ u.bases = p.bases /\ u.names = p.names
      /\ u.pend = p.pend \cup {x}
  <2>1. -1 \in Int
    OBVIOUS
  <2>2. /\ u.rest = w.rest /\ u.bases = w.bases /\ (u.loose <=> w.loose)
        /\ u.L = w.L /\ u.D = w.D + -1 /\ (u.uninit <=> w.uninit)
        /\ u.pend = w.pend /\ u.names = w.names
    BY <1>3, <2>1, PlusIs
  <2> HIDE DEF u
  <2> QED  BY <2>2, <1>1, <1>6
<1> HIDE DEF g, u
<1>10. /\ g \in Fun /\ u \in Point /\ Stands([comp |-> c, fun |-> g], u)
       /\ ~u.loose /\ u.D + 1 = p.D /\ u.L = p.L /\ (u.uninit <=> p.uninit)
       /\ u.rest = p.rest /\ u.bases = p.bases /\ u.names = p.names
       /\ u.pend = p.pend \cup {x} /\ x \notin p.pend /\ Len(f.code) + 1 \in Nat
  BY <1>2, <1>8, <1>9
<1> QED  BY <1>7, <1>10 DEF u, w, x

LEMMA DeepAnd ==
  ASSUME Smooth, And PROVE DeepInv'
<1>1. PICK p \in Point : Now(p)
  BY SmoothAt DEF And
<1>2. Task.do = "and" /\ Task \in ACall /\ Tail(tasks) \in Seq(ACall)
  BY SmoothAt DEF And
<1>3. Over(p) /\ Post(Task, p) = Plus(p, 0) /\ Stands(Here, p)
  BY <1>1, <1>2, NowIs, PreIs, PostIs DEF Binary
<1>4. ~p.loose /\ p.D \in Int /\ p.D >= 2 /\ p.L \in Nat
      /\ p.D - 1 + (IF p.uninit THEN 1 ELSE 0) >= p.L
  BY <1>3, OverIs
<1> DEFINE n == Len(Chunk.code) + 1
           g == WithCode(Chunk, Chunk.code \o <<I("JMPF"), I("POP")>>)
           u == Plus(Waits(p, <<n, p.D>>), -1)
<1>5. Chunk \in Fun
  BY SmoothOK, CompOK
<1>6. /\ g \in Fun /\ u \in Point /\ Stands([comp |-> Comp, fun |-> g], u)
      /\ ~u.loose /\ u.D + 1 = p.D /\ u.L = p.L /\ (u.uninit <=> p.uninit)
      /\ u.rest = p.rest /\ u.bases = p.bases /\ u.names = p.names
      /\ u.pend = p.pend \cup {<<n, p.D>>} /\ <<n, p.D>> \notin p.pend /\ n \in Nat
  BY <1>3, <1>4, <1>5, Conditional DEF Here
<1>7. SetChunk(g) /\ Continue(<<Parse(PrecAnd), PatchJump(n)>>) /\ UNCHANGED compilers
  BY DEF And, Emit, WithCode
<1> HIDE DEF g, u, n
<1>8. InExpr(u)
  <2>1. u.D \in Int
    BY <1>6, PointIs
  <2> QED  BY <2>1, <1>4, <1>6 DEF InExpr
<1>9. Leads(<<Parse(3), PatchJump(n)>>, u, Plus(p, 0))
  BY <1>4, <1>6, <1>8, Skipped
<1> QED  BY <1>1, <1>2, <1>3, <1>6, <1>7, <1>9, SmoothCode DEF PrecAnd
LEMMA OrCode ==
  ASSUME NEW code \in Seq(Instr)
  PROVE  LET n == Len(code) + 1
             ahead == Append(code, I("JMPF"))
             over == Patched(Append(ahead, I("JMP")), n)
         IN  /\ ahead \in Seq(Instr) /\ over \in Seq(Instr)
             /\ Append(over, I("POP")) = code \o <<IA("JMPF", 1), I("JMP"), I("POP")>>
             /\ Len(ahead) = Len(code) + 1 /\ Len(over) = Len(code) + 2
<1> DEFINE l == Len(code)
           n == l + 1
           ahead == Append(code, I("JMPF"))
           both == Append(ahead, I("JMP"))
           over == Patched(both, n)
           new == <<IA("JMPF", 1), I("JMP"), I("POP")>>
<1>1. I("JMPF") \in Instr /\ I("JMP") \in Instr /\ I("POP") \in Instr /\ IA("JMPF", 1) \in Instr
  BY IsInstr DEF Ops
<1>2. l \in Nat /\ DOMAIN code = 1..l
  OBVIOUS
<1>3. ahead \in Seq(Instr) /\ both \in Seq(Instr) /\ new \in Seq(Instr) /\ Len(new) = 3
  BY <1>1
<1>4. /\ Len(ahead) = l + 1 /\ Len(both) = l + 2 /\ both[l + 1] = I("JMPF") /\ both[l + 2] = I("JMP")
      /\ \A k \in 1..l : both[k] = code[k]
  BY <1>1, <1>2
<1> HIDE DEF both
<1>5. n \in 1..Len(both)
  BY <1>2, <1>4
<1>6. /\ over \in Seq(Instr) /\ Len(over) = l + 2
      /\ over[n] = [both[n] EXCEPT !.a = Len(both) - n]
      /\ \A q \in 1..Len(both) : q # n => over[q] = both[q]
  BY <1>3, <1>4, <1>5, PatchedOK
<1>7. over[l + 1] = IA("JMPF", 1) /\ over[l + 2] = I("JMP") /\ \A k \in 1..l : over[k] = code[k]
  <2>1. Len(both) - n = 1
    BY <1>2, <1>4
  <2>2. over[n] = IA("JMPF", 1)
    BY <2>1, <1>4, <1>6 DEF I, IA
  <2>3. l + 2 \in 1..Len(both) /\ l + 2 # n /\ \A k \in 1..l : k \in 1..Len(both) /\ k # n
    BY <1>2, <1>4
  <2>4. over[l + 2] = I("JMP")
    BY <2>3, <1>4, <1>6
  <2>5. \A k \in 1..l : over[k] = code[k]
    BY <2>3, <1>4, <1>6
  <2> QED  BY <2>2, <2>4, <2>5
<1> HIDE DEF over
<1> DEFINE left == Append(over, I("POP"))
           right == code \o new
<1>8. left \in Seq(Instr) /\ right \in Seq(Instr)
  BY <1>1, <1>3, <1>6
<1>9. Len(left) = l + 3 /\ Len(right) = l + 3
  BY <1>2, <1>3, <1>6
<1>10. ASSUME NEW k \in 1..l+3 PROVE left[k] = right[k]
  <2>1. CASE k \in 1..l
    <3>1. right[k] = code[k] /\ left[k] = over[k]
      BY <2>1, <1>2, <1>3, <1>6
    <3> QED  BY <3>1, <2>1, <1>7
  <2>2. CASE k = l + 1
    <3>1. right[k] = new[1] /\ left[k] = over[k]
      BY <2>2, <1>2, <1>3, <1>6
    <3> QED  BY <3>1, <2>2, <1>7
  <2>3. CASE k = l + 2
    <3>1. right[k] = new[2] /\ left[k] = over[k]
      BY <2>3, <1>2, <1>3, <1>6
    <3> QED  BY <3>1, <2>3, <1>7
  <2>4. CASE k = l + 3
    <3>1. right[k] = new[3] /\ left[k] = I("POP")
      BY <2>4, <1>2, <1>3, <1>6
    <3> QED  BY <3>1
  <2>5. k \in 1..l \/ k = l + 1 \/ k = l + 2 \/ k = l + 3
    <3> HIDE DEF l
    <3> QED  BY <1>2
  <2> QED  BY <2>1, <2>2, <2>3, <2>4, <2>5
<1> HIDE DEF left, right
<1>11. left = right
  BY <1>8, <1>9, <1>10, SeqEqual
<1> QED  BY <1>3, <1>4, <1>6, <1>11 DEF left, right, over, both

LEMMA DeepOr ==
  ASSUME Smooth, Or PROVE DeepInv'
<1>1. PICK p \in Point : Now(p)
  BY SmoothAt DEF Or
<1>2. Task.do = "or" /\ Task \in ACall /\ Tail(tasks) \in Seq(ACall)
  BY SmoothAt DEF Or
<1>3. Over(p) /\ Post(Task, p) = Plus(p, 0) /\ Stands(Here, p)
  BY <1>1, <1>2, NowIs, PreIs, PostIs DEF Binary
<1>4. ~p.loose /\ p.D \in Int /\ p.D >= 2 /\ p.L \in Nat
      /\ p.D - 1 + (IF p.uninit THEN 1 ELSE 0) >= p.L
  BY <1>3, OverIs
<1>5. Chunk \in Fun
  BY SmoothOK, CompOK
<1> DEFINE c == Chunk.code
           n == Len(c) + 1
           x == <<n, p.D>>
           f == WithCode(Chunk, Append(c, I("JMPF")))
           q == Waits(p, x)
           m == Len(f.code) + 1
           y == <<m, q.D>>
           g == WithCode(f, Patched(Append(f.code, I("JMP")), n))
           r == Turn(q, x, y)
           h == WithCode(g, Append(g.code, I("POP")))
           u == Plus(r, -1)
<1>6. c \in Seq(Instr) /\ n \in Nat
  BY <1>5, FunIs
<1>7. x \notin p.pend /\ <<Len(c) + 2, p.D>> \notin p.pend /\ Len(c) + 2 \in Nat
  BY <1>3, <1>5, Fresh DEF Here
<1>8. f.code = Append(c, I("JMPF")) /\ m = Len(c) + 2
      /\ g.code = Patched(Append(f.code, I("JMP")), n)
      /\ h = WithCode(Chunk, c \o <<IA("JMPF", 1), I("JMP"), I("POP")>>)
  <2>1. /\ Append(c, I("JMPF")) \in Seq(Instr) /\ Len(Append(c, I("JMPF"))) = Len(c) + 1
        /\ Patched(Append(Append(c, I("JMPF")), I("JMP")), n) \in Seq(Instr)
        /\ Append(Patched(Append(Append(c, I("JMPF")), I("JMP")), n), I("POP"))
             = c \o <<IA("JMPF", 1), I("JMP"), I("POP")>>
    BY <1>6, OrCode
  <2>2. f.code = Append(c, I("JMPF")) /\ f \in Fun
    BY <1>5, <2>1, WithCodeIs
  <2>3. m = Len(c) + 2
    BY <2>1, <2>2, <1>6
  <2>4. g.code = Patched(Append(f.code, I("JMP")), n)
    BY <2>1, <2>2, WithCodeIs
  <2>5. h = WithCode(Chunk, Append(g.code, I("POP")))
    BY DEF WithCode
  <2> QED  BY <2>1, <2>2, <2>3, <2>4, <2>5
<1>9. x \in Nat \X Int /\ f \in Fun /\ q \in Point /\ Stands([comp |-> Comp, fun |-> f], q)
  BY <1>3, <1>4, <1>5, StandsAhead DEF Here
<1> HIDE DEF c, n, f
<1>10. /\ q.rest = p.rest /\ q.bases = p.bases /\ (q.loose <=> p.loose)
       /\ q.L = p.L /\ q.D = p.D /\ (q.uninit <=> p.uninit)
       /\ q.pend = p.pend \cup {x} /\ q.names = p.names
  BY <1>9, WaitsIs
<1> HIDE DEF q
<1>11. <<n, p.D>> \in q.pend /\ q.D >= 1
  BY <1>4, <1>10
<1>12. y \in Nat \X Int /\ g \in Fun /\ r \in Point /\ Stands([comp |-> Comp, fun |-> g], r)
  BY <1>4, <1>9, <1>11, StandsOver
<1> HIDE DEF g, y
<1>13. /\ r.rest = p.rest /\ r.bases = p.bases /\ (r.loose <=> p.loose)
       /\ r.L = p.L /\ r.D = p.D /\ (r.uninit <=> p.uninit)
       /\ r.pend = (q.pend \ {x}) \cup {y} /\ r.names = p.names
  <2>1. x[2] = p.D /\ x \in q.pend
    BY <1>11
  <2> HIDE DEF x
  <2>2. /\ r.rest = q.rest /\ r.bases = q.bases /\ (r.loose <=> q.loose)
        /\ r.L = q.L /\ r.D = x[2] /\ (r.uninit <=> q.uninit)
        /\ r.pend = (q.pend \ {x}) \cup {y} /\ r.names = q.names
    BY <2>1, <1>9, <1>12, TurnIs
  <2> HIDE DEF r
  <2> QED  BY <2>1, <2>2, <1>10
<1>14. r.pend = p.pend \cup {<<m, p.D>>} /\ <<m, p.D>> \notin p.pend /\ m \in Nat
  <2>1. y = <<m, p.D>>
    BY <1>10 DEF y
  <2>2. <<m, p.D>> \notin p.pend /\ m \in Nat
    BY <1>7, <1>8 DEF m, c
  <2> HIDE DEF m, x, r
  <2> QED  BY <2>1, <2>2, <1>7, <1>10, <1>13
<1> HIDE DEF r, m
<1>15. h \in Fun /\ u \in Point /\ Stands([comp |-> Comp, fun |-> h], u)
  <2>1. r.D >= 2
    BY <1>4, <1>13
  <2> QED  BY <2>1, <1>12, StandsPop
<1> HIDE DEF h
<1>16. /\ ~u.loose /\ u.D + 1 = p.D /\ u.L = p.L /\ (u.uninit <=> p.uninit)
       /\ u.rest = p.rest /\ u.bases = p.bases /\ u.names = p.names
       /\ u.pend = p.pend \cup {<<m, p.D>>} /\ u.D \in Int
  <2>1. -1 \in Int
    OBVIOUS
  <2>2. /\ u.rest = r.rest /\ u.bases = r.bases /\ (u.loose <=> r.loose)
        /\ u.L = r.L /\ u.D = r.D + -1 /\ (u.uninit <=> r.uninit)
        /\ u.pend = r.pend /\ u.names = r.names
    BY <1>12, <2>1, PlusIs
  <2> HIDE DEF u
  <2> QED  BY <2>2, <1>4, <1>13, <1>14
<1> HIDE DEF u
<1>17. InExpr(u)
  BY <1>4, <1>16 DEF InExpr
<1>18. Leads(<<Parse(2), PatchJump(m)>>, u, Plus(p, 0))
  BY <1>4, <1>14, <1>15, <1>16, <1>17, Skipped
<1>19. SetChunk(h) /\ Continue(<<Parse(PrecOr), PatchJump(m)>>) /\ UNCHANGED compilers
  BY <1>8 DEF Or, Emit, WithCode, c
<1> QED  BY <1>1, <1>2, <1>3, <1>15, <1>16, <1>18, <1>19, SmoothCode DEF PrecOr

LEMMA DeepPatch ==
  ASSUME Smooth, Patch PROVE DeepInv'
<1>1. PICK p \in Point : Now(p)
  BY SmoothAt DEF Patch
<1>2. Task.do = "patchJump" /\ Task \in ACall /\ Tail(tasks) \in Seq(ACall)
  BY SmoothAt DEF Patch
<1> DEFINE x == <<Task.at, p.D>>
           q == Less(p, x)
           g == WithCode(Chunk, Patched(Chunk.code, Task.at))
<1>3. x \in p.pend /\ Post(Task, p) = q /\ Stands(Here, p)
  BY <1>1, <1>2, NowIs, PreIs, PostIs
<1>4. Chunk \in Fun
  BY SmoothOK, CompOK
<1>5. g \in Fun /\ q \in Point /\ Stands([comp |-> Comp, fun |-> g], q)
  BY <1>3, <1>4, StandsHere DEF Here
<1>6. SetChunk(g) /\ Continue(<<>>) /\ UNCHANGED compilers
  BY DEF Patch, WithCode
<1>7. q.rest = p.rest
  BY DEF Less
<1> HIDE DEF q, g
<1>8. Leads(<<>>, q, Post(Task, p))
  BY <1>3, <1>5, Leads0, FlowSelf
<1> QED  BY <1>1, <1>2, <1>5, <1>6, <1>7, <1>8, SmoothCode

(* Where the statement after 'Then' begins.                                *)
LEMMA DeepIfThen ==
  ASSUME Smooth, IfThen PROVE DeepInv'
<1>1. PICK p \in Point : Now(p)
  BY SmoothAt DEF IfThen
<1>2. Task.do = "then" /\ Task \in ACall /\ Tail(tasks) \in Seq(ACall)
  BY SmoothAt DEF IfThen
<1>3. Only(p) /\ Post(Task, p) = Plus(p, -1) /\ Stands(Here, p)
  BY <1>1, <1>2, NowIs, PreIs, PostIs
<1>4. ~p.loose /\ ~p.uninit /\ p.D = p.L + 1 /\ p.D >= 2 /\ p.D \in Int /\ p.L \in Nat
  BY <1>3, OnlyIs
<1> DEFINE n == Len(Chunk.code) + 1
           x == <<n, p.D>>
           g == WithCode(Chunk, Chunk.code \o <<I("JMPF"), I("POP")>>)
           u == Plus(Waits(p, x), -1)
           inline == SameLine
           s == Call("statement")
           t == [do |-> "else", at |-> n, inline |-> inline]
           v == Plus(u, 0)
           q == Plus(p, -1)
<1>5. Chunk \in Fun
  BY SmoothOK, CompOK
<1>6. /\ g \in Fun /\ u \in Point /\ Stands([comp |-> Comp, fun |-> g], u)
      /\ ~u.loose /\ u.D + 1 = p.D /\ u.L = p.L /\ (u.uninit <=> p.uninit)
      /\ u.rest = p.rest /\ u.bases = p.bases /\ u.names = p.names
      /\ u.pend = p.pend \cup {x} /\ x \notin p.pend /\ n \in Nat
  BY <1>3, <1>4, <1>5, Conditional DEF Here
<1>7. SetChunk(g) /\ Continue(<<s, t>>) /\ UNCHANGED compilers
  BY DEF IfThen, Emit, WithCode
<1>8. inline \in BOOLEAN
  BY DEF SameLine
<1> HIDE DEF g, u, n, inline
<1>9. InList(u) /\ u.D \in Int
  <2>1. u.D \in Int
    BY <1>6, PointIs
  <2> QED  BY <2>1, <1>4, <1>6 DEF InList
<1>10. s \in ACall /\ Normal(s) /\ Pre(s, u) /\ Post(s, u) = v
  BY <1>9, CallIs DEF Simple, SimpleCalls, Single
<1>11. /\ v \in Point /\ v.rest = u.rest /\ v.bases = u.bases /\ (v.loose <=> u.loose)
       /\ v.L = u.L /\ v.D = u.D + 0 /\ (v.uninit <=> u.uninit)
       /\ v.pend = u.pend /\ v.names = u.names
  <2>1. u \in Point /\ 0 \in Int
    BY <1>6
  <2> QED  BY <2>1, PlusIs
<1>12. InList(v)
  BY <1>6, <1>9, FlowZero
<1> HIDE DEF s, v
<1>13. v.D = u.D /\ <<n, v.D + 1>> = x
  BY <1>6, <1>9, <1>11
<1>14. t \in ACall /\ Normal(t) /\ (Pre(t, v) <=> ~v.loose /\ InList(v) /\ <<n, v.D + 1>> \in v.pend)
       /\ Post(t, v) = Less(v, <<n, v.D + 1>>)
  BY <1>6, <1>8, ElseIs
<1> HIDE DEF t
<1>15. Pre(t, v) /\ Post(t, v) = Less(v, x)
  BY <1>6, <1>11, <1>12, <1>13, <1>14
<1> DEFINE w == Less(v, x)
<1>16. /\ w \in Point /\ w.rest = v.rest /\ w.bases = v.bases /\ (w.loose <=> v.loose)
       /\ w.L = v.L /\ w.D = v.D /\ (w.uninit <=> v.uninit)
       /\ w.pend = v.pend \ {x} /\ w.names = v.names /\ ~w.empty
  BY <1>11, LessIs
<1>17. /\ q \in Point /\ q.rest = p.rest /\ q.bases = p.bases /\ (q.loose <=> p.loose)
       /\ q.L = p.L /\ q.D = p.D + -1 /\ (q.uninit <=> p.uninit)
       /\ q.pend = p.pend /\ q.names = p.names /\ ~q.empty
  <2>1. -1 \in Int
    OBVIOUS
  <2> QED  BY <2>1, PlusIs
<1> HIDE DEF w, q, x
<1>18. Flow(w, q)
  <2>1. w.pend = q.pend
    BY <1>6, <1>11, <1>16, <1>17
  <2>2. w.D = q.D
    BY <1>4, <1>6, <1>9, <1>13, <1>16, <1>17
  <2> QED  BY <2>1, <2>2, <1>4, <1>6, <1>11, <1>16, <1>17 DEF Flow
<1>19. Leads(<<s, t>>, u, q)
  BY <1>6, <1>10, <1>14, <1>15, <1>16, <1>17, <1>18, Leads2 DEF w
<1> QED  BY <1>1, <1>2, <1>3, <1>6, <1>7, <1>19, SmoothCode DEF q
=============================================================================
