-------------------------- MODULE CompilerDepthProofs --------------------------
(***************************************************************************)
(* For every program and every limit: what is compiled without error is    *)
(* balanced.                                                               *)
(*                                                                         *)
(* One lemma for each step says that the innermost point of the calls that *)
(* are pending stays where the compiler stands (DeepInv; the first of them *)
(* are in CompilerProofs), and one that what has been read is enough       *)
(* (PosInv): that a Global is in no scope, and that the count of a list    *)
(* fits in a byte.  A function that is done keeps the code it was given    *)
(* (FinInv).                                                               *)
(***************************************************************************)
EXTENDS CompilerProofs

-----------------------------------------------------------------------------
(* Branches, statements and functions.                                     *)

LEMMA TwoOf ==
  ASSUME NEW S, NEW x \in S, NEW y \in S
  PROVE  <<x>> \o <<y>> = <<x, y>>
<1> DEFINE a == <<x>> \o <<y>>
           b == <<x, y>>
<1>1. a \in Seq(S) /\ Len(a) = 2 /\ a[1] = x /\ a[2] = y
  OBVIOUS
<1>2. b \in Seq(S) /\ Len(b) = 2 /\ b[1] = x /\ b[2] = y
  OBVIOUS
<1> HIDE DEF a, b
<1>3. \A i \in 1..Len(a) : a[i] = b[i]
  BY <1>1, <1>2
<1> QED  BY <1>1, <1>2, <1>3, SeqEqual DEF a, b

LEMMA DeepIfElse ==
  ASSUME Smooth, IfElse PROVE DeepInv'
<1>1. PICK p \in Point : Now(p)
  BY SmoothAt DEF IfElse
<1>2. Task.do = "else" /\ Task \in ACall /\ Tail(tasks) \in Seq(ACall)
  BY SmoothAt DEF IfElse
<1> DEFINE E == p.D + 1
           y == <<Task.at, E>>
           n == Len(Chunk.code) + 1
           x == <<n, p.D>>
           code == Append(Chunk.code, I("JMP"))
           f == WithCode(Chunk, Patched(code, Task.at))
           q == Turn(p, y, x)
           g == WithCode(f, Append(f.code, I("POP")))
           u == Plus(q, -1)
           r == Less(p, y)
           t == PatchJump(n)
           s == Call("statement")
           v == Plus(u, 0)
<1>3. /\ ~p.loose /\ InList(p) /\ y \in p.pend /\ Post(Task, p) = r /\ Stands(Here, p)
      /\ LocalsOK(Comp, p)
  BY <1>1, <1>2, NowIs, PreIs, PostIs
<1>4. Chunk \in Fun /\ Chunk.code \in Seq(Instr) /\ Len(Chunk.code) \in Nat
  BY SmoothOK, CompOK
<1>5. p.D \in Int /\ p.L \in Nat /\ p.D = p.L /\ ~p.uninit /\ p.L >= 1 /\ E \in Int
  <2>1. p.D \in Int /\ p.L \in Nat /\ p.D = p.L /\ ~p.uninit
    BY <1>3, PointIs DEF InList
  <2>2. p.L >= 1
    BY <1>3, <2>1, CompOK, SmoothOK DEF LocalsOK, Locals
  <2> QED  BY <2>1, <2>2
<1>6. Task.at \in 1..Len(Chunk.code)
  BY <1>2, SmoothOK, SmoothAt, JumpThere DEF IfElse
<1>7. Len(code) = n /\ n \in Nat /\ x \notin p.pend /\ code \in Seq(Instr)
      /\ Task.at \in 1..Len(code)
  <2>1. I("JMP") \in Instr
    BY IsInstr DEF Ops
  <2>2. Len(code) = n /\ n \in Nat /\ code \in Seq(Instr)
    BY <1>4, <2>1
  <2>3. x \notin p.pend
    BY <1>3, <1>4, Fresh DEF Here
  <2> QED  BY <2>2, <2>3, <1>4, <1>6
<1>8. SetChunk(g)
  <2>1. Patched(code, Task.at) \in Seq(Instr)
    BY <1>7, PatchedOK
  <2>2. f.code = Patched(code, Task.at)
    BY <2>1, <1>4, WithCodeIs
  <2>3. g = [Chunk EXCEPT !.code = Append(Patched(code, Task.at), I("POP"))]
    BY <2>2 DEF WithCode
  <2> QED  BY <2>3 DEF IfElse
<1>9. PICK ends : /\ ends = <<>> \/ ends = <<Expect({"END", "ENDIF"})>>
                  /\ \/ Continue((<<s>> \o <<t>>) \o ends)
                     \/ Continue((<<>> \o <<t>>) \o ends)
  BY <1>7 DEF IfElse
<1>10. UNCHANGED compilers
  BY DEF IfElse
<1>11. x \in Nat \X Int /\ f \in Fun /\ q \in Point /\ Stands([comp |-> Comp, fun |-> f], q)
  <2>1. p.D >= 1
    BY <1>5
  <2> QED  BY <1>3, <1>4, <1>5, <2>1, StandsOver DEF Here
<1> HIDE DEF code, f, x
<1>12. /\ q.rest = p.rest /\ q.bases = p.bases /\ (q.loose <=> p.loose)
       /\ q.L = p.L /\ q.D = E /\ (q.uninit <=> p.uninit)
       /\ q.pend = (p.pend \ {y}) \cup {x} /\ q.names = p.names
  <2>1. y[2] = E
    OBVIOUS
  <2> HIDE DEF y, E
  <2> QED  BY <2>1, <1>3, <1>11, TurnIs
<1> HIDE DEF q, y
<1>13. g \in Fun /\ u \in Point /\ Stands([comp |-> Comp, fun |-> g], u)
  <2>1. q.D >= 2
    BY <1>5, <1>12
  <2> QED  BY <2>1, <1>11, StandsPop
<1> HIDE DEF g
<1>14. /\ u.rest = p.rest /\ u.bases = p.bases /\ ~u.loose
       /\ u.L = p.L /\ u.D = p.D /\ ~u.uninit
       /\ u.pend = (p.pend \ {y}) \cup {x} /\ u.names = p.names
  <2>1. -1 \in Int
    OBVIOUS
  <2>2. /\ u.rest = q.rest /\ u.bases = q.bases /\ (u.loose <=> q.loose)
        /\ u.L = q.L /\ u.D = q.D + -1 /\ (u.uninit <=> q.uninit)
        /\ u.pend = q.pend /\ u.names = q.names
    BY <1>11, <2>1, PlusIs
  <2> HIDE DEF u
  <2> QED  BY <2>2, <1>3, <1>5, <1>12
<1> HIDE DEF u
<1>15. InList(u) /\ u.rest = p.rest
  BY <1>5, <1>14 DEF InList
<1>16. /\ r \in Point /\ r.rest = p.rest /\ r.bases = p.bases /\ (r.loose <=> p.loose)
       /\ r.L = p.L /\ r.D = p.D /\ (r.uninit <=> p.uninit)
       /\ r.pend = p.pend \ {y} /\ r.names = p.names /\ ~r.empty
  BY LessIs
<1> HIDE DEF r
<1>17. ASSUME NEW w \in Point, w.rest = u.rest, w.bases = u.bases, ~w.loose, w.L = u.L, w.D = u.D,
              ~w.uninit, w.pend = u.pend, w.names = u.names
       PROVE  Normal(t) /\ t \in ACall /\ Pre(t, w) /\ Flow(Post(t, w), r)
  <2> DEFINE z == Less(w, x)
  <2>1. x = <<n, w.D>>
    BY <1>14, <1>17 DEF x
  <2>2. t \in ACall /\ Normal(t) /\ (Pre(t, w) <=> ~w.loose /\ <<n, w.D>> \in w.pend)
        /\ Post(t, w) = Less(w, <<n, w.D>>)
    BY <1>7, PatchJumpIs
  <2>3. /\ z \in Point /\ z.rest = w.rest /\ z.bases = w.bases /\ (z.loose <=> w.loose)
        /\ z.L = w.L /\ z.D = w.D /\ (z.uninit <=> w.uninit)
        /\ z.pend = w.pend \ {x} /\ z.names = w.names /\ ~z.empty
    BY <1>17, LessIs
  <2> HIDE DEF z, t
  <2>4. x \notin p.pend
    BY <1>7
  <2>5. z.pend = r.pend
    BY <2>3, <2>4, <1>14, <1>16, <1>17
  <2>6. Flow(z, r)
    BY <2>3, <2>5, <1>3, <1>5, <1>14, <1>16, <1>17 DEF Flow
  <2>7. x \in w.pend
    BY <1>14, <1>17
  <2> QED  BY <2>1, <2>2, <2>6, <2>7, <1>17 DEF z
<1>18. Leads(<<t>>, u, r)
  <2>1. Normal(t) /\ t \in ACall /\ Pre(t, u) /\ Flow(Post(t, u), r)
    BY <1>13, <1>14, <1>17
  <2> HIDE DEF t
  <2> QED  BY <2>1, <1>13, <1>16, Leads1
<1>19. Leads(<<s, t>>, u, r)
  <2>1. s \in ACall /\ Normal(s) /\ Pre(s, u) /\ Post(s, u) = v
    BY <1>15, CallIs DEF Simple, SimpleCalls, Single
  <2>2. /\ v \in Point /\ v.rest = u.rest /\ v.bases = u.bases /\ (v.loose <=> u.loose)
        /\ v.L = u.L /\ v.D = u.D + 0 /\ (v.uninit <=> u.uninit)
        /\ v.pend = u.pend /\ v.names = u.names
    <3>1. u \in Point /\ 0 \in Int
      BY <1>13
    <3> QED  BY <3>1, PlusIs
  <2> HIDE DEF s, v
  <2>3. v.D = u.D
    BY <2>2, <1>5, <1>14
  <2>4. Normal(t) /\ t \in ACall /\ Pre(t, v) /\ Flow(Post(t, v), r)
    BY <2>2, <2>3, <1>14, <1>17
  <2> HIDE DEF t
  <2>5. u \in Point /\ r \in Point
    BY <1>13, <1>16
  <2>6. s \in ACall /\ Normal(s) /\ Pre(s, u) /\ t \in ACall /\ Normal(t)
        /\ Pre(t, Post(s, u)) /\ Flow(Post(t, Post(s, u)), r)
    BY <2>1, <2>4
  <2> QED  BY <2>5, <2>6, Leads2
<1>20. ASSUME NEW calls, calls = <<t>> \/ calls = <<s, t>>
       PROVE  Leads(calls \o ends, u, r)
  <2>0. <<t>> # <<>> /\ <<s, t>> # <<>>
    OBVIOUS
  <2> HIDE DEF s, t
  <2>1. Leads(calls, u, r) /\ calls # <<>>
    BY <1>18, <1>19, <1>20, <2>0
  <2>2. CASE ends = <<>>
    <3>1. calls \o <<>> = calls
      BY <2>1 DEF Leads
    <3> QED  BY <3>1, <2>1, <2>2
  <2>3. CASE ends = <<Expect({"END", "ENDIF"})>>
    <3> DEFINE e == Expect({"END", "ENDIF"})
    <3>1. e \in ACall /\ Normal(e) /\ Pre(e, r) /\ Post(e, r) = Plus(r, 0)
      BY ExpectIs DEF Expected
    <3>2. Flow(Plus(r, 0), r)
      <4> DEFINE w == Plus(r, 0)
      <4>1. ~r.loose /\ r \in Point /\ 0 \in Int /\ r.D \in Int /\ ~r.empty
        BY <1>3, <1>5, <1>16
      <4>2. /\ w.rest = r.rest /\ w.bases = r.bases /\ (w.loose <=> r.loose)
            /\ w.L = r.L /\ w.D = r.D + 0 /\ (w.uninit <=> r.uninit)
            /\ w.pend = r.pend /\ w.names = r.names
        BY <4>1, PlusIs
      <4> HIDE DEF w
      <4>3. w.D = r.D
        BY <4>1, <4>2
      <4> QED  BY <4>1, <4>2, <4>3 DEF Flow, w
    <3> HIDE DEF e
    <3>3. Leads(<<e>>, r, r)
      BY <3>1, <3>2, <1>16, Leads1
    <3>4. <<e>> # <<>>
      OBVIOUS
    <3>5. Leads(calls \o <<e>>, u, r)
      BY <3>3, <3>4, <2>1, LeadsOn
    <3> QED  BY <3>5, <2>3 DEF e
  <2> QED  BY <2>2, <2>3, <1>9
<1>21. PICK calls : (calls = <<t>> \/ calls = <<s, t>>) /\ Continue(calls \o ends)
  <2>0. s \in ACall /\ t \in ACall
    BY <1>7, CallsMade DEF SimpleCalls
  <2> HIDE DEF s, t
  <2>2. <<s>> \o <<t>> = <<s, t>>
    BY <2>0, TwoOf
  <2>3. <<t>> \in Seq(ACall)
    BY <2>0
  <2>4. <<>> \o <<t>> = <<t>>
    BY <2>3
  <2>1. <<s>> \o <<t>> = <<s, t>> /\ <<>> \o <<t>> = <<t>>
    BY <2>2, <2>4
  <2> HIDE DEF InList
  <2> QED  BY <2>1, <1>9
<1>22. Leads(calls \o ends, u, r)
  BY <1>20, <1>21
<1> QED  BY <1>1, <1>2, <1>3, <1>8, <1>10, <1>13, <1>14, <1>21, <1>22, SmoothCode

(* Where there are only locals on the stack.                               *)
LEMMA ListIs ==
  ASSUME CompilersOK(compilers, functions), NEW p \in Point, Stands(Here, p), InList(p)
  PROVE  /\ ~p.loose /\ ~p.uninit /\ p.D = p.L /\ p.L \in Nat /\ p.D \in Int /\ p.L >= 1
         /\ InExpr(p) /\ Scope = Len(p.bases) /\ Len(Locals) = p.L /\ p.bases \in Seq(Nat)
         /\ p.bases = <<>> <=> Scope = 0
<1>1. ~p.loose /\ LocalsOK(Comp, p)
  BY StandsIs DEF Here
<1>2. p.D \in Int /\ p.L \in Nat /\ p.D = p.L /\ ~p.uninit /\ p.bases \in Seq(Nat)
  BY <1>1, PointIs DEF InList
<1>3. Scope = Len(p.bases) /\ Len(Locals) = p.L
  BY <1>1 DEF LocalsOK, Scope, Locals
<1>4. p.L >= 1
  BY <1>3, CompOK
<1>5. InExpr(p)
  BY <1>1, <1>2, <1>4 DEF InExpr
<1>6. p.bases = <<>> <=> Scope = 0
  BY <1>2, <1>3
<1> QED  BY <1>1, <1>2, <1>3, <1>4, <1>5, <1>6

LEMMA ReturnCode ==
  ASSUME NEW p \in Point, ~p.loose, p.D >= 1, p.rest # <<>>
  PROVE  /\ EmitReturn \in Seq(Instr) /\ GoodCode(EmitReturn, p) /\ Effects(EmitReturn) = 0
<1> DEFINE i == I("NIL")
           j == I("RET")
           c == <<i, j>>
           q == Plus(p, 1)
<1>1. /\ i \in Instr /\ j \in Instr /\ Effect(i) = 1 /\ Effect(j) = -1
      /\ \A w : w.D \in Int /\ w.D >= 1 => Good(i, w)
      /\ \A w : w.D \in Int /\ w.D >= 2 /\ w.rest # <<>> => Good(j, w)
  BY SimpleInstr
<1> HIDE DEF i, j
<1>2. c \in Seq(Instr) /\ Len(c) = 2 /\ c[1] = i /\ c[2] = j
  BY <1>1
<1>3. p.D \in Int
  BY PointIs
<1>4. q.D = p.D + 1 /\ q.rest = p.rest
  BY PlusIs
<1> HIDE DEF q
<1>5. Good(i, p) /\ Good(j, q)
  BY <1>1, <1>3, <1>4
<1> HIDE DEF c
<1>6. GoodCode(c, p)
  BY <1>1, <1>2, <1>5 DEF GoodCode, q
<1>7. Effects(c) = 0
  BY <1>1, <1>2 DEF Effects
<1> QED  BY <1>2, <1>6, <1>7 DEF EmitReturn, c, i, j

LEMMA DeepReturnStatement ==
  ASSUME Smooth, ReturnStatement PROVE DeepInv'
<1>1. PICK p \in Point : Now(p)
  BY SmoothAt DEF ReturnStatement
<1>2. Task.do = "returnValue" /\ Task \in ACall /\ Tail(tasks) \in Seq(ACall)
  BY SmoothAt DEF ReturnStatement
<1>3. InList(p) /\ Post(Task, p) = Plus(p, 0) /\ Stands(Here, p) /\ p.rest = Around
  BY <1>1, <1>2, NowIs, PreIs, PostIs DEF Single
<1>4. /\ ~p.loose /\ ~p.uninit /\ p.D = p.L /\ p.L \in Nat /\ p.D \in Int /\ p.L >= 1
      /\ InExpr(p)
  BY <1>3, SmoothOK, ListIs
<1>5. Comp.type = "function" /\ UNCHANGED compilers
      /\ \/ Emit(EmitReturn) /\ Continue(<<>>)
         \/ Continue(<<Parse(PrecAssignment), Output(<<I("RET")>>)>>) /\ UNCHANGED functions
  <2>1. ~Stay(TRUE)
    BY NoErrors DEF Smooth
  <2> QED  BY <2>1 DEF ReturnStatement
<1>6. p.rest # <<>>
  <2>0. compilers \in Seq(Compiling) /\ compilers # <<>> /\ Comp = compilers[1]
        /\ Enclosing(compilers)
    BY SmoothOK, CompOK DEF CompilersOK, Compile
  <2>3. 1 \in DOMAIN compilers /\ Len(compilers) \in Nat \ {0}
    BY <2>0
  <2>1. /\ compilers \in Seq(Compiling) /\ compilers # <<>> /\ Comp = compilers[1]
        /\ compilers[1].type = IF 1 = Len(compilers) THEN "script" ELSE "function"
    BY <2>0, <2>3 DEF Enclosing
  <2>2. Len(compilers) - 1 >= 1 /\ Len(compilers) \in Nat
    BY <2>1, <1>5
  <2>5. 1 \in 1..Len(compilers)-1
    BY <2>2
  <2>4. 1 \in DOMAIN Around
    BY <2>5 DEF Around
  <2> QED  BY <2>4, <1>3
<1>7. CASE Emit(EmitReturn) /\ Continue(<<>>)
  <2>1. p.D >= 1
    BY <1>4
  <2>2. EmitReturn \in Seq(Instr) /\ GoodCode(EmitReturn, p) /\ Effects(EmitReturn) = 0
    BY <1>4, <1>6, <2>1, ReturnCode
  <2> QED  BY <1>1, <1>2, <1>3, <1>5, <1>7, <2>2, SmoothEmitted
<1>8. CASE Continue(<<Parse(PrecAssignment), Output(<<I("RET")>>)>>) /\ UNCHANGED functions
  <2> DEFINE q == Plus(p, 1)
             o == Output(<<I("RET")>>)
             m == Effect(I("RET"))
  <2>1. Parse(1) \in ACall /\ Normal(Parse(1)) /\ Pre(Parse(1), p) /\ Post(Parse(1), p) = q
    BY <1>4, ParseIs
  <2>2. q \in Point /\ ~q.loose /\ q.D = p.D + 1 /\ q.rest = p.rest
    BY <1>4, OneUp
  <2>3. Flow(Plus(q, -1), Plus(p, 0)) /\ Plus(p, 0) \in Point
    <3>1. 1 \in Int /\ -1 \in Int /\ 1 + -1 = 0
      OBVIOUS
    <3>2. Flow(Plus(q, -1), Plus(p, 1 + -1)) /\ Plus(p, 1 + -1) \in Point
      BY <3>1, PlusPlus
    <3> QED  BY <3>1, <3>2
  <2> HIDE DEF q
  <2>4. Good(I("RET"), q) /\ I("RET") \in Instr /\ m = -1
    BY <2>2, <1>4, <1>6, SimpleInstr
  <2>5. o \in ACall /\ Normal(o) /\ Pre(o, q) /\ Post(o, q) = Plus(q, -1)
    BY <2>2, <2>4, Output1
  <2> HIDE DEF o
  <2>6. Leads(<<Parse(1), o>>, p, Plus(p, 0))
    BY <2>1, <2>2, <2>3, <2>5, Leads2
  <2> QED  BY <1>1, <1>2, <1>3, <1>5, <1>8, <2>6, SmoothCalls DEF o, PrecAssignment
<1> QED  BY <1>5, <1>7, <1>8

-----------------------------------------------------------------------------
(* Locals.                                                                 *)

LEMMA SmoothStay ==
  ASSUME Smooth, NEW p, Now(p), NEW c \in Compiling, c.fn = Comp.fn, SetCompiler(c),
         NEW f \in Fun, SetChunk(f),
         NEW q \in Point, q.rest = p.rest, Stands([comp |-> c, fun |-> f], q),
         NEW calls, Continue(calls), Leads(calls, q, Post(Task, p)), Tail(tasks) \in Seq(ACall)
  PROVE  DeepInv'
<1>1. Run(Tail(tasks), Post(Task, p)) /\ Tail(tasks) # <<>> /\ q.rest = Around
  BY DEF Now
<1>2. Run(tasks', q)
  BY <1>1 DEF Continue, Leads
<1> QED  BY <1>1, <1>2, DeepStay DEF Smooth

(* One more local, without a value yet.                                    *)
Declares(p) == [p EXCEPT !.L = @ + 1, !.uninit = TRUE, !.empty = FALSE]

LEMMA DeclaresIs ==
  ASSUME NEW p \in Point
  PROVE  LET q == Declares(p) IN
         /\ q \in Point /\ q.rest = p.rest /\ q.bases = p.bases /\ (q.loose <=> p.loose)
         /\ q.L = p.L + 1 /\ q.D = p.D /\ q.uninit
         /\ q.pend = p.pend /\ q.names = p.names /\ ~q.empty
<1> DEFINE m == p.L + 1
<1>1. Declares(p) = [p EXCEPT !.L = m, !.uninit = TRUE, !.empty = FALSE] /\ m \in Nat
  BY PointIs DEF Declares
<1> HIDE DEF m
<1>2. LET q == [p EXCEPT !.L = m, !.uninit = TRUE, !.empty = FALSE] IN
      /\ q \in Point /\ q.rest = p.rest /\ q.bases = p.bases /\ (q.loose <=> p.loose)
      /\ q.L = m /\ q.D = p.D /\ q.uninit
      /\ q.pend = p.pend /\ q.names = p.names /\ ~q.empty
  BY <1>1 DEF Point
<1> QED  BY <1>1, <1>2 DEF m

WithLocals(c, ls) == [c EXCEPT !.locals = ls]

LEMMA WithLocalsIs ==
  ASSUME NEW c \in Compiling, NEW ls \in Seq(Local)
  PROVE  LET d == WithLocals(c, ls) IN
         d \in Compiling /\ d.locals = ls /\ d.scope = c.scope /\ d.fn = c.fn /\ d.type = c.type
BY DEF WithLocals, Compiling

LEMMA LocalsDeclared ==
  ASSUME NEW c \in Compiling, NEW p \in Point, LocalsOK(c, p), ~p.uninit, c.scope > 0,
         NEW name \in Text
  PROVE  LET l == Append(c.locals, [name |-> name, depth |-> -1]) IN
         /\ l \in Seq(Local) /\ Len(l) = p.L + 1 /\ l[p.L + 1].depth = -1
         /\ LocalsOK(WithLocals(c, l), Declares(p))
<1> DEFINE x == [name |-> name, depth |-> -1]
           l == Append(c.locals, x)
           d == WithLocals(c, l)
           q == Declares(p)
           n == p.L
           s0 == c.scope
<1>1. x \in Local /\ x.depth = -1
  BY DEF Local
<1> HIDE DEF x
<1>2. c.locals \in Seq(Local) /\ Len(c.locals) = n /\ n \in Nat /\ s0 \in Nat /\ s0 = Len(p.bases)
      /\ p.bases \in Seq(Nat)
  BY PointIs DEF LocalsOK, Compiling
<1>3. l \in Seq(Local) /\ Len(l) = n + 1 /\ l[n + 1] = x /\ \A i \in 1..n : l[i] = c.locals[i]
  BY <1>1, <1>2
<1> HIDE DEF l
<1>4. d.locals = l /\ d.scope = s0
  BY <1>3, WithLocalsIs
<1>5. q.bases = p.bases /\ q.L = n + 1 /\ q.uninit
  BY DeclaresIs
<1>6. \A i \in 1..n : c.locals[i].depth \in 0..s0 /\ Rank(d, i) = Rank(c, i)
  BY <1>3, <1>4, <1>2 DEF LocalsOK, Rank
<1>7. Rank(d, n + 1) = s0
  BY <1>1, <1>3, <1>4 DEF Rank
<1> HIDE DEF d, q
<1>8. ASSUME NEW i \in 1..q.L
      PROVE  d.locals[i].depth \in 0..d.scope \cup {-1} /\ (d.locals[i].depth = -1 <=> q.uninit /\ i = q.L)
  <2>1. CASE i = n + 1
    BY <2>1, <1>1, <1>3, <1>4, <1>5
  <2>2. CASE i # n + 1
    <3>1. i \in 1..n
      BY <2>2, <1>2, <1>5
    <3>2. d.locals[i].depth \in 0..s0
      BY <3>1, <1>3, <1>4, <1>6
    <3> QED  BY <3>2, <2>2, <1>2, <1>4, <1>5
  <2> QED  BY <2>1, <2>2
<1>9. ASSUME NEW s \in 1..d.scope
      PROVE  q.bases[s] \in 1..q.L /\ \A i \in 1..q.L : i <= q.bases[s] <=> Rank(d, i) < s
  <2>1. p.bases[s] \in 1..n /\ \A i \in 1..n : i <= p.bases[s] <=> Rank(c, i) < s
    BY <1>4 DEF LocalsOK
  <2>2. ASSUME NEW i \in 1..q.L PROVE i <= q.bases[s] <=> Rank(d, i) < s
    <3>1. CASE i = n + 1
      BY <3>1, <2>1, <1>2, <1>4, <1>5, <1>7
    <3>2. CASE i # n + 1
      <4>1. i \in 1..n
        BY <3>2, <1>2, <1>5
      <4> QED  BY <4>1, <2>1, <1>5, <1>6
    <3> QED  BY <3>1, <3>2
  <2>3. q.bases[s] \in 1..q.L
    BY <2>1, <1>2, <1>5
  <2> QED  BY <2>2, <2>3
<1>10. q.bases[1] = 1
  BY <1>5 DEF LocalsOK
<1>11. LocalsOK(d, q)
  BY <1>2, <1>3, <1>4, <1>5, <1>8, <1>9, <1>10 DEF LocalsOK
<1> QED  BY <1>1, <1>3, <1>11 DEF d, q, l, x

(* The last local gets its value.                                          *)
LEMMA LocalsBegin ==
  ASSUME NEW c \in Compiling, NEW p \in Point, LocalsOK(c, p), c.scope > 0, p.L > Base(p)
  PROVE  LET l == [c.locals EXCEPT ![Len(c.locals)].depth = c.scope] IN
         /\ l \in Seq(Local) /\ Len(l) = p.L
         /\ LocalsOK(WithLocals(c, l), Begins(p))
<1> DEFINE l == [c.locals EXCEPT ![Len(c.locals)].depth = c.scope]
           d == WithLocals(c, l)
           q == Begins(p)
           n == p.L
           s0 == c.scope
<1>2. c.locals \in Seq(Local) /\ Len(c.locals) = n /\ n \in Nat /\ s0 \in Nat /\ s0 = Len(p.bases)
      /\ p.bases \in Seq(Nat)
  BY PointIs DEF LocalsOK, Compiling
<1>1. Base(p) = p.bases[s0] /\ s0 \in 1..s0 /\ p.bases[s0] \in 1..n /\ n > p.bases[s0] /\ n \in 1..n
  <2>1. s0 \in 1..s0 /\ Base(p) = p.bases[s0]
    BY <1>2 DEF Base
  <2>2. p.bases[s0] \in 1..n
    BY <2>1 DEF LocalsOK
  <2> QED  BY <2>1, <2>2, <1>2
<1>3. /\ l \in Seq(Local) /\ Len(l) = n /\ l[n].depth = s0
      /\ \A i \in 1..n : i # n => l[i] = c.locals[i]
  <2>1. c.locals[n] \in Local
    BY <1>1, <1>2
  <2> DEFINE y == [c.locals[n] EXCEPT !.depth = s0]
  <2>2. y \in Local /\ y.depth = s0
    BY <2>1, <1>2 DEF Local
  <2>3. l = [c.locals EXCEPT ![n] = y]
    BY <1>2
  <2> HIDE DEF y, l
  <2> QED  BY <2>2, <2>3, <1>1, <1>2
<1> HIDE DEF l
<1>4. d.locals = l /\ d.scope = s0
  BY <1>3, WithLocalsIs
<1>5. q.bases = p.bases /\ q.L = n /\ ~q.uninit
  BY BeginsIs
<1>6. \A i \in 1..n : i # n => Rank(d, i) = Rank(c, i) /\ c.locals[i].depth \in 0..s0
  BY <1>3, <1>4, <1>2 DEF LocalsOK, Rank
<1>7. Rank(d, n) = s0
  BY <1>1, <1>2, <1>3, <1>4 DEF Rank
<1>12. Rank(c, n) = s0
  <2>1. ~(Rank(c, n) < s0)
    BY <1>1, <1>2 DEF LocalsOK
  <2>2. c.locals[n].depth \in 0..s0 \cup {-1}
    BY <1>1 DEF LocalsOK
  <2> QED  BY <2>1, <2>2, <1>2, SMTT(30) DEF Rank
<1> HIDE DEF d, q
<1>8. ASSUME NEW i \in 1..q.L
      PROVE  d.locals[i].depth \in 0..d.scope \cup {-1} /\ (d.locals[i].depth = -1 <=> q.uninit /\ i = q.L)
  <2>1. CASE i = n
    BY <2>1, <1>2, <1>3, <1>4, <1>5
  <2>2. CASE i # n
    <3>1. i \in 1..n
      BY <2>2, <1>2, <1>5
    <3>2. d.locals[i].depth \in 0..s0
      BY <3>1, <2>2, <1>3, <1>4, <1>6
    <3> QED  BY <3>2, <2>2, <1>2, <1>4, <1>5
  <2> QED  BY <2>1, <2>2
<1>9. ASSUME NEW s \in 1..d.scope
      PROVE  q.bases[s] \in 1..q.L /\ \A i \in 1..q.L : i <= q.bases[s] <=> Rank(d, i) < s
  <2>1. p.bases[s] \in 1..n /\ \A i \in 1..n : i <= p.bases[s] <=> Rank(c, i) < s
    BY <1>4 DEF LocalsOK
  <2> QED  BY <2>1, <1>1, <1>5, <1>6, <1>7, <1>12
<1>10. q.bases[1] = 1
  BY <1>5 DEF LocalsOK
<1>11. LocalsOK(d, q)
  BY <1>2, <1>3, <1>4, <1>5, <1>8, <1>9, <1>10 DEF LocalsOK
<1> QED  BY <1>3, <1>11 DEF d, q, l

(* A name that is declared without error.                                  *)
LEMMA NameDeclared ==
  ASSUME Smooth, NEW l, NEW chunk, NEW failed, ParseVariable(l, chunk, failed)
  PROVE  /\ Is({"IDENTIFIER"}) /\ ~VariableFailed /\ ~failed
         /\ SetCompiler(WithLocals(Comp, l))
         /\ Scope > 0 => SetChunk(chunk) /\ Len(Locals) # Byte
         /\ Scope = 0 => SetChunk(WithConstant(Identifier(Name))) /\ ~NoRoom(Identifier(Name))
<1>1. Is({"IDENTIFIER"}) /\ Advance(VariableFailed \/ failed)
  <2>1. ~Stay(TRUE)
    BY NoErrors DEF Smooth
  <2> QED  BY <2>1 DEF ParseVariable
<1>2. ~VariableFailed /\ ~failed
  BY <1>1, NoErrors DEF Smooth
<1>3. SetCompiler(WithLocals(Comp, l))
      /\ SetChunk(IF Scope > 0 THEN chunk ELSE WithConstant(Identifier(Name)))
  BY DEF ParseVariable, WithLocals
<1>4. Scope > 0 => SetChunk(chunk) /\ Len(Locals) # Byte
  BY <1>2, <1>3 DEF VariableFailed
<1>5. Scope = 0 => SetChunk(WithConstant(Identifier(Name))) /\ ~NoRoom(Identifier(Name))
  BY <1>2, <1>3 DEF VariableFailed
<1> QED  BY <1>1, <1>2, <1>3, <1>4, <1>5

(* A global.                                                               *)
LEMMA GlobalDeclared ==
  ASSUME Smooth, pos > 0, Scope = 0,
         NEW l, l = Declared \/ l = Initialised(Declared), NEW chunk, NEW failed,
         ParseVariable(l, chunk, failed), NEW p \in Point, Stands(Here, p)
  PROVE  LET f == WithConstant(Identifier(Name)) IN
         /\ f \in Fun /\ SetChunk(f) /\ SetCompiler(Comp) /\ Comp \in Compiling
         /\ Global \in Nat /\ Stands([comp |-> Comp, fun |-> f], Named(p, Global))
<1>2. /\ SetCompiler(WithLocals(Comp, l)) /\ SetChunk(WithConstant(Identifier(Name)))
      /\ ~NoRoom(Identifier(Name))
  BY NameDeclared
<1>3. Comp \in Compiling /\ Locals \in Seq(Local)
  BY SmoothOK, CompOK
<1>4. l = Locals
  BY DEF Declared, Initialised
<1>5. WithLocals(Comp, l) = Comp
  BY <1>3, <1>4 DEF WithLocals, Locals, Compiling
<1>6. Identifier(Name) \in Kept /\ Identifier(Name).type = "str"
  BY SmoothOK, TokenTexts, IdentifierOK
<1>7. Global = Operand(Identifier(Name))
  BY DEF Global
<1>8. LET f == WithConstant(Identifier(Name)) IN
      /\ f \in Fun /\ Operand(Identifier(Name)) \in Nat
      /\ Stands([comp |-> Comp, fun |-> f], Named(p, Operand(Identifier(Name))))
  BY <1>2, <1>6, SmoothOK, StandsConstant
<1> QED  BY <1>2, <1>3, <1>5, <1>7, <1>8

(* A local.                                                                *)
LEMMA LocalDeclared ==
  ASSUME Smooth, pos > 0, Scope > 0,
         NEW l, NEW chunk, NEW failed, ParseVariable(l, chunk, failed), NEW p \in Point,
         LocalsOK(Comp, p), ~p.uninit, l = Declared \/ l = Initialised(Declared)
  PROVE  LET c == WithLocals(Comp, l) IN
         /\ c \in Compiling /\ c.fn = Comp.fn /\ SetCompiler(c) /\ SetChunk(chunk) /\ Global = 0
         /\ l = Declared => LocalsOK(c, Declares(p))
         /\ l = Initialised(Declared) => LocalsOK(c, Begins(Declares(p)))
         /\ Declares(p).L > Base(Declares(p))
<1> DEFINE a == Append(Locals, [name |-> Name, depth |-> -1])
           b == [a EXCEPT ![Len(a)].depth = Scope]
           u == Declares(p)
           d == WithLocals(Comp, a)
<1>1. SetCompiler(WithLocals(Comp, l)) /\ SetChunk(chunk) /\ Len(Locals) # Byte
  BY NameDeclared
<1>2. Comp \in Compiling /\ Locals \in Seq(Local) /\ Len(Locals) \in 1..Byte /\ Scope \in Nat
  BY SmoothOK, CompOK
<1>3. Len(Locals) < Byte
  BY <1>1, <1>2, CompilerAssumption
<1>4. Declared = a /\ Initialised(Declared) = b
  BY <1>3 DEF Declared, Initialised
<1>5. Name \in Text
  BY SmoothOK, TokenTexts
<1>6. /\ a \in Seq(Local) /\ Len(a) = p.L + 1 /\ LocalsOK(d, u)
  BY <1>2, <1>5, LocalsDeclared DEF Locals, Scope
<1>7. u \in Point /\ u.bases = p.bases /\ u.L = p.L + 1
  BY DeclaresIs
<1>8. u.L > Base(u)
  <2>1. p.bases \in Seq(Nat) /\ p.L \in Nat /\ Comp.scope = Len(p.bases)
    BY PointIs DEF LocalsOK
  <2>2. Len(p.bases) \in 1..Comp.scope
    BY <2>1, <1>2 DEF Scope
  <2>3. p.bases[Len(p.bases)] \in 1..p.L
    BY <2>2 DEF LocalsOK
  <2> HIDE DEF u
  <2> QED  BY <2>1, <2>3, <1>7 DEF Base
<1> HIDE DEF a, u
<1>9. d \in Compiling /\ d.locals = a /\ d.scope = Scope /\ d.fn = Comp.fn
  BY <1>2, <1>6, WithLocalsIs DEF Scope
<1>10. b \in Seq(Local) /\ LocalsOK(WithLocals(d, b), Begins(u))
  <2>1. d.scope > 0
    BY <1>9
  <2> HIDE DEF d
  <2> QED  BY <1>6, <1>7, <1>8, <1>9, <2>1, LocalsBegin
<1>11. WithLocals(d, b) = WithLocals(Comp, b)
  BY <1>2 DEF WithLocals, Compiling
<1>12. WithLocals(Comp, b) \in Compiling /\ WithLocals(Comp, b).fn = Comp.fn
  BY <1>2, <1>10, WithLocalsIs
<1>13. Global = 0
  BY DEF Global
<1> HIDE DEF b
<1>14. CASE l = a
  <2>1. l = Initialised(Declared) => LocalsOK(WithLocals(Comp, l), Begins(u))
    BY <1>4, <1>14, <1>10, <1>11
  <2> QED  BY <2>1, <1>1, <1>4, <1>6, <1>8, <1>9, <1>13, <1>14 DEF u
<1>15. CASE l = b
  <2>1. l = Declared => LocalsOK(WithLocals(Comp, l), u)
    BY <1>4, <1>15, <1>6
  <2>2. LocalsOK(WithLocals(Comp, l), Begins(u))
    BY <1>10, <1>11, <1>15
  <2> QED  BY <2>1, <2>2, <1>1, <1>4, <1>8, <1>12, <1>13, <1>15 DEF u
<1> QED  BY <1>4, <1>14, <1>15

(* The value of a global that is declared, and its definition.             *)
LEMMA DefGood ==
  ASSUME NEW n \in Nat
  PROVE  /\ IA("DEF", n) \in Instr /\ Effect(IA("DEF", n)) = -1
         /\ \A p : p.D \in Int /\ p.D >= 2 /\ n \in p.names => Good(IA("DEF", n), p)
<1> DEFINE i == IA("DEF", n)
<1>1. i \in Instr /\ i.op = "DEF" /\ i.a = n
  BY IsInstr DEF Ops, IA
<1> HIDE DEF i
<1>2. Needs(i) = 1 /\ Effect(i) = -1
  BY <1>1 DEF Needs, Effect, BinaryOps, UnaryOps
<1>3. \A p : p.D \in Int /\ p.D >= 2 /\ n \in p.names => Good(i, p)
  BY <1>1, <1>2 DEF Good, JumpOps, NameOps
<1> QED  BY <1>1, <1>2, <1>3 DEF i

(* One value more, and back.                                               *)
LEMMA ThereAndBack ==
  ASSUME NEW p \in Point, NEW q \in Point, ~p.loose, ~p.uninit, p.D = p.L, p.L >= 1, p.bases = <<>>,
         q.rest = p.rest, q.bases = p.bases, ~q.loose, q.L = p.L, q.D = p.D, ~q.uninit,
         q.pend = p.pend, p.names \subseteq q.names
  PROVE  LET u == Plus(q, 1)
             v == Plus(u, -1)
         IN  /\ u \in Point /\ ~u.loose /\ Only(u) /\ u.D \in Int /\ u.D >= 2 /\ u.bases = <<>>
             /\ u.names = q.names /\ InExpr(q) /\ ~q.uninit /\ q.D >= 1
             /\ v \in Point /\ InList(v) /\ v.bases = <<>>
             /\ Flow(v, Loosened(p)) /\ Flow(Loosened(v), Loosened(p)) /\ Loosened(p) \in Point
<1> DEFINE u == Plus(q, 1)
           v == Plus(u, -1)
<1>1. p.L \in Nat /\ p.D \in Int /\ q.D \in Int /\ 1 \in Int /\ -1 \in Int
  BY PointIs
<1>2. InExpr(q) /\ q.D >= 1
  BY <1>1 DEF InExpr
<1>3. /\ u \in Point /\ ~u.loose /\ u.D = q.D + 1 /\ u.L = q.L /\ (u.uninit <=> q.uninit)
      /\ u.names = q.names /\ u.pend = q.pend /\ u.bases = q.bases /\ u.rest = q.rest
  BY <1>2, OneUp
<1> HIDE DEF u
<1>4. Only(u) /\ u.D \in Int /\ u.D >= 2 /\ u.bases = <<>>
  BY <1>1, <1>3 DEF Only
<1>5. /\ v \in Point /\ v.rest = u.rest /\ v.bases = u.bases /\ (v.loose <=> u.loose)
      /\ v.L = u.L /\ v.D = u.D + -1 /\ (v.uninit <=> u.uninit)
      /\ v.pend = u.pend /\ v.names = u.names
  <2>1. u \in Point /\ -1 \in Int
    BY <1>1, <1>3
  <2> QED  BY <2>1, PlusIs
<1> HIDE DEF v
<1>6. v.D = v.L /\ ~v.loose /\ ~v.uninit
  BY <1>1, <1>3, <1>5
<1>7. InList(v) /\ v.bases = <<>>
  BY <1>6, <1>5, <1>3 DEF InList
<1>8. Flow(v, Loosened(p)) /\ Loosened(p) \in Point
  BY <1>3, <1>5, <1>7, FlowLoose
<1> DEFINE w == Loosened(v)
<1>9. /\ w \in Point /\ w.rest = v.rest /\ w.bases = v.bases /\ w.loose
      /\ w.pend = v.pend /\ w.names = v.names
  BY <1>5, LoosenedIs
<1> HIDE DEF w
<1>10. InList(w)
  BY <1>9 DEF InList
<1>11. Flow(w, Loosened(p))
  BY <1>3, <1>5, <1>9, <1>10, FlowLoose
<1> QED  BY <1>2, <1>3, <1>4, <1>5, <1>7, <1>8, <1>11 DEF u, v, w

LEMMA GlobalCalls ==
  ASSUME NEW p \in Point, NEW q \in Point, ~p.loose, ~p.uninit, p.D = p.L, p.L >= 1, p.bases = <<>>,
         q.rest = p.rest, q.bases = p.bases, ~q.loose, q.L = p.L, q.D = p.D, ~q.uninit,
         q.pend = p.pend, p.names \subseteq q.names, NEW n \in q.names
  PROVE  /\ \A d \in {"initializer", "function"} :
              Leads(<<Call(d), DefineVariable(n)>>, q, Loosened(p))
         /\ Leads(<<Call("initializer"), Output(<<IA("DEF", n)>>), Call("globals")>>, q, Loosened(p))
<1> DEFINE u == Plus(q, 1)
           v == Plus(u, -1)
           r == Loosened(p)
           o == Output(<<IA("DEF", n)>>)
           g == Call("globals")
           t == DefineVariable(n)
<1>0. n \in Nat
  BY PointIs
<1>1. /\ u \in Point /\ ~u.loose /\ Only(u) /\ u.D \in Int /\ u.D >= 2 /\ u.bases = <<>>
      /\ u.names = q.names /\ InExpr(q) /\ ~q.uninit /\ q.D >= 1
      /\ v \in Point /\ InList(v) /\ v.bases = <<>>
      /\ Flow(v, r) /\ Flow(Loosened(v), r) /\ r \in Point
  BY ThereAndBack
<1>2. ASSUME NEW d \in {"initializer", "function"}
      PROVE  Call(d) \in ACall /\ Normal(Call(d)) /\ Pre(Call(d), q) /\ Post(Call(d), q) = u
  BY <1>1, CallIs DEF Simple, SimpleCalls
<1>3. t \in ACall /\ Normal(t) /\ Pre(t, u) /\ Post(t, u) = v
  BY <1>0, <1>1, DefineIs
<1>4. g \in ACall /\ Normal(g) /\ Pre(g, v) /\ Post(g, v) = Loosened(v)
  BY <1>1, CallIs DEF Simple, SimpleCalls
<1>5. o \in ACall /\ Normal(o) /\ Pre(o, u) /\ Post(o, u) = v
  <2> DEFINE m == Effect(IA("DEF", n))
  <2>1. IA("DEF", n) \in Instr /\ m = -1 /\ Good(IA("DEF", n), u)
    BY <1>0, <1>1, DefGood
  <2>2. o \in ACall /\ Normal(o) /\ Pre(o, u) /\ Post(o, u) = Plus(u, m)
    BY <2>1, <1>1, Output1
  <2> QED  BY <2>1, <2>2
<1> HIDE DEF u, v, r, o, g, t
<1>6. ASSUME NEW d \in {"initializer", "function"}
      PROVE  Leads(<<Call(d), t>>, q, r)
  <2> DEFINE i == Call(d)
  <2>1. i \in ACall /\ Normal(i) /\ Pre(i, q) /\ Post(i, q) = u
    BY <1>2
  <2> HIDE DEF i
  <2>2. Leads(<<i, t>>, q, r)
    BY <2>1, <1>1, <1>3, Leads2
  <2> QED  BY <2>2 DEF i
<1>7. Leads(<<Call("initializer"), o, g>>, q, r)
  <2> DEFINE i == Call("initializer")
  <2>1. i \in ACall /\ Normal(i) /\ Pre(i, q) /\ Post(i, q) = u
    BY <1>2
  <2> HIDE DEF i
  <2>2. Pre(o, Post(i, q)) /\ Pre(g, Post(o, Post(i, q))) /\ Flow(Post(g, Post(o, Post(i, q))), r)
    BY <2>1, <1>1, <1>4, <1>5
  <2>3. Leads(<<i, o, g>>, q, r)
    BY <2>1, <2>2, <1>1, <1>4, <1>5, Leads3
  <2> QED  BY <2>3 DEF i
<1> QED  BY <1>6, <1>7 DEF r, o, g, t

(* The value of a local that is declared.                                  *)
LEMMA LocalCalls ==
  ASSUME NEW p \in Point, NEW q \in Point, ~p.loose, p.D = p.L, p.L >= 1, p.bases # <<>>,
         q.rest = p.rest, q.bases = p.bases, ~q.loose, q.L = p.L + 1, q.D = p.D,
         q.pend = p.pend, p.names \subseteq q.names, q.L > Base(q),
         NEW d, d = "initializer" \/ (d = "function" /\ ~q.uninit), d = "initializer" => q.uninit
  PROVE  Leads(<<Call(d), DefineVariable(0)>>, q, Loosened(p))
<1> DEFINE u == Plus(q, 1)
           v == Begins(u)
           r == Loosened(p)
           t == DefineVariable(0)
           i == Call(d)
<1>1. p.L \in Nat /\ p.D \in Int /\ q.D \in Int /\ 1 \in Int /\ q.D >= 1
  BY PointIs
<1>2. i \in ACall /\ Normal(i) /\ Pre(i, q) /\ Post(i, q) = u
  <2>1. CASE d = "initializer"
    <3>1. InExpr(q)
      BY <2>1, <1>1 DEF InExpr
    <3> QED  BY <2>1, <3>1, CallIs DEF Simple, SimpleCalls
  <2>2. CASE d = "function" /\ ~q.uninit
    BY <2>2, <1>1, CallIs DEF Simple, SimpleCalls
  <2> QED  BY <2>1, <2>2
<1>3. /\ u \in Point /\ u.rest = q.rest /\ u.bases = q.bases /\ (u.loose <=> q.loose)
      /\ u.L = q.L /\ u.D = q.D + 1 /\ (u.uninit <=> q.uninit)
      /\ u.pend = q.pend /\ u.names = q.names
  BY <1>1, PlusIs
<1> HIDE DEF u
<1>4. ~u.loose /\ u.D = u.L /\ u.L > Base(u) /\ u.bases # <<>>
  BY <1>1, <1>3 DEF Base
<1>5. t \in ACall /\ Normal(t) /\ Pre(t, u) /\ Post(t, u) = v
  <2>1. 0 \in Nat
    OBVIOUS
  <2> QED  BY <2>1, <1>4, DefineIs
<1>6. /\ v \in Point /\ v.rest = u.rest /\ v.bases = u.bases /\ (v.loose <=> u.loose)
      /\ v.L = u.L /\ v.D = u.D /\ ~v.uninit
      /\ v.pend = u.pend /\ v.names = u.names
  BY <1>3, BeginsIs
<1> HIDE DEF v
<1>7. InList(v)
  BY <1>4, <1>6 DEF InList
<1>8. Flow(v, r) /\ r \in Point
  BY <1>3, <1>6, <1>7, FlowLoose
<1> HIDE DEF r, t, i
<1>9. Leads(<<i, t>>, q, r)
  BY <1>2, <1>5, <1>8, Leads2
<1> QED  BY <1>9 DEF r, t, i

(* The step that declares a variable, of the kinds with a value.           *)
LEMMA DeepDeclared ==
  ASSUME Smooth, NEW name, At(name), NEW d, NEW l,
         \/ name = "varDeclaration" /\ d = "initializer" /\ l = Declared
         \/ name = "funDeclaration" /\ d = "function" /\ l = Initialised(Declared),
         ParseVariable(l, Chunk, FALSE), Continue(<<Call(d), DefineVariable(Global)>>)
  PROVE  DeepInv'
<1>1. PICK p \in Point : Now(p)
  BY SmoothAt
<1>2. Task.do = name /\ Task \in ACall /\ Tail(tasks) \in Seq(ACall) /\ pos > 0
  BY SmoothAt
<1>3. InList(p) /\ Post(Task, p) = Loosened(p) /\ Stands(Here, p) /\ LocalsOK(Comp, p)
      /\ Loosened(p) \in Point
  <2>1. Task.do \in Listed
    BY <1>2 DEF Listed
  <2>2. Pre(Task, p) <=> InList(p)
    BY <2>1, PreIs
  <2>3. Post(Task, p) = Loosened(p)
    BY <2>1, PostIs
  <2> QED  BY <2>2, <2>3, <1>1, NowIs
<1>4. /\ ~p.loose /\ ~p.uninit /\ p.D = p.L /\ p.L \in Nat /\ p.D \in Int /\ p.L >= 1
      /\ (p.bases = <<>> <=> Scope = 0)
  BY <1>1, <1>3, SmoothOK, ListIs
<1>5. Scope \in Nat /\ Chunk \in Fun
  BY SmoothOK, CompOK
<1>6. d \in {"initializer", "function"} /\ (l = Declared \/ l = Initialised(Declared))
  OBVIOUS
<1>7. CASE Scope = 0
  <2> DEFINE n == Global
             q == Named(p, n)
             f == WithConstant(Identifier(Name))
  <2>1. /\ f \in Fun /\ SetChunk(f) /\ SetCompiler(Comp) /\ Comp \in Compiling
        /\ n \in Nat /\ Stands([comp |-> Comp, fun |-> f], q)
    BY <1>2, <1>3, <1>6, <1>7, GlobalDeclared
  <2> HIDE DEF n, f
  <2>2. /\ q \in Point /\ q.rest = p.rest /\ q.bases = p.bases /\ (q.loose <=> p.loose)
        /\ q.L = p.L /\ q.D = p.D /\ (q.uninit <=> p.uninit)
        /\ q.pend = p.pend /\ q.names = p.names \cup {n}
    BY <2>1, NamedIs
  <2> HIDE DEF q
  <2>3. ~q.loose /\ ~q.uninit /\ p.names \subseteq q.names /\ n \in q.names /\ p.bases = <<>>
    BY <1>4, <1>7, <2>2
  <2>4. Leads(<<Call(d), DefineVariable(n)>>, q, Loosened(p))
    BY <1>4, <1>6, <2>2, <2>3, GlobalCalls
  <2> QED  BY <2>1, <2>2, <2>4, <1>1, <1>2, <1>3, SmoothStay DEF n
<1>8. CASE Scope > 0
  <2> DEFINE c == WithLocals(Comp, l)
             u == Declares(p)
             v == Begins(u)
  <2>1. /\ c \in Compiling /\ c.fn = Comp.fn /\ SetCompiler(c) /\ SetChunk(Chunk) /\ Global = 0
        /\ l = Declared => LocalsOK(c, u)
        /\ l = Initialised(Declared) => LocalsOK(c, v)
        /\ u.L > Base(u)
    BY <1>2, <1>3, <1>4, <1>6, <1>8, LocalDeclared
  <2>2. /\ u \in Point /\ u.rest = p.rest /\ u.bases = p.bases /\ (u.loose <=> p.loose)
        /\ u.L = p.L + 1 /\ u.D = p.D /\ u.uninit
        /\ u.pend = p.pend /\ u.names = p.names /\ ~u.empty
    BY DeclaresIs
  <2> HIDE DEF u, c
  <2>3. /\ v \in Point /\ v.rest = u.rest /\ v.bases = u.bases /\ (v.loose <=> u.loose)
        /\ v.L = u.L /\ v.D = u.D /\ ~v.uninit
        /\ v.pend = u.pend /\ v.names = u.names /\ ~v.empty
    BY <2>2, BeginsIs
  <2> HIDE DEF v
  <2>4. ASSUME NEW q \in Point, q.rest = p.rest, q.bases = p.bases, ~q.loose, q.L = p.L + 1,
               q.D = p.D, q.pend = p.pend, q.names = p.names, ~q.empty, q.L > Base(q),
               LocalsOK(c, q), d = "initializer" \/ (d = "function" /\ ~q.uninit),
               d = "initializer" => q.uninit
        PROVE  DeepInv'
    <3>1. Stands([comp |-> c, fun |-> Chunk], q)
      <4> DEFINE e == [comp |-> c, fun |-> Chunk]
      <4>1. CodeOK(Chunk, p.D, p.pend, p.rest = <<>>) /\ p.names \subseteq StrNames(Chunk)
        BY <1>1, NowIs
      <4>2. e.comp = c /\ e.fun = Chunk
        OBVIOUS
      <4> HIDE DEF e
      <4>3. CodeOK(e.fun, q.D, q.pend, q.rest = <<>>) /\ q.names \subseteq StrNames(e.fun)
        BY <4>1, <4>2, <2>4
      <4>4. LocalsOK(e.comp, q)
        BY <4>2, <2>4
      <4>5. Stands(e, q)
        BY <4>3, <4>4, <2>4 DEF Stands
      <4> QED  BY <4>5 DEF e
    <3>2. p.bases # <<>> /\ p.names \subseteq q.names
      BY <1>4, <1>8, <2>4
    <3>3. Leads(<<Call(d), DefineVariable(0)>>, q, Loosened(p))
      BY <1>4, <2>4, <3>2, LocalCalls
    <3>4. Continue(<<Call(d), DefineVariable(0)>>)
      BY <2>1
    <3> QED  BY <2>1, <2>4, <3>1, <3>3, <3>4, <1>1, <1>2, <1>3, <1>5, SmoothStay
  <2>5. CASE d = "initializer" /\ l = Declared
    BY <2>1, <2>2, <2>4, <2>5, <1>4
  <2>6. CASE d = "function" /\ l = Initialised(Declared)
    <3>1. v.L > Base(v) /\ ~v.loose /\ v.bases = p.bases /\ v.rest = p.rest /\ v.pend = p.pend
          /\ v.names = p.names /\ v.L = p.L + 1 /\ v.D = p.D
      BY <2>1, <2>2, <2>3, <1>4 DEF Base
    <3> QED  BY <3>1, <2>1, <2>3, <2>4, <2>6
  <2> QED  BY <2>5, <2>6
<1> QED  BY <1>5, <1>7, <1>8

LEMMA DeepVarDeclaration ==
  ASSUME Smooth, VarDeclaration PROVE DeepInv'
<1> DEFINE name == "varDeclaration"
           d == "initializer"
           l == Declared
<1>1. /\ At(name) /\ ParseVariable(l, Chunk, FALSE) /\ Continue(<<Call(d), DefineVariable(Global)>>)
  BY DEF VarDeclaration
<1>2. name = "varDeclaration" /\ d = "initializer" /\ l = Declared
  OBVIOUS
<1> HIDE DEF name, d, l
<1> QED  BY <1>1, <1>2, DeepDeclared

LEMMA DeepFunDeclaration ==
  ASSUME Smooth, FunDeclaration PROVE DeepInv'
<1> DEFINE name == "funDeclaration"
           d == "function"
           l == Initialised(Declared)
<1>1. /\ At(name) /\ ParseVariable(l, Chunk, FALSE) /\ Continue(<<Call(d), DefineVariable(Global)>>)
  BY DEF FunDeclaration
<1>2. name = "funDeclaration" /\ d = "function" /\ l = Initialised(Declared)
  OBVIOUS
<1> HIDE DEF name, d, l
<1> QED  BY <1>1, <1>2, DeepDeclared

LEMMA DeepGlobalDeclaration ==
  ASSUME Smooth, GlobalDeclaration PROVE DeepInv'
<1>1. PICK p \in Point : Now(p)
  BY SmoothAt DEF GlobalDeclaration
<1>2. Task.do = "globalDeclaration" /\ Task \in ACall /\ Tail(tasks) \in Seq(ACall) /\ pos > 0
  BY SmoothAt DEF GlobalDeclaration
<1>3. InList(p) /\ p.bases = <<>> /\ Post(Task, p) = Loosened(p) /\ Stands(Here, p)
  BY <1>1, <1>2, NowIs, PreIs, PostIs
<1>4. /\ ~p.loose /\ ~p.uninit /\ p.D = p.L /\ p.L \in Nat /\ p.D \in Int /\ p.L >= 1
      /\ Scope = 0
  BY <1>1, <1>3, SmoothOK, ListIs
<1> DEFINE n == Global
           q == Named(p, n)
           f == WithConstant(Identifier(Name))
           l == Declared
<1>5. /\ ParseVariable(l, Chunk, FALSE)
      /\ Continue(<<Call("initializer"), Output(<<IA("DEF", n)>>), Call("globals")>>)
  BY DEF GlobalDeclaration
<1>6. l = Declared
  OBVIOUS
<1> HIDE DEF l
<1>7. /\ f \in Fun /\ SetChunk(f) /\ SetCompiler(Comp) /\ Comp \in Compiling
      /\ n \in Nat /\ Stands([comp |-> Comp, fun |-> f], q)
  BY <1>2, <1>3, <1>4, <1>5, <1>6, GlobalDeclared
<1> HIDE DEF n, f
<1>8. /\ q \in Point /\ q.rest = p.rest /\ q.bases = p.bases /\ (q.loose <=> p.loose)
      /\ q.L = p.L /\ q.D = p.D /\ (q.uninit <=> p.uninit)
      /\ q.pend = p.pend /\ q.names = p.names \cup {n}
  BY <1>7, NamedIs
<1> HIDE DEF q
<1>9. ~q.loose /\ ~q.uninit /\ p.names \subseteq q.names /\ n \in q.names
  BY <1>4, <1>8
<1>10. Leads(<<Call("initializer"), Output(<<IA("DEF", n)>>), Call("globals")>>, q, Loosened(p))
  BY <1>3, <1>4, <1>8, <1>9, GlobalCalls
<1> QED  BY <1>5, <1>7, <1>8, <1>10, <1>1, <1>2, <1>3, SmoothStay

-----------------------------------------------------------------------------
(* Definitions and parameters.                                             *)

LEMMA ChunkStays ==
  ASSUME CompilersOK(compilers, functions), UNCHANGED functions
  PROVE  SetChunk(Chunk)
<1>1. functions \in Seq(Fun) /\ Comp.fn \in DOMAIN functions
  BY CompOK DEF CompilersOK
<1> QED  BY <1>1 DEF SetChunk, Chunk

(* The same code, and another state of the compiler.                       *)
LEMMA StandsStill ==
  ASSUME NEW p \in Point, Stands(Here, p), NEW c, NEW q \in Point, LocalsOK(c, q), ~q.loose,
         q.D = p.D, q.pend = p.pend, q.names = p.names, q.rest = p.rest, ~q.empty
  PROVE  Stands([comp |-> c, fun |-> Chunk], q)
<1> DEFINE e == [comp |-> c, fun |-> Chunk]
<1>1. CodeOK(Chunk, p.D, p.pend, p.rest = <<>>) /\ p.names \subseteq StrNames(Chunk)
  BY StandsIs DEF Here
<1>2. e.comp = c /\ e.fun = Chunk
  OBVIOUS
<1> HIDE DEF e
<1>3. CodeOK(e.fun, q.D, q.pend, q.rest = <<>>) /\ q.names \subseteq StrNames(e.fun)
  BY <1>1, <1>2
<1>4. LocalsOK(e.comp, q)
  BY <1>2
<1>5. Stands(e, q)
  BY <1>3, <1>4 DEF Stands
<1> QED  BY <1>5 DEF e

LEMMA DeepDefine ==
  ASSUME Smooth, Define PROVE DeepInv'
<1>1. PICK p \in Point : Now(p)
  BY SmoothAt DEF Define
<1>2. Task.do = "defineVariable" /\ Task \in ACall /\ Tail(tasks) \in Seq(ACall)
  BY SmoothAt DEF Define
<1>3. /\ IF p.bases = <<>> THEN Only(p) /\ Task.global \in p.names
         ELSE ~p.loose /\ p.D = p.L /\ p.L > Base(p)
      /\ Post(Task, p) = IF p.bases = <<>> THEN Plus(p, -1) ELSE Begins(p)
      /\ Stands(Here, p) /\ LocalsOK(Comp, p) /\ ~p.loose /\ Post(Task, p) \in Point
  BY <1>1, <1>2, NowIs, PreIs, PostIs
<1>4. Scope \in Nat /\ Scope = Len(p.bases) /\ p.bases \in Seq(Nat) /\ Comp \in Compiling /\ Chunk \in Fun
      /\ Locals \in Seq(Local)
  BY <1>3, PointIs, SmoothOK, CompOK DEF LocalsOK, Scope
<1>5. CASE p.bases = <<>>
  <2>1. Scope = 0
    BY <1>4, <1>5
  <2> DEFINE g == Task.global
             i == IA("DEF", g)
  <2>2. Emit(<<i>>) /\ UNCHANGED compilers /\ Continue(<<>>)
    BY <2>1 DEF Define
  <2>3. g \in p.names /\ g \in Nat /\ Only(p) /\ Post(Task, p) = Plus(p, -1)
    BY <1>2, <1>3, <1>5, CallFields
  <2> HIDE DEF g
  <2>4. p.D \in Int /\ p.D >= 2
    BY <2>3, OnlyIs
  <2>5. i \in Instr /\ Effect(i) = -1 /\ Good(i, p)
    BY <2>3, <2>4, DefGood
  <2> HIDE DEF i
  <2>6. <<i>> \in Seq(Instr) /\ Effects(<<i>>) = -1 /\ GoodCode(<<i>>, p)
    BY <2>5, Just
  <2> QED  BY <2>2, <2>3, <2>6, <1>1, <1>2, SmoothEmitted
<1>6. CASE p.bases # <<>>
  <2>1. Scope > 0
    BY <1>4, <1>6
  <2> DEFINE l == [Locals EXCEPT ![Len(Locals)].depth = Scope]
             c == WithLocals(Comp, l)
             q == Begins(p)
  <2>2. SetCompiler(c) /\ UNCHANGED functions /\ Continue(<<>>)
    <3>1. Initialised(Comp.locals) = l
      BY <2>1 DEF Initialised, Locals
    <3>2. SetCompiler([Comp EXCEPT !.locals = Initialised(Comp.locals)]) /\ UNCHANGED functions /\ Continue(<<>>)
      BY <2>1 DEF Define
    <3> QED  BY <3>1, <3>2 DEF WithLocals
  <2>3. l \in Seq(Local) /\ LocalsOK(c, q)
    BY <1>3, <1>4, <1>6, <2>1, LocalsBegin DEF Locals, Scope
  <2> HIDE DEF l
  <2>4. c \in Compiling /\ c.fn = Comp.fn
    BY <1>4, <2>3, WithLocalsIs
  <2> HIDE DEF c
  <2>5. /\ q \in Point /\ q.rest = p.rest /\ q.bases = p.bases /\ (q.loose <=> p.loose)
        /\ q.L = p.L /\ q.D = p.D /\ ~q.uninit
        /\ q.pend = p.pend /\ q.names = p.names /\ ~q.empty
    BY BeginsIs
  <2>6. Post(Task, p) = q
    BY <1>3, <1>6
  <2> HIDE DEF q
  <2>7. ~q.loose
    BY <1>3, <2>5
  <2>8. Stands([comp |-> c, fun |-> Chunk], q)
    BY <1>3, <2>3, <2>5, <2>7, StandsStill
  <2>9. SetChunk(Chunk)
    BY <2>2, SmoothOK, ChunkStays
  <2>10. Leads(<<>>, q, Post(Task, p))
    BY <2>5, <2>6, Leads0, FlowSelf
  <2> QED  BY <2>2, <2>4, <2>5, <2>8, <2>9, <2>10, <1>1, <1>2, <1>4, SmoothStay
<1> QED  BY <1>5, <1>6

(* Without code.                                                           *)
LEMMA NoCode ==
  ASSUME NEW f \in Fun, f.code = <<>>, NEW script
  PROVE  /\ CodeOK(f, f.arity + 1, {}, script)
         /\ \A D, pend : CodeOK(f, D, pend, script) => D = f.arity + 1 /\ pend = {}
<1>1. Len(f.code) = 0 /\ f.arity \in Nat /\ f.arity + 1 \in Int
  BY FunIs
<1> DEFINE D0 == f.arity + 1
           d == [k \in 1..1 |-> D0]
<1>2. Walk(f, d, {}, script) /\ d[Len(f.code) + 1] = D0
  BY <1>1 DEF Walk
<1>3. CodeOK(f, D0, {}, script)
  BY <1>2 DEF CodeOK
<1>4. ASSUME NEW D, NEW pend, CodeOK(f, D, pend, script)
      PROVE  D = D0 /\ pend = {}
  <2>1. PICK e : Walk(f, e, pend, script) /\ e[Len(f.code) + 1] = D
    BY <1>4 DEF CodeOK
  <2>2. e[1] = D0 /\ \A x \in pend : x[1] \in 1..Len(f.code)
    BY <2>1 DEF Walk
  <2> QED  BY <2>1, <2>2, <1>1
<1> QED  BY <1>3, <1>4

(* One more parameter: on the stack before the function begins.            *)
Takes(p) == [p EXCEPT !.L = @ + 1, !.D = @ + 1]

LEMMA TakesIs ==
  ASSUME NEW p \in Point
  PROVE  LET q == Takes(p) IN
         /\ q \in Point /\ q.rest = p.rest /\ q.bases = p.bases /\ (q.loose <=> p.loose)
         /\ q.L = p.L + 1 /\ q.D = p.D + 1 /\ (q.uninit <=> p.uninit)
         /\ q.pend = p.pend /\ q.names = p.names /\ (q.empty <=> p.empty)
<1> DEFINE m == p.L + 1
           n == p.D + 1
<1>1. Takes(p) = [p EXCEPT !.L = m, !.D = n] /\ m \in Nat /\ n \in Int
  BY PointIs DEF Takes
<1> HIDE DEF m, n
<1>2. LET q == [p EXCEPT !.L = m, !.D = n] IN
      /\ q \in Point /\ q.rest = p.rest /\ q.bases = p.bases /\ (q.loose <=> p.loose)
      /\ q.L = m /\ q.D = n /\ (q.uninit <=> p.uninit)
      /\ q.pend = p.pend /\ q.names = p.names /\ (q.empty <=> p.empty)
  BY <1>1 DEF Point
<1> QED  BY <1>1, <1>2 DEF m, n

LEMMA LocalsSame ==
  ASSUME NEW c, NEW p, NEW q, LocalsOK(c, p), q.bases = p.bases, q.L = p.L, q.uninit <=> p.uninit
  PROVE  LocalsOK(c, q)
BY DEF LocalsOK

WithArity(f, n) == [f EXCEPT !.arity = n]

LEMMA WithArityIs ==
  ASSUME NEW f \in Fun, NEW n \in Nat
  PROVE  LET g == WithArity(f, n) IN
         g \in Fun /\ g.code = f.code /\ g.consts = f.consts /\ g.arity = n
BY DEF WithArity, Fun

LEMMA DeepParameter ==
  ASSUME Smooth, Parameter PROVE DeepInv'
<1>1. PICK p \in Point : Now(p)
  BY SmoothAt DEF Parameter
<1>2. Task.do = "parameter" /\ Task \in ACall /\ Tail(tasks) \in Seq(ACall) /\ pos > 0
  BY SmoothAt DEF Parameter
<1>3. InList(p) /\ p.bases = << 1 >> /\ p.empty /\ Post(Task, p) = Loosened(p) /\ Stands(Here, p)
      /\ LocalsOK(Comp, p)
  <2>1. Task.do \in Heads
    BY <1>2 DEF Heads
  <2>2. Pre(Task, p) <=> InList(p) /\ p.bases = << 1 >> /\ p.empty
    BY <2>1, PreIs
  <2>3. Post(Task, p) = Loosened(p)
    BY <2>1, PostIs
  <2> QED  BY <2>2, <2>3, <1>1, NowIs
<1>4. /\ ~p.loose /\ ~p.uninit /\ p.D = p.L /\ p.L \in Nat /\ p.D \in Int /\ p.L >= 1
      /\ Scope = Len(p.bases)
  BY <1>1, <1>3, SmoothOK, ListIs
<1>5. Scope > 0 /\ Chunk \in Fun
  <2>1. Len(<< 1 >>) = 1
    OBVIOUS
  <2> QED  BY <1>3, <1>4, <2>1, SmoothOK, CompOK
<1> DEFINE n == Chunk.arity + 1
           f == WithArity(Chunk, n)
           l == Initialised(Declared)
           c == WithLocals(Comp, l)
           u == Declares(p)
           v == Begins(u)
           q == Takes(p)
           failed == n > MaxArgs
           t == Call("parameters")
<1>6. ParseVariable(l, f, failed) /\ Continue(<<t>>)
  BY DEF Parameter, WithArity
<1>7. l = Declared \/ l = Initialised(Declared)
  OBVIOUS
<1>8. l = Initialised(Declared)
  OBVIOUS
<1>9. Chunk.code = <<>> /\ p.pend = {} /\ p.D = n /\ n \in Nat /\ CodeOK(f, n + 1, {}, p.rest = <<>>)
      /\ f \in Fun /\ f.code = <<>> /\ f.consts = Chunk.consts /\ p.names \subseteq StrNames(Chunk)
  <2> DEFINE script == (p.rest = <<>>)
  <2>1. CodeOK(Chunk, p.D, p.pend, script) /\ p.names \subseteq StrNames(Chunk) /\ Chunk.code = <<>>
    BY <1>1, <1>3, NowIs
  <2> HIDE DEF script
  <2>2. p.D = n /\ p.pend = {}
    BY <1>5, <2>1, NoCode
  <2>3. n \in Nat
    BY <1>5, FunIs
  <2>4. f \in Fun /\ f.code = <<>> /\ f.consts = Chunk.consts /\ f.arity = n
    BY <1>5, <2>1, <2>3, WithArityIs
  <2> HIDE DEF f
  <2>5. CodeOK(f, n + 1, {}, script)
    BY <2>4, NoCode
  <2> QED  BY <2>1, <2>2, <2>3, <2>4, <2>5 DEF script
<1> HIDE DEF l, f, failed, n
<1>10. c \in Compiling /\ c.fn = Comp.fn /\ SetCompiler(c) /\ SetChunk(f) /\ LocalsOK(c, v)
  BY <1>2, <1>3, <1>4, <1>5, <1>6, <1>7, <1>8, LocalDeclared
<1> HIDE DEF c
<1>11. u \in Point /\ u.bases = p.bases /\ u.L = p.L + 1
  BY DeclaresIs
<1> HIDE DEF u
<1>12. v.bases = u.bases /\ v.L = u.L /\ ~v.uninit
  BY <1>11, BeginsIs
<1> HIDE DEF v
<1>13. /\ q \in Point /\ q.rest = p.rest /\ q.bases = p.bases /\ (q.loose <=> p.loose)
       /\ q.L = p.L + 1 /\ q.D = p.D + 1 /\ (q.uninit <=> p.uninit)
       /\ q.pend = p.pend /\ q.names = p.names /\ (q.empty <=> p.empty)
  BY TakesIs
<1> HIDE DEF q
<1>14. LocalsOK(c, q)
  BY <1>4, <1>10, <1>11, <1>12, <1>13, LocalsSame
<1>15. Stands([comp |-> c, fun |-> f], q)
  <2> DEFINE e == [comp |-> c, fun |-> f]
  <2>1. e.comp = c /\ e.fun = f
    OBVIOUS
  <2> HIDE DEF e
  <2>2. CodeOK(e.fun, q.D, q.pend, q.rest = <<>>)
    BY <2>1, <1>9, <1>13
  <2>3. q.names \subseteq StrNames(e.fun)
    BY <2>1, <1>9, <1>13 DEF StrNames
  <2>4. LocalsOK(e.comp, q) /\ e.fun.code = <<>> /\ ~q.loose
    BY <2>1, <1>4, <1>9, <1>13, <1>14
  <2>5. Stands(e, q)
    BY <2>2, <2>3, <2>4 DEF Stands
  <2> QED  BY <2>5 DEF e
<1>16. InList(q)
  BY <1>4, <1>13 DEF InList
<1>17. Leads(<<t>>, q, Loosened(p))
  <2>1. t \in ACall /\ Normal(t) /\ Pre(t, q) /\ Post(t, q) = Loosened(q)
    <3>1. q.bases = << 1 >> /\ q.empty
      BY <1>3, <1>13
    <3> QED  BY <3>1, <1>16, CallIs DEF Simple, SimpleCalls, Heads
  <2> DEFINE w == Loosened(q)
  <2>2. w \in Point /\ w.rest = q.rest /\ w.bases = q.bases /\ w.loose /\ w.pend = q.pend /\ w.names = q.names
    BY <1>13, LoosenedIs
  <2> HIDE DEF w, t
  <2>3. InList(w)
    BY <2>2 DEF InList
  <2>4. Flow(w, Loosened(p)) /\ Loosened(p) \in Point
    BY <2>2, <2>3, <1>13, FlowLoose
  <2> QED  BY <2>1, <2>4, <1>13, Leads1 DEF w
<1> HIDE DEF t
<1> QED  BY <1>1, <1>2, <1>3, <1>6, <1>9, <1>10, <1>13, <1>15, <1>17, SmoothStay

-----------------------------------------------------------------------------
(* Scopes.                                                                 *)

Enters(p) == [p EXCEPT !.bases = Append(@, p.L), !.empty = FALSE]

LEMMA EntersIs ==
  ASSUME NEW p \in Point
  PROVE  LET q == Enters(p) IN
         /\ q \in Point /\ q.rest = p.rest /\ q.bases = Append(p.bases, p.L) /\ (q.loose <=> p.loose)
         /\ q.L = p.L /\ q.D = p.D /\ (q.uninit <=> p.uninit)
         /\ q.pend = p.pend /\ q.names = p.names /\ ~q.empty
<1> DEFINE b == Append(p.bases, p.L)
<1>1. Enters(p) = [p EXCEPT !.bases = b, !.empty = FALSE] /\ b \in Seq(Nat)
  BY PointIs DEF Enters
<1> HIDE DEF b
<1>2. LET q == [p EXCEPT !.bases = b, !.empty = FALSE] IN
      /\ q \in Point /\ q.rest = p.rest /\ q.bases = b /\ (q.loose <=> p.loose)
      /\ q.L = p.L /\ q.D = p.D /\ (q.uninit <=> p.uninit)
      /\ q.pend = p.pend /\ q.names = p.names /\ ~q.empty
  BY <1>1 DEF Point
<1> QED  BY <1>1, <1>2 DEF b

WithScope(c, n) == [c EXCEPT !.scope = n]

LEMMA WithScopeIs ==
  ASSUME NEW c \in Compiling, NEW n \in Nat
  PROVE  LET d == WithScope(c, n) IN
         d \in Compiling /\ d.locals = c.locals /\ d.scope = n /\ d.fn = c.fn /\ d.type = c.type
BY DEF WithScope, Compiling

LEMMA LocalsEnter ==
  ASSUME NEW c \in Compiling, NEW p \in Point, LocalsOK(c, p), ~p.uninit, p.L >= 1
  PROVE  LocalsOK(WithScope(c, c.scope + 1), Enters(p))
<1> DEFINE n == c.scope + 1
           d == WithScope(c, n)
           q == Enters(p)
           b == Append(p.bases, p.L)
<1>1. /\ p.bases \in Seq(Nat) /\ p.L \in Nat /\ c.scope \in Nat /\ c.scope = Len(p.bases)
      /\ n \in Nat /\ Len(c.locals) = p.L
  BY PointIs DEF LocalsOK, Compiling
<1>2. /\ b \in Seq(Nat) /\ Len(b) = n /\ b[n] = p.L /\ \A s \in 1..c.scope : b[s] = p.bases[s]
  BY <1>1
<1> HIDE DEF b
<1>3. d.locals = c.locals /\ d.scope = n
  BY <1>1, WithScopeIs
<1>4. q.bases = b /\ q.L = p.L /\ ~q.uninit
  BY EntersIs DEF b
<1> HIDE DEF d, q
<1>5. \A i \in 1..p.L : c.locals[i].depth \in 0..c.scope
  BY <1>1 DEF LocalsOK
<1>6. \A i \in 1..p.L : /\ Rank(d, i) = Rank(c, i) /\ Rank(c, i) \in 0..c.scope
                        /\ d.locals[i].depth \in 0..c.scope
  BY <1>1, <1>3, <1>5 DEF Rank
<1>7. ASSUME NEW i \in 1..q.L
      PROVE  d.locals[i].depth \in 0..d.scope \cup {-1} /\ (d.locals[i].depth = -1 <=> q.uninit /\ i = q.L)
  BY <1>1, <1>3, <1>4, <1>6, SMTT(30)
<1>8. ASSUME NEW s \in 1..d.scope
      PROVE  q.bases[s] \in 1..q.L /\ \A i \in 1..q.L : i <= q.bases[s] <=> Rank(d, i) < s
  <2>1. CASE s = n
    BY <2>1, <1>1, <1>2, <1>4, <1>6, SMTT(30)
  <2>2. CASE s # n
    <3>1. s \in 1..c.scope
      BY <2>2, <1>1, <1>3
    <3>2. p.bases[s] \in 1..p.L /\ \A i \in 1..p.L : i <= p.bases[s] <=> Rank(c, i) < s
      BY <3>1 DEF LocalsOK
    <3> QED  BY <3>1, <3>2, <1>2, <1>4, <1>6
  <2> QED  BY <2>1, <2>2
<1>9. q.bases[1] = 1
  <2>1. CASE c.scope = 0
    BY <2>1, <1>1, <1>2, <1>4 DEF LocalsOK
  <2>2. CASE c.scope # 0
    <3>1. 1 \in 1..c.scope /\ c.scope > 0
      BY <2>2, <1>1
    <3> QED  BY <3>1, <1>2, <1>4 DEF LocalsOK
  <2> QED  BY <2>1, <2>2
<1>10. d.scope = Len(q.bases) /\ Len(d.locals) = q.L /\ d.scope > 0
  BY <1>1, <1>2, <1>3, <1>4
<1>11. LocalsOK(d, q)
  BY <1>7, <1>8, <1>9, <1>10 DEF LocalsOK
<1> QED  BY <1>11 DEF d, q, n

(* The end of a scope that was entered at p.                               *)
LEMMA Leaves ==
  ASSUME NEW p \in Point, ~p.uninit, p.D = p.L, NEW w \in Point, InList(w),
         w.bases = Append(p.bases, p.L), w.rest = p.rest, w.pend = p.pend, p.names \subseteq w.names
  PROVE  LET e == Call("endScope") IN
         /\ e \in ACall /\ Normal(e) /\ Pre(e, w) /\ Flow(Post(e, w), Plus(p, 0))
         /\ Plus(p, 0) \in Point
<1> DEFINE e == Call("endScope")
           r == Left(w)
           z == Plus(p, 0)
           b == w.bases
           n == Len(p.bases)
<1>1. p.bases \in Seq(Nat) /\ p.L \in Nat /\ p.D \in Int /\ n \in Nat /\ 0 \in Int
  BY PointIs
<1>2. b = Append(p.bases, p.L)
  OBVIOUS
<1>3. b # <<>> /\ Len(b) = n + 1 /\ b[Len(b)] = p.L /\ SubSeq(b, 1, Len(b) - 1) = p.bases
  <2>1. Len(b) = n + 1 /\ b[n + 1] = p.L /\ b \in Seq(Nat) /\ \A i \in 1..n : b[i] = p.bases[i]
    BY <1>1, <1>2
  <2> HIDE DEF b
  <2> DEFINE s == SubSeq(b, 1, n)
  <2>2. s \in Seq(Nat) /\ Len(s) = n /\ \A i \in 1..n : s[i] = b[i]
    BY <2>1, <1>1, SMTT(30)
  <2> HIDE DEF s
  <2>3. s = p.bases
    BY <2>1, <2>2, <1>1, SeqEqual
  <2>4. Len(b) - 1 = n /\ b # <<>>
    BY <2>1, <1>1
  <2> QED  BY <2>1, <2>3, <2>4 DEF s
<1>4. e \in ACall /\ Normal(e) /\ Pre(e, w) /\ Post(e, w) = r
  BY <1>3, CallIs DEF Simple, SimpleCalls
<1>5. Base(w) = p.L
  BY <1>3 DEF Base
<1>6. /\ r \in Point /\ r.rest = w.rest /\ ~r.loose
      /\ r.bases = SubSeq(w.bases, 1, Len(w.bases) - 1)
      /\ r.L = Base(w) /\ r.D = Base(w) /\ ~r.uninit
      /\ r.pend = w.pend /\ r.names = w.names
  BY <1>3, LeftIs
<1>7. /\ z \in Point /\ z.rest = p.rest /\ z.bases = p.bases /\ (z.loose <=> p.loose)
      /\ z.L = p.L /\ z.D = p.D + 0 /\ (z.uninit <=> p.uninit)
      /\ z.pend = p.pend /\ z.names = p.names /\ ~z.empty
  BY <1>1, PlusIs
<1> HIDE DEF r, z, e, b
<1>8. z.D = p.D
  BY <1>1, <1>7
<1>9. r.bases = p.bases /\ r.L = p.L /\ r.D = p.D
  BY <1>3, <1>5, <1>6 DEF b
<1>10. InList(r)
  BY <1>6, <1>9 DEF InList
<1>11. Flow(r, z)
  BY <1>6, <1>7, <1>8, <1>9, <1>10 DEF Flow
<1>12. Flow(Post(e, w), z)
  BY <1>4, <1>11
<1> QED  BY <1>4, <1>7, <1>12 DEF e, z

LEMMA ScopeCalls ==
  ASSUME NEW p \in Point, ~p.loose, ~p.uninit, p.D = p.L
  PROVE  LET q == Enters(p)
             e == Call("endScope")
             r == Plus(p, 0)
         IN  /\ \A s \in Ends : \A x \in Expected : Leads(<<DeclareUntil(s), Expect(x), e>>, q, r)
             /\ \A s \in Ends : Leads(<<DeclareUntil(s), e>>, q, r)
             /\ Leads(<<Call("declaration"), e>>, q, r)
<1> DEFINE q == Enters(p)
           e == Call("endScope")
           r == Plus(p, 0)
           w == Loosened(q)
           v == Plus(w, 0)
           c == Call("declaration")
<1>1. /\ q \in Point /\ q.rest = p.rest /\ q.bases = Append(p.bases, p.L) /\ (q.loose <=> p.loose)
      /\ q.L = p.L /\ q.D = p.D /\ (q.uninit <=> p.uninit)
      /\ q.pend = p.pend /\ q.names = p.names
  BY EntersIs
<1> HIDE DEF q
<1>2. InList(q)
  BY <1>1 DEF InList
<1>3. /\ w \in Point /\ w.rest = q.rest /\ w.bases = q.bases /\ w.loose
      /\ w.pend = q.pend /\ w.names = q.names
  BY <1>1, LoosenedIs
<1> HIDE DEF w
<1>4. v \in Point /\ v.rest = w.rest /\ v.bases = w.bases /\ (v.loose <=> w.loose)
      /\ v.pend = w.pend /\ v.names = w.names
  <2>1. w \in Point /\ 0 \in Int
    BY <1>3
  <2> QED  BY <2>1, PlusIs
<1> HIDE DEF v
<1>5. InList(w) /\ InList(v)
  BY <1>3, <1>4 DEF InList
<1>6. /\ e \in ACall /\ Normal(e) /\ Pre(e, w) /\ Flow(Post(e, w), r) /\ r \in Point
  BY <1>1, <1>3, <1>5, Leaves
<1>7. Pre(e, v) /\ Flow(Post(e, v), r)
  BY <1>1, <1>3, <1>4, <1>5, Leaves
<1>8. c \in ACall /\ Normal(c) /\ Pre(c, q) /\ Post(c, q) = w
  BY <1>2, CallIs DEF Simple, SimpleCalls, Listed, w
<1> HIDE DEF e, r, c
<1>9. Leads(<<c, e>>, q, r)
  BY <1>1, <1>6, <1>8, Leads2
<1>10. ASSUME NEW s \in Ends
       PROVE  DeclareUntil(s) \in ACall /\ Normal(DeclareUntil(s)) /\ Pre(DeclareUntil(s), q)
              /\ Post(DeclareUntil(s), q) = w
  BY <1>2, DeclareUntilIs DEF w
<1>11. ASSUME NEW s \in Ends PROVE Leads(<<DeclareUntil(s), e>>, q, r)
  <2> DEFINE d == DeclareUntil(s)
  <2>1. d \in ACall /\ Normal(d) /\ Pre(d, q) /\ Post(d, q) = w
    BY <1>10
  <2> HIDE DEF d
  <2>2. Leads(<<d, e>>, q, r)
    BY <2>1, <1>1, <1>6, Leads2
  <2> QED  BY <2>2 DEF d
<1>12. ASSUME NEW s \in Ends, NEW x \in Expected PROVE Leads(<<DeclareUntil(s), Expect(x), e>>, q, r)
  <2> DEFINE d == DeclareUntil(s)
             k == Expect(x)
  <2>1. d \in ACall /\ Normal(d) /\ Pre(d, q) /\ Post(d, q) = w
    BY <1>10
  <2>2. k \in ACall /\ Normal(k) /\ Pre(k, w) /\ Post(k, w) = v
    BY ExpectIs DEF v
  <2> HIDE DEF d, k
  <2>3. Pre(k, Post(d, q)) /\ Pre(e, Post(k, Post(d, q))) /\ Flow(Post(e, Post(k, Post(d, q))), r)
    BY <2>1, <2>2, <1>7
  <2>5. q \in Point /\ r \in Point /\ d \in ACall /\ Normal(d) /\ Pre(d, q)
        /\ k \in ACall /\ Normal(k) /\ e \in ACall /\ Normal(e)
    BY <2>1, <2>2, <1>1, <1>6
  <2>4. Leads(<<d, k, e>>, q, r)
    BY <2>5, <2>3, Leads3
  <2> QED  BY <2>4 DEF d, k
<1> QED  BY <1>9, <1>11, <1>12 DEF q, e, r, c

LEMMA DeepInScope ==
  ASSUME Smooth, NEW p, Now(p), Tail(tasks) \in Seq(ACall), InList(p), Post(Task, p) = Plus(p, 0),
         InScope, UNCHANGED functions,
         NEW calls, Continue(calls), Leads(calls, Enters(p), Plus(p, 0))
  PROVE  DeepInv'
<1> DEFINE n == Scope + 1
           c == WithScope(Comp, n)
           q == Enters(p)
<1>1. Stands(Here, p) /\ LocalsOK(Comp, p) /\ p \in Point
  BY NowIs
<1>2. /\ ~p.loose /\ ~p.uninit /\ p.D = p.L /\ p.L \in Nat /\ p.D \in Int /\ p.L >= 1
  BY <1>1, SmoothOK, ListIs
<1>3. Comp \in Compiling /\ Chunk \in Fun /\ Scope \in Nat /\ n \in Nat /\ Scope = Comp.scope
  BY SmoothOK, CompOK DEF Scope
<1>4. LocalsOK(c, q)
  BY <1>1, <1>2, <1>3, LocalsEnter
<1>5. SetCompiler(c)
  BY <1>3 DEF InScope, WithScope
<1>6. c \in Compiling /\ c.fn = Comp.fn
  BY <1>3, WithScopeIs
<1> HIDE DEF c
<1>7. /\ q \in Point /\ q.rest = p.rest /\ (q.loose <=> p.loose) /\ q.L = p.L /\ q.D = p.D
      /\ q.pend = p.pend /\ q.names = p.names /\ ~q.empty
  BY <1>1, EntersIs
<1>8. Leads(calls, q, Post(Task, p))
  OBVIOUS
<1> HIDE DEF q
<1>9. ~q.loose
  BY <1>2, <1>7
<1>10. Stands([comp |-> c, fun |-> Chunk], q)
  BY <1>1, <1>4, <1>7, <1>9, StandsStill
<1>11. SetChunk(Chunk)
  BY SmoothOK, ChunkStays
<1> QED  BY <1>3, <1>5, <1>6, <1>7, <1>8, <1>10, <1>11, SmoothStay

(* An expression, and what takes its value off.                            *)
LEMMA OneValue ==
  ASSUME NEW p \in Point, ~p.loose, ~p.uninit, p.D = p.L, p.L >= 1
  PROVE  LET q == Plus(p, 1)
             v == Plus(q, 0)
             r == Plus(p, 0)
         IN  /\ Parse(1) \in ACall /\ Normal(Parse(1)) /\ Pre(Parse(1), p) /\ Post(Parse(1), p) = q
             /\ q \in Point /\ InExpr(q) /\ Only(q) /\ ~q.uninit /\ q.D = q.L + 1 /\ q.D >= 2 /\ q.D \in Int
             /\ v \in Point /\ Only(v) /\ r \in Point
             /\ Flow(Plus(q, -1), r) /\ Flow(Plus(v, -1), r)
<1> DEFINE q == Plus(p, 1)
           v == Plus(q, 0)
           r == Plus(p, 0)
           a == Plus(q, -1)
           b == Plus(v, -1)
<1>1. p.L \in Nat /\ p.D \in Int
  BY PointIs
<1>2. InExpr(p)
  BY <1>1 DEF InExpr
<1>3. Parse(1) \in ACall /\ Normal(Parse(1)) /\ Pre(Parse(1), p) /\ Post(Parse(1), p) = q
  BY <1>2, ParseIs
<1>4. /\ q \in Point /\ ~q.loose /\ q.D = p.D + 1 /\ q.L = p.L /\ (q.uninit <=> p.uninit)
      /\ q.names = p.names /\ q.pend = p.pend /\ q.bases = p.bases /\ q.rest = p.rest
      /\ InExpr(q)
  BY <1>2, OneUp
<1>0. 0 \in Int /\ -1 \in Int
  OBVIOUS
<1>5. /\ r \in Point /\ r.rest = p.rest /\ r.bases = p.bases /\ (r.loose <=> p.loose)
      /\ r.L = p.L /\ r.D = p.D + 0 /\ (r.uninit <=> p.uninit)
      /\ r.pend = p.pend /\ r.names = p.names /\ ~r.empty
  BY <1>0, PlusIs
<1> HIDE DEF q
<1>6. /\ v \in Point /\ v.rest = q.rest /\ v.bases = q.bases /\ (v.loose <=> q.loose)
      /\ v.L = q.L /\ v.D = q.D + 0 /\ (v.uninit <=> q.uninit)
      /\ v.pend = q.pend /\ v.names = q.names
  <2>1. q \in Point
    BY <1>4
  <2> QED  BY <1>0, <2>1, PlusIs
<1>7. /\ a \in Point /\ a.rest = q.rest /\ a.bases = q.bases /\ (a.loose <=> q.loose)
      /\ a.L = q.L /\ a.D = q.D + -1 /\ (a.uninit <=> q.uninit)
      /\ a.pend = q.pend /\ a.names = q.names
  <2>1. q \in Point
    BY <1>4
  <2> QED  BY <1>0, <2>1, PlusIs
<1> HIDE DEF v
<1>8. /\ b \in Point /\ b.rest = v.rest /\ b.bases = v.bases /\ (b.loose <=> v.loose)
      /\ b.L = v.L /\ b.D = v.D + -1 /\ (b.uninit <=> v.uninit)
      /\ b.pend = v.pend /\ b.names = v.names
  <2>1. v \in Point
    BY <1>6
  <2> QED  BY <1>0, <2>1, PlusIs
<1> HIDE DEF a, b, r
<1>9. q.D = q.L + 1 /\ q.D >= 2 /\ q.D \in Int /\ v.D = q.D /\ a.D = p.D /\ b.D = p.D /\ r.D = p.D
      /\ v.L = p.L /\ a.L = p.L /\ b.L = p.L /\ r.L = p.L
  BY <1>1, <1>4, <1>5, <1>6, <1>7, <1>8
<1>10. ~q.uninit /\ ~v.uninit /\ ~a.uninit /\ ~b.uninit /\ ~r.uninit
       /\ ~q.loose /\ ~v.loose /\ ~a.loose /\ ~b.loose /\ ~r.loose
  BY <1>4, <1>5, <1>6, <1>7, <1>8
<1>11. Only(q) /\ Only(v)
  BY <1>4, <1>6, <1>9, <1>10 DEF Only
<1>12. Flow(a, r)
  BY <1>4, <1>5, <1>7, <1>9, <1>10 DEF Flow
<1>13. Flow(b, r)
  BY <1>4, <1>5, <1>6, <1>8, <1>9, <1>10 DEF Flow
<1> QED  BY <1>3, <1>4, <1>5, <1>6, <1>9, <1>10, <1>11, <1>12, <1>13 DEF q, v, r, a, b

LEMMA StatementCalls ==
  ASSUME NEW p \in Point, ~p.loose, ~p.uninit, p.D = p.L, p.L >= 1
  PROVE  /\ Leads(<<Parse(1), NextItem("values", 1)>>, p, Plus(p, 0))
         /\ Leads(<<Parse(1), Expect({"THEN"}), Call("then")>>, p, Plus(p, 0))
         /\ Leads(<<Call("returnValue")>>, p, Plus(p, 0))
         /\ Leads(<<Parse(1), Call("endExpression")>>, p, Plus(p, 0))
<1> DEFINE q == Plus(p, 1)
           v == Plus(q, 0)
           r == Plus(p, 0)
           e == Parse(1)
           i == NextItem("values", 1)
           x == Expect({"THEN"})
           t == Call("then")
           k == Call("endExpression")
           w == Call("returnValue")
<1>1. /\ e \in ACall /\ Normal(e) /\ Pre(e, p) /\ Post(e, p) = q
      /\ q \in Point /\ InExpr(q) /\ Only(q) /\ ~q.uninit /\ q.D = q.L + 1 /\ q.D >= 2 /\ q.D \in Int
      /\ v \in Point /\ Only(v) /\ r \in Point
      /\ Flow(Plus(q, -1), r) /\ Flow(Plus(v, -1), r)
  BY OneValue
<1>2. i \in ACall /\ Normal(i) /\ Pre(i, q) /\ Post(i, q) = Plus(q, -1)
  <2>1. 1 \in Nat /\ 1 + 1 = 2
    OBVIOUS
  <2> HIDE DEF q
  <2> QED  BY <2>1, <1>1, NextItemIs
<1>3. k \in ACall /\ Normal(k) /\ Pre(k, q) /\ Post(k, q) = Plus(q, -1)
  BY <1>1, CallIs DEF Simple, SimpleCalls
<1>4. t \in ACall /\ Normal(t) /\ Pre(t, v) /\ Post(t, v) = Plus(v, -1)
  BY <1>1, CallIs DEF Simple, SimpleCalls
<1>5. x \in ACall /\ Normal(x) /\ Pre(x, q) /\ Post(x, q) = v
  BY ExpectIs DEF Expected
<1>6. w \in ACall /\ Normal(w) /\ Pre(w, p) /\ Post(w, p) = r
  <2>1. InList(p)
    BY DEF InList
  <2> QED  BY <2>1, CallIs DEF Simple, SimpleCalls, Single
<1>7. Flow(r, r)
  BY <1>1, FlowSelf
<1> HIDE DEF q, v, r, e, i, x, t, k, w
<1>8. Leads(<<e, i>>, p, r)
  BY <1>1, <1>2, Leads2
<1>9. Leads(<<e, k>>, p, r)
  BY <1>1, <1>3, Leads2
<1>10. Leads(<<w>>, p, r)
  BY <1>1, <1>6, <1>7, Leads1
<1>11. Pre(x, Post(e, p)) /\ Pre(t, Post(x, Post(e, p))) /\ Flow(Post(t, Post(x, Post(e, p))), r)
  BY <1>1, <1>4, <1>5
<1>12. Leads(<<e, x, t>>, p, r)
  BY <1>1, <1>4, <1>5, <1>11, Leads3
<1> QED  BY <1>8, <1>9, <1>10, <1>12 DEF r, e, i, x, t, k, w

LEMMA DeepStatement ==
  ASSUME Smooth, Statement PROVE DeepInv'
<1>1. PICK p \in Point : Now(p)
  BY SmoothAt DEF Statement
<1>2. Task.do = "statement" /\ Task \in ACall /\ Tail(tasks) \in Seq(ACall)
  BY SmoothAt DEF Statement
<1>3. InList(p) /\ Post(Task, p) = Plus(p, 0) /\ Stands(Here, p)
  BY <1>1, <1>2, NowIs, PreIs, PostIs DEF Single
<1>4. /\ ~p.loose /\ ~p.uninit /\ p.D = p.L /\ p.L \in Nat /\ p.D \in Int /\ p.L >= 1
  BY <1>1, <1>3, SmoothOK, ListIs
<1>5. ASSUME NEW calls, Continue(calls), UNCHANGED <<compilers, functions>>,
             \/ calls = <<Parse(1), NextItem("values", 1)>>
             \/ calls = <<Parse(1), Expect({"THEN"}), Call("then")>>
             \/ calls = <<Call("returnValue")>>
             \/ calls = <<Parse(1), Call("endExpression")>>
      PROVE  DeepInv'
  <2>1. Leads(calls, p, Plus(p, 0))
    BY <1>4, <1>5, StatementCalls
  <2> QED  BY <2>1, <1>1, <1>2, <1>3, <1>5, SmoothCalls
<1>6. ASSUME NEW calls, Continue(calls), InScope, UNCHANGED functions,
             \/ calls = <<DeclareUntil({"}"}), Expect({"}"}), Call("endScope")>>
             \/ calls = <<DeclareUntil({"ELSE"}), Call("endScope")>>
             \/ calls = <<DeclareUntil({"ENDIF"}), Call("endScope")>>
             \/ calls = <<Call("declaration"), Call("endScope")>>
      PROVE  DeepInv'
  <2>1. {"}"} \in Ends /\ {"ELSE"} \in Ends /\ {"ENDIF"} \in Ends /\ {"}"} \in Expected
    BY DEF Ends, Expected
  <2>2. Leads(calls, Enters(p), Plus(p, 0))
    BY <1>4, <1>6, <2>1, ScopeCalls
  <2> QED  BY <2>2, <1>1, <1>2, <1>3, <1>6, DeepInScope
<1>7. \/ Keyword("PRINT", <<Parse(PrecAssignment), NextItem("values", 1)>>)
      \/ Keyword("IF", <<Parse(PrecAssignment), Expect({"THEN"}), Call("then")>>)
      \/ Keyword("RETURN", <<Call("returnValue")>>)
      \/ Block
      \/ UNCHANGED functions /\ InScope
         /\ Continue(<<IF SameLine /\ ~Is({"EOF"}) THEN Call("declaration")
                       ELSE DeclareUntil({"ELSE"}), Call("endScope")>>)
      \/ UNCHANGED functions /\ InScope /\ Continue(<<DeclareUntil({"ENDIF"}), Call("endScope")>>)
      \/ UNCHANGED <<compilers, functions>> /\ Continue(<<Parse(PrecAssignment), Call("endExpression")>>)
  BY DEF Statement
<1>8. \A type, calls : Keyword(type, calls) => Continue(calls) /\ UNCHANGED <<compilers, functions>>
  BY DEF Keyword
<1>9. CASE Keyword("PRINT", <<Parse(PrecAssignment), NextItem("values", 1)>>)
  BY <1>5, <1>8, <1>9 DEF PrecAssignment
<1>10. CASE Keyword("IF", <<Parse(PrecAssignment), Expect({"THEN"}), Call("then")>>)
  BY <1>5, <1>8, <1>10 DEF PrecAssignment
<1>11. CASE Keyword("RETURN", <<Call("returnValue")>>)
  BY <1>5, <1>8, <1>11
<1>12. CASE Block
  BY <1>6, <1>12 DEF Block
<1>13. CASE UNCHANGED functions /\ InScope
            /\ Continue(<<IF SameLine /\ ~Is({"EOF"}) THEN Call("declaration")
                          ELSE DeclareUntil({"ELSE"}), Call("endScope")>>)
  <2>1. CASE SameLine /\ ~Is({"EOF"})
    BY <1>6, <1>13, <2>1
  <2>2. CASE ~(SameLine /\ ~Is({"EOF"}))
    BY <1>6, <1>13, <2>2
  <2> QED  BY <2>1, <2>2
<1>14. CASE UNCHANGED functions /\ InScope /\ Continue(<<DeclareUntil({"ENDIF"}), Call("endScope")>>)
  BY <1>6, <1>14
<1>15. CASE UNCHANGED <<compilers, functions>>
            /\ Continue(<<Parse(PrecAssignment), Call("endExpression")>>)
  BY <1>5, <1>15 DEF PrecAssignment
<1> QED  BY <1>7, <1>9, <1>10, <1>11, <1>12, <1>13, <1>14, <1>15

LEMMA DeepEndDeclaration ==
  ASSUME Smooth, EndDeclaration PROVE DeepInv'
<1>1. PICK p \in Point : Now(p)
  BY SmoothAt DEF EndDeclaration
<1>2. Task.do = "endDeclaration" /\ Task \in ACall /\ Tail(tasks) \in Seq(ACall)
  BY SmoothAt DEF EndDeclaration
<1>3. InList(p) /\ Post(Task, p) = Loosened(p) /\ p \in Point
  <2>1. Task.do \in Listed
    BY <1>2 DEF Listed
  <2>2. Pre(Task, p) <=> InList(p)
    BY <2>1, PreIs
  <2>3. Post(Task, p) = Loosened(p)
    BY <2>1, PostIs
  <2> QED  BY <2>2, <2>3, <1>1, NowIs
<1>4. Continue(<<>>) /\ UNCHANGED <<compilers, functions>>
  BY DEF EndDeclaration
<1>5. Flow(p, Loosened(p)) /\ Loosened(p) \in Point
  BY <1>3, LooseTwice
<1>6. Leads(<<>>, p, Loosened(p))
  BY <1>3, <1>5, Leads0
<1> QED  BY <1>1, <1>2, <1>3, <1>4, <1>6, SmoothCalls

(* The locals of the scope are those above its base.                       *)
LEMMA KeptIs ==
  ASSUME NEW c \in Compiling, NEW p \in Point, LocalsOK(c, p), ~p.uninit, c.scope > 0
  PROVE  LET kept == {i \in DOMAIN c.locals : c.locals[i].depth <= c.scope - 1} IN
         /\ kept # {} /\ Greatest(kept) = Base(p)
         /\ Base(p) \in 1..p.L /\ p.bases # <<>>
<1> DEFINE n == c.scope
           b == Base(p)
           kept == {i \in DOMAIN c.locals : c.locals[i].depth <= c.scope - 1}
<1>1. /\ p.bases \in Seq(Nat) /\ p.L \in Nat /\ n \in Nat /\ n = Len(p.bases)
      /\ Len(c.locals) = p.L /\ c.locals \in Seq(Local)
  BY PointIs DEF LocalsOK, Compiling
<1>2. n \in 1..n /\ b = p.bases[n] /\ p.bases # <<>>
  BY <1>1 DEF Base
<1>3. b \in 1..p.L /\ \A i \in 1..p.L : i <= b <=> Rank(c, i) < n
  BY <1>2 DEF LocalsOK
<1>4. \A i \in 1..p.L : c.locals[i].depth \in 0..n /\ Rank(c, i) = c.locals[i].depth
  <2>1. \A i \in 1..p.L : c.locals[i].depth \in 0..n \cup {-1} /\ c.locals[i].depth # -1
    BY DEF LocalsOK
  <2> QED  BY <2>1 DEF Rank
<1> HIDE DEF b
<1>5. \A i \in 1..p.L : i \in kept <=> i <= b
  BY <1>1, <1>3, <1>4, SMTT(30)
<1>6. kept \in SUBSET (0..p.L) /\ \A i \in kept : i \in 1..p.L
  BY <1>1
<1> HIDE DEF kept
<1>7. b \in kept
  BY <1>3, <1>5
<1>8. kept # {}
  BY <1>7
<1>9. Greatest(kept) \in kept /\ \A e \in kept : e <= Greatest(kept)
  BY <1>1, <1>6, <1>8, GreatestIsGreatest
<1>10. Greatest(kept) = b
  <2> DEFINE g == Greatest(kept)
  <2>1. g \in kept /\ b <= g
    BY <1>7, <1>9
  <2> HIDE DEF g
  <2>2. g \in 1..p.L /\ g <= b
    BY <2>1, <1>5, <1>6
  <2>3. g = b
    BY <2>1, <2>2, <1>1, <1>3
  <2> QED  BY <2>3 DEF g
<1> QED  BY <1>2, <1>3, <1>8, <1>10 DEF kept, b

LEMMA LocalsLeave ==
  ASSUME NEW c \in Compiling, NEW p \in Point, LocalsOK(c, p), ~p.uninit, c.scope > 0
  PROVE  LET l == SubSeq(c.locals, 1, Base(p))
             d == WithLocals(WithScope(c, c.scope - 1), l)
         IN  l \in Seq(Local) /\ d \in Compiling /\ d.fn = c.fn /\ LocalsOK(d, Left(p))
<1> DEFINE n == c.scope
           m == c.scope - 1
           b == Base(p)
           l == SubSeq(c.locals, 1, b)
           s0 == WithScope(c, m)
           d == WithLocals(s0, l)
           q == Left(p)
           bs == SubSeq(p.bases, 1, Len(p.bases) - 1)
<1>1. /\ p.bases \in Seq(Nat) /\ p.L \in Nat /\ n \in Nat /\ n = Len(p.bases)
      /\ Len(c.locals) = p.L /\ c.locals \in Seq(Local)
  BY PointIs DEF LocalsOK, Compiling
<1>2. n \in 1..n /\ b = p.bases[n] /\ m \in Nat /\ m + 1 = n
  BY <1>1 DEF Base
<1>3. b \in 1..p.L /\ \A i \in 1..p.L : i <= b <=> Rank(c, i) < n
  BY <1>2 DEF LocalsOK
<1>4. \A i \in 1..p.L : c.locals[i].depth \in 0..n /\ Rank(c, i) = c.locals[i].depth
  <2>1. \A i \in 1..p.L : c.locals[i].depth \in 0..n \cup {-1} /\ c.locals[i].depth # -1
    BY DEF LocalsOK
  <2> QED  BY <2>1 DEF Rank
<1>0. p.bases # <<>>
  BY KeptIs
<1> HIDE DEF b, m
<1>5. l \in Seq(Local) /\ Len(l) = b /\ \A i \in 1..b : l[i] = c.locals[i]
  BY <1>1, <1>3
<1>6. bs \in Seq(Nat) /\ Len(bs) = m /\ \A s \in 1..m : bs[s] = p.bases[s]
  <2>1. Len(p.bases) - 1 = m
    BY <1>1, <1>2
  <2> QED  BY <2>1, <1>1, <1>2, SMTT(30)
<1> HIDE DEF l, bs
<1>7. s0 \in Compiling /\ s0.scope = m /\ s0.fn = c.fn
  BY <1>2, WithScopeIs
<1> HIDE DEF s0
<1>8. d \in Compiling /\ d.locals = l /\ d.scope = m /\ d.fn = c.fn
  BY <1>5, <1>7, WithLocalsIs
<1>9. q.bases = bs /\ q.L = b /\ ~q.uninit
  BY <1>0, LeftIs DEF b, bs
<1> HIDE DEF d, q
<1>10. \A i \in 1..b : /\ i \in 1..p.L /\ d.locals[i].depth \in 0..m /\ Rank(d, i) = Rank(c, i)
  <2> SUFFICES ASSUME NEW i \in 1..b
               PROVE  i \in 1..p.L /\ d.locals[i].depth \in 0..m /\ Rank(d, i) = Rank(c, i)
    OBVIOUS
  <2>1. i \in 1..p.L
    BY <1>1, <1>3
  <2>2. Rank(c, i) < n /\ i <= b
    BY <2>1, <1>1, <1>3
  <2>3. d.locals[i].depth = c.locals[i].depth
    BY <1>5, <1>8
  <2>4. c.locals[i].depth \in 0..m
    BY <2>1, <2>2, <1>1, <1>2, <1>4
  <2>5. Rank(d, i) = c.locals[i].depth
    BY <2>3, <2>4, <1>2 DEF Rank
  <2> QED  BY <2>1, <2>3, <2>4, <2>5, <1>4
<1>11. ASSUME NEW i \in 1..q.L
       PROVE  d.locals[i].depth \in 0..d.scope \cup {-1} /\ (d.locals[i].depth = -1 <=> q.uninit /\ i = q.L)
  BY <1>2, <1>8, <1>9, <1>10
<1>12. ASSUME NEW s \in 1..d.scope
       PROVE  q.bases[s] \in 1..q.L /\ \A i \in 1..q.L : i <= q.bases[s] <=> Rank(d, i) < s
  <2>1. s \in 1..m /\ s \in 1..n /\ s < n
    BY <1>1, <1>2, <1>8
  <2>2. p.bases[s] \in 1..p.L /\ \A i \in 1..p.L : i <= p.bases[s] <=> Rank(c, i) < s
    BY <2>1 DEF LocalsOK
  <2> DEFINE x == p.bases[s]
  <2>6. x \in 1..p.L /\ \A i \in 1..p.L : i <= x <=> Rank(c, i) < s
    BY <2>2
  <2> HIDE DEF x
  <2>7. x <= x
    BY <2>6, <1>1
  <2>3. Rank(c, x) < s /\ Rank(c, x) \in 0..n
    BY <2>6, <2>7, <1>4
  <2>4. x <= b
    <3>1. Rank(c, x) < n
      BY <2>1, <2>3, <1>1
    <3> QED  BY <3>1, <2>6, <1>3
  <2>5. q.bases[s] = x
    BY <2>1, <1>6, <1>9 DEF x
  <2> QED  BY <2>4, <2>5, <2>6, <1>1, <1>3, <1>9, <1>10
<1>13. IF d.scope > 0 THEN q.bases[1] = 1 ELSE q.L = 1
  <2>1. p.bases[1] = 1
    BY DEF LocalsOK
  <2>2. CASE m > 0
    <3>1. 1 \in 1..m
      BY <2>2, <1>2
    <3> QED  BY <3>1, <2>1, <2>2, <1>6, <1>8, <1>9
  <2>3. CASE ~(m > 0)
    <3>1. n = 1 /\ m = 0
      BY <2>3, <1>2
    <3> QED  BY <3>1, <2>1, <1>2, <1>8, <1>9
  <2> QED  BY <2>2, <2>3
<1>14. d.scope = Len(q.bases) /\ Len(d.locals) = q.L
  BY <1>5, <1>6, <1>8, <1>9
<1>15. LocalsOK(d, q)
  BY <1>11, <1>12, <1>13, <1>14 DEF LocalsOK
<1> QED  BY <1>5, <1>8, <1>15 DEF d, q, l, s0, m, b

(* As many are taken off the stack as there were in the scope.             *)
LEMMA Pops ==
  ASSUME NEW f \in Fun, NEW L \in Nat, NEW b \in 1..L, NEW pend, NEW script, CodeOK(f, L, pend, script)
  PROVE  LET code == [i \in 1..L - b |-> I("POP")] IN
         code \in Seq(Instr) /\ CodeOK(WithCode(f, f.code \o code), b, pend, script)
<1> DEFINE n == L - b
           pop == I("POP")
           code == [i \in 1..n |-> pop]
           e == [k \in 1..n+1 |-> L - k + 1]
<1>1. n \in Nat /\ L \in Nat /\ b \in Nat /\ b >= 1 /\ n + b = L
  OBVIOUS
<1>2. pop \in Instr /\ pop.op = "POP" /\ Needs(pop) = 1 /\ Effect(pop) = -1
  BY SimpleInstr
<1> HIDE DEF pop, n
<1>3. code \in Seq(Instr) /\ Len(code) = n /\ \A k \in 1..n : code[k] = pop
  BY <1>1, <1>2
<1>4. e \in [1..n+1 -> Int] /\ e[1] = L /\ e[n + 1] = b /\ \A k \in 1..n+1 : e[k] = L - k + 1
  BY <1>1
<1> HIDE DEF code, e
<1>5. Steps(f, code, e, script)
  <2> SUFFICES ASSUME NEW k \in 1..Len(code)
               PROVE  /\ code[k].op \notin JumpOps /\ Fits(f, code[k], e[k], script)
                      /\ e[k + 1] = e[k] + Effect(code[k])
    BY DEF Steps
  <2>1. code[k] = pop /\ k \in 1..n /\ k \in 1..n+1 /\ k + 1 \in 1..n+1
    BY <1>1, <1>3
  <2>2. e[k] = L - k + 1 /\ e[k + 1] = L - (k + 1) + 1
    BY <2>1, <1>4
  <2>3. e[k] >= 2 /\ e[k + 1] = e[k] + -1
    BY <2>1, <2>2, <1>1
  <2>4. code[k].op \notin JumpOps /\ Fits(f, code[k], e[k], script)
    BY <2>1, <2>3, <1>2 DEF Fits, JumpOps, NameOps
  <2>5. Effect(code[k]) = -1
    BY <2>1, <1>2
  <2> QED  BY <2>3, <2>4, <2>5
<1>6. CodeOK(f, e[1], pend, script)
  BY <1>4
<1>7. e \in [1..Len(code)+1 -> Int]
  BY <1>3, <1>4
<1>8. CodeOK(WithCode(f, f.code \o code), e[Len(code) + 1], pend, script)
  BY <1>3, <1>5, <1>6, <1>7, Straight
<1>9. e[Len(code) + 1] = b
  BY <1>3, <1>4
<1> QED  BY <1>3, <1>8, <1>9 DEF code, n, pop

LEMMA DeepEndScope ==
  ASSUME Smooth, EndScope PROVE DeepInv'
<1>1. PICK p \in Point : Now(p)
  BY SmoothAt DEF EndScope
<1>2. Task.do = "endScope" /\ Task \in ACall /\ Tail(tasks) \in Seq(ACall)
  BY SmoothAt DEF EndScope
<1>3. InList(p) /\ p.bases # <<>> /\ Post(Task, p) = Left(p) /\ Stands(Here, p) /\ LocalsOK(Comp, p)
      /\ CodeOK(Chunk, p.D, p.pend, p.rest = <<>>) /\ p.names \subseteq StrNames(Chunk)
  <2>1. Pre(Task, p) <=> InList(p) /\ p.bases # <<>>
    BY <1>2, PreIs
  <2>2. Post(Task, p) = Left(p)
    BY <1>2, PostIs
  <2> QED  BY <2>1, <2>2, <1>1, NowIs
<1>4. /\ ~p.loose /\ ~p.uninit /\ p.D = p.L /\ p.L \in Nat /\ p.D \in Int /\ p.L >= 1
      /\ (p.bases = <<>> <=> Scope = 0) /\ Len(Locals) = p.L
  BY <1>1, <1>3, SmoothOK, ListIs
<1>5. Comp \in Compiling /\ Chunk \in Fun /\ Scope \in Nat /\ Scope = Comp.scope /\ Locals = Comp.locals
  BY SmoothOK, CompOK DEF Scope, Locals
<1>6. Comp.scope > 0
  BY <1>3, <1>4, <1>5
<1> DEFINE b == Base(p)
           l == SubSeq(Comp.locals, 1, b)
           c == WithLocals(WithScope(Comp, Comp.scope - 1), l)
           q == Left(p)
           code == [i \in 1..p.L - b |-> I("POP")]
           f == WithCode(Chunk, Chunk.code \o code)
           kept == {i \in DOMAIN Comp.locals : Comp.locals[i].depth <= Comp.scope - 1}
<1>7. kept # {} /\ Greatest(kept) = b /\ b \in 1..p.L
  BY <1>3, <1>4, <1>5, <1>6, KeptIs
<1>8. l \in Seq(Local) /\ c \in Compiling /\ c.fn = Comp.fn /\ LocalsOK(c, q)
  BY <1>3, <1>4, <1>5, <1>6, LocalsLeave
<1>9. code \in Seq(Instr) /\ CodeOK(f, b, p.pend, p.rest = <<>>)
  <2> DEFINE script == (p.rest = <<>>)
  <2>1. CodeOK(Chunk, p.L, p.pend, script)
    BY <1>3, <1>4
  <2> HIDE DEF script, b
  <2>2. code \in Seq(Instr) /\ CodeOK(f, b, p.pend, script)
    BY <2>1, <1>4, <1>5, <1>7, Pops
  <2> QED  BY <2>2 DEF script
<1>10. SetCompiler(c) /\ Emit(code) /\ Continue(<<>>)
  <2>1. SetCompiler([Comp EXCEPT !.scope = Comp.scope - 1, !.locals = SubSeq(Comp.locals, 1, Greatest(kept))])
    BY <1>7, <1>5 DEF EndScope
  <2>2. c = [Comp EXCEPT !.scope = Comp.scope - 1, !.locals = l]
    BY <1>5 DEF WithLocals, WithScope, Compiling
  <2>3. Emit([i \in 1..Len(Locals) - Greatest(kept) |-> I("POP")]) /\ Continue(<<>>)
    BY <1>7, <1>5 DEF EndScope
  <2> QED  BY <2>1, <2>2, <2>3, <1>4, <1>7
<1> HIDE DEF c, code, kept
<1>11. SetChunk(f)
  BY <1>10 DEF Emit, WithCode
<1>12. f \in Fun /\ f.consts = Chunk.consts
  <2>1. Chunk.code \o code \in Seq(Instr)
    BY <1>5, <1>9, FunIs
  <2> QED  BY <2>1, <1>5, WithCodeIs
<1> HIDE DEF f
<1>13. /\ q \in Point /\ q.rest = p.rest /\ ~q.loose /\ q.L = b /\ q.D = b
       /\ q.pend = p.pend /\ q.names = p.names /\ ~q.empty
  BY <1>3, LeftIs
<1>14. Post(Task, p) = q
  BY <1>3
<1> HIDE DEF q, b
<1>15. Stands([comp |-> c, fun |-> f], q)
  <2> DEFINE e == [comp |-> c, fun |-> f]
  <2>1. e.comp = c /\ e.fun = f
    OBVIOUS
  <2> HIDE DEF e
  <2>2. CodeOK(e.fun, q.D, q.pend, q.rest = <<>>)
    BY <2>1, <1>9, <1>13
  <2>3. q.names \subseteq StrNames(e.fun)
    BY <2>1, <1>3, <1>12, <1>13 DEF StrNames
  <2>4. LocalsOK(e.comp, q)
    BY <2>1, <1>8
  <2>5. Stands(e, q)
    BY <2>2, <2>3, <2>4, <1>13 DEF Stands
  <2> QED  BY <2>5 DEF e
<1>16. Leads(<<>>, q, Post(Task, p))
  BY <1>13, <1>14, Leads0, FlowSelf
<1> QED  BY <1>1, <1>2, <1>8, <1>10, <1>11, <1>12, <1>13, <1>15, <1>16, SmoothStay

(* What \o is, for the steps that only regroup it.                         *)
Cat(s, t) == s \o t

LEMMA CatAssociates ==
  ASSUME NEW S, NEW x \in Seq(S), NEW y \in Seq(S), NEW z \in Seq(S)
  PROVE  Cat(Cat(x, y), z) = Cat(x, Cat(y, z)) /\ Cat(x, y) \in Seq(S)
  BY ConcatAssociative DEF Cat

LEMMA Regroup ==
  ASSUME NEW w \in Seq(ACall), NEW x \in Seq(ACall), NEW y \in Seq(ACall), NEW ts \in Seq(ACall)
  PROVE  Cat(w, Cat(x, Cat(y, ts))) = Cat(Cat(w, Cat(x, y)), ts)
<1>1. Cat(Cat(x, y), ts) = Cat(x, Cat(y, ts)) /\ Cat(x, y) \in Seq(ACall)
  BY CatAssociates
<1>2. Cat(w, Cat(Cat(x, y), ts)) = Cat(Cat(w, Cat(x, y)), ts)
  BY <1>1, CatAssociates
<1> QED  BY <1>1, <1>2

LEMMA Five ==
  ASSUME NEW S, NEW a \in S, NEW b \in S, NEW c \in S, NEW d \in S, NEW f \in S
  PROVE  <<a, b, c>> \o (<<d>> \o <<f>>) = <<a, b, c, d, f>>
<1> DEFINE w == <<a, b, c>>
           x == <<d>>
           y == <<f>>
           z == <<d, f>>
           v == <<a, b, c, d, f>>
<1>1. w \in Seq(S) /\ x \in Seq(S) /\ y \in Seq(S) /\ z \in Seq(S) /\ v \in Seq(S)
  OBVIOUS
<1>2. x \o y = z
  BY TwoOf
<1>3. w \o z = v
  <2>1. Len(w) = 3 /\ Len(z) = 2 /\ Len(v) = 5
    OBVIOUS
  <2>2. w[1] = a /\ w[2] = b /\ w[3] = c /\ z[1] = d /\ z[2] = f
        /\ v[1] = a /\ v[2] = b /\ v[3] = c /\ v[4] = d /\ v[5] = f
    OBVIOUS
  <2> HIDE DEF w, z, v
  <2> DEFINE u == w \o z
  <2>3. u \in Seq(S) /\ Len(u) = Len(w) + Len(z)
        /\ \A i \in 1..Len(w) + Len(z) : u[i] = IF i <= Len(w) THEN w[i] ELSE z[i - Len(w)]
    BY <1>1, ConcatProperties
  <2> HIDE DEF u
  <2>4. Len(u) = 5 /\ \A i \in 1..5 : u[i] = IF i <= 3 THEN w[i] ELSE z[i - 3]
    BY <2>1, <2>3
  <2>5. ASSUME NEW i \in 1..5 PROVE u[i] = v[i]
    <3>1. i = 1 \/ i = 2 \/ i = 3 \/ (i = 4 /\ i - 3 = 1) \/ (i = 5 /\ i - 3 = 2)
      OBVIOUS
    <3> QED  BY <3>1, <2>2, <2>4
  <2>6. u = v
    BY <1>1, <2>1, <2>3, <2>4, <2>5, SeqEqual
  <2> QED  BY <2>6 DEF u
<1> HIDE DEF w, x, y, z, v
<1>4. w \o (x \o y) = v
  BY <1>2, <1>3
<1> QED  BY <1>4 DEF w, x, y, v

LEMMA Run5 ==
  ASSUME NEW a \in ACall, NEW b \in ACall, NEW c \in ACall, NEW d \in ACall, NEW f \in ACall,
         NEW ts \in Seq(ACall), NEW q, Run(<<a, b, c>> \o (<<d>> \o (<<f>> \o ts)), q)
  PROVE  Run(<<a, b, c, d, f>> \o ts, q)
<1> DEFINE w == <<a, b, c>>
           x == <<d>>
           y == <<f>>
           v == <<a, b, c, d, f>>
<1>1. w \in Seq(ACall) /\ x \in Seq(ACall) /\ y \in Seq(ACall) /\ v \in Seq(ACall)
  OBVIOUS
<1>2. Cat(w, Cat(x, y)) = v
  BY Five DEF Cat
<1>3. Run(Cat(w, Cat(x, Cat(y, ts))), q)
  BY DEF Cat
<1> HIDE DEF w, x, y, v
<1>4. Cat(w, Cat(x, Cat(y, ts))) = Cat(v, ts)
  BY <1>1, <1>2, Regroup
<1>5. Run(Cat(v, ts), q)
  BY <1>3, <1>4
<1> QED  BY <1>5 DEF v, Cat
-----------------------------------------------------------------------------
(* Functions.                                                              *)

(* Where a function begins, in what stands at e.                           *)
Within(e, rest) ==
  [rest |-> <<e>> \o rest, bases |-> << 1 >>, loose |-> FALSE, L |-> 1, D |-> 1, uninit |-> FALSE,
   pend |-> {}, names |-> {}, empty |-> TRUE]

LEMMA WithinIs ==
  ASSUME NEW e \in Enclosure, NEW rest \in Seq(Enclosure)
  PROVE  LET q == Within(e, rest) IN
         /\ q \in Point /\ q.rest = <<e>> \o rest /\ q.bases = << 1 >> /\ ~q.loose
         /\ q.L = 1 /\ q.D = 1 /\ ~q.uninit /\ q.pend = {} /\ q.names = {} /\ q.empty
<1> DEFINE r == <<e>> \o rest
           b == << 1 >>
<1>1. r \in Seq(Enclosure) /\ b \in Seq(Nat)
  OBVIOUS
<1>2. Within(e, rest) = [rest |-> r, bases |-> b, loose |-> FALSE, L |-> 1, D |-> 1, uninit |-> FALSE,
                        pend |-> {}, names |-> {}, empty |-> TRUE]
  BY DEF Within
<1> HIDE DEF r, b
<1> DEFINE q == [rest |-> r, bases |-> b, loose |-> FALSE, L |-> 1, D |-> 1, uninit |-> FALSE,
                 pend |-> {}, names |-> {}, empty |-> TRUE]
<1>3. /\ q \in Point /\ q.rest = r /\ q.bases = b /\ ~q.loose
      /\ q.L = 1 /\ q.D = 1 /\ ~q.uninit /\ q.pend = {} /\ q.names = {} /\ q.empty
  BY <1>1 DEF Point
<1> QED  BY <1>2, <1>3 DEF r, b

LEMMA WithinStands ==
  ASSUME NEW n \in Nat, NEW e \in Enclosure, NEW rest \in Seq(Enclosure)
  PROVE  LET c == NewCompiler(n, "function", 1) IN
         /\ c \in Compiling /\ c.fn = n
         /\ Stands([comp |-> c, fun |-> NewFunction], Within(e, rest))
<1> DEFINE c == NewCompiler(n, "function", 1)
           q == Within(e, rest)
           z == [comp |-> c, fun |-> NewFunction]
           ls == <<[name |-> "", depth |-> 0]>>
<1>1. /\ q \in Point /\ q.rest = <<e>> \o rest /\ q.bases = << 1 >> /\ ~q.loose
      /\ q.L = 1 /\ q.D = 1 /\ ~q.uninit /\ q.pend = {} /\ q.names = {} /\ q.empty
  BY WithinIs
<1>2. c \in Compiling /\ c.fn = n /\ NewFunction \in Fun
  BY NewOnes
<1>3. c.locals = ls /\ c.scope = 1
  BY DEF NewCompiler
<1>4. Len(ls) = 1 /\ ls[1].depth = 0
  OBVIOUS
<1>5. NewFunction.code = <<>> /\ NewFunction.arity = 0
  BY DEF NewFunction
<1> HIDE DEF q, ls, c
<1>6. Len(q.bases) = 1 /\ q.bases[1] = 1
  BY <1>1
<1>7. \A i \in 1..1 : i = 1 /\ c.locals[i].depth = 0 /\ Rank(c, i) = 0
  BY <1>3, <1>4 DEF Rank
<1>8. LocalsOK(c, q)
  BY <1>1, <1>3, <1>4, <1>6, <1>7 DEF LocalsOK
<1>9. CodeOK(NewFunction, 1, {}, q.rest = <<>>)
  <2> DEFINE script == (q.rest = <<>>)
  <2> HIDE DEF script
  <2>1. CodeOK(NewFunction, NewFunction.arity + 1, {}, script)
    BY <1>2, <1>5, NoCode
  <2>2. NewFunction.arity + 1 = 1
    BY <1>5
  <2> QED  BY <2>1, <2>2 DEF script
<1>10. z.comp = c /\ z.fun = NewFunction
  OBVIOUS
<1> HIDE DEF z
<1>11. Stands(z, q)
  BY <1>1, <1>5, <1>8, <1>9, <1>10 DEF Stands
<1> QED  BY <1>2, <1>11 DEF c, q, z

(* The calls of a function, until it is a constant of what encloses it.    *)
LEMMA FunctionCalls ==
  ASSUME NEW p \in Point, NEW e, Stands(e, Plus(Plus(p, 1), -1)), ~p.loose,
         NEW q \in Point, q.rest = <<e>> \o p.rest, q.bases = << 1 >>, InList(q), q.pend = {}, q.empty,
         e \in Enclosure, NEW ts \in Seq(ACall), Run(ts, Plus(p, 1))
  PROVE  Run(<<Call("parameterList"), Expect({")"}), DeclareUntil({"END", "ENDFUNC"}),
               Expect({"END", "ENDFUNC"}), Call("endFunction")>> \o ts, q)
<1> DEFINE r == Plus(p, 1)
           a == Call("parameterList")
           b == Expect({")"})
           c == DeclareUntil({"END", "ENDFUNC"})
           d == Expect({"END", "ENDFUNC"})
           f == Call("endFunction")
           q1 == Loosened(q)
           q2 == Plus(q1, 0)
           q3 == Loosened(q2)
           q4 == Plus(q3, 0)
<1>0. 0 \in Int /\ 1 \in Int
  OBVIOUS
<1>1. /\ q1 \in Point /\ q1.rest = q.rest /\ q1.bases = q.bases /\ q1.loose /\ q1.pend = q.pend
  BY LoosenedIs
<1>2. a \in ACall /\ Normal(a) /\ Pre(a, q) /\ Post(a, q) = q1
  BY CallIs DEF Simple, SimpleCalls, Heads
<1>3. b \in ACall /\ Normal(b) /\ Pre(b, q1) /\ Post(b, q1) = q2
  BY ExpectIs DEF Expected
<1> HIDE DEF q1
<1>4. q2 \in Point /\ q2.rest = q1.rest /\ q2.bases = q1.bases /\ (q2.loose <=> q1.loose) /\ q2.pend = q1.pend
  <2>1. q1 \in Point
    BY <1>1
  <2> QED  BY <1>0, <2>1, PlusIs
<1> HIDE DEF q2
<1>5. /\ q3 \in Point /\ q3.rest = q2.rest /\ q3.bases = q2.bases /\ q3.loose /\ q3.pend = q2.pend
  BY <1>4, LoosenedIs
<1>6. c \in ACall /\ Normal(c) /\ Pre(c, q2) /\ Post(c, q2) = q3
  <2>1. InList(q2) /\ {"END", "ENDFUNC"} \in Ends
    BY <1>1, <1>4 DEF InList, Ends
  <2> QED  BY <2>1, DeclareUntilIs
<1>7. d \in ACall /\ Normal(d) /\ Pre(d, q3) /\ Post(d, q3) = q4
  BY ExpectIs DEF Expected
<1> HIDE DEF q3
<1>8. q4 \in Point /\ q4.rest = q3.rest /\ q4.bases = q3.bases /\ (q4.loose <=> q3.loose) /\ q4.pend = q3.pend
  <2>1. q3 \in Point
    BY <1>5
  <2> QED  BY <1>0, <2>1, PlusIs
<1> HIDE DEF q4
<1>9. InList(q4) /\ q4.pend = {} /\ q4.bases = << 1 >> /\ q4.rest = <<e>> \o p.rest
  BY <1>1, <1>4, <1>5, <1>8 DEF InList
<1>10. r \in Point /\ r.rest = p.rest /\ (r.loose <=> p.loose) /\ ~r.empty
  BY <1>0, PlusIs
<1> HIDE DEF r
<1>11. f \in ACall /\ f.do = "endFunction"
  BY CallsMade DEF SimpleCalls, Call
<1>12. Deep(f, q4, r)
  <2>1. p.rest \in Seq(Enclosure)
    BY PointIs
  <2> DEFINE s == <<e>> \o p.rest
  <2>2. s # <<>> /\ s[1] = e /\ Tail(s) = p.rest
    BY <2>1
  <2>3. q4.rest = s
    BY <1>9
  <2> HIDE DEF s
  <2>4. q4.rest # <<>> /\ q4.rest[1] = e /\ Tail(q4.rest) = p.rest
    BY <2>2, <2>3
  <2>5. Stands(q4.rest[1], Plus(r, -1))
    BY <2>4 DEF r
  <2> QED  BY <2>4, <2>5, <1>9, <1>10, <1>11 DEF Deep
<1> HIDE DEF a, b, c, d, f
<1>13. Run(<<f>> \o ts, q4)
  BY <1>8, <1>11, <1>12, RunMore DEF r
<1> DEFINE us == <<f>> \o ts
<1>14. us \in Seq(ACall) /\ Run(us, q4)
  BY <1>11, <1>13
<1> HIDE DEF us
<1>15. Flow(q4, q4)
  BY <1>8, FlowSelf
<1>16. Run(<<d>> \o us, q3)
  BY <1>5, <1>7, <1>8, <1>14, <1>15, Run1
<1> DEFINE vs == <<d>> \o us
<1>17. vs \in Seq(ACall) /\ Run(vs, q3)
  BY <1>7, <1>14, <1>16
<1> HIDE DEF vs
<1>18. Flow(q3, q3)
  BY <1>5, FlowSelf
<1>19. Run(<<a, b, c>> \o vs, q)
  <2>1. Pre(b, Post(a, q)) /\ Pre(c, Post(b, Post(a, q))) /\ Flow(Post(c, Post(b, Post(a, q))), q3)
    BY <1>2, <1>3, <1>6, <1>18
  <2>2. q3 \in Point /\ a \in ACall /\ Normal(a) /\ Pre(a, q) /\ b \in ACall /\ Normal(b)
        /\ c \in ACall /\ Normal(c)
    BY <1>2, <1>3, <1>5, <1>6
  <2> QED  BY <2>1, <2>2, <1>17, Run3
<1>20. Run(<<a, b, c, d, f>> \o ts, q)
  <2>1. a \in ACall /\ b \in ACall /\ c \in ACall /\ d \in ACall /\ f \in ACall
    BY <1>2, <1>3, <1>6, <1>7, <1>11
  <2>2. Run(<<a, b, c>> \o (<<d>> \o (<<f>> \o ts)), q)
    BY <1>19 DEF vs, us
  <2> QED  BY <2>1, <2>2, Run5
<1> QED  BY <1>20 DEF a, b, c, d, f

(* What is around: the enclosing compilers and their code.                 *)
Enclosures(cs, fs) ==
  [i \in 1..Len(cs)-1 |-> [comp |-> cs[i + 1], fun |-> fs[cs[i + 1].fn]]]

LEMMA EnclosuresAre ==
  ASSUME NEW cs, NEW fs, CompilersOK(cs, fs)
  PROVE  LET s == Enclosures(cs, fs) IN
         /\ s \in Seq(Enclosure) /\ Len(s) = Len(cs) - 1 /\ Len(cs) \in Nat \ {0}
         /\ \A i \in 1..Len(cs)-1 : s[i] = [comp |-> cs[i + 1], fun |-> fs[cs[i + 1].fn]]
         /\ [comp |-> cs[1], fun |-> fs[cs[1].fn]] \in Enclosure
<1> DEFINE n == Len(cs)
           s == [i \in 1..n-1 |-> [comp |-> cs[i + 1], fun |-> fs[cs[i + 1].fn]]]
<1>1. /\ cs \in Seq(Compiling) /\ cs # <<>> /\ fs \in Seq(Fun)
      /\ \A i \in DOMAIN cs : cs[i].fn \in DOMAIN fs
  BY DEF CompilersOK, Compile
<1>2. n \in Nat \ {0} /\ n - 1 \in Nat /\ DOMAIN cs = 1..n
  BY <1>1
<1>3. ASSUME NEW i \in 1..n PROVE [comp |-> cs[i], fun |-> fs[cs[i].fn]] \in Enclosure
  <2>1. cs[i] \in Compiling /\ fs[cs[i].fn] \in Fun
    BY <1>1, <1>2
  <2> QED  BY <2>1 DEF Enclosure
<1>4. Enclosures(cs, fs) = s
  BY DEF Enclosures
<1> HIDE DEF n
<1>5. ASSUME NEW i \in 1..n-1 PROVE [comp |-> cs[i + 1], fun |-> fs[cs[i + 1].fn]] \in Enclosure
  <2>1. i + 1 \in 1..n
    BY <1>2
  <2> QED  BY <2>1, <1>3
<1>6. s \in [1..n-1 -> Enclosure]
  BY <1>5
<1>7. s \in Seq(Enclosure) /\ Len(s) = n - 1
  BY <1>2, <1>6
<1>8. 1 \in 1..n
  BY <1>2
<1> QED  BY <1>2, <1>3, <1>4, <1>7, <1>8 DEF n

LEMMA DeepFunction ==
  ASSUME Smooth, Function PROVE DeepInv'
<1> DEFINE c == NewCompiler(Len(functions) + 1, "function", 1)
           e == [comp |-> compilers[1], fun |-> functions[compilers[1].fn]]
           calls == <<Call("parameterList"), Expect({")"}), DeclareUntil({"END", "ENDFUNC"}),
                      Expect({"END", "ENDFUNC"}), Call("endFunction")>>
<1>1. PICK p \in Point : Now(p)
  BY SmoothAt DEF Function
<1>2. /\ Task.do = "function" /\ Task \in ACall /\ Tail(tasks) \in Seq(ACall)
      /\ CompilersOK(compilers, functions)
  BY SmoothAt DEF Function
<1>3. /\ p \in Point /\ ~p.loose /\ ~p.uninit /\ p.D >= 1 /\ Post(Task, p) = Plus(p, 1)
      /\ p.rest = Around /\ Stands(Here, p) /\ Run(Tail(tasks), Plus(p, 1))
  <2>1. Pre(Task, p) <=> ~p.loose /\ ~p.uninit /\ p.D >= 1
    BY <1>2, PreIs
  <2>2. Post(Task, p) = Plus(p, 1)
    BY <1>2, PostIs
  <2> QED  BY <2>1, <2>2, <1>1, NowIs
<1>4. /\ compilers' = <<c>> \o compilers /\ functions' = Append(functions, NewFunction)
      /\ tasks' = calls \o Tail(tasks)
  BY DEF Function, Continue
<1>5. Comp = compilers[1] /\ Here = e /\ Around = Enclosures(compilers, functions)
  <2>1. Comp = compilers[1]
    BY <1>2, CompOK
  <2> QED  BY <2>1 DEF Here, Chunk, Around, Enclosures
<1>6. e \in Enclosure /\ Around \in Seq(Enclosure)
  BY <1>2, <1>5, EnclosuresAre
<1> HIDE DEF e, calls
<1> DEFINE q == Within(e, p.rest)
<1>7. /\ q \in Point /\ q.rest = <<e>> \o p.rest /\ q.bases = << 1 >> /\ ~q.loose
      /\ q.L = 1 /\ q.D = 1 /\ ~q.uninit /\ q.pend = {} /\ q.empty
  BY <1>3, <1>6, WithinIs
<1>8. Len(functions) + 1 \in Nat
  BY <1>2 DEF CompilersOK
<1>9. c \in Compiling /\ c.fn = Len(functions) + 1 /\ Stands([comp |-> c, fun |-> NewFunction], q)
  BY <1>3, <1>6, <1>8, WithinStands
<1> HIDE DEF q, c
<1>10. Stands(e, Plus(Plus(p, 1), -1))
  <2> DEFINE u == Plus(p, 1)
             v == Plus(u, -1)
  <2>1. 1 \in Int /\ -1 \in Int
    OBVIOUS
  <2>2. u \in Point /\ u.rest = p.rest /\ u.bases = p.bases /\ (u.loose <=> p.loose)
        /\ u.L = p.L /\ u.D = p.D + 1 /\ (u.uninit <=> p.uninit) /\ u.pend = p.pend /\ u.names = p.names
    BY <2>1, PlusIs
  <2> HIDE DEF u
  <2>3. v \in Point /\ v.rest = u.rest /\ v.bases = u.bases /\ (v.loose <=> u.loose)
        /\ v.L = u.L /\ v.D = u.D + -1 /\ (v.uninit <=> u.uninit) /\ v.pend = u.pend /\ v.names = u.names
        /\ ~v.empty
    BY <2>1, <2>2, PlusIs
  <2> HIDE DEF v
  <2>4. p.D \in Int
    BY PointIs
  <2>5. v.D = p.D
    BY <2>2, <2>3, <2>4
  <2>6. LocalsOK(Comp, p)
    BY <1>1, NowIs
  <2>7. LocalsOK(Comp, v)
    BY <2>2, <2>3, <2>6, LocalsSame
  <2>8. Stands([comp |-> Comp, fun |-> Chunk], v)
    BY <1>3, <2>2, <2>3, <2>5, <2>7, StandsStill
  <2> QED  BY <2>8, <1>5 DEF Here, u, v
<1>11. InList(q)
  BY <1>7 DEF InList
<1>12. Run(tasks', q)
  <2>1. Run(calls \o Tail(tasks), q)
    BY <1>2, <1>3, <1>6, <1>7, <1>10, <1>11, FunctionCalls DEF calls
  <2> QED  BY <2>1, <1>4
<1>13. /\ CompilersOK(compilers', functions') /\ Len(compilers') = Len(compilers) + 1
       /\ compilers'[1] = c /\ functions'[c.fn] = NewFunction
  BY <1>2, <1>4, Pushed DEF c
<1>14. Comp' = c /\ Chunk' = NewFunction
  <2>1. Comp' = compilers'[1]
    BY <1>4 DEF Comp
  <2> QED  BY <2>1, <1>13 DEF Chunk
<1>15. Around' = <<e>> \o Around
  <2> DEFINE n == Len(compilers)
             a == Enclosures(compilers', functions')
             b == Enclosures(compilers, functions)
             d == <<e>> \o b
  <2>1. /\ b \in Seq(Enclosure) /\ Len(b) = n - 1 /\ n \in Nat \ {0}
        /\ \A i \in 1..n-1 : b[i] = [comp |-> compilers[i + 1], fun |-> functions[compilers[i + 1].fn]]
    BY <1>2, EnclosuresAre
  <2>2. /\ a \in Seq(Enclosure) /\ Len(a) = Len(compilers') - 1
        /\ \A i \in 1..Len(compilers')-1 :
             a[i] = [comp |-> compilers'[i + 1], fun |-> functions'[compilers'[i + 1].fn]]
    BY <1>13, EnclosuresAre
  <2>3. /\ compilers \in Seq(Compiling) /\ functions \in Seq(Fun)
        /\ \A i \in 1..n : compilers[i].fn \in 1..Len(functions)
    BY <1>2 DEF CompilersOK, Compile
  <2>4. /\ \A i \in 1..n : compilers'[i + 1] = compilers[i]
        /\ \A f \in 1..Len(functions) : functions'[f] = functions[f]
    BY <1>4, <1>9, <2>3, NewOnes
  <2> HIDE DEF a, b, n
  <2>5. Len(a) = n /\ \A i \in 1..n :
             a[i] = [comp |-> compilers'[i + 1], fun |-> functions'[compilers'[i + 1].fn]]
    BY <1>13, <2>1, <2>2 DEF n
  <2>6. \A i \in 1..n : a[i] = [comp |-> compilers[i], fun |-> functions[compilers[i].fn]]
    BY <2>3, <2>4, <2>5, SMTT(30)
  <2>7. d \in Seq(Enclosure) /\ Len(d) = n /\ d[1] = e /\ \A i \in 2..n : d[i] = b[i - 1]
    BY <2>1, <1>6
  <2> HIDE DEF d
  <2>8. ASSUME NEW i \in 1..n PROVE a[i] = d[i]
    <3>1. CASE i = 1
      BY <3>1, <2>6, <2>7, <2>1 DEF e
    <3>2. CASE i # 1
      <4>1. i \in 2..n /\ i - 1 \in 1..n-1 /\ (i - 1) + 1 = i
        BY <3>2, <2>1
      <4>2. b[i - 1] = [comp |-> compilers[i], fun |-> functions[compilers[i].fn]]
        BY <4>1, <2>1
      <4> QED  BY <4>1, <4>2, <2>6, <2>7
    <3> QED  BY <3>1, <3>2
  <2>9. a = d
    BY <2>2, <2>5, <2>7, <2>8, SeqEqual
  <2>10. Around' = a
    BY DEF Around, Enclosures, a
  <2> QED  BY <2>9, <2>10, <1>5 DEF b, d
<1>16. q.rest = Around' /\ Stands([comp |-> Comp', fun |-> Chunk'], q)
  BY <1>3, <1>7, <1>9, <1>14, <1>15
<1> QED  BY <1>7, <1>12, <1>16 DEF DeepInv

WithConsts(f, cs) == [f EXCEPT !.consts = cs]

LEMMA WithConstsIs ==
  ASSUME NEW f \in Fun, NEW cs \in Seq(Kept)
  PROVE  LET g == WithConsts(f, cs) IN
         g \in Fun /\ g.code = f.code /\ g.consts = cs /\ g.arity = f.arity
  BY SMTT(30) DEF WithConsts, Fun

(* The functions after the innermost one has ended.                        *)
LEMMA EndedFunctions ==
  ASSUME CompilersOK(compilers, functions), EndFunction, ~hadError', Len(compilers) > 1
  PROVE  LET g == compilers[1].fn
             h == compilers[2].fn
             n == Len(functions[h].consts)
             more == WithConsts(functions[h], Append(functions[h].consts, Val("fun", g)))
         IN  /\ g \in 1..Len(functions) /\ h \in 1..Len(functions) /\ h # g /\ n < Byte /\ n \in Nat
             /\ functions' \in Seq(Fun) /\ Len(functions') = Len(functions)
             /\ functions'[g] = WithCode(functions[g], functions[g].code \o EmitReturn)
             /\ functions[h] \in Fun /\ Append(functions[h].consts, Val("fun", g)) \in Seq(Kept)
             /\ more \in Fun /\ functions'[h] = WithCode(more, Append(more.code, IA("CONST", n)))
             /\ \A f \in 1..Len(functions) : f # g /\ f # h => functions'[f] = functions[f]
             /\ compilers' = Tail(compilers) /\ tasks' = <<>> \o Tail(tasks)
<1> DEFINE fs == functions
           gs == functions'
           g == compilers[1].fn
           h == compilers[2].fn
           v == Val("fun", g)
           n == Len(functions[h].consts)
           consts == Append(fs[h].consts, v)
           inner == [fs[g] EXCEPT !.code = @ \o EmitReturn]
           outer == [fs[h] EXCEPT !.consts = Append(@, v), !.code = Append(@, IA("CONST", n))]
           more == WithConsts(fs[h], consts)
<1>1. /\ compilers \in Seq(Compiling) /\ fs \in Seq(Fun) /\ Enclosing(compilers)
      /\ \A i \in DOMAIN compilers : compilers[i].fn \in DOMAIN fs
      /\ Comp = compilers[1] /\ Len(compilers) \in Nat
  BY CompOK DEF CompilersOK, Compile
<1>2. /\ 1 \in DOMAIN compilers /\ 2 \in DOMAIN compilers /\ DOMAIN fs = 1..Len(fs) /\ Len(fs) \in Nat
  BY <1>1
<1>3. g \in 1..Len(fs) /\ h \in 1..Len(fs) /\ h < g /\ g # h
  BY <1>1, <1>2 DEF Enclosing
<1>4. fs[g] \in Fun /\ fs[h] \in Fun
  BY <1>1, <1>3
<1>5. /\ fs[g].code \in Seq(Instr) /\ fs[h].code \in Seq(Instr) /\ fs[h].consts \in Seq(Kept) /\ n \in Nat
  BY <1>4, SMTT(30) DEF Fun
<1>6. n < Byte
  <2>1. Stay(n >= Byte)
    BY DEF EndFunction
  <2>2. ~(n >= Byte)
    BY <2>1 DEF Stay, Errors
  <2> HIDE DEF n
  <2> QED  BY <2>2, <1>5, CompilerAssumption
<1>7. gs = [fs EXCEPT ![g] = inner, ![h] = outer]
  <2> DEFINE k == IF n >= Byte THEN 0 ELSE n
  <2>1. k = n
    BY <1>5, <1>6, CompilerAssumption
  <2>2. functions' = [functions EXCEPT
             ![Comp.fn].code = @ \o EmitReturn,
             ![h].consts = Append(@, Val("fun", Comp.fn)),
             ![h].code = Append(@, IA("CONST", k))]
    BY SMTT(30) DEF EndFunction
  <2> HIDE DEF k
  <2>3. functions' = [functions EXCEPT
             ![g].code = @ \o EmitReturn,
             ![h].consts = Append(@, v),
             ![h].code = Append(@, IA("CONST", n))]
    BY <1>1, <2>1, <2>2, Zenon
  <2> HIDE DEF g, h, n, v
  <2> QED  BY <1>1, <1>2, <1>3, <1>4, <2>3 DEF Fun
<1>8. v \in Kept /\ IA("CONST", n) \in Instr
  <2>1. \A k \in Nat : Val("fun", k) \in Kept
    BY DEF Val, Kept
  <2>2. \A k \in Nat : IA("CONST", k) \in Instr
    BY IsInstr DEF Ops
  <2> QED  BY <1>3, <1>5, <2>1, <2>2
<1>9. consts \in Seq(Kept)
  BY <1>5, <1>8
<1>10. more \in Fun /\ more.code = fs[h].code
  <2> HIDE DEF consts
  <2> QED  BY <1>4, <1>9, WithConstsIs, SMTT(30)
<1>11. outer = WithCode(more, Append(more.code, IA("CONST", n)))
  <2> DEFINE code == Append(fs[h].code, IA("CONST", n))
  <2>1. outer = [fs[h] EXCEPT !.consts = consts, !.code = code]
    BY <1>4 DEF Fun
  <2>2. WithCode(more, code) = [[fs[h] EXCEPT !.consts = consts] EXCEPT !.code = code]
    BY DEF WithCode, WithConsts
  <2> HIDE DEF consts, code
  <2>3. [[fs[h] EXCEPT !.consts = consts] EXCEPT !.code = code]
        = [fs[h] EXCEPT !.consts = consts, !.code = code]
    BY <1>4 DEF Fun
  <2>4. outer = WithCode(more, code)
    BY <2>1, <2>2, <2>3
  <2>5. code = Append(more.code, IA("CONST", n))
    BY <1>10 DEF code
  <2> QED  BY <2>4, <2>5
<1>12. inner = WithCode(fs[g], fs[g].code \o EmitReturn)
  BY <1>4 DEF WithCode, Fun
<1>13. WithCode(fs[g], fs[g].code \o EmitReturn) \in Fun
  <2>1. EmitReturn \in Seq(Instr)
    BY IsInstr DEF EmitReturn, Ops
  <2>2. fs[g].code \o EmitReturn \in Seq(Instr)
    BY <1>5, <2>1
  <2> QED  BY <1>4, <2>2, WithCodeIs
<1>14. WithCode(more, Append(more.code, IA("CONST", n))) \in Fun
  <2>1. Append(more.code, IA("CONST", n)) \in Seq(Instr)
    BY <1>5, <1>8, <1>10
  <2> QED  BY <1>10, <2>1, WithCodeIs
<1> HIDE DEF inner, outer, g, h, more, n, v, consts
<1>15. /\ gs \in Seq(Fun) /\ Len(gs) = Len(fs) /\ gs[g] = inner /\ gs[h] = outer
       /\ \A f \in 1..Len(fs) : f # g /\ f # h => gs[f] = fs[f]
  BY <1>1, <1>3, <1>7, <1>11, <1>12, <1>13, <1>14, SMTT(30)
<1>16. compilers' = Tail(compilers) /\ tasks' = <<>> \o Tail(tasks)
  BY DEF EndFunction, Continue
<1> QED  BY <1>3, <1>4, <1>5, <1>6, <1>9, <1>10, <1>11, <1>12, <1>15, <1>16 DEF g, h, n, more, consts, v

(* There is always something on the stack.                                 *)
LEMMA NeverEmpty ==
  ASSUME NEW f \in Fun, NEW D, NEW pend, NEW script, CodeOK(f, D, pend, script)
  PROVE  D \in Int /\ D >= 1
<1> DEFINE n == Len(f.code)
<1>0. n \in Nat /\ f.arity \in Nat
  BY FunIs
<1>1. PICK d : Walk(f, d, pend, script) /\ d[n + 1] = D
  BY DEF CodeOK
<1>2. d \in [1..n+1 -> Int] /\ d[1] = f.arity + 1
  BY <1>1 DEF Walk
<1>3. \A i \in Instr : Needs(i) \in Nat /\ Effect(i) \in Int /\ Needs(i) + Effect(i) >= 0
  BY DEF Needs, Effect, Instr, UnaryOps, BinaryOps
<1>4. \A j \in 1..n : d[j] \in Int /\ f.code[j] \in Instr /\ d[j] >= Needs(f.code[j]) + 1
  <2>1. f.code \in Seq(Instr)
    BY FunIs
  <2>2. ASSUME NEW j \in 1..n PROVE f.code[j] \in Instr /\ Fits(f, f.code[j], d[j], script)
    BY <1>1, <2>1, InstrIs, WalkAt
  <2> HIDE DEF n
  <2>3. \A j \in 1..n : d[j] \in Int
    BY <1>0, <1>2
  <2> QED  BY <2>2, <2>3 DEF Fits
<1>5. CASE n = 0
  <2>1. D = d[1] /\ 1 \in 1..n+1
    BY <1>1, <1>5
  <2> QED  BY <2>1, <1>0, <1>2
<1>6. CASE n # 0
  <2> DEFINE js == Jumps(f.code, n + 1)
  <2>1. n + 1 \in 2..n+1 /\ n \in 1..n /\ n + 1 \in 1..n+1 /\ (n + 1) - 1 = n
    <3> HIDE DEF n
    <3> QED  BY <1>0, <1>6
  <2>2. /\ js # {} => Least(js) \in 1..(n + 1)-1 /\ d[n + 1] = d[Least(js)]
        /\ js = {} => d[n + 1] = d[(n + 1) - 1] + Effect(f.code[(n + 1) - 1])
    BY <1>1, <2>1, WalkStep
  <2> HIDE DEF js, n
  <2>3. CASE js # {}
    <3>1. Least(js) \in 1..n /\ D = d[Least(js)]
      BY <2>1, <2>2, <2>3, <1>1
    <3> QED  BY <3>1, <1>3, <1>4
  <2>4. CASE js = {}
    <3>1. D = d[n] + Effect(f.code[n])
      BY <2>1, <2>2, <2>4, <1>1
    <3> QED  BY <3>1, <2>1, <1>3, <1>4
  <2> QED  BY <2>3, <2>4
<1> QED  BY <1>5, <1>6

(* A function as a constant of what encloses it.                           *)
LEMMA StandsFunction ==
  ASSUME NEW o, NEW f \in Fun, NEW p \in Point, Stands([comp |-> o, fun |-> f], p),
         NEW v \in Kept, Append(f.consts, v) \in Seq(Kept)
  PROVE  LET n == Len(f.consts)
             more == WithConsts(f, Append(f.consts, v))
             g == WithCode(more, Append(more.code, IA("CONST", n)))
             q == Plus(p, 1)
         IN  q \in Point /\ Stands([comp |-> o, fun |-> g], q)
<1> DEFINE n == Len(f.consts)
           cs == Append(f.consts, v)
           more == WithConsts(f, cs)
           script == (p.rest = <<>>)
           i == IA("CONST", n)
<1>1. f.consts \in Seq(Kept) /\ n \in Nat /\ f.code \in Seq(Instr) /\ Len(f.code) \in Nat
  BY DEF Fun
<1>2. cs \in Seq(Kept) /\ Len(cs) = n + 1 /\ \A k \in 1..n : cs[k] = f.consts[k]
  BY <1>1
<1>3. DOMAIN cs = 1..n+1 /\ DOMAIN f.consts = 1..n
  BY <1>1, <1>2
<1> HIDE DEF cs
<1>4. more \in Fun /\ more.code = f.code /\ more.consts = cs /\ more.arity = f.arity
  BY <1>2, WithConstsIs
<1> HIDE DEF more
<1>5. Grows(f, more)
  <2>1. \A k \in DOMAIN f.consts : k \in DOMAIN more.consts /\ more.consts[k] = f.consts[k]
    <3> HIDE DEF n
    <3> QED  BY <1>1, <1>2, <1>3, <1>4
  <2>2. Len(f.code) <= Len(more.code)
    BY <1>1, <1>4
  <2> QED  BY <2>1, <2>2, <1>4 DEF Grows
<1>6. ~p.loose /\ LocalsOK(o, p) /\ CodeOK(f, p.D, p.pend, script)
      /\ p.names \subseteq StrNames(f) /\ (p.empty => f.code = <<>>)
  BY StandsIs
<1> HIDE DEF script
<1>7. CodeOK(more, p.D, p.pend, script)
  BY <1>4, <1>5, <1>6, MoreConstants
<1>8. p.names \subseteq StrNames(more)
  BY <1>5, <1>6 DEF Grows, StrNames
<1>9. Stands([comp |-> o, fun |-> more], p)
  <2> DEFINE e == [comp |-> o, fun |-> more]
  <2>1. e.comp = o /\ e.fun = more
    OBVIOUS
  <2> HIDE DEF e
  <2> QED  BY <2>1, <1>4, <1>6, <1>7, <1>8 DEF Stands, script
<1>10. p.D \in Int /\ p.D >= 1
  BY <1>6, NeverEmpty
<1>11. i \in Instr /\ i.op = "CONST" /\ i.a = n
  BY <1>1 DEF IA, Instr, Ops
<1> HIDE DEF i
<1>12. Needs(i) = 0 /\ Effect(i) = 1
  BY <1>11 DEF Needs, Effect, UnaryOps, BinaryOps
<1>13. i.op \notin JumpOps /\ Fits(more, i, p.D, script)
  <2>1. i.a + 1 \in DOMAIN more.consts
    <3> HIDE DEF n
    <3> QED  BY <1>1, <1>3, <1>4, <1>11
  <2> QED  BY <2>1, <1>10, <1>11, <1>12 DEF Fits, JumpOps, NameOps
<1>14. Plus(p, 1) \in Point /\ Stands([comp |-> o, fun |-> WithCode(more, Append(more.code, i))], Plus(p, 1))
  <2>1. Fits(more, i, p.D, p.rest = <<>>)
    BY <1>13 DEF script
  <2>2. /\ Plus(p, Effect(i)) \in Point
        /\ Stands([comp |-> o, fun |-> WithCode(more, Append(more.code, i))], Plus(p, Effect(i)))
    BY <1>4, <1>9, <1>11, <1>13, <2>1, StandsInstr
  <2> QED  BY <2>2, <1>12
<1> QED  BY <1>14 DEF n, cs, more, i

LEMMA DeepEndFunction ==
  ASSUME Smooth, EndFunction PROVE DeepInv'
<1> DEFINE N == Len(compilers)
           g == compilers[1].fn
           o == compilers[2]
           h == o.fn
           v == Val("fun", g)
           n == Len(functions[h].consts)
           more == WithConsts(functions[h], Append(functions[h].consts, v))
           f == WithCode(more, Append(more.code, IA("CONST", n)))
<1>1. CompilersOK(compilers, functions) /\ pos > 0 /\ status = "compiling" /\ Task.do = "endFunction"
  BY AtTask DEF EndFunction, Smooth
<1>2. /\ tasks \in Seq(ACall) /\ tasks # <<>> /\ Task = tasks[1] /\ Tail(tasks) \in Seq(ACall)
      /\ \E p \in Point : p.rest = Around /\ Stands(Here, p) /\ Run(tasks, p)
  BY <1>1, DeepNow DEF Smooth
<1>3. PICK p \in Point : p.rest = Around /\ Run(tasks, p)
  BY <1>2
<1>4. PICK q \in Point : Deep(tasks[1], p, q) /\ Run(Tail(tasks), q)
  BY <1>2, <1>3, RunFirst
<1>5. /\ p.rest # <<>> /\ q.rest = Tail(p.rest) /\ ~q.loose /\ ~q.empty
      /\ Stands(p.rest[1], Plus(q, -1))
  BY <1>1, <1>2, <1>4 DEF Deep, Normal
<1>6. Around = Enclosures(compilers, functions) /\ Around' = Enclosures(compilers', functions')
  BY DEF Around, Enclosures
<1>7. /\ Around \in Seq(Enclosure) /\ Len(Around) = N - 1 /\ N \in Nat \ {0}
      /\ \A i \in 1..N-1 : Around[i] = [comp |-> compilers[i + 1], fun |-> functions[compilers[i + 1].fn]]
  BY <1>1, <1>6, EnclosuresAre
<1>8. N > 1
  <2>1. Around # <<>>
    BY <1>3, <1>5
  <2>2. Len(Around) # 0
    BY <2>1, <1>7
  <2> HIDE DEF N
  <2> QED  BY <2>2, <1>7
<1>9. p.rest[1] = [comp |-> o, fun |-> functions[h]]
  <2>1. 1 \in 1..N-1 /\ 1 + 1 = 2
    BY <1>7, <1>8
  <2>2. Around[1] = [comp |-> compilers[1 + 1], fun |-> functions[compilers[1 + 1].fn]]
    BY <2>1, <1>7
  <2> QED  BY <2>1, <2>2, <1>3
<1>10. /\ g \in 1..Len(functions) /\ h \in 1..Len(functions) /\ h # g
       /\ functions' \in Seq(Fun) /\ Len(functions') = Len(functions)
       /\ functions[h] \in Fun /\ Append(functions[h].consts, v) \in Seq(Kept)
       /\ functions'[h] = f
       /\ \A k \in 1..Len(functions) : k # g /\ k # h => functions'[k] = functions[k]
       /\ compilers' = Tail(compilers) /\ tasks' = <<>> \o Tail(tasks)
  BY <1>1, <1>8, EndedFunctions DEF Smooth
<1>11. CompilersOK(compilers', functions') /\ Len(compilers') = N - 1
  BY <1>1, <1>8, Popped
<1>12. /\ compilers \in Seq(Compiling) /\ Enclosing(compilers) /\ functions \in Seq(Fun)
       /\ \A i \in 1..N : compilers[i].fn \in 1..Len(functions)
  BY <1>1 DEF CompilersOK, Compile
<1>13. \A i \in 1..N-1 : compilers'[i] = compilers[i + 1]
  BY <1>8, <1>10, <1>12, TailIs
<1>14. Comp' = o /\ Chunk' = f
  <2>1. Comp' = compilers'[1]
    BY <1>11, <1>8 DEF Comp, CompilersOK, Compile
  <2>2. 1 \in 1..N-1 /\ 1 + 1 = 2
    BY <1>7, <1>8
  <2>3. Comp' = o
    BY <2>1, <2>2, <1>13
  <2>4. Chunk' = functions'[Comp'.fn]
    BY DEF Chunk
  <2> QED  BY <2>3, <2>4, <1>10
<1> DEFINE r == Plus(q, -1)
           u == Plus(r, 1)
<1>15. /\ r \in Point /\ r.rest = q.rest /\ r.bases = q.bases /\ (r.loose <=> q.loose)
       /\ r.L = q.L /\ r.D = q.D + -1 /\ (r.uninit <=> q.uninit)
       /\ r.pend = q.pend /\ r.names = q.names /\ ~r.empty
  <2>1. -1 \in Int
    OBVIOUS
  <2> QED  BY <2>1, PlusIs
<1>16. Stands([comp |-> o, fun |-> functions[h]], r)
  BY <1>5, <1>9
<1> HIDE DEF r
<1>17. u \in Point /\ Stands([comp |-> o, fun |-> f], u)
  <2>1. v \in Kept
    <3>1. \A k \in Nat : Val("fun", k) \in Kept
      BY DEF Val, Kept
    <3> QED  BY <3>1, <1>10
  <2> QED  BY <2>1, <1>10, <1>15, <1>16, StandsFunction DEF u
<1>18. /\ u.rest = r.rest /\ u.bases = r.bases /\ (u.loose <=> r.loose)
       /\ u.L = r.L /\ u.D = r.D + 1 /\ (u.uninit <=> r.uninit)
       /\ u.pend = r.pend /\ u.names = r.names /\ ~u.empty
  <2>1. 1 \in Int
    OBVIOUS
  <2> QED  BY <2>1, <1>15, PlusIs, SMTT(30)
<1> HIDE DEF u, f
<1>19. Stands([comp |-> o, fun |-> f], q)
  <2> DEFINE e == [comp |-> o, fun |-> f]
  <2>1. e.comp = o /\ e.fun = f
    OBVIOUS
  <2>2. q.D \in Int
    BY PointIs
  <2>3. u.D = q.D
    BY <2>2, <1>15, <1>18
  <2>4. /\ q.rest = u.rest /\ q.bases = u.bases /\ (q.loose <=> u.loose)
        /\ q.L = u.L /\ q.D = u.D /\ (q.uninit <=> u.uninit)
        /\ q.pend = u.pend /\ q.names = u.names
    BY <2>3, <1>15, <1>18
  <2>5. ~u.loose /\ LocalsOK(o, u) /\ CodeOK(f, u.D, u.pend, u.rest = <<>>) /\ u.names \subseteq StrNames(f)
    BY <1>17, StandsIs
  <2>6. LocalsOK(o, q)
    BY <2>4, <2>5, LocalsSame
  <2>7. CodeOK(f, q.D, q.pend, q.rest = <<>>)
    BY <2>4, <2>5
  <2> HIDE DEF e
  <2> QED  BY <2>1, <2>4, <2>5, <2>6, <2>7, <1>5 DEF Stands
<1>20. q.rest = Around'
  <2> DEFINE a == Enclosures(compilers', functions')
             b == Tail(Around)
             m == N - 2
  <2>1. /\ a \in Seq(Enclosure) /\ Len(a) = Len(compilers') - 1
        /\ \A i \in 1..Len(compilers')-1 :
             a[i] = [comp |-> compilers'[i + 1], fun |-> functions'[compilers'[i + 1].fn]]
    BY <1>11, EnclosuresAre
  <2>2. b \in Seq(Enclosure) /\ Len(b) = (N - 1) - 1 /\ \A i \in 1..(N - 1)-1 : b[i] = Around[i + 1]
    BY <1>7, <1>8
  <2> HIDE DEF a, b, N
  <2>3. m \in Nat /\ (N - 1) - 1 = m
    BY <1>7, <1>8
  <2>4. Len(a) = m /\ Len(b) = m
    BY <2>1, <2>2, <2>3, <1>11
  <2>5. ASSUME NEW i \in 1..m PROVE a[i] = b[i]
    <3>1. /\ i \in 1..(N - 1)-1 /\ i + 1 \in 1..N-1 /\ (i + 1) + 1 = i + 2
          /\ i + 2 \in 1..N /\ 1 \in 1..N /\ 2 \in 1..N /\ 1 < i + 2 /\ 2 < i + 2
      BY <2>3, <1>7, <1>8
    <3>2. a[i] = [comp |-> compilers'[i + 1], fun |-> functions'[compilers'[i + 1].fn]]
      BY <3>1, <2>1, <1>11
    <3>3. compilers'[i + 1] = compilers[i + 2]
      BY <3>1, <1>13
    <3>4. compilers[i + 2].fn # g /\ compilers[i + 2].fn # h /\ compilers[i + 2].fn \in 1..Len(functions)
      <4>1. DOMAIN compilers = 1..N
        BY <1>12 DEF N
      <4>2. compilers[i + 2].fn < compilers[1].fn /\ compilers[i + 2].fn < compilers[2].fn
        BY <3>1, <4>1, <1>12 DEF Enclosing
      <4>3. compilers[i + 2].fn \in 1..Len(functions) /\ Len(functions) \in Nat
        BY <3>1, <1>12
      <4> QED  BY <4>2, <4>3, <1>10
    <3>5. functions'[compilers[i + 2].fn] = functions[compilers[i + 2].fn]
      BY <3>4, <1>10
    <3>6. b[i] = Around[i + 1]
      BY <3>1, <2>2
    <3>7. Around[i + 1] = [comp |-> compilers[i + 2], fun |-> functions[compilers[i + 2].fn]]
      BY <3>1, <1>7
    <3> QED  BY <3>2, <3>3, <3>5, <3>6, <3>7
  <2>6. a = b
    BY <2>1, <2>2, <2>4, <2>5, SeqEqual
  <2> QED  BY <2>6, <1>3, <1>5, <1>6 DEF a, b
<1>21. Run(tasks', q)
  <2>1. <<>> \o Tail(tasks) = Tail(tasks)
    BY <1>2
  <2> QED  BY <2>1, <1>4, <1>10
<1> QED  BY <1>14, <1>19, <1>20, <1>21, SMTT(30) DEF DeepInv

-----------------------------------------------------------------------------
(* The beginning and the end.                                              *)

LEMMA StartsFirst ==
  ASSUME ShapeInv, At("start")
  PROVE  /\ pos = 0 /\ InputOK /\ status = "compiling"
         /\ tasks = <<Call("start")>> /\ compilers = <<NewCompiler(1, "script", 0)>>
         /\ functions = <<NewFunction>>
<1>1. InputOK /\ CompilersOK(compilers, functions) /\ status = "compiling" /\ Task.do = "start"
  BY DEF At, ShapeInv
<1>2. pos = 0
  <2>1. CASE pos > 0
    <3>1. PICK m, n \in Mark : Shape(Task, m, n)
      BY <1>1, <2>1, ShapeNow
    <3> QED  BY <1>1, <3>1 DEF Shape, Plain
  <2>2. pos \in Nat
    BY <1>1, ProgramTokens DEF InputOK
  <2> QED  BY <2>1, <2>2
<1> QED  BY <1>1, <1>2 DEF ShapeInv

(* Where the script begins.                                                *)
Origin ==
  [rest |-> <<>>, bases |-> <<>>, loose |-> FALSE, L |-> 1, D |-> 1, uninit |-> FALSE,
   pend |-> {}, names |-> {}, empty |-> TRUE]

LEMMA OriginIs ==
  /\ Origin \in Point /\ Origin.rest = <<>> /\ Origin.bases = <<>> /\ ~Origin.loose
  /\ Origin.L = 1 /\ Origin.D = 1 /\ ~Origin.uninit /\ Origin.pend = {} /\ Origin.names = {}
  /\ Origin.empty
<1> DEFINE r == <<>>
           b == <<>>
<1>1. r \in Seq(Enclosure) /\ b \in Seq(Nat)
  OBVIOUS
<1>2. Origin = [rest |-> r, bases |-> b, loose |-> FALSE, L |-> 1, D |-> 1, uninit |-> FALSE,
                pend |-> {}, names |-> {}, empty |-> TRUE]
  BY DEF Origin
<1> HIDE DEF r, b
<1> DEFINE q == [rest |-> r, bases |-> b, loose |-> FALSE, L |-> 1, D |-> 1, uninit |-> FALSE,
                 pend |-> {}, names |-> {}, empty |-> TRUE]
<1>3. /\ q \in Point /\ q.rest = r /\ q.bases = b /\ ~q.loose
      /\ q.L = 1 /\ q.D = 1 /\ ~q.uninit /\ q.pend = {} /\ q.names = {} /\ q.empty
  BY <1>1 DEF Point
<1> QED  BY <1>2, <1>3 DEF r, b

LEMMA OriginStands ==
  Stands([comp |-> NewCompiler(1, "script", 0), fun |-> NewFunction], Origin)
<1> DEFINE c == NewCompiler(1, "script", 0)
           q == Origin
           z == [comp |-> c, fun |-> NewFunction]
           ls == <<[name |-> "", depth |-> 0]>>
<1>1. /\ q \in Point /\ q.rest = <<>> /\ q.bases = <<>> /\ ~q.loose
      /\ q.L = 1 /\ q.D = 1 /\ ~q.uninit /\ q.pend = {} /\ q.names = {} /\ q.empty
  BY OriginIs
<1>2. NewFunction \in Fun
  BY NewOnes
<1>3. c.locals = ls /\ c.scope = 0
  BY DEF NewCompiler
<1>4. Len(ls) = 1 /\ ls[1].depth = 0
  OBVIOUS
<1>5. NewFunction.code = <<>> /\ NewFunction.arity = 0
  BY DEF NewFunction
<1> HIDE DEF q, ls, c
<1>6. Len(q.bases) = 0
  BY <1>1
<1>7. \A i \in 1..1 : i = 1 /\ c.locals[i].depth = 0
  BY <1>3, <1>4
<1>8. LocalsOK(c, q)
  BY <1>1, <1>3, <1>4, <1>6, <1>7 DEF LocalsOK
<1>9. CodeOK(NewFunction, 1, {}, q.rest = <<>>)
  <2> DEFINE script == (q.rest = <<>>)
  <2> HIDE DEF script
  <2>1. CodeOK(NewFunction, NewFunction.arity + 1, {}, script)
    BY <1>2, <1>5, NoCode
  <2>2. NewFunction.arity + 1 = 1
    BY <1>5
  <2> QED  BY <2>1, <2>2 DEF script
<1>10. z.comp = c /\ z.fun = NewFunction
  OBVIOUS
<1> HIDE DEF z
<1>11. Stands(z, q)
  BY <1>1, <1>5, <1>8, <1>9, <1>10 DEF Stands
<1> QED  BY <1>11 DEF c, q, z

LEMMA DeepStart ==
  ASSUME ShapeInv, Start PROVE DeepInv'
<1>1. /\ tasks = <<Call("start")>> /\ compilers = <<NewCompiler(1, "script", 0)>>
      /\ functions = <<NewFunction>>
  BY StartsFirst DEF Start
<1>2. Continue(<<Call("program")>>) /\ UNCHANGED <<compilers, functions>>
  BY DEF Start
<1> DEFINE t == Call("program")
<1>3. t \in ACall /\ t.do = "program" /\ Call("start") \in ACall
  BY CallsMade DEF SimpleCalls, Call
<1>4. tasks' = <<t>> \o <<>>
  <2>1. \A x, y \in ACall : <<x>> \o Tail(<<y>>) = <<x>> \o <<>>
    OBVIOUS
  <2>2. tasks' = <<t>> \o Tail(<<Call("start")>>)
    BY <1>1, <1>2 DEF Continue
  <2> HIDE DEF t
  <2> QED  BY <1>3, <2>1, <2>2
<1> HIDE DEF t
<1>5. /\ CompilersOK(compilers, functions) /\ Len(compilers) = 1
      /\ Comp = NewCompiler(1, "script", 0) /\ Chunk = NewFunction
  BY <1>1, FirstCompiler
<1>6. Comp' = NewCompiler(1, "script", 0) /\ Chunk' = NewFunction
  BY <1>2, <1>5 DEF Comp, Chunk
<1>7. Around' = Origin.rest
  <2>1. Around' = [i \in 1..Len(compilers)-1 |->
                     [comp |-> compilers[i + 1], fun |-> functions[compilers[i + 1].fn]]]
    BY <1>2 DEF Around
  <2>2. Around' = Enclosures(compilers, functions)
    BY <2>1 DEF Enclosures
  <2> DEFINE es == Enclosures(compilers, functions)
  <2>3. es \in Seq(Enclosure) /\ Len(es) = Len(compilers) - 1
    BY <1>5, EnclosuresAre
  <2> HIDE DEF es
  <2>4. Len(es) = 0
    BY <2>3, <1>5
  <2>5. es = <<>>
    BY <2>3, <2>4
  <2>6. Around' = <<>>
    BY <2>2, <2>5 DEF es
  <2> QED  BY <2>6, OriginIs
<1>8. Run(<<>>, Origin)
  <2> DEFINE at == [k \in 1..1 |-> Origin]
  <2>1. at \in [1..1 -> Point] /\ at[1] = Origin
    BY OriginIs
  <2> HIDE DEF at
  <2>2. Len(<<>>) = 0 /\ 1..Len(<<>>) = {} /\ Len(<<>>) + 1 = 1
    OBVIOUS
  <2> QED  BY <2>1, <2>2 DEF Run
<1>9. Deep(t, Origin, Origin)
  <2>1. InList(Origin)
    BY OriginIs DEF InList
  <2> QED  BY <2>1, <1>3, OriginIs DEF Deep
<1>10. Run(tasks', Origin)
  <2>1. <<>> \in Seq(ACall)
    OBVIOUS
  <2> QED  BY <2>1, <1>3, <1>4, <1>8, <1>9, OriginIs, RunMore
<1> QED  BY <1>6, <1>7, <1>10, OriginIs, OriginStands DEF DeepInv

LEMMA DeepProgram ==
  ASSUME Smooth, Program PROVE DeepInv'
<1>1. CASE status' = "done"
  BY <1>1 DEF DeepInv
<1>2. CASE status' # "done"
  <2>1. /\ Continue(<<Call("declaration"), Task>>)
        /\ UNCHANGED <<compilers, functions>>
    BY <1>2 DEF Program
  <2>2. CompilersOK(compilers, functions) /\ pos > 0 /\ status = "compiling" /\ Task.do = "program"
    BY AtTask DEF Program, Smooth
  <2>3. /\ tasks \in Seq(ACall) /\ tasks # <<>> /\ Task = tasks[1] /\ Tail(tasks) \in Seq(ACall)
        /\ Task \in ACall /\ \E p \in Point : p.rest = Around /\ Stands(Here, p) /\ Run(tasks, p)
    BY <2>2, DeepNow DEF Smooth
  <2>4. PICK p \in Point : p.rest = Around /\ Stands(Here, p) /\ Run(tasks, p)
    BY <2>3
  <2>5. PICK q \in Point : Deep(tasks[1], p, q) /\ Run(Tail(tasks), q)
    BY <2>3, <2>4, RunFirst
  <2>6. InList(p) /\ p.pend = {} /\ p.bases = <<>> /\ p.rest = <<>>
    BY <2>2, <2>3, <2>5 DEF Deep, Normal
  <2> DEFINE l == Loosened(p)
             d == Call("declaration")
             ts == <<Task>> \o Tail(tasks)
  <2>7. l \in Point /\ l.rest = p.rest /\ l.bases = p.bases /\ l.loose /\ l.pend = p.pend
    BY LoosenedIs
  <2>8. Flow(l, l)
    BY <2>7, FlowSelf
  <2>9. d \in ACall /\ Normal(d) /\ Pre(d, p) /\ Post(d, p) = l
    <3>1. "declaration" \in Simple /\ "declaration" \in Listed \ {"declareUntil"}
      BY DEF Simple, SimpleCalls, Listed
    <3> QED  BY <3>1, <2>6, CallIs
  <2> HIDE DEF l, d
  <2>10. Deep(Task, l, q)
    <3>1. InList(l)
      BY <2>7 DEF InList
    <3> QED  BY <3>1, <2>2, <2>6, <2>7 DEF Deep
  <2>11. ts \in Seq(ACall) /\ Run(ts, l)
    <3>1. Run(ts, l)
      BY <2>3, <2>5, <2>7, <2>10, RunMore
    <3> QED  BY <3>1, <2>3
  <2>12. tasks' = <<d>> \o ts
    <3>1. tasks' = <<d, Task>> \o Tail(tasks)
      BY <2>1 DEF Continue, d
    <3>2. d \in ACall /\ Task \in ACall /\ Tail(tasks) \in Seq(ACall)
      BY <2>3, <2>9
    <3> DEFINE k == Task
               r == Tail(tasks)
    <3> HIDE DEF k, r
    <3>3. <<d, k>> \o r = <<d>> \o (<<k>> \o r)
      BY <3>2, Pairs, SMTT(30) DEF k, r
    <3> QED  BY <3>1, <3>3 DEF k, r, ts
  <2> HIDE DEF ts
  <2>13. Run(<<d>> \o ts, p)
    BY <2>7, <2>8, <2>9, <2>11, Run1
  <2> QED  BY <2>1, <2>4, <2>12, <2>13, DeepCalls DEF Smooth
<1> QED  BY <1>1, <1>2

-----------------------------------------------------------------------------
(* How far the text has been read.  A `Global` is in no scope and the      *)
(* count of a list's items fits in a byte because of what has been read    *)
(* when a scope is entered and when an item is compiled.                   *)

Openers == {"{", "THEN", "ELSE", "FUNC"}
Opened(in, p) == \E i \in 1..p-1 : in[i].type \in Openers
CommasTo(in, p) == {i \in 1..p-1 : in[i].type = ","}
Commas(in, p) == Cardinality(CommasTo(in, p))

(* previous was never initialised, and looks like a Then or an Else.       *)
Looping(p, before) == p = 1 /\ before.type \in {"THEN", "ELSE"}
Idle ==
  {"declaration", "endDeclaration", "declareUntil", "endScope", "statement", "program"}
Variables == {"FUNC", "VAR", "GLOBAL"}
Keywords == {"PRINT", "IF", "RETURN", "{"} \cup Variables

(* What must have been read when the call t is pending.                    *)
Reached(t, in, p, before) ==
  /\ t.do \in {"function", "funDeclaration"} => Opened(in, p)
  /\ t.do \in {"arguments", "elements"} => t.count <= 1 + Commas(in, p)
  /\ Looping(p, before) => /\ t.do \in Idle
                           /\ t.do = "statement" => in[p].type \notin Variables

Known(in, p, before) ==
  p > 1 => before.type = "EOF" \/ \E i \in 1..p-1 : before = in[i]

ScopesOpened(in, p, before, cs) ==
  (\E i \in DOMAIN cs : cs[i].scope > 0)
  => Opened(in, p) \/ (Looping(p, before) /\ in[p].type \notin Keywords)

AllReached(ts, in, p, before) == \A k \in DOMAIN ts : Reached(ts[k], in, p, before)

PosOK(in, p, before, ts, cs) ==
  /\ Known(in, p, before)
  /\ AllReached(ts, in, p, before)
  /\ ScopesOpened(in, p, before, cs)

PosInv ==
  (Clean /\ status = "compiling" /\ pos > 0) => PosOK(input, pos, prev, tasks, compilers)

Careful == ShapeInv /\ PosInv /\ Clean /\ ~hadError'

LEMMA Before ==
  ASSUME NEW p \in Nat, NEW q \in Nat, p <= q
  PROVE  1..p-1 \subseteq 1..q-1 /\ (p > 0 /\ p < q => p \in 1..q-1)
  OBVIOUS

LEMMA OpenedStays ==
  ASSUME NEW in, NEW p \in Nat, NEW q \in Nat, p <= q
  PROVE  /\ Opened(in, p) => Opened(in, q)
         /\ (p > 0 /\ p < q /\ in[p].type \in Openers) => Opened(in, q)
<1>1. 1..p-1 \subseteq 1..q-1 /\ (p > 0 /\ p < q => p \in 1..q-1)
  BY Before
<1> QED  BY <1>1, Zenon DEF Opened

LEMMA CommasFinite ==
  ASSUME NEW in, NEW p \in Nat
  PROVE  IsFiniteSet(CommasTo(in, p)) /\ Commas(in, p) \in Nat
<1>1. IsFiniteSet(1..p-1)
  BY FS_Interval
<1>2. CommasTo(in, p) \subseteq 1..p-1
  BY DEF CommasTo
<1>3. IsFiniteSet(CommasTo(in, p))
  BY <1>1, <1>2, FS_Subset
<1> QED  BY <1>3, FS_CardinalityType DEF Commas

LEMMA CommasGrow ==
  ASSUME NEW in, NEW p \in Nat, NEW q \in Nat, p <= q
  PROVE  /\ Commas(in, p) <= Commas(in, q)
         /\ (p > 0 /\ p < q /\ in[p].type = ",") => Commas(in, p) + 1 <= Commas(in, q)
<1>1. IsFiniteSet(CommasTo(in, p)) /\ IsFiniteSet(CommasTo(in, q))
      /\ Commas(in, p) \in Nat /\ Commas(in, q) \in Nat
  BY CommasFinite
<1>2. CommasTo(in, p) \subseteq CommasTo(in, q)
  <2>1. 1..p-1 \subseteq 1..q-1
    OBVIOUS
  <2> QED  BY <2>1, Zenon DEF CommasTo
<1>3. Commas(in, p) <= Commas(in, q)
  BY <1>1, <1>2, FS_Subset DEF Commas
<1>4. ASSUME p > 0, p < q, in[p].type = ","
      PROVE  Commas(in, p) + 1 <= Commas(in, q)
  <2> DEFINE s == CommasTo(in, p) \cup {p}
  <2>1. s \subseteq CommasTo(in, q)
    <3>1. p \in 1..q-1
      BY <1>4, Before
    <3>2. p \in CommasTo(in, q)
      BY <3>1, <1>4, Zenon DEF CommasTo
    <3> QED  BY <1>2, <3>2
  <2>2. p \notin CommasTo(in, p)
    <3>1. p \notin 1..p-1
      OBVIOUS
    <3> QED  BY <3>1, Zenon DEF CommasTo
  <2>3. IsFiniteSet(s) /\ Cardinality(s) = Commas(in, p) + 1
    BY <1>1, <2>2, FS_AddElement DEF Commas
  <2> HIDE DEF s
  <2>4. Cardinality(s) <= Cardinality(CommasTo(in, q))
    BY <1>1, <2>1, FS_Subset
  <2> QED  BY <2>3, <2>4 DEF Commas
<1> QED  BY <1>3, <1>4

(* A list within a text that is not too long.                              *)
LEMMA CommasFew ==
  ASSUME InputOK, ~LongList PROVE 1 + Commas(input, pos) < Byte
<1> DEFINE all == {i \in DOMAIN input : input[i].type = ","}
<1>1. pos \in 0..Len(input) /\ Len(input) \in Nat /\ DOMAIN input = 1..Len(input)
  BY ProgramTokens DEF InputOK
<1>2. IsFiniteSet(all) /\ Cardinality(all) \in Nat
  <2>1. IsFiniteSet(1..Len(input))
    BY <1>1, FS_Interval
  <2>2. all \subseteq 1..Len(input)
    BY <1>1
  <2> HIDE DEF all
  <2> QED  BY <2>1, <2>2, FS_Subset, FS_CardinalityType
<1>3. CommasTo(input, pos) \subseteq all
  <2>1. 1..pos-1 \subseteq DOMAIN input
    BY <1>1
  <2> QED  BY <2>1, Zenon DEF CommasTo
<1>4. ~(Cardinality(all) >= Byte - 1)
  BY DEF LongList
<1> HIDE DEF all
<1>5. Commas(input, pos) <= Cardinality(all)
  BY <1>2, <1>3, FS_Subset DEF Commas
<1>6. Commas(input, pos) \in Nat
  BY <1>1, CommasFinite
<1> QED  BY <1>2, <1>4, <1>5, <1>6, CompilerAssumption

(* What a step does to the position.                                       *)
Moves == (pos' = pos /\ prev' = prev) \/ (pos' = NextPos /\ prev' = Current)

LEMMA MovesBy ==
  /\ \A f : Stay(f) \/ Advance(f) \/ AdvanceAfter(f) => Moves
  /\ \A types : Match(types) \/ Consume(types) => Moves
  BY DEF Stay, Advance, AdvanceAfter, Match, Consume, Moves

LEMMA Moved ==
  ASSUME InputOK, pos > 0, Moves
  PROVE  /\ pos \in Nat /\ pos' \in Nat /\ pos <= pos' /\ pos' > 0
         /\ Looping(pos', prev') => pos' = pos /\ prev' = prev
         /\ Opened(input, pos) => Opened(input, pos')
         /\ Known(input, pos, prev) => Known(input, pos', prev')
         /\ \A t : t \in ACall /\ Reached(t, input, pos, prev) => Reached(t, input, pos', prev')
<1>1. /\ NextPos \in 1..Len(input) /\ pos <= NextPos
      /\ pos < Len(input) => pos < NextPos
      /\ pos \in 1..Len(input) /\ Len(input) \in Nat
      /\ input[Len(input)].type = "EOF"
  BY NextPosOK, ProgramTokens DEF InputOK
<1>2. pos \in Nat /\ pos' \in Nat /\ pos <= pos' /\ pos' > 0
  BY <1>1 DEF Moves
<1>3. Opened(input, pos) => Opened(input, pos')
  BY <1>2, OpenedStays
<1>4. Looping(pos', prev') => pos' = pos /\ prev' = prev
  <2>1. CASE pos' = pos /\ prev' = prev
    BY <2>1
  <2>2. CASE pos' = NextPos /\ prev' = Current
    <3>1. ASSUME pos' = 1 PROVE prev'.type = "EOF"
      BY <1>1, <2>2, <3>1 DEF Current
    <3> QED  BY <3>1 DEF Looping
  <2> QED  BY <2>1, <2>2 DEF Moves
<1>5. Known(input, pos, prev) => Known(input, pos', prev')
  <2>1. CASE pos' = pos /\ prev' = prev
    BY <2>1
  <2>2. CASE pos' = NextPos /\ prev' = Current
    <3>1. CASE pos < Len(input)
      <4>1. pos \in 1..pos'-1 /\ prev' = input[pos]
        BY <1>1, <2>2, <3>1 DEF Current
      <4> QED  BY <4>1 DEF Known
    <3>2. CASE pos = Len(input)
      BY <1>1, <2>2, <3>2 DEF Current, Known
    <3> QED  BY <1>1, <3>1, <3>2
  <2> QED  BY <2>1, <2>2 DEF Moves
<1>6. ASSUME NEW t \in ACall, Reached(t, input, pos, prev) PROVE Reached(t, input, pos', prev')
  <2>1. t.do \in {"function", "funDeclaration"} => Opened(input, pos')
    BY <1>3, <1>6 DEF Reached
  <2>2. ASSUME t.do \in {"arguments", "elements"} PROVE t.count <= 1 + Commas(input, pos')
    <3>1. t.count \in Nat /\ t.count <= 1 + Commas(input, pos)
      BY <1>6, <2>2, Counts DEF Reached
    <3>2. Commas(input, pos) <= Commas(input, pos') /\ Commas(input, pos) \in Nat
          /\ Commas(input, pos') \in Nat
      BY <1>2, CommasGrow, CommasFinite
    <3> QED  BY <3>1, <3>2
  <2>3. Looping(pos', prev') => /\ t.do \in Idle
                                /\ t.do = "statement" => input[pos'].type \notin Variables
    BY <1>4, <1>6 DEF Reached
  <2> QED  BY <2>1, <2>2, <2>3 DEF Reached
<1> QED  BY <1>2, <1>3, <1>4, <1>5, <1>6

LEMMA ReachedCalls ==
  ASSUME NEW S, NEW calls \in Seq(S), NEW ts \in Seq(ACall), NEW in, NEW p, NEW before,
         \A c \in S : Reached(c, in, p, before), AllReached(ts, in, p, before)
  PROVE  AllReached(calls \o ts, in, p, before)
<1> DEFINE R == {c \in S \cup ACall : Reached(c, in, p, before)}
<1>1. calls \in Seq(R)
  BY DEF R
<1>2. ts \in Seq(R)
  BY DEF AllReached
<1>3. \A c \in R : Reached(c, in, p, before)
  OBVIOUS
<1> HIDE DEF R
<1>4. calls \o ts \in Seq(R)
  BY <1>1, <1>2
<1>5. \A k \in DOMAIN (calls \o ts) : (calls \o ts)[k] \in R
  BY <1>4
<1> QED  BY <1>3, <1>5 DEF AllReached

(* What a step has to show.                                                *)
LEMMA PosStep ==
  ASSUME Careful, status = "compiling", pos > 0, Moves,
         NEW S, NEW calls \in Seq(S), Continue(calls),
         \A c \in S : Reached(c, input, pos', prev'),
         ScopesOpened(input, pos', prev', compilers')
  PROVE  PosInv'
<1>1. InputOK /\ tasks \in Seq(ACall) /\ PosOK(input, pos, prev, tasks, compilers)
  BY DEF Careful, ShapeInv, PosInv
<1>2. tasks # <<>> /\ Tail(tasks) \in Seq(ACall)
  BY ShapeNow DEF Careful
<1>3. /\ Known(input, pos, prev) => Known(input, pos', prev')
      /\ \A t : t \in ACall /\ Reached(t, input, pos, prev) => Reached(t, input, pos', prev')
  BY <1>1, Moved
<1>4. AllReached(Tail(tasks), input, pos', prev')
  <2>1. \A k \in DOMAIN Tail(tasks) : k + 1 \in DOMAIN tasks /\ Tail(tasks)[k] = tasks[k + 1]
                                      /\ tasks[k + 1] \in ACall
    BY <1>1, <1>2
  <2>2. \A k \in DOMAIN tasks : Reached(tasks[k], input, pos, prev)
    BY <1>1 DEF PosOK, AllReached
  <2> QED  BY <2>1, <2>2, <1>3, Zenon DEF AllReached
<1>5. tasks' = calls \o Tail(tasks) /\ input' = input
  BY DEF Continue
<1>6. AllReached(tasks', input, pos', prev')
  BY <1>2, <1>4, <1>5, ReachedCalls
<1>7. PosOK(input', pos', prev', tasks', compilers')
  BY <1>1, <1>3, <1>5, <1>6 DEF PosOK
<1> QED  BY <1>7 DEF PosInv

(* A scope that is open now was open before.                               *)
Shallow ==
  (\E i \in DOMAIN compilers' : compilers'[i].scope > 0)
  => (\E i \in DOMAIN compilers : compilers[i].scope > 0)

(* A call that may be made wherever something is compiled.                 *)
Anytime(c) == /\ c.do \notin {"function", "funDeclaration"}
              /\ c.do \in {"arguments", "elements"} => c.count = 1
AnytimeSeq(calls) == \E S : calls \in Seq(S) /\ \A c \in S : Anytime(c)

LEMMA PosActive ==
  ASSUME Careful, status = "compiling", pos > 0, Moves, Task.do \notin Idle
  PROVE  /\ ~Looping(pos', prev') /\ Reached(Task, input, pos, prev)
         /\ \A c : Anytime(c) => Reached(c, input, pos', prev')
         /\ Shallow => ScopesOpened(input, pos', prev', compilers')
<1>1. InputOK /\ tasks \in Seq(ACall) /\ PosOK(input, pos, prev, tasks, compilers)
  BY DEF Careful, ShapeInv, PosInv
<1>2. tasks # <<>> /\ Task = tasks[1]
  BY ShapeNow DEF Careful
<1>3. Reached(Task, input, pos, prev)
  BY <1>1, <1>2 DEF PosOK, AllReached
<1>4. ~Looping(pos, prev)
  BY <1>3 DEF Reached
<1>5. /\ Looping(pos', prev') => pos' = pos /\ prev' = prev
      /\ Opened(input, pos) => Opened(input, pos')
      /\ pos' \in Nat
  BY <1>1, Moved
<1>6. ~Looping(pos', prev')
  BY <1>4, <1>5 DEF Looping
<1>7. ASSUME NEW c, Anytime(c) PROVE Reached(c, input, pos', prev')
  <2>1. Commas(input, pos') \in Nat
    BY <1>5, CommasFinite
  <2>2. c.do \in {"arguments", "elements"} => c.count <= 1 + Commas(input, pos')
    BY <2>1, <1>7 DEF Anytime
  <2> QED  BY <2>2, <1>6, <1>7 DEF Anytime, Reached
<1>8. ASSUME Shallow PROVE ScopesOpened(input, pos', prev', compilers')
  BY <1>1, <1>4, <1>5, <1>8 DEF Shallow, ScopesOpened, PosOK
<1> QED  BY <1>3, <1>6, <1>7, <1>8

LEMMA PosQuiet ==
  ASSUME Careful, status = "compiling", pos > 0, Moves, Task.do \notin Idle,
         NEW calls, AnytimeSeq(calls), Continue(calls), Shallow
  PROVE  PosInv'
<1>1. PICK S : calls \in Seq(S) /\ \A c \in S : Anytime(c)
  BY DEF AnytimeSeq
<1>2. /\ \A c : Anytime(c) => Reached(c, input, pos', prev')
      /\ ScopesOpened(input, pos', prev', compilers')
  BY PosActive
<1>3. \A c \in S : Reached(c, input, pos', prev')
  BY <1>1, <1>2
<1> QED  BY <1>1, <1>2, <1>3, PosStep

LEMMA AnytimeIn ==
  ASSUME NEW S, NEW s \in Seq(S), \A c \in S : Anytime(c)
  PROVE  AnytimeSeq(s)
  BY Zenon DEF AnytimeSeq

LEMMA AnytimeSeqs ==
  /\ AnytimeSeq(<<>>)
  /\ \A a : Anytime(a) => AnytimeSeq(<<a>>)
  /\ \A a, b : Anytime(a) /\ Anytime(b) => AnytimeSeq(<<a, b>>)
  /\ \A a, b, c : Anytime(a) /\ Anytime(b) /\ Anytime(c) => AnytimeSeq(<<a, b, c>>)
  /\ \A s, t : AnytimeSeq(s) /\ AnytimeSeq(t) => AnytimeSeq(s \o t)
<1>1. AnytimeSeq(<<>>)
  <2> DEFINE s == <<>>
             S == {}
  <2>1. s \in Seq(S) /\ \A c \in S : Anytime(c)
    OBVIOUS
  <2> HIDE DEF s, S
  <2>2. AnytimeSeq(s)
    BY <2>1, AnytimeIn
  <2> QED  BY <2>2 DEF s
<1>2. ASSUME NEW a, Anytime(a) PROVE AnytimeSeq(<<a>>)
  <2> DEFINE s == <<a>>
             S == {a}
  <2>1. s \in Seq(S) /\ \A c \in S : Anytime(c)
    BY <1>2
  <2> HIDE DEF s, S
  <2>2. AnytimeSeq(s)
    BY <2>1, AnytimeIn
  <2> QED  BY <2>2 DEF s
<1>3. ASSUME NEW a, NEW b, Anytime(a), Anytime(b) PROVE AnytimeSeq(<<a, b>>)
  <2> DEFINE s == <<a, b>>
             S == {a, b}
  <2>1. s \in Seq(S) /\ \A c \in S : Anytime(c)
    BY <1>3
  <2> HIDE DEF s, S
  <2>2. AnytimeSeq(s)
    BY <2>1, AnytimeIn
  <2> QED  BY <2>2 DEF s
<1>4. ASSUME NEW a, NEW b, NEW c, Anytime(a), Anytime(b), Anytime(c) PROVE AnytimeSeq(<<a, b, c>>)
  <2> DEFINE s == <<a, b, c>>
             S == {a, b, c}
  <2>1. s \in Seq(S) /\ \A d \in S : Anytime(d)
    BY <1>4
  <2> HIDE DEF s, S
  <2>2. AnytimeSeq(s)
    BY <2>1, AnytimeIn
  <2> QED  BY <2>2 DEF s
<1>5. ASSUME NEW s, NEW t, AnytimeSeq(s), AnytimeSeq(t) PROVE AnytimeSeq(s \o t)
  <2>1. PICK S : s \in Seq(S) /\ \A c \in S : Anytime(c)
    BY <1>5 DEF AnytimeSeq
  <2>2. PICK T : t \in Seq(T) /\ \A c \in T : Anytime(c)
    BY <1>5 DEF AnytimeSeq
  <2> DEFINE R == S \cup T
  <2>3. s \in Seq(R) /\ t \in Seq(R) /\ \A c \in R : Anytime(c)
    BY <2>1, <2>2
  <2> HIDE DEF R
  <2>4. s \o t \in Seq(R)
    BY <2>3
  <2> QED  BY <2>3, <2>4, AnytimeIn
<1> QED  BY <1>1, <1>2, <1>3, <1>4, <1>5

LEMMA AnytimeCalls ==
  /\ \A d : d \notin {"function", "funDeclaration", "arguments", "elements"} => Anytime(Call(d))
  /\ \A n : Anytime(Parse(n)) /\ Anytime([do |-> "operators", prec |-> n])
  /\ \A s : Anytime(Expect(s)) /\ Anytime(DeclareUntil(s))
  /\ \A c : Anytime(Output(c)) /\ Anytime(OutputAssignment(c))
  /\ \A n : Anytime(PatchJump(n)) /\ Anytime(DefineVariable(n))
  /\ \A n, b : Anytime([do |-> "else", at |-> n, inline |-> b])
  /\ \A b : Anytime([do |-> "variable", canAssign |-> b]) /\ Anytime([do |-> "dot", canAssign |-> b])
  /\ \A i, j, b, c : Anytime(Assignable(i, j, b, c))
  /\ \A l : Anytime(NextItem(l, 1)) \/ l \in {"function", "funDeclaration"}
  /\ \A n : Anytime(NextItem("values", n))
  BY DEF Anytime, Call, Parse, Expect, DeclareUntil, Output, OutputAssignment, PatchJump,
         DefineVariable, Assignable, NextItem

LEMMA ShallowComp ==
  ASSUME compilers \in Seq(Compiling), compilers # <<>>, Comp = compilers[1],
         NEW c, SetCompiler(c), c.scope > 0 => Comp.scope > 0
  PROVE  Shallow
<1>1. compilers' = <<c>> \o Tail(compilers)
  BY DEF SetCompiler
<1> DEFINE r == Tail(compilers)
<1>2. r \in Seq(Compiling) /\ Len(r) = Len(compilers) - 1 /\ Len(compilers) \in Nat \ {0}
      /\ \A i \in 1..Len(r) : r[i] = compilers[i + 1]
  OBVIOUS
<1> HIDE DEF r
<1>3. /\ DOMAIN (<<c>> \o r) = 1..Len(r) + 1 /\ (<<c>> \o r)[1] = c
      /\ \A i \in 1..Len(r) : (<<c>> \o r)[i + 1] = r[i]
  <2>1. \A T : c \in T /\ r \in Seq(T) =>
          /\ DOMAIN (<<c>> \o r) = 1..Len(r) + 1 /\ (<<c>> \o r)[1] = c
          /\ \A i \in 1..Len(r) : (<<c>> \o r)[i + 1] = r[i]
    OBVIOUS
  <2>2. r \in Seq(Compiling \cup {c}) /\ c \in Compiling \cup {c}
    BY <1>2
  <2> QED  BY <2>1, <2>2
<1>4. ASSUME NEW i \in DOMAIN compilers', compilers'[i].scope > 0
      PROVE  \E j \in DOMAIN compilers : compilers[j].scope > 0
  <2>1. CASE i = 1
    <3>1. 1 \in DOMAIN compilers /\ compilers[1].scope > 0
      BY <1>1, <1>3, <1>4, <2>1 DEF r
    <3> QED  BY <3>1
  <2>2. CASE i # 1
    <3>1. i - 1 \in 1..Len(r) /\ i = (i - 1) + 1
      BY <1>1, <1>2, <1>3, <1>4, <2>2 DEF r
    <3>2. compilers'[i] = compilers[(i - 1) + 1] /\ (i - 1) + 1 \in DOMAIN compilers
      BY <3>1, <1>1, <1>2, <1>3 DEF r
    <3> QED  BY <3>2, <1>4
  <2> QED  BY <2>1, <2>2
<1> QED  BY <1>4 DEF Shallow

LEMMA ShallowBy ==
  ASSUME CompilersOK(compilers, functions)
  PROVE  /\ UNCHANGED compilers => Shallow
         /\ \A l : SetCompiler([Comp EXCEPT !.locals = l]) => Shallow
         /\ Len(compilers) > 1 /\ compilers' = Tail(compilers) => Shallow
<1>1. compilers \in Seq(Compiling) /\ compilers # <<>> /\ Comp = compilers[1] /\ Comp \in Compiling
  BY CompOK DEF CompilersOK, Compile
<1>2. ASSUME NEW l, SetCompiler([Comp EXCEPT !.locals = l]) PROVE Shallow
  <2> DEFINE c == [Comp EXCEPT !.locals = l]
  <2>1. c.scope = Comp.scope
    BY <1>1 DEF Compiling
  <2>2. SetCompiler(c)
    BY <1>2
  <2> HIDE DEF c
  <2> QED  BY <1>1, <2>1, <2>2, ShallowComp
<1>3. ASSUME Len(compilers) > 1, compilers' = Tail(compilers) PROVE Shallow
  <2>1. \A i \in DOMAIN Tail(compilers) : i + 1 \in DOMAIN compilers
                                          /\ Tail(compilers)[i] = compilers[i + 1]
    BY <1>1
  <2> QED  BY <1>3, <2>1 DEF Shallow
<1> QED  BY <1>2, <1>3 DEF Shallow

-----------------------------------------------------------------------------
(* The steps of what is compiled once something has been read.             *)

LEMMA CarefulAt ==
  ASSUME Careful, NEW name, At(name), name # "start"
  PROVE  /\ pos > 0 /\ status = "compiling" /\ Task.do = name /\ InputOK /\ Task \in ACall
         /\ CompilersOK(compilers, functions) /\ (UNCHANGED compilers => Shallow)
  BY AtTask, ShallowBy DEF Careful

LEMMA PosCalls ==
  ASSUME Careful, NEW name, At(name), name \notin Idle \cup {"start"}, Moves, UNCHANGED compilers,
         NEW calls, AnytimeSeq(calls), Continue(calls)
  PROVE  PosInv'
<1>1. pos > 0 /\ status = "compiling" /\ Task.do = name /\ Shallow
  BY CarefulAt
<1> QED  BY <1>1, PosQuiet

(* Actions that leave the compilers alone.                                 *)
LEMMA PosNoCalls ==
  ASSUME Careful,
         EndExpression \/ NumberOrString \/ EmitBytes \/ ConsumeToken \/ Patch
  PROVE  PosInv'
<1>1. CASE EndExpression
  BY <1>1, PosCalls, MovesBy, AnytimeSeqs DEF EndExpression, Idle
<1>2. CASE NumberOrString
  <2>1. \E f : Stay(f)
    BY <1>2 DEF NumberOrString
  <2> QED  BY <1>2, <2>1, PosCalls, MovesBy, AnytimeSeqs DEF NumberOrString, Idle
<1>3. CASE EmitBytes
  BY <1>3, PosCalls, MovesBy, AnytimeSeqs DEF EmitBytes, Idle
<1>4. CASE ConsumeToken
  BY <1>4, PosCalls, MovesBy, AnytimeSeqs DEF ConsumeToken, Idle
<1>5. CASE Patch
  BY <1>5, PosCalls, MovesBy, AnytimeSeqs DEF Patch, Idle
<1> QED  BY <1>1, <1>2, <1>3, <1>4, <1>5

LEMMA PosJumps ==
  ASSUME Careful, And \/ Or \/ IfThen PROVE PosInv'
<1>1. CASE And
  <2> DEFINE c == <<Parse(PrecAnd), PatchJump(Len(Chunk.code) + 1)>>
  <2>1. AnytimeSeq(c)
    BY AnytimeCalls, AnytimeSeqs
  <2>2. At("and") /\ Continue(c) /\ UNCHANGED compilers /\ Moves
    BY <1>1, MovesBy DEF And
  <2> HIDE DEF c
  <2> QED  BY <2>1, <2>2, PosCalls DEF Idle
<1>2. CASE Or
  <2> DEFINE c == <<Parse(PrecOr), PatchJump(Len(Chunk.code) + 2)>>
  <2>1. AnytimeSeq(c)
    BY AnytimeCalls, AnytimeSeqs
  <2>2. At("or") /\ Continue(c) /\ UNCHANGED compilers /\ Moves
    BY <1>2, MovesBy DEF Or
  <2> HIDE DEF c
  <2> QED  BY <2>1, <2>2, PosCalls DEF Idle
<1>3. CASE IfThen
  <2> DEFINE e == [do |-> "else", at |-> Len(Chunk.code) + 1, inline |-> SameLine]
             c == <<Call("statement"), e>>
  <2>1. Anytime(Call("statement")) /\ Anytime(e)
    BY AnytimeCalls
  <2>2. AnytimeSeq(c)
    BY <2>1, AnytimeSeqs
  <2>3. At("then") /\ Continue(c) /\ UNCHANGED compilers /\ Moves
    BY <1>3, MovesBy DEF IfThen
  <2> HIDE DEF c
  <2> QED  BY <2>2, <2>3, PosCalls DEF Idle
<1> QED  BY <1>1, <1>2, <1>3

LEMMA PosIfElse ==
  ASSUME Careful, IfElse PROVE PosInv'
<1> DEFINE code == Append(Chunk.code, I("JMP"))
           s == IF Is({"ELSE"}) THEN <<Call("statement")>> ELSE <<>>
           j == <<PatchJump(Len(code))>>
           e == IF Task.inline THEN <<>> ELSE <<Expect({"END", "ENDIF"})>>
           far == TooFar(code, Task.at)
<1>1. At("else") /\ Continue(s \o j \o e) /\ UNCHANGED compilers
      /\ IF Is({"ELSE"}) THEN AdvanceAfter(far) ELSE Stay(far)
  BY DEF IfElse
<1>2. Moves
  BY <1>1, MovesBy
<1>3. AnytimeSeq(s) /\ AnytimeSeq(j) /\ AnytimeSeq(e)
  BY AnytimeCalls, AnytimeSeqs
<1> HIDE DEF s, j, e, code, far
<1> DEFINE c == s \o j \o e
<1>4. AnytimeSeq(c)
  BY <1>3, AnytimeSeqs
<1> HIDE DEF c
<1> QED  BY <1>1, <1>2, <1>4, PosCalls DEF c, Idle

LEMMA PosReturnStatement ==
  ASSUME Careful, ReturnStatement PROVE PosInv'
<1>1. At("returnValue") /\ UNCHANGED compilers /\ Moves
  BY MovesBy DEF ReturnStatement
<1>2. Continue(<<>>) \/ Continue(<<Parse(PrecAssignment), Output(<<I("RET")>>)>>)
  BY DEF ReturnStatement
<1>3. AnytimeSeq(<<>>) /\ AnytimeSeq(<<Parse(PrecAssignment), Output(<<I("RET")>>)>>)
  BY AnytimeCalls, AnytimeSeqs
<1>4. PICK c : Continue(c) /\ AnytimeSeq(c)
  BY <1>2, <1>3
<1> QED  BY <1>1, <1>4, PosCalls DEF Idle

LEMMA PosInitializer ==
  ASSUME Careful, Initializer PROVE PosInv'
<1>1. At("initializer") /\ UNCHANGED compilers /\ Moves
  BY MovesBy DEF Initializer
<1>2. Continue(<<>>) \/ Continue(<<Parse(PrecAssignment)>>)
  BY DEF Initializer
<1>3. AnytimeSeq(<<>>) /\ AnytimeSeq(<<Parse(PrecAssignment)>>)
  BY AnytimeCalls, AnytimeSeqs
<1>4. PICK c : Continue(c) /\ AnytimeSeq(c)
  BY <1>2, <1>3
<1> QED  BY <1>1, <1>4, PosCalls DEF Idle

LEMMA PosNames ==
  ASSUME Careful, Names PROVE PosInv'
<1>1. (At("globals") \/ At("parameters")) /\ UNCHANGED compilers /\ Moves
  BY MovesBy DEF Names
<1>2. Continue(<<>>) \/ Continue(<<Call("globalDeclaration")>>) \/ Continue(<<Call("parameter")>>)
  BY DEF Names
<1>3. AnytimeSeq(<<>>) /\ AnytimeSeq(<<Call("globalDeclaration")>>)
      /\ AnytimeSeq(<<Call("parameter")>>)
  BY AnytimeCalls, AnytimeSeqs
<1>4. PICK c : Continue(c) /\ AnytimeSeq(c)
  BY <1>2, <1>3
<1> QED  BY <1>1, <1>4, PosCalls DEF Idle

LEMMA PosParameterList ==
  ASSUME Careful, ParameterList PROVE PosInv'
<1>1. At("parameterList") /\ UNCHANGED compilers /\ Moves
  BY MovesBy DEF ParameterList
<1>2. Continue(<<>>) \/ Continue(<<Call("parameter")>>)
  BY DEF ParameterList
<1>3. AnytimeSeq(<<>>) /\ AnytimeSeq(<<Call("parameter")>>)
  BY AnytimeCalls, AnytimeSeqs
<1>4. PICK c : Continue(c) /\ AnytimeSeq(c)
  BY <1>2, <1>3
<1> QED  BY <1>1, <1>4, PosCalls DEF Idle

LEMMA PosVariables ==
  ASSUME Careful, VarDeclaration \/ GlobalDeclaration \/ Parameter PROVE PosInv'
<1> DEFINE v == <<Call("initializer"), DefineVariable(Global)>>
           g == <<Call("initializer"), Output(<<IA("DEF", Global)>>), Call("globals")>>
           p == <<Call("parameters")>>
<1>1. AnytimeSeq(v) /\ AnytimeSeq(g) /\ AnytimeSeq(p)
  BY AnytimeCalls, AnytimeSeqs
<1>2. \A l, c, f : ParseVariable(l, c, f) => Moves /\ SetCompiler([Comp EXCEPT !.locals = l])
  BY MovesBy DEF ParseVariable
<1> HIDE DEF v, g, p
<1>3. ASSUME NEW name, At(name), name \notin Idle \cup {"start"}, NEW c, AnytimeSeq(c), Continue(c),
             \E l, k, f : ParseVariable(l, k, f)
      PROVE  PosInv'
  <2>1. pos > 0 /\ status = "compiling" /\ Task.do = name /\ CompilersOK(compilers, functions)
    BY <1>3, CarefulAt
  <2>2. Moves /\ Shallow
    BY <1>2, <1>3, <2>1, ShallowBy
  <2> QED  BY <1>3, <2>1, <2>2, PosQuiet
<1>4. CASE VarDeclaration
  <2>1. At("varDeclaration") /\ Continue(v) /\ \E l, k, f : ParseVariable(l, k, f)
    BY <1>4, Zenon DEF VarDeclaration, v
  <2> QED  BY <2>1, <1>1, <1>3 DEF Idle
<1>5. CASE GlobalDeclaration
  <2>1. At("globalDeclaration") /\ Continue(g) /\ \E l, k, f : ParseVariable(l, k, f)
    BY <1>5, Zenon DEF GlobalDeclaration, g
  <2> QED  BY <2>1, <1>1, <1>3 DEF Idle
<1>6. CASE Parameter
  <2>1. At("parameter") /\ Continue(p) /\ \E l, k, f : ParseVariable(l, k, f)
    BY <1>6, Zenon DEF Parameter, p
  <2> QED  BY <2>1, <1>1, <1>3 DEF Idle
<1> QED  BY <1>4, <1>5, <1>6

LEMMA PosDefine ==
  ASSUME Careful, Define PROVE PosInv'
<1>1. At("defineVariable") /\ Moves /\ Continue(<<>>)
      /\ (UNCHANGED compilers \/ SetCompiler([Comp EXCEPT !.locals = Initialised(@)]))
  BY MovesBy DEF Define
<1>2. pos > 0 /\ status = "compiling" /\ Task.do = "defineVariable"
      /\ CompilersOK(compilers, functions)
  BY <1>1, CarefulAt
<1>3. Shallow
  BY <1>1, <1>2, ShallowBy
<1> QED  BY <1>1, <1>2, <1>3, PosQuiet, AnytimeSeqs DEF Idle

LEMMA PosEndFunction ==
  ASSUME Careful, EndFunction, Len(compilers) > 1 PROVE PosInv'
<1>1. At("endFunction") /\ Moves /\ Continue(<<>>) /\ compilers' = Tail(compilers)
  <2>1. At("endFunction") /\ Continue(<<>>) /\ compilers' = Tail(compilers) /\ \E f : Stay(f)
    BY Zenon DEF EndFunction
  <2> QED  BY <2>1, MovesBy
<1>2. pos > 0 /\ status = "compiling" /\ Task.do = "endFunction"
      /\ CompilersOK(compilers, functions)
  BY <1>1, CarefulAt
<1>3. Shallow
  BY <1>1, <1>2, ShallowBy
<1> QED  BY <1>1, <1>2, <1>3, PosQuiet, AnytimeSeqs DEF Idle

LEMMA AnytimePrefix ==
  ASSUME NEW type, NEW b PROVE AnytimeSeq(Prefix(type, b))
<1>1. /\ AnytimeSeq(<<Parse(PrecAssignment), Expect({")"})>>)
      /\ AnytimeSeq(<<Call("map")>>)
      /\ AnytimeSeq(<<Parse(PrecUnary), Output(UnaryCode(type))>>)
      /\ AnytimeSeq(<<[do |-> "variable", canAssign |-> b]>>)
      /\ AnytimeSeq(<<Call("constant")>>)
      /\ AnytimeSeq(<<Output(<<I("NIL")>>)>>)
      /\ AnytimeSeq(<<Output(<<I("TRUE")>>)>>)
      /\ AnytimeSeq(<<Output(<<I("FALSE")>>)>>)
      /\ AnytimeSeq(<<Output(<<I("LD")>>)>>)
      /\ AnytimeSeq(<<>>)
  BY AnytimeCalls, AnytimeSeqs
<1> QED  BY <1>1 DEF Prefix

LEMMA AnytimeInfix ==
  ASSUME NEW type, NEW b PROVE AnytimeSeq(Infix(type, b))
<1>1. /\ AnytimeSeq(<<Call("and")>>)
      /\ AnytimeSeq(<<Call("or")>>)
      /\ AnytimeSeq(<<Call("argumentList")>>)
      /\ AnytimeSeq(<<[do |-> "dot", canAssign |-> b]>>)
      /\ AnytimeSeq(<<Parse(PrecAssignment), Expect({"]"}),
                      Assignable(I("GETI"), I("SETI"), b, TRUE)>>)
      /\ AnytimeSeq(<<Parse(Precedence(type) + 1), Output(BinaryCode(type))>>)
  BY AnytimeCalls, AnytimeSeqs
<1> QED  BY <1>1 DEF Infix

LEMMA PosParsePrecedence ==
  ASSUME Careful, ParsePrecedence PROVE PosInv'
<1> DEFINE b == Task.prec <= PrecAssignment
           rule == Prefix(Current.type, b)
           o == <<[do |-> "operators", prec |-> Task.prec]>>
<1>1. AnytimeSeq(rule) /\ AnytimeSeq(o) /\ AnytimeSeq(<<>>)
  BY AnytimePrefix, AnytimeCalls, AnytimeSeqs
<1>2. At("parsePrecedence") /\ Moves /\ UNCHANGED compilers /\ (Continue(<<>>) \/ Continue(rule \o o))
  BY MovesBy DEF ParsePrecedence
<1> HIDE DEF rule, o
<1>3. AnytimeSeq(rule \o o)
  BY <1>1, AnytimeSeqs
<1>4. PICK c : Continue(c) /\ AnytimeSeq(c)
  BY <1>1, <1>2, <1>3
<1> QED  BY <1>2, <1>4, PosCalls DEF Idle

LEMMA PosOperators ==
  ASSUME Careful, Operators PROVE PosInv'
<1> DEFINE b == Task.prec <= PrecAssignment
           rule == Infix(Current.type, b)
           o == <<Task>>
<1>0. At("operators")
  BY DEF Operators
<1>1. AnytimeSeq(rule) /\ AnytimeSeq(o) /\ AnytimeSeq(<<>>)
  <2>1. Task.do = "operators"
    BY <1>0, CarefulAt
  <2>2. Anytime(Task)
    BY <2>1 DEF Anytime
  <2> QED  BY <2>2, AnytimeInfix, AnytimeSeqs
<1>2. Moves /\ UNCHANGED compilers /\ (Continue(<<>>) \/ Continue(rule \o o))
  BY MovesBy DEF Operators
<1> HIDE DEF rule, o
<1>3. AnytimeSeq(rule \o o)
  BY <1>1, AnytimeSeqs
<1>4. PICK c : Continue(c) /\ AnytimeSeq(c)
  BY <1>1, <1>2, <1>3
<1> QED  BY <1>0, <1>2, <1>4, PosCalls DEF Idle

LEMMA PosNamedVariable ==
  ASSUME Careful, NamedVariable PROVE PosInv'
<1>1. At("variable") /\ UNCHANGED compilers
  BY DEF NamedVariable
<1>2. /\ \E f : Stay(f)
      /\ \E i, j, b : Continue(<<Assignable(i, j, b, TRUE)>>)
  BY Zenon DEF NamedVariable
<1>3. \A i, j, b : AnytimeSeq(<<Assignable(i, j, b, TRUE)>>)
  BY AnytimeCalls, AnytimeSeqs
<1>4. PICK c : Continue(c) /\ AnytimeSeq(c)
  BY <1>2, <1>3
<1> QED  BY <1>1, <1>2, <1>4, PosCalls, MovesBy DEF Idle

LEMMA PosDot ==
  ASSUME Careful, Dot PROVE PosInv'
<1>1. At("dot") /\ UNCHANGED compilers
  BY DEF Dot
<1>2. \E f : Stay(f) \/ Advance(f)
  BY DEF Dot
<1>3. \E i, j, b : Continue(<<Assignable(i, j, b, FALSE)>>)
  BY Zenon DEF Dot
<1>4. \A i, j, b : AnytimeSeq(<<Assignable(i, j, b, FALSE)>>)
  BY AnytimeCalls, AnytimeSeqs
<1>5. PICK c : Continue(c) /\ AnytimeSeq(c)
  BY <1>3, <1>4
<1> QED  BY <1>1, <1>2, <1>5, PosCalls, MovesBy DEF Idle

LEMMA PosAssign ==
  ASSUME Careful, Assign PROVE PosInv'
<1>1. At("assignable") /\ UNCHANGED compilers /\ Moves
  BY MovesBy DEF Assign
<1>2. Task.set \in Emission
  <2>1. Task \in ACall /\ Task.do = "assignable"
    BY <1>1, CarefulAt
  <2> QED  BY <2>1, CallFields
<1>3. Anytime(Task.set)
  BY <1>2 DEF Emission, Anytime
<1>4. Continue(<<>>) \/ Continue(<<Parse(PrecAssignment), Task.set>>)
  BY DEF Assign
<1>5. AnytimeSeq(<<>>) /\ AnytimeSeq(<<Parse(PrecAssignment), Task.set>>)
  BY <1>3, AnytimeCalls, AnytimeSeqs
<1>6. PICK c : Continue(c) /\ AnytimeSeq(c)
  BY <1>4, <1>5
<1> QED  BY <1>1, <1>6, PosCalls DEF Idle

LEMMA PosItems ==
  ASSUME Careful, Items PROVE PosInv'
<1>1. (At("argumentList") \/ At("map")) /\ UNCHANGED compilers /\ Moves
  BY MovesBy DEF Items
<1> DEFINE a == <<Expect({")"}), Output(<<IA("CALL", 0)>>)>>
           b == <<Parse(PrecAssignment), NextItem("arguments", 1)>>
           c == <<Expect({"]"}), Output(<<IA("MAP", 0)>>)>>
           d == <<Parse(PrecAssignment), NextItem("elements", 1)>>
<1>2. Continue(a) \/ Continue(b) \/ Continue(c) \/ Continue(d)
  BY DEF Items
<1>3. AnytimeSeq(a) /\ AnytimeSeq(b) /\ AnytimeSeq(c) /\ AnytimeSeq(d)
  <2>1. Anytime(NextItem("arguments", 1)) /\ Anytime(NextItem("elements", 1))
    BY DEF Anytime, NextItem
  <2> QED  BY <2>1, AnytimeCalls, AnytimeSeqs
<1>4. PICK e : Continue(e) /\ AnytimeSeq(e)
  <2> HIDE DEF a, b, c, d
  <2> QED  BY <1>2, <1>3
<1> QED  BY <1>1, <1>4, PosCalls DEF Idle

LEMMA PosValues ==
  ASSUME Careful, Values PROVE PosInv'
<1> DEFINE rest == <<Output(<<IA("PRINT", Task.count)>>)>>
           more == <<Parse(PrecAssignment), NextItem("values", Task.count + 1)>>
<1>1. At("values") /\ UNCHANGED compilers
  BY DEF Values, Item
<1>2. \E f : Stay(f) \/ AdvanceAfter(f)
  BY DEF Values, Item
<1>3. Continue(<<>>) \/ Continue(rest) \/ Continue(more)
  BY DEF Values, Item
<1>4. AnytimeSeq(<<>>) /\ AnytimeSeq(rest) /\ AnytimeSeq(more)
  BY AnytimeCalls, AnytimeSeqs
<1>5. PICK c : Continue(c) /\ AnytimeSeq(c)
  <2> HIDE DEF rest, more
  <2> QED  BY <1>3, <1>4
<1> QED  BY <1>1, <1>2, <1>5, PosCalls, MovesBy DEF Idle

-----------------------------------------------------------------------------
(* The steps that have to look at what has been read.                      *)

(* A token that is consumed has been read.                                 *)
LEMMA JustRead ==
  ASSUME InputOK, pos > 0, NEW f, Advance(f) \/ AdvanceAfter(f), Current.type # "EOF"
  PROVE  /\ pos \in Nat /\ pos' \in Nat /\ pos < pos' /\ ~Looping(pos', prev')
         /\ Current.type \in Openers => Opened(input, pos')
         /\ Current.type = "," => Commas(input, pos) + 1 <= Commas(input, pos')
<1>1. /\ NextPos \in 1..Len(input) /\ Len(input) \in Nat /\ pos \in 0..Len(input)
      /\ (pos < Len(input) => pos < NextPos) /\ input[Len(input)].type = "EOF"
  BY NextPosOK, ProgramTokens DEF InputOK
<1>2. pos # Len(input)
  BY <1>1 DEF Current
<1>3. pos' = NextPos
  BY DEF Advance, AdvanceAfter
<1>4. pos \in Nat /\ pos' \in Nat /\ pos < pos' /\ pos' # 1 /\ pos <= pos'
  BY <1>1, <1>2, <1>3
<1>5. ~Looping(pos', prev')
  BY <1>4 DEF Looping
<1>6. input[pos].type \in Openers => Opened(input, pos')
  BY <1>4, OpenedStays
<1>7. input[pos].type = "," => Commas(input, pos) + 1 <= Commas(input, pos')
  BY <1>4, CommasGrow
<1> QED  BY <1>4, <1>5, <1>6, <1>7 DEF Current

LEMMA PosList ==
  ASSUME Careful, NEW list \in {"arguments", "elements"}, NEW failed, NEW rest,
         Item(list, failed, rest), AnytimeSeq(rest)
  PROVE  PosInv'
<1>1. At(list) /\ UNCHANGED compilers /\ (AdvanceAfter(failed) \/ Stay(failed))
  BY DEF Item
<1>2. /\ pos > 0 /\ status = "compiling" /\ Task.do = list /\ InputOK /\ Task \in ACall /\ Shallow
      /\ Moves
  BY <1>1, CarefulAt, MovesBy
<1>3. Task.do \notin Idle
  BY <1>2 DEF Idle
<1>4. /\ ~Looping(pos', prev') /\ Reached(Task, input, pos, prev)
      /\ \A c : Anytime(c) => Reached(c, input, pos', prev')
      /\ ScopesOpened(input, pos', prev', compilers')
  BY <1>2, <1>3, PosActive
<1>5. CASE ~Is({","})
  <2>1. Continue(rest)
    BY <1>5 DEF Item
  <2> QED  BY <2>1, <1>2, <1>3, PosQuiet
<1>6. CASE Is({","})
  <2> DEFINE p == Parse(PrecAssignment)
             n == NextItem(list, Task.count + 1)
             s == <<p, n>>
             S == {p, n}
  <2>1. Continue(s) /\ AdvanceAfter(failed)
    BY <1>6 DEF Item
  <2>2. Current.type = "," /\ Current.type # "EOF"
    BY <1>6 DEF Is
  <2>3. Task.count \in Nat /\ Task.count <= 1 + Commas(input, pos)
    BY <1>2, <1>4, Counts DEF Reached
  <2>4. Commas(input, pos) + 1 <= Commas(input, pos') /\ pos \in Nat /\ pos' \in Nat
    BY <1>2, <2>1, <2>2, JustRead
  <2>5. Commas(input, pos) \in Nat /\ Commas(input, pos') \in Nat
    BY <2>4, CommasFinite
  <2>6. Task.count + 1 <= 1 + Commas(input, pos')
    BY <2>3, <2>4, <2>5
  <2>7. n.do = list /\ n.count = Task.count + 1
    BY DEF NextItem
  <2>8. s \in Seq(S)
    OBVIOUS
  <2> HIDE DEF n, s
  <2>9. Reached(n, input, pos', prev')
    BY <1>4, <2>6, <2>7 DEF Reached
  <2>10. Reached(p, input, pos', prev')
    BY <1>4, AnytimeCalls
  <2> HIDE DEF p
  <2>11. \A c \in S : Reached(c, input, pos', prev')
    BY <2>9, <2>10
  <2> HIDE DEF S
  <2> QED  BY <1>2, <1>4, <2>1, <2>8, <2>11, PosStep
<1> QED  BY <1>5, <1>6

LEMMA PosArguments ==
  ASSUME Careful, Arguments PROVE PosInv'
<1> DEFINE n == Task.count % Byte
           rest == <<Expect({")"}), Output(<<IA("CALL", n)>>)>>
<1>1. AnytimeSeq(rest)
  BY AnytimeCalls, AnytimeSeqs
<1>2. Item("arguments", n = MaxArgs, rest)
  BY DEF Arguments
<1> HIDE DEF rest
<1> QED  BY <1>1, <1>2, PosList

LEMMA PosElements ==
  ASSUME Careful, Elements PROVE PosInv'
<1> DEFINE rest == <<Expect({"]"}), Output(<<IA("MAP", Task.count % Byte)>>)>>
<1>1. AnytimeSeq(rest)
  BY AnytimeCalls, AnytimeSeqs
<1>2. Item("elements", FALSE, rest)
  BY DEF Elements
<1> HIDE DEF rest
<1> QED  BY <1>1, <1>2, PosList

LEMMA PosFunDeclaration ==
  ASSUME Careful, FunDeclaration PROVE PosInv'
<1> DEFINE f == Call("function")
           d == DefineVariable(Global)
           s == <<f, d>>
           S == {f, d}
<1>1. /\ At("funDeclaration") /\ Continue(s)
      /\ ParseVariable(Initialised(Declared), Chunk, FALSE)
  BY DEF FunDeclaration
<1>2. \A l, c, g : ParseVariable(l, c, g) => Moves /\ SetCompiler([Comp EXCEPT !.locals = l])
  BY MovesBy DEF ParseVariable
<1>3. /\ pos > 0 /\ status = "compiling" /\ Task.do = "funDeclaration" /\ InputOK
      /\ CompilersOK(compilers, functions)
  BY <1>1, CarefulAt
<1>4. Moves /\ Shallow
  BY <1>1, <1>2, <1>3, ShallowBy
<1>5. /\ ~Looping(pos', prev') /\ Reached(Task, input, pos, prev)
      /\ \A c : Anytime(c) => Reached(c, input, pos', prev')
      /\ ScopesOpened(input, pos', prev', compilers')
  BY <1>3, <1>4, PosActive DEF Idle
<1>6. Opened(input, pos) /\ Opened(input, pos')
  <2>1. Opened(input, pos)
    BY <1>3, <1>5 DEF Reached
  <2> QED  BY <2>1, <1>3, <1>4, Moved
<1>7. f.do = "function"
  BY DEF Call
<1>8. Anytime(d)
  BY AnytimeCalls
<1>9. s \in Seq(S)
  OBVIOUS
<1> HIDE DEF s, f, d
<1>10. Reached(f, input, pos', prev') /\ Reached(d, input, pos', prev')
  BY <1>5, <1>6, <1>7, <1>8 DEF Reached
<1>11. \A c \in S : Reached(c, input, pos', prev')
  BY <1>10
<1> HIDE DEF S
<1> QED  BY <1>1, <1>3, <1>4, <1>5, <1>9, <1>11, PosStep

LEMMA PosFunction ==
  ASSUME Careful, Function PROVE PosInv'
<1> DEFINE a == Call("parameterList")
           b == Expect({")"})
           c == DeclareUntil({"END", "ENDFUNC"})
           d == Expect({"END", "ENDFUNC"})
           e == Call("endFunction")
           s == <<a, b, c, d, e>>
           S == {a, b, c, d, e}
<1>1. At("function") /\ Continue(s) /\ Moves
  BY MovesBy DEF Function
<1>2. pos > 0 /\ status = "compiling" /\ Task.do = "function" /\ InputOK
  BY <1>1, CarefulAt
<1>3. /\ ~Looping(pos', prev') /\ Reached(Task, input, pos, prev)
      /\ \A x : Anytime(x) => Reached(x, input, pos', prev')
  BY <1>1, <1>2, PosActive DEF Idle
<1>4. Opened(input, pos')
  <2>1. Opened(input, pos)
    BY <1>2, <1>3 DEF Reached
  <2> QED  BY <2>1, <1>1, <1>2, Moved
<1>5. Anytime(a) /\ Anytime(b) /\ Anytime(c) /\ Anytime(d) /\ Anytime(e)
  BY AnytimeCalls
<1> HIDE DEF a, b, c, d, e
<1>6. s \in Seq(S)
  OBVIOUS
<1>7. \A x \in S : Reached(x, input, pos', prev')
  BY <1>3, <1>5
<1>8. ScopesOpened(input, pos', prev', compilers')
  BY <1>4 DEF ScopesOpened
<1> HIDE DEF s, S
<1> QED  BY <1>1, <1>2, <1>6, <1>7, <1>8, PosStep

-----------------------------------------------------------------------------
(* The steps that may happen before anything has been read.                *)

LEMMA IdleCalls ==
  ASSUME NEW c, NEW in, NEW p, NEW before
  PROVE  /\ c.do \in Idle \ {"statement"} => Reached(c, in, p, before)
         /\ (c.do = "statement" /\ in[p].type \notin Variables) => Reached(c, in, p, before)
         /\ (p \in Nat /\ Anytime(c) /\ ~Looping(p, before)) => Reached(c, in, p, before)
<1>1. ASSUME p \in Nat, Anytime(c), ~Looping(p, before) PROVE Reached(c, in, p, before)
  <2>1. Commas(in, p) \in Nat
    BY <1>1, CommasFinite
  <2>2. c.do \in {"arguments", "elements"} => c.count <= 1 + Commas(in, p)
    BY <2>1, <1>1 DEF Anytime
  <2> QED  BY <2>2, <1>1 DEF Anytime, Reached
<1> QED  BY <1>1 DEF Idle, Reached

LEMMA IdleAt ==
  ASSUME Careful, NEW name, At(name), name \in Idle, Moves
  PROVE  /\ pos > 0 /\ status = "compiling" /\ Task.do = name /\ InputOK /\ Task \in ACall
         /\ CompilersOK(compilers, functions) /\ pos \in Nat /\ pos' \in Nat
         /\ Reached(Task, input, pos, prev) /\ Known(input, pos, prev)
         /\ pos' = pos /\ prev' = prev /\ Shallow => ScopesOpened(input, pos', prev', compilers')
         /\ Opened(input, pos) => Opened(input, pos')
<1>1. /\ pos > 0 /\ status = "compiling" /\ Task.do = name /\ InputOK /\ Task \in ACall
      /\ CompilersOK(compilers, functions)
  BY CarefulAt DEF Idle
<1>2. PosOK(input, pos, prev, tasks, compilers)
  BY <1>1 DEF Careful, PosInv
<1>3. tasks \in Seq(ACall) /\ tasks # <<>> /\ Task = tasks[1]
  BY <1>1, ShapeNow DEF Careful, ShapeInv
<1>4. Reached(Task, input, pos, prev) /\ Known(input, pos, prev)
      /\ ScopesOpened(input, pos, prev, compilers)
  BY <1>2, <1>3 DEF PosOK, AllReached
<1>5. pos \in Nat /\ pos' \in Nat /\ (Opened(input, pos) => Opened(input, pos'))
  BY <1>1, Moved
<1>6. ASSUME pos' = pos, prev' = prev, Shallow
      PROVE  ScopesOpened(input, pos', prev', compilers')
  BY <1>4, <1>6 DEF Shallow, ScopesOpened
<1> QED  BY <1>1, <1>4, <1>5, <1>6

LEMMA PosNone ==
  ASSUME Careful, status = "compiling", pos > 0, Moves, Continue(<<>>),
         ScopesOpened(input, pos', prev', compilers')
  PROVE  PosInv'
<1> DEFINE s == <<>>
           S == {}
<1>1. Continue(s) /\ s \in Seq(S) /\ \A c \in S : Reached(c, input, pos', prev')
  OBVIOUS
<1> HIDE DEF s, S
<1> QED  BY <1>1, PosStep

LEMMA PosDeclareLoop ==
  ASSUME Careful, DeclareLoop PROVE PosInv'
<1> DEFINE d == Call("declaration")
           s == <<d, Task>>
           S == {d, Task}
<1>1. At("declareUntil") /\ UNCHANGED <<pos, prev, compilers>> /\ (Continue(<<>>) \/ Continue(s))
  BY DEF DeclareLoop, Stay
<1>2. Moves
  BY <1>1 DEF Moves
<1>3. pos > 0 /\ status = "compiling" /\ Task.do = "declareUntil"
      /\ ScopesOpened(input, pos', prev', compilers')
  BY <1>1, <1>2, IdleAt DEF Idle, Shallow
<1>4. d.do = "declaration"
  BY DEF Call
<1>5. s \in Seq(S) /\ <<>> \in Seq(S)
  OBVIOUS
<1> HIDE DEF s, d
<1>6. \A c \in S : Reached(c, input, pos', prev')
  BY <1>3, <1>4, IdleCalls DEF Idle
<1> HIDE DEF S
<1> QED  BY <1>1, <1>2, <1>3, <1>5, <1>6, PosStep

LEMMA PosProgram ==
  ASSUME Careful, Program PROVE PosInv'
<1> DEFINE d == Call("declaration")
           s == <<d, Task>>
           S == {d, Task}
<1>1. CASE Is({"EOF"})
  BY <1>1 DEF Program, PosInv
<1>2. CASE ~Is({"EOF"})
  <2>1. At("program") /\ UNCHANGED <<pos, prev, compilers>> /\ Continue(s)
    BY <1>2 DEF Program, Stay
  <2>2. Moves
    BY <2>1 DEF Moves
  <2>3. pos > 0 /\ status = "compiling" /\ Task.do = "program"
        /\ ScopesOpened(input, pos', prev', compilers')
    BY <2>1, <2>2, IdleAt DEF Idle, Shallow
  <2>4. d.do = "declaration"
    BY DEF Call
  <2>5. s \in Seq(S)
    OBVIOUS
  <2> HIDE DEF s, d
  <2>6. \A c \in S : Reached(c, input, pos', prev')
    BY <2>3, <2>4, IdleCalls DEF Idle
  <2> HIDE DEF S
  <2> QED  BY <2>1, <2>2, <2>3, <2>5, <2>6, PosStep
<1> QED  BY <1>1, <1>2

LEMMA PosEndDeclaration ==
  ASSUME Careful, EndDeclaration PROVE PosInv'
<1>1. ~panicMode
  BY DEF Careful, Clean, ShapeInv, InputOK
<1>2. At("endDeclaration") /\ UNCHANGED <<pos, prev, compilers>> /\ Continue(<<>>)
  BY <1>1 DEF EndDeclaration, Stay
<1>3. Moves
  BY <1>2 DEF Moves
<1>4. pos > 0 /\ status = "compiling" /\ ScopesOpened(input, pos', prev', compilers')
  BY <1>2, <1>3, IdleAt DEF Idle, Shallow
<1> QED  BY <1>2, <1>3, <1>4, PosNone

LEMMA PosEndScope ==
  ASSUME Careful, EndScope PROVE PosInv'
<1>1. At("endScope") /\ UNCHANGED <<pos, prev>> /\ Continue(<<>>)
  BY DEF EndScope, Stay
<1>2. Moves
  BY <1>1 DEF Moves
<1>3. pos > 0 /\ status = "compiling" /\ CompilersOK(compilers, functions)
  BY <1>1, <1>2, IdleAt DEF Idle
<1>4. Shallow
  <2> DEFINE l == LET depth == Scope - 1
                      kept  == {i \in DOMAIN Locals : Locals[i].depth <= depth}
                      count == IF kept = {} THEN 0 ELSE Greatest(kept)
                  IN  SubSeq(Locals, 1, count)
             d == Scope - 1
             c == [Comp EXCEPT !.scope = d, !.locals = l]
  <2>1. SetCompiler(c)
    BY DEF EndScope, Locals
  <2>2. compilers \in Seq(Compiling) /\ compilers # <<>> /\ Comp = compilers[1] /\ Comp \in Compiling
        /\ Scope \in Nat
    BY <1>3, CompOK DEF CompilersOK, Compile
  <2>3. c.scope = d
    BY <2>2 DEF Compiling
  <2> HIDE DEF c, l
  <2>4. d > 0 => Comp.scope > 0
    BY <2>2 DEF Scope
  <2> HIDE DEF d
  <2> QED  BY <2>1, <2>2, <2>3, <2>4, ShallowComp
<1>5. ScopesOpened(input, pos', prev', compilers')
  BY <1>1, <1>2, <1>4, IdleAt DEF Idle
<1> QED  BY <1>1, <1>2, <1>3, <1>5, PosNone

LEMMA PosKeyword ==
  ASSUME Careful, NEW name, At(name), name \in Idle, NEW f, Advance(f), Current.type \in Keywords,
         Shallow \/ Current.type \in Openers, NEW S, NEW s \in Seq(S), Continue(s),
         \A c \in S : Anytime(c) \/ (c.do = "funDeclaration" /\ Current.type = "FUNC")
  PROVE  PosInv'
<1>1. Moves
  BY MovesBy
<1>2. /\ pos > 0 /\ status = "compiling" /\ InputOK /\ Task.do = name /\ Task \in ACall
  BY <1>1, IdleAt
<1>3. /\ pos \in Nat /\ pos' \in Nat /\ ~Looping(pos', prev')
      /\ Current.type \in Openers => Opened(input, pos')
  BY <1>2, JustRead DEF Keywords, Variables
<1>4. ASSUME NEW c \in S PROVE Reached(c, input, pos', prev')
  <2>1. CASE Anytime(c)
    BY <2>1, <1>3, IdleCalls
  <2>2. CASE c.do = "funDeclaration" /\ Current.type = "FUNC"
    <3>1. Opened(input, pos')
      BY <1>3, <2>2 DEF Openers
    <3> QED  BY <3>1, <2>2, <1>3 DEF Reached
  <2> QED  BY <1>4, <2>1, <2>2
<1>5. ScopesOpened(input, pos', prev', compilers')
  <2>1. CASE Opened(input, pos')
    BY <2>1 DEF ScopesOpened
  <2>2. CASE Shallow /\ ~Opened(input, pos')
    <3>1. PosOK(input, pos, prev, tasks, compilers)
      BY <1>2 DEF Careful, PosInv
    <3>2. ScopesOpened(input, pos, prev, compilers)
      BY <3>1 DEF PosOK
    <3>3. ~Opened(input, pos)
      BY <1>1, <1>2, <2>2, Moved
    <3>4. ~(\E i \in DOMAIN compilers : compilers[i].scope > 0) \/ Looping(pos, prev)
      BY <3>2, <3>3 DEF ScopesOpened
    <3>5. CASE ~(\E i \in DOMAIN compilers : compilers[i].scope > 0)
      BY <3>5, <2>2 DEF Shallow, ScopesOpened
    <3>6. CASE (\E i \in DOMAIN compilers : compilers[i].scope > 0) /\ Looping(pos, prev)
      BY <3>2, <3>3, <3>6 DEF ScopesOpened, Current
    <3> QED  BY <3>4, <3>5, <3>6
  <2> QED  BY <2>1, <2>2, <1>3
<1> QED  BY <1>1, <1>2, <1>4, <1>5, PosStep

LEMMA PosDeclaration ==
  ASSUME Careful, Declaration PROVE PosInv'
<1> DEFINE e == Call("endDeclaration")
           f == Call("funDeclaration")
           v == Call("varDeclaration")
           g == Call("globalDeclaration")
           t == Call("statement")
<1>1. /\ Anytime(e) /\ Anytime(v) /\ Anytime(g) /\ f.do = "funDeclaration"
      /\ e.do = "endDeclaration" /\ t.do = "statement"
  BY AnytimeCalls DEF Call
<1>2. At("declaration") /\ "declaration" \in Idle
  BY DEF Declaration, Idle
<1>3. CompilersOK(compilers, functions)
  BY <1>2, CarefulAt
<1>4. /\ <<f, e>> \in Seq({f, e}) /\ <<v, e>> \in Seq({v, e})
      /\ <<g, e>> \in Seq({g, e}) /\ <<t, e>> \in Seq({t, e})
  OBVIOUS
<1>5. ASSUME NEW type \in Variables, NEW c, Keyword(type, c), NEW S, c \in Seq(S),
             \A x \in S : Anytime(x) \/ (x.do = "funDeclaration" /\ type = "FUNC")
      PROVE  PosInv'
  <2>1. Current.type = type /\ type \in Keywords
    BY <1>5 DEF Keyword, Is, Keywords
  <2>2. Advance(FALSE) /\ Continue(c) /\ UNCHANGED compilers
    BY <1>5 DEF Keyword
  <2>3. Shallow
    BY <1>3, <2>2, ShallowBy
  <2> QED  BY <1>2, <1>5, <2>1, <2>2, <2>3, PosKeyword
<1>6. CASE Keyword("FUNC", <<f, e>>)
  <2> DEFINE c == <<f, e>>
             S == {f, e}
  <2>1. Keyword("FUNC", c) /\ c \in Seq(S)
    BY <1>4, <1>6
  <2> HIDE DEF c, e, f
  <2>2. \A x \in S : Anytime(x) \/ x.do = "funDeclaration"
    BY <1>1
  <2>3. "FUNC" \in Variables
    BY DEF Variables
  <2> HIDE DEF S
  <2> QED  BY <2>1, <2>2, <2>3, <1>5
<1>7. CASE Keyword("VAR", <<v, e>>)
  <2> DEFINE c == <<v, e>>
             S == {v, e}
  <2>1. Keyword("VAR", c) /\ c \in Seq(S)
    BY <1>4, <1>7
  <2> HIDE DEF c, e, v
  <2>2. \A x \in S : Anytime(x)
    BY <1>1
  <2>3. "VAR" \in Variables
    BY DEF Variables
  <2> HIDE DEF S
  <2> QED  BY <2>1, <2>2, <2>3, <1>5
<1>8. CASE Keyword("GLOBAL", <<g, e>>)
  <2> DEFINE c == <<g, e>>
             S == {g, e}
  <2>1. Keyword("GLOBAL", c) /\ c \in Seq(S)
    BY <1>4, <1>8
  <2> HIDE DEF c, e, g
  <2>2. \A x \in S : Anytime(x)
    BY <1>1
  <2>3. "GLOBAL" \in Variables
    BY DEF Variables
  <2> HIDE DEF S
  <2> QED  BY <2>1, <2>2, <2>3, <1>5
<1>9. CASE /\ ~Is({"FUNC", "VAR", "GLOBAL"}) /\ Continue(<<t, e>>) /\ Stay(FALSE)
           /\ UNCHANGED <<compilers, functions, expr>>
  <2> DEFINE c == <<t, e>>
             S == {t, e}
  <2>1. pos' = pos /\ prev' = prev /\ Continue(c) /\ c \in Seq(S) /\ UNCHANGED compilers
    BY <1>4, <1>9 DEF Stay
  <2>2. Moves
    BY <2>1 DEF Moves
  <2>3. pos > 0 /\ status = "compiling" /\ ScopesOpened(input, pos', prev', compilers')
    BY <1>2, <2>1, <2>2, IdleAt DEF Shallow
  <2>4. input[pos'].type \notin Variables
    BY <2>1, <1>9 DEF Is, Current, Variables
  <2> HIDE DEF c, e, t
  <2>5. \A x \in S : Reached(x, input, pos', prev')
    BY <1>1, <2>4, IdleCalls DEF Idle
  <2> HIDE DEF S
  <2> QED  BY <2>1, <2>2, <2>3, <2>5, PosStep
<1> QED  BY <1>6, <1>7, <1>8, <1>9 DEF Declaration

LEMMA PosStatement ==
  ASSUME Careful, Statement PROVE PosInv'
<1>1. At("statement") /\ "statement" \in Idle
  BY DEF Statement, Idle
<1>2. CompilersOK(compilers, functions) /\ InputOK
  BY <1>1, CarefulAt
<1>3. ASSUME NEW type \in {"PRINT", "IF", "RETURN"}, NEW c, Keyword(type, c), AnytimeSeq(c)
      PROVE  PosInv'
  <2>1. Current.type = type /\ type \in Keywords
    BY <1>3 DEF Keyword, Is, Keywords
  <2>2. Advance(FALSE) /\ Continue(c) /\ UNCHANGED compilers
    BY <1>3 DEF Keyword
  <2>3. Shallow
    BY <1>2, <2>2, ShallowBy
  <2>4. PICK S : c \in Seq(S) /\ \A x \in S : Anytime(x)
    BY <1>3 DEF AnytimeSeq
  <2> QED  BY <1>1, <2>1, <2>2, <2>3, <2>4, PosKeyword
<1> DEFINE a == <<Parse(PrecAssignment), NextItem("values", 1)>>
           b == <<Parse(PrecAssignment), Expect({"THEN"}), Call("then")>>
           c == <<Call("returnValue")>>
           d == <<DeclareUntil({"}"}), Expect({"}"}), Call("endScope")>>
           k == <<Parse(PrecAssignment), Call("endExpression")>>
<1>4. AnytimeSeq(a) /\ AnytimeSeq(b) /\ AnytimeSeq(c) /\ AnytimeSeq(d) /\ AnytimeSeq(k)
  BY AnytimeCalls, AnytimeSeqs
<1>5. \/ Keyword("PRINT", a) \/ Keyword("IF", b) \/ Keyword("RETURN", c)
      \/ Is({"{"}) /\ Advance(FALSE) /\ Continue(d)
      \/ /\ ~Is({"PRINT", "IF", "RETURN", "{"}) /\ Stay(FALSE)
         /\ prev.type \in {"THEN", "ELSE"}
         /\ \E t : /\ t = Call("declaration") \/ \E types : t = DeclareUntil(types)
                  /\ Continue(<<t, Call("endScope")>>)
      \/ /\ Stay(FALSE) /\ prev.type \notin {"THEN", "ELSE"} /\ Continue(k) /\ UNCHANGED compilers
  BY DEF Statement, Block
<1> HIDE DEF a, b, c, d, k
<1>6. CASE Keyword("PRINT", a) \/ Keyword("IF", b) \/ Keyword("RETURN", c)
  BY <1>3, <1>4, <1>6
<1>7. CASE Is({"{"}) /\ Advance(FALSE) /\ Continue(d)
  <2>1. Current.type \in Keywords /\ Current.type \in Openers
    BY <1>7 DEF Is, Keywords, Openers
  <2>2. PICK S : d \in Seq(S) /\ \A x \in S : Anytime(x)
    BY <1>4 DEF AnytimeSeq
  <2> QED  BY <1>1, <1>7, <2>1, <2>2, PosKeyword
<1>8. CASE /\ ~Is({"PRINT", "IF", "RETURN", "{"}) /\ Stay(FALSE)
           /\ prev.type \in {"THEN", "ELSE"}
           /\ \E t : /\ t = Call("declaration") \/ \E types : t = DeclareUntil(types)
                    /\ Continue(<<t, Call("endScope")>>)
  <2>1. PICK t : /\ t = Call("declaration") \/ \E types : t = DeclareUntil(types)
                 /\ Continue(<<t, Call("endScope")>>)
    BY <1>8
  <2> DEFINE z == Call("endScope")
             s == <<t, z>>
             S == {t, z}
  <2>2. t.do \in {"declaration", "declareUntil"} /\ z.do = "endScope"
    BY <2>1 DEF Call, DeclareUntil
  <2>3. pos' = pos /\ prev' = prev /\ Continue(s) /\ s \in Seq(S)
    <3>1. pos' = pos /\ prev' = prev
      BY <1>8 DEF Stay
    <3>2. Continue(s)
      BY <2>1
    <3>3. s \in Seq(S)
      OBVIOUS
    <3> QED  BY <3>1, <3>2, <3>3
  <2> HIDE DEF s, z
  <2>4. Moves
    BY <2>3 DEF Moves
  <2>5. /\ pos > 0 /\ status = "compiling" /\ pos \in Nat /\ Task.do = "statement"
        /\ Reached(Task, input, pos, prev) /\ Known(input, pos, prev)
    BY <1>1, <2>4, IdleAt
  <2>6. \A x \in S : Reached(x, input, pos', prev')
    BY <2>2, IdleCalls DEF Idle
  <2>7. Opened(input, pos) \/ (Looping(pos, prev) /\ input[pos].type \notin Keywords)
    <3>1. CASE pos = 1
      <4>1. Looping(pos, prev)
        BY <3>1, <1>8 DEF Looping
      <4>2. input[pos].type \notin Variables
        BY <4>1, <2>5 DEF Reached
      <4>3. input[pos].type \notin {"PRINT", "IF", "RETURN", "{"}
        BY <1>8 DEF Is, Current
      <4> QED  BY <4>1, <4>2, <4>3 DEF Keywords
    <3>2. CASE pos # 1
      <4>1. pos > 1 /\ prev.type # "EOF"
        <5>1. prev.type \in {"THEN", "ELSE"}
          BY <1>8
        <5>2. pos \in Nat /\ pos > 0
          BY <2>5
        <5> QED  BY <5>1, <5>2, <3>2
      <4>2. PICK i \in 1..pos-1 : prev = input[i]
        BY <4>1, <2>5 DEF Known
      <4>3. input[i].type \in Openers
        BY <4>2, <1>8 DEF Openers
      <4> QED  BY <4>2, <4>3 DEF Opened
    <3> QED  BY <3>1, <3>2
  <2>8. ScopesOpened(input, pos', prev', compilers')
    BY <2>3, <2>7 DEF ScopesOpened
  <2> HIDE DEF S
  <2> QED  BY <2>3, <2>4, <2>5, <2>6, <2>8, PosStep
<1>9. CASE Stay(FALSE) /\ prev.type \notin {"THEN", "ELSE"} /\ Continue(k) /\ UNCHANGED compilers
  <2>1. pos' = pos /\ prev' = prev
    BY <1>9 DEF Stay
  <2>2. Moves
    BY <2>1 DEF Moves
  <2>3. /\ pos > 0 /\ status = "compiling" /\ pos' \in Nat
        /\ ScopesOpened(input, pos', prev', compilers')
    BY <1>1, <1>9, <2>1, <2>2, IdleAt DEF Shallow
  <2>4. ~Looping(pos', prev')
    BY <2>1, <1>9 DEF Looping
  <2>5. PICK S : k \in Seq(S) /\ \A x \in S : Anytime(x)
    BY <1>4 DEF AnytimeSeq
  <2>6. \A x \in S : Reached(x, input, pos', prev')
    BY <2>3, <2>4, <2>5, IdleCalls
  <2> QED  BY <1>9, <2>2, <2>3, <2>5, <2>6, PosStep
<1> QED  BY <1>5, <1>6, <1>7, <1>8, <1>9

-----------------------------------------------------------------------------
(* All steps.                                                              *)

LEMMA PosStart ==
  ASSUME ShapeInv, Start PROVE PosInv'
<1>1. /\ pos = 0 /\ InputOK /\ compilers = <<NewCompiler(1, "script", 0)>>
      /\ tasks = <<Call("start")>>
  BY StartsFirst DEF Start
<1>2. CASE hadError'
  BY <1>2 DEF PosInv, Clean
<1>3. CASE ~hadError'
  <2> DEFINE t == Call("program")
             c == NewCompiler(1, "script", 0)
  <2>1. /\ pos' = NextPos /\ input' = input /\ compilers' = compilers
        /\ ~(NextPos > 1) /\ Continue(<<t>>)
    BY <1>3 DEF Start, Errors, Continue
  <2>2. NextPos \in 1..Len(input) /\ Len(input) \in Nat
    BY <1>1, NextPosOK, ProgramTokens DEF InputOK
  <2>3. pos' = 1
    BY <2>1, <2>2
  <2>4. t.do = "program" /\ c.scope = 0
    BY DEF Call, NewCompiler
  <2>5. tasks' = <<t>>
    <3>1. \A x, y : <<x>> \o Tail(<<y>>) = <<x>>
      OBVIOUS
    <3> QED  BY <3>1, <1>1, <2>1 DEF Continue
  <2> HIDE DEF t, c
  <2>6. Reached(t, input, pos', prev')
    BY <2>4, IdleCalls DEF Idle
  <2>7. AllReached(tasks', input, pos', prev')
    <3>1. \A k \in DOMAIN <<t>> : <<t>>[k] = t
      OBVIOUS
    <3> QED  BY <3>1, <2>5, <2>6 DEF AllReached
  <2>8. ScopesOpened(input, pos', prev', compilers')
    <3>1. \A k \in DOMAIN <<c>> : <<c>>[k] = c
      OBVIOUS
    <3>2. compilers' = <<c>>
      BY <1>1, <2>1 DEF c
    <3> QED  BY <3>1, <3>2, <2>4 DEF ScopesOpened
  <2>9. Known(input, pos', prev')
    BY <2>3 DEF Known
  <2>10. PosOK(input', pos', prev', tasks', compilers')
    BY <2>1, <2>7, <2>8, <2>9 DEF PosOK
  <2> QED  BY <2>10 DEF PosInv
<1> QED  BY <1>2, <1>3

LEMMA GlobalOutside ==
  ASSUME Careful, Declaration PROVE Is({"GLOBAL"}) => Scope = 0
<1>1. /\ pos > 0 /\ status = "compiling" /\ InputOK /\ CompilersOK(compilers, functions)
  BY CarefulAt DEF Declaration
<1>2. ScopesOpened(input, pos, prev, compilers)
  BY <1>1 DEF Careful, PosInv, PosOK
<1>3. SUFFICES ASSUME Is({"GLOBAL"}), Scope # 0 PROVE FALSE
  OBVIOUS
<1>4. compilers \in Seq(Compiling) /\ compilers # <<>> /\ Comp = compilers[1] /\ Scope \in Nat
  BY <1>1, CompOK DEF CompilersOK, Compile
<1>5. 1 \in DOMAIN compilers /\ compilers[1].scope > 0
  BY <1>3, <1>4 DEF Scope
<1>6. input[pos].type = "GLOBAL"
  BY <1>3 DEF Is, Current
<1>7. Opened(input, pos)
  BY <1>2, <1>5, <1>6 DEF ScopesOpened, Keywords, Variables
<1>8. PICK i \in 1..pos-1 : input[i].type \in Openers
  BY <1>7 DEF Opened
<1>9. i \in DOMAIN input /\ pos \in DOMAIN input /\ i < pos
  <2>1. pos \in 0..Len(input) /\ Len(input) \in Nat /\ DOMAIN input = 1..Len(input)
    BY <1>1, ProgramTokens DEF InputOK
  <2> QED  BY <2>1, <1>1, <1>8
<1>10. ScopedGlobal
  BY <1>6, <1>8, <1>9 DEF ScopedGlobal, Openers
<1> QED  BY <1>10 DEF Careful, Clean

LEMMA CountFits ==
  ASSUME Careful, NEW list \in {"arguments", "elements"}, At(list)
  PROVE  Task.count < Byte
<1>1. /\ pos > 0 /\ status = "compiling" /\ InputOK /\ Task.do = list /\ Task \in ACall
  BY CarefulAt
<1>2. tasks # <<>> /\ Task = tasks[1] /\ tasks \in Seq(ACall)
  BY ShapeNow, <1>1 DEF Careful, ShapeInv
<1>3. Reached(Task, input, pos, prev)
  BY <1>1, <1>2 DEF Careful, PosInv, PosOK, AllReached
<1>4. Task.count \in Nat /\ Task.count <= 1 + Commas(input, pos)
  BY <1>1, <1>3, Counts DEF Reached
<1>5. 1 + Commas(input, pos) < Byte
  BY <1>1, CommasFew DEF Careful, Clean
<1>6. pos \in Nat /\ Commas(input, pos) \in Nat
  <2>1. pos \in Nat
    BY <1>1, ProgramTokens DEF InputOK
  <2> QED  BY <2>1, CommasFinite
<1> QED  BY <1>4, <1>5, <1>6, CompilerAssumption

LEMMA ErrorsStay ==
  /\ \A f : Stay(f) \/ Advance(f) \/ AdvanceAfter(f) => (hadError => hadError')
  /\ \A types : Match(types) \/ Consume(types) => (hadError => hadError')
<1>1. \A f : Errors(f) => (hadError => hadError')
  BY DEF Errors, errors
<1>2. \A f : Stay(f) \/ Advance(f) \/ AdvanceAfter(f) => \E g : Errors(g)
  BY Zenon DEF Stay, Advance, AdvanceAfter
<1>3. \A f : Stay(f) \/ Advance(f) \/ AdvanceAfter(f) => (hadError => hadError')
  BY <1>1, <1>2
<1> QED  BY <1>3 DEF Match, Consume

(* An error is never forgotten, and the text stays what it is.             *)
LEMMA Remembers ==
  ASSUME [Next]_vars PROVE input' = input /\ (hadError => hadError')
<1>0. \A c : Continue(c) => input' = input
  BY DEF Continue
<1>1. CASE Start \/ Program \/ EndDeclaration \/ DeclareLoop
  BY <1>1, <1>0, ErrorsStay DEF Start, Program, EndDeclaration, DeclareLoop, Errors, errors
<1>2. CASE Declaration \/ Statement
  BY <1>2, <1>0, ErrorsStay DEF Declaration, Statement, Keyword, Block
<1>3. CASE EndExpression \/ IfThen \/ ReturnStatement \/ EndScope
  BY <1>3, <1>0, ErrorsStay DEF EndExpression, IfThen, ReturnStatement, EndScope
<1>4. CASE IfElse
  BY <1>4, <1>0, ErrorsStay DEF IfElse
<1>5. CASE FunDeclaration \/ VarDeclaration \/ GlobalDeclaration \/ Parameter
  BY <1>5, <1>0, ErrorsStay DEF FunDeclaration, VarDeclaration, GlobalDeclaration, Parameter,
     ParseVariable
<1>6. CASE Names \/ Initializer \/ Define \/ Function \/ ParameterList
  BY <1>6, <1>0, ErrorsStay DEF Names, Initializer, Define, Function, ParameterList
<1>7. CASE EndFunction
  <2>1. Continue(<<>>) /\ \E f : Stay(f)
    BY <1>7, Zenon DEF EndFunction
  <2> QED  BY <2>1, <1>0, ErrorsStay
<1>8. CASE ParsePrecedence \/ Operators \/ Assign
  BY <1>8, <1>0, ErrorsStay DEF ParsePrecedence, Operators, Assign
<1>9. CASE NumberOrString
  BY <1>9, <1>0, ErrorsStay DEF NumberOrString
<1>10. CASE NamedVariable
  BY <1>10, <1>0, ErrorsStay DEF NamedVariable
<1>11. CASE Dot
  BY <1>11, <1>0, ErrorsStay DEF Dot
<1>12. CASE And \/ Or \/ Patch \/ Items
  BY <1>12, <1>0, ErrorsStay DEF And, Or, Patch, Items
<1>13. CASE Arguments \/ Elements \/ Values
  BY <1>13, <1>0, ErrorsStay DEF Arguments, Elements, Values, Item
<1>14. CASE EmitBytes \/ ConsumeToken
  BY <1>14, <1>0, ErrorsStay DEF EmitBytes, ConsumeToken
<1>15. CASE StackOverflow \/ UNCHANGED vars
  BY <1>15 DEF StackOverflow, errors, vars
<1> QED
  BY <1>1, <1>2, <1>3, <1>4, <1>5, <1>6, <1>7, <1>8, <1>9, <1>10, <1>11, <1>12, <1>13, <1>14, <1>15
     DEF Next

LEMMA EndFunctionNested ==
  ASSUME ShapeInv, EndFunction PROVE Len(compilers) > 1
<1>1. pos > 0 /\ status = "compiling" /\ Task.do = "endFunction" /\ CompilersOK(compilers, functions)
  BY AtTask, Zenon DEF EndFunction
<1>2. PICK m \in Mark, n \in Mark : m.lvl = Len(compilers) /\ Shape(Task, m, n)
  BY <1>1, ShapeNow
<1>3. n.lvl = m.lvl - 1 /\ n.lvl > 0
  BY <1>1, <1>2, EndFunctionShape
<1>4. m.lvl \in Nat /\ n.lvl \in Nat
  BY DEF Mark
<1> QED  BY <1>2, <1>3, <1>4, SMTT(30)

LEMMA SmoothSteps ==
  ASSUME Smooth, Careful, Next, ~Start, ~StackOverflow PROVE DeepInv' /\ PosInv'
<1>1. CASE Program \/ EndDeclaration \/ DeclareLoop \/ Statement \/ EndScope
  BY <1>1, DeepProgram, DeepEndDeclaration, DeepDeclareLoop, DeepStatement, DeepEndScope,
     PosProgram, PosEndDeclaration, PosDeclareLoop, PosStatement, PosEndScope
<1>2. CASE Declaration
  BY <1>2, DeepDeclaration, PosDeclaration, GlobalOutside
<1>3. CASE EndExpression \/ IfThen \/ IfElse \/ ReturnStatement
  BY <1>3, DeepEndExpression, DeepIfThen, DeepIfElse, DeepReturnStatement, PosNoCalls, PosJumps,
     PosIfElse, PosReturnStatement
<1>4. CASE FunDeclaration \/ VarDeclaration \/ GlobalDeclaration \/ Parameter \/ Names
  BY <1>4, DeepFunDeclaration, DeepVarDeclaration, DeepGlobalDeclaration, DeepParameter, DeepNames,
     PosFunDeclaration, PosVariables, PosNames
<1>5. CASE Initializer \/ Define \/ Function \/ ParameterList
  BY <1>5, DeepInitializer, DeepDefine, DeepFunction, DeepParameterList, PosInitializer, PosDefine,
     PosFunction, PosParameterList
<1>6. CASE EndFunction
  BY <1>6, DeepEndFunction, PosEndFunction, EndFunctionNested DEF Careful
<1>7. CASE ParsePrecedence \/ Operators \/ NumberOrString \/ NamedVariable \/ Assign \/ Dot
  BY <1>7, DeepParsePrecedence, DeepOperators, DeepNumberOrString, DeepNamedVariable, DeepAssign,
     DeepDot, PosParsePrecedence, PosOperators, PosNoCalls, PosNamedVariable, PosAssign, PosDot
<1>8. CASE And \/ Or \/ Patch \/ Items \/ Values \/ EmitBytes \/ ConsumeToken
  BY <1>8, DeepAnd, DeepOr, DeepPatch, DeepItems, DeepValues, DeepEmitBytes, DeepConsumeToken,
     PosJumps, PosNoCalls, PosItems, PosValues
<1>9. CASE Arguments
  <2>1. Task.count < Byte
    BY <1>9, CountFits DEF Arguments, Item
  <2> QED  BY <1>9, <2>1, DeepArguments, PosArguments
<1>10. CASE Elements
  <2>1. Task.count < Byte
    BY <1>10, CountFits DEF Elements, Item
  <2> QED  BY <1>10, <2>1, DeepElements, PosElements
<1> QED  BY <1>1, <1>2, <1>3, <1>4, <1>5, <1>6, <1>7, <1>8, <1>9, <1>10 DEF Next

(* Without errors now there have been none.                                *)
LEMMA CleanBefore ==
  ASSUME [Next]_vars, Clean' PROVE Clean /\ ~hadError'
<1>1. input' = input /\ (hadError => hadError')
  BY Remembers
<1> QED  BY <1>1 DEF Clean, ScopedGlobal, LongList

LEMMA DepthNext ==
  ASSUME ShapeInv, DeepInv, PosInv, [Next]_vars PROVE DeepInv' /\ PosInv'
<1>1. CASE ~Clean'
  BY <1>1 DEF DeepInv, PosInv
<1>2. CASE UNCHANGED vars
  BY <1>2 DEF vars, errors, DeepInv, PosInv, Clean, ScopedGlobal, LongList, Around, Comp, Chunk
<1>3. CASE StackOverflow
  BY <1>3 DEF StackOverflow, DeepInv, PosInv
<1>4. CASE Start
  BY <1>4, DeepStart, PosStart
<1>5. CASE Clean' /\ Next /\ ~Start /\ ~StackOverflow
  <2>1. Clean /\ ~hadError'
    BY <1>5, CleanBefore
  <2>2. Smooth /\ Careful
    BY <2>1 DEF Smooth, Careful
  <2> QED  BY <1>5, <2>2, SmoothSteps
<1> QED  BY <1>1, <1>2, <1>3, <1>4, <1>5

LEMMA DepthInit ==
  ASSUME Init PROVE DeepInv /\ PosInv
  BY DEF Init, DeepInv, PosInv

LEMMA DepthLocals ==
  ASSUME ShapeInv, DeepInv PROVE LocalsOnStack
<1>1. SUFFICES ASSUME At("declaration"), Clean
               PROVE  Depths(Chunk)[Len(Chunk.code) + 1] = Len(Locals)
  BY DEF LocalsOnStack
<1>2. CompilersOK(compilers, functions) /\ Chunk \in Fun
  BY CompOK DEF ShapeInv
<1>3. Task.do = "declaration" /\ \E p \in Point : Now(p)
  BY <1>1, DeepAt
<1>4. PICK p \in Point : Now(p)
  BY <1>3
<1>5. Pre(Task, p) /\ Stands(Here, p) /\ CodeOK(Chunk, p.D, p.pend, p.rest = <<>>)
  BY <1>4, NowIs
<1>6. InList(p)
  <2>1. Task.do \in Listed \cup Single
    BY <1>3 DEF Listed
  <2> QED  BY <2>1, <1>5, PreIs
<1>7. p.D = p.L /\ Len(Locals) = p.L
  BY <1>2, <1>5, <1>6, ListIs
<1> DEFINE n == Len(Chunk.code) + 1
           script == (p.rest = <<>>)
<1> HIDE DEF n, script
<1>8. PICK d : Walk(Chunk, d, p.pend, script) /\ d[n] = p.D
  BY <1>5 DEF CodeOK, n, script
<1>9. Depths(Chunk) = d
  BY <1>2, <1>8, DepthsWalk
<1> QED  BY <1>7, <1>8, <1>9 DEF n

(* Wherever a declaration begins, the locals are all there is on the       *)
(* stack: what the compiler takes a local's slot to be is where it is.     *)
THEOREM CompilerLocalsOnStack == Spec => []LocalsOnStack
<1> DEFINE Inv == ShapeInv /\ DeepInv /\ PosInv
<1>1. Init => Inv
  BY ShapeInit, DepthInit
<1>2. Inv /\ [Next]_vars => Inv'
  BY ShapeNext, DepthNext
<1>3. Inv => LocalsOnStack
  BY DepthLocals
<1> QED  BY <1>1, <1>2, <1>3, PTL DEF Spec

-----------------------------------------------------------------------------
(* Functions that are complete.                                            *)

Ended(fun, script) ==
  /\ \E D : CodeOK(fun, D, {}, script)
  /\ fun.code # <<>> /\ fun.code[Len(fun.code)].op = "RET"
  /\ \A j \in 1..Len(fun.code) :
       fun.code[j].op \in JumpOps => j + 1 + fun.code[j].a <= Len(fun.code)

(* The return that is emitted last, which no jump goes beyond.             *)
LEMMA ReturnEnds ==
  ASSUME NEW f \in Fun, NEW D, NEW script, CodeOK(f, D, {}, script), script => D = 1
  PROVE  Ended(WithCode(f, f.code \o EmitReturn), script)
<1> DEFINE n == Len(f.code)
           c == EmitReturn
           nil == I("NIL")
           ret == I("RET")
           code == f.code \o c
           g == WithCode(f, code)
           e == [k \in 1..3 |-> IF k = 2 THEN D + 1 ELSE D]
<1>1. D \in Int /\ D >= 1
  BY NeverEmpty
<1>2. /\ nil \in Instr /\ nil.op = "NIL" /\ Needs(nil) = 0 /\ Effect(nil) = 1
      /\ ret \in Instr /\ ret.op = "RET" /\ Needs(ret) = 1 /\ Effect(ret) = -1
  BY SimpleInstr
<1>3. c = <<nil, ret>>
  BY DEF EmitReturn
<1> HIDE DEF nil, ret, c
<1>4. c \in Seq(Instr) /\ Len(c) = 2 /\ c[1] = nil /\ c[2] = ret
  BY <1>2, <1>3
<1>5. e \in [1..3 -> Int] /\ e[1] = D /\ e[2] = D + 1 /\ e[3] = D
  BY <1>1
<1> HIDE DEF e
<1>6. Steps(f, c, e, script)
  <2>1. c[1].op \notin JumpOps /\ Fits(f, c[1], e[1], script) /\ e[2] = e[1] + Effect(c[1])
    BY <1>1, <1>2, <1>4, <1>5 DEF JumpOps, NameOps, Fits
  <2>2. c[2].op \notin JumpOps /\ Fits(f, c[2], e[2], script) /\ e[3] = e[2] + Effect(c[2])
    BY <1>1, <1>2, <1>4, <1>5 DEF JumpOps, NameOps, Fits
  <2>3. ASSUME NEW k \in 1..Len(c)
        PROVE  c[k].op \notin JumpOps /\ Fits(f, c[k], e[k], script) /\ e[k + 1] = e[k] + Effect(c[k])
    <3>1. CASE k = 1
      BY <3>1, <2>1
    <3>2. CASE k = 2
      BY <3>2, <2>2
    <3> QED  BY <1>4, <3>1, <3>2
  <2> QED  BY <2>3 DEF Steps
<1>7. CodeOK(g, D, {}, script)
  <2>1. Len(c) + 1 = 3 /\ e \in [1..Len(c)+1 -> Int]
    BY <1>4, <1>5
  <2>2. CodeOK(f, e[1], {}, script)
    BY <1>5
  <2>3. CodeOK(WithCode(f, f.code \o c), e[Len(c) + 1], {}, script)
    BY <1>4, <1>6, <2>1, <2>2, Straight
  <2> QED  BY <2>1, <2>3, <1>5
<1>8. f.code \in Seq(Instr) /\ n \in Nat
  BY FunIs
<1>9. /\ code \in Seq(Instr) /\ Len(code) = n + 2 /\ code[n + 1] = nil /\ code[n + 2] = ret
      /\ \A j \in 1..n : code[j] = f.code[j]
  <2>1. /\ code \in Seq(Instr) /\ Len(code) = n + Len(c)
        /\ \A j \in 1..n : code[j] = f.code[j]
        /\ \A k \in 1..Len(c) : code[n + k] = c[k]
    <3>1. c \in Seq(Instr)
      BY <1>4
    <3> QED  BY ONLY <1>8, <3>1, ConcatProperties
  <2> HIDE DEF code, n
  <2> QED  BY <2>1, <1>4, <1>8
<1>10. g.code = code
  BY <1>9, WithCodeIs
<1>11. PICK d : Walk(f, d, {}, script)
  BY DEF CodeOK
<1>12. ASSUME NEW j \in 1..n, f.code[j].op \in JumpOps PROVE j + f.code[j].a <= n
  <2> DEFINE S == {}
             w == <<j, d[j]>>
  <2>1. w \notin S /\ Walk(f, d, S, script) /\ j \in 1..Len(f.code)
    BY <1>11
  <2> HIDE DEF S
  <2>2. IF w \in S THEN f.code[j].a = 0
        ELSE j + f.code[j].a <= Len(f.code) /\ d[j + 1 + f.code[j].a] = d[j]
    BY <2>1, <1>12, WalkAt
  <2> QED  BY <2>1, <2>2
<1>13. \A j \in 1..n : f.code[j].a \in Nat
  BY <1>8, InstrIs
<1> HIDE DEF code, n, g
<1>14. ASSUME NEW j \in 1..Len(code), code[j].op \in JumpOps
       PROVE  j + 1 + code[j].a <= Len(code)
  <2>1. nil.op \notin JumpOps /\ ret.op \notin JumpOps
    BY <1>2 DEF JumpOps
  <2>2. j \in 1..n
    BY <1>8, <1>9, <1>14, <2>1
  <2>3. code[j] = f.code[j] /\ f.code[j].a \in Nat
    BY <2>2, <1>9, <1>13
  <2>4. j + f.code[j].a <= n
    BY <2>2, <2>3, <1>12, <1>14
  <2> QED  BY <2>2, <2>3, <2>4, <1>8, <1>9
<1>15. code # <<>> /\ code[Len(code)].op = "RET"
  BY <1>2, <1>8, <1>9
<1>16. Ended(g, script)
  BY <1>7, <1>10, <1>14, <1>15 DEF Ended
<1> QED  BY <1>16 DEF g, code, c

(* Every function that is not being compiled any more is complete.         *)
Working(cs, f) == \E i \in DOMAIN cs : cs[i].fn = f
Finished(cs, fs, done) ==
  \A f \in DOMAIN fs : done \/ ~Working(cs, f) => Ended(fs[f], f = 1)

FinInv == Clean => Finished(compilers, functions, status = "done")

-----------------------------------------------------------------------------
(* Most steps only change the innermost compiler and the code of its       *)
(* function.                                                               *)

OneChunk == functions' = functions \/ \E x : SetChunk(x)
OneCompiler == compilers' = compilers \/ \E c : SetCompiler(c) /\ c.fn = Comp.fn
Confined == OneChunk /\ OneCompiler /\ status' # "done"

LEMMA NotDone ==
  ASSUME status = "compiling"
  PROVE  /\ \A f : Stay(f) \/ Advance(f) \/ AdvanceAfter(f) => status' # "done"
         /\ \A types : Match(types) \/ Consume(types) => status' # "done"
         /\ \A b : Report(b) => status' # "done"
<1>1. \A b : Report(b) => status' # "done"
  BY DEF Report
<1>2. \A f : Stay(f) \/ Advance(f) \/ AdvanceAfter(f) => status' # "done"
  BY <1>1 DEF Stay, Advance, AdvanceAfter
<1> QED  BY <1>1, <1>2 DEF Match, Consume

LEMMA OneOf ==
  ASSUME CompilersOK(compilers, functions)
  PROVE  /\ UNCHANGED functions => OneChunk
         /\ \A x : SetChunk(x) => OneChunk
         /\ \A code : Emit(code) => OneChunk
         /\ UNCHANGED compilers => OneCompiler
         /\ \A l : SetCompiler([Comp EXCEPT !.locals = l]) => OneCompiler
         /\ \A s : SetCompiler([Comp EXCEPT !.scope = s]) => OneCompiler
         /\ \A s, l : SetCompiler([Comp EXCEPT !.scope = s, !.locals = l]) => OneCompiler
<1>1. Comp \in Compiling
  BY CompOK
<1>2. /\ \A l : [Comp EXCEPT !.locals = l].fn = Comp.fn
      /\ \A s : [Comp EXCEPT !.scope = s].fn = Comp.fn
      /\ \A s, l : [Comp EXCEPT !.scope = s, !.locals = l].fn = Comp.fn
  BY <1>1 DEF Compiling
<1>3. \A c : SetCompiler(c) /\ c.fn = Comp.fn => OneCompiler
  BY DEF OneCompiler
<1>4. \A x : SetChunk(x) => OneChunk
  BY DEF OneChunk
<1> QED  BY <1>2, <1>3, <1>4 DEF Emit, OneChunk, OneCompiler

(* The steps of which that is so.                                          *)
Apart == Start \/ Program \/ Function \/ EndFunction \/ StackOverflow

LEMMA ConfinedSteps ==
  ASSUME CompilersOK(compilers, functions), Next, ~Apart PROVE Confined
<1>0. \A name : At(name) => status = "compiling"
  BY DEF At
<1>1. CASE EndDeclaration \/ DeclareLoop
  BY <1>1, <1>0, OneOf, NotDone DEF EndDeclaration, DeclareLoop, Confined
<1>2. CASE Declaration
  BY <1>2, <1>0, OneOf, NotDone DEF Declaration, Keyword, Confined
<1>3. CASE Statement
  BY <1>3, <1>0, OneOf, NotDone DEF Statement, Keyword, Block, InScope, Confined
<1>4. CASE EndExpression \/ IfThen \/ ReturnStatement
  BY <1>4, <1>0, OneOf, NotDone DEF EndExpression, IfThen, ReturnStatement, Confined
<1>5. CASE EndScope
  <2>1. /\ At("endScope") /\ Stay(FALSE) /\ \E code : Emit(code)
        /\ \E s, l : SetCompiler([Comp EXCEPT !.scope = s, !.locals = l])
    BY <1>5, Zenon DEF EndScope
  <2> QED  BY <2>1, <1>0, OneOf, NotDone DEF Confined
<1>6. CASE IfElse
  <2>1. /\ At("else") /\ UNCHANGED compilers /\ \E x : SetChunk(x)
        /\ \E f : Stay(f) \/ AdvanceAfter(f)
    BY <1>6, Zenon DEF IfElse
  <2> QED  BY <2>1, <1>0, OneOf, NotDone DEF Confined
<1>7. CASE FunDeclaration \/ VarDeclaration \/ GlobalDeclaration \/ Parameter
  <2>1. (\E name : At(name)) /\ \E l, chunk, failed : ParseVariable(l, chunk, failed)
    BY <1>7, Zenon DEF FunDeclaration, VarDeclaration, GlobalDeclaration, Parameter
  <2> QED  BY <2>1, <1>0, OneOf, NotDone DEF ParseVariable, Confined
<1>8. CASE Names \/ Initializer \/ Define \/ ParameterList
  BY <1>8, <1>0, OneOf, NotDone DEF Names, Initializer, Define, ParameterList, Confined
<1>9. CASE ParsePrecedence \/ Operators
  BY <1>9, <1>0, OneOf, NotDone DEF ParsePrecedence, Operators, Confined
<1>10. CASE NumberOrString
  <2>1. /\ At("constant") /\ UNCHANGED compilers /\ (\E x : SetChunk(x)) /\ \E f : Stay(f)
    BY <1>10, Zenon DEF NumberOrString
  <2> QED  BY <2>1, <1>0, OneOf, NotDone DEF Confined
<1>11. CASE NamedVariable
  <2>1. /\ At("variable") /\ UNCHANGED compilers /\ (UNCHANGED functions \/ \E x : SetChunk(x))
        /\ \E f : Stay(f)
    BY <1>11, Zenon DEF NamedVariable
  <2> QED  BY <2>1, <1>0, OneOf, NotDone DEF Confined
<1>12. CASE Dot
  <2>1. /\ At("dot") /\ UNCHANGED compilers /\ (\E x : SetChunk(x))
        /\ \E f : Stay(f) \/ Advance(f)
    BY <1>12, Zenon DEF Dot
  <2> QED  BY <2>1, <1>0, OneOf, NotDone DEF Confined
<1>13. CASE Assign \/ And \/ Or \/ Patch \/ Items
  BY <1>13, <1>0, OneOf, NotDone DEF Assign, And, Or, Patch, Items, Confined
<1>14. CASE Arguments \/ Elements \/ Values
  BY <1>14, <1>0, OneOf, NotDone DEF Arguments, Elements, Values, Item, Confined
<1>15. CASE EmitBytes \/ ConsumeToken
  BY <1>15, <1>0, OneOf, NotDone DEF EmitBytes, ConsumeToken, Confined
<1> QED
  BY <1>1, <1>2, <1>3, <1>4, <1>5, <1>6, <1>7, <1>8, <1>9, <1>10, <1>11, <1>12, <1>13, <1>14, <1>15
     DEF Next, Apart

LEMMA FinConfined ==
  ASSUME ShapeInv, FinInv, Clean, Confined PROVE FinInv'
<1>1. /\ CompilersOK(compilers, functions) /\ compilers \in Seq(Compiling) /\ compilers # <<>>
      /\ Comp = compilers[1] /\ functions \in Seq(Fun)
  BY CompOK DEF ShapeInv, CompilersOK, Compile
<1>2. /\ DOMAIN functions' = DOMAIN functions
      /\ \A f \in DOMAIN functions : f # Comp.fn => functions'[f] = functions[f]
  BY <1>1 DEF Confined, OneChunk, SetChunk
<1>3. \A f : Working(compilers, f) => Working(compilers', f)
  <2>1. CASE compilers' = compilers
    BY <2>1
  <2>2. CASE \E c : SetCompiler(c) /\ c.fn = Comp.fn
    <3>1. PICK c : compilers' = <<c>> \o Tail(compilers) /\ c.fn = Comp.fn
      BY <2>2 DEF SetCompiler
    <3>2. /\ DOMAIN compilers' = DOMAIN compilers /\ compilers'[1] = c
          /\ \A i \in DOMAIN compilers : i # 1 => compilers'[i] = compilers[i]
      BY <1>1, <3>1
    <3> QED  BY <1>1, <3>1, <3>2 DEF Working
  <2> QED  BY <2>1, <2>2 DEF Confined, OneCompiler
<1>4. Working(compilers, Comp.fn)
  BY <1>1 DEF Working
<1>5. Finished(compilers, functions, status = "done")
  BY DEF FinInv
<1>6. ASSUME NEW f \in DOMAIN functions', ~Working(compilers', f) PROVE Ended(functions'[f], f = 1)
  <2>1. f \in DOMAIN functions /\ functions'[f] = functions[f]
    BY <1>2, <1>3, <1>4, <1>6
  <2> DEFINE b == (f = 1)
  <2> HIDE DEF b
  <2>2. Ended(functions[f], b)
    BY <2>1, <1>3, <1>5, <1>6 DEF Finished, b
  <2> QED  BY <2>1, <2>2 DEF b
<1> QED  BY <1>6 DEF FinInv, Finished, Confined

-----------------------------------------------------------------------------
(* The steps that begin or complete a function.                            *)

LEMMA FinFunction ==
  ASSUME ShapeInv, FinInv, Clean, Function PROVE FinInv'
<1> DEFINE n == Len(functions)
           c == NewCompiler(n + 1, "function", 1)
<1>1. /\ CompilersOK(compilers, functions) /\ compilers \in Seq(Compiling)
      /\ functions \in Seq(Fun) /\ n \in Nat /\ DOMAIN functions = 1..n
  BY DEF ShapeInv, CompilersOK, Compile
<1>2. /\ compilers' = <<c>> \o compilers /\ functions' = Append(functions, NewFunction)
      /\ status = "compiling" /\ status' # "done"
  BY NotDone DEF Function, At
<1>3. c.fn = n + 1
  BY DEF NewCompiler
<1> HIDE DEF c
<1>4. /\ DOMAIN compilers' = 1..Len(compilers)+1 /\ compilers'[1] = c
      /\ \A i \in DOMAIN compilers : /\ i + 1 \in DOMAIN compilers'
                                     /\ compilers'[i + 1] = compilers[i]
      /\ 1 \in DOMAIN compilers'
  BY <1>1, <1>2
<1>5. DOMAIN functions' = 1..n+1 /\ \A f \in 1..n : functions'[f] = functions[f]
  <2> DEFINE new == NewFunction
  <2>1. new \in Fun
    BY NewOnes
  <2> HIDE DEF new
  <2> QED  BY <1>1, <1>2, <2>1 DEF new
<1>6. \A f : Working(compilers, f) => Working(compilers', f)
  BY <1>4 DEF Working
<1>7. Working(compilers', n + 1)
  BY <1>3, <1>4 DEF Working
<1>8. ASSUME NEW f \in DOMAIN functions', ~Working(compilers', f) PROVE Ended(functions'[f], f = 1)
  <2> HIDE DEF n
  <2>1. f \in 1..n
    BY <1>1, <1>5, <1>7, <1>8
  <2>2. f \in DOMAIN functions /\ functions'[f] = functions[f] /\ ~Working(compilers, f)
    BY <2>1, <1>1, <1>5, <1>6, <1>8
  <2> DEFINE b == (f = 1)
  <2> HIDE DEF b
  <2>3. Ended(functions[f], b)
    BY <2>2 DEF FinInv, Finished, b
  <2> QED  BY <2>2, <2>3 DEF b
<1> QED  BY <1>2, <1>8 DEF FinInv, Finished

LEMMA FinEndFunction ==
  ASSUME Smooth, FinInv, EndFunction PROVE FinInv'
<1> DEFINE g == compilers[1].fn
           h == compilers[2].fn
           N == Len(compilers)
<1>1. CompilersOK(compilers, functions) /\ pos > 0 /\ status = "compiling" /\ Task.do = "endFunction"
  BY AtTask DEF EndFunction, Smooth
<1>2. /\ tasks \in Seq(ACall) /\ tasks # <<>> /\ Task = tasks[1]
      /\ \E p \in Point : p.rest = Around /\ Stands(Here, p) /\ Run(tasks, p)
  BY <1>1, DeepNow DEF Smooth
<1>3. PICK p \in Point : p.rest = Around /\ Stands(Here, p) /\ Run(tasks, p)
  BY <1>2
<1>4. PICK q \in Point : Deep(tasks[1], p, q)
  BY <1>2, <1>3, RunFirst
<1>5. p.rest # <<>> /\ p.pend = {}
  BY <1>1, <1>2, <1>4 DEF Deep, Normal
<1>6. N > 1 /\ N \in Nat /\ compilers \in Seq(Compiling) /\ Enclosing(compilers)
  <2>1. N > 1
    BY EndFunctionNested DEF Smooth
  <2> QED  BY <2>1, <1>1 DEF CompilersOK, Compile
<1>7. /\ g \in 1..Len(functions) /\ h \in 1..Len(functions) /\ h # g
      /\ functions' \in Seq(Fun) /\ Len(functions') = Len(functions)
      /\ functions'[g] = WithCode(functions[g], functions[g].code \o EmitReturn)
      /\ \A f \in 1..Len(functions) : f # g /\ f # h => functions'[f] = functions[f]
      /\ compilers' = Tail(compilers)
  BY <1>1, <1>6, EndedFunctions DEF Smooth
<1>8. /\ \A i \in 2..N : i - 1 \in DOMAIN compilers' /\ compilers'[i - 1] = compilers[i]
      /\ DOMAIN compilers = 1..N
  <2> DEFINE cs == Tail(compilers)
  <2>1. DOMAIN cs = 1..N-1 /\ \A i \in 1..N-1 : cs[i] = compilers[i + 1]
    BY <1>6, TailIs
  <2>2. compilers' = cs /\ DOMAIN compilers = 1..N
    BY <1>6, <1>7
  <2> HIDE DEF cs, N
  <2>3. ASSUME NEW i \in 2..N PROVE i - 1 \in 1..N-1 /\ (i - 1) + 1 = i
    BY <1>6
  <2> QED  BY <2>1, <2>2, <2>3
<1>9. \A f : Working(compilers, f) /\ f # g => Working(compilers', f)
  BY <1>6, <1>8 DEF Working
<1>10. Working(compilers', h)
  BY <1>6, <1>8 DEF Working
<1>11. g # 1
  <2>1. compilers[N].fn < compilers[1].fn /\ compilers[N].fn = 1
    BY <1>6, <1>8 DEF Enclosing
  <2> QED  BY <2>1
<1>12. Comp = compilers[1] /\ Chunk = functions[g] /\ functions[g] \in Fun
  BY <1>1, CompOK DEF Chunk
<1>13. Ended(functions'[g], g = 1)
  <2> DEFINE script == (p.rest = <<>>)
             b == (g = 1)
             S == {}
             fun == functions[g]
  <2>1. CodeOK(fun, p.D, S, script)
    <3>1. Here = [comp |-> Comp, fun |-> fun]
      BY <1>12 DEF Here
    <3> QED  BY <3>1, <1>3, <1>5, StandsIs
  <2>2. ~script /\ ~b /\ fun \in Fun
    BY <1>5, <1>11, <1>12
  <2>3. script = b
    BY <2>2
  <2> HIDE DEF script, b, fun
  <2>4. Ended(WithCode(fun, fun.code \o EmitReturn), script)
    BY <2>1, <2>2, ReturnEnds
  <2> QED  BY <2>3, <2>4, <1>7 DEF b, fun
<1> HIDE DEF g, h, N
<1>14. ASSUME NEW f \in DOMAIN functions', ~Working(compilers', f) PROVE Ended(functions'[f], f = 1)
  <2>1. DOMAIN functions' = 1..Len(functions) /\ DOMAIN functions = 1..Len(functions)
    BY <1>1, <1>7 DEF CompilersOK
  <2>2. CASE f = g
    BY <2>2, <1>13
  <2>3. CASE f # g
    <3>1. f # h /\ ~Working(compilers, f) /\ f \in DOMAIN functions /\ functions'[f] = functions[f]
      BY <2>1, <2>3, <1>7, <1>9, <1>10, <1>14
    <3> DEFINE b == (f = 1)
    <3> HIDE DEF b
    <3>2. Ended(functions[f], b)
      BY <3>1 DEF FinInv, Finished, b, Smooth
    <3> QED  BY <3>1, <3>2 DEF b
  <2> QED  BY <2>2, <2>3
<1>15. status' # "done"
  <2>1. \E f : Stay(f)
    BY Zenon DEF EndFunction
  <2> QED  BY <2>1, <1>1, NotDone
<1> QED  BY <1>14, <1>15, SMTT(30) DEF FinInv, Finished

LEMMA FinProgram ==
  ASSUME Smooth, FinInv, Program PROVE FinInv'
<1>1. CompilersOK(compilers, functions) /\ pos > 0 /\ status = "compiling" /\ Task.do = "program"
  BY AtTask DEF Program, Smooth
<1>2. CASE ~Is({"EOF"})
  <2>1. UNCHANGED compilers /\ UNCHANGED functions /\ Stay(FALSE)
    BY <1>2 DEF Program
  <2>2. Confined
    BY <1>1, <2>1, OneOf, NotDone DEF Confined
  <2> QED  BY <2>2, FinConfined DEF Smooth
<1>3. CASE Is({"EOF"})
  <2>1. UNCHANGED compilers /\ Emit(EmitReturn)
    BY <1>3 DEF Program
  <2>2. /\ tasks \in Seq(ACall) /\ tasks # <<>> /\ Task = tasks[1]
        /\ \E p \in Point : p.rest = Around /\ Stands(Here, p) /\ Run(tasks, p)
    BY <1>1, DeepNow DEF Smooth
  <2>3. PICK p \in Point : p.rest = Around /\ Stands(Here, p) /\ Run(tasks, p)
    BY <2>2
  <2>4. PICK q \in Point : Deep(tasks[1], p, q)
    BY <2>2, <2>3, RunFirst
  <2>5. p.rest = <<>> /\ p.bases = <<>> /\ p.pend = {} /\ InList(p)
    BY <1>1, <2>2, <2>4 DEF Deep, Normal
  <2> DEFINE N == Len(compilers)
             fun == Chunk
             S == {}
             new == WithCode(fun, fun.code \o EmitReturn)
  <2>6. N = 1
    <3> DEFINE es == Enclosures(compilers, functions)
    <3>1. es = <<>>
      BY <2>3, <2>5 DEF Around, Enclosures
    <3>2. Len(es) = N - 1 /\ N \in Nat
      BY <1>1, EnclosuresAre
    <3>3. Len(es) = 0
      BY <3>1
    <3> HIDE DEF es, N
    <3> QED  BY <3>2, <3>3
  <2>7. /\ compilers \in Seq(Compiling) /\ DOMAIN compilers = 1..N /\ Comp = compilers[1]
        /\ Comp.fn = 1 /\ 1 \in DOMAIN functions /\ functions \in Seq(Fun) /\ fun \in Fun
        /\ fun = functions[1]
    <3>1. compilers[N].fn = 1 /\ compilers \in Seq(Compiling)
      BY <1>1 DEF CompilersOK, Enclosing, Compile
    <3>2. Comp = compilers[1] /\ Comp.fn \in 1..Len(functions) /\ Chunk \in Fun
      BY <1>1, CompOK
    <3>3. functions \in Seq(Fun)
      BY <1>1 DEF CompilersOK
    <3> QED  BY <3>1, <3>2, <3>3, <2>6 DEF Chunk
  <2>8. p.D = 1
    <3>1. p.D = p.L /\ Scope = 0
      BY <1>1, <2>3, <2>5, ListIs
    <3>2. LocalsOK(Comp, p)
      BY <2>3, StandsIs DEF Here
    <3>3. p.L = 1
      BY <3>1, <3>2 DEF LocalsOK, Scope
    <3> QED  BY <3>1, <3>3
  <2>9. functions' = [functions EXCEPT ![1] = new]
    <3>1. functions' = [functions EXCEPT ![Comp.fn] = [Chunk EXCEPT !.code = @ \o EmitReturn]]
      BY <2>1 DEF Emit, SetChunk
    <3>2. [Chunk EXCEPT !.code = @ \o EmitReturn] = new
      BY DEF WithCode
    <3> QED  BY <3>1, <3>2, <2>7
  <2>10. Ended(new, TRUE)
    <3> DEFINE script == (p.rest = <<>>)
    <3>1. CodeOK(fun, p.D, S, script)
      BY <2>3, <2>5, StandsIs DEF Here
    <3>2. script = TRUE
      BY <2>5
    <3> HIDE DEF script, fun
    <3>3. Ended(WithCode(fun, fun.code \o EmitReturn), script)
      BY <2>7, <2>8, <3>1, ReturnEnds
    <3> QED  BY <3>2, <3>3 DEF new
  <2> HIDE DEF new, fun
  <2>11. /\ DOMAIN functions' = DOMAIN functions /\ functions'[1] = new
         /\ \A f \in DOMAIN functions : f # 1 => functions'[f] = functions[f]
    BY <2>7, <2>9
  <2>12. ASSUME NEW f \in DOMAIN functions' PROVE Ended(functions'[f], f = 1)
    <3> DEFINE b == (f = 1)
    <3>1. CASE f = 1
      <4>1. b = TRUE
        BY <3>1
      <4> HIDE DEF b
      <4>2. Ended(functions'[f], b)
        BY <4>1, <3>1, <2>10, <2>11
      <4> QED  BY <4>2 DEF b
    <3>2. CASE f # 1
      <4>1. ~Working(compilers, f)
        BY <2>6, <2>7, <3>2 DEF Working
      <4>2. f \in DOMAIN functions /\ functions'[f] = functions[f]
        BY <2>11, <3>2
      <4> HIDE DEF b
      <4>3. Ended(functions[f], b)
        BY <4>1, <4>2 DEF FinInv, Finished, b, Smooth
      <4> QED  BY <4>2, <4>3 DEF b
    <3> QED  BY <3>1, <3>2
  <2> QED  BY <2>12 DEF FinInv, Finished
<1> QED  BY <1>2, <1>3

LEMMA FinNext ==
  ASSUME ShapeInv, DeepInv, FinInv, [Next]_vars PROVE FinInv'
<1>1. CASE ~Clean'
  BY <1>1 DEF FinInv
<1>2. CASE UNCHANGED vars
  BY <1>2 DEF vars, errors, FinInv, Clean, ScopedGlobal, LongList
<1>3. CASE Clean' /\ Next
  <2>1. Clean /\ ~hadError'
    BY <1>3, CleanBefore
  <2>2. CompilersOK(compilers, functions)
    BY DEF ShapeInv
  <2>3. Smooth
    BY <2>1 DEF Smooth
  <2>4. CASE Start
    <3>1. Confined
      BY <2>2, <2>4, OneOf, NotDone DEF Start, At, Confined
    <3> QED  BY <2>1, <3>1, FinConfined
  <2>5. CASE StackOverflow
    <3>1. Confined
      BY <2>2, <2>5, OneOf DEF StackOverflow, Confined
    <3> QED  BY <2>1, <3>1, FinConfined
  <2>6. CASE Program
    BY <2>3, <2>6, FinProgram
  <2>7. CASE Function
    BY <2>1, <2>7, FinFunction
  <2>8. CASE EndFunction
    BY <2>3, <2>8, FinEndFunction
  <2>9. CASE ~Apart
    <3>1. Confined
      BY <1>3, <2>2, <2>9, ConfinedSteps
    <3> QED  BY <2>1, <3>1, FinConfined
  <2> QED  BY <2>4, <2>5, <2>6, <2>7, <2>8, <2>9 DEF Apart
<1> QED  BY <1>1, <1>2, <1>3

LEMMA FinInit ==
  ASSUME Init PROVE FinInv
<1> DEFINE c == NewCompiler(1, "script", 0)
<1>1. compilers = <<c>> /\ functions = <<NewFunction>> /\ status = "compiling"
  BY DEF Init
<1>2. c.fn = 1
  BY DEF NewCompiler
<1> HIDE DEF c
<1>3. 1 \in DOMAIN compilers /\ compilers[1] = c /\ DOMAIN functions = 1..1
  BY <1>1
<1>4. \A f \in DOMAIN functions : Working(compilers, f)
  BY <1>2, <1>3 DEF Working
<1> QED  BY <1>1, <1>4 DEF FinInv, Finished

-----------------------------------------------------------------------------
(* Complete functions are balanced.                                        *)

Targets(code, p) ==
  LET i == code[p] IN
  CASE i.op = "RET"  -> {}
    [] i.op = "JMP"  -> {p + 1 + i.a}
    [] i.op = "JMPF" -> {p + 1, p + 1 + i.a}
    [] OTHER         -> {p + 1}

LEMMA EndedIs ==
  ASSUME NEW fun \in Fun, NEW script, Ended(fun, script)
  PROVE  LET n == Len(fun.code)
             d == Depths(fun)
         IN  /\ n \in Nat /\ n >= 1 /\ fun.code \in Seq(Instr)
             /\ d \in [1..n+1 -> Int] /\ d[1] = fun.arity + 1
             /\ \A p \in 1..n : /\ Fits(fun, fun.code[p], d[p], script)
                                /\ \A q \in Targets(fun.code, p) :
                                     q \in 1..n /\ d[q] = d[p] + Effect(fun.code[p])
<1> DEFINE n == Len(fun.code)
           code == fun.code
           S == {}
<1>1. PICK D : CodeOK(fun, D, S, script)
  BY DEF Ended
<1>2. PICK d : Walk(fun, d, S, script)
  BY <1>1 DEF CodeOK
<1>3. \A x : x \notin S
  OBVIOUS
<1> HIDE DEF S
<1>4. Depths(fun) = d
  BY <1>2, DepthsWalk
<1>5. code \in Seq(Instr) /\ n \in Nat
  BY FunIs
<1>6. code # <<>> /\ code[n].op = "RET"
  BY DEF Ended
<1>7. n >= 1
  <2>1. n # 0
    BY <1>5, <1>6
  <2> HIDE DEF n
  <2> QED  BY <2>1, <1>5
<1>8. d \in [1..n+1 -> Int] /\ d[1] = fun.arity + 1
  BY <1>2 DEF Walk
<1>9. ASSUME NEW p \in 1..n
      PROVE  /\ Fits(fun, code[p], d[p], script)
             /\ \A q \in Targets(code, p) : q \in 1..n /\ d[q] = d[p] + Effect(code[p])
  <2> DEFINE i == code[p]
             w == <<p, d[p]>>
  <2>1. p \in 1..Len(fun.code)
    OBVIOUS
  <2>2. /\ d[p] \in Int /\ Fits(fun, i, d[p], script)
        /\ i.op # "JMP" => d[p + 1] = d[p] + Effect(i)
        /\ i.op \in JumpOps => IF w \in S THEN i.a = 0
                               ELSE p + i.a <= Len(fun.code) /\ d[p + 1 + i.a] = d[p]
    BY <2>1, <1>2, WalkAt
  <2>3. i.op \in JumpOps => p + 1 + i.a <= n /\ d[p + 1 + i.a] = d[p]
    BY <2>1, <2>2, <1>3 DEF Ended
  <2>4. i \in Instr /\ i.a \in Nat
    BY <1>5, InstrIs
  <2>5. i.op # "RET" => p # n
    BY <1>6
  <2>6. i.op \in JumpOps => Effect(i) = 0
    BY DEF Effect, JumpOps, BinaryOps
  <2>7. Targets(code, p) = CASE i.op = "RET"  -> {}
                             [] i.op = "JMP"  -> {p + 1 + i.a}
                             [] i.op = "JMPF" -> {p + 1, p + 1 + i.a}
                             [] OTHER         -> {p + 1}
    BY DEF Targets
  <2> HIDE DEF i, w, n, code
  <2>8. i.op \in JumpOps => p + 1 + i.a \in 1..n /\ d[p + 1 + i.a] = d[p] + Effect(i)
    BY <2>2, <2>3, <2>4, <2>6, <1>5
  <2>9. i.op \notin {"RET", "JMP"} => p + 1 \in 1..n /\ d[p + 1] = d[p] + Effect(i)
    BY <2>2, <2>5, <1>5
  <2>10. ASSUME NEW q \in Targets(code, p) PROVE q \in 1..n /\ d[q] = d[p] + Effect(i)
    <3>1. CASE i.op = "RET"
      BY <3>1, <2>7, <2>10
    <3>2. CASE i.op = "JMP"
      <4>1. q = p + 1 + i.a
        BY <3>2, <2>7, <2>10
      <4> QED  BY <4>1, <3>2, <2>8 DEF JumpOps
    <3>3. CASE i.op = "JMPF"
      <4>1. q = p + 1 + i.a \/ q = p + 1
        BY <3>3, <2>7, <2>10
      <4> QED  BY <4>1, <3>3, <2>8, <2>9 DEF JumpOps
    <3>4. CASE i.op \notin {"RET", "JMP", "JMPF"}
      <4>1. q = p + 1
        BY <3>4, <2>7, <2>10
      <4> QED  BY <4>1, <3>4, <2>9
    <3> QED  BY <3>1, <3>2, <3>3, <3>4
  <2> QED  BY <2>2, <2>10 DEF i
<1> QED  BY <1>4, <1>5, <1>7, <1>8, <1>9

(* What Bytecode says of instructions is what Compiler says.               *)
LEMMA SameInstr ==
  /\ Compiled!Instr = Instr
  /\ \A i : Compiled!Needs(i) = Needs(i) /\ Compiled!Effect(i) = Effect(i)
<1>1. /\ Compiled!UnaryOps = UnaryOps /\ Compiled!BinaryOps = BinaryOps
      /\ Compiled!Ops = Ops
  BY DEF Compiled!UnaryOps, UnaryOps, Compiled!BinaryOps, BinaryOps, Compiled!Ops, Ops
<1>2. Compiled!Instr = Instr
  BY <1>1 DEF Compiled!Instr, Instr
<1>3. \A i : Compiled!Needs(i) = Needs(i)
  BY <1>1 DEF Compiled!Needs, Needs
<1>4. \A i : Compiled!Effect(i) = Effect(i)
  BY <1>1 DEF Compiled!Effect, Effect
<1> QED  BY <1>2, <1>3, <1>4

(* The constants of a function are among those of Bytecode.                *)
LEMMA SameConsts ==
  ASSUME CompilersOK(compilers, functions), NEW f \in DOMAIN functions
  PROVE  LET c == functions[f].consts IN
         /\ c \in Seq(Compiled!Constant)
         /\ \A k \in DOMAIN c : c[k].type = "str" => c[k] \in Compiled!Strs
<1> DEFINE c == functions[f].consts
           F == DOMAIN functions
           nums == {x.v : x \in {y \in Constants : y.type = "num"}}
           strs == {x.v : x \in {y \in Constants : y.type = "str"}}
<1>1. /\ functions[f] \in Fun /\ c \in Seq(Kept) /\ ConstsOK(functions[f], functions)
      /\ F = 1..Len(functions)
  <2>1. functions \in Seq(Fun) /\ ConstsOK(functions[f], functions)
    BY DEF CompilersOK
  <2>2. functions[f] \in Fun /\ DOMAIN functions = 1..Len(functions)
    BY <2>1
  <2> QED  BY <2>1, <2>2 DEF Fun
<1>2. \A k \in DOMAIN c : c[k] \in Constants
  <2>1. \A k \in DOMAIN c : c[k] \in {functions[f].consts[i] : i \in DOMAIN functions[f].consts}
    OBVIOUS
  <2>2. functions[f] \in {functions[g] : g \in DOMAIN functions}
    OBVIOUS
  <2> QED  BY <2>1, <2>2 DEF Constants
<1>3. Compiled!Constant = [type : {"num"}, v : nums] \cup [type : {"str"}, v : strs]
                          \cup [type : {"fun"}, v : F]
  BY DEF Compiled!Constant
<1>4. Compiled!Strs = {[type |-> "str", v |-> s] : s \in strs}
  BY DEF Compiled!Strs, Compiled!Val, Val
<1>5. ASSUME NEW k \in DOMAIN c
      PROVE  c[k] \in Compiled!Constant /\ (c[k].type = "str" => c[k] \in Compiled!Strs)
  <2> DEFINE x == c[k]
  <2>1. x \in Kept /\ x \in Constants
    BY <1>1, <1>2
  <2>2. x.type = "fun" => x.v \in F
    BY <1>1 DEF ConstsOK
  <2>3. x.type = "num" => x.v \in nums
    BY <2>1
  <2>4. x.type = "str" => x.v \in strs
    BY <2>1
  <2> HIDE DEF x, nums, strs, F
  <2>5. x = [type |-> x.type, v |-> x.v] /\ x.type \in {"num", "str", "fun"}
    BY <2>1 DEF Kept
  <2>6. x \in Compiled!Constant
    BY <2>2, <2>3, <2>4, <2>5, <1>3
  <2>7. x.type = "str" => x \in Compiled!Strs
    BY <2>4, <2>5, <1>4
  <2> QED  BY <2>6, <2>7 DEF x
<1> HIDE DEF c
<1>6. c \in Seq(Compiled!Constant)
  <2> DEFINE C == Compiled!Constant
  <2>1. \A k \in DOMAIN c : c[k] \in C
    BY <1>5
  <2> HIDE DEF C
  <2>2. c \in Seq(C)
    BY <2>1, <1>1
  <2> QED  BY <2>2 DEF C
<1> QED  BY <1>5, <1>6 DEF c

(* The depths that Bytecode has of a function.                             *)
LEMMA SameDepths ==
  ASSUME NEW n \in Nat, n >= 1, NEW d \in [1..n+1 -> Int]
  PROVE  LET s == SubSeq(d, 1, n) IN
         s \in Seq(Int) /\ Len(s) = n /\ \A p \in 1..n : s[p] = d[p]
<1>1. \A i \in 1..n : d[i] \in Int
  OBVIOUS
<1> DEFINE s == SubSeq(d, 1, n)
<1>2. /\ s \in Seq(Int) /\ Len(s) = IF 1 <= n THEN n - 1 + 1 ELSE 0
      /\ \A i \in 1..n-1+1 : s[i] = d[1 + i - 1]
  BY <1>1, SubSeqProperties
<1> HIDE DEF s
<1>3. n - 1 + 1 = n /\ \A i \in 1..n : 1 + i - 1 = i
  OBVIOUS
<1>4. Len(s) = n /\ \A i \in 1..n : s[i] = d[i]
  BY <1>2, <1>3
<1> QED  BY <1>2, <1>4 DEF s

LEMMA EndedBalanced ==
  ASSUME CompilersOK(compilers, functions), NEW f \in DOMAIN functions, Ended(functions[f], f = 1)
  PROVE  Compiled!Balanced(f)
<1> DEFINE fun == functions[f]
           code == fun.code
           n == Len(code)
           d == Depths(fun)
           s == SubSeq(d, 1, n)
           script == (f = 1)
<1>1. fun \in Fun /\ fun.arity \in Nat
  <2>1. fun \in Fun
    BY DEF CompilersOK
  <2> QED  BY <2>1 DEF Fun
<1>2. f \in {1} <=> script
  OBVIOUS
<1> HIDE DEF script
<1>3. /\ n \in Nat /\ n >= 1 /\ code \in Seq(Instr)
      /\ d \in [1..n+1 -> Int] /\ d[1] = fun.arity + 1
      /\ \A p \in 1..n : /\ Fits(fun, code[p], d[p], script)
                         /\ \A q \in Targets(code, p) : q \in 1..n /\ d[q] = d[p] + Effect(code[p])
  BY <1>1, EndedIs DEF script
<1>4. s \in Seq(Int) /\ Len(s) = n /\ \A p \in 1..n : s[p] = d[p]
  BY <1>3, SameDepths
<1>5. /\ fun.consts \in Seq(Compiled!Constant)
      /\ \A k \in DOMAIN fun.consts : fun.consts[k].type = "str" => fun.consts[k] \in Compiled!Strs
  BY SameConsts
<1> DEFINE Codes == [g \in DOMAIN functions |-> functions[g].code]
           Consts == [g \in DOMAIN functions |-> functions[g].consts]
           Arities == [g \in DOMAIN functions |-> functions[g].arity]
           Deeps == [g \in DOMAIN functions |->
                       SubSeq(Depths(functions[g]), 1, Len(functions[g].code))]
<1>6. Codes[f] = code /\ Consts[f] = fun.consts /\ Arities[f] = fun.arity /\ Deeps[f] = s
  OBVIOUS
<1> HIDE DEF s, d
<1>7. DOMAIN code = 1..n /\ code # <<>> /\ DOMAIN s = 1..n
  BY <1>3, <1>4
<1> HIDE DEF n
<1>8. ASSUME NEW p \in 1..n
      PROVE  /\ s[p] \in Nat \ {0} /\ s[p] >= Compiled!Needs(code[p]) + 1
             /\ \A q \in Targets(code, p) : q \in DOMAIN code /\ s[q] = s[p] + Compiled!Effect(code[p])
             /\ code[p].op \in {"LD", "ST"} => code[p].a < s[p]
             /\ code[p].op = "CONST" => code[p].a + 1 \in DOMAIN fun.consts
             /\ code[p].op \in NameOps =>
                  code[p].a + 1 \in DOMAIN fun.consts /\ fun.consts[code[p].a + 1] \in Compiled!Strs
             /\ (f \in {1} /\ code[p].op = "RET") => s[p] = 2
  <2> DEFINE i == code[p]
  <2>1. Fits(fun, i, d[p], script) /\ s[p] = d[p]
    BY <1>3, <1>4
  <2>2. i \in Instr /\ Needs(i) \in Nat
    <3>1. i \in Instr
      BY <1>3, <1>7
    <3> QED  BY <3>1, NeedsIs
  <2>3. \A q \in Targets(code, p) : q \in 1..n /\ s[q] = s[p] + Effect(i)
    BY <1>3, <1>4
  <2>4. Compiled!Needs(i) = Needs(i) /\ Compiled!Effect(i) = Effect(i)
    BY SameInstr
  <2>5. d[p] \in Int
    BY <1>3
  <2> HIDE DEF i
  <2>6. s[p] \in Nat \ {0} /\ s[p] >= Needs(i) + 1
    BY <2>1, <2>2, <2>5 DEF Fits
  <2>7. i.op \in NameOps => i.a + 1 \in DOMAIN fun.consts /\ fun.consts[i.a + 1] \in Compiled!Strs
    BY <2>1, <1>5 DEF Fits, StrNames
  <2> QED  BY <2>1, <2>3, <2>4, <2>6, <2>7, <1>2, <1>7 DEF i, Fits
<1>9. s \in [DOMAIN code -> Nat \ {0}]
  <2>1. s \in [1..n -> Int]
    BY <1>4, <1>7
  <2> QED  BY <2>1, <1>7, <1>8
<1>10. s[1] = fun.arity + 1
  BY <1>3, <1>4
<1>11. code \in Seq(Compiled!Instr)
  BY <1>3, SameInstr
<1>12. \A p : Compiled!Successors(f, p) = Targets(code, p)
  BY <1>6 DEF Compiled!Successors, Targets
<1>13. \A i : Compiled!NamesString(f, i) <=> i.a + 1 \in DOMAIN fun.consts /\ fun.consts[i.a + 1] \in Compiled!Strs
  BY <1>6 DEF Compiled!NamesString
<1> HIDE DEF code, fun
<1>14. Compiled!Balanced(f)
       <=> /\ code \in Seq(Compiled!Instr) /\ code # <<>>
           /\ fun.consts \in Seq(Compiled!Constant)
           /\ fun.arity \in Nat
           /\ s \in [DOMAIN code -> Nat \ {0}]
           /\ s[1] = fun.arity + 1
           /\ \A p \in DOMAIN code :
                /\ s[p] >= Compiled!Needs(code[p]) + 1
                /\ \A q \in Targets(code, p) : q \in DOMAIN code /\ s[q] = s[p] + Compiled!Effect(code[p])
                /\ code[p].op \in {"LD", "ST"} => code[p].a < s[p]
                /\ code[p].op = "CONST" => code[p].a + 1 \in DOMAIN fun.consts
                /\ code[p].op \in {"DEF", "GLD", "GST", "GET", "SET"} => Compiled!NamesString(f, code[p])
                /\ (f \in {1} /\ code[p].op = "RET") => s[p] = 2
  <2> DEFINE xs == Codes[f]
             ks == Consts[f]
             ar == Arities[f]
             ds == Deeps[f]
  <2>1. Compiled!Balanced(f)
        <=> /\ xs \in Seq(Compiled!Instr) /\ xs # <<>>
            /\ ks \in Seq(Compiled!Constant)
            /\ ar \in Nat
            /\ ds \in [DOMAIN xs -> Nat \ {0}]
            /\ ds[1] = ar + 1
            /\ \A p \in DOMAIN xs :
                 /\ ds[p] >= Compiled!Needs(xs[p]) + 1
                 /\ \A q \in Compiled!Successors(f, p) :
                      q \in DOMAIN xs /\ ds[q] = ds[p] + Compiled!Effect(xs[p])
                 /\ xs[p].op \in {"LD", "ST"} => xs[p].a < ds[p]
                 /\ xs[p].op = "CONST" => xs[p].a + 1 \in DOMAIN ks
                 /\ xs[p].op \in {"DEF", "GLD", "GST", "GET", "SET"} => Compiled!NamesString(f, xs[p])
                 /\ (f \in {1} /\ xs[p].op = "RET") => ds[p] = 2
    BY Zenon DEF Compiled!Balanced
  <2>2. xs = code /\ ks = fun.consts /\ ar = fun.arity /\ ds = s
    BY <1>6
  <2> HIDE DEF xs, ks, ar, ds
  <2> QED  BY <2>1, <2>2, <1>12
<1>15. \A p \in DOMAIN code :
         code[p].op \in {"DEF", "GLD", "GST", "GET", "SET"} => Compiled!NamesString(f, code[p])
  BY <1>7, <1>8, <1>13 DEF NameOps
<1> QED  BY <1>1, <1>5, <1>7, <1>8, <1>9, <1>10, <1>11, <1>14, <1>15

LEMMA FinWellFormed ==
  ASSUME ShapeInv, FinInv PROVE CodeWellFormed
<1>1. SUFFICES ASSUME status = "done", Clean, NEW f \in DOMAIN functions
               PROVE  Compiled!Balanced(f)
  BY DEF CodeWellFormed
<1>2. CompilersOK(compilers, functions)
  BY DEF ShapeInv
<1> DEFINE b == (f = 1)
<1> HIDE DEF b
<1>3. Ended(functions[f], b)
  BY <1>1 DEF FinInv, Finished, b
<1> QED  BY <1>2, <1>3, EndedBalanced DEF b

(* What is compiled without error can be executed: wherever control comes  *)
(* from the depth of the stack is the same, there are the operands, the    *)
(* constants and the targets an instruction names, and a return ends it.   *)
THEOREM CompilerCodeWellFormed == Spec => []CodeWellFormed
<1> DEFINE Inv == ShapeInv /\ DeepInv /\ PosInv /\ FinInv
<1>1. Init => Inv
  BY ShapeInit, DepthInit, FinInit
<1>2. Inv /\ [Next]_vars => Inv'
  BY ShapeNext, DepthNext, FinNext
<1>3. Inv => CodeWellFormed
  BY FinWellFormed
<1> QED  BY <1>1, <1>2, <1>3, PTL DEF Spec
=============================================================================
