--------------------------- MODULE TwoPassProofs ---------------------------
(***************************************************************************)
(* The two passes for every program: the values stay integers, the stack   *)
(* of activations follows the tree, every pass writes what it moves over;  *)
(* and the last pass repeats the first.                                    *)
(***************************************************************************)
EXTENDS TwoPassHistory, LayoutProofs, SequenceTheorems

----------------------------------------------------------------------------
(* Stacks of activations                                                   *)

\* The bodies that only loops lead to.
InsideOf(p) == CHOOSE inside \in SUBSET DOMAIN p : AreInsideLoops(inside, p)

Inside == InsideOf(prog)

\* An activation is of a body of the tree.
InTree(s) == \A i \in 1..Len(s) : s[i].body \in DOMAIN prog

\* A body inside of loops has one of them around it.
Looped(s) ==
  \A i \in 1..Len(s) :
    s[i].body \in Inside => \E j \in 1..i : s[j].loop # "NONE"

\* An activation runs a body of the statement below it.
Called(caller, f) ==
  LET stmt == prog[caller.body][caller.pc]
  IN  /\ caller.pc <= Len(prog[caller.body])
      /\ f.body \in BodiesOf(stmt)
      /\ f.loop = IF stmt.op = "IF" THEN "NONE" ELSE stmt.op

Matches(s) ==
  \A i \in 1..Len(s) :
    IF i = 1 THEN s[i].body = 1 /\ s[i].loop = "NONE" ELSE Called(s[i - 1], s[i])

Well(s) == s \in Seq(Frame) /\ InTree(s) /\ Looped(s) /\ Matches(s)

LEMMA FrameFields ==
  ASSUME NEW f
  PROVE  f \in Frame <=> /\ f = [body |-> f.body, pc |-> f.pc, loop |-> f.loop, left |-> f.left]
                         /\ f.body \in Nat /\ f.pc \in Nat \ {0}
                         /\ f.loop \in {"NONE", "WHILE", "REPEAT"} /\ f.left \in Nat
BY DEF Frame

LEMMA ProgramIsProgram ==
  ASSUME prog \in Programs
  PROVE  IsProgram(prog)
BY TwoPassAssumption

LEMMA InsideIs ==
  ASSUME prog \in Programs
  PROVE  Inside \in SUBSET DOMAIN prog /\ AreInsideLoops(Inside, prog)
BY ProgramIsProgram DEF IsProgram, Inside, InsideOf

\* Two stacks with the same bodies and loops, and the same callers.
LEMMA WellCopy ==
  ASSUME NEW s, NEW t, Well(s), t \in Seq(Frame), Len(t) <= Len(s),
         \A i \in 1..Len(t) : t[i].body = s[i].body /\ t[i].loop = s[i].loop,
         \A i \in 1..(Len(t) - 1) : t[i] = s[i]
  PROVE  Well(t)
<1>1. Len(t) \in Nat /\ Len(s) \in Nat
  BY DEF Well
<1>2. InTree(t)
  BY <1>1 DEF Well, InTree
<1>3. Looped(t)
  <2> SUFFICES ASSUME NEW i \in 1..Len(t), t[i].body \in Inside
               PROVE  \E j \in 1..i : t[j].loop # "NONE"
    BY DEF Looped
  <2>1. i \in 1..Len(s) /\ s[i].body \in Inside
    BY <1>1
  <2>2. PICK j \in 1..i : s[j].loop # "NONE"
    BY <2>1 DEF Well, Looped
  <2>3. j \in 1..Len(t)
    BY <1>1
  <2> QED
    BY <2>2, <2>3
<1>4. Matches(t)
  <2> SUFFICES ASSUME NEW i \in 1..Len(t)
               PROVE  IF i = 1 THEN t[i].body = 1 /\ t[i].loop = "NONE"
                      ELSE Called(t[i - 1], t[i])
    BY DEF Matches
  <2>1. i \in 1..Len(s) /\ t[i].body = s[i].body /\ t[i].loop = s[i].loop
    BY <1>1
  <2>2. CASE i = 1
    BY <2>1, <2>2 DEF Well, Matches
  <2>3. CASE i # 1
    <3>1. t[i - 1] = s[i - 1]
      BY <1>1, <2>3
    <3>2. Called(s[i - 1], s[i])
      BY <2>1, <2>3 DEF Well, Matches
    <3> QED
      BY <2>1, <2>3, <3>1, <3>2 DEF Called
  <2> QED
    BY <2>2, <2>3
<1> QED
  BY <1>2, <1>3, <1>4 DEF Well

LEMMA TopIs ==
  ASSUME NEW s, Well(s), s # << >>
  PROVE  Len(s) \in Nat \ {0} /\ s[Len(s)] \in Frame
BY EmptySeq, ElementOfSeq DEF Well

LEMMA AdvancedWell ==
  ASSUME NEW s, Well(s), s # << >>
  PROVE  Well(Advanced(s))
<1> DEFINE n == Len(s)  f == s[n]  g == [f EXCEPT !.pc = @ + 1]
<1>1. n \in Nat \ {0} /\ f \in Frame /\ s \in Seq(Frame)
  BY TopIs DEF Well
<1>2. g \in Frame /\ g.body = f.body /\ g.loop = f.loop
  <2>1. f = [body |-> f.body, pc |-> f.pc, loop |-> f.loop, left |-> f.left]
        /\ f.body \in Nat /\ f.pc \in Nat \ {0}
        /\ f.loop \in {"NONE", "WHILE", "REPEAT"} /\ f.left \in Nat
    BY <1>1, FrameFields
  <2> HIDE DEF f
  <2>2. g = [body |-> f.body, pc |-> f.pc + 1, loop |-> f.loop, left |-> f.left]
    BY <2>1
  <2> QED
    BY <2>1, <2>2 DEF Frame
<1>3. Advanced(s) = [s EXCEPT ![n] = g]
  BY <1>1, LenProperties DEF Advanced
<1> HIDE DEF g
<1>4. /\ Advanced(s) \in Seq(Frame) /\ Len(Advanced(s)) = n
      /\ \A j \in 1..n : Advanced(s)[j] = IF j = n THEN g ELSE s[j]
  BY <1>1, <1>2, <1>3, ExceptSeq
<1>5. /\ \A i \in 1..n : Advanced(s)[i].body = s[i].body /\ Advanced(s)[i].loop = s[i].loop
      /\ \A i \in 1..(n - 1) : Advanced(s)[i] = s[i]
  BY <1>1, <1>2, <1>4
<1> QED
  BY <1>1, <1>4, <1>5, WellCopy

LEMMA AgainWell ==
  ASSUME NEW s, Well(s), s # << >>, s[Len(s)].left > 0
  PROVE  Well([s EXCEPT ![Len(s)] = Repeated(@)])
<1> DEFINE n == Len(s)  f == s[n]  g == Repeated(f)  t == [s EXCEPT ![n] = g]
<1>1. n \in Nat \ {0} /\ f \in Frame /\ s \in Seq(Frame)
  BY TopIs DEF Well
<1>2. g \in Frame /\ g.body = f.body /\ g.loop = f.loop
  BY <1>1, FrameFields DEF Frame, Repeated
<1> HIDE DEF g
<1>3. t \in Seq(Frame) /\ Len(t) = n /\ \A j \in 1..n : t[j] = IF j = n THEN g ELSE s[j]
  BY <1>1, <1>2, ExceptSeq
<1> HIDE DEF t
<1>4. /\ \A i \in 1..n : t[i].body = s[i].body /\ t[i].loop = s[i].loop
      /\ \A i \in 1..(n - 1) : t[i] = s[i]
  BY <1>1, <1>2, <1>3
<1>5. Well(t)
  BY <1>1, <1>3, <1>4, WellCopy
<1>6. [s EXCEPT ![Len(s)] = Repeated(@)] = t
  BY DEF t, g
<1> QED
  BY <1>5, <1>6

LEMMA PrefixWell ==
  ASSUME NEW s, Well(s), NEW k \in 0..Len(s)
  PROVE  /\ Well(SubSeq(s, 1, k)) /\ Len(SubSeq(s, 1, k)) = k
         /\ \A i \in 1..k : SubSeq(s, 1, k)[i] = s[i]
<1> DEFINE t == SubSeq(s, 1, k)
<1>1. s \in Seq(Frame) /\ Len(s) \in Nat
  BY DEF Well
<1>2. t \in Seq(Frame) /\ Len(t) = k /\ \A i \in 1..k : t[i] = s[i]
  <2>1. \A i \in 1..k : s[i] \in Frame
    BY <1>1, ElementOfSeq
  <2>2. /\ t \in Seq(Frame) /\ Len(t) = IF 1 <= k THEN k - 1 + 1 ELSE 0
        /\ \A i \in 1..(k - 1 + 1) : t[i] = s[1 + i - 1]
    BY <2>1, SubSeqProperties
  <2> QED
    BY <2>2
<1> HIDE DEF t
<1>3. Well(t)
  <2>1. Len(t) <= Len(s)
    BY <1>1, <1>2
  <2>2. \A i \in 1..Len(t) : t[i].body = s[i].body /\ t[i].loop = s[i].loop
    BY <1>2
  <2>3. \A i \in 1..(Len(t) - 1) : t[i] = s[i]
    BY <1>2
  <2> QED
    BY <1>2, <2>1, <2>2, <2>3, WellCopy
<1> QED
  BY <1>2, <1>3 DEF t

LEMMA ParentsWell ==
  ASSUME NEW s, Well(s), s # << >>
  PROVE  Well(Parents(s)) /\ (Len(s) > 1 => Parents(s) # << >>)
<1>1. Len(s) \in Nat \ {0}
  BY TopIs
<1>2. Len(s) - 1 \in 0..Len(s)
  BY <1>1
<1>3. Well(Parents(s)) /\ Len(Parents(s)) = Len(s) - 1
  BY <1>2, PrefixWell DEF Parents
<1>4. ASSUME Len(s) > 1, Parents(s) = << >>
      PROVE  FALSE
  BY <1>1, <1>3, <1>4, EmptySeq
<1> QED
  BY <1>3, <1>4

LEMMA EmptyWell == Well(<< >>)
BY EmptySeq DEF Well, InTree, Looped, Matches

LEMMA ResumedWell ==
  ASSUME NEW s, Well(s), s # << >>
  PROVE  Well(Resumed(s))
<1>1. Len(s) \in Nat \ {0} /\ s[Len(s)] \in Frame
  BY TopIs
<1>2. CASE Len(s) = 1
  <2>1. s[Len(s)].loop = "NONE"
    BY <1>2 DEF Well, Matches
  <2>2. Resumed(s) = << >>
    BY <1>2, <2>1 DEF Resumed
  <2> QED
    BY <2>2, EmptyWell
<1>3. CASE Len(s) # 1
  <2>1. Well(Parents(s)) /\ Well(Advanced(Parents(s)))
    <3>1. Len(s) > 1
      BY <1>1, <1>3
    <3>2. Well(Parents(s)) /\ Parents(s) # << >>
      BY <3>1, ParentsWell
    <3> QED
      BY <3>2, AdvancedWell
  <2>2. s[Len(s)].left > 0 => Well([s EXCEPT ![Len(s)] = Repeated(@)])
    BY AgainWell
  <2>3. CASE s[Len(s)].loop = "WHILE"
    BY <1>3, <2>1, <2>3 DEF Resumed
  <2>4. CASE s[Len(s)].loop = "REPEAT" /\ s[Len(s)].left > 0
    BY <1>3, <2>2, <2>4 DEF Resumed
  <2>5. CASE s[Len(s)].loop # "WHILE" /\ ~(s[Len(s)].loop = "REPEAT" /\ s[Len(s)].left > 0)
    BY <1>3, <2>1, <2>5 DEF Resumed
  <2> QED
    BY <2>3, <2>4, <2>5
<1> QED
  BY <1>2, <1>3

\* A break or continue stands inside a loop, and so finds one around it.
LEMMA UnwoundWell ==
  ASSUME NEW s, Well(s), s # << >>, s[Len(s)].body \in Inside
  PROVE  Well(Unwound(s)) /\ Len(Unwound(s)) > 1 /\ Unwound(s) # << >>
<1>1. Len(s) \in Nat \ {0} /\ s \in Seq(Frame) /\ DOMAIN s = 1..Len(s)
  BY TopIs, LenProperties DEF Well
<1>2. Loops(s) # {} /\ Loops(s) \subseteq 1..Len(s)
  BY <1>1 DEF Well, Looped, Loops
<1>3. \E i \in Loops(s) : \A j \in Loops(s) : j <= i
  <2> DEFINE Last == {k \in Nat : \A j \in Loops(s) : j <= k}
  <2>1. Last \in SUBSET Nat /\ Len(s) \in Last
    BY <1>1, <1>2
  <2>2. PICK k \in Last : \A m \in Last : k <= m
    BY <2>1, Least
  <2>3. ASSUME k \notin Loops(s)
        PROVE  FALSE
    <3>1. \A j \in Loops(s) : j \in Nat /\ 1 <= j /\ j <= k /\ j # k
      BY <1>1, <1>2, <2>2, <2>3
    <3>2. k - 1 \in Nat /\ \A j \in Loops(s) : j <= k - 1
      BY <1>2, <2>2, <3>1
    <3> QED
      BY <2>2, <3>2
  <2> QED
    BY <2>2, <2>3
<1> DEFINE k == CHOOSE i \in Loops(s) : \A j \in Loops(s) : j <= i
<1>4. k \in Loops(s)
  BY <1>3
<1>5. k \in 1..Len(s) /\ s[k].loop # "NONE"
  BY <1>2, <1>4 DEF Loops
<1>6. k > 1
  BY <1>1, <1>5 DEF Well, Matches
<1>7. Unwound(s) = SubSeq(s, 1, k)
  BY DEF Unwound
<1> HIDE DEF k
<1>8. Well(Unwound(s)) /\ Len(Unwound(s)) = k
  BY <1>1, <1>5, <1>7, PrefixWell
<1>9. Unwound(s) # << >>
  BY <1>1, <1>5, <1>6, <1>8, EmptySeq
<1> QED
  BY <1>1, <1>5, <1>6, <1>8, <1>9

LEMMA BrokenWell ==
  ASSUME NEW s, Well(s), s # << >>, s[Len(s)].body \in Inside
  PROVE  Well(Broken(s))
BY UnwoundWell, ParentsWell, AdvancedWell DEF Broken

LEMMA ContinuedWell ==
  ASSUME NEW s, Well(s), s # << >>, s[Len(s)].body \in Inside
  PROVE  Well(Resumed(Unwound(s)))
BY UnwoundWell, ResumedWell

LEMMA EnteredWell ==
  ASSUME prog \in Programs,
         NEW s, Well(s), s # << >>,
         NEW body, NEW loop \in {"NONE", "WHILE", "REPEAT"}, NEW left \in Nat,
         s[Len(s)].pc <= Len(prog[s[Len(s)].body]),
         body \in BodiesOf(prog[s[Len(s)].body][s[Len(s)].pc]),
         loop = IF prog[s[Len(s)].body][s[Len(s)].pc].op = "IF" THEN "NONE"
                ELSE prog[s[Len(s)].body][s[Len(s)].pc].op
  PROVE  Well(Entered(s, body, loop, left))
<1> DEFINE n == Len(s)  f == s[n]  stmt == prog[f.body][f.pc]
           g == [body |-> body, pc |-> 1, loop |-> loop, left |-> left]
           t == Entered(s, body, loop, left)
<1>1. n \in Nat \ {0} /\ f \in Frame /\ s \in Seq(Frame)
  BY TopIs DEF Well
<1>2. f.body \in DOMAIN prog /\ f.pc \in 1..Len(prog[f.body])
  <2>1. n \in 1..n
    BY <1>1
  <2>2. f.body \in DOMAIN prog
    BY <2>1 DEF Well, InTree
  <2>3. f.pc \in Nat \ {0}
    BY <1>1, FrameFields
  <2>4. prog[f.body] \in Seq(Statements)
    BY <2>2, ProgramIsProgram DEF IsProgram
  <2> QED
    BY <2>2, <2>3, <2>4, LenProperties
<1>3. f.pc \in DOMAIN prog[f.body] /\ BodiesOf(stmt) \subseteq DOMAIN prog
  <2>1. prog[f.body] \in Seq(Statements)
    BY <1>2, ProgramIsProgram DEF IsProgram
  <2>2. f.pc \in DOMAIN prog[f.body]
    BY <1>2, <2>1, LenProperties
  <2> QED
    BY <1>2, <2>2, ProgramIsProgram DEF IsProgram
<1>4. body \in DOMAIN prog /\ body \in Nat
  BY <1>3, ProgramIsProgram DEF IsProgram
<1>5. g \in Frame /\ g.body = body /\ g.loop = loop
  BY <1>4 DEF Frame
<1>6. Called(f, g)
  BY <1>2, <1>5 DEF Called
<1> HIDE DEF g
<1>7. /\ t \in Seq(Frame) /\ Len(t) = n + 1 /\ t[n + 1] = g
      /\ \A i \in 1..n : t[i] = s[i]
  <2>1. t = Append(s, g)
    BY DEF Entered, g
  <2> HIDE DEF t, n
  <2>2. s \in Seq(Frame) /\ g \in Frame
    BY <1>1, <1>5
  <2>3. /\ Append(s, g) \in Seq(Frame) /\ Len(Append(s, g)) = Len(s) + 1
        /\ Append(s, g)[Len(s) + 1] = g
        /\ \A i \in 1..Len(s) : Append(s, g)[i] = s[i]
    BY <2>2, AppendProperties
  <2> QED
    BY <2>1, <2>3 DEF n
<1> HIDE DEF t
<1>8. \A i \in 1..Len(t) : i \in 1..n \/ i = n + 1
  BY <1>1, <1>7
<1>9. InTree(t)
  BY <1>4, <1>5, <1>7, <1>8 DEF Well, InTree
<1>10. Matches(t)
  <2> SUFFICES ASSUME NEW i \in 1..Len(t)
               PROVE  IF i = 1 THEN t[i].body = 1 /\ t[i].loop = "NONE"
                      ELSE Called(t[i - 1], t[i])
    BY DEF Matches
  <2>1. CASE i = n + 1
    BY <1>1, <1>6, <1>7, <2>1
  <2>2. CASE i \in 1..n /\ i = 1
    BY <1>7, <2>2 DEF Well, Matches
  <2>3. CASE i \in 1..n /\ i # 1
    <3>1. i - 1 \in 1..n
      BY <1>1, <2>3
    <3>2. Called(s[i - 1], s[i])
      BY <2>3 DEF Well, Matches
    <3> QED
      BY <1>7, <2>3, <3>1, <3>2
  <2> QED
    BY <1>8, <2>1, <2>2, <2>3
<1>11. Looped(t)
  <2> SUFFICES ASSUME NEW i \in 1..Len(t), t[i].body \in Inside
               PROVE  \E j \in 1..i : t[j].loop # "NONE"
    BY DEF Looped
  <2>1. CASE i \in 1..n
    <3>1. PICK j \in 1..i : s[j].loop # "NONE"
      BY <1>7, <2>1 DEF Well, Looped
    <3>2. j \in 1..n
      BY <1>1, <2>1
    <3> QED
      BY <1>7, <3>1, <3>2
  <2>2. CASE i = n + 1 /\ loop # "NONE"
    BY <1>1, <1>5, <1>7, <2>2
  <2>3. CASE i = n + 1 /\ loop = "NONE"
    <3>1. body \in Inside
      BY <1>5, <1>7, <2>3
    <3>2. stmt.op = "IF"
      <4>1. stmt.op # "NONE"
        BY DEF BodiesOf
      <4> QED
        BY <4>1, <2>3
    <3>3. f.body \in Inside
      BY <1>2, <1>3, <3>1, <3>2, InsideIs DEF AreInsideLoops
    <3>4. n \in 1..n
      BY <1>1
    <3>5. PICK j \in 1..n : s[j].loop # "NONE"
      BY <3>3, <3>4 DEF Well, Looped
    <3> QED
      BY <1>1, <1>7, <2>3, <3>5
  <2> QED
    BY <1>8, <2>1, <2>2, <2>3
<1>12. Well(t)
  BY <1>7, <1>9, <1>10, <1>11 DEF Well
<1> QED
  BY <1>12 DEF t

----------------------------------------------------------------------------
(* Statements and values                                                   *)

IInv == TypeOK /\ Well(stack)

Env == [Names -> Nint \cup {NotDeclared}]

LEMMA NintIs ==
  /\ NintMax \in Nat /\ 0 \in Nint
  /\ \A n : n \in Nint <=> n \in Int /\ IsNint(n)
  /\ \A n \in 0..NintMax : n \in Nint /\ n \in Nat
BY LayoutAssumption DEF Nint, NintMin, IsNint

\* A statement is of the program, and there is one.
LEMMA StatementIs ==
  ASSUME IInv, NEW op, Executing(op)
  PROVE  /\ stack # << >> /\ result = "running" /\ prog \in Programs
         /\ Len(stack) \in Nat \ {0} /\ Top \in Frame
         /\ Top.body \in DOMAIN prog /\ Top.pc \in DOMAIN prog[Top.body]
         /\ Top.pc <= Len(prog[Top.body])
         /\ Stmt \in Statements /\ Stmt.op = op
<1>1. stack # << >> /\ result = "running" /\ prog \in Programs /\ Stmt.op = op
      /\ Top.pc <= Len(prog[Top.body])
  BY DEF IInv, TypeOK, Executing
<1>2. Len(stack) \in Nat \ {0} /\ Top \in Frame
  BY <1>1, TopIs DEF IInv, Top
<1>3. Top.body \in DOMAIN prog
  BY <1>2 DEF IInv, Well, InTree, Top
<1>4. prog[Top.body] \in Seq(Statements)
  BY <1>1, <1>3, ProgramIsProgram DEF IsProgram
<1>5. Top.pc \in Nat \ {0}
  BY <1>2, FrameFields
<1>6. Top.pc \in 1..Len(prog[Top.body])
  BY <1>1, <1>4, <1>5, LenProperties
<1>7. Top.pc \in DOMAIN prog[Top.body]
  BY <1>4, <1>6, LenProperties
<1>8. Stmt \in Statements
  BY <1>4, <1>6, ElementOfSeq DEF Stmt
<1> QED
  BY <1>1, <1>2, <1>3, <1>7, <1>8

LEMMA AssignIs ==
  ASSUME NEW s \in Statements, s.op = "ASSIGN_VAR"
  PROVE  s.name \in Names /\ s.expr \in Exprs
BY DEF Statements

LEMMA ExprIs ==
  ASSUME NEW s \in Statements, s.op \in {"WHILE", "REPEAT", "ORG", "ALIGN", "ASSERT"}
  PROVE  s.expr \in Exprs
BY DEF Statements

LEMMA NameIs ==
  ASSUME NEW s \in Statements, s.op \in {"LABEL", "DEL"}
  PROVE  s.name \in Names
BY DEF Statements

LEMMA SpaceIs ==
  ASSUME NEW s \in Statements, s.op = "SPACE"
  PROVE  /\ s.type \in SpaceTypes /\ s.len \in Pos
         /\ s.align_per_el \in Pos /\ s.align_start \in Pos /\ s.value \in Exprs
BY DEF Statements, Pos

LEMMA StringIs ==
  ASSUME NEW s \in Statements, s.op = "STRING"
  PROVE  s.len \in Nat /\ s.align_start \in Pos
BY DEF Statements, Pos

LEMMA CodeIs ==
  ASSUME NEW s \in Statements, s.op = "CODE"
  PROVE  s.lang \in Langs
BY DEF Statements

LEMMA InstructionIs ==
  ASSUME NEW s \in Statements, s.op = "INSTRUCTION"
  PROVE  /\ s.arg \in Operands
         /\ s.form["6502"] \in M6502!Forms \cup {"unknown"}
         /\ s.form["i386"] \in X86!Forms \cup {"unknown"}
<1>1. s.arg \in Operands /\ s.form \in Forms
  BY DEF Statements
<1>2. \A l \in Langs : s.form[l] \in FormsOf[l]
  BY <1>1 DEF Forms
<1> QED
  BY <1>1, <1>2 DEF FormsOf, Langs

LEMMA IfIs ==
  ASSUME NEW s \in Statements, s.op = "IF"
  PROVE  s.branches \in Seq([cond : Exprs, body : Nat])
BY DEF Statements

LEMMA AtomValue ==
  ASSUME NEW env \in Env, NEW a \in Atoms, AtomOK(a, env), addr \in 0..NintMax
  PROVE  Atom(a, env) \in Nint
<1>1. CASE a.k = "LITERAL"
  <2>1. a.n \in Nint
    BY <1>1 DEF Atoms
  <2> QED
    BY <1>1, <2>1 DEF Atom
<1>2. CASE a.k = "VAR"
  <2>1. a.name \in Names
    BY <1>2 DEF Atoms
  <2>2. env[a.name] \in Nint
    BY <1>2, <2>1 DEF AtomOK, Env
  <2> QED
    BY <1>2, <2>2 DEF Atom
<1>3. CASE a.k = "DOLLAR"
  BY <1>3, NintIs DEF Atom
<1> QED
  BY <1>1, <1>2, <1>3 DEF Atoms

\* An expression that does not fail is an integer.
LEMMA ExprValue ==
  ASSUME NEW env \in Env, NEW e \in Exprs, ExprOK(e, env), addr \in 0..NintMax
  PROVE  Value(e, env) \in Nint /\ Value(e, env) \in Int
<1>1. CASE e.k # "BINOP"
  <2>1. e \in Atoms
    BY <1>1 DEF Exprs
  <2>2. Value(e, env) = Atom(e, env) /\ AtomOK(e, env)
    BY <1>1 DEF Value, ExprOK
  <2> QED
    BY <2>1, <2>2, AtomValue, NintIs
<1>2. CASE e.k = "BINOP"
  <2>1. e.left \in Atoms /\ e.right \in Atoms /\ e.op \in Operators
    BY <1>2 DEF Exprs, Atoms
  <2>2. AtomOK(e.left, env) /\ AtomOK(e.right, env) /\ IsNint(Value(e, env))
    BY <1>2 DEF ExprOK
  <2>3. Atom(e.left, env) \in Int /\ Atom(e.right, env) \in Int
    BY <2>1, <2>2, AtomValue, NintIs
  <2>4. Value(e, env) \in Int
    BY <1>2, <2>1, <2>3 DEF Value, Truth, Operators
  <2> QED
    BY <2>2, <2>4, NintIs
<1> QED
  BY <1>1, <1>2

----------------------------------------------------------------------------
(* Space and sizes                                                         *)

LEMMA TypeSizeIs ==
  ASSUME NEW type \in SpaceTypes, active_lang \in Langs
  PROVE  TypeSize(type) \in Nat
BY DEF SpaceTypes, TypeSize, SizeOfPtr

LEMMA StartIs ==
  ASSUME NEW e \in Pos, NEW a \in Pos, NEW at \in Nat
  PROVE  ArrayStart(at, e, a) \in Nat /\ ArrayStart(at, e, a) - at \in Nat
<1>1. Lcm(a, e) \in Pos
  BY LcmCorrect
<1>2. ArrayStart(at, e, a) \in Nat /\ at <= ArrayStart(at, e, a)
  BY <1>1, AlignedIsLowest DEF ArrayStart
<1> QED
  BY <1>2

\* The loops of encode_space_ident write what array_total_size_safe counts.
LEMMA SpaceIsTotal ==
  ASSUME NEW s, s.len \in Pos, s.align_per_el \in Pos, s.align_start \in Pos,
         NEW size \in Nat, addr \in Nat
  PROVE  /\ SpaceBytes(size, s) = ArrayTotal(addr, s.len, size, s.align_per_el, s.align_start)
         /\ SpaceBytes(size, s) \in Nat
<1> DEFINE P == Stride(size, s.align_per_el)
           S == ArrayStart(addr, s.align_per_el, s.align_start) - addr
<1>1. P \in Nat /\ size <= P
  BY AlignedIsLowest DEF Stride
<1>2. S \in Nat
  BY StartIs
<1>3. /\ SpaceBytes(size, s) = S + s.len * size + (s.len - 1) * (P - size)
      /\ ArrayTotal(addr, s.len, size, s.align_per_el, s.align_start)
           = S + s.len * P - (P - size)
  BY DEF SpaceBytes, ArrayTotal
<1> HIDE DEF P, S
<1>4. PICK k \in Nat : s.len = k + 1 /\ s.len - 1 = k
  BY DEF Pos
<1>5. PICK d \in Nat : P = size + d /\ P - size = d
  BY <1>1
<1>6. /\ (k + 1) * size = k * size + size /\ (k + 1) * P = (k + 1) * size + (k + 1) * d
      /\ (k + 1) * d = k * d + d /\ k * size \in Nat /\ k * d \in Nat
  BY <1>5
<1>7. s.len * size = k * size + size /\ s.len * P = k * size + size + k * d + d
      /\ (s.len - 1) * (P - size) = k * d
  BY <1>4, <1>5, <1>6
<1> DEFINE u == k * size  v == k * d
<1>8. u \in Nat /\ v \in Nat /\ s.len * size = u + size /\ s.len * P = u + size + v + d
      /\ (s.len - 1) * (P - size) = v
  BY <1>6, <1>7
<1> HIDE DEF u, v
<1> QED
  BY <1>2, <1>3, <1>5, <1>8

LEMMA StringIsTotal ==
  ASSUME NEW n \in Nat, NEW a \in Pos, addr \in Nat
  PROVE  /\ ArrayTotal(addr, 1, n, a, 1) = (ArrayStart(addr, a, 1) - addr) + n
         /\ (ArrayStart(addr, a, 1) - addr) + n \in Nat
<1> DEFINE P == Stride(n, a)  S == ArrayStart(addr, a, 1) - addr
<1>1. P \in Nat
  BY AlignedIsLowest DEF Stride
<1>2. S \in Nat
  <2>1. 1 \in Pos
    BY DEF Pos
  <2> QED
    BY <2>1, StartIs
<1>3. ArrayTotal(addr, 1, n, a, 1) = S + 1 * P - (P - n)
  BY DEF ArrayTotal
<1> HIDE DEF P, S
<1>4. S + 1 * P - (P - n) = S + n /\ S + n \in Nat
  BY <1>1, <1>2
<1> QED
  BY <1>3, <1>4 DEF S

LEMMA JmpSizes ==
  ASSUME NEW o, NEW at, NEW last, NEW cache \in Seq([addr : Nat, size : {2, 3}])
  PROVE  X86!JmpSize(o, at, last, cache) \in {2, 3}
<1>1. X86!ShortIfFits(o, at) \in {2, 3}
  BY DEF X86!ShortIfFits
<1>2. X86!FirstPassJmpSize(o, at) \in {2, 3}
  BY <1>1 DEF X86!FirstPassJmpSize
<1>3. X86!Remembered(cache, at) \in {0, 2, 3}
  <2>1. CASE \E i \in DOMAIN cache : cache[i].addr = at
    <3> DEFINE i == CHOOSE i \in DOMAIN cache : cache[i].addr = at
    <3>1. i \in DOMAIN cache
      BY <2>1
    <3> HIDE DEF i
    <3>2. cache[i] \in [addr : Nat, size : {2, 3}]
      <4>1. i \in 1..Len(cache)
        BY <3>1, LenProperties
      <4> QED
        BY <4>1, ElementOfSeq
    <3> USE DEF i
    <3>3. X86!Remembered(cache, at) = cache[i].size
      BY <2>1 DEF X86!Remembered
    <3> HIDE DEF i
    <3> QED
      BY <3>2, <3>3
  <2>2. CASE ~\E i \in DOMAIN cache : cache[i].addr = at
    BY <2>2 DEF X86!Remembered
  <2> QED
    BY <2>1, <2>2
<1>4. X86!LastPassJmpSize(o, at, cache) \in {2, 3}
  BY <1>1, <1>3 DEF X86!LastPassJmpSize
<1> QED
  BY <1>2, <1>4 DEF X86!JmpSize

LEMMA InstructionSizeIs ==
  ASSUME IInv, Executing("INSTRUCTION"), active_lang \in Langs, InstructionOK
  PROVE  InstructionSize \in Nat
<1>1. Stmt \in Statements /\ Stmt.op = "INSTRUCTION" /\ Form # "unknown"
  BY StatementIs DEF InstructionOK
<1>2. CASE active_lang = "6502"
  <2>1. Form \in M6502!Forms
    BY <1>1, <1>2, InstructionIs DEF Form
  <2>2. M6502!Size(Form, Operand) \in Nat
    BY <2>1 DEF M6502!Size, M6502!Forms
  <2> QED
    BY <1>2, <2>2 DEF InstructionSize
<1>3. CASE active_lang = "i386"
  <2>1. Form \in X86!Forms
    BY <1>1, <1>3, InstructionIs DEF Form
  <2>2. X86!JmpSize(Operand, addr, last_pass, jmp_cache) \in Nat
    <3>1. jmp_cache \in Seq([addr : Nat, size : {2, 3}])
      BY DEF IInv, TypeOK
    <3>2. X86!JmpSize(Operand, addr, last_pass, jmp_cache) \in {2, 3}
      BY <3>1, JmpSizes
    <3> QED
      BY <3>2
  <2>3. X86!Size(Form, Operand, addr, last_pass, jmp_cache) \in Nat
    BY <2>1, <2>2 DEF X86!Size, X86!Forms
  <2> QED
    BY <1>3, <2>3 DEF InstructionSize
<1> QED
  BY <1>2, <1>3 DEF Langs

LEMMA CacheIs ==
  ASSUME IInv, active_lang \in Langs
  PROVE  LET cache == X86!CacheAfter(Form, Operand, addr, last_pass, jmp_cache)
         IN  /\ cache \in Seq([addr : Nat, size : {2, 3}])
             /\ Len(cache) <= JMP_CACHE_MAX
<1> DEFINE Entry == [addr : Nat, size : {2, 3}]
           size == X86!FirstPassJmpSize(Operand, addr)
           new == [addr |-> addr, size |-> size]
           kept == [i \in DOMAIN jmp_cache |->
                      IF jmp_cache[i].addr = addr THEN new ELSE jmp_cache[i]]
<1>1. jmp_cache \in Seq(Entry) /\ Len(jmp_cache) <= JMP_CACHE_MAX /\ addr \in Nat
      /\ JMP_CACHE_MAX \in Nat
  BY TwoPassAssumption, NintIs DEF IInv, TypeOK
<1>2. size \in {2, 3}
  BY DEF X86!FirstPassJmpSize, X86!ShortIfFits
<1> HIDE DEF size
<1>3. new \in Entry
  BY <1>1, <1>2
<1> HIDE DEF new
<1>4. kept \in Seq(Entry) /\ Len(kept) = Len(jmp_cache)
  <2>1. DOMAIN jmp_cache = 1..Len(jmp_cache) /\ Len(jmp_cache) \in Nat
    BY <1>1, LenProperties
  <2>2. \A i \in 1..Len(jmp_cache) : jmp_cache[i] \in Entry
    BY <1>1, ElementOfSeq
  <2>3. kept \in [1..Len(jmp_cache) -> Entry]
    BY <1>3, <2>1, <2>2
  <2> HIDE DEF Entry, kept
  <2> QED
    BY <2>1, <2>3
<1>5. /\ Append(jmp_cache, new) \in Seq(Entry)
      /\ Len(Append(jmp_cache, new)) = Len(jmp_cache) + 1 /\ Len(jmp_cache) \in Nat
  BY <1>1, <1>3, AppendProperties, LenProperties
<1> HIDE DEF kept, Entry
<1>6. LET r == X86!Remember(jmp_cache, addr, size)
      IN  r \in Seq(Entry) /\ Len(r) <= JMP_CACHE_MAX
  <2>1. CASE \E i \in DOMAIN jmp_cache : jmp_cache[i].addr = addr
    BY <1>1, <1>4, <2>1 DEF X86!Remember, kept, new
  <2>2. CASE ~\E i \in DOMAIN jmp_cache : jmp_cache[i].addr = addr
    BY <1>1, <1>5, <2>2 DEF X86!Remember, new
  <2> QED
    BY <2>1, <2>2
<1> QED
  BY <1>1, <1>6 DEF X86!CacheAfter, size, Entry

----------------------------------------------------------------------------
(* The steps keep the invariant                                            *)

Entries == Seq([addr : Nat, size : {2, 3}])

\* A stack is as good in the next state, where the tree is the same.
LEMMA WellNext ==
  ASSUME NEW s, Well(s), prog' = prog, stack' = s
  PROVE  Well(stack)'
<1>1. Inside' = Inside
  BY DEF Inside
<1>2. \A c, f : Called(c, f)' <=> Called(c, f)
  BY DEF Called
<1> QED
  BY <1>1, <1>2 DEF Well, InTree, Looped, Matches, Called

LEMMA EndsKeeps ==
  ASSUME IInv, NEW r \in {"SUCCESS", "FAIL", "CRASH"}, Ends(r)
  PROVE  IInv'
<1>1. TypeOK'
  BY DEF IInv, TypeOK, Ends
<1>2. Well(stack)'
  BY WellNext DEF IInv, Ends
<1> QED
  BY <1>1, <1>2 DEF IInv

LEMMA GotoKeeps ==
  ASSUME IInv, NEW s, Well(s), Goto(s)
  PROVE  IInv'
<1>1. TypeOK'
  BY DEF IInv, TypeOK, Goto, Well
<1>2. Well(stack)'
  BY WellNext DEF Goto
<1> QED
  BY <1>1, <1>2 DEF IInv

LEMMA AdvancedNext ==
  ASSUME IInv, stack # << >>, prog' = prog, stack' = Advanced(stack)
  PROVE  Well(stack)' /\ stack' \in Seq(Frame)
<1>1. Well(Advanced(stack))
  BY AdvancedWell DEF IInv
<1> QED
  BY <1>1, WellNext DEF Well

LEMMA AdvanceKeeps ==
  ASSUME IInv, stack # << >>, NEW n \in Int, NEW bytes \in Nat, CanAdvance(n),
         Advance(n, bytes),
         jmp_cache' \in Entries /\ Len(jmp_cache') <= JMP_CACHE_MAX
  PROVE  IInv'
<1>1. Well(stack)' /\ stack' \in Seq(Frame)
  BY AdvancedNext DEF Advance
<1>2. addr' \in 0..NintMax
  <2>1. addr \in 0..NintMax /\ addr' = addr + n /\ NintMax \in Nat
    BY NintIs DEF IInv, TypeOK, Advance
  <2>2. n = 0 \/ (n \in Nat /\ n <= NintMax - addr)
    BY DEF CanAdvance, IncrementOK
  <2> QED
    BY <2>1, <2>2
<1>3. out' \in Nat
  BY DEF IInv, TypeOK, Advance
<1>4. TypeOK'
  BY <1>1, <1>2, <1>3 DEF IInv, TypeOK, Advance, Entries
<1> QED
  BY <1>1, <1>4 DEF IInv

LEMMA AssignKeeps == ASSUME IInv, EvalAssign PROVE IInv'
<1>1. Executing("ASSIGN_VAR")
  BY DEF EvalAssign
<1>2. stack # << >> /\ Stmt.name \in Names /\ Stmt.expr \in Exprs
  BY <1>1, StatementIs, AssignIs
<1>3. PICK old \in IF variables[Stmt.name] = NotDeclared
                   THEN UninitValues ELSE {variables[Stmt.name]} :
        LET env == [variables EXCEPT ![Stmt.name] = old]
        IN  \/ /\ ExprOK(Stmt.expr, env)
               /\ variables' = [env EXCEPT ![Stmt.name] = Value(Stmt.expr, env)]
               /\ stack' = Advanced(stack)
               /\ UNCHANGED <<prog, last_pass, addr, labels, active_lang,
                              jmp_cache, out, result>>
            \/ ~ExprOK(Stmt.expr, env) /\ Fail
  BY DEF EvalAssign
<1> DEFINE env == [variables EXCEPT ![Stmt.name] = old]
<1>4. variables \in Env /\ addr \in 0..NintMax
  BY DEF IInv, TypeOK, Env
<1>5. old \in Nint \cup {NotDeclared}
  BY <1>2, <1>3, <1>4, TwoPassAssumption DEF Env
<1>6. env \in Env
  BY <1>2, <1>4, <1>5 DEF Env
<1> HIDE DEF env
<1>7. CASE ExprOK(Stmt.expr, env) /\ stack' = Advanced(stack)
           /\ variables' = [env EXCEPT ![Stmt.name] = Value(Stmt.expr, env)]
           /\ UNCHANGED <<prog, last_pass, addr, labels, active_lang,
                          jmp_cache, out, result>>
  <2>1. variables' \in [Names -> Nint \cup {NotDeclared}]
    BY <1>2, <1>4, <1>6, <1>7, ExprValue DEF Env
  <2>2. Well(stack)' /\ stack' \in Seq(Frame)
    BY <1>2, <1>7, AdvancedNext
  <2> QED
    BY <1>7, <2>1, <2>2 DEF IInv, TypeOK
<1>8. CASE Fail
  BY <1>8, EndsKeeps DEF Fail
<1> QED
  BY <1>3, <1>7, <1>8 DEF env

LEMMA AugmentedAssignKeeps == ASSUME IInv, EvalAugmentedAssign PROVE IInv'
<1>1. Executing("ASSIGN_VAR")
  BY DEF EvalAugmentedAssign
<1>2. stack # << >> /\ Stmt.name \in Names /\ Stmt.expr \in Exprs
  BY <1>1, StatementIs, AssignIs
<1>3. variables \in Env /\ addr \in 0..NintMax
  BY DEF IInv, TypeOK, Env
<1> DEFINE new == variables[Stmt.name] + Value(Stmt.expr, variables)
<1>4. CASE /\ variables[Stmt.name] # NotDeclared /\ ExprOK(Stmt.expr, variables)
           /\ IsNint(new)
           /\ variables' = [variables EXCEPT ![Stmt.name] = new]
           /\ stack' = Advanced(stack)
           /\ UNCHANGED <<prog, last_pass, addr, labels, active_lang,
                          jmp_cache, out, result>>
  <2>1. variables[Stmt.name] \in Int /\ Value(Stmt.expr, variables) \in Int
    BY <1>2, <1>3, <1>4, ExprValue, NintIs DEF Env
  <2>2. new \in Nint
    BY <1>4, <2>1, NintIs
  <2> HIDE DEF new
  <2>3. variables' \in [Names -> Nint \cup {NotDeclared}]
    BY <1>3, <1>4, <2>2 DEF Env
  <2>4. Well(stack)' /\ stack' \in Seq(Frame)
    BY <1>2, <1>4, AdvancedNext
  <2> QED
    BY <1>4, <2>3, <2>4 DEF IInv, TypeOK
<1>5. CASE Fail
  BY <1>5, EndsKeeps DEF Fail
<1> QED
  BY <1>4, <1>5 DEF EvalAugmentedAssign

LEMMA DelKeeps == ASSUME IInv, EvalDel PROVE IInv'
<1>1. stack # << >> /\ Stmt.name \in Names
  BY StatementIs, NameIs DEF EvalDel
<1>2. variables' \in [Names -> Nint \cup {NotDeclared}]
  BY <1>1 DEF IInv, TypeOK, EvalDel
<1>3. Well(stack)' /\ stack' \in Seq(Frame)
  BY <1>1, AdvancedNext DEF EvalDel
<1> QED
  BY <1>2, <1>3 DEF IInv, TypeOK, EvalDel

\* A body of the statement at the top is entered.
LEMMA EnteredNext ==
  ASSUME IInv, NEW op \in {"IF", "WHILE", "REPEAT"}, Executing(op),
         NEW body \in BodiesOf(Stmt), NEW left \in Nat,
         Goto(Entered(stack, body, IF op = "IF" THEN "NONE" ELSE op, left))
  PROVE  IInv'
<1>1. /\ stack # << >> /\ prog \in Programs /\ Stmt.op = op
      /\ Top.pc <= Len(prog[Top.body])
  BY StatementIs
<1> DEFINE loop == IF op = "IF" THEN "NONE" ELSE op
<1>2. loop \in {"NONE", "WHILE", "REPEAT"}
  OBVIOUS
<1>3. Well(Entered(stack, body, loop, left))
  BY <1>1, <1>2, EnteredWell DEF IInv, Top, Stmt
<1> QED
  BY <1>3, GotoKeeps

LEMMA AdvancedKeeps ==
  ASSUME IInv, stack # << >>, Goto(Advanced(stack))
  PROVE  IInv'
BY AdvancedWell, GotoKeeps DEF IInv

LEMMA IfKeeps == ASSUME IInv, EvalIf PROVE IInv'
<1>1. Executing("IF")
  BY DEF EvalIf
<1>2. stack # << >> /\ Stmt.op = "IF"
  BY <1>1, StatementIs
<1>3. CASE Goto(Advanced(stack))
  BY <1>2, <1>3, AdvancedKeeps
<1>4. CASE Fail
  BY <1>4, EndsKeeps DEF Fail
<1>5. ASSUME NEW i \in DOMAIN Stmt.branches,
             Goto(Entered(stack, Stmt.branches[i].body, "NONE", 0))
      PROVE  IInv'
  <2>1. Stmt.branches[i].body \in BodiesOf(Stmt)
    BY <1>2 DEF BodiesOf
  <2> QED
    BY <1>1, <1>5, <2>1, EnteredNext
<1> QED
  BY <1>3, <1>4, <1>5 DEF EvalIf

LEMMA WhileKeeps == ASSUME IInv, EvalWhile PROVE IInv'
<1>1. Executing("WHILE")
  BY DEF EvalWhile
<1>2. stack # << >> /\ Stmt.op = "WHILE"
  BY <1>1, StatementIs
<1>3. CASE Goto(Advanced(stack))
  BY <1>2, <1>3, AdvancedKeeps
<1>4. CASE Fail
  BY <1>4, EndsKeeps DEF Fail
<1>5. CASE Goto(Entered(stack, Stmt.body, "WHILE", 0))
  <2>1. Stmt.body \in BodiesOf(Stmt)
    BY <1>2 DEF BodiesOf
  <2> QED
    BY <1>1, <1>5, <2>1, EnteredNext
<1> QED
  BY <1>3, <1>4, <1>5 DEF EvalWhile

LEMMA RepeatKeeps == ASSUME IInv, EvalRepeat PROVE IInv'
<1>1. Executing("REPEAT")
  BY DEF EvalRepeat
<1>2. stack # << >> /\ Stmt.op = "REPEAT" /\ Stmt.expr \in Exprs
  BY <1>1, StatementIs, ExprIs
<1> DEFINE n == Value(Stmt.expr, variables)
<1>3. CASE Goto(Advanced(stack))
  BY <1>2, <1>3, AdvancedKeeps
<1>4. CASE Fail
  BY <1>4, EndsKeeps DEF Fail
<1>5. CASE ExprOK(Stmt.expr, variables) /\ ~(n < 0) /\ n # 0
           /\ Goto(Entered(stack, Stmt.body, "REPEAT", n - 1))
  <2>1. Stmt.body \in BodiesOf(Stmt)
    BY <1>2 DEF BodiesOf
  <2>2. variables \in Env /\ addr \in 0..NintMax
    BY DEF IInv, TypeOK, Env
  <2>3. n \in Int
    BY <1>2, <1>5, <2>2, ExprValue
  <2> HIDE DEF n
  <2>4. n - 1 \in Nat
    BY <1>5, <2>3
  <2> QED
    BY <1>1, <1>5, <2>1, <2>4, EnteredNext
<1> QED
  BY <1>3, <1>4, <1>5 DEF EvalRepeat

LEMMA EndBodyKeeps == ASSUME IInv, EndBody PROVE IInv'
BY ResumedWell, GotoKeeps DEF IInv, EndBody

\* The parser's is_inside_block: the body of a break or continue is in a loop.
LEMMA BreakIsInside ==
  ASSUME IInv, NEW op \in {"BREAK", "CONTINUE"}, Executing(op)
  PROVE  stack # << >> /\ stack[Len(stack)].body \in Inside
<1>1. /\ stack # << >> /\ prog \in Programs /\ Stmt.op = op
      /\ Top.body \in DOMAIN prog /\ Top.pc \in DOMAIN prog[Top.body]
  BY StatementIs
<1>2. AreInsideLoops(Inside, prog)
  BY <1>1, InsideIs
<1> QED
  BY <1>1, <1>2 DEF AreInsideLoops, Top, Stmt

LEMMA BreakKeeps == ASSUME IInv, EvalBreak PROVE IInv'
BY BreakIsInside, BrokenWell, GotoKeeps DEF IInv, EvalBreak

LEMMA ContinueKeeps == ASSUME IInv, EvalContinue PROVE IInv'
BY BreakIsInside, ContinuedWell, GotoKeeps DEF IInv, EvalContinue

LEMMA AssertKeeps == ASSUME IInv, EvalAssert PROVE IInv'
<1>1. stack # << >>
  BY StatementIs DEF EvalAssert
<1> QED
  BY <1>1, AdvancedKeeps, EndsKeeps DEF EvalAssert, Fail

LEMMA ErrorKeeps == ASSUME IInv, EvalError PROVE IInv'
BY EndsKeeps DEF EvalError, Fail

LEMMA CodeKeeps == ASSUME IInv, EvalCode PROVE IInv'
<1>1. stack # << >> /\ Stmt.lang \in Langs
  BY StatementIs, CodeIs DEF EvalCode
<1>2. Well(stack)' /\ stack' \in Seq(Frame)
  BY <1>1, AdvancedNext DEF EvalCode
<1> QED
  BY <1>1, <1>2 DEF IInv, TypeOK, EvalCode

LEMMA LabelKeeps == ASSUME IInv, EvalLabel PROVE IInv'
<1>1. stack # << >> /\ Stmt.name \in Names
  BY StatementIs, NameIs DEF EvalLabel
<1>2. CASE Goto(Advanced(stack))
  BY <1>1, <1>2, AdvancedKeeps
<1>3. CASE Fail
  BY <1>3, EndsKeeps DEF Fail
<1>4. CASE /\ labels' = [labels EXCEPT ![Stmt.name] = addr]
           /\ stack' = Advanced(stack)
           /\ UNCHANGED <<prog, last_pass, addr, variables, active_lang, jmp_cache,
                          out, result>>
  <2>1. labels' \in [Names -> (0..NintMax) \cup {NotDeclared}]
    BY <1>1, <1>4 DEF IInv, TypeOK
  <2>2. Well(stack)' /\ stack' \in Seq(Frame)
    BY <1>1, <1>4, AdvancedNext
  <2> QED
    BY <1>4, <2>1, <2>2 DEF IInv, TypeOK
<1> QED
  BY <1>2, <1>3, <1>4 DEF EvalLabel

LEMMA OrgKeeps == ASSUME IInv, EvalOrg PROVE IInv'
<1>1. stack # << >> /\ Stmt.expr \in Exprs
  BY StatementIs, ExprIs DEF EvalOrg
<1>2. CASE Fail
  BY <1>2, EndsKeeps DEF Fail
<1> DEFINE val == Value(Stmt.expr, variables)
<1>3. CASE /\ ExprOK(Stmt.expr, variables) /\ ~(val < 0)
           /\ addr' = val /\ stack' = Advanced(stack)
           /\ UNCHANGED <<prog, last_pass, variables, labels, active_lang,
                          jmp_cache, out, result>>
  <2>1. variables \in Env /\ addr \in 0..NintMax
    BY DEF IInv, TypeOK, Env
  <2>2. val \in Nint
    BY <1>1, <1>3, <2>1, ExprValue
  <2> HIDE DEF val
  <2>3. addr' \in 0..NintMax
    BY <1>3, <2>2, LayoutAssumption DEF Nint, NintMin
  <2>4. Well(stack)' /\ stack' \in Seq(Frame)
    BY <1>1, <1>3, AdvancedNext
  <2> QED
    BY <1>3, <2>3, <2>4 DEF IInv, TypeOK
<1> QED
  BY <1>2, <1>3 DEF EvalOrg

LEMMA SpaceKeeps == ASSUME IInv, EvalSpace PROVE IInv'
<1>1. stack # << >> /\ Stmt \in Statements /\ Stmt.op = "SPACE"
  BY StatementIs DEF EvalSpace
<1>2. /\ Stmt.type \in SpaceTypes /\ Stmt.len \in Pos
      /\ Stmt.align_per_el \in Pos /\ Stmt.align_start \in Pos
  BY <1>1, SpaceIs
<1>3. addr \in Nat /\ jmp_cache \in Entries /\ Len(jmp_cache) <= JMP_CACHE_MAX
  BY NintIs DEF IInv, TypeOK, Entries
<1>4. CASE Fail \/ Crash
  BY <1>4, EndsKeeps DEF Fail, Crash
<1> DEFINE size == TypeSize(Stmt.type)
           total == ArrayTotal(addr, Stmt.len, size, Stmt.align_per_el, Stmt.align_start)
<1>5. CASE /\ active_lang \in Langs /\ CanAdvance(total)
           /\ Advance(total, SpaceBytes(size, Stmt)) /\ UNCHANGED jmp_cache
  <2>1. size \in Nat
    BY <1>2, <1>5, TypeSizeIs
  <2> HIDE DEF size
  <2>2. SpaceBytes(size, Stmt) \in Nat /\ total = SpaceBytes(size, Stmt)
    BY <1>2, <1>3, <2>1, SpaceIsTotal
  <2> HIDE DEF total
  <2>3. total \in Int /\ jmp_cache' \in Entries /\ Len(jmp_cache') <= JMP_CACHE_MAX
    BY <1>3, <1>5, <2>2
  <2> QED
    BY <1>1, <1>5, <2>2, <2>3, AdvanceKeeps
<1> QED
  BY <1>4, <1>5 DEF EvalSpace

LEMMA StringKeeps == ASSUME IInv, EvalString PROVE IInv'
<1>1. stack # << >> /\ Stmt.len \in Nat /\ Stmt.align_start \in Pos
  BY StatementIs, StringIs DEF EvalString
<1>2. addr \in Nat /\ jmp_cache \in Entries /\ Len(jmp_cache) <= JMP_CACHE_MAX
  BY NintIs DEF IInv, TypeOK, Entries
<1>3. CASE Fail \/ Crash
  BY <1>3, EndsKeeps DEF Fail, Crash
<1> DEFINE n == Stmt.len  a == Stmt.align_start
           total == ArrayTotal(addr, 1, n, a, 1)
           bytes == (ArrayStart(addr, a, 1) - addr) + n
<1>4. CASE CanAdvance(total) /\ Advance(total, bytes) /\ UNCHANGED jmp_cache
  <2>1. bytes \in Nat /\ total = bytes
    BY <1>1, <1>2, StringIsTotal
  <2> HIDE DEF total, bytes
  <2>2. total \in Int /\ jmp_cache' \in Entries /\ Len(jmp_cache') <= JMP_CACHE_MAX
    BY <1>2, <1>4, <2>1
  <2> QED
    BY <1>1, <1>4, <2>1, <2>2, AdvanceKeeps
<1> QED
  BY <1>3, <1>4 DEF EvalString, Overflow

LEMMA AlignKeeps == ASSUME IInv, EvalAlign PROVE IInv'
<1>1. stack # << >> /\ Stmt.expr \in Exprs
  BY StatementIs, ExprIs DEF EvalAlign
<1>2. /\ addr \in Nat /\ jmp_cache \in Entries /\ Len(jmp_cache) <= JMP_CACHE_MAX
      /\ variables \in Env /\ addr \in 0..NintMax
  BY NintIs DEF IInv, TypeOK, Entries, Env
<1>3. CASE Fail \/ Crash
  BY <1>3, EndsKeeps DEF Fail, Crash
<1> DEFINE val == Value(Stmt.expr, variables)
           n == Aligned(addr, val) - addr
<1>4. CASE /\ ExprOK(Stmt.expr, variables) /\ ~(val < 0) /\ AlignOK(addr, val)
           /\ CanAdvance(n) /\ Advance(n, n) /\ UNCHANGED jmp_cache
  <2>1. val \in Int
    BY <1>1, <1>2, <1>4, ExprValue
  <2> HIDE DEF val
  <2>2. val \in Pos
    BY <1>4, <2>1 DEF AlignOK, Pos
  <2>3. n \in Nat
    <3>1. Aligned(addr, val) \in Nat /\ addr <= Aligned(addr, val)
      BY <1>2, <2>2, AlignedIsLowest
    <3> QED
      BY <1>2, <3>1
  <2> HIDE DEF n
  <2>4. n \in Int /\ jmp_cache' \in Entries /\ Len(jmp_cache') <= JMP_CACHE_MAX
    BY <1>2, <1>4, <2>3
  <2> QED
    BY <1>1, <1>4, <2>3, <2>4, AdvanceKeeps
<1> QED
  BY <1>3, <1>4 DEF EvalAlign, Overflow

LEMMA InstructionKeeps == ASSUME IInv, EvalInstruction PROVE IInv'
<1>1. Executing("INSTRUCTION")
  BY DEF EvalInstruction
<1>2. stack # << >>
  BY <1>1, StatementIs
<1>3. CASE Fail \/ Crash
  BY <1>3, EndsKeeps DEF Fail, Crash
<1>4. CASE /\ active_lang \in Langs /\ InstructionOK
           /\ jmp_cache' = IF active_lang = "6502" THEN jmp_cache
                           ELSE X86!CacheAfter(Form, Operand, addr, last_pass, jmp_cache)
           /\ IF CanAdvance(InstructionSize)
              THEN Advance(InstructionSize, InstructionSize)
              ELSE /\ out' = IF last_pass THEN out + InstructionSize ELSE out
                   /\ result' = "FAIL"
                   /\ UNCHANGED <<prog, last_pass, stack, addr, variables, labels,
                                  active_lang>>
  <2>1. InstructionSize \in Nat /\ InstructionSize \in Int
    BY <1>1, <1>4, InstructionSizeIs
  <2>2. jmp_cache' \in Entries /\ Len(jmp_cache') <= JMP_CACHE_MAX
    BY <1>4, CacheIs DEF IInv, TypeOK, Entries
  <2>3. CASE CanAdvance(InstructionSize)
    BY <1>2, <1>4, <2>1, <2>2, <2>3, AdvanceKeeps
  <2>4. CASE ~CanAdvance(InstructionSize)
    <3>1. out' \in Nat
      BY <1>4, <2>1, <2>4 DEF IInv, TypeOK
    <3>2. TypeOK'
      BY <1>4, <2>2, <2>4, <3>1 DEF IInv, TypeOK, Entries
    <3>3. Well(stack)'
      BY <1>4, <2>4, WellNext DEF IInv
    <3> QED
      BY <3>2, <3>3 DEF IInv
  <2> QED
    BY <2>3, <2>4
<1> QED
  BY <1>1, <1>3, <1>4 DEF EvalInstruction

\* The body of the file, at its start.
FirstFrame == [body |-> 1, pc |-> 1, loop |-> "NONE", left |-> 0]

LEMMA StartWell ==
  ASSUME prog \in Programs
  PROVE  Well(<<FirstFrame>>)
<1>1. 1 \in DOMAIN prog /\ 1 \notin Inside
  BY ProgramIsProgram, InsideIs DEF IsProgram, AreInsideLoops
<1>2. FirstFrame \in Frame /\ FirstFrame.body = 1 /\ FirstFrame.loop = "NONE"
  BY DEF FirstFrame, Frame
<1>3. /\ <<FirstFrame>> \in Seq(Frame) /\ Len(<<FirstFrame>>) = 1
      /\ <<FirstFrame>>[1] = FirstFrame
  BY <1>2
<1>4. \A i \in 1..Len(<<FirstFrame>>) : i = 1
  BY <1>3
<1> QED
  BY <1>1, <1>2, <1>3, <1>4 DEF Well, InTree, Looped, Matches

LEMMA StartLastPassKeeps == ASSUME IInv, StartLastPass PROVE IInv'
<1>1. stack' = <<FirstFrame>> /\ prog' = prog /\ Well(<<FirstFrame>>)
  BY StartWell DEF IInv, TypeOK, StartLastPass, FirstFrame
<1>2. Well(stack)' /\ stack' \in Seq(Frame)
  BY <1>1, WellNext DEF Well
<1>3. variables' \in [Names -> Nint \cup {NotDeclared}] /\ addr' \in 0..NintMax
  BY NintIs, LayoutAssumption DEF StartLastPass
<1> QED
  BY <1>2, <1>3 DEF IInv, TypeOK, StartLastPass

LEMMA FinishKeeps == ASSUME IInv, Finish PROVE IInv'
BY EndsKeeps DEF Finish

LEMMA InitOK == Init => IInv
<1> SUFFICES ASSUME Init
             PROVE  IInv
  OBVIOUS
<1>1. stack = <<FirstFrame>> /\ Well(<<FirstFrame>>)
  BY StartWell DEF Init, FirstFrame
<1>2. jmp_cache \in Entries /\ Len(jmp_cache) <= JMP_CACHE_MAX
  BY EmptySeq, TwoPassAssumption DEF Init, Entries
<1>3. addr \in 0..NintMax /\ out \in Nat
  BY LayoutAssumption DEF Init
<1>4. TypeOK
  BY <1>1, <1>2, <1>3, TwoPassAssumption DEF Init, TypeOK, Well, Entries
<1> QED
  BY <1>1, <1>4 DEF IInv

LEMMA StepKeeps == IInv /\ [Next]_vars => IInv'
<1> SUFFICES ASSUME IInv, [Next]_vars
             PROVE  IInv'
  OBVIOUS
<1>1. CASE UNCHANGED vars
  <2>1. TypeOK'
    BY <1>1 DEF IInv, TypeOK, vars
  <2>2. Well(stack)'
    BY <1>1, WellNext DEF IInv, vars
  <2> QED
    BY <2>1, <2>2 DEF IInv
<1>2. CASE Next
  BY <1>2, AssignKeeps, AugmentedAssignKeeps, DelKeeps, IfKeeps, WhileKeeps, RepeatKeeps,
     EndBodyKeeps, BreakKeeps, ContinueKeeps, AssertKeeps, ErrorKeeps, CodeKeeps,
     LabelKeeps, OrgKeeps, SpaceKeeps, StringKeeps, AlignKeeps, InstructionKeeps,
     StartLastPassKeeps, FinishKeeps DEF Next
<1> QED
  BY <1>1, <1>2

LEMMA Invariant == Spec => []IInv
BY InitOK, StepKeeps, PTL DEF Spec

\* Values and addresses stay integers, the jump cache within its bound.
THEOREM TypeCorrect == Spec => []TypeOK
<1>1. IInv => TypeOK
  BY DEF IInv
<1> QED
  BY <1>1, Invariant, PTL

\* Every activation of eval_ast runs a body of the statement its caller is at.
THEOREM StackCorrect == Spec => []StackMatchesTree
<1>1. IInv => StackMatchesTree
  BY DEF IInv, Well, Matches, Called, StackMatchesTree
<1> QED
  BY <1>1, Invariant, PTL

----------------------------------------------------------------------------
(* What a step writes                                                      *)

Written ==
  LET moved == result' = "running" /\ last_pass = last_pass' /\ ~Executing("ORG")
  IN  IF last_pass THEN moved => out' - out = addr' - addr ELSE out' = out

LEMMA StandsStill ==
  ASSUME IInv, UNCHANGED <<addr, out>>
  PROVE  Written
BY NintIs DEF IInv, TypeOK, Written

LEMMA Stops ==
  ASSUME NEW r \in {"SUCCESS", "FAIL", "CRASH"}, Ends(r)
  PROVE  Written
BY DEF Ends, Written

LEMMA MovesOver ==
  ASSUME IInv, NEW n \in Nat, NEW bytes, bytes = n, Advance(n, bytes)
  PROVE  Written
<1>1. addr \in Nat /\ out \in Nat
  BY NintIs DEF IInv, TypeOK
<1> QED
  BY <1>1 DEF Advance, Written

LEMMA SpaceWrites == ASSUME IInv, EvalSpace PROVE Written
<1>1. /\ Stmt.type \in SpaceTypes /\ Stmt.len \in Pos
      /\ Stmt.align_per_el \in Pos /\ Stmt.align_start \in Pos
  BY StatementIs, SpaceIs DEF EvalSpace
<1>2. addr \in Nat
  BY NintIs DEF IInv, TypeOK
<1>3. CASE Fail \/ Crash
  BY <1>3, Stops DEF Fail, Crash
<1> DEFINE size == TypeSize(Stmt.type)
           total == ArrayTotal(addr, Stmt.len, size, Stmt.align_per_el, Stmt.align_start)
<1>4. CASE active_lang \in Langs /\ Advance(total, SpaceBytes(size, Stmt))
  <2>1. size \in Nat
    BY <1>1, <1>4, TypeSizeIs
  <2> HIDE DEF size
  <2>2. SpaceBytes(size, Stmt) \in Nat /\ total = SpaceBytes(size, Stmt)
    BY <1>1, <1>2, <2>1, SpaceIsTotal
  <2> HIDE DEF total
  <2> QED
    BY <1>4, <2>2, MovesOver
<1> QED
  BY <1>3, <1>4 DEF EvalSpace

LEMMA StringWrites == ASSUME IInv, EvalString PROVE Written
<1>1. Stmt.len \in Nat /\ Stmt.align_start \in Pos
  BY StatementIs, StringIs DEF EvalString
<1>2. addr \in Nat
  BY NintIs DEF IInv, TypeOK
<1>3. CASE Fail \/ Crash
  BY <1>3, Stops DEF Fail, Crash
<1> DEFINE n == Stmt.len  a == Stmt.align_start
           total == ArrayTotal(addr, 1, n, a, 1)
           bytes == (ArrayStart(addr, a, 1) - addr) + n
<1>4. CASE Advance(total, bytes)
  <2>1. bytes \in Nat /\ total = bytes
    BY <1>1, <1>2, StringIsTotal
  <2> HIDE DEF total, bytes
  <2> QED
    BY <1>4, <2>1, MovesOver
<1> QED
  BY <1>3, <1>4 DEF EvalString, Overflow

LEMMA AlignWrites == ASSUME IInv, EvalAlign PROVE Written
<1>1. Stmt.expr \in Exprs
  BY StatementIs, ExprIs DEF EvalAlign
<1>2. variables \in Env /\ addr \in 0..NintMax /\ addr \in Nat
  BY NintIs DEF IInv, TypeOK, Env
<1>3. CASE Fail \/ Crash
  BY <1>3, Stops DEF Fail, Crash
<1> DEFINE val == Value(Stmt.expr, variables)
           n == Aligned(addr, val) - addr
<1>4. CASE ExprOK(Stmt.expr, variables) /\ AlignOK(addr, val) /\ Advance(n, n)
  <2>1. val \in Int
    BY <1>1, <1>2, <1>4, ExprValue
  <2> HIDE DEF val
  <2>2. val \in Pos
    BY <1>4, <2>1 DEF AlignOK, Pos
  <2>3. n \in Nat
    <3>1. Aligned(addr, val) \in Nat /\ addr <= Aligned(addr, val)
      BY <1>2, <2>2, AlignedIsLowest
    <3> QED
      BY <1>2, <3>1
  <2> HIDE DEF n
  <2> QED
    BY <1>4, <2>3, MovesOver
<1> QED
  BY <1>3, <1>4 DEF EvalAlign, Overflow

LEMMA InstructionWrites == ASSUME IInv, EvalInstruction PROVE Written
<1>1. Executing("INSTRUCTION")
  BY DEF EvalInstruction
<1>2. CASE Fail \/ Crash
  BY <1>2, Stops DEF Fail, Crash
<1>3. CASE /\ active_lang \in Langs /\ InstructionOK
           /\ Advance(InstructionSize, InstructionSize)
  <2>1. InstructionSize \in Nat
    BY <1>1, <1>3, InstructionSizeIs
  <2> QED
    BY <1>3, <2>1, MovesOver
<1>4. CASE /\ out' = IF last_pass THEN out + InstructionSize ELSE out
           /\ result' = "FAIL"
  BY <1>4 DEF Written
<1> QED
  BY <1>2, <1>3, <1>4 DEF EvalInstruction

LEMMA StepWrites == ASSUME IInv, Next PROVE Written
<1>1. CASE EvalAssign
  BY <1>1, StandsStill, Stops DEF EvalAssign, Fail
<1>2. CASE EvalAugmentedAssign
  BY <1>2, StandsStill, Stops DEF EvalAugmentedAssign, Fail
<1>3. CASE EvalDel \/ EvalCode
  BY <1>3, StandsStill DEF EvalDel, EvalCode
<1>4. CASE EvalIf
  BY <1>4, StandsStill, Stops DEF EvalIf, Goto, Fail
<1>5. CASE EvalWhile \/ EvalRepeat
  BY <1>5, StandsStill, Stops DEF EvalWhile, EvalRepeat, Goto, Fail
<1>6. CASE EndBody \/ EvalBreak \/ EvalContinue
  BY <1>6, StandsStill DEF EndBody, EvalBreak, EvalContinue, Goto
<1>7. CASE EvalAssert \/ EvalError
  BY <1>7, StandsStill, Stops DEF EvalAssert, EvalError, Goto, Fail
<1>8. CASE EvalLabel
  BY <1>8, StandsStill, Stops DEF EvalLabel, Goto, Fail
<1>9. CASE EvalOrg
  BY <1>9, Stops DEF EvalOrg, Fail, Written
<1>10. CASE StartLastPass
  BY <1>10 DEF StartLastPass, Written
<1>11. CASE Finish
  BY <1>11, Stops DEF Finish
<1> QED
  BY <1>1, <1>2, <1>3, <1>4, <1>5, <1>6, <1>7, <1>8, <1>9, <1>10, <1>11,
     SpaceWrites, StringWrites, AlignWrites, InstructionWrites DEF Next

\* The last pass writes what it moves over, the first one nothing.
THEOREM OutputCorrect == Spec => OutputMatchesLayout
<1>1. IInv /\ [Next]_vars => [Written]_vars
  BY StepWrites
<1>2. [][Written]_vars => OutputMatchesLayout
  BY PTL DEF OutputMatchesLayout, Written
<1> QED
  BY <1>1, <1>2, Invariant, PTL DEF Spec

----------------------------------------------------------------------------
(* The last pass repeats the first.  A statement of the first pass leads   *)
(* from one entry a of the log to the next one b; what it needed for that  *)
(* is in a, in the tree and in labels that were declared before, and those *)
(* the last pass finds again.                                              *)

AtomAt(x, env, at) ==
  CASE x.k = "LITERAL" -> x.n
    [] x.k = "VAR"     -> env[x.name]
    [] x.k = "DOLLAR"  -> at

ValueAt(e, env, at) ==
  IF e.k # "BINOP" THEN AtomAt(e, env, at)
  ELSE LET l == AtomAt(e.left, env, at)  r == AtomAt(e.right, env, at)
       IN  CASE e.op = "PLUS"    -> l + r
             [] e.op = "MINUS"   -> l - r
             [] e.op = "LESS"    -> Truth(l < r)
             [] e.op = "EQEQUAL" -> Truth(l = r)

ExprOKAt(e, env, at) ==
  IF e.k # "BINOP" THEN AtomOK(e, env)
  ELSE AtomOK(e.left, env) /\ AtomOK(e.right, env) /\ IsNint(ValueAt(e, env, at))

\* An expression of the statement that entry a starts from.
Val(e, a) == ValueAt(e, a.variables, a.addr)
OK(e, a)  == ExprOKAt(e, a.variables, a.addr)

CanAdvanceAt(n, a) ==
  n = 0 \/ (a.lang \in Langs /\ IncrementOK(a.addr, n, MaxAddr[a.lang]))

TypeSizeAt(type, lang) ==
  CASE type = "BYTE"  -> 1
    [] type = "WORD"  -> 2
    [] type = "DWORD" -> 4
    [] type = "QWORD" -> 8
    [] type = "PTR"   -> SizeOfPtr[lang]

ResolvedIn(arg, env, lab) ==
  CASE arg.k = "NONE" ->
         [named |-> FALSE, unresolved |-> FALSE, value |-> 0, selector |-> "NONE"]
    [] arg.k = "NUMBER" ->
         [named |-> FALSE, unresolved |-> FALSE, value |-> arg.n, selector |-> arg.selector]
    [] arg.k = "NAME" ->
         [named      |-> TRUE,
          unresolved |-> env[arg.name] = NotDeclared /\ lab[arg.name] = NotDeclared,
          value      |-> IF env[arg.name] # NotDeclared THEN env[arg.name]
                         ELSE IF lab[arg.name] # NotDeclared THEN lab[arg.name] ELSE 0,
          selector   |-> arg.selector]

\* What the size of a 6502 instruction is taken from.
Bare(arg) ==
  [named |-> arg.k = "NAME", value |-> IF arg.k = "NUMBER" THEN arg.n ELSE 0,
   selector |-> IF arg.k = "NONE" THEN "NONE" ELSE arg.selector]

\* Only the place in the tree changed.
Went(a, b, s) ==
  b.stack = s /\ b.addr = a.addr /\ b.variables = a.variables /\ b.lang = a.lang

\* One variable did.
Stored(a, b, name, value) ==
  /\ b.stack = Advanced(a.stack) /\ b.addr = a.addr /\ b.lang = a.lang
  /\ b.variables = [a.variables EXCEPT ![name] = value]

\* The address did.
Moved(a, b, at) ==
  b.stack = Advanced(a.stack) /\ b.addr = at /\ b.variables = a.variables /\ b.lang = a.lang

\* The statement that an entry of the log is at.
AtIn(p, a) == p[a.stack[Len(a.stack)].body][a.stack[Len(a.stack)].pc]

IsAtStatement(p, a) ==
  a.stack # << >> /\ a.stack[Len(a.stack)].pc <= Len(p[a.stack[Len(a.stack)].body])

RanAssign(p, a, b) ==
  LET s == AtIn(p, a)
      old == a.variables[s.name]
  IN  /\ OK(s.expr, a)
      /\ s.ass_type = "EQUAL" =>
           /\ ~(old = NotDeclared /\ Reads(s.expr, s.name))
           /\ Stored(a, b, s.name, Val(s.expr, a))
      /\ s.ass_type = "PLUSEQUAL" =>
           /\ old # NotDeclared /\ IsNint(old + Val(s.expr, a))
           /\ Stored(a, b, s.name, old + Val(s.expr, a))

Deciding(branches, a) ==
  LET Decides(i) == ~OK(branches[i].cond, a) \/ Val(branches[i].cond, a) # 0
  IN  {i \in DOMAIN branches : Decides(i) /\ \A j \in 1..(i - 1) : ~Decides(j)}

RanIf(p, a, b) ==
  LET c == AtIn(p, a).branches
  IN  /\ Deciding(c, a) = {} => Went(a, b, Advanced(a.stack))
      /\ \A i \in Deciding(c, a) :
           OK(c[i].cond, a) /\ Went(a, b, Entered(a.stack, c[i].body, "NONE", 0))

RanWhile(p, a, b) ==
  /\ OK(AtIn(p, a).expr, a)
  /\ Went(a, b, IF Val(AtIn(p, a).expr, a) # 0 THEN Entered(a.stack, AtIn(p, a).body, "WHILE", 0)
                ELSE Advanced(a.stack))

RanRepeat(p, a, b) ==
  LET n == Val(AtIn(p, a).expr, a)
  IN  /\ OK(AtIn(p, a).expr, a) /\ ~(n < 0)
      /\ Went(a, b, IF n = 0 THEN Advanced(a.stack)
                    ELSE Entered(a.stack, AtIn(p, a).body, "REPEAT", n - 1))

RanAssert(p, a, b) ==
  OK(AtIn(p, a).expr, a) /\ Val(AtIn(p, a).expr, a) # 0 /\ Went(a, b, Advanced(a.stack))

RanCode(p, a, b) ==
  /\ b.stack = Advanced(a.stack) /\ b.addr = a.addr /\ b.variables = a.variables
  /\ b.lang = AtIn(p, a).lang

RanLabel(p, a, b, lab) == Went(a, b, Advanced(a.stack)) /\ lab[AtIn(p, a).name] = a.addr

RanOrg(p, a, b) ==
  /\ a.lang # NoLang /\ OK(AtIn(p, a).expr, a) /\ ~(Val(AtIn(p, a).expr, a) < 0)
  /\ Moved(a, b, Val(AtIn(p, a).expr, a))

RanSpace(p, a, b) ==
  LET s == AtIn(p, a)
      size  == TypeSizeAt(s.type, a.lang)
      total == ArrayTotal(a.addr, s.len, size, s.align_per_el, s.align_start)
  IN  /\ a.lang \in Langs
      /\ ArrayOK(a.addr, s.len, size, s.align_per_el, s.align_start)
      /\ OK(s.value, a) /\ CanAdvanceAt(total, a)
      /\ Moved(a, b, a.addr + total)

RanString(p, a, b) ==
  LET s == AtIn(p, a)
      total == ArrayTotal(a.addr, 1, s.len, s.align_start, 1)
  IN  /\ a.lang # NoLang
      /\ CanAdvanceAt(s.len, a) /\ ArrayOK(a.addr, 1, s.len, s.align_start, 1)
      /\ CanAdvanceAt(total, a)
      /\ Moved(a, b, a.addr + total)

RanAlign(p, a, b) ==
  LET val == Val(AtIn(p, a).expr, a)
      n   == Aligned(a.addr, val) - a.addr
  IN  /\ a.lang # NoLang /\ OK(AtIn(p, a).expr, a) /\ ~(val < 0)
      /\ AlignOK(a.addr, val) /\ CanAdvanceAt(n, a)
      /\ Moved(a, b, a.addr + n)

RanInstruction(p, a, b, lab) ==
  LET s == AtIn(p, a)
      f == s.form[a.lang]
      o == ResolvedIn(s.arg, a.variables, lab)
      size == b.addr - a.addr
  IN  /\ a.lang \in Langs /\ f # "unknown"
      /\ (f \in {"implied", "plain"}) = (s.arg.k = "NONE")
      /\ Moved(a, b, a.addr + size) /\ CanAdvanceAt(size, a)
      /\ a.lang = "6502" => size = M6502!Size(f, Bare(s.arg))
      /\ a.lang = "i386" =>
           /\ f = "jmp" => size \in {2, 3}
           /\ f # "jmp" => size = X86!Size(f, o, a.addr, FALSE, << >>)
           /\ f \in X86!ValueSized => ~o.unresolved
      /\ ~DecidedLate(s) =>
           IF a.lang = "6502" THEN M6502!Accepts(f, o, a.addr, FALSE)
           ELSE X86!Accepts(f, o, a.addr, size, FALSE)

RanStatement(p, a, b, lab) ==
  LET op == AtIn(p, a).op
  IN  /\ op # "ERROR"
      /\ op = "ASSIGN_VAR" => RanAssign(p, a, b)
      /\ op = "DEL" => Stored(a, b, AtIn(p, a).name, NotDeclared)
      /\ op = "IF" => RanIf(p, a, b)
      /\ op = "WHILE" => RanWhile(p, a, b)
      /\ op = "REPEAT" => RanRepeat(p, a, b)
      /\ op = "BREAK" => Went(a, b, Broken(a.stack))
      /\ op = "CONTINUE" => Went(a, b, Resumed(Unwound(a.stack)))
      /\ op = "ASSERT" => RanAssert(p, a, b)
      /\ op = "CODE" => RanCode(p, a, b)
      /\ op = "LABEL" => RanLabel(p, a, b, lab)
      /\ op = "ORG" => RanOrg(p, a, b)
      /\ op = "SPACE" => RanSpace(p, a, b)
      /\ op = "STRING" => RanString(p, a, b)
      /\ op = "ALIGN" => RanAlign(p, a, b)
      /\ op = "INSTRUCTION" => RanInstruction(p, a, b, lab)

Ran(p, a, b, lab) ==
  /\ a.stack # << >>
  /\ IF IsAtStatement(p, a)
     THEN AtIn(p, a) \in Statements /\ RanStatement(p, a, b, lab)
     ELSE Went(a, b, Resumed(a.stack))

----------------------------------------------------------------------------
(* The invariant of the history                                            *)

Snapshots ==
  [stack : Seq(Frame), addr : 0..NintMax, variables : Env,
   lang : Langs \cup {NoLang, WildLang}]

\* What a pass starts from, but for the language it starts with.
IsStart(a) ==
  /\ a.stack = <<FirstFrame>> /\ a.addr = 0
  /\ a.variables = [n \in Names |-> NotDeclared]

\* A language stays chosen, and a pointer to one is not forgotten.
LangKept(before, now) ==
  (before \in Langs => now = before) /\ (before # NoLang => now # NoLang)

Agrees(now, before) ==
  /\ now.stack = before.stack /\ now.addr = before.addr
  /\ now.variables = before.variables /\ LangKept(before.lang, now.lang)

LateIn(p) == \E b \in DOMAIN p : \E i \in DOMAIN p[b] : DecidedLate(p[b][i])

\* In the first pass every entry leads to the next, the last one to the state.
Recorded ==
  /\ log = << >> => IsStart(Snapshot) /\ active_lang \notin Langs
  /\ log # << >> =>
       /\ IsStart(log[1]) /\ log[1].lang \notin Langs
       /\ LangKept(log[1].lang, active_lang)
  /\ exact =>
       \A i \in 1..Len(log) :
         Ran(prog, log[i], IF i = Len(log) THEN Snapshot ELSE log[i + 1], labels)

\* In the last pass the log is complete.
Complete ==
  /\ log # << >> /\ log[Len(log)].stack = << >>
  /\ exact => \A i \in 1..(Len(log) - 1) : Ran(prog, log[i], log[i + 1], labels)

HInv ==
  /\ IInv
  /\ log \in Seq(Snapshots) /\ clock \in Nat /\ exact \in BOOLEAN
  /\ ~last_pass => clock = 0 /\ (result = "running" => Recorded)
  /\ last_pass =>
       /\ Complete
       /\ Repeatable /\ result = "running" =>
            clock < Len(log) /\ Agrees(Snapshot, log[clock + 1])
       /\ Repeatable /\ ~LateIn(prog) => result \in {"running", "SUCCESS"}

----------------------------------------------------------------------------
(* What a statement of either pass has done                                *)

\* An entry of the log that the state agrees with is read like the state.
LEMMA Seen ==
  ASSUME NEW a, Agrees(Snapshot, a)
  PROVE  /\ a.stack = stack /\ a.addr = addr /\ a.variables = variables
         /\ AtIn(prog, a) = Stmt
         /\ \A e \in Exprs : Val(e, a) = Value(e, variables)
         /\ \A e \in Exprs : OK(e, a) <=> ExprOK(e, variables)
         /\ \A n : CanAdvanceAt(n, a) => CanAdvance(n)
         /\ a.lang \in Langs => active_lang = a.lang
         /\ a.lang # NoLang => active_lang # NoLang
<1>1. a.stack = stack /\ a.addr = addr /\ a.variables = variables
      /\ LangKept(a.lang, active_lang)
  BY DEF Agrees, Snapshot
<1>2. AtIn(prog, a) = Stmt
  BY <1>1 DEF AtIn, Stmt, Top
<1>3. \A x, env : AtomAt(x, env, addr) = Atom(x, env)
  BY DEF AtomAt, Atom
<1>4. \A e \in Exprs : \A env : ValueAt(e, env, addr) = Value(e, env)
  <2> TAKE e \in Exprs
  <2> TAKE env
  <2>1. /\ AtomAt(e, env, addr) = Atom(e, env)
        /\ AtomAt(e.left, env, addr) = Atom(e.left, env)
        /\ AtomAt(e.right, env, addr) = Atom(e.right, env)
    BY <1>3
  <2>2. e.k = "BINOP" => e.op \in Operators
    BY DEF Exprs, Atoms
  <2> QED
    BY <2>1, <2>2 DEF ValueAt, Value, Operators
<1>5. \A e \in Exprs : \A env : ExprOKAt(e, env, addr) <=> ExprOK(e, env)
  BY <1>4 DEF ExprOKAt, ExprOK
<1>6. \A n : CanAdvanceAt(n, a) => CanAdvance(n)
  BY <1>1 DEF CanAdvanceAt, CanAdvance, LangKept
<1> QED
  BY <1>1, <1>2, <1>4, <1>5, <1>6 DEF Val, OK, LangKept

LEMMA SeenNow ==
  /\ Snapshot.stack = stack /\ Snapshot.addr = addr
  /\ Snapshot.variables = variables /\ Snapshot.lang = active_lang
  /\ AtIn(prog, Snapshot) = Stmt
  /\ \A e \in Exprs : Val(e, Snapshot) = Value(e, variables)
  /\ \A e \in Exprs : OK(e, Snapshot) <=> ExprOK(e, variables)
  /\ \A n : CanAdvanceAt(n, Snapshot) <=> CanAdvance(n)
<1>1. /\ Snapshot.stack = stack /\ Snapshot.addr = addr
      /\ Snapshot.variables = variables /\ Snapshot.lang = active_lang
  BY DEF Snapshot
<1>2. Agrees(Snapshot, Snapshot)
  BY DEF Agrees, LangKept
<1>3. \A n : CanAdvanceAt(n, Snapshot) <=> CanAdvance(n)
  BY <1>1 DEF CanAdvanceAt, CanAdvance
<1> QED
  BY <1>1, <1>2, <1>3, Seen

LEMMA SeenNext ==
  /\ Snapshot'.stack = stack' /\ Snapshot'.addr = addr'
  /\ Snapshot'.variables = variables' /\ Snapshot'.lang = active_lang'
BY DEF Snapshot

\* A value that does not depend on a variable does not change with it.
LEMMA NotRead ==
  ASSUME NEW env \in Env, NEW e \in Exprs, NEW n \in Names, NEW v, ~Reads(e, n)
  PROVE  LET new == [env EXCEPT ![n] = v]
         IN  Value(e, new) = Value(e, env) /\ (ExprOK(e, new) <=> ExprOK(e, env))
<1> DEFINE new == [env EXCEPT ![n] = v]
<1>1. \A x \in Atoms : ~(x.k = "VAR" /\ x.name = n) =>
        /\ Atom(x, new) = Atom(x, env)
        /\ AtomOK(x, new) <=> AtomOK(x, env)
  <2> TAKE x \in Atoms
  <2> HAVE ~(x.k = "VAR" /\ x.name = n)
  <2>1. x.k = "VAR" => x.name \in Names /\ new[x.name] = env[x.name]
    BY DEF Atoms, Env
  <2> HIDE DEF new
  <2> QED
    BY <2>1 DEF Atom, AtomOK
<1> HIDE DEF new
<1>2. CASE e.k # "BINOP"
  <2>1. e \in Atoms /\ ~(e.k = "VAR" /\ e.name = n)
    BY <1>2 DEF Exprs, Reads
  <2> QED
    BY <1>1, <1>2, <2>1 DEF Value, ExprOK, new
<1>3. CASE e.k = "BINOP"
  <2>1. e.left \in Atoms /\ e.right \in Atoms
    BY <1>3 DEF Exprs, Atoms
  <2>2. /\ Atom(e.left, new) = Atom(e.left, env)
        /\ Atom(e.right, new) = Atom(e.right, env)
        /\ AtomOK(e.left, new) <=> AtomOK(e.left, env)
        /\ AtomOK(e.right, new) <=> AtomOK(e.right, env)
    BY <1>1, <1>3, <2>1 DEF Reads
  <2>3. Value(e, new) = Value(e, env)
    BY <1>3, <2>2 DEF Value
  <2> QED
    BY <1>3, <2>2, <2>3 DEF ExprOK, new
<1> QED
  BY <1>2, <1>3

\* A plain assignment that does not guess stores the value it would have anyway.
LEMMA AssignDoes ==
  ASSUME IInv, EvalAssign, ~Guesses
  PROVE  /\ variables[Stmt.name] = NotDeclared => ~Reads(Stmt.expr, Stmt.name)
         /\ \/ ~ExprOK(Stmt.expr, variables) /\ Fail
            \/ /\ ExprOK(Stmt.expr, variables)
               /\ variables' = [variables EXCEPT ![Stmt.name] = Value(Stmt.expr, variables)]
               /\ stack' = Advanced(stack)
               /\ UNCHANGED <<addr, labels, active_lang, result>>
<1>1. Executing("ASSIGN_VAR")
  BY DEF EvalAssign
<1>2. Stmt.name \in Names /\ Stmt.expr \in Exprs
  BY <1>1, StatementIs, AssignIs
<1>3. variables \in Env
  BY DEF IInv, TypeOK, Env
<1>4. variables[Stmt.name] = NotDeclared => ~Reads(Stmt.expr, Stmt.name)
  BY <1>1 DEF Guesses
<1>5. PICK old \in IF variables[Stmt.name] = NotDeclared
                   THEN UninitValues ELSE {variables[Stmt.name]} :
        LET env == [variables EXCEPT ![Stmt.name] = old]
        IN  \/ /\ ExprOK(Stmt.expr, env)
               /\ variables' = [env EXCEPT ![Stmt.name] = Value(Stmt.expr, env)]
               /\ stack' = Advanced(stack)
               /\ UNCHANGED <<prog, last_pass, addr, labels, active_lang,
                              jmp_cache, out, result>>
            \/ ~ExprOK(Stmt.expr, env) /\ Fail
  BY DEF EvalAssign
<1> DEFINE env == [variables EXCEPT ![Stmt.name] = old]
<1>6. /\ Value(Stmt.expr, env) = Value(Stmt.expr, variables)
      /\ ExprOK(Stmt.expr, env) <=> ExprOK(Stmt.expr, variables)
  <2>1. CASE variables[Stmt.name] = NotDeclared
    BY <1>2, <1>3, <1>4, <2>1, NotRead
  <2>2. CASE variables[Stmt.name] # NotDeclared
    <3>1. env = variables
      BY <1>2, <1>3, <1>5, <2>2 DEF Env
    <3> QED
      BY <3>1
  <2> QED
    BY <2>1, <2>2
<1>7. \A v : [env EXCEPT ![Stmt.name] = v] = [variables EXCEPT ![Stmt.name] = v]
  BY <1>2, <1>3 DEF Env
<1> HIDE DEF env
<1> QED
  BY <1>4, <1>5, <1>6, <1>7 DEF env

LEMMA AssignRan ==
  ASSUME IInv, EvalAssign \/ EvalAugmentedAssign, ~Guesses, result' = "running"
  PROVE  RanAssign(prog, Snapshot, Snapshot')
<1>1. CASE EvalAssign
  <2>1. Stmt.ass_type = "EQUAL"
    BY <1>1 DEF EvalAssign
  <2>2. ~Fail /\ Stmt.expr \in Exprs
    BY <1>1, StatementIs, AssignIs DEF EvalAssign, Fail, Ends
  <2> QED
    BY <1>1, <2>1, <2>2, AssignDoes, SeenNow, SeenNext DEF RanAssign, Stored
<1>2. CASE EvalAugmentedAssign
  <2>1. Stmt.ass_type = "PLUSEQUAL"
    BY <1>2 DEF EvalAugmentedAssign
  <2>2. ~Fail /\ Stmt.expr \in Exprs
    BY <1>2, StatementIs, AssignIs DEF EvalAugmentedAssign, Fail, Ends
  <2> QED
    BY <1>2, <2>1, <2>2, SeenNow, SeenNext DEF EvalAugmentedAssign, RanAssign, Stored
<1> QED
  BY <1>1, <1>2

LEMMA AssignRepeats ==
  ASSUME IInv, EvalAssign \/ EvalAugmentedAssign, ~Guesses,
         NEW a, NEW b, Agrees(Snapshot, a), RanAssign(prog, a, b)
  PROVE  result' = "running" /\ Agrees(Snapshot', b)
<1>1. result = "running" /\ Stmt.expr \in Exprs
  BY StatementIs, AssignIs DEF EvalAssign, EvalAugmentedAssign
<1>2. a.stack = stack /\ a.addr = addr /\ a.variables = variables
      /\ AtIn(prog, a) = Stmt /\ (OK(Stmt.expr, a) <=> ExprOK(Stmt.expr, variables))
      /\ Val(Stmt.expr, a) = Value(Stmt.expr, variables)
      /\ LangKept(a.lang, active_lang)
  BY <1>1, Seen, SeenNow DEF Agrees
<1>3. CASE EvalAssign
  <2>1. Stmt.ass_type = "EQUAL"
    BY <1>3 DEF EvalAssign
  <2> QED
    BY <1>1, <1>2, <1>3, <2>1, AssignDoes, SeenNext DEF RanAssign, Stored, Agrees
<1>4. CASE EvalAugmentedAssign
  <2>1. Stmt.ass_type = "PLUSEQUAL"
    BY <1>4 DEF EvalAugmentedAssign
  <2> QED
    BY <1>1, <1>2, <1>4, <2>1, SeenNext DEF EvalAugmentedAssign, RanAssign, Stored, Agrees
<1> QED
  BY <1>3, <1>4

\* Only the place in the tree changes, in both passes alike.
LEMMA GotoRan ==
  ASSUME NEW s, Goto(s)
  PROVE  Went(Snapshot, Snapshot', s)
BY SeenNow, SeenNext DEF Goto, Went

LEMMA GotoRepeats ==
  ASSUME NEW s, Goto(s), result = "running",
         NEW a, NEW b, Agrees(Snapshot, a), Went(a, b, s)
  PROVE  result' = "running" /\ Agrees(Snapshot', b)
BY SeenNow, SeenNext DEF Goto, Went, Agrees

LEMMA NoFail ==
  ASSUME result' = "running"
  PROVE  ~Fail /\ ~Crash
BY DEF Fail, Crash, Ends

LEMMA DelRan ==
  ASSUME EvalDel
  PROVE  Stored(Snapshot, Snapshot', Stmt.name, NotDeclared)
BY SeenNow, SeenNext DEF EvalDel, Stored

LEMMA DelRepeats ==
  ASSUME EvalDel, NEW a, NEW b, Agrees(Snapshot, a), Stored(a, b, Stmt.name, NotDeclared)
  PROVE  result' = "running" /\ Agrees(Snapshot', b)
BY SeenNow, SeenNext DEF EvalDel, Executing, Stored, Agrees

\* The branches decide alike for an entry that reads like the state.
LEMMA DecidingIs ==
  ASSUME IInv, Executing("IF"), NEW a,
         \A e \in Exprs : Val(e, a) = Value(e, variables) /\ (OK(e, a) <=> ExprOK(e, variables))
  PROVE  LET c == Stmt.branches
             Decides(i) == ~ExprOK(c[i].cond, variables) \/ Holds(c[i].cond)
         IN  /\ \A i \in DOMAIN c : c[i].cond \in Exprs
             /\ Deciding(c, a) =
                  {i \in DOMAIN c : Decides(i) /\ \A j \in 1..(i - 1) : ~Decides(j)}
<1> DEFINE c == Stmt.branches
           Decides(i) == ~ExprOK(c[i].cond, variables) \/ Holds(c[i].cond)
           DecidesAt(i) == ~OK(c[i].cond, a) \/ Val(c[i].cond, a) # 0
<1>1. c \in Seq([cond : Exprs, body : Nat])
  BY StatementIs, IfIs
<1>2. DOMAIN c = 1..Len(c) /\ Len(c) \in Nat
  BY <1>1, LenProperties
<1>3. \A i \in DOMAIN c : c[i].cond \in Exprs
  <2>1. \A i \in DOMAIN c : c[i] \in [cond : Exprs, body : Nat]
    BY <1>1, <1>2, ElementOfSeq
  <2> QED
    BY <2>1
<1> HIDE DEF c
<1>4. \A i \in DOMAIN c : DecidesAt(i) <=> Decides(i)
  BY <1>3 DEF Holds
<1> HIDE DEF Decides, DecidesAt
<1>5. \A i \in DOMAIN c : \A j \in 1..(i - 1) : j \in DOMAIN c
  BY <1>2
<1>6. {i \in DOMAIN c : DecidesAt(i) /\ \A j \in 1..(i - 1) : ~DecidesAt(j)}
        = {i \in DOMAIN c : Decides(i) /\ \A j \in 1..(i - 1) : ~Decides(j)}
  BY <1>4, <1>5
<1> QED
  BY <1>3, <1>6 DEF Deciding, c, Decides, DecidesAt

LEMMA IfRan ==
  ASSUME IInv, EvalIf, result' = "running"
  PROVE  RanIf(prog, Snapshot, Snapshot')
<1> DEFINE c == Stmt.branches
           Decides(i) == ~ExprOK(c[i].cond, variables) \/ Holds(c[i].cond)
           deciding == {i \in DOMAIN c : Decides(i) /\ \A j \in 1..(i - 1) : ~Decides(j)}
<1>1. /\ \A i \in DOMAIN c : c[i].cond \in Exprs
      /\ Deciding(c, Snapshot) = deciding
  BY SeenNow, DecidingIs DEF EvalIf
<1>2. c \in Seq([cond : Exprs, body : Nat])
  BY StatementIs, IfIs DEF EvalIf
<1>3. DOMAIN c = 1..Len(c) /\ Len(c) \in Nat
  BY <1>2, LenProperties
<1>4. \A i, j \in deciding : i = j
  <2> SUFFICES ASSUME NEW i \in deciding, NEW j \in deciding
               PROVE  i = j
    OBVIOUS
  <2>1. i \in 1..Len(c) /\ j \in 1..Len(c) /\ Decides(i) /\ Decides(j)
        /\ (\A k \in 1..(i - 1) : ~Decides(k)) /\ (\A k \in 1..(j - 1) : ~Decides(k))
    BY <1>3
  <2> HIDE DEF Decides, c
  <2> QED
    BY <1>3, <2>1
<1>5. \/ deciding = {} /\ Goto(Advanced(stack))
      \/ \E i \in deciding :
           ExprOK(c[i].cond, variables) /\ Goto(Entered(stack, c[i].body, "NONE", 0))
  BY NoFail DEF EvalIf
<1>6. deciding \subseteq DOMAIN c
  OBVIOUS
<1> HIDE DEF deciding
<1>7. AtIn(prog, Snapshot).branches = c /\ Snapshot.stack = stack
  BY SeenNow
<1>8. CASE deciding = {} /\ Goto(Advanced(stack))
  BY <1>1, <1>7, <1>8, GotoRan DEF RanIf
<1>9. ASSUME NEW i \in deciding, ExprOK(c[i].cond, variables),
             Goto(Entered(stack, c[i].body, "NONE", 0))
      PROVE  RanIf(prog, Snapshot, Snapshot')
  <2>1. OK(c[i].cond, Snapshot)
    BY <1>1, <1>6, <1>9, SeenNow
  <2>2. Went(Snapshot, Snapshot', Entered(stack, c[i].body, "NONE", 0))
    BY <1>9, GotoRan
  <2> HIDE DEF c
  <2>3. \A j \in Deciding(c, Snapshot) : j = i
    BY <1>1, <1>4
  <2> QED
    BY <1>1, <1>7, <2>1, <2>2, <2>3 DEF RanIf
<1> QED
  BY <1>5, <1>8, <1>9

LEMMA IfRepeats ==
  ASSUME IInv, EvalIf, NEW a, NEW b, Agrees(Snapshot, a), RanIf(prog, a, b)
  PROVE  result' = "running" /\ Agrees(Snapshot', b)
<1> DEFINE c == Stmt.branches
           Decides(i) == ~ExprOK(c[i].cond, variables) \/ Holds(c[i].cond)
           deciding == {i \in DOMAIN c : Decides(i) /\ \A j \in 1..(i - 1) : ~Decides(j)}
<1>1. /\ \A i \in DOMAIN c : c[i].cond \in Exprs
      /\ Deciding(c, a) = deciding
  BY Seen, DecidingIs DEF EvalIf
<1>2. \/ deciding = {} /\ Goto(Advanced(stack))
      \/ \E i \in deciding :
           \/ ExprOK(c[i].cond, variables) /\ Goto(Entered(stack, c[i].body, "NONE", 0))
           \/ ~ExprOK(c[i].cond, variables) /\ Fail
  BY DEF EvalIf
<1>3. deciding \subseteq DOMAIN c
  OBVIOUS
<1> HIDE DEF deciding
<1>4. AtIn(prog, a).branches = c /\ a.stack = stack /\ result = "running"
  BY Seen DEF EvalIf, Executing
<1>5. CASE deciding = {} /\ Goto(Advanced(stack))
  BY <1>1, <1>4, <1>5, GotoRepeats DEF RanIf
<1>6. ASSUME NEW i \in deciding,
             \/ ExprOK(c[i].cond, variables) /\ Goto(Entered(stack, c[i].body, "NONE", 0))
             \/ ~ExprOK(c[i].cond, variables) /\ Fail
      PROVE  result' = "running" /\ Agrees(Snapshot', b)
  <2>1. OK(c[i].cond, a) /\ Went(a, b, Entered(stack, c[i].body, "NONE", 0))
    BY <1>1, <1>4 DEF RanIf
  <2>2. ExprOK(c[i].cond, variables)
    BY <1>1, <1>3, <2>1, Seen
  <2> QED
    BY <1>4, <1>6, <2>1, <2>2, GotoRepeats
<1> QED
  BY <1>2, <1>5, <1>6

LEMMA WhileRan ==
  ASSUME IInv, EvalWhile, result' = "running"
  PROVE  RanWhile(prog, Snapshot, Snapshot')
<1>1. Stmt.expr \in Exprs
  BY StatementIs, ExprIs DEF EvalWhile
<1> QED
  BY <1>1, NoFail, SeenNow, GotoRan DEF EvalWhile, RanWhile, Holds

LEMMA WhileRepeats ==
  ASSUME IInv, EvalWhile, NEW a, NEW b, Agrees(Snapshot, a), RanWhile(prog, a, b)
  PROVE  result' = "running" /\ Agrees(Snapshot', b)
<1>1. Stmt.expr \in Exprs /\ result = "running"
  BY StatementIs, ExprIs DEF EvalWhile
<1> QED
  BY <1>1, Seen, GotoRepeats DEF EvalWhile, RanWhile, Holds

LEMMA RepeatRan ==
  ASSUME IInv, EvalRepeat, result' = "running"
  PROVE  RanRepeat(prog, Snapshot, Snapshot')
<1>1. Stmt.expr \in Exprs
  BY StatementIs, ExprIs DEF EvalRepeat
<1> QED
  BY <1>1, NoFail, SeenNow, GotoRan DEF EvalRepeat, RanRepeat

LEMMA RepeatRepeats ==
  ASSUME IInv, EvalRepeat, NEW a, NEW b, Agrees(Snapshot, a), RanRepeat(prog, a, b)
  PROVE  result' = "running" /\ Agrees(Snapshot', b)
<1>1. Stmt.expr \in Exprs /\ result = "running"
  BY StatementIs, ExprIs DEF EvalRepeat
<1> QED
  BY <1>1, Seen, GotoRepeats DEF EvalRepeat, RanRepeat

LEMMA AssertRan ==
  ASSUME IInv, EvalAssert, result' = "running"
  PROVE  RanAssert(prog, Snapshot, Snapshot')
<1>1. Stmt.expr \in Exprs
  BY StatementIs, ExprIs DEF EvalAssert
<1> QED
  BY <1>1, NoFail, SeenNow, GotoRan DEF EvalAssert, RanAssert, Holds

LEMMA AssertRepeats ==
  ASSUME IInv, EvalAssert, NEW a, NEW b, Agrees(Snapshot, a), RanAssert(prog, a, b)
  PROVE  result' = "running" /\ Agrees(Snapshot', b)
<1>1. Stmt.expr \in Exprs /\ result = "running"
  BY StatementIs, ExprIs DEF EvalAssert
<1> QED
  BY <1>1, Seen, GotoRepeats DEF EvalAssert, RanAssert, Holds

LEMMA CodeRan ==
  ASSUME EvalCode
  PROVE  RanCode(prog, Snapshot, Snapshot')
BY SeenNow, SeenNext DEF EvalCode, RanCode

LEMMA CodeRepeats ==
  ASSUME IInv, EvalCode, NEW a, NEW b, Agrees(Snapshot, a), RanCode(prog, a, b)
  PROVE  result' = "running" /\ Agrees(Snapshot', b)
<1>1. result = "running" /\ Stmt.lang \in Langs /\ Stmt.lang # NoLang
  BY StatementIs, CodeIs DEF EvalCode, Langs, NoLang
<1> QED
  BY <1>1, Seen, SeenNow, SeenNext DEF EvalCode, RanCode, Agrees, LangKept

\* The first pass gives the label its place, the last one only passes by.
LEMMA LabelRan ==
  ASSUME IInv, EvalLabel, ~last_pass, result' = "running"
  PROVE  RanLabel(prog, Snapshot, Snapshot', labels')
<1>1. Stmt.name \in Names
  BY StatementIs, NameIs DEF EvalLabel
<1>2. labels' = [labels EXCEPT ![Stmt.name] = addr]
      /\ stack' = Advanced(stack) /\ UNCHANGED <<addr, variables, active_lang>>
  BY NoFail DEF EvalLabel
<1>3. labels'[Stmt.name] = addr
  BY <1>1, <1>2 DEF IInv, TypeOK
<1> QED
  BY <1>2, <1>3, SeenNow, SeenNext DEF RanLabel, Went

LEMMA LabelRepeats ==
  ASSUME EvalLabel, last_pass,
         NEW a, NEW b, Agrees(Snapshot, a), RanLabel(prog, a, b, labels)
  PROVE  result' = "running" /\ Agrees(Snapshot', b)
<1>1. result = "running" /\ Goto(Advanced(stack))
  BY DEF EvalLabel, Executing
<1> QED
  BY <1>1, Seen, GotoRepeats DEF RanLabel

LEMMA OrgRan ==
  ASSUME IInv, EvalOrg, result' = "running"
  PROVE  RanOrg(prog, Snapshot, Snapshot')
<1>1. Stmt.expr \in Exprs
  BY StatementIs, ExprIs DEF EvalOrg
<1> QED
  BY <1>1, NoFail, SeenNow, SeenNext DEF EvalOrg, RanOrg, Moved

LEMMA OrgRepeats ==
  ASSUME IInv, EvalOrg, NEW a, NEW b, Agrees(Snapshot, a), RanOrg(prog, a, b)
  PROVE  result' = "running" /\ Agrees(Snapshot', b)
<1>1. Stmt.expr \in Exprs /\ result = "running"
  BY StatementIs, ExprIs DEF EvalOrg
<1> QED
  BY <1>1, Seen, SeenNow, SeenNext DEF EvalOrg, RanOrg, Moved, Agrees

LEMMA SpaceRan ==
  ASSUME IInv, EvalSpace, result' = "running"
  PROVE  RanSpace(prog, Snapshot, Snapshot')
<1>1. Stmt.value \in Exprs
  BY StatementIs, SpaceIs DEF EvalSpace
<1> DEFINE size == TypeSize(Stmt.type)
           total == ArrayTotal(addr, Stmt.len, size, Stmt.align_per_el, Stmt.align_start)
<1>2. /\ active_lang \in Langs
      /\ ArrayOK(addr, Stmt.len, size, Stmt.align_per_el, Stmt.align_start)
      /\ ExprOK(Stmt.value, variables) /\ CanAdvance(total)
      /\ Advance(total, SpaceBytes(size, Stmt))
  BY NoFail DEF EvalSpace
<1>3. TypeSizeAt(Stmt.type, active_lang) = size
  BY DEF TypeSizeAt, TypeSize
<1>4. /\ addr' = addr + total /\ stack' = Advanced(stack)
      /\ variables' = variables /\ active_lang' = active_lang
  BY <1>2 DEF Advance
<1> HIDE DEF size
<1> QED
  BY <1>1, <1>2, <1>3, <1>4, SeenNow, SeenNext DEF RanSpace, Moved

LEMMA SpaceRepeats ==
  ASSUME IInv, EvalSpace, NEW a, NEW b, Agrees(Snapshot, a), RanSpace(prog, a, b)
  PROVE  result' = "running" /\ Agrees(Snapshot', b)
<1>1. Stmt.value \in Exprs /\ result = "running"
  BY StatementIs, SpaceIs DEF EvalSpace
<1> DEFINE size == TypeSize(Stmt.type)
           total == ArrayTotal(addr, Stmt.len, size, Stmt.align_per_el, Stmt.align_start)
<1>2. /\ active_lang = a.lang /\ a.lang \in Langs /\ a.addr = addr /\ a.stack = stack
      /\ a.variables = variables /\ AtIn(prog, a) = Stmt
  BY Seen DEF RanSpace
<1>3. TypeSizeAt(Stmt.type, a.lang) = size
  BY <1>2 DEF TypeSizeAt, TypeSize
<1> HIDE DEF size
<1>4. /\ ArrayOK(addr, Stmt.len, size, Stmt.align_per_el, Stmt.align_start)
      /\ OK(Stmt.value, a) /\ CanAdvanceAt(total, a)
      /\ Moved(a, b, addr + total)
  BY <1>2, <1>3 DEF RanSpace
<1>5. CanAdvance(total) /\ ExprOK(Stmt.value, variables)
  BY <1>1, <1>4, Seen
<1>6. active_lang \notin {NoLang, WildLang}
  BY <1>2 DEF Langs, NoLang, WildLang
<1>7. Advance(total, SpaceBytes(size, Stmt))
  BY <1>2, <1>4, <1>5, <1>6 DEF EvalSpace, size
<1>8. /\ addr' = addr + total /\ stack' = Advanced(stack) /\ result' = result
      /\ variables' = variables /\ active_lang' = active_lang
  BY <1>7 DEF Advance
<1> HIDE DEF total
<1> QED
  BY <1>1, <1>2, <1>4, <1>8, SeenNow, SeenNext DEF Moved, Agrees, LangKept

LEMMA StringRan ==
  ASSUME IInv, EvalString, result' = "running"
  PROVE  RanString(prog, Snapshot, Snapshot')
<1> DEFINE total == ArrayTotal(addr, 1, Stmt.len, Stmt.align_start, 1)
<1>1. /\ active_lang # NoLang
      /\ CanAdvance(Stmt.len) /\ ArrayOK(addr, 1, Stmt.len, Stmt.align_start, 1)
      /\ CanAdvance(total)
      /\ Advance(total, (ArrayStart(addr, Stmt.align_start, 1) - addr) + Stmt.len)
  BY NoFail DEF EvalString, Overflow
<1>2. /\ addr' = addr + total /\ stack' = Advanced(stack)
      /\ variables' = variables /\ active_lang' = active_lang
  BY <1>1 DEF Advance
<1> QED
  BY <1>1, <1>2, SeenNow, SeenNext DEF RanString, Moved

LEMMA StringRepeats ==
  ASSUME IInv, EvalString, NEW a, NEW b, Agrees(Snapshot, a), RanString(prog, a, b)
  PROVE  result' = "running" /\ Agrees(Snapshot', b)
<1> DEFINE total == ArrayTotal(addr, 1, Stmt.len, Stmt.align_start, 1)
<1>1. result = "running"
  BY DEF EvalString, Executing
<1>2. /\ a.addr = addr /\ a.stack = stack /\ a.variables = variables
      /\ AtIn(prog, a) = Stmt
  BY Seen
<1>3. /\ a.lang # NoLang /\ CanAdvanceAt(Stmt.len, a)
      /\ ArrayOK(addr, 1, Stmt.len, Stmt.align_start, 1)
      /\ CanAdvanceAt(total, a) /\ Moved(a, b, addr + total)
  BY <1>2 DEF RanString
<1>4. CanAdvance(Stmt.len) /\ CanAdvance(total) /\ active_lang # NoLang
  BY <1>3, Seen
<1>5. Advance(total, (ArrayStart(addr, Stmt.align_start, 1) - addr) + Stmt.len)
  BY <1>3, <1>4 DEF EvalString
<1>6. /\ addr' = addr + total /\ stack' = Advanced(stack) /\ result' = result
      /\ variables' = variables /\ active_lang' = active_lang
  BY <1>5 DEF Advance
<1> HIDE DEF total
<1> QED
  BY <1>1, <1>2, <1>3, <1>6, SeenNow, SeenNext DEF Moved, Agrees

LEMMA AlignRan ==
  ASSUME IInv, EvalAlign, result' = "running"
  PROVE  RanAlign(prog, Snapshot, Snapshot')
<1> DEFINE val == Value(Stmt.expr, variables)
           n == Aligned(addr, val) - addr
<1>1. Stmt.expr \in Exprs
  BY StatementIs, ExprIs DEF EvalAlign
<1>2. /\ active_lang # NoLang /\ ExprOK(Stmt.expr, variables) /\ ~(val < 0)
      /\ AlignOK(addr, val) /\ CanAdvance(n) /\ Advance(n, n)
  BY NoFail DEF EvalAlign, Overflow
<1>3. /\ addr' = addr + n /\ stack' = Advanced(stack)
      /\ variables' = variables /\ active_lang' = active_lang
  BY <1>2 DEF Advance
<1>4. Val(Stmt.expr, Snapshot) = val
  BY <1>1, SeenNow
<1> HIDE DEF val
<1> QED
  BY <1>1, <1>2, <1>3, <1>4, SeenNow, SeenNext DEF RanAlign, Moved

LEMMA AlignRepeats ==
  ASSUME IInv, EvalAlign, NEW a, NEW b, Agrees(Snapshot, a), RanAlign(prog, a, b)
  PROVE  result' = "running" /\ Agrees(Snapshot', b)
<1> DEFINE val == Value(Stmt.expr, variables)
           n == Aligned(addr, val) - addr
<1>1. result = "running" /\ Stmt.expr \in Exprs
  BY StatementIs, ExprIs DEF EvalAlign
<1>2. /\ a.addr = addr /\ a.stack = stack /\ a.variables = variables
      /\ AtIn(prog, a) = Stmt /\ Val(Stmt.expr, a) = val
  BY <1>1, Seen
<1> HIDE DEF val
<1>3. /\ a.lang # NoLang /\ OK(Stmt.expr, a) /\ ~(val < 0) /\ AlignOK(addr, val)
      /\ CanAdvanceAt(n, a) /\ Moved(a, b, addr + n)
  BY <1>2 DEF RanAlign
<1>4. CanAdvance(n) /\ active_lang # NoLang /\ ExprOK(Stmt.expr, variables)
  BY <1>1, <1>3, Seen
<1>5. Advance(n, n)
  BY <1>3, <1>4 DEF EvalAlign, val
<1>6. /\ addr' = addr + n /\ stack' = Advanced(stack) /\ result' = result
      /\ variables' = variables /\ active_lang' = active_lang
  BY <1>5 DEF Advance
<1> HIDE DEF n
<1> QED
  BY <1>1, <1>2, <1>3, <1>6, SeenNow, SeenNext DEF Moved, Agrees

----------------------------------------------------------------------------
(* Instructions                                                            *)

\* The size of a 6502 instruction does not depend on what a name means.
LEMMA BareSize ==
  ASSUME NEW f \in M6502!Forms, NEW arg \in Operands, NEW env, NEW lab
  PROVE  M6502!Size(f, ResolvedIn(arg, env, lab)) = M6502!Size(f, Bare(arg))
<1> DEFINE o == ResolvedIn(arg, env, lab)
<1>1. arg.k \in {"NONE", "NUMBER", "NAME"}
  BY DEF Operands
<1>2. /\ o.named = Bare(arg).named /\ o.selector = Bare(arg).selector
      /\ ~o.named => o.value = Bare(arg).value
  BY <1>1 DEF ResolvedIn, Bare
<1>3. Bare(arg).named \in BOOLEAN
  BY DEF Bare
<1> HIDE DEF o
<1>4. M6502!UsesZeroPage(f, o) <=> M6502!UsesZeroPage(f, Bare(arg))
  BY <1>2, <1>3 DEF M6502!UsesZeroPage
<1>5. M6502!Size(f, o) = M6502!Size(f, Bare(arg))
  BY <1>4 DEF M6502!Size, M6502!Forms
<1> QED
  BY <1>5 DEF o

\* The size of a 386 instruction other than a jmp depends on its operand alone.
LEMMA PlainSize ==
  ASSUME NEW f \in X86!Forms, f # "jmp", NEW o, NEW at, NEW last, NEW cache
  PROVE  X86!Size(f, o, at, last, cache) = X86!Size(f, o, at, FALSE, << >>)
BY DEF X86!Size, X86!Forms

LEMMA OperandIs ==
  Operand = ResolvedIn(Stmt.arg, variables, labels)
BY Zenon DEF Operand, Resolved, ResolvedIn

LEMMA InstructionRan ==
  ASSUME IInv, EvalInstruction, ~last_pass, ~Guesses, result' = "running"
  PROVE  RanInstruction(prog, Snapshot, Snapshot', labels')
<1> DEFINE size == InstructionSize
<1>1. Executing("INSTRUCTION")
  BY DEF EvalInstruction
<1>2. /\ active_lang \in Langs /\ InstructionOK
      /\ CanAdvance(size) /\ Advance(size, size)
  BY NoFail DEF EvalInstruction
<1>3. /\ Stmt.arg \in Operands
      /\ active_lang = "6502" => Form \in M6502!Forms
      /\ active_lang = "i386" => Form \in X86!Forms
  BY <1>1, <1>2, StatementIs, InstructionIs DEF Form, InstructionOK
<1>4. size \in Nat /\ addr \in Nat
  BY <1>1, <1>2, InstructionSizeIs, NintIs DEF IInv, TypeOK
<1>5. /\ addr' = addr + size /\ stack' = Advanced(stack) /\ labels' = labels
      /\ variables' = variables /\ active_lang' = active_lang
  BY <1>2 DEF Advance
<1>6. active_lang = "6502" => size = M6502!Size(Form, Bare(Stmt.arg))
  BY <1>3, OperandIs, BareSize DEF InstructionSize
<1>7. active_lang = "i386" => size = X86!Size(Form, Operand, addr, last_pass, jmp_cache)
  BY DEF InstructionSize
<1>8. active_lang = "i386" /\ Form = "jmp" => size \in {2, 3}
  BY <1>7, JmpSizes DEF IInv, TypeOK, X86!Size
<1>9. active_lang = "i386" /\ Form # "jmp" => size = X86!Size(Form, Operand, addr, FALSE, << >>)
  BY <1>3, <1>7, PlainSize
<1>10. active_lang = "i386" /\ Form \in X86!ValueSized => ~Operand.unresolved
  BY <1>1 DEF Guesses
<1>11. /\ Form # "unknown" /\ (Form \in {"implied", "plain"}) = (Stmt.arg.k = "NONE")
       /\ IF active_lang = "6502" THEN M6502!Accepts(Form, Operand, addr, FALSE)
          ELSE X86!Accepts(Form, Operand, addr, size, FALSE)
  BY <1>2 DEF InstructionOK, IInv, TypeOK
<1> HIDE DEF size
<1>12. Snapshot'.addr - Snapshot.addr = size
  BY <1>4, <1>5, SeenNow, SeenNext
<1>13. Moved(Snapshot, Snapshot', Snapshot.addr + size)
  BY <1>5, SeenNow, SeenNext DEF Moved
<1>14. CanAdvanceAt(size, Snapshot)
  BY <1>2, SeenNow DEF size
<1>15. /\ AtIn(prog, Snapshot) = Stmt /\ Snapshot.lang = active_lang
       /\ Stmt.form[active_lang] = Form /\ Snapshot.addr = addr
       /\ ResolvedIn(Stmt.arg, Snapshot.variables, labels') = Operand
  BY <1>5, SeenNow, OperandIs DEF Form
<1> QED
  BY <1>2, <1>6, <1>8, <1>9, <1>10, <1>11, <1>12, <1>13, <1>14, <1>15 DEF RanInstruction

\* The last pass finds the size it needs: a name means what it meant, and a jmp
\* is remembered.  What it may not find is that the operand is acceptable.
LEMMA InstructionRepeats ==
  ASSUME IInv, EvalInstruction, last_pass,
         NEW a, NEW b, Agrees(Snapshot, a), RanInstruction(prog, a, b, labels),
         active_lang = "i386" /\ Form = "jmp" =>
           X86!Remembered(jmp_cache, addr) = b.addr - addr
  PROVE  \/ result' = "running" /\ Agrees(Snapshot', b)
         \/ result' # "running" /\ DecidedLate(Stmt)
<1> DEFINE size == b.addr - addr
<1>1. Executing("INSTRUCTION") /\ result = "running"
  BY DEF EvalInstruction, Executing
<1>2. /\ a.lang = active_lang /\ active_lang \in Langs /\ a.addr = addr /\ a.stack = stack
      /\ a.variables = variables /\ AtIn(prog, a) = Stmt
  BY Seen DEF RanInstruction
<1>3. /\ Form # "unknown" /\ (Form \in {"implied", "plain"}) = (Stmt.arg.k = "NONE")
      /\ Moved(a, b, addr + size) /\ CanAdvanceAt(size, a)
      /\ active_lang = "6502" => size = M6502!Size(Form, Bare(Stmt.arg))
      /\ active_lang = "i386" =>
           /\ Form = "jmp" => size \in {2, 3}
           /\ Form # "jmp" => size = X86!Size(Form, Operand, addr, FALSE, << >>)
      /\ ~DecidedLate(Stmt) =>
           IF active_lang = "6502" THEN M6502!Accepts(Form, Operand, addr, FALSE)
           ELSE X86!Accepts(Form, Operand, addr, size, FALSE)
  BY <1>2, OperandIs DEF RanInstruction, Form
<1>4. /\ Stmt.op = "INSTRUCTION" /\ Stmt.arg \in Operands
      /\ active_lang = "6502" => Form \in M6502!Forms
      /\ active_lang = "i386" => Form \in X86!Forms
  BY <1>1, <1>2, <1>3, StatementIs, InstructionIs DEF Form
<1>5. CanAdvance(size)
  BY <1>3, Seen
<1> HIDE DEF size
<1>6. InstructionSize = size
  <2>1. CASE active_lang = "6502"
    BY <1>3, <1>4, <2>1, OperandIs, BareSize DEF InstructionSize
  <2>2. CASE active_lang = "i386" /\ Form = "jmp"
    <3>1. X86!Remembered(jmp_cache, addr) = size /\ size # 0
      BY <1>3, <2>2 DEF size
    <3> QED
      BY <2>2, <3>1
         DEF InstructionSize, X86!Size, X86!JmpSize, X86!LastPassJmpSize
  <2>3. CASE active_lang = "i386" /\ Form # "jmp"
    BY <1>3, <1>4, <2>3, PlainSize DEF InstructionSize
  <2> QED
    BY <1>2, <2>1, <2>2, <2>3 DEF Langs
<1>7. ~DecidedLate(Stmt) => InstructionOK
  <2> SUFFICES ASSUME ~DecidedLate(Stmt)
               PROVE  InstructionOK
    OBVIOUS
  <2>1. Stmt.arg.k # "NAME" /\ (active_lang = "i386" => Form # "jmp")
    BY <1>4 DEF DecidedLate, Form
  <2>2. ~Operand.unresolved
    BY <1>4, <2>1, OperandIs DEF Operands, ResolvedIn
  <2>3. CASE active_lang = "6502"
    <3>1. M6502!Accepts(Form, Operand, addr, last_pass)
      BY <1>3, <2>2, <2>3 DEF M6502!Accepts, M6502!Readable
    <3> QED
      BY <1>3, <2>3, <3>1 DEF InstructionOK
  <2>4. CASE active_lang = "i386"
    <3>1. X86!Accepts(Form, Operand, addr, size, last_pass)
      BY <1>3, <2>1, <2>2, <2>4 DEF X86!Accepts, X86!JumpFits
    <3> QED
      BY <1>3, <1>6, <2>4, <3>1 DEF InstructionOK
  <2> QED
    BY <1>2, <2>3, <2>4 DEF Langs
<1>8. active_lang \notin {NoLang, WildLang}
  BY <1>2 DEF Langs, NoLang, WildLang
<1>9. CASE InstructionOK
  <2>1. Advance(size, size)
    BY <1>5, <1>6, <1>8, <1>9 DEF EvalInstruction, Fail, Crash
  <2>2. /\ addr' = addr + size /\ stack' = Advanced(stack) /\ result' = result
        /\ variables' = variables /\ active_lang' = active_lang
    BY <2>1 DEF Advance
  <2> QED
    BY <1>1, <1>2, <1>3, <2>2, SeenNow, SeenNext DEF Moved, Agrees, LangKept
<1>10. CASE ~InstructionOK
  <2>1. Fail
    BY <1>8, <1>10 DEF EvalInstruction
  <2> QED
    BY <1>7, <1>10, <2>1, NoFail
<1> QED
  BY <1>9, <1>10

----------------------------------------------------------------------------
(* A step of either pass                                                   *)

LEMMA ExecutingAt ==
  ASSUME IInv, NEW op, Executing(op), NEW a, Agrees(Snapshot, a)
  PROVE  /\ IsAtStatement(prog, a) /\ AtIn(prog, a) = Stmt
         /\ AtIn(prog, a) \in Statements /\ AtIn(prog, a).op = op
         /\ result = "running" /\ Stmt.op = op
<1>1. a.stack = stack /\ AtIn(prog, a) = Stmt
  BY Seen
<1>2. /\ stack # << >> /\ result = "running" /\ Top.pc <= Len(prog[Top.body])
      /\ Stmt \in Statements /\ Stmt.op = op
  BY StatementIs
<1> QED
  BY <1>1, <1>2 DEF IsAtStatement, Top

LEMMA AtTheEnd ==
  ASSUME IInv, EndBody, NEW a, a.stack = stack
  PROVE  ~IsAtStatement(prog, a)
<1>1. stack \in Seq(Frame) /\ IsProgram(prog) /\ stack # << >>
  BY ProgramIsProgram DEF IInv, TypeOK, EndBody
<1>2. Top \in Frame /\ Top.body \in DOMAIN prog
  BY <1>1, TopIs DEF IInv, Well, InTree, Top
<1>3. prog[Top.body] \in Seq(Statements)
  BY <1>1, <1>2 DEF IsProgram
<1>4. Top.pc \in Nat /\ Len(prog[Top.body]) \in Nat /\ Top.pc > Len(prog[Top.body])
  BY <1>2, <1>3, FrameFields, LenProperties DEF EndBody
<1> QED
  BY <1>4 DEF IsAtStatement, Top

LEMMA AgreesWithItself == Agrees(Snapshot, Snapshot)
BY DEF Agrees, LangKept

\* The first pass runs what it records.
LEMMA FirstPassRan ==
  ASSUME IInv, Next, ~last_pass, stack # << >>, ~Guesses, result' = "running"
  PROVE  Ran(prog, Snapshot, Snapshot', labels')
<1> DEFINE a == Snapshot
           b == Snapshot'
           op == AtIn(prog, a).op
           Does(which) == IsAtStatement(prog, a) /\ AtIn(prog, a) \in Statements /\ op = which
<1>1. a.stack = stack /\ AtIn(prog, a) = Stmt
  BY SeenNow
<1>2. \A which : Executing(which) => Does(which)
  BY AgreesWithItself, ExecutingAt
<1>3. CASE EndBody
  <2>1. ~IsAtStatement(prog, a)
    BY <1>1, <1>3, AtTheEnd
  <2>2. Went(a, b, Resumed(a.stack))
    BY <1>1, <1>3, GotoRan DEF EndBody
  <2> QED
    BY <1>1, <2>1, <2>2 DEF Ran
<1>4. ASSUME NEW which, Does(which), RanStatement(prog, a, b, labels')
      PROVE  Ran(prog, a, b, labels')
  BY <1>1, <1>4 DEF Ran
<1> HIDE DEF a, b
<1>5. CASE EvalAssign \/ EvalAugmentedAssign
  <2>1. Does("ASSIGN_VAR") /\ RanAssign(prog, a, b)
    BY <1>2, <1>5, AssignRan DEF EvalAssign, EvalAugmentedAssign, a, b
  <2> QED
    BY <1>4, <2>1 DEF RanStatement, a, b
<1>6. CASE EvalDel
  <2>1. Does("DEL") /\ Stored(a, b, AtIn(prog, a).name, NotDeclared)
    BY <1>1, <1>2, <1>6, DelRan DEF EvalDel, a, b
  <2> QED
    BY <1>4, <2>1 DEF RanStatement, a, b
<1>7. CASE EvalIf
  <2>1. Does("IF") /\ RanIf(prog, a, b)
    BY <1>2, <1>7, IfRan DEF EvalIf, a, b
  <2> QED
    BY <1>4, <2>1 DEF RanStatement, a, b
<1>8. CASE EvalWhile
  <2>1. Does("WHILE") /\ RanWhile(prog, a, b)
    BY <1>2, <1>8, WhileRan DEF EvalWhile, a, b
  <2> QED
    BY <1>4, <2>1 DEF RanStatement, a, b
<1>9. CASE EvalRepeat
  <2>1. Does("REPEAT") /\ RanRepeat(prog, a, b)
    BY <1>2, <1>9, RepeatRan DEF EvalRepeat, a, b
  <2> QED
    BY <1>4, <2>1 DEF RanStatement, a, b
<1>10. CASE EvalBreak
  <2>1. Does("BREAK") /\ Went(a, b, Broken(a.stack))
    BY <1>1, <1>2, <1>10, GotoRan DEF EvalBreak, a, b
  <2> QED
    BY <1>4, <2>1 DEF RanStatement, a, b
<1>11. CASE EvalContinue
  <2>1. Does("CONTINUE") /\ Went(a, b, Resumed(Unwound(a.stack)))
    BY <1>1, <1>2, <1>11, GotoRan DEF EvalContinue, a, b
  <2> QED
    BY <1>4, <2>1 DEF RanStatement, a, b
<1>12. CASE EvalAssert
  <2>1. Does("ASSERT") /\ RanAssert(prog, a, b)
    BY <1>2, <1>12, AssertRan DEF EvalAssert, a, b
  <2> QED
    BY <1>4, <2>1 DEF RanStatement, a, b
<1>13. CASE EvalError
  BY <1>13, NoFail DEF EvalError
<1>14. CASE EvalCode
  <2>1. Does("CODE") /\ RanCode(prog, a, b)
    BY <1>2, <1>14, CodeRan DEF EvalCode, a, b
  <2> QED
    BY <1>4, <2>1 DEF RanStatement, a, b
<1>15. CASE EvalLabel
  <2>1. Does("LABEL") /\ RanLabel(prog, a, b, labels')
    BY <1>2, <1>15, LabelRan DEF EvalLabel, a, b
  <2> QED
    BY <1>4, <2>1 DEF RanStatement, a, b
<1>16. CASE EvalOrg
  <2>1. Does("ORG") /\ RanOrg(prog, a, b)
    BY <1>2, <1>16, OrgRan DEF EvalOrg, a, b
  <2> QED
    BY <1>4, <2>1 DEF RanStatement, a, b
<1>17. CASE EvalSpace
  <2>1. Does("SPACE") /\ RanSpace(prog, a, b)
    BY <1>2, <1>17, SpaceRan DEF EvalSpace, a, b
  <2> QED
    BY <1>4, <2>1 DEF RanStatement, a, b
<1>18. CASE EvalString
  <2>1. Does("STRING") /\ RanString(prog, a, b)
    BY <1>2, <1>18, StringRan DEF EvalString, a, b
  <2> QED
    BY <1>4, <2>1 DEF RanStatement, a, b
<1>19. CASE EvalAlign
  <2>1. Does("ALIGN") /\ RanAlign(prog, a, b)
    BY <1>2, <1>19, AlignRan DEF EvalAlign, a, b
  <2> QED
    BY <1>4, <2>1 DEF RanStatement, a, b
<1>20. CASE EvalInstruction
  <2>1. Does("INSTRUCTION") /\ RanInstruction(prog, a, b, labels')
    BY <1>2, <1>20, InstructionRan DEF EvalInstruction, a, b
  <2> QED
    BY <1>4, <2>1 DEF RanStatement, a, b
<1>21. ~StartLastPass /\ ~Finish
  BY DEF StartLastPass, Finish
<1> QED
  BY <1>3, <1>5, <1>6, <1>7, <1>8, <1>9, <1>10, <1>11, <1>12, <1>13, <1>14, <1>15, <1>16,
     <1>17, <1>18, <1>19, <1>20, <1>21 DEF Next, a, b

\* The last pass runs what the first one recorded, unless a statement that only
\* the last pass decides fails.
LEMMA LastPassRepeats ==
  ASSUME IInv, Next, last_pass, ~Guesses,
         NEW a, NEW b, Agrees(Snapshot, a), Ran(prog, a, b, labels),
         ChoseJmpSize(a) => X86!Remembered(jmp_cache, a.addr) = b.addr - a.addr
  PROVE  \/ result' = "running" /\ Agrees(Snapshot', b)
         \/ result' # "running" /\ LateIn(prog)
<1> DEFINE Did == result' = "running" /\ Agrees(Snapshot', b)
           op == Stmt.op
<1>1. /\ a.stack = stack /\ a.addr = addr /\ AtIn(prog, a) = Stmt /\ stack # << >>
      /\ a.lang \in Langs => active_lang = a.lang
  BY Seen DEF Ran
<1>2. ASSUME NEW which, Executing(which)
      PROVE  /\ op = which /\ result = "running"
             /\ RanStatement(prog, a, b, labels) /\ IsAtStatement(prog, a)
  BY <1>2, ExecutingAt DEF Ran
<1>3. CASE EndBody
  <2>1. ~IsAtStatement(prog, a)
    BY <1>1, <1>3, AtTheEnd
  <2>2. Went(a, b, Resumed(stack)) /\ Goto(Resumed(stack)) /\ result = "running"
    BY <1>1, <1>3, <2>1 DEF EndBody, Ran
  <2> QED
    BY <2>2, GotoRepeats
<1>4. CASE EvalAssign \/ EvalAugmentedAssign
  <2>1. RanAssign(prog, a, b)
    BY <1>1, <1>2, <1>4 DEF EvalAssign, EvalAugmentedAssign, RanStatement
  <2> QED
    BY <1>4, <2>1, AssignRepeats
<1>5. CASE EvalDel
  <2>1. Stored(a, b, Stmt.name, NotDeclared)
    BY <1>1, <1>2, <1>5 DEF EvalDel, RanStatement
  <2> QED
    BY <1>5, <2>1, DelRepeats
<1>6. CASE EvalIf
  <2>1. RanIf(prog, a, b)
    BY <1>1, <1>2, <1>6 DEF EvalIf, RanStatement
  <2> QED
    BY <1>6, <2>1, IfRepeats
<1>7. CASE EvalWhile
  <2>1. RanWhile(prog, a, b)
    BY <1>1, <1>2, <1>7 DEF EvalWhile, RanStatement
  <2> QED
    BY <1>7, <2>1, WhileRepeats
<1>8. CASE EvalRepeat
  <2>1. RanRepeat(prog, a, b)
    BY <1>1, <1>2, <1>8 DEF EvalRepeat, RanStatement
  <2> QED
    BY <1>8, <2>1, RepeatRepeats
<1>9. CASE EvalBreak
  <2>1. Went(a, b, Broken(stack)) /\ Goto(Broken(stack)) /\ result = "running"
    BY <1>1, <1>2, <1>9 DEF EvalBreak, RanStatement
  <2> QED
    BY <2>1, GotoRepeats
<1>10. CASE EvalContinue
  <2>1. /\ Went(a, b, Resumed(Unwound(stack))) /\ Goto(Resumed(Unwound(stack)))
        /\ result = "running"
    BY <1>1, <1>2, <1>10 DEF EvalContinue, RanStatement
  <2> QED
    BY <2>1, GotoRepeats
<1>11. CASE EvalAssert
  <2>1. RanAssert(prog, a, b)
    BY <1>1, <1>2, <1>11 DEF EvalAssert, RanStatement
  <2> QED
    BY <1>11, <2>1, AssertRepeats
<1>12. CASE EvalError
  BY <1>1, <1>2, <1>12 DEF EvalError, RanStatement
<1>13. CASE EvalCode
  <2>1. RanCode(prog, a, b)
    BY <1>1, <1>2, <1>13 DEF EvalCode, RanStatement
  <2> QED
    BY <1>13, <2>1, CodeRepeats
<1>14. CASE EvalLabel
  <2>1. RanLabel(prog, a, b, labels)
    BY <1>1, <1>2, <1>14 DEF EvalLabel, RanStatement
  <2> QED
    BY <1>14, <2>1, LabelRepeats
<1>15. CASE EvalOrg
  <2>1. RanOrg(prog, a, b)
    BY <1>1, <1>2, <1>15 DEF EvalOrg, RanStatement
  <2> QED
    BY <1>15, <2>1, OrgRepeats
<1>16. CASE EvalSpace
  <2>1. RanSpace(prog, a, b)
    BY <1>1, <1>2, <1>16 DEF EvalSpace, RanStatement
  <2> QED
    BY <1>16, <2>1, SpaceRepeats
<1>17. CASE EvalString
  <2>1. RanString(prog, a, b)
    BY <1>1, <1>2, <1>17 DEF EvalString, RanStatement
  <2> QED
    BY <1>17, <2>1, StringRepeats
<1>18. CASE EvalAlign
  <2>1. RanAlign(prog, a, b)
    BY <1>1, <1>2, <1>18 DEF EvalAlign, RanStatement
  <2> QED
    BY <1>18, <2>1, AlignRepeats
<1>19. CASE EvalInstruction
  <2>1. Executing("INSTRUCTION")
    BY <1>19 DEF EvalInstruction
  <2>2. RanInstruction(prog, a, b, labels) /\ IsAtStatement(prog, a) /\ op = "INSTRUCTION"
    BY <1>1, <1>2, <2>1 DEF RanStatement
  <2>3. a.lang = active_lang
    BY <1>1, <2>2 DEF RanInstruction
  <2>4. active_lang = "i386" /\ Form = "jmp" =>
          X86!Remembered(jmp_cache, addr) = b.addr - addr
    <3> SUFFICES ASSUME active_lang = "i386", Form = "jmp"
                 PROVE  X86!Remembered(jmp_cache, addr) = b.addr - addr
      OBVIOUS
    <3>1. ChoseJmpSize(a)
      BY <1>1, <2>2, <2>3 DEF ChoseJmpSize, AtStatement, IsAtStatement, At, AtIn, Form
    <3> QED
      BY <1>1, <3>1
  <2>5. \/ Did
        \/ result' # "running" /\ DecidedLate(Stmt)
    BY <1>19, <2>2, <2>4, InstructionRepeats
  <2>6. Top.body \in DOMAIN prog /\ Top.pc \in DOMAIN prog[Top.body]
    BY <2>1, StatementIs
  <2> QED
    BY <2>5, <2>6 DEF LateIn, Stmt
<1>20. ~StartLastPass /\ ~Finish
  BY <1>1 DEF StartLastPass, Finish
<1> QED
  BY <1>3, <1>4, <1>5, <1>6, <1>7, <1>8, <1>9, <1>10, <1>11, <1>12, <1>13, <1>14, <1>15, <1>16,
     <1>17, <1>18, <1>19, <1>20 DEF Next

----------------------------------------------------------------------------
(* The invariant holds                                                     *)

Grown(lab, lab2) == \A n \in Names : lab[n] # NotDeclared => lab2[n] = lab[n]

LEMMA OtherOperand ==
  ASSUME NEW f \in X86!Forms, f # "jmp", NEW o, NEW o2, NEW at,
         f \in X86!ValueSized => o.value = o2.value
  PROVE  X86!Size(f, o, at, FALSE, << >>) = X86!Size(f, o2, at, FALSE, << >>)
BY DEF X86!Size, X86!Forms, X86!ValueSized

\* Labels declared later change nothing about a statement that ran.
LEMMA InstructionGrows ==
  ASSUME NEW p, NEW a, NEW b, NEW lab, NEW lab2, Grown(lab, lab2),
         AtIn(p, a) \in Statements, AtIn(p, a).op = "INSTRUCTION",
         RanInstruction(p, a, b, lab)
  PROVE  RanInstruction(p, a, b, lab2)
<1> DEFINE s == AtIn(p, a)
           f == s.form[a.lang]
           o == ResolvedIn(s.arg, a.variables, lab)
           o2 == ResolvedIn(s.arg, a.variables, lab2)
           size == b.addr - a.addr
<1>1. /\ s.arg \in Operands
      /\ f # "unknown" /\ a.lang = "i386" => f \in X86!Forms
  BY InstructionIs
<1>2. s.arg.k # "NAME" => o2 = o
  BY <1>1 DEF ResolvedIn, Operands
<1>3. ~o.unresolved => ~o2.unresolved /\ o2.value = o.value
  <2>1. CASE s.arg.k = "NAME"
    <3>1. s.arg.name \in Names
      BY <1>1, <2>1 DEF Operands
    <3> QED
      BY <2>1, <3>1 DEF ResolvedIn, Grown
  <2>2. CASE s.arg.k # "NAME"
    BY <1>2, <2>2
  <2> QED
    BY <2>1, <2>2
<1>4. /\ f # "unknown"
      /\ a.lang = "i386" =>
           /\ f # "jmp" => size = X86!Size(f, o, a.addr, FALSE, << >>)
           /\ f \in X86!ValueSized => ~o.unresolved
      /\ ~DecidedLate(s) =>
           IF a.lang = "6502" THEN M6502!Accepts(f, o, a.addr, FALSE)
           ELSE X86!Accepts(f, o, a.addr, size, FALSE)
  BY DEF RanInstruction
<1> HIDE DEF o, o2, f, size
<1>5. a.lang = "i386" =>
        /\ f # "jmp" => size = X86!Size(f, o2, a.addr, FALSE, << >>)
        /\ f \in X86!ValueSized => ~o2.unresolved
  BY <1>1, <1>3, <1>4, OtherOperand
<1>6. ~DecidedLate(s) => s.arg.k # "NAME"
  BY DEF DecidedLate
<1>7. ~DecidedLate(s) =>
        IF a.lang = "6502" THEN M6502!Accepts(f, o2, a.addr, FALSE)
        ELSE X86!Accepts(f, o2, a.addr, size, FALSE)
  BY <1>2, <1>4, <1>6
<1> HIDE DEF s
<1> QED
  BY <1>5, <1>7 DEF RanInstruction, s, f, o2, size

LEMMA RanGrows ==
  ASSUME NEW p, NEW a, NEW b, NEW lab, NEW lab2, Grown(lab, lab2),
         a.addr \in Nat, Ran(p, a, b, lab)
  PROVE  Ran(p, a, b, lab2)
<1>1. CASE ~IsAtStatement(p, a)
  BY <1>1 DEF Ran
<1>2. CASE IsAtStatement(p, a)
  <2>1. AtIn(p, a) \in Statements /\ RanStatement(p, a, b, lab) /\ a.stack # << >>
    BY <1>2 DEF Ran
  <2>2. AtIn(p, a).op = "LABEL" => RanLabel(p, a, b, lab2)
    <3>1. SUFFICES ASSUME AtIn(p, a).op = "LABEL"
                   PROVE  RanLabel(p, a, b, lab2)
      OBVIOUS
    <3>2. AtIn(p, a).name \in Names /\ RanLabel(p, a, b, lab)
      BY <2>1, <3>1, NameIs DEF RanStatement
    <3>3. a.addr # NotDeclared
      BY TwoPassAssumption
    <3> QED
      BY <3>2, <3>3 DEF RanLabel, Grown
  <2>3. AtIn(p, a).op = "INSTRUCTION" => RanInstruction(p, a, b, lab2)
    BY <2>1, InstructionGrows DEF RanStatement
  <2> QED
    BY <1>2, <2>1, <2>2, <2>3 DEF Ran, RanStatement
<1> QED
  BY <1>1, <1>2

\* What the steps leave alone.
LEMMA StepLeaves ==
  ASSUME IInv, Next
  PROVE  /\ prog' = prog /\ result = "running"
         /\ last_pass' = last_pass \/ StartLastPass
         /\ active_lang' = active_lang \/ active_lang' \in Langs
         /\ Grown(labels, labels')
         /\ last_pass => labels' = labels /\ jmp_cache' = jmp_cache
<1> DEFINE Quiet == /\ prog' = prog /\ result = "running" /\ last_pass' = last_pass
                    /\ active_lang' = active_lang /\ labels' = labels
                    /\ jmp_cache' = jmp_cache
<1>1. CASE EvalAssign \/ EvalAugmentedAssign
  <2>1. Quiet
    BY <1>1 DEF EvalAssign, EvalAugmentedAssign, Executing, Fail, Ends
  <2> QED
    BY <2>1 DEF Grown
<1>2. CASE EvalDel \/ EvalIf \/ EvalWhile \/ EvalRepeat
  <2>1. Quiet
    BY <1>2 DEF EvalDel, EvalIf, EvalWhile, EvalRepeat, Executing, Fail, Ends, Goto
  <2> QED
    BY <2>1 DEF Grown
<1>3. CASE EndBody \/ EvalBreak \/ EvalContinue \/ EvalAssert \/ EvalError \/ Finish
  <2>1. Quiet
    BY <1>3 DEF EndBody, EvalBreak, EvalContinue, EvalAssert, EvalError, Finish,
                Executing, Fail, Ends, Goto
  <2> QED
    BY <2>1 DEF Grown
<1>4. CASE EvalCode
  <2>1. Stmt.lang \in Langs
    BY <1>4, StatementIs, CodeIs DEF EvalCode
  <2> QED
    BY <1>4, <2>1 DEF EvalCode, Executing, Grown
<1>5. CASE EvalLabel
  <2>1. Executing("LABEL") /\ result = "running"
    BY <1>5 DEF EvalLabel, Executing
  <2>2. Stmt.name \in Names
    BY <2>1, StatementIs, NameIs
  <2>3. CASE ~last_pass /\ labels[Stmt.name] = NotDeclared
             /\ labels' = [labels EXCEPT ![Stmt.name] = addr]
             /\ UNCHANGED <<prog, last_pass, active_lang>>
    BY <2>1, <2>3 DEF Grown, IInv, TypeOK
  <2>4. CASE Fail \/ Goto(Advanced(stack))
    BY <2>1, <2>4 DEF Fail, Ends, Goto, Grown
  <2> QED
    BY <1>5, <2>3, <2>4 DEF EvalLabel
<1>6. CASE EvalOrg
  <2>1. Quiet
    BY <1>6 DEF EvalOrg, Executing, Fail, Ends
  <2> QED
    BY <2>1 DEF Grown
<1>7. CASE EvalSpace \/ EvalString \/ EvalAlign
  <2>1. Quiet
    BY <1>7 DEF EvalSpace, EvalString, EvalAlign, Executing, Overflow, Fail, Crash, Ends, Advance
  <2> QED
    BY <2>1 DEF Grown
<1>8. CASE EvalInstruction
  <2>1. /\ prog' = prog /\ result = "running" /\ last_pass' = last_pass
        /\ active_lang' = active_lang /\ labels' = labels
    BY <1>8 DEF EvalInstruction, Executing, Fail, Crash, Ends, Advance
  <2>2. last_pass => jmp_cache' = jmp_cache
    BY <1>8 DEF EvalInstruction, Fail, Crash, Ends, X86!CacheAfter
  <2> QED
    BY <2>1, <2>2 DEF Grown
<1>9. CASE StartLastPass
  BY <1>9 DEF StartLastPass, Grown
<1> QED
  BY <1>1, <1>2, <1>3, <1>4, <1>5, <1>6, <1>7, <1>8, <1>9 DEF Next

\* An entry of the log is a state of the run.
LEMMA SnapshotIs ==
  ASSUME IInv
  PROVE  Snapshot \in Snapshots
BY DEF IInv, TypeOK, Snapshot, Snapshots, Env

LEMMA LogGrows ==
  ASSUME IInv, log \in Seq(Snapshots), log' = Append(log, Snapshot)
  PROVE  /\ log' \in Seq(Snapshots) /\ log' # << >>
         /\ Len(log) \in Nat /\ Len(log') = Len(log) + 1
         /\ \A i \in 1..Len(log) : log'[i] = log[i]
         /\ log'[Len(log) + 1] = Snapshot
         /\ log = << >> <=> Len(log) = 0
         /\ \A i \in 1..Len(log) : log[i] \in Snapshots
<1>1. Snapshot \in Snapshots
  BY SnapshotIs
<1>2. /\ log' \in Seq(Snapshots) /\ Len(log) \in Nat /\ Len(log') = Len(log) + 1
      /\ \A i \in 1..Len(log) : log'[i] = log[i]
      /\ log'[Len(log) + 1] = Snapshot
  BY <1>1, AppendProperties, LenProperties
<1>3. log = << >> <=> Len(log) = 0
  BY EmptySeq
<1>4. log' # << >>
  BY <1>2, EmptySeq
<1>5. \A i \in 1..Len(log) : log[i] \in Snapshots
  BY ElementOfSeq
<1> QED
  BY <1>2, <1>3, <1>4, <1>5

\* The entries of the log ran, the last of them to the state, in the next state too.
LEMMA AllRan ==
  ASSUME HInv, HNext, ~last_pass, result = "running", exact',
         stack # << >> => result' = "running"
  PROVE  \A i \in 1..Len(log) : Ran(prog', log'[i], log'[i + 1], labels')
<1>1. /\ IInv /\ Next /\ exact /\ ~Guesses /\ log' = Append(log, Snapshot)
      /\ log \in Seq(Snapshots) /\ Recorded
  BY DEF HInv, HNext
<1>2. prog' = prog /\ Grown(labels, labels')
  BY <1>1, StepLeaves
<1> SUFFICES ASSUME NEW i \in 1..Len(log)
             PROVE  Ran(prog', log'[i], log'[i + 1], labels')
  OBVIOUS
<1>3. Len(log) \in Nat /\ log'[i] = log[i] /\ log[i] \in Snapshots
      /\ log'[i + 1] = IF i = Len(log) THEN Snapshot ELSE log[i + 1]
  <2>1. i \in Nat /\ (i # Len(log) => i + 1 \in 1..Len(log)) /\ Len(log) \in Nat
    BY <1>1, LogGrows
  <2> QED
    BY <1>1, <2>1, LogGrows
<1>4. Ran(prog, log[i], log'[i + 1], labels)
  BY <1>1, <1>3 DEF Recorded
<1>5. log[i].addr \in Nat
  BY <1>3, NintIs DEF Snapshots
<1> QED
  BY <1>2, <1>3, <1>4, <1>5, RanGrows

\* A step of the first pass records what it ran.
LEMMA RecordedKeeps ==
  ASSUME HInv, HNext, ~last_pass, result = "running", result' = "running", stack # << >>
  PROVE  Recorded'
<1>1. /\ IInv /\ Next /\ log' = Append(log, Snapshot)
      /\ log \in Seq(Snapshots) /\ Recorded
      /\ exact' => ~Guesses
  BY DEF HInv, HNext
<1>2. active_lang' = active_lang \/ active_lang' \in Langs
  BY <1>1, StepLeaves
<1>3. /\ log' # << >> /\ Len(log) \in Nat /\ Len(log') = Len(log) + 1
      /\ log'[Len(log) + 1] = Snapshot
      /\ log = << >> => log'[1] = Snapshot
      /\ log # << >> => log'[1] = log[1]
  BY <1>1, LogGrows
<1>4. /\ IsStart(log'[1]) /\ log'[1].lang \notin Langs
      /\ LangKept(log'[1].lang, active_lang')
  <2>1. IsStart(log'[1]) /\ log'[1].lang \notin Langs
        /\ LangKept(log'[1].lang, active_lang)
    BY <1>1, <1>3, SeenNow DEF Recorded, LangKept
  <2>2. NoLang \notin Langs
    BY DEF NoLang, Langs
  <2> QED
    BY <1>2, <2>1, <2>2 DEF LangKept
<1>5. exact' =>
        \A i \in 1..Len(log') :
          Ran(prog', log'[i], IF i = Len(log') THEN Snapshot' ELSE log'[i + 1], labels')
  <2> SUFFICES ASSUME exact', NEW i \in 1..Len(log')
               PROVE  Ran(prog', log'[i], IF i = Len(log') THEN Snapshot' ELSE log'[i + 1], labels')
    OBVIOUS
  <2>1. CASE i = Len(log')
    <3>1. Ran(prog, Snapshot, Snapshot', labels') /\ prog' = prog
      BY <1>1, FirstPassRan, StepLeaves
    <3> QED
      BY <1>3, <2>1, <3>1
  <2>2. CASE i # Len(log')
    <3>1. i \in 1..Len(log)
      BY <1>3, <2>2
    <3> QED
      BY <2>2, <3>1, AllRan
  <2> QED
    BY <2>1, <2>2
<1> QED
  BY <1>3, <1>4, <1>5 DEF Recorded

LEMMA FirstPassKeeps ==
  ASSUME HInv, HNext, ~last_pass, result = "running", stack # << >>
  PROVE  HInv'
<1>1. IInv /\ Next /\ log' = Append(log, Snapshot) /\ log \in Seq(Snapshots)
      /\ clock' = clock /\ clock = 0 /\ exact' \in BOOLEAN
  BY DEF HInv, HNext
<1>2. IInv'
  BY <1>1, StepKeeps
<1>3. last_pass' = FALSE
  BY <1>1, StepLeaves DEF IInv, TypeOK, StartLastPass
<1>4. log' \in Seq(Snapshots)
  BY <1>1, LogGrows
<1>5. result' = "running" => Recorded'
  BY RecordedKeeps
<1> QED
  BY <1>1, <1>2, <1>3, <1>4, <1>5 DEF HInv

LEMMA SecondPassStarts ==
  ASSUME HInv, HNext, ~last_pass, result = "running", stack = << >>
  PROVE  HInv'
<1>1. IInv /\ Next /\ log' = Append(log, Snapshot) /\ log \in Seq(Snapshots)
      /\ clock' = clock /\ clock = 0 /\ exact' \in BOOLEAN /\ Recorded
  BY DEF HInv, HNext
<1>2. StartLastPass
  BY <1>1 DEF Next, EvalAssign, EvalAugmentedAssign, EvalDel, EvalIf, EvalWhile, EvalRepeat,
     EndBody, EvalBreak, EvalContinue, EvalAssert, EvalError, EvalCode, EvalLabel, EvalOrg,
     EvalSpace, EvalString, EvalAlign, EvalInstruction, Finish, Executing
<1>3. IInv'
  BY <1>1, StepKeeps
<1>4. /\ last_pass' = TRUE /\ stack' = <<FirstFrame>> /\ addr' = 0 /\ result' = "running"
      /\ variables' = [n \in Names |-> NotDeclared] /\ active_lang' = active_lang
  BY <1>2 DEF StartLastPass, FirstFrame
<1>5. log # << >>
  BY SeenNow, <1>1 DEF Recorded, IsStart
<1>6. /\ log' \in Seq(Snapshots) /\ log' # << >> /\ Len(log') = Len(log) + 1
      /\ Len(log) \in Nat \ {0} /\ log'[Len(log')] = Snapshot /\ log'[1] = log[1]
  BY <1>1, <1>5, LogGrows
<1>7. Complete'
  <2>1. log'[Len(log')].stack = << >>
    BY <1>6, SeenNow
  <2>2. exact' => \A i \in 1..(Len(log') - 1) : Ran(prog', log'[i], log'[i + 1], labels')
    BY <1>6, AllRan
  <2> QED
    BY <1>6, <2>1, <2>2 DEF Complete
<1>8. clock' < Len(log') /\ Agrees(Snapshot', log'[clock' + 1])
  <2>1. clock' + 1 = 1 /\ clock' < Len(log')
    BY <1>1, <1>6
  <2>2. IsStart(log'[1]) /\ LangKept(log'[1].lang, active_lang')
    BY <1>1, <1>4, <1>5, <1>6 DEF Recorded
  <2>3. Agrees(Snapshot', log'[1])
    BY <1>4, <2>2, SeenNext DEF IsStart, Agrees
  <2> QED
    BY <2>1, <2>3
<1> QED
  BY <1>1, <1>3, <1>4, <1>6, <1>7, <1>8 DEF HInv

\* In the last pass the next entry of the log is where the state comes to.
LEMMA LastPassKeeps ==
  ASSUME HInv, HNext, last_pass
  PROVE  HInv'
<1>1. /\ IInv /\ Next /\ log' = log /\ log \in Seq(Snapshots) /\ Complete
      /\ clock \in Nat /\ clock' = (IF clock < Len(log) THEN clock + 1 ELSE clock)
      /\ exact' = (exact /\ ~Guesses) /\ exact \in BOOLEAN
  BY DEF HInv, HNext
<1>2. /\ prog' = prog /\ labels' = labels /\ jmp_cache' = jmp_cache
      /\ result = "running" /\ last_pass' = TRUE
  BY <1>1, StepLeaves DEF StartLastPass, IInv, TypeOK
<1>3. IInv'
  BY <1>1, StepKeeps
<1>4. Len(log) \in Nat
  BY <1>1, LenProperties
<1>5. clock' \in Nat /\ exact' \in BOOLEAN
  BY <1>1, <1>4
<1>6. Complete'
  BY <1>1, <1>2 DEF Complete
<1>7. CacheKept' => CacheKept
  BY <1>1, <1>2 DEF CacheKept, ChoseJmpSize, AtStatement, At
<1>8. ASSUME Repeatable'
      PROVE  /\ result' = "running" => clock' < Len(log') /\ Agrees(Snapshot', log'[clock' + 1])
             /\ ~LateIn(prog') => result' \in {"running", "SUCCESS"}
  <2>1. Repeatable /\ exact /\ CacheKept /\ ~Guesses
    BY <1>1, <1>7, <1>8 DEF Repeatable
  <2>2. clock < Len(log) /\ Agrees(Snapshot, log[clock + 1])
    BY <1>2, <2>1 DEF HInv
  <2>3. CASE stack = << >>
    <3>1. Finish
      BY <1>1, <2>3 DEF Next, EvalAssign, EvalAugmentedAssign, EvalDel, EvalIf, EvalWhile,
         EvalRepeat, EndBody, EvalBreak, EvalContinue, EvalAssert, EvalError, EvalCode,
         EvalLabel, EvalOrg, EvalSpace, EvalString, EvalAlign, EvalInstruction,
         StartLastPass, Executing
    <3> QED
      BY <3>1 DEF Finish, Ends
  <2>4. CASE stack # << >>
    <3>1. log[clock + 1].stack # << >>
      BY <2>2, <2>4, Seen
    <3>2. clock + 1 \in 1..(Len(log) - 1) /\ clock' = clock + 1 /\ clock + 1 < Len(log)
      BY <1>1, <1>4, <2>2, <3>1 DEF Complete
    <3>3. Ran(prog, log[clock + 1], log[clock + 2], labels)
      <4>1. (clock + 1) + 1 = clock + 2
        BY <1>1
      <4> QED
        BY <1>1, <2>1, <3>2, <4>1 DEF Complete
    <3>4. ChoseJmpSize(log[clock + 1]) =>
            X86!Remembered(jmp_cache, log[clock + 1].addr)
              = log[clock + 2].addr - log[clock + 1].addr
      <4>1. (clock + 1) + 1 = clock + 2
        BY <1>1
      <4> QED
        BY <2>1, <3>2, <4>1 DEF CacheKept
    <3>5. \/ result' = "running" /\ Agrees(Snapshot', log[clock + 2])
          \/ result' # "running" /\ LateIn(prog)
      BY <1>1, <2>1, <2>2, <3>3, <3>4, LastPassRepeats
    <3>6. clock' + 1 = clock + 2 /\ clock' < Len(log')
      BY <1>1, <3>2
    <3> QED
      BY <1>1, <1>2, <3>5, <3>6
  <2> QED
    BY <2>3, <2>4
<1> QED
  BY <1>1, <1>2, <1>3, <1>5, <1>6, <1>8 DEF HInv

LEMMA HInitOK == HInit => HInv
<1> SUFFICES ASSUME HInit
             PROVE  HInv
  OBVIOUS
<1>1. Init /\ log = << >> /\ clock = 0 /\ exact = TRUE /\ IInv
  BY InitOK DEF HInit
<1>2. IsStart(Snapshot) /\ active_lang \notin Langs /\ last_pass = FALSE
  BY <1>1, TwoPassAssumption, SeenNow DEF Init, IsStart, FirstFrame, Langs, NoLang, WildLang
<1>3. Recorded
  <2>1. Len(log) = 0
    BY <1>1
  <2> QED
    BY <1>1, <1>2, <2>1 DEF Recorded
<1>4. log \in Seq(Snapshots)
  BY <1>1
<1> QED
  BY <1>1, <1>2, <1>3, <1>4 DEF HInv

LEMMA HStepKeeps == HInv /\ [HNext]_hvars => HInv'
<1> SUFFICES ASSUME HInv, [HNext]_hvars
             PROVE  HInv'
  OBVIOUS
<1>1. CASE HNext
  <2>1. last_pass \in BOOLEAN /\ result = "running"
    BY <1>1, StepLeaves DEF HInv, HNext, IInv, TypeOK
  <2> QED
    BY <1>1, <2>1, FirstPassKeeps, SecondPassStarts, LastPassKeeps
<1>2. CASE UNCHANGED hvars
  <2>1. UNCHANGED vars /\ log' = log /\ clock' = clock /\ exact' = exact
    BY <1>2 DEF hvars
  <2>2. IInv'
    BY <2>1, StepKeeps DEF HInv
  <2>3. Snapshot' = Snapshot
    BY <2>1 DEF Snapshot, vars
  <2>4. Recorded' = Recorded /\ Complete' = Complete
    BY <2>1, <2>3 DEF Recorded, Complete, vars
  <2>5. CacheKept' = CacheKept
    BY <2>1 DEF CacheKept, ChoseJmpSize, AtStatement, At, vars
  <2> QED
    BY <2>1, <2>2, <2>3, <2>4, <2>5 DEF HInv, Repeatable, vars
<1> QED
  BY <1>1, <1>2

LEMMA HInvariant == HSpec => []HInv
BY HInitOK, HStepKeeps, PTL DEF HSpec

\* The last pass repeats the first, statement by statement.
THEOREM ReplayCorrect == HSpec => []Replay
<1>1. HInv => Replay
  BY SeenNow DEF HInv, Replay, Agrees, LangKept
<1> QED
  BY <1>1, HInvariant, PTL

\* A label is where the last pass comes to it.
THEOREM LabelsCorrect == HSpec => []LabelsWhereFound
<1>1. HInv => LabelsWhereFound
  <2> SUFFICES ASSUME HInv, last_pass, Repeatable, Executing("LABEL")
               PROVE  labels[Stmt.name] = addr
    BY DEF LabelsWhereFound
  <2> DEFINE a == log[clock + 1]
  <2>1. stack # << >> /\ result = "running" /\ Stmt.op = "LABEL"
    BY DEF Executing
  <2>2. clock < Len(log) /\ Agrees(Snapshot, a) /\ clock \in Nat /\ Len(log) \in Nat
        /\ Complete /\ exact /\ IInv
    BY <2>1, LenProperties DEF HInv, Repeatable
  <2>3. a.stack # << >> /\ a.addr = addr /\ AtIn(prog, a) = Stmt
    BY <2>1, <2>2, Seen
  <2>4. clock + 1 \in 1..(Len(log) - 1)
    BY <2>2, <2>3 DEF Complete
  <2>5. Ran(prog, a, log[(clock + 1) + 1], labels)
    BY <2>2, <2>4 DEF Complete
  <2>6. IsAtStatement(prog, a)
    BY <2>2, ExecutingAt
  <2> QED
    BY <2>1, <2>3, <2>5, <2>6 DEF Ran, RanStatement, RanLabel
<1> QED
  BY <1>1, HInvariant, PTL

\* Only names and jumps fail in the last pass.
THEOREM FailsEarlyCorrect == HSpec => []FailsEarly
<1>1. HInv => FailsEarly
  BY DEF HInv, FailsEarly, LateIn
<1> QED
  BY <1>1, HInvariant, PTL

\* The history adds no behaviour to the assembler: what holds of every run holds
\* of every run with its history, TypeOK and StackMatchesTree among it.
THEOREM HistoryIsTwoPass == HSpec => Spec
<1>1. HInit => Init
  BY DEF HInit
<1>2. [HNext]_hvars => [Next]_vars
  BY DEF HNext, hvars
<1> QED
  BY <1>1, <1>2, PTL DEF HSpec, Spec
=============================================================================
