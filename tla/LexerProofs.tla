---------------------------- MODULE LexerProofs ----------------------------
(***************************************************************************)
(* The tokenizer on every file: what is read stays in the buffer, and what *)
(* is handed out is indented, closed and cut into lines.                   *)
(***************************************************************************)
EXTENDS Lexer, FiniteSetTheorems, SequenceTheorems, WellFoundedInduction, TLAPS

----------------------------------------------------------------------------
(* The inductive invariant                                                 *)

Ucs == [buf : Seq(Chars), curr : Nat, end : Nat, inp : Nat, cp : Chars \cup {EOF},
        col_offset : Nat, implicit_newline : BOOLEAN, done : {"E_OK", "E_EOF"}]

\* There is room for the newline until it is written; and once the last line was
\* started, it is what the file ends with.
UcOK(u) ==
  /\ u \in Ucs
  /\ u.end <= Len(u.buf) /\ u.inp <= u.end /\ u.curr <= u.end
  /\ ~u.implicit_newline => u.end < Len(u.buf) /\ u.curr <= u.inp
  /\ u.done = "E_EOF" => u.implicit_newline /\ u.end >= 1 /\ u.buf[u.end] = "\n"

\* Everything was read.
AtEnd(u) == u.curr = u.end /\ u.done = "E_EOF"

CountIn(tk, type, n) == Cardinality({i \in 1..n : tk[i].type = type})

DepthIn(tk, n) == CountIn(tk, "INDENT", n) - CountIn(tk, "DEDENT", n)

LastIn(tk, types) == tk = << >> \/ tk[Len(tk)].type \in types

Layouts == {"NEWLINE", "INDENT", "DEDENT", "ENDMARKER"}

\* What holds of the tokens whatever comes next.
TokensOK(tk) ==
  /\ \A n \in 1..Len(tk) : DepthIn(tk, n) >= 0
  /\ \A n \in 1..Len(tk) :
       CountIn(tk, "LPAR", n) > CountIn(tk, "RPAR", n) => tk[n].type \notin Layouts
  /\ \A n \in 2..Len(tk) :
       /\ tk[n].type = "INDENT" => tk[n - 1].type = "NEWLINE"
       /\ tk[n].type \in {"DEDENT", "ENDMARKER"} => tk[n - 1].type \in {"NEWLINE", "DEDENT"}

\* The tokens and the stacks say the same.
Balanced ==
  /\ DepthIn(tokens, Len(tokens)) + pendin = Len(indstack) - 1
  /\ CountIn(tokens, "LPAR", Len(tokens)) - CountIn(tokens, "RPAR", Len(tokens))
       = Len(parenstack)
  /\ CountIn(tokens, "ENDMARKER", Len(tokens)) > 0 =>
       phase = "done" /\ DepthIn(tokens, Len(tokens)) = 0

\* The levels of indentation, the first of which is column 0.
LevelsOK(s) ==
  /\ s[1] = [col |-> 0, altcol |-> 0]
  /\ \A i, j \in 1..Len(s) : i < j => s[i].col < s[j].col /\ s[i].altcol < s[j].altcol

\* An indentation is measured and handed out between two lines.
BetweenLines ==
  /\ atbol => phase = "nextline" /\ pendin = 0
  /\ pendin # 0 => phase \in {"nextline", "pending"} /\ parenstack = << >>
  /\ pendin > 0 => pendin = 1 /\ LastIn(tokens, {"NEWLINE"})
  /\ pendin < 0 => LastIn(tokens, {"NEWLINE", "DEDENT"})
  /\ atbol \/ phase = "indentation" \/ (blankline /\ phase \notin {"nextline", "done"}) =>
       InParentheses \/ LastIn(tokens, {"NEWLINE"})

\* At the end of the file every level is closed, or about to be.
Closed ==
  InParentheses \/ (Len(indstack) = 1 /\ LastIn(tokens, {"NEWLINE", "DEDENT"}))

Ending ==
  /\ phase = "token" /\ uc.cp = EOF => uc.curr = uc.end
  /\ AtEnd(uc) =>
       /\ phase \in {"nextline", "indentation", "pending", "token", "block comment", "done"}
       /\ phase = "indentation" => col = 0
       /\ phase = "token" => uc.cp \in {"\n", EOF}
       /\ \/ phase = "nextline" /\ ~atbol
          \/ phase = "pending"
          \/ phase = "token" /\ uc.cp = EOF
          => Closed

LInv ==
  /\ TypeOK /\ UcOK(uc) /\ LevelsOK(indstack)
  /\ TokensOK(tokens) /\ Balanced /\ BetweenLines /\ Ending

----------------------------------------------------------------------------
(* Least and greatest                                                      *)

\* Every set of naturals has a least element.
LEMMA Least ==
  ASSUME NEW A \in SUBSET Nat, A # {}
  PROVE  \E m \in A : \A n \in A : m <= n
<1> DEFINE Below(n) == 0..n
           T == {Below(n) : n \in A}
<1>1. IsWellFoundedOn(StrictSubsetOrdering(Nat), FiniteSubsetsOf(Nat))
  BY FS_StrictSubsetOrderingWellFounded
<1>2. T \subseteq FiniteSubsetsOf(Nat) /\ T # {}
  <2>1. ASSUME NEW n \in A
        PROVE  Below(n) \in SUBSET Nat /\ IsFiniteSet(Below(n))
    BY FS_Interval
  <2> QED
    BY <2>1 DEF FiniteSubsetsOf
<1>3. PICK x \in T : \A y \in T : ~(<<y, x>> \in StrictSubsetOrdering(Nat))
  BY <1>1, <1>2, WFMin, Zenon
<1>4. PICK m \in A : x = Below(m)
  OBVIOUS
<1>5. ASSUME NEW n \in A, n < m
      PROVE  FALSE
  <2>1. Below(n) \in T
    OBVIOUS
  <2>2. Below(n) \subseteq Below(m) /\ m \in Below(m) /\ m \notin Below(n)
    BY <1>5
  <2>3. Below(n) \in SUBSET Nat /\ Below(m) \in SUBSET Nat
    OBVIOUS
  <2>4. <<Below(n), Below(m)>> \in StrictSubsetOrdering(Nat)
    BY <2>2, <2>3 DEF StrictSubsetOrdering
  <2> QED
    BY <1>3, <1>4, <2>1, <2>4
<1> QED
  BY <1>5

\* Every nonempty set of positions has a last one.
LEMMA Last ==
  ASSUME NEW len \in Nat, NEW S \in SUBSET (1..len), S # {}
  PROVE  \E m \in S : \A k \in S : k <= m
<1> DEFINE Back == {len - k : k \in S}
<1>0. ASSUME NEW k \in S
      PROVE  k \in 1..len /\ k \in Int /\ len - k \in Nat
  <2>1. k \in 1..len
    OBVIOUS
  <2> QED
    BY <2>1
<1>1. Back \in SUBSET Nat /\ Back # {}
  BY <1>0
<1>2. PICK b \in Back : \A c \in Back : b <= c
  <2> HIDE DEF Back
  <2> QED
    BY <1>1, Least
<1>3. PICK m \in S : b = len - m
  OBVIOUS
<1>4. ASSUME NEW k \in S
      PROVE  k <= m
  <2>1. b <= len - k
    BY <1>2
  <2>2. k \in Int /\ m \in Int
    BY <1>0
  <2> QED
    BY <1>3, <2>1, <2>2
<1> QED
  BY <1>4

----------------------------------------------------------------------------
(* Reading                                                                 *)

\* The line end found is one, or the end of the file.
LEMMA LineEndFound ==
  ASSUME NEW u, UcOK(u)
  PROVE  /\ LineEnd(u) \in u.curr..u.end
         /\ LineEnd(u) # u.end => u.buf[LineEnd(u) + 1] \in {"\n", "\r"}
<1> DEFINE ends == {i \in u.curr..(u.end - 1) : u.buf[i + 1] \in {"\n", "\r"}}
<1>1. u.curr \in Nat /\ u.end \in Nat /\ u.curr <= u.end
  BY DEF UcOK, Ucs
<1>2. CASE ends = {}
  BY <1>1, <1>2 DEF LineEnd
<1>3. CASE ends # {}
  <2>1. ends \in SUBSET Nat
    BY <1>1
  <2>2. \E i \in ends : \A j \in ends : i <= j
    <3> HIDE DEF ends
    <3> QED
      BY <1>3, <2>1, Least
  <2>3. LineEnd(u) = CHOOSE i \in ends : \A j \in ends : i <= j
    BY <1>3 DEF LineEnd
  <2>4. LineEnd(u) \in ends
    <3> HIDE DEF ends
    <3> QED
      BY <2>2, <2>3
  <2> QED
    BY <1>1, <2>4
<1> QED
  BY <1>2, <1>3

\* Where a line stops.
LEMMA LineVerified ==
  ASSUME NEW u, UcOK(u)
  PROVE  /\ Verified(u).inp \in Nat
         /\ u.curr <= Verified(u).inp /\ Verified(u).inp <= u.end
         /\ Verified(u).done \in {"E_OK", "E_EOF"}
         /\ Verified(u).done = "E_OK" => u.curr < Verified(u).inp
         /\ Verified(u).done = "E_EOF" =>
              Verified(u).inp = u.end /\ Verified(u).last # "\n"
<1> DEFINE i == LineEnd(u)
           next == IF i + 1 < u.end THEN u.buf[i + 2] ELSE EOF
           crlf == u.buf[i + 1] = "\r" /\ next = "\n"
<1>1. u.curr \in Nat /\ u.end \in Nat /\ u.curr <= u.end
  BY DEF UcOK, Ucs
<1>2. i \in u.curr..u.end
  BY LineEndFound
<1>3. Verified(u) =
        IF i = u.end THEN [inp |-> i, last |-> EOF, done |-> "E_EOF"]
        ELSE [inp  |-> IF crlf THEN i + 2 ELSE i + 1,
              last |-> IF u.buf[i + 1] = "\r" THEN next ELSE "\n",
              done |-> "E_OK"]
  BY DEF Verified
<1>4. crlf => i + 1 < u.end
  BY DEF EOF
<1> HIDE DEF i, next, crlf
<1>5. CASE i = u.end
  BY <1>1, <1>2, <1>3, <1>5 DEF EOF
<1>6. CASE i # u.end
  <2>1. i + 1 <= u.end
    BY <1>1, <1>2, <1>6
  <2>2. /\ Verified(u).inp = IF crlf THEN i + 2 ELSE i + 1
        /\ Verified(u).done = "E_OK"
    BY <1>3, <1>6
  <2>3. CASE crlf
    BY <1>1, <1>2, <1>4, <2>2, <2>3
  <2>4. CASE ~crlf
    BY <1>1, <1>2, <2>1, <2>2, <2>4
  <2> QED
    BY <2>3, <2>4
<1> QED
  BY <1>5, <1>6

\* The fields after a newline was written as the buffer b.
Widened(u, b) ==
  [u EXCEPT !.buf = b, !.inp = u.inp + 1, !.end = u.end + 1, !.implicit_newline = TRUE]

LEMMA WidenedFields ==
  ASSUME NEW u \in Ucs, NEW b \in Seq(Chars)
  PROVE  /\ Widened(u, b) \in Ucs
         /\ Widened(u, b).buf = b /\ Widened(u, b).inp = u.inp + 1
         /\ Widened(u, b).end = u.end + 1 /\ Widened(u, b).implicit_newline = TRUE
         /\ Widened(u, b).curr = u.curr /\ Widened(u, b).done = u.done
<1>1. /\ u.curr \in Nat /\ u.inp \in Nat /\ u.end \in Nat /\ u.col_offset \in Nat
      /\ u.cp \in Chars \cup {EOF} /\ u.done \in {"E_OK", "E_EOF"}
  BY DEF Ucs
<1> DEFINE i == u.inp + 1
           e == u.end + 1
<1>3. i \in Nat /\ e \in Nat
  BY <1>1
<1>4. Widened(u, b) = [u EXCEPT !.buf = b, !.inp = i, !.end = e, !.implicit_newline = TRUE]
  BY DEF Widened
<1> HIDE DEF i, e
<1>2. Widened(u, b) =
        [buf |-> b, curr |-> u.curr, end |-> e, inp |-> i, cp |-> u.cp,
         col_offset |-> u.col_offset, implicit_newline |-> TRUE, done |-> u.done]
  BY <1>4 DEF Ucs
<1>5. Widened(u, b) \in Ucs
  BY <1>1, <1>2, <1>3 DEF Ucs
<1> QED
  BY <1>2, <1>5 DEF i, e

LEMMA NewlineWritten ==
  ASSUME NEW u \in Ucs, u.inp < Len(u.buf)
  PROVE  \E b \in Seq(Chars) :
           /\ WithImplicitNewline(u) = Widened(u, b)
           /\ Len(b) = Len(u.buf) /\ b[u.inp + 1] = "\n"
<1> DEFINE b == [u.buf EXCEPT ![u.inp + 1] = "\n"]
<1>1. WithImplicitNewline(u) = Widened(u, b)
  BY DEF WithImplicitNewline, Widened
<1>2. u.buf \in Seq(Chars) /\ u.inp \in Nat /\ "\n" \in Chars
  BY DEF Ucs, Chars
<1>3. u.inp + 1 \in 1..Len(u.buf)
  BY <1>2, LenProperties
<1>4. b \in Seq(Chars) /\ Len(b) = Len(u.buf) /\ b[u.inp + 1] = "\n"
  BY <1>2, <1>3, ExceptSeq
<1> HIDE DEF b
<1> QED
  BY <1>1, <1>4

\* What the end of a line makes of the file.
LEMMA LineStarted ==
  ASSUME NEW u, UcOK(u), ~u.implicit_newline
  PROVE  /\ UcOK(StartLine(u))
         /\ StartLine(u).curr = u.curr
         /\ StartLine(u).curr < StartLine(u).inp
<1> DEFINE v == Verified(u)
           w == [u EXCEPT !.inp = v.inp, !.done = v.done, !.implicit_newline = FALSE,
                          !.col_offset = 0]
<1>1. /\ v.inp \in Nat /\ u.curr <= v.inp /\ v.inp <= u.end
      /\ v.done \in {"E_OK", "E_EOF"}
      /\ v.done = "E_OK" => u.curr < v.inp
      /\ v.done = "E_EOF" => v.inp = u.end /\ v.last # "\n"
  BY LineVerified
<1>2. StartLine(u) = IF v.last = "\n" THEN w ELSE WithImplicitNewline(w)
  BY DEF StartLine
<1> HIDE DEF v
<1>3. /\ u \in Ucs /\ u.curr \in Nat /\ u.end \in Nat
      /\ u.end < Len(u.buf) /\ Len(u.buf) \in Nat
  BY LenProperties DEF UcOK, Ucs
<1>4. /\ w \in Ucs /\ w.buf = u.buf /\ w.curr = u.curr /\ w.end = u.end
      /\ w.inp = v.inp /\ w.done = v.done /\ w.implicit_newline = FALSE
  BY <1>1, <1>3 DEF Ucs
<1> HIDE DEF w
<1>5. CASE v.last = "\n"
  <2>1. v.done = "E_OK"
    BY <1>1, <1>5
  <2>2. w.done # "E_EOF"
    BY <1>4, <2>1
  <2>3. UcOK(w)
    BY <1>1, <1>3, <1>4, <2>2 DEF UcOK
  <2> QED
    BY <1>1, <1>2, <1>4, <1>5, <2>1, <2>3
<1>6. CASE v.last # "\n"
  <2>1. w.inp < Len(w.buf)
    BY <1>1, <1>3, <1>4
  <2>2. PICK b \in Seq(Chars) :
          /\ WithImplicitNewline(w) = Widened(w, b)
          /\ Len(b) = Len(w.buf) /\ b[w.inp + 1] = "\n"
    BY <1>4, <2>1, NewlineWritten
  <2> DEFINE x == Widened(w, b)
  <2>3. /\ x \in Ucs
        /\ x.buf = b /\ x.inp = w.inp + 1
        /\ x.end = w.end + 1 /\ x.implicit_newline = TRUE
        /\ x.curr = w.curr /\ x.done = w.done
    BY <1>4, WidenedFields
  <2> HIDE DEF x
  <2>4. x.end <= Len(x.buf) /\ x.inp <= x.end /\ x.curr < x.inp
    BY <1>1, <1>3, <1>4, <2>2, <2>3
  <2>5. x.done = "E_EOF" => x.end >= 1 /\ x.buf[x.end] = "\n"
    <3> SUFFICES ASSUME x.done = "E_EOF"
                 PROVE  x.end >= 1 /\ x.buf[x.end] = "\n"
      OBVIOUS
    <3>1. w.inp = u.end
      BY <1>1, <1>4, <2>3
    <3> QED
      BY <1>3, <1>4, <2>2, <2>3, <3>1
  <2>6. UcOK(x)
    BY <1>3, <1>4, <2>3, <2>4, <2>5 DEF UcOK
  <2>7. StartLine(u) = x
    BY <1>2, <1>6, <2>2 DEF x
  <2> QED
    BY <1>4, <2>3, <2>4, <2>6, <2>7
<1> QED
  BY <1>5, <1>6

\* What reading a code point does: the end of the file is only where all of it,
\* and the newline, was read.
Reads(u, n) ==
  /\ UcOK(n)
  /\ n.cp = EOF => u.curr = u.end /\ n.curr = u.curr /\ n.end = u.end /\ n.done = u.done
  /\ n.cp # EOF => n.curr = u.curr + 1
  /\ AtEnd(n) => n.cp \in {"\n", EOF}
  /\ AtEnd(u) => n.cp = EOF

LEMMA CpRead ==
  ASSUME NEW u, UcOK(u), ~u.implicit_newline => u.curr < u.inp
  PROVE  /\ UcOK(ReadCp(u))
         /\ ReadCp(u).cp = EOF =>
              /\ u.curr = u.end /\ ReadCp(u).curr = u.curr /\ ReadCp(u).end = u.end
              /\ ReadCp(u).done = u.done
         /\ ReadCp(u).cp # EOF => ReadCp(u).curr = u.curr + 1 /\ u.curr < u.end
         /\ AtEnd(ReadCp(u)) => ReadCp(u).cp \in {"\n", EOF}
<1>1. /\ u \in Ucs /\ u.curr \in Nat /\ u.end \in Nat /\ u.inp \in Nat
      /\ u.buf \in Seq(Chars)
      /\ u.end <= Len(u.buf) /\ u.inp <= u.end /\ u.curr <= u.end
      /\ ~u.implicit_newline => u.end < Len(u.buf) /\ u.curr < u.inp
      /\ u.done = "E_EOF" => u.implicit_newline /\ u.end >= 1 /\ u.buf[u.end] = "\n"
  BY DEF UcOK, Ucs
<1>2. CASE u.curr < u.end
  <2> DEFINE c == u.buf[u.curr + 1]
             k == u.curr + 1
             r == [u EXCEPT !.cp = c, !.curr = k]
  <2>1. ReadCp(u) = r
    BY <1>2 DEF ReadCp
  <2>2. u.curr + 1 \in 1..Len(u.buf)
    BY <1>1, <1>2, LenProperties
  <2>3. c \in Chars
    BY <1>1, <2>2, ElementOfSeq
  <2>4. c # EOF
    BY <2>3 DEF Chars, EOF
  <2>5. k \in Nat /\ k = u.curr + 1 /\ c = u.buf[k]
    BY <1>1
  <2> HIDE DEF c, k
  <2>6. /\ r \in Ucs /\ r.cp = c /\ r.curr = k /\ r.buf = u.buf /\ r.end = u.end
        /\ r.inp = u.inp /\ r.done = u.done /\ r.implicit_newline = u.implicit_newline
    BY <1>1, <2>3, <2>5 DEF Ucs
  <2> HIDE DEF r
  <2>7. UcOK(r)
    BY <1>1, <1>2, <2>5, <2>6 DEF UcOK
  <2>8. AtEnd(r) => r.cp = "\n"
    BY <1>1, <2>5, <2>6 DEF AtEnd
  <2> QED
    BY <1>2, <2>1, <2>4, <2>5, <2>6, <2>7, <2>8
<1>3. CASE ~(u.curr < u.end)
  <2> DEFINE r == [u EXCEPT !.cp = EOF]
  <2>1. ReadCp(u) = r
    BY <1>3 DEF ReadCp
  <2>2. /\ r \in Ucs /\ r.cp = EOF /\ r.curr = u.curr /\ r.buf = u.buf /\ r.end = u.end
        /\ r.inp = u.inp /\ r.done = u.done /\ r.implicit_newline = u.implicit_newline
    BY <1>1 DEF Ucs
  <2> HIDE DEF r
  <2>3. UcOK(r)
    BY <1>1, <2>2 DEF UcOK
  <2>4. u.curr = u.end
    BY <1>1, <1>3
  <2> QED
    BY <2>1, <2>2, <2>3, <2>4
<1> QED
  BY <1>2, <1>3

LEMMA CpNext ==
  ASSUME NEW u, UcOK(u)
  PROVE  Reads(u, NextCp(u))
<1> DEFINE w == IF u.curr = u.inp /\ ~u.implicit_newline THEN StartLine(u) ELSE u
           c == w.col_offset + 1
           x == [w EXCEPT !.col_offset = c]
<1>1. NextCp(u) = ReadCp(x)
  BY DEF NextCp
<1>2. /\ UcOK(w) /\ w.curr = u.curr
      /\ ~w.implicit_newline => w.curr < w.inp
      /\ w = u \/ w.curr < w.inp
  <2>1. CASE u.curr = u.inp /\ ~u.implicit_newline
    <3>1. w = StartLine(u)
      BY <2>1
    <3> QED
      BY <2>1, <3>1, LineStarted
  <2>2. CASE ~(u.curr = u.inp /\ ~u.implicit_newline)
    <3>1. w = u
      BY <2>2
    <3> QED
      BY <2>2, <3>1 DEF UcOK, Ucs
  <2> QED
    BY <2>1, <2>2
<1> HIDE DEF w
<1>3. w \in Ucs /\ c \in Nat
  BY <1>2 DEF UcOK, Ucs
<1> HIDE DEF c
<1>4. /\ x \in Ucs /\ x.cp = w.cp /\ x.curr = w.curr /\ x.buf = w.buf /\ x.end = w.end
      /\ x.inp = w.inp /\ x.done = w.done /\ x.implicit_newline = w.implicit_newline
  BY <1>3 DEF Ucs
<1> HIDE DEF x
<1>5. UcOK(x)
  BY <1>2, <1>4 DEF UcOK
<1> DEFINE n == ReadCp(x)
<1>6. /\ UcOK(n)
      /\ n.cp = EOF =>
           x.curr = x.end /\ n.curr = x.curr /\ n.end = x.end /\ n.done = x.done
      /\ n.cp # EOF => n.curr = x.curr + 1 /\ x.curr < x.end
      /\ AtEnd(n) => n.cp \in {"\n", EOF}
  BY <1>2, <1>4, <1>5, CpRead
<1> HIDE DEF n
<1>7. ASSUME n.cp = EOF
      PROVE  u.curr = u.end /\ n.curr = u.curr /\ n.end = u.end /\ n.done = u.done
  <2>1. ~(w.curr < w.inp)
    BY <1>2, <1>3, <1>4, <1>6, <1>7 DEF UcOK, Ucs
  <2> QED
    BY <1>2, <1>4, <1>6, <1>7, <2>1
<1>8. ASSUME AtEnd(u)
      PROVE  n.cp = EOF
  <2>1. u.implicit_newline
    BY <1>8 DEF AtEnd, UcOK
  <2>2. w = u
    BY <2>1 DEF w
  <2>3. ~(x.curr < x.end)
    BY <1>4, <1>8, <2>2 DEF AtEnd, UcOK, Ucs
  <2> QED
    BY <1>6, <2>3
<1>9. Reads(u, n)
  BY <1>2, <1>4, <1>6, <1>7, <1>8 DEF Reads
<1> QED
  BY <1>1, <1>9 DEF n

\* What giving a code point back does: nothing at the end of the file.
LEMMA CpBackup ==
  ASSUME NEW u, UcOK(u)
  PROVE  /\ UcOK(BackupCp(u))
         /\ BackupCp(u).cp = u.cp /\ BackupCp(u).end = u.end /\ BackupCp(u).done = u.done
         /\ BackupCp(u).curr = IF u.curr = 0 \/ u.cp = EOF THEN u.curr ELSE u.curr - 1
<1> DEFINE c == IF u.col_offset > 0 THEN u.col_offset - 1 ELSE 0
           k == IF u.curr = 0 \/ u.cp = EOF THEN u.curr ELSE u.curr - 1
           b == [u EXCEPT !.col_offset = c, !.curr = k]
<1>1. BackupCp(u) = b
  BY DEF BackupCp
<1>2. u \in Ucs /\ c \in Nat /\ k \in Nat /\ k <= u.curr
  BY DEF UcOK, Ucs
<1>3. k = IF u.curr = 0 \/ u.cp = EOF THEN u.curr ELSE u.curr - 1
  OBVIOUS
<1> HIDE DEF c, k
<1>4. /\ b \in Ucs /\ b.cp = u.cp /\ b.curr = k /\ b.buf = u.buf /\ b.end = u.end
      /\ b.inp = u.inp /\ b.done = u.done /\ b.implicit_newline = u.implicit_newline
  BY <1>2 DEF Ucs
<1> HIDE DEF b
<1>5. UcOK(b)
  BY <1>2, <1>4 DEF UcOK, Ucs
<1> QED
  BY <1>1, <1>3, <1>4, <1>5

\* A code point that is read again is one: the end of the file stays behind it.
LEMMA CpReread ==
  ASSUME NEW u, UcOK(u), u.cp # EOF => u.curr >= 1
  PROVE  /\ UcOK(Reread(u))
         /\ AtEnd(Reread(u)) => Reread(u).cp \in {"\n", EOF}
         /\ Reread(u).cp = EOF => u.cp = EOF /\ Reread(u).curr = Reread(u).end
<1> DEFINE once == BackupCp(u)
           twice == BackupCp(once)
           n == NextCp(twice)
<1>1. Reread(u) = n
  BY DEF Reread
<1>2. /\ UcOK(once) /\ once.cp = u.cp /\ once.end = u.end
      /\ once.curr = IF u.curr = 0 \/ u.cp = EOF THEN u.curr ELSE u.curr - 1
  BY CpBackup
<1> HIDE DEF once
<1>3. /\ UcOK(twice) /\ twice.end = u.end
      /\ twice.curr = IF once.curr = 0 \/ u.cp = EOF THEN once.curr ELSE once.curr - 1
  BY <1>2, CpBackup
<1> HIDE DEF twice
<1>4. Reads(twice, n)
  BY <1>3, CpNext
<1> HIDE DEF n
<1>5. u.curr \in Nat /\ u.end \in Nat /\ u.curr <= u.end
  BY DEF UcOK, Ucs
<1>6. ASSUME n.cp = EOF
      PROVE  u.cp = EOF /\ n.curr = n.end
  <2>1. twice.curr = twice.end /\ n.curr = twice.curr /\ n.end = twice.end
    BY <1>4, <1>6 DEF Reads
  <2>2. u.cp # EOF => twice.curr < twice.end
    BY <1>2, <1>3, <1>5
  <2> QED
    BY <1>5, <1>3, <2>1, <2>2
<1> QED
  BY <1>1, <1>4, <1>6 DEF Reads

----------------------------------------------------------------------------
(* Counting tokens                                                         *)

TokenSet == [type : Types, start : Int]

LEMMA CountIsNat ==
  ASSUME NEW tk, NEW type, NEW n \in Nat
  PROVE  CountIn(tk, type, n) \in Nat
<1>1. IsFiniteSet(1..n)
  BY FS_Interval
<1>2. {i \in 1..n : tk[i].type = type} \subseteq 1..n
  OBVIOUS
<1>3. IsFiniteSet({i \in 1..n : tk[i].type = type})
  BY <1>1, <1>2, FS_Subset
<1> QED
  BY <1>3, FS_CardinalityType DEF CountIn

\* A token more is one more of its type.
LEMMA CountAdded ==
  ASSUME NEW tk \in Seq(TokenSet), NEW t \in TokenSet, NEW type
  PROVE  /\ \A n \in 0..Len(tk) : CountIn(Append(tk, t), type, n) = CountIn(tk, type, n)
         /\ CountIn(Append(tk, t), type, Len(tk) + 1)
              = CountIn(tk, type, Len(tk)) + (IF t.type = type THEN 1 ELSE 0)
<1> DEFINE new == Append(tk, t)
           len == Len(tk)
           S == {i \in 1..len : tk[i].type = type}
           R == {i \in 1..(len + 1) : new[i].type = type}
<1>1. /\ len \in Nat /\ Len(new) = len + 1
      /\ \A i \in 1..len : new[i] = tk[i]
      /\ new[len + 1] = t
  BY AppendProperties, LenProperties
<1> HIDE DEF new, len
<1>2. ASSUME NEW n \in 0..len
      PROVE  CountIn(new, type, n) = CountIn(tk, type, n)
  <2>1. \A i \in 1..n : new[i] = tk[i]
    BY <1>1, <1>2
  <2>2. {i \in 1..n : new[i].type = type} = {i \in 1..n : tk[i].type = type}
    BY <2>1
  <2> QED
    BY <2>2 DEF CountIn
<1>3. CountIn(tk, type, len) = Cardinality(S) /\ CountIn(new, type, len + 1) = Cardinality(R)
  BY DEF CountIn
<1>4. IsFiniteSet(S) /\ Cardinality(S) \in Nat /\ len + 1 \notin S
  <2>1. IsFiniteSet(1..len)
    BY <1>1, FS_Interval
  <2>2. S \subseteq 1..len
    OBVIOUS
  <2>3. IsFiniteSet(S)
    BY <2>1, <2>2, FS_Subset
  <2> QED
    BY <1>1, <2>2, <2>3, FS_CardinalityType
<1>5. CASE t.type = type
  <2>1. R = S \cup {len + 1}
    BY <1>1, <1>5
  <2>2. Cardinality(R) = Cardinality(S) + 1
    <3> HIDE DEF S, R
    <3> QED
      BY <1>4, <2>1, FS_AddElement
  <2> QED
    BY <1>2, <1>3, <1>5, <2>2 DEF new, len
<1>6. CASE t.type # type
  <2>1. R = S
    BY <1>1, <1>6
  <2>2. CountIn(new, type, len + 1) = CountIn(tk, type, len) + 0
    <3> HIDE DEF S, R
    <3> QED
      BY <1>3, <1>4, <2>1
  <2> QED
    BY <1>2, <1>6, <2>2 DEF new, len
<1> QED
  BY <1>5, <1>6

\* A token of a type that is counted, as it is needed below.
LEMMA CountOne ==
  ASSUME NEW tk \in Seq(TokenSet), NEW t \in TokenSet, NEW type
  PROVE  /\ CountIn(Append(tk, t), type, Len(Append(tk, t)))
              = CountIn(tk, type, Len(tk)) + (IF t.type = type THEN 1 ELSE 0)
         /\ CountIn(tk, type, Len(tk)) \in Nat
<1>1. Len(Append(tk, t)) = Len(tk) + 1 /\ Len(tk) \in Nat
  BY AppendProperties, LenProperties
<1> QED
  BY <1>1, CountAdded, CountIsNat

\* When a token may be handed out.
MayFollow(tk, type) ==
  /\ type = "DEDENT" => DepthIn(tk, Len(tk)) >= 1
  /\ type \in Layouts => CountIn(tk, "LPAR", Len(tk)) = CountIn(tk, "RPAR", Len(tk))
  /\ type = "INDENT" => LastIn(tk, {"NEWLINE"})
  /\ type \in {"DEDENT", "ENDMARKER"} => LastIn(tk, {"NEWLINE", "DEDENT"})

LEMMA TokenAdded ==
  ASSUME NEW tk \in Seq(TokenSet), NEW t \in TokenSet,
         TokensOK(tk), DepthIn(tk, Len(tk)) >= 0, MayFollow(tk, t.type)
  PROVE  TokensOK(Append(tk, t))
<1> DEFINE new == Append(tk, t)
           len == Len(tk)
<1>1. /\ len \in Nat /\ Len(new) = len + 1
      /\ \A i \in 1..len : new[i] = tk[i]
      /\ new[len + 1] = t
  BY AppendProperties, LenProperties
<1>2. ASSUME NEW type
      PROVE  /\ \A n \in 0..len : CountIn(new, type, n) = CountIn(tk, type, n)
             /\ CountIn(new, type, len + 1)
                  = CountIn(tk, type, len) + (IF t.type = type THEN 1 ELSE 0)
             /\ CountIn(tk, type, len) \in Nat
  <2>1. CountIn(tk, type, len) \in Nat
    BY <1>1, CountIsNat
  <2> QED
    BY <2>1, CountAdded DEF new, len
<1>0. DepthIn(tk, len) >= 0
  OBVIOUS
<1> HIDE DEF new, len
<1>3. ASSUME NEW n \in 1..Len(new)
      PROVE  DepthIn(new, n) >= 0
  <2>1. CASE n = len + 1
    <3>1. CASE t.type = "DEDENT"
      <4>1. DepthIn(tk, len) >= 1
        BY <3>1 DEF MayFollow, len
      <4>2. CountIn(new, "INDENT", n) = CountIn(tk, "INDENT", len)
        BY <1>2, <2>1, <3>1
      <4>3. CountIn(new, "DEDENT", n) = CountIn(tk, "DEDENT", len) + 1
        BY <1>2, <2>1, <3>1
      <4> QED
        BY <1>2, <4>1, <4>2, <4>3 DEF DepthIn
    <3>2. CASE t.type # "DEDENT"
      <4>1. CountIn(new, "DEDENT", n) = CountIn(tk, "DEDENT", len)
        BY <1>2, <2>1, <3>2
      <4>2. CountIn(new, "INDENT", n) >= CountIn(tk, "INDENT", len)
        BY <1>2, <2>1
      <4> QED
        BY <1>0, <1>2, <2>1, <4>1, <4>2 DEF DepthIn
    <3> QED
      BY <3>1, <3>2
  <2>2. CASE n # len + 1
    <3>1. n \in 1..len /\ n \in 0..len
      BY <1>1, <2>2
    <3>2. DepthIn(tk, n) >= 0
      BY <3>1 DEF TokensOK, len
    <3> QED
      BY <1>2, <3>1, <3>2 DEF DepthIn
  <2> QED
    BY <2>1, <2>2
<1>4. ASSUME NEW n \in 1..Len(new), CountIn(new, "LPAR", n) > CountIn(new, "RPAR", n)
      PROVE  new[n].type \notin Layouts
  <2>1. CASE n = len + 1
    <3> SUFFICES ASSUME t.type \in Layouts
                 PROVE  FALSE
      BY <1>1, <2>1
    <3>1. CountIn(tk, "LPAR", len) = CountIn(tk, "RPAR", len)
      BY DEF MayFollow, len
    <3>2. t.type # "LPAR" /\ t.type # "RPAR"
      BY DEF Layouts
    <3>3. /\ CountIn(new, "LPAR", n) = CountIn(tk, "LPAR", len)
          /\ CountIn(new, "RPAR", n) = CountIn(tk, "RPAR", len)
      BY <1>2, <2>1, <3>2
    <3> QED
      BY <1>2, <1>4, <3>1, <3>3
  <2>2. CASE n # len + 1
    <3>1. n \in 1..len /\ n \in 0..len
      BY <1>1, <2>2
    <3>2. CountIn(tk, "LPAR", n) > CountIn(tk, "RPAR", n) => tk[n].type \notin Layouts
      BY <3>1 DEF TokensOK, len
    <3> QED
      BY <1>1, <1>2, <1>4, <3>1, <3>2
  <2> QED
    BY <2>1, <2>2
<1>5. ASSUME NEW n \in 2..Len(new)
      PROVE  /\ new[n].type = "INDENT" => new[n - 1].type = "NEWLINE"
             /\ new[n].type \in {"DEDENT", "ENDMARKER"} =>
                  new[n - 1].type \in {"NEWLINE", "DEDENT"}
  <2>1. CASE n = len + 1
    <3>1. n - 1 = len /\ len \in 1..len
      BY <1>1, <2>1
    <3>2. new[n - 1] = tk[len] /\ new[n] = t /\ tk # << >>
      BY <1>1, <2>1, <3>1 DEF len
    <3> QED
      BY <3>2 DEF MayFollow, LastIn, len
  <2>2. CASE n # len + 1
    <3>1. n \in 2..len /\ n - 1 \in 1..len /\ n \in 1..len
      BY <1>1, <2>2
    <3>2. /\ tk[n].type = "INDENT" => tk[n - 1].type = "NEWLINE"
          /\ tk[n].type \in {"DEDENT", "ENDMARKER"} =>
               tk[n - 1].type \in {"NEWLINE", "DEDENT"}
      BY <3>1 DEF TokensOK, len
    <3> QED
      BY <1>1, <3>1, <3>2
  <2> QED
    BY <2>1, <2>2
<1> QED
  BY <1>3, <1>4, <1>5 DEF TokensOK, new

LEMMA DepthNow ==
  ASSUME NEW tk \in Seq(TokenSet), TokensOK(tk)
  PROVE  DepthIn(tk, Len(tk)) >= 0
<1>1. CASE Len(tk) = 0
  <2>1. \A type : CountIn(tk, type, 0) = 0
    <3>1. 1..0 = {}
      OBVIOUS
    <3>2. \A type : {i \in 1..0 : tk[i].type = type} = {}
      BY <3>1
    <3> QED
      BY <3>2, FS_EmptySet DEF CountIn
  <2> QED
    BY <1>1, <2>1 DEF DepthIn
<1>2. CASE Len(tk) # 0
  <2>1. Len(tk) \in 1..Len(tk)
    BY <1>2, LenProperties
  <2> QED
    BY <2>1 DEF TokensOK
<1> QED
  BY <1>1, <1>2

LEMMA LastAdded ==
  ASSUME NEW tk \in Seq(TokenSet), NEW t \in TokenSet, NEW types
  PROVE  LastIn(Append(tk, t), types) <=> t.type \in types
<1>1. /\ Len(Append(tk, t)) = Len(tk) + 1 /\ Append(tk, t)[Len(tk) + 1] = t
      /\ Append(tk, t) # << >>
  BY AppendProperties
<1> QED
  BY <1>1 DEF LastIn

----------------------------------------------------------------------------
(* What several steps have in common                                       *)

\* The parts of the invariant that are about the tokens and the stacks.
Stacks == LevelsOK(indstack) /\ TokensOK(tokens) /\ Balanced

LEMMA Now ==
  ASSUME LInv
  PROVE  /\ UcOK(uc) /\ tokens \in Seq(TokenSet) /\ start \in Int /\ pendin \in Int
         /\ Len(indstack) \in Nat /\ Len(indstack) >= 1
         /\ parenstack \in Seq({"("})
         /\ DepthIn(tokens, Len(tokens)) >= 0
         /\ phase # "done" => CountIn(tokens, "ENDMARKER", Len(tokens)) = 0
         /\ Stacks
<1>1. tokens \in Seq(TokenSet)
  BY DEF LInv, TypeOK, TokenSet
<1>2. DepthIn(tokens, Len(tokens)) >= 0
  BY <1>1, DepthNow DEF LInv
<1>3. Len(tokens) \in Nat
  BY <1>1, LenProperties
<1>4. CountIn(tokens, "ENDMARKER", Len(tokens)) \in Nat
  BY <1>3, CountIsNat
<1>5. phase # "done" => CountIn(tokens, "ENDMARKER", Len(tokens)) = 0
  BY <1>4 DEF LInv, Balanced
<1>6. Len(indstack) \in Nat /\ Len(indstack) >= 1
  BY DEF LInv, TypeOK
<1> QED
  BY <1>1, <1>2, <1>5, <1>6 DEF LInv, TypeOK, Stacks

\* A step that hands out nothing and leaves the stacks.
LEMMA NothingHanded ==
  ASSUME LInv, phase # "done", UNCHANGED <<tokens, indstack, pendin, parenstack>>
  PROVE  Stacks' /\ tokens' \in Seq(TokenSet)
<1>1. CountIn(tokens, "ENDMARKER", Len(tokens)) = 0 /\ tokens \in Seq(TokenSet)
  BY Now
<1> QED
  BY <1>1 DEF LInv, Stacks, Balanced

\* A step that hands out a token that is no part of the indentation and no
\* parenthesis.
LEMMA TokenHanded ==
  ASSUME LInv, phase # "done", NEW type \in Types, Token(type),
         type \notin {"INDENT", "DEDENT", "LPAR", "RPAR"},
         type \in Layouts => parenstack = << >>,
         type = "ENDMARKER" =>
           LastIn(tokens, {"NEWLINE", "DEDENT"}) /\ Len(indstack) = 1 /\ pendin = 0,
         UNCHANGED <<indstack, pendin, parenstack>>
  PROVE  Stacks' /\ tokens' \in Seq(TokenSet) /\ LastIn(tokens', {type})
<1> DEFINE t == [type |-> type, start |-> start]
<1>1. /\ tokens \in Seq(TokenSet) /\ t \in TokenSet /\ t.type = type
      /\ Len(indstack) \in Nat /\ pendin \in Int
      /\ DepthIn(tokens, Len(tokens)) >= 0
      /\ CountIn(tokens, "ENDMARKER", Len(tokens)) = 0
      /\ Stacks
  BY Now DEF TokenSet
<1>2. tokens' = Append(tokens, t) /\ tokens' \in Seq(TokenSet)
  BY <1>1, AppendProperties DEF Token
<1>3. phase' = "done" \/ type # "ENDMARKER"
  BY DEF Token
<1> HIDE DEF t
<1>4. ASSUME NEW x
      PROVE  /\ CountIn(tokens', x, Len(tokens'))
                  = CountIn(tokens, x, Len(tokens)) + (IF type = x THEN 1 ELSE 0)
             /\ CountIn(tokens, x, Len(tokens)) \in Nat
  BY <1>1, <1>2, CountOne
<1>5. /\ CountIn(tokens', "INDENT", Len(tokens')) = CountIn(tokens, "INDENT", Len(tokens))
      /\ CountIn(tokens', "DEDENT", Len(tokens')) = CountIn(tokens, "DEDENT", Len(tokens))
      /\ CountIn(tokens', "LPAR", Len(tokens')) = CountIn(tokens, "LPAR", Len(tokens))
      /\ CountIn(tokens', "RPAR", Len(tokens')) = CountIn(tokens, "RPAR", Len(tokens))
  BY <1>4
<1>6. CountIn(tokens', "ENDMARKER", Len(tokens')) > 0 => type = "ENDMARKER"
  BY <1>1, <1>4
<1>7. DepthIn(tokens', Len(tokens')) = DepthIn(tokens, Len(tokens))
  BY <1>5 DEF DepthIn
<1>8. type \in Layouts =>
        CountIn(tokens, "LPAR", Len(tokens)) = CountIn(tokens, "RPAR", Len(tokens))
  <2> SUFFICES ASSUME type \in Layouts
               PROVE  CountIn(tokens, "LPAR", Len(tokens))
                        = CountIn(tokens, "RPAR", Len(tokens))
    OBVIOUS
  <2>1. Len(parenstack) = 0
    BY EmptySeq
  <2> QED
    BY <1>1, <1>4, <2>1 DEF Stacks, Balanced
<1>9. MayFollow(tokens, type)
  BY <1>8 DEF MayFollow
<1>10. TokensOK(tokens')
  BY <1>1, <1>2, <1>9, TokenAdded DEF Stacks
<1>11. type = "ENDMARKER" => DepthIn(tokens, Len(tokens)) = 0
  <2>1. DepthIn(tokens, Len(tokens)) \in Int
    BY <1>4 DEF DepthIn
  <2>2. DepthIn(tokens, Len(tokens)) + pendin = Len(indstack) - 1
    BY <1>1 DEF Stacks, Balanced
  <2> SUFFICES ASSUME type = "ENDMARKER"
               PROVE  DepthIn(tokens, Len(tokens)) = 0
    OBVIOUS
  <2>3. Len(indstack) = 1 /\ pendin = 0
    OBVIOUS
  <2> QED
    BY <2>1, <2>2, <2>3
<1>12. Balanced'
  BY <1>1, <1>3, <1>5, <1>6, <1>7, <1>11 DEF Stacks, Balanced
<1>13. LastIn(tokens', {type})
  BY <1>1, <1>2, LastAdded
<1> QED
  BY <1>1, <1>2, <1>10, <1>12, <1>13 DEF Stacks

\* Within a line nothing of the layout changes.
LEMMA WithinLine ==
  ASSUME LInv, pendin = 0, phase \notin {"nextline", "indentation", "done"},
         UNCHANGED <<atbol, blankline, pendin, parenstack>>,
         phase' \in {"nextline", "done"} \/ (phase' # "indentation" /\ UNCHANGED tokens)
  PROVE  BetweenLines' /\ atbol = FALSE
<1>1. atbol = FALSE
  BY DEF LInv, BetweenLines, TypeOK
<1> QED
  BY <1>1 DEF LInv, BetweenLines, InParentheses

\* The state of a step that moves on in the text.
LEMMA TypesKept ==
  ASSUME TypeOK, UcOK(uc'), phase' \in Phases, tokens' \in Seq(TokenSet),
         UNCHANGED <<atbol, blankline, col, altcol, indstack, pendin, parenstack>>,
         starting_col_offset' \in Int, start' \in Int, prev' \in Chars \cup {EOF}
  PROVE  TypeOK'
  BY DEF TypeOK, UcOK, Ucs, TokenSet

LEMMA Together ==
  ASSUME TypeOK', UcOK(uc'), Stacks', BetweenLines', Ending'
  PROVE  LInv'
  BY DEF LInv, Stacks

----------------------------------------------------------------------------
(* The steps, one by one                                                   *)

LEMMA NextLineKeeps ==
  ASSUME LInv, NextLine
  PROVE  LInv'
<1>1. Stacks' /\ tokens' \in Seq(TokenSet) /\ UcOK(uc')
  BY NothingHanded, Now DEF NextLine, Silent, layout, inside
<1>2. TypeOK'
  BY <1>1 DEF LInv, TypeOK, NextLine, Silent, layout, inside, Phases, TokenSet
<1>3. BetweenLines'
  BY DEF LInv, BetweenLines, NextLine, Silent, inside, InParentheses
<1>4. Ending'
  <2>1. phase = "nextline" /\ uc' = uc /\ tokens' = tokens /\ indstack' = indstack
        /\ parenstack' = parenstack /\ col' = 0 /\ atbol' = FALSE
        /\ phase' = IF atbol THEN "indentation" ELSE "pending"
    BY DEF NextLine, Silent, inside
  <2> QED
    BY <2>1 DEF LInv, Ending, Closed, InParentheses
<1> QED
  BY <1>1, <1>2, <1>3, <1>4, Together

LEMMA ReadIndentationKeeps ==
  ASSUME LInv, ReadIndentation
  PROVE  LInv'
<1>1. Reads(uc, uc') /\ uc'.cp \in {" ", "\t"}
  BY CpNext, Now DEF ReadIndentation
<1>2. Stacks' /\ tokens' \in Seq(TokenSet) /\ UcOK(uc')
  BY <1>1, NothingHanded DEF ReadIndentation, Silent, inside, Reads
<1>3. col' \in Nat /\ altcol' \in Nat
  <2>1. ASSUME NEW c \in Nat
        PROVE  NextTab(c, 8) \in Nat /\ NextTab(c, 1) \in Nat
    BY DEF NextTab
  <2>2. col \in Nat /\ altcol \in Nat
    BY DEF LInv, TypeOK
  <2>3. NextTab(col, TAB_SIZE) \in Nat /\ NextTab(altcol, ALT_TAB_SIZE) \in Nat
    BY <2>1, <2>2 DEF TAB_SIZE, ALT_TAB_SIZE
  <2> QED
    <3>1. /\ col' = IF uc'.cp = " " THEN col + 1 ELSE NextTab(col, TAB_SIZE)
          /\ altcol' = IF uc'.cp = " " THEN altcol + 1 ELSE NextTab(altcol, ALT_TAB_SIZE)
      BY DEF ReadIndentation
    <3>2. col + 1 \in Nat /\ altcol + 1 \in Nat
      BY <2>2
    <3> QED
      BY <2>3, <3>1, <3>2
<1>4. TypeOK'
  BY <1>2, <1>3 DEF LInv, TypeOK, ReadIndentation, Silent, inside, Phases, TokenSet,
                    UcOK, Ucs
<1>5. BetweenLines'
  BY DEF LInv, BetweenLines, ReadIndentation, Silent, inside, InParentheses
<1>6. Ending'
  <2>1. ~AtEnd(uc')
    BY <1>1 DEF Reads, EOF
  <2> QED
    BY <2>1 DEF Ending, ReadIndentation, Silent
<1> QED
  BY <1>2, <1>4, <1>5, <1>6, Together

LEMMA SkipSpacesKeeps ==
  ASSUME LInv, SkipSpaces
  PROVE  LInv'
<1>1. /\ Reads(uc, uc') /\ pendin = 0 /\ phase \in {"pending", "spaces"}
      /\ UNCHANGED <<tokens, indstack, pendin, parenstack, atbol, blankline, col, altcol,
                     prev>>
      /\ phase' = CASE uc'.cp \in {" ", "\t"} -> "spaces"
                    [] uc'.cp = "#" -> "hash"
                    [] uc'.cp = "/" -> "slash"
                    [] OTHER -> "token"
  BY CpNext, Now DEF SkipSpaces, Silent, layout
<1>2. Stacks' /\ tokens' \in Seq(TokenSet) /\ UcOK(uc')
  BY <1>1, NothingHanded DEF Reads
<1>3. starting_col_offset' \in Int /\ start' \in Int
  <2>1. uc'.col_offset \in Nat /\ uc'.curr \in Nat
    BY <1>2 DEF UcOK, Ucs
  <2> QED
    <3>1. starting_col_offset' = uc'.col_offset - 1 /\ start' = uc'.curr - 1
      BY DEF SkipSpaces
    <3> QED
      BY <2>1, <3>1
<1>4. phase' \in {"spaces", "hash", "slash", "token"}
  BY <1>1
<1>5. TypeOK'
  BY <1>1, <1>2, <1>3, <1>4, TypesKept DEF LInv, TypeOK, Phases
<1>6. BetweenLines' /\ atbol = FALSE
  BY <1>1, <1>4, WithinLine
<1>7. Ending'
  <2>1. uc'.cp = EOF => uc'.curr = uc'.end /\ uc.curr = uc.end /\ uc'.done = uc.done
    BY <1>1 DEF Reads
  <2>2. ASSUME AtEnd(uc')
        PROVE  phase' = "token" /\ uc'.cp \in {"\n", EOF} /\ (uc'.cp = EOF => Closed')
    <3>1. uc'.cp \in {"\n", EOF}
      BY <1>1, <2>2 DEF Reads
    <3>2. phase' = "token"
      BY <1>1, <3>1 DEF EOF
    <3>3. uc'.cp = EOF => AtEnd(uc)
      BY <2>1, <2>2 DEF AtEnd
    <3>4. uc'.cp = EOF => Closed
      BY <1>1, <3>3 DEF LInv, Ending
    <3> QED
      BY <1>1, <3>1, <3>2, <3>4 DEF Closed, InParentheses
  <2> QED
    BY <2>1, <2>2 DEF Ending
<1> QED
  BY <1>2, <1>5, <1>6, <1>7, Together

LEMMA HashCommentKeeps ==
  ASSUME LInv, HashComment
  PROVE  LInv'
<1>1. /\ Reads(uc, uc') /\ phase = "hash"
      /\ UNCHANGED <<tokens, indstack, pendin, parenstack, atbol, blankline, col, altcol,
                     starting_col_offset, start, prev>>
      /\ phase' = IF uc'.cp \in {EOF, "\n", "\r"} THEN "token" ELSE "hash"
  BY CpNext, Now DEF HashComment, Silent, layout, inside
<1>2. Stacks' /\ tokens' \in Seq(TokenSet) /\ UcOK(uc')
  BY <1>1, NothingHanded DEF Reads
<1>3. TypeOK'
  BY <1>1, <1>2, TypesKept DEF LInv, TypeOK, Phases
<1>4. pendin = 0 /\ ~AtEnd(uc)
  BY <1>1 DEF LInv, BetweenLines, Ending
<1>5. BetweenLines'
  BY <1>1, <1>4, WithinLine
<1>6. Ending'
  <2>1. uc'.cp = EOF => uc'.curr = uc'.end /\ ~AtEnd(uc')
    BY <1>1, <1>4 DEF Reads, AtEnd
  <2>2. AtEnd(uc') => phase' = "token" /\ uc'.cp = "\n"
    BY <1>1, <2>1 DEF Reads
  <2> QED
    BY <2>1, <2>2 DEF Ending, EOF
<1> QED
  BY <1>2, <1>3, <1>5, <1>6, Together

LEMMA SlashKeeps ==
  ASSUME LInv, Slash
  PROVE  LInv'
<1> DEFINE n == NextCp(uc)
<1>1. /\ Reads(uc, n) /\ phase = "slash" /\ prev' = EOF
      /\ UNCHANGED <<tokens, indstack, pendin, parenstack, atbol, blankline, col, altcol,
                     starting_col_offset, start>>
      /\ \/ n.cp = "/" /\ uc' = n /\ phase' = "line comment"
         \/ n.cp = "*" /\ uc' = n /\ phase' = "block comment"
         \/ n.cp = EOF /\ uc' = BackupCp(n) /\ phase' = "token"
         \/ n.cp \notin {"/", "*", EOF} /\ uc' = Reread(n) /\ phase' = "token"
  BY CpNext, Now DEF Slash, Silent, layout
<1> HIDE DEF n
<1>2. pendin = 0 /\ ~AtEnd(uc)
  BY <1>1 DEF LInv, BetweenLines, Ending
<1>3. UcOK(uc') /\ Ending'
  <2>1. CASE n.cp \in {"/", "*"} /\ uc' = n /\ phase' # "token"
    <3>1. UcOK(uc') /\ ~AtEnd(uc')
      BY <1>1, <2>1 DEF Reads, EOF
    <3> QED
      BY <2>1, <3>1 DEF Ending
  <2>2. CASE n.cp = EOF /\ uc' = BackupCp(n) /\ phase' = "token"
    <3>1. UcOK(n) /\ n.curr = uc.curr /\ n.end = uc.end /\ n.done = uc.done
          /\ uc.curr = uc.end
      BY <1>1, <2>2 DEF Reads
    <3>2. UcOK(uc') /\ uc'.curr = n.curr /\ uc'.end = n.end /\ uc'.done = n.done
      BY <2>2, <3>1, CpBackup
    <3>3. ~AtEnd(uc')
      BY <1>2, <3>1, <3>2 DEF AtEnd
    <3> QED
      BY <3>1, <3>2, <3>3 DEF Ending
  <2>3. CASE n.cp \notin {"/", "*", EOF} /\ uc' = Reread(n) /\ phase' = "token"
    <3>1. UcOK(n) /\ n.curr >= 1
      BY <1>1, <2>3, Now DEF Reads, UcOK, Ucs
    <3>2. /\ UcOK(uc') /\ uc'.cp # EOF
          /\ AtEnd(uc') => uc'.cp \in {"\n", EOF}
      BY <2>3, <3>1, CpReread
    <3> QED
      BY <2>3, <3>2 DEF Ending
  <2> QED
    BY <1>1, <2>1, <2>2, <2>3
<1>4. Stacks' /\ tokens' \in Seq(TokenSet)
  BY <1>1, NothingHanded
<1>5. TypeOK'
  BY <1>1, <1>3, <1>4, TypesKept DEF LInv, TypeOK, Phases
<1>6. BetweenLines'
  BY <1>1, <1>2, WithinLine
<1> QED
  BY <1>3, <1>4, <1>5, <1>6, Together

LEMMA LineCommentKeeps ==
  ASSUME LInv, LineComment
  PROVE  LInv'
<1> DEFINE n == NextCp(uc)
           ends == n.cp \in {EOF, "\n", "\r"}
<1>1. /\ Reads(uc, n) /\ phase = "line comment"
      /\ UNCHANGED <<tokens, indstack, pendin, parenstack, atbol, blankline, col, altcol,
                     starting_col_offset, start, prev>>
      /\ uc' = IF ends THEN BackupCp(n) ELSE n
      /\ phase' = IF ends THEN "token" ELSE "line comment"
  BY CpNext, Now DEF LineComment, Silent, layout, inside
<1> HIDE DEF n
<1>2. pendin = 0 /\ ~AtEnd(uc)
  BY <1>1 DEF LInv, BetweenLines, Ending
<1>3. /\ UcOK(uc') /\ ~AtEnd(uc')
      /\ phase' = "token" /\ uc'.cp = EOF => uc'.curr = uc'.end
  <2>1. CASE ends
    <3>1. uc' = BackupCp(n) /\ UcOK(n)
      BY <1>1, <2>1 DEF Reads
    <3>2. /\ UcOK(uc') /\ uc'.end = n.end /\ uc'.done = n.done /\ uc'.cp = n.cp
          /\ uc'.curr = IF n.curr = 0 \/ n.cp = EOF THEN n.curr ELSE n.curr - 1
      BY <3>1, CpBackup
    <3>3. CASE n.cp = EOF
      BY <1>1, <1>2, <3>2, <3>3 DEF Reads, AtEnd
    <3>4. CASE n.cp # EOF
      <4>1. /\ uc.curr \in Nat /\ n.curr = uc.curr + 1
            /\ n.end \in Nat /\ n.curr <= n.end
        BY <1>1, <3>1, <3>4, Now DEF Reads, UcOK, Ucs
      <4>2. uc'.curr < uc'.end
        BY <3>2, <3>4, <4>1
      <4> QED
        BY <3>2, <3>4, <4>1, <4>2 DEF AtEnd
    <3> QED
      BY <3>3, <3>4
  <2>2. CASE ~ends
    <3>1. uc' = n /\ phase' # "token"
      BY <1>1, <2>2
    <3>2. UcOK(n) /\ ~AtEnd(n)
      BY <1>1, <2>2 DEF Reads
    <3> QED
      BY <3>1, <3>2
  <2> QED
    BY <2>1, <2>2
<1>4. Ending'
  BY <1>3 DEF Ending
<1>5. Stacks' /\ tokens' \in Seq(TokenSet)
  BY <1>1, NothingHanded
<1>6. TypeOK'
  BY <1>1, <1>3, <1>5, TypesKept DEF LInv, TypeOK, Phases
<1>7. BetweenLines'
  BY <1>1, <1>2, WithinLine
<1> QED
  BY <1>3, <1>4, <1>5, <1>6, <1>7, Together

\* What was given back is still to be read, unless it was the end of the file.
LEMMA GivenBack ==
  ASSUME NEW u, UcOK(u), NEW n, Reads(u, n), AtEnd(BackupCp(n))
  PROVE  AtEnd(u) /\ n.cp = EOF
<1>1. UcOK(n) /\ u.curr \in Nat /\ n.curr \in Nat /\ n.end \in Nat /\ n.curr <= n.end
  BY DEF Reads, UcOK, Ucs
<1>2. /\ BackupCp(n).end = n.end /\ BackupCp(n).done = n.done
      /\ BackupCp(n).curr = IF n.curr = 0 \/ n.cp = EOF THEN n.curr ELSE n.curr - 1
  BY <1>1, CpBackup
<1>3. n.cp = EOF
  <2> SUFFICES ASSUME n.cp # EOF
               PROVE  FALSE
    OBVIOUS
  <2>1. n.curr = u.curr + 1
    BY DEF Reads
  <2>2. BackupCp(n).curr < BackupCp(n).end
    BY <1>1, <1>2, <2>1
  <2> QED
    BY <1>1, <1>2, <2>2 DEF AtEnd
<1> QED
  BY <1>2, <1>3 DEF Reads, AtEnd

LEMMA BlockCommentKeeps ==
  ASSUME LInv, BlockComment
  PROVE  LInv'
<1> DEFINE n == NextCp(uc)
           after == NextCp(n)
           closed == prev = "*" /\ n.cp = "/"
           whole  == after.cp = "\n" \/ starting_col_offset # 0
<1>1. /\ phase = "block comment"
      /\ UNCHANGED <<indstack, pendin, parenstack, atbol, blankline, col, altcol,
                     starting_col_offset, start>>
      /\ \/ n.cp # EOF /\ uc' = n /\ prev' = n.cp /\ Silent("block comment")
         \/ uc' = n /\ prev' = prev /\ Token("ERRORTOKEN")
         \/ closed /\ uc' = BackupCp(after) /\ prev' = prev /\ Silent("nextline")
         \/ uc' = after /\ prev' = prev /\ Token("ERRORTOKEN")
  BY DEF BlockComment, layout
<1>2. Reads(uc, n) /\ UcOK(n)
  BY CpNext, Now DEF Reads
<1>3. Reads(n, after) /\ UcOK(after)
  BY <1>2, CpNext DEF Reads
<1> HIDE DEF n, after
<1>4. pendin = 0
  BY <1>1 DEF LInv, BetweenLines
<1>5. prev' \in Chars \cup {EOF} /\ starting_col_offset' \in Int /\ start' \in Int
  BY <1>1, <1>2 DEF LInv, TypeOK, UcOK, Ucs
<1>6. CASE uc' = n /\ Silent("block comment")
  <2>1. /\ UcOK(uc') /\ phase' = "block comment" /\ UNCHANGED tokens
    BY <1>2, <1>6 DEF Silent
  <2>2. Ending'
    BY <2>1 DEF Ending
  <2>3. Stacks' /\ tokens' \in Seq(TokenSet)
    BY <1>1, <2>1, NothingHanded
  <2>4. TypeOK'
    BY <1>1, <1>5, <2>1, <2>3, TypesKept DEF LInv, Phases
  <2>5. BetweenLines'
    BY <1>1, <1>4, <2>1, WithinLine
  <2> QED
    BY <2>1, <2>2, <2>3, <2>4, <2>5, Together
<1>7. CASE uc' \in {n, after} /\ Token("ERRORTOKEN")
  <2>1. UcOK(uc') /\ phase' = "done" /\ "ERRORTOKEN" \in Types
    BY <1>2, <1>3, <1>7 DEF Token, Types
  <2>2. Ending'
    BY <2>1 DEF Ending
  <2>3. Stacks' /\ tokens' \in Seq(TokenSet)
    BY <1>1, <1>7, <2>1, TokenHanded DEF Layouts
  <2>4. TypeOK'
    BY <1>1, <1>5, <2>1, <2>3, TypesKept DEF LInv, Phases
  <2>5. BetweenLines'
    BY <1>1, <1>4, <2>1, WithinLine
  <2> QED
    BY <2>1, <2>2, <2>3, <2>4, <2>5, Together
<1>8. CASE closed /\ uc' = BackupCp(after) /\ Silent("nextline")
  <2>1. UcOK(uc') /\ phase' = "nextline" /\ UNCHANGED tokens
    BY <1>3, <1>8, CpBackup DEF Silent
  <2>2. ~AtEnd(uc')
    <3> SUFFICES ASSUME AtEnd(uc')
                 PROVE  FALSE
      OBVIOUS
    <3>1. AtEnd(n)
      BY <1>2, <1>3, <1>8, GivenBack
    <3> QED
      BY <1>2, <1>8, <3>1 DEF Reads, EOF
  <2>3. Ending'
    BY <2>1, <2>2 DEF Ending
  <2>4. Stacks' /\ tokens' \in Seq(TokenSet)
    BY <1>1, <2>1, NothingHanded
  <2>5. TypeOK'
    BY <1>1, <1>5, <2>1, <2>4, TypesKept DEF LInv, Phases
  <2>6. BetweenLines'
    BY <1>1, <1>4, <2>1, WithinLine
  <2> QED
    BY <2>1, <2>3, <2>4, <2>5, <2>6, Together
<1> QED
  BY <1>1, <1>6, <1>7, <1>8

LEMMA EndOfFileKeeps ==
  ASSUME LInv, EndOfFile
  PROVE  LInv'
<1> DEFINE whole == parenstack = << >> /\ uc.done = "E_EOF"
           type == IF whole THEN "ENDMARKER" ELSE "ERRORTOKEN"
<1>1. /\ phase = "token" /\ uc.cp = EOF /\ Token(type)
      /\ UNCHANGED <<uc, indstack, pendin, parenstack, atbol, blankline, col, altcol,
                     starting_col_offset, start, prev>>
  BY DEF EndOfFile, layout, inside
<1>2. pendin = 0 /\ UcOK(uc') /\ phase' = "done" /\ type \in Types
  BY <1>1, Now DEF LInv, BetweenLines, Token, Types
<1>3. type = "ENDMARKER" =>
        LastIn(tokens, {"NEWLINE", "DEDENT"}) /\ Len(indstack) = 1 /\ parenstack = << >>
  <2> SUFFICES ASSUME whole
               PROVE  LastIn(tokens, {"NEWLINE", "DEDENT"}) /\ Len(indstack) = 1
    OBVIOUS
  <2>1. AtEnd(uc)
    BY <1>1 DEF LInv, Ending, AtEnd
  <2> QED
    BY <1>1, <2>1 DEF LInv, Ending, Closed, InParentheses
<1>4. type \in {"ENDMARKER", "ERRORTOKEN"}
  OBVIOUS
<1> HIDE DEF type
<1>5. Stacks' /\ tokens' \in Seq(TokenSet)
  <2>1. type \in Layouts => parenstack = << >>
    BY <1>3, <1>4 DEF Layouts
  <2>2. type = "ENDMARKER" =>
          LastIn(tokens, {"NEWLINE", "DEDENT"}) /\ Len(indstack) = 1 /\ pendin = 0
    BY <1>2, <1>3
  <2> QED
    BY <1>1, <1>2, <1>4, <2>1, <2>2, TokenHanded
<1>6. TypeOK'
  BY <1>1, <1>2, <1>5, TypesKept DEF LInv, TypeOK, Phases
<1>7. BetweenLines'
  BY <1>1, <1>2, WithinLine
<1>8. Ending'
  BY <1>2 DEF Ending
<1> QED
  BY <1>2, <1>5, <1>6, <1>7, <1>8, Together

LEMMA StartNameKeeps ==
  ASSUME LInv, StartName
  PROVE  LInv'
<1>1. /\ phase = "token" /\ uc.cp = "a" /\ phase' = "name"
      /\ UNCHANGED <<uc, tokens, indstack, pendin, parenstack, atbol, blankline, col,
                     altcol, starting_col_offset, start, prev>>
  BY DEF StartName, Silent, layout, inside
<1>2. pendin = 0 /\ UcOK(uc') /\ ~AtEnd(uc)
  BY <1>1, Now DEF LInv, BetweenLines, Ending, EOF
<1>3. Stacks' /\ tokens' \in Seq(TokenSet)
  BY <1>1, NothingHanded
<1>4. TypeOK'
  BY <1>1, <1>2, <1>3, TypesKept DEF LInv, TypeOK, Phases
<1>5. BetweenLines'
  BY <1>1, <1>2, WithinLine
<1>6. Ending'
  BY <1>1, <1>2 DEF Ending
<1> QED
  BY <1>2, <1>3, <1>4, <1>5, <1>6, Together

LEMMA NameKeeps ==
  ASSUME LInv, Name
  PROVE  LInv'
<1> DEFINE n == NextCp(uc)
<1>1. /\ phase = "name"
      /\ \/ n.cp = "a" /\ uc' = n /\ Silent("name")
         \/ n.cp # "a" /\ uc' = BackupCp(n) /\ Token("NAME")
      /\ UNCHANGED <<indstack, pendin, parenstack, atbol, blankline, col, altcol,
                     starting_col_offset, start, prev>>
  BY DEF Name, layout, inside
<1>2. Reads(uc, n) /\ UcOK(n) /\ UcOK(uc)
  BY CpNext, Now DEF Reads
<1> HIDE DEF n
<1>3. pendin = 0 /\ ~AtEnd(uc)
  BY <1>1 DEF LInv, BetweenLines, Ending
<1>4. CASE n.cp = "a" /\ uc' = n /\ Silent("name")
  <2>1. UcOK(uc') /\ phase' = "name" /\ UNCHANGED tokens /\ ~AtEnd(uc')
    BY <1>2, <1>4 DEF Silent, Reads, EOF
  <2>2. Ending'
    BY <2>1 DEF Ending
  <2>3. Stacks' /\ tokens' \in Seq(TokenSet)
    BY <1>1, <2>1, NothingHanded
  <2>4. TypeOK'
    BY <1>1, <2>1, <2>3, TypesKept DEF LInv, TypeOK, Phases
  <2>5. BetweenLines'
    BY <1>1, <1>3, <2>1, WithinLine
  <2> QED
    BY <2>1, <2>2, <2>3, <2>4, <2>5, Together
<1>5. CASE uc' = BackupCp(n) /\ Token("NAME")
  <2>1. UcOK(uc') /\ phase' = "nextline" /\ "NAME" \in Types /\ ~AtEnd(uc')
    BY <1>2, <1>3, <1>5, CpBackup, GivenBack DEF Token, Types
  <2>2. Ending'
    BY <2>1 DEF Ending
  <2>3. Stacks' /\ tokens' \in Seq(TokenSet)
    BY <1>1, <1>5, <2>1, TokenHanded DEF Layouts
  <2>4. TypeOK'
    BY <1>1, <2>1, <2>3, TypesKept DEF LInv, TypeOK, Phases
  <2>5. BetweenLines'
    BY <1>1, <1>3, <2>1, WithinLine
  <2> QED
    BY <2>1, <2>2, <2>3, <2>4, <2>5, Together
<1> QED
  BY <1>1, <1>4, <1>5

LEMMA StringKeeps ==
  ASSUME LInv, String
  PROVE  LInv'
<1>1. /\ phase = "string"
      /\ \/ uc'.cp \in {EOF, "\n"} /\ Token("ERRORTOKEN")
         \/ uc'.cp = "quote" /\ Token("STRING")
         \/ uc'.cp \notin {EOF, "\n", "quote"} /\ Silent("string")
      /\ UNCHANGED <<indstack, pendin, parenstack, atbol, blankline, col, altcol,
                     starting_col_offset, start, prev>>
  BY DEF String, layout, inside
<1>2. Reads(uc, uc') /\ UcOK(uc')
  BY CpNext, Now DEF String, Reads
<1>3. pendin = 0
  BY <1>1 DEF LInv, BetweenLines
<1>4. CASE uc'.cp \notin {EOF, "\n", "quote"} /\ Silent("string")
  <2>1. phase' = "string" /\ UNCHANGED tokens /\ ~AtEnd(uc')
    BY <1>2, <1>4 DEF Silent, Reads
  <2>2. Ending'
    BY <2>1 DEF Ending
  <2>3. Stacks' /\ tokens' \in Seq(TokenSet)
    BY <1>1, <2>1, NothingHanded
  <2>4. TypeOK'
    BY <1>1, <1>2, <2>1, <2>3, TypesKept DEF LInv, TypeOK, Phases
  <2>5. BetweenLines'
    BY <1>1, <1>3, <2>1, WithinLine
  <2> QED
    BY <1>2, <2>2, <2>3, <2>4, <2>5, Together
<1>5. ASSUME NEW type \in {"STRING", "ERRORTOKEN"}, Token(type),
             type = "STRING" => uc'.cp = "quote"
      PROVE  LInv'
  <2>1. /\ phase' \in {"nextline", "done"} /\ type \in Types
        /\ type \notin Layouts
        /\ AtEnd(uc') => phase' = "done"
    BY <1>2, <1>5 DEF Token, Types, Layouts, Reads, EOF
  <2>2. Ending'
    BY <2>1 DEF Ending
  <2>3. Stacks' /\ tokens' \in Seq(TokenSet)
    BY <1>1, <1>5, <2>1, TokenHanded
  <2>4. TypeOK'
    BY <1>1, <1>2, <2>1, <2>3, TypesKept DEF LInv, TypeOK, Phases
  <2>5. BetweenLines'
    BY <1>1, <1>3, <2>1, WithinLine
  <2> QED
    BY <1>2, <2>2, <2>3, <2>4, <2>5, Together
<1> QED
  BY <1>1, <1>4, <1>5

LEMMA BehindCarriageReturn ==
  ASSUME LInv, phase = "token"
  PROVE  /\ UcOK(AfterCarriageReturn)
         /\ AtEnd(AfterCarriageReturn) => AfterCarriageReturn.cp \in {"\n", EOF}
<1>1. CASE uc.cp = "\r"
  <2>1. AfterCarriageReturn = NextCp(uc) /\ UcOK(uc)
    BY <1>1, Now DEF AfterCarriageReturn
  <2>2. Reads(uc, AfterCarriageReturn)
    BY <2>1, CpNext
  <2> QED
    BY <2>2 DEF Reads
<1>2. CASE uc.cp # "\r"
  <2>1. AfterCarriageReturn = uc /\ UcOK(uc)
    BY <1>2, Now DEF AfterCarriageReturn
  <2> QED
    BY <2>1 DEF LInv, Ending
<1> QED
  BY <1>1, <1>2

LEMMA NewLineKeeps ==
  ASSUME LInv, NewLine
  PROVE  LInv'
<1>1. /\ phase = "token" /\ atbol' = TRUE
      /\ \/ (blankline \/ InParentheses) /\ Silent("nextline")
         \/ ~InParentheses /\ Token("NEWLINE")
      /\ UNCHANGED <<indstack, pendin, parenstack, blankline, col, altcol,
                     starting_col_offset, start, prev>>
  BY DEF NewLine, layout, inside
<1>2. UcOK(uc')
  BY <1>1, BehindCarriageReturn DEF NewLine
<1>3. pendin = 0
  BY <1>1 DEF LInv, BetweenLines
<1>4. ASSUME blankline \/ InParentheses, Silent("nextline")
      PROVE  phase' = "nextline" /\ Stacks' /\ tokens' \in Seq(TokenSet) /\ BetweenLines'
  <2>1. phase' = "nextline" /\ UNCHANGED tokens
    BY <1>4 DEF Silent
  <2>2. Stacks' /\ tokens' \in Seq(TokenSet)
    BY <1>1, <2>1, NothingHanded
  <2>3. InParentheses \/ LastIn(tokens, {"NEWLINE"})
    BY <1>1, <1>4 DEF LInv, BetweenLines
  <2>4. BetweenLines'
    BY <1>1, <1>3, <2>1, <2>3 DEF BetweenLines, InParentheses
  <2> QED
    BY <2>1, <2>2, <2>4
<1>5. ASSUME ~InParentheses, Token("NEWLINE")
      PROVE  phase' = "nextline" /\ Stacks' /\ tokens' \in Seq(TokenSet) /\ BetweenLines'
  <2>1. phase' = "nextline" /\ "NEWLINE" \in Types /\ parenstack = << >>
    BY <1>5 DEF Token, Types, InParentheses
  <2>2. Stacks' /\ tokens' \in Seq(TokenSet) /\ LastIn(tokens', {"NEWLINE"})
    BY <1>1, <1>5, <2>1, TokenHanded
  <2>3. BetweenLines'
    BY <1>1, <1>3, <2>1, <2>2 DEF BetweenLines
  <2> QED
    BY <2>1, <2>2, <2>3
<1>6. phase' = "nextline" /\ Stacks' /\ tokens' \in Seq(TokenSet) /\ BetweenLines'
  BY <1>1, <1>4, <1>5
<1>7. Ending'
  BY <1>1, <1>6 DEF Ending
<1>8. TypeOK'
  BY <1>1, <1>2, <1>6 DEF LInv, TypeOK, UcOK, Ucs, Phases, TokenSet
<1> QED
  BY <1>2, <1>6, <1>7, <1>8, Together

LEMMA StartStringKeeps ==
  ASSUME LInv, StartString
  PROVE  LInv'
<1>1. /\ phase = "token" /\ phase' = "string" /\ uc'.cp = "quote"
      /\ UNCHANGED <<tokens, indstack, pendin, parenstack, atbol, blankline, col, altcol,
                     starting_col_offset, start, prev>>
  BY DEF StartString, Silent, layout, inside
<1>2. UcOK(uc') /\ ~AtEnd(uc')
  BY <1>1, BehindCarriageReturn DEF StartString, EOF
<1>3. pendin = 0
  BY <1>1 DEF LInv, BetweenLines
<1>4. Stacks' /\ tokens' \in Seq(TokenSet)
  BY <1>1, NothingHanded
<1>5. TypeOK'
  BY <1>1, <1>2, <1>4, TypesKept DEF LInv, TypeOK, Phases
<1>6. BetweenLines'
  BY <1>1, <1>3, WithinLine
<1>7. Ending'
  BY <1>1, <1>2 DEF Ending
<1> QED
  BY <1>2, <1>4, <1>5, <1>6, <1>7, Together

\* A parenthesis is opened or closed.
LEMMA ParenthesisHanded ==
  ASSUME LInv, phase = "token", NEW type \in {"LPAR", "RPAR"}, Token(type),
         type = "LPAR" => parenstack' = Append(parenstack, "("),
         type = "RPAR" => /\ parenstack # << >>
                          /\ parenstack' = SubSeq(parenstack, 1, Len(parenstack) - 1),
         UNCHANGED <<indstack, pendin>>
  PROVE  /\ Stacks' /\ tokens' \in Seq(TokenSet) /\ parenstack' \in Seq({"("})
         /\ Len(parenstack') = Len(parenstack) + (IF type = "LPAR" THEN 1 ELSE -1)
<1> DEFINE t == [type |-> type, start |-> start]
<1>1. /\ tokens \in Seq(TokenSet) /\ t \in TokenSet /\ t.type = type
      /\ Len(indstack) \in Nat /\ pendin \in Int
      /\ parenstack \in Seq({"("}) /\ Len(parenstack) \in Nat
      /\ DepthIn(tokens, Len(tokens)) >= 0
      /\ CountIn(tokens, "ENDMARKER", Len(tokens)) = 0
      /\ Stacks
  BY Now, LenProperties DEF TokenSet, Types
<1>2. tokens' = Append(tokens, t) /\ tokens' \in Seq(TokenSet)
  BY <1>1, AppendProperties DEF Token
<1> HIDE DEF t
<1>3. ASSUME NEW x
      PROVE  /\ CountIn(tokens', x, Len(tokens'))
                  = CountIn(tokens, x, Len(tokens)) + (IF type = x THEN 1 ELSE 0)
             /\ CountIn(tokens, x, Len(tokens)) \in Nat
  BY <1>1, <1>2, CountOne
<1>4. /\ parenstack' \in Seq({"("})
      /\ Len(parenstack') = Len(parenstack) + (IF type = "LPAR" THEN 1 ELSE -1)
  <2>1. CASE type = "LPAR"
    <3>1. parenstack' = Append(parenstack, "(")
      BY <2>1
    <3>2. parenstack' \in Seq({"("}) /\ Len(parenstack') = Len(parenstack) + 1
      BY <1>1, <3>1, AppendProperties
    <3> QED
      BY <2>1, <3>2
  <2>2. CASE type = "RPAR"
    <3>1. parenstack # << >> /\ parenstack' = SubSeq(parenstack, 1, Len(parenstack) - 1)
      BY <2>2
    <3>2. Len(parenstack) >= 1
      BY <1>1, <3>1, EmptySeq
    <3> DEFINE m == Len(parenstack) - 1
    <3>4. m \in Int /\ (m >= 1 \/ m = 0)
      <4>1. ASSUME NEW k \in Nat, k >= 1
            PROVE  k - 1 \in Int /\ (k - 1 >= 1 \/ k - 1 = 0)
        BY <4>1
      <4> QED
        BY <1>1, <3>2, <4>1, Zenon
    <3>5. \A i \in 1..m : parenstack[i] \in {"("}
      <4>1. \A i \in 1..m : i \in 1..Len(parenstack)
        BY <1>1
      <4> QED
        BY <1>1, <4>1, ElementOfSeq
    <3>6. parenstack' = SubSeq(parenstack, 1, m)
      BY <3>1
    <3> HIDE DEF m
    <3>7. parenstack' \in Seq({"("}) /\ Len(parenstack') = m
      BY <3>4, <3>5, <3>6, SubSeqProperties
    <3>3. parenstack' \in Seq({"("}) /\ Len(parenstack') = Len(parenstack) - 1
      BY <3>7 DEF m
    <3> QED
      BY <1>1, <2>2, <3>3
  <2> QED
    BY <2>1, <2>2
<1>5. TokensOK(tokens')
  <2>1. MayFollow(tokens, type)
    BY DEF MayFollow, Layouts
  <2> QED
    BY <1>1, <1>2, <2>1, TokenAdded DEF Stacks
<1>6. DepthIn(tokens', Len(tokens')) = DepthIn(tokens, Len(tokens))
  <2>1. /\ CountIn(tokens', "INDENT", Len(tokens')) = CountIn(tokens, "INDENT", Len(tokens))
        /\ CountIn(tokens', "DEDENT", Len(tokens')) = CountIn(tokens, "DEDENT", Len(tokens))
    BY <1>3
  <2> QED
    BY <2>1 DEF DepthIn
<1>7. CountIn(tokens', "LPAR", Len(tokens')) - CountIn(tokens', "RPAR", Len(tokens'))
        = Len(parenstack')
  <2> DEFINE l == CountIn(tokens, "LPAR", Len(tokens))
             r == CountIn(tokens, "RPAR", Len(tokens))
  <2>1. l \in Nat /\ r \in Nat /\ l - r = Len(parenstack)
    BY <1>1, <1>3 DEF Stacks, Balanced
  <2>2. /\ CountIn(tokens', "LPAR", Len(tokens')) = l + (IF type = "LPAR" THEN 1 ELSE 0)
        /\ CountIn(tokens', "RPAR", Len(tokens')) = r + (IF type = "RPAR" THEN 1 ELSE 0)
    BY <1>3
  <2> HIDE DEF l, r
  <2>3. CASE type = "LPAR"
    BY <1>1, <1>4, <2>1, <2>2, <2>3
  <2>4. CASE type = "RPAR"
    BY <1>1, <1>4, <2>1, <2>2, <2>4
  <2> QED
    BY <2>3, <2>4
<1>8. CountIn(tokens', "ENDMARKER", Len(tokens')) = 0
  BY <1>1, <1>3
<1>9. Balanced'
  BY <1>1, <1>6, <1>7, <1>8 DEF Stacks, Balanced
<1> QED
  BY <1>1, <1>2, <1>4, <1>5, <1>9 DEF Stacks

LEMMA OperatorKeeps ==
  ASSUME LInv, Operator
  PROVE  LInv'
<1> DEFINE n == NextCp(AfterCarriageReturn)
<1>1. /\ phase = "token" /\ uc' = Reread(n)
      /\ \/ /\ uc'.cp = "(" /\ Len(parenstack) < MAX_PARENTHESES_LEVEL
            /\ parenstack' = Append(parenstack, "(") /\ Token("LPAR")
         \/ /\ uc'.cp = ")" /\ parenstack # << >>
            /\ parenstack' = SubSeq(parenstack, 1, Len(parenstack) - 1) /\ Token("RPAR")
         \/ UNCHANGED parenstack /\ Token("ERRORTOKEN")
         \/ uc'.cp \notin {EOF, "\n"} /\ UNCHANGED parenstack /\ Token("OP")
      /\ UNCHANGED <<indstack, pendin, atbol, blankline, col, altcol,
                     starting_col_offset, start, prev>>
  BY DEF Operator, layout
<1>2. Reads(AfterCarriageReturn, n) /\ UcOK(AfterCarriageReturn)
  BY <1>1, BehindCarriageReturn, CpNext
<1> HIDE DEF n
<1>3. UcOK(n) /\ (n.cp # EOF => n.curr >= 1)
  BY <1>2 DEF Reads, UcOK, Ucs
<1>4. UcOK(uc') /\ (AtEnd(uc') => uc'.cp \in {"\n", EOF})
  BY <1>1, <1>3, CpReread
<1>5. pendin = 0 /\ atbol = FALSE
  BY <1>1 DEF LInv, BetweenLines, TypeOK
<1>6. ASSUME NEW type \in {"ERRORTOKEN", "OP"}, Token(type), UNCHANGED parenstack,
             type = "OP" => uc'.cp \notin {EOF, "\n"}
      PROVE  LInv'
  <2>1. /\ phase' \in {"nextline", "done"} /\ type \in Types /\ type \notin Layouts
        /\ AtEnd(uc') => phase' = "done"
    BY <1>4, <1>6 DEF Token, Types, Layouts
  <2>2. Ending'
    BY <2>1 DEF Ending
  <2>3. Stacks' /\ tokens' \in Seq(TokenSet)
    BY <1>1, <1>6, <2>1, TokenHanded
  <2>4. TypeOK'
    BY <1>1, <1>4, <1>6, <2>1, <2>3, TypesKept DEF LInv, TypeOK, Phases
  <2>5. BetweenLines'
    BY <1>1, <1>5, <1>6, <2>1, WithinLine
  <2> QED
    BY <1>4, <2>2, <2>3, <2>4, <2>5, Together
<1>7. ASSUME NEW type \in {"LPAR", "RPAR"}, Token(type),
             type = "LPAR" => /\ parenstack' = Append(parenstack, "(")
                              /\ Len(parenstack) < MAX_PARENTHESES_LEVEL,
             type = "RPAR" => /\ parenstack # << >>
                              /\ parenstack' = SubSeq(parenstack, 1, Len(parenstack) - 1),
             uc'.cp \in {"(", ")"}
      PROVE  LInv'
  <2>1. phase' = "nextline" /\ ~AtEnd(uc')
    BY <1>4, <1>7 DEF Token, EOF
  <2>2. Ending'
    BY <2>1 DEF Ending
  <2>3. /\ Stacks' /\ tokens' \in Seq(TokenSet) /\ parenstack' \in Seq({"("})
        /\ Len(parenstack') = Len(parenstack) + (IF type = "LPAR" THEN 1 ELSE -1)
    BY <1>1, <1>7, ParenthesisHanded
  <2>4. Len(parenstack') <= MAX_PARENTHESES_LEVEL
    <3>1. Len(parenstack) \in Nat /\ Len(parenstack) <= MAX_PARENTHESES_LEVEL
          /\ MAX_PARENTHESES_LEVEL \in Nat
      BY LenProperties, LexerAssumption DEF LInv, TypeOK
    <3>2. CASE type = "LPAR"
      BY <1>7, <2>3, <3>1, <3>2
    <3>3. CASE type = "RPAR"
      BY <2>3, <3>1, <3>3
    <3> QED
      BY <3>2, <3>3
  <2>5. TypeOK'
    BY <1>1, <1>4, <2>1, <2>3, <2>4 DEF LInv, TypeOK, UcOK, Ucs, Phases, TokenSet
  <2>6. BetweenLines'
    BY <1>1, <1>5, <2>1 DEF BetweenLines
  <2> QED
    BY <1>4, <2>2, <2>3, <2>5, <2>6, Together
<1>8. CASE /\ uc'.cp = "(" /\ Len(parenstack) < MAX_PARENTHESES_LEVEL
           /\ parenstack' = Append(parenstack, "(") /\ Token("LPAR")
  BY <1>7, <1>8
<1>9. CASE /\ uc'.cp = ")" /\ parenstack # << >>
           /\ parenstack' = SubSeq(parenstack, 1, Len(parenstack) - 1) /\ Token("RPAR")
  BY <1>7, <1>9
<1> QED
  BY <1>1, <1>6, <1>8, <1>9

LEMMA EmitKeeps ==
  ASSUME LInv, EmitIndentOrDedent
  PROVE  LInv'
<1>1. /\ phase = "pending" /\ pendin # 0
      /\ UNCHANGED <<uc, atbol, blankline, col, altcol, indstack, parenstack,
                     starting_col_offset, start, prev>>
  BY DEF EmitIndentOrDedent, inside
<1> DEFINE type == IF pendin < 0 THEN "DEDENT" ELSE "INDENT"
           t == [type |-> type, start |-> start]
           len == Len(tokens)
<1>2. /\ UcOK(uc) /\ tokens \in Seq(TokenSet) /\ t \in TokenSet /\ t.type = type
      /\ pendin \in Int /\ Len(indstack) \in Nat /\ Len(indstack) >= 1
      /\ DepthIn(tokens, len) >= 0
      /\ CountIn(tokens, "ENDMARKER", len) = 0
      /\ Stacks
  BY <1>1, Now DEF TokenSet, Types
<1>3. /\ parenstack = << >> /\ atbol = FALSE
      /\ pendin > 0 => pendin = 1 /\ LastIn(tokens, {"NEWLINE"})
      /\ pendin < 0 => LastIn(tokens, {"NEWLINE", "DEDENT"})
  BY <1>1 DEF LInv, BetweenLines, TypeOK
<1>4. /\ tokens' = Append(tokens, t) /\ phase' = "nextline"
      /\ pendin' = IF pendin < 0 THEN pendin + 1 ELSE pendin - 1
  <2>1. CASE pendin < 0
    BY <1>2, <2>1 DEF EmitIndentOrDedent, Token
  <2>2. CASE pendin > 0
    BY <1>2, <2>2 DEF EmitIndentOrDedent, Token
  <2> QED
    BY <1>1, <1>2, <2>1, <2>2
<1>5. tokens' \in Seq(TokenSet)
  BY <1>2, <1>4, AppendProperties
<1>6. /\ type = "DEDENT" => pendin < 0
      /\ type = "INDENT" => pendin > 0
      /\ type \in {"INDENT", "DEDENT"}
  BY <1>1, <1>2
<1> HIDE DEF t, type, len
<1>7. ASSUME NEW x
      PROVE  /\ CountIn(tokens', x, Len(tokens'))
                  = CountIn(tokens, x, len) + (IF type = x THEN 1 ELSE 0)
             /\ CountIn(tokens, x, len) \in Nat
  BY <1>2, <1>4, CountOne DEF len
<1>8. /\ DepthIn(tokens, len) \in Int
      /\ DepthIn(tokens', Len(tokens')) =
           DepthIn(tokens, len) + (IF type = "INDENT" THEN 1 ELSE -1)
  <2> DEFINE i == CountIn(tokens, "INDENT", len)
             d == CountIn(tokens, "DEDENT", len)
  <2>1. i \in Nat /\ d \in Nat /\ DepthIn(tokens, len) = i - d
    BY <1>7 DEF DepthIn
  <2>2. /\ CountIn(tokens', "INDENT", Len(tokens')) = i + (IF type = "INDENT" THEN 1 ELSE 0)
        /\ CountIn(tokens', "DEDENT", Len(tokens')) = d + (IF type = "DEDENT" THEN 1 ELSE 0)
    BY <1>7
  <2>3. DepthIn(tokens', Len(tokens')) =
          CountIn(tokens', "INDENT", Len(tokens'))
            - CountIn(tokens', "DEDENT", Len(tokens'))
    BY DEF DepthIn
  <2> HIDE DEF i, d
  <2>4. CASE type = "INDENT"
    BY <2>1, <2>2, <2>3, <2>4
  <2>5. CASE type = "DEDENT"
    BY <2>1, <2>2, <2>3, <2>5
  <2> QED
    BY <1>6, <2>4, <2>5
<1>9. DepthIn(tokens, len) + pendin = Len(indstack) - 1
  BY <1>2 DEF Stacks, Balanced, len
<1>10. TokensOK(tokens')
  <2>1. type = "DEDENT" => DepthIn(tokens, Len(tokens)) >= 1
    BY <1>2, <1>6, <1>8, <1>9 DEF len
  <2>2. CountIn(tokens, "LPAR", Len(tokens)) = CountIn(tokens, "RPAR", Len(tokens))
    <3>1. Len(parenstack) = 0
      BY <1>3, EmptySeq
    <3>2. CountIn(tokens, "LPAR", Len(tokens)) - CountIn(tokens, "RPAR", Len(tokens)) = 0
      BY <1>2, <3>1 DEF Stacks, Balanced
    <3> QED
      BY <1>7, <3>2 DEF len
  <2>3. MayFollow(tokens, type)
    BY <1>3, <1>6, <2>1, <2>2 DEF MayFollow
  <2> QED
    BY <1>2, <1>4, <2>3, TokenAdded DEF Stacks, len
<1>11. Balanced'
  <2>1. DepthIn(tokens', Len(tokens')) + pendin' = Len(indstack') - 1
    <3>1. CASE type = "INDENT"
      BY <1>1, <1>2, <1>4, <1>6, <1>8, <1>9, <3>1
    <3>2. CASE type = "DEDENT"
      BY <1>1, <1>2, <1>4, <1>6, <1>8, <1>9, <3>2
    <3> QED
      BY <1>6, <3>1, <3>2
  <2>2. /\ CountIn(tokens', "LPAR", Len(tokens')) = CountIn(tokens, "LPAR", len)
        /\ CountIn(tokens', "RPAR", Len(tokens')) = CountIn(tokens, "RPAR", len)
        /\ CountIn(tokens', "ENDMARKER", Len(tokens')) = 0
    BY <1>2, <1>6, <1>7
  <2> QED
    BY <1>1, <1>2, <2>1, <2>2 DEF Stacks, Balanced, len
<1>12. Stacks'
  BY <1>1, <1>2, <1>10, <1>11 DEF Stacks
<1>13. pendin' \in Int /\ (pendin' > 0 => FALSE)
       /\ (pendin' < 0 => type = "DEDENT")
  BY <1>1, <1>2, <1>3, <1>4, <1>6
<1>14. LastIn(tokens', {"NEWLINE", "DEDENT"}) <=> type = "DEDENT"
  BY <1>2, <1>4, <1>6, LastAdded
<1>15. BetweenLines'
  BY <1>1, <1>3, <1>4, <1>13, <1>14 DEF BetweenLines
<1>16. TypeOK'
  BY <1>1, <1>4, <1>5, <1>13 DEF LInv, TypeOK, Phases, TokenSet
<1>17. Ending'
  <2>1. AtEnd(uc) => Closed'
    <3> SUFFICES ASSUME AtEnd(uc)
                 PROVE  Closed'
      OBVIOUS
    <3>1. Len(indstack) = 1
      BY <1>1, <1>3 DEF LInv, Ending, Closed, InParentheses
    <3>2. ~(pendin > 0)
      BY <1>2, <1>8, <1>9, <3>1
    <3>3. type = "DEDENT"
      BY <1>6, <3>2
    <3> QED
      BY <1>1, <1>14, <3>1, <3>3 DEF Closed
  <2> QED
    BY <1>1, <1>4, <2>1 DEF Ending
<1> QED
  BY <1>1, <1>2, <1>12, <1>15, <1>16, <1>17, Together

\* The levels outside of a column are the first ones.
LEMMA OuterIs ==
  ASSUME NEW c \in Nat, LevelsOK(indstack), indstack \in Seq([col : Nat, altcol : Nat]),
         Len(indstack) >= 1
  PROVE  \E m \in 1..Len(indstack) :
           /\ Outer(c) = SubSeq(indstack, 1, m)
           /\ c = 0 => m = 1
<1> DEFINE kept == {i \in 1..Len(indstack) : i = 1 \/ indstack[i].col <= c}
<1>1. Len(indstack) \in Nat /\ 1 \in kept
  BY LenProperties
<1>2. Outer(c) = SubSeq(indstack, 1, CHOOSE i \in kept : \A j \in kept : j <= i)
  BY DEF Outer
<1>3. kept \in SUBSET (1..Len(indstack)) /\ kept # {}
  BY <1>1
<1>4. ASSUME NEW i \in kept, c = 0
      PROVE  i = 1
  <2> SUFFICES ASSUME i # 1
               PROVE  FALSE
    OBVIOUS
  <2>1. i \in 1..Len(indstack) /\ 1 \in 1..Len(indstack) /\ 1 < i
    BY <1>1
  <2>2. indstack[1].col < indstack[i].col /\ indstack[1].col = 0
    BY <2>1 DEF LevelsOK
  <2>3. indstack[i].col \in Nat /\ indstack[i].col <= 0
    <3>1. indstack[i] \in [col : Nat, altcol : Nat]
      BY <2>1, ElementOfSeq
    <3> QED
      BY <1>4, <3>1
  <2> QED
    BY <2>2, <2>3
<1> HIDE DEF kept
<1>5. \E m \in kept : \A k \in kept : k <= m
  BY <1>1, <1>3, Last
<1> DEFINE m == CHOOSE i \in kept : \A j \in kept : j <= i
<1>6. m \in kept
  BY <1>5
<1>7. Outer(c) = SubSeq(indstack, 1, m)
  BY <1>2
<1> HIDE DEF m
<1> QED
  BY <1>3, <1>4, <1>6, <1>7

LEMMA IndentedIs ==
  ASSUME LInv, IndentationOK
  PROVE  /\ Indented \in Seq([col : Nat, altcol : Nat]) /\ Len(Indented) \in 1..MAX_INDENT
         /\ LevelsOK(Indented)
         /\ Len(Indented) <= Len(indstack) + 1
         /\ col = 0 => Len(Indented) = 1
<1> DEFINE Level == [col : Nat, altcol : Nat]
           new == [col |-> col, altcol |-> altcol]
           len == Len(indstack)
<1>1. /\ indstack \in Seq(Level) /\ len \in 1..MAX_INDENT /\ MAX_INDENT \in Nat
      /\ col \in Nat /\ altcol \in Nat /\ LevelsOK(indstack) /\ len \in Nat
  BY LenProperties, LexerAssumption DEF LInv, TypeOK
<1>2. Innermost \in Level /\ Innermost = indstack[len]
  <2>1. len \in 1..len
    BY <1>1
  <2> QED
    BY <1>1, <2>1, ElementOfSeq DEF Innermost
<1>3. CASE col > Innermost.col
  <2>1. Indented = Append(indstack, new) /\ len < MAX_INDENT /\ altcol > Innermost.altcol
    BY <1>3 DEF Indented, IndentationOK
  <2>2. /\ Indented \in Seq(Level) /\ Len(Indented) = len + 1
        /\ \A i \in 1..len : Indented[i] = indstack[i]
        /\ Indented[len + 1] = new
    <3>1. new \in Level
      BY <1>1
    <3> HIDE DEF new
    <3> QED
      BY <1>1, <2>1, <3>1, AppendProperties
  <2>0. \A i, j \in 1..len :
          i < j => indstack[i].col < indstack[j].col /\ indstack[i].altcol < indstack[j].altcol
    BY <1>1 DEF LevelsOK
  <2>3. ASSUME NEW i \in 1..Len(Indented), NEW j \in 1..Len(Indented), i < j
        PROVE  Indented[i].col < Indented[j].col /\ Indented[i].altcol < Indented[j].altcol
    <3>1. i \in 1..len /\ Indented[i] = indstack[i] /\ indstack[i] \in Level
      <4>1. i \in 1..len
        BY <1>1, <2>2, <2>3
      <4> QED
        BY <1>1, <2>2, <4>1, ElementOfSeq
    <3>2. CASE j = len + 1
      <4>1. i = len \/ (i < len /\ len \in 1..len)
        BY <1>1, <3>1
      <4>2. /\ indstack[i].col \in Nat /\ indstack[i].altcol \in Nat
            /\ Innermost.col \in Nat /\ Innermost.altcol \in Nat
        BY <1>2, <3>1
      <4>3. indstack[i].col <= Innermost.col /\ indstack[i].altcol <= Innermost.altcol
        <5>1. CASE i = len
          BY <1>2, <4>2, <5>1
        <5>2. CASE i # len
          BY <1>2, <2>0, <3>1, <4>1, <4>2, <5>2
        <5> QED
          BY <5>1, <5>2
      <4>4. Indented[j].col = col /\ Indented[j].altcol = altcol
        BY <2>2, <3>2
      <4>5. indstack[i].col < col /\ indstack[i].altcol < altcol
        <5>1. ASSUME NEW a \in Nat, NEW b \in Nat, NEW c \in Nat, a <= b, c > b
              PROVE  a < c
          BY <5>1
        <5>2. col \in Nat /\ altcol \in Nat /\ col > Innermost.col /\ altcol > Innermost.altcol
          BY <1>1, <1>3, <2>1
        <5> QED
          BY <4>2, <4>3, <5>1, <5>2, Zenon
      <4> QED
        BY <3>1, <4>4, <4>5
    <3>3. CASE j # len + 1
      <4>1. j \in 1..len /\ Indented[j] = indstack[j]
        <5>1. j \in 1..len
          BY <1>1, <2>2, <3>3
        <5> QED
          BY <2>2, <5>1
      <4> QED
        BY <2>0, <2>3, <3>1, <4>1
    <3> QED
      BY <3>2, <3>3
  <2>4. Indented[1] = [col |-> 0, altcol |-> 0]
    BY <1>1, <2>2 DEF LevelsOK
  <2>5. col # 0
    BY <1>1, <1>2, <1>3
  <2> QED
    <3>1. LevelsOK(Indented)
      BY <2>3, <2>4 DEF LevelsOK
    <3>2. Len(Indented) \in 1..MAX_INDENT /\ Len(Indented) <= len + 1
      BY <1>1, <2>1, <2>2
    <3>3. Indented \in Seq([col : Nat, altcol : Nat])
      BY <2>2
    <3> QED
      BY <2>5, <3>1, <3>2, <3>3, Zenon
<1>4. CASE ~(col > Innermost.col)
  <2>1. Indented = Outer(col)
    BY <1>4 DEF Indented
  <2>0. \E m \in 1..len : Outer(col) = SubSeq(indstack, 1, m) /\ (col = 0 => m = 1)
    <3>1. len >= 1
      BY <1>1
    <3> QED
      BY <1>1, <3>1, OuterIs, Zenon
  <2>2. PICK m \in 1..len : Indented = SubSeq(indstack, 1, m) /\ (col = 0 => m = 1)
    BY <2>0, <2>1
  <2>3. /\ Indented \in Seq(Level) /\ Len(Indented) = m
        /\ \A i \in 1..m : Indented[i] = indstack[i]
    <3>1. m \in Int /\ 1 \in Int /\ 1 <= m
      BY <1>1
    <3>2. \A i \in 1..m : indstack[i] \in Level
      <4>1. \A i \in 1..m : i \in 1..len
        BY <1>1
      <4> QED
        BY <1>1, <4>1, ElementOfSeq
    <3>3. /\ Indented \in Seq(Level) /\ Len(Indented) = m - 1 + 1
          /\ \A i \in 1..(m - 1 + 1) : Indented[i] = indstack[1 + i - 1]
      BY <2>2, <3>1, <3>2, SubSeqProperties
    <3> QED
      BY <3>1, <3>3
  <2>4. LevelsOK(Indented)
    <3>1. \A i \in 1..m : i \in 1..len
      BY <1>1
    <3>2. 1 \in 1..m
      BY <1>1
    <3> QED
      BY <1>1, <2>3, <3>1, <3>2 DEF LevelsOK
  <2> QED
    BY <1>1, <2>2, <2>3, <2>4
<1> QED
  BY <1>3, <1>4

\* Measuring a line stops in front of what is behind its indentation, or at the
\* end of the file if that is all there is.
LEMMA IndentationEnds ==
  ASSUME LInv, EndIndentation
  PROVE  UcOK(uc') /\ (AtEnd(uc') => AtEnd(uc) /\ ~blankline')
<1> DEFINE n == NextCp(uc)
           second == NextCp(n)
<1>1. /\ n.cp # "/" => uc' = BackupCp(n)
      /\ n.cp = "/" => uc' = BackupCp(BackupCp(second))
      /\ blankline' => n.cp \in {"#", "\n", "\r", "/"}
  BY DEF EndIndentation
<1>2. UcOK(uc) /\ UcOK(n) /\ Reads(uc, n) /\ UcOK(second) /\ Reads(n, second)
  <2>1. UcOK(uc) /\ Reads(uc, n) /\ UcOK(n)
    BY Now, CpNext DEF Reads
  <2> QED
    BY <2>1, CpNext DEF Reads
<1> HIDE DEF n, second
<1>3. CASE n.cp # "/"
  <2>1. UcOK(uc') /\ (AtEnd(uc') => AtEnd(uc) /\ n.cp = EOF)
    BY <1>1, <1>2, <1>3, CpBackup, GivenBack
  <2> QED
    BY <1>1, <2>1 DEF EOF
<1>4. CASE n.cp = "/"
  <2> DEFINE seen == BackupCp(second)
  <2>1. /\ UcOK(seen) /\ seen.cp = second.cp /\ seen.end = second.end
        /\ seen.done = second.done
        /\ seen.curr = IF second.curr = 0 \/ second.cp = EOF THEN second.curr
                       ELSE second.curr - 1
    BY <1>2, CpBackup
  <2>2. uc' = BackupCp(seen)
    BY <1>1, <1>4
  <2> HIDE DEF seen
  <2>3. /\ UcOK(uc') /\ uc'.end = seen.end /\ uc'.done = seen.done
        /\ uc'.curr = IF seen.curr = 0 \/ seen.cp = EOF THEN seen.curr ELSE seen.curr - 1
    BY <2>1, <2>2, CpBackup
  <2>4. ~AtEnd(uc')
    <3>1. ~AtEnd(n)
      BY <1>2, <1>4 DEF Reads, EOF
    <3>2. CASE second.cp = EOF
      BY <1>2, <2>1, <2>3, <3>1, <3>2 DEF Reads, AtEnd
    <3>3. CASE second.cp # EOF
      <4>1. /\ n.curr \in Nat /\ second.curr = n.curr + 1
            /\ second.end \in Nat /\ second.curr <= second.end
        BY <1>2, <3>3 DEF Reads, UcOK, Ucs
      <4>2. seen.curr \in Nat /\ seen.curr < second.end
        BY <2>1, <3>3, <4>1
      <4>3. uc'.curr < uc'.end
        BY <2>1, <2>3, <4>1, <4>2
      <4> QED
        BY <2>1, <2>3, <4>1, <4>3 DEF AtEnd, UcOK, Ucs
    <3> QED
      BY <3>2, <3>3
  <2> QED
    BY <2>3, <2>4
<1> QED
  BY <1>3, <1>4

LEMMA EndIndentationKeeps ==
  ASSUME LInv, EndIndentation
  PROVE  LInv'
<1>1. /\ phase = "indentation"
      /\ UNCHANGED <<atbol, col, altcol, parenstack, starting_col_offset, start, prev>>
      /\ \/ /\ blankline' \/ InParentheses
            /\ Silent("pending") /\ UNCHANGED <<indstack, pendin>>
         \/ /\ ~blankline' /\ ~InParentheses /\ IndentationOK
            /\ indstack' = Indented
            /\ pendin' = pendin + Change(Len(Indented) - Len(indstack))
            /\ Silent("pending")
         \/ Token("ERRORTOKEN") /\ UNCHANGED <<indstack, pendin>>
  BY DEF EndIndentation, inside
<1>2. UcOK(uc') /\ (AtEnd(uc') => AtEnd(uc) /\ ~blankline')
  BY IndentationEnds
<1>3. blankline' \in BOOLEAN
  BY DEF EndIndentation
<1>4. /\ pendin = 0 /\ atbol = FALSE
      /\ InParentheses \/ LastIn(tokens, {"NEWLINE"})
  BY <1>1 DEF LInv, BetweenLines, TypeOK
<1>5. LastIn(tokens, {"NEWLINE"}) => LastIn(tokens, {"NEWLINE", "DEDENT"})
  BY DEF LastIn
<1>6. AtEnd(uc') => col = 0
  BY <1>1, <1>2 DEF LInv, Ending
<1>7. ASSUME blankline' \/ InParentheses, Silent("pending"), UNCHANGED <<indstack, pendin>>
      PROVE  LInv'
  <2>1. phase' = "pending" /\ UNCHANGED tokens
    BY <1>7 DEF Silent
  <2>2. Stacks' /\ tokens' \in Seq(TokenSet)
    BY <1>1, <1>7, <2>1, NothingHanded
  <2>3. TypeOK'
    BY <1>1, <1>2, <1>3, <1>7, <2>1, <2>2 DEF LInv, TypeOK, UcOK, Ucs, Phases, TokenSet
  <2>4. BetweenLines'
    BY <1>1, <1>4, <1>7, <2>1 DEF BetweenLines, InParentheses
  <2>5. Ending'
    BY <1>1, <1>2, <1>7, <2>1 DEF Ending, Closed, InParentheses
  <2> QED
    BY <1>2, <2>2, <2>3, <2>4, <2>5, Together
<1>8. ASSUME ~InParentheses, IndentationOK, indstack' = Indented,
             pendin' = pendin + Change(Len(Indented) - Len(indstack)), Silent("pending")
      PROVE  LInv'
  <2>1. phase' = "pending" /\ UNCHANGED tokens /\ parenstack = << >>
    BY <1>8 DEF Silent, InParentheses
  <2>2. /\ indstack' \in Seq([col : Nat, altcol : Nat])
        /\ Len(indstack') \in 1..MAX_INDENT /\ LevelsOK(indstack')
        /\ Len(indstack') <= Len(indstack) + 1
        /\ col = 0 => Len(indstack') = 1
    BY <1>8, IndentedIs
  <2>3. /\ Len(indstack) \in Nat /\ Len(indstack') \in Int
        /\ tokens \in Seq(TokenSet) /\ Stacks
        /\ CountIn(tokens, "ENDMARKER", Len(tokens)) = 0
        /\ DepthIn(tokens, Len(tokens)) >= 0
        /\ DepthIn(tokens, Len(tokens)) \in Int
    <3>1. Len(tokens) \in Nat
      BY Now, LenProperties
    <3>2. /\ CountIn(tokens, "INDENT", Len(tokens)) \in Nat
          /\ CountIn(tokens, "DEDENT", Len(tokens)) \in Nat
      BY <3>1, CountIsNat
    <3>3. DepthIn(tokens, Len(tokens)) \in Int
      BY <3>2 DEF DepthIn
    <3>4. Len(indstack') \in Int
      BY <2>2
    <3> QED
      BY <1>1, <3>3, <3>4, Now
  <2>4. pendin' = Len(indstack') - Len(indstack)
    BY <1>4, <1>8, <2>3 DEF Change
  <2>5. pendin' \in Int /\ pendin' <= 1
    BY <2>2, <2>3, <2>4
  <2>6. DepthIn(tokens, Len(tokens)) + pendin' = Len(indstack') - 1
    <3>1. DepthIn(tokens, Len(tokens)) + pendin = Len(indstack) - 1
      BY <2>3 DEF Stacks, Balanced
    <3> QED
      BY <1>4, <2>3, <2>4, <3>1
  <2>7. Stacks'
    BY <1>1, <2>1, <2>2, <2>3, <2>6 DEF Stacks, Balanced
  <2>8. TypeOK'
    BY <1>1, <1>2, <1>3, <2>1, <2>2, <2>3, <2>5
       DEF LInv, TypeOK, UcOK, Ucs, Phases, TokenSet
  <2>9. BetweenLines'
    BY <1>1, <1>4, <1>5, <1>8, <2>1, <2>5 DEF BetweenLines, InParentheses
  <2>10. Ending'
    BY <1>1, <1>4, <1>5, <1>6, <1>8, <2>1, <2>2 DEF Ending, Closed
  <2> QED
    BY <1>2, <2>7, <2>8, <2>9, <2>10, Together
<1>9. ASSUME Token("ERRORTOKEN"), UNCHANGED <<indstack, pendin>>
      PROVE  LInv'
  <2>1. phase' = "done" /\ "ERRORTOKEN" \in Types
    BY <1>9 DEF Token, Types
  <2>2. Stacks' /\ tokens' \in Seq(TokenSet)
    BY <1>1, <1>9, <2>1, TokenHanded DEF Layouts
  <2>3. TypeOK'
    BY <1>1, <1>2, <1>3, <1>9, <2>1, <2>2 DEF LInv, TypeOK, UcOK, Ucs, Phases, TokenSet
  <2>4. BetweenLines'
    BY <1>1, <1>4, <1>9, <2>1 DEF BetweenLines
  <2>5. Ending'
    BY <2>1 DEF Ending
  <2> QED
    BY <1>2, <2>2, <2>3, <2>4, <2>5, Together
<1> QED
  BY <1>1, <1>7, <1>8, <1>9

----------------------------------------------------------------------------
(* The theorems                                                            *)

LEMMA LInvInit == Init => LInv
<1> SUFFICES ASSUME Init
             PROVE  LInv
  OBVIOUS
<1>1. PICK t \in Texts, s \in Spare :
        uc = [buf |-> Append(t, s), curr |-> 0, end |-> Len(t), inp |-> 0, cp |-> EOF,
              col_offset |-> 0, implicit_newline |-> FALSE, done |-> "E_OK"]
  BY DEF Init
<1>2. t \in Seq(Chars) /\ s \in Chars /\ Len(t) \in Nat
  BY LexerAssumption, LenProperties
<1>3. Append(t, s) \in Seq(Chars) /\ Len(Append(t, s)) = Len(t) + 1
  BY <1>2, AppendProperties
<1> DEFINE b == Append(t, s)
           len == Len(t)
<1>4. uc = [buf |-> b, curr |-> 0, end |-> len, inp |-> 0, cp |-> EOF,
            col_offset |-> 0, implicit_newline |-> FALSE, done |-> "E_OK"]
  BY <1>1
<1>5. b \in Seq(Chars) /\ len \in Nat /\ Len(b) = len + 1
  BY <1>2, <1>3
<1> HIDE DEF b, len
<1>6. UcOK(uc) /\ uc.cp = EOF /\ uc.done = "E_OK"
  BY <1>4, <1>5 DEF UcOK, Ucs
<1>7. /\ phase = "nextline" /\ atbol = TRUE /\ blankline = FALSE
      /\ col = 0 /\ altcol = 0
      /\ indstack = <<[col |-> 0, altcol |-> 0]>>
      /\ pendin = 0 /\ parenstack = << >>
      /\ starting_col_offset = 0 /\ start = 0 /\ prev = EOF
      /\ tokens = << >>
  BY DEF Init
<1>8. /\ indstack \in Seq([col : Nat, altcol : Nat]) /\ Len(indstack) = 1
      /\ indstack[1] = [col |-> 0, altcol |-> 0]
  BY <1>7
<1>9. /\ parenstack \in Seq({"("}) /\ Len(parenstack) = 0
      /\ tokens \in Seq(TokenSet) /\ Len(tokens) = 0
  BY <1>7, EmptySeq
<1>10. TypeOK
  <2>1. Len(indstack) \in 1..MAX_INDENT
    BY <1>8, LexerAssumption
  <2>2. Len(parenstack) <= MAX_PARENTHESES_LEVEL
    BY <1>9, LexerAssumption
  <2>3. uc \in Ucs /\ phase \in Phases
    BY <1>6, <1>7 DEF UcOK, Phases
  <2>4. tokens \in Seq([type : Types, start : Int])
    BY <1>9 DEF TokenSet
  <2>5. atbol \in BOOLEAN /\ blankline \in BOOLEAN
    BY <1>7, Zenon
  <2>7. /\ col \in Nat /\ altcol \in Nat
        /\ pendin \in Int /\ starting_col_offset \in Int /\ start \in Int
    <3>1. col = 0 /\ altcol = 0 /\ pendin = 0 /\ starting_col_offset = 0 /\ start = 0
      BY <1>7, Zenon
    <3> QED
      BY <3>1
  <2>8. prev \in Chars \cup {EOF}
    BY <1>7, Zenon
  <2>6. indstack \in Seq([col : Nat, altcol : Nat]) /\ parenstack \in Seq({"("})
    BY <1>8, <1>9
  <2> QED
    BY <2>1, <2>2, <2>3, <2>4, <2>5, <2>6, <2>7, <2>8 DEF TypeOK, Ucs
<1>11. LevelsOK(indstack)
  BY <1>8 DEF LevelsOK
<1>12. \A type : CountIn(tokens, type, 0) = 0
  <2>1. 1..0 = {}
    OBVIOUS
  <2>2. \A type : {i \in 1..0 : tokens[i].type = type} = {}
    BY <2>1
  <2> QED
    BY <2>2, FS_EmptySet DEF CountIn
<1>13. TokensOK(tokens)
  BY <1>9 DEF TokensOK
<1>14. Balanced
  BY <1>7, <1>8, <1>9, <1>12 DEF Balanced, DepthIn
<1>15. BetweenLines
  BY <1>7 DEF BetweenLines, LastIn
<1>16. Ending
  BY <1>6, <1>7 DEF Ending, AtEnd
<1> QED
  BY <1>6, <1>10, <1>11, <1>13, <1>14, <1>15, <1>16 DEF LInv

LEMMA LInvStep == LInv /\ [Next]_vars => LInv'
<1> SUFFICES ASSUME LInv, [Next]_vars
             PROVE  LInv'
  OBVIOUS
<1>1. CASE NextLine
  BY <1>1, NextLineKeeps
<1>2. CASE ReadIndentation
  BY <1>2, ReadIndentationKeeps
<1>3. CASE EndIndentation
  BY <1>3, EndIndentationKeeps
<1>4. CASE EmitIndentOrDedent
  BY <1>4, EmitKeeps
<1>5. CASE SkipSpaces
  BY <1>5, SkipSpacesKeeps
<1>6. CASE HashComment
  BY <1>6, HashCommentKeeps
<1>7. CASE Slash
  BY <1>7, SlashKeeps
<1>8. CASE LineComment
  BY <1>8, LineCommentKeeps
<1>9. CASE BlockComment
  BY <1>9, BlockCommentKeeps
<1>10. CASE EndOfFile
  BY <1>10, EndOfFileKeeps
<1>11. CASE StartName
  BY <1>11, StartNameKeeps
<1>12. CASE Name
  BY <1>12, NameKeeps
<1>13. CASE NewLine
  BY <1>13, NewLineKeeps
<1>14. CASE StartString
  BY <1>14, StartStringKeeps
<1>15. CASE String
  BY <1>15, StringKeeps
<1>16. CASE Operator
  BY <1>16, OperatorKeeps
<1>17. CASE UNCHANGED vars
  <2>1. /\ uc' = uc /\ phase' = phase /\ atbol' = atbol /\ blankline' = blankline
        /\ col' = col /\ altcol' = altcol /\ indstack' = indstack /\ pendin' = pendin
        /\ parenstack' = parenstack /\ starting_col_offset' = starting_col_offset
        /\ start' = start /\ prev' = prev /\ tokens' = tokens
    BY <1>17 DEF vars
  <2>2. TypeOK'
    BY <2>1 DEF LInv, TypeOK
  <2>3. Balanced'
    BY <2>1 DEF LInv, Balanced
  <2>4. BetweenLines'
    BY <2>1 DEF LInv, BetweenLines, InParentheses
  <2>5. Ending'
    BY <2>1 DEF LInv, Ending, Closed, InParentheses
  <2> QED
    BY <2>1, <2>2, <2>3, <2>4, <2>5 DEF LInv
<1> QED
  BY <1>1, <1>2, <1>3, <1>4, <1>5, <1>6, <1>7, <1>8, <1>9, <1>10, <1>11, <1>12, <1>13,
     <1>14, <1>15, <1>16, <1>17 DEF Next

LEMMA LInvHolds == Spec => []LInv
BY LInvInit, LInvStep, PTL DEF Spec

\* The tokenizer's state has its type: the levels of indentation and of
\* parentheses stay within their arrays in every file.
THEOREM TypeCorrect == Spec => []TypeOK
<1>1. LInv => TypeOK
  BY DEF LInv
<1> QED
  BY <1>1, LInvHolds, PTL

\* No file makes the tokenizer read or write outside of the buffer and the one
\* byte behind the file.
THEOREM BufferCorrect == Spec => []StaysInBuffer
<1>1. LInv => StaysInBuffer
  BY DEF LInv, UcOK, StaysInBuffer
<1> QED
  BY <1>1, LInvHolds, PTL

LEMMA CountsAgree ==
  /\ \A type, n : Count(type, n) = CountIn(tokens, type, n)
  /\ \A n : Depth(n) = DepthIn(tokens, n)
BY DEF Count, CountIn, Depth, DepthIn

\* Every level that was opened is handed out and closed, in every file.
THEOREM IndentsCorrect == Spec => []IndentsClosed
<1>1. LInv => IndentsClosed
  BY CountsAgree DEF LInv, TokensOK, Balanced, IndentsClosed
<1> QED
  BY <1>1, LInvHolds, PTL

\* No file is accepted whose structure depends on the width of a tab.
THEOREM TabsCorrect == Spec => []TabsAgree
<1>1. LInv => TabsAgree
  BY DEF LInv, LevelsOK, TabsAgree
<1> QED
  BY <1>1, LInvHolds, PTL

\* No token of the layout is handed out between parentheses, in any file.
THEOREM ParenthesesCorrect == Spec => []NoLayoutInParentheses
<1>1. LInv => NoLayoutInParentheses
  BY CountsAgree DEF LInv, TokensOK, Layouts, NoLayoutInParentheses
<1> QED
  BY <1>1, LInvHolds, PTL

\* Blocks begin and end between lines, and the last line has its end, in every
\* file.
THEOREM LinesCorrect == Spec => []LinesAreWhole
<1>1. LInv => LinesAreWhole
  <2> SUFFICES ASSUME LInv, NEW n \in 2..Len(tokens)
               PROVE  LET before == tokens[n - 1].type
                      IN  CASE tokens[n].type = "INDENT" -> before = "NEWLINE"
                            [] tokens[n].type \in {"DEDENT", "ENDMARKER"} ->
                                 before \in {"NEWLINE", "DEDENT"}
                            [] OTHER -> TRUE
    BY DEF LinesAreWhole
  <2>1. /\ tokens[n].type = "INDENT" => tokens[n - 1].type = "NEWLINE"
        /\ tokens[n].type \in {"DEDENT", "ENDMARKER"} =>
             tokens[n - 1].type \in {"NEWLINE", "DEDENT"}
    BY DEF LInv, TokensOK
  <2> QED
    BY <2>1
<1> QED
  BY <1>1, LInvHolds, PTL

----------------------------------------------------------------------------
(* Every step leaves less to do                                            *)

\* The file and the newline that is written behind it, if one is.
Size(u) == u.end + (IF u.implicit_newline THEN 0 ELSE 1)

LEMMA UnreadIs ==
  ASSUME NEW u, UcOK(u)
  PROVE  Unread(u) = Size(u) - u.curr /\ Unread(u) \in Nat /\ Size(u) \in Nat
BY DEF UcOK, Ucs, Unread, Size

\* The newline that is written was counted before.
LEMMA StartKeepsSize ==
  ASSUME NEW u, UcOK(u), ~u.implicit_newline
  PROVE  Size(StartLine(u)) = Size(u)
<1> DEFINE v == Verified(u)
           w == [u EXCEPT !.inp = v.inp, !.done = v.done, !.implicit_newline = FALSE,
                          !.col_offset = 0]
<1>1. StartLine(u) = IF v.last = "\n" THEN w ELSE WithImplicitNewline(w)
  BY DEF StartLine
<1>2. v.inp \in Nat /\ v.inp <= u.end /\ v.done \in {"E_OK", "E_EOF"}
  BY LineVerified
<1> HIDE DEF v
<1>3. u \in Ucs /\ u.end \in Nat /\ u.end < Len(u.buf) /\ Len(u.buf) \in Nat
  BY LenProperties DEF UcOK, Ucs
<1>4. /\ w \in Ucs /\ w.buf = u.buf /\ w.end = u.end /\ w.inp = v.inp
      /\ w.implicit_newline = FALSE
  BY <1>2, <1>3 DEF Ucs
<1> HIDE DEF w
<1>5. CASE v.last = "\n"
  BY <1>1, <1>4, <1>5 DEF Size
<1>6. CASE v.last # "\n"
  <2>1. w.inp < Len(w.buf)
    BY <1>2, <1>3, <1>4
  <2>2. PICK b \in Seq(Chars) : WithImplicitNewline(w) = Widened(w, b)
    BY <1>4, <2>1, NewlineWritten
  <2>3. Widened(w, b).end = w.end + 1 /\ Widened(w, b).implicit_newline = TRUE
    BY <1>4, WidenedFields
  <2> QED
    BY <1>1, <1>3, <1>4, <1>6, <2>2, <2>3 DEF Size
<1> QED
  BY <1>5, <1>6

LEMMA ReadKeepsSize ==
  ASSUME NEW u \in Ucs
  PROVE  Size(ReadCp(u)) = Size(u)
<1>1. ReadCp(u).end = u.end /\ ReadCp(u).implicit_newline = u.implicit_newline
  BY DEF ReadCp, Ucs
<1> QED
  BY <1>1 DEF Size

\* Reading takes one code point, or none at the end.
LEMMA NextUnread ==
  ASSUME NEW u, UcOK(u)
  PROVE  /\ UcOK(NextCp(u))
         /\ Unread(NextCp(u)) = Unread(u) - (IF NextCp(u).cp = EOF THEN 0 ELSE 1)
<1> DEFINE w == IF u.curr = u.inp /\ ~u.implicit_newline THEN StartLine(u) ELSE u
           c == w.col_offset + 1
           x == [w EXCEPT !.col_offset = c]
           n == NextCp(u)
<1>1. n = ReadCp(x)
  BY DEF NextCp
<1>2. UcOK(w) /\ Size(w) = Size(u)
  BY LineStarted, StartKeepsSize
<1> HIDE DEF w
<1>3. w \in Ucs /\ c \in Nat
  BY <1>2 DEF UcOK, Ucs
<1> HIDE DEF c
<1>4. x \in Ucs /\ x.end = w.end /\ x.implicit_newline = w.implicit_newline
  BY <1>3 DEF Ucs
<1> HIDE DEF x
<1>5. Size(n) = Size(u)
  BY <1>1, <1>2, <1>4, ReadKeepsSize DEF Size
<1>6. Reads(u, n)
  BY CpNext
<1> HIDE DEF n
<1>7. UcOK(n) /\ n.curr = u.curr + (IF n.cp = EOF THEN 0 ELSE 1)
  BY <1>6 DEF Reads, UcOK, Ucs
<1>8. u.curr \in Nat
  BY DEF UcOK, Ucs
<1>9. Unread(n) = Unread(u) - (IF n.cp = EOF THEN 0 ELSE 1)
  BY <1>5, <1>7, <1>8, UnreadIs
<1> QED
  BY <1>7, <1>9 DEF n

\* Giving a code point back makes one to read again, except at the end.
LEMMA BackupUnread ==
  ASSUME NEW u, UcOK(u)
  PROVE  /\ UcOK(BackupCp(u)) /\ BackupCp(u).cp = u.cp
         /\ BackupCp(u).curr = IF u.curr = 0 \/ u.cp = EOF THEN u.curr ELSE u.curr - 1
         /\ Unread(BackupCp(u)) =
              Unread(u) + (IF u.curr = 0 \/ u.cp = EOF THEN 0 ELSE 1)
<1> DEFINE b == BackupCp(u)
<1>1. /\ UcOK(b) /\ b.cp = u.cp
      /\ b.curr = IF u.curr = 0 \/ u.cp = EOF THEN u.curr ELSE u.curr - 1
  BY CpBackup
<1>2. b.end = u.end /\ b.implicit_newline = u.implicit_newline
  BY DEF BackupCp, UcOK, Ucs
<1> HIDE DEF b
<1>3. Size(b) = Size(u) /\ u.curr \in Nat
  BY <1>2 DEF Size, UcOK, Ucs
<1>4. Unread(b) = Unread(u) + (IF u.curr = 0 \/ u.cp = EOF THEN 0 ELSE 1)
  BY <1>1, <1>3, UnreadIs
<1> QED
  BY <1>1, <1>4 DEF b

\* A code point that was read, given back and given up again leaves no more to read
\* than there was in front of it.
LEMMA RereadUnread ==
  ASSUME NEW u, UcOK(u)
  PROVE  UcOK(Reread(NextCp(u))) /\ Unread(Reread(NextCp(u))) <= Unread(u)
<1> DEFINE n == NextCp(u)
           once == BackupCp(n)
           twice == BackupCp(once)
           again == NextCp(twice)
<1>1. Reread(n) = again
  BY DEF Reread
<1>2. Reads(u, n) /\ UcOK(n) /\ Unread(n) = Unread(u) - (IF n.cp = EOF THEN 0 ELSE 1)
  BY CpNext, NextUnread
<1> HIDE DEF n
<1>3. /\ UcOK(once) /\ once.cp = n.cp
      /\ Unread(once) = Unread(n) + (IF n.curr = 0 \/ n.cp = EOF THEN 0 ELSE 1)
  BY <1>2, BackupUnread
<1> HIDE DEF once
<1>4. /\ UcOK(twice)
      /\ Unread(twice) = Unread(once) + (IF once.curr = 0 \/ n.cp = EOF THEN 0 ELSE 1)
  BY <1>3, BackupUnread
<1> HIDE DEF twice
<1>5. /\ UcOK(again)
      /\ Unread(again) = Unread(twice) - (IF again.cp = EOF THEN 0 ELSE 1)
  BY <1>4, NextUnread
<1>6. again.cp = EOF => n.cp = EOF
  <2>1. n.cp # EOF => n.curr >= 1
    BY <1>2 DEF Reads, UcOK, Ucs
  <2> QED
    BY <1>1, <1>2, <2>1, CpReread
<1> HIDE DEF again
<1>7. Unread(u) \in Nat /\ Unread(n) \in Nat /\ Unread(once) \in Nat
      /\ Unread(twice) \in Nat /\ Unread(again) \in Nat
  BY <1>2, <1>3, <1>4, <1>5, UnreadIs
<1>8. n.cp = EOF => Unread(again) <= Unread(u)
  BY <1>2, <1>3, <1>4, <1>5, <1>7
<1>9. n.cp # EOF => Unread(again) <= Unread(u)
  BY <1>2, <1>3, <1>4, <1>5, <1>6, <1>7
<1>10. UcOK(again) /\ Unread(again) <= Unread(u)
  BY <1>5, <1>8, <1>9
<1> QED
  BY <1>1, <1>10 DEF n
\* A code point is at hand wherever a token or a comment is being read.
InHand ==
  phase \in {"hash", "slash", "line comment", "block comment", "name", "string"} => uc.cp # EOF

LEMMA InHandStep ==
  ASSUME InHand, Next
  PROVE  InHand'
<1>1. "#" # EOF /\ "/" # EOF /\ "*" # EOF /\ "a" # EOF /\ "quote" # EOF
  BY DEF EOF
<1>2. ASSUME NEW type, Token(type)
      PROVE  InHand'
  BY <1>2 DEF Token, InHand
<1>3. CASE NextLine \/ ReadIndentation \/ EmitIndentOrDedent
  BY <1>2, <1>3 DEF NextLine, ReadIndentation, EmitIndentOrDedent, Silent, InHand
<1>4. CASE EndIndentation
  BY <1>2, <1>4 DEF EndIndentation, Silent, InHand
<1>5. CASE SkipSpaces
  BY <1>1, <1>5 DEF SkipSpaces, Silent, InHand
<1>6. CASE HashComment
  BY <1>6 DEF HashComment, Silent, InHand
<1>7. CASE Slash
  BY <1>1, <1>7 DEF Slash, Silent, InHand
<1>8. CASE LineComment
  BY <1>8 DEF LineComment, Silent, InHand
<1>9. CASE BlockComment
  BY <1>2, <1>9 DEF BlockComment, Silent, InHand
<1>10. CASE EndOfFile
  BY <1>2, <1>10 DEF EndOfFile
<1>11. CASE StartName
  BY <1>1, <1>11 DEF StartName, Silent, InHand
<1>12. CASE Name
  BY <1>1, <1>2, <1>12 DEF Name, Silent, InHand
<1>13. CASE NewLine
  BY <1>2, <1>13 DEF NewLine, Silent, InHand
<1>14. CASE StartString
  BY <1>1, <1>14 DEF StartString, Silent, InHand
<1>15. CASE String
  BY <1>2, <1>15 DEF String, Silent, InHand
<1>16. CASE Operator
  BY <1>2, <1>16 DEF Operator
<1> QED
  BY <1>3, <1>4, <1>5, <1>6, <1>7, <1>8, <1>9, <1>10, <1>11, <1>12, <1>13, <1>14, <1>15,
     <1>16 DEF Next

LEMMA LessIs ==
  ASSUME NEW a \in Int, NEW b \in Int, NEW c \in Int, NEW d \in Int,
         NEW x \in Int, NEW y \in Int, NEW z \in Int, NEW w \in Int,
         \/ a < x
         \/ a <= x /\ b < y
         \/ a <= x /\ b <= y /\ c < z
         \/ a <= x /\ b <= y /\ c <= z /\ d < w
  PROVE  Less(<<a, b, c, d>>, <<x, y, z, w>>)
<1> DEFINE s == <<a, b, c, d>>
           t == <<x, y, z, w>>
<1>1. /\ s[1] = a /\ s[2] = b /\ s[3] = c /\ s[4] = d
      /\ t[1] = x /\ t[2] = y /\ t[3] = z /\ t[4] = w
  OBVIOUS
<1> HIDE DEF s, t
<1>2. a < x => Less(s, t)
  BY <1>1 DEF Less
<1>3. a = x /\ b < y => Less(s, t)
  BY <1>1 DEF Less
<1>4. a = x /\ b = y /\ c < z => Less(s, t)
  BY <1>1 DEF Less
<1>5. a = x /\ b = y /\ c = z /\ d < w => Less(s, t)
  BY <1>1 DEF Less
<1>6. Less(s, t)
  BY <1>2, <1>3, <1>4, <1>5
<1> QED
  BY <1>6 DEF s, t

\* Nothing is ever less than nothing.
NoLess == Reading \in Nat /\ Measuring \in Nat /\ Handing \in Nat /\ ToGo \in Nat

LEMMA LeftIs == LInv => NoLess
<1> SUFFICES ASSUME LInv
             PROVE  NoLess
  OBVIOUS
<1>1. Unread(uc) \in Nat /\ pendin \in Int
  BY Now, UnreadIs
<1>2. phase \in Phases
  BY DEF LInv, TypeOK
<1>3. ToGo \in Nat
  BY <1>2 DEF Phases, ToGo
<1> QED
  BY <1>1, <1>3 DEF Reading, Measuring, Handing, NoLess

LEMMA LeftIsThen == LInv' => NoLess'
BY LeftIs, PTL

\* What a step does to show that less is left.
Advances ==
  \/ Reading' < Reading
  \/ Reading' <= Reading /\ Measuring' < Measuring
  \/ Reading' <= Reading /\ Measuring' <= Measuring /\ Handing' < Handing
  \/ Reading' <= Reading /\ Measuring' <= Measuring /\ Handing' <= Handing /\ ToGo' < ToGo

LEMMA AdvancedIsLess ==
  ASSUME LInv, LInv', Advances
  PROVE  Less(Left', Left)
<1>1. /\ Reading \in Int /\ Measuring \in Int /\ Handing \in Int /\ ToGo \in Int
      /\ Reading' \in Int /\ Measuring' \in Int /\ Handing' \in Int /\ ToGo' \in Int
  BY LeftIs, LeftIsThen DEF NoLess
<1>2. Less(<<Reading', Measuring', Handing', ToGo'>>, <<Reading, Measuring, Handing, ToGo>>)
  BY <1>1, LessIs DEF Advances
<1> QED
  BY <1>2 DEF Left
\* What reading on from here does.
LEMMA NextNow ==
  ASSUME LInv
  PROVE  /\ UcOK(NextCp(uc))
         /\ Unread(NextCp(uc)) = Unread(uc) - (IF NextCp(uc).cp = EOF THEN 0 ELSE 1)
         /\ Unread(uc) \in Int /\ Unread(NextCp(uc)) \in Int
<1>1. UcOK(uc)
  BY Now
<1>2. /\ UcOK(NextCp(uc))
      /\ Unread(NextCp(uc)) = Unread(uc) - (IF NextCp(uc).cp = EOF THEN 0 ELSE 1)
  BY <1>1, NextUnread
<1> QED
  BY <1>1, <1>2, UnreadIs

LEMMA ReadingIs ==
  /\ AtHand => Reading = Unread(uc) + 1
  /\ ~AtHand => Reading = Unread(uc) + 0
BY DEF Reading

LEMMA ReadingIsThen ==
  /\ AtHand' => Reading' = Unread(uc') + 1
  /\ ~AtHand' => Reading' = Unread(uc') + 0
BY DEF Reading

\* Only between two lines is there one to measure, apart from the one being measured.
LEMMA WithinNoLine ==
  ASSUME LInv, phase # "nextline"
  PROVE  atbol = FALSE
BY DEF LInv, BetweenLines, TypeOK

LEMMA NextLineAdvances ==
  ASSUME LInv, NextLine
  PROVE  Advances
<1>1. /\ phase = "nextline" /\ atbol' = FALSE /\ UNCHANGED <<uc, pendin>>
      /\ phase' = IF atbol THEN "indentation" ELSE "pending"
      /\ pendin \in Int /\ atbol \in BOOLEAN /\ Unread(uc) \in Int
  BY Now, UnreadIs DEF NextLine, Silent, LInv, TypeOK
<1>2. Reading' = Reading /\ Handing' = Handing /\ ToGo' < ToGo
  BY <1>1 DEF Reading, AtHand, Handing, ToGo
<1>3. Measuring' = Measuring
  BY <1>1 DEF Measuring
<1>4. Reading \in Int /\ Handing \in Int /\ Measuring \in Int
  BY LeftIs DEF NoLess
<1> QED
  BY <1>2, <1>3, <1>4 DEF Advances

LEMMA ReadIndentationAdvances ==
  ASSUME LInv, ReadIndentation
  PROVE  Advances
<1>1. /\ phase = "indentation" /\ phase' = "indentation"
      /\ uc' = NextCp(uc) /\ NextCp(uc).cp \in {" ", "\t"}
  BY DEF ReadIndentation, Silent
<1>2. Unread(uc') = Unread(uc) - 1 /\ Unread(uc) \in Int
  BY <1>1, NextNow DEF EOF
<1>3. ~AtHand /\ ~AtHand'
  BY <1>1 DEF AtHand
<1> QED
  BY <1>2, <1>3, ReadingIs, ReadingIsThen DEF Advances

LEMMA EmitAdvances ==
  ASSUME LInv, EmitIndentOrDedent
  PROVE  Advances
<1>1. /\ phase = "pending" /\ phase' = "nextline" /\ UNCHANGED <<uc, atbol>>
      /\ \/ pendin < 0 /\ pendin' = pendin + 1
         \/ pendin > 0 /\ pendin' = pendin - 1
      /\ pendin \in Int /\ Unread(uc) \in Int
  BY Now, UnreadIs DEF EmitIndentOrDedent, Token
<1>2. Reading' = Reading /\ Handing' < Handing /\ Measuring' = Measuring
  BY <1>1 DEF Reading, AtHand, Handing, Measuring
<1>4. Reading \in Int /\ Handing \in Int /\ Measuring \in Int
  BY LeftIs DEF NoLess
<1> QED
  BY <1>2, <1>4 DEF Advances

\* Measuring gives back what is behind the indentation, and there is no line to
\* measure then.
LEMMA EndIndentationAdvances ==
  ASSUME LInv, EndIndentation
  PROVE  Advances
<1> DEFINE n == NextCp(uc)
           second == NextCp(n)
           seen == BackupCp(second)
<1>1. /\ phase = "indentation" /\ phase' \in {"pending", "done"} /\ atbol' = atbol
      /\ n.cp # "/" => uc' = BackupCp(n)
      /\ n.cp = "/" => uc' = BackupCp(seen)
  BY DEF EndIndentation, Silent, Token
<1>2. /\ Reads(uc, n) /\ UcOK(n)
      /\ Unread(n) = Unread(uc) - (IF n.cp = EOF THEN 0 ELSE 1)
  BY Now, CpNext, NextUnread
<1> HIDE DEF n
<1>3. UcOK(second) /\ Unread(second) = Unread(n) - (IF second.cp = EOF THEN 0 ELSE 1)
  BY <1>2, NextUnread
<1> HIDE DEF second
<1>4. /\ UcOK(seen) /\ seen.cp = second.cp
      /\ Unread(seen) = Unread(second) + (IF second.curr = 0 \/ second.cp = EOF THEN 0 ELSE 1)
  BY <1>3, BackupUnread
<1> HIDE DEF seen
<1>5. /\ Unread(uc) \in Int /\ Unread(n) \in Int /\ Unread(second) \in Int
      /\ Unread(seen) \in Int
  BY Now, <1>2, <1>3, <1>4, UnreadIs
<1>6. ASSUME n.cp # "/"
      PROVE  Unread(uc') <= Unread(uc)
  <2>1. Unread(uc') = Unread(n) + (IF n.curr = 0 \/ n.cp = EOF THEN 0 ELSE 1)
    BY <1>1, <1>2, <1>6, BackupUnread
  <2> QED
    BY <1>2, <1>5, <2>1
<1>7. ASSUME n.cp = "/"
      PROVE  Unread(uc') <= Unread(uc)
  <2>1. Unread(uc') = Unread(seen) + (IF seen.curr = 0 \/ seen.cp = EOF THEN 0 ELSE 1)
    BY <1>1, <1>4, <1>7, BackupUnread
  <2>2. Unread(n) = Unread(uc) - 1
    BY <1>2, <1>7 DEF EOF
  <2> QED
    BY <1>3, <1>4, <1>5, <2>1, <2>2
<1>8. Unread(uc') <= Unread(uc)
  BY <1>6, <1>7
<1>9. ~AtHand /\ ~AtHand'
  BY <1>1 DEF AtHand
<1>12. Unread(uc') \in Int
  BY IndentationEnds, UnreadIs
<1>10. Reading' <= Reading
  BY <1>5, <1>8, <1>9, <1>12, ReadingIs, ReadingIsThen
<1>11. Measuring' < Measuring
  BY <1>1, WithinNoLine DEF Measuring
<1> QED
  BY <1>10, <1>11 DEF Advances

LEMMA SkipSpacesAdvances ==
  ASSUME LInv, SkipSpaces
  PROVE  Advances
<1>1. /\ phase \in {"pending", "spaces"} /\ uc' = NextCp(uc) /\ UNCHANGED <<atbol, pendin>>
      /\ phase' = CASE uc'.cp \in {" ", "\t"} -> "spaces"
                    [] uc'.cp = "#" -> "hash"
                    [] uc'.cp = "/" -> "slash"
                    [] OTHER -> "token"
  BY DEF SkipSpaces, Silent, layout
<1>2. /\ Unread(uc') = Unread(uc) - (IF uc'.cp = EOF THEN 0 ELSE 1)
      /\ Unread(uc) \in Int
  BY <1>1, NextNow
<1>3. Measuring' <= Measuring /\ Handing' <= Handing
  <2>1. Measuring' = IF atbol \/ phase' = "indentation" THEN 1 ELSE 0
    BY <1>1 DEF Measuring
  <2>2. phase' # "indentation" /\ phase # "indentation"
    BY <1>1
  <2>3. Measuring' = Measuring /\ Handing' = Handing
    BY <1>1, <2>1, <2>2 DEF Measuring, Handing
  <2> QED
    BY <2>3, LeftIs DEF NoLess
<1>6. ~AtHand /\ Reading = Unread(uc) + 0
  BY <1>1, ReadingIs DEF AtHand
<1>4. CASE uc'.cp \in {" ", "\t"}
  <2>1. ~AtHand' /\ Unread(uc') = Unread(uc) - 1
    BY <1>1, <1>2, <1>4 DEF AtHand, EOF
  <2>2. Reading' < Reading
    BY <1>2, <1>6, <2>1, ReadingIsThen
  <2> QED
    BY <2>2 DEF Advances
<1>5. CASE uc'.cp \notin {" ", "\t"}
  <2>1. phase' \in {"hash", "slash", "token"}
    BY <1>1, <1>5
  <2>2. Reading' <= Reading
    <3>1. AtHand' <=> uc'.cp # EOF
      BY <2>1 DEF AtHand
    <3> QED
      BY <1>2, <1>6, <3>1, ReadingIsThen
  <2>3. ToGo' < ToGo
    <3>1. ToGo \in {5, 6}
      BY <1>1 DEF ToGo
    <3>2. ToGo' \in {2, 4}
      BY <2>1 DEF ToGo
    <3> QED
      BY <3>1, <3>2
  <2> QED
    BY <1>3, <2>2, <2>3 DEF Advances
<1> QED
  BY <1>4, <1>5

LEMMA HashCommentAdvances ==
  ASSUME LInv, InHand, HashComment
  PROVE  Advances
<1>1. /\ phase = "hash" /\ uc' = NextCp(uc)
      /\ phase' = IF uc'.cp \in {EOF, "\n", "\r"} THEN "token" ELSE "hash"
  BY DEF HashComment, Silent
<1>2. /\ Unread(uc') = Unread(uc) - (IF uc'.cp = EOF THEN 0 ELSE 1)
      /\ Unread(uc) \in Int
  BY <1>1, NextNow
<1>3. AtHand /\ (AtHand' <=> uc'.cp # EOF)
  BY <1>1 DEF AtHand, InHand
<1>4. Reading' < Reading
  BY <1>2, <1>3, ReadingIs, ReadingIsThen
<1> QED
  BY <1>4 DEF Advances

\* Inside of a line the rest stays as it is.
LEMMA LineStays ==
  ASSUME LInv, phase \notin {"nextline", "indentation"},
         phase' # "indentation", UNCHANGED <<atbol, pendin>>
  PROVE  Measuring' <= Measuring /\ Handing' <= Handing
<1>1. Measuring' = Measuring /\ Handing' = Handing
  BY WithinNoLine DEF Measuring, Handing
<1> QED
  BY <1>1, LeftIs DEF NoLess

LEMMA SlashAdvances ==
  ASSUME LInv, InHand, Slash
  PROVE  Advances
<1> DEFINE n == NextCp(uc)
<1>1. /\ phase = "slash" /\ UNCHANGED <<atbol, pendin>>
      /\ \/ n.cp = "/" /\ uc' = n /\ phase' = "line comment"
         \/ n.cp = "*" /\ uc' = n /\ phase' = "block comment"
         \/ n.cp = EOF /\ uc' = BackupCp(n) /\ phase' = "token"
         \/ n.cp \notin {"/", "*", EOF} /\ uc' = Reread(n) /\ phase' = "token"
  BY DEF Slash, Silent, layout
<1>2. UcOK(Reread(n)) /\ Unread(Reread(n)) <= Unread(uc)
  BY Now, RereadUnread
<1>3. /\ UcOK(n) /\ Unread(uc) \in Int /\ Unread(n) \in Int
      /\ Unread(n) = Unread(uc) - (IF n.cp = EOF THEN 0 ELSE 1)
  BY NextNow
<1> HIDE DEF n
<1>4. AtHand /\ Reading = Unread(uc) + 1
  BY <1>1, ReadingIs DEF AtHand, InHand
<1>5. CASE n.cp \in {"/", "*"} /\ uc' = n
  <2>1. Unread(uc') = Unread(uc) - 1
    BY <1>3, <1>5 DEF EOF
  <2>2. Reading' < Reading
    BY <1>3, <1>4, <2>1, ReadingIsThen
  <2> QED
    BY <2>2 DEF Advances
<1>6. CASE n.cp = EOF /\ uc' = BackupCp(n)
  <2>1. uc'.cp = EOF /\ Unread(uc') = Unread(n) + 0
    BY <1>3, <1>6, BackupUnread
  <2>2. ~AtHand'
    BY <2>1 DEF AtHand
  <2>3. Reading' < Reading
    BY <1>3, <1>4, <1>6, <2>1, <2>2, ReadingIsThen
  <2> QED
    BY <2>3 DEF Advances
<1>7. CASE uc' = Reread(n) /\ phase' = "token"
  <2>1. Unread(uc') <= Unread(uc) /\ Unread(uc') \in Int
    BY <1>2, <1>7, UnreadIs
  <2>2. Reading' <= Reading
    BY <1>3, <1>4, <2>1, ReadingIsThen
  <2>3. Measuring' <= Measuring /\ Handing' <= Handing
    BY <1>1, <1>7, LineStays
  <2>4. ToGo' < ToGo
    BY <1>1, <1>7 DEF ToGo
  <2> QED
    BY <2>2, <2>3, <2>4 DEF Advances
<1> QED
  BY <1>1, <1>5, <1>6, <1>7

LEMMA LineCommentAdvances ==
  ASSUME LInv, InHand, LineComment
  PROVE  Advances
<1> DEFINE n == NextCp(uc)
           ends == n.cp \in {EOF, "\n", "\r"}
<1>1. /\ phase = "line comment" /\ UNCHANGED <<atbol, pendin>>
      /\ uc' = IF ends THEN BackupCp(n) ELSE n
      /\ phase' = IF ends THEN "token" ELSE "line comment"
  BY DEF LineComment, Silent, layout
<1>3. /\ UcOK(n) /\ Unread(uc) \in Int /\ Unread(n) \in Int
      /\ Unread(n) = Unread(uc) - (IF n.cp = EOF THEN 0 ELSE 1)
  BY NextNow
<1> HIDE DEF n
<1>4. AtHand /\ Reading = Unread(uc) + 1
  BY <1>1, ReadingIs DEF AtHand, InHand
<1>5. CASE ~ends
  <2>1. Unread(uc') = Unread(uc) - 1
    BY <1>1, <1>3, <1>5
  <2>2. Reading' < Reading
    BY <1>3, <1>4, <2>1, ReadingIsThen
  <2> QED
    BY <2>2 DEF Advances
<1>6. CASE ends
  <2>1. /\ uc'.cp = n.cp
        /\ Unread(uc') = Unread(n) + (IF n.curr = 0 \/ n.cp = EOF THEN 0 ELSE 1)
    BY <1>1, <1>3, <1>6, BackupUnread
  <2>2. AtHand' <=> n.cp # EOF
    BY <1>1, <1>6, <2>1 DEF AtHand
  <2>3. Unread(uc') <= Unread(uc) /\ Unread(uc') \in Int
    BY <1>3, <2>1
  <2>4. Reading' <= Reading
    BY <1>3, <1>4, <2>2, <2>3, ReadingIsThen
  <2>5. Measuring' <= Measuring /\ Handing' <= Handing
    BY <1>1, <1>6, LineStays
  <2>6. ToGo' < ToGo
    <3>1. ToGo = 3 /\ ToGo' = 2
      BY <1>1, <1>6 DEF ToGo
    <3> QED
      BY <3>1
  <2> QED
    BY <2>4, <2>5, <2>6 DEF Advances
<1> QED
  BY <1>5, <1>6
\* Handing out a token that was at hand, or going on behind it.
LEMMA HandedOn ==
  ASSUME LInv, AtHand, phase' \in {"nextline", "done"},
         Unread(uc') \in Int, Unread(uc') <= Unread(uc)
  PROVE  Advances
<1>1. Reading = Unread(uc) + 1 /\ Unread(uc) \in Int
  BY Now, UnreadIs, ReadingIs
<1>2. ~AtHand'
  BY DEF AtHand
<1>3. Reading' < Reading
  BY <1>1, <1>2, ReadingIsThen
<1> QED
  BY <1>3 DEF Advances

LEMMA BlockCommentAdvances ==
  ASSUME LInv, InHand, BlockComment
  PROVE  Advances
<1> DEFINE n == NextCp(uc)
           after == NextCp(n)
<1>1. /\ phase = "block comment"
      /\ \/ n.cp # EOF /\ uc' = n /\ phase' = "block comment"
         \/ uc' = n /\ phase' = "done"
         \/ uc' = BackupCp(after) /\ phase' = "nextline"
         \/ uc' = after /\ phase' = "done"
  BY DEF BlockComment, Silent, Token
<1>2. /\ UcOK(n) /\ Unread(uc) \in Int /\ Unread(n) \in Int
      /\ Unread(n) = Unread(uc) - (IF n.cp = EOF THEN 0 ELSE 1)
  BY NextNow
<1> HIDE DEF n
<1>3. /\ UcOK(after) /\ Unread(after) \in Int
      /\ Unread(after) = Unread(n) - (IF after.cp = EOF THEN 0 ELSE 1)
  BY <1>2, NextUnread, UnreadIs
<1> HIDE DEF after
<1>4. AtHand /\ Reading = Unread(uc) + 1
  BY <1>1, ReadingIs DEF AtHand, InHand
<1>5. CASE n.cp # EOF /\ uc' = n /\ phase' = "block comment"
  <2>1. Unread(uc') = Unread(uc) - 1
    BY <1>2, <1>5
  <2>2. Reading' < Reading
    BY <1>2, <1>4, <2>1, ReadingIsThen
  <2> QED
    BY <2>2 DEF Advances
<1>6. CASE uc' = n /\ phase' = "done"
  <2>1. Unread(uc') \in Int /\ Unread(uc') <= Unread(uc)
    BY <1>2, <1>6
  <2> QED
    BY <1>4, <1>6, <2>1, HandedOn
<1>7. CASE uc' = BackupCp(after) /\ phase' = "nextline"
  <2>1. Unread(uc') = Unread(after) + (IF after.curr = 0 \/ after.cp = EOF THEN 0 ELSE 1)
    BY <1>3, <1>7, BackupUnread
  <2>2. Unread(uc') \in Int /\ Unread(uc') <= Unread(n)
    BY <1>2, <1>3, <2>1
  <2>3. Unread(uc') <= Unread(uc)
    BY <1>2, <2>2
  <2> QED
    BY <1>4, <1>7, <2>2, <2>3, HandedOn
<1>8. CASE uc' = after /\ phase' = "done"
  <2>1. Unread(uc') \in Int /\ Unread(uc') <= Unread(uc)
    BY <1>2, <1>3, <1>8
  <2> QED
    BY <1>4, <1>8, <2>1, HandedOn
<1> QED
  BY <1>1, <1>5, <1>6, <1>7, <1>8

LEMMA EndOfFileAdvances ==
  ASSUME LInv, EndOfFile
  PROVE  Advances
<1>1. /\ phase = "token" /\ phase' = "done" /\ uc.cp = EOF /\ UNCHANGED <<uc, atbol, pendin>>
  BY DEF EndOfFile, Token, layout
<1>2. Reading' <= Reading
  <2>1. ~AtHand /\ ~AtHand' /\ Unread(uc') = Unread(uc) /\ Unread(uc) \in Int
    BY <1>1, NextNow DEF AtHand
  <2> QED
    BY <2>1, ReadingIs, ReadingIsThen
<1>3. Measuring' <= Measuring /\ Handing' <= Handing
  BY <1>1, LineStays
<1>4. ToGo = 2 /\ ToGo' = 0
  BY <1>1 DEF ToGo
<1> QED
  BY <1>2, <1>3, <1>4 DEF Advances

LEMMA StartNameAdvances ==
  ASSUME LInv, StartName
  PROVE  Advances
<1>1. /\ phase = "token" /\ phase' = "name" /\ uc.cp = "a" /\ UNCHANGED <<uc, atbol, pendin>>
  BY DEF StartName, Silent, layout
<1>2. Reading' <= Reading
  <2>1. AtHand /\ AtHand' /\ Unread(uc') = Unread(uc) /\ Unread(uc) \in Int
    BY <1>1, NextNow DEF AtHand, EOF
  <2> QED
    BY <2>1, ReadingIs, ReadingIsThen
<1>3. Measuring' <= Measuring /\ Handing' <= Handing
  BY <1>1, LineStays
<1>4. ToGo = 2 /\ ToGo' = 1
  BY <1>1 DEF ToGo
<1> QED
  BY <1>2, <1>3, <1>4 DEF Advances

LEMMA NameAdvances ==
  ASSUME LInv, InHand, Name
  PROVE  Advances
<1> DEFINE n == NextCp(uc)
<1>1. /\ phase = "name"
      /\ \/ n.cp = "a" /\ uc' = n /\ phase' = "name"
         \/ uc' = BackupCp(n) /\ phase' = "nextline"
  BY DEF Name, Silent, Token
<1>2. /\ UcOK(n) /\ Unread(uc) \in Int /\ Unread(n) \in Int
      /\ Unread(n) = Unread(uc) - (IF n.cp = EOF THEN 0 ELSE 1)
  BY NextNow
<1> HIDE DEF n
<1>3. AtHand /\ Reading = Unread(uc) + 1
  BY <1>1, ReadingIs DEF AtHand, InHand
<1>4. CASE n.cp = "a" /\ uc' = n
  <2>1. Unread(uc') = Unread(uc) - 1
    BY <1>2, <1>4 DEF EOF
  <2>2. Reading' < Reading
    BY <1>2, <1>3, <2>1, ReadingIsThen
  <2> QED
    BY <2>2 DEF Advances
<1>5. CASE uc' = BackupCp(n) /\ phase' = "nextline"
  <2>1. Unread(uc') = Unread(n) + (IF n.curr = 0 \/ n.cp = EOF THEN 0 ELSE 1)
    BY <1>2, <1>5, BackupUnread
  <2>2. Unread(uc') \in Int /\ Unread(uc') <= Unread(uc)
    BY <1>2, <2>1
  <2> QED
    BY <1>3, <1>5, <2>2, HandedOn
<1> QED
  BY <1>1, <1>4, <1>5

\* Behind a CR there is no more to read than from it.
LEMMA UnreadBehindReturn ==
  ASSUME LInv
  PROVE  /\ UcOK(AfterCarriageReturn) /\ Unread(AfterCarriageReturn) \in Int
         /\ Unread(AfterCarriageReturn) <= Unread(uc) /\ Unread(uc) \in Int
<1>1. UcOK(uc) /\ Unread(uc) \in Int
  BY Now, UnreadIs
<1>2. /\ UcOK(NextCp(uc)) /\ Unread(NextCp(uc)) \in Int
      /\ Unread(NextCp(uc)) <= Unread(uc)
  BY NextNow
<1> QED
  BY <1>1, <1>2 DEF AfterCarriageReturn

LEMMA NewLineAdvances ==
  ASSUME LInv, NewLine
  PROVE  Advances
<1>1. /\ phase = "token" /\ phase' = "nextline"
      /\ uc' = AfterCarriageReturn /\ uc'.cp = "\n"
  BY DEF NewLine, Silent, Token
<1>2. AtHand
  BY <1>1 DEF AtHand, AfterCarriageReturn, EOF
<1>3. Unread(uc') \in Int /\ Unread(uc') <= Unread(uc)
  BY <1>1, UnreadBehindReturn
<1> QED
  BY <1>1, <1>2, <1>3, HandedOn

LEMMA StartStringAdvances ==
  ASSUME LInv, StartString
  PROVE  Advances
<1>1. /\ phase = "token" /\ phase' = "string" /\ UNCHANGED <<atbol, pendin>>
      /\ uc' = AfterCarriageReturn /\ uc'.cp = "quote"
  BY DEF StartString, Silent, layout
<1>2. AtHand /\ AtHand'
  BY <1>1 DEF AtHand, AfterCarriageReturn, EOF
<1>3. /\ Unread(uc') \in Int /\ Unread(uc') <= Unread(uc)
      /\ Unread(uc) \in Int
  BY <1>1, UnreadBehindReturn
<1>4. Reading' <= Reading
  BY <1>2, <1>3, ReadingIs, ReadingIsThen
<1>5. Measuring' <= Measuring /\ Handing' <= Handing
  BY <1>1, LineStays
<1>6. ToGo = 2 /\ ToGo' = 1
  BY <1>1 DEF ToGo
<1> QED
  BY <1>4, <1>5, <1>6 DEF Advances

LEMMA StringAdvances ==
  ASSUME LInv, InHand, String
  PROVE  Advances
<1>1. /\ phase = "string" /\ uc' = NextCp(uc)
      /\ \/ uc'.cp # EOF /\ phase' = "string"
         \/ phase' \in {"nextline", "done"}
  BY DEF String, Silent, Token
<1>2. /\ Unread(uc') = Unread(uc) - (IF uc'.cp = EOF THEN 0 ELSE 1)
      /\ Unread(uc) \in Int /\ Unread(uc') \in Int
  BY <1>1, NextNow
<1>3. AtHand /\ Reading = Unread(uc) + 1
  BY <1>1, ReadingIs DEF AtHand, InHand
<1>4. CASE uc'.cp # EOF /\ phase' = "string"
  <2>1. Reading' < Reading
    BY <1>2, <1>3, <1>4, ReadingIsThen
  <2> QED
    BY <2>1 DEF Advances
<1>5. CASE phase' \in {"nextline", "done"}
  <2>1. Unread(uc') <= Unread(uc)
    BY <1>2
  <2> QED
    BY <1>2, <1>3, <1>5, <2>1, HandedOn
<1> QED
  BY <1>1, <1>4, <1>5

LEMMA OperatorAdvances ==
  ASSUME LInv, Operator
  PROVE  Advances
<1> DEFINE a == AfterCarriageReturn
           r == Reread(NextCp(a))
<1>1. phase = "token" /\ phase' \in {"nextline", "done"} /\ uc.cp # EOF /\ uc' = r
  BY DEF Operator, Token
<1>2. /\ UcOK(a) /\ Unread(a) \in Int
      /\ Unread(a) <= Unread(uc) /\ Unread(uc) \in Int
  BY UnreadBehindReturn
<1> HIDE DEF a
<1>3. UcOK(r) /\ Unread(r) <= Unread(a)
  BY <1>2, RereadUnread
<1> HIDE DEF r
<1>4. Unread(r) \in Int /\ Unread(r) <= Unread(uc)
  BY <1>2, <1>3, UnreadIs
<1>5. AtHand
  BY <1>1 DEF AtHand
<1> QED
  BY <1>1, <1>4, <1>5, HandedOn

\* Every step of the tokenizer, on every file, leaves less to do: with what is left
\* never below nothing, no run of it is endless.
THEOREM ProgressCorrect == Spec => GetsOn
<1>1. Init => InHand
  BY DEF Init, InHand
<1>2. InHand /\ [Next]_vars => InHand'
  <2>1. InHand /\ UNCHANGED vars => InHand'
    BY DEF vars, InHand
  <2> QED
    BY <2>1, InHandStep
<1>3. Spec => []InHand
  BY <1>1, <1>2, PTL DEF Spec
<1>4. LInv /\ InHand /\ LInv' /\ [Next]_vars =>
        [(\A k \in 1..4 : Left[k] >= 0) /\ Less(Left', Left)]_vars
  <2> SUFFICES ASSUME LInv, InHand, LInv', Next
               PROVE  (\A k \in 1..4 : Left[k] >= 0) /\ Less(Left', Left)
    OBVIOUS
  <2>1. \A k \in 1..4 : Left[k] >= 0
    BY LeftIs DEF NoLess, Left
  <2>2. Advances
    BY NextLineAdvances, ReadIndentationAdvances, EndIndentationAdvances, EmitAdvances,
       SkipSpacesAdvances, HashCommentAdvances, SlashAdvances, LineCommentAdvances,
       BlockCommentAdvances, EndOfFileAdvances, StartNameAdvances, NameAdvances,
       NewLineAdvances, StartStringAdvances, StringAdvances, OperatorAdvances DEF Next
  <2> QED
    BY <2>1, <2>2, AdvancedIsLess
<1> QED
  BY <1>3, <1>4, LInvHolds, PTL DEF Spec, GetsOn
=============================================================================
