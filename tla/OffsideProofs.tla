--------------------------- MODULE OffsideProofs ---------------------------
(***************************************************************************)
(* The off-side rule on every file: the INDENTs that are open in front of  *)
(* a line are the columns of the lines it is inside of.                    *)
(***************************************************************************)
EXTENDS LexerProofs

----------------------------------------------------------------------------
(* The places of a text                                                    *)

Blanks == {" ", "\t"}

\* Two texts that are the same up to a position.
SameTo(a, b, p) == Len(a) = Len(b) /\ \A i \in 1..p : a[i] = b[i]

LEMMA FirstSame ==
  ASSUME NEW a, NEW b, NEW p \in Nat, SameTo(a, b, p)
  PROVE  FirstOnLine(a, p) <=> FirstOnLine(b, p)
<1>1. ASSUME NEW x, NEW y, SameTo(x, y, p), FirstOnLine(x, p)
      PROVE  FirstOnLine(y, p)
  <2>1. PICK s \in 0..p : /\ s = 0 \/ x[s] = "\n"
                          /\ \A i \in (s + 1)..p : x[i] \in {" ", "\t"}
    BY <1>1 DEF FirstOnLine
  <2>2. s = 0 \/ y[s] = "\n"
    <3>1. s = 0 \/ s \in 1..p
      OBVIOUS
    <3> QED
      BY <1>1, <2>1, <3>1 DEF SameTo
  <2>3. ASSUME NEW i \in (s + 1)..p
        PROVE  y[i] \in {" ", "\t"}
    <3>1. i \in 1..p
      OBVIOUS
    <3> QED
      BY <1>1, <2>1, <3>1 DEF SameTo
  <2> QED
    BY <2>2, <2>3 DEF FirstOnLine
<1>2. SameTo(b, a, p)
  BY DEF SameTo
<1> QED
  BY <1>1, <1>2

\* A line starts at the start of the text and behind every LF.
LEMMA FirstAtStart ==
  ASSUME NEW b, NEW p \in Nat, p = 0 \/ b[p] = "\n"
  PROVE  FirstOnLine(b, p)
<1>1. p \in 0..p /\ (p + 1)..p = {}
  OBVIOUS
<1> QED
  BY <1>1 DEF FirstOnLine

LEMMA FirstBehindBlank ==
  ASSUME NEW b, NEW p \in Nat, b[p + 1] \in Blanks
  PROVE  FirstOnLine(b, p + 1) <=> FirstOnLine(b, p)
<1>1. ASSUME FirstOnLine(b, p)
      PROVE  FirstOnLine(b, p + 1)
  <2>1. PICK s \in 0..p : /\ s = 0 \/ b[s] = "\n"
                          /\ \A i \in (s + 1)..p : b[i] \in {" ", "\t"}
    BY <1>1 DEF FirstOnLine
  <2>2. \A i \in (s + 1)..(p + 1) : b[i] \in {" ", "\t"}
    <3> SUFFICES ASSUME NEW i \in (s + 1)..(p + 1)
                 PROVE  b[i] \in {" ", "\t"}
      OBVIOUS
    <3>1. i = p + 1 \/ i \in (s + 1)..p
      OBVIOUS
    <3> QED
      BY <2>1, <3>1 DEF Blanks
  <2>3. s \in 0..(p + 1)
    OBVIOUS
  <2> QED
    BY <2>1, <2>2, <2>3 DEF FirstOnLine
<1>2. ASSUME FirstOnLine(b, p + 1)
      PROVE  FirstOnLine(b, p)
  <2>1. PICK s \in 0..(p + 1) : /\ s = 0 \/ b[s] = "\n"
                                /\ \A i \in (s + 1)..(p + 1) : b[i] \in {" ", "\t"}
    BY <1>2 DEF FirstOnLine
  <2>2. s # p + 1
    <3> SUFFICES ASSUME s = p + 1
                 PROVE  FALSE
      OBVIOUS
    <3>0. s # 0
      OBVIOUS
    <3>1. b[p + 1] = "\n"
      BY <2>1, <3>0, Zenon
    <3> QED
      BY <3>1 DEF Blanks
  <2>3. s \in 0..p /\ \A i \in (s + 1)..p : i \in (s + 1)..(p + 1)
    BY <2>2
  <2> QED
    BY <2>1, <2>3 DEF FirstOnLine
<1> QED
  BY <1>1, <1>2

\* Behind anything else nothing comes first.
LEMMA NotFirst ==
  ASSUME NEW b, NEW p \in Nat, p >= 1, b[p] \notin Blanks \cup {"\n"}
  PROVE  ~FirstOnLine(b, p)
<1> SUFFICES ASSUME FirstOnLine(b, p)
             PROVE  FALSE
  OBVIOUS
<1>1. PICK s \in 0..p : /\ s = 0 \/ b[s] = "\n"
                        /\ \A i \in (s + 1)..p : b[i] \in {" ", "\t"}
  BY DEF FirstOnLine
<1>2. s # p
  <2> SUFFICES ASSUME s = p
               PROVE  FALSE
    OBVIOUS
  <2>0. s # 0
    OBVIOUS
  <2>1. b[p] = "\n"
    BY <1>1, <2>0, Zenon
  <2> QED
    BY <2>1
<1>3. p \in (s + 1)..p
  BY <1>2
<1> QED
  BY <1>1, <1>3 DEF Blanks

\* The recursion of Column, at one position and up to position n.
ColumnAt(b, f, i) ==
  IF i = 0 THEN 0
  ELSE IF b[i] = "\n" THEN 0
  ELSE IF b[i] = " " THEN f[i - 1] + 1
  ELSE (f[i - 1] \div TAB_SIZE + 1) * TAB_SIZE

Columns(b, n, f) == f = [i \in 0..n |-> ColumnAt(b, f, i)]

\* It is well defined.
LEMMA ColumnsExist ==
  ASSUME NEW b, NEW len \in Nat
  PROVE  \E f : Columns(b, len, f)
<1> DEFINE A == {n \in Nat : ~\E f : Columns(b, n, f)}
<1> SUFFICES ASSUME A # {}
             PROVE  FALSE
  OBVIOUS
<1>1. PICK m \in A : \A n \in A : m <= n
  <2>1. A \in SUBSET Nat
    OBVIOUS
  <2> HIDE DEF A
  <2> QED
    BY <2>1, Least
<1>2. m # 0
  <2> SUFFICES ASSUME m = 0
               PROVE  FALSE
    OBVIOUS
  <2> DEFINE f == [i \in 0..0 |-> 0]
  <2>1. \A i \in 0..0 : ColumnAt(b, f, i) = 0
    BY DEF ColumnAt
  <2>2. Columns(b, 0, f)
    BY <2>1 DEF Columns
  <2> QED
    BY <2>2
<1>3. m \in Nat /\ m - 1 \in Nat /\ m - 1 \notin A
  BY <1>1, <1>2
<1>4. PICK f : Columns(b, m - 1, f)
  BY <1>3
<1> DEFINE g == [i \in 0..m |-> ColumnAt(b, f, i)]
<1>5. \A i \in 0..(m - 1) : g[i] = f[i]
  <2>1. \A i \in 0..(m - 1) : i \in 0..m
    BY <1>3
  <2> QED
    BY <1>4, <2>1 DEF Columns
<1>6. Columns(b, m, g)
  <2>1. ASSUME NEW i \in 0..m
        PROVE  ColumnAt(b, f, i) = ColumnAt(b, g, i)
    <3>1. i # 0 => i - 1 \in 0..(m - 1)
      BY <1>3
    <3>2. i # 0 => f[i - 1] = g[i - 1]
      BY <1>5, <3>1
    <3> HIDE DEF g
    <3> QED
      BY <3>2 DEF ColumnAt
  <2> DEFINE h == [i \in 0..m |-> ColumnAt(b, g, i)]
  <2>2. g = h
    BY <2>1
  <2> HIDE DEF g
  <2> QED
    BY <2>2 DEF Columns
<1> QED
  BY <1>6

\* What the column of each position is.
LEMMA ColumnIs ==
  ASSUME NEW b \in Seq(Chars)
  PROVE  /\ Column(b, 0) = 0
         /\ \A p \in 1..Len(b) :
              Column(b, p) =
                IF b[p] = "\n" THEN 0
                ELSE IF b[p] = " " THEN Column(b, p - 1) + 1
                ELSE (Column(b, p - 1) \div TAB_SIZE + 1) * TAB_SIZE
<1> DEFINE c == CHOOSE f : Columns(b, Len(b), f)
<1>1. Len(b) \in Nat
  BY LenProperties
<1>2. Columns(b, Len(b), c)
  BY <1>1, ColumnsExist
<1>3. \A p : Column(b, p) = c[p]
  BY DEF Column, Columns, ColumnAt
<1> HIDE DEF c
<1>4. \A p \in 0..Len(b) : c[p] = ColumnAt(b, c, p)
  BY <1>2 DEF Columns
<1>5. Column(b, 0) = 0
  <2>1. 0 \in 0..Len(b)
    BY <1>1
  <2>2. c[0] = ColumnAt(b, c, 0)
    BY <1>4, <2>1
  <2>3. ColumnAt(b, c, 0) = 0
    BY DEF ColumnAt
  <2> QED
    BY <1>3, <2>2, <2>3
<1>6. ASSUME NEW p \in 1..Len(b)
      PROVE  Column(b, p) = IF b[p] = "\n" THEN 0
                            ELSE IF b[p] = " " THEN Column(b, p - 1) + 1
                            ELSE (Column(b, p - 1) \div TAB_SIZE + 1) * TAB_SIZE
  <2>1. p \in 0..Len(b) /\ p # 0
    BY <1>1
  <2>2. c[p] = ColumnAt(b, c, p)
    BY <1>4, <2>1
  <2> QED
    BY <1>3, <2>1, <2>2 DEF ColumnAt
<1> QED
  BY <1>5, <1>6

LEMMA ColumnIsNat ==
  ASSUME NEW b \in Seq(Chars), NEW p \in 0..Len(b)
  PROVE  Column(b, p) \in Nat
<1> DEFINE A == {n \in 0..Len(b) : Column(b, n) \notin Nat}
<1> SUFFICES ASSUME A # {}
             PROVE  FALSE
  OBVIOUS
<1>1. Len(b) \in Nat
  BY LenProperties
<1>2. PICK m \in A : \A n \in A : m <= n
  <2>1. A \in SUBSET Nat
    BY <1>1
  <2> HIDE DEF A
  <2> QED
    BY <2>1, Least
<1>3. m # 0
  <2>1. Column(b, 0) = 0 /\ 0 \in Nat
    BY ColumnIs
  <2> QED
    BY <2>1, Zenon
<1>4. m \in 1..Len(b) /\ m - 1 \in 0..Len(b) /\ m - 1 < m
  BY <1>1, <1>3
<1>5. Column(b, m - 1) \in Nat
  <2>1. m - 1 \notin A
    BY <1>2, <1>4
  <2> QED
    BY <1>4, <2>1
<1>6. Column(b, m) \in Nat
  <2>1. ASSUME NEW k \in Nat
        PROVE  (k \div TAB_SIZE + 1) * TAB_SIZE \in Nat /\ k + 1 \in Nat
    BY <2>1 DEF TAB_SIZE
  <2> DEFINE k == Column(b, m - 1)
             t == (k \div TAB_SIZE + 1) * TAB_SIZE
  <2>2. k + 1 \in Nat /\ t \in Nat
    BY <1>5, <2>1
  <2>3. Column(b, m) = IF b[m] = "\n" THEN 0 ELSE IF b[m] = " " THEN k + 1 ELSE t
    BY <1>4, ColumnIs
  <2> HIDE DEF k, t
  <2>4. 0 \in Nat
    OBVIOUS
  <2> QED
    BY <2>2, <2>3, <2>4, Zenon
<1> QED
  BY <1>2, <1>6

\* It depends on nothing behind the position.
LEMMA ColumnSame ==
  ASSUME NEW a \in Seq(Chars), NEW b \in Seq(Chars), NEW p \in 0..Len(a), SameTo(a, b, p)
  PROVE  Column(a, p) = Column(b, p)
<1> DEFINE A == {n \in 0..p : Column(a, n) # Column(b, n)}
<1> SUFFICES ASSUME A # {}
             PROVE  FALSE
  <2>1. p \in 0..p
    BY LenProperties
  <2> QED
    BY <2>1
<1>1. Len(a) \in Nat /\ Len(b) = Len(a) /\ p \in Nat
  BY LenProperties DEF SameTo
<1>2. PICK m \in A : \A n \in A : m <= n
  <2>1. A \in SUBSET Nat
    BY <1>1
  <2> HIDE DEF A
  <2> QED
    BY <2>1, Least
<1>3. m # 0
  BY ColumnIs
<1>4. m \in 1..Len(a) /\ m \in 1..p /\ m - 1 \in 0..p /\ m - 1 < m
  BY <1>1, <1>3
<1>5. Column(a, m - 1) = Column(b, m - 1)
  <2>1. m - 1 \notin A
    BY <1>2, <1>4
  <2> QED
    BY <1>4, <2>1
<1>6. a[m] = b[m]
  BY <1>4 DEF SameTo
<1>7. Column(a, m) = Column(b, m)
  BY <1>1, <1>4, <1>5, <1>6, ColumnIs
<1> QED
  BY <1>2, <1>7

----------------------------------------------------------------------------
(* Reading, and what becomes of the text                                   *)

\* Nothing is left to be read.
Over(u) == u.curr = u.end /\ u.implicit_newline

\* Starting a line writes nothing, or a newline behind the line: at the end of the
\* file or over what follows a CR.
Started(u, w) ==
  /\ UcOK(w) /\ w.curr = u.curr /\ w.curr < w.inp
  /\ \/ w.buf = u.buf /\ w.end = u.end
     \/ \E k \in (u.curr + 1)..(u.end + 1) :
          /\ w.buf = [u.buf EXCEPT ![k] = "\n"] /\ w.end = u.end + 1
          /\ k = u.end + 1 \/ (k - 1 > u.curr /\ u.buf[k - 1] = "\r")

LEMMA LineWritten ==
  ASSUME NEW u, UcOK(u), ~u.implicit_newline
  PROVE  Started(u, StartLine(u))
<1> DEFINE v == Verified(u)
           i == LineEnd(u)
           w == [u EXCEPT !.inp = v.inp, !.done = v.done, !.implicit_newline = FALSE,
                          !.col_offset = 0]
<1>1. StartLine(u) = IF v.last = "\n" THEN w ELSE WithImplicitNewline(w)
  BY DEF StartLine
<1>2. /\ v.inp \in Nat /\ u.curr <= v.inp /\ v.inp <= u.end
      /\ v.done \in {"E_OK", "E_EOF"}
  BY LineVerified
<1>3. i \in u.curr..u.end /\ (i # u.end => u.buf[i + 1] \in {"\n", "\r"})
  BY LineEndFound
<1>4. /\ u \in Ucs /\ u.curr \in Nat /\ u.end \in Nat /\ u.buf \in Seq(Chars)
  BY DEF UcOK, Ucs
<1>5. v.last # "\n" => v.inp = u.end \/ (v.inp > u.curr /\ u.buf[v.inp] = "\r")
  <2> DEFINE next == IF i + 1 < u.end THEN u.buf[i + 2] ELSE EOF
             crlf == u.buf[i + 1] = "\r" /\ next = "\n"
  <2>1. v = IF i = u.end THEN [inp |-> i, last |-> EOF, done |-> "E_EOF"]
            ELSE [inp  |-> IF crlf THEN i + 2 ELSE i + 1,
                  last |-> IF u.buf[i + 1] = "\r" THEN next ELSE "\n",
                  done |-> "E_OK"]
    BY DEF Verified
  <2> HIDE DEF v, i, next
  <2>2. CASE i = u.end
    BY <2>1, <2>2
  <2>3. CASE i # u.end
    <3> SUFFICES ASSUME v.last # "\n"
                 PROVE  v.inp > u.curr /\ u.buf[v.inp] = "\r"
      OBVIOUS
    <3>1. v.last = IF u.buf[i + 1] = "\r" THEN next ELSE "\n"
      BY <2>1, <2>3
    <3>2. u.buf[i + 1] = "\r" /\ ~crlf
      BY <3>1
    <3>3. v.inp = i + 1
      BY <2>1, <2>3, <3>2
    <3> QED
      BY <1>3, <1>4, <3>2, <3>3
  <2> QED
    BY <2>2, <2>3
<1>6. UcOK(StartLine(u)) /\ StartLine(u).curr = u.curr /\ StartLine(u).curr < StartLine(u).inp
  BY LineStarted
<1> HIDE DEF v, i
<1>7. /\ w \in Ucs /\ w.buf = u.buf /\ w.curr = u.curr /\ w.end = u.end /\ w.inp = v.inp
  BY <1>2, <1>4 DEF Ucs
<1> HIDE DEF w
<1>8. CASE v.last = "\n"
  BY <1>1, <1>6, <1>7, <1>8 DEF Started
<1>9. CASE v.last # "\n"
  <2> DEFINE k == v.inp + 1
             b == [u.buf EXCEPT ![k] = "\n"]
             x == WithImplicitNewline(w)
  <2>1. StartLine(u) = x
    BY <1>1, <1>9
  <2>2. x = Widened(w, b)
    BY <1>7 DEF WithImplicitNewline, Widened
  <2>3. b \in Seq(Chars)
    <3>1. k \in 1..Len(u.buf)
      <4>1. u.end < Len(u.buf) /\ Len(u.buf) \in Nat
        BY <1>4, LenProperties DEF UcOK
      <4> QED
        BY <1>2, <1>4, <4>1
    <3>2. "\n" \in Chars
      BY DEF Chars
    <3> HIDE DEF k
    <3> QED
      BY <1>4, <3>1, <3>2, ExceptSeq
  <2>4. x.buf = b /\ x.end = u.end + 1
    <3> HIDE DEF b, x
    <3>1. Widened(w, b).buf = b /\ Widened(w, b).end = w.end + 1
      BY <1>7, <2>3, WidenedFields
    <3> QED
      BY <1>7, <2>2, <3>1
  <2>5. k \in (u.curr + 1)..(u.end + 1)
    BY <1>2, <1>4
  <2>6. k = u.end + 1 \/ (k - 1 > u.curr /\ u.buf[k - 1] = "\r")
    <3>1. k - 1 = v.inp
      BY <1>2
    <3> QED
      BY <1>5, <1>9, <3>1
  <2>7. x.buf = [u.buf EXCEPT ![k] = "\n"]
    BY <2>4
  <2> HIDE DEF x, k, b
  <2> QED
    BY <1>6, <2>1, <2>4, <2>5, <2>6, <2>7 DEF Started
<1> QED
  BY <1>8, <1>9

\* What NextCp does to the place in the text.
Moves(u, n) ==
  /\ UcOK(n)
  /\ n.cp = EOF <=> Over(u)
  /\ n.cp = EOF => Over(n) /\ n.curr = u.curr /\ n.buf = u.buf
  /\ n.cp # EOF =>
       /\ n.curr = u.curr + 1 /\ n.curr <= n.end /\ u.end <= n.end
       /\ n.cp = n.buf[n.curr]
       /\ u.curr < u.end => n.cp = u.buf[n.curr]
       /\ u.curr = u.end => n.cp = "\n"
       /\ n.cp # "\r" /\ n.curr < n.end =>
            \/ n.curr < u.end /\ n.buf[n.curr + 1] = u.buf[n.curr + 1]
            \/ n.curr = u.end /\ n.buf[n.curr + 1] = "\n"
  /\ SameTo(u.buf, n.buf, u.curr)

LEMMA SameItself ==
  ASSUME NEW b, NEW p
  PROVE  SameTo(b, b, p)
BY DEF SameTo

LEMMA CpTaken ==
  ASSUME NEW u \in Ucs
  PROVE  /\ ReadCp(u).buf = u.buf /\ ReadCp(u).end = u.end
         /\ ReadCp(u).implicit_newline = u.implicit_newline
         /\ u.curr < u.end =>
              ReadCp(u).cp = u.buf[u.curr + 1] /\ ReadCp(u).curr = u.curr + 1
         /\ ~(u.curr < u.end) => ReadCp(u).cp = EOF /\ ReadCp(u).curr = u.curr
<1> DEFINE c == u.buf[u.curr + 1]
           k == u.curr + 1
<1>1. ReadCp(u) = IF u.curr < u.end THEN [u EXCEPT !.cp = c, !.curr = k]
                  ELSE [u EXCEPT !.cp = EOF]
  BY DEF ReadCp
<1>2. k = u.curr + 1 /\ c = u.buf[u.curr + 1]
  OBVIOUS
<1> HIDE DEF c, k
<1>3. CASE u.curr < u.end
  BY <1>1, <1>2, <1>3 DEF Ucs
<1>4. CASE ~(u.curr < u.end)
  BY <1>1, <1>4 DEF Ucs
<1> QED
  BY <1>3, <1>4

\* The line is started when there is none; then there is something to read.
LEMMA LineReady ==
  ASSUME NEW u, UcOK(u)
  PROVE  \E w : /\ UcOK(w) /\ w.curr = u.curr
                /\ NextCp(u) = ReadCp([w EXCEPT !.col_offset = w.col_offset + 1])
                /\ \/ w = u /\ (u.curr < u.end \/ u.implicit_newline)
                   \/ Started(u, w) /\ ~u.implicit_newline
<1> DEFINE w == IF u.curr = u.inp /\ ~u.implicit_newline THEN StartLine(u) ELSE u
<1>1. NextCp(u) = ReadCp([w EXCEPT !.col_offset = w.col_offset + 1])
  BY DEF NextCp
<1>2. CASE u.curr = u.inp /\ ~u.implicit_newline
  <2>1. w = StartLine(u)
    BY <1>2
  <2>2. Started(u, w)
    BY <1>2, <2>1, LineWritten
  <2> HIDE DEF w
  <2> QED
    BY <1>1, <1>2, <2>2 DEF Started
<1>3. CASE ~(u.curr = u.inp /\ ~u.implicit_newline)
  <2>1. w = u
    BY <1>3
  <2>2. u.curr < u.end \/ u.implicit_newline
    BY <1>3 DEF UcOK, Ucs
  <2> HIDE DEF w
  <2> QED
    BY <1>1, <2>1, <2>2
<1> QED
  BY <1>2, <1>3

LEMMA CpMoves ==
  ASSUME NEW u, UcOK(u)
  PROVE  Moves(u, NextCp(u))
<1> DEFINE n == NextCp(u)
<1>1. PICK w : /\ UcOK(w) /\ w.curr = u.curr
               /\ n = ReadCp([w EXCEPT !.col_offset = w.col_offset + 1])
               /\ \/ w = u /\ (u.curr < u.end \/ u.implicit_newline)
                  \/ Started(u, w) /\ ~u.implicit_newline
  BY LineReady
<1> DEFINE c == w.col_offset + 1
           x == [w EXCEPT !.col_offset = c]
<1>2. /\ w \in Ucs /\ c \in Nat /\ w.curr \in Nat /\ w.end \in Nat /\ w.buf \in Seq(Chars)
      /\ w.curr <= w.end /\ w.inp <= w.end /\ w.inp \in Nat /\ w.end <= Len(w.buf)
      /\ Len(w.buf) \in Nat /\ (~w.implicit_newline => w.end < Len(w.buf))
  BY <1>1, LenProperties DEF UcOK, Ucs
<1>3. /\ u \in Ucs /\ u.curr \in Nat /\ u.end \in Nat /\ u.buf \in Seq(Chars)
      /\ u.curr <= u.end /\ u.end <= Len(u.buf) /\ Len(u.buf) \in Nat
      /\ (~u.implicit_newline => u.end < Len(u.buf))
  BY LenProperties DEF UcOK, Ucs
<1> HIDE DEF c
<1>4. /\ x \in Ucs /\ x.curr = w.curr /\ x.buf = w.buf /\ x.end = w.end
      /\ x.implicit_newline = w.implicit_newline
  BY <1>2 DEF Ucs
<1>5. n = ReadCp(x)
  BY <1>1 DEF c
<1>6. UcOK(n) /\ Reads(u, n)
  BY CpNext DEF Reads
<1> HIDE DEF x, n
<1>7. /\ n.buf = w.buf /\ n.end = w.end /\ n.implicit_newline = w.implicit_newline
      /\ w.curr < w.end => n.cp = w.buf[w.curr + 1] /\ n.curr = w.curr + 1
      /\ ~(w.curr < w.end) => n.cp = EOF /\ n.curr = w.curr
  BY <1>4, <1>5, CpTaken
<1>8. w.curr < w.end => n.cp # EOF
  <2> SUFFICES ASSUME w.curr < w.end
               PROVE  n.cp # EOF
    OBVIOUS
  <2>1. w.curr + 1 \in 1..Len(w.buf)
    BY <1>2
  <2>2. w.buf[w.curr + 1] \in Chars
    BY <1>2, <2>1, ElementOfSeq
  <2> QED
    BY <1>7, <2>2 DEF Chars, EOF
<1>9. ASSUME w.buf = u.buf, w.end = u.end, n.cp # EOF
      PROVE  Moves(u, n)
  <2>1. u.curr < u.end /\ n.curr = u.curr + 1 /\ n.curr <= n.end /\ n.end = u.end
    BY <1>1, <1>2, <1>3, <1>7, <1>9
  <2>2. n.buf = u.buf /\ n.cp = n.buf[n.curr]
    BY <1>1, <1>7, <1>9, <2>1
  <2>3. SameTo(u.buf, n.buf, u.curr)
    BY <2>2, SameItself
  <2>4. ~Over(u)
    BY <1>3, <2>1 DEF Over
  <2>5. ~(u.curr = u.end) /\ n.end >= u.end
    BY <1>3, <2>1
  <2>6. n.curr < n.end => n.curr < u.end
    BY <2>1
  <2> QED
    BY <1>6, <1>9, <2>1, <2>2, <2>3, <2>4, <2>5, <2>6 DEF Moves
<1>10. ASSUME n.cp = EOF
       PROVE  Moves(u, n)
  <2>1. ~(w.curr < w.end)
    BY <1>8, <1>10
  <2>2. ~Started(u, w)
    BY <1>2, <2>1 DEF Started
  <2>3. w = u /\ u.curr = u.end /\ u.implicit_newline
    BY <1>1, <1>3, <2>1, <2>2
  <2>4. n.buf = u.buf /\ n.curr = u.curr /\ n.end = u.end /\ n.implicit_newline
    BY <1>7, <2>1, <2>3
  <2>5. SameTo(u.buf, n.buf, u.curr)
    BY <2>4, SameItself
  <2> QED
    BY <1>6, <1>10, <2>3, <2>4, <2>5 DEF Moves, Over
<1>11. ASSUME Started(u, w), ~u.implicit_newline, w.end # u.end
       PROVE  Moves(u, n)
  <2>1. PICK k \in (u.curr + 1)..(u.end + 1) :
          /\ w.buf = [u.buf EXCEPT ![k] = "\n"] /\ w.end = u.end + 1
          /\ k = u.end + 1 \/ (k - 1 > u.curr /\ u.buf[k - 1] = "\r")
    BY <1>11 DEF Started
  <2>2. k \in 1..Len(u.buf)
    BY <1>3, <1>11, <2>1
  <2>3. /\ Len(w.buf) = Len(u.buf) /\ w.buf[k] = "\n"
        /\ \A i \in 1..Len(u.buf) : i # k => w.buf[i] = u.buf[i]
    <3>1. "\n" \in Chars
      BY DEF Chars
    <3> QED
      BY <1>3, <2>1, <2>2, <3>1, ExceptSeq
  <2>4. /\ n.cp # EOF /\ n.curr = u.curr + 1 /\ n.cp = n.buf[n.curr] /\ n.buf = w.buf
        /\ n.end = u.end + 1 /\ n.curr <= n.end
    BY <1>1, <1>2, <1>3, <1>7, <1>8, <2>1
  <2>5. SameTo(u.buf, n.buf, u.curr)
    <3>1. ASSUME NEW i \in 1..u.curr
          PROVE  i \in 1..Len(u.buf) /\ i # k
      BY <1>3, <2>1
    <3> QED
      BY <2>3, <2>4, <3>1 DEF SameTo
  <2>6. ~Over(u)
    BY <1>11 DEF Over
  <2>7. u.curr < u.end => n.cp = u.buf[n.curr]
    <3> SUFFICES ASSUME u.curr < u.end
                 PROVE  n.cp = u.buf[n.curr]
      OBVIOUS
    <3>1. n.curr \in 1..Len(u.buf) /\ n.curr # k
      BY <1>3, <2>1, <2>4
    <3> QED
      BY <2>3, <2>4, <3>1
  <2>8. u.curr = u.end => n.cp = "\n"
    <3> SUFFICES ASSUME u.curr = u.end
                 PROVE  n.cp = "\n"
      OBVIOUS
    <3>1. n.curr = k
      BY <1>3, <2>1, <2>4
    <3> QED
      BY <2>3, <2>4, <3>1
  <2>9. ASSUME n.cp # "\r", n.curr < n.end
        PROVE  \/ n.curr < u.end /\ n.buf[n.curr + 1] = u.buf[n.curr + 1]
               \/ n.curr = u.end /\ n.buf[n.curr + 1] = "\n"
    <3>0. n.curr <= u.end /\ n.curr \in Nat
      BY <1>3, <2>4, <2>9
    <3>1. n.cp = u.buf[n.curr]
      BY <1>3, <2>4, <2>7, <3>0
    <3>2. CASE n.curr < u.end
      <4>1. n.curr + 1 \in 1..Len(u.buf)
        BY <1>3, <3>0, <3>2
      <4>2. n.curr + 1 # k
        <5> SUFFICES ASSUME n.curr + 1 = k
                     PROVE  FALSE
          OBVIOUS
        <5>1. k - 1 = n.curr /\ k # u.end + 1
          BY <1>3, <3>0, <3>2
        <5> QED
          BY <2>1, <2>9, <3>1, <5>1
      <4> QED
        BY <2>3, <2>4, <3>2, <4>1, <4>2
    <3>3. CASE n.curr = u.end
      <4>1. n.curr + 1 = k
        <5> SUFFICES ASSUME n.curr + 1 # k
                     PROVE  FALSE
          OBVIOUS
        <5>1. k - 1 > u.curr /\ u.buf[k - 1] = "\r" /\ k \in Int
          BY <2>1, <3>3
        <5>2. k - 1 = n.curr
          BY <1>3, <2>1, <2>4, <3>3, <5>1
        <5> QED
          BY <2>9, <3>1, <5>1, <5>2
      <4> QED
        BY <2>3, <2>4, <3>3, <4>1
    <3> QED
      BY <1>3, <3>0, <3>2, <3>3
  <2>10. u.end <= n.end
    BY <1>3, <2>4
  <2> QED
    BY <1>6, <2>4, <2>5, <2>6, <2>7, <2>8, <2>9, <2>10 DEF Moves
<1>12. w.end = u.end => w.buf = u.buf
  <2>1. CASE w = u
    BY <2>1
  <2>2. CASE Started(u, w)
    <3>1. w.end # u.end + 1 \/ w.end # u.end
      BY <1>3
    <3> QED
      BY <2>2, <3>1, Zenon DEF Started
  <2> QED
    BY <1>1, <2>1, <2>2
<1>13. Moves(u, n)
  BY <1>1, <1>9, <1>10, <1>11, <1>12
<1> QED
  BY <1>13 DEF n

\* What giving back does to it.
LEMMA CpGivenBack ==
  ASSUME NEW u, NEW n, UcOK(u), Moves(u, n)
  PROVE  /\ UcOK(BackupCp(n)) /\ BackupCp(n).cp = n.cp
         /\ BackupCp(n).buf = n.buf /\ BackupCp(n).end = n.end
         /\ BackupCp(n).implicit_newline = n.implicit_newline
         /\ BackupCp(n).curr = u.curr
<1> DEFINE c == IF n.col_offset > 0 THEN n.col_offset - 1 ELSE 0
           k == IF n.curr = 0 \/ n.cp = EOF THEN n.curr ELSE n.curr - 1
           b == [n EXCEPT !.col_offset = c, !.curr = k]
<1>1. BackupCp(n) = b
  BY DEF BackupCp
<1>2. n \in Ucs /\ n.curr \in Nat /\ u.curr \in Nat /\ UcOK(n)
  BY DEF Moves, UcOK, Ucs
<1>3. k = u.curr
  <2>1. CASE n.cp = EOF
    BY <1>2, <2>1 DEF Moves
  <2>2. CASE n.cp # EOF
    <3>1. n.curr = u.curr + 1
      BY <2>2 DEF Moves
    <3> QED
      BY <1>2, <2>2, <3>1
  <2> QED
    BY <2>1, <2>2
<1>4. UcOK(BackupCp(n)) /\ BackupCp(n).cp = n.cp /\ BackupCp(n).end = n.end
  BY <1>2, CpBackup
<1> HIDE DEF c, k
<1>5. b.buf = n.buf /\ b.curr = k /\ b.implicit_newline = n.implicit_newline
  BY <1>2 DEF Ucs
<1> HIDE DEF b
<1> QED
  BY <1>1, <1>3, <1>4, <1>5

\* Giving back a second one.
LEMMA CpGivenBackTwice ==
  ASSUME NEW u, UcOK(u)
  PROVE  /\ UcOK(BackupCp(u)) /\ BackupCp(u).cp = u.cp
         /\ BackupCp(u).buf = u.buf /\ BackupCp(u).end = u.end
         /\ BackupCp(u).implicit_newline = u.implicit_newline
         /\ u.cp = EOF => BackupCp(u).curr = u.curr
         /\ u.cp # EOF /\ u.curr >= 1 => BackupCp(u).curr = u.curr - 1
<1> DEFINE c == IF u.col_offset > 0 THEN u.col_offset - 1 ELSE 0
           k == IF u.curr = 0 \/ u.cp = EOF THEN u.curr ELSE u.curr - 1
           b == [u EXCEPT !.col_offset = c, !.curr = k]
<1>1. BackupCp(u) = b
  BY DEF BackupCp
<1>2. u \in Ucs /\ u.curr \in Nat
  BY DEF UcOK, Ucs
<1>3. /\ UcOK(BackupCp(u)) /\ BackupCp(u).cp = u.cp /\ BackupCp(u).end = u.end
      /\ BackupCp(u).curr = k
  BY CpBackup
<1>4. (u.cp = EOF => k = u.curr) /\ (u.cp # EOF /\ u.curr >= 1 => k = u.curr - 1)
  BY <1>2
<1> HIDE DEF c, k
<1>5. b.buf = u.buf /\ b.implicit_newline = u.implicit_newline
  BY <1>2 DEF Ucs
<1> HIDE DEF b
<1> QED
  BY <1>1, <1>3, <1>4, <1>5

\* Reading again what was read before the last one: nothing has moved.
LEMMA CpReadAgain ==
  ASSUME NEW u, NEW n, UcOK(u), Moves(u, n), u.curr >= 1
  PROVE  /\ UcOK(Reread(n)) /\ SameTo(u.buf, Reread(n).buf, u.curr)
         /\ Reread(n).curr = u.curr
         /\ n.cp = EOF => Reread(n).cp = EOF
         /\ n.cp # EOF => /\ Reread(n).cp # EOF /\ Reread(n).cp = u.buf[u.curr]
                          /\ Reread(n).cp = Reread(n).buf[u.curr]
<1> DEFINE once == BackupCp(n)
           twice == BackupCp(once)
           r == NextCp(twice)
<1>1. Reread(n) = r
  BY DEF Reread
<1>2. UcOK(n) /\ u.curr \in Nat /\ n.end \in Nat /\ SameTo(u.buf, n.buf, u.curr)
  BY DEF Moves, UcOK, Ucs
<1>3. /\ UcOK(once) /\ once.cp = n.cp /\ once.buf = n.buf /\ once.end = n.end
      /\ once.implicit_newline = n.implicit_newline /\ once.curr = u.curr
  BY CpGivenBack
<1> HIDE DEF once
<1>4. /\ UcOK(twice) /\ twice.buf = n.buf /\ twice.end = n.end
      /\ twice.implicit_newline = n.implicit_newline
      /\ n.cp = EOF => twice.curr = u.curr
      /\ n.cp # EOF => twice.curr = u.curr - 1
  BY <1>3, CpGivenBackTwice
<1> HIDE DEF twice
<1>5. Moves(twice, r) /\ UcOK(r)
  BY <1>4, CpMoves DEF Moves
<1> HIDE DEF r
<1>6. CASE n.cp = EOF
  <2>1. Over(n) /\ n.curr = u.curr
    BY <1>6 DEF Moves
  <2>2. Over(twice)
    BY <1>4, <1>6, <2>1 DEF Over
  <2>3. r.cp = EOF /\ r.curr = twice.curr /\ r.buf = twice.buf
    BY <1>5, <2>2 DEF Moves
  <2> QED
    BY <1>1, <1>2, <1>4, <1>5, <1>6, <2>3
<1>7. CASE n.cp # EOF
  <2>1. n.curr = u.curr + 1 /\ n.curr <= n.end
    BY <1>7 DEF Moves
  <2>2. twice.curr = u.curr - 1 /\ twice.curr < twice.end
    BY <1>2, <1>4, <1>7, <2>1
  <2>3. ~Over(twice)
    BY <1>2, <1>4, <2>2 DEF Over
  <2>4. r.cp # EOF /\ r.curr = u.curr /\ r.cp = r.buf[u.curr] /\ r.cp = n.buf[u.curr]
    <3>1. r.cp # EOF
      BY <1>5, <2>3 DEF Moves
    <3>2. /\ r.curr = twice.curr + 1 /\ r.cp = r.buf[r.curr]
          /\ r.cp = twice.buf[r.curr]
      BY <1>5, <2>2, <3>1 DEF Moves
    <3>3. r.curr = u.curr
      BY <1>2, <2>2, <3>2
    <3> QED
      BY <1>4, <3>1, <3>2, <3>3
  <2>5. u.curr \in 1..u.curr
    BY <1>2
  <2>6. SameTo(n.buf, r.buf, u.curr)
    <3>1. SameTo(n.buf, r.buf, u.curr - 1)
      BY <1>4, <1>5, <1>7 DEF Moves
    <3> SUFFICES ASSUME NEW i \in 1..u.curr
                 PROVE  n.buf[i] = r.buf[i]
      BY <3>1 DEF SameTo
    <3>2. i = u.curr \/ i \in 1..(u.curr - 1)
      BY <1>2
    <3> QED
      BY <2>4, <3>1, <3>2 DEF SameTo
  <2>7. SameTo(u.buf, r.buf, u.curr)
    BY <1>2, <2>6 DEF SameTo
  <2>8. r.cp = u.buf[u.curr]
    BY <2>4, <2>5, <2>7 DEF SameTo
  <2> QED
    BY <1>1, <1>5, <1>7, <2>4, <2>7, <2>8
<1> QED
  BY <1>6, <1>7

----------------------------------------------------------------------------
(* The columns of the lines so far, -1 for a token that leads no line      *)

\* The k-th token's column is one that the end is still inside of.
Stands(g, len, k) == g[k] >= 0 /\ \A m \in k..len : g[m] >= 0 => g[m] >= g[k]

Seen(g, len) == {g[k] : k \in {k \in 1..len : Stands(g, len, k)}}

\* Every level but the innermost is a line's, and every line's column outside of
\* the innermost is a level.
Lined(g, len, s) ==
  /\ \A i \in 2..(Len(s) - 1) : s[i].col \in Seen(g, len)
  /\ \A c \in Seen(g, len) :
       c = 0 \/ c > s[Len(s)].col \/ \E i \in 1..Len(s) : s[i].col = c

\* The innermost level is that of the line before, or there was none.
Settled(g, len, s) ==
  \/ Len(s) = 1 /\ \A k \in 1..len : g[k] < 0
  \/ \E k \in 1..len : g[k] = s[Len(s)].col /\ \A m \in (k + 1)..len : g[m] < 0

Levels == Seq([col : Nat, altcol : Nat])

\* g and h are the places with a token less and a token more.
OneMore(g, h, len) ==
  /\ \A k \in 1..len : g[k] \in Int /\ h[k] = g[k]
  /\ h[len + 1] \in Int

LEMMA SeenIn ==
  ASSUME NEW g, NEW len, NEW c
  PROVE  c \in Seen(g, len) <=> \E k \in 1..len : Stands(g, len, k) /\ g[k] = c
BY DEF Seen

\* A token that leads no line changes nothing.
LEMMA SeenWithout ==
  ASSUME NEW len \in Nat, NEW g, NEW h, OneMore(g, h, len), h[len + 1] < 0
  PROVE  Seen(h, len + 1) = Seen(g, len)
<1>1. ASSUME NEW k \in 1..len
      PROVE  Stands(h, len + 1, k) <=> Stands(g, len, k)
  <2>1. \A m \in k..(len + 1) : m = len + 1 \/ (m \in k..len /\ m \in 1..len)
    OBVIOUS
  <2>2. \A m \in k..len : m \in k..(len + 1) /\ m \in 1..len
    OBVIOUS
  <2>3. ASSUME Stands(g, len, k)
        PROVE  Stands(h, len + 1, k)
    BY <2>1, <2>3 DEF Stands, OneMore
  <2>4. ASSUME Stands(h, len + 1, k)
        PROVE  Stands(g, len, k)
    BY <2>2, <2>4 DEF Stands, OneMore
  <2> QED
    BY <2>3, <2>4
<1>2. ~Stands(h, len + 1, len + 1)
  BY DEF Stands, OneMore
<1>3. \A k \in 1..(len + 1) : k = len + 1 \/ k \in 1..len
  OBVIOUS
<1>4. \A k \in 1..len : k \in 1..(len + 1) /\ h[k] = g[k]
  BY DEF OneMore
<1>5. ASSUME NEW c
      PROVE  c \in Seen(h, len + 1) <=> c \in Seen(g, len)
  BY <1>1, <1>2, <1>3, <1>4, SeenIn
<1> QED
  BY <1>5

\* One that does ends the lines that are further right.
LEMMA SeenWith ==
  ASSUME NEW len \in Nat, NEW g, NEW h, OneMore(g, h, len), h[len + 1] >= 0
  PROVE  \A c : c \in Seen(h, len + 1) <=>
                  c = h[len + 1] \/ (c \in Seen(g, len) /\ c <= h[len + 1])
<1> DEFINE d == h[len + 1]
<1>0. d \in Int /\ d >= 0
  BY DEF OneMore
<1>1. ASSUME NEW k \in 1..len
      PROVE  Stands(h, len + 1, k) <=> Stands(g, len, k) /\ g[k] <= d
  <2>1. \A m \in k..(len + 1) : m = len + 1 \/ (m \in k..len /\ m \in 1..len)
    OBVIOUS
  <2>2. \A m \in k..len : m \in k..(len + 1) /\ m \in 1..len
    OBVIOUS
  <2>3. len + 1 \in k..(len + 1)
    OBVIOUS
  <2>4. g[k] \in Int /\ h[k] = g[k]
    BY DEF OneMore
  <2>5. ASSUME Stands(g, len, k), g[k] <= d
        PROVE  Stands(h, len + 1, k)
    BY <1>0, <2>1, <2>4, <2>5 DEF Stands, OneMore
  <2>6. ASSUME Stands(h, len + 1, k)
        PROVE  Stands(g, len, k)
    BY <2>2, <2>6 DEF Stands, OneMore
  <2>7. ASSUME Stands(h, len + 1, k)
        PROVE  g[k] <= d
    <3>1. d >= h[k]
      BY <1>0, <2>3, <2>7 DEF Stands
    <3> QED
      BY <1>0, <2>4, <3>1
  <2> QED
    BY <2>5, <2>6, <2>7
<1>2. Stands(h, len + 1, len + 1)
  <2>1. \A m \in (len + 1)..(len + 1) : m = len + 1
    OBVIOUS
  <2> QED
    BY <1>0, <2>1 DEF Stands
<1>3. \A k \in 1..(len + 1) : k = len + 1 \/ k \in 1..len
  OBVIOUS
<1>4. len + 1 \in 1..(len + 1) /\ \A k \in 1..len : k \in 1..(len + 1) /\ h[k] = g[k]
  BY DEF OneMore
<1> HIDE DEF d
<1>5. ASSUME NEW c
      PROVE  c \in Seen(h, len + 1) <=> c = d \/ (c \in Seen(g, len) /\ c <= d)
  <2>1. ASSUME c \in Seen(h, len + 1)
        PROVE  c = d \/ (c \in Seen(g, len) /\ c <= d)
    <3>1. PICK k \in 1..(len + 1) : Stands(h, len + 1, k) /\ h[k] = c
      BY <2>1, SeenIn
    <3>2. CASE k = len + 1
      BY <3>1, <3>2 DEF d
    <3>3. CASE k \in 1..len
      BY <1>1, <1>4, <3>1, <3>3, SeenIn
    <3> QED
      BY <1>3, <3>2, <3>3
  <2>2. ASSUME c \in Seen(g, len), c <= d
        PROVE  c \in Seen(h, len + 1)
    <3>1. PICK k \in 1..len : Stands(g, len, k) /\ g[k] = c
      BY <2>2, SeenIn
    <3> QED
      BY <1>1, <1>4, <2>2, <3>1, SeenIn
  <2>3. d \in Seen(h, len + 1)
    BY <1>2, <1>4, SeenIn DEF d
  <2> QED
    BY <2>1, <2>2, <2>3
<1> QED
  BY <1>5 DEF d

\* Every column that is seen is one.
LEMMA SeenAreNat ==
  ASSUME NEW len \in Nat, NEW g, \A k \in 1..len : g[k] \in Int, NEW c \in Seen(g, len)
  PROVE  c \in Nat
<1>1. PICK k \in 1..len : Stands(g, len, k) /\ g[k] = c
  BY SeenIn
<1> QED
  BY <1>1 DEF Stands

LEMMA LevelIs ==
  ASSUME NEW s \in Levels, LevelsOK(s), Len(s) >= 1
  PROVE  /\ Len(s) \in Nat /\ Len(s) \in 1..Len(s) /\ 1 \in 1..Len(s)
         /\ \A i \in 1..Len(s) : s[i].col \in Nat /\ s[i].col <= s[Len(s)].col
         /\ s[1].col = 0
         /\ \A i \in 2..Len(s) : s[i].col > 0
         /\ \A i, j \in 1..Len(s) : i < j => s[i].col < s[j].col
<1>1. Len(s) \in Nat
  BY LenProperties DEF Levels
<1>2. ASSUME NEW i \in 1..Len(s)
      PROVE  s[i].col \in Nat
  <2>1. s[i] \in [col : Nat, altcol : Nat]
    BY ElementOfSeq DEF Levels
  <2> QED
    BY <2>1
<1>3. \A i, j \in 1..Len(s) : i < j => s[i].col < s[j].col
  BY DEF LevelsOK
<1>4. Len(s) \in 1..Len(s) /\ 1 \in 1..Len(s)
  BY <1>1
<1>5. s[1].col = 0
  BY DEF LevelsOK
<1>6. ASSUME NEW i \in 2..Len(s)
      PROVE  s[i].col > 0
  <2>1. i \in 1..Len(s) /\ 1 < i
    BY <1>1
  <2>2. s[1].col < s[i].col
    BY <1>3, <1>4, <2>1
  <2> QED
    BY <1>2, <1>5, <2>1, <2>2
<1>7. ASSUME NEW i \in 1..Len(s)
      PROVE  s[i].col <= s[Len(s)].col
  <2>1. CASE i = Len(s)
    BY <1>2, <2>1
  <2>2. CASE i # Len(s)
    <3>1. i < Len(s)
      BY <1>1, <2>2
    <3>2. s[i].col < s[Len(s)].col
      BY <1>3, <1>4, <3>1
    <3> QED
      BY <1>2, <1>4, <3>2
  <2> QED
    BY <2>1, <2>2
<1> QED
  BY <1>1, <1>2, <1>3, <1>4, <1>5, <1>6, <1>7

\* There are as many levels but the first as columns of theirs.
LEMMA LevelsCounted ==
  ASSUME NEW s \in Levels, LevelsOK(s), Len(s) >= 1
  PROVE  Cardinality({s[i].col : i \in 2..Len(s)}) = Len(s) - 1
<1> DEFINE n == Len(s) - 1
           T == {s[i].col : i \in 2..Len(s)}
           f == [i \in 1..n |-> s[i + 1].col]
<1>1. n \in Nat /\ Len(s) \in Nat /\ Len(s) = n + 1
  BY LevelIs
<1>2. \A i \in 1..n : i + 1 \in 2..Len(s) /\ i + 1 \in 1..Len(s)
  BY <1>1
<1>3. \A i, j \in 1..Len(s) : i < j => s[i].col < s[j].col
  BY LevelIs
<1>4. \A i \in 1..Len(s) : s[i].col \in Nat
  BY LevelIs
<1> HIDE DEF n
<1>5. f \in [1..n -> T]
  BY <1>2
<1>6. ASSUME NEW i \in 1..n, NEW j \in 1..n, f[i] = f[j]
      PROVE  i = j
  <2>1. s[i + 1].col = s[j + 1].col /\ s[i + 1].col \in Nat /\ s[j + 1].col \in Nat
    BY <1>2, <1>4, <1>6
  <2>2. ~(i + 1 < j + 1) /\ ~(j + 1 < i + 1)
    BY <1>2, <1>3, <2>1
  <2> QED
    BY <1>1, <2>2
<1>7. ASSUME NEW c \in T
      PROVE  \E i \in 1..n : f[i] = c
  <2>1. PICK i \in 2..Len(s) : c = s[i].col
    OBVIOUS
  <2>2. i - 1 \in 1..n /\ (i - 1) + 1 = i
    BY <1>1
  <2>3. f[i - 1] = c
    BY <2>1, <2>2
  <2> QED
    BY <2>2, <2>3
<1> HIDE DEF f, T
<1>8. f \in Bijection(1..n, T)
  BY <1>5, <1>6, <1>7 DEF Bijection, Injection, Surjection, IsInjective
<1>9. ExistsBijection(1..n, T)
  BY <1>8 DEF ExistsBijection
<1>10. Cardinality(T) = n
  BY <1>1, <1>9, FS_CountingElements
<1> QED
  BY <1>10 DEF n, T

\* A line at the innermost level is inside of the lines of all levels.
LEMMA LeaderListed ==
  ASSUME NEW len \in Nat, NEW g, NEW h, OneMore(g, h, len),
         NEW s \in Levels, LevelsOK(s), Len(s) >= 1, Lined(g, len, s),
         h[len + 1] = s[Len(s)].col
  PROVE  /\ Cardinality(Seen(h, len + 1) \ {0}) = Len(s) - 1
         /\ Lined(h, len + 1, s) /\ Settled(h, len + 1, s)
<1> DEFINE d == s[Len(s)].col
           T == {s[i].col : i \in 2..Len(s)}
<1>1. /\ Len(s) \in Nat /\ Len(s) \in 1..Len(s) /\ 1 \in 1..Len(s)
      /\ \A i \in 1..Len(s) : s[i].col \in Nat /\ s[i].col <= d
      /\ s[1].col = 0
      /\ \A i \in 2..Len(s) : s[i].col > 0
  BY LevelIs
<1>2. d \in Nat /\ h[len + 1] = d
  BY <1>1
<1>3. \A i \in 2..Len(s) : i \in 1..Len(s) /\ (i = Len(s) \/ i \in 2..(Len(s) - 1))
  BY <1>1
<1>4. \A i \in 1..Len(s) : i = 1 \/ i \in 2..Len(s)
  BY <1>1
<1>5. /\ \A i \in 2..(Len(s) - 1) : s[i].col \in Seen(g, len)
      /\ \A c \in Seen(g, len) : c = 0 \/ c > d \/ \E i \in 1..Len(s) : s[i].col = c
  BY DEF Lined
<1> HIDE DEF d
<1>6. \A c : c \in Seen(h, len + 1) <=> c = d \/ (c \in Seen(g, len) /\ c <= d)
  BY <1>2, SeenWith
<1>7. \A k \in 1..len : g[k] \in Int
  BY DEF OneMore
<1>8. ASSUME NEW c \in Seen(h, len + 1), c # 0
      PROVE  \E i \in 2..Len(s) : s[i].col = c
  <2>1. CASE c = d
    <3>1. Len(s) # 1
      BY <1>1, <1>8, <2>1 DEF d
    <3>2. Len(s) \in 2..Len(s)
      <4>1. ASSUME NEW n \in 1..Len(s), n # 1
            PROVE  n \in 2..Len(s)
        BY <1>1, <4>1
      <4> QED
        BY <1>1, <3>1, <4>1, Zenon
    <3> QED
      BY <2>1, <3>2 DEF d
  <2>2. CASE c \in Seen(g, len) /\ c <= d
    <3>1. c \in Nat
      BY <1>7, <2>2, SeenAreNat
    <3>2. ~(c > d)
      BY <1>2, <2>2, <3>1
    <3>3. PICK i \in 1..Len(s) : s[i].col = c
      BY <1>5, <1>8, <2>2, <3>2
    <3>4. i # 1
      BY <1>1, <1>8, <3>3
    <3> QED
      BY <1>4, <3>3, <3>4
  <2> QED
    BY <1>6, <2>1, <2>2
<1>9. ASSUME NEW i \in 2..Len(s)
      PROVE  s[i].col \in Seen(h, len + 1) /\ s[i].col # 0
  <2>1. CASE i = Len(s)
    BY <1>1, <1>6, <2>1 DEF d
  <2>2. CASE i \in 2..(Len(s) - 1)
    BY <1>1, <1>3, <1>5, <1>6, <2>2
  <2> QED
    BY <1>1, <1>3, <2>1, <2>2
<1>10. Seen(h, len + 1) \ {0} = T
  BY <1>8, <1>9
<1>11. Cardinality(T) = Len(s) - 1
  BY LevelsCounted
<1>12. Lined(h, len + 1, s)
  <2>1. \A i \in 2..(Len(s) - 1) : s[i].col \in Seen(h, len + 1)
    <3>1. \A i \in 2..(Len(s) - 1) : i \in 2..Len(s)
      BY <1>1
    <3> QED
      BY <1>9, <3>1
  <2>2. ASSUME NEW c \in Seen(h, len + 1)
        PROVE  c = 0 \/ c > s[Len(s)].col \/ \E i \in 1..Len(s) : s[i].col = c
    BY <1>3, <1>8
  <2> QED
    BY <2>1, <2>2 DEF Lined
<1>13. Settled(h, len + 1, s)
  <2>1. len + 1 \in 1..(len + 1) /\ (len + 1 + 1)..(len + 1) = {}
    OBVIOUS
  <2> QED
    BY <1>2, <2>1 DEF Settled, d
<1> QED
  BY <1>10, <1>11, <1>12, <1>13

LEMMA OtherListed ==
  ASSUME NEW len \in Nat, NEW g, NEW h, OneMore(g, h, len), NEW s, h[len + 1] < 0,
         Lined(g, len, s)
  PROVE  Lined(h, len + 1, s) /\ (Settled(g, len, s) => Settled(h, len + 1, s))
<1>1. Lined(h, len + 1, s)
  BY SeenWithout DEF Lined
<1>2. ASSUME Settled(g, len, s)
      PROVE  Settled(h, len + 1, s)
  <2>0. \A k \in 1..len : h[k] = g[k] /\ k \in 1..(len + 1)
    BY DEF OneMore
  <2>1. CASE Len(s) = 1 /\ \A k \in 1..len : g[k] < 0
    <3>1. \A k \in 1..(len + 1) : k = len + 1 \/ k \in 1..len
      OBVIOUS
    <3>2. \A k \in 1..(len + 1) : h[k] < 0
      BY <2>0, <2>1, <3>1
    <3> QED
      BY <2>1, <3>2 DEF Settled
  <2>2. CASE \E k \in 1..len : g[k] = s[Len(s)].col /\ \A m \in (k + 1)..len : g[m] < 0
    <3>1. PICK k \in 1..len : g[k] = s[Len(s)].col /\ \A m \in (k + 1)..len : g[m] < 0
      BY <2>2
    <3>2. \A m \in (k + 1)..(len + 1) : m = len + 1 \/ (m \in (k + 1)..len /\ m \in 1..len)
      OBVIOUS
    <3>3. \A m \in (k + 1)..(len + 1) : h[m] < 0
      BY <2>0, <3>1, <3>2
    <3>4. k \in 1..(len + 1) /\ h[k] = s[Len(s)].col
      BY <2>0, <3>1
    <3> QED
      BY <3>3, <3>4 DEF Settled
  <2> QED
    BY <1>2, <2>1, <2>2 DEF Settled
<1> QED
  BY <1>1, <1>2

\* A level is added behind a line of the innermost one.
LEMMA LevelAdded ==
  ASSUME NEW len \in Nat, NEW g, \A k \in 1..len : g[k] \in Int,
         NEW s \in Levels, LevelsOK(s), Len(s) >= 1,
         Lined(g, len, s), Settled(g, len, s),
         NEW t, Len(t) = Len(s) + 1, \A i \in 1..Len(s) : t[i] = s[i]
  PROVE  Lined(g, len, t)
<1>1. /\ Len(s) \in Nat /\ Len(s) \in 1..Len(s) /\ 1 \in 1..Len(s)
      /\ \A i \in 1..Len(s) : s[i].col \in Nat
  BY LevelIs
<1>2. ASSUME NEW k \in 1..len, g[k] = s[Len(s)].col, \A m \in (k + 1)..len : g[m] < 0
      PROVE  /\ s[Len(s)].col \in Seen(g, len)
             /\ \A c \in Seen(g, len) : c <= s[Len(s)].col
  <2>1. g[k] \in Nat
    BY <1>1, <1>2
  <2>2. Stands(g, len, k)
    <3>1. \A m \in k..len : m = k \/ m \in (k + 1)..len
      OBVIOUS
    <3>2. \A m \in (k + 1)..len : m \in 1..len
      OBVIOUS
    <3> QED
      BY <1>2, <2>1, <3>1, <3>2 DEF Stands
  <2>3. ASSUME NEW c \in Seen(g, len)
        PROVE  c <= g[k]
    <3>1. PICK j \in 1..len : Stands(g, len, j) /\ g[j] = c
      BY SeenIn
    <3>2. j \in (k + 1)..len \/ k \in j..len
      OBVIOUS
    <3>3. ~(j \in (k + 1)..len)
      BY <1>2, <3>1 DEF Stands
    <3> QED
      BY <2>1, <3>1, <3>2, <3>3 DEF Stands
  <2> QED
    BY <1>2, <2>2, <2>3, SeenIn
<1>3. CASE Len(s) = 1 /\ \A k \in 1..len : g[k] < 0
  <2>1. ASSUME NEW c \in Seen(g, len)
        PROVE  FALSE
    <3>1. PICK j \in 1..len : Stands(g, len, j) /\ g[j] = c
      BY SeenIn
    <3> QED
      BY <1>3, <3>1 DEF Stands
  <2>2. 2..(Len(t) - 1) = {}
    BY <1>3
  <2> QED
    BY <2>1, <2>2 DEF Lined
<1>4. CASE \E k \in 1..len : g[k] = s[Len(s)].col /\ \A m \in (k + 1)..len : g[m] < 0
  <2>1. /\ s[Len(s)].col \in Seen(g, len)
        /\ \A c \in Seen(g, len) : c <= s[Len(s)].col
    BY <1>2, <1>4
  <2>2. ASSUME NEW i \in 2..(Len(t) - 1)
        PROVE  t[i].col \in Seen(g, len)
    <3>1. i \in 1..Len(s) /\ (i = Len(s) \/ i \in 2..(Len(s) - 1))
      BY <1>1
    <3>2. CASE i = Len(s)
      BY <2>1, <3>1, <3>2
    <3>3. CASE i \in 2..(Len(s) - 1)
      BY <3>1, <3>3 DEF Lined
    <3> QED
      BY <3>1, <3>2, <3>3
  <2>3. ASSUME NEW c \in Seen(g, len), c # 0
        PROVE  \E i \in 1..Len(t) : t[i].col = c
    <3>1. c \in Nat
      BY SeenAreNat
    <3>2. ~(c > s[Len(s)].col)
      BY <1>1, <2>1, <3>1
    <3>3. PICK i \in 1..Len(s) : s[i].col = c
      BY <2>3, <3>2 DEF Lined
    <3>4. i \in 1..Len(t) /\ t[i].col = c
      BY <1>1, <3>3
    <3> QED
      BY <3>4
  <2> QED
    BY <2>2, <2>3 DEF Lined
<1> QED
  BY <1>3, <1>4 DEF Settled

\* Levels are left.
LEMMA LevelsLeft ==
  ASSUME NEW len \in Nat, NEW g, \A k \in 1..len : g[k] \in Int,
         NEW s \in Levels, LevelsOK(s), Len(s) >= 1, Lined(g, len, s),
         NEW t, Len(t) \in 1..Len(s), \A i \in 1..Len(t) : t[i] = s[i]
  PROVE  Lined(g, len, t)
<1>1. /\ Len(s) \in Nat /\ Len(s) \in 1..Len(s)
      /\ \A i \in 1..Len(s) : s[i].col \in Nat /\ s[i].col <= s[Len(s)].col
      /\ \A i, j \in 1..Len(s) : i < j => s[i].col < s[j].col
  BY LevelIs
<1>2. t[Len(t)] = s[Len(t)] /\ Len(t) \in Nat
  BY <1>1
<1>3. ASSUME NEW i \in 2..(Len(t) - 1)
      PROVE  t[i].col \in Seen(g, len)
  <2>1. i \in 2..(Len(s) - 1) /\ i \in 1..Len(t)
    BY <1>1, <1>2
  <2> QED
    BY <2>1 DEF Lined
<1>4. ASSUME NEW c \in Seen(g, len)
      PROVE  c = 0 \/ c > t[Len(t)].col \/ \E i \in 1..Len(t) : t[i].col = c
  <2>1. c \in Nat
    BY SeenAreNat
  <2>2. CASE c > s[Len(s)].col
    BY <1>1, <1>2, <2>1, <2>2
  <2>3. CASE \E i \in 1..Len(s) : s[i].col = c
    <3>1. PICK i \in 1..Len(s) : s[i].col = c
      BY <2>3
    <3>2. CASE i <= Len(t)
      <4>1. i \in 1..Len(t)
        BY <1>2, <3>2
      <4> QED
        BY <3>1, <4>1
    <3>3. CASE ~(i <= Len(t))
      <4>1. Len(t) < i
        BY <1>2, <3>3
      <4>2. s[Len(t)].col < s[i].col
        BY <1>1, <4>1
      <4> QED
        BY <1>1, <1>2, <2>1, <3>1, <4>2
    <3> QED
      BY <3>2, <3>3
  <2> QED
    BY <2>2, <2>3 DEF Lined
<1> QED
  BY <1>3, <1>4 DEF Lined

----------------------------------------------------------------------------
(* The inductive invariant                                                 *)

Leading == {"NAME", "STRING", "OP", "LPAR"}

LeadsIn(b, tk, n) ==
  /\ tk[n].type \in Leading
  /\ CountIn(tk, "LPAR", n - 1) = CountIn(tk, "RPAR", n - 1)
  /\ FirstOnLine(b, tk[n].start)
  /\ b[tk[n].start + 1] \notin {"#", "\r"}

Place(b, tk, n) == IF LeadsIn(b, tk, n) THEN Column(b, tk[n].start) ELSE -1

Places(b, tk) == [n \in 1..Len(tk) |-> Place(b, tk, n)]

\* Tokens that may lead a line start at what was read.
StartsRead(tk, p) ==
  \A n \in 1..Len(tk) : tk[n].type \in Leading => tk[n].start \in Nat /\ tk[n].start < p

\* The rule, for the tokens so far.
Offside(b, tk) ==
  \A n \in 1..Len(tk) :
    Place(b, tk, n) >= 0 => DepthIn(tk, n) = Cardinality(Seen(Places(b, tk), n) \ {0})

\* What is read next.
Ahead(u, chars) == u.curr < u.end /\ u.buf[u.curr + 1] \in chars

CommentAhead(u) ==
  \/ Ahead(u, {"#", "\n", "\r"})
  \/ Ahead(u, {"/"}) /\ u.curr + 1 < u.end /\ u.buf[u.curr + 2] \in {"*", "/"}

PlainAhead(u) == u.curr < u.end /\ u.buf[u.curr + 1] \notin {" ", "\t", "#", "\n", "\r"}

InnermostCol == indstack[Len(indstack)].col

\* Reading is at the start of a line's text, outside of parentheses.
AtText == FirstOnLine(uc.buf, uc.curr) /\ ~InParentheses

\* The token being read comes first on its line.
LeaderIn(b) ==
  FirstOnLine(b, start) /\ ~InParentheses /\ b[start + 1] \notin {"#", "\r"}

Leader == LeaderIn(uc.buf)

LeaderPlaced == Column(uc.buf, start) = InnermostCol

\* Between the lines and in front of a token: the innermost level is the column
\* of a line that has text.
LineMeasured ==
  /\ phase = "indentation" =>
       Ahead(uc, {"\n"}) \/ (FirstOnLine(uc.buf, uc.curr) /\ col = Column(uc.buf, uc.curr))
  /\ phase = "nextline" /\ atbol =>
       Ahead(uc, {"\n"}) \/ uc.curr = 0 \/ uc.buf[uc.curr] = "\n"
  /\ phase = "pending" \/ (phase = "nextline" /\ ~atbol) =>
       (AtText => \/ Over(uc) \/ CommentAhead(uc)
                  \/ PlainAhead(uc) /\ Column(uc.buf, uc.curr) = InnermostCol)
  /\ phase = "spaces" => ~AtText

\* Within a token: one that comes first on its line is in the column of the
\* innermost level, or is a comment.
TokenMeasured ==
  /\ phase \in {"hash", "slash", "line comment", "token", "name", "string"} =>
       uc.cp = EOF \/ (start \in Nat /\ start < uc.curr)
  /\ phase = "hash" => uc.cp # EOF /\ uc.buf[start + 1] = "#"
  /\ phase \in {"slash", "line comment", "name", "string"} => uc.cp # EOF
  /\ phase = "slash" =>
       /\ uc.curr = start + 1 /\ uc.buf[uc.curr] = "/"
       /\ Leader => LeaderPlaced \/ Ahead(uc, {"*", "/"})
  /\ phase = "token" /\ uc.cp \in {"\n", "\r"} =>
       /\ uc.buf[uc.curr] = uc.cp \/ Ahead(uc, {uc.cp})
       /\ uc.cp = "\r" => uc.buf[start + 1] \in {"#", "\r"} \/ Ahead(uc, {"\r"})
  /\ phase = "token" /\ uc.cp \notin {EOF, "\n", "\r"} =>
       /\ uc.cp \notin {" ", "\t", "#"}
       /\ uc.curr = start + 1 /\ uc.buf[uc.curr] = uc.cp
       /\ Leader => LeaderPlaced
  /\ phase = "name" => uc.buf[uc.curr] = "a"
  /\ phase \in {"name", "string"} /\ Leader => LeaderPlaced

\* A level may still be without its line only while that line's first token is
\* being read, or when nothing comes any more.
Fresh ==
  \/ /\ phase = "pending" \/ (phase = "nextline" /\ ~atbol)
     /\ Over(uc) \/ (AtText /\ PlainAhead(uc) /\ ~CommentAhead(uc))
  \/ /\ phase = "slash"
     /\ FirstOnLine(uc.buf, start) /\ ~InParentheses /\ ~Ahead(uc, {"*", "/"})
  \/ /\ phase = "token"
     /\ \/ uc.cp = EOF
        \/ uc.cp \notin {"\n", "\r"} /\ FirstOnLine(uc.buf, start) /\ ~InParentheses
  \/ phase \in {"name", "string"} /\ Leader
  \/ phase = "done"

\* The lines so far and the levels.
Placed ==
  /\ StartsRead(tokens, uc.curr)
  /\ Lined(Places(uc.buf, tokens), Len(tokens), indstack)
  /\ Settled(Places(uc.buf, tokens), Len(tokens), indstack) \/ Fresh
  /\ Offside(uc.buf, tokens)

OInv == LineMeasured /\ TokenMeasured /\ Placed

----------------------------------------------------------------------------
(* What a step leaves of the places                                        *)

LEMMA PlacesKept ==
  ASSUME NEW a \in Seq(Chars), NEW b \in Seq(Chars), NEW p \in 0..Len(a), SameTo(a, b, p),
         NEW tk, StartsRead(tk, p)
  PROVE  /\ \A n \in 1..Len(tk) : Place(a, tk, n) = Place(b, tk, n)
         /\ Places(a, tk) = Places(b, tk)
<1>0. Len(a) \in Nat
  BY LenProperties
<1>1. ASSUME NEW n \in 1..Len(tk)
      PROVE  Place(a, tk, n) = Place(b, tk, n)
  <2>1. CASE tk[n].type \notin Leading
    BY <2>1 DEF Place, LeadsIn
  <2>2. CASE tk[n].type \in Leading
    <3> DEFINE q == tk[n].start
    <3>1. q \in Nat /\ q < p /\ q \in 0..Len(a) /\ q + 1 \in 1..p
      BY <1>0, <2>2 DEF StartsRead
    <3>2. SameTo(a, b, q)
      <4>1. \A i \in 1..q : i \in 1..p
        BY <1>0, <3>1
      <4> QED
        BY <4>1 DEF SameTo
    <3>3. FirstOnLine(a, q) <=> FirstOnLine(b, q)
      BY <3>1, <3>2, FirstSame
    <3>4. Column(a, q) = Column(b, q)
      BY <3>1, <3>2, ColumnSame
    <3>5. a[q + 1] = b[q + 1]
      BY <3>1 DEF SameTo
    <3> QED
      BY <3>3, <3>4, <3>5 DEF Place, LeadsIn
  <2> QED
    BY <2>1, <2>2
<1> QED
  BY <1>1 DEF Places

LEMMA PlaceIsInt ==
  ASSUME NEW b \in Seq(Chars), NEW p \in 0..Len(b), NEW tk, StartsRead(tk, p),
         NEW n \in 1..Len(tk)
  PROVE  /\ Place(b, tk, n) \in Int
         /\ Place(b, tk, n) >= 0 <=> LeadsIn(b, tk, n)
         /\ Places(b, tk)[n] = Place(b, tk, n)
<1>1. CASE LeadsIn(b, tk, n)
  <2>1. tk[n].start \in 0..Len(b)
    <3>1. tk[n].start \in Nat /\ tk[n].start < p
      BY <1>1 DEF LeadsIn, StartsRead
    <3> QED
      BY <3>1, LenProperties
  <2>2. Column(b, tk[n].start) \in Nat
    BY <2>1, ColumnIsNat
  <2> QED
    BY <1>1, <2>2 DEF Place, Places
<1>2. CASE ~LeadsIn(b, tk, n)
  BY <1>2 DEF Place, Places
<1> QED
  BY <1>1, <1>2

\* What a token more adds.
LEMMA PlacesAdded ==
  ASSUME NEW b \in Seq(Chars), NEW p \in 0..Len(b),
         NEW tk \in Seq(TokenSet), NEW t \in TokenSet, StartsRead(Append(tk, t), p)
  PROVE  LET new == Append(tk, t)
             len == Len(tk)
         IN  /\ len \in Nat /\ Len(new) = len + 1
             /\ OneMore(Places(b, tk), Places(b, new), len)
             /\ \A n \in 1..len : Place(b, new, n) = Place(b, tk, n)
             /\ Places(b, new)[len + 1] = Place(b, new, len + 1)
             /\ Place(b, new, len + 1) >= 0 <=>
                  /\ t.type \in Leading
                  /\ CountIn(tk, "LPAR", len) = CountIn(tk, "RPAR", len)
                  /\ FirstOnLine(b, t.start) /\ b[t.start + 1] \notin {"#", "\r"}
             /\ Place(b, new, len + 1) >= 0 => Place(b, new, len + 1) = Column(b, t.start)
<1> DEFINE new == Append(tk, t)
           len == Len(tk)
<1>1. /\ len \in Nat /\ Len(new) = len + 1
      /\ \A i \in 1..len : new[i] = tk[i]
      /\ new[len + 1] = t
  BY AppendProperties, LenProperties
<1>2. \A type : \A n \in 0..len : CountIn(new, type, n) = CountIn(tk, type, n)
  BY CountAdded
<1>3. StartsRead(new, p)
  OBVIOUS
<1> HIDE DEF new, len
<1>4. ASSUME NEW n \in 1..len
      PROVE  LeadsIn(b, new, n) <=> LeadsIn(b, tk, n)
  <2>1. n - 1 \in 0..len
    BY <1>1
  <2>2. /\ CountIn(new, "LPAR", n - 1) = CountIn(tk, "LPAR", n - 1)
        /\ CountIn(new, "RPAR", n - 1) = CountIn(tk, "RPAR", n - 1)
    BY <1>2, <2>1
  <2> QED
    BY <1>1, <2>2 DEF LeadsIn
<1>5. \A n \in 1..len : Place(b, new, n) = Place(b, tk, n)
  BY <1>1, <1>4 DEF Place
<1>6. \A n \in 1..len : n \in 1..Len(new)
  BY <1>1
<1>7. len + 1 \in 1..Len(new)
  BY <1>1
<1>8. \A n \in 1..Len(new) : /\ Place(b, new, n) \in Int
                             /\ Place(b, new, n) >= 0 <=> LeadsIn(b, new, n)
                             /\ Places(b, new)[n] = Place(b, new, n)
  BY <1>3, PlaceIsInt
<1>9. \A n \in 1..len : Places(b, tk)[n] = Place(b, tk, n)
  BY DEF Places, len
<1>10. OneMore(Places(b, tk), Places(b, new), len)
  BY <1>5, <1>6, <1>7, <1>8, <1>9 DEF OneMore
<1>11. LeadsIn(b, new, len + 1) <=>
         /\ t.type \in Leading
         /\ CountIn(tk, "LPAR", len) = CountIn(tk, "RPAR", len)
         /\ FirstOnLine(b, t.start) /\ b[t.start + 1] \notin {"#", "\r"}
  <2>1. (len + 1) - 1 = len /\ len \in 0..len
    BY <1>1
  <2>2. /\ CountIn(new, "LPAR", (len + 1) - 1) = CountIn(tk, "LPAR", len)
        /\ CountIn(new, "RPAR", (len + 1) - 1) = CountIn(tk, "RPAR", len)
    BY <1>2, <2>1
  <2> QED
    BY <1>1, <2>2 DEF LeadsIn
<1>12. LeadsIn(b, new, len + 1) => Place(b, new, len + 1) = Column(b, t.start)
  BY <1>1 DEF Place
<1> QED
  BY <1>1, <1>5, <1>7, <1>8, <1>10, <1>11, <1>12 DEF new, len

LEMMA SeenUpTo ==
  ASSUME NEW g, NEW h, NEW n \in Nat, \A k \in 1..n : g[k] = h[k]
  PROVE  Seen(g, n) = Seen(h, n)
<1>1. ASSUME NEW k \in 1..n
      PROVE  Stands(g, n, k) <=> Stands(h, n, k)
  <2>1. \A m \in k..n : m \in 1..n
    OBVIOUS
  <2> QED
    BY <2>1 DEF Stands
<1>2. ASSUME NEW c
      PROVE  c \in Seen(g, n) <=> c \in Seen(h, n)
  BY <1>1, SeenIn
<1> QED
  BY <1>2

\* The rule for a token more.
LEMMA OffsideAdded ==
  ASSUME NEW b \in Seq(Chars), NEW p \in 0..Len(b),
         NEW tk \in Seq(TokenSet), NEW t \in TokenSet, StartsRead(Append(tk, t), p),
         Offside(b, tk),
         LET new == Append(tk, t)
             len == Len(tk)
         IN  Place(b, new, len + 1) >= 0 =>
               DepthIn(new, len + 1) = Cardinality(Seen(Places(b, new), len + 1) \ {0})
  PROVE  Offside(b, Append(tk, t))
<1> DEFINE new == Append(tk, t)
           len == Len(tk)
<1>1. /\ len \in Nat /\ Len(new) = len + 1
      /\ OneMore(Places(b, tk), Places(b, new), len)
      /\ \A n \in 1..len : Place(b, new, n) = Place(b, tk, n)
  BY PlacesAdded
<1>2. \A type : \A n \in 0..len : CountIn(new, type, n) = CountIn(tk, type, n)
  BY CountAdded
<1>3. Place(b, new, len + 1) >= 0 =>
        DepthIn(new, len + 1) = Cardinality(Seen(Places(b, new), len + 1) \ {0})
  OBVIOUS
<1> HIDE DEF new
<1>4. ASSUME NEW n \in 1..len, Place(b, new, n) >= 0
      PROVE  DepthIn(new, n) = Cardinality(Seen(Places(b, new), n) \ {0})
  <2>1. DepthIn(tk, n) = Cardinality(Seen(Places(b, tk), n) \ {0})
    BY <1>1, <1>4 DEF Offside
  <2>2. DepthIn(new, n) = DepthIn(tk, n)
    <3>1. n \in 0..len
      BY <1>1
    <3> QED
      BY <1>2, <3>1 DEF DepthIn
  <2>3. Seen(Places(b, tk), n) = Seen(Places(b, new), n)
    <3>1. n \in Nat /\ \A k \in 1..n : k \in 1..len
      BY <1>1
    <3>2. \A k \in 1..n : Places(b, tk)[k] = Places(b, new)[k]
      BY <1>1, <3>1 DEF OneMore
    <3> QED
      BY <3>1, <3>2, SeenUpTo
  <2> QED
    BY <2>1, <2>2, <2>3
<1>5. \A n \in 1..Len(new) : n = len + 1 \/ n \in 1..len
  BY <1>1
<1> HIDE DEF len
<1>6. Offside(b, new)
  BY <1>3, <1>4, <1>5 DEF Offside
<1> QED
  BY <1>6 DEF new

\* What the invariants say of the text and the tokens.
LEMMA Given ==
  ASSUME LInv
  PROVE  /\ UcOK(uc) /\ uc.buf \in Seq(Chars) /\ uc.curr \in Nat /\ uc.end \in Nat
         /\ uc.curr \in 0..Len(uc.buf) /\ uc.curr <= uc.end
         /\ tokens \in Seq(TokenSet) /\ Len(tokens) \in Nat
         /\ indstack \in Levels /\ LevelsOK(indstack) /\ Len(indstack) >= 1
         /\ start \in Int /\ parenstack \in Seq({"("}) /\ pendin \in Int
         /\ uc.cp \in Chars \cup {EOF}
<1>1. /\ UcOK(uc) /\ uc \in Ucs /\ uc.end <= Len(uc.buf) /\ uc.curr <= uc.end
      /\ tokens \in Seq(TokenSet) /\ start \in Int /\ parenstack \in Seq({"("})
      /\ pendin \in Int /\ Len(indstack) >= 1
  BY Now DEF UcOK
<1>2. indstack \in Levels /\ LevelsOK(indstack)
  BY DEF LInv, TypeOK, Levels
<1>3. /\ uc.buf \in Seq(Chars) /\ uc.curr \in Nat /\ uc.end \in Nat
      /\ uc.cp \in Chars \cup {EOF}
  BY <1>1 DEF Ucs
<1>4. Len(uc.buf) \in Nat /\ Len(tokens) \in Nat
  BY <1>1, <1>3, LenProperties
<1> QED
  BY <1>1, <1>2, <1>3, <1>4

\* The text up to where reading was stays, and reading does not go back.
Onward == UcOK(uc') /\ uc'.curr >= uc.curr /\ SameTo(uc.buf, uc'.buf, uc.curr)

LEMMA Going ==
  ASSUME LInv, Onward
  PROVE  /\ uc'.buf \in Seq(Chars) /\ uc'.curr \in Nat /\ uc'.end \in Nat
         /\ uc'.curr \in 0..Len(uc'.buf) /\ uc'.curr <= uc'.end
         /\ Len(uc'.buf) = Len(uc.buf)
<1>1. uc' \in Ucs /\ uc'.end <= Len(uc'.buf) /\ uc'.curr <= uc'.end
  BY DEF Onward, UcOK
<1>2. uc'.buf \in Seq(Chars) /\ uc'.curr \in Nat /\ uc'.end \in Nat
  BY <1>1 DEF Ucs
<1>3. Len(uc'.buf) \in Nat /\ Len(uc'.buf) = Len(uc.buf)
  BY <1>2, LenProperties DEF Onward, SameTo
<1> QED
  BY <1>1, <1>2, <1>3

LEMMA StartsReadOn ==
  ASSUME LInv, Onward, StartsRead(tokens, uc.curr)
  PROVE  StartsRead(tokens, uc'.curr)
<1>1. uc.curr \in Nat /\ uc'.curr \in Nat /\ uc'.curr >= uc.curr
  BY Given, Going DEF Onward
<1>2. ASSUME NEW n \in 1..Len(tokens), tokens[n].type \in Leading
      PROVE  tokens[n].start \in Nat /\ tokens[n].start < uc'.curr
  <2>1. tokens[n].start \in Nat /\ tokens[n].start < uc.curr
    BY <1>2 DEF StartsRead
  <2> QED
    BY <1>1, <2>1
<1> QED
  BY <1>2 DEF StartsRead

LEMMA PlacedSilent ==
  ASSUME LInv, Placed, Onward, UNCHANGED <<tokens, indstack>>, Fresh => Fresh'
  PROVE  Placed'
<1>1. /\ uc.buf \in Seq(Chars) /\ uc'.buf \in Seq(Chars) /\ uc.curr \in 0..Len(uc.buf)
      /\ SameTo(uc.buf, uc'.buf, uc.curr)
  BY Given, Going DEF Onward
<1>2. StartsRead(tokens, uc.curr)
  BY DEF Placed
<1>3. /\ Places(uc.buf, tokens) = Places(uc'.buf, tokens)
      /\ \A n \in 1..Len(tokens) : Place(uc.buf, tokens, n) = Place(uc'.buf, tokens, n)
  BY <1>1, <1>2, PlacesKept
<1>4. StartsRead(tokens, uc'.curr)
  BY <1>2, StartsReadOn
<1>5. Offside(uc'.buf, tokens)
  BY <1>3 DEF Placed, Offside
<1> QED
  BY <1>3, <1>4, <1>5 DEF Placed

LEMMA PlacedToken ==
  ASSUME LInv, Placed, Onward, phase # "done", NEW type \in Types, Token(type),
         UNCHANGED indstack,
         type \in Leading => start \in Nat /\ start < uc'.curr,
         type \in Leading /\ LeaderIn(uc'.buf) =>
           Column(uc'.buf, start) = InnermostCol /\ pendin = 0,
         Fresh => Fresh' \/ (type \in Leading /\ LeaderIn(uc'.buf))
  PROVE  Placed'
<1> DEFINE t == [type |-> type, start |-> start]
           len == Len(tokens)
           b == uc'.buf
           p == uc'.curr
           g == Places(b, tokens)
           h == Places(b, Append(tokens, t))
           leads == type \in Leading /\ LeaderIn(b)
<1>1. /\ uc.buf \in Seq(Chars) /\ b \in Seq(Chars) /\ uc.curr \in 0..Len(uc.buf)
      /\ p \in 0..Len(b) /\ SameTo(uc.buf, b, uc.curr) /\ p >= uc.curr
      /\ tokens \in Seq(TokenSet) /\ len \in Nat
      /\ indstack \in Levels /\ LevelsOK(indstack) /\ Len(indstack) >= 1
      /\ p \in Nat /\ uc.curr \in Nat
  BY Given, Going DEF Onward
<1>2. t \in TokenSet /\ t.type = type /\ t.start = start
  BY Given DEF TokenSet
<1>3. tokens' = Append(tokens, t)
  BY DEF Token
<1>4. /\ Len(tokens') = len + 1 /\ tokens'[len + 1] = t
      /\ \A n \in 1..len : tokens'[n] = tokens[n]
  BY <1>1, <1>2, <1>3, AppendProperties
<1>5. StartsRead(tokens, uc.curr)
  BY DEF Placed
<1>6. StartsRead(tokens, p) /\ StartsRead(tokens', p)
  <2>1. StartsRead(tokens, p)
    BY <1>1, <1>5 DEF StartsRead
  <2>2. \A n \in 1..Len(tokens') : n = len + 1 \/ n \in 1..len
    BY <1>1, <1>4
  <2>3. StartsRead(tokens', p)
    BY <1>2, <1>4, <2>1, <2>2 DEF StartsRead
  <2> QED
    BY <2>1, <2>3
<1>7. /\ Places(uc.buf, tokens) = g
      /\ \A n \in 1..Len(tokens) : Place(uc.buf, tokens, n) = Place(b, tokens, n)
  BY <1>1, <1>5, PlacesKept
<1>8. Lined(g, len, indstack) /\ (Settled(g, len, indstack) \/ Fresh) /\ Offside(b, tokens)
  BY <1>7 DEF Placed, Offside
<1> HIDE DEF t, b, p, len
<1>9. CountIn(tokens, "LPAR", len) = CountIn(tokens, "RPAR", len) <=> ~InParentheses
  <2>1. CountIn(tokens, "LPAR", len) \in Nat /\ CountIn(tokens, "RPAR", len) \in Nat
    BY <1>1, CountIsNat
  <2>2. CountIn(tokens, "LPAR", len) - CountIn(tokens, "RPAR", len) = Len(parenstack)
    BY DEF LInv, Balanced, len
  <2>3. Len(parenstack) = 0 <=> parenstack = << >>
    BY Given, EmptySeq
  <2> QED
    BY <2>1, <2>2, <2>3 DEF InParentheses
<1>10. /\ OneMore(g, h, len)
       /\ h[len + 1] = Place(b, tokens', len + 1)
       /\ Place(b, tokens', len + 1) >= 0 <=> leads
       /\ Place(b, tokens', len + 1) >= 0 => Place(b, tokens', len + 1) = Column(b, start)
  <2>1. StartsRead(Append(tokens, t), p)
    BY <1>3, <1>6
  <2> DEFINE level == CountIn(tokens, "LPAR", len) = CountIn(tokens, "RPAR", len)
             counts == Place(b, tokens', len + 1) >= 0
  <2>0. level <=> ~InParentheses
    BY <1>9
  <2> HIDE DEF g, h, level, counts
  <2>2. /\ OneMore(g, h, len)
        /\ h[len + 1] = Place(b, tokens', len + 1)
        /\ counts <=>
             /\ t.type \in Leading
             /\ level
             /\ FirstOnLine(b, t.start) /\ b[t.start + 1] \notin {"#", "\r"}
        /\ counts => Place(b, tokens', len + 1) = Column(b, t.start)
    BY <1>1, <1>2, <1>3, <2>1, PlacesAdded DEF g, h, len, level, counts
  <2>3. /\ counts <=>
             /\ type \in Leading
             /\ level
             /\ FirstOnLine(b, start) /\ b[start + 1] \notin {"#", "\r"}
        /\ counts => Place(b, tokens', len + 1) = Column(b, start)
    BY <1>2, <2>2
  <2>4. counts <=> leads
    BY <2>0, <2>3, Zenon DEF LeaderIn
  <2> QED
    BY <2>2, <2>3, <2>4 DEF counts
<1>11. Places(b, tokens') = h
  BY <1>3
<1> HIDE DEF g, h
<1>12. CASE leads
  <2>1. h[len + 1] = indstack[Len(indstack)].col /\ pendin = 0
    <3>1. Column(b, start) = InnermostCol /\ pendin = 0
      BY <1>12 DEF b
    <3> QED
      BY <1>10, <1>12, <3>1 DEF InnermostCol
  <2>2. /\ Cardinality(Seen(h, len + 1) \ {0}) = Len(indstack) - 1
        /\ Lined(h, len + 1, indstack) /\ Settled(h, len + 1, indstack)
    BY <1>1, <1>8, <1>10, <2>1, LeaderListed
  <2>3. DepthIn(tokens', len + 1) = Len(indstack) - 1
    <3>1. /\ CountIn(tokens', "INDENT", len + 1) = CountIn(tokens, "INDENT", len)
          /\ CountIn(tokens', "DEDENT", len + 1) = CountIn(tokens, "DEDENT", len)
      <4>1. type # "INDENT" /\ type # "DEDENT"
        BY <1>12 DEF Leading
      <4>2. \A x : /\ CountIn(tokens', x, len + 1)
                        = CountIn(tokens, x, len) + (IF type = x THEN 1 ELSE 0)
                   /\ CountIn(tokens, x, len) \in Nat
        BY <1>1, <1>2, <1>3, <1>4, CountOne DEF len
      <4> QED
        BY <4>1, <4>2
    <3>2. DepthIn(tokens, len) + pendin = Len(indstack) - 1
      BY DEF LInv, Balanced, len
    <3>3. DepthIn(tokens, len) \in Int
      BY <1>1, CountIsNat DEF DepthIn
    <3>4. DepthIn(tokens', len + 1) = DepthIn(tokens, len)
      BY <3>1 DEF DepthIn
    <3> QED
      BY <2>1, <3>2, <3>3, <3>4
  <2>4. DepthIn(tokens', len + 1) = Cardinality(Seen(Places(b, tokens'), len + 1) \ {0})
    BY <1>11, <2>2, <2>3
  <2>5. Offside(b, tokens')
    BY <1>1, <1>2, <1>3, <1>6, <1>8, <2>4, OffsideAdded DEF len
  <2> QED
    BY <1>4, <1>6, <1>11, <2>2, <2>5 DEF Placed, b, p
<1>13. CASE ~leads
  <2>1. h[len + 1] < 0 /\ ~(Place(b, tokens', len + 1) >= 0)
    <3>1. h[len + 1] \in Int
      BY <1>10 DEF OneMore
    <3> QED
      BY <1>10, <1>13, <3>1
  <2>2. /\ Lined(h, len + 1, indstack)
        /\ Settled(g, len, indstack) => Settled(h, len + 1, indstack)
    BY <1>1, <1>8, <1>10, <2>1, OtherListed
  <2>3. Fresh => Fresh'
    BY <1>13 DEF b
  <2>4. Offside(b, tokens')
    BY <1>1, <1>2, <1>3, <1>6, <1>8, <2>1, OffsideAdded DEF len
  <2> QED
    BY <1>4, <1>6, <1>8, <1>11, <2>2, <2>3, <2>4 DEF Placed, b, p
<1> QED
  BY <1>12, <1>13

----------------------------------------------------------------------------
(* The steps, one by one                                                   *)

\* A line starts in column 0.
LEMMA LineStartPlace ==
  ASSUME NEW b \in Seq(Chars), NEW p \in 0..Len(b), p = 0 \/ b[p] = "\n"
  PROVE  FirstOnLine(b, p) /\ Column(b, p) = 0
<1>1. Len(b) \in Nat
  BY LenProperties
<1>2. FirstOnLine(b, p)
  BY <1>1, FirstAtStart
<1>3. p = 0 \/ p \in 1..Len(b)
  BY <1>1
<1> QED
  BY <1>2, <1>3, ColumnIs

LEMMA NextLinePlaces ==
  ASSUME LInv, OInv, NextLine
  PROVE  OInv'
<1>1. /\ phase = "nextline" /\ uc' = uc /\ atbol' = FALSE /\ col' = 0
      /\ phase' = IF atbol THEN "indentation" ELSE "pending"
      /\ UNCHANGED <<tokens, indstack, pendin, parenstack, start>>
  BY DEF NextLine, Silent, inside
<1>2. Onward
  BY <1>1, Given DEF Onward, SameTo
<1>3. AtText' <=> AtText
  BY <1>1 DEF AtText, InParentheses
<1>4. LineMeasured'
  <2>1. CASE atbol
    <3>1. Ahead(uc, {"\n"}) \/ uc.curr = 0 \/ uc.buf[uc.curr] = "\n"
      BY <1>1, <2>1 DEF OInv, LineMeasured
    <3>2. uc.curr = 0 \/ uc.buf[uc.curr] = "\n" =>
            FirstOnLine(uc.buf, uc.curr) /\ Column(uc.buf, uc.curr) = 0
      BY Given, LineStartPlace
    <3> QED
      BY <1>1, <2>1, <3>1, <3>2 DEF LineMeasured
  <2>2. CASE ~atbol
    <3>1. AtText => \/ Over(uc) \/ CommentAhead(uc)
                    \/ PlainAhead(uc) /\ Column(uc.buf, uc.curr) = InnermostCol
      BY <1>1, <2>2 DEF OInv, LineMeasured
    <3> QED
      BY <1>1, <1>3, <2>2, <3>1 DEF LineMeasured, InnermostCol
  <2> QED
    BY <2>1, <2>2
<1>5. TokenMeasured'
  BY <1>1 DEF TokenMeasured
<1>6. Placed'
  <2>1. ASSUME Fresh
        PROVE  Fresh'
    <3>1. ~atbol /\ (Over(uc) \/ (AtText /\ PlainAhead(uc) /\ ~CommentAhead(uc)))
      BY <1>1, <2>1 DEF Fresh
    <3> QED
      BY <1>1, <1>3, <3>1 DEF Fresh
  <2> QED
    BY <1>1, <1>2, <2>1, PlacedSilent DEF OInv
<1> QED
  BY <1>4, <1>5, <1>6 DEF OInv

LEMMA EmitPlaces ==
  ASSUME LInv, OInv, EmitIndentOrDedent
  PROVE  OInv'
<1>1. /\ phase = "pending" /\ pendin # 0 /\ uc' = uc /\ phase' = "nextline"
      /\ UNCHANGED <<atbol, indstack, parenstack, start>>
      /\ Token("INDENT") \/ Token("DEDENT")
  BY DEF EmitIndentOrDedent, Token, inside
<1>2. Onward
  BY <1>1, Given DEF Onward, SameTo
<1>3. AtText' <=> AtText
  BY <1>1 DEF AtText, InParentheses
<1>4. atbol = FALSE
  BY <1>1 DEF LInv, BetweenLines, TypeOK
<1>5. LineMeasured'
  <2>1. AtText => \/ Over(uc) \/ CommentAhead(uc)
                  \/ PlainAhead(uc) /\ Column(uc.buf, uc.curr) = InnermostCol
    BY <1>1 DEF OInv, LineMeasured
  <2> QED
    BY <1>1, <1>3, <1>4, <2>1 DEF LineMeasured, InnermostCol
<1>6. TokenMeasured'
  BY <1>1 DEF TokenMeasured
<1>7. Fresh => Fresh'
  <2> SUFFICES ASSUME Fresh
               PROVE  Fresh'
    OBVIOUS
  <2>1. Over(uc) \/ (AtText /\ PlainAhead(uc) /\ ~CommentAhead(uc))
    BY <1>1 DEF Fresh
  <2> QED
    BY <1>1, <1>3, <1>4, <2>1 DEF Fresh
<1>8. Placed'
  <2>1. "INDENT" \in Types \ Leading /\ "DEDENT" \in Types \ Leading
    BY DEF Types, Leading
  <2> QED
    BY <1>1, <1>2, <1>7, <2>1, PlacedToken DEF OInv
<1> QED
  BY <1>5, <1>6, <1>8 DEF OInv

\* Reading a code point.
LEMMA Stepped ==
  ASSUME LInv, uc' = NextCp(uc)
  PROVE  Moves(uc, uc') /\ Onward
<1>1. Moves(uc, uc') /\ uc.curr \in Nat
  BY Given, CpMoves
<1>2. uc'.curr >= uc.curr
  BY <1>1 DEF Moves
<1> QED
  BY <1>1, <1>2 DEF Moves, Onward

\* What is known of the text behind the place of reading stays so.
LEMMA TextKept ==
  ASSUME LInv, Onward, NEW q \in Nat, q <= uc.curr
  PROVE  /\ FirstOnLine(uc.buf, q) <=> FirstOnLine(uc'.buf, q)
         /\ Column(uc.buf, q) = Column(uc'.buf, q)
         /\ q < uc.curr => uc.buf[q + 1] = uc'.buf[q + 1]
         /\ q >= 1 => uc.buf[q] = uc'.buf[q]
<1>1. /\ uc.buf \in Seq(Chars) /\ uc'.buf \in Seq(Chars) /\ uc.curr \in 0..Len(uc.buf)
      /\ uc.curr \in Nat /\ SameTo(uc.buf, uc'.buf, uc.curr)
  BY Given, Going DEF Onward
<1>2. SameTo(uc.buf, uc'.buf, q) /\ q \in 0..Len(uc.buf)
  <2>1. \A i \in 1..q : i \in 1..uc.curr
    BY <1>1
  <2>2. q \in 0..Len(uc.buf)
    BY <1>1
  <2> QED
    BY <1>1, <2>1, <2>2 DEF SameTo
<1>3. FirstOnLine(uc.buf, q) <=> FirstOnLine(uc'.buf, q)
  BY <1>2, FirstSame
<1>4. Column(uc.buf, q) = Column(uc'.buf, q)
  BY <1>1, <1>2, ColumnSame
<1>5. q < uc.curr => uc.buf[q + 1] = uc'.buf[q + 1]
  <2>1. q < uc.curr => q + 1 \in 1..uc.curr
    BY <1>1
  <2> QED
    BY <1>1, <2>1 DEF SameTo
<1>6. q >= 1 => uc.buf[q] = uc'.buf[q]
  <2>1. q >= 1 => q \in 1..uc.curr
    BY <1>1
  <2> QED
    BY <1>1, <2>1 DEF SameTo
<1> QED
  BY <1>3, <1>4, <1>5, <1>6

LEMMA ReadIndentationPlaces ==
  ASSUME LInv, OInv, ReadIndentation
  PROVE  OInv'
<1>1. /\ phase = "indentation" /\ phase' = "indentation" /\ uc' = NextCp(uc)
      /\ uc'.cp \in {" ", "\t"}
      /\ col' = IF uc'.cp = " " THEN col + 1 ELSE NextTab(col, TAB_SIZE)
      /\ UNCHANGED <<tokens, indstack, parenstack, start>>
  BY DEF ReadIndentation, Silent, inside
<1>2. Moves(uc, uc') /\ Onward
  BY <1>1, Stepped
<1>3. /\ uc'.curr = uc.curr + 1 /\ uc'.cp = uc'.buf[uc'.curr]
      /\ uc.curr < uc.end => uc'.cp = uc.buf[uc.curr + 1]
  BY <1>1, <1>2 DEF Moves, EOF
<1>4. FirstOnLine(uc.buf, uc.curr) /\ col = Column(uc.buf, uc.curr)
  <2>1. ~Ahead(uc, {"\n"})
    BY <1>1, <1>3 DEF Ahead
  <2> QED
    BY <1>1, <2>1 DEF OInv, LineMeasured
<1>5. FirstOnLine(uc'.buf, uc.curr) /\ col = Column(uc'.buf, uc.curr)
  BY <1>2, <1>4, Given, TextKept
<1>6. FirstOnLine(uc'.buf, uc'.curr)
  <2>1. uc.curr \in Nat /\ uc'.buf[uc.curr + 1] \in Blanks
    BY <1>1, <1>3, Given DEF Blanks
  <2>2. FirstOnLine(uc'.buf, uc.curr + 1)
    BY <1>5, <2>1, FirstBehindBlank
  <2> QED
    BY <1>3, <2>2
<1>7. col' = Column(uc'.buf, uc'.curr)
  <2>1. uc'.curr \in 1..Len(uc'.buf) /\ uc'.buf \in Seq(Chars) /\ uc'.curr - 1 = uc.curr
    <3>1. uc.curr \in Nat /\ uc'.buf \in Seq(Chars) /\ uc'.curr \in 0..Len(uc'.buf)
      BY <1>2, Given, Going
    <3>2. uc'.curr = uc.curr + 1
      BY <1>3
    <3> QED
      BY <3>1, <3>2
  <2>2. Column(uc'.buf, uc'.curr)
          = IF uc'.buf[uc'.curr] = "\n" THEN 0
            ELSE IF uc'.buf[uc'.curr] = " " THEN Column(uc'.buf, uc.curr) + 1
            ELSE (Column(uc'.buf, uc.curr) \div TAB_SIZE + 1) * TAB_SIZE
    BY <2>1, ColumnIs
  <2> QED
    BY <1>1, <1>3, <1>5, <2>2 DEF NextTab
<1>8. LineMeasured'
  BY <1>1, <1>6, <1>7 DEF LineMeasured
<1>9. TokenMeasured'
  BY <1>1 DEF TokenMeasured
<1>10. Placed'
  <2>1. ~Fresh
    BY <1>1 DEF Fresh
  <2> QED
    BY <1>1, <1>2, <2>1, PlacedSilent DEF OInv
<1> QED
  BY <1>8, <1>9, <1>10 DEF OInv

LEMMA SkipSpacesPlaces ==
  ASSUME LInv, OInv, SkipSpaces
  PROVE  OInv'
<1> DEFINE p == uc.curr
           cp == uc'.cp
<1>1. /\ phase \in {"pending", "spaces"} /\ uc' = NextCp(uc) /\ start' = uc'.curr - 1
      /\ UNCHANGED <<tokens, indstack, parenstack>>
      /\ phase' = CASE cp \in {" ", "\t"} -> "spaces"
                    [] cp = "#" -> "hash"
                    [] cp = "/" -> "slash"
                    [] OTHER -> "token"
  BY DEF SkipSpaces, Silent, layout
<1>2. Moves(uc, uc') /\ Onward
  BY <1>1, Stepped
<1>3. p \in Nat /\ p <= uc.end /\ uc.end \in Nat
  BY Given
<1>4. /\ FirstOnLine(uc.buf, p) <=> FirstOnLine(uc'.buf, p)
      /\ Column(uc.buf, p) = Column(uc'.buf, p)
  BY <1>2, <1>3, TextKept
<1>5. AtText => \/ Over(uc) \/ CommentAhead(uc)
                \/ PlainAhead(uc) /\ Column(uc.buf, p) = InnermostCol
  BY <1>1 DEF OInv, LineMeasured
<1>6. ASSUME AtText
      PROVE  phase = "pending"
  BY <1>1, <1>6 DEF OInv, LineMeasured
<1>7. Fresh => Over(uc) \/ (AtText /\ PlainAhead(uc) /\ ~CommentAhead(uc))
  BY <1>1 DEF Fresh
<1>8. AtText <=> FirstOnLine(uc'.buf, p) /\ ~InParentheses'
  BY <1>1, <1>4 DEF AtText, InParentheses
<1>9. CASE cp = EOF
  <2>1. Over(uc) /\ phase' = "token"
    BY <1>1, <1>2, <1>9 DEF Moves, EOF
  <2>2. LineMeasured'
    BY <2>1 DEF LineMeasured
  <2>3. TokenMeasured'
    BY <1>9, <2>1 DEF TokenMeasured, EOF
  <2>4. Fresh'
    BY <1>9, <2>1 DEF Fresh
  <2> QED
    BY <1>1, <1>2, <2>2, <2>3, <2>4, PlacedSilent DEF OInv
<1>10. CASE cp # EOF
  <2>1. /\ ~Over(uc) /\ uc'.curr = p + 1 /\ cp = uc'.buf[p + 1] /\ uc'.curr <= uc'.end
        /\ uc.end <= uc'.end
        /\ p < uc.end => cp = uc.buf[p + 1]
        /\ cp # "\r" /\ p + 1 < uc'.end =>
             \/ p + 1 < uc.end /\ uc'.buf[p + 2] = uc.buf[p + 2]
             \/ uc'.buf[p + 2] = "\n"
    <3>1. ~Over(uc)
      BY <1>2, <1>10 DEF Moves
    <3>2. /\ uc'.curr = uc.curr + 1 /\ uc'.curr <= uc'.end /\ uc.end <= uc'.end
          /\ uc'.cp = uc'.buf[uc'.curr]
          /\ uc.curr < uc.end => uc'.cp = uc.buf[uc'.curr]
          /\ uc'.cp # "\r" /\ uc'.curr < uc'.end =>
                \/ uc'.curr < uc.end /\ uc'.buf[uc'.curr + 1] = uc.buf[uc'.curr + 1]
                \/ uc'.curr = uc.end /\ uc'.buf[uc'.curr + 1] = "\n"
      BY <1>2, <1>10 DEF Moves
    <3>3. uc'.curr + 1 = p + 2
      BY <1>3, <3>2
    <3> QED
      BY <3>1, <3>2, <3>3
  <2>2. start' = p /\ start' \in Nat /\ start' < uc'.curr /\ uc'.curr = start' + 1
    <3>1. start' = uc'.curr - 1
      BY <1>1
    <3>2. uc'.curr = p + 1
      BY <2>1
    <3> HIDE DEF p
    <3> QED
      BY <1>3, <3>1, <3>2
  <2>3. cp \in {" ", "\t", "#", "\n", "\r"} => ~PlainAhead(uc)
    BY <2>1 DEF PlainAhead
  <2>4. CommentAhead(uc) =>
          \/ cp \in {"#", "\n", "\r"}
          \/ cp = "/" /\ p + 1 < uc.end /\ uc.buf[p + 2] \in {"*", "/"}
    BY <2>1 DEF CommentAhead, Ahead
  <2>5. /\ Leader' => AtText
        /\ LeaderPlaced' <=> Column(uc.buf, p) = InnermostCol
    <3>1. Leader' => AtText
      BY <1>8, <2>2 DEF Leader, LeaderIn
    <3> QED
      BY <1>1, <1>4, <2>2, <3>1 DEF LeaderPlaced, InnermostCol
  <2>6. Fresh => AtText /\ PlainAhead(uc) /\ ~CommentAhead(uc)
    BY <1>7, <2>1
  <2> HIDE DEF cp
  <2>7. CASE cp \in {" ", "\t"}
    <3>1. phase' = "spaces"
      BY <1>1, <2>7
    <3>2. ~AtText
      BY <1>5, <2>1, <2>3, <2>4, <2>7
    <3>3. ~AtText'
      <4>1. p \in Nat /\ uc'.buf[p + 1] \in Blanks
        BY <1>3, <2>1, <2>7 DEF Blanks
      <4>2. FirstOnLine(uc'.buf, p + 1) <=> FirstOnLine(uc'.buf, p)
        BY <4>1, FirstBehindBlank
      <4> QED
        BY <1>8, <2>1, <3>2, <4>2 DEF AtText
    <3>4. LineMeasured' /\ TokenMeasured'
      BY <3>1, <3>3 DEF LineMeasured, TokenMeasured
    <3> QED
      BY <1>1, <1>2, <2>6, <3>2, <3>4, PlacedSilent DEF OInv
  <2>8. CASE cp = "#"
    <3>1. phase' = "hash"
      BY <1>1, <2>8
    <3>2. ~Fresh
      BY <2>3, <2>6, <2>8
    <3>3. LineMeasured'
      BY <3>1 DEF LineMeasured
    <3>4. TokenMeasured'
      <4>1. uc'.cp # EOF /\ uc'.buf[start' + 1] = "#"
        BY <1>10, <2>1, <2>2, <2>8 DEF cp
      <4> QED
        BY <2>2, <3>1, <4>1 DEF TokenMeasured
    <3> QED
      BY <1>1, <1>2, <3>2, <3>3, <3>4, PlacedSilent DEF OInv
  <2>9. CASE cp = "/"
    <3>1. phase' = "slash"
      BY <1>1, <2>9
    <3>2. LineMeasured'
      BY <3>1 DEF LineMeasured
    <3>3. /\ Ahead(uc', {"*", "/"}) <=> p + 1 < uc'.end /\ uc'.buf[p + 2] \in {"*", "/"}
          /\ Ahead(uc', {"*", "/"}) => p + 1 < uc.end /\ uc.buf[p + 2] \in {"*", "/"}
          /\ p + 1 < uc.end /\ uc.buf[p + 2] \in {"*", "/"} => Ahead(uc', {"*", "/"})
      <4>1. uc'.curr + 1 = p + 2 /\ uc'.end \in Nat
        BY <1>2, <1>3, <2>1, Going
      <4>2. p + 1 < uc.end => p + 1 < uc'.end
        BY <1>3, <2>1, <4>1
      <4>3. p + 1 < uc.end => uc'.buf[p + 2] = uc.buf[p + 2] \/ uc'.buf[p + 2] = "\n"
        BY <2>1, <2>9, <4>2
      <4>4. p + 1 < uc.end => uc'.buf[p + 2] = uc.buf[p + 2]
        <5>1. /\ uc'.cp # EOF /\ uc'.cp # "\r" /\ uc'.curr = p + 1
          BY <1>10, <2>1, <2>9 DEF cp
        <5>2. p + 1 < uc'.end => \/ p + 1 < uc.end /\ uc'.buf[uc'.curr + 1] = uc.buf[uc'.curr + 1]
                                 \/ p + 1 = uc.end
          BY <1>2, <5>1 DEF Moves
        <5> QED
          BY <1>3, <4>1, <4>2, <5>2
      <4> QED
        BY <2>1, <2>9, <4>1, <4>2, <4>4 DEF Ahead
    <3>4. Leader' => LeaderPlaced' \/ Ahead(uc', {"*", "/"})
      <4> SUFFICES ASSUME Leader'
                   PROVE  LeaderPlaced' \/ Ahead(uc', {"*", "/"})
        OBVIOUS
      <4>1. CommentAhead(uc) \/ Column(uc.buf, p) = InnermostCol
        BY <1>5, <2>1, <2>5
      <4>2. CommentAhead(uc) => Ahead(uc', {"*", "/"})
        BY <2>4, <2>9, <3>3
      <4> QED
        BY <2>5, <4>1, <4>2
    <3>5. TokenMeasured'
      <4>1. uc'.cp # EOF /\ uc'.buf[uc'.curr] = "/"
        BY <1>10, <2>1, <2>9 DEF cp
      <4> QED
        BY <2>2, <3>1, <3>4, <4>1 DEF TokenMeasured
    <3>6. Fresh => Fresh'
      <4> SUFFICES ASSUME Fresh
                   PROVE  Fresh'
        OBVIOUS
      <4>1. FirstOnLine(uc'.buf, start') /\ ~InParentheses'
        BY <1>8, <2>2, <2>6
      <4>2. ~Ahead(uc', {"*", "/"})
        <5>1. p < uc.end /\ uc.buf[p + 1] = "/"
          BY <2>1, <2>6, <2>9 DEF PlainAhead
        <5>2. Ahead(uc, {"/"})
          BY <5>1 DEF Ahead
        <5> QED
          BY <2>6, <3>3, <5>2 DEF CommentAhead
      <4> QED
        BY <3>1, <4>1, <4>2 DEF Fresh
    <3> QED
      BY <1>1, <1>2, <3>2, <3>5, <3>6, PlacedSilent DEF OInv
  <2>10. CASE cp \notin {" ", "\t", "#", "/"}
    <3>1. phase' = "token"
      BY <1>1, <2>10
    <3>2. LineMeasured'
      BY <3>1 DEF LineMeasured
    <3>3. Leader' /\ cp \notin {"\n", "\r"} => LeaderPlaced'
      BY <1>5, <2>1, <2>4, <2>5, <2>10
    <3>4. TokenMeasured'
      <4>1. uc'.cp # EOF /\ uc'.buf[uc'.curr] = uc'.cp /\ uc'.buf[start' + 1] = uc'.cp
        BY <1>10, <2>1, <2>2 DEF cp
      <4> QED
        BY <2>2, <2>10, <3>1, <3>3, <4>1 DEF TokenMeasured, cp
    <3>5. Fresh => Fresh'
      <4> SUFFICES ASSUME Fresh
                   PROVE  Fresh'
        OBVIOUS
      <4>1. FirstOnLine(uc'.buf, start') /\ ~InParentheses'
        BY <1>8, <2>2, <2>6
      <4>2. uc'.cp \notin {"\n", "\r"}
        BY <2>3, <2>6 DEF cp
      <4> QED
        BY <3>1, <4>1, <4>2 DEF Fresh
    <3> QED
      BY <1>1, <1>2, <3>2, <3>4, <3>5, PlacedSilent DEF OInv
  <2> QED
    BY <2>7, <2>8, <2>9, <2>10
<1> QED
  BY <1>9, <1>10

LEMMA HashCommentPlaces ==
  ASSUME LInv, OInv, HashComment
  PROVE  OInv'
<1>1. /\ phase = "hash" /\ uc' = NextCp(uc)
      /\ UNCHANGED <<tokens, indstack, parenstack, start>>
      /\ phase' = IF uc'.cp \in {EOF, "\n", "\r"} THEN "token" ELSE "hash"
  BY DEF HashComment, Silent, inside, layout
<1>2. Moves(uc, uc') /\ Onward
  BY <1>1, Stepped
<1>3. start \in Nat /\ start < uc.curr /\ uc.buf[start + 1] = "#"
  BY <1>1 DEF OInv, TokenMeasured
<1>4. uc'.buf[start + 1] = "#" /\ start < uc'.curr
  <2>1. uc.curr \in Nat /\ uc'.curr \in Nat /\ uc'.curr >= uc.curr
    BY <1>2, Given, Going DEF Onward
  <2> QED
    BY <1>2, <1>3, <2>1, TextKept
<1>5. LineMeasured'
  BY <1>1 DEF LineMeasured
<1>6. TokenMeasured'
  <2>1. uc'.cp # EOF => uc'.buf[uc'.curr] = uc'.cp
    BY <1>2 DEF Moves
  <2>2. uc'.cp \in {"\n", "\r"} => uc'.buf[uc'.curr] = uc'.cp
    BY <2>1 DEF EOF
  <2>3. phase' \in {"token", "hash"} /\ (phase' = "token" => uc'.cp \in {EOF, "\n", "\r"})
        /\ (phase' = "hash" => uc'.cp # EOF)
    BY <1>1
  <2> QED
    BY <1>1, <1>3, <1>4, <2>2, <2>3 DEF TokenMeasured
<1>7. ~Fresh
  BY <1>1 DEF Fresh
<1>8. Placed'
  BY <1>1, <1>2, <1>7, PlacedSilent DEF OInv
<1> QED
  BY <1>5, <1>6, <1>8 DEF OInv

LEMMA LineCommentPlaces ==
  ASSUME LInv, OInv, LineComment
  PROVE  OInv'
<1> DEFINE n == NextCp(uc)
<1>1. /\ phase = "line comment"
      /\ UNCHANGED <<tokens, indstack, parenstack, start>>
      /\ n.cp \in {EOF, "\n", "\r"} => uc' = BackupCp(n) /\ phase' = "token"
      /\ n.cp \notin {EOF, "\n", "\r"} => uc' = n /\ phase' = "line comment"
  BY DEF LineComment, Silent, inside, layout
<1>2. Moves(uc, n) /\ UcOK(uc) /\ uc.curr \in Nat
  BY Given, CpMoves
<1>3. start \in Nat /\ start < uc.curr
  BY <1>1 DEF OInv, TokenMeasured
<1> HIDE DEF n
<1>4. LineMeasured'
  BY <1>1 DEF LineMeasured
<1>5. ~Fresh
  BY <1>1 DEF Fresh
<1>6. CASE n.cp \in {EOF, "\n", "\r"}
  <2>1. /\ uc' = BackupCp(n) /\ UcOK(uc') /\ uc'.cp = n.cp /\ uc'.buf = n.buf
        /\ uc'.end = n.end /\ uc'.curr = uc.curr
    <3>1. uc' = BackupCp(n)
      BY <1>1, <1>6
    <3>2. /\ UcOK(BackupCp(n)) /\ BackupCp(n).cp = n.cp /\ BackupCp(n).buf = n.buf
          /\ BackupCp(n).end = n.end /\ BackupCp(n).curr = uc.curr
      BY <1>2, CpGivenBack
    <3> QED
      BY <3>1, <3>2
  <2>2. Onward
    BY <1>2, <2>1 DEF Onward, Moves
  <2>3. n.cp \in {"\n", "\r"} => Ahead(uc', {n.cp})
    <3> SUFFICES ASSUME n.cp \in {"\n", "\r"}
                 PROVE  Ahead(uc', {n.cp})
      OBVIOUS
    <3>1. n.curr = uc.curr + 1 /\ n.curr <= n.end /\ n.cp = n.buf[n.curr]
      BY <1>2 DEF Moves, EOF
    <3>2. n.end \in Nat
      BY <2>1, <2>2, Going
    <3> QED
      BY <1>2, <2>1, <3>1, <3>2 DEF Ahead
  <2>4. uc'.cp = "\r" => Ahead(uc', {"\r"})
    BY <2>1, <2>3
  <2>5. TokenMeasured'
    BY <1>1, <1>3, <1>6, <2>1, <2>3, <2>4 DEF TokenMeasured
  <2>6. Placed'
    BY <1>1, <1>5, <2>2, PlacedSilent DEF OInv
  <2> QED
    BY <1>4, <2>5, <2>6 DEF OInv
<1>7. CASE n.cp \notin {EOF, "\n", "\r"}
  <2>1. uc' = n /\ Onward
    BY <1>1, <1>7, Stepped DEF n
  <2>2. TokenMeasured'
    <3>1. uc'.curr \in Nat /\ uc'.curr >= uc.curr
      BY <2>1, Going DEF Onward
    <3>2. start < uc'.curr
      BY <1>2, <1>3, <3>1
    <3> QED
      BY <1>1, <1>3, <1>7, <2>1, <3>2 DEF TokenMeasured
  <2>3. Placed'
    BY <1>1, <1>5, <2>1, PlacedSilent DEF OInv
  <2> QED
    BY <1>4, <2>2, <2>3 DEF OInv
<1> QED
  BY <1>6, <1>7

\* What the file ends with, and what is refused.
LEMMA DonePlaces ==
  ASSUME LInv, OInv, Onward, phase # "done", NEW type \in {"ENDMARKER", "ERRORTOKEN"},
         Token(type), UNCHANGED indstack
  PROVE  OInv'
<1>1. phase' = "done"
  BY DEF Token
<1>2. LineMeasured' /\ TokenMeasured' /\ Fresh'
  BY <1>1 DEF LineMeasured, TokenMeasured, Fresh
<1>3. type \in Types /\ type \notin Leading
  BY DEF Types, Leading
<1>4. Placed'
  BY <1>2, <1>3, PlacedToken DEF OInv
<1> QED
  BY <1>2, <1>4 DEF OInv

LEMMA EndOfFilePlaces ==
  ASSUME LInv, OInv, EndOfFile
  PROVE  OInv'
<1>1. phase = "token" /\ uc' = uc /\ UNCHANGED indstack
      /\ \E type \in {"ENDMARKER", "ERRORTOKEN"} : Token(type)
  BY DEF EndOfFile, layout
<1>2. Onward
  BY <1>1, Given DEF Onward, SameTo
<1> QED
  BY <1>1, <1>2, DonePlaces

LEMMA StartNamePlaces ==
  ASSUME LInv, OInv, StartName
  PROVE  OInv'
<1>1. /\ phase = "token" /\ uc.cp = "a" /\ uc' = uc /\ phase' = "name"
      /\ UNCHANGED <<tokens, indstack, parenstack, start>>
  BY DEF StartName, Silent, inside, layout
<1>2. Onward
  BY <1>1, Given DEF Onward, SameTo
<1>3. /\ start \in Nat /\ start < uc.curr /\ uc.curr = start + 1 /\ uc.buf[uc.curr] = "a"
      /\ Leader => LeaderPlaced
  BY <1>1 DEF OInv, TokenMeasured, EOF
<1>4. (Leader' <=> Leader) /\ (LeaderPlaced' <=> LeaderPlaced)
  BY <1>1 DEF Leader, LeaderIn, LeaderPlaced, InParentheses, InnermostCol
<1>5. LineMeasured'
  BY <1>1 DEF LineMeasured
<1>6. TokenMeasured'
  BY <1>1, <1>3, <1>4 DEF TokenMeasured, EOF
<1>7. Fresh => Fresh'
  <2> SUFFICES ASSUME Fresh
               PROVE  Fresh'
    OBVIOUS
  <2>1. FirstOnLine(uc.buf, start) /\ ~InParentheses
    BY <1>1 DEF Fresh, EOF
  <2>2. Leader
    BY <1>3, <2>1 DEF Leader, LeaderIn
  <2> QED
    BY <1>1, <1>4, <2>2 DEF Fresh
<1>8. Placed'
  BY <1>1, <1>2, <1>7, PlacedSilent DEF OInv
<1> QED
  BY <1>5, <1>6, <1>8 DEF OInv

\* A token being read keeps its place.
LEMMA LeaderKept ==
  ASSUME LInv, Onward, start \in Nat, start < uc.curr
  PROVE  /\ LeaderIn(uc'.buf) <=> Leader
         /\ Column(uc'.buf, start) = Column(uc.buf, start)
         /\ uc'.buf[start + 1] = uc.buf[start + 1]
         /\ uc'.curr \in Nat /\ start < uc'.curr
<1>1. uc.curr \in Nat /\ uc'.curr \in Nat /\ uc'.curr >= uc.curr
  BY Given, Going DEF Onward
<1>2. /\ FirstOnLine(uc.buf, start) <=> FirstOnLine(uc'.buf, start)
      /\ Column(uc.buf, start) = Column(uc'.buf, start)
      /\ uc.buf[start + 1] = uc'.buf[start + 1]
  BY <1>1, TextKept
<1> QED
  BY <1>1, <1>2 DEF Leader, LeaderIn

\* In a token nothing is pending and no line starts.
LEMMA InToken ==
  ASSUME LInv, phase \notin {"nextline", "pending"}
  PROVE  pendin = 0 /\ atbol = FALSE
BY DEF LInv, BetweenLines, TypeOK

\* Behind a token no line's text starts.
LEMMA TokenBehind ==
  ASSUME LInv, Onward, phase \notin {"nextline", "pending"}, phase' = "nextline",
         atbol' = atbol, NEW c, c \notin Blanks \cup {"\n"}, uc'.curr >= 1,
         uc'.buf[uc'.curr] = c
  PROVE  LineMeasured' /\ TokenMeasured'
<1>1. atbol' = FALSE
  BY InToken
<1>2. uc'.curr \in Nat
  BY Going
<1>3. ~FirstOnLine(uc'.buf, uc'.curr)
  BY <1>2, NotFirst
<1>4. ~AtText'
  BY <1>3 DEF AtText
<1> QED
  BY <1>1, <1>4 DEF LineMeasured, TokenMeasured

LEMMA NamePlaces ==
  ASSUME LInv, OInv, Name
  PROVE  OInv'
<1> DEFINE n == NextCp(uc)
<1>1. /\ phase = "name" /\ UNCHANGED <<atbol, indstack, parenstack, start>>
      /\ \/ n.cp = "a" /\ uc' = n /\ phase' = "name" /\ UNCHANGED tokens
         \/ n.cp # "a" /\ uc' = BackupCp(n) /\ Token("NAME") /\ phase' = "nextline"
  BY DEF Name, Silent, Token, inside, layout
<1>2. Moves(uc, n) /\ UcOK(uc) /\ uc.curr \in Nat
  BY Given, CpMoves
<1>3. /\ start \in Nat /\ start < uc.curr /\ uc.buf[uc.curr] = "a"
      /\ Leader => LeaderPlaced
  BY <1>1 DEF OInv, TokenMeasured
<1>4. Fresh => Leader
  BY <1>1 DEF Fresh
<1> HIDE DEF n
<1>5. CASE n.cp = "a" /\ uc' = n /\ phase' = "name" /\ UNCHANGED tokens
  <2>1. Moves(uc, uc') /\ Onward
    BY <1>5, Stepped DEF n
  <2>2. /\ LeaderIn(uc'.buf) <=> Leader
        /\ Column(uc'.buf, start) = Column(uc.buf, start)
        /\ start < uc'.curr
    BY <1>3, <2>1, LeaderKept
  <2>3. (Leader' <=> Leader) /\ (LeaderPlaced' <=> LeaderPlaced)
    BY <1>1, <2>2 DEF Leader, LeaderIn, LeaderPlaced, InParentheses, InnermostCol
  <2>4. uc'.cp = "a" /\ uc'.cp # EOF /\ uc'.buf[uc'.curr] = "a"
    BY <1>5, <2>1 DEF Moves, EOF
  <2>5. LineMeasured'
    BY <1>5 DEF LineMeasured
  <2>6. TokenMeasured'
    BY <1>1, <1>3, <1>5, <2>2, <2>3, <2>4 DEF TokenMeasured
  <2>7. Fresh => Fresh'
    BY <1>4, <1>5, <2>3 DEF Fresh
  <2>8. Placed'
    BY <1>1, <1>5, <2>1, <2>7, PlacedSilent DEF OInv
  <2> QED
    BY <2>5, <2>6, <2>8 DEF OInv
<1>6. CASE n.cp # "a" /\ uc' = BackupCp(n) /\ Token("NAME") /\ phase' = "nextline"
  <2>1. UcOK(uc') /\ uc'.buf = n.buf /\ uc'.curr = uc.curr
    <3>1. UcOK(BackupCp(n)) /\ BackupCp(n).buf = n.buf /\ BackupCp(n).curr = uc.curr
      BY <1>2, CpGivenBack
    <3> QED
      BY <1>6, <3>1
  <2>2. Onward
    BY <1>2, <2>1 DEF Onward, Moves
  <2>3. /\ LeaderIn(uc'.buf) <=> Leader
        /\ Column(uc'.buf, start) = Column(uc.buf, start)
        /\ start < uc'.curr
    BY <1>3, <2>2, LeaderKept
  <2>4. uc'.curr >= 1 /\ uc'.buf[uc'.curr] = "a"
    BY <1>2, <1>3, <2>1, <2>2, TextKept
  <2>5. LineMeasured' /\ TokenMeasured'
    BY <1>1, <1>6, <2>2, <2>4, TokenBehind DEF Blanks
  <2>6. LeaderIn(uc'.buf) => Column(uc'.buf, start) = InnermostCol /\ pendin = 0
    BY <1>1, <1>3, <2>3, InToken DEF LeaderPlaced
  <2>7. "NAME" \in Types /\ "NAME" \in Leading
    BY DEF Types, Leading
  <2>8. Placed'
    BY <1>1, <1>3, <1>4, <1>6, <2>2, <2>3, <2>6, <2>7, PlacedToken DEF OInv
  <2> QED
    BY <2>5, <2>8 DEF OInv
<1> QED
  BY <1>1, <1>5, <1>6

LEMMA StringPlaces ==
  ASSUME LInv, OInv, String
  PROVE  OInv'
<1>1. /\ phase = "string" /\ uc' = NextCp(uc)
      /\ UNCHANGED <<atbol, indstack, parenstack, start>>
      /\ \/ Token("ERRORTOKEN")
         \/ uc'.cp = "quote" /\ Token("STRING") /\ phase' = "nextline"
         \/ uc'.cp # EOF /\ phase' = "string" /\ UNCHANGED tokens
  BY DEF String, Silent, Token, inside, layout
<1>2. Moves(uc, uc') /\ Onward
  BY <1>1, Stepped
<1>3. /\ start \in Nat /\ start < uc.curr
      /\ Leader => LeaderPlaced
  BY <1>1 DEF OInv, TokenMeasured
<1>4. Fresh => Leader
  BY <1>1 DEF Fresh
<1>5. /\ LeaderIn(uc'.buf) <=> Leader
      /\ Column(uc'.buf, start) = Column(uc.buf, start)
      /\ start < uc'.curr /\ uc'.curr \in Nat
  BY <1>2, <1>3, LeaderKept
<1>6. CASE Token("ERRORTOKEN")
  BY <1>1, <1>2, <1>6, DonePlaces
<1>7. CASE uc'.cp = "quote" /\ Token("STRING") /\ phase' = "nextline"
  <2>1. uc'.curr >= 1 /\ uc'.buf[uc'.curr] = "quote"
    <3>1. uc'.buf[uc'.curr] = uc'.cp
      BY <1>2, <1>7 DEF Moves, EOF
    <3> QED
      BY <1>3, <1>5, <1>7, <3>1
  <2>2. LineMeasured' /\ TokenMeasured'
    BY <1>1, <1>2, <1>7, <2>1, TokenBehind DEF Blanks
  <2>3. LeaderIn(uc'.buf) => Column(uc'.buf, start) = InnermostCol /\ pendin = 0
    BY <1>1, <1>3, <1>5, InToken DEF LeaderPlaced
  <2>4. "STRING" \in Types /\ "STRING" \in Leading
    BY DEF Types, Leading
  <2>5. Placed'
    BY <1>1, <1>2, <1>3, <1>4, <1>5, <1>7, <2>3, <2>4, PlacedToken DEF OInv
  <2> QED
    BY <2>2, <2>5 DEF OInv
<1>8. CASE uc'.cp # EOF /\ phase' = "string" /\ UNCHANGED tokens
  <2>1. (Leader' <=> Leader) /\ (LeaderPlaced' <=> LeaderPlaced)
    BY <1>1, <1>5 DEF Leader, LeaderIn, LeaderPlaced, InParentheses, InnermostCol
  <2>2. LineMeasured'
    BY <1>8 DEF LineMeasured
  <2>3. TokenMeasured'
    BY <1>1, <1>3, <1>5, <1>8, <2>1 DEF TokenMeasured
  <2>4. Fresh => Fresh'
    BY <1>4, <1>8, <2>1 DEF Fresh
  <2>5. Placed'
    BY <1>1, <1>2, <1>8, <2>4, PlacedSilent DEF OInv
  <2> QED
    BY <2>2, <2>3, <2>5 DEF OInv
<1> QED
  BY <1>1, <1>6, <1>7, <1>8

\* What a CR is followed by.
LEMMA BehindReturn ==
  ASSUME LInv, OInv, phase = "token", uc.cp = "\r", NEW n, n = NextCp(uc), n.cp # "\r"
  PROVE  /\ start \in Nat /\ start < uc.curr
         /\ uc.buf[start + 1] \in {"#", "\r"} /\ uc.buf[uc.curr] = "\r" /\ ~Leader
<1>1. /\ start \in Nat /\ start < uc.curr
      /\ uc.buf[uc.curr] = "\r" \/ Ahead(uc, {"\r"})
      /\ uc.buf[start + 1] \in {"#", "\r"} \/ Ahead(uc, {"\r"})
  <2>1. uc.cp # EOF /\ uc.cp \in {"\n", "\r"}
    BY DEF EOF
  <2> QED
    BY <2>1 DEF OInv, TokenMeasured
<1>2. ~Ahead(uc, {"\r"})
  <2> SUFFICES ASSUME Ahead(uc, {"\r"})
               PROVE  FALSE
    OBVIOUS
  <2>1. Moves(uc, n) /\ uc.curr < uc.end /\ uc.buf[uc.curr + 1] = "\r"
    BY Given, CpMoves DEF Ahead
  <2>2. n.cp # EOF
    BY <2>1, Given DEF Moves, Over
  <2>3. n.cp = uc.buf[n.curr] /\ n.curr = uc.curr + 1
    BY <2>1, <2>2 DEF Moves
  <2> QED
    BY <2>1, <2>3
<1> QED
  BY <1>1, <1>2 DEF Leader, LeaderIn

LEMMA NewLinePlaces ==
  ASSUME LInv, OInv, NewLine
  PROVE  OInv'
<1>1. /\ phase = "token" /\ uc' = AfterCarriageReturn /\ uc'.cp = "\n"
      /\ atbol' = TRUE /\ phase' = "nextline" /\ UNCHANGED <<indstack, parenstack, start>>
      /\ UNCHANGED tokens \/ Token("NEWLINE")
  BY DEF NewLine, Silent, Token, inside, layout
<1>2. ~Fresh
  <2>1. uc.cp \in {"\n", "\r"}
    BY <1>1 DEF AfterCarriageReturn
  <2> QED
    BY <1>1, <2>1 DEF Fresh, EOF
<1>3. Onward /\ (Ahead(uc', {"\n"}) \/ uc'.buf[uc'.curr] = "\n")
  <2>1. CASE uc.cp = "\r"
    <3>1. uc' = NextCp(uc)
      BY <1>1, <2>1 DEF AfterCarriageReturn
    <3>2. Moves(uc, uc') /\ Onward
      BY <3>1, Stepped
    <3> QED
      BY <1>1, <3>2 DEF Moves, EOF
  <2>2. CASE uc.cp # "\r"
    <3>1. uc' = uc /\ uc.cp = "\n"
      BY <1>1, <2>2 DEF AfterCarriageReturn
    <3>2. Onward
      BY <3>1, Given DEF Onward, SameTo
    <3>3. uc.buf[uc.curr] = "\n" \/ Ahead(uc, {"\n"})
      BY <1>1, <3>1 DEF OInv, TokenMeasured
    <3> QED
      BY <3>1, <3>2, <3>3
  <2> QED
    BY <2>1, <2>2
<1>4. LineMeasured'
  BY <1>1, <1>3 DEF LineMeasured
<1>5. TokenMeasured'
  BY <1>1 DEF TokenMeasured
<1>6. Placed'
  <2>1. "NEWLINE" \in Types /\ "NEWLINE" \notin Leading
    BY DEF Types, Leading
  <2>2. CASE UNCHANGED tokens
    BY <1>1, <1>2, <1>3, <2>2, PlacedSilent DEF OInv
  <2>3. CASE Token("NEWLINE")
    BY <1>1, <1>2, <1>3, <2>1, <2>3, PlacedToken DEF OInv
  <2> QED
    BY <1>1, <2>2, <2>3
<1> QED
  BY <1>4, <1>5, <1>6 DEF OInv

LEMMA StartStringPlaces ==
  ASSUME LInv, OInv, StartString
  PROVE  OInv'
<1>1. /\ phase = "token" /\ uc' = AfterCarriageReturn /\ uc'.cp = "quote"
      /\ phase' = "string" /\ UNCHANGED <<tokens, indstack, parenstack, start>>
  BY DEF StartString, Silent, inside, layout
<1>2. /\ Onward /\ start \in Nat /\ start < uc.curr
      /\ Leader => LeaderPlaced
      /\ Fresh => Leader
  <2>1. CASE uc.cp = "\r"
    <3>1. uc' = NextCp(uc) /\ uc'.cp # "\r"
      BY <1>1, <2>1 DEF AfterCarriageReturn
    <3>2. Onward
      BY <3>1, Stepped
    <3>3. start \in Nat /\ start < uc.curr /\ ~Leader
      BY <1>1, <2>1, <3>1, BehindReturn
    <3>4. ~Fresh
      BY <1>1, <2>1 DEF Fresh, EOF
    <3> QED
      BY <3>2, <3>3, <3>4
  <2>2. CASE uc.cp # "\r"
    <3>1. uc' = uc /\ uc.cp = "quote"
      BY <1>1, <2>2 DEF AfterCarriageReturn
    <3>2. Onward
      BY <3>1, Given DEF Onward, SameTo
    <3>3. /\ start \in Nat /\ start < uc.curr
          /\ uc.curr = start + 1 /\ uc.buf[uc.curr] = "quote"
          /\ Leader => LeaderPlaced
      BY <1>1, <3>1 DEF OInv, TokenMeasured, EOF
    <3>4. Fresh => Leader
      <4>1. Fresh => FirstOnLine(uc.buf, start) /\ ~InParentheses
        BY <1>1, <3>1 DEF Fresh, EOF
      <4> QED
        BY <3>3, <4>1 DEF Leader, LeaderIn
    <3> QED
      BY <3>2, <3>3, <3>4
  <2> QED
    BY <2>1, <2>2
<1>3. /\ LeaderIn(uc'.buf) <=> Leader
      /\ Column(uc'.buf, start) = Column(uc.buf, start)
      /\ start < uc'.curr
  BY <1>2, LeaderKept
<1>4. (Leader' <=> Leader) /\ (LeaderPlaced' <=> LeaderPlaced)
  BY <1>1, <1>3 DEF Leader, LeaderIn, LeaderPlaced, InParentheses, InnermostCol
<1>5. LineMeasured'
  BY <1>1 DEF LineMeasured
<1>6. TokenMeasured'
  BY <1>1, <1>2, <1>3, <1>4 DEF TokenMeasured, EOF
<1>7. Fresh => Fresh'
  BY <1>1, <1>2, <1>4 DEF Fresh
<1>8. Placed'
  BY <1>1, <1>2, <1>7, PlacedSilent DEF OInv
<1> QED
  BY <1>5, <1>6, <1>8 DEF OInv

LEMMA SameThrough ==
  ASSUME NEW a, NEW b, NEW c, NEW p \in Nat, NEW q \in Nat, p <= q,
         SameTo(a, b, p), SameTo(b, c, q)
  PROVE  SameTo(a, c, p)
<1>1. \A i \in 1..p : i \in 1..q
  OBVIOUS
<1> QED
  BY <1>1 DEF SameTo

LEMMA SlashPlaces ==
  ASSUME LInv, OInv, Slash
  PROVE  OInv'
<1> DEFINE n == NextCp(uc)
<1>1. /\ phase = "slash" /\ UNCHANGED <<tokens, indstack, parenstack, start>>
      /\ \/ n.cp = "/" /\ uc' = n /\ phase' = "line comment"
         \/ n.cp = "*" /\ uc' = n /\ phase' = "block comment"
         \/ n.cp = EOF /\ uc' = BackupCp(n) /\ phase' = "token"
         \/ n.cp \notin {"/", "*", EOF} /\ uc' = Reread(n) /\ phase' = "token"
  BY DEF Slash, Silent, layout
<1>2. Moves(uc, n) /\ UcOK(uc) /\ uc.curr \in Nat
  BY Given, CpMoves
<1>3. /\ start \in Nat /\ start < uc.curr /\ uc.curr = start + 1 /\ uc.buf[uc.curr] = "/"
      /\ Leader => LeaderPlaced \/ Ahead(uc, {"*", "/"})
  BY <1>1 DEF OInv, TokenMeasured
<1>4. Fresh => FirstOnLine(uc.buf, start) /\ ~InParentheses /\ ~Ahead(uc, {"*", "/"})
  BY <1>1 DEF Fresh
<1>5. n.cp \in {"*", "/"} <=> Ahead(uc, {"*", "/"})
  <2>1. ASSUME Ahead(uc, {"*", "/"})
        PROVE  n.cp \in {"*", "/"}
    <3>1. uc.curr < uc.end /\ uc.buf[uc.curr + 1] \in {"*", "/"} /\ uc.end \in Nat
      BY <2>1, Given DEF Ahead
    <3>2. n.cp # EOF
      BY <1>2, <3>1 DEF Moves, Over
    <3> QED
      BY <1>2, <3>1, <3>2 DEF Moves
  <2>2. ASSUME n.cp \in {"*", "/"}
        PROVE  Ahead(uc, {"*", "/"})
    <3>1. n.cp # EOF /\ n.cp # "\n"
      BY <2>2 DEF EOF
    <3>2. uc.curr # uc.end
      BY <1>2, <3>1 DEF Moves
    <3>3. uc.curr < uc.end
      BY <3>2, Given
    <3>4. n.cp = uc.buf[uc.curr + 1]
      BY <1>2, <3>1, <3>3 DEF Moves
    <3> QED
      BY <2>2, <3>3, <3>4 DEF Ahead
  <2> QED
    BY <2>1, <2>2
<1>6. LineMeasured'
  BY <1>1 DEF LineMeasured
<1>7. CASE n.cp \in {"*", "/"}
  <2>1. uc' = n /\ phase' \in {"line comment", "block comment"} /\ n.cp # EOF
    BY <1>1, <1>7 DEF EOF
  <2>2. Onward
    BY <2>1, Stepped DEF n
  <2>3. start < uc'.curr
    BY <1>3, <2>2, LeaderKept
  <2> HIDE DEF n
  <2>4. TokenMeasured'
    BY <1>1, <1>3, <2>1, <2>3 DEF TokenMeasured
  <2>5. ~Fresh
    BY <1>4, <1>5, <1>7
  <2>6. Placed'
    BY <1>1, <2>2, <2>5, PlacedSilent DEF OInv
  <2> QED
    BY <1>6, <2>4, <2>6 DEF OInv
<1> HIDE DEF n
<1>8. CASE n.cp = EOF
  <2>1. uc' = BackupCp(n) /\ phase' = "token"
    BY <1>1, <1>8 DEF EOF
  <2>2. /\ UcOK(BackupCp(n)) /\ BackupCp(n).cp = EOF /\ BackupCp(n).buf = n.buf
        /\ BackupCp(n).curr = uc.curr
    BY <1>2, <1>8, CpGivenBack
  <2>3. Onward
    BY <1>2, <2>1, <2>2 DEF Onward, Moves
  <2>4. TokenMeasured' /\ Fresh'
    BY <2>1, <2>2 DEF TokenMeasured, Fresh, EOF
  <2>5. Placed'
    BY <1>1, <2>3, <2>4, PlacedSilent DEF OInv
  <2> QED
    BY <1>6, <2>4, <2>5 DEF OInv
<1>9. CASE n.cp \notin {"/", "*", EOF}
  <2>1. uc' = Reread(n) /\ phase' = "token"
    BY <1>1, <1>9
  <2>2. uc.curr >= 1
    BY <1>2, <1>3
  <2>3. /\ UcOK(uc') /\ SameTo(uc.buf, uc'.buf, uc.curr) /\ uc'.curr = uc.curr
        /\ uc'.cp = "/" /\ uc'.buf[uc.curr] = "/"
    <3>1. /\ UcOK(Reread(n)) /\ SameTo(uc.buf, Reread(n).buf, uc.curr)
          /\ Reread(n).curr = uc.curr
          /\ Reread(n).cp = uc.buf[uc.curr] /\ Reread(n).cp = Reread(n).buf[uc.curr]
      BY <1>2, <1>9, <2>2, CpReadAgain
    <3> QED
      BY <1>3, <2>1, <3>1
  <2>4. Onward
    BY <1>2, <2>3 DEF Onward
  <2>5. /\ LeaderIn(uc'.buf) <=> Leader
        /\ Column(uc'.buf, start) = Column(uc.buf, start)
        /\ FirstOnLine(uc.buf, start) <=> FirstOnLine(uc'.buf, start)
    BY <1>2, <1>3, <2>4, LeaderKept, TextKept
  <2>6. (Leader' <=> Leader) /\ (LeaderPlaced' <=> LeaderPlaced)
    BY <1>1, <2>5 DEF Leader, LeaderIn, LeaderPlaced, InParentheses, InnermostCol
  <2>7. Leader => LeaderPlaced
    BY <1>3, <1>5, <1>9
  <2>8. TokenMeasured'
    BY <1>1, <1>3, <2>1, <2>3, <2>6, <2>7 DEF TokenMeasured, EOF
  <2>9. Fresh => Fresh'
    <3> SUFFICES ASSUME Fresh
                 PROVE  Fresh'
      OBVIOUS
    <3>1. FirstOnLine(uc'.buf, start') /\ ~InParentheses'
      BY <1>1, <1>4, <2>5 DEF InParentheses
    <3> QED
      BY <2>1, <2>3, <3>1 DEF Fresh
  <2>10. Placed'
    BY <1>1, <2>4, <2>9, PlacedSilent DEF OInv
  <2> QED
    BY <1>6, <2>8, <2>10 DEF OInv
<1> QED
  BY <1>7, <1>8, <1>9

LEMMA BlockCommentPlaces ==
  ASSUME LInv, OInv, BlockComment
  PROVE  OInv'
<1> DEFINE n == NextCp(uc)
           after == NextCp(n)
<1>1. /\ phase = "block comment" /\ UNCHANGED <<atbol, indstack, parenstack, start>>
      /\ \/ uc' = n /\ phase' = "block comment" /\ UNCHANGED tokens
         \/ uc' = n /\ Token("ERRORTOKEN")
         \/ n.cp = "/" /\ uc' = BackupCp(after) /\ phase' = "nextline" /\ UNCHANGED tokens
         \/ uc' = after /\ Token("ERRORTOKEN")
  BY DEF BlockComment, Silent, layout
<1>2. Moves(uc, n) /\ UcOK(uc) /\ UcOK(n) /\ uc.curr \in Nat /\ n.curr \in Nat
  <2>1. Moves(uc, n) /\ UcOK(uc) /\ uc.curr \in Nat
    BY Given, CpMoves
  <2> QED
    BY <2>1 DEF Moves, UcOK, Ucs
<1> HIDE DEF n
<1>3. Moves(n, after)
  BY <1>2, CpMoves
<1> HIDE DEF after
<1>4. n.curr >= uc.curr /\ after.curr \in Nat /\ after.curr >= n.curr
  <2>1. n.curr >= uc.curr
    BY <1>2 DEF Moves
  <2>2. after.curr = n.curr \/ after.curr = n.curr + 1
    BY <1>3 DEF Moves
  <2>3. after.curr >= n.curr /\ after.curr \in Nat
    BY <1>2, <2>2
  <2> QED
    BY <2>1, <2>3
<1>5. SameTo(uc.buf, after.buf, uc.curr) /\ SameTo(uc.buf, n.buf, uc.curr)
      /\ SameTo(n.buf, after.buf, n.curr)
  <2>1. SameTo(uc.buf, n.buf, uc.curr) /\ SameTo(n.buf, after.buf, n.curr)
    BY <1>2, <1>3 DEF Moves
  <2> QED
    BY <1>2, <1>4, <2>1, SameThrough
<1>6. ~Fresh
  BY <1>1 DEF Fresh
<1>7. uc' = n => Onward
  BY <1>2, <1>4, <1>5 DEF Onward
<1>8. CASE uc' = n /\ phase' = "block comment" /\ UNCHANGED tokens
  <2>1. LineMeasured' /\ TokenMeasured'
    BY <1>8 DEF LineMeasured, TokenMeasured
  <2>2. Placed'
    BY <1>1, <1>6, <1>7, <1>8, PlacedSilent DEF OInv
  <2> QED
    BY <2>1, <2>2 DEF OInv
<1>9. CASE uc' = n /\ Token("ERRORTOKEN")
  BY <1>1, <1>7, <1>9, DonePlaces
<1>10. CASE n.cp = "/" /\ uc' = BackupCp(after) /\ phase' = "nextline" /\ UNCHANGED tokens
  <2>1. UcOK(uc') /\ uc'.buf = after.buf /\ uc'.curr = n.curr
    <3>1. /\ UcOK(BackupCp(after)) /\ BackupCp(after).buf = after.buf
          /\ BackupCp(after).curr = n.curr
      BY <1>2, <1>3, CpGivenBack
    <3> QED
      BY <1>10, <3>1
  <2>2. Onward
    BY <1>4, <1>5, <2>1 DEF Onward
  <2>3. uc'.curr >= 1 /\ uc'.buf[uc'.curr] = "/"
    <3>1. n.curr = uc.curr + 1 /\ n.buf[n.curr] = "/"
      BY <1>2, <1>10 DEF Moves, EOF
    <3>2. n.curr \in 1..n.curr
      BY <1>2, <3>1
    <3>3. n.buf[n.curr] = after.buf[n.curr]
      BY <1>5, <3>2 DEF SameTo
    <3> QED
      BY <1>2, <2>1, <3>1, <3>3
  <2>4. LineMeasured' /\ TokenMeasured'
    BY <1>1, <1>10, <2>2, <2>3, TokenBehind DEF Blanks
  <2>5. Placed'
    BY <1>1, <1>6, <1>10, <2>2, PlacedSilent DEF OInv
  <2> QED
    BY <2>4, <2>5 DEF OInv
<1>11. CASE uc' = after /\ Token("ERRORTOKEN")
  <2>1. UcOK(after)
    BY <1>3 DEF Moves
  <2>2. Onward
    BY <1>2, <1>4, <1>5, <1>11, <2>1 DEF Onward
  <2> QED
    BY <1>1, <1>11, <2>2, DonePlaces
<1> QED
  BY <1>1, <1>8, <1>9, <1>10, <1>11

\* An operator's place is that of the code point it is, or behind a CR.
LEMMA OperatorReads ==
  ASSUME LInv, OInv, Operator
  PROVE  /\ Onward /\ start \in Nat /\ start < uc.curr
         /\ uc'.cp \notin {EOF, "\r"} =>
              /\ Leader => LeaderPlaced
              /\ Fresh => Leader
              /\ ~FirstOnLine(uc'.buf, uc'.curr)
<1> DEFINE a == AfterCarriageReturn
           n == NextCp(a)
<1>1. /\ phase = "token" /\ uc.cp \notin {EOF, "a"} /\ a.cp \notin {"\n", "quote"}
      /\ uc' = Reread(n)
  BY DEF Operator
<1>2. UcOK(uc) /\ uc.curr \in Nat
  BY Given
<1>3. start \in Nat /\ start < uc.curr /\ uc.curr >= 1
  <2>1. start \in Nat /\ start < uc.curr
    BY <1>1 DEF OInv, TokenMeasured
  <2> QED
    BY <1>2, <2>1
<1>4. CASE uc.cp # "\r"
  <2>1. a = uc /\ uc.cp \notin {EOF, "\n", "\r"}
    BY <1>1, <1>4 DEF AfterCarriageReturn
  <2>2. Moves(uc, n) /\ uc' = Reread(n)
    BY <1>1, <1>2, <2>1, CpMoves
  <2> HIDE DEF a, n
  <2>3. /\ UcOK(uc') /\ SameTo(uc.buf, uc'.buf, uc.curr) /\ uc'.curr = uc.curr
        /\ uc'.cp = EOF \/ uc'.cp = uc.buf[uc.curr]
    BY <1>2, <1>3, <2>2, CpReadAgain
  <2>4. Onward
    BY <1>2, <2>3 DEF Onward
  <2>5. /\ uc.cp \notin {" ", "\t", "#"} /\ uc.curr = start + 1 /\ uc.buf[uc.curr] = uc.cp
        /\ Leader => LeaderPlaced
    BY <1>1, <2>1 DEF OInv, TokenMeasured
  <2>6. Fresh => Leader
    <3>1. Fresh => FirstOnLine(uc.buf, start) /\ ~InParentheses
      BY <1>1, <2>1 DEF Fresh
    <3> QED
      BY <2>1, <2>5, <3>1 DEF Leader, LeaderIn
  <2>7. ~FirstOnLine(uc'.buf, uc'.curr)
    <3>1. uc'.buf[uc'.curr] = uc.cp
      <4>1. uc'.buf[uc.curr] = uc.buf[uc.curr]
        BY <1>2, <1>3, <2>4, TextKept
      <4> QED
        BY <2>3, <2>5, <4>1
    <3>2. uc.cp \notin Blanks \cup {"\n"}
      BY <2>1, <2>5 DEF Blanks
    <3>3. uc'.curr \in Nat /\ uc'.curr >= 1
      BY <1>2, <1>3, <2>3
    <3> QED
      BY <3>1, <3>2, <3>3, NotFirst
  <2> QED
    BY <1>3, <2>3, <2>4, <2>5, <2>6, <2>7
<1>5. CASE uc.cp = "\r"
  <2>1. a = NextCp(uc)
    BY <1>5 DEF AfterCarriageReturn
  <2>2. Moves(uc, a)
    BY <1>2, <2>1, CpMoves
  <2>3. UcOK(a) /\ a.curr \in Nat /\ SameTo(uc.buf, a.buf, uc.curr)
    BY <2>2 DEF Moves, UcOK, Ucs
  <2>4. a.curr >= uc.curr /\ a.curr >= 1
    BY <1>2, <1>3, <2>2, <2>3 DEF Moves
  <2>5. a.cp # "\r" =>
          uc.buf[start + 1] \in {"#", "\r"} /\ uc.buf[uc.curr] = "\r" /\ ~Leader
    BY <1>1, <1>5, <2>1, BehindReturn
  <2> HIDE DEF a
  <2>6. Moves(a, n)
    BY <2>3, CpMoves
  <2>7. a.cp = EOF => n.cp = EOF
    BY <2>2, <2>6 DEF Moves
  <2> HIDE DEF n
  <2>8. /\ UcOK(uc') /\ SameTo(a.buf, uc'.buf, a.curr) /\ uc'.curr = a.curr
        /\ n.cp = EOF => uc'.cp = EOF
        /\ n.cp # EOF => uc'.cp = a.buf[a.curr] /\ uc'.cp = uc'.buf[a.curr]
    BY <1>1, <2>3, <2>4, <2>6, CpReadAgain
  <2>9. Onward
    <3>1. SameTo(uc.buf, uc'.buf, uc.curr)
      BY <1>2, <2>3, <2>4, <2>8, SameThrough
    <3> QED
      BY <1>2, <2>4, <2>8, <3>1 DEF Onward
  <2>10. ~Fresh
    BY <1>1, <1>5 DEF Fresh, EOF
  <2>11. a.cp # EOF => a.curr = uc.curr + 1 /\ a.cp = a.buf[a.curr]
    BY <2>2 DEF Moves
  <2>12. ASSUME uc'.cp \notin {EOF, "\r"}
         PROVE  ~Leader /\ ~FirstOnLine(uc'.buf, uc'.curr)
    <3>1. a.cp # EOF /\ uc'.cp = a.cp /\ uc'.buf[uc.curr + 1] = a.cp /\ uc'.curr = uc.curr + 1
      BY <2>7, <2>8, <2>11, <2>12
    <3>2. ~Leader /\ uc.buf[uc.curr] = "\r"
      BY <2>5, <2>12, <3>1
    <3>3. ~FirstOnLine(uc'.buf, uc.curr)
      <4>1. uc'.buf[uc.curr] = "\r"
        BY <1>2, <1>3, <2>9, <3>2, TextKept
      <4>2. "\r" \notin Blanks \cup {"\n"}
        BY DEF Blanks
      <4> QED
        BY <1>2, <1>3, <4>1, <4>2, NotFirst
    <3>4. CASE a.cp \in Blanks
      <4>1. FirstOnLine(uc'.buf, uc.curr + 1) <=> FirstOnLine(uc'.buf, uc.curr)
        BY <1>2, <3>1, <3>4, FirstBehindBlank
      <4> QED
        BY <3>1, <3>2, <3>3, <4>1
    <3>5. CASE a.cp \notin Blanks
      <4>1. a.cp \notin Blanks \cup {"\n"}
        BY <1>1, <3>5
      <4>2. uc.curr + 1 \in Nat /\ uc.curr + 1 >= 1
        BY <1>2
      <4>3. ~FirstOnLine(uc'.buf, uc.curr + 1)
        BY <3>1, <4>1, <4>2, NotFirst
      <4> QED
        BY <3>1, <3>2, <4>3
    <3> QED
      BY <3>4, <3>5
  <2> QED
    BY <1>3, <2>9, <2>10, <2>12
<1> QED
  BY <1>4, <1>5

LEMMA OperatorPlaces ==
  ASSUME LInv, OInv, Operator
  PROVE  OInv'
<1>1. /\ phase = "token" /\ UNCHANGED <<atbol, indstack, start>>
      /\ \/ Token("ERRORTOKEN")
         \/ uc'.cp = "(" /\ Token("LPAR") /\ phase' = "nextline"
         \/ uc'.cp = ")" /\ InParentheses /\ Token("RPAR") /\ phase' = "nextline"
         \/ uc'.cp \notin {EOF, "\r"} /\ Token("OP") /\ phase' = "nextline"
  BY DEF Operator, Token, layout, InParentheses
<1>2. /\ Onward /\ start \in Nat /\ start < uc.curr
      /\ uc'.cp \notin {EOF, "\r"} =>
              /\ Leader => LeaderPlaced
              /\ Fresh => Leader
              /\ ~FirstOnLine(uc'.buf, uc'.curr)
  BY OperatorReads
<1>3. /\ LeaderIn(uc'.buf) <=> Leader
      /\ Column(uc'.buf, start) = Column(uc.buf, start)
      /\ start < uc'.curr
  BY <1>2, LeaderKept
<1>4. pendin = 0 /\ atbol = FALSE
  BY <1>1, InToken
<1>5. CASE Token("ERRORTOKEN")
  BY <1>1, <1>2, <1>5, DonePlaces
<1>6. CASE /\ uc'.cp \notin {EOF, "\r"} /\ phase' = "nextline"
           /\ \/ Token("LPAR") \/ Token("OP")
              \/ Token("RPAR") /\ InParentheses
  <2>1. LineMeasured' /\ TokenMeasured'
    BY <1>1, <1>2, <1>4, <1>6 DEF LineMeasured, TokenMeasured, AtText
  <2>2. LeaderIn(uc'.buf) => Column(uc'.buf, start) = InnermostCol /\ pendin = 0
    BY <1>2, <1>3, <1>4, <1>6 DEF LeaderPlaced
  <2>3. Fresh => LeaderIn(uc'.buf)
    BY <1>2, <1>3, <1>6
  <2>4. /\ "LPAR" \in Types /\ "OP" \in Types /\ "RPAR" \in Types
        /\ "LPAR" \in Leading /\ "OP" \in Leading /\ "RPAR" \notin Leading
    BY DEF Types, Leading
  <2>5. CASE Token("LPAR")
    BY <1>1, <1>2, <1>3, <2>1, <2>2, <2>3, <2>4, <2>5, PlacedToken DEF OInv
  <2>6. CASE Token("OP")
    BY <1>1, <1>2, <1>3, <2>1, <2>2, <2>3, <2>4, <2>6, PlacedToken DEF OInv
  <2>7. CASE Token("RPAR") /\ InParentheses
    <3>1. ~Fresh
      BY <2>3, <2>7 DEF LeaderIn
    <3> QED
      BY <1>1, <1>2, <2>1, <2>4, <2>7, <3>1, PlacedToken DEF OInv
  <2> QED
    BY <1>6, <2>5, <2>6, <2>7
<1> QED
  BY <1>1, <1>5, <1>6 DEF EOF


\* What comes next when the indentation was read: the code point that ended it, or
\* nothing.
LEMMA IndentationReads ==
  ASSUME LInv, OInv, EndIndentation
  PROVE  /\ Onward
         /\ blankline' => CommentAhead(uc')
         /\ ~blankline' =>
              \/ Over(uc')
              \/ /\ PlainAhead(uc') /\ ~CommentAhead(uc')
                 /\ FirstOnLine(uc'.buf, uc'.curr) /\ col = Column(uc'.buf, uc'.curr)
<1> DEFINE n == NextCp(uc)
           second == NextCp(n)
<1>1. /\ phase = "indentation" /\ n.cp \notin {" ", "\t"}
      /\ n.cp # "/" => uc' = BackupCp(n)
      /\ n.cp = "/" => uc' = BackupCp(BackupCp(second))
      /\ blankline' <=> \/ n.cp \in {"#", "\n", "\r"}
                        \/ n.cp = "/" /\ second.cp \in {"*", "/"}
  BY DEF EndIndentation
<1>2. Moves(uc, n) /\ UcOK(uc) /\ UcOK(n) /\ uc.curr \in Nat /\ n.curr \in Nat
  <2>1. Moves(uc, n) /\ UcOK(uc) /\ uc.curr \in Nat
    BY Given, CpMoves
  <2> QED
    BY <2>1 DEF Moves, UcOK, Ucs
<1>3. n.cp # "\n" => FirstOnLine(uc.buf, uc.curr) /\ col = Column(uc.buf, uc.curr)
  <2> SUFFICES ASSUME n.cp # "\n"
               PROVE  ~Ahead(uc, {"\n"})
    BY <1>1 DEF OInv, LineMeasured
  <2> SUFFICES ASSUME Ahead(uc, {"\n"})
               PROVE  FALSE
    OBVIOUS
  <2> HIDE DEF n
  <2>1. uc.curr < uc.end /\ uc.buf[uc.curr + 1] = "\n"
    BY DEF Ahead
  <2>2. n.cp # EOF
    BY <1>2, <2>1, Given DEF Moves, Over
  <2> QED
    BY <1>2, <2>1, <2>2 DEF Moves
<1> HIDE DEF n
<1>4. CASE n.cp # "/"
  <2>1. /\ uc' = BackupCp(n) /\ UcOK(uc') /\ uc'.buf = n.buf /\ uc'.end = n.end
        /\ uc'.implicit_newline = n.implicit_newline /\ uc'.curr = uc.curr
    <3>1. /\ UcOK(BackupCp(n)) /\ BackupCp(n).buf = n.buf /\ BackupCp(n).end = n.end
          /\ BackupCp(n).implicit_newline = n.implicit_newline /\ BackupCp(n).curr = uc.curr
      BY <1>2, CpGivenBack
    <3> QED
      BY <1>1, <1>4, <3>1
  <2>2. Onward
    BY <1>2, <2>1 DEF Onward, Moves
  <2>3. n.cp = EOF => Over(uc')
    <3>1. n.cp = EOF => Over(n) /\ n.curr = uc.curr
      BY <1>2 DEF Moves
    <3> QED
      BY <2>1, <3>1 DEF Over
  <2>4. n.cp # EOF => uc'.curr < uc'.end /\ uc'.buf[uc'.curr + 1] = n.cp
    <3> SUFFICES ASSUME n.cp # EOF
                 PROVE  uc'.curr < uc'.end /\ uc'.buf[uc'.curr + 1] = n.cp
      OBVIOUS
    <3>1. n.curr = uc.curr + 1 /\ n.curr <= n.end /\ n.cp = n.buf[n.curr]
      BY <1>2 DEF Moves
    <3>2. n.end \in Nat
      BY <2>1, <2>2, Going
    <3> QED
      BY <1>2, <2>1, <3>1, <3>2
  <2>5. blankline' => CommentAhead(uc')
    BY <1>1, <1>4, <2>4 DEF CommentAhead, Ahead, EOF
  <2>6. ASSUME ~blankline', n.cp # EOF
        PROVE  /\ PlainAhead(uc') /\ ~CommentAhead(uc')
               /\ FirstOnLine(uc'.buf, uc'.curr) /\ col = Column(uc'.buf, uc'.curr)
    <3>1. n.cp \notin {" ", "\t", "#", "\n", "\r", "/"}
      BY <1>1, <1>4, <2>6
    <3>2. PlainAhead(uc') /\ ~CommentAhead(uc')
      BY <2>4, <2>6, <3>1 DEF PlainAhead, CommentAhead, Ahead
    <3>3. FirstOnLine(uc'.buf, uc.curr) /\ col = Column(uc'.buf, uc.curr)
      <4>1. FirstOnLine(uc.buf, uc.curr) /\ col = Column(uc.buf, uc.curr)
        BY <1>3, <3>1
      <4>2. uc.curr \in Nat /\ uc.curr <= uc.curr
        BY <1>2
      <4> QED
        BY <2>2, <4>1, <4>2, TextKept
    <3> QED
      BY <2>1, <3>2, <3>3
  <2> QED
    BY <2>2, <2>3, <2>5, <2>6
<1>5. CASE n.cp = "/"
  <2> DEFINE once == BackupCp(second)
             twice == BackupCp(once)
  <2>1. uc' = twice
    BY <1>1, <1>5
  <2>2. Moves(n, second)
    BY <1>2, CpMoves
  <2> HIDE DEF second
  <2>3. /\ UcOK(once) /\ once.cp = second.cp /\ once.buf = second.buf
        /\ once.end = second.end /\ once.implicit_newline = second.implicit_newline
        /\ once.curr = n.curr
    BY <1>2, <2>2, CpGivenBack
  <2>4. /\ n.curr = uc.curr + 1 /\ n.curr <= n.end /\ n.cp = n.buf[n.curr]
        /\ SameTo(uc.buf, n.buf, uc.curr)
    BY <1>2, <1>5 DEF Moves, EOF
  <2> HIDE DEF once
  <2>5. /\ UcOK(twice) /\ twice.buf = second.buf /\ twice.end = second.end
        /\ twice.implicit_newline = second.implicit_newline
        /\ second.cp = EOF => twice.curr = n.curr
        /\ second.cp # EOF => twice.curr = uc.curr
    <3>1. /\ UcOK(twice) /\ twice.buf = once.buf /\ twice.end = once.end
          /\ twice.implicit_newline = once.implicit_newline
          /\ once.cp = EOF => twice.curr = once.curr
          /\ once.cp # EOF /\ once.curr >= 1 => twice.curr = once.curr - 1
      BY <2>3, CpGivenBackTwice
    <3> QED
      BY <1>2, <2>3, <2>4, <3>1
  <2> HIDE DEF twice
  <2>6. SameTo(n.buf, second.buf, n.curr)
    BY <2>2 DEF Moves
  <2>7. SameTo(uc.buf, second.buf, uc.curr)
    BY <1>2, <2>4, <2>6, SameThrough
  <2>8. Onward
    BY <1>2, <2>1, <2>4, <2>5, <2>7 DEF Onward
  <2>9. second.cp = EOF => Over(uc') /\ ~blankline'
    <3>1. second.cp = EOF => Over(second) /\ second.curr = n.curr
      BY <2>2 DEF Moves
    <3>2. second.cp = EOF => ~blankline'
      BY <1>1, <1>5 DEF EOF
    <3> QED
      BY <2>1, <2>5, <3>1, <3>2 DEF Over
  <2>10. second.cp # EOF =>
           /\ uc'.curr = uc.curr /\ uc'.curr + 1 < uc'.end
           /\ uc'.buf[uc'.curr + 1] = "/" /\ uc'.buf[uc'.curr + 2] = second.cp
    <3> SUFFICES ASSUME second.cp # EOF
                 PROVE  /\ uc'.curr = uc.curr /\ uc'.curr + 1 < uc'.end
                        /\ uc'.buf[uc'.curr + 1] = "/" /\ uc'.buf[uc'.curr + 2] = second.cp
      OBVIOUS
    <3>1. /\ second.curr = n.curr + 1 /\ second.curr <= second.end
          /\ second.cp = second.buf[second.curr]
      BY <2>2 DEF Moves
    <3>2. second.end \in Nat
      BY <2>1, <2>5, <2>8, Going
    <3>3. n.curr \in 1..n.curr /\ second.curr = uc.curr + 2
      BY <1>2, <2>4, <3>1
    <3>4. second.buf[n.curr] = "/"
      BY <1>5, <2>4, <2>6, <3>3 DEF SameTo
    <3> QED
      BY <1>2, <2>1, <2>4, <2>5, <3>1, <3>2, <3>3, <3>4
  <2>11. ASSUME second.cp # EOF
         PROVE  /\ PlainAhead(uc')
                /\ CommentAhead(uc') <=> blankline'
                /\ FirstOnLine(uc'.buf, uc'.curr) /\ col = Column(uc'.buf, uc'.curr)
    <3>1. uc'.curr < uc'.end
      BY <1>2, <2>8, <2>10, <2>11, Going
    <3>2. PlainAhead(uc')
      BY <2>10, <2>11, <3>1 DEF PlainAhead
    <3>3. CommentAhead(uc') <=> blankline'
      BY <1>1, <1>5, <2>10, <2>11, <3>1 DEF CommentAhead, Ahead
    <3>4. FirstOnLine(uc'.buf, uc.curr) /\ col = Column(uc'.buf, uc.curr)
      <4>1. FirstOnLine(uc.buf, uc.curr) /\ col = Column(uc.buf, uc.curr)
        BY <1>3, <1>5
      <4>2. uc.curr \in Nat /\ uc.curr <= uc.curr
        BY <1>2
      <4> QED
        BY <2>8, <4>1, <4>2, TextKept
    <3> QED
      BY <2>10, <2>11, <3>2, <3>3, <3>4
  <2> QED
    BY <2>8, <2>9, <2>11
<1> QED
  BY <1>4, <1>5

\* The new levels are the old ones and one more, or the first of the old ones.
LEMMA IndentedKeeps ==
  ASSUME LInv, IndentationOK
  PROVE  /\ Indented[Len(Indented)].col = col
         /\ \/ /\ Len(Indented) = Len(indstack) + 1
               /\ \A i \in 1..Len(indstack) : Indented[i] = indstack[i]
            \/ /\ Len(Indented) \in 1..Len(indstack)
               /\ \A i \in 1..Len(Indented) : Indented[i] = indstack[i]
<1> DEFINE new == [col |-> col, altcol |-> altcol]
<1>1. indstack \in Seq([col : Nat, altcol : Nat]) /\ Len(indstack) \in Nat
      /\ col \in Nat /\ altcol \in Nat /\ LevelsOK(indstack) /\ Len(indstack) >= 1
  BY LenProperties DEF LInv, TypeOK
<1>2. new.col = col /\ new \in [col : Nat, altcol : Nat]
  BY <1>1
<1>3. Indented[Len(Indented)] = new
  BY DEF IndentationOK
<1> HIDE DEF new
<1>4. CASE col > Innermost.col
  <2>1. Indented = Append(indstack, new)
    BY <1>4 DEF Indented, new
  <2>2. /\ Len(Append(indstack, new)) = Len(indstack) + 1
        /\ \A i \in 1..Len(indstack) : Append(indstack, new)[i] = indstack[i]
    BY <1>1, <1>2, AppendProperties
  <2> QED
    BY <1>2, <1>3, <2>1, <2>2
<1>5. CASE ~(col > Innermost.col)
  <2>1. Indented = Outer(col)
    BY <1>5 DEF Indented
  <2>2. PICK m \in 1..Len(indstack) : Outer(col) = SubSeq(indstack, 1, m)
    BY <1>1, OuterIs
  <2>3. Len(SubSeq(indstack, 1, m)) = m
        /\ \A i \in 1..m : SubSeq(indstack, 1, m)[i] = indstack[i]
    BY <1>1, <2>2
  <2> QED
    BY <1>2, <1>3, <2>1, <2>2, <2>3
<1> QED
  BY <1>4, <1>5

\* The lines so far, and the levels of the line that starts.
LEMMA PlacedIndented ==
  ASSUME LInv, OInv, Onward, phase = "indentation", IndentationOK,
         indstack' = Indented, UNCHANGED tokens, Fresh'
  PROVE  Placed'
<1> DEFINE g == Places(uc'.buf, tokens)
<1>1. /\ uc.buf \in Seq(Chars) /\ uc'.buf \in Seq(Chars) /\ uc.curr \in 0..Len(uc.buf)
      /\ SameTo(uc.buf, uc'.buf, uc.curr) /\ uc'.curr \in 0..Len(uc'.buf)
      /\ indstack \in Levels /\ LevelsOK(indstack) /\ Len(indstack) >= 1
      /\ Len(tokens) \in Nat
  BY Given, Going DEF Onward
<1>2. StartsRead(tokens, uc.curr)
  BY DEF OInv, Placed
<1>3. /\ Places(uc.buf, tokens) = g
      /\ \A n \in 1..Len(tokens) : Place(uc.buf, tokens, n) = Place(uc'.buf, tokens, n)
  BY <1>1, <1>2, PlacesKept
<1>4. StartsRead(tokens, uc'.curr)
  BY <1>2, StartsReadOn
<1>5. Offside(uc'.buf, tokens)
  BY <1>3 DEF OInv, Placed, Offside
<1>6. Lined(g, Len(tokens), indstack) /\ Settled(g, Len(tokens), indstack)
  <2>1. ~Fresh
    BY DEF Fresh
  <2> QED
    BY <1>3, <2>1 DEF OInv, Placed
<1>7. \A k \in 1..Len(tokens) : g[k] \in Int
  BY <1>1, <1>4, PlaceIsInt
<1> HIDE DEF g
<1>8. Lined(g, Len(tokens), Indented)
  <2>1. CASE /\ Len(Indented) = Len(indstack) + 1
             /\ \A i \in 1..Len(indstack) : Indented[i] = indstack[i]
    BY <1>1, <1>6, <1>7, <2>1, LevelAdded
  <2>2. CASE /\ Len(Indented) \in 1..Len(indstack)
             /\ \A i \in 1..Len(Indented) : Indented[i] = indstack[i]
    BY <1>1, <1>6, <1>7, <2>2, LevelsLeft
  <2> QED
    BY <2>1, <2>2, IndentedKeeps
<1>9. Lined(g, Len(tokens), indstack')
  BY <1>8
<1> QED
  BY <1>4, <1>5, <1>9 DEF Placed, g

LEMMA EndIndentationPlaces ==
  ASSUME LInv, OInv, EndIndentation
  PROVE  OInv'
<1>1. /\ phase = "indentation" /\ UNCHANGED <<parenstack, start>>
      /\ \/ /\ blankline' \/ InParentheses
            /\ phase' = "pending" /\ UNCHANGED <<tokens, indstack>>
         \/ /\ ~blankline' /\ ~InParentheses /\ IndentationOK
            /\ indstack' = Indented /\ phase' = "pending" /\ UNCHANGED tokens
         \/ Token("ERRORTOKEN") /\ UNCHANGED indstack
  BY DEF EndIndentation, Silent, inside
<1>2. /\ Onward
      /\ blankline' => CommentAhead(uc')
      /\ ~blankline' =>
           \/ Over(uc')
           \/ /\ PlainAhead(uc') /\ ~CommentAhead(uc')
              /\ FirstOnLine(uc'.buf, uc'.curr) /\ col = Column(uc'.buf, uc'.curr)
  BY IndentationReads
<1>3. CASE /\ blankline' \/ InParentheses
           /\ phase' = "pending" /\ UNCHANGED <<tokens, indstack>>
  <2>1. AtText' => CommentAhead(uc')
    BY <1>1, <1>2, <1>3 DEF AtText, InParentheses
  <2>2. LineMeasured'
    <3>1. AtText' => CommentAhead(uc)'
      BY <2>1 DEF CommentAhead, Ahead
    <3> QED
      BY <1>3, <3>1 DEF LineMeasured
  <2>3. TokenMeasured'
    BY <1>3 DEF TokenMeasured
  <2>4. ~Fresh
    BY <1>1 DEF Fresh
  <2>5. Placed'
    BY <1>2, <1>3, <2>4, PlacedSilent DEF OInv
  <2> QED
    BY <2>2, <2>3, <2>5 DEF OInv
<1>4. CASE /\ ~blankline' /\ ~InParentheses /\ IndentationOK
           /\ indstack' = Indented /\ phase' = "pending" /\ UNCHANGED tokens
  <2>1. InnermostCol' = col
    BY <1>4, IndentedKeeps DEF InnermostCol
  <2>2. \/ Over(uc')
        \/ /\ PlainAhead(uc') /\ ~CommentAhead(uc')
           /\ AtText' /\ InnermostCol' = Column(uc'.buf, uc'.curr)
    BY <1>1, <1>2, <1>4, <2>1 DEF AtText, InParentheses
  <2>3. LineMeasured'
    <3>1. \/ Over(uc)'
          \/ PlainAhead(uc)' /\ Column(uc.buf, uc.curr)' = InnermostCol'
      BY <2>2 DEF Over, PlainAhead
    <3> QED
      BY <1>4, <3>1 DEF LineMeasured
  <2>4. TokenMeasured'
    BY <1>4 DEF TokenMeasured
  <2>5. Fresh'
    <3>1. Over(uc)' \/ (AtText' /\ PlainAhead(uc)' /\ ~CommentAhead(uc)')
      BY <2>2 DEF Over, PlainAhead, CommentAhead, Ahead
    <3> QED
      BY <1>4, <3>1 DEF Fresh
  <2>6. Placed'
    BY <1>1, <1>2, <1>4, <2>5, PlacedIndented
  <2> QED
    BY <2>3, <2>4, <2>6 DEF OInv
<1>5. CASE Token("ERRORTOKEN") /\ UNCHANGED indstack
  BY <1>1, <1>2, <1>5, DonePlaces
<1> QED
  BY <1>1, <1>3, <1>4, <1>5

----------------------------------------------------------------------------
(* The specification                                                       *)

LEMMA OInvInit == Init => OInv
<1> SUFFICES ASSUME Init
             PROVE  OInv
  OBVIOUS
<1>1. /\ uc.curr = 0 /\ phase = "nextline" /\ atbol = TRUE /\ tokens = << >>
      /\ indstack = <<[col |-> 0, altcol |-> 0]>>
  BY DEF Init
<1>2. Len(tokens) = 0 /\ Len(indstack) = 1
  BY <1>1
<1>3. LineMeasured /\ TokenMeasured
  BY <1>1 DEF LineMeasured, TokenMeasured
<1>4. \A g : Lined(g, 0, indstack) /\ Settled(g, 0, indstack)
  BY <1>2 DEF Lined, Settled, Seen
<1>5. StartsRead(tokens, uc.curr) /\ Offside(uc.buf, tokens)
  BY <1>2 DEF StartsRead, Offside
<1> QED
  BY <1>2, <1>3, <1>4, <1>5 DEF OInv, Placed

LEMMA OInvStep == LInv /\ OInv /\ [Next]_vars => OInv'
<1> SUFFICES ASSUME LInv, OInv, [Next]_vars
             PROVE  OInv'
  OBVIOUS
<1>1. CASE NextLine
  BY <1>1, NextLinePlaces
<1>2. CASE ReadIndentation
  BY <1>2, ReadIndentationPlaces
<1>3. CASE EndIndentation
  BY <1>3, EndIndentationPlaces
<1>4. CASE EmitIndentOrDedent
  BY <1>4, EmitPlaces
<1>5. CASE SkipSpaces
  BY <1>5, SkipSpacesPlaces
<1>6. CASE HashComment
  BY <1>6, HashCommentPlaces
<1>7. CASE Slash
  BY <1>7, SlashPlaces
<1>8. CASE LineComment
  BY <1>8, LineCommentPlaces
<1>9. CASE BlockComment
  BY <1>9, BlockCommentPlaces
<1>10. CASE EndOfFile
  BY <1>10, EndOfFilePlaces
<1>11. CASE StartName
  BY <1>11, StartNamePlaces
<1>12. CASE Name
  BY <1>12, NamePlaces
<1>13. CASE NewLine
  BY <1>13, NewLinePlaces
<1>14. CASE StartString
  BY <1>14, StartStringPlaces
<1>15. CASE String
  BY <1>15, StringPlaces
<1>16. CASE Operator
  BY <1>16, OperatorPlaces
<1>17. CASE UNCHANGED vars
  <2>1. UNCHANGED <<uc, phase, atbol, col, indstack, parenstack, start, tokens>>
    BY <1>17 DEF vars
  <2>2. (AtText' <=> AtText) /\ (Leader' <=> Leader) /\ (LeaderPlaced' <=> LeaderPlaced)
        /\ InnermostCol' = InnermostCol
    BY <2>1 DEF AtText, Leader, LeaderIn, LeaderPlaced, InParentheses, InnermostCol
  <2>3. LineMeasured'
    BY <2>1, <2>2 DEF OInv, LineMeasured
  <2>4. TokenMeasured'
    BY <2>1, <2>2 DEF OInv, TokenMeasured
  <2>5. Fresh' <=> Fresh
    BY <2>1, <2>2 DEF Fresh, InParentheses
  <2>6. Placed'
    BY <2>1, <2>5 DEF OInv, Placed
  <2> QED
    BY <2>3, <2>4, <2>6 DEF OInv
<1> QED
  BY <1>1, <1>2, <1>3, <1>4, <1>5, <1>6, <1>7, <1>8, <1>9, <1>10, <1>11, <1>12, <1>13,
     <1>14, <1>15, <1>16, <1>17 DEF Next

LEMMA OInvHolds == Spec => [](LInv /\ OInv)
<1>1. Init => LInv /\ OInv
  BY LInvInit, OInvInit
<1>2. (LInv /\ OInv) /\ [Next]_vars => (LInv /\ OInv)'
  BY LInvStep, OInvStep
<1> QED
  BY <1>1, <1>2, PTL DEF Spec

----------------------------------------------------------------------------
(* The rule                                                                *)

\* What the invariant says of each leader is what the rule does: its columns are
\* the places.
LEMMA RuleStands ==
  ASSUME LInv, OInv
  PROVE  OffsideRule
<1> DEFINE len == Len(tokens)
           leaders == {n \in 1..len : Leads(n)}
           column == [n \in leaders |-> Column(uc.buf, tokens[n].start)]
           stands(k, n) == k <= n /\ \A m \in leaders : m \in k..n => column[m] >= column[k]
           visible(n) == {column[k] : k \in {k \in leaders : stands(k, n)}}
           g == Places(uc.buf, tokens)
<1>1. /\ uc.buf \in Seq(Chars) /\ uc.curr \in 0..Len(uc.buf) /\ len \in Nat
      /\ StartsRead(tokens, uc.curr) /\ Offside(uc.buf, tokens)
  BY Given DEF OInv, Placed
<1>2. ASSUME NEW n \in 1..len
      PROVE  /\ g[n] \in Int /\ g[n] = Place(uc.buf, tokens, n)
             /\ g[n] >= 0 <=> n \in leaders
             /\ n \in leaders => column[n] = g[n]
  <2>1. /\ Place(uc.buf, tokens, n) \in Int
        /\ Place(uc.buf, tokens, n) >= 0 <=> LeadsIn(uc.buf, tokens, n)
        /\ Places(uc.buf, tokens)[n] = Place(uc.buf, tokens, n)
    BY <1>1, PlaceIsInt
  <2>2. LeadsIn(uc.buf, tokens, n) <=> Leads(n)
    BY CountsAgree DEF LeadsIn, Leads, Leading
  <2>3. LeadsIn(uc.buf, tokens, n) => Place(uc.buf, tokens, n) = Column(uc.buf, tokens[n].start)
    BY DEF Place
  <2> QED
    BY <2>1, <2>2, <2>3
<1>3. leaders \subseteq 1..len
  OBVIOUS
<1> HIDE DEF leaders, column, g
<1>4. ASSUME NEW n \in 1..len
      PROVE  visible(n) = Seen(g, n)
  <2>1. \A k \in 1..n : k \in 1..len
    BY <1>1
  <2>2. ASSUME NEW k \in 1..n
        PROVE  Stands(g, n, k) <=> k \in leaders /\ stands(k, n)
    <3>1. \A m \in k..n : m \in 1..len
      BY <1>1
    <3>2. k \in 1..len /\ k <= n
      BY <2>1
    <3>3. ASSUME Stands(g, n, k)
          PROVE  k \in leaders /\ stands(k, n)
      BY <1>2, <1>3, <3>2, <3>3 DEF Stands
    <3>4. ASSUME k \in leaders, stands(k, n)
          PROVE  Stands(g, n, k)
      BY <1>2, <3>1, <3>2, <3>4 DEF Stands
    <3> QED
      BY <3>3, <3>4
  <2>3. ASSUME NEW c
        PROVE  c \in visible(n) <=> c \in Seen(g, n)
    <3>1. c \in Seen(g, n) <=> \E k \in 1..n : Stands(g, n, k) /\ g[k] = c
      BY SeenIn
    <3>2. c \in visible(n) <=> \E k \in leaders : stands(k, n) /\ column[k] = c
      OBVIOUS
    <3>3. \A k \in leaders : stands(k, n) => k \in 1..n
      BY <1>3
    <3> HIDE DEF stands, visible
    <3> QED
      BY <1>2, <2>1, <2>2, <3>1, <3>2, <3>3
  <2> HIDE DEF visible
  <2> QED
    BY <2>3
<1>5. ASSUME NEW n \in leaders
      PROVE  Depth(n) = Cardinality(visible(n) \ {0})
  <2>1. n \in 1..len /\ Place(uc.buf, tokens, n) >= 0
    BY <1>2, <1>3
  <2>2. DepthIn(tokens, n) = Cardinality(Seen(g, n) \ {0})
    BY <1>1, <2>1 DEF Offside, g
  <2>3. Depth(n) = DepthIn(tokens, n)
    BY CountsAgree DEF Depth, DepthIn
  <2>4. visible(n) = Seen(g, n)
    BY <1>4, <2>1
  <2> HIDE DEF visible
  <2> QED
    BY <2>2, <2>3, <2>4
<1> QED
  BY <1>5 DEF OffsideRule, leaders, column

\* In front of the first token of every line that is not between parentheses, the
\* INDENTs without a DEDENT are as many as there are columns to the right of the
\* first that the line is inside of: the levels of get_indentation are those of
\* the file, whatever was skipped as blank or as a comment.
THEOREM OffsideCorrect == Spec => []OffsideRule
BY OInvHolds, RuleStands, PTL

=============================================================================
