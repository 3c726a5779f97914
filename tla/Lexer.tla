------------------------------- MODULE Lexer -------------------------------
(***************************************************************************)
(* The tokenizer of src/core/lexer.c: reading a line at a time from the    *)
(* file's buffer with an implicit newline at its end, indentation, the     *)
(* three kinds of comments, parentheses.  Each action reads one code       *)
(* point, or ends what was being read; phase is the place in tokenize().   *)
(*                                                                         *)
(* Letters, digits and the other characters of names and numbers are one   *)
(* character, "a", and every operator that is not named here is "*".       *)
(* Encodings are valid.                                                    *)
(*                                                                         *)
(* A definition set just before another, named for a mistake, is the form  *)
(* that mistake would take.                                                *)
(***************************************************************************)
EXTENDS Integers, Sequences, FiniteSets

CONSTANTS
  Texts,                  \* the files
  Spare,                  \* what the byte behind the file may hold
  MAX_INDENT,
  MAX_PARENTHESES_LEVEL

Chars == {"a", " ", "\t", "#", "/", "*", "\n", "\r", "(", ")", "quote"}
EOF   == "EOF"

ASSUME LexerAssumption ==
  /\ Texts \subseteq Seq(Chars)
  /\ Spare \subseteq Chars
  /\ MAX_INDENT \in Nat /\ MAX_INDENT >= 1
  /\ MAX_PARENTHESES_LEVEL \in Nat

VARIABLES
  uc,        \* the buffer, where reading is, and the code point read last
  phase,
  atbol,
  blankline,
  col, altcol,      \* the indentation being read, with tabs of 8 and of 1
  indstack,         \* indstack and altindstack, up to indent
  pendin,           \* indents (> 0) or dedents (< 0) not yet handed out
  parenstack,
  starting_col_offset,
  start,            \* where the token being read starts
  prev,             \* inside a block comment, the code point before
  tokens            \* handed to the parser so far

vars == <<uc, phase, atbol, blankline, col, altcol, indstack, pendin, parenstack,
          starting_col_offset, start, prev, tokens>>

TAB_SIZE     == 8
ALT_TAB_SIZE == 1

----------------------------------------------------------------------------
(* next_cp and backup_cp                                                   *)

ReadCp(u) ==
  IF u.curr < u.end THEN [u EXCEPT !.cp = u.buf[u.curr + 1], !.curr = u.curr + 1]
  ELSE [u EXCEPT !.cp = EOF]

\* The first line end from curr on, or the end of the file.
LineEnd(u) ==
  LET ends == {i \in u.curr..(u.end - 1) : u.buf[i + 1] \in {"\n", "\r"}}
  IN  IF ends = {} THEN u.end ELSE CHOOSE i \in ends : \A j \in ends : i <= j

\* Where the line that starts at curr stops, and the last code point looked at:
\* a CR looks at one more and gives it back when it is not an LF.
Verified(u) ==
  LET i == LineEnd(u)
      next == IF i + 1 < u.end THEN u.buf[i + 2] ELSE EOF
      crlf == u.buf[i + 1] = "\r" /\ next = "\n"
  IN  IF i = u.end THEN [inp |-> i, last |-> EOF, done |-> "E_EOF"]
      ELSE [inp  |-> IF crlf THEN i + 2 ELSE i + 1,
            last |-> IF u.buf[i + 1] = "\r" THEN next ELSE "\n",
            done |-> "E_OK"]

WithWideNewline(u) ==
  [u EXCEPT !.buf[u.inp + 1] = "\n", !.inp = u.inp + 2, !.end = u.end + 2,
            !.implicit_newline = TRUE]

\* The newline is written over whatever follows, and the file is one longer.
WithImplicitNewline(u) ==
  [u EXCEPT !.buf[u.inp + 1] = "\n", !.inp = u.inp + 1, !.end = u.end + 1,
            !.implicit_newline = TRUE]

StartLineAsItIs(u) ==
  LET v == Verified(u)
  IN  [u EXCEPT !.inp = v.inp, !.done = v.done, !.implicit_newline = TRUE, !.col_offset = 0]

StartLine(u) ==
  LET v == Verified(u)
      w == [u EXCEPT !.inp = v.inp, !.done = v.done, !.implicit_newline = FALSE,
                     !.col_offset = 0]
  IN  IF v.last = "\n" THEN w ELSE WithImplicitNewline(w)

NextCp(u) ==
  LET w == IF u.curr = u.inp /\ ~u.implicit_newline THEN StartLine(u) ELSE u
  IN  ReadCp([w EXCEPT !.col_offset = w.col_offset + 1])

BackupCpFromTheEnd(u) ==
  [u EXCEPT !.col_offset = IF u.col_offset > 0 THEN u.col_offset - 1 ELSE 0,
            !.curr = IF u.curr = 0 THEN u.curr ELSE u.curr - 1]

\* It leaves cp as it is, and does not move back from the end of the file.
BackupCp(u) ==
  [u EXCEPT !.col_offset = IF u.col_offset > 0 THEN u.col_offset - 1 ELSE 0,
            !.curr = IF u.curr = 0 \/ u.cp = EOF THEN u.curr ELSE u.curr - 1]

\* After one code point too many, the two last ones are given back and the first
\* of them read again.
Reread(u) ==
  LET once == BackupCp(u)  twice == BackupCp(once)  IN  NextCp(twice)

----------------------------------------------------------------------------
(* tokenize                                                                *)

Init ==
  /\ \E t \in Texts : \E s \in Spare :
       uc = [buf |-> Append(t, s), curr |-> 0, end |-> Len(t), inp |-> 0, cp |-> EOF,
             col_offset |-> 0, implicit_newline |-> FALSE, done |-> "E_OK"]
  /\ phase = "nextline" /\ atbol = TRUE /\ blankline = FALSE
  /\ col = 0 /\ altcol = 0
  /\ indstack = <<[col |-> 0, altcol |-> 0]>>
  /\ pendin = 0 /\ parenstack = << >>
  /\ starting_col_offset = 0 /\ start = 0 /\ prev = EOF
  /\ tokens = << >>

layout == <<col, altcol, indstack, pendin>>
inside == <<parenstack, starting_col_offset, start, prev>>

\* A token is handed out; the next call starts at nextline.
Token(type) ==
  /\ tokens' = Append(tokens, [type |-> type, start |-> start])
  /\ phase' = IF type \in {"ENDMARKER", "ERRORTOKEN"} THEN "done" ELSE "nextline"

Silent(next) == phase' = next /\ UNCHANGED tokens

NeverInParentheses == FALSE

InParentheses == parenstack # << >>

NextLine ==
  /\ phase = "nextline"
  /\ blankline' = FALSE /\ atbol' = FALSE
  /\ col' = 0 /\ altcol' = 0
  /\ Silent(IF atbol THEN "indentation" ELSE "pending")
  /\ UNCHANGED <<uc, indstack, pendin, inside>>

TabAsWidth(c, size) == c + size

NextTab(c, size) == (c \div size + 1) * size

\* get_indentation
ReadIndentation ==
  /\ phase = "indentation"
  /\ \E n \in {NextCp(uc)} : n.cp \in {" ", "\t"} /\ uc' = n
  /\ col' = IF uc'.cp = " " THEN col + 1 ELSE NextTab(col, TAB_SIZE)
  /\ altcol' = IF uc'.cp = " " THEN altcol + 1 ELSE NextTab(altcol, ALT_TAB_SIZE)
  /\ Silent("indentation")
  /\ UNCHANGED <<atbol, blankline, indstack, pendin, inside>>

Innermost == indstack[Len(indstack)]

\* The levels that are left when a line starts at column c.
Outer(c) ==
  LET kept == {i \in 1..Len(indstack) : i = 1 \/ indstack[i].col <= c}
  IN  SubSeq(indstack, 1, CHOOSE i \in kept : \A j \in kept : j <= i)

\* The new stack when the line's indentation is accepted.
Indented ==
  IF col > Innermost.col THEN Append(indstack, [col |-> col, altcol |-> altcol])
  ELSE Outer(col)

OneAtATime(n) == IF n < 0 THEN -1 ELSE n

\* A dedent counts once for each level it leaves.
Change(n) == n

IndentationOKByColumn ==
  /\ col > Innermost.col => Len(indstack) < MAX_INDENT
  /\ Indented[Len(Indented)].col = col

IndentationOKOneTooDeep ==
  /\ col > Innermost.col => Len(indstack) <= MAX_INDENT /\ altcol > Innermost.altcol
  /\ Indented[Len(Indented)] = [col |-> col, altcol |-> altcol]

IndentationOK ==
  /\ col > Innermost.col => Len(indstack) < MAX_INDENT /\ altcol > Innermost.altcol
  /\ Indented[Len(Indented)] = [col |-> col, altcol |-> altcol]

EndIndentation ==
  /\ phase = "indentation"
  /\ \E n \in {NextCp(uc)} : \E second \in {IF n.cp = "/" THEN NextCp(n) ELSE n} :
       /\ n.cp \notin {" ", "\t"}
       /\ \E seen \in {IF n.cp = "/" THEN BackupCp(second) ELSE n} : uc' = BackupCp(seen)
       /\ blankline' = \/ n.cp \in {"#", "\n", "\r"}
                       \/ n.cp = "/" /\ second.cp \in {"*", "/"}
  /\ \/ /\ blankline' \/ InParentheses
        /\ Silent("pending") /\ UNCHANGED <<indstack, pendin>>
     \/ /\ ~blankline' /\ ~InParentheses /\ IndentationOK
        /\ indstack' = Indented
        /\ pendin' = pendin + Change(Len(Indented) - Len(indstack))
        /\ Silent("pending")
     \/ /\ ~blankline' /\ ~InParentheses /\ ~IndentationOK
        /\ Token("ERRORTOKEN") /\ UNCHANGED <<indstack, pendin>>
  /\ UNCHANGED <<atbol, col, altcol, inside>>

\* generate_indent_dedent_token
EmitIndentOrDedent ==
  /\ phase = "pending" /\ pendin # 0
  /\ \/ pendin < 0 /\ pendin' = pendin + 1 /\ Token("DEDENT")
     \/ pendin > 0 /\ pendin' = pendin - 1 /\ Token("INDENT")
  /\ UNCHANGED <<uc, atbol, blankline, col, altcol, indstack, inside>>

SkipSpaces ==
  /\ phase \in {"pending", "spaces"} /\ pendin = 0
  /\ uc' = NextCp(uc)
  /\ starting_col_offset' = uc'.col_offset - 1
  /\ start' = uc'.curr - 1
  /\ Silent(CASE uc'.cp \in {" ", "\t"} -> "spaces"
              [] uc'.cp = "#" -> "hash"
              [] uc'.cp = "/" -> "slash"
              [] OTHER -> "token")
  /\ UNCHANGED <<atbol, blankline, layout, parenstack, prev>>

\* A comment up to the end of the line, which is read, but for the LF of a CR LF.
HashComment ==
  /\ phase = "hash"
  /\ uc' = NextCp(uc)
  /\ Silent(IF uc'.cp \in {EOF, "\n", "\r"} THEN "token" ELSE "hash")
  /\ UNCHANGED <<atbol, blankline, layout, inside>>

SlashNeedsMore ==
  /\ phase = "slash"
  /\ \E n \in {NextCp(uc)} :
       \/ n.cp = "/" /\ uc' = n /\ Silent("line comment")
       \/ n.cp = "*" /\ uc' = n /\ Silent("block comment")
       \/ /\ n.cp \notin {"/", "*", EOF}
          /\ uc' = Reread(n) /\ Silent("token")
  /\ prev' = EOF
  /\ UNCHANGED <<atbol, blankline, layout, parenstack, starting_col_offset, start>>

Slash ==
  /\ phase = "slash"
  /\ \E n \in {NextCp(uc)} :
       \/ n.cp = "/" /\ uc' = n /\ Silent("line comment")
       \/ n.cp = "*" /\ uc' = n /\ Silent("block comment")
       \/ n.cp = EOF /\ uc' = BackupCp(n) /\ Silent("token")
       \/ /\ n.cp \notin {"/", "*", EOF}
          /\ uc' = Reread(n) /\ Silent("token")
  /\ prev' = EOF
  /\ UNCHANGED <<atbol, blankline, layout, parenstack, starting_col_offset, start>>

\* The line end is given back: curr is in front of it, cp is the line end.
LineComment ==
  /\ phase = "line comment"
  /\ \E n \in {NextCp(uc)} :
       LET ends == n.cp \in {EOF, "\n", "\r"}
       IN  /\ uc' = IF ends THEN BackupCp(n) ELSE n
           /\ Silent(IF ends THEN "token" ELSE "line comment")
  /\ UNCHANGED <<atbol, blankline, layout, inside>>

\* A comment that starts a line must end it; nothing becomes of the line's
\* indentation, which was taken for that of a blank line.
BlockComment ==
  /\ phase = "block comment"
  /\ \E n \in {NextCp(uc)} : \E after \in {NextCp(n)} :
       LET closed == prev = "*" /\ n.cp = "/"
           whole  == after.cp = "\n" \/ starting_col_offset # 0
       IN  \/ ~closed /\ n.cp # EOF /\ uc' = n /\ prev' = n.cp /\ Silent("block comment")
           \/ n.cp = EOF /\ uc' = n /\ prev' = prev /\ Token("ERRORTOKEN")
           \/ closed /\ whole /\ uc' = BackupCp(after) /\ prev' = prev /\ Silent("nextline")
           \/ closed /\ ~whole /\ uc' = after /\ prev' = prev /\ Token("ERRORTOKEN")
  /\ UNCHANGED <<atbol, blankline, layout, parenstack, starting_col_offset, start>>

EndOfFile ==
  /\ phase = "token" /\ uc.cp = EOF
  /\ Token(IF parenstack = << >> /\ uc.done = "E_EOF" THEN "ENDMARKER" ELSE "ERRORTOKEN")
  /\ UNCHANGED <<uc, atbol, blankline, layout, inside>>

StartName ==
  /\ phase = "token" /\ uc.cp = "a"
  /\ Silent("name")
  /\ UNCHANGED <<uc, atbol, blankline, layout, inside>>

Name ==
  /\ phase = "name"
  /\ \E n \in {NextCp(uc)} :
       \/ n.cp = "a" /\ uc' = n /\ Silent("name")
       \/ n.cp # "a" /\ uc' = BackupCp(n) /\ Token("NAME")
  /\ UNCHANGED <<atbol, blankline, layout, inside>>

\* What follows a CR, or the code point itself.
AfterCarriageReturn == IF uc.cp = "\r" THEN NextCp(uc) ELSE uc

NewLine ==
  /\ phase = "token"
  /\ uc' = AfterCarriageReturn
  /\ uc'.cp = "\n"
  /\ atbol' = TRUE
  /\ IF blankline \/ InParentheses THEN Silent("nextline") ELSE Token("NEWLINE")
  /\ UNCHANGED <<blankline, layout, inside>>

StartString ==
  /\ phase = "token"
  /\ uc' = AfterCarriageReturn
  /\ uc'.cp = "quote"
  /\ Silent("string")
  /\ UNCHANGED <<atbol, blankline, layout, inside>>

\* Escapes are left out.
String ==
  /\ phase = "string"
  /\ uc' = NextCp(uc)
  /\ \/ uc'.cp \in {EOF, "\n"} /\ Token("ERRORTOKEN")
     \/ uc'.cp = "quote" /\ Token("STRING")
     \/ uc'.cp \notin {EOF, "\n", "quote"} /\ Silent("string")
  /\ UNCHANGED <<atbol, blankline, layout, inside>>

\* Everything else is one code point: it is given back together with the one
\* behind it, and read again.
Operator ==
  /\ phase = "token" /\ uc.cp \notin {EOF, "a"}
  /\ AfterCarriageReturn.cp \notin {"\n", "quote"}
  /\ \E n \in {NextCp(AfterCarriageReturn)} : \E again \in {Reread(n)} : uc' = again
  /\ \/ /\ uc'.cp = "(" /\ Len(parenstack) < MAX_PARENTHESES_LEVEL
        /\ parenstack' = Append(parenstack, "(") /\ Token("LPAR")
     \/ /\ uc'.cp = ")" /\ parenstack # << >>
        /\ parenstack' = SubSeq(parenstack, 1, Len(parenstack) - 1) /\ Token("RPAR")
     \/ /\ \/ uc'.cp = "(" /\ Len(parenstack) >= MAX_PARENTHESES_LEVEL
           \/ uc'.cp = ")" /\ parenstack = << >>
           \/ uc'.cp \in {EOF, "\r", "\n", "\t"}       \* not printable
        /\ UNCHANGED parenstack /\ Token("ERRORTOKEN")
     \/ /\ uc'.cp \notin {"(", ")", EOF, "\r", "\n", "\t"}
        /\ UNCHANGED parenstack /\ Token("OP")
  /\ UNCHANGED <<atbol, blankline, layout, starting_col_offset, start, prev>>

Next ==
  \/ NextLine \/ ReadIndentation \/ EndIndentation \/ EmitIndentOrDedent \/ SkipSpaces
  \/ HashComment \/ Slash \/ LineComment \/ BlockComment
  \/ EndOfFile \/ StartName \/ Name \/ NewLine \/ StartString \/ String \/ Operator

Spec == Init /\ [][Next]_vars

\* tokenize() does not return before it has a token.
FairSpec == Spec /\ WF_vars(Next)

----------------------------------------------------------------------------
(* Properties                                                              *)

Phases == {"nextline", "indentation", "pending", "spaces", "hash", "slash",
           "line comment", "block comment", "token", "name", "string", "done"}

Types == {"INDENT", "DEDENT", "NEWLINE", "NAME", "STRING", "OP", "LPAR", "RPAR",
          "ENDMARKER", "ERRORTOKEN"}

\* The type invariant of the tokenizer.
TypeOK ==
  /\ uc \in [buf : Seq(Chars), curr : Nat, end : Nat, inp : Nat, cp : Chars \cup {EOF},
             col_offset : Nat, implicit_newline : BOOLEAN, done : {"E_OK", "E_EOF"}]
  /\ phase \in Phases
  /\ atbol \in BOOLEAN /\ blankline \in BOOLEAN
  /\ col \in Nat /\ altcol \in Nat
  /\ indstack \in Seq([col : Nat, altcol : Nat]) /\ Len(indstack) \in 1..MAX_INDENT
  /\ pendin \in Int
  /\ parenstack \in Seq({"("}) /\ Len(parenstack) <= MAX_PARENTHESES_LEVEL
  /\ starting_col_offset \in Int /\ start \in Int
  /\ prev \in Chars \cup {EOF}
  /\ tokens \in Seq([type : Types, start : Int])

Count(type, n) == Cardinality({i \in 1..n : tokens[i].type = type})

Depth(n) == Count("INDENT", n) - Count("DEDENT", n)

\* The newline that may be missing is written into the byte reserved for it, once,
\* and reading stays in front of the end (core.c: "There is still space for an
\* implicit newline").
StaysInBuffer ==
  uc.end <= Len(uc.buf) /\ uc.inp <= uc.end /\ uc.curr <= uc.end

\* Every level of indentation that was opened is handed out and closed: what the
\* parser has seen and what is still pending add up to the levels on the stack,
\* which are none when the file ends.
IndentsClosed ==
  /\ Depth(Len(tokens)) + pendin = Len(indstack) - 1
  /\ \A n \in 1..Len(tokens) : Depth(n) >= 0
  /\ Count("ENDMARKER", Len(tokens)) > 0 => Depth(Len(tokens)) = 0

\* The levels are in order for tabs of 8 and for tabs of 1 alike: no file is
\* accepted whose structure depends on the width of a tab.
TabsAgree ==
  \A i, j \in 1..Len(indstack) :
    i < j => indstack[i].col < indstack[j].col /\ indstack[i].altcol < indstack[j].altcol

\* Between parentheses there are no lines: no token of the layout is handed out
\* (the tests of level in get_indentation and before NEWLINE).
NoLayoutInParentheses ==
  \A n \in 1..Len(tokens) :
    Count("LPAR", n) > Count("RPAR", n) =>
      tokens[n].type \notin {"NEWLINE", "INDENT", "DEDENT", "ENDMARKER"}

\* What blocks are parsed by: an INDENT follows the NEWLINE of its header, a
\* DEDENT a NEWLINE or another DEDENT, and the last line has its NEWLINE.
LinesAreWhole ==
  \A n \in 2..Len(tokens) :
    LET before == tokens[n - 1].type
    IN  CASE tokens[n].type = "INDENT" -> before = "NEWLINE"
          [] tokens[n].type \in {"DEDENT", "ENDMARKER"} -> before \in {"NEWLINE", "DEDENT"}
          [] OTHER -> TRUE

----------------------------------------------------------------------------
(* The off-side rule, stated on the file                                   *)

\* Only spaces and tabs lie between the start of its line and position p.
FirstOnLine(text, p) ==
  \E s \in 0..p :
    /\ s = 0 \/ text[s] = "\n"
    /\ \A i \in (s + 1)..p : text[i] \in {" ", "\t"}

\* The column of position p then.
Column(text, p) ==
  LET c[i \in 0..Len(text)] ==
        IF i = 0 THEN 0
        ELSE IF text[i] = "\n" THEN 0
        ELSE IF text[i] = " " THEN c[i - 1] + 1
        ELSE (c[i - 1] \div TAB_SIZE + 1) * TAB_SIZE
  IN  c[p]

\* Tokens that come first on a line, outside of parentheses.  Behind the CR of a
\* line that was taken for blank a token goes on that starts at the CR, or at the
\* comment in front of it: it has no place of its own.
Leads(n) ==
  /\ tokens[n].type \in {"NAME", "STRING", "OP", "LPAR"}
  /\ Count("LPAR", n - 1) = Count("RPAR", n - 1)
  /\ FirstOnLine(uc.buf, tokens[n].start)
  /\ uc.buf[tokens[n].start + 1] \notin {"#", "\r"}

\* A line is as deep as there are columns it is inside of: those of the lines in
\* front of it, and its own, with nothing further left in between.
OffsideRule ==
  LET leaders == {n \in 1..Len(tokens) : Leads(n)}
      column == [n \in leaders |-> Column(uc.buf, tokens[n].start)]
      visible(n) == {column[k] : k \in {k \in leaders :
                       /\ k <= n
                       /\ \A m \in leaders : m \in k..n => column[m] >= column[k]}}
  IN  \A n \in leaders : Depth(n) = Cardinality(visible(n) \ {0})

\* Code points up to the end of the file, and the newline that may be missing.
Unread(u) == u.end - u.curr + (IF u.implicit_newline THEN 0 ELSE 1)

\* The code point read last is part of what is being read, not behind it.
AtHand ==
  /\ phase \in {"hash", "slash", "line comment", "block comment", "token", "name", "string"}
  /\ uc.cp # EOF

\* How far the end of a call of tokenize() is.
ToGo ==
  CASE phase = "nextline" -> 8
    [] phase = "indentation" -> 7
    [] phase = "pending" -> 6
    [] phase = "spaces" -> 5
    [] phase \in {"hash", "slash"} -> 4
    [] phase \in {"line comment", "block comment"} -> 3
    [] phase = "token" -> 2
    [] phase \in {"name", "string"} -> 1
    [] phase = "done" -> 0

\* What is left to do: code points, the indentation of a line, indents and dedents
\* to hand out, the way through tokenize().
Reading   == Unread(uc) + (IF AtHand THEN 1 ELSE 0)
Measuring == IF atbol \/ phase = "indentation" THEN 1 ELSE 0
Handing   == IF pendin < 0 THEN -pendin ELSE pendin

Left == <<Reading, Measuring, Handing, ToGo>>

Less(s, t) == \E k \in 1..4 : s[k] < t[k] /\ \A j \in 1..(k - 1) : s[j] = t[j]

\* Whatever is given back and read again, every step leaves less to do than there
\* was, and there is never less than nothing to do: tokenize() reads no place for
\* ever, nor does the end of the file, where next_cp keeps returning EOF and
\* backup_codepoint must not move.
GetsOn == [][(\A k \in 1..4 : Left[k] >= 0) /\ Less(Left', Left)]_vars

\* The tokenizer comes to the end of every file, or to an error.
Ends == <>(phase = "done")

----------------------------------------------------------------------------
(* What the comments of the code say, and the code does not do             *)

Refused == tokens # << >> /\ tokens[Len(tokens)].type = "ERRORTOKEN"

\* lexer.c: the end of a comment gives back its line end ("don't eat the
\* newline"), and a CR is read together with the newline behind it: no CR LF
\* is refused.
CarriageReturnAccepted ==
  Refused => ~(uc.cp = "\r" /\ uc.curr < uc.end /\ uc.buf[uc.curr + 1] = "\n")
=============================================================================
