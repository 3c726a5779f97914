--------------------------- MODULE MCExpressions ---------------------------
(***************************************************************************)
(* EvalMeaning over small programs, for integers of eight bits: every      *)
(* expression, line and nest of blocks of a few tokens, every number of a  *)
(* few digits, every operator between values at the edges of their types,  *)
(* and every sequence of a few assignments that make, copy, change and     *)
(* append to arrays.                                                       *)
(***************************************************************************)
EXTENDS EvalMeaning

T(type) == [type |-> type]
Name(n) == [type |-> "NAME", name |-> n]
Str(s)  == [type |-> "STRING", str |-> s]
Number(base, digits, half) ==
  [type |-> "NUMBER", base |-> base, digits |-> digits, half |-> half]

Digits[n \in Nat] == IF n < 10 THEN <<n>> ELSE Append(Digits[n \div 10], n % 10)

Dec(n)  == Number(10, Digits[n], FALSE)
Half(n) == Number(10, Digits[n], TRUE)
Int8(n) == IF n < 0 THEN <<T("-"), Dec(-n)>> ELSE <<Dec(n)>>

One == Dec(1)
NL  == <<T("NEWLINE")>>
End_ == <<T("ENDMARKER")>>
Eq  == T("=")

Lines(lines) == FlattenSeq([i \in DOMAIN lines |-> lines[i] \o NL]) \o End_
Assigning(e) == Lines(<<<<Name("x"), Eq>> \o e>>)

\* The texts of all sequences up to a length, length by length.
All(S, n, TextOf(_)) == [m \in 1..(n + 1) |-> {TextOf(e) : e \in [1..(m - 1) -> S]}]

----------------------------------------------------------------------------
(* Parsed only                                                             *)

Signs    == {One, T("-"), T("+"), T("*"), T("("), T(")")}
Brackets == {Name("x"), One, T("["), T("]"), T(","), T("@len")}
Targets  == {Eq, T("+="), T("["), T("]"), T(","), One}

\* Four operands and three operators.
Chains ==
  {<<One, T(o[1]), One, T(o[2]), One, T(o[3]), One>> : o \in [1..3 -> DOMAIN binding_power]}

Numerals ==
  <<{Number(2, d, FALSE) : d \in [1..7 -> {0, 1}]}, {Number(2, d, FALSE) : d \in [1..9 -> {0, 1}]},
    {Number(16, d, FALSE) : d \in [1..2 -> {0, 1, 7, 8}]},
    {Number(8, d, FALSE) : d \in [1..3 -> {0, 1, 3, 4, 7}]},
    {Number(16, <<1>> \o d, FALSE) : d \in [1..2 -> {0, 8, 15, Underscore}]},
    {Number(b, <<1>> \o d, h) : b \in {2, 10}, d \in [1..3 -> {0, 1, Underscore}], h \in BOOLEAN},
    {Number(10, d, h) : d \in [1..3 -> {0, 1, 2, 5, 6, 7, 8, 9}], h \in BOOLEAN}>>

BlockLines ==
  {<<T("@if"), One>> \o NL, <<T("@elif"), One>> \o NL, <<T("@elif"), T(")")>> \o NL,
   <<T("@else")>> \o NL, <<T("@while"), One>> \o NL,
   <<T("@break")>> \o NL, <<Name("x")>> \o NL, <<T("INDENT")>>, <<T("DEDENT")>>}

\* The lexer's blocks: one begins behind a NEWLINE with a line, and all are closed.
IsLaidOut(ls) ==
  LET Opens(i) == ls[i][1].type = "INDENT"
      Closes(i) == ls[i][1].type = "DEDENT"
      Open(i) == Cardinality({j \in 1..i : Opens(j)}) - Cardinality({j \in 1..i : Closes(j)})
  IN  /\ \A i \in DOMAIN ls : Opens(i) =>
           i > 1 /\ ~Opens(i - 1) /\ ~Closes(i - 1) /\ i < Len(ls) /\ ~Opens(i + 1) /\ ~Closes(i + 1)
      /\ \A i \in DOMAIN ls : Open(i) >= 0
      /\ Open(Len(ls)) = 0

Laid(n) == {ls \in [1..n -> BlockLines] : IsLaidOut(ls)}

\* In a block of its own.
Within(ls) == <<<<T("@while"), One>> \o NL, <<T("INDENT")>>>> \o ls \o <<<<T("DEDENT")>>>>
Inside(n) == {ls \in Laid(n) : ls[1][1].type # "@elif"}

\* Lines with a block behind some of them.
Nests ==
  [n \in 1..5 |-> Laid(n)] \o [n \in 1..4 |-> {Within(ls) : ls \in Inside(n)}]
    \o <<{Within(Within(ls)) : ls \in Inside(2)}, {Within(Within(Within(ls))) : ls \in Inside(1)}>>

Directed ==
  {<<T(k)>> \o e : k \in Directives \cup {"@del", "@code", "@break", "@else"},
                   e \in SeqOf({One, Name("x"), T(")"), T("-")}, 2)}

MCTexts ==
  All(Signs, 5, Assigning) \o All(Brackets, 5, Assigning)
    \o All(Targets, 5, LAMBDA ts : Lines(<<<<Name("x")>> \o ts>>))
    \o All(Targets \cup {T(":")}, 3, LAMBDA ts : Lines(<<<<Name("x")>> \o ts>>))
    \o [i \in DOMAIN Numerals |-> {Assigning(<<n>>) : n \in Numerals[i]}]
    \o [i \in DOMAIN Numerals |-> {Assigning(<<T("-"), n>>) : n \in Numerals[i]}]
    \o [i \in DOMAIN Nests |-> {FlattenSeq(ls) \o End_ : ls \in Nests[i]}]
    \o <<{Assigning(e) : e \in Chains}, {Lines(<<d>>) : d \in Directed}>>

----------------------------------------------------------------------------
(* Run as well                                                             *)

Edges == {-128, -127, -3, -1, 0, 1, 2, 3, 7, 8, 64, 127}

Strings == {<<Str(s)>> : s \in {<< >>, <<"p">>, <<"p", "q">>}}
Arrays  == {<<T("["), T("]")>>, <<T("["), One, T(","), Half(1), T("]")>>}
Halves  == {<<Half(1)>>, <<T("-"), Half(1)>>, <<Half(0)>>, <<T("$")>>}

Operands == {Int8(n) : n \in Edges} \cup Strings \cup Arrays \cup Halves

\* Not a leaf of its tree.
Sums == {<<T("(")>> \o o \o <<T("+")>> \o o \o <<T(")")>> :
           o \in {<<One>>, <<Half(1)>>, <<Str(<<"p">>)>>}}

Few == {<<One>>, <<Half(1)>>, <<Str(<<"p">>)>>, <<Name("y")>>}

MCArithmetic ==
  <<{Assigning(l \o <<T(op)>> \o r) : l, r \in Operands, op \in DOMAIN binding_power},
    {Assigning(l \o <<T("[")>> \o r \o <<T("]")>>) : l, r \in Operands},
    {Assigning(<<T(op)>> \o o) : op \in {"+", "-", "~", "!", "@len"}, o \in Operands \cup Few \cup Sums},
    {Assigning(l \o <<T(op)>> \o r) : l \in Sums, r \in Sums \cup Few, op \in DOMAIN binding_power},
    {Assigning(l \o <<T(op)>> \o r) : l \in Few, r \in Sums \cup Few, op \in DOMAIN binding_power},
    {Assigning(Int8(0) \o <<T(op), Name("y")>>) : op \in {"&&", "||", "+"}},
    {Lines(<<<<Name("x"), Eq>> \o Int8(n), <<Name("x"), T(op)>> \o Int8(m)>>) :
       n, m \in {-128, 3, 127}, op \in Assignments}>>

a == Name("a")
b == Name("b")

\* a = [1], b = a[0] and so on.
Bracketed(e) == <<T("[")>> \o e \o <<T("]")>>

ArrayStatements ==
  {<<a, Eq>> \o e :
     e \in {Bracketed(<<One>>), Bracketed(<<b>>), Bracketed(Bracketed(<<One>>) \o <<T(","), Dec(2)>>)}}
    \cup {<<b, Eq>> \o e :
            e \in {<<a>>, <<a>> \o Bracketed(Int8(-1)), <<a, T("==")>> \o Bracketed(<<One>>)}}
    \cup {<<a>> \o Bracketed(<< >>) \o <<Eq>> \o e : e \in {<<Dec(2)>>, <<b>>, Bracketed(<<Dec(3)>>)}}
    \cup {<<a>> \o Bracketed(<<Dec(0)>>) \o e :
            e \in {<<Eq, Dec(5)>>, <<T("+="), One>>, Bracketed(<< >>) \o <<Eq, Dec(4)>>}}
    \cup {<<b>> \o Bracketed(<< >>) \o <<Eq, Dec(6)>>}

MoreStatements ==
  {<<a, Eq>> \o e :
     e \in {Bracketed(<< >>), Bracketed(<<b, T(","), b, T("+"), One>>), Bracketed(Bracketed(<<b>>)),
            <<Str(<<"p", "q">>)>>}}
    \cup {<<b, Eq>> \o e :
            e \in {<<One>>, <<T("@len"), a>>, <<a>> \o Bracketed(<<Dec(0)>>),
                   <<a>> \o Bracketed(<<Dec(0)>>) \o Bracketed(<<Dec(0)>>)}}
    \cup {<<a>> \o Bracketed(<< >>) \o <<Eq, T("@len"), a>>,
          <<a>> \o Bracketed(<<Dec(0)>>) \o <<Eq, Str(<<"r">>)>>, <<b, T("+="), One>>}

\* A number, an array, and what is done to them.
MCArrays ==
  All(ArrayStatements \cup MoreStatements, 2, LAMBDA ss : Lines(<<<<b, Eq, One>>>> \o ss))
    \o <<{Lines(<<<<b, Eq, One>>, <<a, Eq>> \o Bracketed(<<One>>)>> \o ss) :
           ss \in [1..3 -> ArrayStatements]}>>

MCPrograms == MCArithmetic \o MCArrays
=============================================================================
