---------------------------- MODULE EvalMeaning ----------------------------
(***************************************************************************)
(* What Parser and Eval are to agree with: a grammar that says which       *)
(* tokens are an expression, a statement and a block, and how they are     *)
(* nested, without reading them from left to right; and the meaning of an  *)
(* expression over values that are nothing but values, an array being the  *)
(* sequence of its items.                                                  *)
(***************************************************************************)
EXTENDS Eval

VARIABLES
  written,   \* the statements as they were parsed
  first      \* the values of the variables behind the first round

historyVars == <<vars, written, first>>

NoTree == [k |-> "NO TREE"]

----------------------------------------------------------------------------
(* A tree without memory: the literal of an array has its items in it.     *)
(* outer is what it stands in, as lists that were cut may lead back there. *)

Broken == [type |-> "BROKEN"]

Cells(v, els) == [i \in 1..v.len |-> Walk(v.head, i - 1, els)]

RECURSIVE UnfoldIn(_, _, _)

UnfoldIn(n, els, outer) ==
  LET cells == Cells(n.value, els)
      Item(e) == IF e = 0 \/ e \in outer THEN Literal(Broken)
                 ELSE UnfoldIn(els[e].this_expr, els, outer \cup Range(cells))
  IN  CASE n.k = "LITERAL" ->
             IF n.value.type # "ARRAY" THEN n
             ELSE [k |-> "ARRAY", items |-> [i \in DOMAIN cells |-> Item(cells[i])]]
        [] n.k \in {"VAR", "DOLLAR", "NULL"} -> n
        [] n.k = "LEN"   -> [n EXCEPT !.expr = UnfoldIn(@, els, outer)]
        [] n.k = "UNARY" -> [n EXCEPT !.left = UnfoldIn(@, els, outer)]
        [] n.k = "BINOP" -> [n EXCEPT !.left = UnfoldIn(@, els, outer),
                                      !.right = UnfoldIn(@, els, outer)]

Unfold(n, els) == UnfoldIn(n, els, {})

----------------------------------------------------------------------------
(* The grammar of expressions                                              *)

Opening == {"(", "["}
Closing == {")", "]"}

\* How deep token i is in brackets.
Depth(t, i) ==
  Cardinality({j \in 1..(i - 1) : t[j].type \in Opening})
    - Cardinality({j \in 1..i : t[j].type \in Closing})

Outside(t) == {i \in DOMAIN t : t[i].type \notin Opening \cup Closing /\ Depth(t, i) = 0}

\* The bracket that the last token closes.
Matching(t) ==
  Max({j \in DOMAIN t : t[j].type \in Opening /\ Depth(t, j) = Depth(t, Len(t))})

EndsOperand(tok) == tok.type \in {"NUMBER", "STRING", "NAME", "$", ")", "]"}

\* An operator between two operands, and not a sign.
Between(t, i) == t[i].type \in DOMAIN binding_power /\ i > 1 /\ EndsOperand(t[i - 1])

\* The operator that is applied last: of the weakest ones the last.
LastApplied(t) ==
  LET ops == {i \in Outside(t) : Between(t, i)}
  IN  CHOOSE i \in ops :
        \A j \in ops : \/ binding_power[t[i].type] < binding_power[t[j].type]
                       \/ binding_power[t[i].type] = binding_power[t[j].type] /\ j <= i

From(t, i) == SubSeq(t, i, Len(t))
UpTo(t, i) == SubSeq(t, 1, i)

\* The parts between the commas outside of brackets.
Items(t) ==
  LET cuts == SetToSortSeq({0, Len(t) + 1} \cup {i \in Outside(t) : t[i].type = ","}, <)
  IN  IF t = << >> THEN << >>
      ELSE [i \in 1..(Len(cuts) - 1) |-> SubSeq(t, cuts[i] + 1, cuts[i + 1] - 1)]

\* What a number is worth.
Worth(tok, is_neg) ==
  LET ds == SelectSeq(tok.digits, LAMBDA d : d # Underscore)
      places == FoldFunctionOnSet(+, 0, [i \in DOMAIN ds |-> ds[i] * tok.base ^ (Len(ds) - i)],
                                  DOMAIN ds)
      twice == 2 * places + (IF tok.half THEN 1 ELSE 0)
  IN  Fraction(IF is_neg THEN -twice ELSE twice, 2)

\* A literal with that worth.  An integer that the width does not hold is
\* none; with an underscore or a fraction the number is a double, and only
\* decimal and hexadecimal digits may have either.
NumberTree(tok, is_neg) ==
  LET w == Worth(tok, is_neg)
      plain == ~tok.half /\ Underscore \notin Range(tok.digits)
  IN  CASE plain /\ IsNint(w.num) -> Literal(Whole(w.num))
        [] plain /\ ~IsNint(w.num) -> NoTree
        [] ~plain -> IF NewNumber(tok, is_neg) = Fails THEN NoTree ELSE Literal(Decimal(w))

RECURSIVE Grammar(_)

\* Without an operator between operands: a sign, an index, brackets, an atom.
GrammarOfOperand(t) ==
  LET last == t[Len(t)].type
      open == Matching(t)
      inner == SubSeq(t, open + 1, Len(t) - 1)
      Of(parts, node) == IF NoTree \in parts THEN NoTree ELSE node
  IN  CASE t[1].type = "-" /\ Len(t) = 2 /\ t[2].type = "NUMBER" -> NumberTree(t[2], TRUE)
        [] /\ t[1].type \in {"+", "-", "~", "!", "@len"} /\ Len(t) > 1
           /\ ~(t[1].type = "-" /\ t[2].type = "NUMBER") ->
             LET e == Grammar(From(t, 2))
             IN  Of({e}, IF t[1].type = "@len" THEN LenNode(e) ELSE Unary(t[1].type, e))
        [] Len(t) = 1 /\ t[1].type = "NUMBER" -> NumberTree(t[1], FALSE)
        [] Len(t) = 1 /\ t[1].type = "STRING" -> Literal(String(t[1].str))
        [] Len(t) = 1 /\ t[1].type = "NAME" -> VarNode(t[1].name)
        [] Len(t) = 1 /\ t[1].type = "$" -> DollarNode
        [] /\ last = "]" /\ open > 1 /\ (t[1].type = "-" => t[2].type = "NUMBER")
           /\ t[1].type \notin {"+", "~", "!", "@len"} ->
             LET l == Grammar(UpTo(t, open - 1))  r == Grammar(inner)
             IN  Of({l, r}, Binop("[", l, r))
        [] last = "]" /\ open = 1 ->
             LET items == [i \in DOMAIN Items(inner) |-> Grammar(Items(inner)[i])]
             IN  Of(Range(items), [k |-> "ARRAY", items |-> items])
        [] last = ")" /\ open = 1 -> Grammar(inner)
        [] OTHER -> NoTree

Balanced(t) ==
  /\ \A i \in DOMAIN t : t[i].type \in Closing => Depth(t, i) >= 0
  /\ Cardinality({i \in DOMAIN t : t[i].type \in Opening})
       = Cardinality({i \in DOMAIN t : t[i].type \in Closing})
  /\ \A i \in DOMAIN t : t[i].type \in Closing =>
       LET open == Max({j \in 1..i : t[j].type \in Opening /\ Depth(t, j) = Depth(t, i)})
       IN  <<t[open].type, t[i].type>> \in {<<"(", ")">>, <<"[", "]">>}

\* The tree of an expression, NoTree when the tokens are none.
Grammar(t) ==
  LET i == LastApplied(t)
      l == Grammar(UpTo(t, i - 1))
      r == Grammar(From(t, i + 1))
  IN  IF t = << >> \/ ~Balanced(t) THEN NoTree
      ELSE IF \E j \in Outside(t) : Between(t, j)
      THEN IF NoTree \in {l, r} THEN NoTree ELSE Binop(t[i].type, l, r)
      ELSE GrammarOfOperand(t)

----------------------------------------------------------------------------
(* The grammar of statements                                               *)

NoBody == [ok |-> FALSE, stmts |-> << >>]

\* Cut at every comma, in brackets or not.
Arguments(t) ==
  LET cuts == SetToSortSeq({0, Len(t) + 1} \cup {i \in DOMAIN t : t[i].type = ","}, <)
  IN  IF t = << >> THEN << >>
      ELSE [i \in 1..(Len(cuts) - 1) |-> SubSeq(t, cuts[i] + 1, cuts[i + 1] - 1)]

RECURSIVE IsPath(_)

\* A variable, or an element of a path.
IsPath(n) == n.k = "VAR" \/ (n.k = "BINOP" /\ n.op = "[" /\ IsPath(n.left))

\* A line with an assignment outside of brackets, the first of them at i.
AssignmentTree(t, i) ==
  LET appends == i > 3 /\ t[i - 2].type = "[" /\ t[i - 1].type = "]"
      path  == Grammar(UpTo(t, IF appends THEN i - 3 ELSE i - 1))
      value == Grammar(From(t, i + 1))
  IN  IF value = NoTree \/ ~IsPath(path) \/ (appends /\ t[i].type # "=") THEN NoTree
      ELSE [op |-> "assign", name |-> t[1].name, appends |-> appends,
            idx |-> IF path.k = "VAR" THEN None ELSE path,
            ass_type |-> t[i].type, expr |-> value]

NameTree(t) ==
  LET args == From(t, 2)
      at == {i \in Outside(args) : args[i].type \in Assignments}
  IN  CASE Len(t) > 1 /\ t[2].type = ":" ->
             IF Len(t) = 2 THEN [op |-> "label", name |-> t[1].name] ELSE NoTree
        [] at # {} /\ args[1].type # ":" -> AssignmentTree(t, Min(at) + 1)
        [] OTHER ->
             IF \E i \in DOMAIN args : args[i].type \in AtIdentifiers THEN NoTree
             ELSE [op |-> "instruction", name |-> t[1].name, args |-> Arguments(args)]

\* A statement of one line.
LineTree(t, in_loop) ==
  LET e == Grammar(From(t, 2))
      type == t[1].type
  IN  CASE type \in Directives -> IF e = NoTree THEN NoTree ELSE [op |-> type, expr |-> e]
        [] type \in {"@del", "@code"} /\ Len(t) = 2 /\ t[2].type = "NAME" ->
             [op |-> type, name |-> t[2].name]
        [] type \in {"@break", "@continue"} /\ Len(t) = 1 /\ in_loop -> [op |-> type]
        [] type = "NAME" -> NameTree(t)
        [] OTHER -> NoTree

Line(t) == Min({i \in DOMAIN t : t[i].type = "NEWLINE"})

\* How many blocks are open behind token i.
Blocks(t, i) ==
  Cardinality({j \in 1..i : t[j].type = "INDENT"})
    - Cardinality({j \in 1..i : t[j].type = "DEDENT"})

\* The end of the block that begins behind the first line.
BlockOf(t) ==
  LET i == Line(t)
  IN  IF i < Len(t) /\ t[i + 1].type = "INDENT"
      THEN Min({j \in (i + 2)..Len(t) : Blocks(t, j) = 0}) ELSE 0

RECURSIVE Body(_, _, _), Branches(_, _, _)

BranchWith(t, body, depth) ==
  [ok |-> BlockOf(t) # 0 /\ depth < MAX_CTX_BLOCK_LEVEL /\ body.ok,
   cond |-> Grammar(SubSeq(t, 2, Line(t) - 1)), body |-> body.stmts,
   else_ |-> Line(t) = 2]

\* A line and its block; cond is NoTree when there is none to be.
Branch(t, in_loop, depth) ==
  BranchWith(t, Body(SubSeq(t, Line(t) + 2, BlockOf(t) - 1), in_loop, depth + 1), depth)

Branched(b) == [cond |-> b.cond, body |-> b.body]

NoBranches == [ok |-> FALSE, branches |-> << >>, otherwise |-> << >>, rest |-> << >>]

LastBranch(b, otherwise, rest) ==
  [ok |-> TRUE, branches |-> <<Branched(b)>>, otherwise |-> otherwise, rest |-> rest]

WithElse(b, last, rest) ==
  IF last.ok /\ last.else_ THEN LastBranch(b, <<last.body>>, From(rest, BlockOf(rest) + 1))
  ELSE NoBranches

WithElif(b, more) == [more EXCEPT !.branches = <<Branched(b)>> \o @]

\* What follows the branch b of an @if or @elif up to an @else.
BranchesBehind(b, rest, in_loop, depth) ==
  IF ~b.ok \/ b.cond = NoTree THEN NoBranches
  ELSE CASE rest # << >> /\ rest[1].type = "@elif" ->
              WithElif(b, Branches(rest, in_loop, depth))
         [] rest # << >> /\ rest[1].type = "@else" ->
              WithElse(b, Branch(rest, in_loop, depth), rest)
         [] OTHER -> LastBranch(b, << >>, rest)

Branches(t, in_loop, depth) ==
  BranchesBehind(Branch(t, in_loop, depth), From(t, BlockOf(t) + 1), in_loop, depth)

Joined(stmt, others) ==
  IF others.ok THEN [ok |-> TRUE, stmts |-> <<stmt>> \o others.stmts] ELSE NoBody

WithIf(chain, in_loop, depth) ==
  IF chain.ok
  THEN Joined([op |-> "if", branches |-> chain.branches, otherwise |-> chain.otherwise],
              Body(chain.rest, in_loop, depth))
  ELSE NoBody

WithLoop(t, loop, in_loop, depth) ==
  IF loop.ok /\ loop.cond # NoTree
  THEN Joined([op |-> t[1].type, loop |-> Branched(loop)],
              Body(From(t, BlockOf(t) + 1), in_loop, depth))
  ELSE NoBody

WithLine(t, line, in_loop, depth) ==
  IF line = NoTree THEN NoBody ELSE Joined(line, Body(From(t, Line(t) + 1), in_loop, depth))

\* The statements of a block.
Body(t, in_loop, depth) ==
  CASE t = << >> -> [ok |-> TRUE, stmts |-> << >>]
    [] t # << >> /\ t[1].type = "NEWLINE" -> Body(Tail(t), in_loop, depth)
    [] t # << >> /\ t[1].type = "@if" -> WithIf(Branches(t, in_loop, depth), in_loop, depth)
    [] t # << >> /\ t[1].type \in {"@while", "@repeat"} ->
         WithLoop(t, Branch(t, TRUE, depth), in_loop, depth)
    [] OTHER -> WithLine(t, LineTree(UpTo(t, Line(t) - 1), in_loop), in_loop, depth)

ProgramTree(t) == Body(UpTo(t, Len(t) - 1), FALSE, 1)

----------------------------------------------------------------------------
(* Statements without memory                                               *)

RECURSIVE UnfoldStatements(_, _)

UnfoldStatements(stmts, els) ==
  LET Both(b) == [cond |-> Unfold(b.cond, els), body |-> UnfoldStatements(b.body, els)]
      One(s) ==
        CASE s.op = "assign" -> [s EXCEPT !.idx = Unfold(@, els), !.expr = Unfold(@, els)]
          [] s.op \in Directives -> [s EXCEPT !.expr = Unfold(@, els)]
          [] s.op \in {"@while", "@repeat"} -> [s EXCEPT !.loop = Both(@)]
          [] s.op = "if" ->
               [s EXCEPT !.branches = [i \in DOMAIN @ |-> Both(@[i])],
                         !.otherwise = [i \in DOMAIN @ |-> UnfoldStatements(@[i], els)]]
          [] OTHER -> s
  IN  [i \in DOMAIN stmts |-> One(stmts[i])]

----------------------------------------------------------------------------
(* Pure values: numbers, strings, and arrays that are sequences of values. *)
(* A value is Anything when one of these cases has been met, which the     *)
(* code gets wrong or leaves to the machine:                               *)
(*   UncheckedPlus    + between types that are not checked, as one operand *)
(*                    is more than a name or a literal;                    *)
(*   IntMinusDouble   an integer less a double reads the double's bits;    *)
(*   MixedModulo      % of an integer and a double reads the integer's;    *)
(*   ModuloWraps      (a % b) + b leaves the integers;                     *)
(*   ModuloTraps      NINT_MIN % -1;                                       *)
(*   ShiftLost        a shift that loses bits, or by a count out of range; *)
(*   NestedLiteral    an array literal in another one is never evaluated;  *)
(*   StringIndex      an assignment to a character of a string;            *)
(*   ReadsItsTarget   a new variable, or an array appended to, is named in *)
(*                    what is to be stored.                                *)

Anything == [type |-> "ANY"]

RECURSIVE PureIn(_, _, _)

\* The value behind the lists of memory.
PureIn(v, els, outer) ==
  LET cells == Cells(v, els)
      Item(e) == IF e = 0 \/ e \in outer THEN Broken
                 ELSE IF ~IsValue(e, els) THEN Broken
                 ELSE PureIn(ValueOf(e, els), els, outer \cup Range(cells))
  IN  IF v.type # "ARRAY" THEN v
      ELSE [type |-> "ARRAY", items |-> [i \in DOMAIN cells |-> Item(cells[i])]]

Pure(v, els) == PureIn(v, els, {})

PureVariables(env, els) == [name \in DOMAIN env |-> Pure(env[name], els)]

Real(v) == IF v.type = "INT" THEN Fraction(v.number, 1) ELSE v.flt

RECURSIVE Same(_, _)

Same(l, r) ==
  CASE l.type \in Numeric /\ r.type \in Numeric -> Real(l) = Real(r)
    [] l.type = "STR" /\ r.type = "STR" -> l.str = r.str
    [] l.type = "ARRAY" /\ r.type = "ARRAY" ->
         /\ Len(l.items) = Len(r.items)
         /\ \A i \in DOMAIN l.items : Same(l.items[i], r.items[i])
    [] OTHER -> FALSE

Holding(v) ==
  CASE v.type = "ARRAY" -> v.items # << >>
    [] v.type = "STR" -> v.str # << >>
    [] v.type \in Numeric -> Real(v).num # 0

ItemsOf(v) == IF v.type = "STR" THEN [i \in DOMAIN v.str |-> String(<<v.str[i]>>)] ELSE v.items

\* The place an index stands for, from either end.
PlaceOf(v, index) ==
  {i \in DOMAIN ItemsOf(v) : i = index + 1 \/ i = Len(ItemsOf(v)) + index + 1}

\* The bits of an integer.
BitOf(n, i) == (n \div 2 ^ i) % 2
FromBits(b) == CHOOSE n \in NintMin..NintMax : \A i \in 0..(IntBits - 1) : BitOf(n, i) = b[i]

\* The quotient: what is left has the sign of a, or is 0, and is less than b.
QuotientOf(a, b) ==
  CHOOSE q \in (-NintMax - 1)..(NintMax + 1) :
    LET left == a - q * b
    IN  /\ left * left < b * b
        /\ left * a >= 0

\* The remainder that has the sign of b.
RemainderOf(a, b) == IF b > 0 THEN a % b ELSE -((-a) % (-b))

IdealInts(op, a, b) ==
  LET Bitwise(f(_, _)) == Integer(FromBits([i \in 0..(IntBits - 1) |-> f(BitOf(a, i), BitOf(b, i))]))
  IN  CASE op = "+" -> Ranged(a + b)
        [] op = "-" -> Ranged(a - b)
        [] op = "*" -> Ranged(a * b)
        [] op = "/" -> IF b = 0 THEN Fails ELSE Ranged(QuotientOf(a, b))
        [] op = "%" -> IF b = 0 THEN Fails
                       ELSE IF b = -1 /\ a = NintMin THEN Anything
                       ELSE IF ~IsNint(Remainder(a, b) + b) THEN Anything
                       ELSE Integer(RemainderOf(a, b))
        [] op = "<<" -> IF b \notin 0..(IntBits - 1) THEN Anything
                        ELSE IF IsNint(a * 2 ^ b) THEN Integer(a * 2 ^ b) ELSE Anything
        [] op = ">>" -> IF b \notin 0..(IntBits - 1) THEN Anything
                        ELSE Integer(Max({q \in NintMin..NintMax : q * 2 ^ b <= a}))
        [] op = "&" -> Bitwise(LAMBDA x, y : x * y)
        [] op = "|" -> Bitwise(LAMBDA x, y : x + y - x * y)
        [] op = "^" -> Bitwise(LAMBDA x, y : (x + y) % 2)

\* Where at least one is a double.
IdealDoubles(op, l, r) ==
  LET p == Real(l)  q == Real(r)
      whole == CHOOSE m \in -(2 * NintMax)..(2 * NintMax) :
                 /\ ~FLess(FDiv(p, q), Fraction(m, 1))
                 /\ FLess(FDiv(p, q), Fraction(m + 1, 1))
  IN  CASE op = "+" -> Decimal(FAdd(p, q))
        [] op = "-" -> IF l.type = "INT" THEN Anything ELSE Decimal(FSub(p, q))
        [] op = "*" -> Decimal(FMul(p, q))
        [] op = "/" -> IF q.num = 0 THEN Fails ELSE Decimal(FDiv(p, q))
        [] op = "%" -> IF q.num = 0 THEN Fails
                       ELSE IF l.type # r.type THEN Anything
                       ELSE Decimal(FSub(p, FMul(Fraction(whole, 1), q)))

\* Operators on numbers, or on integers only.
IdealNumeric(op, l, r) ==
  LET both == {l.type, r.type}
  IN  CASE op \in {"<", "<=", ">", ">="} /\ both \subseteq Numeric ->
             LET d == FSub(Real(l), Real(r)).num
             IN  Truth(CASE op = "<" -> d < 0 [] op = "<=" -> d <= 0
                         [] op = ">" -> d > 0 [] op = ">=" -> d >= 0)
        [] op \in {"+", "-", "*", "/", "%"} /\ both \subseteq Numeric ->
             IF both = {"INT"} THEN IdealInts(op, l.number, r.number) ELSE IdealDoubles(op, l, r)
        [] op \in {"<<", ">>", "&", "|", "^"} /\ both = {"INT"} ->
             IdealInts(op, l.number, r.number)
        [] OTHER -> Fails

\* An operator between two values; the node says whether + is checked.
IdealBinop(n, l, r) ==
  CASE n.op = "==" -> Truth(Same(l, r))
    [] n.op = "!=" -> Truth(~Same(l, r))
    [] n.op = "[" ->
         IF l.type \notin {"ARRAY", "STR"} \/ r.type # "INT" THEN Fails
         ELSE IF PlaceOf(l, r.number) = {} THEN Fails
         ELSE ItemsOf(l)[Min(PlaceOf(l, r.number))]
    [] n.op = "+" /\ l.type = "STR" /\ r.type = "STR" -> String(l.str \o r.str)
    [] n.op = "+" /\ ~({l.type, r.type} \subseteq Numeric) /\ {l.type, r.type} # {"STR"} ->
         IF {n.left.k, n.right.k} \subseteq {"LITERAL", "ARRAY", "VAR", "LEN"} THEN Fails ELSE Anything
    [] OTHER -> IdealNumeric(n.op, l, r)

IdealUnary(op, v) ==
  CASE op = "!" -> Truth(~Holding(v))
    [] op = "~" /\ v.type = "INT" -> Integer(FromBits([i \in 0..(IntBits - 1) |-> 1 - BitOf(v.number, i)]))
    [] op = "+" /\ v.type \in Numeric -> v
    [] op = "-" /\ v.type = "INT" -> Ranged(-v.number)
    [] op = "-" /\ v.type = "DOUBLE" -> Decimal(Fraction(-v.flt.num, v.flt.den))
    [] OTHER -> Fails

RECURSIVE IsConstant(_)

IsConstant(n) == n.k = "LITERAL" \/ (n.k = "ARRAY" /\ \A i \in DOMAIN n.items : IsConstant(n.items[i]))

\* Nothing is to be computed in an array that stands in another one.
NestedLiteral(n) ==
  \E i \in DOMAIN n.items : n.items[i].k = "ARRAY" /\ ~IsConstant(n.items[i])

\* The first of what is Anything, or Fails, in a set of values; else v.
Unless(vs, v) == IF Anything \in vs THEN Anything ELSE IF Fails \in vs THEN Fails ELSE v

RECURSIVE Ideal(_, _)

\* What an expression means when the variables have the values of env.
Ideal(n, env) ==
  LET l == Ideal(n.left, env)
      r == Ideal(n.right, env)
      items == [i \in DOMAIN n.items |-> Ideal(n.items[i], env)]
      inner == Ideal(n.expr, env)
  IN  CASE n.k = "LITERAL" -> n.value
        [] n.k = "DOLLAR" -> Integer(Address)
        [] n.k = "VAR" -> IF n.name \in DOMAIN env THEN env[n.name] ELSE Fails
        [] n.k = "ARRAY" ->
             IF NestedLiteral(n) THEN Anything
             ELSE Unless(Range(items), [type |-> "ARRAY", items |-> items])
        [] n.k = "LEN" ->
             Unless({inner}, IF inner.type \in {"ARRAY", "STR"} THEN Integer(Len(ItemsOf(inner)))
                             ELSE Fails)
        [] n.k = "UNARY" -> Unless({l}, IdealUnary(n.op, l))
        [] n.k = "BINOP" /\ n.op \in {"&&", "||"} ->
             Unless({l}, IF Holding(l) = (n.op = "||") THEN Truth(n.op = "||")
                         ELSE Unless({r}, Truth(Holding(r))))
        [] n.k = "BINOP" /\ n.op \notin {"&&", "||"} -> Unless({l, r}, IdealBinop(n, l, r))

----------------------------------------------------------------------------
(* What an assignment does to the values of the variables                  *)

AtPath(at) == [type |-> "PATH", at |-> at]

RECURSIVE Where(_, _), ItemAt(_, _), Replaced(_, _, _), NamesIn(_), Compares(_)

\* The indices, from the variable on, of the element that is meant.
Where(n, env) ==
  LET up == Where(n.left, env)
      v  == Ideal(n.left, env)
      r  == Ideal(n.right, env)
  IN  CASE n.k \in {"NULL", "VAR"} -> AtPath(<< >>)
        [] OTHER ->
             Unless({up, v, r},
                    IF v.type = "STR" THEN Anything
                    ELSE IF v.type # "ARRAY" \/ r.type # "INT" THEN Fails
                    ELSE IF PlaceOf(v, r.number) = {} THEN Fails
                    ELSE AtPath(Append(up.at, Min(PlaceOf(v, r.number)))))

ItemAt(v, at) == IF at = << >> THEN v ELSE ItemAt(v.items[at[1]], Tail(at))

Replaced(v, at, new) ==
  IF at = << >> THEN new ELSE [v EXCEPT !.items[at[1]] = Replaced(@, Tail(at), new)]

NamesIn(n) ==
  CASE n.k = "VAR" -> {n.name}
    [] n.k = "ARRAY" -> UNION {NamesIn(n.items[i]) : i \in DOMAIN n.items}
    [] n.k = "LEN" -> NamesIn(n.expr)
    [] n.k = "UNARY" -> NamesIn(n.left)
    [] n.k = "BINOP" -> NamesIn(n.left) \cup NamesIn(n.right)
    [] OTHER -> {}

Compares(n) ==
  CASE n.k = "ARRAY" -> \E i \in DOMAIN n.items : Compares(n.items[i])
    [] n.k = "LEN" -> Compares(n.expr)
    [] n.k = "UNARY" -> Compares(n.left)
    [] n.k = "BINOP" -> n.op \in {"==", "!="} \/ Compares(n.left) \/ Compares(n.right)
    [] OTHER -> FALSE

IdealValue(s, env) ==
  IF s.name \in NamesIn(s.expr) /\ (s.name \notin DOMAIN env \/ s.appends) THEN Anything
  ELSE Ideal(RightSide(s), env)

\* The variables behind an assignment.
IdealAssign(s, env) ==
  LET new    == s.name \notin DOMAIN env
      path   == Where(s.idx, env)
      target == ItemAt(env[s.name], path.at)
      value  == IdealValue(s, env)
      With(v) == [type |-> "VARIABLES", env |-> (s.name :> v) @@ env]
  IN  CASE new /\ (s.idx # None \/ s.appends \/ s.ass_type # "=") -> Fails
        [] new /\ s.idx = None /\ ~s.appends /\ s.ass_type = "=" -> Unless({value}, With(value))
        [] ~new /\ s.appends ->
             Unless({path},
                    IF target.type # "ARRAY" THEN Fails
                    ELSE Unless({value},
                                With(Replaced(env[s.name], path.at,
                                              [target EXCEPT !.items = Append(@, value)]))))
        [] ~new /\ ~s.appends ->
             Unless({path}, Unless({value}, With(Replaced(env[s.name], path.at, value))))

----------------------------------------------------------------------------
(* The lists in memory                                                     *)

RECURSIVE WellFormed(_, _, _), AllCells(_, _)

\* As many elements as the array has, the last of them its tail, each a value,
\* and none of those that the array itself is in.
WellFormed(v, els, outer) ==
  LET cells == Cells(v, els)
  IN  v.type = "ARRAY" =>
        /\ \A i \in DOMAIN cells : cells[i] # 0 /\ cells[i] \notin outer
        /\ v.len > 0 => cells[v.len] = v.tail
        /\ \A i \in DOMAIN cells :
             /\ IsValue(cells[i], els)
             /\ WellFormed(ValueOf(cells[i], els), els, outer \cup Range(cells))

\* The elements of an array, and of the arrays in it.
AllCells(v, els) ==
  IF v.type # "ARRAY" THEN << >>
  ELSE Cells(v, els) \o FlattenSeq([i \in 1..v.len |-> AllCells(ValueOf(Cells(v, els)[i], els), els)])

\* Every list is well formed, and no element is in two of them.
Tidy(env, els) ==
  /\ \A name \in DOMAIN env : WellFormed(env[name], els, {})
  /\ \A name \in DOMAIN env : IsInjective(AllCells(env[name], els))
  /\ \A a, b \in DOMAIN env :
       a # b => Range(AllCells(env[a], els)) \cap Range(AllCells(env[b], els)) = {}

RECURSIVE ArraysIn(_, _), ArraysOf(_, _)

\* The arrays that a value, or a tree, holds.
ArraysIn(v, els) ==
  IF v.type # "ARRAY" THEN {}
  ELSE {v} \cup UNION {ArraysOf(els[Cells(v, els)[i]].this_expr, els) : i \in 1..v.len}

ArraysOf(n, els) ==
  CASE n.k = "LITERAL" -> ArraysIn(n.value, els)
    [] n.k = "LEN" -> ArraysOf(n.expr, els)
    [] n.k = "UNARY" -> ArraysOf(n.left, els)
    [] n.k = "BINOP" -> ArraysOf(n.left, els) \cup ArraysOf(n.right, els)
    [] OTHER -> {}

\* A list goes on behind the tail of an array that a statement can compare.
Overhangs(s, env, els) ==
  \E arr \in UNION {ArraysIn(env[name], els) : name \in DOMAIN env}
             \cup ArraysOf(s.idx, els) \cup ArraysOf(s.expr, els) :
    arr.tail # 0 /\ els[arr.tail].next # 0

----------------------------------------------------------------------------

HInit == Init /\ written = << >> /\ first = NoVariables

HNext ==
  \/ /\ Parse
     /\ written' = UnfoldStatements(tree', elements')
     /\ UNCHANGED first
  \/ (Assign \/ End) /\ UNCHANGED <<written, first>>
  \/ SecondRound /\ first' = PureVariables(variables, elements) /\ UNCHANGED written

HSpec == HInit /\ [][HNext]_historyVars

----------------------------------------------------------------------------
(* Properties                                                              *)

IsFrac(q) == q.num \in Int /\ q.den \in Nat \ {0}

IsStored(v) ==
  CASE v.type = "INT" -> IsNint(v.number)
    [] v.type = "DOUBLE" -> IsFrac(v.flt)
    [] v.type = "STR" -> v.str \in Seq(STRING)
    [] v.type = "ARRAY" ->
         /\ v.len \in Nat /\ {v.head, v.tail} \subseteq 0..Len(elements)
         /\ (v.head = 0) = (v.len = 0) /\ (v.tail = 0) = (v.len = 0)
    [] v.type = "UNWRITTEN" -> TRUE

\* Every integer fits its width, every pointer of a list is to an element that
\* was made, and nothing is left unwritten while statements run.
TypeOK ==
  /\ again \in {"none", "pass", "loop"} /\ round \in {1, 2}
  /\ result \in {"parsing", "refused", "parsed", "running", "done", "FAIL", "WILD", "CRASH"}
  /\ pc \in 1..(Len(tree) + 1)
  /\ \A e \in DOMAIN elements :
       /\ elements[e].next \in 0..Len(elements)
       /\ elements[e].this_expr.k = "LITERAL" => IsStored(elements[e].this_expr.value)
  /\ \A name \in DOMAIN variables : IsStored(variables[name])
  /\ result = "running" => Unwritten \notin Range(variables)

\* The condition of an @elif that is no expression is accepted: parser.c tests
\* the condition of the @if again.
DropsElifCondition(t) ==
  \E i \in DOMAIN t :
    /\ t[i].type = "@elif"
    /\ LET rest == From(t, i) IN Grammar(SubSeq(rest, 2, Line(rest) - 1)) = NoTree

JustRead == result \in {"parsed", "refused"} \/ (result = "running" /\ pc = 1 /\ round = 1)

ReadIs(program) ==
  IF result = "refused" THEN ~program.ok ELSE program = [ok |-> TRUE, stmts |-> written]

\* The parser accepts what the grammar does and nests it in the same way:
\* operators by their power and from the left, indices and signs closer than
\* any, statements in their blocks, branches with their @if, jumps in loops.
ReadAsWritten ==
  JustRead /\ ~DropsElifCondition(text) => ReadIs(ProgramTree(text))

\* The next step is an assignment, over lists that are what they should be
\* and literals that are what they were: one with something to compute in it
\* has only been there once, and nothing was stored into it.
Regular ==
  /\ result = "running" /\ pc <= Len(tree)
  /\ Tidy(variables, elements)
  /\ UnfoldStatements(<<tree[pc]>>, elements) = <<written[pc]>>
  /\ Compares(written[pc].expr) \/ Compares(written[pc].idx) =>
       ~Overhangs(tree[pc], variables, elements)

\* An assignment to a variable, an element or the end of an array leaves the
\* values that its expression means, fails where it means nothing, and never
\* reads what nobody wrote or follows a NULL pointer.
StepIsMeaning ==
  [][Regular =>
       LET ideal == IdealAssign(written[pc], PureVariables(variables, elements))
       IN  CASE ideal = Fails -> result' = "FAIL"
             [] ideal = Anything -> TRUE
             [] OTHER -> /\ result' = "running"
                         /\ PureVariables(variables', elements') = ideal.env]_vars

\* The stored value is no array that some variable has already.
StoresNoCopy(s, env) ==
  LET v == IdealValue(s, env)
  IN  /\ v.type # "ANY"
      /\ v.type = "ARRAY" =>
           /\ s.expr.k = "ARRAY"
           /\ \A name \in NamesIn(s.expr) \cap DOMAIN env : env[name].type # "ARRAY"

\* In a first round no assignment ties two arrays together, loses an element
\* or leaves one uncomputed, unless it copies an array.
ArraysStayApart ==
  [][/\ Regular /\ round = 1 /\ result' = "running"
     /\ StoresNoCopy(written[pc], PureVariables(variables, elements))
     => Tidy(variables', elements')]_vars

\* The last pass ends with the values of the first, although it runs over the
\* tree the first one has evaluated arrays in, when no element is assigned to
\* and no array compared.
PassesAgree ==
  /\ again = "pass" /\ round = 2
  /\ \A i \in DOMAIN written : written[i].idx = None /\ ~Compares(written[i].expr)
  => /\ result \in {"running", "done"}
     /\ result = "done" => PureVariables(variables, elements) = first
=============================================================================
