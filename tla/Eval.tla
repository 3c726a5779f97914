-------------------------------- MODULE Eval --------------------------------
(***************************************************************************)
(* Expressions and assignments of src/core/eval.c over the trees of        *)
(* Parser.  The two rounds of a program are the two passes over one tree,  *)
(* or two rounds of a loop around it; what else TwoPass has of eval_ast is *)
(* not repeated here.                                                      *)
(*                                                                         *)
(* The elements of arrays live in the tree and in memory alike: an element *)
(* is known by its number, and a value of type ARRAY is a copy of three    *)
(* fields, head, tail and len, that many places may hold.  Integers keep   *)
(* their width, doubles are fractions.                                     *)
(***************************************************************************)
EXTENDS Parser, Bitwise

CONSTANTS
  Texts,        \* sets of token lists that are parsed, and not run; a sequence of them
  Programs,     \* the same of assignments, which are run as well
  Address,      \* p->addr
  Pun           \* what a member of a struct Value reads as when another one was written

ASSUME EvalAssumption == Pun \in Int \ {0}

VARIABLES
  text,         \* the tokens
  again,        \* the second round is none, the last pass, or a loop's next round
  tree,         \* the statements
  elements,     \* the array elements
  variables,    \* a function on the names declared
  pc, round,
  result        \* "parsing", "running", or how it ended

vars == <<text, again, tree, elements, variables, pc, round, result>>

----------------------------------------------------------------------------
(* Values                                                                  *)

Integer(n) == [type |-> "INT", number |-> n]
String(s)  == [type |-> "STR", str |-> s]
Unwritten  == [type |-> "UNWRITTEN"]      \* a structure nobody has stored into

Truth(b) == Integer(IF b THEN 1 ELSE 0)

Numeric == {"INT", "DOUBLE"}

IntBits == CHOOSE n \in 1..64 : 2 ^ n = UnintMax + 1

\* The members number and flt, the other one converted where the code does it.
NumberOf(v) == IF v.type = "INT" THEN v.number ELSE Pun
FltOf(v)    == IF v.type = "DOUBLE" THEN v.flt ELSE Fraction(Pun, 1)
Promoted(v) == IF v.type = "INT" THEN Fraction(v.number, 1) ELSE FltOf(v)

\* bool_eval
BoolEval(v) ==
  CASE v.type = "INT"    -> v.number # 0
    [] v.type = "STR"    -> v.str # << >>
    [] v.type = "DOUBLE" -> v.flt.num # 0
    [] v.type = "ARRAY"  -> v.len # 0

QuotientRoundedDown(a, b) == IF b > 0 THEN a \div b ELSE (-a) \div (-b)

\* Division as C rounds it, towards zero.
Quotient(a, b) ==
  LET Abs(n) == IF n < 0 THEN -n ELSE n
      q == Abs(a) \div Abs(b)
  IN  IF (a < 0) = (b < 0) THEN q ELSE -q
Remainder(a, b) == a - b * Quotient(a, b)

FAdd(p, q) == Fraction(p.num * q.den + q.num * p.den, p.den * q.den)
FSub(p, q) == FAdd(p, [q EXCEPT !.num = -@])
FMul(p, q) == Fraction(p.num * q.num, p.den * q.den)
FDiv(p, q) == Fraction(p.num * q.den, p.den * q.num)
FLess(p, q) == p.num * q.den < q.num * p.den
FMod(p, q) ==
  LET d == FDiv(p, q)
  IN  FSub(p, FMul(Fraction(Quotient(d.num, d.den), 1), q))

----------------------------------------------------------------------------
(* How an evaluation ends: SUCCESS or FAIL, CRASH when it traps or follows *)
(* a NULL pointer, WILD when it uses memory that holds something else.     *)
(* ref is *var_ref_idx, the element whose value was indexed last.          *)

Done(val, els, ref) == [st |-> "SUCCESS", val |-> val, els |-> els, ref |-> ref]
Ended(how, els)     == [st |-> how, els |-> els]

Answer(val, els, ref) == IF val = Fails THEN Ended("FAIL", els) ELSE Done(val, els, ref)

\* A number, when the width holds it.
Ranged(n) == IF IsNint(n) THEN Integer(n) ELSE Fails

\* _type_check: a set of types is empty while its side has not been evaluated.
TypeCheck(op, left, right) ==
  LET both == left \cup right
  IN  CASE op = "+" -> \/ left = {} \/ right = {}
                       \/ both = {"STR"} \/ both \subseteq Numeric
        [] op \in {"-", "/", "*", "%", "<", "<=", ">", ">="} -> both \subseteq Numeric
        [] op \in {"<<", ">>", "&", "|", "^"} -> both \subseteq {"INT"}
        [] op = "[" -> left \subseteq {"ARRAY", "STR"} /\ right \subseteq {"INT"}
        [] OTHER -> TRUE

UnaryCheck(op, type) ==
  CASE op \in {"+", "-"} -> type \in Numeric
    [] op = "~" -> type = "INT"
    [] op = "!" -> TRUE

\* The operators of one operand.
UnaryValue(op, v) ==
  CASE op = "+" -> v
    [] op = "-" /\ v.type = "INT" -> Ranged(-v.number)
    [] op = "-" /\ v.type = "DOUBLE" -> Decimal(FSub(Fraction(0, 1), v.flt))
    [] op = "~" -> Integer(-v.number - 1)
    [] op = "!" -> Truth(~BoolEval(v))

Plus(l, r) ==
  CASE l.type = "STR" /\ r.type = "STR" -> String(l.str \o r.str)
    [] l.type = "INT" /\ r.type = "INT" -> Ranged(l.number + r.number)
    [] OTHER -> Decimal(FAdd(Promoted(l), Promoted(r)))

\* Only the left operand is asked for its type.
Minus(l, r) ==
  IF l.type = "INT" THEN Ranged(l.number - NumberOf(r))
  ELSE Decimal(FSub(Promoted(l), Promoted(r)))

IsZero(v) == ~BoolEval(v)

\* An integer next to a double is not converted.
Modulo(l, r) ==
  IF "DOUBLE" \in {l.type, r.type}
  THEN LET b == FltOf(r) IN Decimal(FMod(FAdd(FMod(FltOf(l), b), b), b))
  ELSE Integer(Remainder(Signed(Remainder(l.number, r.number) + r.number), r.number))

Divided(l, r) ==
  IF "DOUBLE" \in {l.type, r.type} THEN Decimal(FDiv(Promoted(l), Promoted(r)))
  ELSE IF l.number = NintMin /\ r.number = -1 THEN Fails
  ELSE Integer(Quotient(l.number, r.number))

\* The four tests in front of a product, as they are nested in the code.
MulOverflows(a, b) ==
  IF a > 0
  THEN IF b > 0 THEN a > Quotient(NintMax, b) ELSE b < Quotient(NintMin, a)
  ELSE IF b > 0 THEN a < Quotient(NintMin, b) ELSE a # 0 /\ b < Quotient(NintMax, a)

Times(l, r) ==
  IF "DOUBLE" \in {l.type, r.type} THEN Decimal(FMul(Promoted(l), Promoted(r)))
  ELSE IF MulOverflows(l.number, r.number) THEN Fails
  ELSE Integer(l.number * r.number)

\* The count of a shift is taken modulo the width, as the processor does it.
Shifted(op, a, count) ==
  LET by == 2 ^ (count % IntBits)
  IN  Integer(IF op = "<<" THEN Signed(a * by) ELSE a \div by)

Bits(op, a, b) ==
  LET x == Unsigned(a)  y == Unsigned(b)
  IN  Integer(Signed(CASE op = "&" -> x & y [] op = "|" -> x | y [] op = "^" -> x ^^ y))

Related(op, l, r) ==
  LET p == Promoted(l)  q == Promoted(r)
  IN  Truth(CASE op = "<" -> FLess(p, q) [] op = "<=" -> ~FLess(q, p)
              [] op = ">" -> FLess(q, p) [] op = ">=" -> ~FLess(p, q))

----------------------------------------------------------------------------
(* Arrays                                                                  *)

\* The value of an element, when its expression is a literal by now.
IsValue(e, els) ==
  /\ els[e].this_expr.k = "LITERAL"
  /\ els[e].this_expr.value # Unwritten

ValueOf(e, els) == els[e].this_expr.value

RECURSIVE Compare(_, _, _), CompareFrom(_, _, _)

\* _equality_check: "EQ", "NE", or how it ends before it knows.
Compare(l, r, els) ==
  CASE l.type \in Numeric /\ r.type \in Numeric ->
         IF Promoted(l) = Promoted(r) THEN "EQ" ELSE "NE"
    [] l.type \in Numeric /\ r.type \notin Numeric -> "NE"
    [] l.type \notin Numeric /\ l.type # r.type -> "NE"
    [] l.type = "STR" /\ r.type = "STR" -> IF l.str = r.str THEN "EQ" ELSE "NE"
    [] l.type = "ARRAY" /\ r.type = "ARRAY" ->
         IF l.len = r.len THEN CompareFrom(l.head, r.head, els) ELSE "NE"

\* Along both lists to the end of the left one, whatever its array's length is.
CompareFrom(a, b, els) ==
  CASE a = 0 -> "EQ"
    [] a # 0 /\ b = 0 -> "CRASH"
    [] OTHER ->
         IF ~IsValue(a, els) \/ ~IsValue(b, els) THEN "WILD"
         ELSE LET c == Compare(ValueOf(a, els), ValueOf(b, els), els)
              IN  IF c = "EQ" THEN CompareFrom(els[a].next, els[b].next, els) ELSE c

Equality(op, l, r, els, ref) ==
  LET c == Compare(l, r, els)
  IN  IF c \in {"EQ", "NE"} THEN Done(Truth((c = "EQ") = (op = "==")), els, ref)
      ELSE Ended(c, els)

\* The element steps behind e; 0 when the list is too short.
RECURSIVE Walk(_, _, _)
Walk(e, steps, els) == IF steps = 0 \/ e = 0 THEN e ELSE Walk(els[e].next, steps - 1, els)

\* An index; a negative one counts from the end.
Indexed(l, r, els, ref) ==
  LET len   == IF l.type = "ARRAY" THEN l.len ELSE Len(l.str)
      index == IF r.number < 0 THEN len + r.number ELSE r.number
      el    == Walk(l.head, index, els)
  IN  CASE index \notin 0..(len - 1) -> Ended("FAIL", els)
        [] index \in 0..(len - 1) /\ l.type = "STR" ->
             Done(String(<<l.str[index + 1]>>), els, ref)
        [] index \in 0..(len - 1) /\ l.type = "ARRAY" ->
             IF el = 0 THEN Ended("CRASH", els)
             ELSE IF ~IsValue(el, els) THEN Ended("WILD", els)
             ELSE Done(ValueOf(el, els), els, el)

----------------------------------------------------------------------------
(* _eval_expr                                                              *)

\* An operator between two values.
Operate(op, l, r, els, ref) ==
  CASE op \in {"==", "!="} -> Equality(op, l, r, els, ref)
    [] op = "[" -> Indexed(l, r, els, ref)
    [] op \in {"/", "%"} /\ IsZero(r) -> Ended("FAIL", els)
    [] op = "/" /\ ~IsZero(r) -> Answer(Divided(l, r), els, ref)
    [] op = "%" /\ ~IsZero(r) ->
         IF l = Integer(NintMin) /\ r = Integer(-1) THEN Ended("CRASH", els)
         ELSE Done(Modulo(l, r), els, ref)
    [] op = "+" -> Answer(Plus(l, r), els, ref)
    [] op = "-" -> Answer(Minus(l, r), els, ref)
    [] op = "*" -> Answer(Times(l, r), els, ref)
    [] op \in {"<<", ">>"} -> Done(Shifted(op, l.number, r.number), els, ref)
    [] op \in {"&", "|", "^"} -> Done(Bits(op, l.number, r.number), els, ref)
    [] op \in {"<", "<=", ">", ">="} -> Done(Related(op, l, r), els, ref)

IsLeaf(n) == n.k \in {"LITERAL", "VAR", "LEN"}

RECURSIVE Evaluate(_, _, _, _), Freeze(_, _, _, _, _)

\* The elements up to NULL are the array's, also those appended to a copy.
FreezeToNull(arr, e, env, els, ref) ==
  LET expr   == els[e].this_expr
      v      == Evaluate(expr, env, els, ref)
      known  == expr.k = "LITERAL"
      frozen == IF known THEN els ELSE [v.els EXCEPT ![e].this_expr = Literal(v.val)]
      len    == Cardinality({n \in 1..Len(els) : Walk(arr.head, n - 1, els) # 0})
  IN  IF e = 0 THEN Done([arr EXCEPT !.len = len], els, ref)
      ELSE IF ~known /\ v.st # "SUCCESS" THEN v
      ELSE Freeze(arr, frozen[e].next, env, frozen, IF known THEN ref ELSE v.ref)

\* From element e on, what is not a literal is replaced by its value, in the tree.
Freeze(arr, e, env, els, ref) ==
  IF e = 0 THEN Done(arr, els, ref)
  ELSE LET expr   == els[e].this_expr
           v      == Evaluate(expr, env, els, ref)
           known  == expr.k = "LITERAL"
           frozen == IF known THEN els ELSE [v.els EXCEPT ![e].this_expr = Literal(v.val)]
           last   == IF known THEN ref ELSE v.ref
       IN  IF ~known /\ v.st # "SUCCESS" THEN v
           ELSE IF e = arr.tail THEN Done(arr, frozen, last)
           ELSE Freeze(arr, frozen[e].next, env, frozen, last)

\* && and ||
Logical(n, env, els, ref) ==
  LET l == Evaluate(n.left, env, els, ref)
      r == Evaluate(n.right, env, l.els, l.ref)
  IN  IF l.st # "SUCCESS" THEN l
      ELSE IF BoolEval(l.val) = (n.op = "||") THEN Done(Truth(n.op = "||"), l.els, l.ref)
      ELSE IF r.st # "SUCCESS" THEN r
      ELSE Done(Truth(BoolEval(r.val)), r.els, r.ref)

\* A left operand first; two leaves are checked together.
LeftFirst(n, env, els, ref) ==
  LET l == Evaluate(n.left, env, els, ref)
      r == Evaluate(n.right, env, l.els, l.ref)
      together == IsLeaf(n.left) /\ IsLeaf(n.right)
      Known(v) == IF together THEN {v.val.type} ELSE {}
  IN  IF l.st # "SUCCESS" THEN l
      ELSE IF ~together /\ ~TypeCheck(n.op, {l.val.type}, {}) THEN Ended("FAIL", l.els)
      ELSE IF r.st # "SUCCESS" THEN r
      ELSE IF ~TypeCheck(n.op, Known(l), {r.val.type}) THEN Ended("FAIL", r.els)
      ELSE Operate(n.op, l.val, r.val, r.els, r.ref)

\* A leaf to the right of what is none is evaluated, and checked, in front of it.
RightFirst(n, env, els, ref) ==
  LET r == Evaluate(n.right, env, els, ref)
      l == Evaluate(n.left, env, r.els, r.ref)
  IN  IF r.st # "SUCCESS" THEN r
      ELSE IF ~TypeCheck(n.op, {}, {r.val.type}) THEN Ended("FAIL", r.els)
      ELSE IF l.st # "SUCCESS" THEN l
      ELSE IF ~TypeCheck(n.op, {l.val.type}, {}) THEN Ended("FAIL", l.els)
      ELSE Operate(n.op, l.val, r.val, l.els, l.ref)

LenOf(v, els, ref) ==
  CASE v.type = "ARRAY" -> Done(Integer(v.len), els, ref)
    [] v.type = "STR"   -> Done(Integer(Len(v.str)), els, ref)
    [] OTHER            -> Ended("FAIL", els)

Evaluate(n, env, els, ref) ==
  CASE n.k = "LITERAL" ->
         IF n.value.type = "ARRAY" THEN Freeze(n.value, n.value.head, env, els, ref)
         ELSE Done(n.value, els, ref)
    [] n.k = "VAR" ->
         IF n.name \notin DOMAIN env THEN Ended("FAIL", els)
         ELSE IF env[n.name] = Unwritten THEN Ended("WILD", els)
         ELSE Done(env[n.name], els, ref)
    [] n.k = "DOLLAR" -> Done(Integer(Address), els, ref)
    [] n.k = "LEN" ->
         LET v == Evaluate(n.expr, env, els, 0)
         IN  IF v.st = "SUCCESS" THEN LenOf(v.val, v.els, ref) ELSE v
    [] n.k = "UNARY" ->
         LET v == Evaluate(n.left, env, els, ref)
         IN  IF v.st # "SUCCESS" THEN v
             ELSE IF UnaryCheck(n.op, v.val.type)
             THEN Answer(UnaryValue(n.op, v.val), v.els, v.ref)
             ELSE Ended("FAIL", v.els)
    [] n.k = "BINOP" ->
         IF n.op \in {"&&", "||"} THEN Logical(n, env, els, ref)
         ELSE IF IsLeaf(n.right) /\ ~IsLeaf(n.left) THEN RightFirst(n, env, els, ref)
         ELSE LeftFirst(n, env, els, ref)

----------------------------------------------------------------------------
(* An assignment (eval_ast)                                                *)

\* Where a value is to be stored: at an element, in the variable, or through NULL.
TheVariable == -1
Null == 0

\* assign_type_without_equal
WithoutEqual ==
  [op \in {"+="} |-> "+"] @@ [op \in {"-="} |-> "-"] @@ [op \in {"*="} |-> "*"]
    @@ [op \in {"/="} |-> "/"] @@ [op \in {"%="} |-> "%"] @@ [op \in {"&="} |-> "&"]
    @@ [op \in {"|="} |-> "|"] @@ [op \in {"^="} |-> "^"] @@ [op \in {"<<="} |-> "<<"]
    @@ [op \in {">>="} |-> ">>"]

\* What is evaluated: an augmented assignment reads its target once more.
RightSide(s) ==
  IF s.ass_type = "=" THEN s.expr
  ELSE Binop(WithoutEqual[s.ass_type],
             IF s.idx = None THEN VarNode(s.name) ELSE s.idx, s.expr)

\* The memory with v stored at a place.
Stored(name, place, v, env, els) ==
  IF place = TheVariable
  THEN [env |-> (name :> v) @@ env, els |-> els]
  ELSE [env |-> env, els |-> [els EXCEPT ![place].this_expr = Literal(v)]]

ValueAt(name, place, env, els) ==
  IF place = TheVariable THEN env[name] ELSE ValueOf(place, els)

AppendedPlaceKeepingTail(s, place, env, els) ==
  LET arr == ValueAt(s.name, place, env, els)
      a   == Appended(arr, els, Literal(Unwritten))
      m   == Stored(s.name, place, [a.arr EXCEPT !.tail = arr.tail], env, a.els)
  IN  [place |-> Len(m.els), env |-> m.env, els |-> m.els]

\* An append links an element first, whose value is not written yet.
AppendedPlace(s, place, env, els) ==
  LET a == Appended(ValueAt(s.name, place, env, els), els, Literal(Unwritten))
      m == Stored(s.name, place, a.arr, env, a.els)
  IN  [place |-> Len(m.els), env |-> m.env, els |-> m.els]

\* The target of s, whose index has the value at; a new variable is linked first, too.
TargetAt(s, at, env, els) ==
  LET place == IF s.idx = None THEN TheVariable ELSE at.ref
      known == IF s.idx = None THEN els ELSE at.els
      new   == s.name \notin DOMAIN env
  IN  CASE new /\ (s.idx # None \/ s.appends \/ s.ass_type # "=") -> Ended("FAIL", els)
        [] new /\ s.idx = None /\ ~s.appends /\ s.ass_type = "=" ->
             [st |-> "SUCCESS", place |-> TheVariable,
              env |-> (s.name :> Unwritten) @@ env, els |-> els]
        [] ~new /\ s.idx # None /\ at.st # "SUCCESS" -> at
        [] ~new /\ (s.idx = None \/ at.st = "SUCCESS") ->
             IF ~s.appends THEN [st |-> "SUCCESS", place |-> place, env |-> env, els |-> known]
             ELSE IF place = Null THEN Ended("CRASH", known)
             ELSE IF ValueAt(s.name, place, env, known).type # "ARRAY" THEN Ended("FAIL", known)
             ELSE [st |-> "SUCCESS"] @@ AppendedPlace(s, place, env, known)

Target(s, env, els) == TargetAt(s, Evaluate(s.idx, env, els, Null), env, els)

\* What the value is stored into, when target and value are there.
Finished(name, t, v) ==
  IF v.st = "SUCCESS" /\ t.place # Null
  THEN [st |-> "SUCCESS"] @@ Stored(name, t.place, v.val, t.env, v.els)
  ELSE [st |-> IF v.st = "SUCCESS" THEN "CRASH" ELSE v.st, env |-> t.env, els |-> v.els]

StoredInto(s, t, env) ==
  IF t.st = "SUCCESS" THEN Finished(s.name, t, Evaluate(RightSide(s), t.env, t.els, Null))
  ELSE [st |-> t.st, env |-> env, els |-> t.els]

\* The whole statement: the memory behind it, and how it ends.
Assigned(s, env, els) == StoredInto(s, Target(s, env, els), env)

----------------------------------------------------------------------------

NoVariables == [name \in {} |-> Unwritten]

Init ==
  /\ \/ (\E i \in DOMAIN Texts : text \in Texts[i]) /\ again = "none"
     \/ (\E i \in DOMAIN Programs : text \in Programs[i]) /\ again \in {"pass", "loop"}
  /\ tree = << >> /\ elements = << >>
  /\ variables = NoVariables
  /\ pc = 1 /\ round = 1
  /\ result = "parsing"

\* _run_parser
Parse ==
  /\ result = "parsing"
  /\ \E p \in {RunParser(text)} :
         IF p.ok
         THEN /\ tree' = p.node /\ elements' = p.els
              /\ result' = IF again = "none" THEN "parsed" ELSE "running"
         ELSE result' = "refused" /\ UNCHANGED <<tree, elements>>
  /\ UNCHANGED <<text, again, variables, pc, round>>

Assign ==
  /\ result = "running" /\ pc <= Len(tree)
  /\ \E a \in {Assigned(tree[pc], variables, elements)} :
         /\ variables' = a.env /\ elements' = a.els
         /\ result' = IF a.st = "SUCCESS" THEN "running" ELSE a.st
  /\ pc' = pc + 1
  /\ UNCHANGED <<text, again, tree, round>>

\* assemble() empties the list of variables in front of the last pass.
VariablesOfSecond == IF again = "pass" THEN NoVariables ELSE variables

SecondRound ==
  /\ result = "running" /\ pc > Len(tree) /\ round = 1
  /\ round' = 2 /\ pc' = 1
  /\ variables' = VariablesOfSecond
  /\ UNCHANGED <<text, again, tree, elements, result>>

End ==
  /\ result = "running" /\ pc > Len(tree) /\ round = 2
  /\ result' = "done"
  /\ UNCHANGED <<text, again, tree, elements, variables, pc, round>>

Next == Parse \/ Assign \/ SecondRound \/ End

Spec == Init /\ [][Next]_vars
=============================================================================
