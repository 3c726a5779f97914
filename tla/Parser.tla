------------------------------- MODULE Parser -------------------------------
(***************************************************************************)
(* Expressions, blocks and statements of src/core/parser.c, operators      *)
(* of a recursive descent: each takes the position of the last token read  *)
(* and gives what it made, the position it has reached and the array       *)
(* elements made so far (an element is known by its number, 0 is NULL).    *)
(* All of them leave the parser's peek at the last token read; the only    *)
(* statement that does not, the declaration of a macro, is in Macros.      *)
(*                                                                         *)
(* A token is a record: its type, written as in the source text of a       *)
(* program, and what that type needs.                                      *)
(***************************************************************************)
EXTENDS Numbers

CONSTANT MAX_CTX_BLOCK_LEVEL

ASSUME ParserAssumption == MAX_CTX_BLOCK_LEVEL \in Nat \ {0}

\* An error was reported, with pos the last token read.
Failed(pos) == [ok |-> FALSE, pos |-> pos]

Parsed(node, pos, els) == [ok |-> TRUE, node |-> node, pos |-> pos, els |-> els]

\* What is made of e when it succeeds.
Made(e, node) == IF e.ok THEN [e EXCEPT !.node = node] ELSE e

\* One token more, which is of the type expected (expect_token).
Expect(t, e, type) ==
  IF ~e.ok THEN e
  ELSE IF e.pos < Len(t) /\ t[e.pos + 1].type = type THEN [e EXCEPT !.pos = @ + 1]
  ELSE Failed(e.pos + 1)

----------------------------------------------------------------------------
(* Nodes of an expression                                                  *)

Literal(value)       == [k |-> "LITERAL", value |-> value]
VarNode(name)        == [k |-> "VAR", name |-> name]
LenNode(expr)        == [k |-> "LEN", expr |-> expr]
DollarNode           == [k |-> "DOLLAR"]
Unary(op, left)      == [k |-> "UNARY", op |-> op, left |-> left]
Binop(op, left, right) == [k |-> "BINOP", op |-> op, left |-> left, right |-> right]

EmptyArray == [type |-> "ARRAY", head |-> 0, tail |-> 0, len |-> 0]

AppendedUnterminated(arr, els, expr) ==
  LET new == Len(els) + 1
      linked == IF arr.tail = 0 THEN els ELSE [els EXCEPT ![arr.tail].next = new]
  IN  [arr |-> [arr EXCEPT !.head = IF @ = 0 THEN new ELSE @, !.tail = new, !.len = @ + 1],
       els |-> Append(linked, [this_expr |-> expr, next |-> new + 1])]

\* append_array: the element is linked behind the last one.
Appended(arr, els, expr) ==
  LET new == Len(els) + 1
      linked == IF arr.tail = 0 THEN els ELSE [els EXCEPT ![arr.tail].next = new]
  IN  [arr |-> [arr EXCEPT !.head = IF @ = 0 THEN new ELSE @, !.tail = new, !.len = @ + 1],
       els |-> Append(linked, [this_expr |-> expr, next |-> 0])]

----------------------------------------------------------------------------
(* Expressions                                                             *)

\* _expr_get_binding_power, to the left and to the right.
binding_power ==
  [op \in {"||"} |-> 10] @@ [op \in {"&&"} |-> 20]
    @@ [op \in {"!=", ">", ">=", "==", "<", "<="} |-> 30]
    @@ [op \in {"|"} |-> 40] @@ [op \in {"^"} |-> 50] @@ [op \in {"&"} |-> 60]
    @@ [op \in {"<<", ">>"} |-> 70] @@ [op \in {"+", "-"} |-> 100]
    @@ [op \in {"/", "%", "*"} |-> 110]

RightPowerAsLeft(op) == binding_power[op]

RightPower(op) == binding_power[op] + 1

UNARY_BP == 120

EndsExpr(type, stop_on_comma) ==
  \/ type \in {"ENDMARKER", "NEWLINE", ")", "]"}
  \/ stop_on_comma /\ type = ","

None == [k |-> "NULL"]

RECURSIVE ParseExpr(_, _, _, _, _), ParseRest(_, _, _, _), ParseElements(_, _, _, _)

\* The elements of an array from behind its bracket, or behind a comma.
ParseElements(t, pos, arr, els) ==
  IF t[pos + 1].type = "]" THEN Parsed(Literal(arr), pos + 1, els)
  ELSE LET e == ParseExpr(t, pos, 0, TRUE, els)
           a == Appended(arr, e.els, e.node)
       IN  IF ~e.ok THEN e
           ELSE IF t[e.pos + 1].type # "," THEN ParseElements(t, e.pos, a.arr, a.els)
           ELSE IF t[e.pos + 2].type = "]" THEN Failed(e.pos + 1)
           ELSE ParseElements(t, e.pos + 1, a.arr, a.els)

\* new_ast_number
ParseNumber(t, pos, is_neg, els) ==
  LET v == NewNumber(t[pos], is_neg)
  IN  IF v = Fails THEN Failed(pos) ELSE Parsed(Literal(v), pos, els)

\* _parse_expr_prefix
ParsePrefix(t, pos, stop_on_comma, els) ==
  LET tok  == t[pos + 1]
      here == pos + 1
      Operand == ParseExpr(t, here, UNARY_BP, stop_on_comma, els)
  IN  CASE tok.type = "(" -> Expect(t, ParseExpr(t, here, 0, FALSE, els), ")")
        [] tok.type = "STRING" -> Parsed(Literal([type |-> "STR", str |-> tok.str]), here, els)
        [] tok.type = "NUMBER" -> ParseNumber(t, here, FALSE, els)
        [] tok.type = "-" /\ t[here + 1].type = "NUMBER" -> ParseNumber(t, here + 1, TRUE, els)
        [] \/ tok.type = "-" /\ t[here + 1].type # "NUMBER"
           \/ tok.type \in {"+", "~", "!"} ->
             Made(Operand, Unary(tok.type, Operand.node))
        [] tok.type = "@len" -> Made(Operand, LenNode(Operand.node))
        [] tok.type = "NAME" -> Parsed(VarNode(tok.name), here, els)
        [] tok.type = "$" -> Parsed(DollarNode, here, els)
        [] tok.type = "[" /\ t[here + 1].type # "," -> ParseElements(t, here, EmptyArray, els)
        [] tok.type = "[" /\ t[here + 1].type = "," -> Failed(here)
        [] OTHER -> Failed(here)

\* The loop of _parse_expr, behind what it has read of the expression so far.
ParseRest(t, e, min_bp, stop_on_comma) ==
  IF ~e.ok THEN e
  ELSE
  LET op    == t[e.pos + 1].type
      index == Expect(t, ParseExpr(t, e.pos + 1, 0, FALSE, e.els), "]")
      right == ParseExpr(t, e.pos + 1, RightPower(op), stop_on_comma, e.els)
      With(name, r) == Made(r, Binop(name, e.node, r.node))
  IN  CASE EndsExpr(op, stop_on_comma) -> e
        [] op = "[" -> ParseRest(t, With("[", index), min_bp, stop_on_comma)
        [] op \in DOMAIN binding_power ->
             IF binding_power[op] < min_bp THEN e
             ELSE ParseRest(t, With(op, right), min_bp, stop_on_comma)
        [] OTHER -> Failed(e.pos)

ParseExpr(t, pos, min_bp, stop_on_comma, els) ==
  ParseRest(t, ParsePrefix(t, pos, stop_on_comma, els), min_bp, stop_on_comma)

Expression(t, pos, els) == ParseExpr(t, pos, 0, FALSE, els)

----------------------------------------------------------------------------
(* Statements of one line                                                  *)

NewLine(t, e) == Expect(t, e, "NEWLINE")

\* A statement that is a name and an expression; two of them forget the NEWLINE.
ParseDirective(t, pos, els) ==
  LET e    == Expression(t, pos, els)
      line == IF t[pos].type \in {"@align", "@org"} THEN e ELSE NewLine(t, e)
  IN  Made(line, [op |-> t[pos].type, expr |-> line.node])

\* @del and @code name something; there is one language here.
ParseNamed(t, pos, els) ==
  LET e == NewLine(t, Expect(t, Parsed(None, pos, els), "NAME"))
  IN  Made(e, [op |-> t[pos].type, name |-> t[pos + 1].name])

\* is_inside_block
IsInsideBlock(blocks, ctx) == \E i \in DOMAIN blocks : blocks[i] = ctx

\* @break and @continue
ParseJump(t, pos, blocks, els) ==
  LET line == NewLine(t, Parsed([op |-> t[pos].type], pos, els))
  IN  IF IsInsideBlock(blocks, "LOOP") THEN line ELSE Failed(line.pos)

----------------------------------------------------------------------------
(* A line that begins with a name                                          *)

Assignments == {"=", "+=", "-=", "*=", "/=", "%=", "&=", "|=", "^=", "<<=", ">>="}

\* How many brackets are open in front of token i, from pos on; they may be
\* closed more often than opened.
Level(t, pos, i) ==
  Cardinality({j \in pos..(i - 1) : t[j].type \in {"(", "["}})
    - Cardinality({j \in pos..(i - 1) : t[j].type \in {")", "]"}})

LineEnd(t, pos) == Min({i \in (pos + 1)..Len(t) : t[i].type = "NEWLINE"})

\* The line assigns: the search stops at the first assignment outside of brackets.
Assigns(t, pos) ==
  \E i \in (pos + 1)..LineEnd(t, pos) : t[i].type \in Assignments /\ Level(t, pos + 1, i) = 0

RECURSIVE ParseIndexation(_, _)

\* _parse_potential_indexation: every index in front of the assignment.
ParseIndexation(t, e) ==
  IF ~e.ok THEN e
  ELSE IF t[e.pos + 1].type # "[" \/ t[e.pos + 2].type = "]" THEN e
  ELSE LET i == Expect(t, Expression(t, e.pos + 1, e.els), "]")
       IN  ParseIndexation(t, Made(i, Binop("[", e.node, i.node)))

\* Behind the target of an assignment, idx without its [].
ParseRight(t, pos, idx, target, appends) ==
  LET op    == t[target.pos + 1].type
      right == NewLine(t, Expression(t, target.pos + 1, idx.els))
      node  == [op |-> "assign", name |-> t[pos].name, appends |-> appends,
                idx |-> IF idx.node = VarNode(t[pos].name) THEN None ELSE idx.node,
                ass_type |-> op]
  IN  IF ~target.ok THEN target
      ELSE IF op \notin (IF appends THEN {"="} ELSE Assignments) THEN Failed(target.pos + 1)
      ELSE Made(right, node @@ [expr |-> right.node])

ParseTarget(t, pos, idx) ==
  IF ~idx.ok THEN idx
  ELSE IF t[idx.pos + 1].type = "["
  THEN ParseRight(t, pos, idx, Expect(t, Expect(t, idx, "["), "]"), TRUE)
  ELSE ParseRight(t, pos, idx, idx, FALSE)

\* An assignment: to a variable, to an element, or appended.
ParseAssignment(t, pos, els) ==
  ParseTarget(t, pos, ParseIndexation(t, Parsed(VarNode(t[pos].name), pos, els)))

Directives == {"@assert", "@warn", "@error", "@align", "@org"}

AtIdentifiers ==
  Directives \cup {"@del", "@code", "@break", "@continue", "@if", "@elif", "@else", "@while",
                  "@repeat", "@len"}

\* An instruction: its arguments end at every comma, in brackets too.
ParseInstruction(t, pos, els) ==
  LET end  == LineEnd(t, pos)
      line == SubSeq(t, pos + 1, end - 1)
      cuts == SetToSortSeq({0, Len(line) + 1} \cup {i \in DOMAIN line : line[i].type = ","}, <)
  IN  IF \E i \in DOMAIN line : line[i].type \in AtIdentifiers THEN Failed(end)
      ELSE Parsed([op |-> "instruction", name |-> t[pos].name,
                   args |-> IF line = << >> THEN << >>
                            ELSE [i \in 1..(Len(cuts) - 1) |->
                                    SubSeq(line, cuts[i] + 1, cuts[i + 1] - 1)]],
                  end, els)

ParseName(t, pos, els) ==
  IF t[pos + 1].type = ":"
  THEN NewLine(t, Parsed([op |-> "label", name |-> t[pos].name], pos + 1, els))
  ELSE IF Assigns(t, pos) THEN ParseAssignment(t, pos, els)
  ELSE ParseInstruction(t, pos, els)

----------------------------------------------------------------------------
(* Blocks                                                                  *)

EndOfFile == [op |-> "ENDMARKER"]

RECURSIVE ParseStatement(_, _, _, _), ParseStatements(_, _, _, _, _, _)

\* Behind the last token read, the NEWLINEs that follow.
SkipNewLines(t, pos) ==
  Max({i \in pos..Len(t) : \A j \in (pos + 1)..i : t[j].type = "NEWLINE"})

\* Behind the statement s.
ParseMore(t, s, blocks, body, ctx) ==
  IF ~s.ok THEN s
  ELSE IF s.node = EndOfFile THEN Parsed(body, s.pos, s.els)
  ELSE ParseStatements(t, SkipNewLines(t, s.pos), blocks, s.els, Append(body, s.node), ctx)

\* The loop of _parse_block, whose context is the last of blocks.
ParseStatements(t, pos, blocks, els, body, ctx) ==
  IF ctx # "GLOBAL" /\ t[pos + 1].type = "DEDENT" THEN Parsed(body, pos + 1, els)
  ELSE ParseMore(t, ParseStatement(t, pos, blocks, els), blocks, body, ctx)

\* _parse_block, behind what is read in front of it.
ParseBlock(t, e, ctx, blocks) ==
  LET start == IF ctx = "GLOBAL" THEN e ELSE Expect(t, e, "INDENT")
  IN  IF ~start.ok \/ Len(blocks) >= MAX_CTX_BLOCK_LEVEL THEN Failed(e.pos)
      ELSE ParseStatements(t, start.pos, Append(blocks, ctx), start.els, << >>, ctx)

MadeBranch(cond, body) == Made(body, [cond |-> cond.node, body |-> body.node])

\* The condition of an @if or a loop, a NEWLINE and a block.
ParseBranch(t, cond, ctx, blocks) == MadeBranch(cond, ParseBlock(t, NewLine(t, cond), ctx, blocks))

\* The condition of an @elif: it is the @if's that is tested for NULL.
ElifCondition(e, els) == IF e.ok THEN e ELSE Parsed(None, e.pos, els)

RECURSIVE ParseElifs(_, _, _)

MadeIf(e, branches, otherwise) ==
  Made(e, [op |-> "if", branches |-> branches, otherwise |-> otherwise])

MadeElse(e, branches) == MadeIf(e, branches, <<e.node>>)

\* One branch more.
MadeElif(e, branches) == Made(e, Append(branches, e.node))

\* Behind the block of an @if or @elif; the node is the branches so far.
ParseElifs(t, e, blocks) ==
  IF ~e.ok THEN e
  ELSE CASE t[e.pos + 1].type = "@elif" ->
              ParseElifs(t, MadeElif(ParseBranch(t, ElifCondition(Expression(t, e.pos + 1, e.els), e.els),
                                                 "IF", blocks),
                                     e.node), blocks)
         [] t[e.pos + 1].type = "@else" ->
              MadeElse(ParseBlock(t, NewLine(t, [e EXCEPT !.pos = @ + 1]), "IF", blocks), e.node)
         [] OTHER -> MadeIf(e, e.node, << >>)

ParseIf(t, pos, blocks, els) ==
  ParseElifs(t, MadeElif(ParseBranch(t, Expression(t, pos, els), "IF", blocks), << >>), blocks)

MadeLoop(e, op) == Made(e, [op |-> op, loop |-> e.node])

ParseLoop(t, pos, blocks, els) ==
  MadeLoop(ParseBranch(t, Expression(t, pos, els), "LOOP", blocks), t[pos].type)

\* _parse_statement
ParseStatement(t, last, blocks, els) ==
  LET pos  == SkipNewLines(t, last) + 1
      type == t[pos].type
  IN  CASE type = "@if" -> ParseIf(t, pos, blocks, els)
        [] type \in {"@while", "@repeat"} -> ParseLoop(t, pos, blocks, els)
        [] type \in {"@break", "@continue"} -> ParseJump(t, pos, blocks, els)
        [] type \in Directives -> ParseDirective(t, pos, els)
        [] type \in {"@del", "@code"} -> ParseNamed(t, pos, els)
        [] type = "NAME" -> ParseName(t, pos, els)
        [] type = "ENDMARKER" -> Parsed(EndOfFile, pos, els)
        [] OTHER -> Failed(pos)

\* _run_parser
RunParser(t) == ParseBlock(t, Parsed(None, 0, << >>), "GLOBAL", << >>)
=============================================================================
