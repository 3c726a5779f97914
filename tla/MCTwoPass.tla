----------------------------- MODULE MCTwoPass -----------------------------
(***************************************************************************)
(* Programs for the two passes, written by hand to reach every statement   *)
(* and every way it can end.                                               *)
(***************************************************************************)
EXTENDS TwoPass

MCUninitLang   == {NoLang, WildLang}
MCUninitValues == {0, 7}
MCMaxAddr      == [l \in Langs |-> IF l = "6502" THEN 40 ELSE 400]

----------------------------------------------------------------------------
(* Statements                                                              *)

Lit(n)       == [k |-> "LITERAL", n |-> n]
Var(x)       == [k |-> "VAR", name |-> x]
Here         == [k |-> "DOLLAR"]
Bin(op, l, r) == [k |-> "BINOP", op |-> op, left |-> l, right |-> r]

Set(x, e)    == [op |-> "ASSIGN_VAR", name |-> x, ass_type |-> "EQUAL", expr |-> e]
Add(x, e)    == [op |-> "ASSIGN_VAR", name |-> x, ass_type |-> "PLUSEQUAL", expr |-> e]
If(c, b)     == [op |-> "IF", branches |-> <<[cond |-> c, body |-> b]>>]
IfElse(c, b, d) ==
  [op |-> "IF", branches |-> <<[cond |-> c, body |-> b], [cond |-> Lit(1), body |-> d]>>]
While(e, b)  == [op |-> "WHILE", expr |-> e, body |-> b]
Repeat(e, b) == [op |-> "REPEAT", expr |-> e, body |-> b]
Org(e)       == [op |-> "ORG", expr |-> e]
Align(e)     == [op |-> "ALIGN", expr |-> e]
Assert(e)    == [op |-> "ASSERT", expr |-> e]
Label(x)     == [op |-> "LABEL", name |-> x]
Del(x)       == [op |-> "DEL", name |-> x]
Space(t, n, el, st, e) ==
  [op |-> "SPACE", type |-> t, len |-> n, align_per_el |-> el, align_start |-> st,
   value |-> e]
String(n, st) == [op |-> "STRING", len |-> n, align_start |-> st]
Error        == [op |-> "ERROR"]
Break        == [op |-> "BREAK"]
Continue     == [op |-> "CONTINUE"]
Code(l)      == [op |-> "CODE", lang |-> l]

None         == [k |-> "NONE"]
Num(n)       == [k |-> "NUMBER", n |-> n, selector |-> "NONE"]
Name(x)      == [k |-> "NAME", name |-> x, selector |-> "NONE"]
Low(x)       == [k |-> "NAME", name |-> x, selector |-> "LOW"]
High(x)      == [k |-> "NAME", name |-> x, selector |-> "HIGH"]

Instr(f65, f86, a) ==
  [op |-> "INSTRUCTION",
   form |-> [l \in Langs |-> IF l = "6502" THEN f65 ELSE f86], arg |-> a]
I65(f, a)    == Instr(f, "unknown", a)
I86(f, a)    == Instr("unknown", f, a)

----------------------------------------------------------------------------
(* 6502.  A program is a sequence of bodies, the first being the file.     *)

Prologue == <<Code("6502")>>

Programs6502 == {
  \* A branch back, a branch ahead, a name in every form.
  <<Prologue \o <<Label("a"), I65("memory", Name("b")), I65("relative", Name("a")),
      I65("relative", Name("b")), I65("absolute", Name("b")), I65("immediate", Low("b")),
      I65("immediate", High("a")), I65("memory", Num(3)), I65("memory", Num(300)),
      I65("memory_no_zp", Num(3)), I65("memory", Low("b")), I65("zeropage", Num(4)),
      I65("indirect", Name("a")), I65("implied", None), Label("b")>> >>,
  \* Every way an argument is refused.
  <<Prologue \o <<I65("memory", High("a"))>> >>,
  <<Prologue \o <<I65("memory_no_zp", Low("a"))>> >>,
  <<Prologue \o <<I65("memory", Num(70000))>> >>,
  <<Prologue \o <<I65("zeropage", Name("a"))>> >>,
  <<Prologue \o <<I65("immediate", Num(256))>> >>,
  <<Prologue \o <<I65("implied", Num(1))>> >>,
  <<Prologue \o <<I65("relative", Num(200))>> >>,
  <<Prologue \o <<I86("plain", None)>> >>,
  \* Named ahead, never declared; out of range once declared.
  <<Prologue \o <<I65("memory", Name("a"))>> >>,
  <<Prologue \o <<I65("indirect", Name("a")), Org(Lit(300)), Label("a")>> >>,
  \* Space of every kind, with paddings.
  <<Prologue \o <<I65("implied", None), Space("WORD", 3, 4, 2, Lit(5)), Label("a"),
      String(3, 4), Label("b"), Space("PTR", 2, 1, 1, Var("x"))>> >>,
  <<Prologue \o <<Set("x", Lit(1)), Space("BYTE", 2, 3, 4, Var("x")),
      Space("PTR", 2, 1, 1, Var("x")), Align(Lit(8)), Label("a"), String(0, 4),
      Space("DWORD", 1, 1, 1, Var("x")), Align(Var("x")), Label("b")>> >>,
  \* Too much of it: of one kind at a time, and at the last byte.
  <<Prologue \o <<Space("QWORD", 6, 1, 1, Lit(0))>> >>,
  <<Prologue \o <<Space("QWORD", 200, 1, 1, Lit(0))>> >>,
  <<Prologue \o <<Space("BYTE", 41, 1, 1, Lit(0))>> >>,
  <<Prologue \o <<Space("BYTE", 41, 1, 1, Lit(0)), I65("implied", None)>> >>,
  <<Prologue \o <<String(42, 1)>> >>,
  <<Prologue \o <<Org(Lit(39)), String(3, 1)>> >>,
  <<Prologue \o <<Org(Lit(37)), String(2, 8)>> >>,
  <<Prologue \o <<Org(Lit(41)), Align(Lit(8))>> >>,
  <<Prologue \o <<Org(Lit(NintMax - 1)), Align(Lit(400))>> >>,
  <<Prologue \o <<Align(Lit(0))>> >>,
  <<Prologue \o <<Align(Lit(-1))>> >>,
  <<Prologue \o <<Org(Lit(-1))>> >>,
  <<Prologue \o <<Org(Var("x"))>> >>,
  \* @org back and ahead.
  <<Prologue \o <<Org(Lit(8)), Label("a"), I65("memory", Name("b")), Org(Lit(2)),
      Label("b"), I65("memory", Name("a"))>> >>,
  \* No @code.
  <<<<Org(Lit(0)), I65("implied", None)>> >>,
  <<<<Align(Lit(4)), String(0, 1), String(1, 1)>> >>,
  <<<<Space("BYTE", 1, 1, 1, Lit(0))>> >>,
  <<<<Space("BYTE", 1, 1, 1, Var("x"))>> >>,
  <<<<I65("implied", None)>> >>,
  <<<<Align(Lit(0))>> >>,
  <<<<Label("a"), Set("x", Lit(1)), Code("6502"), I65("relative", Name("a"))>> >> }

----------------------------------------------------------------------------
(* The flow of control                                                     *)

x1 == Set("x", Lit(1))
y0 == Set("y", Lit(0))
nop == I65("implied", None)

ProgramsFlow == {
  \* A loop around an if around a break; code after it.
  <<Prologue \o <<y0, While(Bin("LESS", Var("y"), Lit(3)), 2), Label("a"), nop>>,
    <<Add("y", Lit(1)), If(Bin("EQEQUAL", Var("y"), Lit(2)), 3), nop>>,
    <<nop, Break, nop>> >>,
  \* A continue inside two ifs, in a repeat inside a while.
  <<Prologue \o <<y0, While(Bin("LESS", Var("y"), Lit(2)), 2), Label("a")>>,
    <<Add("y", Lit(1)), Repeat(Bin("PLUS", Var("y"), Lit(1)), 3), nop>>,
    <<Add("x", Lit(1)), nop>> >>,
  <<Prologue \o <<x1, y0, While(Bin("LESS", Var("y"), Lit(2)), 2), Label("a"),
      I65("memory", Name("a"))>>,
    <<Add("y", Lit(1)), Repeat(Bin("PLUS", Var("y"), Lit(1)), 3), nop>>,
    <<Add("x", Lit(1)), IfElse(Bin("LESS", Lit(2), Var("x")), 4, 5), nop>>,
    <<IfElse(Bin("EQEQUAL", Var("y"), Lit(1)), 6, 7), nop>>,
    <<String(2, 1)>>,
    <<Continue, nop>>,
    <<Break>> >>,
  \* Branches that fail, in each place.
  <<Prologue \o <<If(Var("x"), 2)>>, <<nop>> >>,
  <<Prologue \o <<IfElse(Lit(1), 2, 3), If(Lit(0), 3), Label("a"), Assert(Here)>>,
    <<nop>>, <<Error>> >>,
  <<Prologue \o <<IfElse(Bin("LESS", Here, Lit(1)), 2, 3), Assert(Lit(0))>>,
    <<nop>>, <<nop>> >>,
  <<Prologue \o <<nop, IfElse(Lit(0), 2, 3)>>, << >>, <<Label("a"), Error>> >>,
  <<Prologue \o <<While(Var("x"), 2)>>, <<nop>> >>,
  <<Prologue \o <<Repeat(Var("x"), 2)>>, <<nop>> >>,
  <<Prologue \o <<Repeat(Lit(-1), 2)>>, <<nop>> >>,
  <<Prologue \o <<Repeat(Lit(0), 2), Assert(Var("x"))>>, <<nop>> >>,
  \* A label in a loop, a label twice, a label that is a variable.
  <<Prologue \o <<Repeat(Lit(2), 2)>>, <<Label("a"), nop>> >>,
  <<Prologue \o <<Repeat(Lit(1), 2)>>, <<Label("a"), nop>> >>,
  <<Prologue \o <<Label("a"), nop, Label("a")>> >>,
  <<Prologue \o <<nop, Label("x"), x1, I65("memory", Name("x")), Del("x"),
      I65("relative", Name("x")), Del("x"), I65("memory", Name("y")), Label("y"), y0>> >>,
  \* Variables: undeclared, deleted, overflowing, read before they are written.
  <<Prologue \o <<Add("x", Lit(1))>> >>,
  <<Prologue \o <<x1, Del("x"), Set("y", Var("x"))>> >>,
  <<Prologue \o <<Set("x", Lit(NintMax)), Set("y", Bin("MINUS", Var("x"), Lit(1))),
      Add("y", Lit(1)), Add("x", Lit(1))>> >>,
  <<Prologue \o <<Set("x", Bin("PLUS", Lit(NintMax), Lit(1)))>> >>,
  <<Prologue \o <<Set("x", Var("x")), If(Var("x"), 2), Label("a")>>, <<nop>> >>,
  <<Prologue \o <<Set("y", Bin("PLUS", Here, Var("y"))), Repeat(Var("y"), 2), Label("a")>>,
    <<nop>> >>,
  \* Loops over the address: one that ends, one that never does.
  <<Prologue \o <<nop, While(Bin("LESS", Here, Lit(6)), 2), Label("a")>>, <<String(2, 1)>> >>,
  <<Prologue \o <<While(Bin("EQEQUAL", Here, Lit(3)), 2), String(3, 1)>>, <<y0>> >>,
  <<Prologue \o <<While(Lit(1), 2)>>, <<y0>> >>,
  <<Prologue \o <<While(Lit(1), 2)>>, <<nop>> >> }

----------------------------------------------------------------------------
(* i386, with a jump cache of two entries                                  *)

Pro86 == <<Code("i386")>>
Jmp(x) == I86("jmp", Name(x))
plain  == I86("plain", None)
Gap(n) == Space("BYTE", n, 1, 1, Lit(0))

Programs386 == {
  \* Jumps back and ahead, near and far, named and not.
  <<Pro86 \o <<Label("a"), Gap(100), Jmp("a"), Jmp("b"), Label("b"), plain>> >>,
  <<Pro86 \o <<Label("a"), Gap(200), Jmp("a"), I86("jmp", Num(3)), plain>> >>,
  <<Pro86 \o <<I86("jmp", Num(3)), I86("jmp_near", Name("b")), I86("call", Name("b")),
      I86("jcc_near", Name("b")), I86("jcc", Name("b")), I86("jmp_short", Name("b")),
      Label("b")>> >>,
  <<Pro86 \o <<Label("a"), Gap(126), I86("jmp_short", Name("a")), I86("jcc", Name("a"))>> >>,
  <<Pro86 \o <<I86("jcc", Name("a")), Gap(128), Label("a")>> >>,
  <<Pro86 \o <<Jmp("a"), Label("b")>> >>,
  <<Pro86 \o <<I86("jmp", Num(40000))>> >>,
  <<Pro86 \o <<I86("call", Num(40000))>> >>,
  <<Pro86 \o <<I86("jmp", Low("a"))>> >>,
  <<Pro86 \o <<I86("jmp", None)>> >>,
  <<Pro86 \o <<Gap(400), plain, plain>> >>,
  \* A cache that runs full: the third jump is forgotten.
  <<Pro86 \o <<Label("a"), Jmp("a"), Jmp("a"), Jmp("a"), Label("b"), plain>> >>,
  <<Pro86 \o <<Jmp("a"), Jmp("a"), Jmp("a"), Label("a")>> >>,
  \* Two jumps at one address.
  <<Pro86 \o <<Label("a"), Org(Lit(300)), Jmp("a"), Label("b"), Org(Lit(300)), Jmp("b"),
      Label("c")>> >>,
  \* Operands that size the instruction: known, and not yet known.
  <<Pro86 \o <<Label("a"), I86("jmp_mem", Name("a")), I86("and_reg16", Name("a")),
      I86("jmp_mem", Num(200)), I86("and_reg16", Num(200)), I86("and_reg16", Num(65500)),
      Label("b")>> >>,
  <<Pro86 \o <<I86("jmp_mem", Name("a")), Label("b"), Org(Lit(300)), Label("a")>> >>,
  <<Pro86 \o <<I86("and_reg16", Name("a")), Label("b"), Gap(200), Label("a")>> >>,
  <<Pro86 \o <<I86("and_reg16", Num(70000))>> >>,
  <<Pro86 \o <<I86("jmp_mem", Name("a"))>> >>,
  \* The address that ends a loop depends on the size that was guessed.
  <<Pro86 \o <<I86("and_reg16", Name("a")), While(Bin("EQEQUAL", Here, Lit(4)), 2), Gap(150),
      Label("a")>>, <<y0>> >>,
  \* Both languages: the last pass starts in the one the first ended with.
  <<<<Code("6502"), Instr("memory", "jmp", Name("a")), Code("i386"),
      Instr("memory", "jmp", Name("a")), Label("a"), plain>> >> }

MCPrograms == Programs6502 \cup ProgramsFlow \cup Programs386

\* A name that is a label and a variable; a label that is not declared anywhere.
MCNamePrograms == {
  <<Prologue \o <<nop, Label("x"), Set("x", Lit(5)), I65("memory", Name("x"))>> >>,
  <<Pro86 \o <<I86("jmp_mem", Name("a")), plain>> >>,
  <<Pro86 \o <<I86("call", Name("a")), plain>> >> }

MCNames == {"a", "b", "c", "x", "y"}
=============================================================================
