---------------------------- MODULE MCTwoPassAll ----------------------------
(***************************************************************************)
(* Every program of four statements over a small alphabet, in each         *)
(* language: references to two labels, forward, backward, repeated and     *)
(* missing, in every order with jumps, gaps, variables, @org, a branch and *)
(* a loop that depend on where they are.                                   *)
(***************************************************************************)
EXTENDS MCTwoPassHistory

Alphabet == {
  Label("a"), Label("b"),
  Instr("memory", "jmp", Name("a")),
  Instr("relative", "jcc", Name("b")),
  Instr("memory", "and_reg16", Name("b")),
  Gap(127), Org(Lit(5)),
  Set("x", Here),
  Instr("memory", "jmp_mem", Name("x")),
  If(Bin("LESS", Here, Lit(4)), 2),
  While(Bin("LESS", Here, Lit(6)), 3) }

MCAllPrograms ==
  { <<<<Code(l)>> \o s,
      <<Instr("implied", "plain", None)>>,
      <<Instr("memory", "jmp", Name("a"))>> >> : l \in Langs, s \in [1..4 -> Alphabet] }

MCAllNames   == {"a", "b", "x"}
MCAllMaxAddr == [l \in Langs |-> 300]
=============================================================================
