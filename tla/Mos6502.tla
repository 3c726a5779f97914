------------------------------ MODULE Mos6502 ------------------------------
(***************************************************************************)
(* How src/langs/6502/main.c sizes and checks an instruction.  The         *)
(* mnemonics share eight ways to encode an operand; an operand is           *)
(*   [named |-> it is a NAME, unresolved |-> the name is not known yet,    *)
(*    value |-> its value (0 when unresolved), selector |-> "<", ">" or ""]*)
(***************************************************************************)
EXTENDS Integers

Forms == {"implied", "immediate", "memory", "memory_no_zp", "zeropage",
          "absolute", "relative", "indirect"}

Selectors == {"NONE", "LOW", "HIGH"}

FitsU8(v)     == 0 <= v /\ v <= 255
FitsI8OrU8(v) == -128 <= v /\ v <= 255
FitsU16(v)    == 0 <= v /\ v <= 65535

\* selected_value
Selected(o) ==
  CASE o.selector = "LOW"  -> o.value % 256
    [] o.selector = "HIGH" -> (o.value \div 256) % 256
    [] OTHER               -> o.value

UsesZeroPageForKnownNames(form, o) ==
  \/ o.selector = "LOW"
  \/ form = "memory" /\ ~o.unresolved /\ FitsU8(o.value)

\* The zero page form is taken for a "<" operand and for a small number,
\* never for a name, whose value may not be known in the first pass.
UsesZeroPage(form, o) ==
  \/ o.selector = "LOW"
  \/ form = "memory" /\ ~o.named /\ FitsU8(o.value)

Size(form, o) ==
  CASE form = "implied" -> 1
    [] form \in {"immediate", "zeropage", "relative", "indirect"} -> 2
    [] form = "absolute" -> 3
    [] form \in {"memory", "memory_no_zp"} -> IF UsesZeroPage(form, o) THEN 2 ELSE 3

\* read_scalar: an unknown name is an error in the last pass only.
Readable(form, o, last_pass) == form = "implied" \/ ~o.unresolved \/ ~last_pass

\* The checks of the operand encoders; addr is where the instruction starts.
Fits(form, o, addr) ==
  CASE form = "implied" -> TRUE
    [] form \in {"immediate"} ->
         o.unresolved \/ o.selector # "NONE" \/ FitsI8OrU8(o.value)
    [] form = "indirect" ->
         o.unresolved \/ o.selector # "NONE" \/ FitsU8(o.value)
    [] form = "zeropage" ->
         \/ o.selector = "LOW"
         \/ o.selector = "NONE" /\ ~o.named /\ FitsU8(o.value)
    [] form = "absolute" -> o.selector = "NONE" /\ (o.unresolved \/ FitsU16(o.value))
    [] form = "relative" ->
         o.selector = "NONE" /\ (o.unresolved \/ o.value - (addr + 2) \in -128..127)
    [] form \in {"memory", "memory_no_zp"} ->
         /\ o.selector # "HIGH"
         /\ o.selector = "LOW" => form = "memory"
         /\ o.selector = "NONE" => o.named \/ FitsU16(o.value)

Accepts(form, o, addr, last_pass) == Readable(form, o, last_pass) /\ Fits(form, o, addr)
=============================================================================
