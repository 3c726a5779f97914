-------------------------------- MODULE I386 --------------------------------
(***************************************************************************)
(* How src/langs/i386/main.c sizes and checks the instructions whose size  *)
(* depends on an operand: the jumps, with the cache that carries the size  *)
(* of a jump from the first pass to the last, a memory operand with a      *)
(* displacement and an immediate that has a short form.  Operands are as   *)
(* in Mos6502.                                                             *)
(***************************************************************************)
EXTENDS Integers, Sequences

CONSTANT JMP_CACHE_MAX

Forms == {"plain", "jmp", "jmp_short", "jmp_near", "jcc", "jcc_near", "call",
          "jmp_mem", "and_reg16"}

Jumps == {"jmp", "jmp_short", "jmp_near", "jcc", "jcc_near", "call"}

\* The forms whose size follows the value of the operand.
ValueSized == {"jmp_mem", "and_reg16"}

FitsI8(v)  == -128 <= v /\ v <= 127
FitsI16(v) == -32768 <= v /\ v <= 32767
FitsU16(v) == -32768 <= v /\ v <= 65535

\* A word whose high byte repeats the sign of its low byte.
FitsWordSignExtendedI8(v) == FitsI8(v) \/ v \in 65408..65535

----------------------------------------------------------------------------
(* The jump cache: the slots in use, in the order they were taken.         *)

RememberPastTheEnd(cache, addr, size) ==
  IF \E i \in DOMAIN cache : cache[i].addr = addr
  THEN [i \in DOMAIN cache |->
          IF cache[i].addr = addr THEN [addr |-> addr, size |-> size] ELSE cache[i]]
  ELSE IF Len(cache) <= JMP_CACHE_MAX
       THEN Append(cache, [addr |-> addr, size |-> size])
       ELSE cache

\* remember_jmp_size: when the cache is full the size is dropped.
Remember(cache, addr, size) ==
  IF \E i \in DOMAIN cache : cache[i].addr = addr
  THEN [i \in DOMAIN cache |->
          IF cache[i].addr = addr THEN [addr |-> addr, size |-> size] ELSE cache[i]]
  ELSE IF Len(cache) < JMP_CACHE_MAX
       THEN Append(cache, [addr |-> addr, size |-> size])
       ELSE cache

\* remembered_jmp_size: 0 when there is none.
Remembered(cache, addr) ==
  IF \E i \in DOMAIN cache : cache[i].addr = addr
  THEN cache[CHOOSE i \in DOMAIN cache : cache[i].addr = addr].size
  ELSE 0

----------------------------------------------------------------------------

ShortIfFits(o, addr) == IF FitsI8(o.value - (addr + 2)) THEN 2 ELSE 3

\* encode_jmp_direct without an explicit size.
FirstPassJmpSize(o, addr) == IF o.unresolved THEN 3 ELSE ShortIfFits(o, addr)

LastPassJmpSize(o, addr, cache) ==
  CASE Remembered(cache, addr) # 0 -> Remembered(cache, addr)
    [] OTHER -> IF o.named THEN 3 ELSE ShortIfFits(o, addr)

JmpSize(o, addr, last_pass, cache) ==
  IF last_pass THEN LastPassJmpSize(o, addr, cache) ELSE FirstPassJmpSize(o, addr)

Size(form, o, addr, last_pass, cache) ==
  CASE form = "plain" -> 1
    [] form = "jmp" -> JmpSize(o, addr, last_pass, cache)
    [] form \in {"jmp_short", "jcc"} -> 2
    [] form \in {"jmp_near", "call"} -> 3
    [] form = "jcc_near" -> 4
    [] form = "jmp_mem" -> IF FitsI8(o.value) THEN 3 ELSE 4
    [] form = "and_reg16" -> IF FitsWordSignExtendedI8(o.value) THEN 3 ELSE 4

\* The displacement is relative to the end of the instruction.  An operand that
\* is not known yet is not checked, and neither is a sizeless jmp in the first
\* pass.
JumpFits(form, o, addr, size, last_pass) ==
  \/ ~last_pass /\ (o.unresolved \/ form = "jmp")
  \/ size = 2 /\ FitsI8(o.value - (addr + size))
  \/ size # 2 /\ FitsI16(o.value - (addr + size))

\* An unknown name is an error in the last pass, except in a displacement: there
\* read_memory_displacement returns the failure as an unsigned number, which its
\* callers take for success.
Accepts(form, o, addr, size, last_pass) ==
  /\ o.selector = "NONE"
  /\ form # "jmp_mem" => ~(o.unresolved /\ last_pass)
  /\ form \in Jumps => JumpFits(form, o, addr, size, last_pass)
  /\ form = "and_reg16" => FitsU16(o.value)

\* The cache after the instruction was sized in the first pass.
CacheAfter(form, o, addr, last_pass, cache) ==
  IF form = "jmp" /\ ~last_pass
  THEN Remember(cache, addr, FirstPassJmpSize(o, addr))
  ELSE cache
=============================================================================
