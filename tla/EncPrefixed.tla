----------------------------- MODULE EncPrefixed -----------------------------
(***************************************************************************)
(* The encoders of src/langs/i386/main.c that only instructions behind     *)
(* o32, a16 and a32 have: arithmetic, arpl, bound, bit scans, bit tests;   *)
(* and what lock asks of the instruction behind it.                        *)
(***************************************************************************)
EXTENDS EncForced

----------------------------------------------------------------------------
(* Arithmetic                                                              *)

\* Without memory both prefixes stand in front of the form.
EncodeArithNoMemPrefixed(d, s, base, acc8, acc16, group, f) ==
  LET op_prefix == f.o32 \/ d.kind = "REG32"
      own == OperandSizePrefixLen(d.size)
      form == EncodeArith(d, s, base, acc8, acc16, group)
  IN IF form.size < 0 THEN FAIL
     ELSE Out(ForcedPrefixPair(op_prefix, f.a32) \o SubSeq(form.bytes, own + 1, Len(form.bytes)),
              form.size - own + ForcedPrefixPairLen(op_prefix, f.a32))

EncodeA16Arith(d, s, base, acc8, acc16, group, f) ==
  IF OperandIsMem32(d) \/ OperandIsMem32(s) THEN FAIL
  ELSE IF f.o32 THEN EncodeO32Arith(d, s, base, acc8, acc16, group)
  ELSE EncodeArith(d, s, base, acc8, acc16, group)

EncodeA32Arith(dst, src, base, acc8, acc16, group, f) ==
  LET d == ForceDirectMemoryA32(dst)
      s == ForceDirectMemoryA32(src)
  IN CASE OperandIsMem16(d) \/ OperandIsMem16(s) -> FAIL
       [] OperandIsMem32(d) \/ OperandIsMem32(s) ->
            IF f.o32 THEN EncodeO32Arith(d, s, base, acc8, acc16, group)
                     ELSE EncodeArith(d, s, base, acc8, acc16, group)
       [] OTHER -> EncodeArithNoMemPrefixed(d, s, base, acc8, acc16, group, f)

----------------------------------------------------------------------------
(* arpl, bound, bsf, bsr                                                   *)

EncodeArplOperands(dst, s, f) ==
  LET d == Forced(dst, f)
  IN CASE s.kind # "REG16" \/ (f.a32 /\ OperandIsMem16(d)) -> FAIL
       [] s.kind = "REG16" /\ d.kind = "REG16" -> ForcedForm(f.o32, f.a32, <<\h63>>, s.reg, d, 2)
       [] s.kind = "REG16" /\ OperandIsMem32(d) /\ f.a16 -> FAIL
       [] OTHER ->
            Check(MemorySizeMatches(d, 2), MemForm(IF f.o32 THEN 4 ELSE 2, <<\h63>>, s.reg, d.mem, 2))

EncodeBoundPrefixedOperands(d, src, f) ==
  LET s == Forced(src, f)
      size == IF f.o32 \/ d.kind = "REG32" THEN 4 ELSE 2
  IN IF d.kind \notin R16or32 \/ src.kind # "MEM" \/ src.size # 0 \/ ~AddressSizeAgrees(s, f)
     THEN FAIL
     ELSE MemForm(size, <<\h62>>, d.reg, s.mem, 2)

EncodeBitScanPrefixedOperands(d, src, opcode, f) ==
  LET s == Forced(src, f)
      op_prefix == f.o32 \/ d.kind = "REG32"
  IN IF \/ d.kind \notin R16or32
        \/ s.kind \notin R16or32 \cup {"MEM"}
        \/ s.kind \in R16or32 /\ s.size # d.size
        \/ s.kind = "MEM" /\ (s.size \notin {0, d.size} \/ ~AddressSizeAgrees(s, f))
     THEN FAIL
     ELSE ForcedForm(op_prefix, f.a32, <<\h0F, opcode>>, d.reg, s, 3)

----------------------------------------------------------------------------
(* bt, btc, btr, bts                                                       *)

\* 0 where the operands do not agree on one.
BitTestOperandSize(d, s, f) ==
  LET size(o) == IF f.o32 \/ o.size = 4 THEN 4 ELSE 2
  IN CASE s.kind = "IMM" /\ (d.kind \in R16or32 \/ (d.kind = "MEM" /\ d.size \in {2, 4})) -> size(d)
       [] s.kind \in R16or32 /\ d.kind \in R16or32 /\ d.size = s.size -> size(d)
       [] s.kind \in R16or32 /\ MemorySizeMatches(d, s.size) -> size(s)
       [] OTHER -> 0

EncodeBitTestPrefixedOperands(dst, s, opcode, group, f) ==
  LET d == Forced(dst, f)
      op_prefix == BitTestOperandSize(d, s, f) = 4
  IN IF ~AddressSizeAgrees(d, f) \/ BitTestOperandSize(d, s, f) = 0 THEN FAIL
     ELSE IF s.kind = "IMM"
     THEN Check(FitsU16(s.imm),
                Then(ForcedForm(op_prefix, f.a32, <<\h0F, \hBA>>, group, d, 3), Byte(s.imm), 1))
     ELSE ForcedForm(op_prefix, f.a32, <<\h0F, opcode>>, s.reg, d, 3)

----------------------------------------------------------------------------
(* lock                                                                    *)

LockAllowsArith == {"add", "adc", "and", "or", "sbb", "sub", "xor"}
LockAllowsUnary == {"inc", "dec", "neg", "not"}

\* A dword is refused, but by xchg.
ValidateLockArith(d, s) ==
  /\ d.kind = "MEM"
  /\ \/ s.kind \in {"REG8", "REG16"} /\ MemorySizeMatches(d, s.size)
     \/ s.kind = "IMM" /\ d.size \in {1, 2} /\ FitsU16(s.imm)

ValidateLockXchg(d, s) ==
  \/ d.kind = "MEM" /\ s.kind \in GPR /\ MemorySizeMatches(d, s.size)
  \/ d.kind # "MEM" /\ s.kind = "MEM" /\ d.kind \in GPR /\ MemorySizeMatches(s, d.size)

ValidateLockUnary(d) == d.kind = "MEM" /\ d.size \in {1, 2}

ValidateLockInstruction(i) ==
  \/ i.name \in LockAllowsArith /\ Len(i.args) = 2 /\ ValidateLockArith(i.args[1], i.args[2])
  \/ i.name = "xchg" /\ Len(i.args) = 2 /\ ValidateLockXchg(i.args[1], i.args[2])
  \/ i.name \in LockAllowsUnary /\ Len(i.args) = 1 /\ ValidateLockUnary(i.args[1])
=============================================================================
