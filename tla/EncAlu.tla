------------------------------- MODULE EncAlu --------------------------------
(***************************************************************************)
(* The encoders of src/langs/i386/main.c for arithmetic and logic, shifts, *)
(* multiplications and ports: one operator per function, d and s the       *)
(* operands, f what prefixes in front of the instruction force.            *)
(***************************************************************************)
EXTENDS EncOperand

----------------------------------------------------------------------------
(* and, or, xor, test, and the group of add                                *)

\* A byte is only asked to fit a word.
FitsAlu(size, v) == IF size = 4 THEN FitsU32(v) ELSE FitsU16(v)
HasShortForm(size, v) ==
  \/ size = 2 /\ FitsWordSignExtendedI8(v)
  \/ size = 4 /\ FitsDwordSignExtendedI8(v)

\* The forms with an immediate that all of the group share: the sign-extended
\* byte, the accumulator, the general form.  opcode is that of the general form.
RegImm(group, acc8, acc16, opcode, d, v, short) ==
  CASE d.kind \notin GPR -> NONE
    [] d.kind \in GPR /\ ~FitsAlu(d.size, v) -> FAIL
    [] d.kind \in GPR /\ FitsAlu(d.size, v) ->
         IF short THEN Then(RegForm(d.size, <<\h83>>, group, d.reg, 2), Byte(v), 1)
         ELSE IF d.reg = 0
         THEN Then(PlainForm(d.size, <<IF d.size = 1 THEN acc8 ELSE acc16>>, 1),
                   Imm(d.size, v), d.size)
         ELSE Then(RegForm(d.size, <<opcode + W(d.size)>>, group, d.reg, 2), Imm(d.size, v), d.size)

MemImm(group, opcode, d, v, short) ==
  IF d.size \notin {1, 2, 4} \/ ~FitsAlu(d.size, v) THEN FAIL
  ELSE IF short THEN Then(MemForm(d.size, <<\h83>>, group, d.mem, 2), Byte(v), 1)
  ELSE Then(MemForm(d.size, <<opcode + W(d.size)>>, group, d.mem, 2), Imm(d.size, v), d.size)

\* Registers and memory; base + load is the opcode that reads memory.
RegsAndMemory(base, load, d, s) ==
  CASE d.kind \in GPR /\ s.kind = d.kind -> RegForm(d.size, <<base + W(d.size)>>, s.reg, d.reg, 2)
    [] d.kind = "MEM" /\ s.kind \in GPR ->
         Check(MemorySizeMatches(d, s.size), MemForm(s.size, <<base + W(s.size)>>, s.reg, d.mem, 2))
    [] d.kind \in GPR /\ s.kind = "MEM" ->
         Check(MemorySizeMatches(s, d.size),
               MemForm(d.size, <<base + load + W(d.size)>>, d.reg, s.mem, 2))
    [] OTHER -> FAIL

EmitAndRegImm(d, s) == RegImm(4, \h24, \h25, \h80, d, s.imm, HasShortForm(d.size, s.imm))
EmitAndMemImm(d, s) == MemImm(4, \h80, d, s.imm, HasShortForm(d.size, s.imm))
EncodeAnd(d, s) ==
  IF s.kind # "IMM" THEN RegsAndMemory(\h20, 2, d, s)
  ELSE IF d.kind = "MEM" THEN EmitAndMemImm(d, s)
  ELSE Check(d.kind \in GPR, EmitAndRegImm(d, s))

EmitOrRegImm(d, s) == RegImm(1, \h0C, \h0D, \h80, d, s.imm, HasShortForm(d.size, s.imm))
EmitOrMemImm(d, s) == MemImm(1, \h80, d, s.imm, HasShortForm(d.size, s.imm))
EncodeOr(d, s) ==
  IF s.kind # "IMM" THEN RegsAndMemory(\h08, 2, d, s)
  ELSE IF d.kind = "MEM" THEN EmitOrMemImm(d, s)
  ELSE Check(d.kind \in GPR, EmitOrRegImm(d, s))

EmitXorRegImm(d, s) == RegImm(6, \h34, \h35, \h80, d, s.imm, HasShortForm(d.size, s.imm))
EmitXorMemImm(d, s) == MemImm(6, \h80, d, s.imm, HasShortForm(d.size, s.imm))
EncodeXor(d, s) ==
  IF s.kind # "IMM" THEN RegsAndMemory(\h30, 2, d, s)
  ELSE IF d.kind = "MEM" THEN EmitXorMemImm(d, s)
  ELSE Check(d.kind \in GPR, EmitXorRegImm(d, s))

EmitArithRegImm(d, s, group, acc8, acc16) ==
  RegImm(group, acc8, acc16, \h80, d, s.imm, HasShortForm(d.size, s.imm))
EmitArithMemImm(d, s, group) == MemImm(group, \h80, d, s.imm, HasShortForm(d.size, s.imm))
EncodeArith(d, s, base, acc8, acc16, group) ==
  IF s.kind # "IMM" THEN RegsAndMemory(base, 2, d, s)
  ELSE IF d.kind = "MEM" THEN EmitArithMemImm(d, s, group)
  ELSE Check(d.kind \in GPR, EmitArithRegImm(d, s, group, acc8, acc16))

\* test has no short form, and one opcode for both directions.
EmitTestRegImm(d, s) == RegImm(0, \hA8, \hA9, \hF6, d, s.imm, FALSE)
EmitTestMemImm(d, s) == MemImm(0, \hF6, d, s.imm, FALSE)
EncodeTest(d, s) ==
  IF s.kind # "IMM" THEN RegsAndMemory(\h84, 0, d, s)
  ELSE IF d.kind = "MEM" THEN EmitTestMemImm(d, s)
  ELSE Check(d.kind \in GPR, EmitTestRegImm(d, s))

----------------------------------------------------------------------------
(* Shifts and rotates                                                      *)

\* 0 where there is none.
ShiftTargetSize(d) == IF d.kind \in GPR \cup {"MEM"} THEN d.size ELSE 0

\* The opcode of a shift by one, by an immediate, by cl; none for anything else.
ShiftOpcode(s, size) ==
  CASE s.kind = "IMM" /\ s.imm = 1 -> \hD0 + W(size)
    [] s.kind = "IMM" /\ s.imm # 1 -> \hC0 + W(size)
    [] s.kind # "IMM" -> \hD2 + W(size)

ShiftCount(s) == IF s.kind = "IMM" /\ s.imm # 1 THEN Byte(s.imm) ELSE <<>>
ShiftCountLen(s) == IF s.kind = "IMM" /\ s.imm # 1 THEN 1 ELSE 0
ShiftCountOK(s) == IsCl(s) \/ (s.kind = "IMM" /\ FitsU16(s.imm))

EmitShiftModrm(d, group) ==
  IF d.kind = "MEM" THEN Out(ModrmMem(group, d.mem), MemoryTailLen(d.mem))
                    ELSE Out(ModrmReg(group, d.reg), 0)

EncodeShiftGroup(d, s, group) ==
  LET size == ShiftTargetSize(d)
      tail == EmitShiftModrm(d, group)
  IN IF size = 0 \/ ~ShiftCountOK(s) THEN FAIL
     ELSE Then(Out(OperandPrefixes(d, size) \o <<ShiftOpcode(s, size)>> \o tail.bytes,
                   OperandPrefixLen(d, size) + 2 + tail.size),
               ShiftCount(s), ShiftCountLen(s))

----------------------------------------------------------------------------
(* in and out                                                              *)

\* opcode: with a port number; 8 more: with the port in dx.
PortForm(prefix, prefix_len, opcode, acc, port) ==
  IF port.kind = "IMM"
  THEN Check(FitsU16(port.imm),
             Out(prefix \o <<opcode + W(acc.size)>> \o Byte(port.imm), prefix_len + 2))
  ELSE Out(prefix \o <<opcode + 8 + W(acc.size)>>, prefix_len + 1)

IsPort(o) == o.kind = "IMM" \/ IsDx(o)

EncodeIn(d, s) ==
  Check(IsAcc(d) /\ IsPort(s),
        PortForm(OperandSizePrefix(d.size), OperandSizePrefixLen(d.size), \hE4, d, s))

EncodeOut(d, s) ==
  Check(IsPort(d) /\ IsAcc(s),
        PortForm(OperandSizePrefix(s.size), OperandSizePrefixLen(s.size), \hE6, s, d))

EncodeInPrefixedOperands(d, s, f) ==
  LET op_prefix == f.o32 \/ (IsEax(d) /\ ~f.o16)
  IN Check(IsAcc(d) /\ IsPort(s),
           PortForm(ForcedPrefixPair(op_prefix, f.a32), ForcedPrefixPairLen(op_prefix, f.a32),
                    \hE4, d, s))

EncodeOutPrefixedOperands(d, s, f) ==
  LET op_prefix == f.o32 \/ (IsEax(s) /\ ~f.o16)
  IN Check(IsPort(d) /\ IsAcc(s),
           PortForm(ForcedPrefixPair(op_prefix, f.a32), ForcedPrefixPairLen(op_prefix, f.a32),
                    \hE6, s, d))

EncodeIntr(d) == Check(d.kind = "IMM" /\ FitsU8(d.imm), Out(<<\hCD>> \o Byte(d.imm), 2))
EncodeAad(s)  == Check(s.kind = "IMM" /\ FitsU16(s.imm), Out(<<\hD5>> \o Byte(s.imm), 2))
EncodeAam(s)  == Check(s.kind = "IMM" /\ FitsU16(s.imm), Out(<<\hD4>> \o Byte(s.imm), 2))

----------------------------------------------------------------------------
(* not, neg, mul, div, inc, dec                                            *)

IsTarget(d) == d.kind \in GPR \/ (d.kind = "MEM" /\ d.size \in {1, 2, 4})

EncodeNot(d) == Check(IsTarget(d), RmForm(d.size, <<\hF6 + W(d.size)>>, 2, d, 2))

EncodeUnaryGroup(d, group) ==
  Check(IsTarget(d), RmForm(d.size, <<\hF6 + W(d.size)>>, group, d, 2))

\* Without a prefix that matters this is EncodeUnaryGroup; an operand size prefix
\* that is forced stands in front of operands of any width.
EncodePrefixedUnaryGroup(dst, group, f) ==
  LET d == Forced(dst, f)
  IN IF ~AddressSizeAgrees(d, f) THEN FAIL
     ELSE IF f.a32 /\ d.kind \in GPR
     THEN Out(ForcedPrefixPair(f.o32 \/ d.kind = "REG32", TRUE)
                \o <<\hF6 + W(d.size)>> \o ModrmReg(group, d.reg),
              3 + (IF f.o32 \/ d.kind = "REG32" THEN 1 ELSE 0))
     ELSE IF ~f.o32 \/ d.kind = "REG32" \/ (d.kind = "MEM" /\ d.size = 4)
     THEN EncodeUnaryGroup(d, group)
     ELSE Check(IsTarget(d), RmForm(4, <<\hF6 + W(d.size)>>, group, d, 2))

EncodeIncDec(d, group, reg16_base) ==
  IF d.kind \in R16or32 THEN PlainForm(d.size, <<reg16_base + d.reg>>, 1)
  ELSE Check(IsTarget(d), RmForm(d.size, <<\hFE + W(d.size)>>, group, d, 2))

EncodePrefixedIncDec(dst, group, reg16_base, f) ==
  LET d == Forced(dst, f)
      op_prefix == f.o32 \/ d.kind = "REG32"
  IN CASE ~AddressSizeAgrees(d, f) -> FAIL
       [] AddressSizeAgrees(d, f) /\ f.a32 /\ d.kind = "REG8" ->
            Out(ForcedPrefixPair(op_prefix, TRUE) \o <<\hFE>> \o ModrmReg(group, d.reg),
                3 + (IF op_prefix THEN 1 ELSE 0))
       [] AddressSizeAgrees(d, f) /\ f.a32 /\ d.kind \in R16or32 ->
            Out(ForcedPrefixPair(op_prefix, TRUE) \o <<reg16_base + d.reg>>,
                2 + (IF op_prefix THEN 1 ELSE 0))
       [] OTHER ->
            IF ~f.o32 \/ d.kind = "REG32" \/ (d.kind = "MEM" /\ d.size = 4)
            THEN EncodeIncDec(d, group, reg16_base)
            ELSE IF d.kind = "REG16" THEN PlainForm(4, <<reg16_base + d.reg>>, 1)
            ELSE Check(IsTarget(d), RmForm(4, <<\hFE + W(d.size)>>, group, d, 2))

\* o16 drops the operand size prefix of a dword.
EncodeO16IncDec(dst, group, reg16_base, f) ==
  LET d == Forced(dst, f)
      form == CASE d.kind = "REG8" -> RegForm(1, <<\hFE>>, group, d.reg, 2)
                [] d.kind \in R16or32 -> PlainForm(2, <<reg16_base + d.reg>>, 1)
                [] d.kind = "MEM" /\ d.size \in {1, 2, 4} ->
                     MemForm(2, <<\hFE + W(d.size)>>, group, d.mem, 2)
                [] OTHER -> FAIL
  IN IF ~AddressSizeAgrees(d, f) \/ form = FAIL THEN FAIL
     ELSE IF f.a32 /\ d.kind # "MEM" THEN Out(<<\h67>> \o form.bytes, form.size + 1)
     ELSE form

----------------------------------------------------------------------------
(* imul                                                                    *)

EmitImulRegRm(d, s) ==
  IF d.kind \in R16or32 /\ (s.kind = d.kind \/ MemorySizeMatches(s, d.size))
  THEN RmForm(d.size, <<\h0F, \hAF>>, d.reg, s, 3)
  ELSE FAIL

\* size is the operand size the prefix in front stands for.
ImulImm(size, d, s, v) ==
  IF HasShortForm(d.size, v)
  THEN Then(RmForm(size, <<\h6B>>, d.reg, s, 2), Byte(v), 1)
  ELSE Then(RmForm(size, <<\h69>>, d.reg, s, 2), Imm(d.size, v), d.size)

EmitImulImmTail(d, s, i) ==
  IF /\ i.kind = "IMM"
     /\ d.kind \in R16or32 /\ (s.kind = d.kind \/ MemorySizeMatches(s, d.size))
     /\ FitsAlu(d.size, i.imm)
  THEN ImulImm(d.size, d, s, i.imm)
  ELSE FAIL

EncodeImulMulti(args) ==
  CASE Len(args) = 1 -> EncodeUnaryGroup(args[1], 5)
    [] Len(args) = 2 -> IF args[2].kind = "IMM" THEN EmitImulImmTail(args[1], args[1], args[2])
                                                ELSE EmitImulRegRm(args[1], args[2])
    [] Len(args) = 3 -> EmitImulImmTail(args[1], args[2], args[3])

NaturallyO32(d, s) == d.kind = "REG32" \/ (s.kind = "MEM" /\ s.size = 4)

EmitO32ImulRegRm(d, s) ==
  IF NaturallyO32(d, s) THEN EmitImulRegRm(d, s)
  ELSE IF d.kind = "REG16" /\ (s.kind = "REG16" \/ MemorySizeMatches(s, 2))
  THEN RmForm(4, <<\h0F, \hAF>>, d.reg, s, 3)
  ELSE FAIL

\* The immediate stays a word behind a forced operand size prefix.
EmitO32ImulImmTail(d, s, i) ==
  IF NaturallyO32(d, s) THEN EmitImulImmTail(d, s, i)
  ELSE IF /\ i.kind = "IMM" /\ FitsU16(i.imm)
          /\ d.kind = "REG16" /\ (s.kind = "REG16" \/ MemorySizeMatches(s, 2))
  THEN ImulImm(4, d, s, i.imm)
  ELSE FAIL

\* One operand: a register gets the forced prefixes itself, memory its own.
PrefixedImul1(dst, f) ==
  LET d == Forced(dst, f)
  IN CASE ~AddressSizeAgrees(d, f) -> FAIL
       [] AddressSizeAgrees(d, f) /\ f.o32 /\ f.a32 /\ d.kind \in GPR ->
            Out(<<\h66, \h67, \hF6 + W(d.size)>> \o ModrmReg(5, d.reg), 4)
       [] AddressSizeAgrees(d, f) /\ f.a32 /\ ~f.o32 /\ d.kind # "MEM" ->
            Behind(<<\h67>>, EncodePrefixedUnaryGroup(d, 5, [f EXCEPT !.a32 = FALSE]))
       [] AddressSizeAgrees(d, f) /\ f.a32 /\ f.o32 /\ d.kind \notin GPR \cup {"MEM"} -> FAIL
       [] AddressSizeAgrees(d, f) /\ (~f.a32 \/ d.kind = "MEM") ->
            EncodePrefixedUnaryGroup(d, 5, f)

PrefixedImul2(d, src, f) ==
  LET s == Forced(src, f)
      tail == CASE s.kind = "IMM" /\ f.o32 -> EmitO32ImulImmTail(d, d, s)
                [] s.kind = "IMM" /\ ~f.o32 -> EmitImulImmTail(d, d, s)
                [] s.kind # "IMM" /\ f.o32 -> EmitO32ImulRegRm(d, s)
                [] s.kind # "IMM" /\ ~f.o32 -> EmitImulRegRm(d, s)
  IN CASE ~AddressSizeAgrees(s, f) -> FAIL
       [] AddressSizeAgrees(s, f) /\ f.o32 /\ f.a32 /\ s.kind = "IMM" ->
            Behind(<<\h66, \h67>>, EmitImulImmTail(d, d, s))
       [] AddressSizeAgrees(s, f) /\ f.o32 /\ f.a32 /\ s.kind \in R16or32 /\ s.kind = d.kind ->
            Out(<<\h66, \h67, \h0F, \hAF>> \o ModrmReg(d.reg, s.reg), 5)
       [] OTHER -> IF f.a32 /\ s.kind # "MEM" THEN Behind(<<\h67>>, tail) ELSE tail

PrefixedImul3(d, src, i, f) ==
  LET s == Forced(src, f)
      tail == IF f.o32 THEN EmitO32ImulImmTail(d, s, i) ELSE EmitImulImmTail(d, s, i)
  IN CASE ~AddressSizeAgrees(s, f) -> FAIL
       [] AddressSizeAgrees(s, f) /\ f.o32 /\ f.a32 /\ s.kind # "MEM" ->
            Behind(<<\h66, \h67>>, EmitImulImmTail(d, s, i))
       [] OTHER -> IF f.a32 /\ s.kind # "MEM" THEN Behind(<<\h67>>, tail) ELSE tail

EncodePrefixedImul(args, f) ==
  CASE Len(args) = 1 -> PrefixedImul1(args[1], f)
    [] Len(args) = 2 -> PrefixedImul2(args[1], args[2], f)
    [] Len(args) = 3 -> PrefixedImul3(args[1], args[2], args[3], f)
    [] OTHER -> FAIL
=============================================================================
