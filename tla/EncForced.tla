------------------------------ MODULE EncForced ------------------------------
(***************************************************************************)
(* The encoders of src/langs/i386/main.c for instructions behind o32, o16, *)
(* a16 and a32: a copy of the plain encoder for each of them, with the     *)
(* prefixes that are forced and with sizes of its own.                     *)
(***************************************************************************)
EXTENDS EncMove, EncAlu, EncControl

----------------------------------------------------------------------------
(* mov, arithmetic, test, shifts behind o32                                *)

\* The moves of special registers have no operand size of their own, and get one.
EncodeO32Mov(d, s) ==
  IF \/ d.kind = "REG32" /\ s.kind \in {"CR", "DR", "TR"}
     \/ s.kind = "REG32" /\ d.kind \in {"CR", "DR", "TR"}
  THEN Behind(<<\h66>>, MovSpecial(d, s))
  ELSE IF OperandsNaturallyO32(d, s) THEN EncodeMov(d, s)
  ELSE Wide(d, s, EncodeMov(d, s))

EncodeO32Arith(d, s, base, acc8, acc16, group) ==
  LET form == EncodeArith(d, s, base, acc8, acc16, group)
  IN IF OperandsNaturallyO32(d, s) THEN form ELSE Wide(d, s, form)

EncodeO32Test(d, s) ==
  IF OperandsNaturallyO32(d, s) THEN EncodeTest(d, s) ELSE Wide(d, s, EncodeTest(d, s))

\* Either operand may be the memory that an a16 or a32 is about.
EncodeAddressPrefixedTest(dst, src, f) ==
  LET d == Forced(dst, f)
      s == Forced(src, f)
  IN IF ~AddressSizeAgrees(d, f) \/ ~AddressSizeAgrees(s, f) THEN FAIL
     ELSE IF f.a32 /\ d.kind # "MEM" /\ s.kind # "MEM" THEN Behind(<<\h67>>, EncodeTest(d, s))
     ELSE EncodeTest(d, s)

EncodeO32ShiftGroup(d, s, group) ==
  IF ShiftTargetSize(d) = 4 THEN EncodeShiftGroup(d, s, group)
  ELSE Wide(d, s, EncodeShiftGroup(d, s, group))

EncodePrefixedShiftGroup(dst, s, group, f) ==
  LET d == Forced(dst, f)
      size == ShiftTargetSize(d)
      op_prefix == f.o32 \/ (size = 4 /\ ~f.o16)
  IN IF ~AddressSizeAgrees(d, f) \/ size = 0 \/ ~ShiftCountOK(s) THEN FAIL
     ELSE Then(ForcedForm(op_prefix, f.a32, <<ShiftOpcode(s, size)>>, group, d, 2),
               ShiftCount(s), ShiftCountLen(s))

\* The memory that is shifted has the size of the source, whether it says so or
\* not; 0 where the two disagree.
DoubleShiftTargetSize(d, source_size) ==
  CASE d.kind \in R16or32 /\ d.size = source_size -> source_size
    [] d.kind = "MEM" /\ d.size \in {0, source_size} -> source_size
    [] OTHER -> 0

EncodePrefixedDoubleShift(dst, src, count, imm_opcode, cl_opcode, f) ==
  LET d == Forced(dst, f)
      size == DoubleShiftTargetSize(d, src.size)
      op_prefix == f.o32 \/ (size = 4 /\ ~f.o16)
      Form(opcode) == ForcedForm(op_prefix, f.a32, <<\h0F, opcode>>, src.reg, d, 3)
  IN IF src.kind \notin R16or32 \/ ~AddressSizeAgrees(d, f) \/ size = 0 \/ ~ShiftCountOK(count)
     THEN FAIL
     ELSE IF count.kind = "IMM" THEN Then(Form(imm_opcode), Byte(count.imm), 1)
     ELSE Form(cl_opcode)

EncodeO32UnaryGroup(d, group) ==
  IF d.kind = "REG32" \/ (d.kind = "MEM" /\ d.size = 4) THEN EncodeUnaryGroup(d, group)
  ELSE Wide(d, d, EncodeUnaryGroup(d, group))

EncodeO32Imul(args) ==
  CASE Len(args) = 1 -> EncodeO32UnaryGroup(args[1], 5)
    [] Len(args) = 2 -> IF args[2].kind = "IMM" THEN EmitO32ImulImmTail(args[1], args[1], args[2])
                                                ELSE EmitO32ImulRegRm(args[1], args[2])
    [] Len(args) = 3 -> EmitO32ImulImmTail(args[1], args[2], args[3])
    [] OTHER -> FAIL

----------------------------------------------------------------------------
(* esc: a bare coprocessor opcode of six bits                              *)

EncodeEsc(op, rm) ==
  IF op.kind # "IMM" \/ op.imm \notin 0..63 THEN FAIL
  ELSE LET opcode == \hD8 + op.imm \div 8
           group == op.imm % 8
       IN Check(rm.kind \in {"MEM", "REG16"}, RmForm(2, <<opcode>>, group, rm, 2))

EncodePrefixedEsc(op, rm, f) ==
  LET o == Forced(rm, f)
      form == EncodeEsc(op, o)
  IN IF ~AddressSizeAgrees(o, f) THEN FAIL
     ELSE IF f.o32 THEN Behind(<<\h66>>, form) ELSE form

----------------------------------------------------------------------------
(* Jumps behind o32: a displacement of a dword                             *)

\* bytes, and a displacement of a dword from the end of the instruction.
Relative32(bytes, target, e) ==
  LET size == Len(bytes) + 4
      disp == target - (e.addr + size)
  IN Check(FitsI32(disp), Out(bytes \o Dword(disp), size))

EmitO32Rel8(target, opcode, e) == Relative(<<\h66, opcode>>, 1, target, e)
EmitO32Rel32(target, opcode, e) == Relative32(<<\h66, opcode>>, target, e)
EmitO32JccRel32(target, near, e) == Relative32(<<\h66, \h0F, near>>, target, e)

EncodeO32Jmp(t, e) ==
  CASE ~Scalar(t) \/ t.dist = "far" -> FAIL
    [] Scalar(t) /\ t.dist = "short" ->
         IF Unknown(t.o, e) THEN Sized(3) ELSE EmitO32Rel8(t.o.imm, \hEB, e)
    [] Scalar(t) /\ t.dist \in {"near", "none"} ->
         IF Unknown(t.o, e) THEN Sized(6) ELSE EmitO32Rel32(t.o.imm, \hE9, e)

EncodeO32Call(t, e) ==
  CASE ~Scalar(t) \/ t.dist \in {"short", "far"} -> FAIL
    [] Scalar(t) /\ t.dist \in {"near", "none"} ->
         IF Unknown(t.o, e) THEN Sized(6) ELSE EmitO32Rel32(t.o.imm, \hE8, e)

EncodeO32Jcc(t, short, near, e) ==
  CASE ~Scalar(t) \/ t.dist = "far" -> FAIL
    [] Scalar(t) /\ t.dist = "short" ->
         IF Unknown(t.o, e) THEN Sized(3) ELSE EmitO32Rel8(t.o.imm, short, e)
    [] Scalar(t) /\ t.dist \in {"near", "none"} ->
         IF Unknown(t.o, e) THEN Sized(7) ELSE EmitO32JccRel32(t.o.imm, near, e)

----------------------------------------------------------------------------
(* Jumps behind several prefixes                                           *)

\* The displacement is a dword if o32 stands alone.
Rel32(f) == f.o32 /\ ~f.a16 /\ ~f.a32

EmitPrefixedRel8(target, opcode, f, e) ==
  Relative(ForcedPrefixPair(f.o32, f.a32) \o <<opcode>>, 1, target, e)

EmitPrefixedNear(target, opcode, f, e) ==
  LET bytes == ForcedPrefixPair(f.o32, f.a32) \o opcode
  IN IF Rel32(f) THEN Relative32(bytes, target, e) ELSE Relative(bytes, 2, target, e)

EmitPrefixedJccRel8(target, short, f, e) == EmitPrefixedRel8(target, short, f, e)
EmitPrefixedJccNear(target, near, f, e)  == EmitPrefixedNear(target, <<\h0F, near>>, f, e)

\* The size of a jcc whose target is not known leaves out the prefix of o32 if it
\* is short.
EncodePrefixedJcc(t, short, near, f, e) ==
  LET is_short == t.dist = "short" \/ (t.dist = "none" /\ ~f.o32)
      size == (IF is_short THEN 2 ELSE (IF Rel32(f) THEN 6 ELSE 4) + (IF f.o32 THEN 1 ELSE 0))
                + (IF f.a32 THEN 1 ELSE 0)
  IN IF ~Scalar(t) \/ t.dist = "far" THEN FAIL
     ELSE IF Unknown(t.o, e) THEN Sized(size)
     ELSE IF is_short THEN EmitPrefixedJccRel8(t.o.imm, short, f, e)
     ELSE EmitPrefixedJccNear(t.o.imm, near, f, e)

EncodePrefixedRel8Control(t, opcode, f, e) ==
  IF ~Scalar(t) \/ t.dist # "none" THEN FAIL
  ELSE IF Unknown(t.o, e) THEN Sized(2 + ForcedPrefixPairLen(f.o32, f.a32))
  ELSE EmitPrefixedRel8(t.o.imm, opcode, f, e)

EmitPrefixedJmpRel8(target, f, e) == EmitPrefixedRel8(target, \hEB, f, e)
EmitPrefixedJmpNear(target, f, e) == EmitPrefixedNear(target, <<\hE9>>, f, e)

\* An explicit size leaves out the prefix of o32; a size of none has it in.
EncodePrefixedJmpDirect(o, explicit_size, f, e) ==
  LET size == CASE explicit_size = 0 /\ f.o32 -> IF Rel32(f) THEN 6 ELSE 4
                [] explicit_size = 0 /\ ~f.o32 -> 2
                [] explicit_size = 3 /\ Rel32(f) -> 6
                [] OTHER -> explicit_size
  IN IF o.kind # "IMM" THEN FAIL
     ELSE IF Unknown(o, e) THEN Sized(size + (IF f.a32 THEN 1 ELSE 0))
     ELSE IF size = 2 THEN EmitPrefixedJmpRel8(o.imm, f, e)
     ELSE EmitPrefixedJmpNear(o.imm, f, e)

\* The operand size prefix stands in front of that of the segment.
PrefixedPtr(op_prefix, o, group) ==
  LET form == MemForm(2, <<\hFF>>, group, o.mem, 2)
  IN IF op_prefix THEN Behind(<<\h66>>, form) ELSE form

EncodePrefixedJmpPtrMem(mem, far, f) ==
  LET o == Forced(mem, f)
  IN IF ~JumpMemory(mem) \/ ~AddressSizeAgrees(o, f) THEN FAIL
     ELSE PrefixedPtr(f.o32 \/ o.size = 4, o, IF far THEN 5 ELSE 4)

EncodePrefixedJmpIndirect(dst, f) ==
  LET o == Forced(dst, f)
      op_prefix == ~f.o16 /\ (f.o32 \/ o.size = 4)
  IN CASE ~AddressSizeAgrees(o, f) -> FAIL
       [] AddressSizeAgrees(o, f) /\ o.kind \in R16or32 ->
            Out(ForcedPrefixPair(op_prefix, f.a32) \o <<\hFF>> \o ModrmReg(4, o.reg),
                2 + ForcedPrefixPairLen(op_prefix, f.a32))
       [] AddressSizeAgrees(o, f) /\ o.kind = "MEM" -> PrefixedPtr(op_prefix, o, 4)
       [] OTHER -> FAIL

\* A far jmp is encoded as if nothing stood in front of it.
EncodePrefixedJmp(t, f, e) ==
  CASE t.dist = "short" -> IF t.ptr THEN FAIL ELSE EncodePrefixedJmpDirect(t.o, 2, f, e)
    [] t.dist = "near" -> IF t.ptr THEN EncodePrefixedJmpPtrMem(t.o, FALSE, f)
                                   ELSE EncodePrefixedJmpDirect(t.o, 3, f, e)
    [] t.dist = "far" -> EncodeJmp(t, e)
    [] t.dist = "none" -> IF t.o.kind # "IMM" THEN EncodePrefixedJmpIndirect(t.o, f)
                                              ELSE EncodePrefixedJmpDirect(t.o, 0, f, e)
=============================================================================
