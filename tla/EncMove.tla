------------------------------- MODULE EncMove -------------------------------
(***************************************************************************)
(* The encoders of src/langs/i386/main.c for instructions that move data   *)
(* and have two operands, and for those of the system: one operator per    *)
(* function, d and s the operands as parse_operand left them, f what a     *)
(* prefix in front of the instruction forces.                              *)
(***************************************************************************)
EXTENDS EncOperand

\* mov to or from a bare address through the accumulator: a word of address.
MovDirect(opcode, acc, o) ==
  Check(MemorySizeMatches(o, acc.size),
        Then(Out(MemoryOperandPrefixes(o.mem, acc.size) \o <<opcode + W(acc.size)>>,
                 MemoryOperandPrefixLen(o.mem, acc.size) + 1),
             Word(o.mem.disp), 2))

\* The control, debug and test registers.
MovSpecial(d, s) ==
  LET opcode(kind) == CASE kind = "CR" -> \h20 [] kind = "DR" -> \h21 [] kind = "TR" -> \h24
  IN IF d.kind = "REG32" THEN Out(<<\h0F, opcode(s.kind)>> \o ModrmReg(s.reg, d.reg), 3)
                         ELSE Out(<<\h0F, opcode(d.kind) + 2>> \o ModrmReg(d.reg, s.reg), 3)

MovImmediate(d, s) ==
  CASE d.kind \in GPR ->
         Check(FitsImm(d.size, s.imm),
               Then(PlainForm(d.size, <<(IF d.size = 1 THEN \hB0 ELSE \hB8) + d.reg>>, 1),
                    Imm(d.size, s.imm), d.size))
    [] d.kind = "MEM" ->
         IF d.size \notin {1, 2, 4} \/ ~FitsImm(d.size, s.imm) THEN FAIL
         ELSE Then(MemForm(d.size, <<\hC6 + W(d.size)>>, 0, d.mem, 2), Imm(d.size, s.imm), d.size)
    [] OTHER -> FAIL

EncodeMov(d, s) ==
  CASE s.kind = "IMM" -> MovImmediate(d, s)
    [] IsAcc(d) /\ s.kind = "MEM" /\ s.mem.direct -> MovDirect(\hA0, d, s)
    [] IsAcc(s) /\ d.kind = "MEM" /\ d.mem.direct -> MovDirect(\hA2, s, d)
    [] d.kind \in GPR /\ s.kind = d.kind ->
         RegForm(d.size, <<\h88 + W(d.size)>>, s.reg, d.reg, 2)
    [] \/ d.kind = "REG32" /\ s.kind \in {"CR", "DR", "TR"}
       \/ s.kind = "REG32" /\ d.kind \in {"CR", "DR", "TR"} -> MovSpecial(d, s)
    [] d.kind \in GPR /\ s.kind = "MEM" /\ ~(IsAcc(d) /\ s.mem.direct) ->
         Check(MemorySizeMatches(s, d.size), MemForm(d.size, <<\h8A + W(d.size)>>, d.reg, s.mem, 2))
    [] d.kind = "MEM" /\ s.kind \in GPR /\ ~(IsAcc(s) /\ d.mem.direct) ->
         Check(MemorySizeMatches(d, s.size), MemForm(s.size, <<\h88 + W(s.size)>>, s.reg, d.mem, 2))
    [] s.kind = "SEG" /\ d.kind \in {"REG16", "MEM"} ->
         Check(d.kind = "MEM" => MemorySizeMatches(d, 2), RmForm(2, <<\h8C>>, s.reg, d, 2))
    [] d.kind = "SEG" /\ s.kind \in {"REG16", "MEM"} ->
         Check(s.kind = "MEM" => MemorySizeMatches(s, 2), RmForm(2, <<\h8E>>, d.reg, s, 2))
    [] OTHER -> FAIL

----------------------------------------------------------------------------
(* Loads of an address or of a far pointer                                 *)

\* lea takes a number for the address it is.
LeaSource(s) ==
  IF s.kind = "IMM" THEN [s EXCEPT !.kind = "MEM", !.mem = DirectMemory(s.imm, -1)] ELSE s

EncodeLea(d, src) ==
  LET s == LeaSource(src)
  IN Check(d.kind \in R16or32 /\ s.kind = "MEM", MemForm(d.size, <<\h8D>>, d.reg, s.mem, 2))

EncodeLeaPrefixedOperands(d, src, f) ==
  LET s == Forced(LeaSource(src), f)
  IN IF d.kind \notin R16or32 \/ s.kind # "MEM" \/ ~AddressSizeAgrees(s, f) THEN FAIL
     ELSE MemForm(OpSize(d, f), <<\h8D>>, d.reg, s.mem, 2)

EncodeFarLoad(d, s, opcode) ==
  IF d.kind \notin R16or32 \/ s.kind # "MEM" \/ s.size # 0 THEN FAIL
  ELSE MemForm(d.size, <<opcode>>, d.reg, s.mem, 2)

EncodeFarLoad0F(d, s, opcode) ==
  IF d.kind \notin R16or32 \/ s.kind # "MEM" \/ s.size # 0 THEN FAIL
  ELSE MemForm(d.size, <<\h0F, opcode>>, d.reg, s.mem, 3)

EncodeFarLoadPrefixedOperands(d, src, opcode, f) ==
  LET s == Forced(src, f)
  IN IF d.kind \notin R16or32 \/ s.kind # "MEM" \/ s.size # 0 \/ ~AddressSizeAgrees(s, f)
     THEN FAIL
     ELSE MemForm(OpSize(d, f), <<opcode>>, d.reg, s.mem, 2)

EncodeFarLoad0FPrefixedOperands(d, src, opcode, f) ==
  LET s == Forced(src, f)
  IN IF d.kind \notin R16or32 \/ s.kind # "MEM" \/ s.size # 0 \/ ~AddressSizeAgrees(s, f)
     THEN FAIL
     ELSE MemForm(OpSize(d, f), <<\h0F, opcode>>, d.reg, s.mem, 3)

EncodeBound(d, s) ==
  IF d.kind \notin R16or32 \/ s.kind # "MEM" \/ s.size # 0 THEN FAIL
  ELSE MemForm(d.size, <<\h62>>, d.reg, s.mem, 2)

----------------------------------------------------------------------------
(* movsx, movzx, bsf, bsr, lar, lsl                                        *)

\* The opcode follows the source, the prefix the destination.
EncodeMovExtend(d, s, byte_opcode, word_opcode) ==
  LET byte == \/ s.kind = "REG8"
              \/ s.kind = "MEM" /\ s.size = 1
              \/ s.kind = "MEM" /\ s.size = 0 /\ d.kind = "REG16"
      word == d.kind = "REG32" /\ (s.kind = "REG16" \/ (s.kind = "MEM" /\ s.size = 2))
  IN IF d.kind \notin R16or32 \/ ~(byte \/ word) THEN FAIL
     ELSE RmForm(d.size, <<\h0F, IF byte THEN byte_opcode ELSE word_opcode>>, d.reg, s, 3)

EncodeBitScan(d, s, opcode) ==
  IF \/ d.kind \notin R16or32
     \/ s.kind \notin R16or32 \cup {"MEM"}
     \/ s.kind \in R16or32 /\ s.size # d.size
     \/ s.kind = "MEM" /\ s.size \notin {0, d.size}
  THEN FAIL
  ELSE RmForm(d.size, <<\h0F, opcode>>, d.reg, s, 3)

\* lar and lsl differ in the opcode only.
SelectorLoad(d, src, opcode, f) ==
  LET s == Forced(src, f)
      size == OpSize(d, f)
  IN CASE d.kind \in R16or32 /\ s.kind \in R16or32 ->
            Out(ForcedPrefixPair(size = 4, f.a32) \o <<\h0F, opcode>> \o ModrmReg(d.reg, s.reg),
                ForcedPrefixPairLen(size = 4, f.a32) + 3)
       [] d.kind \in R16or32 /\ s.kind = "MEM" ->
            Check(s.size \in {0, 2} /\ AddressSizeAgrees(s, f),
                  MemForm(size, <<\h0F, opcode>>, d.reg, s.mem, 3))
       [] OTHER -> FAIL

EncodeLarOperands(d, s, f) == SelectorLoad(d, s, \h02, f)
EncodeLslOperands(d, s, f) == SelectorLoad(d, s, \h03, f)

----------------------------------------------------------------------------
(* The system's tables, segments and status word                           *)

SystemForm(o, opcode, group, f) ==
  Out(SystemMemoryPrefixes(o.mem, f.o32) \o <<\h0F, opcode>> \o ModrmMem(group, o.mem),
      SystemMemoryPrefixLen(o.mem, f.o32) + 3 + MemoryTailLen(o.mem))

SystemRegForm(op_prefix, o, opcode, group, f) ==
  Out(ForcedPrefixPair(op_prefix, f.a32) \o <<\h0F, opcode>> \o ModrmReg(group, o.reg),
      ForcedPrefixPairLen(op_prefix, f.a32) + 3)

EncodeDescriptorTable(src, group, f) ==
  LET s == Forced(src, f)
  IN Check(s.kind = "MEM" /\ s.size = 0 /\ AddressSizeAgrees(s, f), SystemForm(s, \h01, group, f))

EncodeSystemRm16Load(src, group, f) ==
  LET s == Forced(src, f)
      opcode == IF group = 6 THEN \h01 ELSE \h00
  IN CASE s.kind = "REG16" -> SystemRegForm(f.o32, s, opcode, group, f)
       [] s.kind = "MEM" ->
            Check(s.size \in {0, 2} /\ AddressSizeAgrees(s, f),
                  MemForm(IF f.o32 THEN 4 ELSE 2, <<\h0F, opcode>>, group, s.mem, 3))
       [] OTHER -> FAIL

EncodeSystemRm16Store(dst, group, opcode, f) ==
  LET d == Forced(dst, f)
  IN CASE d.kind \in R16or32 ->
            SystemRegForm(f.o32 \/ (d.kind = "REG32" /\ ~f.o16), d, opcode, group, f)
       [] d.kind = "MEM" ->
            Check(d.size \in {0, 2} /\ AddressSizeAgrees(d, f), SystemForm(d, opcode, group, f))
       [] OTHER -> FAIL

EncodeSystemVerifySelector(src, group, f) ==
  LET s == Forced(src, f)
  IN CASE s.kind = "REG16" -> SystemRegForm(f.o32, s, \h00, group, f)
       [] s.kind = "MEM" ->
            Check(s.size \notin {1, 4} /\ AddressSizeAgrees(s, f), SystemForm(s, \h00, group, f))
       [] OTHER -> FAIL

SystemOneOperand ==
  {"lgdt", "lidt", "sgdt", "sidt", "lldt", "sldt", "ltr", "str", "lmsw", "smsw", "verr", "verw"}

EncodeSystemOneOperandPrefixed(name, args, f) ==
  IF name \notin SystemOneOperand THEN NONE
  ELSE IF Len(args) # 1 THEN FAIL
  ELSE LET s == args[1]
       IN CASE name = "sgdt" -> EncodeDescriptorTable(s, 0, f)
            [] name = "sidt" -> EncodeDescriptorTable(s, 1, f)
            [] name = "lgdt" -> EncodeDescriptorTable(s, 2, f)
            [] name = "lidt" -> EncodeDescriptorTable(s, 3, f)
            [] name = "lldt" -> EncodeSystemRm16Load(s, 2, f)
            [] name = "ltr"  -> EncodeSystemRm16Load(s, 3, f)
            [] name = "lmsw" -> EncodeSystemRm16Load(s, 6, f)
            [] name = "sldt" -> EncodeSystemRm16Store(s, 0, \h00, f)
            [] name = "str"  -> EncodeSystemRm16Store(s, 1, \h00, f)
            [] name = "smsw" -> EncodeSystemRm16Store(s, 4, \h01, f)
            [] name = "verr" -> EncodeSystemVerifySelector(s, 4, f)
            [] name = "verw" -> EncodeSystemVerifySelector(s, 5, f)

----------------------------------------------------------------------------
(* xchg                                                                    *)

EncodeXchg(d, s) ==
  CASE d.kind \in R16or32 /\ s.kind = d.kind ->
         IF d.reg = 0 THEN PlainForm(d.size, <<\h90 + s.reg>>, 1)
         ELSE IF s.reg = 0 THEN PlainForm(d.size, <<\h90 + d.reg>>, 1)
         ELSE RegForm(d.size, <<\h87>>, d.reg, s.reg, 2)
    [] d.kind = "REG8" /\ s.kind = "REG8" -> RegForm(1, <<\h86>>, d.reg, s.reg, 2)
    [] d.kind = "MEM" /\ s.kind \in GPR ->
         Check(MemorySizeMatches(d, s.size), MemForm(s.size, <<\h86 + W(s.size)>>, s.reg, d.mem, 2))
    [] d.kind \in GPR /\ s.kind = "MEM" ->
         Check(MemorySizeMatches(s, d.size), MemForm(d.size, <<\h86 + W(d.size)>>, d.reg, s.mem, 2))
    [] OTHER -> FAIL

\* A forced o32 puts the operand size prefix in front of any width.
EmitXchgMemoryReg(mem, reg, f) ==
  Check(reg.kind \in GPR /\ MemorySizeMatches(mem, reg.size),
        MemForm(IF f.o32 THEN 4 ELSE reg.size, <<\h86 + W(reg.size)>>, reg.reg, mem.mem, 2))

EncodePrefixedXchg(dst, src, f) ==
  LET d == Forced(dst, f)
      s == Forced(src, f)
      op_prefix == f.o32 \/ d.kind = "REG32"
      Regs(bytes, n) == Out(ForcedPrefixPair(op_prefix, f.a32) \o bytes,
                            ForcedPrefixPairLen(op_prefix, f.a32) + n)
  IN IF ~AddressSizeAgrees(d, f) \/ ~AddressSizeAgrees(s, f) THEN FAIL
     ELSE CASE d.kind = "REG8" /\ s.kind = "REG8" -> Regs(<<\h86>> \o ModrmReg(d.reg, s.reg), 2)
            [] d.kind \in R16or32 /\ s.kind = d.kind ->
                 IF d.reg = 0 THEN Regs(<<\h90 + s.reg>>, 1)
                 ELSE IF s.reg = 0 THEN Regs(<<\h90 + d.reg>>, 1)
                 ELSE Regs(<<\h87>> \o ModrmReg(d.reg, s.reg), 2)
            [] d.kind = "MEM" -> EmitXchgMemoryReg(d, s, f)
            [] d.kind # "MEM" /\ s.kind = "MEM" -> EmitXchgMemoryReg(s, d, f)
            [] OTHER -> FAIL
=============================================================================
