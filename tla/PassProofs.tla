----------------------------- MODULE PassProofs -----------------------------
(***************************************************************************)
(* _86_exec, of src/langs/i386/main.c, asked twice: by the first pass of   *)
(* eval.c, to which a label further on is 0, and by the last.  Whatever    *)
(* the instruction and wherever the label, the two sizes are the same, so  *)
(* that what follows stands where the first pass has put it; with the two  *)
(* exceptions SizeIsStable names.  And an operand prefix may stand on      *)
(* either side of an address prefix.                                       *)
(***************************************************************************)
EXTENDS ExecProofs

----------------------------------------------------------------------------
(* What two answers have in common                                         *)

\* One is a failure, or they are equally long.
Agrees(a, b) == a.size < 0 \/ b.size < 0 \/ b.size = a.size

\* A failure, or so many bytes.
Says(out, n) == out.size < 0 \/ out.size = n

\* The same operand, or one number in place of another.
Alike(o, q) == q = o \/ (o.kind = "IMM" /\ q.kind = "IMM" /\ q.size = o.size)

\* How answers that agree are put together.
LEMMA Agreeing ==
  /\ \A a : Agrees(a, a) /\ Agrees(a, FAIL) /\ Agrees(FAIL, a)
  /\ \A a, b, c, d : /\ Answers(a) /\ Answers(b) /\ Agrees(a, b) /\ Agrees(c, d)
                     => Agrees(OrElse(a, c), OrElse(b, d))
  /\ \A a, b, n : Says(a, n) /\ Says(b, n) => Agrees(a, b)
  /\ \A a, b, g, h : Agrees(a, b) => Agrees(Check(g, a), Check(h, b))
  /\ \A form, b, c, n : Agrees(Then(form, b, n), Then(form, c, n))
<1>1. \A a : Agrees(a, a) /\ Agrees(a, FAIL) /\ Agrees(FAIL, a)
  BY DEF Agrees, FAIL, Out
<1>3. ASSUME NEW a, NEW b, NEW c, NEW d, Answers(a), Answers(b), Agrees(a, b), Agrees(c, d)
      PROVE  Agrees(OrElse(a, c), OrElse(b, d))
  BY <1>3 DEF Agrees, Answers, OrElse, Emits, NONE, Out
<1>4. \A a, b, n : Says(a, n) /\ Says(b, n) => Agrees(a, b)
  BY DEF Agrees, Says
<1>5. \A a, b, g, h : Agrees(a, b) => Agrees(Check(g, a), Check(h, b))
  BY DEF Agrees, Check, FAIL, Out
<1>6. \A form, b, c, n : Agrees(Then(form, b, n), Then(form, c, n))
  BY DEF Agrees, Then, Out
<1> QED
  BY <1>1, <1>3, <1>4, <1>5, <1>6, Zenon

----------------------------------------------------------------------------
(* Encoders that take no number                                            *)

\* A number is none of the other kinds, and no prefix makes anything else of it.
LEMMA NumberKinds ==
  ASSUME NEW o, o.kind = "IMM"
  PROVE  /\ o.kind \notin GPR /\ o.kind \notin R16or32 /\ o.kind \notin {"MEM", "SEG", "CR", "DR", "TR"}
         /\ ~IsAcc(o) /\ ~IsCl(o) /\ ~OperandIsMem16(o) /\ ~OperandIsMem32(o)
         /\ \A size : ~MemorySizeMatches(o, size)
         /\ \A f : Forced(o, f) = o /\ AddressSizeAgrees(o, f)
         /\ ForceDirectMemoryA32(o) = o
  BY DEF GPR, R16or32, IsAcc, IsAl, IsAx, IsEax, IsCl, OperandIsMem16, OperandIsMem32, MemorySizeMatches,
         Forced, AddressSizeAgrees, ForceDirectMemoryA32

\* Those of one operand.
LEMMA NoNumber1 ==
  ASSUME NEW o, o.kind = "IMM", NEW f, NEW x, NEW y
  PROVE  /\ EncodePop(o) = FAIL /\ EncodePrefixedPop(o, f) = FAIL /\ EncodeNot(o) = FAIL
         /\ EncodeUnaryGroup(o, x) = FAIL /\ EncodePrefixedUnaryGroup(o, x, f) = FAIL
         /\ EncodeIncDec(o, x, y) = FAIL /\ EncodePrefixedIncDec(o, x, y, f) = FAIL
         /\ EncodeO16IncDec(o, x, y, f) = FAIL
         /\ EncodeDescriptorTable(o, x, f) = FAIL /\ EncodeSystemRm16Load(o, x, f) = FAIL
         /\ EncodeSystemRm16Store(o, x, y, f) = FAIL /\ EncodeSystemVerifySelector(o, x, f) = FAIL
<1>1. /\ o.kind \notin GPR /\ o.kind \notin R16or32 /\ o.kind \notin {"MEM", "SEG"}
      /\ ~IsTarget(o) /\ Forced(o, f) = o /\ AddressSizeAgrees(o, f)
      /\ o.kind # "REG8" /\ o.kind # "REG16" /\ o.kind # "REG32"
  BY NumberKinds DEF IsTarget, GPR
<1>2. EncodePop(o) = FAIL /\ EncodePrefixedPop(o, f) = FAIL
  BY <1>1 DEF EncodePop, EncodePrefixedPop
<1>3. EncodeNot(o) = FAIL /\ EncodeUnaryGroup(o, x) = FAIL
  BY <1>1 DEF EncodeNot, EncodeUnaryGroup, Check
<1>4. EncodePrefixedUnaryGroup(o, x, f) = FAIL
  BY <1>1, <1>3, Zenon DEF EncodePrefixedUnaryGroup, Check
<1>5. EncodeIncDec(o, x, y) = FAIL
  BY <1>1 DEF EncodeIncDec, Check
<1>6. EncodePrefixedIncDec(o, x, y, f) = FAIL
  BY <1>1, <1>5 DEF EncodePrefixedIncDec, Check
<1>7. EncodeO16IncDec(o, x, y, f) = FAIL
  BY <1>1 DEF EncodeO16IncDec
<1>8. EncodeDescriptorTable(o, x, f) = FAIL /\ EncodeSystemRm16Load(o, x, f) = FAIL
  BY <1>1 DEF EncodeDescriptorTable, EncodeSystemRm16Load, Check
<1>9. EncodeSystemRm16Store(o, x, y, f) = FAIL /\ EncodeSystemVerifySelector(o, x, f) = FAIL
  BY <1>1 DEF EncodeSystemRm16Store, EncodeSystemVerifySelector, Check
<1> QED
  BY <1>2, <1>3, <1>4, <1>5, <1>6, <1>7, <1>8, <1>9

\* Those of two, in either place.
LEMMA NoNumber2 ==
  ASSUME NEW d, NEW s, d.kind = "IMM" \/ s.kind = "IMM", NEW f, NEW x, NEW y
  PROVE  /\ EncodeFarLoad(d, s, x) = FAIL /\ EncodeFarLoad0F(d, s, x) = FAIL
         /\ EncodeFarLoadPrefixedOperands(d, s, x, f) = FAIL /\ EncodeFarLoad0FPrefixedOperands(d, s, x, f) = FAIL
         /\ EncodeMovExtend(d, s, x, y) = FAIL /\ EncodeBound(d, s) = FAIL
         /\ EncodeBoundPrefixedOperands(d, s, f) = FAIL
         /\ EncodeBitScan(d, s, x) = FAIL /\ EncodeBitScanPrefixedOperands(d, s, x, f) = FAIL
         /\ EncodeArplOperands(d, s, f) = FAIL
         /\ EncodeLarOperands(d, s, f) = FAIL /\ EncodeLslOperands(d, s, f) = FAIL
         /\ EncodeXchg(d, s) = FAIL /\ EncodePrefixedXchg(d, s, f) = FAIL
<1>1. \A o : o.kind = "IMM" => /\ o.kind \notin GPR /\ o.kind \notin R16or32 /\ o.kind \notin {"MEM", "SEG"}
                               /\ Forced(o, f) = o /\ AddressSizeAgrees(o, f)
                               /\ o.kind # "REG8" /\ o.kind # "REG16" /\ o.kind # "REG32"
                               /\ ~OperandIsMem16(o) /\ ~OperandIsMem32(o)
                               /\ \A size : ~MemorySizeMatches(o, size)
  BY NumberKinds DEF GPR
<1>2. EncodeFarLoad(d, s, x) = FAIL /\ EncodeFarLoad0F(d, s, x) = FAIL /\ EncodeBound(d, s) = FAIL
  BY <1>1 DEF EncodeFarLoad, EncodeFarLoad0F, EncodeBound
<1>3. /\ EncodeFarLoadPrefixedOperands(d, s, x, f) = FAIL /\ EncodeFarLoad0FPrefixedOperands(d, s, x, f) = FAIL
      /\ EncodeBoundPrefixedOperands(d, s, f) = FAIL
  BY <1>1 DEF EncodeFarLoadPrefixedOperands, EncodeFarLoad0FPrefixedOperands, EncodeBoundPrefixedOperands
<1>4. EncodeMovExtend(d, s, x, y) = FAIL
  BY <1>1 DEF EncodeMovExtend
<1>5. EncodeBitScan(d, s, x) = FAIL /\ EncodeBitScanPrefixedOperands(d, s, x, f) = FAIL
  BY <1>1 DEF EncodeBitScan, EncodeBitScanPrefixedOperands
<1>6. EncodeArplOperands(d, s, f) = FAIL
  BY <1>1 DEF EncodeArplOperands, Check
<1>7. EncodeLarOperands(d, s, f) = FAIL /\ EncodeLslOperands(d, s, f) = FAIL
  BY <1>1 DEF EncodeLarOperands, EncodeLslOperands, SelectorLoad
<1>8. EncodeXchg(d, s) = FAIL
  BY <1>1 DEF EncodeXchg, Check, GPR, R16or32
<1>9. EncodePrefixedXchg(d, s, f) = FAIL
  BY <1>1 DEF EncodePrefixedXchg, EmitXchgMemoryReg, Check, GPR, R16or32
<1> QED
  BY <1>2, <1>3, <1>4, <1>5, <1>6, <1>7, <1>8, <1>9

----------------------------------------------------------------------------
(* Encoders that take a number                                             *)

\* mov of a number.
LEMMA MovAgrees ==
  ASSUME NEW d, NEW s, s.kind = "IMM", NEW q, q.kind = "IMM"
  PROVE  /\ Agrees(EncodeMov(d, s), EncodeMov(d, q)) /\ Agrees(EncodeO32Mov(d, s), EncodeO32Mov(d, q))
         /\ d.kind = "IMM" => EncodeMov(d, s) = FAIL
<1> DEFINE reg == PlainForm(d.size, <<(IF d.size = 1 THEN \hB0 ELSE \hB8) + d.reg>>, 1)
           mem == MemForm(d.size, <<\hC6 + W(d.size)>>, 0, d.mem, 2)
<1>1. \A o : o.kind = "IMM" => EncodeMov(d, o) = MovImmediate(d, o)
  <2>1. \A o : o.kind = "IMM" => /\ ~IsAcc(o) /\ o.kind \notin GPR
                                 /\ o.kind \notin {"MEM", "SEG", "CR", "DR", "TR", "REG32"}
    BY NumberKinds DEF GPR
  <2> QED
    BY <2>1 DEF EncodeMov
<1>2. \A o : MovImmediate(d, o)
        = CASE d.kind \in GPR -> Check(FitsImm(d.size, o.imm), Then(reg, Imm(d.size, o.imm), d.size))
            [] d.kind = "MEM" -> IF d.size \notin {1, 2, 4} \/ ~FitsImm(d.size, o.imm) THEN FAIL
                                 ELSE Then(mem, Imm(d.size, o.imm), d.size)
            [] OTHER -> FAIL
  BY DEF MovImmediate
<1> HIDE DEF reg, mem
<1>3. Agrees(MovImmediate(d, s), MovImmediate(d, q))
  BY <1>2, Agreeing DEF GPR
<1>4. d.kind = "IMM" => MovImmediate(d, s) = FAIL
  BY <1>2 DEF GPR
<1>5. Agrees(Wide(d, s, MovImmediate(d, s)), Wide(d, q, MovImmediate(d, q)))
  BY <1>3 DEF Agrees, Wide, Out, FAIL
<1>6. \A o : o.kind = "IMM" =>
        EncodeO32Mov(d, o) = IF d.kind = "REG32" \/ (d.kind = "MEM" /\ d.size = 4) THEN MovImmediate(d, o)
                             ELSE Wide(d, o, MovImmediate(d, o))
  BY <1>1 DEF EncodeO32Mov, OperandsNaturallyO32
<1> QED
  BY <1>1, <1>3, <1>4, <1>5, <1>6

\* The form lea has with an address of either size.
LEMMA DirectForms ==
  ASSUME NEW v, NEW size, NEW bytes, NEW reg
  PROVE  /\ MemForm(size, bytes, reg, DirectMemory(v, -1), 2).size = OperandSizePrefixLen(size) + 4
         /\ MemForm(size, bytes, reg, [DirectMemory(v, -1) EXCEPT !.addr_size = 4], 2).size
              = OperandSizePrefixLen(size) + 7
<1> DEFINE short == DirectMemory(v, -1)
           wide == [DirectMemory(v, -1) EXCEPT !.addr_size = 4]
<1>1. /\ short.addr_size = 2 /\ short.seg_override = -1 /\ short.direct
      /\ wide.addr_size = 4 /\ wide.seg_override = -1 /\ wide.direct
  BY DEF DirectMemory
<1> HIDE DEF short, wide
<1>2. MemoryTailLen(short) = 2 /\ MemoryTailLen(wide) = 4
  BY <1>1 DEF MemoryTailLen, Memory32NeedsSib, Memory32DispLen
<1>3. /\ MemoryOperandPrefixLen(short, size) = OperandSizePrefixLen(size)
      /\ MemoryOperandPrefixLen(wide, size) = OperandSizePrefixLen(size) + 1
  BY <1>1 DEF MemoryOperandPrefixLen, SegmentPrefixLen, AddressSizePrefixLen, OperandSizePrefixLen
<1>4. OperandSizePrefixLen(size) \in Int
  BY DEF OperandSizePrefixLen
<1>5. MemForm(size, bytes, reg, short, 2).size = OperandSizePrefixLen(size) + 2 + 2
  BY <1>2, <1>3 DEF MemForm, Out
<1>6. MemForm(size, bytes, reg, wide, 2).size = OperandSizePrefixLen(size) + 1 + 2 + 4
  BY <1>2, <1>3 DEF MemForm, Out
<1> QED
  BY <1>4, <1>5, <1>6 DEF short, wide

\* lea of a number, which it takes for the address.
LEMMA LeaAgrees ==
  ASSUME NEW d, NEW s, s \in Operand, s.kind = "IMM", NEW q, q \in Operand, q.kind = "IMM", NEW f
  PROVE  /\ Agrees(EncodeLea(d, s), EncodeLea(d, q))
         /\ Agrees(EncodeLeaPrefixedOperands(d, s, f), EncodeLeaPrefixedOperands(d, q, f))
<1>1. ASSUME NEW o \in {s, q}
      PROVE  /\ LeaSource(o).kind = "MEM" /\ LeaSource(o).mem = DirectMemory(o.imm, -1)
             /\ Forced(LeaSource(o), f).kind = "MEM"
             /\ Forced(LeaSource(o), f).mem
                  = IF f.a32 THEN [DirectMemory(o.imm, -1) EXCEPT !.addr_size = 4] ELSE DirectMemory(o.imm, -1)
  <2> DEFINE a == LeaSource(o)
             m == DirectMemory(o.imm, -1)
  <2>1. a = [o EXCEPT !.kind = "MEM", !.mem = m]
    BY <1>1 DEF LeaSource
  <2>2. m.direct
    BY DEF DirectMemory
  <2> HIDE DEF m
  <2>3. /\ a.kind = "MEM" /\ a.mem = m
        /\ "mem" \in DOMAIN a /\ "kind" \in DOMAIN a /\ a = [n \in DOMAIN a |-> a[n]]
    BY <1>1, <2>1 DEF Operand
  <2> HIDE DEF a
  <2>4. Forced(a, f) = IF f.a32 THEN [a EXCEPT !.mem.addr_size = 4] ELSE a
    BY <2>2, <2>3 DEF Forced, ForceDirectMemoryA32
  <2> QED
    BY <2>3, <2>4 DEF a, m
<1>2. \A o \in {s, q} : \/ EncodeLea(d, o) = FAIL
                       \/ EncodeLea(d, o).size = OperandSizePrefixLen(d.size) + 4
  <2> DEFINE lea == <<\h8D>>
             size == d.size
             reg == d.reg
  <2>1. \A o \in {s, q} :
          EncodeLea(d, o) = Check(d.kind \in R16or32, MemForm(size, lea, reg, DirectMemory(o.imm, -1), 2))
    BY <1>1 DEF EncodeLea
  <2> HIDE DEF lea, size, reg
  <2>2. \A v : MemForm(size, lea, reg, DirectMemory(v, -1), 2).size = OperandSizePrefixLen(size) + 4
    BY DirectForms
  <2> QED
    BY <2>1, <2>2, Zenon DEF Check, size
<1>3. \A o \in {s, q} : \/ EncodeLeaPrefixedOperands(d, o, f) = FAIL
                       \/ EncodeLeaPrefixedOperands(d, o, f).size
                            = OperandSizePrefixLen(OpSize(d, f)) + (IF f.a32 THEN 7 ELSE 4)
  <2> DEFINE lea == <<\h8D>>
             size == OpSize(d, f)
  <2>1. \A o \in {s, q} : \/ EncodeLeaPrefixedOperands(d, o, f) = FAIL
                         \/ EncodeLeaPrefixedOperands(d, o, f) = MemForm(size, lea, d.reg, Forced(LeaSource(o), f).mem, 2)
    BY DEF EncodeLeaPrefixedOperands
  <2> HIDE DEF lea, size
  <2>2. \A o \in {s, q} : MemForm(size, lea, d.reg, Forced(LeaSource(o), f).mem, 2).size
                            = OperandSizePrefixLen(size) + (IF f.a32 THEN 7 ELSE 4)
    BY <1>1, DirectForms
  <2> QED
    BY <2>1, <2>2 DEF size
<1> QED
  BY <1>2, <1>3 DEF Agrees, FAIL, Out

\* The tests of one bit.
LEMMA BitTestAgrees ==
  ASSUME NEW dst, NEW s, s.kind = "IMM", NEW q, q.kind = "IMM", NEW x, NEW y, NEW f
  PROVE  Agrees(EncodeBitTestPrefixedOperands(dst, s, x, y, f), EncodeBitTestPrefixedOperands(dst, q, x, y, f))
<1> DEFINE d == Forced(dst, f)
           size == IF d.kind \in R16or32 \/ (d.kind = "MEM" /\ d.size \in {2, 4})
                   THEN IF f.o32 \/ d.size = 4 THEN 4 ELSE 2 ELSE 0
           form == ForcedForm(size = 4, f.a32, <<\h0F, \hBA>>, y, d, 3)
<1>1. \A o : o.kind = "IMM" => BitTestOperandSize(d, o, f) = size
  <2>1. \A o : o.kind = "IMM" => o.kind \notin R16or32
    BY DEF R16or32
  <2> HIDE DEF d
  <2> QED
    BY <2>1 DEF BitTestOperandSize
<1>2. \A o : o.kind = "IMM" =>
        EncodeBitTestPrefixedOperands(dst, o, x, y, f)
          = IF ~AddressSizeAgrees(d, f) \/ size = 0 THEN FAIL
            ELSE Check(FitsU16(o.imm), Then(form, Byte(o.imm), 1))
  <2> HIDE DEF size
  <2> QED
    BY <1>1 DEF EncodeBitTestPrefixedOperands
<1> HIDE DEF form, size, d
<1> QED
  BY <1>2, Agreeing

\* The shifts by a number that is not 1.
LEMMA ShiftsAgree ==
  ASSUME NEW dst, NEW s, s.kind = "IMM", s.imm # 1, NEW q, q.kind = "IMM", q.imm # 1, NEW x, NEW f
  PROVE  /\ Agrees(EncodeShiftGroup(dst, s, x), EncodeShiftGroup(dst, q, x))
         /\ Agrees(EncodePrefixedShiftGroup(dst, s, x, f), EncodePrefixedShiftGroup(dst, q, x, f))
<1> DEFINE d == Forced(dst, f)
<1>1. /\ ShiftCountLen(s) = 1 /\ ShiftCountLen(q) = 1
      /\ \A size : ShiftOpcode(s, size) = ShiftOpcode(q, size)
  BY DEF ShiftCountLen, ShiftOpcode
<1>2. Agrees(EncodeShiftGroup(dst, s, x), EncodeShiftGroup(dst, q, x))
  BY <1>1, Agreeing DEF EncodeShiftGroup
<1> HIDE DEF d
<1>3. \A o : EncodePrefixedShiftGroup(dst, o, x, f)
               = IF ~AddressSizeAgrees(d, f) \/ ShiftTargetSize(d) = 0 \/ ~ShiftCountOK(o) THEN FAIL
                 ELSE Then(ForcedForm(f.o32 \/ (ShiftTargetSize(d) = 4 /\ ~f.o16), f.a32,
                                      <<ShiftOpcode(o, ShiftTargetSize(d))>>, x, d, 2),
                           ShiftCount(o), ShiftCountLen(o))
  BY DEF EncodePrefixedShiftGroup, d
<1>4. Agrees(EncodePrefixedShiftGroup(dst, s, x, f), EncodePrefixedShiftGroup(dst, q, x, f))
  BY <1>1, <1>3, Agreeing
<1> QED
  BY <1>2, <1>4

\* shld and shrd by a number.
LEMMA DoubleShiftsAgree ==
  ASSUME NEW dst, NEW src, NEW s, s.kind = "IMM", NEW q, q.kind = "IMM", NEW x, NEW y, NEW f
  PROVE  Agrees(EncodePrefixedDoubleShift(dst, src, s, x, y, f), EncodePrefixedDoubleShift(dst, src, q, x, y, f))
<1> DEFINE d == Forced(dst, f)
           size == DoubleShiftTargetSize(d, src.size)
           form == ForcedForm(f.o32 \/ (size = 4 /\ ~f.o16), f.a32, <<\h0F, x>>, src.reg, d, 3)
<1>1. \A o : o.kind = "IMM" =>
        EncodePrefixedDoubleShift(dst, src, o, x, y, f)
          = IF src.kind \notin R16or32 \/ ~AddressSizeAgrees(d, f) \/ size = 0 \/ ~ShiftCountOK(o) THEN FAIL
            ELSE Then(form, Byte(o.imm), 1)
  BY DEF EncodePrefixedDoubleShift
<1> HIDE DEF d, size, form
<1> QED
  BY <1>1, Agreeing

\* in, out and esc.
LEMMA PortsAgree ==
  ASSUME NEW d, NEW s, s.kind = "IMM", NEW q, q.kind = "IMM", NEW f
  PROVE  /\ Agrees(EncodeIn(d, s), EncodeIn(d, q)) /\ Agrees(EncodeOut(s, d), EncodeOut(q, d))
         /\ Agrees(EncodeInPrefixedOperands(d, s, f), EncodeInPrefixedOperands(d, q, f))
         /\ Agrees(EncodeOutPrefixedOperands(s, d, f), EncodeOutPrefixedOperands(q, d, f))
<1>1. \A prefix, k, x, acc : Agrees(PortForm(prefix, k, x, acc, s), PortForm(prefix, k, x, acc, q))
  BY DEF PortForm, Check, Agrees, Out, FAIL
<1> QED
  BY <1>1, Agreeing DEF EncodeIn, EncodeOut, EncodeInPrefixedOperands, EncodeOutPrefixedOperands

LEMMA EscAgrees ==
  ASSUME NEW rm, NEW s, s.kind = "IMM", NEW q, q.kind = "IMM", NEW f
  PROVE  Agrees(EncodeEsc(s, rm), EncodeEsc(q, rm)) /\ Agrees(EncodePrefixedEsc(s, rm, f), EncodePrefixedEsc(q, rm, f))
<1>1. \A size, x, y, g, h, o : RmForm(size, <<x>>, g, o, 2).size = RmForm(size, <<y>>, h, o, 2).size
  BY DEF RmForm, RegForm, MemForm, Out
<1>2. \A o : Agrees(EncodeEsc(s, o), EncodeEsc(q, o))
  <2>1. ASSUME NEW o
        PROVE  Agrees(EncodeEsc(s, o), EncodeEsc(q, o))
    <3> DEFINE a == RmForm(2, <<\hD8 + s.imm \div 8>>, s.imm % 8, o, 2)
               b == RmForm(2, <<\hD8 + q.imm \div 8>>, q.imm % 8, o, 2)
               good == o.kind \in {"MEM", "REG16"}
    <3>1. /\ EncodeEsc(s, o) = FAIL \/ EncodeEsc(s, o) = Check(good, a)
          /\ EncodeEsc(q, o) = FAIL \/ EncodeEsc(q, o) = Check(good, b)
      BY DEF EncodeEsc
    <3>2. a.size = b.size
      BY <1>1
    <3> HIDE DEF a, b, good
    <3>3. Agrees(a, b)
      BY <3>2 DEF Agrees
    <3> QED
      BY <3>1, <3>3, Agreeing
  <2> QED
    BY <2>1
<1>3. \A a, b : Agrees(a, b) => Agrees(Behind(<<\h66>>, a), Behind(<<\h66>>, b))
  <2> DEFINE wide == <<\h66>>
  <2> HIDE DEF wide
  <2>1. \A a, b : Agrees(a, b) => Agrees(Behind(wide, a), Behind(wide, b))
    BY DEF Agrees, Behind, FAIL, Out
  <2> QED
    BY <2>1 DEF wide
<1>4. Agrees(EncodePrefixedEsc(s, rm, f), EncodePrefixedEsc(q, rm, f))
  BY <1>2, <1>3, Agreeing DEF EncodePrefixedEsc
<1> QED
  BY <1>2, <1>4

\* Numbers alone: int, aad and aam, ret and enter.
LEMMA NumbersAgree ==
  ASSUME NEW s, NEW q
  PROVE  /\ Agrees(EncodeIntr(s), EncodeIntr(q)) /\ Agrees(EncodeAad(s), EncodeAad(q)) /\ Agrees(EncodeAam(s), EncodeAam(q))
<1> QED
  BY DEF EncodeIntr, EncodeAad, EncodeAam, Check, Agrees, Out, FAIL

LEMMA ReturnsAgree ==
  ASSUME NEW args, NEW other, Len(args) = Len(other), NEW x, NEW y, NEW f
  PROVE  /\ Agrees(EncodeRet(args, x, y), EncodeRet(other, x, y))
         /\ Agrees(EncodeEnter(args), EncodeEnter(other))
         /\ Agrees(EncodePrefixedRet(args, x, y, f), EncodePrefixedRet(other, x, y, f))
         /\ Agrees(EncodePrefixedEnter(args, f), EncodePrefixedEnter(other, f))
<1>1. Agrees(EncodeRet(args, x, y), EncodeRet(other, x, y))
  BY DEF EncodeRet, Check, Agrees, Out, FAIL
<1>2. Agrees(EncodeEnter(args), EncodeEnter(other))
  BY DEF EncodeEnter, Check, Agrees, Out, FAIL
<1>3. \A bytes, a, b : Agrees(a, b) => Agrees(Behind(bytes, a), Behind(bytes, b))
  BY DEF Agrees, Behind, FAIL, Out
<1> QED
  BY <1>1, <1>2, <1>3 DEF EncodePrefixedRet, EncodePrefixedEnter

\* They take it in one place, and in the other refuse it.
LEMMA NoNumberBeside ==
  ASSUME NEW o, o.kind = "IMM", NEW a, NEW b, NEW f, NEW x, NEW y
  PROVE  /\ EncodeMov(o, a).size < 0 /\ EncodeO32Mov(o, a).size < 0
         /\ EncodeLea(o, a).size < 0 /\ EncodeLeaPrefixedOperands(o, a, f).size < 0
         /\ EncodeBitTestPrefixedOperands(o, a, x, y, f).size < 0
         /\ EncodeShiftGroup(o, a, x).size < 0 /\ EncodePrefixedShiftGroup(o, a, x, f).size < 0
         /\ EncodePrefixedDoubleShift(o, a, b, x, y, f).size < 0
         /\ EncodePrefixedDoubleShift(a, o, b, x, y, f).size < 0
         /\ EncodeIn(o, a).size < 0 /\ EncodeInPrefixedOperands(o, a, f).size < 0
         /\ EncodeOut(a, o).size < 0 /\ EncodeOutPrefixedOperands(a, o, f).size < 0
         /\ EncodeEsc(a, o).size < 0 /\ EncodePrefixedEsc(a, o, f).size < 0
<1>1. /\ o.kind \notin GPR /\ o.kind \notin R16or32 /\ o.kind \notin {"MEM", "SEG", "CR", "DR", "TR"}
      /\ o.kind # "REG8" /\ o.kind # "REG16" /\ o.kind # "REG32" /\ ~IsAcc(o)
      /\ Forced(o, f) = o /\ \A size : ~MemorySizeMatches(o, size)
  BY NumberKinds DEF GPR
<1>2. FAIL.size < 0
  BY DEF FAIL, Out
<1>3. EncodeMov(o, a) = FAIL
  <2>1. CASE a.kind = "IMM"
    BY <2>1, MovAgrees
  <2>2. CASE a.kind # "IMM"
    BY <1>1, <2>2 DEF EncodeMov, Check
  <2> QED
    BY <2>1, <2>2
<1>4. EncodeO32Mov(o, a).size < 0
  <2>1. Wide(o, a, FAIL) = FAIL
    BY <1>2 DEF Wide
  <2> QED
    BY <1>1, <1>2, <1>3, <2>1 DEF EncodeO32Mov
<1>5. EncodeLea(o, a) = FAIL /\ EncodeLeaPrefixedOperands(o, a, f) = FAIL
  BY <1>1 DEF EncodeLea, EncodeLeaPrefixedOperands, Check
<1>6. EncodeBitTestPrefixedOperands(o, a, x, y, f) = FAIL
  <2>1. BitTestOperandSize(o, a, f) = 0
    BY <1>1 DEF BitTestOperandSize
  <2> QED
    BY <1>1, <2>1 DEF EncodeBitTestPrefixedOperands
<1>7. EncodeShiftGroup(o, a, x) = FAIL /\ EncodePrefixedShiftGroup(o, a, x, f) = FAIL
  <2>1. ShiftTargetSize(o) = 0
    BY <1>1 DEF ShiftTargetSize
  <2> QED
    BY <1>1, <2>1 DEF EncodeShiftGroup, EncodePrefixedShiftGroup
<1>8. EncodePrefixedDoubleShift(o, a, b, x, y, f) = FAIL /\ EncodePrefixedDoubleShift(a, o, b, x, y, f) = FAIL
  <2>1. \A n : DoubleShiftTargetSize(o, n) = 0
    BY <1>1 DEF DoubleShiftTargetSize
  <2> QED
    BY <1>1, <2>1 DEF EncodePrefixedDoubleShift
<1>9. /\ EncodeIn(o, a) = FAIL /\ EncodeInPrefixedOperands(o, a, f) = FAIL
      /\ EncodeOut(a, o) = FAIL /\ EncodeOutPrefixedOperands(a, o, f) = FAIL
  BY <1>1 DEF EncodeIn, EncodeInPrefixedOperands, EncodeOut, EncodeOutPrefixedOperands, Check
<1>10. EncodeEsc(a, o) = FAIL
  BY <1>1 DEF EncodeEsc, Check
<1>11. EncodePrefixedEsc(a, o, f).size < 0
  BY <1>1, <1>2, <1>10 DEF EncodePrefixedEsc, Behind
<1> QED
  BY <1>2, <1>3, <1>4, <1>5, <1>6, <1>7, <1>8, <1>9, <1>10, <1>11

----------------------------------------------------------------------------
(* Each encoder, asked with one number in place of another                 *)

\* Of one operand.
LEMMA OneAgrees ==
  ASSUME NEW o, NEW q, Alike(o, q), NEW f, NEW x, NEW y
  PROVE  /\ Agrees(EncodePop(o), EncodePop(q)) /\ Agrees(EncodePrefixedPop(o, f), EncodePrefixedPop(q, f))
         /\ Agrees(EncodeNot(o), EncodeNot(q)) /\ Agrees(EncodeUnaryGroup(o, x), EncodeUnaryGroup(q, x))
         /\ Agrees(EncodePrefixedUnaryGroup(o, x, f), EncodePrefixedUnaryGroup(q, x, f))
         /\ Agrees(EncodeIncDec(o, x, y), EncodeIncDec(q, x, y))
         /\ Agrees(EncodePrefixedIncDec(o, x, y, f), EncodePrefixedIncDec(q, x, y, f))
         /\ Agrees(EncodeO16IncDec(o, x, y, f), EncodeO16IncDec(q, x, y, f))
         /\ Agrees(EncodeDescriptorTable(o, x, f), EncodeDescriptorTable(q, x, f))
         /\ Agrees(EncodeSystemRm16Load(o, x, f), EncodeSystemRm16Load(q, x, f))
         /\ Agrees(EncodeSystemRm16Store(o, x, y, f), EncodeSystemRm16Store(q, x, y, f))
         /\ Agrees(EncodeSystemVerifySelector(o, x, f), EncodeSystemVerifySelector(q, x, f))
<1>1. CASE q = o
  BY <1>1, Agreeing
<1>2. CASE o.kind = "IMM"
  BY <1>2, NoNumber1, Agreeing
<1> QED
  BY <1>1, <1>2 DEF Alike

\* Of two.
LEMMA TwoAgree ==
  ASSUME NEW d, NEW s, NEW a, NEW b, Alike(d, a), Alike(s, b),
         IsOperand(d), IsOperand(s), IsOperand(a), IsOperand(b), NEW f, NEW x, NEW y
  PROVE  /\ Agrees(EncodeFarLoad(d, s, x), EncodeFarLoad(a, b, x))
         /\ Agrees(EncodeFarLoad0F(d, s, x), EncodeFarLoad0F(a, b, x))
         /\ Agrees(EncodeFarLoadPrefixedOperands(d, s, x, f), EncodeFarLoadPrefixedOperands(a, b, x, f))
         /\ Agrees(EncodeFarLoad0FPrefixedOperands(d, s, x, f), EncodeFarLoad0FPrefixedOperands(a, b, x, f))
         /\ Agrees(EncodeMovExtend(d, s, x, y), EncodeMovExtend(a, b, x, y))
         /\ Agrees(EncodeBound(d, s), EncodeBound(a, b))
         /\ Agrees(EncodeBoundPrefixedOperands(d, s, f), EncodeBoundPrefixedOperands(a, b, f))
         /\ Agrees(EncodeBitScan(d, s, x), EncodeBitScan(a, b, x))
         /\ Agrees(EncodeBitScanPrefixedOperands(d, s, x, f), EncodeBitScanPrefixedOperands(a, b, x, f))
         /\ Agrees(EncodeArplOperands(d, s, f), EncodeArplOperands(a, b, f))
         /\ Agrees(EncodeLarOperands(d, s, f), EncodeLarOperands(a, b, f))
         /\ Agrees(EncodeLslOperands(d, s, f), EncodeLslOperands(a, b, f))
         /\ Agrees(EncodeXchg(d, s), EncodeXchg(a, b))
         /\ Agrees(EncodePrefixedXchg(d, s, f), EncodePrefixedXchg(a, b, f))
         /\ Agrees(EncodeMov(d, s), EncodeMov(a, b)) /\ Agrees(EncodeO32Mov(d, s), EncodeO32Mov(a, b))
         /\ Agrees(EncodeLea(d, s), EncodeLea(a, b))
         /\ Agrees(EncodeLeaPrefixedOperands(d, s, f), EncodeLeaPrefixedOperands(a, b, f))
         /\ Agrees(EncodeBitTestPrefixedOperands(d, s, x, y, f), EncodeBitTestPrefixedOperands(a, b, x, y, f))
         /\ Agrees(EncodeIn(d, s), EncodeIn(a, b))
         /\ Agrees(EncodeInPrefixedOperands(d, s, f), EncodeInPrefixedOperands(a, b, f))
         /\ Agrees(EncodeOut(d, s), EncodeOut(a, b))
         /\ Agrees(EncodeOutPrefixedOperands(d, s, f), EncodeOutPrefixedOperands(a, b, f))
         /\ Agrees(EncodeEsc(d, s), EncodeEsc(a, b))
         /\ Agrees(EncodePrefixedEsc(d, s, f), EncodePrefixedEsc(a, b, f))
<1>1. CASE a = d /\ b = s
  BY <1>1, Agreeing
<1>2. CASE d.kind = "IMM" \/ s.kind = "IMM"
  <2>1. s \in Operand /\ b \in Operand
    BY DEF IsOperand
  <2>2. /\ Agrees(EncodeFarLoad(d, s, x), EncodeFarLoad(a, b, x))
        /\ Agrees(EncodeFarLoad0F(d, s, x), EncodeFarLoad0F(a, b, x))
        /\ Agrees(EncodeFarLoadPrefixedOperands(d, s, x, f), EncodeFarLoadPrefixedOperands(a, b, x, f))
        /\ Agrees(EncodeFarLoad0FPrefixedOperands(d, s, x, f), EncodeFarLoad0FPrefixedOperands(a, b, x, f))
        /\ Agrees(EncodeMovExtend(d, s, x, y), EncodeMovExtend(a, b, x, y))
        /\ Agrees(EncodeBound(d, s), EncodeBound(a, b))
        /\ Agrees(EncodeBoundPrefixedOperands(d, s, f), EncodeBoundPrefixedOperands(a, b, f))
        /\ Agrees(EncodeBitScan(d, s, x), EncodeBitScan(a, b, x))
        /\ Agrees(EncodeBitScanPrefixedOperands(d, s, x, f), EncodeBitScanPrefixedOperands(a, b, x, f))
        /\ Agrees(EncodeArplOperands(d, s, f), EncodeArplOperands(a, b, f))
        /\ Agrees(EncodeLarOperands(d, s, f), EncodeLarOperands(a, b, f))
        /\ Agrees(EncodeLslOperands(d, s, f), EncodeLslOperands(a, b, f))
        /\ Agrees(EncodeXchg(d, s), EncodeXchg(a, b))
        /\ Agrees(EncodePrefixedXchg(d, s, f), EncodePrefixedXchg(a, b, f))
    BY <1>2, NoNumber2, Agreeing
  <2>3. \A o, c : o.kind = "IMM" =>
          /\ EncodeMov(o, c).size < 0 /\ EncodeO32Mov(o, c).size < 0
          /\ EncodeLea(o, c).size < 0 /\ EncodeLeaPrefixedOperands(o, c, f).size < 0
          /\ EncodeBitTestPrefixedOperands(o, c, x, y, f).size < 0
          /\ EncodeIn(o, c).size < 0 /\ EncodeInPrefixedOperands(o, c, f).size < 0
          /\ EncodeOut(c, o).size < 0 /\ EncodeOutPrefixedOperands(c, o, f).size < 0
          /\ EncodeEsc(c, o).size < 0 /\ EncodePrefixedEsc(c, o, f).size < 0
    BY NoNumberBeside
  <2>4. CASE d.kind = "IMM"
    <3>1. /\ Agrees(EncodeMov(d, s), EncodeMov(a, b)) /\ Agrees(EncodeO32Mov(d, s), EncodeO32Mov(a, b))
          /\ Agrees(EncodeLea(d, s), EncodeLea(a, b))
          /\ Agrees(EncodeLeaPrefixedOperands(d, s, f), EncodeLeaPrefixedOperands(a, b, f))
          /\ Agrees(EncodeBitTestPrefixedOperands(d, s, x, y, f), EncodeBitTestPrefixedOperands(a, b, x, y, f))
          /\ Agrees(EncodeIn(d, s), EncodeIn(a, b))
          /\ Agrees(EncodeInPrefixedOperands(d, s, f), EncodeInPrefixedOperands(a, b, f))
      BY <2>3, <2>4 DEF Agrees
    <3>2. /\ Agrees(EncodeOut(d, s), EncodeOut(a, b))
          /\ Agrees(EncodeOutPrefixedOperands(d, s, f), EncodeOutPrefixedOperands(a, b, f))
          /\ Agrees(EncodeEsc(d, s), EncodeEsc(a, b))
          /\ Agrees(EncodePrefixedEsc(d, s, f), EncodePrefixedEsc(a, b, f))
      <4>1. a.kind = "IMM"
        BY <2>4 DEF Alike
      <4>2. CASE b = s
        BY <2>4, <4>1, <4>2, PortsAgree, EscAgrees
      <4>3. CASE s.kind = "IMM"
        BY <2>3, <4>3 DEF Agrees
      <4> QED
        BY <4>2, <4>3 DEF Alike
    <3> QED
      BY <2>2, <3>1, <3>2
  <2>5. CASE d.kind # "IMM"
    <3>1. a = d /\ s.kind = "IMM" /\ b.kind = "IMM"
      BY <1>2, <2>5 DEF Alike
    <3>2. /\ Agrees(EncodeMov(d, s), EncodeMov(a, b)) /\ Agrees(EncodeO32Mov(d, s), EncodeO32Mov(a, b))
          /\ Agrees(EncodeLea(d, s), EncodeLea(a, b))
          /\ Agrees(EncodeLeaPrefixedOperands(d, s, f), EncodeLeaPrefixedOperands(a, b, f))
          /\ Agrees(EncodeBitTestPrefixedOperands(d, s, x, y, f), EncodeBitTestPrefixedOperands(a, b, x, y, f))
      BY <2>1, <3>1, MovAgrees, LeaAgrees, BitTestAgrees
    <3>3. /\ Agrees(EncodeIn(d, s), EncodeIn(a, b))
          /\ Agrees(EncodeInPrefixedOperands(d, s, f), EncodeInPrefixedOperands(a, b, f))
      BY <3>1, PortsAgree
    <3>4. /\ Agrees(EncodeOut(d, s), EncodeOut(a, b))
          /\ Agrees(EncodeOutPrefixedOperands(d, s, f), EncodeOutPrefixedOperands(a, b, f))
          /\ Agrees(EncodeEsc(d, s), EncodeEsc(a, b))
          /\ Agrees(EncodePrefixedEsc(d, s, f), EncodePrefixedEsc(a, b, f))
      BY <2>3, <3>1 DEF Agrees
    <3> QED
      BY <2>2, <3>2, <3>3, <3>4
  <2> QED
    BY <2>4, <2>5
<1> QED
  BY <1>1, <1>2 DEF Alike

\* The shifts.
LEMMA CountsAgree ==
  ASSUME NEW d, NEW s, NEW n, NEW a, NEW b, NEW m, Alike(d, a), Alike(s, b), Alike(n, m),
         NEW f, NEW x, NEW y
  PROVE  /\ b = s \/ (s.imm # 1 /\ b.imm # 1)
              => /\ Agrees(EncodeShiftGroup(d, s, x), EncodeShiftGroup(a, b, x))
                 /\ Agrees(EncodePrefixedShiftGroup(d, s, x, f), EncodePrefixedShiftGroup(a, b, x, f))
         /\ Agrees(EncodePrefixedDoubleShift(d, s, n, x, y, f), EncodePrefixedDoubleShift(a, b, m, x, y, f))
<1>1. \A o, c, e : o.kind = "IMM" =>
        /\ EncodeShiftGroup(o, c, x).size < 0 /\ EncodePrefixedShiftGroup(o, c, x, f).size < 0
        /\ EncodePrefixedDoubleShift(o, c, e, x, y, f).size < 0
        /\ EncodePrefixedDoubleShift(c, o, e, x, y, f).size < 0
  BY NoNumberBeside
<1>2. b = s \/ (s.imm # 1 /\ b.imm # 1)
        => /\ Agrees(EncodeShiftGroup(d, s, x), EncodeShiftGroup(a, b, x))
           /\ Agrees(EncodePrefixedShiftGroup(d, s, x, f), EncodePrefixedShiftGroup(a, b, x, f))
  <2>1. CASE d.kind = "IMM"
    BY <1>1, <2>1 DEF Agrees
  <2>2. CASE a = d /\ b = s
    BY <2>2, Agreeing
  <2>3. CASE a = d /\ s.kind = "IMM" /\ b.kind = "IMM"
    BY <2>3, ShiftsAgree, Agreeing
  <2> QED
    BY <2>1, <2>2, <2>3 DEF Alike
<1>3. Agrees(EncodePrefixedDoubleShift(d, s, n, x, y, f), EncodePrefixedDoubleShift(a, b, m, x, y, f))
  <2>1. CASE d.kind = "IMM" \/ s.kind = "IMM"
    BY <1>1, <2>1 DEF Agrees
  <2>2. CASE a = d /\ b = s /\ m = n
    BY <2>2, Agreeing
  <2>3. CASE a = d /\ b = s /\ n.kind = "IMM" /\ m.kind = "IMM"
    BY <2>3, DoubleShiftsAgree
  <2> QED
    BY <2>1, <2>2, <2>3 DEF Alike
<1> QED
  BY <1>2, <1>3

----------------------------------------------------------------------------
(* The dispatchers, asked the same way                                     *)

\* The encoders that choose a form by the value of a number.
Choosing == {"push", "and", "or", "xor", "test", "add", "adc", "sub", "sbb", "cmp", "imul"}

\* Two instructions that differ in the values of numbers no form is chosen by.
Steady(i, k) ==
  /\ k.name = i.name /\ k.cond = i.cond
  /\ Len(k.args) = Len(i.args) /\ (k.args = <<>> <=> i.args = <<>>)
  /\ AreOperands(i.args) /\ AreOperands(k.args)
  /\ \A n \in 1..Len(i.args) : Alike(i.args[n], k.args[n])
  /\ i.name = "setcc" => Condition(i.cond) \in 0..15
  /\ i.name \notin Choosing \cup TakesTarget
  /\ i.name \in DOMAIN Shifts =>
       \A n \in 1..Len(i.args) : k.args[n] = i.args[n] \/ (k.args[n].imm # 1 /\ i.args[n].imm # 1)

\* The operands of the two.
LEMMA SteadyOperands ==
  ASSUME NEW i, NEW k, Steady(i, k)
  PROVE  /\ Len(i.args) = 1 => Alike(i.args[1], k.args[1])
         /\ Len(i.args) = 2 => /\ Alike(i.args[1], k.args[1]) /\ Alike(i.args[2], k.args[2])
                               /\ IsOperand(i.args[1]) /\ IsOperand(i.args[2])
                               /\ IsOperand(k.args[1]) /\ IsOperand(k.args[2])
                               /\ i.name \in DOMAIN Shifts =>
                                    k.args[2] = i.args[2] \/ (k.args[2].imm # 1 /\ i.args[2].imm # 1)
         /\ Len(i.args) = 3 => /\ Alike(i.args[1], k.args[1]) /\ Alike(i.args[2], k.args[2])
                               /\ Alike(i.args[3], k.args[3])
  BY DEF Steady, AreOperands

\* The instructions of the system, and setcc.
LEMMA SystemAgrees ==
  ASSUME NEW i, NEW k, Steady(i, k), NEW f
  PROVE  /\ Agrees(EncodeSystemOneOperandPrefixed(i.name, i.args, f), EncodeSystemOneOperandPrefixed(k.name, k.args, f))
         /\ \A x : Agrees(EncodePrefixedSetcc(i, x, f), EncodePrefixedSetcc(k, x, f))
<1> DEFINE d == i.args[1]
           a == k.args[1]
<1>1. Len(i.args) = 1 => Alike(d, a)
  BY SteadyOperands
<1>2. k.name = i.name /\ Len(k.args) = Len(i.args)
  BY DEF Steady
<1>3. Agrees(EncodeSystemOneOperandPrefixed(i.name, i.args, f), EncodeSystemOneOperandPrefixed(k.name, k.args, f))
  <2> DEFINE sys(s) == CASE i.name = "sgdt" -> EncodeDescriptorTable(s, 0, f)
                         [] i.name = "sidt" -> EncodeDescriptorTable(s, 1, f)
                         [] i.name = "lgdt" -> EncodeDescriptorTable(s, 2, f)
                         [] i.name = "lidt" -> EncodeDescriptorTable(s, 3, f)
                         [] i.name = "lldt" -> EncodeSystemRm16Load(s, 2, f)
                         [] i.name = "ltr"  -> EncodeSystemRm16Load(s, 3, f)
                         [] i.name = "lmsw" -> EncodeSystemRm16Load(s, 6, f)
                         [] i.name = "sldt" -> EncodeSystemRm16Store(s, 0, \h00, f)
                         [] i.name = "str"  -> EncodeSystemRm16Store(s, 1, \h00, f)
                         [] i.name = "smsw" -> EncodeSystemRm16Store(s, 4, \h01, f)
                         [] i.name = "verr" -> EncodeSystemVerifySelector(s, 4, f)
                         [] i.name = "verw" -> EncodeSystemVerifySelector(s, 5, f)
  <2>1. /\ EncodeSystemOneOperandPrefixed(i.name, i.args, f)
             = IF i.name \notin SystemOneOperand THEN NONE ELSE IF Len(i.args) # 1 THEN FAIL ELSE sys(d)
        /\ EncodeSystemOneOperandPrefixed(i.name, k.args, f)
             = IF i.name \notin SystemOneOperand THEN NONE ELSE IF Len(k.args) # 1 THEN FAIL ELSE sys(a)
    BY DEF EncodeSystemOneOperandPrefixed
  <2> HIDE DEF d, a
  <2>2. ASSUME Len(i.args) = 1, i.name \in SystemOneOperand
        PROVE  Agrees(sys(d), sys(a))
    <3>1. \A x, y : /\ Agrees(EncodeDescriptorTable(d, x, f), EncodeDescriptorTable(a, x, f))
                    /\ Agrees(EncodeSystemRm16Load(d, x, f), EncodeSystemRm16Load(a, x, f))
                    /\ Agrees(EncodeSystemRm16Store(d, x, y, f), EncodeSystemRm16Store(a, x, y, f))
                    /\ Agrees(EncodeSystemVerifySelector(d, x, f), EncodeSystemVerifySelector(a, x, f))
      BY <1>1, <2>2, OneAgrees
    <3>2. /\ \A x : Agrees(EncodeDescriptorTable(d, x, f), EncodeDescriptorTable(a, x, f))
          /\ \A x : Agrees(EncodeSystemRm16Load(d, x, f), EncodeSystemRm16Load(a, x, f))
          /\ \A x : Agrees(EncodeSystemVerifySelector(d, x, f), EncodeSystemVerifySelector(a, x, f))
      BY <3>1
    <3> QED
      BY <2>2, <3>1, <3>2, Zenon DEF SystemOneOperand
  <2> HIDE DEF sys
  <2> QED
    BY <1>2, <2>1, <2>2, Agreeing
<1>4. \A x : Agrees(EncodePrefixedSetcc(i, x, f), EncodePrefixedSetcc(k, x, f))
  <2>1. \A o : o.kind = "IMM" => Forced(o, f) = o /\ o.kind # "REG8" /\ ~MemorySizeMatches(o, 1)
    BY NumberKinds DEF GPR
  <2>2. CASE Len(i.args) # 1
    BY <1>2, <2>2, Agreeing DEF EncodePrefixedSetcc
  <2>3. CASE Len(i.args) = 1 /\ a = d
    <3>1. \A x : EncodePrefixedSetcc(i, x, f) = EncodePrefixedSetcc(k, x, f)
      BY <1>2, <2>3 DEF EncodePrefixedSetcc
    <3> QED
      BY <3>1, Agreeing
  <2>4. CASE Len(i.args) = 1 /\ d.kind = "IMM"
    <3>1. \A x : EncodePrefixedSetcc(i, x, f) = FAIL
      BY <2>1, <2>4 DEF EncodePrefixedSetcc, Check
    <3> QED
      BY <3>1, Agreeing
  <2> QED
    BY <1>1, <2>2, <2>3, <2>4 DEF Alike
<1> QED
  BY <1>3, <1>4

\* One operand, without a prefix.
LEMMA OneOperandAgrees ==
  ASSUME NEW i, NEW k, Steady(i, k)
  PROVE  Agrees(OneOperand(i), OneOperand(k))
<1> DEFINE d == i.args[1]
           a == k.args[1]
           x == Steps[i.name][1]
           y == Steps[i.name][2]
           z == Unary[i.name]
           cc == SetccOpcodeFromName(i.cond)
<1>1. Len(i.args) = 1 => Alike(d, a)
  BY SteadyOperands
<1>2. k.name = i.name /\ k.cond = i.cond /\ Len(k.args) = Len(i.args) /\ i.name # "push"
  BY DEF Steady, Choosing
<1>3. OneOperand(i)
        = CASE i.name = "push" -> With1(i.args, EncodePush)
            [] i.name = "pop"  -> IF Len(i.args) # 1 THEN FAIL ELSE EncodePop(d)
            [] i.name = "int"  -> IF Len(i.args) # 1 THEN FAIL ELSE EncodeIntr(d)
            [] i.name = "not"  -> IF Len(i.args) # 1 THEN FAIL ELSE EncodeNot(d)
            [] i.name \in DOMAIN Steps -> IF Len(i.args) # 1 THEN FAIL ELSE EncodeIncDec(d, x, y)
            [] i.name \in DOMAIN Unary -> IF Len(i.args) # 1 THEN FAIL ELSE EncodeUnaryGroup(d, z)
            [] i.name = "setcc" -> EncodePrefixedSetcc(i, cc, NoForce)
            [] i.name \in SystemOneOperand -> EncodeSystemOneOperandPrefixed(i.name, i.args, NoForce)
            [] OTHER -> NONE
  BY DEF OneOperand, With1
<1>4. OneOperand(k)
        = CASE i.name = "push" -> With1(k.args, EncodePush)
            [] i.name = "pop"  -> IF Len(i.args) # 1 THEN FAIL ELSE EncodePop(a)
            [] i.name = "int"  -> IF Len(i.args) # 1 THEN FAIL ELSE EncodeIntr(a)
            [] i.name = "not"  -> IF Len(i.args) # 1 THEN FAIL ELSE EncodeNot(a)
            [] i.name \in DOMAIN Steps -> IF Len(i.args) # 1 THEN FAIL ELSE EncodeIncDec(a, x, y)
            [] i.name \in DOMAIN Unary -> IF Len(i.args) # 1 THEN FAIL ELSE EncodeUnaryGroup(a, z)
            [] i.name = "setcc" -> EncodePrefixedSetcc(k, cc, NoForce)
            [] i.name \in SystemOneOperand -> EncodeSystemOneOperandPrefixed(k.name, k.args, NoForce)
            [] OTHER -> NONE
  BY <1>2 DEF OneOperand, With1
<1> HIDE DEF d, a, x, y, z, cc
<1>5. Len(i.args) = 1 => \A u, v : /\ Agrees(EncodePop(d), EncodePop(a)) /\ Agrees(EncodeNot(d), EncodeNot(a))
                                   /\ Agrees(EncodeIncDec(d, u, v), EncodeIncDec(a, u, v))
                                   /\ Agrees(EncodeUnaryGroup(d, u), EncodeUnaryGroup(a, u))
  BY <1>1, OneAgrees
<1>6. Len(i.args) = 1 => /\ Agrees(EncodePop(d), EncodePop(a)) /\ Agrees(EncodeNot(d), EncodeNot(a))
                         /\ Agrees(EncodeIncDec(d, x, y), EncodeIncDec(a, x, y))
                         /\ Agrees(EncodeUnaryGroup(d, z), EncodeUnaryGroup(a, z))
  BY <1>5
<1>7. Agrees(EncodeIntr(d), EncodeIntr(a))
  BY NumbersAgree
<1>8. /\ Agrees(EncodePrefixedSetcc(i, cc, NoForce), EncodePrefixedSetcc(k, cc, NoForce))
      /\ Agrees(EncodeSystemOneOperandPrefixed(i.name, i.args, NoForce),
                EncodeSystemOneOperandPrefixed(k.name, k.args, NoForce))
  BY SystemAgrees
<1> QED
  BY <1>2, <1>3, <1>4, <1>6, <1>7, <1>8, Agreeing

\* Two operands, without a prefix.
LEMMA TwoOperandsAgree ==
  ASSUME NEW i, NEW k, Steady(i, k), Len(i.args) = 2
  PROVE  Agrees(TwoOperands(i, i.args[1], i.args[2]), TwoOperands(k, k.args[1], k.args[2]))
<1> DEFINE d == i.args[1]
           s == i.args[2]
           a == k.args[1]
           b == k.args[2]
           far == FarLoads[i.name]
           far0F == FarLoads0F[i.name]
           scan == BitScans[i.name]
           bit == BitTests[i.name][1]
           group == BitTests[i.name][2]
           shift == Shifts[i.name]
<1>1. k.name = i.name /\ i.name \notin Choosing
  BY DEF Steady
<1>2. i.name \notin {"add", "adc", "sub", "sbb", "cmp", "and", "or", "xor", "test"}
  BY <1>1 DEF Choosing
<1>3. /\ Alike(d, a) /\ Alike(s, b) /\ IsOperand(d) /\ IsOperand(s) /\ IsOperand(a) /\ IsOperand(b)
      /\ i.name \in DOMAIN Shifts => b = s \/ (b.imm # 1 /\ s.imm # 1)
  BY SteadyOperands
<1> HIDE DEF d, s, a, b, far, far0F, scan, bit, group, shift
<1>4. \A x, y :
        /\ Agrees(EncodeFarLoad(d, s, x), EncodeFarLoad(a, b, x))
        /\ Agrees(EncodeFarLoad0F(d, s, x), EncodeFarLoad0F(a, b, x))
        /\ Agrees(EncodeMovExtend(d, s, x, y), EncodeMovExtend(a, b, x, y))
        /\ Agrees(EncodeBound(d, s), EncodeBound(a, b))
        /\ Agrees(EncodeBitScan(d, s, x), EncodeBitScan(a, b, x))
        /\ Agrees(EncodeArplOperands(d, s, NoForce), EncodeArplOperands(a, b, NoForce))
        /\ Agrees(EncodeLarOperands(d, s, NoForce), EncodeLarOperands(a, b, NoForce))
        /\ Agrees(EncodeLslOperands(d, s, NoForce), EncodeLslOperands(a, b, NoForce))
        /\ Agrees(EncodeXchg(d, s), EncodeXchg(a, b))
        /\ Agrees(EncodeMov(d, s), EncodeMov(a, b))
        /\ Agrees(EncodeLea(d, s), EncodeLea(a, b))
        /\ Agrees(EncodeBitTestPrefixedOperands(d, s, x, y, NoForce), EncodeBitTestPrefixedOperands(a, b, x, y, NoForce))
        /\ Agrees(EncodeIn(d, s), EncodeIn(a, b)) /\ Agrees(EncodeOut(d, s), EncodeOut(a, b))
        /\ Agrees(EncodeEsc(d, s), EncodeEsc(a, b))
  BY <1>3, TwoAgree
<1>5. i.name \in DOMAIN Shifts => Agrees(EncodeShiftGroup(d, s, shift), EncodeShiftGroup(a, b, shift))
  <2>1. Alike(d, d)
    BY DEF Alike
  <2> QED
    BY <1>3, <2>1, CountsAgree
<1>6. /\ \A x : Agrees(EncodeFarLoad(d, s, x), EncodeFarLoad(a, b, x))
      /\ \A x : Agrees(EncodeFarLoad0F(d, s, x), EncodeFarLoad0F(a, b, x))
      /\ \A x : Agrees(EncodeBitScan(d, s, x), EncodeBitScan(a, b, x))
      /\ Agrees(EncodeBound(d, s), EncodeBound(a, b))
      /\ Agrees(EncodeArplOperands(d, s, NoForce), EncodeArplOperands(a, b, NoForce))
      /\ Agrees(EncodeLarOperands(d, s, NoForce), EncodeLarOperands(a, b, NoForce))
      /\ Agrees(EncodeLslOperands(d, s, NoForce), EncodeLslOperands(a, b, NoForce))
      /\ Agrees(EncodeXchg(d, s), EncodeXchg(a, b))
      /\ Agrees(EncodeMov(d, s), EncodeMov(a, b))
      /\ Agrees(EncodeLea(d, s), EncodeLea(a, b))
      /\ Agrees(EncodeIn(d, s), EncodeIn(a, b)) /\ Agrees(EncodeOut(d, s), EncodeOut(a, b))
      /\ Agrees(EncodeEsc(d, s), EncodeEsc(a, b))
  BY <1>4
<1>7. /\ i.name \in DOMAIN FarLoads => Agrees(EncodeFarLoad(d, s, far), EncodeFarLoad(a, b, far))
      /\ i.name \in DOMAIN FarLoads0F => Agrees(EncodeFarLoad0F(d, s, far0F), EncodeFarLoad0F(a, b, far0F))
      /\ Agrees(EncodeBitScan(d, s, scan), EncodeBitScan(a, b, scan))
      /\ Agrees(EncodeBitTestPrefixedOperands(d, s, bit, group, NoForce),
                EncodeBitTestPrefixedOperands(a, b, bit, group, NoForce))
      /\ Agrees(EncodeMovExtend(d, s, \hBE, \hBF), EncodeMovExtend(a, b, \hBE, \hBF))
      /\ Agrees(EncodeMovExtend(d, s, \hB6, \hB7), EncodeMovExtend(a, b, \hB6, \hB7))
  BY <1>4, <1>6
<1>8. Agrees(FAIL, FAIL)
  BY Agreeing
<1>9. Agrees(TwoOperands(i, d, s), TwoOperands(k, a, b))
  BY SMTT(30), <1>1, <1>2, <1>5, <1>6, <1>7, <1>8 DEF TwoOperands, far, far0F, scan, bit, group, shift
<1> QED
  BY <1>9 DEF d, s, a, b

\* What has no operands, and what has at most one.
LEMMA ZeroOperandsAgree ==
  ASSUME NEW i, NEW k, Steady(i, k), NEW f
  PROVE  /\ EncodeZeroOperand(i) = EncodeZeroOperand(k) /\ Agrees(EncodeAscii(i), EncodeAscii(k))
         /\ \A x, op, a32 : EmitPrefixedZeroOpByte(i, x, op, a32) = EmitPrefixedZeroOpByte(k, x, op, a32)
         /\ \A x, op, a32 : EmitPrefixedZeroOp0F(i, x, op, a32) = EmitPrefixedZeroOp0F(k, x, op, a32)
         /\ \A x, op, a32 : Agrees(EmitPrefixedAsciiImm(i, x, op, a32), EmitPrefixedAsciiImm(k, x, op, a32))
<1>1. k.name = i.name /\ Len(k.args) = Len(i.args) /\ (k.args = <<>> <=> i.args = <<>>)
  BY DEF Steady
<1>2. Agrees(EncodeAscii(i), EncodeAscii(k))
  <2>1. /\ Agrees(EncodeAad(i.args[1]), EncodeAad(k.args[1])) /\ Agrees(EncodeAam(i.args[1]), EncodeAam(k.args[1]))
    BY NumbersAgree
  <2> QED
    BY <1>1, <2>1, Agreeing DEF EncodeAscii
<1>3. \A x, op, a32 : Agrees(EmitPrefixedAsciiImm(i, x, op, a32), EmitPrefixedAsciiImm(k, x, op, a32))
  BY DEF EmitPrefixedAsciiImm, Check, Agrees, FAIL, Out
<1>4. EncodeZeroOperand(i) = EncodeZeroOperand(k)
  BY <1>1 DEF EncodeZeroOperand
<1>5. \A x, op, a32 : EmitPrefixedZeroOpByte(i, x, op, a32) = EmitPrefixedZeroOpByte(k, x, op, a32)
  BY <1>1 DEF EmitPrefixedZeroOpByte
<1>6. \A x, op, a32 : EmitPrefixedZeroOp0F(i, x, op, a32) = EmitPrefixedZeroOp0F(k, x, op, a32)
  BY <1>1 DEF EmitPrefixedZeroOp0F
<1> QED
  BY <1>2, <1>3, <1>4, <1>5, <1>6

\* ret and enter.
LEMMA ControlAgrees ==
  ASSUME NEW i, NEW k, Steady(i, k), NEW e, NEW g, NEW f
  PROVE  Agrees(Control(i, e), Control(k, g)) /\ Agrees(MiscControl(i, f, e), MiscControl(k, f, g))
<1>1. /\ k.name = i.name /\ Len(k.args) = Len(i.args)
      /\ i.name \notin {"jmp", "call", "jcc", "jecxz"} /\ i.name \notin DOMAIN Loops
  BY DEF Steady, TakesTarget
<1> DEFINE x == Returns[i.name][1]
           y == Returns[i.name][2]
<1>2. \A n, m : /\ Agrees(EncodeRet(i.args, n, m), EncodeRet(k.args, n, m))
                /\ Agrees(EncodePrefixedRet(i.args, n, m, f), EncodePrefixedRet(k.args, n, m, f))
                /\ Agrees(EncodeEnter(i.args), EncodeEnter(k.args))
                /\ Agrees(EncodePrefixedEnter(i.args, f), EncodePrefixedEnter(k.args, f))
  BY <1>1, ReturnsAgree
<1>3. /\ Control(i, e) = IF i.name \in DOMAIN Returns THEN EncodeRet(i.args, x, y)
                         ELSE IF i.name = "enter" THEN EncodeEnter(i.args) ELSE NONE
      /\ Control(k, g) = IF i.name \in DOMAIN Returns THEN EncodeRet(k.args, x, y)
                         ELSE IF i.name = "enter" THEN EncodeEnter(k.args) ELSE NONE
  <2>1. "enter" \notin DOMAIN Returns
    BY DEF Returns
  <2> QED
    BY <1>1, <2>1 DEF Control
<1>4. /\ MiscControl(i, f, e) = IF i.name \in DOMAIN Returns THEN EncodePrefixedRet(i.args, x, y, f)
                                ELSE IF i.name = "enter" THEN EncodePrefixedEnter(i.args, f) ELSE NONE
      /\ MiscControl(k, f, g) = IF i.name \in DOMAIN Returns THEN EncodePrefixedRet(k.args, x, y, f)
                                ELSE IF i.name = "enter" THEN EncodePrefixedEnter(k.args, f) ELSE NONE
  <2>1. "enter" \notin DOMAIN Returns
    BY DEF Returns
  <2> QED
    BY <1>1, <2>1 DEF MiscControl
<1> HIDE DEF x, y
<1> QED
  BY <1>2, <1>3, <1>4, Agreeing

\* An instruction without a prefix.
LEMMA PlainAgrees ==
  ASSUME NEW i, IsInstruction(i), NEW k, IsInstruction(k), Steady(i, k), NEW e, NEW g
  PROVE  Agrees(EncodePlain(i, e), EncodePlain(k, g))
<1> DEFINE two(j) == With2(j.args, LAMBDA d, s : TwoOperands(j, d, s))
           x == DoubleShifts[i.name][1]
           y == DoubleShifts[i.name][2]
           doubles(j) == IF Len(j.args) # 3 THEN FAIL
                         ELSE EncodePrefixedDoubleShift(j.args[1], j.args[2], j.args[3], x, y, NoForce)
<1>1. k.name = i.name /\ Len(k.args) = Len(i.args) /\ i.name # "imul" /\ i.name \notin TakesTarget
  BY DEF Steady, Choosing
<1>2. /\ EncodePlain(i, e)
           = CASE i.name \in DOMAIN ZeroOperand -> EncodeZeroOperand(i)
               [] i.name \in {"aad", "aam"} -> EncodeAscii(i)
               [] i.name \in DOMAIN DoubleShifts -> doubles(i)
               [] OTHER -> OrElse(Control(i, e), OrElse(OneOperand(i), two(i)))
      /\ EncodePlain(k, g)
           = CASE i.name \in DOMAIN ZeroOperand -> EncodeZeroOperand(k)
               [] i.name \in {"aad", "aam"} -> EncodeAscii(k)
               [] i.name \in DOMAIN DoubleShifts -> doubles(k)
               [] OTHER -> OrElse(Control(k, g), OrElse(OneOperand(k), two(k)))
  <2>1. /\ EncodePlain(i, e)
             = CASE i.name \in DOMAIN ZeroOperand -> EncodeZeroOperand(i)
                 [] i.name \in {"aad", "aam"} -> EncodeAscii(i)
                 [] i.name = "imul" -> Check(Len(i.args) \in 1..3, EncodeImulMulti(i.args))
                 [] i.name \in DOMAIN DoubleShifts -> doubles(i)
                 [] OTHER -> OrElse(Control(i, e), OrElse(OneOperand(i), two(i)))
    BY DEF EncodePlain, With3
  <2>2. /\ EncodePlain(k, g)
             = CASE i.name \in DOMAIN ZeroOperand -> EncodeZeroOperand(k)
                 [] i.name \in {"aad", "aam"} -> EncodeAscii(k)
                 [] i.name = "imul" -> Check(Len(k.args) \in 1..3, EncodeImulMulti(k.args))
                 [] i.name \in DOMAIN DoubleShifts -> doubles(k)
                 [] OTHER -> OrElse(Control(k, g), OrElse(OneOperand(k), two(k)))
    BY <1>1 DEF EncodePlain, With3
  <2> HIDE DEF doubles, two
  <2> QED
    BY <1>1, <2>1, <2>2
<1>3. EncodeZeroOperand(i) = EncodeZeroOperand(k) /\ Agrees(EncodeAscii(i), EncodeAscii(k))
  BY ZeroOperandsAgree
<1>4. Agrees(doubles(i), doubles(k))
  <2>1. Len(i.args) = 3 => \A n, m, f :
          Agrees(EncodePrefixedDoubleShift(i.args[1], i.args[2], i.args[3], n, m, f),
                 EncodePrefixedDoubleShift(k.args[1], k.args[2], k.args[3], n, m, f))
    BY SteadyOperands, CountsAgree
  <2> HIDE DEF x, y
  <2> QED
    BY <1>1, <2>1, Agreeing
<1>5. Agrees(OrElse(Control(i, e), OrElse(OneOperand(i), two(i))),
             OrElse(Control(k, g), OrElse(OneOperand(k), two(k))))
  <2>1. /\ Agrees(Control(i, e), Control(k, g)) /\ Agrees(OneOperand(i), OneOperand(k))
    BY ControlAgrees, OneOperandAgrees
  <2>2. Agrees(two(i), two(k))
    <3>1. Len(i.args) = 2 => Agrees(TwoOperands(i, i.args[1], i.args[2]), TwoOperands(k, k.args[1], k.args[2]))
      BY TwoOperandsAgree
    <3> QED
      BY <1>1, <3>1, Agreeing DEF With2
  <2>3. /\ Answers(Control(i, e)) /\ Answers(Control(k, g)) /\ Answers(OneOperand(i)) /\ Answers(OneOperand(k))
    <3>1. /\ AreOperands(i.args) /\ (i.name = "setcc" => Condition(i.cond) \in 0..15)
          /\ AreOperands(k.args) /\ (k.name = "setcc" => Condition(k.cond) \in 0..15)
      BY <1>1, Arguments
    <3> QED
      BY <1>1, <3>1, ControlAnswers, OneOperandAnswers
  <2> HIDE DEF two
  <2>4. Agrees(OrElse(OneOperand(i), two(i)), OrElse(OneOperand(k), two(k)))
    BY <2>1, <2>2, <2>3, Agreeing
  <2> QED
    BY <2>1, <2>3, <2>4, Agreeing
<1> HIDE DEF two, x, y, doubles
<1> QED
  BY <1>2, <1>3, <1>4, <1>5, Agreeing

\* What encode_misc_prefixed_instruction finds by the name.
LEMMA MiscStringsAgree ==
  ASSUME NEW i, NEW k, Steady(i, k), NEW f
  PROVE  Agrees(MiscStrings(i, f), MiscStrings(k, f)) /\ \A op, a32 : EmitPrefixedCmps(i, op, a32) = EmitPrefixedCmps(k, op, a32)
<1> DEFINE op == f.o32
           a32 == f.a32
           o16 == f.o16
           others(j) == { EmitPrefixedConvert(j, op, a32, o16), EmitPrefixedDecimalAdjust(j, op, a32),
                          EmitPrefixedFlagControl(j, op, a32), EmitPrefixedScas(j, op, a32, o16),
                          EmitPrefixedMovs(j, op, a32, o16), EmitPrefixedLods(j, op, a32, o16),
                          EmitPrefixedStos(j, op, a32, o16), EmitPrefixedIns(j, op, a32, o16),
                          EmitPrefixedOuts(j, op, a32, o16) }
           forms(j) == others(j) \cup {EmitPrefixedInterrupt(j, op, a32, o16)}
<1>1. k.name = i.name /\ Len(k.args) = Len(i.args)
  BY DEF Steady
<1>2. /\ \A x, o, a : EmitPrefixedZeroOpByte(i, x, o, a) = EmitPrefixedZeroOpByte(k, x, o, a)
      /\ \A x, o, a : EmitPrefixedZeroOp0F(i, x, o, a) = EmitPrefixedZeroOp0F(k, x, o, a)
  BY ZeroOperandsAgree
<1>3. \A names, x, o, a, n : StringOp(i, names, x, o, a, n) = StringOp(k, names, x, o, a, n)
  BY <1>1, <1>2 DEF StringOp
<1>4. \A o, a : EmitPrefixedCmps(i, o, a) = EmitPrefixedCmps(k, o, a)
  <2> DEFINE no == FALSE
  <2>1. \A j, o, a : EmitPrefixedCmps(j, o, a) = StringOp(j, Cmps, \hA6, o, a, no)
    BY DEF EmitPrefixedCmps
  <2> HIDE DEF no
  <2> QED
    BY <1>3, <2>1
<1>5. /\ MiscStrings(i, f) = IF forms(i) = {NONE} THEN NONE ELSE CHOOSE form \in forms(i) : form # NONE
      /\ MiscStrings(k, f) = IF forms(k) = {NONE} THEN NONE ELSE CHOOSE form \in forms(k) : form # NONE
  <2>1. \A j : forms(j) = { EmitPrefixedConvert(j, op, a32, o16), EmitPrefixedDecimalAdjust(j, op, a32),
                            EmitPrefixedFlagControl(j, op, a32), EmitPrefixedScas(j, op, a32, o16),
                            EmitPrefixedMovs(j, op, a32, o16), EmitPrefixedLods(j, op, a32, o16),
                            EmitPrefixedStos(j, op, a32, o16), EmitPrefixedIns(j, op, a32, o16),
                            EmitPrefixedOuts(j, op, a32, o16), EmitPrefixedInterrupt(j, op, a32, o16) }
    OBVIOUS
  <2> HIDE DEF forms
  <2> QED
    BY <2>1, Zenon DEF MiscStrings
<1> HIDE DEF op, a32, o16
<1>6. others(i) = others(k)
  <2>1. /\ EmitPrefixedConvert(i, op, a32, o16) = EmitPrefixedConvert(k, op, a32, o16)
        /\ EmitPrefixedDecimalAdjust(i, op, a32) = EmitPrefixedDecimalAdjust(k, op, a32)
        /\ EmitPrefixedFlagControl(i, op, a32) = EmitPrefixedFlagControl(k, op, a32)
    BY <1>1, <1>2 DEF EmitPrefixedConvert, EmitPrefixedDecimalAdjust, EmitPrefixedFlagControl
  <2>2. /\ EmitPrefixedScas(i, op, a32, o16) = EmitPrefixedScas(k, op, a32, o16)
        /\ EmitPrefixedMovs(i, op, a32, o16) = EmitPrefixedMovs(k, op, a32, o16)
        /\ EmitPrefixedLods(i, op, a32, o16) = EmitPrefixedLods(k, op, a32, o16)
        /\ EmitPrefixedStos(i, op, a32, o16) = EmitPrefixedStos(k, op, a32, o16)
        /\ EmitPrefixedIns(i, op, a32, o16) = EmitPrefixedIns(k, op, a32, o16)
        /\ EmitPrefixedOuts(i, op, a32, o16) = EmitPrefixedOuts(k, op, a32, o16)
    BY <1>3 DEF EmitPrefixedScas, EmitPrefixedMovs, EmitPrefixedLods, EmitPrefixedStos, EmitPrefixedIns, EmitPrefixedOuts
  <2> QED
    BY <2>1, <2>2
<1>7. CASE i.name # "int"
  <2>1. EmitPrefixedInterrupt(i, op, a32, o16) = EmitPrefixedInterrupt(k, op, a32, o16)
    BY <1>1, <1>2, <1>7 DEF EmitPrefixedInterrupt
  <2>2. forms(i) = forms(k)
    BY <1>6, <2>1
  <2> HIDE DEF forms
  <2>3. MiscStrings(i, f) = MiscStrings(k, f)
    BY <1>5, <2>2
  <2> QED
    BY <1>4, <2>3, Agreeing
<1>8. CASE i.name = "int"
  <2> DEFINE one == EmitPrefixedInterrupt(i, op, a32, o16)
             two == EmitPrefixedInterrupt(k, op, a32, o16)
  <2>1. Agrees(one, two)
    BY <1>1, <1>8 DEF EmitPrefixedInterrupt, Check, Agrees, FAIL, Out
  <2>2. others(i) = {NONE}
    <3>1. /\ EmitPrefixedConvert(i, op, a32, o16) = NONE /\ EmitPrefixedDecimalAdjust(i, op, a32) = NONE
          /\ EmitPrefixedFlagControl(i, op, a32) = NONE
      BY <1>8 DEF EmitPrefixedConvert, EmitPrefixedDecimalAdjust, EmitPrefixedFlagControl, FlagOpcode
    <3>2. \A names \in {Movs, Cmps, Scas, Lods, Stos, Ins, Outs} :
            i.name \notin names.any \cup {names.byte, names.word, names.dword}
      BY <1>8 DEF Movs, Cmps, Scas, Lods, Stos, Ins, Outs
    <3>3. \A names \in {Movs, Cmps, Scas, Lods, Stos, Ins, Outs} : \A x : StringOp(i, names, x, op, a32, o16) = NONE
      BY <3>2, Zenon DEF StringOp
    <3>4. /\ EmitPrefixedScas(i, op, a32, o16) = NONE /\ EmitPrefixedMovs(i, op, a32, o16) = NONE
          /\ EmitPrefixedLods(i, op, a32, o16) = NONE /\ EmitPrefixedStos(i, op, a32, o16) = NONE
          /\ EmitPrefixedIns(i, op, a32, o16) = NONE /\ EmitPrefixedOuts(i, op, a32, o16) = NONE
      BY <3>3 DEF EmitPrefixedScas, EmitPrefixedMovs, EmitPrefixedLods, EmitPrefixedStos,
                  EmitPrefixedIns, EmitPrefixedOuts
    <3> QED
      BY <3>1, <3>4
  <2>3. forms(i) = {NONE, one} /\ forms(k) = {NONE, two}
    BY <1>6, <2>2
  <2> HIDE DEF one, two, others, forms
  <2>4. MiscStrings(i, f) = one
    <3>1. CASE one = NONE
      BY <1>5, <2>3, <3>1
    <3>2. CASE one # NONE
      <4>1. forms(i) # {NONE} /\ \A form \in forms(i) : form # NONE <=> form = one
        BY <2>3, <3>2
      <4> QED
        BY <1>5, <2>3, <3>2, <4>1
    <3> QED
      BY <3>1, <3>2
  <2>5. MiscStrings(k, f) = two
    <3>1. CASE two = NONE
      BY <1>5, <2>3, <3>1
    <3>2. CASE two # NONE
      <4>1. forms(k) # {NONE} /\ \A form \in forms(k) : form # NONE <=> form = two
        BY <2>3, <3>2
      <4> QED
        BY <1>5, <2>3, <3>2, <4>1
    <3> QED
      BY <3>1, <3>2
  <2> QED
    BY <1>4, <2>1, <2>4, <2>5
<1> QED
  BY <1>7, <1>8

\* lea, the loads of far pointers, and the system's instructions.
LEMMA MiscLoadsAgree ==
  ASSUME NEW i, NEW k, Steady(i, k), NEW f
  PROVE  Agrees(MiscLoads(i, f), MiscLoads(k, f))
<1> DEFINE d == i.args[1]
           s == i.args[2]
           a == k.args[1]
           b == k.args[2]
           x == FarLoads[i.name]
           y == FarLoads0F[i.name]
<1>1. k.name = i.name /\ Len(k.args) = Len(i.args)
  BY DEF Steady
<1>2. Len(i.args) = 2 => \A n, m :
        /\ Agrees(EncodeLeaPrefixedOperands(d, s, f), EncodeLeaPrefixedOperands(a, b, f))
        /\ Agrees(EncodeFarLoadPrefixedOperands(d, s, n, f), EncodeFarLoadPrefixedOperands(a, b, n, f))
        /\ Agrees(EncodeFarLoad0FPrefixedOperands(d, s, n, f), EncodeFarLoad0FPrefixedOperands(a, b, n, f))
  BY SteadyOperands, TwoAgree
<1>3. MiscLoads(i, f)
        = CASE i.name = "lea" -> IF Len(i.args) # 2 THEN FAIL ELSE EncodeLeaPrefixedOperands(d, s, f)
            [] i.name \in DOMAIN FarLoads ->
                 IF Len(i.args) # 2 THEN FAIL ELSE EncodeFarLoadPrefixedOperands(d, s, x, f)
            [] i.name \in DOMAIN FarLoads0F ->
                 IF Len(i.args) # 2 THEN FAIL ELSE EncodeFarLoad0FPrefixedOperands(d, s, y, f)
            [] i.name \in SystemOneOperand -> EncodeSystemOneOperandPrefixed(i.name, i.args, f)
            [] OTHER -> NONE
  BY DEF MiscLoads, With2
<1>4. MiscLoads(k, f)
        = CASE i.name = "lea" -> IF Len(i.args) # 2 THEN FAIL ELSE EncodeLeaPrefixedOperands(a, b, f)
            [] i.name \in DOMAIN FarLoads ->
                 IF Len(i.args) # 2 THEN FAIL ELSE EncodeFarLoadPrefixedOperands(a, b, x, f)
            [] i.name \in DOMAIN FarLoads0F ->
                 IF Len(i.args) # 2 THEN FAIL ELSE EncodeFarLoad0FPrefixedOperands(a, b, y, f)
            [] i.name \in SystemOneOperand -> EncodeSystemOneOperandPrefixed(k.name, k.args, f)
            [] OTHER -> NONE
  BY <1>1 DEF MiscLoads, With2
<1> HIDE DEF d, s, a, b, x, y
<1>5. Len(i.args) = 2 =>
        /\ Agrees(EncodeLeaPrefixedOperands(d, s, f), EncodeLeaPrefixedOperands(a, b, f))
        /\ Agrees(EncodeFarLoadPrefixedOperands(d, s, x, f), EncodeFarLoadPrefixedOperands(a, b, x, f))
        /\ Agrees(EncodeFarLoad0FPrefixedOperands(d, s, y, f), EncodeFarLoad0FPrefixedOperands(a, b, y, f))
  BY <1>2
<1>6. Agrees(EncodeSystemOneOperandPrefixed(i.name, i.args, f), EncodeSystemOneOperandPrefixed(k.name, k.args, f))
  BY SystemAgrees
<1> QED
  BY <1>3, <1>4, <1>5, <1>6, Agreeing

\* inc and dec, pop, and what has no operands.
LEMMA MiscStackAgrees ==
  ASSUME NEW i, NEW k, Steady(i, k), NEW f
  PROVE  Agrees(MiscStack(i, f), MiscStack(k, f))
<1> DEFINE d == i.args[1]
           a == k.args[1]
           g == Steps[i.name][1]
           b == Steps[i.name][2]
           wide == ~f.o16
           x == ZeroBytes[i.name]
           y == ZeroDwords[i.name]
<1>1. k.name = i.name /\ Len(k.args) = Len(i.args) /\ i.name # "push"
  BY DEF Steady, Choosing
<1>2. Len(i.args) = 1 => Alike(d, a)
  BY SteadyOperands
<1>3. MiscStack(i, f)
        = CASE i.name \in DOMAIN Steps ->
                 IF Len(i.args) # 1 THEN FAIL
                 ELSE IF f.o16 THEN EncodeO16IncDec(d, g, b, f) ELSE EncodePrefixedIncDec(d, g, b, f)
            [] i.name = "push" -> IF Len(i.args) # 1 THEN FAIL ELSE EncodePrefixedPush(d, f)
            [] i.name = "pop"  -> IF Len(i.args) # 1 THEN FAIL ELSE EncodePrefixedPop(d, f)
            [] i.name \in DOMAIN ZeroBytes -> EmitPrefixedZeroOpByte(i, x, f.o32, f.a32)
            [] i.name \in DOMAIN ZeroDwords -> EmitPrefixedZeroOpByte(i, y, wide, f.a32)
            [] OTHER -> NONE
  BY DEF MiscStack, With1
<1>4. MiscStack(k, f)
        = CASE i.name \in DOMAIN Steps ->
                 IF Len(i.args) # 1 THEN FAIL
                 ELSE IF f.o16 THEN EncodeO16IncDec(a, g, b, f) ELSE EncodePrefixedIncDec(a, g, b, f)
            [] i.name = "push" -> IF Len(i.args) # 1 THEN FAIL ELSE EncodePrefixedPush(a, f)
            [] i.name = "pop"  -> IF Len(i.args) # 1 THEN FAIL ELSE EncodePrefixedPop(a, f)
            [] i.name \in DOMAIN ZeroBytes -> EmitPrefixedZeroOpByte(k, x, f.o32, f.a32)
            [] i.name \in DOMAIN ZeroDwords -> EmitPrefixedZeroOpByte(k, y, wide, f.a32)
            [] OTHER -> NONE
  BY <1>1 DEF MiscStack, With1
<1> HIDE DEF d, a, g, b, wide, x, y
<1>5. Len(i.args) = 1 => \A n, m : /\ Agrees(EncodeO16IncDec(d, n, m, f), EncodeO16IncDec(a, n, m, f))
                                   /\ Agrees(EncodePrefixedIncDec(d, n, m, f), EncodePrefixedIncDec(a, n, m, f))
                                   /\ Agrees(EncodePrefixedPop(d, f), EncodePrefixedPop(a, f))
  BY <1>2, OneAgrees
<1>6. Len(i.args) = 1 => Agrees(EncodePrefixedPop(d, f), EncodePrefixedPop(a, f))
  BY <1>5
<1>7. \A z, op, a32 : EmitPrefixedZeroOpByte(i, z, op, a32) = EmitPrefixedZeroOpByte(k, z, op, a32)
  BY ZeroOperandsAgree
<1>8. /\ Agrees(EmitPrefixedZeroOpByte(i, x, f.o32, f.a32), EmitPrefixedZeroOpByte(k, x, f.o32, f.a32))
      /\ Agrees(EmitPrefixedZeroOpByte(i, y, wide, f.a32), EmitPrefixedZeroOpByte(k, y, wide, f.a32))
  BY <1>7, Agreeing, Zenon
<1> QED
  BY <1>1, <1>3, <1>4, <1>5, <1>6, <1>8, Agreeing

\* Exchanges, shifts, setcc, the unary group, ports, esc, lar and lsl.
LEMMA MiscGroupsAgree ==
  ASSUME NEW i, NEW k, Steady(i, k), NEW f
  PROVE  Agrees(MiscGroups(i, f), MiscGroups(k, f))
<1> DEFINE d == i.args[1]
           s == i.args[2]
           n == i.args[3]
           a == k.args[1]
           b == k.args[2]
           m == k.args[3]
           x == DoubleShifts[i.name][1]
           y == DoubleShifts[i.name][2]
           shift == Shifts[i.name]
           cc == SetccOpcodeFromName(i.cond)
           unary == Unary[i.name]
<1>1. k.name = i.name /\ k.cond = i.cond /\ Len(k.args) = Len(i.args) /\ i.name # "imul"
  BY DEF Steady, Choosing
<1>2. /\ Len(i.args) = 1 => Alike(d, a)
      /\ Len(i.args) = 2 => /\ Alike(d, a) /\ Alike(s, b)
                            /\ IsOperand(d) /\ IsOperand(s) /\ IsOperand(a) /\ IsOperand(b)
                            /\ i.name \in DOMAIN Shifts => b = s \/ (b.imm # 1 /\ s.imm # 1)
      /\ Len(i.args) = 3 => Alike(d, a) /\ Alike(s, b) /\ Alike(n, m)
  BY SteadyOperands
<1>3. MiscGroups(i, f)
        = CASE i.name = "xchg" -> IF Len(i.args) # 2 THEN FAIL ELSE EncodePrefixedXchg(d, s, f)
            [] i.name \in DOMAIN DoubleShifts ->
                 IF Len(i.args) # 3 THEN FAIL ELSE EncodePrefixedDoubleShift(d, s, n, x, y, f)
            [] i.name \in DOMAIN Shifts ->
                 IF Len(i.args) # 2 THEN FAIL ELSE EncodePrefixedShiftGroup(d, s, shift, f)
            [] i.name = "setcc" -> EncodePrefixedSetcc(i, cc, f)
            [] i.name \in DOMAIN Unary ->
                 IF Len(i.args) # 1 THEN FAIL ELSE EncodePrefixedUnaryGroup(d, unary, f)
            [] i.name = "not"  -> IF Len(i.args) # 1 THEN FAIL ELSE EncodePrefixedUnaryGroup(d, 2, f)
            [] i.name = "imul" -> EncodePrefixedImul(i.args, f)
            [] i.name = "in"   -> IF Len(i.args) # 2 THEN FAIL ELSE EncodeInPrefixedOperands(d, s, f)
            [] i.name = "out"  -> IF Len(i.args) # 2 THEN FAIL ELSE EncodeOutPrefixedOperands(d, s, f)
            [] i.name = "esc"  -> IF Len(i.args) # 2 THEN FAIL ELSE EncodePrefixedEsc(d, s, f)
            [] i.name = "lar"  -> IF Len(i.args) # 2 THEN FAIL ELSE EncodeLarOperands(d, s, f)
            [] i.name = "lsl"  -> IF Len(i.args) # 2 THEN FAIL ELSE EncodeLslOperands(d, s, f)
            [] OTHER -> NONE
  BY Zenon DEF MiscGroups, With1, With2, With3
<1>4. MiscGroups(k, f)
        = CASE i.name = "xchg" -> IF Len(i.args) # 2 THEN FAIL ELSE EncodePrefixedXchg(a, b, f)
            [] i.name \in DOMAIN DoubleShifts ->
                 IF Len(i.args) # 3 THEN FAIL ELSE EncodePrefixedDoubleShift(a, b, m, x, y, f)
            [] i.name \in DOMAIN Shifts ->
                 IF Len(i.args) # 2 THEN FAIL ELSE EncodePrefixedShiftGroup(a, b, shift, f)
            [] i.name = "setcc" -> EncodePrefixedSetcc(k, cc, f)
            [] i.name \in DOMAIN Unary ->
                 IF Len(i.args) # 1 THEN FAIL ELSE EncodePrefixedUnaryGroup(a, unary, f)
            [] i.name = "not"  -> IF Len(i.args) # 1 THEN FAIL ELSE EncodePrefixedUnaryGroup(a, 2, f)
            [] i.name = "imul" -> EncodePrefixedImul(k.args, f)
            [] i.name = "in"   -> IF Len(i.args) # 2 THEN FAIL ELSE EncodeInPrefixedOperands(a, b, f)
            [] i.name = "out"  -> IF Len(i.args) # 2 THEN FAIL ELSE EncodeOutPrefixedOperands(a, b, f)
            [] i.name = "esc"  -> IF Len(i.args) # 2 THEN FAIL ELSE EncodePrefixedEsc(a, b, f)
            [] i.name = "lar"  -> IF Len(i.args) # 2 THEN FAIL ELSE EncodeLarOperands(a, b, f)
            [] i.name = "lsl"  -> IF Len(i.args) # 2 THEN FAIL ELSE EncodeLslOperands(a, b, f)
            [] OTHER -> NONE
  BY <1>1, Zenon DEF MiscGroups, With1, With2, With3
<1> HIDE DEF d, s, n, a, b, m, x, y, shift, cc, unary
<1>5. Len(i.args) = 2 => \A u, v :
        /\ Agrees(EncodePrefixedXchg(d, s, f), EncodePrefixedXchg(a, b, f))
        /\ Agrees(EncodeInPrefixedOperands(d, s, f), EncodeInPrefixedOperands(a, b, f))
        /\ Agrees(EncodeOutPrefixedOperands(d, s, f), EncodeOutPrefixedOperands(a, b, f))
        /\ Agrees(EncodePrefixedEsc(d, s, f), EncodePrefixedEsc(a, b, f))
        /\ Agrees(EncodeLarOperands(d, s, f), EncodeLarOperands(a, b, f))
        /\ Agrees(EncodeLslOperands(d, s, f), EncodeLslOperands(a, b, f))
  BY <1>2, TwoAgree
<1>6. Len(i.args) = 1 => \A u, v : Agrees(EncodePrefixedUnaryGroup(d, u, f), EncodePrefixedUnaryGroup(a, u, f))
  BY <1>2, OneAgrees
<1>7. Len(i.args) = 1 => /\ Agrees(EncodePrefixedUnaryGroup(d, unary, f), EncodePrefixedUnaryGroup(a, unary, f))
                         /\ Agrees(EncodePrefixedUnaryGroup(d, 2, f), EncodePrefixedUnaryGroup(a, 2, f))
  BY <1>6
<1>8. Len(i.args) = 2 /\ i.name \in DOMAIN Shifts
        => Agrees(EncodePrefixedShiftGroup(d, s, shift, f), EncodePrefixedShiftGroup(a, b, shift, f))
  <2>1. Alike(d, d)
    BY DEF Alike
  <2> QED
    BY <1>2, <2>1, CountsAgree
<1>9. Len(i.args) = 3 => Agrees(EncodePrefixedDoubleShift(d, s, n, x, y, f), EncodePrefixedDoubleShift(a, b, m, x, y, f))
  BY <1>2, CountsAgree
<1>10. Agrees(EncodePrefixedSetcc(i, cc, f), EncodePrefixedSetcc(k, cc, f))
  BY SystemAgrees
<1> QED
  BY <1>1, <1>3, <1>4, <1>5, <1>7, <1>8, <1>9, <1>10, Agreeing

\* encode_misc_prefixed_instruction.
LEMMA MiscAgrees ==
  ASSUME NEW i, IsInstruction(i), NEW k, IsInstruction(k), Steady(i, k), NEW f, NEW e, NEW g
  PROVE  /\ Agrees(EncodeMiscPrefixedInstruction(i, f, e), EncodeMiscPrefixedInstruction(k, f, g))
         /\ Answers(EncodeMiscPrefixedInstruction(i, f, e)) /\ Answers(EncodeMiscPrefixedInstruction(k, f, g))
<1>1. /\ Agrees(MiscStrings(i, f), MiscStrings(k, f)) /\ Agrees(MiscControl(i, f, e), MiscControl(k, f, g))
      /\ Agrees(MiscLoads(i, f), MiscLoads(k, f)) /\ Agrees(MiscStack(i, f), MiscStack(k, f))
      /\ Agrees(MiscGroups(i, f), MiscGroups(k, f))
  BY MiscStringsAgree, ControlAgrees, MiscLoadsAgree, MiscStackAgrees, MiscGroupsAgree
<1>2. /\ AreOperands(i.args) /\ (i.name = "setcc" => Condition(i.cond) \in 0..15) /\ i.name \notin TakesTarget
      /\ AreOperands(k.args) /\ (k.name = "setcc" => Condition(k.cond) \in 0..15) /\ k.name \notin TakesTarget
  BY Arguments DEF Steady
<1>3. /\ Answers(MiscStrings(i, f)) /\ Answers(MiscControl(i, f, e)) /\ Answers(MiscLoads(i, f))
      /\ Answers(MiscStack(i, f)) /\ Answers(MiscGroups(i, f))
  BY <1>2, MiscStringsSettle, ControlAnswers, MiscLoadsSettle, MiscStackSettles, MiscGroupsSettle
<1>4. /\ Answers(MiscStrings(k, f)) /\ Answers(MiscControl(k, f, g)) /\ Answers(MiscLoads(k, f))
      /\ Answers(MiscStack(k, f)) /\ Answers(MiscGroups(k, f))
  BY <1>2, MiscStringsSettle, ControlAnswers, MiscLoadsSettle, MiscStackSettles, MiscGroupsSettle
<1>5. Agrees(OrElse(MiscStack(i, f), MiscGroups(i, f)), OrElse(MiscStack(k, f), MiscGroups(k, f)))
  BY <1>1, <1>3, <1>4, Agreeing
<1>6. Agrees(OrElse(MiscLoads(i, f), OrElse(MiscStack(i, f), MiscGroups(i, f))),
             OrElse(MiscLoads(k, f), OrElse(MiscStack(k, f), MiscGroups(k, f))))
  BY <1>1, <1>3, <1>4, <1>5, Agreeing
<1>7. Agrees(OrElse(MiscControl(i, f, e), OrElse(MiscLoads(i, f), OrElse(MiscStack(i, f), MiscGroups(i, f)))),
             OrElse(MiscControl(k, f, g), OrElse(MiscLoads(k, f), OrElse(MiscStack(k, f), MiscGroups(k, f)))))
  BY <1>1, <1>3, <1>4, <1>6, Agreeing
<1>8. Agrees(EncodeMiscPrefixedInstruction(i, f, e), EncodeMiscPrefixedInstruction(k, f, g))
  BY <1>1, <1>3, <1>4, <1>7, Agreeing DEF EncodeMiscPrefixedInstruction
<1>9. /\ Answers(EncodeMiscPrefixedInstruction(i, f, e)) /\ Answers(EncodeMiscPrefixedInstruction(k, f, g))
  BY <1>3, <1>4, Asking DEF EncodeMiscPrefixedInstruction
<1> QED
  BY <1>8, <1>9

\* What each list of prefixes has of its own.
LEMMA ListedAgree ==
  ASSUME NEW i, NEW k, Steady(i, k), NEW f
  PROVE  /\ Agrees(Adjusts(i, f), Adjusts(k, f)) /\ Agrees(TwoForced(i, f), TwoForced(k, f))
         /\ Answers(Adjusts(i, f)) /\ Answers(Adjusts(k, f))
         /\ Answers(TwoForced(i, f)) /\ Answers(TwoForced(k, f))
         /\ \A j \in {i, k} : A16Arith(j, f) = NONE /\ A32Arith(j, f) = NONE /\ AddressTest(j, f) = NONE
<1>1. k.name = i.name /\ Len(k.args) = Len(i.args) /\ AreOperands(i.args) /\ AreOperands(k.args) /\ i.name \notin Choosing
  BY DEF Steady
<1>2. /\ Answers(Adjusts(i, f)) /\ Answers(Adjusts(k, f))
      /\ Answers(TwoForced(i, f)) /\ Answers(TwoForced(k, f))
  BY <1>1, AdjustsSettle, TwoForcedSettles
<1>3. \A j \in {i, k} : A16Arith(j, f) = NONE /\ A32Arith(j, f) = NONE /\ AddressTest(j, f) = NONE
  <2>1. \A j \in {i, k} : j.name \notin DOMAIN Ariths /\ j.name # "test"
    BY <1>1 DEF Choosing, Ariths
  <2> QED
    BY <2>1, ArithsSettle DEF AddressTest
<1>4. Agrees(Adjusts(i, f), Adjusts(k, f))
  <2> DEFINE byte == [aaa |-> \h37, aas |-> \h3F, cbw |-> \h98, cdq |-> \h99]
             op == f.o32 \/ i.name = "cdq"
             x == byte[i.name]
             adjust(j) == CASE i.name \in DOMAIN byte -> EmitPrefixedZeroOpByte(j, x, op, f.a32)
                            [] i.name = "aad" -> EmitPrefixedAsciiImm(j, \hD5, f.o32, f.a32)
                            [] i.name = "aam" -> EmitPrefixedAsciiImm(j, \hD4, f.o32, f.a32)
                            [] OTHER -> EmitPrefixedCmps(j, f.o32, f.a32)
  <2>1. Adjusts(i, f) = adjust(i) /\ Adjusts(k, f) = adjust(k)
    BY <1>1 DEF Adjusts
  <2>2. /\ \A y, o, a : EmitPrefixedZeroOpByte(i, y, o, a) = EmitPrefixedZeroOpByte(k, y, o, a)
        /\ \A y, o, a : Agrees(EmitPrefixedAsciiImm(i, y, o, a), EmitPrefixedAsciiImm(k, y, o, a))
        /\ \A o, a : EmitPrefixedCmps(i, o, a) = EmitPrefixedCmps(k, o, a)
    BY ZeroOperandsAgree, MiscStringsAgree
  <2> HIDE DEF byte, op, x
  <2>3. /\ EmitPrefixedZeroOpByte(i, x, op, f.a32) = EmitPrefixedZeroOpByte(k, x, op, f.a32)
        /\ Agrees(EmitPrefixedAsciiImm(i, \hD5, f.o32, f.a32), EmitPrefixedAsciiImm(k, \hD5, f.o32, f.a32))
        /\ Agrees(EmitPrefixedAsciiImm(i, \hD4, f.o32, f.a32), EmitPrefixedAsciiImm(k, \hD4, f.o32, f.a32))
        /\ EmitPrefixedCmps(i, f.o32, f.a32) = EmitPrefixedCmps(k, f.o32, f.a32)
    BY <2>2, Zenon
  <2> QED
    BY SMTT(30), <2>1, <2>3, Agreeing
<1>5. Agrees(TwoForced(i, f), TwoForced(k, f))
  <2> DEFINE d == i.args[1]
             s == i.args[2]
             a == k.args[1]
             b == k.args[2]
             x == BitTests[i.name][1]
             y == BitTests[i.name][2]
             scan == BitScans[i.name]
             two(o, p) == CASE i.name = "arpl"  -> EncodeArplOperands(o, p, f)
                            [] i.name = "bound" -> EncodeBoundPrefixedOperands(o, p, f)
                            [] i.name \in DOMAIN BitScans -> EncodeBitScanPrefixedOperands(o, p, scan, f)
                            [] i.name \in DOMAIN BitTests -> EncodeBitTestPrefixedOperands(o, p, x, y, f)
                            [] OTHER -> NONE
  <2>1. /\ Len(i.args) = 2 => TwoForced(i, f) = two(d, s) /\ TwoForced(k, f) = two(a, b)
        /\ Len(i.args) # 2 => TwoForced(i, f) = TwoForced(k, f)
    BY <1>1 DEF TwoForced, With2
  <2>2. Len(i.args) = 2 => \A u, v :
          /\ Agrees(EncodeArplOperands(d, s, f), EncodeArplOperands(a, b, f))
          /\ Agrees(EncodeBoundPrefixedOperands(d, s, f), EncodeBoundPrefixedOperands(a, b, f))
          /\ Agrees(EncodeBitScanPrefixedOperands(d, s, u, f), EncodeBitScanPrefixedOperands(a, b, u, f))
          /\ Agrees(EncodeBitTestPrefixedOperands(d, s, u, v, f), EncodeBitTestPrefixedOperands(a, b, u, v, f))
    BY SteadyOperands, TwoAgree
  <2> HIDE DEF d, s, a, b, x, y, scan
  <2>3. Len(i.args) = 2 =>
          /\ Agrees(EncodeArplOperands(d, s, f), EncodeArplOperands(a, b, f))
          /\ Agrees(EncodeBoundPrefixedOperands(d, s, f), EncodeBoundPrefixedOperands(a, b, f))
          /\ Agrees(EncodeBitScanPrefixedOperands(d, s, scan, f), EncodeBitScanPrefixedOperands(a, b, scan, f))
          /\ Agrees(EncodeBitTestPrefixedOperands(d, s, x, y, f), EncodeBitTestPrefixedOperands(a, b, x, y, f))
    BY <2>2
  <2> QED
    BY <2>1, <2>3, Agreeing
<1> QED
  BY <1>2, <1>3, <1>4, <1>5

\* The lists of prefixes.
LEMMA ListsAgree ==
  ASSUME NEW i, NEW k, Steady(i, k), NEW e, NEW g
  PROVE  /\ Agrees(A16Only(i), A16Only(k)) /\ Agrees(A32Only(i), A32Only(k))
         /\ Agrees(A16ThenO32(i), A16ThenO32(k)) /\ Agrees(O32ThenA16(i), O32ThenA16(k))
         /\ Agrees(A32ThenO32(i), A32ThenO32(k)) /\ Agrees(O32ThenA32(i), O32ThenA32(k))
         /\ Agrees(O32Only(i, e), O32Only(k, g)) /\ Agrees(O32A16O16(i), O32A16O16(k))
<1> DEFINE a16 == ForcePrefixes(FALSE, FALSE, TRUE, FALSE)
           a32 == ForcePrefixes(FALSE, FALSE, FALSE, TRUE)
           o32a16 == ForcePrefixes(TRUE, FALSE, TRUE, FALSE)
           o32a32 == ForcePrefixes(TRUE, FALSE, FALSE, TRUE)
           o32 == ForcePrefixes(TRUE, FALSE, FALSE, FALSE)
           list(j, f) == OrElse(Adjusts(j, f), TwoForced(j, f))
<1>1. k.name = i.name /\ Len(k.args) = Len(i.args) /\ AreOperands(i.args) /\ AreOperands(k.args)
      /\ i.name \notin Choosing /\ i.name \notin TakesTarget
  BY DEF Steady
<1>2. \A f : \A j \in {i, k} : A16Arith(j, f) = NONE /\ A32Arith(j, f) = NONE /\ AddressTest(j, f) = NONE
  BY ListedAgree
<1>3. \A j \in {i, k} :
        /\ A16Only(j) = list(j, a16) /\ A32Only(j) = list(j, a32)
        /\ A16ThenO32(j) = list(j, o32a16) /\ O32ThenA16(j) = list(j, o32a16)
        /\ A32ThenO32(j) = list(j, o32a32) /\ O32ThenA32(j) = list(j, o32a32)
  <2>1. ASSUME NEW j \in {i, k}
        PROVE  /\ A16Only(j) = list(j, a16) /\ A32Only(j) = list(j, a32)
               /\ A16ThenO32(j) = list(j, o32a16) /\ O32ThenA16(j) = list(j, o32a16)
               /\ A32ThenO32(j) = list(j, o32a32) /\ O32ThenA32(j) = list(j, o32a32)
    <3>1. \A f : /\ OrElse(A16Arith(j, f), OrElse(AddressTest(j, f), TwoForced(j, f))) = TwoForced(j, f)
                 /\ OrElse(A32Arith(j, f), OrElse(AddressTest(j, f), TwoForced(j, f))) = TwoForced(j, f)
                 /\ OrElse(A16Arith(j, f), TwoForced(j, f)) = TwoForced(j, f)
                 /\ OrElse(A32Arith(j, f), TwoForced(j, f)) = TwoForced(j, f)
      BY <1>2, <2>1 DEF OrElse
    <3> QED
      BY <3>1 DEF A16Only, A32Only, A16ThenO32, O32ThenA16, A32ThenO32, O32ThenA32
  <2> QED
    BY <2>1
<1>4. \A f : Agrees(list(i, f), list(k, f))
  BY ListedAgree, Agreeing
<1>5. Agrees(O32Only(i, e), O32Only(k, g))
  <2> DEFINE d == i.args[1]
             s == i.args[2]
             a == k.args[1]
             b == k.args[2]
             one == IF Len(i.args) # 2 THEN FAIL ELSE EncodeO32Mov(d, s)
             two == IF Len(i.args) # 2 THEN FAIL ELSE EncodeO32Mov(a, b)
  <2>1. i.name \notin DOMAIN Ariths /\ i.name \notin {"test", "call"}
    BY <1>1 DEF Choosing, Ariths, TakesTarget
  <2>2. /\ O32Only(i, e) = OrElse(Adjusts(i, o32), IF i.name = "mov" THEN one ELSE TwoForced(i, o32))
        /\ O32Only(k, g) = OrElse(Adjusts(k, o32), IF i.name = "mov" THEN two ELSE TwoForced(k, o32))
    BY <1>1, <2>1 DEF O32Only, With2
  <2>3. Agrees(one, two)
    <3>1. Len(i.args) = 2 => \A f, x, y : Agrees(EncodeO32Mov(d, s), EncodeO32Mov(a, b))
      BY SteadyOperands, TwoAgree
    <3> QED
      BY <3>1, Agreeing
  <2> HIDE DEF one, two, o32
  <2> QED
    BY <2>2, <2>3, ListedAgree, Agreeing
<1>6. Agrees(O32A16O16(i), O32A16O16(k))
  <2> DEFINE no == FALSE
             yes == TRUE
             d == i.args[1]
             a == k.args[1]
             one == IF Len(i.args) # 1 THEN FAIL ELSE EncodePrefixedIncDec(d, 1, \h48, a16)
             two == IF Len(i.args) # 1 THEN FAIL ELSE EncodePrefixedIncDec(a, 1, \h48, a16)
             dec1 == IF i.name # "dec" THEN NONE ELSE one
             dec2 == IF i.name # "dec" THEN NONE ELSE two
  <2>1. /\ O32A16O16(i) = OrElse(EmitPrefixedConvert(i, no, no, yes), OrElse(EmitPrefixedDecimalAdjust(i, no, no), dec1))
        /\ O32A16O16(k) = OrElse(EmitPrefixedConvert(k, no, no, yes), OrElse(EmitPrefixedDecimalAdjust(k, no, no), dec2))
    BY <1>1 DEF O32A16O16, With1
  <2>2. Agrees(dec1, dec2)
    <3> HIDE DEF a16
    <3>1. Len(i.args) = 1 => \A x, y : Agrees(EncodePrefixedIncDec(d, x, y, a16), EncodePrefixedIncDec(a, x, y, a16))
      BY SteadyOperands, OneAgrees
    <3> QED
      BY <3>1, Agreeing
  <2> HIDE DEF no, yes, dec1, dec2
  <2>3. \A x, o, c : EmitPrefixedZeroOpByte(i, x, o, c) = EmitPrefixedZeroOpByte(k, x, o, c)
    BY ZeroOperandsAgree
  <2>4. /\ EmitPrefixedConvert(i, no, no, yes) = EmitPrefixedConvert(k, no, no, yes)
        /\ EmitPrefixedDecimalAdjust(i, no, no) = EmitPrefixedDecimalAdjust(k, no, no)
    BY <1>1, <2>3 DEF EmitPrefixedConvert, EmitPrefixedDecimalAdjust
  <2>5. /\ Answers(EmitPrefixedConvert(i, no, no, yes)) /\ Answers(EmitPrefixedDecimalAdjust(i, no, no))
    BY NamesAnswer
  <2> QED
    BY <2>1, <2>2, <2>4, <2>5, Agreeing
<1> HIDE DEF a16, a32, o32a16, o32a32, list
<1> QED
  BY <1>3, <1>4, <1>5, <1>6

\* What the first of the prefixes has of its own.
LEMMA FirstPrefixAgrees ==
  ASSUME NEW prefix \in SizePrefixes, NEW rest, rest \in Follow[prefix],
         NEW i, IsInstruction(i), NEW k, IsInstruction(k), Steady(i, k), NEW e, NEW g
  PROVE  Agrees(EncodeFirstPrefix(prefix, rest, i, e), EncodeFirstPrefix(prefix, rest, k, g))
<1>1. k.name = i.name
  BY DEF Steady
<1>2. Agrees(NONE, NONE)
  BY Agreeing
<1>3. CASE prefix = "o16"
  <2>1. /\ EncodeFirstPrefix(prefix, rest, i, e) = IF EncodeO16Prefix(rest, i) THEN EncodePlain(i, e) ELSE NONE
        /\ EncodeFirstPrefix(prefix, rest, k, g) = IF EncodeO16Prefix(rest, k) THEN EncodePlain(k, g) ELSE NONE
    BY <1>3, Zenon DEF EncodeFirstPrefix
  <2>2. EncodeO16Prefix(rest, k) = EncodeO16Prefix(rest, i)
    BY <1>1 DEF EncodeO16Prefix
  <2> QED
    BY <2>1, <2>2, <1>2, PlainAgrees
<1>4. CASE prefix = "o32"
  <2>1. rest \in FollowO32
    BY <1>4 DEF Follow
  <2>2. /\ <<>> # <<"a32">> /\ <<>> # <<"a16">> /\ <<"a32">> # <<"a16">>
    OBVIOUS
  <2>3. /\ rest = <<>> => EncodeO32Prefix(rest, i, e) = O32Only(i, e) /\ EncodeO32Prefix(rest, k, g) = O32Only(k, g)
        /\ rest = <<"a32">> => EncodeO32Prefix(rest, i, e) = O32ThenA32(i) /\ EncodeO32Prefix(rest, k, g) = O32ThenA32(k)
        /\ rest = <<"a16">> => EncodeO32Prefix(rest, i, e) = O32ThenA16(i) /\ EncodeO32Prefix(rest, k, g) = O32ThenA16(k)
    BY <2>2, Zenon DEF EncodeO32Prefix
  <2>4. /\ EncodeFirstPrefix(prefix, rest, i, e) = EncodeO32Prefix(rest, i, e)
        /\ EncodeFirstPrefix(prefix, rest, k, g) = EncodeO32Prefix(rest, k, g)
    BY <1>4 DEF EncodeFirstPrefix
  <2> QED
    BY <2>1, <2>3, <2>4, ListsAgree DEF FollowO32
<1>5. CASE prefix \in {"a16", "a32"}
  <2>1. rest \in {<<>>, <<"o16">>, <<"o32">>}
    BY <1>5 DEF Follow, FollowA16, FollowA32
  <2>2. /\ <<>> # <<"o16">> /\ <<>> # <<"o32">> /\ <<"o16">> # <<"o32">>
    OBVIOUS
  <2>3. \A j : /\ rest = <<>> => EncodeA16Prefix(rest, j) = A16Only(j) /\ EncodeA32Prefix(rest, j) = A32Only(j)
               /\ rest = <<"o16">> => EncodeA16Prefix(rest, j) = NONE /\ EncodeA32Prefix(rest, j) = NONE
               /\ rest = <<"o32">> => EncodeA16Prefix(rest, j) = A16ThenO32(j) /\ EncodeA32Prefix(rest, j) = A32ThenO32(j)
    BY <2>2, Zenon DEF EncodeA16Prefix, EncodeA32Prefix
  <2>4. /\ Agrees(EncodeA16Prefix(rest, i), EncodeA16Prefix(rest, k))
        /\ Agrees(EncodeA32Prefix(rest, i), EncodeA32Prefix(rest, k))
    <3>1. CASE rest = <<>>
      BY <2>3, <3>1, ListsAgree
    <3>2. CASE rest = <<"o16">>
      BY <2>3, <3>2, <1>2
    <3>3. CASE rest = <<"o32">>
      BY <2>3, <3>3, ListsAgree
    <3> QED
      BY <2>1, <3>1, <3>2, <3>3
  <2>5. \A j, x : EncodeFirstPrefix(prefix, rest, j, x)
                    = IF prefix = "a16" THEN EncodeA16Prefix(rest, j) ELSE EncodeA32Prefix(rest, j)
    BY <1>5 DEF EncodeFirstPrefix
  <2> QED
    BY <2>4, <2>5
<1> QED
  BY <1>3, <1>4, <1>5 DEF SizePrefixes

\* A dispatcher that knows nothing of an instruction fails.
LEMMA AskedLast == \A a, b : Agrees(a, b) => Agrees(OrElse(a, FAIL), OrElse(b, FAIL))
  BY DEF Agrees, OrElse, NONE, FAIL, Out

\* Behind what neither locks nor repeats.
LEMMA SizedAgrees ==
  ASSUME NEW prefixes, prefixes = <<>> \/ Head(prefixes) \in SizePrefixes,
         NEW i, IsInstruction(i), NEW k, IsInstruction(k), Steady(i, k), NEW e, NEW g
  PROVE  Agrees(EncodeSized(prefixes, i, e), EncodeSized(prefixes, k, g))
<1> DEFINE follows == prefixes # <<>> /\ Tail(prefixes) \in Follow[Head(prefixes)]
           three(j) == OrElse(O32A16O16(j), FAIL)
           misc(j, x) == EncodeMiscPrefixedInstruction(j, Forces(prefixes), x)
           lead(j, x) == EncodeFirstPrefix(Head(prefixes), Tail(prefixes), j, x)
           other(j, x) == OrElse(misc(j, x), OrElse(lead(j, x), FAIL))
<1>1. prefixes = <<>> => Agrees(EncodeSized(prefixes, i, e), EncodeSized(prefixes, k, g))
  <2>1. \A j, x : prefixes = <<>> => EncodeSized(prefixes, j, x) = EncodePlain(j, x)
    <3>1. <<>> # <<"o32", "a16", "o16">>
      OBVIOUS
    <3> QED
      BY <3>1, Zenon DEF EncodeSized
  <2> QED
    BY <2>1, PlainAgrees
<1>2. Agrees(three(i), three(k))
  BY ListsAgree, AskedLast
<1>3. follows => Agrees(other(i, e), other(k, g))
  <2>1. Agrees(misc(i, e), misc(k, g)) /\ Answers(misc(i, e)) /\ Answers(misc(k, g))
    BY MiscAgrees
  <2>2. follows => Agrees(lead(i, e), lead(k, g))
    <3> DEFINE prefix == Head(prefixes)
               rest == Tail(prefixes)
    <3>1. follows => prefix \in SizePrefixes /\ rest \in Follow[prefix]
      OBVIOUS
    <3>2. lead(i, e) = EncodeFirstPrefix(prefix, rest, i, e) /\ lead(k, g) = EncodeFirstPrefix(prefix, rest, k, g)
      OBVIOUS
    <3> HIDE DEF prefix, rest, follows, lead
    <3> QED
      BY <3>1, <3>2, FirstPrefixAgrees
  <2> HIDE DEF misc, lead
  <2>3. follows => Agrees(OrElse(lead(i, e), FAIL), OrElse(lead(k, g), FAIL))
    BY <2>2, AskedLast
  <2> QED
    BY <2>1, <2>3, Agreeing
<1>4. /\ EncodeSized(prefixes, i, e)
           = CASE prefixes = <<>> -> EncodePlain(i, e)
               [] prefixes = <<"o32", "a16", "o16">> -> three(i)
               [] follows -> other(i, e)
               [] OTHER -> FAIL
      /\ EncodeSized(prefixes, k, g)
           = CASE prefixes = <<>> -> EncodePlain(k, g)
               [] prefixes = <<"o32", "a16", "o16">> -> three(k)
               [] follows -> other(k, g)
               [] OTHER -> FAIL
  BY DEF EncodeSized
<1>5. prefixes = <<"o32", "a16", "o16">> => ~follows
  BY DEF Follow, FollowO32
<1> HIDE DEF follows, three, other
<1>6. CASE prefixes = <<"o32", "a16", "o16">>
  <2>1. EncodeSized(prefixes, i, e) = three(i) /\ EncodeSized(prefixes, k, g) = three(k)
    BY <1>4, <1>5, <1>6
  <2> QED
    BY <2>1, <1>2
<1>7. CASE prefixes # <<>> /\ prefixes # <<"o32", "a16", "o16">>
  <2>1. /\ EncodeSized(prefixes, i, e) = IF follows THEN other(i, e) ELSE FAIL
        /\ EncodeSized(prefixes, k, g) = IF follows THEN other(k, g) ELSE FAIL
    BY <1>4, <1>7
  <2> QED
    BY <2>1, <1>3, Agreeing
<1> QED
  BY <1>1, <1>6, <1>7

\* What _86_exec makes of the prefixes: a guard, and the rest.
HeadOf(prefixes) == IF prefixes = <<>> THEN "none" ELSE Head(prefixes)
GuardOf(prefixes) ==
  IF HeadOf(prefixes) = "lock" THEN <<\hF0>>
  ELSE IF HeadOf(prefixes) \in DOMAIN Repeats THEN <<Repeats[HeadOf(prefixes)]>> ELSE <<>>
RestOf(prefixes) == IF GuardOf(prefixes) = <<>> THEN prefixes ELSE Tail(prefixes)
Refused(prefixes, i) ==
  \/ HeadOf(prefixes) = "lock" /\ ~EncodeLockPrefix(RestOf(prefixes), i)
  \/ HeadOf(prefixes) \in DOMAIN Repeats /\ ~EncodeRepeatPrefix(HeadOf(prefixes), RestOf(prefixes), i)

\* What is not refused has its size prefixes in front, and jumps nowhere behind a guard.
LEMMA ExecParts ==
  ASSUME NEW prefixes, prefixes \in Seq(SizePrefixes \cup {"lock"} \cup DOMAIN Repeats), NEW i
  PROVE  /\ \A e : Exec(prefixes, i, e)
                     = IF Refused(prefixes, i) THEN FAIL ELSE Behind(GuardOf(prefixes), EncodeSized(RestOf(prefixes), i, e))
         /\ ~Refused(prefixes, i) => RestOf(prefixes) = <<>> \/ Head(RestOf(prefixes)) \in SizePrefixes
         /\ ~Refused(prefixes, i) /\ i.name \in TakesTarget
              => GuardOf(prefixes) = <<>> /\ RestOf(prefixes) = prefixes
<1> DEFINE head == HeadOf(prefixes)
           rest == RestOf(prefixes)
<1>1. \A e : Exec(prefixes, i, e)
               = IF Refused(prefixes, i) THEN FAIL ELSE Behind(GuardOf(prefixes), EncodeSized(RestOf(prefixes), i, e))
  BY DEF Exec, HeadOf, GuardOf, RestOf, Refused
<1>2. ASSUME ~Refused(prefixes, i)
      PROVE  rest = <<>> \/ Head(rest) \in SizePrefixes
  <2>1. CASE head = "lock"
    <3>1. rest = <<>>
      BY <1>2, <2>1 DEF Refused, EncodeLockPrefix
    <3> QED
      BY <3>1
  <2>2. CASE head \in DOMAIN Repeats /\ head # "lock"
    <3>1. \A n \in DOMAIN rest : rest[n] \in SizePrefixes
      BY <1>2, <2>2, Zenon DEF Refused, EncodeRepeatPrefix, RepeatTargetAllowed
    <3>2. prefixes # <<>>
      BY <2>2 DEF Repeats, HeadOf
    <3>3. rest \in Seq(SizePrefixes \cup {"lock"} \cup DOMAIN Repeats)
      BY <3>2 DEF RestOf
    <3> HIDE DEF rest
    <3>4. rest # <<>> => 1 \in DOMAIN rest /\ Head(rest) = rest[1]
      BY <3>3
    <3> QED
      BY <3>1, <3>4
  <2>3. CASE head \notin DOMAIN Repeats /\ head # "lock"
    <3>1. rest = prefixes
      BY <2>3 DEF RestOf, GuardOf
    <3>2. prefixes # <<>> => Head(prefixes) \in SizePrefixes \cup {"lock"} \cup DOMAIN Repeats
      OBVIOUS
    <3> QED
      BY <2>3, <3>1, <3>2 DEF HeadOf
  <2> QED
    BY <2>1, <2>2, <2>3
<1>3. i.name \in TakesTarget => ~ValidateLockInstruction(i)
  BY DEF ValidateLockInstruction, LockAllowsArith, LockAllowsUnary, TakesTarget, Loops
<1>4. i.name \in TakesTarget => \A p, r : ~EncodeRepeatPrefix(p, r, i)
  <2>1. i.name \in TakesTarget => i.name \notin RepAllowsInstruction /\ i.name \notin RepeAllowsInstruction
    BY DEF TakesTarget, Loops, RepAllowsInstruction, RepeAllowsInstruction, StringNames,
           Movs, Cmps, Scas, Lods, Stos, Ins, Outs
  <2> QED
    BY <2>1 DEF EncodeRepeatPrefix, RepeatTargetAllowed
<1>5. ASSUME ~Refused(prefixes, i), i.name \in TakesTarget
      PROVE  GuardOf(prefixes) = <<>> /\ RestOf(prefixes) = prefixes
  <2>1. HeadOf(prefixes) # "lock" /\ HeadOf(prefixes) \notin DOMAIN Repeats
    BY <1>3, <1>4, <1>5 DEF Refused, EncodeLockPrefix
  <2> QED
    BY <2>1 DEF GuardOf, RestOf
<1> QED
  BY <1>1, <1>2, <1>5

\* A guard is as long before one answer as before another.
LEMMA GuardAgrees == \A guard, a, b : Agrees(a, b) => Agrees(Behind(guard, a), Behind(guard, b))
  BY DEF Agrees, Behind, FAIL, Out

\* _86_exec, of what is steady.
LEMMA ExecAgrees ==
  ASSUME NEW prefixes, prefixes \in Seq(SizePrefixes \cup {"lock"} \cup DOMAIN Repeats),
         NEW i, IsInstruction(i), NEW k, IsInstruction(k), Steady(i, k), NEW e, NEW g
  PROVE  Agrees(Exec(prefixes, i, e), Exec(prefixes, k, g))
<1> DEFINE rest == RestOf(prefixes)
           guard == GuardOf(prefixes)
<1>1. /\ Exec(prefixes, i, e) = IF Refused(prefixes, i) THEN FAIL ELSE Behind(guard, EncodeSized(rest, i, e))
      /\ Exec(prefixes, k, g) = IF Refused(prefixes, k) THEN FAIL ELSE Behind(guard, EncodeSized(rest, k, g))
      /\ ~Refused(prefixes, i) => rest = <<>> \/ Head(rest) \in SizePrefixes
  BY ExecParts
<1> HIDE DEF rest, guard
<1>2. ~Refused(prefixes, i) => Agrees(EncodeSized(rest, i, e), EncodeSized(rest, k, g))
  BY <1>1, SizedAgrees
<1> QED
  BY <1>1, <1>2, GuardAgrees, Agreeing

----------------------------------------------------------------------------
(* Instructions without a label                                            *)

\* Only what jumps asks where it stands and in which pass.
LEMMA PlaceDoesNotMatter ==
  ASSUME NEW i, i.name \notin TakesTarget, NEW e, NEW g
  PROVE  /\ EncodePlain(i, e) = EncodePlain(i, g)
         /\ \A f : EncodeMiscPrefixedInstruction(i, f, e) = EncodeMiscPrefixedInstruction(i, f, g)
         /\ O32Only(i, e) = O32Only(i, g)
<1>1. i.name \notin {"jmp", "call", "jcc", "jecxz"} /\ i.name \notin DOMAIN Loops
  BY DEF TakesTarget
<1> DEFINE x == Returns[i.name][1]
           y == Returns[i.name][2]
<1>2. "enter" \notin DOMAIN Returns
  BY DEF Returns
<1>3. \A p : Control(i, p) = IF i.name \in DOMAIN Returns THEN EncodeRet(i.args, x, y)
                             ELSE IF i.name = "enter" THEN EncodeEnter(i.args) ELSE NONE
  BY <1>1, <1>2 DEF Control
<1>4. \A p, f : MiscControl(i, f, p) = IF i.name \in DOMAIN Returns THEN EncodePrefixedRet(i.args, x, y, f)
                                       ELSE IF i.name = "enter" THEN EncodePrefixedEnter(i.args, f) ELSE NONE
  BY <1>1, <1>2 DEF MiscControl
<1>5. Control(i, e) = Control(i, g) /\ \A f : MiscControl(i, f, e) = MiscControl(i, f, g)
  <2> HIDE DEF x, y
  <2> QED
    BY <1>3, <1>4
<1>6. EncodePlain(i, e) = EncodePlain(i, g)
  BY <1>5, Zenon DEF EncodePlain
<1>7. \A f : EncodeMiscPrefixedInstruction(i, f, e) = EncodeMiscPrefixedInstruction(i, f, g)
  BY <1>5, Zenon DEF EncodeMiscPrefixedInstruction
<1>8. O32Only(i, e) = O32Only(i, g)
  <2> DEFINE o32 == ForcePrefixes(TRUE, FALSE, FALSE, FALSE)
             arith == ArithForced(i, EncodeO32Arith)
             own == IF i.name \in DOMAIN Ariths THEN arith
                    ELSE IF i.name = "mov" THEN With2(i.args, EncodeO32Mov)
                    ELSE IF i.name = "test" THEN With2(i.args, EncodeO32Test)
                    ELSE TwoForced(i, o32)
  <2>1. "mov" \notin DOMAIN Ariths /\ "test" \notin DOMAIN Ariths
    BY DEF Ariths
  <2>2. \A p : O32Only(i, p) = OrElse(Adjusts(i, o32), own)
    BY <1>1, <2>1 DEF O32Only
  <2> QED
    BY <2>2, Zenon
<1> QED
  BY <1>6, <1>7, <1>8

\* What does not jump is the same wherever it stands.
LEMMA ExecAnywhere ==
  ASSUME NEW prefixes, prefixes \in Seq(SizePrefixes \cup {"lock"} \cup DOMAIN Repeats),
         NEW i, i.name \notin TakesTarget, NEW e, NEW g
  PROVE  Exec(prefixes, i, e) = Exec(prefixes, i, g)
<1>1. \A rest : EncodeO32Prefix(rest, i, e) = EncodeO32Prefix(rest, i, g)
  BY PlaceDoesNotMatter, Zenon DEF EncodeO32Prefix
<1>2. \A p, rest : EncodeFirstPrefix(p, rest, i, e) = EncodeFirstPrefix(p, rest, i, g)
  BY <1>1, PlaceDoesNotMatter, Zenon DEF EncodeFirstPrefix
<1>3. \A rest : EncodeSized(rest, i, e) = EncodeSized(rest, i, g)
  <2> SUFFICES ASSUME NEW rest
               PROVE  EncodeSized(rest, i, e) = EncodeSized(rest, i, g)
    OBVIOUS
  <2>1. /\ EncodePlain(i, e) = EncodePlain(i, g)
        /\ \A f : EncodeMiscPrefixedInstruction(i, f, e) = EncodeMiscPrefixedInstruction(i, f, g)
    BY PlaceDoesNotMatter
  <2>2. EncodeMiscPrefixedInstruction(i, Forces(rest), e) = EncodeMiscPrefixedInstruction(i, Forces(rest), g)
    BY <2>1
  <2>3. EncodeFirstPrefix(Head(rest), Tail(rest), i, e) = EncodeFirstPrefix(Head(rest), Tail(rest), i, g)
    BY <1>2
  <2> QED
    BY <2>1, <2>2, <2>3 DEF EncodeSized
<1> QED
  BY <1>3, ExecParts

----------------------------------------------------------------------------
(* Jumps                                                                   *)

\* One is a failure, or the second is a byte longer.
Longer(a, b) == a.size < 0 \/ b.size < 0 \/ b.size = a.size + 1
Grows(a, b, more) == IF more THEN Longer(a, b) ELSE Agrees(a, b)

\* The target as the first pass has it, and as the last has it.
Retold(t, u) ==
  /\ u.dist = t.dist /\ u.ptr = t.ptr /\ u.o.unresolved = t.o.unresolved
  /\ u.o.kind = t.o.kind /\ u.o.size = t.o.size
  /\ IF t.o.unresolved THEN t.o.kind \in {"IMM", "FAR"} ELSE u.o = t.o
  /\ t.dist \in {"none", "short", "near", "far"}

\* The two passes.
InFirst(e) == e.last = FALSE
InLast(e) == e.last = TRUE

LEMMA Growing ==
  /\ \A a, b : Agrees(a, b) => Grows(a, b, FALSE)
  /\ \A a, b, n : Says(a, n) /\ Says(b, n + 1) => Grows(a, b, TRUE)
  /\ \A a, b, n : Says(a, n) /\ Says(b, n) => Grows(a, b, FALSE)
  /\ \A more : Grows(FAIL, FAIL, more)
  BY DEF Grows, Longer, Agrees, Says, FAIL, Out

\* A displacement is as long as its form has it.
LEMMA RelativesSay ==
  ASSUME NEW target, NEW e
  PROVE  /\ \A bytes, n : Says(Relative(bytes, n, target, e), Len(bytes) + n)
         /\ \A bytes : Says(Relative32(bytes, target, e), Len(bytes) + 4)
  BY DEF Says, Relative, Relative32, Check, FAIL, Out

\* Jumps without prefixes.
LEMMA JumpsSay ==
  ASSUME NEW t, t.dist \in {"none", "short", "near", "far"}, NEW e
  PROVE  /\ \A x : Says(EncodeRel8Control(t, x, e), 2)
         /\ Says(EncodeJecxz(t, e), 3)
         /\ \A x, y : Says(EncodeConditionalJump(t, x, y, e), IF t.dist = "near" THEN 4 ELSE 2)
         /\ \A o : Says(EncodeCallDirect(o, e), 3) /\ Says(EncodeJmpDirect(o, 2, e), 2) /\ Says(EncodeJmpDirect(o, 3, e), 3)
         /\ \A o, x, n : Says(FarImmediate(o, x, n, e), FarImmediateSize(n))
         /\ Says(EncodeO32Call(t, e), 6)
<1>1. \A x : Says(Relative(<<x>>, 1, t.o.imm, e), 2)
  <2>1. \A x : Len(<<x>>) + 1 = 2
    OBVIOUS
  <2> QED
    BY <2>1, RelativesSay
<1>2. Says(Relative(<<\h67, \hE3>>, 1, t.o.imm, e), 3)
  <2>1. \A x, y : Len(<<x, y>>) + 1 = 3
    OBVIOUS
  <2>2. \A x, y : Says(Relative(<<x, y>>, 1, t.o.imm, e), 3)
    BY <2>1, RelativesSay
  <2> QED
    BY <2>2
<1>3. \A x, y : Says(Relative(<<x, y>>, 2, t.o.imm, e), 4)
  <2>1. \A x, y : Len(<<x, y>>) + 2 = 4
    OBVIOUS
  <2> QED
    BY <2>1, RelativesSay
<1>4. \A n : Says(Sized(n), n) /\ Says(FAIL, n)
  BY DEF Says, Sized, FAIL, Out
<1>5. \A x : Says(EncodeRel8Control(t, x, e), 2)
  BY <1>1, <1>4 DEF EncodeRel8Control
<1>6. Says(EncodeJecxz(t, e), 3)
  BY <1>2, <1>4 DEF EncodeJecxz
<1>7. \A x, y : Says(EncodeConditionalJump(t, x, y, e), IF t.dist = "near" THEN 4 ELSE 2)
  <2>1. \A x : Says(EmitCondRelative(t.o.imm, 2, x, x, e), 2)
    BY <1>1 DEF EmitCondRelative
  <2>2. \A x, y : /\ Says(EmitCondRelative(t.o.imm, 2, x, y, e), 2)
                  /\ Says(EmitCondRelative(t.o.imm, 4, x, y, e), 4)
    <3>1. 2 # 4
      OBVIOUS
    <3> QED
      BY <1>1, <1>3, <3>1 DEF EmitCondRelative
  <2>3. CASE t.dist = "near"
    <3>1. \A x, y : EncodeConditionalJump(t, x, y, e)
                      = IF ~Scalar(t) \/ t.dist = "far" THEN FAIL ELSE IF Unknown(t.o, e) THEN Sized(4)
                        ELSE EmitCondRelative(t.o.imm, 4, x, y, e)
      BY <2>3 DEF EncodeConditionalJump
    <3> QED
      BY <1>4, <2>2, <2>3, <3>1
  <2>4. CASE t.dist # "near"
    <3>1. \A x, y : EncodeConditionalJump(t, x, y, e)
                      = IF ~Scalar(t) \/ t.dist = "far" THEN FAIL ELSE IF Unknown(t.o, e) THEN Sized(2)
                        ELSE EmitCondRelative(t.o.imm, 2, x, y, e)
      BY <2>4 DEF EncodeConditionalJump
    <3> QED
      BY <1>4, <2>2, <2>4, <3>1
  <2> QED
    BY <2>3, <2>4
<1>8. \A o : Says(EncodeCallDirect(o, e), 3) /\ Says(EncodeJmpDirect(o, 2, e), 2) /\ Says(EncodeJmpDirect(o, 3, e), 3)
  <2>1. ASSUME NEW o
        PROVE  Says(EncodeCallDirect(o, e), 3) /\ Says(EncodeJmpDirect(o, 2, e), 2) /\ Says(EncodeJmpDirect(o, 3, e), 3)
    <3>1. \A x : Says(Relative(<<x>>, 1, o.imm, e), 2) /\ Says(Relative(<<x>>, 2, o.imm, e), 3)
      <4>1. \A x : Len(<<x>>) + 1 = 2 /\ Len(<<x>>) + 2 = 3
        OBVIOUS
      <4> QED
        BY <4>1, RelativesSay
    <3>2. Says(EmitCallRelative(o.imm, e), 3) /\ Says(EmitJmpRelative(o.imm, 2, e), 2) /\ Says(EmitJmpRelative(o.imm, 3, e), 3)
      BY <3>1 DEF EmitCallRelative, EmitJmpRelative
    <3>3. Says(EncodeCallDirect(o, e), 3)
      BY <1>4, <3>2 DEF EncodeCallDirect
    <3> QED
      BY <1>4, <3>2, <3>3 DEF EncodeJmpDirect
  <2> QED
    BY <2>1
<1>9. \A o, x, n : Says(FarImmediate(o, x, n, e), FarImmediateSize(n))
  <2>1. \A g, bytes, n : Says(Check(g, Out(bytes, n)), n)
    BY DEF Says, Check, FAIL, Out
  <2> QED
    BY <1>4, <2>1, Zenon DEF FarImmediate
<1>10. Says(EncodeO32Call(t, e), 6)
  <2>1. Says(EmitO32Rel32(t.o.imm, \hE8, e), 6)
    <3>1. \A x, y : Len(<<x, y>>) + 4 = 6
      OBVIOUS
    <3>2. \A x, y : Says(Relative32(<<x, y>>, t.o.imm, e), 6)
      BY <3>1, RelativesSay
    <3> QED
      BY <3>2 DEF EmitO32Rel32
  <2>2. CASE Scalar(t) /\ t.dist \in {"near", "none"}
    BY <1>4, <2>1, <2>2 DEF EncodeO32Call
  <2>3. CASE ~Scalar(t) \/ t.dist \in {"short", "far"}
    BY <1>4, <2>3 DEF EncodeO32Call
  <2> QED
    BY <2>2, <2>3
<1> QED
  BY <1>5, <1>6, <1>7, <1>8, <1>9, <1>10

\* The prefixes in front of a jump.
LEMMA PairLengths ==
  ASSUME NEW o \in BOOLEAN, NEW a \in BOOLEAN
  PROVE  /\ ForcedPrefixPairLen(o, a) = (IF o THEN 1 ELSE 0) + (IF a THEN 1 ELSE 0)
         /\ \A x : Len(ForcedPrefixPair(o, a) \o <<x>>) = ForcedPrefixPairLen(o, a) + 1
         /\ \A x, y : Len(ForcedPrefixPair(o, a) \o <<x, y>>) = ForcedPrefixPairLen(o, a) + 2
<1> DEFINE pair == ForcedPrefixPair(o, a)
           n == ForcedPrefixPairLen(o, a)
<1>1. pair \in Seq(Int) /\ Len(pair) = n
  <2>1. CASE o /\ a
    BY <2>1 DEF ForcedPrefixPair, ForcedPrefixPairLen
  <2>2. CASE o /\ ~a
    BY <2>2 DEF ForcedPrefixPair, ForcedPrefixPairLen
  <2>3. CASE ~o /\ a
    BY <2>3 DEF ForcedPrefixPair, ForcedPrefixPairLen
  <2>4. CASE ~o /\ ~a
    BY <2>4 DEF ForcedPrefixPair, ForcedPrefixPairLen
  <2> QED
    BY <2>1, <2>2, <2>3, <2>4
<1>2. n = (IF o THEN 1 ELSE 0) + (IF a THEN 1 ELSE 0)
  BY DEF ForcedPrefixPairLen
<1> HIDE DEF pair, n
<1>3. \A x : Len(pair \o <<x>>) = Len(pair) + 1
  <2> SUFFICES ASSUME NEW x
               PROVE  Len(pair \o <<x>>) = Len(pair) + 1
    OBVIOUS
  <2>2. pair \in Seq(Int \cup {x}) /\ <<x>> \in Seq(Int \cup {x}) /\ Len(<<x>>) = 1
    BY <1>1
  <2> QED
    BY <2>2
<1>4. \A x, y : Len(pair \o <<x, y>>) = Len(pair) + 2
  <2> SUFFICES ASSUME NEW x, NEW y
               PROVE  Len(pair \o <<x, y>>) = Len(pair) + 2
    OBVIOUS
  <2>1. pair \in Seq(Int \cup {x, y}) /\ <<x, y>> \in Seq(Int \cup {x, y}) /\ Len(<<x, y>>) = 2
    BY <1>1
  <2> QED
    BY <2>1
<1>5. n = IF o THEN (IF a THEN 2 ELSE 1) ELSE IF a THEN 1 ELSE 0
  BY <1>2
<1> QED
  BY <1>1, <1>2, <1>3, <1>4, <1>5 DEF pair, n

\* Jumps behind prefixes, with the target known.
LEMMA PrefixedSay ==
  ASSUME NEW f, f.o32 \in BOOLEAN, f.a16 \in BOOLEAN, f.a32 \in BOOLEAN, NEW target, NEW e
  PROVE  /\ \A x : Says(EmitPrefixedRel8(target, x, f, e), 2 + ForcedPrefixPairLen(f.o32, f.a32))
         /\ \A x : Says(EmitPrefixedNear(target, <<x>>, f, e),
                        IF Rel32(f) THEN 6 ELSE 3 + ForcedPrefixPairLen(f.o32, f.a32))
         /\ \A x, y : Says(EmitPrefixedNear(target, <<x, y>>, f, e),
                           IF Rel32(f) THEN 7 ELSE 4 + ForcedPrefixPairLen(f.o32, f.a32))
<1> DEFINE n == ForcedPrefixPairLen(f.o32, f.a32)
           pair == ForcedPrefixPair(f.o32, f.a32)
<1>1. n = (IF f.o32 THEN 1 ELSE 0) + (IF f.a32 THEN 1 ELSE 0)
  BY PairLengths
<1>2. n \in Int /\ (Rel32(f) => n = 1)
  BY <1>1 DEF Rel32
<1>3. \A x : Len(pair \o <<x>>) = n + 1
  BY PairLengths
<1>4. \A x, y : Len(pair \o <<x, y>>) = n + 2
  BY PairLengths
<1>5. \A x : EmitPrefixedRel8(target, x, f, e) = Relative(pair \o <<x>>, 1, target, e)
  BY DEF EmitPrefixedRel8
<1>6. \A op : EmitPrefixedNear(target, op, f, e)
                = IF Rel32(f) THEN Relative32(pair \o op, target, e) ELSE Relative(pair \o op, 2, target, e)
  BY DEF EmitPrefixedNear
<1> HIDE DEF n, pair
<1>7. \A x : Says(EmitPrefixedRel8(target, x, f, e), 2 + n)
  <2> SUFFICES ASSUME NEW x
               PROVE  Says(EmitPrefixedRel8(target, x, f, e), 2 + n)
    OBVIOUS
  <2>1. Len(pair \o <<x>>) + 1 = 2 + n
    BY <1>2, <1>3
  <2>2. Says(Relative(pair \o <<x>>, 1, target, e), Len(pair \o <<x>>) + 1)
    BY RelativesSay
  <2> QED
    BY <1>5, <2>1, <2>2
<1>8. ASSUME NEW op, NEW m \in Int, Len(pair \o op) = n + m
      PROVE  Says(EmitPrefixedNear(target, op, f, e), IF Rel32(f) THEN 5 + m ELSE 2 + m + n)
  <2>1. /\ Says(Relative(pair \o op, 2, target, e), Len(pair \o op) + 2)
        /\ Says(Relative32(pair \o op, target, e), Len(pair \o op) + 4)
    BY RelativesSay
  <2>2. Len(pair \o op) + 2 = 2 + m + n /\ (Rel32(f) => Len(pair \o op) + 4 = 5 + m)
    BY <1>2, <1>8
  <2> QED
    BY <1>6, <2>1, <2>2
<1>9. \A x : Says(EmitPrefixedNear(target, <<x>>, f, e), IF Rel32(f) THEN 6 ELSE 3 + n)
  <2> SUFFICES ASSUME NEW x
               PROVE  Says(EmitPrefixedNear(target, <<x>>, f, e), IF Rel32(f) THEN 6 ELSE 3 + n)
    OBVIOUS
  <2> DEFINE op == <<x>>
  <2>1. Len(pair \o op) = n + 1
    BY <1>3
  <2> HIDE DEF op
  <2>2. Says(EmitPrefixedNear(target, op, f, e), IF Rel32(f) THEN 5 + 1 ELSE 2 + 1 + n)
    BY <1>8, <2>1
  <2>3. Says(EmitPrefixedNear(target, op, f, e), IF Rel32(f) THEN 6 ELSE 3 + n)
    BY <1>2, <2>2
  <2> QED
    BY <2>3 DEF op
<1>10. \A x, y : Says(EmitPrefixedNear(target, <<x, y>>, f, e), IF Rel32(f) THEN 7 ELSE 4 + n)
  <2> SUFFICES ASSUME NEW x, NEW y
               PROVE  Says(EmitPrefixedNear(target, <<x, y>>, f, e), IF Rel32(f) THEN 7 ELSE 4 + n)
    OBVIOUS
  <2> DEFINE op == <<x, y>>
  <2>1. Len(pair \o op) = n + 2
    BY <1>4
  <2> HIDE DEF op
  <2>2. Says(EmitPrefixedNear(target, op, f, e), IF Rel32(f) THEN 5 + 2 ELSE 2 + 2 + n)
    BY <1>8, <2>1
  <2>3. Says(EmitPrefixedNear(target, op, f, e), IF Rel32(f) THEN 7 ELSE 4 + n)
    BY <1>2, <2>2
  <2> QED
    BY <2>3 DEF op
<1> QED
  BY <1>7, <1>9, <1>10 DEF n

\* jcc and the loops, behind prefixes: the size of the first pass leaves out the prefix
\* of a short jcc.
LEMMA PrefixedConditionsGrow ==
  ASSUME NEW t, NEW u, Retold(t, u), NEW e, InFirst(e), NEW g, InLast(g),
         NEW f, f.o32 \in BOOLEAN, f.a16 \in BOOLEAN, f.a32 \in BOOLEAN
  PROVE  /\ \A x, y : IF t.o.unresolved /\ f.o32 /\ t.dist = "short"
                        THEN Longer(EncodePrefixedJcc(t, x, y, f, e), EncodePrefixedJcc(u, x, y, f, g))
                        ELSE Agrees(EncodePrefixedJcc(t, x, y, f, e), EncodePrefixedJcc(u, x, y, f, g))
         /\ \A x : Agrees(EncodePrefixedRel8Control(t, x, f, e), EncodePrefixedRel8Control(u, x, f, g))
<1> DEFINE n == ForcedPrefixPairLen(f.o32, f.a32)
<1>1. n = (IF f.o32 THEN 1 ELSE 0) + (IF f.a32 THEN 1 ELSE 0)
  BY PairLengths
<1>2. /\ (Scalar(u) <=> Scalar(t)) /\ u.dist = t.dist /\ ~Unknown(u.o, g)
      /\ (Unknown(t.o, e) <=> t.o.unresolved)
  BY DEF Retold, Scalar, Unknown, InFirst, InLast
<1>3. \A target, p :
        /\ \A x : Says(EmitPrefixedRel8(target, x, f, p), 2 + n)
        /\ \A x : Says(EmitPrefixedNear(target, <<\h0F, x>>, f, p), IF Rel32(f) THEN 7 ELSE 4 + n)
  BY PrefixedSay
<1>4. \A m : Says(Sized(m), m) /\ Says(FAIL, m)
  BY DEF Says, Sized, FAIL, Out
<1>5. n \in Int /\ (Rel32(f) => n = 1 /\ f.o32)
  BY <1>1 DEF Rel32
<1> HIDE DEF n
<1>6. \A x : Agrees(EncodePrefixedRel8Control(t, x, f, e), EncodePrefixedRel8Control(u, x, f, g))
  <2>1. \A x : /\ Says(EncodePrefixedRel8Control(t, x, f, e), 2 + n)
               /\ Says(EncodePrefixedRel8Control(u, x, f, g), 2 + n)
    BY <1>3, <1>4 DEF EncodePrefixedRel8Control, n
  <2> QED
    BY <2>1, Agreeing
<1>7. ASSUME NEW x, NEW y
      PROVE  Grows(EncodePrefixedJcc(t, x, y, f, e), EncodePrefixedJcc(u, x, y, f, g),
                   t.o.unresolved /\ f.o32 /\ t.dist = "short")
  <2> DEFINE short == t.dist = "short" \/ (t.dist = "none" /\ ~f.o32)
             size == (IF short THEN 2 ELSE (IF Rel32(f) THEN 6 ELSE 4) + (IF f.o32 THEN 1 ELSE 0))
                       + (IF f.a32 THEN 1 ELSE 0)
             fails == ~Scalar(t) \/ t.dist = "far"
             known(imm, p) == IF short THEN EmitPrefixedRel8(imm, x, f, p)
                              ELSE EmitPrefixedNear(imm, <<\h0F, y>>, f, p)
             length == IF short THEN 2 + n ELSE IF Rel32(f) THEN 7 ELSE 4 + n
  <2>1. EncodePrefixedJcc(t, x, y, f, e)
          = IF fails THEN FAIL ELSE IF Unknown(t.o, e) THEN Sized(size) ELSE known(t.o.imm, e)
    BY DEF EncodePrefixedJcc, EmitPrefixedJccRel8, EmitPrefixedJccNear
  <2>2. EncodePrefixedJcc(u, x, y, f, g)
          = IF fails THEN FAIL ELSE known(u.o.imm, g)
    BY <1>2 DEF EncodePrefixedJcc, EmitPrefixedJccRel8, EmitPrefixedJccNear
  <2>3. \A imm, p : Says(known(imm, p), length)
    BY <1>3
  <2>4. /\ length \in Int /\ size \in Int
        /\ length = IF f.o32 /\ short THEN size + 1 ELSE size
    BY <1>1, <1>5 DEF Rel32
  <2>5. f.o32 /\ short <=> f.o32 /\ t.dist = "short"
    OBVIOUS
  <2> HIDE DEF short, size, fails, known, length
  <2>6. CASE fails
    BY <2>1, <2>2, <2>6, Growing
  <2>7. CASE ~fails /\ ~t.o.unresolved
    <3>1. /\ Says(EncodePrefixedJcc(t, x, y, f, e), length)
          /\ Says(EncodePrefixedJcc(u, x, y, f, g), length)
      BY <1>2, <2>1, <2>2, <2>3, <2>7
    <3>2. Grows(EncodePrefixedJcc(t, x, y, f, e), EncodePrefixedJcc(u, x, y, f, g), FALSE)
      BY <3>1, Growing
    <3> QED
      BY <2>7, <3>2
  <2>8. CASE ~fails /\ t.o.unresolved
    <3>1. /\ Says(EncodePrefixedJcc(t, x, y, f, e), size)
          /\ Says(EncodePrefixedJcc(u, x, y, f, g), length)
      BY <1>2, <1>4, <2>1, <2>2, <2>3, <2>8
    <3>2. CASE f.o32 /\ t.dist = "short"
      <4>1. length = size + 1
        BY <2>4, <2>5, <3>2
      <4>2. Grows(EncodePrefixedJcc(t, x, y, f, e), EncodePrefixedJcc(u, x, y, f, g), TRUE)
        BY <3>1, <4>1, Growing
      <4> QED
        BY <2>8, <3>2, <4>2
    <3>3. CASE ~(f.o32 /\ t.dist = "short")
      <4>1. length = size
        BY <2>4, <2>5, <3>3
      <4>2. Grows(EncodePrefixedJcc(t, x, y, f, e), EncodePrefixedJcc(u, x, y, f, g), FALSE)
        BY <3>1, <4>1, Growing
      <4> QED
        BY <2>8, <3>3, <4>2
    <3> QED
      BY <3>2, <3>3
  <2> QED
    BY <2>6, <2>7, <2>8
<1> QED
  BY <1>6, <1>7 DEF Grows

\* A jmp with a displacement, behind prefixes: the size of the first pass leaves out the
\* prefix where the size is explicit, but not where o32 alone has made a dword of it.
LEMMA PrefixedDirectGrows ==
  ASSUME NEW o, NEW q, q.kind = o.kind, q.unresolved = o.unresolved, NEW e, InFirst(e), NEW g, InLast(g),
         NEW f, f.o32 \in BOOLEAN, f.a16 \in BOOLEAN, f.a32 \in BOOLEAN, NEW explicit \in {0, 2, 3}
  PROVE  IF o.unresolved /\ f.o32 /\ (explicit = 2 \/ (explicit = 3 /\ ~Rel32(f)))
         THEN Longer(EncodePrefixedJmpDirect(o, explicit, f, e), EncodePrefixedJmpDirect(q, explicit, f, g))
         ELSE Agrees(EncodePrefixedJmpDirect(o, explicit, f, e), EncodePrefixedJmpDirect(q, explicit, f, g))
<1> DEFINE n == ForcedPrefixPairLen(f.o32, f.a32)
           size == CASE explicit = 0 /\ f.o32 -> IF Rel32(f) THEN 6 ELSE 4
                     [] explicit = 0 /\ ~f.o32 -> 2
                     [] explicit = 3 /\ Rel32(f) -> 6
                     [] OTHER -> explicit
           wide == size + (IF f.a32 THEN 1 ELSE 0)
           length == IF size = 2 THEN 2 + n ELSE IF Rel32(f) THEN 6 ELSE 3 + n
           more == f.o32 /\ (explicit = 2 \/ (explicit = 3 /\ ~Rel32(f)))
           a == EncodePrefixedJmpDirect(o, explicit, f, e)
           b == EncodePrefixedJmpDirect(q, explicit, f, g)
           known(imm, p) == IF size = 2 THEN EmitPrefixedRel8(imm, \hEB, f, p)
                            ELSE EmitPrefixedNear(imm, <<\hE9>>, f, p)
<1>1. n = (IF f.o32 THEN 1 ELSE 0) + (IF f.a32 THEN 1 ELSE 0)
  BY PairLengths
<1>2. ~Unknown(q, g) /\ (Unknown(o, e) <=> o.unresolved)
  BY DEF Unknown, InFirst, InLast
<1>3. \A imm, p : Says(known(imm, p), length)
  BY PrefixedSay
<1>4. \A m : Says(Sized(m), m) /\ Says(FAIL, m)
  BY DEF Says, Sized, FAIL, Out
<1>5. /\ a = IF o.kind # "IMM" THEN FAIL ELSE IF Unknown(o, e) THEN Sized(wide) ELSE known(o.imm, e)
      /\ b = IF o.kind # "IMM" THEN FAIL ELSE known(q.imm, g)
  BY <1>2 DEF EncodePrefixedJmpDirect, EmitPrefixedJmpRel8, EmitPrefixedJmpNear
<1>6. length \in Int /\ wide \in Int /\ length = IF more THEN wide + 1 ELSE wide
  <2>1. size = IF explicit = 0 THEN IF ~f.o32 THEN 2 ELSE IF Rel32(f) THEN 6 ELSE 4
               ELSE IF explicit = 3 /\ Rel32(f) THEN 6 ELSE explicit
    OBVIOUS
  <2> HIDE DEF size
  <2> QED
    BY <1>1, <2>1 DEF Rel32
<1> HIDE DEF n, size, wide, length, known, a, b
<1>7. CASE o.kind # "IMM"
  BY <1>5, <1>7, Growing DEF a, b, Grows
<1>8. CASE o.kind = "IMM" /\ ~o.unresolved
  <2>1. Says(a, length) /\ Says(b, length)
    BY <1>2, <1>3, <1>5, <1>8
  <2>2. Grows(a, b, FALSE)
    BY <2>1, Growing
  <2> QED
    BY <1>8, <2>2 DEF a, b, Grows
<1>9. CASE o.kind = "IMM" /\ o.unresolved
  <2>1. Says(a, wide) /\ Says(b, length)
    BY <1>2, <1>3, <1>4, <1>5, <1>9
  <2>2. more => Grows(a, b, TRUE)
    BY <1>6, <2>1, Growing
  <2>3. ~more => Grows(a, b, FALSE)
    BY <1>6, <2>1, Growing
  <2>4. CASE more
    BY <1>9, <2>2, <2>4 DEF a, b, Grows
  <2>5. CASE ~more
    BY <1>9, <2>3, <2>5 DEF a, b, Grows
  <2> QED
    BY <2>4, <2>5
<1> QED
  BY <1>7, <1>8, <1>9

\* jmp and call without prefixes: a jmp of no size is as long as the cache says.
LEMMA JumpsAgree ==
  ASSUME NEW t, NEW u, Retold(t, u), NEW e, InFirst(e), NEW g, InLast(g)
  PROVE  /\ (t.o.kind = "IMM" /\ t.dist = "none" => g.cached = EncodeJmp(t, e).size)
              => Agrees(EncodeJmp(t, e), EncodeJmp(u, g))
         /\ t.o.kind = "IMM" /\ t.dist = "none" => EncodeJmp(t, e).size \in {2, 3}
         /\ Agrees(EncodeCall(t, e), EncodeCall(u, g))
<1>1. /\ u.dist = t.dist /\ u.ptr = t.ptr /\ u.o.kind = t.o.kind /\ u.o.size = t.o.size
      /\ t.dist \in {"none", "short", "near", "far"}
      /\ t.o.kind \in {"IMM", "FAR"} \/ u.o = t.o
  BY DEF Retold
<1>2. \A far : /\ Agrees(EncodeJmpPtrMem(t.o, far), EncodeJmpPtrMem(u.o, far))
               /\ Agrees(EncodeCallPtrMem(t.o, far), EncodeCallPtrMem(u.o, far))
  <2>1. \A o, group : o.kind \in {"IMM", "FAR"} => PtrMem(o, group) = FAIL
    BY DEF PtrMem, JumpMemory, Check
  <2>2. \A group : Agrees(PtrMem(t.o, group), PtrMem(u.o, group))
    BY <1>1, <2>1, Agreeing
  <2> QED
    BY <2>2 DEF EncodeJmpPtrMem, EncodeCallPtrMem
<1>3. \A n : /\ Agrees(EncodeJmpFarImmediate(t.o, n, e), EncodeJmpFarImmediate(u.o, n, g))
             /\ Agrees(EncodeCallFarImmediate(t.o, n, e), EncodeCallFarImmediate(u.o, n, g))
  <2>1. \A x, n : /\ Says(FarImmediate(t.o, x, n, e), FarImmediateSize(n))
                  /\ Says(FarImmediate(u.o, x, n, g), FarImmediateSize(n))
    BY <1>1, JumpsSay
  <2>2. \A x, n : Agrees(FarImmediate(t.o, x, n, e), FarImmediate(u.o, x, n, g))
    BY <2>1, Agreeing
  <2> QED
    BY <2>2 DEF EncodeJmpFarImmediate, EncodeCallFarImmediate
<1>4. /\ Agrees(EncodeJmpDirect(t.o, 2, e), EncodeJmpDirect(u.o, 2, g))
      /\ Agrees(EncodeJmpDirect(t.o, 3, e), EncodeJmpDirect(u.o, 3, g))
      /\ Agrees(EncodeCallDirect(t.o, e), EncodeCallDirect(u.o, g))
  <2>1. /\ Says(EncodeJmpDirect(t.o, 2, e), 2) /\ Says(EncodeJmpDirect(t.o, 3, e), 3) /\ Says(EncodeCallDirect(t.o, e), 3)
        /\ Says(EncodeJmpDirect(u.o, 2, g), 2) /\ Says(EncodeJmpDirect(u.o, 3, g), 3) /\ Says(EncodeCallDirect(u.o, g), 3)
    BY <1>1, JumpsSay
  <2> QED
    BY <2>1, Agreeing
<1>5. \A x : t.o.kind \in R16or32
               => Agrees(RegForm(t.o.size, <<\hFF>>, x, t.o.reg, 2), RegForm(u.o.size, <<\hFF>>, x, u.o.reg, 2))
  <2>1. t.o.kind \in R16or32 => u.o = t.o
    BY <1>1 DEF R16or32
  <2> QED
    BY <2>1, Agreeing
<1>6. t.o.kind = "IMM" /\ t.dist = "none"
        => /\ EncodeJmp(t, e).size \in {2, 3}
           /\ g.cached = EncodeJmp(t, e).size => Agrees(EncodeJmpDirect(t.o, 0, e), EncodeJmpDirect(u.o, 0, g))
  <2> SUFFICES ASSUME t.o.kind = "IMM", t.dist = "none"
               PROVE  /\ EncodeJmp(t, e).size \in {2, 3}
                      /\ g.cached = EncodeJmp(t, e).size
                           => Agrees(EncodeJmpDirect(t.o, 0, e), EncodeJmpDirect(u.o, 0, g))
    OBVIOUS
  <2> DEFINE s == JmpDirectSize(t.o, e)
  <2>1. s \in {2, 3}
    BY DEF JmpDirectSize, ShortIfFits, InFirst
  <2>2. EncodeJmpDirect(t.o, 0, e) = Sized(s)
    BY DEF EncodeJmpDirect, InFirst
  <2>3. EncodeJmp(t, e) = EncodeJmpDirect(t.o, 0, e)
    <3>1. t.o.kind \notin R16or32
      BY DEF R16or32
    <3> QED
      BY <3>1 DEF EncodeJmp, IsDist
  <2>4. EncodeJmp(t, e).size = s
    BY <2>2, <2>3 DEF Sized, Out
  <2>5. EncodeJmpDirect(u.o, 0, g) = EmitJmpRelative(u.o.imm, JmpDirectSize(u.o, g), g)
    BY <1>1 DEF EncodeJmpDirect, InLast
  <2>6. g.cached = s => JmpDirectSize(u.o, g) = s
    <3> HIDE DEF s
    <3> QED
      BY <2>1 DEF JmpDirectSize, InLast
  <2> HIDE DEF s
  <2>7. Says(EmitJmpRelative(u.o.imm, s, g), s)
    <3>1. \A x : Len(<<x>>) + 1 = 2 /\ Len(<<x>>) + 2 = 3
      OBVIOUS
    <3>2. \A x : Says(Relative(<<x>>, 1, u.o.imm, g), 2) /\ Says(Relative(<<x>>, 2, u.o.imm, g), 3)
      BY <3>1, RelativesSay
    <3> QED
      BY <2>1, <3>2 DEF EmitJmpRelative
  <2>8. Says(Sized(s), s)
    BY DEF Says, Sized, Out
  <2> QED
    BY <2>1, <2>2, <2>4, <2>5, <2>6, <2>7, <2>8, Agreeing
<1> DEFINE far == IsFar(t)
           offset == IF t.o.size # 0 THEN t.o.size ELSE 2
<1>7. /\ (IsFar(u) <=> far) /\ (IsDist(u) <=> IsDist(t))
      /\ offset = IF u.o.size # 0 THEN u.o.size ELSE 2
  BY <1>1 DEF IsFar, IsDist
<1>8. CASE t.dist = "short"
  <2>1. /\ EncodeJmp(t, e) = IF t.ptr THEN FAIL ELSE EncodeJmpDirect(t.o, 2, e)
        /\ EncodeJmp(u, g) = IF t.ptr THEN FAIL ELSE EncodeJmpDirect(u.o, 2, g)
        /\ EncodeCall(t, e) = FAIL /\ EncodeCall(u, g) = FAIL
    BY <1>1, <1>8 DEF EncodeJmp, EncodeCall, IsDist
  <2> QED
    BY <1>4, <1>8, <2>1, Agreeing
<1>9. CASE IsDist(t) /\ ~t.ptr
  <2>1. t.dist \notin {"short", "none"} /\ u.dist \notin {"short", "none"} /\ ~u.ptr /\ IsDist(u)
    BY <1>1, <1>9 DEF IsDist
  <2>2. /\ EncodeJmp(t, e) = IF IsFar(t) THEN FAIL ELSE EncodeJmpDirect(t.o, 3, e)
        /\ EncodeCall(t, e) = IF IsFar(t) THEN FAIL ELSE EncodeCallDirect(t.o, e)
    BY <1>9, <2>1 DEF EncodeJmp, EncodeCall
  <2>3. /\ EncodeJmp(u, g) = IF IsFar(u) THEN FAIL ELSE EncodeJmpDirect(u.o, 3, g)
        /\ EncodeCall(u, g) = IF IsFar(u) THEN FAIL ELSE EncodeCallDirect(u.o, g)
    BY <2>1 DEF EncodeJmp, EncodeCall
  <2> QED
    BY <1>4, <1>7, <2>1, <2>2, <2>3, Agreeing
<1>10. CASE IsDist(t) /\ t.ptr
  <2>1. t.dist \notin {"short", "none"} /\ u.dist \notin {"short", "none"} /\ u.ptr /\ IsDist(u)
    BY <1>1, <1>10 DEF IsDist
  <2>2. CASE t.o.kind = "MEM" \/ ~far
    <3>1. /\ EncodeJmp(t, e) = EncodeJmpPtrMem(t.o, IsFar(t))
          /\ EncodeCall(t, e) = EncodeCallPtrMem(t.o, IsFar(t))
      BY <1>10, <2>1, <2>2 DEF EncodeJmp, EncodeCall
    <3>2. u.o.kind = "MEM" \/ ~IsFar(u)
      BY <1>1, <1>7, <2>2
    <3>3. /\ EncodeJmp(u, g) = EncodeJmpPtrMem(u.o, IsFar(u))
          /\ EncodeCall(u, g) = EncodeCallPtrMem(u.o, IsFar(u))
      BY <2>1, <3>2 DEF EncodeJmp, EncodeCall
    <3>4. IsFar(u) = IsFar(t)
      BY <1>1 DEF IsFar
    <3> QED
      BY <1>2, <2>1, <3>1, <3>3, <3>4
  <2>3. CASE t.o.kind # "MEM" /\ far
    <3>1. /\ EncodeJmp(t, e) = EncodeJmpFarImmediate(t.o, offset, e)
          /\ EncodeCall(t, e) = EncodeCallFarImmediate(t.o, offset, e)
      BY <1>10, <2>1, <2>3 DEF EncodeJmp, EncodeCall
    <3>2. u.o.kind # "MEM" /\ IsFar(u)
      BY <1>1, <1>7, <2>3
    <3>3. /\ EncodeJmp(u, g) = EncodeJmpFarImmediate(u.o, offset, g)
          /\ EncodeCall(u, g) = EncodeCallFarImmediate(u.o, offset, g)
      BY <1>1, <2>1, <3>2 DEF EncodeJmp, EncodeCall
    <3> HIDE DEF offset
    <3> QED
      BY <1>3, <2>1, <3>1, <3>3
  <2> QED
    BY <2>2, <2>3
<1>11. CASE t.dist = "none"
  <2>1. \A v, p : v.dist = "none" =>
          /\ EncodeJmp(v, p) = CASE v.o.kind \in R16or32 -> RegForm(v.o.size, <<\hFF>>, 4, v.o.reg, 2)
                                 [] v.o.kind = "IMM" -> EncodeJmpDirect(v.o, 0, p)
                                 [] OTHER -> FAIL
          /\ EncodeCall(v, p) = CASE v.o.kind \in R16or32 -> RegForm(v.o.size, <<\hFF>>, 2, v.o.reg, 2)
                                  [] v.o.kind = "IMM" -> EncodeCallDirect(v.o, p)
                                  [] OTHER -> FAIL
    BY DEF EncodeJmp, EncodeCall, IsDist
  <2>2. "IMM" \notin R16or32
    BY DEF R16or32
  <2>3. CASE t.o.kind \in R16or32
    BY <1>1, <1>5, <1>11, <2>1, <2>2, <2>3
  <2>4. CASE t.o.kind = "IMM"
    <3>1. /\ EncodeJmp(t, e) = EncodeJmpDirect(t.o, 0, e) /\ EncodeJmp(u, g) = EncodeJmpDirect(u.o, 0, g)
          /\ EncodeCall(t, e) = EncodeCallDirect(t.o, e) /\ EncodeCall(u, g) = EncodeCallDirect(u.o, g)
      BY <1>1, <1>11, <2>1, <2>2, <2>4
    <3>2. /\ EncodeJmp(t, e).size \in {2, 3}
          /\ g.cached = EncodeJmp(t, e).size => Agrees(EncodeJmpDirect(t.o, 0, e), EncodeJmpDirect(u.o, 0, g))
      BY <1>6, <1>11, <2>4
    <3>3. Agrees(EncodeCall(t, e), EncodeCall(u, g))
      BY <1>4, <3>1
    <3>4. g.cached = EncodeJmp(t, e).size => Agrees(EncodeJmp(t, e), EncodeJmp(u, g))
      BY <3>1, <3>2
    <3> QED
      BY <1>11, <2>4, <3>2, <3>3, <3>4
  <2>5. CASE t.o.kind \notin R16or32 /\ t.o.kind # "IMM"
    <3>1. EncodeJmp(t, e) = FAIL /\ EncodeJmp(u, g) = FAIL /\ EncodeCall(t, e) = FAIL /\ EncodeCall(u, g) = FAIL
      BY <1>1, <1>11, <2>1, <2>5
    <3> QED
      BY <2>5, <3>1, Agreeing
  <2> QED
    BY <2>3, <2>4, <2>5
<1> QED
  BY <1>1, <1>8, <1>9, <1>10, <1>11 DEF IsDist

\* jmp behind prefixes.
LEMMA PrefixedJmpGrows ==
  ASSUME NEW t, NEW u, Retold(t, u), NEW e, InFirst(e), NEW g, InLast(g),
         NEW f, f.o32 \in BOOLEAN, f.a16 \in BOOLEAN, f.a32 \in BOOLEAN
  PROVE  IF t.o.unresolved /\ f.o32 /\ (t.dist = "short" \/ (t.dist = "near" /\ ~Rel32(f)))
         THEN Longer(EncodePrefixedJmp(t, f, e), EncodePrefixedJmp(u, f, g))
         ELSE Agrees(EncodePrefixedJmp(t, f, e), EncodePrefixedJmp(u, f, g))
<1>1. /\ u.dist = t.dist /\ u.ptr = t.ptr /\ u.o.kind = t.o.kind /\ u.o.unresolved = t.o.unresolved
      /\ t.dist \in {"none", "short", "near", "far"}
      /\ IF t.o.unresolved THEN t.o.kind \in {"IMM", "FAR"} ELSE u.o = t.o
  BY DEF Retold
<1> DEFINE more == t.o.unresolved /\ f.o32 /\ (t.dist = "short" \/ (t.dist = "near" /\ ~Rel32(f)))
           a == EncodePrefixedJmp(t, f, e)
           b == EncodePrefixedJmp(u, f, g)
<1>2. \A n \in {0, 2, 3} :
        IF t.o.unresolved /\ f.o32 /\ (n = 2 \/ (n = 3 /\ ~Rel32(f)))
        THEN Longer(EncodePrefixedJmpDirect(t.o, n, f, e), EncodePrefixedJmpDirect(u.o, n, f, g))
        ELSE Agrees(EncodePrefixedJmpDirect(t.o, n, f, e), EncodePrefixedJmpDirect(u.o, n, f, g))
  BY <1>1, PrefixedDirectGrows
<1>3. t.dist = "short" => Grows(a, b, more)
  <2> SUFFICES ASSUME t.dist = "short"
               PROVE  Grows(a, b, more)
    OBVIOUS
  <2>1. /\ a = IF t.ptr THEN FAIL ELSE EncodePrefixedJmpDirect(t.o, 2, f, e)
        /\ b = IF t.ptr THEN FAIL ELSE EncodePrefixedJmpDirect(u.o, 2, f, g)
    BY <1>1 DEF EncodePrefixedJmp
  <2>2. Grows(EncodePrefixedJmpDirect(t.o, 2, f, e), EncodePrefixedJmpDirect(u.o, 2, f, g), t.o.unresolved /\ f.o32)
    BY <1>2 DEF Grows
  <2>3. more <=> t.o.unresolved /\ f.o32
    OBVIOUS
  <2> HIDE DEF a, b, more
  <2> QED
    BY <2>1, <2>2, <2>3, Growing DEF Grows
<1>4. t.dist = "near" => Grows(a, b, more)
  <2> SUFFICES ASSUME t.dist = "near"
               PROVE  Grows(a, b, more)
    OBVIOUS
  <2>1. /\ a = IF t.ptr THEN EncodePrefixedJmpPtrMem(t.o, FALSE, f) ELSE EncodePrefixedJmpDirect(t.o, 3, f, e)
        /\ b = IF t.ptr THEN EncodePrefixedJmpPtrMem(u.o, FALSE, f) ELSE EncodePrefixedJmpDirect(u.o, 3, f, g)
    BY <1>1 DEF EncodePrefixedJmp
  <2>2. Grows(EncodePrefixedJmpDirect(t.o, 3, f, e), EncodePrefixedJmpDirect(u.o, 3, f, g),
              t.o.unresolved /\ f.o32 /\ ~Rel32(f))
    BY <1>2 DEF Grows
  <2>3. more <=> t.o.unresolved /\ f.o32 /\ ~Rel32(f)
    OBVIOUS
  <2> DEFINE no == FALSE
  <2>4. IF t.o.unresolved THEN EncodePrefixedJmpPtrMem(t.o, no, f) = FAIL /\ EncodePrefixedJmpPtrMem(u.o, no, f) = FAIL
        ELSE EncodePrefixedJmpPtrMem(u.o, no, f) = EncodePrefixedJmpPtrMem(t.o, no, f)
    BY <1>1 DEF EncodePrefixedJmpPtrMem, JumpMemory
  <2> HIDE DEF more, a, b
  <2>5. CASE t.ptr
    <3>1. CASE t.o.unresolved
      <4>1. a = FAIL /\ b = FAIL
        BY <2>1, <2>4, <2>5, <3>1
      <4> QED
        BY <4>1, Growing
    <3>2. CASE ~t.o.unresolved
      <4>1. a = b /\ ~more
        BY <2>1, <2>3, <2>4, <2>5, <3>2
      <4> QED
        BY <4>1, Agreeing DEF Grows
    <3> QED
      BY <3>1, <3>2
  <2>6. CASE ~t.ptr
    BY <2>1, <2>2, <2>3, <2>6 DEF Grows
  <2> QED
    BY <2>5, <2>6
<1>5. t.dist = "far" => Grows(a, b, more)
  <2> SUFFICES ASSUME t.dist = "far"
               PROVE  Grows(a, b, more)
    OBVIOUS
  <2>1. a = EncodeJmp(t, e) /\ b = EncodeJmp(u, g)
    BY <1>1 DEF EncodePrefixedJmp
  <2>2. Agrees(EncodeJmp(t, e), EncodeJmp(u, g))
    <3>1. ~(t.o.kind = "IMM" /\ t.dist = "none")
      OBVIOUS
    <3> QED
      BY <3>1, JumpsAgree
  <2>3. ~more
    OBVIOUS
  <2> HIDE DEF a, b, more
  <2> QED
    BY <2>1, <2>2, <2>3 DEF Grows
<1>6. t.dist = "none" => Grows(a, b, more)
  <2> SUFFICES ASSUME t.dist = "none"
               PROVE  Grows(a, b, more)
    OBVIOUS
  <2>1. /\ a = IF t.o.kind # "IMM" THEN EncodePrefixedJmpIndirect(t.o, f) ELSE EncodePrefixedJmpDirect(t.o, 0, f, e)
        /\ b = IF t.o.kind # "IMM" THEN EncodePrefixedJmpIndirect(u.o, f) ELSE EncodePrefixedJmpDirect(u.o, 0, f, g)
    BY <1>1 DEF EncodePrefixedJmp
  <2>2. Grows(EncodePrefixedJmpDirect(t.o, 0, f, e), EncodePrefixedJmpDirect(u.o, 0, f, g), FALSE)
    BY <1>2 DEF Grows
  <2>3. ~more
    OBVIOUS
  <2>4. \A o : o.kind = "FAR" => EncodePrefixedJmpIndirect(o, f) = FAIL
    <3> SUFFICES ASSUME NEW o, o.kind = "FAR"
                 PROVE  EncodePrefixedJmpIndirect(o, f) = FAIL
      OBVIOUS
    <3>1. Forced(o, f) = o /\ AddressSizeAgrees(o, f) /\ o.kind \notin R16or32 /\ o.kind # "MEM"
      BY DEF Forced, ForceDirectMemoryA32, AddressSizeAgrees, OperandIsMem16, OperandIsMem32, R16or32
    <3> QED
      BY <3>1 DEF EncodePrefixedJmpIndirect
  <2>5. t.o.kind # "IMM" => EncodePrefixedJmpIndirect(u.o, f) = EncodePrefixedJmpIndirect(t.o, f)
    BY <1>1, <2>4
  <2> HIDE DEF a, b, more
  <2> QED
    BY <2>1, <2>2, <2>3, <2>5, Agreeing DEF Grows
<1>7. Grows(a, b, more)
  BY <1>1, <1>3, <1>4, <1>5, <1>6
<1> QED
  BY <1>7 DEF Grows

\* The same jump, as the two passes have it.
Told(i, k) ==
  /\ k.name = i.name /\ k.cond = i.cond /\ i.name \in TakesTarget
  /\ Len(k.args) = Len(i.args)
  /\ Len(i.args) = 1 => Retold(i.args[1], k.args[1])

\* Where the first pass counts no prefix and the last writes one.
Unseen(i, f) ==
  /\ i.args[1].o.unresolved /\ f.o32
  /\ \/ i.name = "jcc" /\ i.args[1].dist = "short"
     \/ i.name = "jmp" /\ (i.args[1].dist = "short" \/ (i.args[1].dist = "near" /\ ~Rel32(f)))

\* encode_misc_prefixed_instruction, of a jump.
LEMMA MiscJumpsGrow ==
  ASSUME NEW i, NEW k, Told(i, k), NEW e, InFirst(e), NEW g, InLast(g),
         NEW f, f \in [o32 : BOOLEAN, o16 : BOOLEAN, a16 : BOOLEAN, a32 : BOOLEAN]
  PROVE  Grows(EncodeMiscPrefixedInstruction(i, f, e), EncodeMiscPrefixedInstruction(k, f, g), Unseen(i, f))
<1>0. f.o32 \in BOOLEAN /\ f.a16 \in BOOLEAN /\ f.a32 \in BOOLEAN
  OBVIOUS
<1> DEFINE t == i.args[1]
           u == k.args[1]
           op == JccOpcodesFromName(i.cond)
           more == Unseen(i, f)
           x == Loops[i.name]
           wide == [f EXCEPT !.a32 = TRUE]
           one == Len(i.args) = 1
<1>1. /\ k.name = i.name /\ k.cond = i.cond /\ i.name \in TakesTarget
      /\ Len(k.args) = Len(i.args) /\ (one => Retold(t, u))
  BY DEF Told
<1>2. /\ i.name \notin DOMAIN Returns /\ i.name # "enter"
      /\ i.name \in DOMAIN Loops => i.name \notin {"jmp", "call", "jcc", "jecxz"}
  BY <1>1, TargetNames
<1>3. \A j, p : j.name = i.name => EncodeMiscPrefixedInstruction(j, f, p) = MiscControl(j, f, p)
  <2> SUFFICES ASSUME NEW j, NEW p, j.name = i.name
               PROVE  EncodeMiscPrefixedInstruction(j, f, p) = MiscControl(j, f, p)
    OBVIOUS
  <2>1. MiscStrings(j, f) = NONE /\ MiscLoads(j, f) = NONE /\ MiscStack(j, f) = NONE /\ MiscGroups(j, f) = NONE
    BY <1>1, MiscStringsSettle, MiscLoadsSettle, MiscStackSettles, MiscGroupsSettle
  <2> QED
    BY <2>1 DEF EncodeMiscPrefixedInstruction, OrElse
<1>4. /\ MiscControl(i, f, e)
           = CASE i.name = "jcc" -> IF ~one THEN FAIL ELSE EncodePrefixedJcc(t, op.short, op.near, f, e)
               [] i.name \in DOMAIN Loops -> IF ~one THEN FAIL ELSE EncodePrefixedRel8Control(t, x, f, e)
               [] i.name = "jecxz" -> IF ~one THEN FAIL ELSE EncodePrefixedRel8Control(t, \hE3, wide, e)
               [] i.name = "jmp" -> IF ~one THEN FAIL ELSE EncodePrefixedJmp(t, f, e)
               [] OTHER -> NONE
      /\ MiscControl(k, f, g)
           = CASE i.name = "jcc" -> IF ~one THEN FAIL ELSE EncodePrefixedJcc(u, op.short, op.near, f, g)
               [] i.name \in DOMAIN Loops -> IF ~one THEN FAIL ELSE EncodePrefixedRel8Control(u, x, f, g)
               [] i.name = "jecxz" -> IF ~one THEN FAIL ELSE EncodePrefixedRel8Control(u, \hE3, wide, g)
               [] i.name = "jmp" -> IF ~one THEN FAIL ELSE EncodePrefixedJmp(u, f, g)
               [] OTHER -> NONE
  <2>1. MiscControl(i, f, e)
           = CASE i.name = "jcc" -> IF ~one THEN FAIL ELSE EncodePrefixedJcc(t, op.short, op.near, f, e)
               [] i.name \in DOMAIN Loops -> IF ~one THEN FAIL ELSE EncodePrefixedRel8Control(t, x, f, e)
               [] i.name = "jecxz" -> IF ~one THEN FAIL ELSE EncodePrefixedRel8Control(t, \hE3, wide, e)
               [] i.name = "jmp" -> IF ~one THEN FAIL ELSE EncodePrefixedJmp(t, f, e)
               [] OTHER -> NONE
    BY <1>2 DEF MiscControl, With1
  <2>2. MiscControl(k, f, g)
           = CASE i.name = "jcc" -> IF ~one THEN FAIL ELSE EncodePrefixedJcc(u, op.short, op.near, f, g)
               [] i.name \in DOMAIN Loops -> IF ~one THEN FAIL ELSE EncodePrefixedRel8Control(u, x, f, g)
               [] i.name = "jecxz" -> IF ~one THEN FAIL ELSE EncodePrefixedRel8Control(u, \hE3, wide, g)
               [] i.name = "jmp" -> IF ~one THEN FAIL ELSE EncodePrefixedJmp(u, f, g)
               [] OTHER -> NONE
    BY <1>1, <1>2 DEF MiscControl, With1
  <2> QED
    BY <2>1, <2>2
<1>5. one /\ i.name = "jcc"
        => Grows(EncodePrefixedJcc(t, op.short, op.near, f, e), EncodePrefixedJcc(u, op.short, op.near, f, g), more)
  <2> SUFFICES ASSUME one, i.name = "jcc"
               PROVE  Grows(EncodePrefixedJcc(t, op.short, op.near, f, e),
                            EncodePrefixedJcc(u, op.short, op.near, f, g), more)
    OBVIOUS
  <2>1. more <=> t.o.unresolved /\ f.o32 /\ t.dist = "short"
    BY DEF Unseen
  <2>2. Retold(t, u)
    BY <1>1
  <2> HIDE DEF t, u, op, more
  <2>3. \A y, z : IF t.o.unresolved /\ f.o32 /\ t.dist = "short"
                  THEN Longer(EncodePrefixedJcc(t, y, z, f, e), EncodePrefixedJcc(u, y, z, f, g))
                  ELSE Agrees(EncodePrefixedJcc(t, y, z, f, e), EncodePrefixedJcc(u, y, z, f, g))
    BY <1>0, <2>2, PrefixedConditionsGrow
  <2> QED
    BY <2>1, <2>3 DEF Grows
<1>6. one => \A y, w : /\ w.o32 \in BOOLEAN /\ w.a16 \in BOOLEAN /\ w.a32 \in BOOLEAN
                       => Agrees(EncodePrefixedRel8Control(t, y, w, e), EncodePrefixedRel8Control(u, y, w, g))
  <2> SUFFICES ASSUME one, NEW w, w.o32 \in BOOLEAN, w.a16 \in BOOLEAN, w.a32 \in BOOLEAN
               PROVE  \A y : Agrees(EncodePrefixedRel8Control(t, y, w, e), EncodePrefixedRel8Control(u, y, w, g))
    OBVIOUS
  <2>1. Retold(t, u)
    BY <1>1
  <2> HIDE DEF t, u
  <2> QED
    BY <2>1, PrefixedConditionsGrow
<1>7. one /\ i.name = "jmp" => Grows(EncodePrefixedJmp(t, f, e), EncodePrefixedJmp(u, f, g), more)
  <2> SUFFICES ASSUME one, i.name = "jmp"
               PROVE  Grows(EncodePrefixedJmp(t, f, e), EncodePrefixedJmp(u, f, g), more)
    OBVIOUS
  <2>1. more <=> t.o.unresolved /\ f.o32 /\ (t.dist = "short" \/ (t.dist = "near" /\ ~Rel32(f)))
    BY DEF Unseen
  <2>2. Retold(t, u)
    BY <1>1
  <2> HIDE DEF t, u, more
  <2>3. IF t.o.unresolved /\ f.o32 /\ (t.dist = "short" \/ (t.dist = "near" /\ ~Rel32(f)))
        THEN Longer(EncodePrefixedJmp(t, f, e), EncodePrefixedJmp(u, f, g))
        ELSE Agrees(EncodePrefixedJmp(t, f, e), EncodePrefixedJmp(u, f, g))
    BY <1>0, <2>2, PrefixedJmpGrows
  <2> QED
    BY <2>1, <2>3 DEF Grows
<1>8. i.name \notin {"jcc", "jmp"} => ~more
  BY DEF Unseen
<1>9. /\ one => Agrees(EncodePrefixedRel8Control(t, x, f, e), EncodePrefixedRel8Control(u, x, f, g))
      /\ one => Agrees(EncodePrefixedRel8Control(t, \hE3, wide, e), EncodePrefixedRel8Control(u, \hE3, wide, g))
  <2>1. wide.o32 \in BOOLEAN /\ wide.a16 \in BOOLEAN /\ wide.a32 \in BOOLEAN
    OBVIOUS
  <2> HIDE DEF t, u, x, wide
  <2> QED
    BY <1>6, <2>1
<1>10. Agrees(NONE, NONE)
  BY Agreeing
<1> HIDE DEF t, u, op, more, x, wide, one
<1>11. Grows(MiscControl(i, f, e), MiscControl(k, f, g), more)
  <2>1. CASE i.name = "jcc"
    <3>1. i.name # "jmp" /\ i.name # "jecxz" /\ i.name \notin DOMAIN Loops
      BY <1>2, <2>1
    <3> QED
      BY <1>4, <1>5, <2>1, <3>1, Growing
  <2>2. CASE i.name = "jmp"
    <3>1. i.name # "jcc" /\ i.name # "jecxz" /\ i.name \notin DOMAIN Loops
      BY <1>2, <2>2
    <3> QED
      BY <1>4, <1>7, <2>2, <3>1, Growing
  <2>3. CASE i.name = "jecxz"
    <3>1. i.name # "jcc" /\ i.name # "jmp" /\ i.name \notin DOMAIN Loops
      BY <1>2, <2>3
    <3> QED
      BY <1>4, <1>8, <1>9, <2>3, <3>1, Growing DEF Grows
  <2>4. CASE i.name \in DOMAIN Loops
    <3>1. i.name # "jcc" /\ i.name # "jmp" /\ i.name # "jecxz"
      BY <1>2, <2>4
    <3> QED
      BY <1>4, <1>8, <1>9, <2>4, <3>1, Growing DEF Grows
  <2>5. CASE i.name \notin DOMAIN Loops /\ i.name \notin {"jcc", "jmp", "jecxz"}
    BY <1>4, <1>8, <1>10, <2>5 DEF Grows
  <2> QED
    BY <2>1, <2>2, <2>3, <2>4, <2>5
<1> QED
  BY <1>1, <1>3, <1>11 DEF more

\* call is known only behind o32 alone.
LEMMA PrefixedCalls ==
  ASSUME NEW i, i.name \in TakesTarget, NEW e
  PROVE  /\ \A f : i.name = "call" => EncodeMiscPrefixedInstruction(i, f, e) = NONE
         /\ \A prefix \in SizePrefixes : \A rest \in Follow[prefix] :
              EncodeFirstPrefix(prefix, rest, i, e)
                = IF prefix = "o32" /\ rest = <<>> /\ i.name = "call"
                  THEN IF Len(i.args) # 1 THEN FAIL ELSE EncodeO32Call(i.args[1], e)
                  ELSE NONE
         /\ O32A16O16(i) = NONE
<1>1. ASSUME i.name = "call", NEW f
      PROVE  EncodeMiscPrefixedInstruction(i, f, e) = NONE
  <2>1. MiscStrings(i, f) = NONE /\ MiscLoads(i, f) = NONE /\ MiscStack(i, f) = NONE /\ MiscGroups(i, f) = NONE
    BY MiscStringsSettle, MiscLoadsSettle, MiscStackSettles, MiscGroupsSettle
  <2>2. i.name \notin DOMAIN Returns /\ i.name \notin DOMAIN Loops
    BY <1>1, TargetNames
  <2>3. MiscControl(i, f, e) = NONE
    BY <1>1, <2>2 DEF MiscControl
  <2> QED
    BY <2>1, <2>3 DEF EncodeMiscPrefixedInstruction, OrElse
<1>2. \A f : /\ Adjusts(i, f) = NONE /\ TwoForced(i, f) = NONE /\ AddressTest(i, f) = NONE
             /\ A16Arith(i, f) = NONE /\ A32Arith(i, f) = NONE
  <2>1. i.name \notin DOMAIN Ariths
    BY TargetNames
  <2> QED
    BY <2>1, AdjustsSettle, TwoForcedSettles, ArithsSettle
<1>3. /\ A16Only(i) = NONE /\ A32Only(i) = NONE /\ A16ThenO32(i) = NONE /\ O32ThenA16(i) = NONE
      /\ A32ThenO32(i) = NONE /\ O32ThenA32(i) = NONE
  BY <1>2 DEF A16Only, A32Only, A16ThenO32, O32ThenA16, A32ThenO32, O32ThenA32, OrElse
<1>4. O32Only(i, e) = IF i.name = "call" THEN IF Len(i.args) # 1 THEN FAIL ELSE EncodeO32Call(i.args[1], e) ELSE NONE
  <2> DEFINE o32 == ForcePrefixes(TRUE, FALSE, FALSE, FALSE)
             call == IF Len(i.args) # 1 THEN FAIL ELSE EncodeO32Call(i.args[1], e)
  <2>1. i.name \notin DOMAIN Ariths /\ i.name \notin {"mov", "test"}
    BY TargetNames
  <2>2. O32Only(i, e) = OrElse(Adjusts(i, o32), IF i.name = "call" THEN call ELSE TwoForced(i, o32))
    BY <2>1 DEF O32Only, With1
  <2> HIDE DEF o32
  <2> QED
    BY <1>2, <2>2 DEF OrElse
<1>5. O32A16O16(i) = NONE
  <2> DEFINE no == FALSE
             yes == TRUE
             dec == With1(i.args, LAMBDA d : EncodePrefixedIncDec(d, 1, \h48, ForcePrefixes(FALSE, FALSE, TRUE, FALSE)))
  <2>1. O32A16O16(i) = OrElse(EmitPrefixedConvert(i, no, no, yes),
                       OrElse(EmitPrefixedDecimalAdjust(i, no, no), IF i.name # "dec" THEN NONE ELSE dec))
    BY DEF O32A16O16
  <2>2. i.name # "dec"
    BY DEF TakesTarget, Loops
  <2> HIDE DEF no, yes, dec
  <2>3. EmitPrefixedConvert(i, no, no, yes) = NONE /\ EmitPrefixedDecimalAdjust(i, no, no) = NONE
    BY TargetStrings
  <2> QED
    BY <2>1, <2>2, <2>3 DEF OrElse
<1>6. ASSUME NEW prefix \in SizePrefixes, NEW rest \in Follow[prefix]
      PROVE  EncodeFirstPrefix(prefix, rest, i, e)
               = IF prefix = "o32" /\ rest = <<>> /\ i.name = "call"
                 THEN IF Len(i.args) # 1 THEN FAIL ELSE EncodeO32Call(i.args[1], e)
                 ELSE NONE
  <2> DEFINE call == IF Len(i.args) # 1 THEN FAIL ELSE EncodeO32Call(i.args[1], e)
  <2>1. CASE prefix = "o16"
    <3>1. i.name \notin {"or", "sbb", "sub", "test"}
      BY DEF TakesTarget, Loops
    <3>2. ~EncodeO16Prefix(rest, i)
      BY <3>1 DEF EncodeO16Prefix
    <3> QED
      BY <2>1, <3>2 DEF EncodeFirstPrefix
  <2>2. CASE prefix = "o32"
    <3>1. rest \in {<<>>, <<"a32">>, <<"a16">>}
      BY <2>2 DEF Follow, FollowO32
    <3>2. /\ <<>> # <<"a32">> /\ <<>> # <<"a16">> /\ <<"a32">> # <<"a16">>
      OBVIOUS
    <3>3. /\ rest = <<>> => EncodeO32Prefix(rest, i, e) = O32Only(i, e)
          /\ rest = <<"a32">> => EncodeO32Prefix(rest, i, e) = O32ThenA32(i)
          /\ rest = <<"a16">> => EncodeO32Prefix(rest, i, e) = O32ThenA16(i)
      BY <3>2, Zenon DEF EncodeO32Prefix
    <3>4. EncodeFirstPrefix(prefix, rest, i, e) = EncodeO32Prefix(rest, i, e)
      BY <2>2 DEF EncodeFirstPrefix
    <3> HIDE DEF call
    <3>5. O32Only(i, e) = IF i.name = "call" THEN call ELSE NONE
      BY <1>4 DEF call
    <3>6. EncodeFirstPrefix(prefix, rest, i, e) = IF prefix = "o32" /\ rest = <<>> /\ i.name = "call" THEN call ELSE NONE
      BY <1>3, <2>2, <3>1, <3>2, <3>3, <3>4, <3>5
    <3> QED
      BY <3>6 DEF call
  <2>3. CASE prefix \in {"a16", "a32"}
    <3>1. rest \in {<<>>, <<"o16">>, <<"o32">>}
      BY <2>3 DEF Follow, FollowA16, FollowA32
    <3>2. /\ <<>> # <<"o16">> /\ <<>> # <<"o32">> /\ <<"o16">> # <<"o32">>
      OBVIOUS
    <3>3. /\ rest = <<>> => EncodeA16Prefix(rest, i) = A16Only(i) /\ EncodeA32Prefix(rest, i) = A32Only(i)
          /\ rest = <<"o16">> => EncodeA16Prefix(rest, i) = NONE /\ EncodeA32Prefix(rest, i) = NONE
          /\ rest = <<"o32">> => EncodeA16Prefix(rest, i) = A16ThenO32(i) /\ EncodeA32Prefix(rest, i) = A32ThenO32(i)
      BY <3>2, Zenon DEF EncodeA16Prefix, EncodeA32Prefix
    <3>4. EncodeFirstPrefix(prefix, rest, i, e)
            = IF prefix = "a16" THEN EncodeA16Prefix(rest, i) ELSE EncodeA32Prefix(rest, i)
      BY <2>3 DEF EncodeFirstPrefix
    <3>5. EncodeFirstPrefix(prefix, rest, i, e) = NONE
      BY <1>3, <3>1, <3>3, <3>4
    <3> QED
      BY <2>3, <3>5
  <2> QED
    BY <2>1, <2>2, <2>3 DEF SizePrefixes
<1> QED
  BY <1>1, <1>5, <1>6

\* A jump without a prefix has one encoder.
LEMMA PlainJumps ==
  ASSUME NEW i, i.name \in TakesTarget, NEW e
  PROVE  EncodePlain(i, e) = OrElse(Control(i, e), FAIL)
<1>1. /\ i.name \notin DOMAIN ZeroOperand /\ i.name \notin {"aad", "aam", "imul"}
      /\ i.name \notin DOMAIN DoubleShifts
  BY TargetNames
<1>2. OneOperand(i) = NONE
  <2>1. /\ i.name \notin {"push", "pop", "int", "not", "setcc"} /\ i.name \notin DOMAIN Steps
        /\ i.name \notin DOMAIN Unary /\ i.name \notin SystemOneOperand
    BY TargetNames
  <2> QED
    BY <2>1 DEF OneOperand
<1>3. \A d, s : TwoOperands(i, d, s) = FAIL
  <2>1. /\ i.name \notin DOMAIN FarLoads /\ i.name \notin DOMAIN FarLoads0F /\ i.name \notin DOMAIN Shifts
        /\ i.name \notin DOMAIN BitScans /\ i.name \notin DOMAIN BitTests /\ i.name \notin DOMAIN Ariths
        /\ i.name \notin {"mov", "lea", "movsx", "movzx", "bound", "arpl", "lar", "lsl", "xchg", "in",
                          "out", "esc", "test"}
    BY TargetNames
  <2>2. i.name \notin {"add", "adc", "sub", "sbb", "cmp", "and", "or", "xor"}
    BY <2>1 DEF Ariths
  <2> QED
    BY <2>1, <2>2, ZenonT(30) DEF TwoOperands
<1> DEFINE two == With2(i.args, LAMBDA d, s : TwoOperands(i, d, s))
<1>4. two = FAIL
  BY <1>3 DEF With2
<1>5. EncodePlain(i, e) = OrElse(Control(i, e), OrElse(OneOperand(i), two))
  BY <1>1 DEF EncodePlain
<1> HIDE DEF two
<1> QED
  BY <1>2, <1>4, <1>5 DEF OrElse

\* Jumps without prefixes: only a jmp of no size asks the cache.
LEMMA PlainJumpsAgree ==
  ASSUME NEW i, NEW k, Told(i, k), NEW e, InFirst(e), NEW g, InLast(g),
         i.name = "jmp" /\ i.args[1].dist = "none" => g.cached = EncodePlain(i, e).size
  PROVE  Agrees(EncodePlain(i, e), EncodePlain(k, g))
<1> DEFINE t == i.args[1]
           u == k.args[1]
           op == JccOpcodesFromName(i.cond)
           x == Loops[i.name]
           one == Len(i.args) = 1
<1>1. /\ k.name = i.name /\ k.cond = i.cond /\ i.name \in TakesTarget
      /\ Len(k.args) = Len(i.args) /\ (one => Retold(t, u))
  BY DEF Told
<1>2. /\ i.name \notin DOMAIN Returns /\ i.name # "enter"
      /\ i.name \in DOMAIN Loops => i.name \notin {"jmp", "call", "jcc", "jecxz"}
  BY <1>1, TargetNames
<1>3. Control(i, e)
        = CASE i.name = "jmp" -> IF ~one THEN FAIL ELSE EncodeJmp(t, e)
            [] i.name = "call" -> IF ~one THEN FAIL ELSE EncodeCall(t, e)
            [] i.name \in DOMAIN Loops -> IF ~one THEN FAIL ELSE EncodeRel8Control(t, x, e)
            [] i.name = "jecxz" -> IF ~one THEN FAIL ELSE EncodeJecxz(t, e)
            [] i.name = "jcc" -> IF ~one THEN FAIL ELSE EncodeConditionalJump(t, op.short, op.near, e)
            [] OTHER -> NONE
  BY <1>2 DEF Control, With1
<1>4. Control(k, g)
        = CASE i.name = "jmp" -> IF ~one THEN FAIL ELSE EncodeJmp(u, g)
            [] i.name = "call" -> IF ~one THEN FAIL ELSE EncodeCall(u, g)
            [] i.name \in DOMAIN Loops -> IF ~one THEN FAIL ELSE EncodeRel8Control(u, x, g)
            [] i.name = "jecxz" -> IF ~one THEN FAIL ELSE EncodeJecxz(u, g)
            [] i.name = "jcc" -> IF ~one THEN FAIL ELSE EncodeConditionalJump(u, op.short, op.near, g)
            [] OTHER -> NONE
  BY <1>1, <1>2 DEF Control, With1
<1>5. one => /\ \A y : Agrees(EncodeRel8Control(t, y, e), EncodeRel8Control(u, y, g))
             /\ Agrees(EncodeJecxz(t, e), EncodeJecxz(u, g))
             /\ \A y, z : Agrees(EncodeConditionalJump(t, y, z, e), EncodeConditionalJump(u, y, z, g))
  <2> SUFFICES ASSUME one
               PROVE  /\ \A y : Agrees(EncodeRel8Control(t, y, e), EncodeRel8Control(u, y, g))
                      /\ Agrees(EncodeJecxz(t, e), EncodeJecxz(u, g))
                      /\ \A y, z : Agrees(EncodeConditionalJump(t, y, z, e), EncodeConditionalJump(u, y, z, g))
    OBVIOUS
  <2>1. t.dist \in {"none", "short", "near", "far"} /\ u.dist = t.dist
    BY <1>1 DEF Retold
  <2> DEFINE n == IF t.dist = "near" THEN 4 ELSE 2
  <2>2. n = IF u.dist = "near" THEN 4 ELSE 2
    BY <2>1
  <2> HIDE DEF t, u, op
  <2>3. /\ \A y : Says(EncodeRel8Control(t, y, e), 2) /\ Says(EncodeRel8Control(u, y, g), 2)
        /\ Says(EncodeJecxz(t, e), 3) /\ Says(EncodeJecxz(u, g), 3)
    BY <2>1, JumpsSay
  <2>4. /\ \A y, z : Says(EncodeConditionalJump(t, y, z, e), IF t.dist = "near" THEN 4 ELSE 2)
        /\ \A y, z : Says(EncodeConditionalJump(u, y, z, g), IF u.dist = "near" THEN 4 ELSE 2)
    BY <2>1, JumpsSay
  <2>5. /\ \A y, z : Says(EncodeConditionalJump(t, y, z, e), n)
        /\ \A y, z : Says(EncodeConditionalJump(u, y, z, g), n)
    BY <2>2, <2>4
  <2> HIDE DEF n
  <2> QED
    BY <2>3, <2>5, Agreeing
<1>6. one /\ i.name = "call" => Agrees(EncodeCall(t, e), EncodeCall(u, g))
  <2>1. one => Retold(t, u)
    BY <1>1
  <2> HIDE DEF t, u
  <2> QED
    BY <2>1, JumpsAgree
<1>7. EncodePlain(i, e) = OrElse(Control(i, e), FAIL) /\ EncodePlain(k, g) = OrElse(Control(k, g), FAIL)
  BY <1>1, PlainJumps
<1>8. one /\ i.name = "jmp" => Agrees(EncodeJmp(t, e), EncodeJmp(u, g))
  <2> SUFFICES ASSUME one, i.name = "jmp"
               PROVE  Agrees(EncodeJmp(t, e), EncodeJmp(u, g))
    OBVIOUS
  <2>0. Control(i, e) = EncodeJmp(t, e)
    <3>1. i.name \notin DOMAIN Loops
      BY <1>2
    <3> HIDE DEF t, u, op, x, one
    <3> QED
      BY <1>3, <3>1
  <2>1. EncodePlain(i, e) = OrElse(EncodeJmp(t, e), FAIL)
    BY <1>7, <2>0
  <2>2. Retold(t, u) /\ (t.dist = "none" => g.cached = EncodePlain(i, e).size)
    BY <1>1
  <2> HIDE DEF t, u, one
  <2>3. t.o.kind = "IMM" /\ t.dist = "none" => EncodeJmp(t, e).size \in {2, 3}
    BY <2>2, JumpsAgree
  <2>4. t.o.kind = "IMM" /\ t.dist = "none" => EncodePlain(i, e) = EncodeJmp(t, e)
    BY <2>1, <2>3 DEF OrElse, NONE, Out
  <2>5. t.o.kind = "IMM" /\ t.dist = "none" => g.cached = EncodeJmp(t, e).size
    BY <2>2, <2>4
  <2> QED
    BY <2>2, <2>5, JumpsAgree
<1> HIDE DEF t, u, op, x, one
<1>9. Agrees(Control(i, e), Control(k, g))
  <2>1. CASE i.name \in DOMAIN Loops
    <3>1. i.name \notin {"jmp", "call", "jcc", "jecxz"}
      BY <1>2, <2>1
    <3> QED
      BY <1>3, <1>4, <1>5, <2>1, <3>1, Agreeing
  <2>2. CASE i.name \in {"jmp", "call", "jecxz", "jcc"}
    <3>1. i.name \notin DOMAIN Loops
      BY <1>2, <2>2
    <3>2. CASE i.name = "jmp"
      BY <1>3, <1>4, <1>8, <3>1, <3>2, Agreeing
    <3>3. CASE i.name = "call"
      BY <1>3, <1>4, <1>6, <3>1, <3>3, Agreeing
    <3>4. CASE i.name = "jecxz"
      BY <1>3, <1>4, <1>5, <3>1, <3>4, Agreeing
    <3>5. CASE i.name = "jcc"
      <4>1. one => Agrees(EncodeConditionalJump(t, op.short, op.near, e), EncodeConditionalJump(u, op.short, op.near, g))
        BY <1>5
      <4> QED
        BY <1>3, <1>4, <3>1, <3>5, <4>1, Agreeing
    <3> QED
      BY <2>2, <3>2, <3>3, <3>4, <3>5
  <2> QED
    BY <1>1, <2>1, <2>2 DEF TakesTarget
<1> QED
  BY <1>7, <1>9, AskedLast

\* What the prefixes force is four booleans.
LEMMA ForcesType ==
  ASSUME NEW prefixes
  PROVE  Forces(prefixes) \in [o32 : BOOLEAN, o16 : BOOLEAN, a16 : BOOLEAN, a32 : BOOLEAN]
  BY DEF Forces, ForcePrefixes

\* A jump behind what neither locks nor repeats.
LEMMA SizedJumpsGrow ==
  ASSUME NEW prefixes, prefixes = <<>> \/ Head(prefixes) \in SizePrefixes,
         NEW i, NEW k, Told(i, k), NEW e, InFirst(e), NEW g, InLast(g),
         prefixes = <<>> /\ i.name = "jmp" /\ i.args[1].dist = "none" => g.cached = EncodePlain(i, e).size
  PROVE  Grows(EncodeSized(prefixes, i, e), EncodeSized(prefixes, k, g), prefixes # <<>> /\ Unseen(i, Forces(prefixes)))
<1> DEFINE follows == prefixes # <<>> /\ Tail(prefixes) \in Follow[Head(prefixes)]
           misc(j, x) == EncodeMiscPrefixedInstruction(j, Forces(prefixes), x)
           lead(j, x) == EncodeFirstPrefix(Head(prefixes), Tail(prefixes), j, x)
           other(j, x) == OrElse(misc(j, x), OrElse(lead(j, x), FAIL))
           more == prefixes # <<>> /\ Unseen(i, Forces(prefixes))
<1>1. i.name \in TakesTarget /\ k.name = i.name /\ Len(k.args) = Len(i.args)
  BY DEF Told
<1>2. ASSUME NEW j, j.name = i.name, NEW x
      PROVE  EncodeSized(prefixes, j, x)
               = IF prefixes = <<>> THEN EncodePlain(j, x) ELSE IF follows THEN other(j, x) ELSE FAIL
  <2>1. EncodeSized(prefixes, j, x)
          = CASE prefixes = <<>> -> EncodePlain(j, x)
              [] prefixes = <<"o32", "a16", "o16">> -> OrElse(O32A16O16(j), FAIL)
              [] follows -> other(j, x)
              [] OTHER -> FAIL
    BY DEF EncodeSized
  <2>2. OrElse(O32A16O16(j), FAIL) = FAIL
    BY <1>1, <1>2, PrefixedCalls DEF OrElse
  <2>3. prefixes = <<"o32", "a16", "o16">> => ~follows /\ prefixes # <<>>
    BY DEF Follow, FollowO32
  <2> HIDE DEF follows, other
  <2>4. CASE prefixes = <<>>
    <3>1. prefixes # <<"o32", "a16", "o16">> /\ ~follows
      BY <2>4 DEF follows
    <3> QED
      BY <2>1, <2>4, <3>1
  <2>5. CASE prefixes # <<>>
    BY <2>1, <2>2, <2>3, <2>5
  <2> QED
    BY <2>4, <2>5
<1>3. prefixes = <<>> => Grows(EncodePlain(i, e), EncodePlain(k, g), more)
  <2>1. prefixes = <<>> => Agrees(EncodePlain(i, e), EncodePlain(k, g)) /\ ~more
    BY PlainJumpsAgree
  <2> HIDE DEF more
  <2> QED
    BY <2>1 DEF Grows
<1>4. follows => Grows(other(i, e), other(k, g), more)
  <2> SUFFICES ASSUME follows
               PROVE  Grows(other(i, e), other(k, g), more)
    OBVIOUS
  <2> DEFINE f == Forces(prefixes)
  <2>1. Grows(misc(i, e), misc(k, g), more)
    <3>1. f \in [o32 : BOOLEAN, o16 : BOOLEAN, a16 : BOOLEAN, a32 : BOOLEAN]
      BY ForcesType
    <3>2. misc(i, e) = EncodeMiscPrefixedInstruction(i, f, e) /\ misc(k, g) = EncodeMiscPrefixedInstruction(k, f, g)
      OBVIOUS
    <3>3. more <=> Unseen(i, f)
      OBVIOUS
    <3> HIDE DEF f, misc, more
    <3>4. Grows(EncodeMiscPrefixedInstruction(i, f, e), EncodeMiscPrefixedInstruction(k, f, g), Unseen(i, f))
      BY <3>1, MiscJumpsGrow
    <3> QED
      BY <3>2, <3>3, <3>4 DEF Grows
  <2> DEFINE call(j, x) == IF Len(i.args) # 1 THEN FAIL ELSE EncodeO32Call(j.args[1], x)
             alone == Head(prefixes) = "o32" /\ Tail(prefixes) = <<>> /\ i.name = "call"
  <2>2. lead(i, e) = (IF alone THEN call(i, e) ELSE NONE) /\ lead(k, g) = (IF alone THEN call(k, g) ELSE NONE)
    <3> DEFINE prefix == Head(prefixes)
               rest == Tail(prefixes)
    <3>1. prefix \in SizePrefixes /\ rest \in Follow[prefix]
      OBVIOUS
    <3>2. /\ lead(i, e) = EncodeFirstPrefix(prefix, rest, i, e) /\ lead(k, g) = EncodeFirstPrefix(prefix, rest, k, g)
          /\ alone <=> prefix = "o32" /\ rest = <<>> /\ i.name = "call"
      OBVIOUS
    <3> HIDE DEF prefix, rest, lead, alone
    <3>3. /\ EncodeFirstPrefix(prefix, rest, i, e) = IF alone THEN call(i, e) ELSE NONE
          /\ EncodeFirstPrefix(prefix, rest, k, g) = IF alone THEN call(k, g) ELSE NONE
      BY <1>1, <3>1, <3>2, PrefixedCalls
    <3> QED
      BY <3>2, <3>3
  <2>3. Agrees(call(i, e), call(k, g))
    <3> DEFINE t == i.args[1]
               u == k.args[1]
    <3>1. Len(i.args) = 1 => Retold(t, u)
      BY DEF Told
    <3>2. Len(i.args) = 1 => t.dist \in {"none", "short", "near", "far"} /\ u.dist \in {"none", "short", "near", "far"}
      BY <3>1 DEF Retold
    <3> HIDE DEF t, u
    <3>3. Len(i.args) = 1 => Says(EncodeO32Call(t, e), 6) /\ Says(EncodeO32Call(u, g), 6)
      BY <3>2, JumpsSay
    <3>4. Len(i.args) = 1 => Agrees(EncodeO32Call(t, e), EncodeO32Call(u, g))
      BY <3>3, Agreeing
    <3> QED
      BY <3>4, Agreeing DEF t, u
  <2>4. i.name = "call" => misc(i, e) = NONE /\ misc(k, g) = NONE /\ ~more
    BY <1>1, PrefixedCalls DEF Unseen
  <2> HIDE DEF misc, lead, call, alone, more
  <2>5. CASE i.name = "call"
    <3>1. Agrees(lead(i, e), lead(k, g))
      BY <2>2, <2>3, Agreeing
    <3>2. other(i, e) = OrElse(lead(i, e), FAIL) /\ other(k, g) = OrElse(lead(k, g), FAIL)
      BY <2>4, <2>5 DEF OrElse
    <3>3. Agrees(OrElse(lead(i, e), FAIL), OrElse(lead(k, g), FAIL))
      BY <3>1, AskedLast
    <3> QED
      BY <2>4, <2>5, <3>2, <3>3 DEF Grows
  <2>6. CASE i.name # "call"
    <3>1. ~alone
      BY <2>6 DEF alone
    <3>2. other(i, e) = OrElse(misc(i, e), FAIL) /\ other(k, g) = OrElse(misc(k, g), FAIL)
      BY <2>2, <3>1 DEF OrElse
    <3>3. \A a, b : Longer(a, b) => Longer(OrElse(a, FAIL), OrElse(b, FAIL))
      BY DEF Longer, OrElse, NONE, FAIL, Out
    <3>4. Grows(OrElse(misc(i, e), FAIL), OrElse(misc(k, g), FAIL), more)
      BY <2>1, <3>3, AskedLast DEF Grows
    <3> QED
      BY <3>2, <3>4
  <2> QED
    BY <2>5, <2>6
<1>5. EncodeSized(prefixes, i, e) = IF prefixes = <<>> THEN EncodePlain(i, e) ELSE IF follows THEN other(i, e) ELSE FAIL
  BY <1>2
<1>6. EncodeSized(prefixes, k, g) = IF prefixes = <<>> THEN EncodePlain(k, g) ELSE IF follows THEN other(k, g) ELSE FAIL
  BY <1>1, <1>2
<1> HIDE DEF follows, other, more
<1>7. Grows(EncodeSized(prefixes, i, e), EncodeSized(prefixes, k, g), more)
  BY <1>3, <1>4, <1>5, <1>6, Growing
<1> QED
  BY <1>7 DEF more

\* A jump takes one target.
LEMMA LonelyJumps ==
  ASSUME NEW prefixes, prefixes \in Seq(SizePrefixes \cup {"lock"} \cup DOMAIN Repeats),
         NEW i, i.name \in TakesTarget, Len(i.args) # 1, NEW e
  PROVE  Exec(prefixes, i, e) = FAIL
<1> DEFINE guard == GuardOf(prefixes)
           rest == RestOf(prefixes)
<1>1. i.name \notin DOMAIN Returns /\ i.name # "enter"
  BY TargetNames
<1>2. Control(i, e) = FAIL /\ (i.name # "call" => \A f : MiscControl(i, f, e) = FAIL)
      /\ (i.name = "call" => \A f : MiscControl(i, f, e) = NONE)
  <2>1. Control(i, e) = FAIL
    <3>1. i.name \in DOMAIN Loops \/ i.name \in {"jmp", "call", "jcc", "jecxz"}
      BY DEF TakesTarget
    <3> QED
      BY <1>1, <3>1 DEF Control, With1
  <2>2. i.name # "call" => \A f : MiscControl(i, f, e) = FAIL
    <3>1. i.name # "call" => i.name \in DOMAIN Loops \/ i.name \in {"jmp", "jcc", "jecxz"}
      BY DEF TakesTarget
    <3> QED
      BY <1>1, <3>1 DEF MiscControl, With1
  <2>3. i.name = "call" => \A f : MiscControl(i, f, e) = NONE
    <3>1. i.name = "call" => i.name \notin DOMAIN Loops
      BY DEF Loops
    <3> QED
      BY <1>1, <3>1 DEF MiscControl
  <2> QED
    BY <2>1, <2>2, <2>3
<1>3. EncodePlain(i, e) = FAIL
  BY <1>2, PlainJumps DEF OrElse, FAIL, NONE, Out
<1>4. ASSUME NEW f
      PROVE  EncodeMiscPrefixedInstruction(i, f, e) = IF i.name = "call" THEN NONE ELSE FAIL
  <2>1. MiscStrings(i, f) = NONE /\ MiscLoads(i, f) = NONE /\ MiscStack(i, f) = NONE /\ MiscGroups(i, f) = NONE
    BY MiscStringsSettle, MiscLoadsSettle, MiscStackSettles, MiscGroupsSettle
  <2> QED
    BY <1>2, <2>1 DEF EncodeMiscPrefixedInstruction, OrElse, FAIL, NONE, Out
<1>5. ASSUME NEW prefix \in SizePrefixes, NEW tail \in Follow[prefix]
      PROVE  EncodeFirstPrefix(prefix, tail, i, e) \in {FAIL, NONE}
  BY PrefixedCalls, Zenon
<1>6. rest = <<>> \/ Head(rest) \in SizePrefixes => EncodeSized(rest, i, e) = FAIL
  <2> DEFINE misc == EncodeMiscPrefixedInstruction(i, Forces(rest), e)
             sized == EncodeFirstPrefix(Head(rest), Tail(rest), i, e)
             follows == rest # <<>> /\ Tail(rest) \in Follow[Head(rest)]
  <2>1. misc \in {NONE, FAIL}
    BY <1>4
  <2>2. (rest # <<>> /\ Head(rest) \in SizePrefixes /\ follows) => sized \in {FAIL, NONE}
    BY <1>5
  <2>3. EncodeSized(rest, i, e)
          = CASE rest = <<>> -> EncodePlain(i, e)
              [] rest = <<"o32", "a16", "o16">> -> OrElse(O32A16O16(i), FAIL)
              [] follows -> OrElse(misc, OrElse(sized, FAIL))
              [] OTHER -> FAIL
    BY DEF EncodeSized
  <2>4. OrElse(O32A16O16(i), FAIL) = FAIL
    BY PrefixedCalls DEF OrElse
  <2>5. (rest # <<>> /\ Head(rest) \in SizePrefixes /\ follows) => OrElse(misc, OrElse(sized, FAIL)) = FAIL
    <3> HIDE DEF misc, sized, follows, rest
    <3> QED
      BY <2>1, <2>2 DEF OrElse, FAIL, NONE, Out
  <2>6. follows => rest # <<>>
    OBVIOUS
  <2> DEFINE three == rest = <<"o32", "a16", "o16">>
  <2>7. EncodeSized(rest, i, e)
          = CASE rest = <<>> -> EncodePlain(i, e)
              [] three -> OrElse(O32A16O16(i), FAIL)
              [] follows -> OrElse(misc, OrElse(sized, FAIL))
              [] OTHER -> FAIL
    BY <2>3
  <2>8. three => rest # <<>>
    OBVIOUS
  <2> HIDE DEF misc, sized, follows, three, rest
  <2> QED
    BY <1>3, <2>4, <2>5, <2>6, <2>7, <2>8
<1>7. Exec(prefixes, i, e) = IF Refused(prefixes, i) THEN FAIL ELSE Behind(guard, EncodeSized(rest, i, e))
  BY ExecParts
<1>8. ~Refused(prefixes, i) => rest = <<>> \/ Head(rest) \in SizePrefixes
  BY ExecParts
<1> HIDE DEF guard, rest
<1> QED
  BY <1>6, <1>7, <1>8 DEF Behind, FAIL, Out

\* _86_exec, of a jump.
LEMMA ExecJumpsGrow ==
  ASSUME NEW prefixes, prefixes \in Seq(SizePrefixes \cup {"lock"} \cup DOMAIN Repeats),
         NEW i, IsInstruction(i), NEW k, Told(i, k), NEW e, IsPlace(e), InFirst(e), NEW g, InLast(g),
         ~(Exec(prefixes, i, e).size < 0),
         prefixes = <<>> /\ i.name = "jmp" /\ i.args[1].dist = "none" => g.cached = Exec(prefixes, i, e).size
  PROVE  IF prefixes # <<>> /\ Unseen(i, Forces(prefixes))
         THEN Longer(Exec(prefixes, i, e), Exec(prefixes, k, g))
         ELSE Agrees(Exec(prefixes, i, e), Exec(prefixes, k, g))
<1> DEFINE more == prefixes # <<>> /\ Unseen(i, Forces(prefixes))
           a == EncodeSized(prefixes, i, e)
           b == EncodeSized(prefixes, k, g)
           x == Exec(prefixes, i, e)
           y == Exec(prefixes, k, g)
<1>1. i.name \in TakesTarget /\ k.name = i.name
  BY DEF Told
<1>2. x = Behind(<<>>, a) /\ (prefixes = <<>> \/ Head(prefixes) \in SizePrefixes)
  <2>1. /\ x = IF Refused(prefixes, i) THEN FAIL ELSE Behind(GuardOf(prefixes), EncodeSized(RestOf(prefixes), i, e))
        /\ ~Refused(prefixes, i) => RestOf(prefixes) = <<>> \/ Head(RestOf(prefixes)) \in SizePrefixes
        /\ ~Refused(prefixes, i) => GuardOf(prefixes) = <<>> /\ RestOf(prefixes) = prefixes
    BY <1>1, ExecParts
  <2>2. ~Refused(prefixes, i)
    BY <2>1 DEF FAIL, Out
  <2> HIDE DEF x
  <2>3. GuardOf(prefixes) = <<>> /\ RestOf(prefixes) = prefixes
    BY <2>1, <2>2
  <2>4. x = Behind(GuardOf(prefixes), EncodeSized(RestOf(prefixes), i, e))
    BY <2>1, <2>2
  <2>5. RestOf(prefixes) = <<>> \/ Head(RestOf(prefixes)) \in SizePrefixes
    BY <2>1, <2>2
  <2> QED
    BY <2>3, <2>4, <2>5
<1>3. y = FAIL \/ y = Behind(<<>>, b)
  <2>1. /\ y = IF Refused(prefixes, k) THEN FAIL ELSE Behind(GuardOf(prefixes), EncodeSized(RestOf(prefixes), k, g))
        /\ ~Refused(prefixes, k) => GuardOf(prefixes) = <<>> /\ RestOf(prefixes) = prefixes
    BY <1>1, ExecParts
  <2>2. CASE Refused(prefixes, k)
    BY <2>1, <2>2
  <2>3. CASE ~Refused(prefixes, k)
    <3>1. y = Behind(GuardOf(prefixes), EncodeSized(RestOf(prefixes), k, g))
      BY <2>1, <2>3
    <3>2. GuardOf(prefixes) = <<>> /\ RestOf(prefixes) = prefixes
      BY <2>1, <2>3
    <3> QED
      BY <3>1, <3>2
  <2> QED
    BY <2>2, <2>3
<1>4. a.size \in Int
  BY <1>2, SizedFits DEF Fits
<1>5. \A c : Behind(<<>>, c).size = IF c.size < 0 THEN FAIL.size ELSE c.size + 0
  BY DEF Behind, Out
<1>6. ~(a.size < 0) /\ x.size = a.size
  <2>1. x.size = IF a.size < 0 THEN FAIL.size ELSE a.size + 0
    BY <1>2, <1>5
  <2>2. ~(x.size < 0)
    OBVIOUS
  <2> HIDE DEF a, x
  <2> QED
    BY <1>4, <2>1, <2>2 DEF FAIL, Out
<1>7. Grows(a, b, more)
  <2>1. prefixes = <<>> /\ i.name = "jmp" /\ i.args[1].dist = "none" => g.cached = EncodePlain(i, e).size
    <3>1. prefixes = <<>> => a = EncodePlain(i, e)
      BY DEF EncodeSized
    <3>2. prefixes = <<>> /\ i.name = "jmp" /\ i.args[1].dist = "none" => g.cached = x.size
      OBVIOUS
    <3> HIDE DEF a, x
    <3> QED
      BY <1>6, <3>1, <3>2
  <2> QED
    BY <1>2, <2>1, SizedJumpsGrow
<1> HIDE DEF more, a, b, x, y
<1>8. IF more THEN Longer(x, y) ELSE Agrees(x, y)
  <2>1. y.size < 0 \/ (y.size = b.size + 0 /\ ~(b.size < 0))
    <3>1. FAIL.size < 0
      BY DEF FAIL, Out
    <3>2. y = Behind(<<>>, b) => y.size = IF b.size < 0 THEN FAIL.size ELSE b.size + 0
      BY <1>5
    <3> QED
      BY <1>3, <3>1, <3>2
  <2>2. CASE more
    <3>1. b.size < 0 \/ b.size = a.size + 1
      BY <1>6, <1>7, <2>2 DEF Grows, Longer
    <3> QED
      BY <1>4, <1>6, <2>1, <2>2, <3>1 DEF Longer
  <2>3. CASE ~more
    <3>1. b.size < 0 \/ b.size = a.size
      BY <1>6, <1>7, <2>3 DEF Grows, Agrees
    <3> QED
      BY <1>4, <1>6, <2>1, <2>3, <3>1 DEF Agrees
  <2> QED
    BY <2>2, <2>3
<1> QED
  BY <1>8 DEF more, x, y

----------------------------------------------------------------------------
(* Prefixes                                                                *)

\* The prefixes of a jump that is encoded.
LEMMA JumpsFollow ==
  ASSUME NEW prefixes, prefixes \in Seq(SizePrefixes \cup {"lock"} \cup DOMAIN Repeats),
         NEW i, i.name \in TakesTarget, NEW e, ~(Exec(prefixes, i, e).size < 0)
  PROVE  prefixes = <<>> \/ (Head(prefixes) \in SizePrefixes /\ Tail(prefixes) \in Follow[Head(prefixes)])
<1> DEFINE follows == prefixes # <<>> /\ Tail(prefixes) \in Follow[Head(prefixes)]
           three == prefixes = <<"o32", "a16", "o16">>
           other == OrElse(EncodeMiscPrefixedInstruction(i, Forces(prefixes), e),
                           OrElse(EncodeFirstPrefix(Head(prefixes), Tail(prefixes), i, e), FAIL))
<1>1. /\ Exec(prefixes, i, e)
           = IF Refused(prefixes, i) THEN FAIL ELSE Behind(GuardOf(prefixes), EncodeSized(RestOf(prefixes), i, e))
      /\ ~Refused(prefixes, i) => RestOf(prefixes) = <<>> \/ Head(RestOf(prefixes)) \in SizePrefixes
      /\ ~Refused(prefixes, i) => RestOf(prefixes) = prefixes
  BY ExecParts
<1>2. ~Refused(prefixes, i)
  BY <1>1 DEF FAIL, Out
<1>3. RestOf(prefixes) = prefixes /\ (prefixes = <<>> \/ Head(prefixes) \in SizePrefixes)
  BY <1>1, <1>2
<1>4. ~(EncodeSized(prefixes, i, e).size < 0)
  BY <1>1, <1>2, <1>3 DEF Behind, FAIL, Out
<1>5. EncodeSized(prefixes, i, e)
        = CASE prefixes = <<>> -> EncodePlain(i, e)
            [] three -> OrElse(O32A16O16(i), FAIL)
            [] follows -> other
            [] OTHER -> FAIL
  BY DEF EncodeSized
<1>6. OrElse(O32A16O16(i), FAIL) = FAIL
  BY PrefixedCalls DEF OrElse
<1>7. three => ~follows /\ prefixes # <<>>
  BY DEF Follow, FollowO32
<1>8. prefixes = <<>> \/ follows
  <2> HIDE DEF follows, three, other
  <2>1. CASE prefixes # <<>> /\ ~follows
    <3>1. EncodeSized(prefixes, i, e) = FAIL
      BY <1>5, <1>6, <1>7, <2>1
    <3> QED
      BY <1>4, <3>1 DEF FAIL, Out
  <2> QED
    BY <2>1
<1> QED
  BY <1>3, <1>8

\* Of the lists of prefixes that are encoded, the prefixes the encoders are forced by
\* are those a reader of the statement sees.
LEMMA AskedIsForced ==
  ASSUME stmt.prefixes \in Seq(SizePrefixes \cup {"lock"} \cup DOMAIN Repeats)
  PROVE  /\ stmt.prefixes = <<>> => ~Asked.o32
         /\ stmt.prefixes # <<>> /\ Head(stmt.prefixes) \in SizePrefixes
            /\ Tail(stmt.prefixes) \in Follow[Head(stmt.prefixes)]
              => /\ Forces(stmt.prefixes).o32 <=> Asked.o32
                 /\ Forces(stmt.prefixes).a16 <=> Asked.a16
                 /\ Forces(stmt.prefixes).a32 <=> Asked.a32
<1> DEFINE p == stmt.prefixes
<1>1. /\ Asked.o32 <=> \E n \in DOMAIN p : p[n] = "o32" /\ \A k \in n..Len(p) : p[k] # "o16"
      /\ Asked.a16 <=> \E n \in DOMAIN p : p[n] = "a16"
      /\ Asked.a32 <=> \E n \in DOMAIN p : p[n] = "a32"
  BY DEF Asked, LastOf, Has
<1>2. /\ Forces(p).o32 <=> \E n \in DOMAIN p : p[n] = "o32"
      /\ Forces(p).a16 <=> \E n \in DOMAIN p : p[n] = "a16"
      /\ Forces(p).a32 <=> \E n \in DOMAIN p : p[n] = "a32"
  BY DEF Forces, ForcePrefixes
<1>3. p \in Seq(SizePrefixes \cup {"lock"} \cup DOMAIN Repeats)
  OBVIOUS
<1> HIDE DEF p
<1>4. p = <<>> => ~Asked.o32
  BY <1>1
<1>5. ASSUME p # <<>>, Head(p) \in SizePrefixes, Tail(p) \in Follow[Head(p)]
      PROVE  Forces(p).o32 <=> Asked.o32
  <2>0. \A t \in Follow[Head(p)] :
          /\ Len(t) <= 1
          /\ Head(p) = "o32" => \A n \in DOMAIN t : t[n] # "o16"
    <3>1. /\ Follow["o32"] = FollowO32 /\ Follow["o16"] = FollowO16
          /\ Follow["a32"] = FollowA32 /\ Follow["a16"] = FollowA16
      BY DEF Follow
    <3>2. \A x : Len(<<>>) <= 1 /\ Len(<<x>>) <= 1 /\ \A n \in DOMAIN <<x>> : <<x>>[n] = x
      OBVIOUS
    <3>3. /\ \A t \in FollowO32 : Len(t) <= 1 /\ \A n \in DOMAIN t : t[n] # "o16"
          /\ \A t \in FollowO16 \cup FollowA16 \cup FollowA32 : Len(t) <= 1
      <4>1. FollowO32 = {<<>>, <<"a32">>, <<"a16">>}
        BY DEF FollowO32
      <4>2. DOMAIN <<>> = {} /\ "a32" # "o16" /\ "a16" # "o16"
        OBVIOUS
      <4>3. \A t \in FollowO32 : Len(t) <= 1 /\ \A n \in DOMAIN t : t[n] # "o16"
        BY <3>2, <4>1, <4>2
      <4> QED
        BY <3>2, <4>3 DEF FollowO16, FollowA16, FollowA32
    <3>4. Head(p) = "o32" \/ Follow[Head(p)] \in {FollowO16, FollowA16, FollowA32}
      BY <1>5, <3>1 DEF SizePrefixes
    <3> QED
      BY <3>1, <3>3, <3>4
  <2>1. /\ p[1] = Head(p) /\ Len(p) \in Nat \ {0} /\ DOMAIN p = 1..Len(p)
        /\ Len(Tail(p)) = Len(p) - 1 /\ DOMAIN Tail(p) = 1..(Len(p) - 1)
        /\ \A n \in 1..(Len(p) - 1) : Tail(p)[n] = p[n + 1]
    <3>1. \E n \in Nat : p \in [1..n -> SizePrefixes \cup {"lock"} \cup DOMAIN Repeats]
      BY <1>3
    <3>2. /\ p[1] = Head(p) /\ Len(p) \in Nat \ {0} /\ DOMAIN p = 1..Len(p)
      BY <1>3, <1>5
    <3>3. Tail(p) \in Seq(SizePrefixes \cup {"lock"} \cup DOMAIN Repeats) /\ Len(Tail(p)) = Len(p) - 1
      BY <1>3, <1>5
    <3>4. DOMAIN Tail(p) = 1..(Len(p) - 1)
      BY <3>3
    <3>5. \A n \in 1..(Len(p) - 1) : Tail(p)[n] = p[n + 1]
      BY <1>3, <1>5, <3>2, <3>3
    <3> QED
      BY <3>2, <3>3, <3>4, <3>5
  <2>2. \A n \in DOMAIN p : p[n] = "o16" => \A k \in 1..(n - 1) : p[k] # "o32"
    <3>1. CASE Head(p) = "o32"
      <4>2. \A n \in 1..(Len(p) - 1) : p[n + 1] # "o16"
        <5>1. \A n \in DOMAIN Tail(p) : Tail(p)[n] # "o16"
          BY <1>5, <2>0, <3>1
        <5> QED
          BY <2>1, <5>1
      <4>3. \A n \in DOMAIN p : p[n] # "o16"
        <5> SUFFICES ASSUME NEW n \in 1..Len(p)
                     PROVE  p[n] # "o16"
          BY <2>1
        <5>1. CASE n = 1
          BY <2>1, <3>1, <5>1
        <5>2. CASE n # 1
          <6>1. n - 1 \in 1..(Len(p) - 1) /\ (n - 1) + 1 = n
            BY <2>1, <5>2
          <6> QED
            BY <4>2, <6>1
        <5> QED
          BY <5>1, <5>2
      <4> QED
        BY <4>3
    <3>2. CASE Head(p) # "o32"
      <4>1. Len(p) <= 2
        <5>1. Len(Tail(p)) <= 1
          BY <1>5, <2>0
        <5> QED
          BY <2>1, <5>1
      <4>2. \A n \in DOMAIN p : \A k \in 1..(n - 1) : k = 1
        BY <2>1, <4>1
      <4> QED
        BY <2>1, <3>2, <4>2
    <3> QED
      BY <3>1, <3>2
  <2>3. ASSUME NEW n \in DOMAIN p, p[n] = "o32"
        PROVE  \A k \in n..Len(p) : p[k] # "o16"
    <3>1. \A k \in n..Len(p) : k \in DOMAIN p /\ (k # n => n \in 1..(k - 1))
      BY <2>1
    <3> QED
      BY <2>2, <2>3, <3>1
  <2> QED
    BY <1>1, <1>2, <2>3
<1> QED
  BY <1>1, <1>2, <1>4, <1>5 DEF p

\* An operand prefix and an address prefix are encoded alike in either order.
LEMMA OrdersAlike ==
  ASSUME NEW o \in {"o16", "o32"}, NEW a \in {"a16", "a32"}, NEW i, NEW e
  PROVE  Exec(<<o, a>>, i, e) = Exec(<<a, o>>, i, e)
<1>1. Forces(<<o, a>>) = Forces(<<a, o>>)
  <2>1. \A x, y, p : (\E n \in DOMAIN <<x, y>> : <<x, y>>[n] = p) <=> (x = p \/ y = p)
    OBVIOUS
  <2>2. \A p : (\E n \in DOMAIN <<o, a>> : <<o, a>>[n] = p) <=> (\E n \in DOMAIN <<a, o>> : <<a, o>>[n] = p)
    BY <2>1
  <2> DEFINE x == <<o, a>>
             y == <<a, o>>
  <2>3. \A p : (\E n \in DOMAIN x : x[n] = p) <=> (\E n \in DOMAIN y : y[n] = p)
    BY <2>2
  <2> HIDE DEF x, y
  <2>4. Forces(x) = Forces(y)
    BY <2>3 DEF Forces, ForcePrefixes
  <2> QED
    BY <2>4 DEF x, y
<1>2. /\ <<a>> \in Follow[o] /\ <<o>> \in Follow[a]
      /\ o \in SizePrefixes /\ a \in SizePrefixes
  BY DEF Follow, FollowO16, FollowO32, FollowA16, FollowA32, SizePrefixes
<1>3. EncodeFirstPrefix(o, <<a>>, i, e) = EncodeFirstPrefix(a, <<o>>, i, e)
  <2>1. /\ <<a>> # <<>> /\ <<o>> # <<>> /\ <<"a16">> # <<"a32">> /\ <<"o16">> # <<"o32">>
    OBVIOUS
  <2>2. CASE o = "o16"
    <3>1. EncodeFirstPrefix(o, <<a>>, i, e) = NONE
      BY <2>1, <2>2 DEF EncodeFirstPrefix, EncodeO16Prefix
    <3>2. EncodeA16Prefix(<<"o16">>, i) = NONE /\ EncodeA32Prefix(<<"o16">>, i) = NONE
      <4>1. <<"o16">> # <<>> /\ <<"o16">> # <<"o32">>
        OBVIOUS
      <4> QED
        BY <4>1, Zenon DEF EncodeA16Prefix, EncodeA32Prefix
    <3>3. a = "a16" => EncodeFirstPrefix(a, <<o>>, i, e) = EncodeA16Prefix(<<"o16">>, i)
      BY <2>2 DEF EncodeFirstPrefix
    <3>4. a = "a32" => EncodeFirstPrefix(a, <<o>>, i, e) = EncodeA32Prefix(<<"o16">>, i)
      BY <2>2 DEF EncodeFirstPrefix
    <3> QED
      BY <3>1, <3>2, <3>3, <3>4
  <2>3. CASE o = "o32"
    <3>1. A16ThenO32(i) = O32ThenA16(i) /\ A32ThenO32(i) = O32ThenA32(i)
      BY DEF A16ThenO32, O32ThenA16, A32ThenO32, O32ThenA32
    <3>2. EncodeA16Prefix(<<"o32">>, i) = A16ThenO32(i) /\ EncodeA32Prefix(<<"o32">>, i) = A32ThenO32(i)
      <4>1. <<"o32">> # <<>> /\ <<"o16">> # <<"o32">>
        OBVIOUS
      <4> QED
        BY <4>1, Zenon DEF EncodeA16Prefix, EncodeA32Prefix
    <3>3. EncodeO32Prefix(<<"a16">>, i, e) = O32ThenA16(i) /\ EncodeO32Prefix(<<"a32">>, i, e) = O32ThenA32(i)
      <4>1. <<"a16">> # <<>> /\ <<"a32">> # <<>> /\ <<"a16">> # <<"a32">>
        OBVIOUS
      <4> QED
        BY <4>1, Zenon DEF EncodeO32Prefix
    <3>4. EncodeFirstPrefix(o, <<a>>, i, e) = EncodeO32Prefix(<<a>>, i, e)
      BY <2>3 DEF EncodeFirstPrefix
    <3>5. a = "a16" => EncodeFirstPrefix(a, <<o>>, i, e) = EncodeA16Prefix(<<"o32">>, i)
      BY <2>3 DEF EncodeFirstPrefix
    <3>6. a = "a32" => EncodeFirstPrefix(a, <<o>>, i, e) = EncodeA32Prefix(<<"o32">>, i)
      BY <2>3 DEF EncodeFirstPrefix
    <3> QED
      BY <3>1, <3>2, <3>3, <3>4, <3>5, <3>6
  <2> QED
    BY <2>2, <2>3
<1>4. \A x \in SizePrefixes : \A y \in SizePrefixes :
        <<y>> \in Follow[x]
          => Exec(<<x, y>>, i, e)
               = Behind(<<>>, OrElse(EncodeMiscPrefixedInstruction(i, Forces(<<x, y>>), e),
                                     OrElse(EncodeFirstPrefix(x, <<y>>, i, e), FAIL)))
  <2> SUFFICES ASSUME NEW x \in SizePrefixes, NEW y \in SizePrefixes, <<y>> \in Follow[x]
               PROVE  Exec(<<x, y>>, i, e)
                        = Behind(<<>>, OrElse(EncodeMiscPrefixedInstruction(i, Forces(<<x, y>>), e),
                                              OrElse(EncodeFirstPrefix(x, <<y>>, i, e), FAIL)))
    OBVIOUS
  <2>1. \A v, w : /\ <<v, w>> # <<>> /\ Head(<<v, w>>) = v /\ Tail(<<v, w>>) = <<w>>
                  /\ <<v, w>> # <<"o32", "a16", "o16">>
    OBVIOUS
  <2>2. x # "lock" /\ x \notin DOMAIN Repeats
    BY DEF SizePrefixes, Repeats
  <2> DEFINE p == <<x, y>>
  <2>3. p # <<>> /\ Head(p) = x /\ Tail(p) = <<y>> /\ p # <<"o32", "a16", "o16">>
    BY <2>1
  <2> HIDE DEF p
  <2>4. HeadOf(p) = x /\ GuardOf(p) = <<>> /\ RestOf(p) = p /\ ~Refused(p, i)
    BY <2>2, <2>3 DEF HeadOf, GuardOf, RestOf, Refused
  <2>5. Exec(p, i, e) = Behind(<<>>, EncodeSized(p, i, e))
    <3>1. p \in Seq(SizePrefixes \cup {"lock"} \cup DOMAIN Repeats)
      BY DEF p
    <3>2. Exec(p, i, e) = IF Refused(p, i) THEN FAIL ELSE Behind(GuardOf(p), EncodeSized(RestOf(p), i, e))
      BY <3>1, ExecParts
    <3> QED
      BY <2>4, <3>2
  <2>6. EncodeSized(p, i, e) = OrElse(EncodeMiscPrefixedInstruction(i, Forces(p), e),
                                      OrElse(EncodeFirstPrefix(x, <<y>>, i, e), FAIL))
    BY <2>3, Zenon DEF EncodeSized
  <2> QED
    BY <2>5, <2>6 DEF p
<1> QED
  BY <1>1, <1>2, <1>3, <1>4

----------------------------------------------------------------------------
(* The two passes                                                          *)

\* A label's address is put into the arguments, which stay in their places.
LEMMA Labelled ==
  ASSUME NEW i, IsInstruction(i), NEW value \in Int
  PROVE  /\ WithLabel(i, value).name = i.name /\ WithLabel(i, value).cond = i.cond
         /\ Len(WithLabel(i, value).args) = Len(i.args) /\ Len(i.args) \in Nat
         /\ DOMAIN i.args = 1..Len(i.args)
         /\ \A n \in 1..Len(i.args) : WithLabel(i, value).args[n] = Bind(i.args[n], value)
<1> DEFINE args == [n \in DOMAIN i.args |-> Bind(i.args[n], value)]
<1>1. Len(i.args) \in Nat /\ DOMAIN i.args = 1..Len(i.args)
  BY DEF IsInstruction
<1>2. WithLabel(i, value) = [i EXCEPT !.args = args] /\ i \in [name : STRING, cond : STRING, args : Seq(Target \cup Operand)]
  BY DEF WithLabel, IsInstruction
<1>3. DOMAIN args = 1..Len(i.args) /\ \A n \in 1..Len(i.args) : args[n] = Bind(i.args[n], value)
  BY <1>1
<1> HIDE DEF args
<1>4. /\ WithLabel(i, value).name = i.name /\ WithLabel(i, value).cond = i.cond
      /\ WithLabel(i, value).args = args
  BY <1>2
<1>5. Len(args) = Len(i.args)
  BY <1>1, <1>3
<1> QED
  BY <1>1, <1>3, <1>4, <1>5

\* An operand is no target.
LEMMA Binding ==
  ASSUME NEW value \in Int
  PROVE  /\ \A o : IsOperand(o) => Bind(o, value) = IF o.unresolved THEN [o EXCEPT !.imm = value] ELSE o
         /\ \A o : IsOperand(o) /\ o.unresolved
                     => /\ Bind(o, value).kind = o.kind /\ Bind(o, value).size = o.size
                        /\ Bind(o, value).imm = value
         /\ \A t : IsJumpTarget(t)
                     => /\ Bind(t, value).dist = t.dist /\ Bind(t, value).ptr = t.ptr
                        /\ Bind(t, value).o = IF t.o.unresolved THEN [t.o EXCEPT !.imm = value] ELSE t.o
<1>1. ASSUME NEW o, IsOperand(o)
      PROVE  Bind(o, value) = IF o.unresolved THEN [o EXCEPT !.imm = value] ELSE o
  BY <1>1 DEF IsOperand, Operand, Bind, Bound1
<1>2. ASSUME NEW o, IsOperand(o), o.unresolved
      PROVE  /\ Bind(o, value).kind = o.kind /\ Bind(o, value).size = o.size /\ Bind(o, value).imm = value
  BY <1>1, <1>2 DEF IsOperand, Operand
<1>3. ASSUME NEW t, IsJumpTarget(t)
      PROVE  /\ Bind(t, value).dist = t.dist /\ Bind(t, value).ptr = t.ptr
             /\ Bind(t, value).o = IF t.o.unresolved THEN [t.o EXCEPT !.imm = value] ELSE t.o
  <2>1. "o" \in DOMAIN t /\ t \in Target
    BY <1>3 DEF IsJumpTarget, Target
  <2>2. Bind(t, value) = [t EXCEPT !.o = Bound1(t.o, value)]
    BY <2>1 DEF Bind
  <2>3. /\ Bind(t, value).dist = t.dist /\ Bind(t, value).ptr = t.ptr /\ Bind(t, value).o = Bound1(t.o, value)
    BY <2>1, <2>2 DEF Target
  <2> QED
    BY <2>3 DEF Bound1
<1> QED
  BY <1>1, <1>2, <1>3

\* What names no label is the same in both passes.
LEMMA Unlabelled ==
  ASSUME NEW i, IsInstruction(i), ~NamesLabel(i), i.name \notin TakesTarget, NEW value \in Int
  PROVE  WithLabel(i, value) = WithLabel(i, 0)
<1>1. \A n \in DOMAIN i.args : IsOperand(i.args[n]) /\ "o" \notin DOMAIN i.args[n]
  BY DEF IsInstruction, IsOperand, Operand
<1>2. \A n \in DOMAIN i.args : ~i.args[n].unresolved
  BY <1>1 DEF NamesLabel
<1>3. \A n \in DOMAIN i.args : Bind(i.args[n], value) = i.args[n] /\ Bind(i.args[n], 0) = i.args[n]
  BY <1>1, <1>2, 0 \in Int, Binding
<1> QED
  BY <1>3 DEF WithLabel

\* A number in the place of a label is the same size.
LEMMA LabelsAreSteady ==
  ASSUME NEW i, IsInstruction(i), i.name \notin Choosing \cup TakesTarget, NEW value \in Int,
         i.name \in DOMAIN Shifts => value # 1
  PROVE  Steady(WithLabel(i, 0), WithLabel(i, value))
<1> DEFINE j == WithLabel(i, 0)
           k == WithLabel(i, value)
<1>0. 0 \in Int
  OBVIOUS
<1>1. /\ j.name = i.name /\ j.cond = i.cond /\ k.name = i.name /\ k.cond = i.cond
      /\ Len(j.args) = Len(i.args) /\ Len(k.args) = Len(i.args) /\ Len(i.args) \in Nat
      /\ \A n \in 1..Len(i.args) : j.args[n] = Bind(i.args[n], 0) /\ k.args[n] = Bind(i.args[n], value)
  BY <1>0, Labelled
<1>2. IsInstruction(j) /\ IsInstruction(k)
  BY <1>0, WithLabelIsInstruction
<1>3. \A n \in 1..Len(i.args) : IsOperand(i.args[n]) /\ (i.args[n].unresolved => i.args[n].kind = "IMM")
  BY <1>1, Labelled DEF IsInstruction
<1> HIDE DEF j, k
<1>4. AreOperands(j.args) /\ AreOperands(k.args) /\ (i.name = "setcc" => Condition(j.cond) \in 0..15)
  BY <1>1, <1>2, Arguments
<1>5. k.args = <<>> <=> j.args = <<>>
  <2>1. j.args \in Seq(Target \cup Operand) /\ k.args \in Seq(Target \cup Operand)
    BY <1>2 DEF IsInstruction
  <2> QED
    BY <1>1, <2>1
<1>6. ASSUME NEW n \in 1..Len(i.args)
      PROVE  /\ Alike(j.args[n], k.args[n])
             /\ i.name \in DOMAIN Shifts => k.args[n] = j.args[n] \/ (k.args[n].imm # 1 /\ j.args[n].imm # 1)
  <2> DEFINE o == i.args[n]
  <2>1. IsOperand(o) /\ (o.unresolved => o.kind = "IMM")
    BY <1>3, <1>6
  <2>2. j.args[n] = Bind(o, 0) /\ k.args[n] = Bind(o, value)
    BY <1>1, <1>6
  <2> HIDE DEF o
  <2>3. CASE o.unresolved
    <3>1. /\ Bind(o, 0).kind = "IMM" /\ Bind(o, 0).size = o.size /\ Bind(o, 0).imm = 0
          /\ Bind(o, value).kind = "IMM" /\ Bind(o, value).size = o.size /\ Bind(o, value).imm = value
      <4>1. \A x \in Int : Bind(o, x).kind = o.kind /\ Bind(o, x).size = o.size /\ Bind(o, x).imm = x
        <5> SUFFICES ASSUME NEW x \in Int
                     PROVE  Bind(o, x).kind = o.kind /\ Bind(o, x).size = o.size /\ Bind(o, x).imm = x
          OBVIOUS
        <5> QED
          BY <2>1, <2>3, Binding
      <4> QED
        BY <1>0, <2>1, <2>3, <4>1
    <3>2. Alike(Bind(o, 0), Bind(o, value))
      BY <3>1 DEF Alike
    <3>3. i.name \in DOMAIN Shifts => Bind(o, value).imm # 1 /\ Bind(o, 0).imm # 1
      BY <3>1
    <3> QED
      BY <2>2, <3>2, <3>3
  <2>4. CASE ~o.unresolved
    <3>1. Bind(o, 0) = o /\ Bind(o, value) = o
      BY <1>0, <2>1, <2>4, Binding
    <3> QED
      BY <2>2, <3>1 DEF Alike
  <2> QED
    BY <2>3, <2>4
<1>7. Steady(j, k)
  BY <1>1, <1>4, <1>5, <1>6 DEF Steady
<1> QED
  BY <1>7 DEF j, k

\* A jump is told twice.
LEMMA LabelsAreTold ==
  ASSUME NEW i, IsInstruction(i), i.name \in TakesTarget, NEW value \in Int
  PROVE  /\ Told(WithLabel(i, 0), WithLabel(i, value))
         /\ Len(i.args) = 1 =>
              /\ WithLabel(i, 0).args[1].o.unresolved <=> NamesLabel(i)
              /\ WithLabel(i, 0).args[1].dist = i.args[1].dist
              /\ WithLabel(i, value).args[1].dist = i.args[1].dist
<1> DEFINE j == WithLabel(i, 0)
           k == WithLabel(i, value)
           t == i.args[1]
<1>0. 0 \in Int
  OBVIOUS
<1>1. /\ j.name = i.name /\ j.cond = i.cond /\ k.name = i.name /\ k.cond = i.cond
      /\ Len(j.args) = Len(i.args) /\ Len(k.args) = Len(i.args) /\ DOMAIN i.args = 1..Len(i.args)
      /\ \A n \in 1..Len(i.args) : j.args[n] = Bind(i.args[n], 0) /\ k.args[n] = Bind(i.args[n], value)
  BY <1>0, Labelled
<1>2. ASSUME Len(i.args) = 1
      PROVE  /\ Retold(j.args[1], k.args[1])
             /\ j.args[1].o.unresolved <=> NamesLabel(i)
             /\ j.args[1].dist = t.dist /\ k.args[1].dist = t.dist
  <2>1. IsJumpTarget(t) /\ 1 \in DOMAIN i.args
    BY <1>1, <1>2 DEF IsInstruction
  <2>2. j.args[1] = Bind(t, 0) /\ k.args[1] = Bind(t, value)
    BY <1>1, <1>2
  <2>3. NamesLabel(i) <=> t.o.unresolved
    <3>1. "o" \in DOMAIN t
      BY <2>1 DEF IsJumpTarget, Target
    <3>2. \A n \in DOMAIN i.args : n = 1
      BY <1>1, <1>2
    <3> QED
      BY <2>1, <3>1, <3>2, Zenon DEF NamesLabel
  <2> HIDE DEF t
  <2>4. \A x \in Int :
          /\ Bind(t, x).dist = t.dist /\ Bind(t, x).ptr = t.ptr
          /\ Bind(t, x).o = IF t.o.unresolved THEN [t.o EXCEPT !.imm = x] ELSE t.o
    BY <2>1, Binding
  <2>5. t.o \in Operand /\ t.dist \in {"none", "short", "near", "far"} /\ (t.o.unresolved => t.o.kind \in {"IMM", "FAR"})
    BY <2>1 DEF IsJumpTarget, IsOperand, Target
  <2>6. \A x : /\ [t.o EXCEPT !.imm = x].unresolved = t.o.unresolved
               /\ [t.o EXCEPT !.imm = x].kind = t.o.kind /\ [t.o EXCEPT !.imm = x].size = t.o.size
    BY <2>5 DEF Operand
  <2>7. \A x \in Int : /\ Bind(t, x).o.unresolved = t.o.unresolved
                       /\ Bind(t, x).o.kind = t.o.kind /\ Bind(t, x).o.size = t.o.size
                       /\ ~t.o.unresolved => Bind(t, x).o = t.o
    <3> SUFFICES ASSUME NEW x \in Int
                 PROVE  /\ Bind(t, x).o.unresolved = t.o.unresolved
                        /\ Bind(t, x).o.kind = t.o.kind /\ Bind(t, x).o.size = t.o.size
                        /\ ~t.o.unresolved => Bind(t, x).o = t.o
      OBVIOUS
    <3> DEFINE w == [t.o EXCEPT !.imm = x]
    <3>1. Bind(t, x).o = (IF t.o.unresolved THEN w ELSE t.o)
      BY <2>4
    <3>2. w.unresolved = t.o.unresolved /\ w.kind = t.o.kind /\ w.size = t.o.size
      BY <2>6
    <3> HIDE DEF w
    <3>3. CASE t.o.unresolved
      <4>1. Bind(t, x).o = w
        BY <3>1, <3>3
      <4> QED
        BY <3>2, <3>3, <4>1
    <3>4. CASE ~t.o.unresolved
      <4>1. Bind(t, x).o = t.o
        BY <3>1, <3>4
      <4> QED
        BY <4>1
    <3> QED
      BY <3>3, <3>4
  <2>8. Retold(Bind(t, 0), Bind(t, value))
    BY <1>0, <2>4, <2>5, <2>7 DEF Retold
  <2> QED
    BY <1>0, <2>2, <2>3, <2>4, <2>7, <2>8
<1> HIDE DEF j, k, t
<1>3. Told(j, k)
  BY <1>1, <1>2 DEF Told
<1> QED
  BY <1>2, <1>3 DEF j, k, t

\* The answers to an instruction that does not jump.
LEMMA OthersStable ==
  ASSUME Answered, Done, ~ValueSized, stmt.i.name \notin TakesTarget
  PROVE  last.size = first.size /\ ~ShortBehindO32
<1>1. /\ stmt.prefixes \in Seq(SizePrefixes \cup {"lock"} \cup DOMAIN Repeats) /\ IsInstruction(stmt.i)
      /\ addr \in Int /\ gap \in Int /\ first.size \in Int
      /\ first = Exec(stmt.prefixes, WithLabel(stmt.i, 0), InPass1) /\ ~(first.size < 0)
      /\ last = Exec(stmt.prefixes, Inst, InPass2) /\ ~(last.size < 0)
  BY DEF Answered, IsStatement, Done
<1>2. Label \in Int /\ 0 \in Int
  BY <1>1 DEF Label
<1>3. /\ Inst = WithLabel(stmt.i, Label) /\ Inst.name = stmt.i.name
      /\ IsInstruction(Inst) /\ IsInstruction(WithLabel(stmt.i, 0)) /\ WithLabel(stmt.i, 0).name = stmt.i.name
  BY <1>1, <1>2, WithLabelIsInstruction DEF Inst
<1>4. ~ShortBehindO32
  <2>1. stmt.i.name \notin {"jcc", "jmp"}
    BY DEF TakesTarget
  <2> QED
    BY <1>3, <2>1 DEF ShortBehindO32, Name
<1>5. CASE NamesLabel(stmt.i)
  <2>1. stmt.i.name \notin Choosing /\ (stmt.i.name \in DOMAIN Shifts => Label # 1)
    BY <1>3, <1>5 DEF ValueSized, Name, Choosing
  <2>2. Steady(WithLabel(stmt.i, 0), Inst)
    BY <1>1, <1>2, <1>3, <2>1, LabelsAreSteady
  <2>3. Agrees(first, last)
    BY <1>1, <1>3, <2>2, ExecAgrees
  <2> QED
    BY <1>1, <1>4, <2>3 DEF Agrees
<1>6. CASE ~NamesLabel(stmt.i)
  <2>1. Inst = WithLabel(stmt.i, 0)
    BY <1>1, <1>2, <1>3, <1>6, Unlabelled
  <2>2. first = last
    BY <1>1, <1>3, <2>1, ExecAnywhere
  <2> QED
    BY <1>4, <2>2
<1> QED
  BY <1>5, <1>6

\* The answers to a jump.
LEMMA JumpsStable ==
  ASSUME Answered, Done, stmt.i.name \in TakesTarget
  PROVE  last.size = first.size + (IF ShortBehindO32 THEN 1 ELSE 0)
<1> DEFINE p == stmt.prefixes
           j == WithLabel(stmt.i, 0)
           k == Inst
           more == p # <<>> /\ Unseen(j, Forces(p))
<1>1. /\ p \in Seq(SizePrefixes \cup {"lock"} \cup DOMAIN Repeats) /\ IsInstruction(stmt.i)
      /\ addr \in Int /\ gap \in Int /\ first.size \in Int
      /\ first = Exec(p, j, InPass1) /\ ~(first.size < 0)
      /\ last = Exec(p, k, InPass2) /\ ~(last.size < 0)
  BY DEF Answered, IsStatement, Done
<1>2. Label \in Int /\ 0 \in Int
  BY <1>1 DEF Label
<1>3. k = WithLabel(stmt.i, Label) /\ IsInstruction(j) /\ j.name = stmt.i.name /\ k.name = stmt.i.name
  BY <1>1, <1>2, WithLabelIsInstruction DEF Inst
<1>4. /\ Told(j, k)
      /\ Len(stmt.i.args) = 1 => /\ j.args[1].o.unresolved <=> NamesLabel(stmt.i)
                                 /\ j.args[1].dist = stmt.i.args[1].dist /\ k.args[1].dist = stmt.i.args[1].dist
  BY <1>1, <1>2, <1>3, LabelsAreTold
<1>5. Len(j.args) = Len(stmt.i.args) /\ Len(stmt.i.args) = 1
  <2>1. Len(j.args) = Len(stmt.i.args)
    BY <1>1, <1>2, Labelled
  <2>2. CASE Len(j.args) # 1
    <3>1. first = FAIL
      BY <1>1, <1>3, <2>2, LonelyJumps
    <3> QED
      BY <1>1, <3>1 DEF FAIL, Out
  <2> QED
    BY <2>1, <2>2
<1>6. p = <<>> \/ (Head(p) \in SizePrefixes /\ Tail(p) \in Follow[Head(p)])
  BY <1>1, <1>3, JumpsFollow
<1>7. p = <<>> /\ j.name = "jmp" /\ j.args[1].dist = "none" => InPass2.cached = first.size
  BY <1>3, <1>4, <1>5 DEF InPass2, Remembered
<1>8. IsPlace(InPass1) /\ IsPlace(InPass2) /\ InFirst(InPass1) /\ InLast(InPass2)
  BY <1>1 DEF IsPlace, InPass1, InPass2, InFirst, InLast
<1>9. more <=> ShortBehindO32
  <2> DEFINE f == Forces(p)
             dist == stmt.i.args[1].dist
             named == NamesLabel(stmt.i)
             name == stmt.i.name
  <2>1. more <=> /\ p # <<>> /\ named /\ f.o32
                 /\ \/ name = "jcc" /\ dist = "short"
                    \/ name = "jmp" /\ (dist = "short" \/ (dist = "near" /\ ~(f.o32 /\ ~f.a16 /\ ~f.a32)))
    BY <1>3, <1>4, <1>5 DEF Unseen, Rel32
  <2>2. ShortBehindO32 <=> /\ Asked.o32 /\ named
                           /\ \/ name = "jcc" /\ dist = "short"
                              \/ name = "jmp" /\ (dist = "short" \/ (dist = "near" /\ (Asked.a16 \/ Asked.a32)))
    BY <1>3, <1>4, <1>5 DEF ShortBehindO32, Name, Target1
  <2>3. /\ p = <<>> => ~Asked.o32
        /\ p # <<>> => (f.o32 <=> Asked.o32) /\ (f.a16 <=> Asked.a16) /\ (f.a32 <=> Asked.a32)
    BY <1>1, <1>6, AskedIsForced
  <2> HIDE DEF more, f, dist, named, name, p
  <2> QED
    BY <2>1, <2>2, <2>3
<1>10. IF more THEN Longer(first, last) ELSE Agrees(first, last)
  <2> DEFINE e == InPass1
             g == InPass2
  <2>1. /\ first = Exec(p, j, e) /\ last = Exec(p, k, g) /\ ~(Exec(p, j, e).size < 0)
        /\ p = <<>> /\ j.name = "jmp" /\ j.args[1].dist = "none" => g.cached = Exec(p, j, e).size
    BY <1>1, <1>7
  <2>2. IsPlace(e) /\ IsPlace(g) /\ InFirst(e) /\ InLast(g)
    BY <1>8
  <2> HIDE DEF p, j, k, e, g
  <2>3. IF p # <<>> /\ Unseen(j, Forces(p))
        THEN Longer(Exec(p, j, e), Exec(p, k, g)) ELSE Agrees(Exec(p, j, e), Exec(p, k, g))
    BY <1>1, <1>3, <1>4, <2>1, <2>2, ExecJumpsGrow
  <2> QED
    BY <2>1, <2>3
<1> HIDE DEF p, j, k, more
<1> QED
  BY <1>1, <1>9, <1>10 DEF Longer, Agrees

\* What follows a statement stands in the last pass where the first has put it, but for
\* what ValueSized and ShortBehindO32 name: for every statement, wherever its label is.
THEOREM SizesStable == Spec => []SizeIsStable
<1>1. Answered => SizeIsStable
  <2>1. Answered /\ Done /\ ~ValueSized => last.size = first.size + (IF ShortBehindO32 THEN 1 ELSE 0)
    <3>1. ASSUME Answered, Done, ~ValueSized, stmt.i.name \notin TakesTarget
          PROVE  last.size = first.size + (IF ShortBehindO32 THEN 1 ELSE 0)
      <4>1. last.size = first.size /\ ~ShortBehindO32
        BY <3>1, OthersStable
      <4>2. first.size \in Int
        BY <3>1 DEF Answered
      <4> QED
        BY <4>1, <4>2
    <3> QED
      BY <3>1, JumpsStable
  <2> QED
    BY <2>1 DEF SizeIsStable
<1> QED
  BY <1>1, AnsweredInvariant, PTL DEF Spec

\* An operand prefix and an address prefix may come in either order, in front of every
\* instruction: the two dispatchers have the same lists.
THEOREM OrdersAgree == Spec => []EitherOrder
<1>1. ASSUME Answered, Done, Len(stmt.prefixes) = 2, Asked.o32 \/ Asked.o16, Asked.a32 \/ Asked.a16
      PROVE  Exec(<<stmt.prefixes[2], stmt.prefixes[1]>>, Inst, [addr |-> addr, last |-> TRUE, cached |-> 0]) = last
  <2> DEFINE p == stmt.prefixes
  <2>1. p \in Seq(SizePrefixes \cup {"lock"} \cup DOMAIN Repeats) /\ last = Exec(p, Inst, InPass2)
    BY <1>1 DEF Answered, IsStatement
  <2>2. p = <<p[1], p[2]>> /\ p # <<>> /\ DOMAIN p = 1..2
    BY <1>1, <2>1
  <2>3. InPass2 = [addr |-> addr, last |-> TRUE, cached |-> 0]
    BY <2>2 DEF InPass2, Remembered
  <2>4. /\ \E n \in DOMAIN p : p[n] \in {"o16", "o32"}
        /\ \E n \in DOMAIN p : p[n] \in {"a16", "a32"}
    BY <1>1 DEF Asked, LastOf, Has
  <2> HIDE DEF p
  <2>5. \/ p[1] \in {"o16", "o32"} /\ p[2] \in {"a16", "a32"}
        \/ p[2] \in {"o16", "o32"} /\ p[1] \in {"a16", "a32"}
    <3>1. \A n \in DOMAIN p : n = 1 \/ n = 2
      BY <2>2
    <3> QED
      BY <2>4, <3>1
  <2>6. Exec(<<p[1], p[2]>>, Inst, InPass2) = Exec(<<p[2], p[1]>>, Inst, InPass2)
    BY <2>5, OrdersAlike
  <2> QED
    BY <2>1, <2>2, <2>3, <2>6 DEF p
<1>2. Answered => EitherOrder
  BY <1>1 DEF EitherOrder
<1> QED
  BY <1>2, AnsweredInvariant, PTL DEF Spec

=============================================================================
