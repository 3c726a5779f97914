------------------------------- MODULE Encoder -------------------------------
(***************************************************************************)
(* _86_exec of src/langs/i386/main.c: which encoder an instruction goes to,*)
(* on its own and behind each list of prefixes.  An encoder answers FAIL,  *)
(* or NONE where the code asks the next one.                               *)
(*                                                                         *)
(* An instruction is [name, cond, args] as in EncPlain; the arguments of   *)
(* jumps and loops are targets as in EncControl, all others operands.      *)
(***************************************************************************)
EXTENDS EncPrefixed, EncStack, EncPlain

With1(args, F(_))       == IF Len(args) # 1 THEN FAIL ELSE F(args[1])
With2(args, F(_, _))    == IF Len(args) # 2 THEN FAIL ELSE F(args[1], args[2])
With3(args, F(_, _, _)) == IF Len(args) # 3 THEN FAIL ELSE F(args[1], args[2], args[3])
OrElse(first, second)   == IF first = NONE THEN second ELSE first

----------------------------------------------------------------------------
(* Opcodes by name.  Each is written at every place the code has a branch  *)
(* for the name; the places agree, and one table stands for them.          *)

Loops      == [loop |-> \hE2, loope |-> \hE1, loopz |-> \hE1, loopne |-> \hE0,
               loopnz |-> \hE0, jcxz |-> \hE3]
Returns    == [ret |-> <<\hC3, \hC2>>, retn |-> <<\hC3, \hC2>>, retf |-> <<\hCB, \hCA>>]
FarLoads   == [lds |-> \hC5, les |-> \hC4]
FarLoads0F == [lfs |-> \hB4, lgs |-> \hB5, lss |-> \hB2]
Shifts     == [shl |-> 4, sal |-> 4, shr |-> 5, sar |-> 7, rol |-> 0, ror |-> 1, rcl |-> 2, rcr |-> 3]
DoubleShifts == [shld |-> <<\hA4, \hA5>>, shrd |-> <<\hAC, \hAD>>]
Unary      == [neg |-> 3, mul |-> 4, div |-> 6, idiv |-> 7]
Steps      == [inc |-> <<0, \h40>>, dec |-> <<1, \h48>>]
BitScans   == [bsf |-> \hBC, bsr |-> \hBD]
BitTests   == [bt |-> <<\hA3, 4>>, btc |-> <<\hBB, 7>>, btr |-> <<\hB3, 6>>, bts |-> <<\hAB, 5>>]
\* The opcode of the registers, of al and of ax with an immediate, and the group.
Ariths     == [add |-> <<\h00, \h04, \h05, 0>>, or  |-> <<\h08, \h0C, \h0D, 1>>,
               adc |-> <<\h10, \h14, \h15, 2>>, sbb |-> <<\h18, \h1C, \h1D, 3>>,
               and |-> <<\h20, \h24, \h25, 4>>, sub |-> <<\h28, \h2C, \h2D, 5>>,
               xor |-> <<\h30, \h34, \h35, 6>>, cmp |-> <<\h38, \h3C, \h3D, 7>>]

\* The names whose arguments are targets.
TakesTarget == {"jmp", "call", "jcc", "jecxz"} \cup DOMAIN Loops

\* An instruction whose arguments were parsed as its name asks.
IsInstruction(i) ==
  /\ i \in [name : STRING, cond : STRING, args : Seq(Target \cup Operand)]
  /\ \A n \in DOMAIN i.args :
       IF i.name \in TakesTarget THEN IsJumpTarget(i.args[n])
       ELSE IsOperand(i.args[n]) /\ (i.args[n].unresolved => i.args[n].kind = "IMM")
  /\ i.name \in {"jcc", "setcc"} => \E n \in DOMAIN Conditions : i.cond \in Conditions[n]

----------------------------------------------------------------------------
(* Without a prefix                                                        *)

ZeroOperand ==
  [pusha |-> <<\h60>>, pushaw |-> <<\h60>>, pushad |-> <<\h66, \h60>>,
   popa |-> <<\h61>>, popaw |-> <<\h61>>, popad |-> <<\h66, \h61>>,
   pushf |-> <<\h9C>>, pushfd |-> <<\h66, \h9C>>, popf |-> <<\h9D>>, popfd |-> <<\h66, \h9D>>,
   lahf |-> <<\h9F>>, sahf |-> <<\h9E>>, xlat |-> <<\hD7>>, xlatb |-> <<\hD7>>,
   movs |-> <<\hA5>>, movsb |-> <<\hA4>>, movsw |-> <<\hA5>>, movsd |-> <<\h66, \hA5>>,
   cmps |-> <<\hA7>>, cmpsb |-> <<\hA6>>, cmpsw |-> <<\hA7>>, cmpsd |-> <<\h66, \hA7>>,
   scas |-> <<\hAF>>, scasb |-> <<\hAE>>, scasw |-> <<\hAF>>, scasd |-> <<\h66, \hAF>>,
   lods |-> <<\hAD>>, lodsb |-> <<\hAC>>, lodsw |-> <<\hAD>>, lodsd |-> <<\h66, \hAD>>,
   stos |-> <<\hAB>>, stosb |-> <<\hAA>>, stosw |-> <<\hAB>>, stosd |-> <<\h66, \hAB>>,
   insb |-> <<\h6C>>, insw |-> <<\h6D>>, insd |-> <<\h66, \h6D>>,
   outsb |-> <<\h6E>>, outsw |-> <<\h6F>>, outsd |-> <<\h66, \h6F>>,
   cbw |-> <<\h98>>, cwd |-> <<\h99>>, cwde |-> <<\h66, \h98>>, cdq |-> <<\h66, \h99>>,
   aaa |-> <<\h37>>, aas |-> <<\h3F>>, daa |-> <<\h27>>, das |-> <<\h2F>>,
   clc |-> <<\hF8>>, clts |-> <<\h0F, \h06>>, stc |-> <<\hF9>>, cmc |-> <<\hF5>>,
   cld |-> <<\hFC>>, std |-> <<\hFD>>, cli |-> <<\hFA>>, sti |-> <<\hFB>>, hlt |-> <<\hF4>>,
   wait |-> <<\h9B>>, fwait |-> <<\h9B>>, nop |-> <<\h90>>,
   into |-> <<\hCE>>, iret |-> <<\hCF>>, iretd |-> <<\h66, \hCF>>, leave |-> <<\hC9>>]

ReturnsTwo ==
  {"pushad", "popad", "pushfd", "popfd", "movsd", "cmpsd", "scasd", "lodsd", "stosd", "insd",
   "outsd", "cwde", "cdq", "clts", "iretd"}

EncodeZeroOperand(i) ==
  Check(i.args = <<>>, Out(ZeroOperand[i.name], IF i.name \in ReturnsTwo THEN 2 ELSE 1))

EncodeAscii(i) ==
  CASE i.args = <<>> -> Out(IF i.name = "aad" THEN <<\hD5, 10>> ELSE <<\hD4, 10>>, 2)
    [] Len(i.args) = 1 -> IF i.name = "aad" THEN EncodeAad(i.args[1]) ELSE EncodeAam(i.args[1])
    [] OTHER -> FAIL

Control(i, e) ==
  CASE i.name = "jmp"  -> With1(i.args, LAMBDA t : EncodeJmp(t, e))
    [] i.name = "call" -> With1(i.args, LAMBDA t : EncodeCall(t, e))
    [] i.name \in DOMAIN Loops -> With1(i.args, LAMBDA t : EncodeRel8Control(t, Loops[i.name], e))
    [] i.name = "jecxz" -> With1(i.args, LAMBDA t : EncodeJecxz(t, e))
    [] i.name = "jcc" ->
         LET op == JccOpcodesFromName(i.cond)
         IN With1(i.args, LAMBDA t : EncodeConditionalJump(t, op.short, op.near, e))
    [] i.name \in DOMAIN Returns -> EncodeRet(i.args, Returns[i.name][1], Returns[i.name][2])
    [] i.name = "enter" -> EncodeEnter(i.args)
    [] OTHER -> NONE

OneOperand(i) ==
  CASE i.name = "push" -> With1(i.args, EncodePush)
    [] i.name = "pop"  -> With1(i.args, EncodePop)
    [] i.name = "int"  -> With1(i.args, EncodeIntr)
    [] i.name = "not"  -> With1(i.args, EncodeNot)
    [] i.name \in DOMAIN Steps ->
         With1(i.args, LAMBDA d : EncodeIncDec(d, Steps[i.name][1], Steps[i.name][2]))
    [] i.name \in DOMAIN Unary -> With1(i.args, LAMBDA d : EncodeUnaryGroup(d, Unary[i.name]))
    [] i.name = "setcc" -> EncodePrefixedSetcc(i, SetccOpcodeFromName(i.cond), NoForce)
    [] i.name \in SystemOneOperand -> EncodeSystemOneOperandPrefixed(i.name, i.args, NoForce)
    [] OTHER -> NONE

TwoOperands(i, d, s) ==
  CASE i.name = "mov" -> EncodeMov(d, s)
    [] i.name = "lea" -> EncodeLea(d, s)
    [] i.name \in DOMAIN FarLoads -> EncodeFarLoad(d, s, FarLoads[i.name])
    [] i.name \in DOMAIN FarLoads0F -> EncodeFarLoad0F(d, s, FarLoads0F[i.name])
    [] i.name = "movsx" -> EncodeMovExtend(d, s, \hBE, \hBF)
    [] i.name = "movzx" -> EncodeMovExtend(d, s, \hB6, \hB7)
    [] i.name = "bound" -> EncodeBound(d, s)
    [] i.name = "arpl"  -> EncodeArplOperands(d, s, NoForce)
    [] i.name \in DOMAIN BitScans -> EncodeBitScan(d, s, BitScans[i.name])
    [] i.name = "lar" -> EncodeLarOperands(d, s, NoForce)
    [] i.name = "lsl" -> EncodeLslOperands(d, s, NoForce)
    [] i.name \in DOMAIN BitTests ->
         EncodeBitTestPrefixedOperands(d, s, BitTests[i.name][1], BitTests[i.name][2], NoForce)
    [] i.name = "xchg" -> EncodeXchg(d, s)
    [] i.name = "in"   -> EncodeIn(d, s)
    [] i.name = "out"  -> EncodeOut(d, s)
    [] i.name = "esc"  -> EncodeEsc(d, s)
    [] i.name \in {"add", "adc", "sub", "sbb", "cmp"} ->
         LET a == Ariths[i.name] IN EncodeArith(d, s, a[1], a[2], a[3], a[4])
    [] i.name = "and"  -> EncodeAnd(d, s)
    [] i.name = "or"   -> EncodeOr(d, s)
    [] i.name = "xor"  -> EncodeXor(d, s)
    [] i.name = "test" -> EncodeTest(d, s)
    [] i.name \in DOMAIN Shifts -> EncodeShiftGroup(d, s, Shifts[i.name])
    [] OTHER -> FAIL

\* An instruction without a prefix.  "outs" alone is no instruction.
EncodePlain(i, e) ==
  CASE i.name \in DOMAIN ZeroOperand -> EncodeZeroOperand(i)
    [] i.name \in {"aad", "aam"} -> EncodeAscii(i)
    [] i.name = "imul" -> Check(Len(i.args) \in 1..3, EncodeImulMulti(i.args))
    [] i.name \in DOMAIN DoubleShifts ->
         With3(i.args, LAMBDA d, s, n : EncodePrefixedDoubleShift(d, s, n, DoubleShifts[i.name][1],
                                                                  DoubleShifts[i.name][2], NoForce))
    [] OTHER ->
         OrElse(Control(i, e),
                OrElse(OneOperand(i), With2(i.args, LAMBDA d, s : TwoOperands(i, d, s))))

----------------------------------------------------------------------------
(* encode_misc_prefixed_instruction: what is encoded alike behind any      *)
(* prefixes                                                                *)

\* At most one of them knows the name.
MiscStrings(i, f) ==
  LET op == f.o32
      a32 == f.a32
      forms == { EmitPrefixedConvert(i, op, a32, f.o16), EmitPrefixedDecimalAdjust(i, op, a32),
                 EmitPrefixedFlagControl(i, op, a32), EmitPrefixedScas(i, op, a32, f.o16),
                 EmitPrefixedMovs(i, op, a32, f.o16), EmitPrefixedLods(i, op, a32, f.o16),
                 EmitPrefixedStos(i, op, a32, f.o16), EmitPrefixedIns(i, op, a32, f.o16),
                 EmitPrefixedOuts(i, op, a32, f.o16), EmitPrefixedInterrupt(i, op, a32, f.o16) }
  IN IF forms = {NONE} THEN NONE ELSE CHOOSE form \in forms : form # NONE

MiscControl(i, f, e) ==
  CASE i.name = "jcc" ->
         LET op == JccOpcodesFromName(i.cond)
         IN With1(i.args, LAMBDA t : EncodePrefixedJcc(t, op.short, op.near, f, e))
    [] i.name \in DOMAIN Loops ->
         With1(i.args, LAMBDA t : EncodePrefixedRel8Control(t, Loops[i.name], f, e))
    [] i.name = "jecxz" ->
         With1(i.args, LAMBDA t : EncodePrefixedRel8Control(t, \hE3, [f EXCEPT !.a32 = TRUE], e))
    [] i.name = "jmp" -> With1(i.args, LAMBDA t : EncodePrefixedJmp(t, f, e))
    [] i.name \in DOMAIN Returns ->
         EncodePrefixedRet(i.args, Returns[i.name][1], Returns[i.name][2], f)
    [] i.name = "enter" -> EncodePrefixedEnter(i.args, f)
    [] OTHER -> NONE

MiscLoads(i, f) ==
  CASE i.name = "lea" -> With2(i.args, LAMBDA d, s : EncodeLeaPrefixedOperands(d, s, f))
    [] i.name \in DOMAIN FarLoads ->
         With2(i.args, LAMBDA d, s : EncodeFarLoadPrefixedOperands(d, s, FarLoads[i.name], f))
    [] i.name \in DOMAIN FarLoads0F ->
         With2(i.args, LAMBDA d, s : EncodeFarLoad0FPrefixedOperands(d, s, FarLoads0F[i.name], f))
    [] i.name \in SystemOneOperand -> EncodeSystemOneOperandPrefixed(i.name, i.args, f)
    [] OTHER -> NONE

\* inc and dec, push and pop, and what has no operands.
ZeroBytes == [leave |-> \hC9, pusha |-> \h60, pushaw |-> \h60, popa |-> \h61, popaw |-> \h61,
              pushf |-> \h9C, popf |-> \h9D, xlat |-> \hD7, xlatb |-> \hD7, nop |-> \h90]
ZeroDwords == [pushad |-> \h60, popad |-> \h61, pushfd |-> \h9C, popfd |-> \h9D]

MiscStack(i, f) ==
  CASE i.name \in DOMAIN Steps ->
         LET group == Steps[i.name][1]
             base == Steps[i.name][2]
         IN With1(i.args, LAMBDA d : IF f.o16 THEN EncodeO16IncDec(d, group, base, f)
                                              ELSE EncodePrefixedIncDec(d, group, base, f))
    [] i.name = "push" -> With1(i.args, LAMBDA o : EncodePrefixedPush(o, f))
    [] i.name = "pop"  -> With1(i.args, LAMBDA o : EncodePrefixedPop(o, f))
    [] i.name \in DOMAIN ZeroBytes -> EmitPrefixedZeroOpByte(i, ZeroBytes[i.name], f.o32, f.a32)
    [] i.name \in DOMAIN ZeroDwords -> EmitPrefixedZeroOpByte(i, ZeroDwords[i.name], ~f.o16, f.a32)
    [] OTHER -> NONE

MiscGroups(i, f) ==
  CASE i.name = "xchg" -> With2(i.args, LAMBDA d, s : EncodePrefixedXchg(d, s, f))
    [] i.name \in DOMAIN DoubleShifts ->
         With3(i.args, LAMBDA d, s, n : EncodePrefixedDoubleShift(d, s, n, DoubleShifts[i.name][1],
                                                                  DoubleShifts[i.name][2], f))
    [] i.name \in DOMAIN Shifts ->
         With2(i.args, LAMBDA d, s : EncodePrefixedShiftGroup(d, s, Shifts[i.name], f))
    [] i.name = "setcc" -> EncodePrefixedSetcc(i, SetccOpcodeFromName(i.cond), f)
    [] i.name \in DOMAIN Unary ->
         With1(i.args, LAMBDA d : EncodePrefixedUnaryGroup(d, Unary[i.name], f))
    [] i.name = "not"  -> With1(i.args, LAMBDA d : EncodePrefixedUnaryGroup(d, 2, f))
    [] i.name = "imul" -> EncodePrefixedImul(i.args, f)
    [] i.name = "in"   -> With2(i.args, LAMBDA d, s : EncodeInPrefixedOperands(d, s, f))
    [] i.name = "out"  -> With2(i.args, LAMBDA d, s : EncodeOutPrefixedOperands(d, s, f))
    [] i.name = "esc"  -> With2(i.args, LAMBDA d, s : EncodePrefixedEsc(d, s, f))
    [] i.name = "lar"  -> With2(i.args, LAMBDA d, s : EncodeLarOperands(d, s, f))
    [] i.name = "lsl"  -> With2(i.args, LAMBDA d, s : EncodeLslOperands(d, s, f))
    [] OTHER -> NONE

EncodeMiscPrefixedInstruction(i, f, e) ==
  OrElse(MiscStrings(i, f),
  OrElse(MiscControl(i, f, e), OrElse(MiscLoads(i, f), OrElse(MiscStack(i, f), MiscGroups(i, f)))))

----------------------------------------------------------------------------
(* What is left, by the prefixes                                           *)

ForcePrefixes(o32, o16, a16, a32) == [o32 |-> o32, o16 |-> o16, a16 |-> a16, a32 |-> a32]

\* The conversions and adjustments every list of prefixes but o16 has.
Adjusts(i, f) ==
  LET byte == [aaa |-> \h37, aas |-> \h3F, cbw |-> \h98, cdq |-> \h99]
  IN CASE i.name \in DOMAIN byte ->
            EmitPrefixedZeroOpByte(i, byte[i.name], f.o32 \/ i.name = "cdq", f.a32)
       [] i.name = "aad" -> EmitPrefixedAsciiImm(i, \hD5, f.o32, f.a32)
       [] i.name = "aam" -> EmitPrefixedAsciiImm(i, \hD4, f.o32, f.a32)
       [] OTHER -> EmitPrefixedCmps(i, f.o32, f.a32)

\* The instructions that have a form of their own behind a prefix.
TwoForced(i, f) ==
  CASE i.name = "arpl"  -> With2(i.args, LAMBDA d, s : EncodeArplOperands(d, s, f))
    [] i.name = "bound" -> With2(i.args, LAMBDA d, s : EncodeBoundPrefixedOperands(d, s, f))
    [] i.name \in DOMAIN BitScans ->
         With2(i.args, LAMBDA d, s : EncodeBitScanPrefixedOperands(d, s, BitScans[i.name], f))
    [] i.name \in DOMAIN BitTests ->
         With2(i.args, LAMBDA d, s : EncodeBitTestPrefixedOperands(d, s, BitTests[i.name][1],
                                                                   BitTests[i.name][2], f))
    [] OTHER -> NONE

ArithForced(i, Enc(_, _, _, _, _, _)) ==
  IF i.name \notin DOMAIN Ariths THEN NONE
  ELSE LET a == Ariths[i.name]
       IN With2(i.args, LAMBDA d, s : Enc(d, s, a[1], a[2], a[3], a[4]))

A16Arith(i, f) ==
  ArithForced(i, LAMBDA d, s, base, acc8, acc16, group :
                   EncodeA16Arith(d, s, base, acc8, acc16, group, f))
A32Arith(i, f) ==
  ArithForced(i, LAMBDA d, s, base, acc8, acc16, group :
                   EncodeA32Arith(d, s, base, acc8, acc16, group, f))

\* test is encoded behind one address prefix, and refused behind two prefixes.
AddressTest(i, f) ==
  IF i.name # "test" THEN NONE
  ELSE With2(i.args, LAMBDA d, s : EncodeAddressPrefixedTest(d, s, f))

\* An a16 or a32 alone, and with an o32 in either order: each has a list of its own.
A16Only(i) ==
  LET f == ForcePrefixes(FALSE, FALSE, TRUE, FALSE)
  IN OrElse(Adjusts(i, f), OrElse(A16Arith(i, f), OrElse(AddressTest(i, f), TwoForced(i, f))))
A32Only(i) ==
  LET f == ForcePrefixes(FALSE, FALSE, FALSE, TRUE)
  IN OrElse(Adjusts(i, f), OrElse(A32Arith(i, f), OrElse(AddressTest(i, f), TwoForced(i, f))))

A16ThenO32WithoutBits(i) ==
  LET f == ForcePrefixes(TRUE, FALSE, TRUE, FALSE) IN OrElse(Adjusts(i, f), A16Arith(i, f))
A16ThenO32(i) ==
  LET f == ForcePrefixes(TRUE, FALSE, TRUE, FALSE)
  IN OrElse(Adjusts(i, f), OrElse(A16Arith(i, f), TwoForced(i, f)))
O32ThenA16(i) ==
  LET f == ForcePrefixes(TRUE, FALSE, TRUE, FALSE)
  IN OrElse(Adjusts(i, f), OrElse(A16Arith(i, f), TwoForced(i, f)))
A32ThenO32(i) ==
  LET f == ForcePrefixes(TRUE, FALSE, FALSE, TRUE)
  IN OrElse(Adjusts(i, f), OrElse(A32Arith(i, f), TwoForced(i, f)))
O32ThenA32(i) ==
  LET f == ForcePrefixes(TRUE, FALSE, FALSE, TRUE)
  IN OrElse(Adjusts(i, f), OrElse(A32Arith(i, f), TwoForced(i, f)))

\* Behind o32 alone.  The branches of the code for push, pop, not, imul, the shifts,
\* jmp, jcc and ret are not reached: encode_misc_prefixed_instruction has answered.
O32Only(i, e) ==
  LET f == ForcePrefixes(TRUE, FALSE, FALSE, FALSE)
      own == CASE i.name \in DOMAIN Ariths -> ArithForced(i, EncodeO32Arith)
               [] i.name = "mov"  -> With2(i.args, EncodeO32Mov)
               [] i.name = "test" -> With2(i.args, EncodeO32Test)
               [] i.name = "call" -> With1(i.args, LAMBDA t : EncodeO32Call(t, e))
               [] OTHER -> TwoForced(i, f)
  IN OrElse(Adjusts(i, f), own)

\* Three prefixes are o32 a16 o16, in front of a handful of instructions.
O32A16O16(i) ==
  OrElse(EmitPrefixedConvert(i, FALSE, FALSE, TRUE),
  OrElse(EmitPrefixedDecimalAdjust(i, FALSE, FALSE),
         IF i.name # "dec" THEN NONE
         ELSE With1(i.args, LAMBDA d : EncodePrefixedIncDec(d, 1, \h48, ForcePrefixes(FALSE, FALSE, TRUE, FALSE)))))

SizePrefixes == {"o16", "o32", "a16", "a32"}

\* What may follow the first of them, and what is tried when
\* encode_misc_prefixed_instruction, asked first, does not know the instruction.
FollowO16 == {<<>>, <<"o32">>, <<"a16">>, <<"a32">>}
\* encode_plain_instruction gets what an o16 alone is in front of.
EncodeO16Prefix(rest, i) == rest = <<>> /\ i.name \in {"or", "sbb", "sub", "test"}

FollowA16 == {<<>>, <<"o16">>, <<"o32">>}
EncodeA16Prefix(rest, i) ==
  CASE rest = <<>>      -> A16Only(i)
    [] rest = <<"o16">> -> NONE
    [] rest = <<"o32">> -> A16ThenO32(i)

FollowA32 == {<<>>, <<"o16">>, <<"o32">>}
EncodeA32Prefix(rest, i) ==
  CASE rest = <<>>      -> A32Only(i)
    [] rest = <<"o16">> -> NONE
    [] rest = <<"o32">> -> A32ThenO32(i)

FollowO32 == {<<>>, <<"a32">>, <<"a16">>}
EncodeO32Prefix(rest, i, e) ==
  CASE rest = <<>>      -> O32Only(i, e)
    [] rest = <<"a32">> -> O32ThenA32(i)
    [] rest = <<"a16">> -> O32ThenA16(i)

Follow == [o16 |-> FollowO16, o32 |-> FollowO32, a16 |-> FollowA16, a32 |-> FollowA32]

\* What the prefixes force: an o16 counts only if no o32 is with it.
Forces(prefixes) ==
  LET has(p) == \E n \in DOMAIN prefixes : prefixes[n] = p
  IN ForcePrefixes(has("o32"), has("o16") /\ ~has("o32"), has("a16"), has("a32"))

\* What the first of the prefixes is tried with when the misc encoder knows nothing.
EncodeFirstPrefix(first, rest, i, e) ==
  CASE first = "o16" -> IF EncodeO16Prefix(rest, i) THEN EncodePlain(i, e) ELSE NONE
    [] first = "o32" -> EncodeO32Prefix(rest, i, e)
    [] first = "a16" -> EncodeA16Prefix(rest, i)
    [] first = "a32" -> EncodeA32Prefix(rest, i)

\* Behind what neither locks nor repeats.
EncodeSized(prefixes, i, e) ==
  CASE prefixes = <<>> -> EncodePlain(i, e)
    [] prefixes = <<"o32", "a16", "o16">> -> OrElse(O32A16O16(i), FAIL)
    [] prefixes # <<>> /\ Tail(prefixes) \in Follow[Head(prefixes)] ->
         OrElse(EncodeMiscPrefixedInstruction(i, Forces(prefixes), e),
                OrElse(EncodeFirstPrefix(Head(prefixes), Tail(prefixes), i, e), FAIL))
    [] OTHER -> FAIL

----------------------------------------------------------------------------
(* lock and the repetitions                                                *)

RepAllowsInstruction ==
  UNION {StringNames(s) : s \in {Movs, Cmps, Scas, Lods, Stos, Ins, Outs}}
RepeAllowsInstruction == UNION {StringNames(s) : s \in {Cmps, Scas}}

Repeats == [rep |-> \hF3, repe |-> \hF3, repz |-> \hF3, repne |-> \hF2, repnz |-> \hF2]

\* The instruction that is repeated may have prefixes of its own.
RepeatTargetAllowed(prefixes, i, allowed) ==
  /\ \A n \in DOMAIN prefixes : prefixes[n] \in SizePrefixes
  /\ i.name \in allowed
  /\ i.args = <<>>

EncodeRepeatPrefix(prefix, rest, i) ==
  RepeatTargetAllowed(rest, i, IF prefix = "rep" THEN RepAllowsInstruction ELSE RepeAllowsInstruction)

EncodeLockPrefix(rest, i) == rest = <<>> /\ ValidateLockInstruction(i)

\* The guards are a lock or a repetition, which are checked before the rest is encoded.
Exec(prefixes, i, e) ==
  LET head == IF prefixes = <<>> THEN "none" ELSE Head(prefixes)
      guard == IF head = "lock" THEN <<\hF0>>
               ELSE IF head \in DOMAIN Repeats THEN <<Repeats[head]>> ELSE <<>>
      rest == IF guard = <<>> THEN prefixes ELSE Tail(prefixes)
      refused == \/ head = "lock" /\ ~EncodeLockPrefix(rest, i)
                 \/ head \in DOMAIN Repeats /\ ~EncodeRepeatPrefix(head, rest, i)
  IN IF refused THEN FAIL ELSE Behind(guard, EncodeSized(rest, i, e))
=============================================================================
