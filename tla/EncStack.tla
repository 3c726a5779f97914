------------------------------ MODULE EncStack ------------------------------
(***************************************************************************)
(* push and pop of src/langs/i386/main.c, plain, behind o32 alone and      *)
(* behind any prefixes.  A push of a number may say its size; what says    *)
(* none has the size 0.                                                    *)
(***************************************************************************)
EXTENDS EncOperand

FitsPushImm8(v) == FitsWordSignExtendedI8(v)

\* The one or two bytes of the segment registers; cs cannot be popped.
PushSegment(reg) == IF reg < 4 THEN <<\h06 + 8 * reg>> ELSE <<\h0F, IF reg = 4 THEN \hA0 ELSE \hA8>>
PopSegment(reg)  == IF reg < 4 THEN <<\h07 + 8 * reg>> ELSE <<\h0F, IF reg = 4 THEN \hA1 ELSE \hA9>>
SegmentLen(reg)  == IF reg < 4 THEN 1 ELSE 2

\* parse_push_sized_immediate and parse_push_operand: a size without ptr is one of
\* an immediate.
PushOperand(o) == o.kind = "IMM" /\ o.size # 0 => o.size \in {1, 2, 4}

\* Memory that is pushed or popped says its size.
StackMemory(o, opcode, group) ==
  Check(o.size \in {2, 4}, MemForm(o.size, <<opcode>>, group, o.mem, 2))

PushImmediate(v, size) ==
  CASE size = 1 -> Out(<<\h6A>> \o Byte(v), 2)
    [] size = 4 /\ FitsI8(v) -> Out(<<\h66, \h6A>> \o Byte(v), 3)
    [] size = 4 /\ ~FitsI8(v) -> Check(FitsU32(v), Out(<<\h66, \h68>> \o Dword(v), 6))
    [] size \notin {1, 4} /\ FitsPushImm8(v) -> Out(<<\h6A>> \o Byte(v), 2)
    [] size \notin {1, 4} /\ ~FitsPushImm8(v) -> Check(FitsU16(v), Out(<<\h68>> \o Word(v), 3))

EncodePush(o) ==
  CASE o.kind \in R16or32 -> PlainForm(o.size, <<\h50 + o.reg>>, 1)
    [] o.kind = "SEG" -> Out(PushSegment(o.reg), SegmentLen(o.reg))
    [] o.kind = "IMM" -> PushImmediate(o.imm, o.size)
    [] o.kind = "MEM" -> StackMemory(o, \hFF, 6)
    [] OTHER -> FAIL

EncodePop(o) ==
  CASE o.kind \in R16or32 -> PlainForm(o.size, <<\h58 + o.reg>>, 1)
    [] o.kind = "SEG" -> Check(o.reg # 1, Out(PopSegment(o.reg), SegmentLen(o.reg)))
    [] o.kind = "MEM" -> StackMemory(o, \h8F, 0)
    [] OTHER -> FAIL

----------------------------------------------------------------------------
(* Behind o32 alone: a prefix in front of everything, and the word of an   *)
(* immediate stays a word                                                  *)

EncodeO32Push(o) ==
  CASE o.kind \in R16or32 -> Out(<<\h66, \h50 + o.reg>>, 2)
    [] o.kind = "SEG" -> Out(<<\h66>> \o PushSegment(o.reg), SegmentLen(o.reg) + 1)
    [] o.kind = "IMM" /\ (o.size = 1 \/ FitsPushImm8(o.imm)) -> Out(<<\h66, \h6A>> \o Byte(o.imm), 3)
    [] o.kind = "IMM" /\ ~(o.size = 1 \/ FitsPushImm8(o.imm)) ->
         IF o.size = 4 THEN Check(FitsU32(o.imm), Out(<<\h66, \h68>> \o Dword(o.imm), 6))
                       ELSE Check(FitsU16(o.imm), Out(<<\h66, \h68>> \o Word(o.imm), 4))
    [] o.kind = "MEM" -> Check(o.size \in {2, 4}, MemForm(4, <<\hFF>>, 6, o.mem, 2))
    [] OTHER -> FAIL

EncodeO32PopSegmentsAsTheyAre(o) ==
  CASE o.kind \in R16or32 -> Out(<<\h66, \h58 + o.reg>>, 2)
    [] o.kind = "SEG" -> Check(o.reg # 1, Out(PopSegment(o.reg), SegmentLen(o.reg)))
    [] o.kind = "MEM" -> Check(o.size \in {2, 4}, MemForm(4, <<\h8F>>, 0, o.mem, 2))
    [] OTHER -> FAIL

EncodeO32Pop(o) ==
  CASE o.kind \in R16or32 -> Out(<<\h66, \h58 + o.reg>>, 2)
    [] o.kind = "SEG" -> Check(o.reg # 1, Out(<<\h66>> \o PopSegment(o.reg), SegmentLen(o.reg) + 1))
    [] o.kind = "MEM" -> Check(o.size \in {2, 4}, MemForm(4, <<\h8F>>, 0, o.mem, 2))
    [] OTHER -> FAIL

----------------------------------------------------------------------------
(* Behind any prefixes                                                     *)

\* What has a dword to push or pop has the operand size prefix unless o16 drops it.
StackPrefix(o, kinds, f) ==
  f.o32 \/ (~f.o16 /\ (o.kind = "REG32" \/ (o.kind \in kinds /\ o.size = 4)))

\* bytes of the length n behind the two prefixes.
StackForm(op_prefix, f, bytes, n) ==
  Out(ForcedPrefixPair(op_prefix, f.a32) \o bytes, n + ForcedPrefixPairLen(op_prefix, f.a32))

StackMemoryForm(op_prefix, o, opcode, group) ==
  Check(o.size \in {2, 4}, MemForm(IF op_prefix THEN 4 ELSE 2, <<opcode>>, group, o.mem, 2))

PrefixedPushImmediate(o, op_prefix, f) ==
  IF o.size = 1 \/ FitsPushImm8(o.imm) THEN StackForm(op_prefix, f, <<\h6A>> \o Byte(o.imm), 2)
  ELSE IF o.size = 4 /\ ~f.o16
  THEN Check(FitsU32(o.imm), StackForm(op_prefix, f, <<\h68>> \o Dword(o.imm), 5))
  ELSE Check(FitsU16(o.imm), StackForm(op_prefix, f, <<\h68>> \o Word(o.imm), 3))

EncodePrefixedPush(src, f) ==
  LET o == Forced(src, f)
      op_prefix == StackPrefix(o, {"MEM", "IMM"}, f)
  IN IF ~AddressSizeAgrees(o, f) THEN FAIL
     ELSE CASE o.kind \in R16or32 -> StackForm(op_prefix, f, <<\h50 + o.reg>>, 1)
            [] o.kind = "SEG" -> StackForm(op_prefix, f, PushSegment(o.reg), SegmentLen(o.reg))
            [] o.kind = "IMM" -> PrefixedPushImmediate(o, op_prefix, f)
            [] o.kind = "MEM" -> StackMemoryForm(op_prefix, o, \hFF, 6)
            [] OTHER -> FAIL

EncodePrefixedPop(dst, f) ==
  LET o == Forced(dst, f)
      op_prefix == StackPrefix(o, {"MEM"}, f)
  IN IF ~AddressSizeAgrees(o, f) THEN FAIL
     ELSE CASE o.kind \in R16or32 -> StackForm(op_prefix, f, <<\h58 + o.reg>>, 1)
            [] o.kind = "SEG" ->
                 Check(o.reg # 1, StackForm(op_prefix, f, PopSegment(o.reg), SegmentLen(o.reg)))
            [] o.kind = "MEM" -> StackMemoryForm(op_prefix, o, \h8F, 0)
            [] OTHER -> FAIL
=============================================================================
