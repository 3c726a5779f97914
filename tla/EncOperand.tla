----------------------------- MODULE EncOperand -----------------------------
(***************************************************************************)
(* What every encoder of src/langs/i386/main.c is built from: the kinds of *)
(* operands, the tests of immediates, and for each part of an instruction  *)
(* two separate pieces of code that have to agree: the one that emits the  *)
(* part (in the last pass) and the one that says how long it is (in both). *)
(*                                                                         *)
(* An operand is a record                                                  *)
(*   [kind, size, reg, imm, mem, seg, unresolved, named]                   *)
(* and a memory operand a record                                           *)
(*   [addr_size, rm, direct, disp, has_disp, seg_override, base, index,    *)
(*    scale]                                                               *)
(* with the fields of struct Operand and struct MemoryOperand; seg is the  *)
(* segment of a far address, unresolved whether the operand names a label  *)
(* that is not known yet, named whether it is a name at all.               *)
(*                                                                         *)
(* BYTE is the number of values of a byte of data (an immediate, a         *)
(* displacement, an address); 256 in the code.  It is even, and no more    *)
(* than 256.  The bytes of the instruction itself keep their eight bits.   *)
(*                                                                         *)
(* A definition set just before another, named for a mistake, is the form  *)
(* that mistake would take: the properties are checked to refute it.       *)
(***************************************************************************)
EXTENDS Integers, Sequences

CONSTANT BYTE

ASSUME ByteAssumption == BYTE \in 1..256 /\ BYTE % 2 = 0

WORD  == BYTE * BYTE
DWORD == WORD * WORD

GPR == {"REG8", "REG16", "REG32"}
R16or32 == {"REG16", "REG32"}

Memory ==
  [addr_size : {2, 4}, rm : 0..7, direct : BOOLEAN, disp : Int, has_disp : BOOLEAN,
   seg_override : -1..5, base : -1..7, index : -1..7, scale : 0..3]

\* A register is its place in one of the tables of names, each of which has eight.
Operand ==
  [kind : GPR \cup {"IMM", "MEM", "SEG", "CR", "DR", "TR", "FAR"}, size : {0, 1, 2, 4},
   reg : 0..7, imm : Int, mem : Memory, seg : Int, unresolved : BOOLEAN, named : BOOLEAN]

\* An operand as it is parsed: a general register has its size.
IsOperand(o) ==
  /\ o \in Operand
  /\ o.kind = "REG8" => o.size = 1
  /\ o.kind = "REG16" => o.size = 2
  /\ o.kind = "REG32" => o.size = 4

\* What an encoder returns: the size, and what it has written if this was the
\* last pass.  A failed encoding has no bytes that matter.
Out(bytes, size) == [size |-> size, bytes |-> bytes]
FAIL == Out(<<>>, -1)
\* 0: the instruction is not one of the encoder's.
NONE == Out(<<>>, 0)

----------------------------------------------------------------------------
(* Immediates                                                              *)

FitsU8(v)  == 0 <= v /\ v <= BYTE - 1
FitsI8(v)  == -(BYTE \div 2) <= v /\ v <= BYTE \div 2 - 1
FitsI16(v) == -(WORD \div 2) <= v /\ v <= WORD \div 2 - 1
FitsI32(v) == -(DWORD \div 2) <= v /\ v <= DWORD \div 2 - 1
FitsU16(v) == -(WORD \div 2) <= v /\ v <= WORD - 1
FitsU32(v) == -(DWORD \div 2) <= v /\ v <= DWORD - 1
FitsByteImmediate(v) == FitsI8(v) \/ FitsU8(v)

FitsImm(size, v) == CASE size = 1 -> FitsByteImmediate(v)
                      [] size = 2 -> FitsU16(v)
                      [] size = 4 -> FitsU32(v)

\* The bytes above the lowest one repeat its sign.
RepeatsSign(v, limit) ==
  LET low == v % BYTE
  IN /\ 0 <= v /\ v <= limit - 1
     /\ v = IF low >= BYTE \div 2 THEN limit - BYTE + low ELSE low

FitsWordSignExtendedI8(v)  == FitsI8(v) \/ RepeatsSign(v, WORD)
FitsDwordSignExtendedI8(v) == FitsI8(v) \/ RepeatsSign(v, DWORD)

Low(v)   == v % BYTE
ByteUncut(v) == <<v>>
Byte(v)  == <<Low(v)>>
Word(v)  == <<Low(v), Low(v \div BYTE)>>
Dword(v) == Word(v) \o Word(v \div WORD)

\* An immediate as wide as the operand.
Imm(size, v) == CASE size = 1 -> Byte(v) [] size = 2 -> Word(v) [] size = 4 -> Dword(v)

----------------------------------------------------------------------------
(* Prefixes                                                                *)

SegmentPrefixes == <<\h26, \h2E, \h36, \h3E, \h64, \h65>>
SegmentPrefix(m) ==
  IF m.seg_override >= 0 THEN <<SegmentPrefixes[m.seg_override + 1]>> ELSE <<>>
SegmentPrefixLen(m) == IF m.seg_override >= 0 THEN 1 ELSE 0

AddressSizePrefix(m)    == IF m.addr_size = 4 THEN <<\h67>> ELSE <<>>
AddressSizePrefixLen(m) == IF m.addr_size = 4 THEN 1 ELSE 0

OperandSizePrefix(size)    == IF size = 4 THEN <<\h66>> ELSE <<>>
OperandSizePrefixLen(size) == IF size = 4 THEN 1 ELSE 0

MemoryOperandPrefixes(m, size) ==
  SegmentPrefix(m) \o OperandSizePrefix(size) \o AddressSizePrefix(m)
MemoryOperandPrefixLen(m, size) ==
  SegmentPrefixLen(m) + OperandSizePrefixLen(size) + AddressSizePrefixLen(m)

OperandPrefixes(o, size) ==
  IF o.kind = "MEM" THEN MemoryOperandPrefixes(o.mem, size) ELSE OperandSizePrefix(size)
OperandPrefixLen(o, size) ==
  IF o.kind = "MEM" THEN MemoryOperandPrefixLen(o.mem, size) ELSE OperandSizePrefixLen(size)

\* The prefixes an o32, o16, a16 or a32 in front of the instruction asks for.
ForcedPrefixPair(o, a)    == (IF o THEN <<\h66>> ELSE <<>>) \o (IF a THEN <<\h67>> ELSE <<>>)
ForcedPrefixPairLen(o, a) == (IF o THEN 1 ELSE 0) + (IF a THEN 1 ELSE 0)

SystemMemoryPrefixes(m, o32) ==
  SegmentPrefix(m) \o (IF o32 THEN OperandSizePrefix(4) ELSE <<>>) \o AddressSizePrefix(m)
SystemMemoryPrefixLen(m, o32) ==
  SegmentPrefixLen(m) + (IF o32 THEN 1 ELSE 0) + AddressSizePrefixLen(m)

----------------------------------------------------------------------------
(* ModR/M and what follows it                                              *)

ModrmReg(reg, rm) == <<\hC0 + 8 * (reg % 8) + (rm % 8)>>

\* How the displacement is written when it is not implied: 1 byte or the address size.
DispMod(m) == IF FitsI8(m.disp) THEN 1 ELSE 2

\* [ebp] has no form without a displacement either.
Memory32ModEbpIsBare(m) == IF m.direct \/ m.base < 0 \/ ~m.has_disp THEN 0 ELSE DispMod(m)

Memory32Mod(m) ==
  CASE m.direct \/ m.base < 0 -> 0
    [] ~m.direct /\ m.base >= 0 /\ ~m.has_disp -> IF m.base = 5 THEN 1 ELSE 0
    [] ~m.direct /\ m.base >= 0 /\ m.has_disp -> DispMod(m)

Memory32NeedsSib(m) == ~m.direct /\ (m.base < 0 \/ m.base = 4 \/ m.index >= 0)

Memory32DispLen(m, mod) ==
  CASE m.direct \/ m.base < 0 -> 4
    [] ~m.direct /\ m.base >= 0 -> IF mod = 1 THEN 1 ELSE IF mod = 2 THEN 4 ELSE 0

\* [bp] has no form without a displacement.
MemoryTailLenBpIsBare(m) ==
  IF m.addr_size = 4
  THEN (IF Memory32NeedsSib(m) THEN 1 ELSE 0) + Memory32DispLen(m, Memory32Mod(m))
  ELSE IF m.direct THEN 2
  ELSE IF ~m.has_disp THEN 0
  ELSE IF FitsI8(m.disp) THEN 1 ELSE 2

\* The bytes behind the ModR/M byte.
MemoryTailLen(m) ==
  IF m.addr_size = 4
  THEN (IF Memory32NeedsSib(m) THEN 1 ELSE 0) + Memory32DispLen(m, Memory32Mod(m))
  ELSE IF m.direct THEN 2
  ELSE IF m.rm = 6 /\ ~m.has_disp THEN 1
  ELSE IF ~m.has_disp THEN 0
  ELSE IF FitsI8(m.disp) THEN 1 ELSE 2

ModrmMem16(reg, m) ==
  LET mod == IF m.direct THEN 0
             ELSE IF m.rm = 6 /\ ~m.has_disp THEN 1
             ELSE IF ~m.has_disp THEN 0 ELSE DispMod(m)
  IN <<64 * mod + 8 * (reg % 8) + (m.rm % 8)>>
     \o (CASE m.direct -> Word(m.disp)
           [] ~m.direct /\ mod = 1 -> Byte(m.disp)
           [] ~m.direct /\ mod = 2 -> Word(m.disp)
           [] ~m.direct /\ mod = 0 -> <<>>)

Sib(m) == <<64 * (m.scale % 4) + 8 * ((IF m.index >= 0 THEN m.index ELSE 4) % 8)
              + ((IF m.base >= 0 THEN m.base ELSE 5) % 8)>>

ModrmMem32(reg, m) ==
  LET mod == Memory32Mod(m)
      sib == Memory32NeedsSib(m)
      rm  == IF m.direct THEN 5 ELSE IF sib THEN 4 ELSE m.base
  IN <<64 * mod + 8 * (reg % 8) + (rm % 8)>>
     \o (IF sib THEN Sib(m) ELSE <<>>)
     \o (IF m.direct THEN Dword(m.disp)
         ELSE IF m.base < 0 THEN Dword(IF m.has_disp THEN m.disp ELSE 0)
         ELSE IF mod = 1 THEN Byte(m.disp)
         ELSE IF mod = 2 THEN Dword(m.disp) ELSE <<>>)

ModrmMem(reg, m) == IF m.addr_size = 4 THEN ModrmMem32(reg, m) ELSE ModrmMem16(reg, m)

\* The prefixes of an operand of either kind when op_prefix says whether there is
\* an operand size prefix; without memory an a32 still leaves its prefix.
RmPrefixes(o, op_prefix, a32) ==
  IF o.kind = "MEM" THEN MemoryOperandPrefixes(o.mem, IF op_prefix THEN 4 ELSE 2)
                    ELSE ForcedPrefixPair(op_prefix, a32)
RmPrefixLen(o, op_prefix, a32) ==
  IF o.kind = "MEM" THEN MemoryOperandPrefixLen(o.mem, IF op_prefix THEN 4 ELSE 2)
                    ELSE ForcedPrefixPairLen(op_prefix, a32)
Rm(reg, o)   == IF o.kind = "MEM" THEN ModrmMem(reg, o.mem) ELSE ModrmReg(reg, o.reg)
RmTailLen(o) == IF o.kind = "MEM" THEN MemoryTailLen(o.mem) ELSE 0

----------------------------------------------------------------------------
(* Tests of operands                                                       *)

IsAl(o)  == o.kind = "REG8"  /\ o.reg = 0
IsAx(o)  == o.kind = "REG16" /\ o.reg = 0
IsEax(o) == o.kind = "REG32" /\ o.reg = 0
IsDx(o)  == o.kind = "REG16" /\ o.reg = 2
IsCl(o)  == o.kind = "REG8"  /\ o.reg = 1
\* The accumulator of any width.
IsAcc(o) == IsAl(o) \/ IsAx(o) \/ IsEax(o)

MemorySizeMatches(o, size) == o.kind = "MEM" /\ o.size \in {0, size}
OperandIsMem16(o) == o.kind = "MEM" /\ o.mem.addr_size = 2
OperandIsMem32(o) == o.kind = "MEM" /\ o.mem.addr_size = 4

\* 1 in the opcodes of the form with a word or a dword.
W(size) == IF size = 1 THEN 0 ELSE 1

DirectMemory(addr, seg_override) ==
  [addr_size |-> 2, rm |-> 6, direct |-> TRUE, disp |-> addr, has_disp |-> TRUE,
   seg_override |-> seg_override, base |-> -1, index |-> -1, scale |-> 0]

ForceDirectMemoryA32(o) ==
  IF o.kind = "MEM" /\ o.mem.direct THEN [o EXCEPT !.mem.addr_size = 4] ELSE o

\* What an o32, o16, a16 or a32 in front of an instruction forces.
NoForce == [o32 |-> FALSE, o16 |-> FALSE, a16 |-> FALSE, a32 |-> FALSE]

\* An a32 makes a bare address a 32-bit one.  The memory operand has to have
\* the address size that is forced.
Forced(o, f) == IF f.a32 THEN ForceDirectMemoryA32(o) ELSE o
AddressSizeAgrees(o, f) == ~(f.a16 /\ OperandIsMem32(o)) /\ ~(f.a32 /\ OperandIsMem16(o))

OpSize(o, f) == IF f.o32 THEN 4 ELSE IF f.o16 THEN 2 ELSE o.size

----------------------------------------------------------------------------
(* The shapes most forms have.  n is the constant in the size the code     *)
(* returns, written there by hand.                                         *)

RegForm(size, opcode, reg, rm, n) ==
  Out(OperandSizePrefix(size) \o opcode \o ModrmReg(reg, rm), OperandSizePrefixLen(size) + n)

MemForm(size, opcode, reg, m, n) ==
  Out(MemoryOperandPrefixes(m, size) \o opcode \o ModrmMem(reg, m),
      MemoryOperandPrefixLen(m, size) + n + MemoryTailLen(m))

\* A register or a memory operand in the rm field.
RmForm(size, opcode, reg, o, n) ==
  IF o.kind = "MEM" THEN MemForm(size, opcode, reg, o.mem, n)
                    ELSE RegForm(size, opcode, reg, o.reg, n)

Check(guard, form) == IF guard THEN form ELSE FAIL

\* Bytes that say everything themselves, behind the operand size prefix.
PlainForm(size, bytes, n) ==
  Out(OperandSizePrefix(size) \o bytes, OperandSizePrefixLen(size) + n)

\* n more bytes behind a form: an immediate.
Then(form, bytes, n) ==
  IF form.size < 0 THEN form ELSE Out(form.bytes \o bytes, form.size + n)

\* bytes in front of a form that is encoded as if nothing was there.
Behind(bytes, form) ==
  IF form.size < 0 THEN FAIL ELSE Out(bytes \o form.bytes, form.size + Len(bytes))

\* A form with the operand size prefix and the address prefix that were forced.
ForcedForm(op_prefix, a32, opcode, reg, o, n) ==
  Out(RmPrefixes(o, op_prefix, a32) \o opcode \o Rm(reg, o),
      RmPrefixLen(o, op_prefix, a32) + n + RmTailLen(o))

\* The copy of a form that o32 asks for: an operand size prefix is put between the
\* segment prefix of d or s and the rest.
Wide(d, s, form) ==
  LET n == IF d.kind = "MEM" THEN SegmentPrefixLen(d.mem)
           ELSE IF s.kind = "MEM" THEN SegmentPrefixLen(s.mem) ELSE 0
  IN IF form.size < 0 THEN FAIL
     ELSE Out(SubSeq(form.bytes, 1, n) \o <<\h66>> \o SubSeq(form.bytes, n + 1, Len(form.bytes)),
              form.size + 1)

\* Whether two operands have the operand size prefix anyway.
OperandsNaturallyO32(d, s) ==
  \/ d.kind = "REG32" \/ s.kind = "REG32"
  \/ d.kind = "MEM" /\ d.size = 4
  \/ s.kind = "MEM" /\ s.size = 4
=============================================================================
