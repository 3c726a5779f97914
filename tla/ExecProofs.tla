----------------------------- MODULE ExecProofs -----------------------------
(***************************************************************************)
(* The encoders of src/langs/i386/main.c and _86_exec over them: the size  *)
(* an instruction returns, by which the address moves on, is the number of *)
(* bytes it writes.  The code counts and writes in separate places.  First *)
(* each part of an instruction, for all operands, immediates and           *)
(* displacements and for every width of a byte, then the shapes forms are  *)
(* made of; then the encoders, one lemma for each: moves, loads of         *)
(* addresses, extensions, the system's instructions and xchg; arithmetic,  *)
(* shifts, ports and imul; jumps, calls, loops and returns.  Those of the  *)
(* last group write nothing while their target is not known, so that what  *)
(* is counted is what they write in the last pass; and one of their forms  *)
(* has a byte more than it says.  Then what only exists behind prefixes,   *)
(* last the dispatchers and the specification: whichever encoder an        *)
(* instruction goes to, alone or behind prefixes, and in either pass, with *)
(* the one exception SizeIsEmitted names.                                  *)
(***************************************************************************)
EXTENDS Exec386, TLAPS

\* The bytes of a file, the opcodes whose lowest bit is the width, and those a number
\* of a register or of an operand's place is added to.
AByte  == 0..255
Opcode == 0..\hFE
Base   == 0..\hF0
Bytes  == Seq(AByte)

\* What an encoder has written is as long as it says; it has failed, or written something.
Emits(out) ==
  /\ out.bytes \in Bytes /\ out.size \in Int
  /\ out.size < 0 \/ (out.size > 0 /\ Len(out.bytes) = out.size)

----------------------------------------------------------------------------
(* The parts of an instruction                                             *)

\* A sequence of bytes behind another has the length of both.
LEMMA Concat ==
  ASSUME NEW s \in Bytes, NEW t \in Bytes
  PROVE  s \o t \in Bytes /\ Len(s \o t) = Len(s) + Len(t)
BY DEF Bytes

\* Which numbers are bytes, and opcodes.
LEMMA Ranges ==
  /\ \A n \in Int : 0 <= n /\ n <= 255 => n \in AByte
  /\ \A n \in Int : 0 <= n /\ n <= \hFE => n \in Opcode
  /\ \A n \in Int : 0 <= n /\ n <= \hF0 => n \in Base
  /\ \A n \in AByte : n \in Int /\ 0 <= n /\ n <= 255
  /\ \A n \in Opcode : n \in AByte /\ n <= \hFE
  /\ \A n \in Base : n \in Opcode /\ n \in AByte /\ n <= \hF0
<1>1. \A n \in Int : 0 <= n /\ n <= 255 => n \in AByte
  BY DEF AByte
<1>2. \A n \in Int : 0 <= n /\ n <= \hFE => n \in Opcode
  BY DEF Opcode
<1>3. \A n \in Int : 0 <= n /\ n <= \hF0 => n \in Base
  BY DEF Base
<1>4. \A n \in AByte : n \in Int /\ 0 <= n /\ n <= 255
  BY DEF AByte
<1>5. \A n \in Opcode : n \in AByte /\ n <= \hFE
  BY DEF AByte, Opcode
<1>6. \A n \in Base : n \in Opcode /\ n \in AByte /\ n <= \hF0
  BY DEF AByte, Opcode, Base
<1> QED
  BY <1>1, <1>2, <1>3, <1>4, <1>5, <1>6

\* One, two and three bytes.
LEMMA Few ==
  /\ << >> \in Bytes /\ Len(<< >>) = 0
  /\ \A a \in AByte : <<a>> \in Bytes /\ Len(<<a>>) = 1
  /\ \A a, b \in AByte : <<a, b>> \in Bytes /\ Len(<<a, b>>) = 2
  /\ \A a, b, c \in AByte : <<a, b, c>> \in Bytes /\ Len(<<a, b, c>>) = 3
  /\ \A a, b, c, d \in AByte : <<a, b, c, d>> \in Bytes /\ Len(<<a, b, c, d>>) = 4
BY DEF Bytes

\* The widths of data are positive.
LEMMA Widths == BYTE \in 1..256 /\ WORD \in Nat \ {0}
<1>1. BYTE \in 1..256
  BY ByteAssumption
<1>2. BYTE * BYTE \in Nat /\ BYTE * BYTE > 0
  BY <1>1
<1> QED
  BY <1>1, <1>2 DEF WORD

\* An immediate has as many bytes as its width.
LEMMA Immediates ==
  ASSUME NEW v \in Int
  PROVE  /\ Byte(v) \in Bytes /\ Len(Byte(v)) = 1
         /\ Word(v) \in Bytes /\ Len(Word(v)) = 2
         /\ Dword(v) \in Bytes /\ Len(Dword(v)) = 4
         /\ \A size \in {1, 2, 4} : Imm(size, v) \in Bytes /\ Len(Imm(size, v)) = size
<1>1. \A x \in Int : Low(x) \in AByte
  BY Widths DEF Low, AByte
<1>2. \A x \in Int : x \div BYTE \in Int /\ x \div WORD \in Int
  BY Widths
<1>3. \A x \in Int : Byte(x) \in Bytes /\ Len(Byte(x)) = 1
  BY <1>1, Few, Ranges DEF Byte
<1>4. \A x \in Int : Word(x) \in Bytes /\ Len(Word(x)) = 2
  BY <1>1, <1>2, Few, Ranges DEF Word
<1>5. Dword(v) \in Bytes /\ Len(Dword(v)) = 4
  <2>1. v \div WORD \in Int
    BY <1>2
  <2>2. /\ Word(v) \in Bytes /\ Len(Word(v)) = 2
        /\ Word(v \div WORD) \in Bytes /\ Len(Word(v \div WORD)) = 2
    BY <1>4, <2>1
  <2>3. /\ Word(v) \o Word(v \div WORD) \in Bytes
        /\ Len(Word(v) \o Word(v \div WORD)) = 2 + 2
    BY <2>2, Concat
  <2> QED
    BY <2>3 DEF Dword
<1> QED
  BY <1>3, <1>4, <1>5 DEF Imm

\* The prefixes of memory are as long as memory_prefix_len and its kin say.
LEMMA MemoryPrefixes ==
  ASSUME NEW m \in Memory, NEW size
  PROVE  /\ SegmentPrefix(m) \in Bytes /\ Len(SegmentPrefix(m)) = SegmentPrefixLen(m)
         /\ MemoryOperandPrefixes(m, size) \in Bytes
         /\ Len(MemoryOperandPrefixes(m, size)) = MemoryOperandPrefixLen(m, size)
         /\ MemoryOperandPrefixLen(m, size) \in Nat
         /\ SegmentPrefixLen(m) \in {0, 1} /\ SegmentPrefixLen(m) <= MemoryOperandPrefixLen(m, size)
<1>1. SegmentPrefix(m) \in Bytes /\ Len(SegmentPrefix(m)) = SegmentPrefixLen(m)
  <2>1. CASE m.seg_override >= 0
    <3>1. m.seg_override + 1 \in 1..6
      BY <2>1 DEF Memory
    <3>2. SegmentPrefixes[m.seg_override + 1] \in AByte
      BY <3>1 DEF SegmentPrefixes, AByte
    <3> QED
      BY <2>1, <3>2, Few, Ranges DEF SegmentPrefix, SegmentPrefixLen
  <2>2. CASE ~(m.seg_override >= 0)
    BY <2>2, Few, Ranges DEF SegmentPrefix, SegmentPrefixLen
  <2> QED
    BY <2>1, <2>2
<1>2. AddressSizePrefix(m) \in Bytes /\ Len(AddressSizePrefix(m)) = AddressSizePrefixLen(m)
  BY Few, Ranges DEF AddressSizePrefix, AddressSizePrefixLen
<1>3. OperandSizePrefix(size) \in Bytes /\ Len(OperandSizePrefix(size)) = OperandSizePrefixLen(size)
  BY Few, Ranges DEF OperandSizePrefix, OperandSizePrefixLen
<1>4. /\ SegmentPrefix(m) \o OperandSizePrefix(size) \in Bytes
      /\ Len(SegmentPrefix(m) \o OperandSizePrefix(size))
           = SegmentPrefixLen(m) + OperandSizePrefixLen(size)
  BY <1>1, <1>3, Concat
<1>5. /\ MemoryOperandPrefixes(m, size) \in Bytes
      /\ Len(MemoryOperandPrefixes(m, size)) = MemoryOperandPrefixLen(m, size)
  BY <1>2, <1>4, Concat DEF MemoryOperandPrefixes, MemoryOperandPrefixLen
<1>6. /\ SegmentPrefixLen(m) \in {0, 1} /\ OperandSizePrefixLen(size) \in {0, 1}
      /\ AddressSizePrefixLen(m) \in {0, 1}
  BY DEF SegmentPrefixLen, OperandSizePrefixLen, AddressSizePrefixLen
<1> QED
  BY <1>1, <1>5, <1>6 DEF MemoryOperandPrefixLen

\* The operand size prefix, and the two that are forced.
LEMMA OtherPrefixes ==
  /\ \A size : /\ OperandSizePrefix(size) \in Bytes
               /\ Len(OperandSizePrefix(size)) = OperandSizePrefixLen(size)
               /\ OperandSizePrefixLen(size) \in {0, 1}
  /\ \A o, a : /\ ForcedPrefixPair(o, a) \in Bytes
               /\ Len(ForcedPrefixPair(o, a)) = ForcedPrefixPairLen(o, a)
               /\ ForcedPrefixPairLen(o, a) \in 0..2
<1>1. ASSUME NEW size
      PROVE  /\ OperandSizePrefix(size) \in Bytes
             /\ Len(OperandSizePrefix(size)) = OperandSizePrefixLen(size)
             /\ OperandSizePrefixLen(size) \in {0, 1}
  BY Few, Ranges DEF OperandSizePrefix, OperandSizePrefixLen
<1>2. ASSUME NEW o, NEW a
      PROVE  /\ ForcedPrefixPair(o, a) \in Bytes
             /\ Len(ForcedPrefixPair(o, a)) = ForcedPrefixPairLen(o, a)
             /\ ForcedPrefixPairLen(o, a) \in 0..2
  <2> DEFINE p == IF o THEN <<\h66>> ELSE << >>
             q == IF a THEN <<\h67>> ELSE << >>
  <2>1. p \in Bytes /\ Len(p) = IF o THEN 1 ELSE 0
    BY Few, Ranges
  <2>2. q \in Bytes /\ Len(q) = IF a THEN 1 ELSE 0
    BY Few, Ranges
  <2>3. ForcedPrefixPair(o, a) = p \o q
    BY DEF ForcedPrefixPair
  <2> HIDE DEF p, q
  <2> QED
    BY <2>1, <2>2, <2>3, Concat DEF ForcedPrefixPairLen
<1> QED
  BY <1>1, <1>2
\* ModR/M of a register is one byte.
LEMMA Registers ==
  ASSUME NEW reg \in Int, NEW rm \in Int
  PROVE  ModrmReg(reg, rm) \in Bytes /\ Len(ModrmReg(reg, rm)) = 1
<1>1. reg % 8 \in 0..7 /\ rm % 8 \in 0..7
  OBVIOUS
<1>2. \hC0 + 8 * (reg % 8) + (rm % 8) \in AByte
  BY <1>1 DEF AByte
<1> QED
  BY <1>2, Few, Ranges DEF ModrmReg

\* Behind the ModR/M byte of a 16-bit address are as many bytes as memory_tail_len
\* says, [bp] without a displacement included.
LEMMA Tail16 ==
  ASSUME NEW m \in Memory, NEW reg \in Int, m.addr_size # 4
  PROVE  ModrmMem16(reg, m) \in Bytes /\ Len(ModrmMem16(reg, m)) = 1 + MemoryTailLen(m)
<1> DEFINE mod == IF m.direct THEN 0
                  ELSE IF m.rm = 6 /\ ~m.has_disp THEN 1
                  ELSE IF ~m.has_disp THEN 0 ELSE DispMod(m)
           head == 64 * mod + 8 * (reg % 8) + (m.rm % 8)
           tail == CASE m.direct -> Word(m.disp)
                     [] ~m.direct /\ mod = 1 -> Byte(m.disp)
                     [] ~m.direct /\ mod = 2 -> Word(m.disp)
                     [] ~m.direct /\ mod = 0 -> << >>
<1>1. ModrmMem16(reg, m) = <<head>> \o tail
  BY DEF ModrmMem16
<1>2. m.disp \in Int /\ m.rm \in Int /\ m.direct \in BOOLEAN /\ m.has_disp \in BOOLEAN
  BY DEF Memory
<1>3. DispMod(m) = IF FitsI8(m.disp) THEN 1 ELSE 2
  BY DEF DispMod
<1>4. head \in AByte
  <2>1. mod \in {0, 1, 2} /\ reg % 8 \in 0..7 /\ m.rm % 8 \in 0..7
    BY <1>2, <1>3
  <2> HIDE DEF mod
  <2> QED
    BY <2>1 DEF AByte
<1>5. <<head>> \in Bytes /\ Len(<<head>>) = 1
  BY <1>4, Few, Ranges
<1>6. /\ Byte(m.disp) \in Bytes /\ Len(Byte(m.disp)) = 1
      /\ Word(m.disp) \in Bytes /\ Len(Word(m.disp)) = 2
  BY <1>2, Immediates
<1>7. tail \in Bytes /\ Len(tail) = MemoryTailLen(m)
  <2>1. CASE m.direct
    BY <1>6, <2>1 DEF MemoryTailLen
  <2>2. CASE ~m.direct /\ m.rm = 6 /\ ~m.has_disp
    BY <1>6, <2>2 DEF MemoryTailLen
  <2>3. CASE ~m.direct /\ m.rm # 6 /\ ~m.has_disp
    BY <2>3, Few, Ranges DEF MemoryTailLen
  <2>4. CASE ~m.direct /\ m.has_disp /\ FitsI8(m.disp)
    BY <1>3, <1>6, <2>4 DEF MemoryTailLen
  <2>5. CASE ~m.direct /\ m.has_disp /\ ~FitsI8(m.disp)
    BY <1>3, <1>6, <2>5 DEF MemoryTailLen
  <2> QED
    BY <2>1, <2>2, <2>3, <2>4, <2>5
<1> HIDE DEF head, tail
<1> QED
  BY <1>1, <1>5, <1>7, Concat

\* The same of a 32-bit address: [ebp], [esp], an index without a base.
LEMMA Tail32 ==
  ASSUME NEW m \in Memory, NEW reg \in Int, m.addr_size = 4
  PROVE  ModrmMem32(reg, m) \in Bytes /\ Len(ModrmMem32(reg, m)) = 1 + MemoryTailLen(m)
<1> DEFINE mod  == Memory32Mod(m)
           needs == Memory32NeedsSib(m)
           rm   == IF m.direct THEN 5 ELSE IF needs THEN 4 ELSE m.base
           head == 64 * mod + 8 * (reg % 8) + (rm % 8)
           sib  == IF needs THEN Sib(m) ELSE << >>
           disp == IF m.direct THEN Dword(m.disp)
                   ELSE IF m.base < 0 THEN Dword(IF m.has_disp THEN m.disp ELSE 0)
                   ELSE IF mod = 1 THEN Byte(m.disp)
                   ELSE IF mod = 2 THEN Dword(m.disp) ELSE << >>
<1>1. ModrmMem32(reg, m) = (<<head>> \o sib) \o disp
  BY DEF ModrmMem32
<1>2. /\ m.disp \in Int /\ m.base \in Int /\ m.index \in Int /\ m.scale \in Int
      /\ m.direct \in BOOLEAN /\ m.has_disp \in BOOLEAN
  BY DEF Memory
<1>3. mod \in {0, 1, 2}
  BY <1>2 DEF Memory32Mod, DispMod
<1>4. <<head>> \in Bytes /\ Len(<<head>>) = 1
  <2>1. rm \in Int
    BY <1>2
  <2> HIDE DEF mod, rm
  <2>2. reg % 8 \in 0..7 /\ rm % 8 \in 0..7
    BY <2>1
  <2>3. head \in AByte
    BY <1>3, <2>2 DEF AByte
  <2> QED
    BY <2>3, Few, Ranges
<1>5. sib \in Bytes /\ Len(sib) = IF needs THEN 1 ELSE 0
  <2> DEFINE i == IF m.index >= 0 THEN m.index ELSE 4
             b == IF m.base >= 0 THEN m.base ELSE 5
  <2>1. i \in Int /\ b \in Int
    BY <1>2
  <2>2. Sib(m) = <<64 * (m.scale % 4) + 8 * (i % 8) + (b % 8)>>
    BY DEF Sib
  <2> HIDE DEF i, b
  <2>3. m.scale % 4 \in 0..3 /\ i % 8 \in 0..7 /\ b % 8 \in 0..7
    BY <1>2, <2>1
  <2>4. 64 * (m.scale % 4) + 8 * (i % 8) + (b % 8) \in AByte
    BY <2>3 DEF AByte
  <2>5. Sib(m) \in Bytes /\ Len(Sib(m)) = 1
    BY <2>2, <2>4, Few, Ranges
  <2>6. CASE needs
    BY <2>5, <2>6
  <2>7. CASE ~needs
    BY <2>7, Few
  <2> QED
    BY <2>6, <2>7
<1>6. /\ Byte(m.disp) \in Bytes /\ Len(Byte(m.disp)) = 1
      /\ Dword(m.disp) \in Bytes /\ Len(Dword(m.disp)) = 4
      /\ Dword(0) \in Bytes /\ Len(Dword(0)) = 4
  BY <1>2, Immediates
<1>7. disp \in Bytes /\ Len(disp) = Memory32DispLen(m, mod)
  <2>1. CASE m.direct
    BY <1>6, <2>1 DEF Memory32DispLen
  <2>2. CASE ~m.direct /\ m.base < 0
    <3>1. disp = Dword(IF m.has_disp THEN m.disp ELSE 0)
      BY <2>2
    <3>2. disp = Dword(m.disp) \/ disp = Dword(0)
      BY <3>1
    <3> HIDE DEF disp, mod, needs
    <3>3. Memory32DispLen(m, mod) = 4
      BY <1>2, <2>2 DEF Memory32DispLen
    <3>4. disp \in Bytes
      BY <1>6, <3>2
    <3>5. Len(disp) = 4
      BY <1>6, <3>2
    <3> QED
      BY <3>3, <3>4, <3>5
  <2>3. CASE ~m.direct /\ ~(m.base < 0)
    <3>1. m.base >= 0
      BY <1>2, <2>3
    <3> HIDE DEF mod
    <3> QED
      BY <1>3, <1>6, <2>3, <3>1, Few DEF Memory32DispLen
  <2> QED
    BY <2>1, <2>2, <2>3
<1>8. MemoryTailLen(m) = (IF needs THEN 1 ELSE 0) + Memory32DispLen(m, mod)
  BY DEF MemoryTailLen
<1>9. Memory32DispLen(m, mod) \in Int
  BY <1>2 DEF Memory32DispLen
<1> HIDE DEF head, sib, disp, needs, mod
<1>10. /\ <<head>> \o sib \in Bytes
       /\ Len(<<head>> \o sib) = 1 + (IF needs THEN 1 ELSE 0)
  BY <1>4, <1>5, Concat
<1>11. (<<head>> \o sib) \o disp \in Bytes
       /\ Len((<<head>> \o sib) \o disp) = 1 + (IF needs THEN 1 ELSE 0) + Memory32DispLen(m, mod)
  BY <1>7, <1>10, Concat
<1> QED
  BY <1>1, <1>8, <1>9, <1>11

\* ModR/M, SIB and displacement: what emit_modrm_mem writes is what memory_tail_len counts.
THEOREM TailIsCounted ==
  ASSUME NEW m \in Memory, NEW reg \in Int
  PROVE  /\ ModrmMem(reg, m) \in Bytes
         /\ Len(ModrmMem(reg, m)) = 1 + MemoryTailLen(m)
         /\ MemoryTailLen(m) \in Nat
<1>1. ModrmMem(reg, m) \in Bytes /\ Len(ModrmMem(reg, m)) = 1 + MemoryTailLen(m)
  BY Tail16, Tail32 DEF ModrmMem
<1>2. m.base \in Int
  BY DEF Memory
<1>3. MemoryTailLen(m) \in Nat
  BY <1>2 DEF MemoryTailLen, Memory32DispLen
<1> QED
  BY <1>1, <1>3
----------------------------------------------------------------------------
(* The shapes of forms                                                     *)

\* The operands of an instruction.
AreOperands(args) == Len(args) \in Nat /\ \A n \in 1..Len(args) : IsOperand(args[n])

\* The fields of an operand.
LEMMA Fields ==
  ASSUME NEW o, IsOperand(o)
  PROVE  /\ o.reg \in 0..7 /\ o.imm \in Int /\ o.seg \in Int /\ o.mem \in Memory
         /\ o.size \in {0, 1, 2, 4}
         /\ o.kind \in GPR => o.size \in {1, 2, 4}
         /\ o.kind \in R16or32 => o.size \in {2, 4}
BY DEF IsOperand, Operand, GPR, R16or32

\* Forcing an address size leaves an operand of the same kind and size.
LEMMA ForcedOperand ==
  ASSUME NEW o, IsOperand(o), NEW f
  PROVE  /\ IsOperand(Forced(o, f)) /\ IsOperand(ForceDirectMemoryA32(o))
         /\ Forced(o, f).kind = o.kind /\ Forced(o, f).size = o.size
         /\ ForceDirectMemoryA32(o).kind = o.kind /\ ForceDirectMemoryA32(o).size = o.size
<1> DEFINE p == [o EXCEPT !.mem.addr_size = 4]
<1>1. o.mem \in Memory
  BY DEF IsOperand, Operand
<1>2. [o.mem EXCEPT !.addr_size = 4] \in Memory
  BY <1>1 DEF Memory
<1>3. p = [o EXCEPT !.mem = [o.mem EXCEPT !.addr_size = 4]]
  OBVIOUS
<1>4. /\ p.kind = o.kind /\ p.size = o.size
      /\ p \in Operand
  <2> HIDE DEF p
  <2> QED
    BY <1>2, <1>3 DEF IsOperand, Operand
<1> HIDE DEF p
<1>5. IsOperand(p)
  BY <1>4 DEF IsOperand
<1>6. ForceDirectMemoryA32(o) = p \/ ForceDirectMemoryA32(o) = o
  BY DEF ForceDirectMemoryA32, p
<1>7. Forced(o, f) = p \/ Forced(o, f) = o
  BY <1>6 DEF Forced
<1> QED
  BY <1>4, <1>5, <1>6, <1>7

\* A failure, and bytes with their own length.
LEMMA Outs0 ==
  /\ Emits(FAIL)
  /\ \A bytes \in Bytes : \A size \in Nat :
       size = Len(bytes) /\ size > 0 => Emits(Out(bytes, size))
BY Few, Ranges DEF Emits, FAIL, Out

\* So many bytes.
Counts(bytes, n) == bytes \in Bytes /\ n \in Nat /\ Len(bytes) = n

\* How bytes are counted, and when a count makes a form.
LEMMA Counting ==
  /\ Counts(<< >>, 0)
  /\ \A x \in AByte : Counts(<<x>>, 1)
  /\ \A x, y \in AByte : Counts(<<x, y>>, 2)
  /\ \A x, y, z \in AByte : Counts(<<x, y, z>>, 3)
  /\ \A x, y, z, w \in AByte : Counts(<<x, y, z, w>>, 4)
  /\ \A a, b, m, n : Counts(a, m) /\ Counts(b, n) => Counts(a \o b, m + n)
  /\ \A bytes, n : Counts(bytes, n) /\ n > 0 => Emits(Out(bytes, n))
  /\ Emits(FAIL)
<1>1. ASSUME NEW a, NEW b, NEW m, NEW n, Counts(a, m), Counts(b, n)
      PROVE  Counts(a \o b, m + n)
  BY <1>1, Concat DEF Counts
<1>2. ASSUME NEW bytes, NEW n, Counts(bytes, n), n > 0
      PROVE  Emits(Out(bytes, n))
  BY <1>2, Outs0 DEF Counts
<1>3. /\ Counts(<< >>, 0)
      /\ \A x \in AByte : Counts(<<x>>, 1)
      /\ \A x, y \in AByte : Counts(<<x, y>>, 2)
      /\ \A x, y, z \in AByte : Counts(<<x, y, z>>, 3)
      /\ \A x, y, z, w \in AByte : Counts(<<x, y, z, w>>, 4)
  BY Few, Ranges DEF Counts
<1> QED
  BY <1>1, <1>2, <1>3, Outs0

\* The parts, counted.
LEMMA Parts ==
  /\ \A size : Counts(OperandSizePrefix(size), OperandSizePrefixLen(size))
  /\ \A o, a : Counts(ForcedPrefixPair(o, a), ForcedPrefixPairLen(o, a))
  /\ \A m \in Memory : \A size : Counts(MemoryOperandPrefixes(m, size), MemoryOperandPrefixLen(m, size))
  /\ \A reg, rm \in Int : Counts(ModrmReg(reg, rm), 1)
  /\ \A m \in Memory : \A reg \in Int : Counts(ModrmMem(reg, m), 1 + MemoryTailLen(m))
  /\ \A m \in Memory : MemoryTailLen(m) \in Nat
  /\ \A v \in Int : Counts(Byte(v), 1) /\ Counts(Word(v), 2) /\ Counts(Dword(v), 4)
  /\ \A v \in Int : \A size \in {1, 2, 4} : Counts(Imm(size, v), size)
<1>1. ASSUME NEW m \in Memory, NEW reg \in Int
      PROVE  Counts(ModrmMem(reg, m), 1 + MemoryTailLen(m))
  BY TailIsCounted DEF Counts
<1>2. ASSUME NEW m \in Memory, NEW size
      PROVE  Counts(MemoryOperandPrefixes(m, size), MemoryOperandPrefixLen(m, size))
  BY MemoryPrefixes DEF Counts
<1>3. ASSUME NEW v \in Int
      PROVE  /\ Counts(Byte(v), 1) /\ Counts(Word(v), 2) /\ Counts(Dword(v), 4)
             /\ \A size \in {1, 2, 4} : Counts(Imm(size, v), size)
  BY <1>3, Immediates DEF Counts
<1>4. ASSUME NEW reg \in Int, NEW rm \in Int
      PROVE  Counts(ModrmReg(reg, rm), 1)
  BY Registers DEF Counts
<1>5. ASSUME NEW size
      PROVE  Counts(OperandSizePrefix(size), OperandSizePrefixLen(size))
  BY OtherPrefixes DEF Counts
<1>6. ASSUME NEW o, NEW a
      PROVE  Counts(ForcedPrefixPair(o, a), ForcedPrefixPairLen(o, a))
  BY OtherPrefixes DEF Counts
<1>7. \A m \in Memory : MemoryTailLen(m) \in Nat
  BY TailIsCounted
<1> QED
  BY <1>1, <1>2, <1>3, <1>4, <1>5, <1>6, <1>7

\* Prefixes counted as k, an opcode of one or two bytes, and the operand in a register.
LEMMA RegParts ==
  ASSUME NEW p, NEW k, Counts(p, k), NEW reg \in Int, NEW rm \in Int, NEW opcode
  PROVE  /\ Counts(opcode, 1) => Emits(Out(p \o opcode \o ModrmReg(reg, rm), k + 2))
         /\ Counts(opcode, 2) => Emits(Out(p \o opcode \o ModrmReg(reg, rm), k + 3))
<1> DEFINE t == ModrmReg(reg, rm)
<1>1. Counts(t, 1) /\ k \in Nat
  BY Parts DEF Counts
<1> HIDE DEF t
<1>2. ASSUME NEW n \in {1, 2}, Counts(opcode, n)
      PROVE  Emits(Out(p \o opcode \o t, (k + n) + 1))
  <2>1. Counts(p \o opcode, k + n)
    BY <1>2, Counting, Ranges
  <2>2. Counts((p \o opcode) \o t, (k + n) + 1)
    BY <1>1, <2>1, Counting, Ranges
  <2>3. (k + n) + 1 > 0
    BY <1>1
  <2> QED
    BY <2>2, <2>3, Counting, Ranges
<1>3. (k + 1) + 1 = k + 2 /\ (k + 2) + 1 = k + 3
  BY <1>1
<1> QED
  BY <1>2, <1>3 DEF t

\* The same with the operand in memory.
LEMMA MemParts ==
  ASSUME NEW p, NEW k, Counts(p, k), NEW reg \in Int, NEW m \in Memory, NEW opcode
  PROVE  /\ Counts(opcode, 1) => Emits(Out(p \o opcode \o ModrmMem(reg, m), k + 2 + MemoryTailLen(m)))
         /\ Counts(opcode, 2) => Emits(Out(p \o opcode \o ModrmMem(reg, m), k + 3 + MemoryTailLen(m)))
<1> DEFINE t == ModrmMem(reg, m)
           l == MemoryTailLen(m)
<1>1. Counts(t, 1 + l) /\ l \in Nat /\ k \in Nat
  BY Parts DEF Counts
<1> HIDE DEF t, l
<1>2. ASSUME NEW n \in {1, 2}, Counts(opcode, n)
      PROVE  Emits(Out(p \o opcode \o t, (k + n) + (1 + l)))
  <2>1. Counts(p \o opcode, k + n)
    BY <1>2, Counting, Ranges
  <2>2. Counts((p \o opcode) \o t, (k + n) + (1 + l))
    BY <1>1, <2>1, Counting, Ranges
  <2>3. (k + n) + (1 + l) > 0
    BY <1>1
  <2> QED
    BY <2>2, <2>3, Counting, Ranges
<1>3. (k + 1) + (1 + l) = k + 2 + l /\ (k + 2) + (1 + l) = k + 3 + l
  BY <1>1
<1> QED
  BY <1>2, <1>3 DEF t, l

\* A form of registers.
LEMMA RegForms ==
  ASSUME NEW size, NEW opcode, NEW reg \in Int, NEW rm \in Int
  PROVE  /\ Counts(opcode, 1) => Emits(RegForm(size, opcode, reg, rm, 2))
         /\ Counts(opcode, 2) => Emits(RegForm(size, opcode, reg, rm, 3))
<1>1. Counts(OperandSizePrefix(size), OperandSizePrefixLen(size))
  BY Parts
<1> QED
  BY <1>1, RegParts DEF RegForm

\* A form of memory.
LEMMA MemForms ==
  ASSUME NEW size, NEW opcode, NEW reg \in Int, NEW m \in Memory
  PROVE  /\ Counts(opcode, 1) => Emits(MemForm(size, opcode, reg, m, 2))
         /\ Counts(opcode, 2) => Emits(MemForm(size, opcode, reg, m, 3))
<1>1. Counts(MemoryOperandPrefixes(m, size), MemoryOperandPrefixLen(m, size))
  BY Parts
<1> QED
  BY <1>1, MemParts DEF MemForm

\* A form of either.
LEMMA RmForms ==
  ASSUME NEW size, NEW opcode, NEW reg \in Int, NEW o, IsOperand(o)
  PROVE  /\ Counts(opcode, 1) => Emits(RmForm(size, opcode, reg, o, 2))
         /\ Counts(opcode, 2) => Emits(RmForm(size, opcode, reg, o, 3))
<1>1. o.reg \in Int /\ o.mem \in Memory
  BY Fields
<1> QED
  BY <1>1, RegForms, MemForms DEF RmForm

\* A form of bytes that say everything themselves.
LEMMA PlainForms ==
  ASSUME NEW size, NEW bytes, Counts(bytes, 1)
  PROVE  Emits(PlainForm(size, bytes, 1))
<1>1. /\ Counts(OperandSizePrefix(size), OperandSizePrefixLen(size))
      /\ OperandSizePrefixLen(size) + 1 > 0
  BY Parts DEF Counts
<1> QED
  BY <1>1, Counting, Ranges DEF PlainForm

\* A form with forced prefixes.
LEMMA ForcedForms ==
  ASSUME NEW op_prefix, NEW a32, NEW reg \in Int, NEW o, IsOperand(o), NEW opcode
  PROVE  /\ Counts(opcode, 1) => Emits(ForcedForm(op_prefix, a32, opcode, reg, o, 2))
         /\ Counts(opcode, 2) => Emits(ForcedForm(op_prefix, a32, opcode, reg, o, 3))
<1>1. o.mem \in Memory /\ o.reg \in Int
  BY Fields
<1>2. CASE o.kind = "MEM"
  <2> DEFINE size == IF op_prefix THEN 4 ELSE 2
             p == MemoryOperandPrefixes(o.mem, size)
             k == MemoryOperandPrefixLen(o.mem, size)
  <2>1. Counts(p, k)
    BY <1>1, Parts
  <2>2. \A n : ForcedForm(op_prefix, a32, opcode, reg, o, n)
                 = Out(p \o opcode \o ModrmMem(reg, o.mem), k + n + MemoryTailLen(o.mem))
    BY <1>2 DEF ForcedForm, RmPrefixes, RmPrefixLen, Rm, RmTailLen
  <2> HIDE DEF p, k
  <2> QED
    BY <1>1, <2>1, <2>2, MemParts
<1>3. CASE o.kind # "MEM"
  <2> DEFINE p == ForcedPrefixPair(op_prefix, a32)
             k == ForcedPrefixPairLen(op_prefix, a32)
  <2>1. Counts(p, k) /\ k \in Nat
    BY Parts DEF Counts
  <2>2. \A n \in Int : ForcedForm(op_prefix, a32, opcode, reg, o, n)
                         = Out(p \o opcode \o ModrmReg(reg, o.reg), k + n)
    BY <1>3, <2>1 DEF ForcedForm, RmPrefixes, RmPrefixLen, Rm, RmTailLen
  <2> HIDE DEF p, k
  <2> QED
    BY <1>1, <2>1, <2>2, RegParts
<1> QED
  BY <1>2, <1>3

\* Bytes that are counted, behind the prefixes that are forced.
LEMMA PairForms ==
  ASSUME NEW o, NEW a, NEW bytes, NEW n, Counts(bytes, n), n > 0
  PROVE  /\ Emits(Out(ForcedPrefixPair(o, a) \o bytes, ForcedPrefixPairLen(o, a) + n))
         /\ Emits(Out(ForcedPrefixPair(o, a) \o bytes, n + ForcedPrefixPairLen(o, a)))
<1> DEFINE p == ForcedPrefixPair(o, a)
           k == ForcedPrefixPairLen(o, a)
<1>1. Counts(p, k) /\ k \in Nat /\ n \in Nat
  BY Parts DEF Counts
<1> HIDE DEF p, k
<1>2. Counts(p \o bytes, k + n)
  BY <1>1, Counting, Ranges
<1>3. k + n = n + k /\ k + n > 0
  BY <1>1
<1>4. Emits(Out(p \o bytes, k + n))
  BY <1>2, <1>3, Counting, Ranges
<1> QED
  BY <1>3, <1>4 DEF p, k

\* A guard, an immediate, and prefixes in front leave a form counted as it was.
LEMMA Built ==
  ASSUME NEW form, Emits(form)
  PROVE  /\ \A guard : Emits(Check(guard, form))
         /\ \A bytes, n : Counts(bytes, n) => Emits(Then(form, bytes, n)) /\ Emits(Behind(bytes, form))
<1>1. ASSUME NEW guard
      PROVE  Emits(Check(guard, form))
  BY Outs0 DEF Check
<1>2. ASSUME NEW bytes \in Bytes, form.size > 0
      PROVE  /\ Emits(Out(form.bytes \o bytes, form.size + Len(bytes)))
             /\ Emits(Out(bytes \o form.bytes, form.size + Len(bytes)))
  <2>1. form.bytes \in Bytes /\ form.size \in Nat /\ Len(form.bytes) = form.size
    BY <1>2 DEF Emits
  <2>2. Len(bytes) \in Nat
    BY DEF Bytes
  <2>3. /\ form.bytes \o bytes \in Bytes /\ Len(form.bytes \o bytes) = form.size + Len(bytes)
        /\ bytes \o form.bytes \in Bytes /\ Len(bytes \o form.bytes) = Len(bytes) + form.size
    BY <2>1, Concat
  <2>4. /\ form.size + Len(bytes) \in Nat /\ form.size + Len(bytes) > 0
        /\ Len(bytes) + form.size = form.size + Len(bytes)
    BY <1>2, <2>1, <2>2
  <2> QED
    BY <2>3, <2>4, Outs0
<1>3. form.size < 0 \/ form.size > 0
  BY DEF Emits
<1>4. ASSUME NEW bytes \in Bytes
      PROVE  Emits(Then(form, bytes, Len(bytes))) /\ Emits(Behind(bytes, form))
  BY <1>2, <1>3, Outs0 DEF Then, Behind
<1>5. ASSUME NEW bytes, NEW n, Counts(bytes, n)
      PROVE  Emits(Then(form, bytes, n)) /\ Emits(Behind(bytes, form))
  BY <1>4, <1>5 DEF Counts
<1> QED
  BY <1>1, <1>5

\* An operand size prefix put behind the segment prefix.
LEMMA Widened ==
  ASSUME NEW d, IsOperand(d), NEW s, IsOperand(s), NEW form, Emits(form)
  PROVE  Emits(Wide(d, s, form))
<1> DEFINE n == IF d.kind = "MEM" THEN SegmentPrefixLen(d.mem)
                ELSE IF s.kind = "MEM" THEN SegmentPrefixLen(s.mem) ELSE 0
           b == form.bytes
           u == SubSeq(b, 1, n)
           v == SubSeq(b, n + 1, Len(b))
<1>1. n \in {0, 1}
  BY Fields, MemoryPrefixes
<1>2. CASE form.size < 0
  BY <1>2, Outs0 DEF Wide
<1>3. CASE ~(form.size < 0)
  <2>1. b \in Bytes /\ form.size \in Nat /\ Len(b) = form.size /\ form.size > 0
    BY <1>3 DEF Emits
  <2>2. Wide(d, s, form) = Out(u \o <<\h66>> \o v, form.size + 1)
    BY <1>3 DEF Wide
  <2> HIDE DEF n, b
  <2>3. u \in Bytes /\ Len(u) = n
    BY <1>1, <2>1 DEF Bytes
  <2>4. v \in Bytes /\ Len(v) = form.size - n
    BY <1>1, <2>1 DEF Bytes
  <2>5. <<\h66>> \in Bytes /\ Len(<<\h66>>) = 1
    BY Few, Ranges
  <2> HIDE DEF u, v
  <2>6. u \o <<\h66>> \in Bytes /\ Len(u \o <<\h66>>) = n + 1
    BY <2>3, <2>5, Concat
  <2>7. /\ u \o <<\h66>> \o v \in Bytes
        /\ Len(u \o <<\h66>> \o v) = n + 1 + (form.size - n)
    BY <2>4, <2>6, Concat
  <2>8. n + 1 + (form.size - n) = form.size + 1 /\ form.size + 1 \in Nat /\ form.size + 1 > 0
    BY <1>1, <2>1
  <2> QED
    BY <2>2, <2>7, <2>8, Outs0
<1> QED
  BY <1>2, <1>3

\* What the encoders take from an operand, and the opcode that depends on its size.
LEMMA Taken ==
  /\ \A o : IsOperand(o) =>
       /\ o.reg \in Int /\ 0 <= o.reg /\ o.reg <= 7
       /\ o.imm \in Int /\ o.seg \in Int /\ o.mem \in Memory /\ o.mem.disp \in Int
       /\ o.kind \in GPR => o.size \in {1, 2, 4}
  /\ \A size : W(size) \in {0, 1}
BY Fields DEF W, Memory

\* The opcodes, of one byte or behind 0F, with the width or a register in them.
LEMMA Opcodes ==
  /\ \A x \in AByte : Counts(<<x>>, 1) /\ Counts(<<\h0F, x>>, 2)
  /\ \A x \in Opcode : \A size : x + W(size) \in AByte /\ Counts(<<x + W(size)>>, 1)
  /\ \A x \in Base : \A o : IsOperand(o) => x + o.reg \in AByte /\ Counts(<<x + o.reg>>, 1)
<1>1. \A x \in AByte : Counts(<<x>>, 1) /\ Counts(<<\h0F, x>>, 2)
  <2>1. \h0F \in AByte
    BY Ranges
  <2> QED
    BY <2>1, Counting
<1>2. ASSUME NEW x \in Opcode, NEW size
      PROVE  x + W(size) \in AByte
  <2>1. x \in Int /\ 0 <= x /\ x <= 254
    BY Ranges
  <2>2. W(size) \in {0, 1}
    BY Taken
  <2>3. x + W(size) \in Int /\ 0 <= x + W(size) /\ x + W(size) <= 255
    BY <2>1, <2>2
  <2> QED
    BY <2>3, Ranges
<1>3. ASSUME NEW x \in Base, NEW o, IsOperand(o)
      PROVE  x + o.reg \in AByte
  <2>1. x \in Int /\ 0 <= x /\ x <= 240
    BY Ranges
  <2>2. o.reg \in Int /\ 0 <= o.reg /\ o.reg <= 7
    BY <1>3, Taken
  <2>3. x + o.reg \in Int /\ 0 <= x + o.reg /\ x + o.reg <= 255
    BY <2>1, <2>2
  <2> QED
    BY <2>3, Ranges
<1> QED
  BY <1>1, <1>2, <1>3

\* A register with forced prefixes and an opcode of one or two bytes.
LEMMA PairRegs ==
  ASSUME NEW op, NEW a32, NEW reg \in Int, NEW rm \in Int, NEW opcode
  PROVE  /\ Counts(opcode, 1) =>
              Emits(Out(ForcedPrefixPair(op, a32) \o opcode \o ModrmReg(reg, rm),
                        ForcedPrefixPairLen(op, a32) + 2))
         /\ Counts(opcode, 2) =>
              Emits(Out(ForcedPrefixPair(op, a32) \o opcode \o ModrmReg(reg, rm),
                        ForcedPrefixPairLen(op, a32) + 3))
<1>1. Counts(ForcedPrefixPair(op, a32), ForcedPrefixPairLen(op, a32))
  BY Parts
<1> QED
  BY <1>1, RegParts

----------------------------------------------------------------------------
(* Moves                                                                   *)

\* Through the accumulator.
LEMMA MovDirectEmits ==
  ASSUME NEW opcode \in Opcode, NEW acc, IsOperand(acc), NEW o, IsOperand(o)
  PROVE  Emits(MovDirect(opcode, acc, o))
<1> DEFINE p == MemoryOperandPrefixes(o.mem, acc.size)
           k == MemoryOperandPrefixLen(o.mem, acc.size)
           b == <<opcode + W(acc.size)>>
<1>1. Counts(p, k) /\ k \in Nat
  BY Taken, Parts DEF Counts
<1>2. Counts(b, 1)
  BY Opcodes
<1>3. Counts(Word(o.mem.disp), 2)
  BY Taken, Parts
<1> HIDE DEF p, k, b
<1>4. Emits(Out(p \o b, k + 1))
  <2>1. Counts(p \o b, k + 1)
    BY <1>1, <1>2, Counting, Ranges
  <2>2. k + 1 > 0
    BY <1>1
  <2> QED
    BY <2>1, <2>2, Counting, Ranges
<1>5. Emits(Then(Out(p \o b, k + 1), Word(o.mem.disp), 2))
  BY <1>3, <1>4, Built
<1>6. MovDirect(opcode, acc, o)
        = Check(MemorySizeMatches(o, acc.size), Then(Out(p \o b, k + 1), Word(o.mem.disp), 2))
  BY DEF MovDirect, p, k, b
<1> QED
  BY <1>5, <1>6, Built

\* To and from special registers.
LEMMA MovSpecialEmits ==
  ASSUME NEW d, IsOperand(d), NEW s, IsOperand(s),
         \/ d.kind = "REG32" /\ s.kind \in {"CR", "DR", "TR"}
         \/ s.kind = "REG32" /\ d.kind \in {"CR", "DR", "TR"}
  PROVE  Emits(MovSpecial(d, s))
<1>1. Counts(ModrmReg(s.reg, d.reg), 1) /\ Counts(ModrmReg(d.reg, s.reg), 1)
  BY Taken, Parts
<1>2. ASSUME NEW x \in AByte, NEW t, Counts(t, 1)
      PROVE  Emits(Out(<<\h0F, x>> \o t, 3))
  <2>1. Counts(<<\h0F, x>>, 2)
    BY Counting, Ranges
  <2>2. Counts(<<\h0F, x>> \o t, 2 + 1)
    BY <1>2, <2>1, Counting, Ranges
  <2> QED
    BY <2>2, Counting, Ranges
<1> DEFINE opcode(kind) == CASE kind = "CR" -> \h20 [] kind = "DR" -> \h21 [] kind = "TR" -> \h24
<1>3. CASE d.kind = "REG32"
  <2>1. opcode(s.kind) \in AByte
    BY <1>3, Ranges
  <2>2. MovSpecial(d, s) = Out(<<\h0F, opcode(s.kind)>> \o ModrmReg(s.reg, d.reg), 3)
    BY <1>3 DEF MovSpecial
  <2> HIDE DEF opcode
  <2> QED
    BY Ranges, <1>1, <1>2, <2>1, <2>2
<1>4. CASE d.kind # "REG32"
  <2>1. opcode(d.kind) + 2 \in AByte
    BY <1>4, Ranges
  <2>2. MovSpecial(d, s) = Out(<<\h0F, opcode(d.kind) + 2>> \o ModrmReg(d.reg, s.reg), 3)
    BY <1>4 DEF MovSpecial
  <2> HIDE DEF opcode
  <2> QED
    BY Ranges, <1>1, <1>2, <2>1, <2>2
<1> QED
  BY <1>3, <1>4

\* mov.
LEMMA MovEmits ==
  ASSUME NEW d, IsOperand(d), NEW s, IsOperand(s)
  PROVE  Emits(EncodeMov(d, s))
<1>1. \A x \in Opcode : \A size : Counts(<<x + W(size)>>, 1)
  BY Opcodes
<1>2. /\ d.reg \in Int /\ d.mem \in Memory /\ s.reg \in Int /\ s.mem \in Memory /\ s.imm \in Int
      /\ d.kind \in GPR => d.size \in {1, 2, 4}
  BY Taken
<1>3. d.size \in {1, 2, 4} => Counts(Imm(d.size, s.imm), d.size)
  BY <1>2, Parts
<1>4. Emits(MovImmediate(d, s))
  <2> DEFINE x == (IF d.size = 1 THEN \hB0 ELSE \hB8) + d.reg
             y == \hC6 + W(d.size)
  <2>1. Counts(<<x>>, 1)
    BY Opcodes, Ranges
  <2>2. Counts(<<y>>, 1)
    BY Ranges, <1>1
  <2>3. MovImmediate(d, s) =
          CASE d.kind \in GPR ->
                 Check(FitsImm(d.size, s.imm),
                       Then(PlainForm(d.size, <<x>>, 1), Imm(d.size, s.imm), d.size))
            [] d.kind = "MEM" ->
                 IF d.size \notin {1, 2, 4} \/ ~FitsImm(d.size, s.imm) THEN FAIL
                 ELSE Then(MemForm(d.size, <<y>>, 0, d.mem, 2), Imm(d.size, s.imm), d.size)
            [] OTHER -> FAIL
    BY DEF MovImmediate
  <2> HIDE DEF x, y
  <2>4. Emits(PlainForm(d.size, <<x>>, 1)) /\ Emits(MemForm(d.size, <<y>>, 0, d.mem, 2))
    BY <1>2, <2>1, <2>2, PlainForms, MemForms
  <2>5. d.size \in {1, 2, 4} =>
          /\ Emits(Then(PlainForm(d.size, <<x>>, 1), Imm(d.size, s.imm), d.size))
          /\ Emits(Then(MemForm(d.size, <<y>>, 0, d.mem, 2), Imm(d.size, s.imm), d.size))
    BY <1>3, <2>4, Built
  <2>6. d.kind \in GPR =>
          Emits(Check(FitsImm(d.size, s.imm),
                      Then(PlainForm(d.size, <<x>>, 1), Imm(d.size, s.imm), d.size)))
    BY <1>2, <2>5, Built
  <2> QED
    BY <2>3, <2>5, <2>6, Counting, Ranges
<1>5. Emits(MovDirect(\hA0, d, s)) /\ Emits(MovDirect(\hA2, s, d))
  BY Ranges, MovDirectEmits
<1>6. /\ Emits(RegForm(d.size, <<\h88 + W(d.size)>>, s.reg, d.reg, 2))
      /\ Emits(MemForm(d.size, <<\h8A + W(d.size)>>, d.reg, s.mem, 2))
      /\ Emits(MemForm(s.size, <<\h88 + W(s.size)>>, s.reg, d.mem, 2))
  BY Ranges, <1>1, <1>2, RegForms, MemForms
<1>7. Emits(RmForm(2, <<\h8C>>, s.reg, d, 2)) /\ Emits(RmForm(2, <<\h8E>>, d.reg, s, 2))
  <2>1. Counts(<<\h8C>>, 1) /\ Counts(<<\h8E>>, 1)
    BY Counting, Ranges
  <2> QED
    BY <1>2, <2>1, RmForms
<1> QED
  BY <1>4, <1>5, <1>6, <1>7, MovSpecialEmits, Built, Counting, Ranges DEF EncodeMov

----------------------------------------------------------------------------
(* Loads of an address or of a far pointer                                 *)

\* The number lea takes for an address is one.
LEMMA LeaOperand ==
  ASSUME NEW s, IsOperand(s)
  PROVE  IsOperand(LeaSource(s))
<1> DEFINE m == DirectMemory(s.imm, -1)
           t == [s EXCEPT !.kind = "MEM"]
           u == [t EXCEPT !.mem = m]
<1>1. m \in Memory
  <2>1. s.imm \in Int
    BY Taken
  <2> QED
    BY <2>1 DEF DirectMemory, Memory
<1>2. t.kind = "MEM" /\ t.size = s.size /\ t \in Operand
  BY DEF IsOperand, Operand
<1>3. LeaSource(s) = u \/ LeaSource(s) = s
  BY DEF LeaSource
<1> HIDE DEF m, t
<1>4. u.kind = "MEM" /\ u \in Operand
  BY <1>1, <1>2 DEF Operand
<1> HIDE DEF u
<1>5. IsOperand(u)
  BY <1>4 DEF IsOperand
<1> QED
  BY <1>3, <1>5

\* lea, lds, les, lfs, lgs, lss and bound, on their own and behind prefixes.
LEMMA LoadsEmit ==
  ASSUME NEW d, IsOperand(d), NEW s, IsOperand(s), NEW opcode \in AByte, NEW f
  PROVE  /\ Emits(EncodeLea(d, s)) /\ Emits(EncodeLeaPrefixedOperands(d, s, f))
         /\ Emits(EncodeFarLoad(d, s, opcode)) /\ Emits(EncodeFarLoadPrefixedOperands(d, s, opcode, f))
         /\ Emits(EncodeFarLoad0F(d, s, opcode)) /\ Emits(EncodeFarLoad0FPrefixedOperands(d, s, opcode, f))
         /\ Emits(EncodeBound(d, s)) /\ Emits(EncodeBoundPrefixedOperands(d, s, f))
<1> DEFINE a == Forced(s, f)
           l == LeaSource(s)
           fl == Forced(l, f)
<1>1. IsOperand(a) /\ IsOperand(l) /\ IsOperand(fl)
  BY LeaOperand, ForcedOperand
<1>2. /\ d.reg \in Int /\ s.mem \in Memory /\ a.mem \in Memory /\ l.mem \in Memory
      /\ fl.mem \in Memory
  BY <1>1, Taken
<1>3. Counts(<<opcode>>, 1) /\ Counts(<<\h0F, opcode>>, 2)
  BY Ranges, Opcodes
<1>8. Counts(<<\h8D>>, 1) /\ Counts(<<\h62>>, 1)
  BY Counting, Ranges
<1> HIDE DEF a, l, fl
<1>4. \A size : /\ Emits(MemForm(size, <<\h8D>>, d.reg, l.mem, 2))
                /\ Emits(MemForm(size, <<\h8D>>, d.reg, fl.mem, 2))
                /\ Emits(MemForm(size, <<opcode>>, d.reg, s.mem, 2))
                /\ Emits(MemForm(size, <<opcode>>, d.reg, a.mem, 2))
                /\ Emits(MemForm(size, <<\h0F, opcode>>, d.reg, s.mem, 3))
                /\ Emits(MemForm(size, <<\h0F, opcode>>, d.reg, a.mem, 3))
                /\ Emits(MemForm(size, <<\h62>>, d.reg, s.mem, 2))
                /\ Emits(MemForm(size, <<\h62>>, d.reg, a.mem, 2))
  BY <1>2, <1>3, <1>8, MemForms
<1>5. Emits(EncodeLea(d, s)) /\ Emits(EncodeLeaPrefixedOperands(d, s, f))
  BY <1>4, Built, Counting, Ranges DEF EncodeLea, EncodeLeaPrefixedOperands, l, fl
<1>6. /\ Emits(EncodeFarLoad(d, s, opcode)) /\ Emits(EncodeFarLoadPrefixedOperands(d, s, opcode, f))
      /\ Emits(EncodeFarLoad0F(d, s, opcode)) /\ Emits(EncodeFarLoad0FPrefixedOperands(d, s, opcode, f))
  BY <1>4, Counting, Ranges DEF EncodeFarLoad, EncodeFarLoadPrefixedOperands, EncodeFarLoad0F,
                        EncodeFarLoad0FPrefixedOperands, a
<1>7. Emits(EncodeBound(d, s)) /\ Emits(EncodeBoundPrefixedOperands(d, s, f))
  BY <1>4, Counting, Ranges DEF EncodeBound, EncodeBoundPrefixedOperands, a
<1> QED
  BY <1>5, <1>6, <1>7

----------------------------------------------------------------------------
(* movsx, movzx, bsf, bsr, lar, lsl, and the system's                      *)

\* movsx, movzx, bsf and bsr, whose source may be narrower than their register.
LEMMA ExtendsEmit ==
  ASSUME NEW d, IsOperand(d), NEW s, IsOperand(s), NEW x \in AByte, NEW y \in AByte, NEW f
  PROVE  /\ Emits(EncodeMovExtend(d, s, x, y)) /\ Emits(EncodeBitScan(d, s, x))
         /\ Emits(EncodeBitScanPrefixedOperands(d, s, x, f))
<1> DEFINE a == Forced(s, f)
<1>1. IsOperand(a) /\ d.reg \in Int
  BY ForcedOperand, Taken
<1>2. Counts(<<\h0F, x>>, 2) /\ Counts(<<\h0F, y>>, 2)
  BY Opcodes
<1> HIDE DEF a
<1>3. \A size : /\ Emits(RmForm(size, <<\h0F, x>>, d.reg, s, 3))
                /\ Emits(RmForm(size, <<\h0F, y>>, d.reg, s, 3))
  BY <1>1, <1>2, RmForms
<1>4. \A op, a32 : Emits(ForcedForm(op, a32, <<\h0F, x>>, d.reg, a, 3))
  BY <1>1, <1>2, ForcedForms
<1>5. Emits(EncodeMovExtend(d, s, x, y))
  <2> DEFINE byte == \/ s.kind = "REG8"
                     \/ s.kind = "MEM" /\ s.size = 1
                     \/ s.kind = "MEM" /\ s.size = 0 /\ d.kind = "REG16"
  <2>1. CASE byte
    BY <1>3, <2>1, Counting, Ranges DEF EncodeMovExtend
  <2>2. CASE ~byte
    BY <1>3, <2>2, Counting, Ranges DEF EncodeMovExtend
  <2> QED
    BY <2>1, <2>2
<1>6. Emits(EncodeBitScan(d, s, x))
  BY <1>3, Counting, Ranges DEF EncodeBitScan
<1>7. Emits(EncodeBitScanPrefixedOperands(d, s, x, f))
  BY <1>4, Counting, Ranges DEF EncodeBitScanPrefixedOperands, a
<1> QED
  BY <1>5, <1>6, <1>7

\* lar and lsl.
LEMMA SelectorLoadEmits ==
  ASSUME NEW d, IsOperand(d), NEW s, IsOperand(s), NEW opcode \in AByte, NEW f
  PROVE  Emits(SelectorLoad(d, s, opcode, f))
<1> DEFINE a == Forced(s, f)
<1>1. /\ IsOperand(a) /\ d.reg \in Int /\ a.reg \in Int /\ a.mem \in Memory
      /\ Counts(<<\h0F, opcode>>, 2)
  BY Ranges, ForcedOperand, Taken, Opcodes
<1> HIDE DEF a
<1>2. \A size : /\ Emits(MemForm(size, <<\h0F, opcode>>, d.reg, a.mem, 3))
                /\ \A g : Emits(Check(g, MemForm(size, <<\h0F, opcode>>, d.reg, a.mem, 3)))
  BY <1>1, MemForms, Built
<1>3. \A op, a32 : Emits(Out(ForcedPrefixPair(op, a32) \o <<\h0F, opcode>> \o ModrmReg(d.reg, a.reg),
                             ForcedPrefixPairLen(op, a32) + 3))
  BY <1>1, PairRegs
<1> QED
  BY <1>2, <1>3, Counting, Ranges DEF SelectorLoad, a

\* The tables, segments and status word: in memory with the prefixes of their own,
\* or in a register.
LEMMA SystemForms ==
  ASSUME NEW o, IsOperand(o), NEW opcode \in AByte, NEW group \in Int, NEW f
  PROVE  /\ Emits(SystemForm(o, opcode, group, f))
         /\ \A op_prefix : Emits(SystemRegForm(op_prefix, o, opcode, group, f))
<1> DEFINE p == SystemMemoryPrefixes(o.mem, f.o32)
           k == SystemMemoryPrefixLen(o.mem, f.o32)
           q == IF f.o32 THEN OperandSizePrefix(4) ELSE << >>
           n == IF f.o32 THEN 1 ELSE 0
<1>1. /\ o.mem \in Memory /\ o.reg \in Int
      /\ Counts(<<\h0F, opcode>>, 2)
  BY Ranges, Taken, Opcodes
<1>2. Counts(SegmentPrefix(o.mem), SegmentPrefixLen(o.mem))
  <2>1. SegmentPrefixLen(o.mem) \in Nat
    BY DEF SegmentPrefixLen
  <2> QED
    BY <1>1, <2>1, MemoryPrefixes DEF Counts
<1>3. Counts(AddressSizePrefix(o.mem), AddressSizePrefixLen(o.mem))
  BY Counting, Ranges DEF AddressSizePrefix, AddressSizePrefixLen
<1>4. Counts(q, n)
  BY Counting, Ranges DEF OperandSizePrefix
<1>5. p = SegmentPrefix(o.mem) \o q \o AddressSizePrefix(o.mem)
  BY DEF SystemMemoryPrefixes
<1>6. k = SegmentPrefixLen(o.mem) + n + AddressSizePrefixLen(o.mem)
  BY DEF SystemMemoryPrefixLen
<1> HIDE DEF p, k, q, n
<1>7. Counts(p, k)
  <2>1. Counts(SegmentPrefix(o.mem) \o q, SegmentPrefixLen(o.mem) + n)
    BY <1>2, <1>4, Counting, Ranges
  <2> QED
    BY <1>3, <1>5, <1>6, <2>1, Counting, Ranges
<1>8. Emits(SystemForm(o, opcode, group, f))
  BY <1>1, <1>7, MemParts DEF SystemForm, p, k
<1>9. \A op_prefix : Emits(SystemRegForm(op_prefix, o, opcode, group, f))
  BY <1>1, PairRegs DEF SystemRegForm
<1> QED
  BY <1>8, <1>9

\* The instructions of one operand on descriptor tables and selectors.
LEMMA SystemEmits ==
  ASSUME NEW src, IsOperand(src), NEW group \in Int, NEW opcode \in AByte, NEW f
  PROVE  /\ Emits(EncodeDescriptorTable(src, group, f))
         /\ Emits(EncodeSystemRm16Load(src, group, f))
         /\ Emits(EncodeSystemRm16Store(src, group, opcode, f))
         /\ Emits(EncodeSystemVerifySelector(src, group, f))
<1> DEFINE s == Forced(src, f)
           x == IF group = 6 THEN \h01 ELSE \h00
<1>1. IsOperand(s) /\ s.mem \in Memory /\ x \in AByte
  BY ForcedOperand, Taken, Ranges
<1>2. Counts(<<\h0F, x>>, 2)
  BY <1>1, Opcodes, Ranges
<1> HIDE DEF s, x
<1>3. \A y \in AByte : /\ Emits(SystemForm(s, y, group, f))
                     /\ \A g : Emits(Check(g, SystemForm(s, y, group, f)))
                     /\ \A op : Emits(SystemRegForm(op, s, y, group, f))
  BY Ranges, <1>1, SystemForms, Built
<1>4. \A size, g : Emits(Check(g, MemForm(size, <<\h0F, x>>, group, s.mem, 3)))
  BY <1>1, <1>2, MemForms, Built
<1>5. Emits(EncodeDescriptorTable(src, group, f))
  BY Ranges, <1>3 DEF EncodeDescriptorTable, s
<1>6. Emits(EncodeSystemRm16Load(src, group, f))
  <2>1. \A op : Emits(SystemRegForm(op, s, x, group, f))
    BY Ranges, <1>1, <1>3
  <2> QED
    BY <1>4, <2>1, Counting, Ranges DEF EncodeSystemRm16Load, s, x
<1>7. Emits(EncodeSystemRm16Store(src, group, opcode, f))
  BY <1>3, Counting, Ranges DEF EncodeSystemRm16Store, s
<1>8. Emits(EncodeSystemVerifySelector(src, group, f))
  <2>1. \A op, g : /\ Emits(Check(g, SystemForm(s, 0, group, f)))
                   /\ Emits(SystemRegForm(op, s, 0, group, f))
    BY Ranges, <1>3
  <2> QED
    BY <2>1, Counting, Ranges DEF EncodeSystemVerifySelector, s
<1> QED
  BY <1>5, <1>6, <1>7, <1>8

----------------------------------------------------------------------------
(* xchg                                                                    *)

\* xchg, with the accumulator and without it.
LEMMA XchgEmits ==
  ASSUME NEW d, IsOperand(d), NEW s, IsOperand(s)
  PROVE  Emits(EncodeXchg(d, s))
<1>1. /\ d.reg \in Int /\ d.mem \in Memory /\ s.reg \in Int /\ s.mem \in Memory
  BY Taken
<1>2. Counts(<<\h90 + s.reg>>, 1) /\ Counts(<<\h90 + d.reg>>, 1)
  BY <1>1, Opcodes, Ranges
<1>3. Counts(<<\h87>>, 1) /\ Counts(<<\h86>>, 1)
  BY Counting, Ranges
<1>4. \A size : Counts(<<\h86 + W(size)>>, 1)
  BY Opcodes, Ranges
<1>5. /\ Emits(PlainForm(d.size, <<\h90 + s.reg>>, 1))
      /\ Emits(PlainForm(d.size, <<\h90 + d.reg>>, 1))
  BY <1>2, PlainForms
<1>6. /\ Emits(RegForm(d.size, <<\h87>>, d.reg, s.reg, 2))
      /\ Emits(RegForm(1, <<\h86>>, d.reg, s.reg, 2))
  BY <1>1, <1>3, RegForms
<1>7. \A g : /\ Emits(Check(g, MemForm(s.size, <<\h86 + W(s.size)>>, s.reg, d.mem, 2)))
             /\ Emits(Check(g, MemForm(d.size, <<\h86 + W(d.size)>>, d.reg, s.mem, 2)))
  BY <1>1, <1>4, MemForms, Built
<1> QED
  BY <1>5, <1>6, <1>7, Counting, Ranges DEF EncodeXchg

\* xchg behind prefixes, which has code of its own.
LEMMA PrefixedXchgEmits ==
  ASSUME NEW dst, IsOperand(dst), NEW src, IsOperand(src), NEW f
  PROVE  Emits(EncodePrefixedXchg(dst, src, f))
<1> DEFINE d == Forced(dst, f)
           s == Forced(src, f)
           op == f.o32 \/ d.kind = "REG32"
           Regs(bytes, n) == Out(ForcedPrefixPair(op, f.a32) \o bytes, ForcedPrefixPairLen(op, f.a32) + n)
<1>1. /\ IsOperand(d) /\ IsOperand(s)
      /\ d.reg \in Int /\ d.mem \in Memory /\ s.reg \in Int /\ s.mem \in Memory
  BY ForcedOperand, Taken
<1> HIDE DEF d, s
<1>2. Counts(<<\h90 + s.reg>>, 1) /\ Counts(<<\h90 + d.reg>>, 1)
  BY <1>1, Opcodes, Ranges
<1>3. Counts(<<\h87>> \o ModrmReg(d.reg, s.reg), 2) /\ Counts(<<\h86>> \o ModrmReg(d.reg, s.reg), 2)
  <2>1. Counts(<<\h87>>, 1) /\ Counts(<<\h86>>, 1)
    BY Counting, Ranges
  <2>2. Counts(ModrmReg(d.reg, s.reg), 1)
    BY <1>1, Parts
  <2>3. /\ Counts(<<\h87>> \o ModrmReg(d.reg, s.reg), 1 + 1)
        /\ Counts(<<\h86>> \o ModrmReg(d.reg, s.reg), 1 + 1)
    BY <2>1, <2>2, Counting, Ranges
  <2> QED
    BY <2>3
<1>4. /\ Emits(Regs(<<\h86>> \o ModrmReg(d.reg, s.reg), 2))
      /\ Emits(Regs(<<\h90 + s.reg>>, 1)) /\ Emits(Regs(<<\h90 + d.reg>>, 1))
      /\ Emits(Regs(<<\h87>> \o ModrmReg(d.reg, s.reg), 2))
  BY <1>2, <1>3, PairForms
<1>5. \A size : Counts(<<\h86 + W(size)>>, 1)
  BY Opcodes, Ranges
<1>6. Emits(EmitXchgMemoryReg(d, s, f)) /\ Emits(EmitXchgMemoryReg(s, d, f))
  BY <1>1, <1>5, MemForms, Built DEF EmitXchgMemoryReg
<1> QED
  BY <1>4, <1>6, Counting, Ranges DEF EncodePrefixedXchg, d, s

----------------------------------------------------------------------------
(* Arithmetic and logic                                                    *)

\* The immediate of a group in a register: byte, accumulator, general form.
LEMMA RegImmEmits ==
  ASSUME NEW d, IsOperand(d), d.kind \in GPR, NEW v \in Int, NEW group \in Int, NEW acc8 \in Opcode,
         NEW acc16 \in Opcode, NEW opcode \in Opcode, NEW short
  PROVE  Emits(RegImm(group, acc8, acc16, opcode, d, v, short))
<1> DEFINE a == IF d.size = 1 THEN acc8 ELSE acc16
           y == opcode + W(d.size)
<1>1. d.reg \in Int /\ d.size \in {1, 2, 4} /\ a \in AByte /\ y \in AByte
  BY Ranges, Taken, Opcodes
<1>2. RegImm(group, acc8, acc16, opcode, d, v, short) =
        IF ~FitsAlu(d.size, v) THEN FAIL
        ELSE IF short THEN Then(RegForm(d.size, <<\h83>>, group, d.reg, 2), Byte(v), 1)
        ELSE IF d.reg = 0 THEN Then(PlainForm(d.size, <<a>>, 1), Imm(d.size, v), d.size)
        ELSE Then(RegForm(d.size, <<y>>, group, d.reg, 2), Imm(d.size, v), d.size)
  BY DEF RegImm
<1> HIDE DEF a, y
<1>3. Counts(<<a>>, 1) /\ Counts(<<y>>, 1)
  BY <1>1, Counting, Ranges
<1>4. Counts(<<\h83>>, 1)
  BY Counting, Ranges
<1>5. Counts(Byte(v), 1) /\ Counts(Imm(d.size, v), d.size)
  BY <1>1, Parts
<1>6. /\ Emits(RegForm(d.size, <<\h83>>, group, d.reg, 2))
      /\ Emits(RegForm(d.size, <<y>>, group, d.reg, 2))
      /\ Emits(PlainForm(d.size, <<a>>, 1))
  BY <1>1, <1>3, <1>4, RegForms, PlainForms
<1>7. /\ Emits(Then(RegForm(d.size, <<\h83>>, group, d.reg, 2), Byte(v), 1))
      /\ Emits(Then(PlainForm(d.size, <<a>>, 1), Imm(d.size, v), d.size))
      /\ Emits(Then(RegForm(d.size, <<y>>, group, d.reg, 2), Imm(d.size, v), d.size))
  BY <1>5, <1>6, Built
<1> QED
  BY <1>2, <1>7, Counting, Ranges

\* The same in memory.
LEMMA MemImmEmits ==
  ASSUME NEW d, IsOperand(d), NEW v \in Int, NEW group \in Int, NEW opcode \in Opcode, NEW short
  PROVE  Emits(MemImm(group, opcode, d, v, short))
<1> DEFINE y == opcode + W(d.size)
<1>1. d.mem \in Memory /\ y \in AByte
  BY Taken, Opcodes
<1>2. MemImm(group, opcode, d, v, short) =
        IF d.size \notin {1, 2, 4} \/ ~FitsAlu(d.size, v) THEN FAIL
        ELSE IF short THEN Then(MemForm(d.size, <<\h83>>, group, d.mem, 2), Byte(v), 1)
        ELSE Then(MemForm(d.size, <<y>>, group, d.mem, 2), Imm(d.size, v), d.size)
  BY DEF MemImm
<1> HIDE DEF y
<1>3. Counts(<<y>>, 1)
  BY <1>1, Counting, Ranges
<1>4. Counts(<<\h83>>, 1)
  BY Counting, Ranges
<1>5. Counts(Byte(v), 1) /\ (d.size \in {1, 2, 4} => Counts(Imm(d.size, v), d.size))
  BY Parts
<1>6. /\ Emits(MemForm(d.size, <<\h83>>, group, d.mem, 2))
      /\ Emits(MemForm(d.size, <<y>>, group, d.mem, 2))
  BY <1>1, <1>3, <1>4, MemForms
<1>7. /\ Emits(Then(MemForm(d.size, <<\h83>>, group, d.mem, 2), Byte(v), 1))
      /\ d.size \in {1, 2, 4} =>
           Emits(Then(MemForm(d.size, <<y>>, group, d.mem, 2), Imm(d.size, v), d.size))
  BY <1>5, <1>6, Built
<1> QED
  BY <1>2, <1>7, Counting, Ranges

\* Two registers, and a register with memory either way.
LEMMA RegsAndMemoryEmits ==
  ASSUME NEW base \in Base, NEW load \in {0, 2}, NEW d, IsOperand(d), NEW s, IsOperand(s)
  PROVE  Emits(RegsAndMemory(base, load, d, s))
<1>1. d.reg \in Int /\ s.reg \in Int /\ d.mem \in Memory /\ s.mem \in Memory
  BY Taken
<1>2. \A size : Counts(<<base + W(size)>>, 1) /\ Counts(<<base + load + W(size)>>, 1)
  <2>1. base \in Int /\ 0 <= base /\ base <= 240
    BY Ranges
  <2>2. base + load \in Int /\ 0 <= base + load /\ base + load <= 254
    BY <2>1
  <2>3. base + load \in Opcode /\ base \in Opcode
    BY <2>2, Ranges
  <2> QED
    BY <2>3, Opcodes
<1>3. Emits(RegForm(d.size, <<base + W(d.size)>>, s.reg, d.reg, 2))
  BY <1>1, <1>2, RegForms
<1>4. \A g : /\ Emits(Check(g, MemForm(s.size, <<base + W(s.size)>>, s.reg, d.mem, 2)))
             /\ Emits(Check(g, MemForm(d.size, <<base + load + W(d.size)>>, d.reg, s.mem, 2)))
  BY <1>1, <1>2, MemForms, Built
<1> QED
  BY <1>3, <1>4, Counting, Ranges DEF RegsAndMemory

\* and, or, xor, test and the group of add.
LEMMA AluEmits ==
  ASSUME NEW d, IsOperand(d), NEW s, IsOperand(s)
  PROVE  /\ Emits(EncodeAnd(d, s)) /\ Emits(EncodeOr(d, s)) /\ Emits(EncodeXor(d, s))
         /\ Emits(EncodeTest(d, s))
         /\ \A base \in Base, acc8, acc16 \in Opcode, group \in Int : Emits(EncodeArith(d, s, base, acc8, acc16, group))
<1>1. s.imm \in Int
  BY Taken
<1>2. ASSUME NEW group \in Int, NEW acc8 \in Opcode, NEW acc16 \in Opcode, NEW opcode \in Opcode, NEW short
      PROVE  d.kind \in GPR => Emits(RegImm(group, acc8, acc16, opcode, d, s.imm, short))
  BY <1>1, RegImmEmits
<1>3. ASSUME NEW group \in Int, NEW opcode \in Opcode, NEW short
      PROVE  Emits(MemImm(group, opcode, d, s.imm, short))
  BY <1>1, MemImmEmits
<1>4. Emits(EncodeAnd(d, s))
  <2>1. /\ Emits(RegsAndMemory(\h20, 2, d, s)) /\ Emits(EmitAndMemImm(d, s))
        /\ d.kind \in GPR => Emits(EmitAndRegImm(d, s))
    BY Ranges, <1>2, <1>3, RegsAndMemoryEmits DEF EmitAndMemImm, EmitAndRegImm
  <2> QED
    BY <2>1, Counting, Ranges DEF EncodeAnd, Check
<1>5. Emits(EncodeOr(d, s))
  <2>1. /\ Emits(RegsAndMemory(\h08, 2, d, s)) /\ Emits(EmitOrMemImm(d, s))
        /\ d.kind \in GPR => Emits(EmitOrRegImm(d, s))
    BY Ranges, <1>2, <1>3, RegsAndMemoryEmits DEF EmitOrMemImm, EmitOrRegImm
  <2> QED
    BY <2>1, Counting, Ranges DEF EncodeOr, Check
<1>6. Emits(EncodeXor(d, s))
  <2>1. /\ Emits(RegsAndMemory(\h30, 2, d, s)) /\ Emits(EmitXorMemImm(d, s))
        /\ d.kind \in GPR => Emits(EmitXorRegImm(d, s))
    BY Ranges, <1>2, <1>3, RegsAndMemoryEmits DEF EmitXorMemImm, EmitXorRegImm
  <2> QED
    BY <2>1, Counting, Ranges DEF EncodeXor, Check
<1>7. Emits(EncodeTest(d, s))
  <2> DEFINE no == FALSE
  <2> HIDE DEF no
  <2>1. /\ Emits(MemImm(0, \hF6, d, s.imm, no))
        /\ d.kind \in GPR => Emits(RegImm(0, \hA8, \hA9, \hF6, d, s.imm, no))
    BY Ranges, <1>2, <1>3
  <2>2. Emits(RegsAndMemory(\h84, 0, d, s))
    BY Ranges, RegsAndMemoryEmits
  <2>3. /\ Emits(RegsAndMemory(\h84, 0, d, s)) /\ Emits(EmitTestMemImm(d, s))
        /\ d.kind \in GPR => Emits(EmitTestRegImm(d, s))
    BY <2>1, <2>2 DEF EmitTestMemImm, EmitTestRegImm, no
  <2> QED
    BY <2>3, Counting, Ranges DEF EncodeTest, Check
<1>8. ASSUME NEW base \in Base, NEW acc8 \in Opcode, NEW acc16 \in Opcode, NEW group \in Int
      PROVE  Emits(EncodeArith(d, s, base, acc8, acc16, group))
  <2>1. /\ Emits(RegsAndMemory(base, 2, d, s)) /\ Emits(EmitArithMemImm(d, s, group))
        /\ d.kind \in GPR => Emits(EmitArithRegImm(d, s, group, acc8, acc16))
    BY Ranges, <1>2, <1>3, RegsAndMemoryEmits DEF EmitArithMemImm, EmitArithRegImm
  <2> QED
    BY <2>1, Counting, Ranges DEF EncodeArith, Check
<1> QED
  BY <1>4, <1>5, <1>6, <1>7, <1>8

----------------------------------------------------------------------------
(* Shifts                                                                  *)

\* The opcode of a shift is a byte, and its count is as long as it is counted.
LEMMA ShiftParts ==
  ASSUME NEW s, IsOperand(s)
  PROVE  /\ Counts(ShiftCount(s), ShiftCountLen(s))
         /\ \A size : ShiftOpcode(s, size) \in AByte
<1>1. Counts(Byte(s.imm), 1) /\ Counts(<< >>, 0)
  BY Taken, Parts, Counting, Ranges
<1>2. \A size : /\ \hD0 + W(size) \in AByte /\ \hC0 + W(size) \in AByte
                /\ \hD2 + W(size) \in AByte
  <2>1. \hD0 \in Opcode /\ \hC0 \in Opcode /\ \hD2 \in Opcode
    BY Ranges
  <2> QED
    BY <2>1, Opcodes
<1> QED
  BY <1>1, <1>2 DEF ShiftCount, ShiftCountLen, ShiftOpcode

\* The shifts, by one, by a byte and by cl.
LEMMA ShiftEmits ==
  ASSUME NEW d, IsOperand(d), NEW s, IsOperand(s), NEW group \in Int
  PROVE  Emits(EncodeShiftGroup(d, s, group))
<1> DEFINE size == ShiftTargetSize(d)
           x == ShiftOpcode(s, size)
           tail == EmitShiftModrm(d, group)
           p == OperandPrefixes(d, size)
           k == OperandPrefixLen(d, size)
<1>1. d.reg \in Int /\ d.mem \in Memory /\ x \in AByte /\ Counts(<<x>>, 1)
  BY Taken, ShiftParts, Opcodes
<1>2. Counts(ShiftCount(s), ShiftCountLen(s))
  BY ShiftParts
<1>3. Emits(Out(p \o <<x>> \o tail.bytes, k + 2 + tail.size))
  <2> HIDE DEF x, size
  <2>1. CASE d.kind = "MEM"
    <3>1. p = MemoryOperandPrefixes(d.mem, size) /\ k = MemoryOperandPrefixLen(d.mem, size)
      BY <2>1 DEF OperandPrefixes, OperandPrefixLen
    <3>2. tail.bytes = ModrmMem(group, d.mem) /\ tail.size = MemoryTailLen(d.mem)
      BY <2>1 DEF EmitShiftModrm, Out
    <3>3. Counts(p, k)
      BY <1>1, <3>1, Parts
    <3> HIDE DEF p, k, tail
    <3>4. Emits(Out(p \o <<x>> \o ModrmMem(group, d.mem), k + 2 + MemoryTailLen(d.mem)))
      BY <1>1, <3>3, MemParts
    <3> QED
      BY <3>2, <3>4
  <2>2. CASE d.kind # "MEM"
    <3>1. p = OperandSizePrefix(size) /\ k = OperandSizePrefixLen(size)
      BY <2>2 DEF OperandPrefixes, OperandPrefixLen
    <3>2. tail.bytes = ModrmReg(group, d.reg) /\ tail.size = 0
      BY <2>2 DEF EmitShiftModrm, Out
    <3>3. Counts(p, k) /\ k \in Nat
      BY <3>1, Parts DEF Counts
    <3> HIDE DEF p, k, tail
    <3>4. Emits(Out(p \o <<x>> \o ModrmReg(group, d.reg), k + 2))
      BY <1>1, <3>3, RegParts
    <3>5. k + 2 + tail.size = k + 2
      BY <3>2, <3>3
    <3> QED
      BY <3>2, <3>4, <3>5
  <2> QED
    BY <2>1, <2>2
<1>4. Emits(Then(Out(p \o <<x>> \o tail.bytes, k + 2 + tail.size), ShiftCount(s), ShiftCountLen(s)))
  BY <1>2, <1>3, Built
<1>5. EncodeShiftGroup(d, s, group) =
        IF size = 0 \/ ~ShiftCountOK(s) THEN FAIL
        ELSE Then(Out(p \o <<x>> \o tail.bytes, k + 2 + tail.size), ShiftCount(s), ShiftCountLen(s))
  BY DEF EncodeShiftGroup
<1> HIDE DEF p, k, x, tail, size
<1> QED
  BY <1>4, <1>5, Counting, Ranges

----------------------------------------------------------------------------
(* Ports and interrupts                                                    *)

\* in and out, through a byte or dx.
LEMMA PortEmits ==
  ASSUME NEW prefix, NEW k, Counts(prefix, k), NEW opcode \in Base, NEW acc, NEW port, IsOperand(port)
  PROVE  Emits(PortForm(prefix, k, opcode, acc, port))
<1> DEFINE x == opcode + W(acc.size)
           y == opcode + 8 + W(acc.size)
<1>1. x \in AByte /\ y \in AByte /\ k \in Nat
  <2>1. opcode \in Int /\ 0 <= opcode /\ opcode <= 240
    BY Ranges
  <2>2. opcode + 8 \in Int /\ 0 <= opcode + 8 /\ opcode + 8 <= 254
    BY <2>1
  <2>3. opcode \in Opcode /\ opcode + 8 \in Opcode
    BY <2>2, Ranges
  <2>4. x \in AByte /\ y \in AByte
    BY <2>3, Opcodes
  <2> QED
    BY <2>4 DEF Counts
<1>2. PortForm(prefix, k, opcode, acc, port) =
        IF port.kind = "IMM"
        THEN Check(FitsU16(port.imm), Out(prefix \o <<x>> \o Byte(port.imm), k + 2))
        ELSE Out(prefix \o <<y>>, k + 1)
  BY DEF PortForm
<1> HIDE DEF x, y
<1>3. Counts(<<x>>, 1) /\ Counts(<<y>>, 1)
  BY <1>1, Counting, Ranges
<1>4. Counts(Byte(port.imm), 1)
  BY Taken, Parts
<1>5. Emits(Out(prefix \o <<x>> \o Byte(port.imm), k + 2))
  <2>1. Counts(prefix \o <<x>>, k + 1)
    BY <1>3, Counting, Ranges
  <2>2. Counts((prefix \o <<x>>) \o Byte(port.imm), (k + 1) + 1)
    BY <1>4, <2>1, Counting, Ranges
  <2>3. (k + 1) + 1 = k + 2 /\ k + 2 > 0
    BY <1>1
  <2> QED
    BY <2>2, <2>3, Counting, Ranges
<1>6. Emits(Out(prefix \o <<y>>, k + 1))
  <2>1. Counts(prefix \o <<y>>, k + 1)
    BY <1>3, Counting, Ranges
  <2>2. k + 1 > 0
    BY <1>1
  <2> QED
    BY <2>1, <2>2, Counting, Ranges
<1> QED
  BY <1>2, <1>5, <1>6, Built

\* in and out with their operands checked, and behind prefixes.
LEMMA InOutEmit ==
  ASSUME NEW d, IsOperand(d), NEW s, IsOperand(s), NEW f
  PROVE  /\ Emits(EncodeIn(d, s)) /\ Emits(EncodeOut(d, s))
         /\ Emits(EncodeInPrefixedOperands(d, s, f)) /\ Emits(EncodeOutPrefixedOperands(d, s, f))
<1>1. \A size : Counts(OperandSizePrefix(size), OperandSizePrefixLen(size))
  BY Parts
<1>2. \A o, a : Counts(ForcedPrefixPair(o, a), ForcedPrefixPairLen(o, a))
  BY Parts
<1>3. Emits(EncodeIn(d, s)) /\ Emits(EncodeOut(d, s))
  BY Ranges, <1>1, PortEmits, Built DEF EncodeIn, EncodeOut
<1>4. Emits(EncodeInPrefixedOperands(d, s, f)) /\ Emits(EncodeOutPrefixedOperands(d, s, f))
  BY Ranges, <1>2, PortEmits, Built DEF EncodeInPrefixedOperands, EncodeOutPrefixedOperands
<1> QED
  BY <1>3, <1>4

\* A byte behind an opcode: int, aad, aam.
LEMMA ByteBehind ==
  ASSUME NEW x \in AByte, NEW v \in Int
  PROVE  Emits(Out(<<x>> \o Byte(v), 2))
<1>1. Counts(<<x>>, 1) /\ Counts(Byte(v), 1)
  BY Counting, Ranges, Parts
<1>2. Counts(<<x>> \o Byte(v), 1 + 1)
  BY <1>1, Counting, Ranges
<1> QED
  BY <1>2, Counting, Ranges

\* int, aad and aam with their byte.
LEMMA IntrEmits ==
  ASSUME NEW d, IsOperand(d)
  PROVE  Emits(EncodeIntr(d)) /\ Emits(EncodeAad(d)) /\ Emits(EncodeAam(d))
<1>1. /\ Emits(Out(<<\hCD>> \o Byte(d.imm), 2)) /\ Emits(Out(<<\hD5>> \o Byte(d.imm), 2))
      /\ Emits(Out(<<\hD4>> \o Byte(d.imm), 2))
  BY Ranges, Taken, ByteBehind
<1> QED
  BY <1>1, Built DEF EncodeIntr, EncodeAad, EncodeAam

----------------------------------------------------------------------------
(* not, neg, mul, div, inc, dec                                            *)

\* The form of a group with one operand, whatever the prefix.
LEMMA GroupForms ==
  ASSUME NEW o, IsOperand(o), NEW base \in Opcode, NEW group \in Int
  PROVE  \A size, g : /\ Emits(RmForm(size, <<base + W(o.size)>>, group, o, 2))
                      /\ Emits(Check(g, RmForm(size, <<base + W(o.size)>>, group, o, 2)))
<1>1. Counts(<<base + W(o.size)>>, 1)
  BY Ranges, Opcodes
<1> QED
  BY <1>1, RmForms, Built

\* not, neg, mul, div and idiv, on their own and behind prefixes.
LEMMA UnaryEmits ==
  ASSUME NEW d, IsOperand(d), NEW group \in Int, NEW f
  PROVE  /\ Emits(EncodeNot(d)) /\ Emits(EncodeUnaryGroup(d, group))
         /\ Emits(EncodePrefixedUnaryGroup(d, group, f)) /\ Emits(EncodeO32UnaryGroup(d, group))
<1>1. ASSUME NEW o, IsOperand(o)
      PROVE  Emits(EncodeUnaryGroup(o, group))
  BY Ranges, <1>1, GroupForms DEF EncodeUnaryGroup
<1>2. Emits(EncodeNot(d))
  BY Ranges, GroupForms DEF EncodeNot
<1>3. Emits(EncodePrefixedUnaryGroup(d, group, f))
  <2> DEFINE a == Forced(d, f)
             x == \hF6 + W(a.size)
             op == f.o32 \/ a.kind = "REG32"
             pair == Out(ForcedPrefixPair(op, TRUE) \o <<x>> \o ModrmReg(group, a.reg),
                         3 + (IF op THEN 1 ELSE 0))
  <2>1. IsOperand(a) /\ a.reg \in Int /\ Counts(<<x>>, 1)
    <3>1. IsOperand(a)
      BY ForcedOperand
    <3>2. \hF6 \in Opcode
      BY Ranges
    <3>3. Counts(<<x>>, 1)
      BY <3>2, Opcodes
    <3> HIDE DEF a, x
    <3>4. a.reg \in Int
      BY <3>1, Taken
    <3> QED
      BY <3>1, <3>3, <3>4
  <2>2. EncodePrefixedUnaryGroup(d, group, f) =
          IF ~AddressSizeAgrees(a, f) THEN FAIL
          ELSE IF f.a32 /\ a.kind \in GPR THEN pair
          ELSE IF ~f.o32 \/ a.kind = "REG32" \/ (a.kind = "MEM" /\ a.size = 4)
          THEN EncodeUnaryGroup(a, group)
          ELSE Check(IsTarget(a), RmForm(4, <<\hF6 + W(a.size)>>, group, a, 2))
    BY DEF EncodePrefixedUnaryGroup
  <2>3. Emits(Check(IsTarget(a), RmForm(4, <<\hF6 + W(a.size)>>, group, a, 2)))
    <3> HIDE DEF a
    <3> QED
      BY Ranges, <2>1, GroupForms
  <2>4. Emits(EncodeUnaryGroup(a, group))
    BY <1>1, <2>1
  <2>5. Emits(pair)
    <3> HIDE DEF a
    <3> HIDE DEF x
    <3>2. Emits(Out(ForcedPrefixPair(op, TRUE) \o <<x>> \o ModrmReg(group, a.reg),
                    ForcedPrefixPairLen(op, TRUE) + 2))
      BY <2>1, PairRegs
    <3>3. ForcedPrefixPairLen(op, TRUE) + 2 = 3 + (IF op THEN 1 ELSE 0)
      BY DEF ForcedPrefixPairLen
    <3> QED
      BY <3>2, <3>3
  <2> HIDE DEF a, pair
  <2> QED
    BY <2>2, <2>3, <2>4, <2>5, Counting, Ranges
<1>4. Emits(EncodeO32UnaryGroup(d, group))
  <2>1. Emits(Wide(d, d, EncodeUnaryGroup(d, group)))
    BY <1>1, Widened
  <2> QED
    BY <1>1, <2>1 DEF EncodeO32UnaryGroup
<1> QED
  BY <1>1, <1>2, <1>3, <1>4

\* A byte behind the forced prefixes, or one and a register.
LEMMA PairBytes ==
  ASSUME NEW op, NEW x \in AByte, NEW reg \in Int, NEW rm \in Int
  PROVE  /\ Emits(Out(ForcedPrefixPair(op, TRUE) \o <<x>>, 2 + (IF op THEN 1 ELSE 0)))
         /\ Emits(Out(ForcedPrefixPair(op, TRUE) \o <<x>> \o ModrmReg(reg, rm), 3 + (IF op THEN 1 ELSE 0)))
<1>1. Counts(<<x>>, 1)
  BY Counting, Ranges
<1>2. \A a : /\ Emits(Out(ForcedPrefixPair(op, a) \o <<x>>, ForcedPrefixPairLen(op, a) + 1))
             /\ Emits(Out(ForcedPrefixPair(op, a) \o <<x>> \o ModrmReg(reg, rm),
                          ForcedPrefixPairLen(op, a) + 2))
  <2>1. \A a : Emits(Out(ForcedPrefixPair(op, a) \o <<x>>, ForcedPrefixPairLen(op, a) + 1))
    BY <1>1, PairForms
  <2>2. \A a : Emits(Out(ForcedPrefixPair(op, a) \o <<x>> \o ModrmReg(reg, rm),
                         ForcedPrefixPairLen(op, a) + 2))
    BY <1>1, PairRegs
  <2> QED
    BY <2>1, <2>2
<1>3. /\ ForcedPrefixPairLen(op, TRUE) + 2 = 3 + (IF op THEN 1 ELSE 0)
      /\ ForcedPrefixPairLen(op, TRUE) + 1 = 2 + (IF op THEN 1 ELSE 0)
  BY DEF ForcedPrefixPairLen
<1> QED
  BY <1>2, <1>3

\* inc and dec, which have a short form for a register.
LEMMA IncDecEmits ==
  ASSUME NEW dst, IsOperand(dst), NEW group \in Int, NEW base \in Base, NEW f
  PROVE  /\ Emits(EncodeIncDec(dst, group, base)) /\ Emits(EncodePrefixedIncDec(dst, group, base, f))
         /\ Emits(EncodeO16IncDec(dst, group, base, f))
<1>1. ASSUME NEW o, IsOperand(o)
      PROVE  /\ \A size : Emits(PlainForm(size, <<base + o.reg>>, 1))
             /\ \A size, g : Emits(Check(g, RmForm(size, <<\hFE + W(o.size)>>, group, o, 2)))
             /\ Emits(EncodeIncDec(o, group, base))
  <2>1. Counts(<<base + o.reg>>, 1)
    BY <1>1, Opcodes
  <2>2. \A size : Emits(PlainForm(size, <<base + o.reg>>, 1))
    BY <2>1, PlainForms
  <2>3. \A size, g : Emits(Check(g, RmForm(size, <<\hFE + W(o.size)>>, group, o, 2)))
    BY Ranges, <1>1, GroupForms
  <2> QED
    BY <2>2, <2>3 DEF EncodeIncDec
<1> DEFINE d == Forced(dst, f)
           op == f.o32 \/ d.kind = "REG32"
<1>2. IsOperand(d) /\ d.reg \in Int /\ d.mem \in Memory
  BY ForcedOperand, Taken
<1>3. Emits(EncodePrefixedIncDec(dst, group, base, f))
  <2> DEFINE u == Out(ForcedPrefixPair(op, TRUE) \o <<\hFE>> \o ModrmReg(group, d.reg),
                      3 + (IF op THEN 1 ELSE 0))
             v == Out(ForcedPrefixPair(op, TRUE) \o <<base + d.reg>>, 2 + (IF op THEN 1 ELSE 0))
  <2>1. Emits(u) /\ Emits(v)
    <3> DEFINE x == \hFE
               y == base + d.reg
    <3>1. x \in AByte
      BY Ranges
    <3>4. y \in AByte
      BY <1>2, Opcodes
    <3> HIDE DEF d, op, x, y
    <3>2. /\ Emits(Out(ForcedPrefixPair(op, TRUE) \o <<x>> \o ModrmReg(group, d.reg),
                       3 + (IF op THEN 1 ELSE 0)))
          /\ Emits(Out(ForcedPrefixPair(op, TRUE) \o <<y>>, 2 + (IF op THEN 1 ELSE 0)))
      BY <1>2, <3>1, <3>4, PairBytes
    <3> QED
      BY <3>2 DEF x, y
  <2>2. EncodePrefixedIncDec(dst, group, base, f) =
          CASE ~AddressSizeAgrees(d, f) -> FAIL
            [] AddressSizeAgrees(d, f) /\ f.a32 /\ d.kind = "REG8" -> u
            [] AddressSizeAgrees(d, f) /\ f.a32 /\ d.kind \in R16or32 -> v
            [] OTHER ->
                 IF ~f.o32 \/ d.kind = "REG32" \/ (d.kind = "MEM" /\ d.size = 4)
                 THEN EncodeIncDec(d, group, base)
                 ELSE IF d.kind = "REG16" THEN PlainForm(4, <<base + d.reg>>, 1)
                 ELSE Check(IsTarget(d), RmForm(4, <<\hFE + W(d.size)>>, group, d, 2))
    BY DEF EncodePrefixedIncDec
  <2> HIDE DEF d, u, v
  <2> QED
    BY <1>1, <1>2, <2>1, <2>2, Counting, Ranges
<1>4. Emits(EncodeO16IncDec(dst, group, base, f))
  <2> DEFINE form == CASE d.kind = "REG8" -> RegForm(1, <<\hFE>>, group, d.reg, 2)
                       [] d.kind \in R16or32 -> PlainForm(2, <<base + d.reg>>, 1)
                       [] d.kind = "MEM" /\ d.size \in {1, 2, 4} ->
                            MemForm(2, <<\hFE + W(d.size)>>, group, d.mem, 2)
                       [] OTHER -> FAIL
  <2>1. Emits(form)
    <3> HIDE DEF d
    <3>1. Counts(<<\hFE>>, 1)
      BY Counting, Ranges
    <3>2. Counts(<<\hFE + W(d.size)>>, 1)
      BY Opcodes, Ranges
    <3>3. /\ Emits(RegForm(1, <<\hFE>>, group, d.reg, 2))
          /\ Emits(MemForm(2, <<\hFE + W(d.size)>>, group, d.mem, 2))
          /\ Emits(PlainForm(2, <<base + d.reg>>, 1))
      BY <1>1, <1>2, <3>1, <3>2, RegForms, MemForms
    <3> QED
      BY <3>3, Counting, Ranges
  <2>2. Emits(Behind(<<\h67>>, form))
    <3>1. Counts(<<\h67>>, 1)
      BY Counting, Ranges
    <3> HIDE DEF form
    <3> QED
      BY <2>1, <3>1, Built
  <2>3. EncodeO16IncDec(dst, group, base, f) =
          IF ~AddressSizeAgrees(d, f) \/ form = FAIL THEN FAIL
          ELSE IF f.a32 /\ d.kind # "MEM" THEN Out(<<\h67>> \o form.bytes, form.size + 1)
          ELSE form
    BY DEF EncodeO16IncDec
  <2>4. form = FAIL \/ form.size > 0
    <3>1. /\ RegForm(1, <<\hFE>>, group, d.reg, 2).size > 0
          /\ PlainForm(2, <<base + d.reg>>, 1).size > 0
      BY OtherPrefixes DEF RegForm, PlainForm, Out
    <3>2. MemForm(2, <<\hFE + W(d.size)>>, group, d.mem, 2).size > 0
      <4>1. MemoryOperandPrefixLen(d.mem, 2) \in Nat /\ MemoryTailLen(d.mem) \in Nat
        BY <1>2, MemoryPrefixes, Parts
      <4> QED
        BY <4>1 DEF MemForm, Out
    <3> HIDE DEF d
    <3> QED
      BY <3>1, <3>2
  <2>5. form.size > 0 => Emits(Out(<<\h67>> \o form.bytes, form.size + 1))
    <3>1. Len(<<\h67>>) = 1
      OBVIOUS
    <3> HIDE DEF form
    <3> QED
      BY <2>1, <2>2, <3>1 DEF Behind, Emits
  <2> HIDE DEF form
  <2> QED
    BY <2>1, <2>3, <2>4, <2>5, Counting, Ranges
<1> QED
  BY <1>1, <1>3, <1>4

----------------------------------------------------------------------------
(* imul                                                                    *)

\* Of a register and a register or memory, and with an immediate, for the size the
\* prefix stands for.
LEMMA ImulForms ==
  ASSUME NEW d, IsOperand(d), NEW s, IsOperand(s)
  PROVE  /\ \A size : Emits(RmForm(size, <<\h0F, \hAF>>, d.reg, s, 3))
         /\ \A size : \A v \in Int : d.kind \in R16or32 => Emits(ImulImm(size, d, s, v))
<1>1. d.reg \in Int /\ (d.kind \in R16or32 => d.size \in {1, 2, 4})
  BY Fields
<1>2. Counts(<<\h0F, \hAF>>, 2) /\ Counts(<<\h6B>>, 1) /\ Counts(<<\h69>>, 1)
  BY Counting, Ranges
<1>3. ASSUME NEW size
      PROVE  /\ Emits(RmForm(size, <<\h0F, \hAF>>, d.reg, s, 3))
             /\ Emits(RmForm(size, <<\h6B>>, d.reg, s, 2)) /\ Emits(RmForm(size, <<\h69>>, d.reg, s, 2))
  BY <1>1, <1>2, RmForms
<1>4. ASSUME NEW size, NEW v \in Int, d.kind \in R16or32
      PROVE  Emits(ImulImm(size, d, s, v))
  <2>1. Counts(Byte(v), 1) /\ Counts(Imm(d.size, v), d.size)
    BY <1>1, <1>4, Parts
  <2>2. /\ Emits(Then(RmForm(size, <<\h6B>>, d.reg, s, 2), Byte(v), 1))
        /\ Emits(Then(RmForm(size, <<\h69>>, d.reg, s, 2), Imm(d.size, v), d.size))
    BY <1>3, <2>1, Built
  <2> QED
    BY <2>2 DEF ImulImm
<1> QED
  BY <1>3, <1>4

\* imul with a register, and with an immediate behind.
LEMMA ImulEmits ==
  ASSUME NEW d, IsOperand(d), NEW s, IsOperand(s), NEW i, IsOperand(i)
  PROVE  /\ Emits(EmitImulRegRm(d, s)) /\ Emits(EmitImulImmTail(d, s, i))
         /\ Emits(EmitO32ImulRegRm(d, s)) /\ Emits(EmitO32ImulImmTail(d, s, i))
<1>1. i.imm \in Int
  BY Taken
<1>2. Emits(EmitImulRegRm(d, s))
  BY ImulForms, Counting, Ranges DEF EmitImulRegRm
<1>3. Emits(EmitImulImmTail(d, s, i))
  BY <1>1, ImulForms, Counting, Ranges DEF EmitImulImmTail
<1>4. Emits(EmitO32ImulRegRm(d, s))
  <2>1. Emits(RmForm(4, <<\h0F, \hAF>>, d.reg, s, 3))
    BY ImulForms
  <2> QED
    BY <1>2, <2>1, Counting, Ranges DEF EmitO32ImulRegRm
<1>5. Emits(EmitO32ImulImmTail(d, s, i))
  <2>1. d.kind = "REG16" => Emits(ImulImm(4, d, s, i.imm))
    BY <1>1, ImulForms DEF R16or32
  <2> QED
    BY <1>3, <2>1, Counting, Ranges DEF EmitO32ImulImmTail
<1> QED
  BY <1>2, <1>3, <1>4, <1>5

\* What is behind the one or two prefixes of an imul without memory.
LEMMA ImulBehind ==
  ASSUME NEW form, Emits(form)
  PROVE  Emits(Behind(<<\h67>>, form)) /\ Emits(Behind(<<\h66, \h67>>, form))
<1>1. Counts(<<\h67>>, 1) /\ Counts(<<\h66, \h67>>, 2)
  BY Counting, Ranges
<1> QED
  BY <1>1, Built

\* imul of the accumulator behind prefixes.
LEMMA PrefixedImul1Emits ==
  ASSUME NEW dst, IsOperand(dst), NEW f
  PROVE  Emits(PrefixedImul1(dst, f))
<1> DEFINE d == Forced(dst, f)
           x == \hF6 + W(d.size)
<1>1. IsOperand(d) /\ d.reg \in Int /\ x \in AByte
  BY ForcedOperand, Taken, Opcodes, Ranges
<1>2. Emits(Out(<<\h66, \h67, x>> \o ModrmReg(5, d.reg), 4))
  <2> HIDE DEF d, x
  <2>1. Counts(<<\h66, \h67, x>>, 3) /\ Counts(ModrmReg(5, d.reg), 1)
    BY <1>1, Counting, Ranges, Parts
  <2>2. Counts(<<\h66, \h67, x>> \o ModrmReg(5, d.reg), 3 + 1)
    BY <2>1, Counting, Ranges
  <2> QED
    BY <2>2, Counting, Ranges
<1>3. \A g : Emits(EncodePrefixedUnaryGroup(d, 5, g))
  <2> HIDE DEF d
  <2> QED
    BY <1>1, UnaryEmits
<1>4. \A g : Emits(Behind(<<\h67>>, EncodePrefixedUnaryGroup(d, 5, g)))
  BY <1>3, ImulBehind
<1>5. \/ PrefixedImul1(dst, f) = FAIL
      \/ PrefixedImul1(dst, f) = Out(<<\h66, \h67, x>> \o ModrmReg(5, d.reg), 4)
      \/ PrefixedImul1(dst, f)
           = Behind(<<\h67>>, EncodePrefixedUnaryGroup(d, 5, [f EXCEPT !.a32 = FALSE]))
      \/ PrefixedImul1(dst, f) = EncodePrefixedUnaryGroup(d, 5, f)
  BY DEF PrefixedImul1
<1> HIDE DEF d, x
<1> QED
  BY <1>2, <1>3, <1>4, <1>5, Counting, Ranges

\* imul of a register with an operand or an immediate, behind prefixes.
LEMMA PrefixedImul2Emits ==
  ASSUME NEW d, IsOperand(d), NEW src, IsOperand(src), NEW f
  PROVE  Emits(PrefixedImul2(d, src, f))
<1> DEFINE s == Forced(src, f)
           tail == CASE s.kind = "IMM" /\ f.o32 -> EmitO32ImulImmTail(d, d, s)
                     [] s.kind = "IMM" /\ ~f.o32 -> EmitImulImmTail(d, d, s)
                     [] s.kind # "IMM" /\ f.o32 -> EmitO32ImulRegRm(d, s)
                     [] s.kind # "IMM" /\ ~f.o32 -> EmitImulRegRm(d, s)
           regs == Out(<<\h66, \h67, \h0F, \hAF>> \o ModrmReg(d.reg, s.reg), 5)
<1>1. IsOperand(s) /\ d.reg \in Int /\ s.reg \in Int
  BY ForcedOperand, Taken
<1>2. PrefixedImul2(d, src, f) =
        CASE ~AddressSizeAgrees(s, f) -> FAIL
          [] AddressSizeAgrees(s, f) /\ f.o32 /\ f.a32 /\ s.kind = "IMM" ->
               Behind(<<\h66, \h67>>, EmitImulImmTail(d, d, s))
          [] AddressSizeAgrees(s, f) /\ f.o32 /\ f.a32 /\ s.kind \in R16or32 /\ s.kind = d.kind -> regs
          [] OTHER -> IF f.a32 /\ s.kind # "MEM" THEN Behind(<<\h67>>, tail) ELSE tail
  BY DEF PrefixedImul2
<1> HIDE DEF s
<1>3. Emits(tail)
  BY <1>1, ImulEmits
<1>4. Emits(regs)
  <2>1. Counts(<<\h66, \h67, \h0F, \hAF>>, 4)
    BY Counting, Ranges
  <2>2. Counts(ModrmReg(d.reg, s.reg), 1)
    BY <1>1, Parts
  <2>3. Counts(<<\h66, \h67, \h0F, \hAF>> \o ModrmReg(d.reg, s.reg), 4 + 1)
    BY <2>1, <2>2, Counting, Ranges
  <2> QED
    BY <2>3, Counting, Ranges
<1> HIDE DEF tail, regs
<1>5. /\ Emits(Behind(<<\h67>>, tail))
      /\ Emits(Behind(<<\h66, \h67>>, EmitImulImmTail(d, d, s)))
  <2>1. Emits(EmitImulImmTail(d, d, s))
    BY <1>1, ImulEmits
  <2> QED
    BY <1>3, <2>1, ImulBehind
<1> QED
  BY <1>2, <1>3, <1>4, <1>5, Counting, Ranges

\* imul of an operand with an immediate into a register, behind prefixes.
LEMMA PrefixedImul3Emits ==
  ASSUME NEW d, IsOperand(d), NEW src, IsOperand(src), NEW i, IsOperand(i), NEW f
  PROVE  Emits(PrefixedImul3(d, src, i, f))
<1> DEFINE s == Forced(src, f)
           tail == IF f.o32 THEN EmitO32ImulImmTail(d, s, i) ELSE EmitImulImmTail(d, s, i)
<1>1. IsOperand(s)
  BY ForcedOperand
<1>2. PrefixedImul3(d, src, i, f) =
        CASE ~AddressSizeAgrees(s, f) -> FAIL
          [] AddressSizeAgrees(s, f) /\ f.o32 /\ f.a32 /\ s.kind # "MEM" ->
               Behind(<<\h66, \h67>>, EmitImulImmTail(d, s, i))
          [] OTHER -> IF f.a32 /\ s.kind # "MEM" THEN Behind(<<\h67>>, tail) ELSE tail
  BY DEF PrefixedImul3
<1> HIDE DEF s
<1>3. Emits(tail) /\ Emits(EmitImulImmTail(d, s, i))
  BY <1>1, ImulEmits
<1> HIDE DEF tail
<1>4. Emits(Behind(<<\h67>>, tail)) /\ Emits(Behind(<<\h66, \h67>>, EmitImulImmTail(d, s, i)))
  BY <1>3, ImulBehind
<1> QED
  BY <1>2, <1>3, <1>4, Counting, Ranges

\* imul with one to three operands, on its own and behind prefixes.
LEMMA ImulsEmit ==
  ASSUME NEW args, AreOperands(args), NEW f
  PROVE  /\ Len(args) \in 1..3 => Emits(EncodeImulMulti(args))
         /\ Emits(EncodeO32Imul(args)) /\ Emits(EncodePrefixedImul(args, f))
<1>1. Len(args) \in Nat /\ \A n \in 1..3 : n <= Len(args) => IsOperand(args[n])
  BY DEF AreOperands
<1>2. CASE Len(args) = 1
  <2>1. IsOperand(args[1])
    BY <1>1, <1>2
  <2>2. /\ Emits(EncodeUnaryGroup(args[1], 5)) /\ Emits(EncodeO32UnaryGroup(args[1], 5))
        /\ Emits(PrefixedImul1(args[1], f))
    BY <2>1, UnaryEmits, PrefixedImul1Emits
  <2> QED
    BY <1>2, <2>2 DEF EncodeImulMulti, EncodeO32Imul, EncodePrefixedImul
<1>3. CASE Len(args) = 2
  <2>1. IsOperand(args[1]) /\ IsOperand(args[2])
    BY <1>1, <1>3
  <2>2. /\ Emits(EmitImulImmTail(args[1], args[1], args[2])) /\ Emits(EmitImulRegRm(args[1], args[2]))
        /\ Emits(EmitO32ImulImmTail(args[1], args[1], args[2]))
        /\ Emits(EmitO32ImulRegRm(args[1], args[2])) /\ Emits(PrefixedImul2(args[1], args[2], f))
    BY <2>1, ImulEmits, PrefixedImul2Emits
  <2> QED
    BY <1>3, <2>2 DEF EncodeImulMulti, EncodeO32Imul, EncodePrefixedImul
<1>4. CASE Len(args) = 3
  <2>1. IsOperand(args[1]) /\ IsOperand(args[2]) /\ IsOperand(args[3])
    BY <1>1, <1>4
  <2>2. /\ Emits(EmitImulImmTail(args[1], args[2], args[3]))
        /\ Emits(EmitO32ImulImmTail(args[1], args[2], args[3]))
        /\ Emits(PrefixedImul3(args[1], args[2], args[3], f))
    BY <2>1, ImulEmits, PrefixedImul3Emits
  <2> QED
    BY <1>4, <2>2 DEF EncodeImulMulti, EncodeO32Imul, EncodePrefixedImul
<1>5. CASE Len(args) \notin 1..3
  BY <1>5, Counting, Ranges DEF EncodeO32Imul, EncodePrefixedImul
<1> QED
  BY <1>2, <1>3, <1>4, <1>5

----------------------------------------------------------------------------
(* Jumps, calls and returns                                                *)

\* The place of an instruction.
IsPlace(e) == e.addr \in Int /\ e.last \in BOOLEAN

\* out is a size, and in the last pass a failure or x bytes more than the size.
Fits(out, e, x) ==
  /\ out.size \in Int /\ out.bytes \in Bytes
  /\ e.last => out.size < 0 \/ Len(out.bytes) = out.size + x

\* What is counted fits; so do a failure, a bare size, and prefixes in front.
LEMMA Fitting ==
  ASSUME NEW e
  PROVE  /\ \A out : Emits(out) => Fits(out, e, 0)
         /\ \A x : Fits(FAIL, e, x)
         /\ \A x, n : ~e.last /\ n \in Int => Fits(Sized(n), e, x)
         /\ \A x, out, guard : Fits(out, e, x) => Fits(Check(guard, out), e, x)
<1>1. ASSUME NEW out, Emits(out)
      PROVE  Fits(out, e, 0)
  BY <1>1 DEF Emits, Fits
<1>2. ASSUME NEW x PROVE Fits(FAIL, e, x)
  BY Few DEF Fits, FAIL, Out
<1>3. ASSUME NEW x, NEW n \in Int, ~e.last
      PROVE  Fits(Sized(n), e, x)
  BY <1>3, Few DEF Fits, Sized, Out
<1> QED
  BY <1>1, <1>2, <1>3 DEF Check

\* Counted bytes in front of what fits.
LEMMA FitsBehind ==
  ASSUME NEW e, NEW x \in Int, NEW out, Fits(out, e, x), NEW bytes, NEW n, Counts(bytes, n)
  PROVE  Fits(Behind(bytes, out), e, x)
<1>1. bytes \in Bytes /\ Len(bytes) \in Nat
  BY DEF Counts
<1>2. CASE out.size < 0
  BY <1>2, Fitting DEF Behind
<1>3. CASE ~(out.size < 0)
  <2>1. Behind(bytes, out) = Out(bytes \o out.bytes, out.size + Len(bytes))
    BY <1>3 DEF Behind
  <2>2. out.size \in Int
    BY DEF Fits
  <2>3. bytes \o out.bytes \in Bytes /\ Len(bytes \o out.bytes) = Len(bytes) + Len(out.bytes)
    BY <1>1, Concat DEF Fits
  <2>4. ASSUME e.last
        PROVE  Len(bytes \o out.bytes) = (out.size + Len(bytes)) + x
    <3>1. Len(out.bytes) = out.size + x
      BY <1>3, <2>4 DEF Fits
    <3> QED
      BY <1>1, <2>2, <2>3, <3>1
  <2> QED
    BY <1>1, <2>1, <2>2, <2>3, <2>4 DEF Fits, Out
<1> QED
  BY <1>2, <1>3

----------------------------------------------------------------------------
(* Relative targets                                                        *)

\* A displacement of one, two or four bytes behind an opcode.
LEMMA RelativeEmits ==
  ASSUME NEW bytes, NEW k, Counts(bytes, k), NEW target \in Int, NEW e, IsPlace(e)
  PROVE  /\ Emits(Relative(bytes, 1, target, e)) /\ Emits(Relative(bytes, 2, target, e))
         /\ Emits(Relative32(bytes, target, e))
<1>1. k \in Nat /\ Len(bytes) = k /\ e.addr \in Int
  BY DEF Counts, IsPlace
<1>2. ASSUME NEW n \in {1, 2, 4}
      PROVE  /\ Emits(Out(bytes \o Imm(n, target - (e.addr + (k + n))), k + n))
             /\ target - (e.addr + (k + n)) \in Int
  <2> DEFINE disp == target - (e.addr + (k + n))
  <2>1. disp \in Int
    BY <1>1
  <2> HIDE DEF disp
  <2>2. Counts(Imm(n, disp), n)
    BY <2>1, Parts
  <2>3. Counts(bytes \o Imm(n, disp), k + n)
    BY <2>2, Counting, Ranges
  <2>4. k + n > 0
    BY <1>1
  <2>5. Emits(Out(bytes \o Imm(n, disp), k + n))
    BY <2>3, <2>4, Counting, Ranges
  <2> QED
    BY <2>1, <2>5 DEF disp
<1>3. \A v : Imm(4, v) = Dword(v)
  BY DEF Imm
<1>4. Emits(Relative(bytes, 1, target, e))
  BY <1>1, <1>2, Built DEF Relative
<1>5. Emits(Relative(bytes, 2, target, e))
  BY <1>1, <1>2, Built DEF Relative
<1>6. Emits(Relative32(bytes, target, e))
  BY <1>1, <1>2, <1>3, Built DEF Relative32
<1> QED
  BY <1>4, <1>5, <1>6

\* What emits a jump, a call, a conditional jump.
LEMMA RelativesEmit ==
  ASSUME NEW target \in Int, NEW e, IsPlace(e)
  PROVE  /\ \A size : Emits(EmitJmpRelative(target, size, e))
         /\ Emits(EmitCallRelative(target, e))
         /\ \A size : \A short, near \in AByte : Emits(EmitCondRelative(target, size, short, near, e))
         /\ \A opcode \in AByte : /\ Emits(Relative(<<opcode>>, 1, target, e))
                                /\ Emits(EmitO32Rel8(target, opcode, e))
                                /\ Emits(EmitO32Rel32(target, opcode, e))
                                /\ Emits(EmitO32JccRel32(target, opcode, e))
         /\ Emits(Relative(<<\h67, \hE3>>, 1, target, e))
<1>1. \A bytes, k : Counts(bytes, k) =>
        /\ Emits(Relative(bytes, 1, target, e)) /\ Emits(Relative(bytes, 2, target, e))
        /\ Emits(Relative32(bytes, target, e))
  BY RelativeEmits
<1>2. Counts(<<\hEB>>, 1) /\ Counts(<<\hE9>>, 1) /\ Counts(<<\hE8>>, 1) /\ Counts(<<\h67, \hE3>>, 2)
  BY Counting, Ranges
<1>3. ASSUME NEW size PROVE Emits(EmitJmpRelative(target, size, e))
  BY <1>1, <1>2 DEF EmitJmpRelative
<1>4. Emits(EmitCallRelative(target, e))
  BY <1>1, <1>2 DEF EmitCallRelative
<1>5. ASSUME NEW size, NEW short \in AByte, NEW near \in AByte
      PROVE  Emits(EmitCondRelative(target, size, short, near, e))
  <2>1. Counts(<<short>>, 1) /\ Counts(<<\h0F, near>>, 2)
    BY Opcodes
  <2> QED
    BY <1>1, <2>1 DEF EmitCondRelative
<1>6. ASSUME NEW opcode \in AByte
      PROVE  /\ Emits(Relative(<<opcode>>, 1, target, e))
             /\ Emits(EmitO32Rel8(target, opcode, e)) /\ Emits(EmitO32Rel32(target, opcode, e))
             /\ Emits(EmitO32JccRel32(target, opcode, e))
  <2>1. Counts(<<opcode>>, 1) /\ Counts(<<\h66, opcode>>, 2) /\ Counts(<<\h66, \h0F, opcode>>, 3)
    BY Counting, Ranges
  <2> QED
    BY <1>1, <2>1 DEF EmitO32Rel8, EmitO32Rel32, EmitO32JccRel32
<1> QED
  BY <1>1, <1>2, <1>3, <1>4, <1>5, <1>6

\* A direct jump with its size or without, and a call.
LEMMA DirectFits ==
  ASSUME NEW o, IsOperand(o), NEW e, IsPlace(e), NEW size \in {0, 2, 3}
  PROVE  Fits(EncodeJmpDirect(o, size, e), e, 0) /\ Fits(EncodeCallDirect(o, e), e, 0)
<1>1. o.imm \in Int
  BY Taken
<1>2. /\ \A n : Fits(EmitJmpRelative(o.imm, n, e), e, 0)
      /\ Fits(EmitCallRelative(o.imm, e), e, 0)
      /\ Fits(FAIL, e, 0)
      /\ \A n \in Int : ~e.last => Fits(Sized(n), e, 0)
  BY <1>1, RelativesEmit, Fitting
<1>3. ~e.last => JmpDirectSize(o, e) \in Int
  BY DEF JmpDirectSize, ShortIfFits
<1>4. Unknown(o, e) => ~e.last
  BY DEF Unknown
<1>5. Fits(EncodeJmpDirect(o, size, e), e, 0)
  <2>1. CASE o.kind # "IMM"
    BY <1>2, <2>1 DEF EncodeJmpDirect
  <2>2. CASE o.kind = "IMM" /\ size # 0
    <3>1. EncodeJmpDirect(o, size, e)
            = IF Unknown(o, e) THEN Sized(size) ELSE EmitJmpRelative(o.imm, size, e)
      BY <2>2 DEF EncodeJmpDirect
    <3> QED
      BY <1>2, <1>4, <3>1
  <2>3. CASE o.kind = "IMM" /\ size = 0
    <3>1. EncodeJmpDirect(o, size, e) = IF e.last THEN EmitJmpRelative(o.imm, JmpDirectSize(o, e), e)
                                                  ELSE Sized(JmpDirectSize(o, e))
      BY <2>3 DEF EncodeJmpDirect
    <3> QED
      BY <1>2, <1>3, <3>1
  <2> QED
    BY <2>1, <2>2, <2>3
<1>6. Fits(EncodeCallDirect(o, e), e, 0)
  <2>1. Unknown(o, e) => Fits(Sized(3), e, 0)
    BY <1>2, <1>4
  <2> QED
    BY <1>2, <2>1 DEF EncodeCallDirect
<1> QED
  BY <1>5, <1>6

\* The loops, jecxz and the conditional jumps.
LEMMA ConditionsFit ==
  ASSUME NEW t, IsJumpTarget(t), NEW e, IsPlace(e), NEW x \in AByte, NEW y \in AByte
  PROVE  /\ Fits(EncodeRel8Control(t, x, e), e, 0) /\ Fits(EncodeJecxz(t, e), e, 0)
         /\ Fits(EncodeConditionalJump(t, x, y, e), e, 0)
<1>1. t.o.imm \in Int
  BY Taken DEF IsJumpTarget
<1>2. Unknown(t.o, e) => ~e.last
  BY DEF Unknown
<1>3. /\ Fits(Relative(<<x>>, 1, t.o.imm, e), e, 0)
      /\ Fits(Relative(<<\h67, \hE3>>, 1, t.o.imm, e), e, 0)
      /\ \A size : Fits(EmitCondRelative(t.o.imm, size, x, y, e), e, 0)
      /\ Fits(FAIL, e, 0)
      /\ \A n \in Int : Unknown(t.o, e) => Fits(Sized(n), e, 0)
  <2> DEFINE v == t.o.imm
  <2>1. v \in Int
    BY <1>1
  <2> HIDE DEF v
  <2>2. /\ Emits(Relative(<<x>>, 1, v, e)) /\ Emits(Relative(<<\h67, \hE3>>, 1, v, e))
        /\ \A size : Emits(EmitCondRelative(v, size, x, y, e))
    BY <2>1, RelativesEmit
  <2>3. /\ Fits(Relative(<<x>>, 1, v, e), e, 0) /\ Fits(Relative(<<\h67, \hE3>>, 1, v, e), e, 0)
        /\ \A size : Fits(EmitCondRelative(v, size, x, y, e), e, 0)
    BY <2>2, Fitting
  <2>4. /\ Fits(FAIL, e, 0) /\ \A n \in Int : Unknown(t.o, e) => Fits(Sized(n), e, 0)
    BY <1>2, Fitting
  <2> QED
    BY <2>3, <2>4 DEF v
<1>4. Unknown(t.o, e) => Fits(Sized(2), e, 0) /\ Fits(Sized(3), e, 0) /\ Fits(Sized(4), e, 0)
  BY <1>3
<1>5. Fits(EncodeRel8Control(t, x, e), e, 0)
  BY <1>3, <1>4 DEF EncodeRel8Control
<1>6. Fits(EncodeJecxz(t, e), e, 0)
  BY <1>3, <1>4 DEF EncodeJecxz
<1>7. Fits(EncodeConditionalJump(t, x, y, e), e, 0)
  BY <1>3, <1>4 DEF EncodeConditionalJump
<1> QED
  BY <1>5, <1>6, <1>7

----------------------------------------------------------------------------
(* Targets of every kind                                                   *)

\* A far address with an offset of a dword has eight bytes and is counted as seven.
FarExtra(t) == IF t.o.kind = "FAR" /\ t.o.size = 4 THEN 1 ELSE 0

\* Through memory.
LEMMA PtrMemEmits ==
  ASSUME NEW o, IsOperand(o), NEW group \in Int
  PROVE  Emits(PtrMem(o, group))
<1>1. o.mem \in Memory /\ Counts(<<\hFF>>, 1)
  BY Taken, Counting, Ranges
<1>2. \A size : Emits(MemForm(size, <<\hFF>>, group, o.mem, 2))
  BY <1>1, MemForms
<1> QED
  BY <1>2, Built DEF PtrMem

\* A far address: counted as written, but for the prefix of a dword.
LEMMA FarFits ==
  ASSUME NEW o, IsOperand(o), NEW opcode \in AByte, NEW e, IsPlace(e)
  PROVE  /\ Fits(FarImmediate(o, opcode, 4, e), e, 1)
         /\ Fits(FarImmediate(o, opcode, 2, e), e, 0)
<1>1. o.imm \in Int /\ o.seg \in Int
  BY Taken
<1>2. ASSUME NEW size \in {2, 4}
      PROVE  Counts(OperandSizePrefix(size) \o <<opcode>> \o Imm(size, o.imm) \o Word(o.seg),
                    OperandSizePrefixLen(size) + 1 + size + 2)
  <2>1. /\ Counts(OperandSizePrefix(size), OperandSizePrefixLen(size)) /\ Counts(<<opcode>>, 1)
        /\ Counts(Imm(size, o.imm), size) /\ Counts(Word(o.seg), 2)
    BY <1>1, Parts, Counting, Ranges
  <2>2. Counts(OperandSizePrefix(size) \o <<opcode>>, OperandSizePrefixLen(size) + 1)
    BY <2>1, Counting, Ranges
  <2>3. Counts(OperandSizePrefix(size) \o <<opcode>> \o Imm(size, o.imm),
               OperandSizePrefixLen(size) + 1 + size)
    BY <2>1, <2>2, Counting, Ranges
  <2> QED
    BY <2>1, <2>3, Counting, Ranges
<1>3. OperandSizePrefixLen(4) = 1 /\ OperandSizePrefixLen(2) = 0
  BY DEF OperandSizePrefixLen
<1>4. FarImmediateSize(4) = 7 /\ FarImmediateSize(2) = 5
  BY DEF FarImmediateSize
<1>5. Unknown(o, e) => /\ Fits(Sized(7), e, 1) /\ Fits(Sized(5), e, 0)
  BY Fitting DEF Unknown
<1> DEFINE b(size) == OperandSizePrefix(size) \o <<opcode>> \o Imm(size, o.imm) \o Word(o.seg)
<1>6. Fits(FarImmediate(o, opcode, 4, e), e, 1)
  <2>1. Counts(b(4), 8)
    BY <1>2, <1>3
  <2> HIDE DEF b
  <2>2. Fits(Out(b(4), 7), e, 1)
    BY <2>1 DEF Fits, Out, Counts
  <2>3. \A g : Fits(Check(g, Out(b(4), 7)), e, 1)
    BY <2>2, Fitting
  <2>4. FarImmediate(o, opcode, 4, e)
          = IF o.kind # "FAR" THEN FAIL
            ELSE IF Unknown(o, e) THEN Sized(7)
            ELSE Check(FitsU16(o.seg) /\ FitsImm(4, o.imm), Out(b(4), 7))
    BY <1>4 DEF FarImmediate, b
  <2> QED
    BY <1>5, <2>3, <2>4, Fitting
<1>7. Fits(FarImmediate(o, opcode, 2, e), e, 0)
  <2>1. Counts(b(2), 5)
    BY <1>2, <1>3
  <2> HIDE DEF b
  <2>2. Fits(Out(b(2), 5), e, 0)
    BY <2>1 DEF Fits, Out, Counts
  <2>3. \A g : Fits(Check(g, Out(b(2), 5)), e, 0)
    BY <2>2, Fitting
  <2>4. FarImmediate(o, opcode, 2, e)
          = IF o.kind # "FAR" THEN FAIL
            ELSE IF Unknown(o, e) THEN Sized(5)
            ELSE Check(FitsU16(o.seg) /\ FitsImm(2, o.imm), Out(b(2), 5))
    BY <1>4 DEF FarImmediate, b
  <2> QED
    BY <1>5, <2>3, <2>4, Fitting
<1> QED
  BY <1>6, <1>7

\* jmp and call to whatever target.
LEMMA JumpsFit ==
  ASSUME NEW t, IsJumpTarget(t), NEW e, IsPlace(e)
  PROVE  /\ Fits(EncodeJmp(t, e), e, FarExtra(t)) /\ Fits(EncodeCall(t, e), e, FarExtra(t))
<1> DEFINE x == FarExtra(t)
<1>1. /\ IsOperand(t.o) /\ t.o.reg \in Int /\ t.o.size \in {0, 1, 2, 4}
      /\ t.dist \in {"none", "short", "near", "far"}
  BY Taken, Fields DEF IsJumpTarget, Target
<1>2. x = 0 \/ (t.o.kind = "FAR" /\ t.o.size = 4 /\ x = 1)
  BY DEF FarExtra
<1>3. ASSUME NEW size \in {0, 2, 3}
      PROVE  Fits(EncodeJmpDirect(t.o, size, e), e, x) /\ Fits(EncodeCallDirect(t.o, e), e, x)
  <2>1. CASE x = 0
    BY <1>1, <2>1, DirectFits
  <2>2. CASE t.o.kind = "FAR"
    <3>1. EncodeJmpDirect(t.o, size, e) = FAIL /\ EncodeCallDirect(t.o, e) = FAIL
      BY <2>2 DEF EncodeJmpDirect, EncodeCallDirect
    <3> QED
      BY <3>1, Fitting
  <2> QED
    BY <1>2, <2>1, <2>2
<1>4. ASSUME NEW group \in Int
      PROVE  Fits(PtrMem(t.o, group), e, x)
  <2>1. CASE x = 0
    BY <1>1, <2>1, PtrMemEmits, Fitting
  <2>2. CASE t.o.kind = "FAR"
    <3>1. PtrMem(t.o, group) = FAIL
      BY <2>2 DEF PtrMem, JumpMemory, Check
    <3> QED
      BY <3>1, Fitting
  <2> QED
    BY <1>2, <2>1, <2>2
<1>5. ASSUME NEW opcode \in AByte
      PROVE  Fits(FarImmediate(t.o, opcode, IF t.o.size # 0 THEN t.o.size ELSE 2, e), e, x)
  <2>1. CASE t.o.kind # "FAR" \/ t.o.size = 1
    <3>1. FarImmediate(t.o, opcode, IF t.o.size # 0 THEN t.o.size ELSE 2, e) = FAIL
      BY <2>1 DEF FarImmediate
    <3> QED
      BY <3>1, Fitting
  <2>2. CASE t.o.kind = "FAR" /\ t.o.size = 4
    <3>1. x = 1
      BY <2>2 DEF FarExtra
    <3> QED
      BY <1>1, <2>2, <3>1, FarFits
  <2>3. CASE t.o.kind = "FAR" /\ t.o.size \in {0, 2}
    <3>1. x = 0
      BY <2>3 DEF FarExtra
    <3>2. (IF t.o.size # 0 THEN t.o.size ELSE 2) = 2
      BY <2>3
    <3> QED
      BY <1>1, <3>1, <3>2, FarFits
  <2> QED
    BY <1>1, <2>1, <2>2, <2>3
<1>6. ASSUME NEW group \in Int, t.o.kind \in R16or32
      PROVE  Fits(RegForm(t.o.size, <<\hFF>>, group, t.o.reg, 2), e, x)
  <2>1. x = 0
    BY <1>6 DEF FarExtra, R16or32
  <2>2. Counts(<<\hFF>>, 1)
    BY Counting, Ranges
  <2> QED
    BY <1>1, <2>1, <2>2, RegForms, Fitting
<1>7. Fits(FAIL, e, x)
  BY Fitting
<1> HIDE DEF x
<1>8. Fits(EncodeJmp(t, e), e, x)
  <2>1. /\ Fits(EncodeJmpDirect(t.o, 0, e), e, x) /\ Fits(EncodeJmpDirect(t.o, 2, e), e, x)
        /\ Fits(EncodeJmpDirect(t.o, 3, e), e, x)
    BY <1>3
  <2>2. \A far : Fits(EncodeJmpPtrMem(t.o, far), e, x)
    BY <1>4 DEF EncodeJmpPtrMem
  <2>3. Fits(EncodeJmpFarImmediate(t.o, IF t.o.size # 0 THEN t.o.size ELSE 2, e), e, x)
    BY Ranges, <1>5 DEF EncodeJmpFarImmediate
  <2>4. t.o.kind \in R16or32 => Fits(RegForm(t.o.size, <<\hFF>>, 4, t.o.reg, 2), e, x)
    BY <1>6
  <2> QED
    BY <1>1, <1>7, <2>1, <2>2, <2>3, <2>4 DEF EncodeJmp, IsDist
<1>9. Fits(EncodeCall(t, e), e, x)
  <2>1. Fits(EncodeCallDirect(t.o, e), e, x)
    BY <1>3
  <2>2. \A far : Fits(EncodeCallPtrMem(t.o, far), e, x)
    BY <1>4 DEF EncodeCallPtrMem
  <2>3. Fits(EncodeCallFarImmediate(t.o, IF t.o.size # 0 THEN t.o.size ELSE 2, e), e, x)
    BY Ranges, <1>5 DEF EncodeCallFarImmediate
  <2>4. t.o.kind \in R16or32 => Fits(RegForm(t.o.size, <<\hFF>>, 2, t.o.reg, 2), e, x)
    BY <1>6
  <2> QED
    BY <1>1, <1>7, <2>1, <2>2, <2>3, <2>4 DEF EncodeCall, IsDist
<1> QED
  BY <1>8, <1>9 DEF x

\* Returns, and enter.
LEMMA ReturnsEmit ==
  ASSUME NEW args, AreOperands(args), NEW x \in AByte, NEW y \in AByte, NEW f
  PROVE  /\ Emits(EncodeRet(args, x, y)) /\ Emits(EncodePrefixedRet(args, x, y, f))
         /\ Emits(EncodeEnter(args)) /\ Emits(EncodePrefixedEnter(args, f))
<1>1. Len(args) = 1 => args[1].imm \in Int
  BY Taken DEF AreOperands
<1>2. Len(args) = 2 => args[1].imm \in Int /\ args[2].imm \in Int
  BY Taken DEF AreOperands
<1>3. Emits(EncodeRet(args, x, y))
  <2>1. Emits(Out(<<x>>, 1))
    BY Counting, Ranges
  <2>2. CASE Len(args) = 1
    <3>1. Counts(<<y>>, 1) /\ Counts(Word(args[1].imm), 2)
      BY <1>1, <2>2, Counting, Ranges, Parts
    <3>2. Counts(<<y>> \o Word(args[1].imm), 1 + 2)
      BY <3>1, Counting, Ranges
    <3>3. Emits(Out(<<y>> \o Word(args[1].imm), 3))
      BY <3>2, Counting, Ranges
    <3> QED
      BY <2>2, <3>3, Built DEF EncodeRet
  <2> QED
    BY <2>1, <2>2, Counting, Ranges DEF EncodeRet
<1>4. Emits(EncodeEnter(args))
  <2>1. CASE Len(args) = 2
    <3>1. Counts(<<\hC8>>, 1) /\ Counts(Word(args[1].imm), 2) /\ Counts(Byte(args[2].imm), 1)
      BY <1>2, <2>1, Counting, Ranges, Parts
    <3>2. Counts(<<\hC8>> \o Word(args[1].imm), 1 + 2)
      BY <3>1, Counting, Ranges
    <3>3. Counts(<<\hC8>> \o Word(args[1].imm) \o Byte(args[2].imm), (1 + 2) + 1)
      BY <3>1, <3>2, Counting, Ranges
    <3>4. Emits(Out(<<\hC8>> \o Word(args[1].imm) \o Byte(args[2].imm), 4))
      BY <3>3, Counting, Ranges
    <3> QED
      BY <3>4, Built DEF EncodeEnter
  <2>2. CASE Len(args) # 2
    BY <2>2, Counting, Ranges DEF EncodeEnter, Check
  <2> QED
    BY <2>1, <2>2
<1>5. \A o, a : Counts(ForcedPrefixPair(o, a), ForcedPrefixPairLen(o, a))
  BY Parts
<1> QED
  BY <1>3, <1>4, <1>5, Built DEF EncodePrefixedRet, EncodePrefixedEnter

----------------------------------------------------------------------------
(* Behind prefixes                                                         *)

\* The o32 copies.
LEMMA O32JumpsFit ==
  ASSUME NEW t, IsJumpTarget(t), NEW e, IsPlace(e), NEW x \in AByte, NEW y \in AByte
  PROVE  /\ Fits(EncodeO32Jmp(t, e), e, 0) /\ Fits(EncodeO32Call(t, e), e, 0)
         /\ Fits(EncodeO32Jcc(t, x, y, e), e, 0)
<1>1. t.o.imm \in Int /\ t.dist \in {"none", "short", "near", "far"}
  BY Taken DEF IsJumpTarget, Target
<1>2. Unknown(t.o, e) => ~e.last
  BY DEF Unknown
<1>3. /\ Fits(EmitO32Rel8(t.o.imm, x, e), e, 0) /\ Fits(EmitO32Rel8(t.o.imm, \hEB, e), e, 0)
      /\ Fits(EmitO32Rel32(t.o.imm, \hE9, e), e, 0) /\ Fits(EmitO32Rel32(t.o.imm, \hE8, e), e, 0)
      /\ Fits(EmitO32JccRel32(t.o.imm, y, e), e, 0)
      /\ Fits(FAIL, e, 0)
  <2> DEFINE n == t.o.imm
  <2>1. n \in Int
    BY <1>1
  <2> HIDE DEF n
  <2>2. \A v \in AByte : /\ Emits(EmitO32Rel8(n, v, e)) /\ Emits(EmitO32Rel32(n, v, e))
                         /\ Emits(EmitO32JccRel32(n, v, e))
    BY <2>1, RelativesEmit
  <2>3. \A v \in AByte : /\ Fits(EmitO32Rel8(n, v, e), e, 0) /\ Fits(EmitO32Rel32(n, v, e), e, 0)
                         /\ Fits(EmitO32JccRel32(n, v, e), e, 0)
    BY <2>2, Fitting
  <2>4. \hEB \in AByte /\ \hE9 \in AByte /\ \hE8 \in AByte
    BY Ranges
  <2> QED
    BY <2>3, <2>4, Fitting DEF n
<1>4. Unknown(t.o, e) => Fits(Sized(3), e, 0) /\ Fits(Sized(6), e, 0) /\ Fits(Sized(7), e, 0)
  BY <1>2, Fitting
<1>5. Fits(EncodeO32Jmp(t, e), e, 0)
  BY <1>1, <1>3, <1>4 DEF EncodeO32Jmp
<1>6. Fits(EncodeO32Call(t, e), e, 0)
  BY <1>1, <1>3, <1>4 DEF EncodeO32Call
<1>7. Fits(EncodeO32Jcc(t, x, y, e), e, 0)
  BY <1>1, <1>3, <1>4 DEF EncodeO32Jcc
<1> QED
  BY <1>5, <1>6, <1>7

\* A displacement behind the prefixes that are forced.
LEMMA PrefixedRelativesEmit ==
  ASSUME NEW target \in Int, NEW e, IsPlace(e), NEW f, NEW x \in AByte
  PROVE  /\ Emits(EmitPrefixedRel8(target, x, f, e)) /\ Emits(EmitPrefixedJccRel8(target, x, f, e))
         /\ Emits(EmitPrefixedJccNear(target, x, f, e))
         /\ Emits(EmitPrefixedJmpRel8(target, f, e)) /\ Emits(EmitPrefixedJmpNear(target, f, e))
<1> DEFINE p == ForcedPrefixPair(f.o32, f.a32)
           k == ForcedPrefixPairLen(f.o32, f.a32)
<1>1. Counts(p, k)
  BY Parts
<1>2. /\ Counts(<<x>>, 1) /\ Counts(<<\h0F, x>>, 2) /\ Counts(<<\hEB>>, 1) /\ Counts(<<\hE9>>, 1)
  BY Counting, Ranges
<1> HIDE DEF p, k
<1>3. /\ Counts(p \o <<x>>, k + 1) /\ Counts(p \o <<\h0F, x>>, k + 2) /\ Counts(p \o <<\hEB>>, k + 1)
      /\ Counts(p \o <<\hE9>>, k + 1)
  BY <1>1, <1>2, Counting, Ranges
<1>4. \A b, n : Counts(b, n) => /\ Emits(Relative(b, 1, target, e)) /\ Emits(Relative(b, 2, target, e))
                                /\ Emits(Relative32(b, target, e))
  BY RelativeEmits
<1>5. Emits(EmitPrefixedRel8(target, x, f, e))
  BY <1>3, <1>4 DEF EmitPrefixedRel8, p
<1>6. Emits(EmitPrefixedRel8(target, \hEB, f, e))
  BY <1>3, <1>4 DEF EmitPrefixedRel8, p
<1>7. Emits(EmitPrefixedNear(target, <<\h0F, x>>, f, e)) /\ Emits(EmitPrefixedNear(target, <<\hE9>>, f, e))
  BY <1>3, <1>4 DEF EmitPrefixedNear, p
<1> QED
  BY <1>5, <1>6, <1>7 DEF EmitPrefixedJccRel8, EmitPrefixedJccNear, EmitPrefixedJmpRel8, EmitPrefixedJmpNear

\* Direct jumps, conditional jumps and loops behind prefixes.
LEMMA PrefixedDirectFits ==
  ASSUME NEW o, IsOperand(o), NEW e, IsPlace(e), NEW f, NEW n \in {0, 2, 3}
  PROVE  Fits(EncodePrefixedJmpDirect(o, n, f, e), e, 0)
<1> DEFINE size == CASE n = 0 /\ f.o32 -> IF Rel32(f) THEN 6 ELSE 4
                     [] n = 0 /\ ~f.o32 -> 2
                     [] n = 3 /\ Rel32(f) -> 6
                     [] OTHER -> n
           written == size + (IF f.a32 THEN 1 ELSE 0)
<1>1. o.imm \in Int
  BY Taken
<1>2. size \in Int
  OBVIOUS
<1>3. EncodePrefixedJmpDirect(o, n, f, e)
        = IF o.kind # "IMM" THEN FAIL
          ELSE IF Unknown(o, e) THEN Sized(written)
          ELSE IF size = 2 THEN EmitPrefixedJmpRel8(o.imm, f, e) ELSE EmitPrefixedJmpNear(o.imm, f, e)
  BY DEF EncodePrefixedJmpDirect
<1> HIDE DEF size
<1>4. written \in Int
  BY <1>2
<1> HIDE DEF written
<1>5. Unknown(o, e) => Fits(Sized(written), e, 0)
  BY <1>4, Fitting DEF Unknown
<1>6. Fits(EmitPrefixedJmpRel8(o.imm, f, e), e, 0) /\ Fits(EmitPrefixedJmpNear(o.imm, f, e), e, 0)
  <2>1. 0 \in AByte
    BY Ranges
  <2> QED
    BY <1>1, <2>1, PrefixedRelativesEmit, Fitting
<1> QED
  BY <1>3, <1>5, <1>6, Fitting

\* The same for those with a condition.
LEMMA PrefixedConditionsFit ==
  ASSUME NEW t, IsJumpTarget(t), NEW e, IsPlace(e), NEW f, NEW x \in AByte, NEW y \in AByte
  PROVE  /\ Fits(EncodePrefixedJcc(t, x, y, f, e), e, 0)
         /\ Fits(EncodePrefixedRel8Control(t, x, f, e), e, 0)
<1> DEFINE short == t.dist = "short" \/ (t.dist = "none" /\ ~f.o32)
           size == (IF short THEN 2 ELSE (IF Rel32(f) THEN 6 ELSE 4) + (IF f.o32 THEN 1 ELSE 0))
                     + (IF f.a32 THEN 1 ELSE 0)
           loop == 2 + ForcedPrefixPairLen(f.o32, f.a32)
<1>1. t.o.imm \in Int
  BY Taken DEF IsJumpTarget
<1>2. size \in Int
  OBVIOUS
<1>3. loop \in Int
  BY DEF ForcedPrefixPairLen
<1>4. EncodePrefixedJcc(t, x, y, f, e)
        = IF ~Scalar(t) \/ t.dist = "far" THEN FAIL
          ELSE IF Unknown(t.o, e) THEN Sized(size)
          ELSE IF short THEN EmitPrefixedJccRel8(t.o.imm, x, f, e)
          ELSE EmitPrefixedJccNear(t.o.imm, y, f, e)
  BY DEF EncodePrefixedJcc
<1>5. EncodePrefixedRel8Control(t, x, f, e)
        = IF ~Scalar(t) \/ t.dist # "none" THEN FAIL
          ELSE IF Unknown(t.o, e) THEN Sized(loop)
          ELSE EmitPrefixedRel8(t.o.imm, x, f, e)
  BY DEF EncodePrefixedRel8Control
<1> HIDE DEF short, size, loop
<1>6. Unknown(t.o, e) => Fits(Sized(size), e, 0) /\ Fits(Sized(loop), e, 0)
  BY <1>2, <1>3, Fitting DEF Unknown
<1>7. /\ Fits(EmitPrefixedJccRel8(t.o.imm, x, f, e), e, 0)
      /\ Fits(EmitPrefixedJccNear(t.o.imm, y, f, e), e, 0)
      /\ Fits(EmitPrefixedRel8(t.o.imm, x, f, e), e, 0)
  BY <1>1, PrefixedRelativesEmit, Fitting
<1> QED
  BY <1>4, <1>5, <1>6, <1>7, Fitting

\* Through memory and registers.
LEMMA PrefixedPointersEmit ==
  ASSUME NEW o, IsOperand(o), NEW f, NEW far
  PROVE  /\ Emits(EncodePrefixedJmpPtrMem(o, far, f))
         /\ Emits(EncodePrefixedJmpIndirect(o, f))
<1> DEFINE a == Forced(o, f)
<1>1. IsOperand(a) /\ a.mem \in Memory /\ a.reg \in Int
  BY ForcedOperand, Taken
<1> HIDE DEF a
<1>2. ASSUME NEW op, NEW group \in Int
      PROVE  Emits(PrefixedPtr(op, a, group))
  <2>1. Counts(<<\hFF>>, 1) /\ Counts(<<\h66>>, 1)
    BY Counting, Ranges
  <2>2. Emits(MemForm(2, <<\hFF>>, group, a.mem, 2))
    BY <1>1, <2>1, MemForms
  <2> QED
    BY <2>1, <2>2, Built DEF PrefixedPtr
<1>3. \A op : Emits(PrefixedPtr(op, a, 4)) /\ Emits(PrefixedPtr(op, a, 5))
  BY <1>2
<1>4. Emits(EncodePrefixedJmpPtrMem(o, far, f))
  BY <1>3, Counting, Ranges DEF EncodePrefixedJmpPtrMem, a
<1>5. ASSUME NEW op, NEW a32
      PROVE  Emits(Out(ForcedPrefixPair(op, a32) \o <<\hFF>> \o ModrmReg(4, a.reg),
                       2 + ForcedPrefixPairLen(op, a32)))
  <2>1. Counts(<<\hFF>>, 1) /\ ForcedPrefixPairLen(op, a32) \in Int
    BY Counting, Ranges DEF ForcedPrefixPairLen
  <2>2. 2 + ForcedPrefixPairLen(op, a32) = ForcedPrefixPairLen(op, a32) + 2
    BY <2>1
  <2>3. 4 \in Int
    OBVIOUS
  <2>4. Emits(Out(ForcedPrefixPair(op, a32) \o <<\hFF>> \o ModrmReg(4, a.reg),
                  ForcedPrefixPairLen(op, a32) + 2))
    BY <1>1, <2>1, <2>3, PairRegs
  <2> QED
    BY <2>2, <2>4
<1>6. Emits(EncodePrefixedJmpIndirect(o, f))
  BY <1>3, <1>5, Counting, Ranges DEF EncodePrefixedJmpIndirect, a
<1> QED
  BY <1>4, <1>6

\* jmp behind prefixes.
LEMMA PrefixedJmpFits ==
  ASSUME NEW t, IsJumpTarget(t), NEW e, IsPlace(e), NEW f
  PROVE  Fits(EncodePrefixedJmp(t, f, e), e, FarExtra(t))
<1> DEFINE x == FarExtra(t)
<1>1. IsOperand(t.o) /\ t.dist \in {"none", "short", "near", "far"}
  BY DEF IsJumpTarget, Target
<1>2. x = 0 \/ t.o.kind = "FAR"
  BY DEF FarExtra
<1>3. Fits(FAIL, e, x) /\ Fits(EncodeJmp(t, e), e, x)
  BY Fitting, JumpsFit
<1>4. ASSUME NEW n \in {0, 2, 3}
      PROVE  Fits(EncodePrefixedJmpDirect(t.o, n, f, e), e, x)
  <2>1. CASE x = 0
    BY <1>1, <2>1, PrefixedDirectFits
  <2>2. CASE t.o.kind = "FAR"
    <3>1. EncodePrefixedJmpDirect(t.o, n, f, e) = FAIL
      BY <2>2 DEF EncodePrefixedJmpDirect
    <3> QED
      BY <1>3, <3>1
  <2> QED
    BY <1>2, <2>1, <2>2
<1>5. ASSUME NEW far
      PROVE  /\ Fits(EncodePrefixedJmpPtrMem(t.o, far, f), e, x)
             /\ Fits(EncodePrefixedJmpIndirect(t.o, f), e, x)
  <2>1. CASE x = 0
    BY <1>1, <2>1, PrefixedPointersEmit, Fitting
  <2>2. CASE t.o.kind = "FAR"
    <3>1. EncodePrefixedJmpPtrMem(t.o, far, f) = FAIL
      BY <2>2 DEF EncodePrefixedJmpPtrMem, JumpMemory
    <3>2. Forced(t.o, f).kind = "FAR"
      BY <1>1, <2>2, ForcedOperand
    <3>3. EncodePrefixedJmpIndirect(t.o, f) = FAIL
      BY <3>2 DEF EncodePrefixedJmpIndirect, R16or32
    <3> QED
      BY <1>3, <3>1, <3>3
  <2> QED
    BY <1>2, <2>1, <2>2
<1>6. /\ Fits(EncodePrefixedJmpDirect(t.o, 0, f, e), e, x)
      /\ Fits(EncodePrefixedJmpDirect(t.o, 2, f, e), e, x)
      /\ Fits(EncodePrefixedJmpDirect(t.o, 3, f, e), e, x)
  BY <1>4
<1> HIDE DEF x
<1>7. Fits(EncodePrefixedJmp(t, f, e), e, x)
  BY <1>1, <1>3, <1>5, <1>6 DEF EncodePrefixedJmp
<1> QED
  BY <1>7 DEF x

----------------------------------------------------------------------------
(* Copies behind forced prefixes                                           *)

\* mov, the group of add, and test behind o32.
LEMMA O32CopiesEmit ==
  ASSUME NEW d, IsOperand(d), NEW s, IsOperand(s)
  PROVE  /\ Emits(EncodeO32Mov(d, s)) /\ Emits(EncodeO32Test(d, s))
         /\ \A base \in Base, acc8, acc16 \in Opcode, group \in Int : Emits(EncodeO32Arith(d, s, base, acc8, acc16, group))
<1>1. Emits(EncodeO32Mov(d, s))
  <2>1. Emits(EncodeMov(d, s)) /\ Emits(Wide(d, s, EncodeMov(d, s)))
    BY MovEmits, Widened
  <2>2. ASSUME \/ d.kind = "REG32" /\ s.kind \in {"CR", "DR", "TR"}
               \/ s.kind = "REG32" /\ d.kind \in {"CR", "DR", "TR"}
        PROVE  Emits(Behind(<<\h66>>, MovSpecial(d, s)))
    <3>1. Emits(MovSpecial(d, s)) /\ Counts(<<\h66>>, 1)
      BY <2>2, MovSpecialEmits, Counting, Ranges
    <3> QED
      BY <3>1, Built
  <2> QED
    BY <2>1, <2>2 DEF EncodeO32Mov
<1>2. Emits(EncodeO32Test(d, s))
  <2>1. Emits(EncodeTest(d, s)) /\ Emits(Wide(d, s, EncodeTest(d, s)))
    BY AluEmits, Widened
  <2> QED
    BY <2>1 DEF EncodeO32Test
<1>3. ASSUME NEW base \in Base, NEW acc8 \in Opcode, NEW acc16 \in Opcode, NEW group \in Int
      PROVE  Emits(EncodeO32Arith(d, s, base, acc8, acc16, group))
  <2> DEFINE form == EncodeArith(d, s, base, acc8, acc16, group)
  <2>1. Emits(form)
    BY AluEmits
  <2> HIDE DEF form
  <2>2. Emits(Wide(d, s, form))
    BY <2>1, Widened
  <2> QED
    BY <2>1, <2>2 DEF EncodeO32Arith, form
<1> QED
  BY <1>1, <1>2, <1>3

\* test behind one address prefix.
LEMMA AddressTestEmits ==
  ASSUME NEW dst, IsOperand(dst), NEW src, IsOperand(src), NEW f
  PROVE  Emits(EncodeAddressPrefixedTest(dst, src, f))
<1> DEFINE d == Forced(dst, f)
           s == Forced(src, f)
<1>1. IsOperand(d) /\ IsOperand(s)
  BY ForcedOperand
<1> HIDE DEF d, s
<1>2. Counts(<<\h67>>, 1)
  BY Counting, Ranges
<1>3. Emits(EncodeTest(d, s))
  BY <1>1, AluEmits
<1>4. Emits(Behind(<<\h67>>, EncodeTest(d, s)))
  BY <1>2, <1>3, Built
<1> QED
  BY <1>3, <1>4, Counting, Ranges DEF EncodeAddressPrefixedTest, d, s

\* The shifts of one operand and of two, and esc.
LEMMA PrefixedShiftsEmit ==
  ASSUME NEW dst, IsOperand(dst), NEW s, IsOperand(s), NEW group \in Int, NEW f
  PROVE  Emits(EncodePrefixedShiftGroup(dst, s, group, f))
<1> DEFINE d == Forced(dst, f)
           size == ShiftTargetSize(d)
           op_prefix == f.o32 \/ (size = 4 /\ ~f.o16)
           x == ShiftOpcode(s, size)
           form == ForcedForm(op_prefix, f.a32, <<x>>, group, d, 2)
<1>1. IsOperand(d) /\ x \in AByte /\ Counts(ShiftCount(s), ShiftCountLen(s))
  BY ForcedOperand, ShiftParts
<1>2. EncodePrefixedShiftGroup(dst, s, group, f)
        = IF ~AddressSizeAgrees(d, f) \/ size = 0 \/ ~ShiftCountOK(s) THEN FAIL
          ELSE Then(form, ShiftCount(s), ShiftCountLen(s))
  BY DEF EncodePrefixedShiftGroup
<1> HIDE DEF d, size, op_prefix, x
<1>3. Emits(form)
  <2>1. Counts(<<x>>, 1)
    BY <1>1, Counting, Ranges
  <2> QED
    BY <1>1, <2>1, ForcedForms
<1> HIDE DEF form
<1>4. Emits(Then(form, ShiftCount(s), ShiftCountLen(s)))
  BY <1>1, <1>3, Built
<1> QED
  BY <1>2, <1>4, Counting, Ranges

\* shld and shrd.
LEMMA DoubleShiftsEmit ==
  ASSUME NEW dst, IsOperand(dst), NEW src, IsOperand(src), NEW count, IsOperand(count),
         NEW x \in AByte, NEW y \in AByte, NEW f
  PROVE  Emits(EncodePrefixedDoubleShift(dst, src, count, x, y, f))
<1> DEFINE d == Forced(dst, f)
           size == DoubleShiftTargetSize(d, src.size)
           op_prefix == f.o32 \/ (size = 4 /\ ~f.o16)
           Form(opcode) == ForcedForm(op_prefix, f.a32, <<\h0F, opcode>>, src.reg, d, 3)
<1>1. IsOperand(d) /\ src.reg \in Int /\ Counts(Byte(count.imm), 1)
  BY Ranges, ForcedOperand, Taken, Parts
<1>2. EncodePrefixedDoubleShift(dst, src, count, x, y, f)
        = IF src.kind \notin R16or32 \/ ~AddressSizeAgrees(d, f) \/ size = 0 \/ ~ShiftCountOK(count)
          THEN FAIL
          ELSE IF count.kind = "IMM" THEN Then(Form(x), Byte(count.imm), 1) ELSE Form(y)
  BY DEF EncodePrefixedDoubleShift
<1> HIDE DEF d, size, op_prefix
<1>3. Emits(Form(x)) /\ Emits(Form(y))
  <2>1. Counts(<<\h0F, x>>, 2) /\ Counts(<<\h0F, y>>, 2)
    BY Opcodes
  <2> QED
    BY <1>1, <2>1, ForcedForms
<1> HIDE DEF Form
<1>4. Emits(Then(Form(x), Byte(count.imm), 1))
  BY <1>1, <1>3, Built
<1> QED
  BY <1>2, <1>3, <1>4, Counting, Ranges

\* esc.
LEMMA EscEmits ==
  ASSUME NEW op, IsOperand(op), NEW rm, IsOperand(rm), NEW f
  PROVE  Emits(EncodeEsc(op, rm)) /\ Emits(EncodePrefixedEsc(op, rm, f))
<1>1. ASSUME NEW o, IsOperand(o)
      PROVE  Emits(EncodeEsc(op, o))
  <2> DEFINE x == \hD8 + op.imm \div 8
             group == op.imm % 8
  <2>1. op.imm \in Int
    BY Taken
  <2>2. group \in Int /\ (op.imm \in 0..63 => x \in AByte)
    <3>1. group \in Int
      BY <2>1
    <3>2. ASSUME op.imm \in 0..63
          PROVE  op.imm \div 8 \in 0..7
      BY <3>2
    <3>3. op.imm \in 0..63 => x \in Int /\ 0 <= x /\ x <= 255
      BY <3>2
    <3> QED
      BY <3>1, <3>3, Ranges
  <2>3. EncodeEsc(op, o)
          = IF op.kind # "IMM" \/ op.imm \notin 0..63 THEN FAIL
            ELSE Check(o.kind \in {"MEM", "REG16"}, RmForm(2, <<x>>, group, o, 2))
    BY DEF EncodeEsc
  <2> HIDE DEF x, group
  <2>4. op.imm \in 0..63 => Counts(<<x>>, 1)
    BY <2>2, Opcodes
  <2>5. op.imm \in 0..63 => Emits(RmForm(2, <<x>>, group, o, 2))
    BY <1>1, <2>2, <2>4, RmForms
  <2> QED
    BY <2>3, <2>5, Built, Counting, Ranges
<1> DEFINE a == Forced(rm, f)
<1>2. IsOperand(a)
  BY ForcedOperand
<1> HIDE DEF a
<1>3. Emits(EncodeEsc(op, a))
  BY <1>1, <1>2
<1>4. Counts(<<\h66>>, 1)
  BY Counting, Ranges
<1>5. Emits(Behind(<<\h66>>, EncodeEsc(op, a)))
  BY <1>3, <1>4, Built
<1>6. Emits(EncodePrefixedEsc(op, rm, f))
  BY <1>3, <1>5, Counting, Ranges DEF EncodePrefixedEsc, a
<1> QED
  BY <1>1, <1>6

----------------------------------------------------------------------------
(* push and pop                                                            *)

\* The bytes of the segment registers, and those in front of a pushed number.
LEMMA StackParts ==
  ASSUME NEW v \in Int
  PROVE  /\ 0 <= v => Counts(PushSegment(v), SegmentLen(v)) /\ Counts(PopSegment(v), SegmentLen(v))
         /\ SegmentLen(v) > 0
         /\ \A x \in AByte : /\ Counts(<<x>> \o Byte(v), 2) /\ Counts(<<x>> \o Word(v), 3)
                           /\ Counts(<<x>> \o Dword(v), 5)
         /\ \A x, y \in AByte : /\ Counts(<<x, y>> \o Byte(v), 3) /\ Counts(<<x, y>> \o Word(v), 4)
                              /\ Counts(<<x, y>> \o Dword(v), 6)
<1>1. /\ \A x, y : Counts(x, 1) /\ Counts(y, 1) => Counts(x \o y, 2)
      /\ \A x, y : Counts(x, 1) /\ Counts(y, 2) => Counts(x \o y, 3)
      /\ \A x, y : Counts(x, 1) /\ Counts(y, 4) => Counts(x \o y, 5)
      /\ \A x, y : Counts(x, 2) /\ Counts(y, 1) => Counts(x \o y, 3)
      /\ \A x, y : Counts(x, 2) /\ Counts(y, 2) => Counts(x \o y, 4)
      /\ \A x, y : Counts(x, 2) /\ Counts(y, 4) => Counts(x \o y, 6)
  <2>1. /\ 1 + 1 = 2 /\ 1 + 2 = 3 /\ 1 + 4 = 5 /\ 2 + 1 = 3 /\ 2 + 2 = 4 /\ 2 + 4 = 6
    OBVIOUS
  <2>2. \A a, b, m, n : Counts(a, m) /\ Counts(b, n) => Counts(a \o b, m + n)
    BY Counting, Ranges
  <2> QED
    BY <2>1, <2>2
<1>2. Counts(Byte(v), 1) /\ Counts(Word(v), 2) /\ Counts(Dword(v), 4)
  BY Parts
<1>3. /\ \A x \in AByte : Counts(<<x>>, 1)
      /\ \A x, y \in AByte : Counts(<<x, y>>, 2)
  BY Counting, Ranges
<1>4. /\ \A x \in AByte : /\ Counts(<<x>> \o Byte(v), 2) /\ Counts(<<x>> \o Word(v), 3)
                        /\ Counts(<<x>> \o Dword(v), 5)
      /\ \A x, y \in AByte : /\ Counts(<<x, y>> \o Byte(v), 3) /\ Counts(<<x, y>> \o Word(v), 4)
                           /\ Counts(<<x, y>> \o Dword(v), 6)
  BY <1>1, <1>2, <1>3
<1>5. ASSUME 0 <= v
      PROVE  Counts(PushSegment(v), SegmentLen(v)) /\ Counts(PopSegment(v), SegmentLen(v))
  <2>1. CASE v < 4
    <3>1. \h06 + 8 * v \in Int /\ 0 <= \h06 + 8 * v /\ \h06 + 8 * v <= 254
      BY <1>5, <2>1
    <3>2. \h06 + 8 * v \in AByte
      BY <3>1, Ranges
    <3>3. \h07 + 8 * v \in Int /\ 0 <= \h07 + 8 * v /\ \h07 + 8 * v <= 255
      BY <1>5, <2>1
    <3>4. \h07 + 8 * v \in AByte
      BY <3>3, Ranges
    <3> QED
      BY <1>3, <2>1, <3>2, <3>4 DEF PushSegment, PopSegment, SegmentLen
  <2>2. CASE ~(v < 4)
    <3>1. \hA0 \in AByte /\ \hA8 \in AByte /\ \hA1 \in AByte /\ \hA9 \in AByte
      BY Ranges
    <3>2. \A y \in AByte : Counts(<<\h0F, y>>, 2)
      BY Opcodes
    <3>3. \A y \in {\hA0, \hA8, \hA1, \hA9} : Counts(<<\h0F, y>>, 2)
      BY <3>1, <3>2
    <3> QED
      BY <2>2, <3>3 DEF PushSegment, PopSegment, SegmentLen
  <2> QED
    BY <2>1, <2>2
<1>7. SegmentLen(v) > 0
  BY DEF SegmentLen
<1> QED
  BY <1>4, <1>5, <1>7

\* Memory on the stack.
LEMMA StackMemoryEmits ==
  ASSUME NEW o, IsOperand(o), NEW x \in AByte, NEW group \in Int
  PROVE  /\ Emits(StackMemory(o, x, group))
         /\ \A op : Emits(StackMemoryForm(op, o, x, group))
         /\ \A guard, size : Emits(Check(guard, MemForm(size, <<x>>, group, o.mem, 2)))
<1>1. \A size : Emits(MemForm(size, <<x>>, group, o.mem, 2))
  BY Taken, Opcodes, MemForms
<1>2. \A guard, size : Emits(Check(guard, MemForm(size, <<x>>, group, o.mem, 2)))
  BY <1>1, Built
<1> QED
  BY <1>2 DEF StackMemory, StackMemoryForm

\* push, plain and behind o32 alone.
LEMMA PushesEmit ==
  ASSUME NEW o, IsOperand(o)
  PROVE  Emits(EncodePush(o)) /\ Emits(EncodeO32Push(o))
<1> DEFINE v == o.imm
<1>1. v \in Int /\ o.reg \in Int /\ 0 <= o.reg
  BY Taken
<1>2. Emits(StackMemory(o, \hFF, 6))
      /\ \A guard, size : Emits(Check(guard, MemForm(size, <<\hFF>>, 6, o.mem, 2)))
  BY Ranges, StackMemoryEmits
<1>3. /\ \A x \in AByte : Counts(<<x>> \o Byte(v), 2) /\ Counts(<<x>> \o Word(v), 3)
      /\ \A x, y \in AByte : /\ Counts(<<x, y>> \o Byte(v), 3) /\ Counts(<<x, y>> \o Word(v), 4)
                           /\ Counts(<<x, y>> \o Dword(v), 6)
  BY <1>1, StackParts
<1>4. \A bytes : /\ Counts(bytes, 2) => Emits(Out(bytes, 2))
                 /\ Counts(bytes, 3) => Emits(Out(bytes, 3))
                 /\ Counts(bytes, 4) => Emits(Out(bytes, 4))
                 /\ Counts(bytes, 6) => Emits(Out(bytes, 6))
  BY Counting, Ranges
<1>5. /\ Emits(Out(<<\h6A>> \o Byte(v), 2)) /\ Emits(Out(<<\h68>> \o Word(v), 3))
      /\ Emits(Out(<<\h66, \h6A>> \o Byte(v), 3)) /\ Emits(Out(<<\h66, \h68>> \o Dword(v), 6))
      /\ Emits(Out(<<\h66, \h68>> \o Word(v), 4))
  BY Ranges, <1>3, <1>4
<1>6. \A guard : /\ Emits(Check(guard, Out(<<\h68>> \o Word(v), 3)))
                 /\ Emits(Check(guard, Out(<<\h66, \h68>> \o Dword(v), 6)))
                 /\ Emits(Check(guard, Out(<<\h66, \h68>> \o Word(v), 4)))
  BY <1>5, Built
<1>7. Emits(PushImmediate(v, o.size))
  BY <1>5, <1>6, Zenon DEF PushImmediate
<1>8. /\ Emits(Out(PushSegment(o.reg), SegmentLen(o.reg)))
      /\ Emits(Out(<<\h66>> \o PushSegment(o.reg), SegmentLen(o.reg) + 1))
  <2> DEFINE bytes == PushSegment(o.reg)
             n == SegmentLen(o.reg)
  <2>1. Counts(bytes, n) /\ n > 0
    BY <1>1, StackParts
  <2> HIDE DEF bytes, n
  <2>2. Emits(Out(bytes, n)) /\ Counts(<<\h66>>, 1)
    BY <2>1, Counting, Ranges
  <2>3. Counts(<<\h66>> \o bytes, 1 + n)
    BY <2>1, <2>2, Counting, Ranges
  <2>4. 1 + n = n + 1 /\ n + 1 > 0
    BY <2>1 DEF Counts
  <2>5. Emits(Out(<<\h66>> \o bytes, n + 1))
    BY <2>3, <2>4, Counting, Ranges
  <2> QED
    BY <2>2, <2>5 DEF bytes, n
<1>9. Emits(PlainForm(o.size, <<\h50 + o.reg>>, 1)) /\ Emits(Out(<<\h66, \h50 + o.reg>>, 2))
  <2>1. \h50 \in Base /\ \h66 \in AByte
    BY Ranges
  <2>2. \h50 + o.reg \in AByte
    BY <2>1, Opcodes
  <2>3. Counts(<<\h50 + o.reg>>, 1) /\ Counts(<<\h66, \h50 + o.reg>>, 2)
    BY <2>1, <2>2, Counting
  <2> QED
    BY <2>3, Counting, PlainForms
<1> HIDE DEF v
<1>10. Emits(EncodePush(o))
  BY <1>2, <1>7, <1>8, <1>9, Counting, Ranges, Zenon DEF EncodePush, v
<1>11. Emits(EncodeO32Push(o))
  BY <1>2, <1>5, <1>6, <1>8, <1>9, Counting, Ranges, ZenonT(30) DEF EncodeO32Push, v
<1> QED
  BY <1>10, <1>11

\* pop, plain.
LEMMA PopEmits ==
  ASSUME NEW o, IsOperand(o)
  PROVE  Emits(EncodePop(o))
<1>1. o.reg \in Int /\ 0 <= o.reg
  BY Taken
<1>2. Emits(StackMemory(o, \h8F, 0))
  <2>1. \A x \in AByte, group \in Int : Emits(StackMemory(o, x, group))
    BY StackMemoryEmits
  <2> QED
    BY Ranges, <2>1
<1>3. Emits(Out(PopSegment(o.reg), SegmentLen(o.reg)))
  BY <1>1, StackParts, Counting, Ranges
<1>4. \A guard : Emits(Check(guard, Out(PopSegment(o.reg), SegmentLen(o.reg))))
  BY <1>3, Built
<1>5. Emits(PlainForm(o.size, <<\h58 + o.reg>>, 1))
  BY Opcodes, Ranges, PlainForms
<1> QED
  BY <1>2, <1>4, <1>5, Counting, Ranges, Zenon DEF EncodePop

\* push and pop behind any prefixes.
LEMMA PrefixedStackEmits ==
  ASSUME NEW src, IsOperand(src), NEW f
  PROVE  Emits(EncodePrefixedPush(src, f)) /\ Emits(EncodePrefixedPop(src, f))
<1> DEFINE o == Forced(src, f)
<1>1. IsOperand(o)
  BY ForcedOperand
<1> HIDE DEF o
<1>2. o.reg \in Int /\ 0 <= o.reg /\ o.imm \in Int
  BY <1>1, Taken
<1>3. \A op : Emits(StackMemoryForm(op, o, \hFF, 6)) /\ Emits(StackMemoryForm(op, o, \h8F, 0))
  <2>1. \A x \in AByte, group \in Int : \A op : Emits(StackMemoryForm(op, o, x, group))
    BY <1>1, StackMemoryEmits
  <2> QED
    BY Ranges, <2>1
<1>4. \A op, bytes, n : Counts(bytes, n) /\ n > 0 => Emits(StackForm(op, f, bytes, n))
  BY PairForms DEF StackForm
<1>5. /\ \A op : /\ Emits(StackForm(op, f, <<\h50 + o.reg>>, 1))
                 /\ Emits(StackForm(op, f, <<\h58 + o.reg>>, 1))
      /\ \A op : /\ Emits(StackForm(op, f, PushSegment(o.reg), SegmentLen(o.reg)))
                 /\ Emits(StackForm(op, f, PopSegment(o.reg), SegmentLen(o.reg)))
  <2>1. \h50 \in Base /\ \h58 \in Base
    BY Ranges
  <2>2. Counts(<<\h50 + o.reg>>, 1) /\ Counts(<<\h58 + o.reg>>, 1)
    BY <1>1, <2>1, Opcodes
  <2>3. /\ Counts(PushSegment(o.reg), SegmentLen(o.reg)) /\ Counts(PopSegment(o.reg), SegmentLen(o.reg))
        /\ SegmentLen(o.reg) > 0
    BY <1>2, StackParts
  <2> QED
    BY <1>4, <2>2, <2>3
<1>6. \A op, guard : Emits(Check(guard, StackForm(op, f, PopSegment(o.reg), SegmentLen(o.reg))))
  BY <1>5, Built
<1>7. \A op : Emits(PrefixedPushImmediate(o, op, f))
  <2>1. /\ Counts(<<\h6A>> \o Byte(o.imm), 2) /\ Counts(<<\h68>> \o Word(o.imm), 3)
        /\ Counts(<<\h68>> \o Dword(o.imm), 5)
    BY Ranges, <1>2, StackParts
  <2>2. \A op : /\ Emits(StackForm(op, f, <<\h6A>> \o Byte(o.imm), 2))
                /\ Emits(StackForm(op, f, <<\h68>> \o Word(o.imm), 3))
                /\ Emits(StackForm(op, f, <<\h68>> \o Dword(o.imm), 5))
    BY <1>4, <2>1
  <2>3. \A op, guard : /\ Emits(Check(guard, StackForm(op, f, <<\h68>> \o Word(o.imm), 3)))
                       /\ Emits(Check(guard, StackForm(op, f, <<\h68>> \o Dword(o.imm), 5)))
    BY <2>2, Built
  <2> QED
    BY <2>2, <2>3, Zenon DEF PrefixedPushImmediate
<1>8. Emits(EncodePrefixedPush(src, f))
  BY <1>3, <1>5, <1>7, Counting, Ranges, Zenon DEF EncodePrefixedPush, o
<1>9. Emits(EncodePrefixedPop(src, f))
  BY <1>3, <1>5, <1>6, Counting, Ranges, Zenon DEF EncodePrefixedPop, o
<1> QED
  BY <1>8, <1>9

----------------------------------------------------------------------------
(* Instructions without operands, and those with a condition               *)

\* What one of the encoders that are asked in turn says: it is not his, or he counts
\* what he writes.
Answers(out) == out = NONE \/ Emits(out)

\* One byte or two behind the forced prefixes.
LEMMA ZeroOpsEmit ==
  ASSUME NEW i, NEW opcode \in AByte, NEW op, NEW a32
  PROVE  Emits(EmitPrefixedZeroOpByte(i, opcode, op, a32)) /\ Emits(EmitPrefixedZeroOp0F(i, opcode, op, a32))
<1>1. Counts(<<opcode>>, 1) /\ Counts(<<\h0F, opcode>>, 2)
  BY Ranges, Opcodes
<1>2. /\ Emits(Out(ForcedPrefixPair(op, a32) \o <<opcode>>, 1 + ForcedPrefixPairLen(op, a32)))
      /\ Emits(Out(ForcedPrefixPair(op, a32) \o <<\h0F, opcode>>, 2 + ForcedPrefixPairLen(op, a32)))
  BY <1>1, PairForms
<1> QED
  BY <1>2, Built DEF EmitPrefixedZeroOpByte, EmitPrefixedZeroOp0F

\* A byte of an immediate behind the opcode.
LEMMA ByteOpsEmit ==
  ASSUME NEW opcode \in AByte, NEW v \in Int, NEW op, NEW a32
  PROVE  Emits(Out(ForcedPrefixPair(op, a32) \o <<opcode>> \o Byte(v), 2 + ForcedPrefixPairLen(op, a32)))
<1> DEFINE p == ForcedPrefixPair(op, a32)
           n == ForcedPrefixPairLen(op, a32)
<1>1. Counts(p, n) /\ Counts(<<opcode>>, 1) /\ Counts(Byte(v), 1)
  BY Parts, Counting, Ranges
<1> HIDE DEF p, n
<1>2. Counts(p \o <<opcode>>, n + 1)
  BY <1>1, Counting, Ranges
<1>3. Counts(p \o <<opcode>> \o Byte(v), n + 1 + 1)
  BY <1>1, <1>2, Counting, Ranges
<1>4. n + 1 + 1 = 2 + n /\ 2 + n > 0
  BY <1>1 DEF Counts
<1> QED
  BY <1>3, <1>4, Counting, Ranges DEF p, n

\* The encoders of encode_misc_prefixed_instruction that go by the name alone.
LEMMA NamesAnswer ==
  ASSUME NEW i, NEW op, NEW a32, NEW o16
  PROVE  /\ Answers(EmitPrefixedConvert(i, op, a32, o16)) /\ Answers(EmitPrefixedDecimalAdjust(i, op, a32))
         /\ Answers(EmitPrefixedFlagControl(i, op, a32))
         /\ \A names : \A opcode \in Opcode : Answers(StringOp(i, names, opcode, op, a32, o16))
<1>1. \A x \in AByte : \A o : Emits(EmitPrefixedZeroOpByte(i, x, o, a32)) /\ Emits(EmitPrefixedZeroOp0F(i, x, o, a32))
  BY Ranges, ZeroOpsEmit
<1>2. \A o : /\ Emits(EmitPrefixedZeroOpByte(i, \h99, o, a32)) /\ Emits(EmitPrefixedZeroOpByte(i, \h98, o, a32))
             /\ Emits(EmitPrefixedZeroOpByte(i, \h27, o, a32)) /\ Emits(EmitPrefixedZeroOpByte(i, \h2F, o, a32))
             /\ Emits(EmitPrefixedZeroOp0F(i, \h06, o, a32))
  BY Ranges, <1>1
<1>3. Answers(EmitPrefixedConvert(i, op, a32, o16)) /\ Answers(EmitPrefixedDecimalAdjust(i, op, a32))
  <2>1. Answers(EmitPrefixedConvert(i, op, a32, o16))
    <3> DEFINE wide == op \/ ~o16
    <3>1. EmitPrefixedConvert(i, op, a32, o16)
            = CASE i.name = "cwd" -> EmitPrefixedZeroOpByte(i, \h99, op, a32)
                [] i.name = "cwde" -> EmitPrefixedZeroOpByte(i, \h98, wide, a32)
                [] OTHER -> NONE
      BY DEF EmitPrefixedConvert
    <3> HIDE DEF wide
    <3> QED
      BY <1>2, <3>1 DEF Answers
  <2>2. Answers(EmitPrefixedDecimalAdjust(i, op, a32))
    BY <1>2 DEF Answers, EmitPrefixedDecimalAdjust
  <2> QED
    BY <2>1, <2>2
<1>4. Answers(EmitPrefixedFlagControl(i, op, a32))
  <2>1. ASSUME i.name \in DOMAIN FlagOpcode
        PROVE  FlagOpcode[i.name] \in AByte
    BY <2>1, Ranges DEF FlagOpcode
  <2> QED
    BY Ranges, <1>1, <1>2, <2>1, Zenon DEF Answers, EmitPrefixedFlagControl
<1>5. ASSUME NEW names, NEW opcode \in Opcode
      PROVE  Answers(StringOp(i, names, opcode, op, a32, o16))
  <2>1. (IF i.name = names.byte THEN opcode ELSE opcode + 1) \in AByte
    <3>1. opcode \in Int /\ 0 <= opcode /\ opcode <= 254
      BY Ranges
    <3> QED
      BY <3>1, Ranges
  <2> QED
    BY Ranges, <1>1, <2>1 DEF Answers, StringOp
<1> QED
  BY <1>3, <1>4, <1>5

\* Each string instruction.
LEMMA StringsAnswer ==
  ASSUME NEW i, NEW op, NEW a32, NEW o16
  PROVE  /\ Answers(EmitPrefixedCmps(i, op, a32)) /\ Answers(EmitPrefixedScas(i, op, a32, o16))
         /\ Answers(EmitPrefixedMovs(i, op, a32, o16)) /\ Answers(EmitPrefixedLods(i, op, a32, o16))
         /\ Answers(EmitPrefixedStos(i, op, a32, o16)) /\ Answers(EmitPrefixedIns(i, op, a32, o16))
         /\ Answers(EmitPrefixedOuts(i, op, a32, o16))
<1>1. \A names, o : \A opcode \in Opcode : Answers(StringOp(i, names, opcode, op, a32, o))
  BY NamesAnswer
<1>2. \A names, o : /\ Answers(StringOp(i, names, \hA6, op, a32, o)) /\ Answers(StringOp(i, names, \hAE, op, a32, o))
                    /\ Answers(StringOp(i, names, \hA4, op, a32, o)) /\ Answers(StringOp(i, names, \hAC, op, a32, o))
                    /\ Answers(StringOp(i, names, \hAA, op, a32, o)) /\ Answers(StringOp(i, names, \h6C, op, a32, o))
                    /\ Answers(StringOp(i, names, \h6E, op, a32, o))
  BY Ranges, <1>1
<1>3. Answers(EmitPrefixedCmps(i, op, a32))
  <2> DEFINE no == FALSE
  <2>1. EmitPrefixedCmps(i, op, a32) = StringOp(i, Cmps, \hA6, op, a32, no)
    BY DEF EmitPrefixedCmps
  <2> HIDE DEF no
  <2> QED
    BY <1>2, <2>1
<1> QED
  BY <1>2, <1>3 DEF EmitPrefixedScas, EmitPrefixedMovs, EmitPrefixedLods, EmitPrefixedStos,
                     EmitPrefixedIns, EmitPrefixedOuts

\* int, into, iret; aad and aam; setcc.
LEMMA InterruptsAnswer ==
  ASSUME NEW i, AreOperands(i.args), NEW op, NEW a32, NEW o16, NEW opcode \in AByte, NEW f
  PROVE  /\ Answers(EmitPrefixedInterrupt(i, op, a32, o16))
         /\ Emits(EmitPrefixedAsciiImm(i, opcode, op, a32))
         /\ Emits(EncodePrefixedSetcc(i, opcode, f))
<1>1. Len(i.args) = 1 => IsOperand(i.args[1])
  BY DEF AreOperands
<1>2. Len(i.args) = 1 => i.args[1].imm \in Int
  BY <1>1, Taken
<1>3. \A o : /\ Emits(EmitPrefixedZeroOpByte(i, \hCE, o, a32)) /\ Emits(EmitPrefixedZeroOpByte(i, \hCF, o, a32))
  <2>1. \A x \in AByte : \A o : Emits(EmitPrefixedZeroOpByte(i, x, o, a32))
    BY Ranges, ZeroOpsEmit
  <2> QED
    BY Ranges, <2>1
<1>4. \A v \in Int : /\ Emits(Out(ForcedPrefixPair(op, a32) \o <<\hCD>> \o Byte(v), 2 + ForcedPrefixPairLen(op, a32)))
                     /\ Emits(Out(ForcedPrefixPair(op, a32) \o <<opcode>> \o Byte(v), 2 + ForcedPrefixPairLen(op, a32)))
  <2>1. \A x \in AByte, v \in Int : Emits(Out(ForcedPrefixPair(op, a32) \o <<x>> \o Byte(v), 2 + ForcedPrefixPairLen(op, a32)))
    BY Ranges, ByteOpsEmit
  <2> QED
    BY Ranges, <2>1
<1>5. Answers(EmitPrefixedInterrupt(i, op, a32, o16))
  <2>1. Emits(Check(Len(i.args) = 1 /\ i.args[1].kind = "IMM" /\ FitsU8(i.args[1].imm),
                    Out(ForcedPrefixPair(op, a32) \o <<\hCD>> \o Byte(i.args[1].imm),
                        2 + ForcedPrefixPairLen(op, a32))))
    BY <1>2, <1>4, Counting, Ranges DEF Check
  <2> QED
    <3> DEFINE wide == ~o16
               int == Check(Len(i.args) = 1 /\ i.args[1].kind = "IMM" /\ FitsU8(i.args[1].imm),
                            Out(ForcedPrefixPair(op, a32) \o <<\hCD>> \o Byte(i.args[1].imm),
                                2 + ForcedPrefixPairLen(op, a32)))
    <3>1. EmitPrefixedInterrupt(i, op, a32, o16)
            = CASE i.name = "into"  -> EmitPrefixedZeroOpByte(i, \hCE, op, a32)
                [] i.name = "iret"  -> EmitPrefixedZeroOpByte(i, \hCF, op, a32)
                [] i.name = "iretd" -> EmitPrefixedZeroOpByte(i, \hCF, wide, a32)
                [] i.name = "int"   -> int
                [] OTHER -> NONE
      BY DEF EmitPrefixedInterrupt
    <3>2. Emits(int)
      BY <2>1
    <3> HIDE DEF wide, int
    <3> QED
      BY <1>3, <3>1, <3>2 DEF Answers
<1>6. Emits(EmitPrefixedAsciiImm(i, opcode, op, a32))
  <2>1. CASE i.args = <<>>
    <3>1. 10 \in Int
      OBVIOUS
    <3> QED
      BY <1>4, <2>1, <3>1, Counting, Ranges, Zenon DEF EmitPrefixedAsciiImm, Check
  <2>2. CASE i.args # <<>>
    BY <1>2, <1>4, <2>2, Counting, Ranges, Zenon DEF EmitPrefixedAsciiImm, Check
  <2> QED
    BY <2>1, <2>2
<1>7. Emits(EncodePrefixedSetcc(i, opcode, f))
  <2>1. CASE Len(i.args) # 1
    BY <2>1, Counting, Ranges DEF EncodePrefixedSetcc
  <2>2. CASE Len(i.args) = 1
    <3> DEFINE d == Forced(i.args[1], f)
               form == ForcedForm(f.o32, f.a32, <<\h0F, opcode>>, 0, d, 3)
    <3>1. IsOperand(d)
      BY <1>1, <2>2, ForcedOperand
    <3>2. EncodePrefixedSetcc(i, opcode, f)
            = Check(AddressSizeAgrees(d, f) /\ (d.kind = "REG8" \/ MemorySizeMatches(d, 1)), form)
      BY <2>2 DEF EncodePrefixedSetcc
    <3> HIDE DEF d
    <3>3. Emits(form)
      <4>1. Counts(<<\h0F, opcode>>, 2)
        BY Ranges, Opcodes
      <4>2. \A g \in Int : Emits(ForcedForm(f.o32, f.a32, <<\h0F, opcode>>, g, d, 3))
        BY <3>1, <4>1, ForcedForms
      <4> QED
        BY <4>2
    <3> HIDE DEF form
    <3> QED
      BY <3>2, <3>3, Built
  <2> QED
    BY <2>1, <2>2
<1> QED
  BY <1>5, <1>6, <1>7

----------------------------------------------------------------------------
(* Arithmetic, arpl and bit tests behind prefixes                          *)

\* What counts what it writes fits anywhere, and so does an answer.
LEMMA EmittedFits ==
  ASSUME NEW out, NEW e
  PROVE  /\ Emits(out) => Fits(out, e, 0)
         /\ Answers(out) => Fits(out, e, 0)
<1>1. Emits(out) => Fits(out, e, 0)
  BY Fitting
<1>2. Fits(NONE, e, 0)
  BY Few, Ranges DEF Fits, NONE, Out
<1> QED
  BY <1>1, <1>2 DEF Answers

\* Without memory the operand size prefix of the form is taken away and put in front.
LEMMA NoMemFits ==
  ASSUME NEW d, IsOperand(d), NEW s, IsOperand(s), NEW base \in Base, NEW acc8 \in Opcode,
         NEW acc16 \in Opcode, NEW group \in Int, NEW f, NEW e
  PROVE  Fits(EncodeArithNoMemPrefixed(d, s, base, acc8, acc16, group, f), e, 0)
<1> DEFINE op_prefix == f.o32 \/ d.kind = "REG32"
           own == OperandSizePrefixLen(d.size)
           form == EncodeArith(d, s, base, acc8, acc16, group)
           p == ForcedPrefixPair(op_prefix, f.a32)
           n == ForcedPrefixPairLen(op_prefix, f.a32)
           out == EncodeArithNoMemPrefixed(d, s, base, acc8, acc16, group, f)
           b == form.bytes
           rest == SubSeq(b, own + 1, Len(b))
<1>1. out = IF form.size < 0 THEN FAIL ELSE Out(p \o rest, form.size - own + n)
  BY DEF EncodeArithNoMemPrefixed
<1>2. Emits(form)
  BY AluEmits
<1>3. own \in {0, 1}
  BY OtherPrefixes
<1>4. Counts(p, n)
  BY Parts
<1> SUFFICES Fits(out, e, 0)
  OBVIOUS
<1> HIDE DEF op_prefix, own, form, p, n, out
<1>5. CASE form.size < 0
  BY <1>1, <1>5, Fitting
<1>6. CASE ~(form.size < 0)
  <2>1. b \in Bytes /\ form.size \in Nat /\ Len(b) = form.size /\ form.size > 0
    BY <1>2, <1>6 DEF Emits
  <2> HIDE DEF b
  <2>2. rest \in Bytes /\ Len(rest) = form.size - own
    BY <1>3, <2>1 DEF Bytes
  <2> HIDE DEF rest
  <2>3. form.size - own \in Nat
    BY <1>3, <2>1
  <2>4. Counts(rest, form.size - own)
    BY <2>2, <2>3 DEF Counts
  <2>5. Counts(p \o rest, n + (form.size - own))
    BY <1>4, <2>4, Counting, Ranges
  <2>6. n + (form.size - own) = form.size - own + n /\ form.size - own + n \in Nat
    BY <1>4, <2>3 DEF Counts
  <2>7. out = Out(p \o rest, form.size - own + n)
    BY <1>1, <1>6
  <2> QED
    BY <2>5, <2>6, <2>7 DEF Fits, Counts, Out
<1> QED
  BY <1>5, <1>6

\* The group of add behind an address prefix.
LEMMA AddressArithFits ==
  ASSUME NEW dst, IsOperand(dst), NEW src, IsOperand(src), NEW base \in Base, NEW acc8 \in Opcode,
         NEW acc16 \in Opcode, NEW group \in Int, NEW f, NEW e
  PROVE  /\ Fits(EncodeA16Arith(dst, src, base, acc8, acc16, group, f), e, 0)
         /\ Fits(EncodeA32Arith(dst, src, base, acc8, acc16, group, f), e, 0)
<1>1. ASSUME NEW d, IsOperand(d), NEW s, IsOperand(s)
      PROVE  /\ Fits(EncodeArith(d, s, base, acc8, acc16, group), e, 0)
             /\ Fits(EncodeO32Arith(d, s, base, acc8, acc16, group), e, 0)
  <2>1. Emits(EncodeArith(d, s, base, acc8, acc16, group))
    BY <1>1, AluEmits
  <2>2. Emits(EncodeO32Arith(d, s, base, acc8, acc16, group))
    BY <1>1, O32CopiesEmit
  <2> QED
    BY <2>1, <2>2, EmittedFits
<1> DEFINE d == ForceDirectMemoryA32(dst)
           s == ForceDirectMemoryA32(src)
<1>2. IsOperand(d) /\ IsOperand(s)
  BY ForcedOperand
<1>3. Fits(EncodeArithNoMemPrefixed(d, s, base, acc8, acc16, group, f), e, 0)
  <2> HIDE DEF d, s
  <2> QED
    BY <1>2, NoMemFits
<1>4. Fits(FAIL, e, 0)
  BY Fitting
<1>5. Fits(EncodeA16Arith(dst, src, base, acc8, acc16, group, f), e, 0)
  BY <1>1, <1>4 DEF EncodeA16Arith
<1>6. Fits(EncodeA32Arith(dst, src, base, acc8, acc16, group, f), e, 0)
  <2>1. EncodeA32Arith(dst, src, base, acc8, acc16, group, f)
          = CASE OperandIsMem16(d) \/ OperandIsMem16(s) -> FAIL
              [] OperandIsMem32(d) \/ OperandIsMem32(s) ->
                   IF f.o32 THEN EncodeO32Arith(d, s, base, acc8, acc16, group)
                            ELSE EncodeArith(d, s, base, acc8, acc16, group)
              [] OTHER -> EncodeArithNoMemPrefixed(d, s, base, acc8, acc16, group, f)
    BY DEF EncodeA32Arith
  <2> HIDE DEF d, s
  <2> QED
    BY <1>1, <1>2, <1>3, <1>4, <2>1
<1> QED
  BY <1>5, <1>6

\* arpl and the bit tests.
LEMMA TestsEmit ==
  ASSUME NEW dst, IsOperand(dst), NEW s, IsOperand(s), NEW x \in AByte, NEW group \in Int, NEW f
  PROVE  /\ Emits(EncodeArplOperands(dst, s, f))
         /\ Emits(EncodeBitTestPrefixedOperands(dst, s, x, group, f))
<1> DEFINE d == Forced(dst, f)
<1>1. IsOperand(d) /\ s.reg \in Int /\ s.imm \in Int
  BY ForcedOperand, Taken
<1>2. Emits(EncodeArplOperands(dst, s, f))
  <2>1. EncodeArplOperands(dst, s, f)
          = CASE s.kind # "REG16" \/ (f.a32 /\ OperandIsMem16(d)) -> FAIL
              [] s.kind = "REG16" /\ d.kind = "REG16" -> ForcedForm(f.o32, f.a32, <<\h63>>, s.reg, d, 2)
              [] s.kind = "REG16" /\ OperandIsMem32(d) /\ f.a16 -> FAIL
              [] OTHER ->
                   Check(MemorySizeMatches(d, 2), MemForm(IF f.o32 THEN 4 ELSE 2, <<\h63>>, s.reg, d.mem, 2))
    BY DEF EncodeArplOperands
  <2> HIDE DEF d
  <2>2. Counts(<<\h63>>, 1) /\ d.mem \in Memory
    BY <1>1, Counting, Ranges, Taken
  <2>3. Emits(ForcedForm(f.o32, f.a32, <<\h63>>, s.reg, d, 2))
    BY <1>1, <2>2, ForcedForms
  <2>4. \A size : Emits(MemForm(size, <<\h63>>, s.reg, d.mem, 2))
    BY <1>1, <2>2, MemForms
  <2>5. Emits(Check(MemorySizeMatches(d, 2), MemForm(IF f.o32 THEN 4 ELSE 2, <<\h63>>, s.reg, d.mem, 2)))
    BY <2>4, Built
  <2> QED
    BY <2>1, <2>3, <2>5, Counting, Ranges, Zenon
<1>3. Emits(EncodeBitTestPrefixedOperands(dst, s, x, group, f))
  <2> DEFINE op_prefix == BitTestOperandSize(d, s, f) = 4
             byte == ForcedForm(op_prefix, f.a32, <<\h0F, \hBA>>, group, d, 3)
             reg == ForcedForm(op_prefix, f.a32, <<\h0F, x>>, s.reg, d, 3)
  <2>1. EncodeBitTestPrefixedOperands(dst, s, x, group, f)
          = IF ~AddressSizeAgrees(d, f) \/ BitTestOperandSize(d, s, f) = 0 THEN FAIL
            ELSE IF s.kind = "IMM" THEN Check(FitsU16(s.imm), Then(byte, Byte(s.imm), 1)) ELSE reg
    BY DEF EncodeBitTestPrefixedOperands
  <2> HIDE DEF d, op_prefix
  <2>2. Counts(<<\h0F, \hBA>>, 2) /\ Counts(<<\h0F, x>>, 2) /\ Counts(Byte(s.imm), 1)
    BY <1>1, Opcodes, Counting, Ranges, Parts
  <2>3. Emits(byte) /\ Emits(reg)
    BY <1>1, <2>2, ForcedForms
  <2> HIDE DEF byte, reg
  <2>4. Emits(Then(byte, Byte(s.imm), 1))
    BY <2>2, <2>3, Built
  <2>5. Emits(Check(FitsU16(s.imm), Then(byte, Byte(s.imm), 1)))
    BY <2>4, Built
  <2> QED
    BY <2>1, <2>3, <2>5, Counting, Ranges
<1> QED
  BY <1>2, <1>3

----------------------------------------------------------------------------
(* The dispatchers: every encoder is asked with operands and opcodes it    *)
(* counts for                                                              *)

\* The arguments of an instruction, and the number of its condition.
LEMMA Arguments ==
  ASSUME NEW i, IsInstruction(i)
  PROVE  /\ Len(i.args) \in Nat
         /\ i.name \notin TakesTarget => AreOperands(i.args)
         /\ i.name \in TakesTarget => \A n \in 1..Len(i.args) : IsJumpTarget(i.args[n])
         /\ i.name \in {"jcc", "setcc"} => Condition(i.cond) \in 0..15
<1>1. Len(i.args) \in Nat /\ DOMAIN i.args = 1..Len(i.args)
  BY DEF IsInstruction
<1>2. /\ i.name \notin TakesTarget => AreOperands(i.args)
      /\ i.name \in TakesTarget => \A n \in 1..Len(i.args) : IsJumpTarget(i.args[n])
  BY <1>1 DEF IsInstruction, AreOperands
<1>3. ASSUME i.name \in {"jcc", "setcc"}
      PROVE  Condition(i.cond) \in 0..15
  <2>1. PICK n \in DOMAIN Conditions : i.cond \in Conditions[n]
    BY <1>3 DEF IsInstruction
  <2>2. DOMAIN Conditions = 1..16
    BY DEF Conditions
  <2>3. n - 1 \in 0..15 /\ n - 1 + 1 = n
    BY <2>1, <2>2
  <2>4. \E k \in 0..15 : i.cond \in Conditions[k + 1]
    BY <2>1, <2>3
  <2>5. Condition(i.cond) \in 0..15
    BY <2>4 DEF Condition
  <2> QED
    BY <2>5
<1> QED
  BY <1>1, <1>2, <1>3

\* The tables of opcodes hold bytes, and opcodes the width or the register may be added to.
LEMMA Tables ==
  /\ \A name \in DOMAIN Loops : Loops[name] \in AByte
  /\ \A name \in DOMAIN Returns : Returns[name][1] \in AByte /\ Returns[name][2] \in AByte
  /\ \A name \in DOMAIN FarLoads : FarLoads[name] \in AByte
  /\ \A name \in DOMAIN FarLoads0F : FarLoads0F[name] \in AByte
  /\ \A name \in DOMAIN Shifts : Shifts[name] \in Int
  /\ \A name \in DOMAIN DoubleShifts : DoubleShifts[name][1] \in AByte /\ DoubleShifts[name][2] \in AByte
  /\ \A name \in DOMAIN Unary : Unary[name] \in Int
  /\ \A name \in DOMAIN Steps : Steps[name][1] \in Int /\ Steps[name][2] \in Base
  /\ \A name \in DOMAIN BitScans : BitScans[name] \in AByte
  /\ \A name \in DOMAIN BitTests : BitTests[name][1] \in AByte /\ BitTests[name][2] \in Int
  /\ \A name \in DOMAIN Ariths : /\ Ariths[name][1] \in Base /\ Ariths[name][2] \in Opcode
                                 /\ Ariths[name][3] \in Opcode /\ Ariths[name][4] \in Int
  /\ \A name \in DOMAIN ZeroBytes : ZeroBytes[name] \in AByte
  /\ \A name \in DOMAIN ZeroDwords : ZeroDwords[name] \in AByte
<1>1. /\ \A name \in DOMAIN Loops : Loops[name] \in AByte
      /\ \A name \in DOMAIN Returns : Returns[name][1] \in AByte /\ Returns[name][2] \in AByte
  BY DEF Loops, Returns, AByte
<1>2. /\ \A name \in DOMAIN FarLoads : FarLoads[name] \in AByte
      /\ \A name \in DOMAIN FarLoads0F : FarLoads0F[name] \in AByte
  BY DEF FarLoads, FarLoads0F, AByte
<1>3. /\ \A name \in DOMAIN Shifts : Shifts[name] \in Int
      /\ \A name \in DOMAIN DoubleShifts : DoubleShifts[name][1] \in AByte /\ DoubleShifts[name][2] \in AByte
  BY DEF Shifts, DoubleShifts, AByte
<1>4. /\ \A name \in DOMAIN Unary : Unary[name] \in Int
      /\ \A name \in DOMAIN Steps : Steps[name][1] \in Int /\ Steps[name][2] \in Base
  BY DEF Unary, Steps, Base
<1>5. /\ \A name \in DOMAIN BitScans : BitScans[name] \in AByte
      /\ \A name \in DOMAIN BitTests : BitTests[name][1] \in AByte /\ BitTests[name][2] \in Int
  BY DEF BitScans, BitTests, AByte
<1>6. \A name \in DOMAIN Ariths : /\ Ariths[name][1] \in Base /\ Ariths[name][2] \in Opcode
                                  /\ Ariths[name][3] \in Opcode /\ Ariths[name][4] \in Int
  BY DEF Ariths, Base, Opcode
<1>7. \A name \in DOMAIN ZeroBytes : ZeroBytes[name] \in AByte
  BY DEF ZeroBytes, AByte
<1>8. \A name \in DOMAIN ZeroDwords : ZeroDwords[name] \in AByte
  BY DEF ZeroDwords, AByte
<1> QED
  BY <1>1, <1>2, <1>3, <1>4, <1>5, <1>6, <1>7, <1>8

\* The instructions of the system.
LEMMA SystemAnswers ==
  ASSUME NEW name, NEW args, AreOperands(args), NEW f
  PROVE  Answers(EncodeSystemOneOperandPrefixed(name, args, f))
<1>1. CASE name \notin SystemOneOperand
  BY <1>1 DEF EncodeSystemOneOperandPrefixed, Answers
<1>2. CASE Len(args) # 1
  BY <1>2, Counting, Ranges DEF EncodeSystemOneOperandPrefixed, Answers
<1>3. CASE name \in SystemOneOperand /\ Len(args) = 1
  <2> DEFINE s == args[1]
  <2>1. IsOperand(s)
    BY <1>3 DEF AreOperands
  <2>2. \A group \in Int, x \in AByte :
          /\ Emits(EncodeDescriptorTable(s, group, f)) /\ Emits(EncodeSystemRm16Load(s, group, f))
          /\ Emits(EncodeSystemRm16Store(s, group, x, f)) /\ Emits(EncodeSystemVerifySelector(s, group, f))
    BY Ranges, <2>1, SystemEmits
  <2> HIDE DEF s
  <2>3. \A group \in Int : Emits(EncodeDescriptorTable(s, group, f))
    BY Ranges, <2>2
  <2>4. \A group \in Int : Emits(EncodeSystemRm16Load(s, group, f))
    BY Ranges, <2>2
  <2>5. \A group \in Int : Emits(EncodeSystemVerifySelector(s, group, f))
    BY Ranges, <2>2
  <2>6. /\ Emits(EncodeDescriptorTable(s, 0, f)) /\ Emits(EncodeDescriptorTable(s, 1, f))
        /\ Emits(EncodeDescriptorTable(s, 2, f)) /\ Emits(EncodeDescriptorTable(s, 3, f))
    BY <2>3
  <2>7. /\ Emits(EncodeSystemRm16Load(s, 2, f)) /\ Emits(EncodeSystemRm16Load(s, 3, f))
        /\ Emits(EncodeSystemRm16Load(s, 6, f))
    BY <2>4
  <2>8. /\ Emits(EncodeSystemRm16Store(s, 0, \h00, f)) /\ Emits(EncodeSystemRm16Store(s, 1, \h00, f))
        /\ Emits(EncodeSystemRm16Store(s, 4, \h01, f))
    BY Ranges, <2>2
  <2>9. Emits(EncodeSystemVerifySelector(s, 4, f)) /\ Emits(EncodeSystemVerifySelector(s, 5, f))
    BY <2>5
  <2>10. Emits(EncodeSystemOneOperandPrefixed(name, args, f))
    BY <1>3, <2>6, <2>7, <2>8, <2>9, Zenon DEF EncodeSystemOneOperandPrefixed, SystemOneOperand, s
  <2> QED
    BY <2>10 DEF Answers
<1> QED
  BY <1>1, <1>2, <1>3

\* One operand, without a prefix.
LEMMA OneOperandAnswers ==
  ASSUME NEW i, AreOperands(i.args), i.name = "setcc" => Condition(i.cond) \in 0..15
  PROVE  Answers(OneOperand(i))
<1> DEFINE d == i.args[1]
<1>1. Len(i.args) = 1 => IsOperand(d)
  BY DEF AreOperands
<1> HIDE DEF d
<1>2. Emits(With1(i.args, EncodePush)) /\ Emits(With1(i.args, EncodePop)) /\ Emits(With1(i.args, EncodeIntr))
      /\ Emits(With1(i.args, EncodeNot))
  <2>1. Len(i.args) = 1 => Emits(EncodePush(d)) /\ Emits(EncodePop(d)) /\ Emits(EncodeIntr(d)) /\ Emits(EncodeNot(d))
    <3>1. \A group \in Int : \A o : IsOperand(o) => Emits(EncodeNot(o))
      BY UnaryEmits
    <3>2. 0 \in Int
      OBVIOUS
    <3> QED
      BY <1>1, <3>1, <3>2, PushesEmit, PopEmits, IntrEmits
  <2> QED
    BY <2>1, Counting, Ranges DEF With1, d
<1>3. i.name \in DOMAIN Steps =>
        Emits(With1(i.args, LAMBDA o : EncodeIncDec(o, Steps[i.name][1], Steps[i.name][2])))
  <2>1. ASSUME NEW g \in Int, NEW x \in Base, Len(i.args) = 1
        PROVE  Emits(EncodeIncDec(d, g, x))
    BY Ranges, <1>1, <2>1, IncDecEmits
  <2> QED
    BY <2>1, Tables, Counting, Ranges DEF With1, d
<1>4. i.name \in DOMAIN Unary => Emits(With1(i.args, LAMBDA o : EncodeUnaryGroup(o, Unary[i.name])))
  <2>1. ASSUME NEW g \in Int, Len(i.args) = 1
        PROVE  Emits(EncodeUnaryGroup(d, g))
    BY <1>1, <2>1, UnaryEmits
  <2> QED
    BY <2>1, Tables, Counting, Ranges DEF With1, d
<1>5. i.name = "setcc" => Emits(EncodePrefixedSetcc(i, SetccOpcodeFromName(i.cond), NoForce))
  <2>1. i.name = "setcc" => SetccOpcodeFromName(i.cond) \in AByte
    BY DEF SetccOpcodeFromName, AByte
  <2>2. \A x \in AByte : Emits(EncodePrefixedSetcc(i, x, NoForce))
    BY Ranges, InterruptsAnswer
  <2> QED
    BY Ranges, <2>1, <2>2
<1>6. Answers(EncodeSystemOneOperandPrefixed(i.name, i.args, NoForce))
  BY SystemAnswers
<1>7. OneOperand(i)
        = CASE i.name = "push" -> With1(i.args, EncodePush)
            [] i.name = "pop"  -> With1(i.args, EncodePop)
            [] i.name = "int"  -> With1(i.args, EncodeIntr)
            [] i.name = "not"  -> With1(i.args, EncodeNot)
            [] i.name \in DOMAIN Steps ->
                 With1(i.args, LAMBDA o : EncodeIncDec(o, Steps[i.name][1], Steps[i.name][2]))
            [] i.name \in DOMAIN Unary -> With1(i.args, LAMBDA o : EncodeUnaryGroup(o, Unary[i.name]))
            [] i.name = "setcc" -> EncodePrefixedSetcc(i, SetccOpcodeFromName(i.cond), NoForce)
            [] i.name \in SystemOneOperand -> EncodeSystemOneOperandPrefixed(i.name, i.args, NoForce)
            [] OTHER -> NONE
  BY DEF OneOperand
<1> QED
  BY <1>2, <1>3, <1>4, <1>5, <1>6, <1>7 DEF Answers

\* Two operands, without a prefix.
LEMMA TwoOperandsEmit ==
  ASSUME NEW i, NEW d, IsOperand(d), NEW s, IsOperand(s)
  PROVE  Emits(TwoOperands(i, d, s))
<1>1. /\ Emits(EncodeMov(d, s)) /\ Emits(EncodeXchg(d, s)) /\ Emits(EncodeEsc(d, s))
      /\ Emits(EncodeIn(d, s)) /\ Emits(EncodeOut(d, s))
  BY MovEmits, XchgEmits, EscEmits, InOutEmit
<1>2. /\ Emits(EncodeAnd(d, s)) /\ Emits(EncodeOr(d, s)) /\ Emits(EncodeXor(d, s)) /\ Emits(EncodeTest(d, s))
      /\ \A base \in Base, acc8, acc16 \in Opcode, group \in Int : Emits(EncodeArith(d, s, base, acc8, acc16, group))
  BY AluEmits
<1>3. /\ \A x \in AByte : /\ Emits(EncodeFarLoad(d, s, x)) /\ Emits(EncodeFarLoad0F(d, s, x))
                        /\ Emits(EncodeBitScan(d, s, x))
      /\ \A group \in Int : Emits(EncodeShiftGroup(d, s, group))
  BY LoadsEmit, ExtendsEmit, ShiftEmits
<1>4. Emits(EncodeLea(d, s)) /\ Emits(EncodeBound(d, s))
  <2>1. \A x \in AByte : Emits(EncodeLea(d, s)) /\ Emits(EncodeBound(d, s))
    BY Ranges, LoadsEmit
  <2>2. 0 \in AByte
    BY Ranges
  <2> QED
    BY Ranges, <2>1, <2>2
<1>5. /\ \A x, y \in AByte : Emits(EncodeMovExtend(d, s, x, y))
      /\ \A x \in AByte : Emits(SelectorLoad(d, s, x, NoForce))
      /\ \A x \in AByte, g \in Int : Emits(EncodeBitTestPrefixedOperands(d, s, x, g, NoForce))
  BY Ranges, ExtendsEmit, SelectorLoadEmits, TestsEmit
<1>6. Emits(EncodeMovExtend(d, s, \hBE, \hBF)) /\ Emits(EncodeMovExtend(d, s, \hB6, \hB7))
  BY Ranges, <1>5
<1>7. Emits(EncodeLarOperands(d, s, NoForce)) /\ Emits(EncodeLslOperands(d, s, NoForce))
  BY Ranges, <1>5 DEF EncodeLarOperands, EncodeLslOperands
<1>8. Emits(EncodeArplOperands(d, s, NoForce))
  <2>1. \A x \in AByte, g \in Int : Emits(EncodeArplOperands(d, s, NoForce))
    BY TestsEmit
  <2>2. 0 \in AByte
    BY Ranges
  <2> QED
    BY Ranges, <2>1, <2>2
<1>9. /\ i.name \in DOMAIN FarLoads => Emits(EncodeFarLoad(d, s, FarLoads[i.name]))
      /\ i.name \in DOMAIN FarLoads0F => Emits(EncodeFarLoad0F(d, s, FarLoads0F[i.name]))
      /\ i.name \in DOMAIN BitScans => Emits(EncodeBitScan(d, s, BitScans[i.name]))
      /\ i.name \in DOMAIN Shifts => Emits(EncodeShiftGroup(d, s, Shifts[i.name]))
  BY Ranges, <1>3, Tables
<1>10. i.name \in DOMAIN BitTests =>
         Emits(EncodeBitTestPrefixedOperands(d, s, BitTests[i.name][1], BitTests[i.name][2], NoForce))
  BY Ranges, <1>5, Tables
<1>11. i.name \in {"add", "adc", "sub", "sbb", "cmp"} =>
         Emits(EncodeArith(d, s, Ariths[i.name][1], Ariths[i.name][2], Ariths[i.name][3], Ariths[i.name][4]))
  <2>1. i.name \in {"add", "adc", "sub", "sbb", "cmp"} => i.name \in DOMAIN Ariths
    BY DEF Ariths
  <2> QED
    BY Ranges, <1>2, <2>1, Tables
<1> QED
  BY <1>1, <1>2, <1>4, <1>6, <1>7, <1>8, <1>9, <1>10, <1>11, Counting, Zenon DEF TwoOperands

\* Instructions without operands; aad and aam.
LEMMA ZeroOperandsEmit ==
  ASSUME NEW i
  PROVE  /\ i.name \in DOMAIN ZeroOperand => Emits(EncodeZeroOperand(i))
         /\ AreOperands(i.args) => Emits(EncodeAscii(i))
<1>1. ASSUME i.name \in DOMAIN ZeroOperand
      PROVE  Emits(EncodeZeroOperand(i))
  <2> DEFINE b == ZeroOperand[i.name]
  <2>1. \A x, y \in AByte : Counts(<<x>>, 1) /\ Counts(<<x, y>>, 2)
    BY Counting, Ranges
  <2>2. CASE i.name \in ReturnsTwo
    <3>0. /\ b = <<b[1], b[2]>> /\ b[1] \in Int /\ b[2] \in Int
          /\ 0 <= b[1] /\ b[1] <= 255 /\ 0 <= b[2] /\ b[2] <= 255
      BY <2>2, SMTT(60) DEF ReturnsTwo, ZeroOperand
    <3>1. b = <<b[1], b[2]>> /\ b[1] \in AByte /\ b[2] \in AByte
      BY <3>0 DEF AByte
    <3>2. EncodeZeroOperand(i) = Check(i.args = <<>>, Out(b, 2))
      BY <2>2 DEF EncodeZeroOperand
    <3> HIDE DEF b
    <3>3. Counts(b, 2)
      BY Ranges, <2>1, <3>1
    <3>4. Emits(Out(b, 2))
      BY <3>3, Counting, Ranges
    <3> QED
      BY <3>2, <3>4, Built
  <2>3. CASE i.name \notin ReturnsTwo
    <3>0. b = <<b[1]>> /\ b[1] \in Int /\ 0 <= b[1] /\ b[1] <= 255
      BY <1>1, <2>3, SMTT(60) DEF ReturnsTwo, ZeroOperand
    <3>1. b = <<b[1]>> /\ b[1] \in AByte
      BY <3>0 DEF AByte
    <3>2. EncodeZeroOperand(i) = Check(i.args = <<>>, Out(b, 1))
      BY <2>3 DEF EncodeZeroOperand
    <3> HIDE DEF b
    <3>3. Counts(b, 1)
      BY Ranges, <2>1, <3>1
    <3>4. Emits(Out(b, 1))
      BY <3>3, Counting, Ranges
    <3> QED
      BY <3>2, <3>4, Built
  <2> QED
    BY <2>2, <2>3
<1>2. ASSUME AreOperands(i.args)
      PROVE  Emits(EncodeAscii(i))
  <2>1. Counts(<<\hD5, 10>>, 2) /\ Counts(<<\hD4, 10>>, 2)
    BY Counting, Ranges
  <2>2. Emits(Out(<<\hD5, 10>>, 2)) /\ Emits(Out(<<\hD4, 10>>, 2))
    BY <2>1, Counting, Ranges
  <2>3. Len(i.args) = 1 => Emits(EncodeAad(i.args[1])) /\ Emits(EncodeAam(i.args[1]))
    BY <1>2, IntrEmits DEF AreOperands
  <2> QED
    BY <2>2, <2>3, Counting, Ranges DEF EncodeAscii
<1> QED
  BY <1>1, <1>2

\* What takes a target has no other encoder, and each of them has one.
LEMMA TargetNames ==
  /\ \A name \in TakesTarget :
       /\ name \notin DOMAIN Returns /\ name \notin DOMAIN Steps /\ name \notin DOMAIN Unary
       /\ name \notin DOMAIN ZeroOperand /\ name \notin DOMAIN DoubleShifts
       /\ name \notin {"enter", "push", "pop", "int", "not", "setcc", "aad", "aam", "imul"}
       /\ name \notin SystemOneOperand
  /\ \A name \in TakesTarget :
       /\ name \notin DOMAIN FarLoads /\ name \notin DOMAIN FarLoads0F /\ name \notin DOMAIN Shifts
       /\ name \notin DOMAIN BitScans /\ name \notin DOMAIN BitTests /\ name \notin DOMAIN Ariths
       /\ name \notin DOMAIN ZeroBytes /\ name \notin DOMAIN ZeroDwords
       /\ name \notin {"mov", "lea", "movsx", "movzx", "bound", "arpl", "lar", "lsl", "xchg", "in",
                       "out", "esc", "test"}
  /\ DOMAIN Loops \cap {"jmp", "call", "jcc", "jecxz"} = {}
<1>1. \A name \in TakesTarget :
        /\ name \notin DOMAIN Returns /\ name \notin DOMAIN Steps /\ name \notin DOMAIN Unary
        /\ name \notin DOMAIN DoubleShifts
        /\ name \notin {"enter", "push", "pop", "int", "not", "setcc", "aad", "aam", "imul"}
        /\ name \notin SystemOneOperand
  BY DEF TakesTarget, Loops, Returns, Steps, Unary, DoubleShifts, SystemOneOperand
<1>2. \A name \in TakesTarget : name \notin DOMAIN ZeroOperand
  BY DEF TakesTarget, Loops, ZeroOperand
<1>3. \A name \in TakesTarget :
        /\ name \notin DOMAIN FarLoads /\ name \notin DOMAIN FarLoads0F /\ name \notin DOMAIN Shifts
        /\ name \notin DOMAIN BitScans /\ name \notin DOMAIN BitTests /\ name \notin DOMAIN Ariths
  BY DEF TakesTarget, Loops, FarLoads, FarLoads0F, Shifts, BitScans, BitTests, Ariths
<1>4. \A name \in TakesTarget :
        /\ name \notin DOMAIN ZeroBytes /\ name \notin DOMAIN ZeroDwords
        /\ name \notin {"mov", "lea", "movsx", "movzx", "bound", "arpl", "lar", "lsl", "xchg", "in",
                        "out", "esc", "test"}
  BY DEF TakesTarget, Loops, ZeroBytes, ZeroDwords
<1>5. DOMAIN Loops \cap {"jmp", "call", "jcc", "jecxz"} = {}
  BY DEF Loops
<1> QED
  BY <1>1, <1>2, <1>3, <1>4, <1>5

\* How many bytes more a jump or a call writes than it says.
Extra(i) == IF i.name \in {"jmp", "call"} THEN FarExtra(i.args[1]) ELSE 0

\* What jumps, without a prefix.
LEMMA ControlFits ==
  ASSUME NEW i, IsInstruction(i), i.name \in TakesTarget, NEW e, IsPlace(e)
  PROVE  Fits(Control(i, e), e, Extra(i))
<1> DEFINE t == i.args[1]
           x == Extra(i)
<1>1. Len(i.args) = 1 => IsJumpTarget(t)
  BY Arguments
<1>2. i.name \in {"jmp", "call"} => x = FarExtra(t)
  BY DEF Extra
<1>3. i.name \notin {"jmp", "call"} => x = 0
  BY DEF Extra
<1>4. Fits(FAIL, e, x)
  BY Fitting
<1> SUFFICES Fits(Control(i, e), e, x)
  OBVIOUS
<1> HIDE DEF t, x
<1>0. /\ i.name \notin DOMAIN Returns /\ i.name # "enter"
      /\ i.name \in DOMAIN Loops => i.name \notin {"jmp", "call", "jcc", "jecxz"}
  BY TargetNames
<1>5. CASE i.name = "jmp"
  <2>1. Len(i.args) = 1 => Fits(EncodeJmp(t, e), e, x)
    BY <1>1, <1>2, <1>5, JumpsFit
  <2>2. Control(i, e) = IF Len(i.args) # 1 THEN FAIL ELSE EncodeJmp(t, e)
    BY <1>5, <1>0 DEF Control, With1, t
  <2> QED
    BY <1>4, <2>1, <2>2
<1>6. CASE i.name = "call"
  <2>1. Len(i.args) = 1 => Fits(EncodeCall(t, e), e, x)
    BY <1>1, <1>2, <1>6, JumpsFit
  <2>2. Control(i, e) = IF Len(i.args) # 1 THEN FAIL ELSE EncodeCall(t, e)
    BY <1>6, <1>0 DEF Control, With1, t
  <2> QED
    BY <1>4, <2>1, <2>2
<1>7. CASE i.name \in DOMAIN Loops
  <2>1. i.name \notin {"jmp", "call"}
    BY <1>7, <1>0
  <2>2. \A y, z \in AByte : Len(i.args) = 1 => Fits(EncodeRel8Control(t, y, e), e, 0)
    BY <1>1, ConditionsFit
  <2>3. Len(i.args) = 1 => Fits(EncodeRel8Control(t, Loops[i.name], e), e, 0)
    BY Ranges, <1>7, <2>2, Tables
  <2>4. Control(i, e) = IF Len(i.args) # 1 THEN FAIL ELSE EncodeRel8Control(t, Loops[i.name], e)
    BY <1>7, <1>0 DEF Control, With1, t
  <2> QED
    BY <1>3, <1>4, <2>1, <2>3, <2>4
<1>8. CASE i.name = "jecxz"
  <2>1. \A y, z \in AByte : Len(i.args) = 1 => Fits(EncodeJecxz(t, e), e, 0)
    BY <1>1, ConditionsFit
  <2>2. 0 \in AByte
    BY Ranges
  <2>3. Len(i.args) = 1 => Fits(EncodeJecxz(t, e), e, 0)
    BY Ranges, <2>1, <2>2
  <2>4. Control(i, e) = IF Len(i.args) # 1 THEN FAIL ELSE EncodeJecxz(t, e)
    BY <1>8, <1>0 DEF Control, With1, t
  <2> QED
    BY <1>3, <1>4, <1>8, <2>3, <2>4
<1>9. CASE i.name = "jcc"
  <2> DEFINE op == JccOpcodesFromName(i.cond)
  <2>0. Condition(i.cond) \in 0..15
    BY <1>9, Arguments
  <2>1. op.short \in AByte /\ op.near \in AByte
    BY <2>0 DEF JccOpcodesFromName, AByte
  <2>2. Control(i, e) = IF Len(i.args) # 1 THEN FAIL ELSE EncodeConditionalJump(t, op.short, op.near, e)
    BY <1>9, <1>0 DEF Control, With1, t
  <2> HIDE DEF op
  <2>3. Len(i.args) = 1 => Fits(EncodeConditionalJump(t, op.short, op.near, e), e, 0)
    BY Ranges, <1>1, <2>1, ConditionsFit
  <2> QED
    BY <1>3, <1>4, <1>9, <2>2, <2>3
<1> QED
  BY <1>5, <1>6, <1>7, <1>8, <1>9 DEF TakesTarget

\* ret and enter, which take operands.
LEMMA ControlAnswers ==
  ASSUME NEW i, AreOperands(i.args), i.name \notin TakesTarget, NEW e, NEW f
  PROVE  Answers(Control(i, e)) /\ Answers(MiscControl(i, f, e))
<1>1. i.name \notin {"jmp", "call", "jcc", "jecxz"} /\ i.name \notin DOMAIN Loops
  BY DEF TakesTarget
<1>2. \A x, y \in AByte : /\ Emits(EncodeRet(i.args, x, y)) /\ Emits(EncodePrefixedRet(i.args, x, y, f))
                        /\ Emits(EncodeEnter(i.args)) /\ Emits(EncodePrefixedEnter(i.args, f))
  BY ReturnsEmit
<1>3. i.name \in DOMAIN Returns =>
        /\ Emits(EncodeRet(i.args, Returns[i.name][1], Returns[i.name][2]))
        /\ Emits(EncodePrefixedRet(i.args, Returns[i.name][1], Returns[i.name][2], f))
  BY Ranges, <1>2, Tables
<1>4. Emits(EncodeEnter(i.args)) /\ Emits(EncodePrefixedEnter(i.args, f))
  <2>1. 0 \in AByte
    BY Ranges
  <2> QED
    BY Ranges, <1>2, <2>1
<1>5. Answers(Control(i, e))
  BY <1>1, <1>3, <1>4, Zenon DEF Answers, Control
<1>6. Answers(MiscControl(i, f, e))
  BY <1>1, <1>3, <1>4, Zenon DEF Answers, MiscControl
<1> QED
  BY <1>5, <1>6

----------------------------------------------------------------------------
(* The dispatchers                                                         *)

\* What the dispatchers ask one after the other.
LEMMA Asking ==
  ASSUME NEW e
  PROVE  /\ \A x, out, other : Fits(out, e, x) /\ Fits(other, e, x) => Fits(OrElse(out, other), e, x)
         /\ \A x, other : Fits(other, e, x) => Fits(OrElse(NONE, other), e, x)
         /\ \A out, other : Answers(out) /\ Answers(other) => Answers(OrElse(out, other))
         /\ \A out : Emits(out) => Answers(out)
         /\ Answers(NONE) /\ Answers(FAIL)
  BY Counting, Ranges, Zenon DEF OrElse, Answers

\* An instruction without a prefix that has operands.
LEMMA PlainAnswers ==
  ASSUME NEW i, IsInstruction(i), i.name \notin TakesTarget, NEW e
  PROVE  Answers(EncodePlain(i, e))
<1>1. AreOperands(i.args) /\ (i.name = "setcc" => Condition(i.cond) \in 0..15)
  BY Arguments
<1>2. i.name \in DOMAIN ZeroOperand => Emits(EncodeZeroOperand(i))
  BY ZeroOperandsEmit
<1>3. Emits(EncodeAscii(i))
  BY <1>1, ZeroOperandsEmit
<1>4. Emits(Check(Len(i.args) \in 1..3, EncodeImulMulti(i.args)))
  BY <1>1, ImulsEmit, Counting, Ranges DEF Check
<1>5. i.name \in DOMAIN DoubleShifts =>
        Emits(With3(i.args, LAMBDA d, s, n : EncodePrefixedDoubleShift(d, s, n, DoubleShifts[i.name][1],
                                                                     DoubleShifts[i.name][2], NoForce)))
  <2>1. ASSUME Len(i.args) = 3
        PROVE  IsOperand(i.args[1]) /\ IsOperand(i.args[2]) /\ IsOperand(i.args[3])
    BY <1>1, <2>1 DEF AreOperands
  <2>2. \A x, y \in AByte : Len(i.args) = 3 =>
          Emits(EncodePrefixedDoubleShift(i.args[1], i.args[2], i.args[3], x, y, NoForce))
    BY <2>1, DoubleShiftsEmit
  <2> QED
    BY <2>2, Tables, Counting, Ranges DEF With3
<1>6. Answers(Control(i, e)) /\ Answers(OneOperand(i))
  BY <1>1, ControlAnswers, OneOperandAnswers
<1>7. Emits(With2(i.args, LAMBDA d, s : TwoOperands(i, d, s)))
  <2>1. Len(i.args) = 2 => IsOperand(i.args[1]) /\ IsOperand(i.args[2])
    BY <1>1 DEF AreOperands
  <2>2. Len(i.args) = 2 => Emits(TwoOperands(i, i.args[1], i.args[2]))
    BY <2>1, TwoOperandsEmit
  <2> QED
    BY <2>2, Counting, Ranges DEF With2
<1> DEFINE two == With2(i.args, LAMBDA d, s : TwoOperands(i, d, s))
           doubles == With3(i.args, LAMBDA d, s, n : EncodePrefixedDoubleShift(d, s, n,
                              DoubleShifts[i.name][1], DoubleShifts[i.name][2], NoForce))
           imul == Check(Len(i.args) \in 1..3, EncodeImulMulti(i.args))
<1>8. EncodePlain(i, e)
        = CASE i.name \in DOMAIN ZeroOperand -> EncodeZeroOperand(i)
            [] i.name \in {"aad", "aam"} -> EncodeAscii(i)
            [] i.name = "imul" -> imul
            [] i.name \in DOMAIN DoubleShifts -> doubles
            [] OTHER -> OrElse(Control(i, e), OrElse(OneOperand(i), two))
  BY DEF EncodePlain
<1>9. Emits(two) /\ Emits(imul) /\ (i.name \in DOMAIN DoubleShifts => Emits(doubles))
  BY <1>4, <1>5, <1>7
<1> HIDE DEF two, doubles, imul
<1>10. Answers(OrElse(Control(i, e), OrElse(OneOperand(i), two)))
  BY <1>6, <1>9, Asking
<1> QED
  BY <1>2, <1>3, <1>8, <1>9, <1>10, Asking, Zenon

\* An instruction without a prefix.
LEMMA PlainFits ==
  ASSUME NEW i, IsInstruction(i), NEW e, IsPlace(e)
  PROVE  /\ Fits(EncodePlain(i, e), e, Extra(i))
         /\ i.name \notin TakesTarget => Extra(i) = 0
<1>1. CASE i.name \notin TakesTarget
  <2>1. Extra(i) = 0
    BY <1>1 DEF Extra, TakesTarget
  <2> QED
    BY <1>1, <2>1, PlainAnswers, EmittedFits
<1>2. CASE i.name \in TakesTarget
  <2>1. /\ i.name \notin DOMAIN ZeroOperand /\ i.name \notin {"aad", "aam", "imul"}
        /\ i.name \notin DOMAIN DoubleShifts
    BY <1>2, TargetNames
  <2>2. OneOperand(i) = NONE
    <3>1. /\ i.name \notin {"push", "pop", "int", "not", "setcc"} /\ i.name \notin DOMAIN Steps
          /\ i.name \notin DOMAIN Unary /\ i.name \notin SystemOneOperand
      BY <1>2, TargetNames
    <3> QED
      BY <3>1 DEF OneOperand
  <2>3. \A d, s : TwoOperands(i, d, s) = FAIL
    <3>1. /\ i.name \notin DOMAIN FarLoads /\ i.name \notin DOMAIN FarLoads0F /\ i.name \notin DOMAIN Shifts
          /\ i.name \notin DOMAIN BitScans /\ i.name \notin DOMAIN BitTests /\ i.name \notin DOMAIN Ariths
          /\ i.name \notin {"mov", "lea", "movsx", "movzx", "bound", "arpl", "lar", "lsl", "xchg", "in",
                            "out", "esc", "test"}
      BY <1>2, TargetNames
    <3>2. i.name \notin {"add", "adc", "sub", "sbb", "cmp", "and", "or", "xor"}
      BY <3>1 DEF Ariths
    <3> QED
      BY <3>1, <3>2, ZenonT(40) DEF TwoOperands
  <2>4. Fits(Control(i, e), e, Extra(i)) /\ Fits(FAIL, e, Extra(i))
    BY <1>2, ControlFits, Fitting
  <2> DEFINE two == With2(i.args, LAMBDA d, s : TwoOperands(i, d, s))
  <2>5. two = FAIL
    BY <2>3 DEF With2
  <2>6. EncodePlain(i, e) = OrElse(Control(i, e), OrElse(OneOperand(i), two))
    BY <2>1 DEF EncodePlain
  <2> HIDE DEF two
  <2>7. Fits(OrElse(Control(i, e), OrElse(NONE, FAIL)), e, Extra(i))
    BY <2>4, Asking
  <2> QED
    BY <1>2, <2>2, <2>5, <2>6, <2>7
<1> QED
  BY <1>1, <1>2

----------------------------------------------------------------------------
(* Behind prefixes                                                         *)

\* Not the encoder's instruction, or one that fits.
Settles(out, e, x) == out = NONE \/ Fits(out, e, x)

\* What settles may be asked first, and what comes last refuses.
LEMMA Settling ==
  ASSUME NEW e, NEW x
  PROVE  /\ \A out, other : Settles(out, e, x) /\ Settles(other, e, x) => Settles(OrElse(out, other), e, x)
         /\ \A out : Settles(out, e, x) => Fits(OrElse(out, FAIL), e, x)
         /\ Settles(NONE, e, x)
         /\ \A out : Answers(out) /\ x = 0 => Settles(out, e, x)
<1>1. Fits(FAIL, e, x)
  BY Fitting
<1>2. \A out : Answers(out) /\ x = 0 => Settles(out, e, x)
  BY EmittedFits DEF Settles
<1> QED
  BY <1>1, <1>2, Zenon DEF OrElse, Settles

\* Who has none of the names that go without operands is not encoded as one of them.
LEMMA NoStrings ==
  ASSUME NEW i, NEW op, NEW a32, NEW o16,
         i.name \notin {"cwd", "cwde", "daa", "das", "clts", "into", "iret", "iretd", "int"},
         i.name \notin DOMAIN FlagOpcode,
         \A names \in {Movs, Cmps, Scas, Lods, Stos, Ins, Outs} :
           i.name \notin names.any \cup {names.byte, names.word, names.dword}
  PROVE  /\ EmitPrefixedConvert(i, op, a32, o16) = NONE /\ EmitPrefixedDecimalAdjust(i, op, a32) = NONE
         /\ EmitPrefixedFlagControl(i, op, a32) = NONE /\ EmitPrefixedScas(i, op, a32, o16) = NONE
         /\ EmitPrefixedMovs(i, op, a32, o16) = NONE /\ EmitPrefixedLods(i, op, a32, o16) = NONE
         /\ EmitPrefixedStos(i, op, a32, o16) = NONE /\ EmitPrefixedIns(i, op, a32, o16) = NONE
         /\ EmitPrefixedOuts(i, op, a32, o16) = NONE /\ EmitPrefixedInterrupt(i, op, a32, o16) = NONE
         /\ EmitPrefixedCmps(i, op, a32) = NONE
<1>1. \A names \in {Movs, Cmps, Scas, Lods, Stos, Ins, Outs} : \A opcode, o : StringOp(i, names, opcode, op, a32, o) = NONE
  BY Zenon DEF StringOp
<1> DEFINE no == FALSE
<1>2. EmitPrefixedCmps(i, op, a32) = StringOp(i, Cmps, \hA6, op, a32, no)
  BY DEF EmitPrefixedCmps
<1> HIDE DEF no
<1>3. /\ EmitPrefixedConvert(i, op, a32, o16) = NONE /\ EmitPrefixedDecimalAdjust(i, op, a32) = NONE
      /\ EmitPrefixedFlagControl(i, op, a32) = NONE /\ EmitPrefixedInterrupt(i, op, a32, o16) = NONE
  BY Zenon DEF EmitPrefixedConvert, EmitPrefixedDecimalAdjust, EmitPrefixedFlagControl,
               EmitPrefixedInterrupt
<1>4. /\ EmitPrefixedScas(i, op, a32, o16) = NONE /\ EmitPrefixedMovs(i, op, a32, o16) = NONE
      /\ EmitPrefixedLods(i, op, a32, o16) = NONE /\ EmitPrefixedStos(i, op, a32, o16) = NONE
      /\ EmitPrefixedIns(i, op, a32, o16) = NONE /\ EmitPrefixedOuts(i, op, a32, o16) = NONE
      /\ EmitPrefixedCmps(i, op, a32) = NONE
  BY <1>1, <1>2 DEF EmitPrefixedScas, EmitPrefixedMovs, EmitPrefixedLods, EmitPrefixedStos,
                     EmitPrefixedIns, EmitPrefixedOuts
<1> QED
  BY <1>3, <1>4

\* Names that go without operands are of no jump.
LEMMA TargetStrings ==
  ASSUME NEW i, i.name \in TakesTarget, NEW op, NEW a32, NEW o16
  PROVE  /\ EmitPrefixedConvert(i, op, a32, o16) = NONE /\ EmitPrefixedDecimalAdjust(i, op, a32) = NONE
         /\ EmitPrefixedFlagControl(i, op, a32) = NONE /\ EmitPrefixedScas(i, op, a32, o16) = NONE
         /\ EmitPrefixedMovs(i, op, a32, o16) = NONE /\ EmitPrefixedLods(i, op, a32, o16) = NONE
         /\ EmitPrefixedStos(i, op, a32, o16) = NONE /\ EmitPrefixedIns(i, op, a32, o16) = NONE
         /\ EmitPrefixedOuts(i, op, a32, o16) = NONE /\ EmitPrefixedInterrupt(i, op, a32, o16) = NONE
         /\ EmitPrefixedCmps(i, op, a32) = NONE
<1>1. /\ i.name \notin {"cwd", "cwde", "daa", "das", "clts", "into", "iret", "iretd", "int"}
      /\ i.name \notin DOMAIN FlagOpcode
  BY DEF TakesTarget, Loops, FlagOpcode
<1>2. \A names \in {Movs, Cmps, Scas, Lods, Stos, Ins, Outs} :
        i.name \notin names.any \cup {names.byte, names.word, names.dword}
  BY DEF TakesTarget, Loops, Movs, Cmps, Scas, Lods, Stos, Ins, Outs
<1> QED
  BY <1>1, <1>2, NoStrings

\* What encode_misc_prefixed_instruction finds by the name.
LEMMA MiscStringsSettle ==
  ASSUME NEW i, NEW f
  PROVE  /\ AreOperands(i.args) => Answers(MiscStrings(i, f))
         /\ i.name \in TakesTarget => MiscStrings(i, f) = NONE
<1> DEFINE op == f.o32
           a32 == f.a32
           forms == { EmitPrefixedConvert(i, op, a32, f.o16), EmitPrefixedDecimalAdjust(i, op, a32),
                      EmitPrefixedFlagControl(i, op, a32), EmitPrefixedScas(i, op, a32, f.o16),
                      EmitPrefixedMovs(i, op, a32, f.o16), EmitPrefixedLods(i, op, a32, f.o16),
                      EmitPrefixedStos(i, op, a32, f.o16), EmitPrefixedIns(i, op, a32, f.o16),
                      EmitPrefixedOuts(i, op, a32, f.o16), EmitPrefixedInterrupt(i, op, a32, f.o16) }
<1>1. MiscStrings(i, f) = IF forms = {NONE} THEN NONE ELSE CHOOSE form \in forms : form # NONE
  BY DEF MiscStrings
<1>2. forms # {}
  OBVIOUS
<1>3. ASSUME AreOperands(i.args)
      PROVE  \A form \in forms : Answers(form)
  <2>1. \A opcode \in AByte : Answers(EmitPrefixedInterrupt(i, op, a32, f.o16))
    BY <1>3, InterruptsAnswer
  <2>2. 0 \in AByte
    BY Ranges
  <2>3. Answers(EmitPrefixedInterrupt(i, op, a32, f.o16))
    BY Ranges, <2>1, <2>2
  <2>4. /\ Answers(EmitPrefixedConvert(i, op, a32, f.o16)) /\ Answers(EmitPrefixedDecimalAdjust(i, op, a32))
        /\ Answers(EmitPrefixedFlagControl(i, op, a32))
    BY NamesAnswer
  <2>5. /\ Answers(EmitPrefixedScas(i, op, a32, f.o16)) /\ Answers(EmitPrefixedMovs(i, op, a32, f.o16))
        /\ Answers(EmitPrefixedLods(i, op, a32, f.o16)) /\ Answers(EmitPrefixedStos(i, op, a32, f.o16))
        /\ Answers(EmitPrefixedIns(i, op, a32, f.o16)) /\ Answers(EmitPrefixedOuts(i, op, a32, f.o16))
    BY StringsAnswer
  <2> HIDE DEF op, a32
  <2> QED
    BY <2>3, <2>4, <2>5
<1>4. i.name \in TakesTarget => forms = {NONE}
  <2> HIDE DEF op, a32
  <2> QED
    BY TargetStrings
<1> HIDE DEF forms
<1>5. ASSUME AreOperands(i.args), forms # {NONE}
      PROVE  Answers(CHOOSE form \in forms : form # NONE)
  <2>1. \E form \in forms : form # NONE
    BY <1>2, <1>5
  <2> QED
    BY <1>3, <1>5, <2>1
<1> QED
  BY <1>1, <1>4, <1>5, Asking

\* What jumps, behind prefixes.
LEMMA MiscControlSettles ==
  ASSUME NEW i, IsInstruction(i), i.name \in TakesTarget, NEW f, NEW e, IsPlace(e)
  PROVE  Settles(MiscControl(i, f, e), e, Extra(i))
<1> DEFINE t == i.args[1]
           x == Extra(i)
           wide == [f EXCEPT !.a32 = TRUE]
           op == JccOpcodesFromName(i.cond)
<1>1. Len(i.args) = 1 => IsJumpTarget(t)
  BY Arguments
<1>2. i.name = "jmp" => x = FarExtra(t)
  BY DEF Extra
<1>3. i.name \notin {"jmp", "call"} => x = 0
  BY DEF Extra
<1>4. i.name = "jcc" => op.short \in AByte /\ op.near \in AByte
  <2>1. i.name = "jcc" => Condition(i.cond) \in 0..15
    BY Arguments
  <2> QED
    BY <2>1 DEF JccOpcodesFromName, AByte
<1>5. /\ i.name \notin DOMAIN Returns /\ i.name # "enter"
      /\ i.name \in DOMAIN Loops => i.name \notin {"jmp", "call", "jcc", "jecxz"}
  BY TargetNames
<1>6. MiscControl(i, f, e)
        = CASE i.name = "jcc" -> IF Len(i.args) # 1 THEN FAIL ELSE EncodePrefixedJcc(t, op.short, op.near, f, e)
            [] i.name \in DOMAIN Loops ->
                 IF Len(i.args) # 1 THEN FAIL ELSE EncodePrefixedRel8Control(t, Loops[i.name], f, e)
            [] i.name = "jecxz" ->
                 IF Len(i.args) # 1 THEN FAIL ELSE EncodePrefixedRel8Control(t, \hE3, wide, e)
            [] i.name = "jmp" -> IF Len(i.args) # 1 THEN FAIL ELSE EncodePrefixedJmp(t, f, e)
            [] OTHER -> NONE
  BY <1>5 DEF MiscControl, With1
<1> SUFFICES Settles(MiscControl(i, f, e), e, x)
  OBVIOUS
<1> HIDE DEF t, x, wide, op
<1>7. Fits(FAIL, e, x)
  BY Fitting
<1>8. i.name = "jcc" /\ Len(i.args) = 1 => Fits(EncodePrefixedJcc(t, op.short, op.near, f, e), e, x)
  BY Ranges, <1>1, <1>3, <1>4, PrefixedConditionsFit
<1>9. i.name \notin {"jmp", "call"} /\ Len(i.args) = 1
        => \A y, z \in AByte : \A g : Fits(EncodePrefixedRel8Control(t, y, g, e), e, x)
  BY <1>1, <1>3, PrefixedConditionsFit
<1>10. i.name \notin {"jmp", "call"} /\ Len(i.args) = 1
        => \A y \in AByte : \A g : Fits(EncodePrefixedRel8Control(t, y, g, e), e, x)
  BY <1>9
<1>11. i.name \in DOMAIN Loops /\ Len(i.args) = 1
        => Fits(EncodePrefixedRel8Control(t, Loops[i.name], f, e), e, x)
  BY Ranges, <1>5, <1>10, Tables
<1>12. i.name = "jecxz" /\ Len(i.args) = 1 => Fits(EncodePrefixedRel8Control(t, \hE3, wide, e), e, x)
  <2>1. \hE3 \in AByte
    BY Ranges
  <2> QED
    BY <1>10, <2>1
<1>13. i.name = "jmp" /\ Len(i.args) = 1 => Fits(EncodePrefixedJmp(t, f, e), e, x)
  BY <1>1, <1>2, PrefixedJmpFits
<1> QED
  BY <1>6, <1>7, <1>8, <1>11, <1>12, <1>13 DEF Settles

\* lea, the loads of far pointers, and the system's instructions.
LEMMA MiscLoadsSettle ==
  ASSUME NEW i, NEW f
  PROVE  /\ AreOperands(i.args) => Answers(MiscLoads(i, f))
         /\ i.name \in TakesTarget => MiscLoads(i, f) = NONE
<1> DEFINE d == i.args[1]
           s == i.args[2]
<1>1. ASSUME AreOperands(i.args)
      PROVE  Answers(MiscLoads(i, f))
  <2>1. Len(i.args) = 2 => IsOperand(d) /\ IsOperand(s)
    BY <1>1 DEF AreOperands
  <2>2. MiscLoads(i, f)
          = CASE i.name = "lea" -> IF Len(i.args) # 2 THEN FAIL ELSE EncodeLeaPrefixedOperands(d, s, f)
              [] i.name \in DOMAIN FarLoads ->
                   IF Len(i.args) # 2 THEN FAIL ELSE EncodeFarLoadPrefixedOperands(d, s, FarLoads[i.name], f)
              [] i.name \in DOMAIN FarLoads0F ->
                   IF Len(i.args) # 2 THEN FAIL ELSE EncodeFarLoad0FPrefixedOperands(d, s, FarLoads0F[i.name], f)
              [] i.name \in SystemOneOperand -> EncodeSystemOneOperandPrefixed(i.name, i.args, f)
              [] OTHER -> NONE
    BY DEF MiscLoads, With2
  <2> HIDE DEF d, s
  <2>3. Len(i.args) = 2 => \A x \in AByte : /\ Emits(EncodeLeaPrefixedOperands(d, s, f))
                                            /\ Emits(EncodeFarLoadPrefixedOperands(d, s, x, f))
                                            /\ Emits(EncodeFarLoad0FPrefixedOperands(d, s, x, f))
    BY Ranges, <2>1, LoadsEmit
  <2>4. 0 \in AByte
    BY Ranges
  <2>5. Len(i.args) = 2 => Emits(EncodeLeaPrefixedOperands(d, s, f))
    BY <2>3, <2>4
  <2>6. /\ Len(i.args) = 2 /\ i.name \in DOMAIN FarLoads
             => Emits(EncodeFarLoadPrefixedOperands(d, s, FarLoads[i.name], f))
        /\ Len(i.args) = 2 /\ i.name \in DOMAIN FarLoads0F
             => Emits(EncodeFarLoad0FPrefixedOperands(d, s, FarLoads0F[i.name], f))
    BY <2>3, Tables
  <2>7. Answers(EncodeSystemOneOperandPrefixed(i.name, i.args, f))
    BY <1>1, SystemAnswers
  <2> QED
    BY <2>2, <2>5, <2>6, <2>7, Asking
<1>2. ASSUME i.name \in TakesTarget
      PROVE  MiscLoads(i, f) = NONE
  <2>1. /\ i.name # "lea" /\ i.name \notin DOMAIN FarLoads /\ i.name \notin DOMAIN FarLoads0F
        /\ i.name \notin SystemOneOperand
    BY <1>2, TargetNames
  <2> QED
    BY <2>1, Zenon DEF MiscLoads
<1> QED
  BY <1>1, <1>2

\* inc and dec, push and pop, and what has no operands.
LEMMA MiscStackSettles ==
  ASSUME NEW i, NEW f
  PROVE  /\ AreOperands(i.args) => Answers(MiscStack(i, f))
         /\ i.name \in TakesTarget => MiscStack(i, f) = NONE
<1> DEFINE d == i.args[1]
           g == Steps[i.name][1]
           b == Steps[i.name][2]
           wide == ~f.o16
<1>1. ASSUME AreOperands(i.args)
      PROVE  Answers(MiscStack(i, f))
  <2>1. Len(i.args) = 1 => IsOperand(d)
    BY <1>1 DEF AreOperands
  <2>2. MiscStack(i, f)
          = CASE i.name \in DOMAIN Steps ->
                   IF Len(i.args) # 1 THEN FAIL
                   ELSE IF f.o16 THEN EncodeO16IncDec(d, g, b, f) ELSE EncodePrefixedIncDec(d, g, b, f)
              [] i.name = "push" -> IF Len(i.args) # 1 THEN FAIL ELSE EncodePrefixedPush(d, f)
              [] i.name = "pop"  -> IF Len(i.args) # 1 THEN FAIL ELSE EncodePrefixedPop(d, f)
              [] i.name \in DOMAIN ZeroBytes -> EmitPrefixedZeroOpByte(i, ZeroBytes[i.name], f.o32, f.a32)
              [] i.name \in DOMAIN ZeroDwords -> EmitPrefixedZeroOpByte(i, ZeroDwords[i.name], wide, f.a32)
              [] OTHER -> NONE
    BY DEF MiscStack, With1
  <2>3. i.name \in DOMAIN Steps => g \in Int /\ b \in Base
    BY Tables
  <2> HIDE DEF d, g, b, wide
  <2>4. Len(i.args) = 1 /\ i.name \in DOMAIN Steps
          => Emits(EncodeO16IncDec(d, g, b, f)) /\ Emits(EncodePrefixedIncDec(d, g, b, f))
    BY Ranges, <2>1, <2>3, IncDecEmits
  <2>5. Len(i.args) = 1 => Emits(EncodePrefixedPush(d, f)) /\ Emits(EncodePrefixedPop(d, f))
    BY <2>1, PrefixedStackEmits
  <2>6. \A x \in AByte : \A o, a32 : Emits(EmitPrefixedZeroOpByte(i, x, o, a32))
    BY Ranges, ZeroOpsEmit
  <2>7. /\ i.name \in DOMAIN ZeroBytes => Emits(EmitPrefixedZeroOpByte(i, ZeroBytes[i.name], f.o32, f.a32))
        /\ i.name \in DOMAIN ZeroDwords => Emits(EmitPrefixedZeroOpByte(i, ZeroDwords[i.name], wide, f.a32))
    BY <2>6, Tables
  <2> QED
    BY <2>2, <2>4, <2>5, <2>7, Asking
<1>2. ASSUME i.name \in TakesTarget
      PROVE  MiscStack(i, f) = NONE
  <2>1. /\ i.name \notin {"push", "pop"} /\ i.name \notin DOMAIN Steps /\ i.name \notin DOMAIN ZeroBytes
        /\ i.name \notin DOMAIN ZeroDwords
    BY <1>2, TargetNames
  <2> QED
    BY <2>1, Zenon DEF MiscStack
<1> QED
  BY <1>1, <1>2

\* Exchanges, shifts, setcc, the unary group, imul, ports, esc, lar and lsl.
LEMMA MiscGroupsSettle ==
  ASSUME NEW i, NEW f
  PROVE  /\ AreOperands(i.args) /\ (i.name = "setcc" => Condition(i.cond) \in 0..15) => Answers(MiscGroups(i, f))
         /\ i.name \in TakesTarget => MiscGroups(i, f) = NONE
<1> DEFINE d == i.args[1]
           s == i.args[2]
           n == i.args[3]
<1>1. ASSUME AreOperands(i.args), i.name = "setcc" => Condition(i.cond) \in 0..15
      PROVE  Answers(MiscGroups(i, f))
  <2>1. /\ Len(i.args) = 1 => IsOperand(d)
        /\ Len(i.args) = 2 => IsOperand(d) /\ IsOperand(s)
        /\ Len(i.args) = 3 => IsOperand(d) /\ IsOperand(s) /\ IsOperand(n)
    BY <1>1 DEF AreOperands
  <2>2. MiscGroups(i, f)
          = CASE i.name = "xchg" -> IF Len(i.args) # 2 THEN FAIL ELSE EncodePrefixedXchg(d, s, f)
              [] i.name \in DOMAIN DoubleShifts ->
                   IF Len(i.args) # 3 THEN FAIL
                   ELSE EncodePrefixedDoubleShift(d, s, n, DoubleShifts[i.name][1], DoubleShifts[i.name][2], f)
              [] i.name \in DOMAIN Shifts ->
                   IF Len(i.args) # 2 THEN FAIL ELSE EncodePrefixedShiftGroup(d, s, Shifts[i.name], f)
              [] i.name = "setcc" -> EncodePrefixedSetcc(i, SetccOpcodeFromName(i.cond), f)
              [] i.name \in DOMAIN Unary ->
                   IF Len(i.args) # 1 THEN FAIL ELSE EncodePrefixedUnaryGroup(d, Unary[i.name], f)
              [] i.name = "not"  -> IF Len(i.args) # 1 THEN FAIL ELSE EncodePrefixedUnaryGroup(d, 2, f)
              [] i.name = "imul" -> EncodePrefixedImul(i.args, f)
              [] i.name = "in"   -> IF Len(i.args) # 2 THEN FAIL ELSE EncodeInPrefixedOperands(d, s, f)
              [] i.name = "out"  -> IF Len(i.args) # 2 THEN FAIL ELSE EncodeOutPrefixedOperands(d, s, f)
              [] i.name = "esc"  -> IF Len(i.args) # 2 THEN FAIL ELSE EncodePrefixedEsc(d, s, f)
              [] i.name = "lar"  -> IF Len(i.args) # 2 THEN FAIL ELSE EncodeLarOperands(d, s, f)
              [] i.name = "lsl"  -> IF Len(i.args) # 2 THEN FAIL ELSE EncodeLslOperands(d, s, f)
              [] OTHER -> NONE
    BY Zenon DEF MiscGroups, With1, With2, With3
  <2> HIDE DEF d, s, n
  <2>3. Len(i.args) = 2 => /\ Emits(EncodePrefixedXchg(d, s, f)) /\ Emits(EncodePrefixedEsc(d, s, f))
                           /\ Emits(EncodeInPrefixedOperands(d, s, f)) /\ Emits(EncodeOutPrefixedOperands(d, s, f))
    BY <2>1, PrefixedXchgEmits, EscEmits, InOutEmit
  <2>4. Len(i.args) = 3 => \A x, y \in AByte : Emits(EncodePrefixedDoubleShift(d, s, n, x, y, f))
    BY Ranges, <2>1, DoubleShiftsEmit
  <2>5. Len(i.args) = 2 => /\ \A x \in Int : Emits(EncodePrefixedShiftGroup(d, s, x, f))
                           /\ \A x \in AByte : Emits(SelectorLoad(d, s, x, f))
    BY <2>1, PrefixedShiftsEmit, SelectorLoadEmits
  <2>6. Len(i.args) = 2 => Emits(EncodeLarOperands(d, s, f)) /\ Emits(EncodeLslOperands(d, s, f))
    BY Ranges, <2>5 DEF EncodeLarOperands, EncodeLslOperands
  <2>7. i.name = "setcc" => Emits(EncodePrefixedSetcc(i, SetccOpcodeFromName(i.cond), f))
    <3>1. i.name = "setcc" => SetccOpcodeFromName(i.cond) \in AByte
      BY <1>1 DEF SetccOpcodeFromName, AByte
    <3>2. \A x \in AByte : Emits(EncodePrefixedSetcc(i, x, f))
      BY Ranges, <1>1, InterruptsAnswer
    <3> QED
      BY <3>1, <3>2
  <2>8. Len(i.args) = 1 => \A x \in Int : Emits(EncodePrefixedUnaryGroup(d, x, f))
    BY <2>1, UnaryEmits
  <2>9. Len(i.args) = 1 => Emits(EncodePrefixedUnaryGroup(d, 2, f))
    BY <2>8
  <2>10. Emits(EncodePrefixedImul(i.args, f))
    BY <1>1, ImulsEmit
  <2>11. /\ Len(i.args) = 3 /\ i.name \in DOMAIN DoubleShifts
              => Emits(EncodePrefixedDoubleShift(d, s, n, DoubleShifts[i.name][1], DoubleShifts[i.name][2], f))
         /\ Len(i.args) = 2 /\ i.name \in DOMAIN Shifts => Emits(EncodePrefixedShiftGroup(d, s, Shifts[i.name], f))
         /\ Len(i.args) = 1 /\ i.name \in DOMAIN Unary => Emits(EncodePrefixedUnaryGroup(d, Unary[i.name], f))
    BY <2>4, <2>5, <2>8, Tables
  <2> QED
    BY <2>2, <2>3, <2>6, <2>7, <2>9, <2>10, <2>11, Asking
<1>2. ASSUME i.name \in TakesTarget
      PROVE  MiscGroups(i, f) = NONE
  <2>1. /\ i.name \notin {"xchg", "setcc", "not", "imul", "in", "out", "esc", "lar", "lsl"}
        /\ i.name \notin DOMAIN DoubleShifts /\ i.name \notin DOMAIN Shifts /\ i.name \notin DOMAIN Unary
    BY <1>2, TargetNames
  <2> QED
    BY <2>1, Zenon DEF MiscGroups
<1> QED
  BY <1>1, <1>2

\* encode_misc_prefixed_instruction.
LEMMA MiscSettles ==
  ASSUME NEW i, IsInstruction(i), NEW f, NEW e, IsPlace(e)
  PROVE  Settles(EncodeMiscPrefixedInstruction(i, f, e), e, Extra(i))
<1> DEFINE x == Extra(i)
<1>1. ASSUME i.name \notin TakesTarget
      PROVE  /\ Settles(MiscStrings(i, f), e, x) /\ Settles(MiscControl(i, f, e), e, x)
             /\ Settles(MiscLoads(i, f), e, x) /\ Settles(MiscStack(i, f), e, x)
             /\ Settles(MiscGroups(i, f), e, x)
  <2>1. AreOperands(i.args) /\ (i.name = "setcc" => Condition(i.cond) \in 0..15)
    BY <1>1, Arguments
  <2>2. /\ Answers(MiscStrings(i, f)) /\ Answers(MiscControl(i, f, e)) /\ Answers(MiscLoads(i, f))
        /\ Answers(MiscStack(i, f)) /\ Answers(MiscGroups(i, f))
    BY <1>1, <2>1, MiscStringsSettle, ControlAnswers, MiscLoadsSettle, MiscStackSettles, MiscGroupsSettle
  <2>3. x = 0
    BY <1>1, PlainFits
  <2> HIDE DEF x
  <2> QED
    BY <2>2, <2>3, Settling
<1>2. ASSUME i.name \in TakesTarget
      PROVE  /\ Settles(MiscStrings(i, f), e, x) /\ Settles(MiscControl(i, f, e), e, x)
             /\ Settles(MiscLoads(i, f), e, x) /\ Settles(MiscStack(i, f), e, x)
             /\ Settles(MiscGroups(i, f), e, x)
  <2>1. Settles(MiscControl(i, f, e), e, x)
    BY <1>2, MiscControlSettles
  <2>2. /\ MiscStrings(i, f) = NONE /\ MiscLoads(i, f) = NONE /\ MiscStack(i, f) = NONE
        /\ MiscGroups(i, f) = NONE
    BY <1>2, MiscStringsSettle, MiscLoadsSettle, MiscStackSettles, MiscGroupsSettle
  <2> HIDE DEF x
  <2> QED
    BY <2>1, <2>2, Settling
<1> HIDE DEF x
<1>3. /\ Settles(MiscStrings(i, f), e, x) /\ Settles(MiscControl(i, f, e), e, x)
      /\ Settles(MiscLoads(i, f), e, x) /\ Settles(MiscStack(i, f), e, x)
      /\ Settles(MiscGroups(i, f), e, x)
  BY <1>1, <1>2
<1>4. Settles(OrElse(MiscLoads(i, f), OrElse(MiscStack(i, f), MiscGroups(i, f))), e, x)
  BY <1>3, Settling
<1>5. Settles(EncodeMiscPrefixedInstruction(i, f, e), e, x)
  BY <1>3, <1>4, Settling DEF EncodeMiscPrefixedInstruction
<1> QED
  BY <1>5 DEF x

\* What each list of prefixes has of its own.
LEMMA AdjustsSettle ==
  ASSUME NEW i, NEW f
  PROVE  /\ AreOperands(i.args) => Answers(Adjusts(i, f))
         /\ i.name \in TakesTarget => Adjusts(i, f) = NONE
<1> DEFINE byte == [aaa |-> \h37, aas |-> \h3F, cbw |-> \h98, cdq |-> \h99]
           op == f.o32 \/ i.name = "cdq"
<1>1. Adjusts(i, f)
        = CASE i.name \in DOMAIN byte -> EmitPrefixedZeroOpByte(i, byte[i.name], op, f.a32)
            [] i.name = "aad" -> EmitPrefixedAsciiImm(i, \hD5, f.o32, f.a32)
            [] i.name = "aam" -> EmitPrefixedAsciiImm(i, \hD4, f.o32, f.a32)
            [] OTHER -> EmitPrefixedCmps(i, f.o32, f.a32)
  BY DEF Adjusts
<1>2. i.name \in DOMAIN byte => byte[i.name] \in AByte
  BY DEF AByte
<1>3. i.name \in TakesTarget => i.name \notin DOMAIN byte /\ i.name \notin {"aad", "aam"}
  BY DEF TakesTarget, Loops
<1> HIDE DEF byte, op
<1>4. ASSUME AreOperands(i.args)
      PROVE  Answers(Adjusts(i, f))
  <2>1. \A x \in AByte : \A o, a32 : Emits(EmitPrefixedZeroOpByte(i, x, o, a32))
    BY Ranges, ZeroOpsEmit
  <2>2. i.name \in DOMAIN byte => Emits(EmitPrefixedZeroOpByte(i, byte[i.name], op, f.a32))
    BY <1>2, <2>1
  <2>3. \A x \in AByte : Emits(EmitPrefixedAsciiImm(i, x, f.o32, f.a32))
    BY <1>4, InterruptsAnswer
  <2>4. Emits(EmitPrefixedAsciiImm(i, \hD5, f.o32, f.a32)) /\ Emits(EmitPrefixedAsciiImm(i, \hD4, f.o32, f.a32))
    BY Ranges, <2>3
  <2>5. Answers(EmitPrefixedCmps(i, f.o32, f.a32))
    BY StringsAnswer
  <2> QED
    BY <1>1, <2>2, <2>4, <2>5, Asking
<1>5. ASSUME i.name \in TakesTarget
      PROVE  Adjusts(i, f) = NONE
  <2>1. EmitPrefixedCmps(i, f.o32, f.a32) = NONE
    BY <1>5, TargetStrings
  <2> QED
    BY <1>1, <1>3, <1>5, <2>1
<1> QED
  BY <1>4, <1>5

\* Behind two prefixes, what is forced settles.
LEMMA TwoForcedSettles ==
  ASSUME NEW i, NEW f
  PROVE  /\ AreOperands(i.args) => Answers(TwoForced(i, f)) /\ Answers(AddressTest(i, f))
         /\ i.name \in TakesTarget => TwoForced(i, f) = NONE /\ AddressTest(i, f) = NONE
<1> DEFINE d == i.args[1]
           s == i.args[2]
           x == BitTests[i.name][1]
           g == BitTests[i.name][2]
<1>1. TwoForced(i, f)
        = CASE i.name = "arpl"  -> IF Len(i.args) # 2 THEN FAIL ELSE EncodeArplOperands(d, s, f)
            [] i.name = "bound" -> IF Len(i.args) # 2 THEN FAIL ELSE EncodeBoundPrefixedOperands(d, s, f)
            [] i.name \in DOMAIN BitScans ->
                 IF Len(i.args) # 2 THEN FAIL ELSE EncodeBitScanPrefixedOperands(d, s, BitScans[i.name], f)
            [] i.name \in DOMAIN BitTests ->
                 IF Len(i.args) # 2 THEN FAIL ELSE EncodeBitTestPrefixedOperands(d, s, x, g, f)
            [] OTHER -> NONE
  BY DEF TwoForced, With2
<1>2. AddressTest(i, f)
        = IF i.name # "test" THEN NONE
          ELSE IF Len(i.args) # 2 THEN FAIL ELSE EncodeAddressPrefixedTest(d, s, f)
  BY DEF AddressTest, With2
<1>3. i.name \in DOMAIN BitTests => x \in AByte /\ g \in Int
  BY Tables
<1>4. ASSUME i.name \in TakesTarget
      PROVE  TwoForced(i, f) = NONE /\ AddressTest(i, f) = NONE
  <2>1. /\ i.name \notin {"arpl", "bound", "test"} /\ i.name \notin DOMAIN BitScans
        /\ i.name \notin DOMAIN BitTests
    BY <1>4, TargetNames
  <2> QED
    BY <1>1, <1>2, <2>1, Zenon
<1>5. ASSUME AreOperands(i.args)
      PROVE  Answers(TwoForced(i, f)) /\ Answers(AddressTest(i, f))
  <2>1. Len(i.args) = 2 => IsOperand(d) /\ IsOperand(s)
    BY <1>5 DEF AreOperands
  <2> HIDE DEF d, s, x, g
  <2>2. Len(i.args) = 2 => Emits(EncodeAddressPrefixedTest(d, s, f))
    BY <2>1, AddressTestEmits
  <2>3. Len(i.args) = 2 => \A y \in AByte : Emits(EncodeBoundPrefixedOperands(d, s, f))
    BY Ranges, <2>1, LoadsEmit
  <2>4. Len(i.args) = 2 => \A y \in AByte, z \in Int :
                             /\ Emits(EncodeArplOperands(d, s, f))
                             /\ Emits(EncodeBitTestPrefixedOperands(d, s, y, z, f))
    BY Ranges, <2>1, TestsEmit
  <2>5. Len(i.args) = 2 => \A y, z \in AByte : Emits(EncodeBitScanPrefixedOperands(d, s, y, f))
    BY Ranges, <2>1, ExtendsEmit
  <2>6. 0 \in AByte
    BY Ranges
  <2>7. Len(i.args) = 2 => /\ Emits(EncodeBoundPrefixedOperands(d, s, f)) /\ Emits(EncodeArplOperands(d, s, f))
                           /\ \A y \in AByte : Emits(EncodeBitScanPrefixedOperands(d, s, y, f))
    BY Ranges, <2>3, <2>4, <2>5, <2>6
  <2>8. Len(i.args) = 2 /\ i.name \in DOMAIN BitScans => Emits(EncodeBitScanPrefixedOperands(d, s, BitScans[i.name], f))
    BY <2>7, Tables
  <2>9. Len(i.args) = 2 /\ i.name \in DOMAIN BitTests => Emits(EncodeBitTestPrefixedOperands(d, s, x, g, f))
    BY <1>3, <2>4
  <2> QED
    BY <1>1, <1>2, <2>2, <2>7, <2>8, <2>9, Asking
<1> QED
  BY <1>4, <1>5

\* The group of add.
LEMMA ArithsSettle ==
  ASSUME NEW i, NEW f, NEW e
  PROVE  /\ AreOperands(i.args) => /\ Settles(A16Arith(i, f), e, 0) /\ Settles(A32Arith(i, f), e, 0)
                                   /\ Settles(ArithForced(i, EncodeO32Arith), e, 0)
         /\ i.name \notin DOMAIN Ariths => /\ A16Arith(i, f) = NONE /\ A32Arith(i, f) = NONE
<1> DEFINE d == i.args[1]
           s == i.args[2]
           base == Ariths[i.name][1]
           acc8 == Ariths[i.name][2]
           acc16 == Ariths[i.name][3]
           group == Ariths[i.name][4]
<1>1. /\ A16Arith(i, f) = IF i.name \notin DOMAIN Ariths THEN NONE
                          ELSE IF Len(i.args) # 2 THEN FAIL
                          ELSE EncodeA16Arith(d, s, base, acc8, acc16, group, f)
      /\ A32Arith(i, f) = IF i.name \notin DOMAIN Ariths THEN NONE
                          ELSE IF Len(i.args) # 2 THEN FAIL
                          ELSE EncodeA32Arith(d, s, base, acc8, acc16, group, f)
      /\ ArithForced(i, EncodeO32Arith) = IF i.name \notin DOMAIN Ariths THEN NONE
                          ELSE IF Len(i.args) # 2 THEN FAIL
                          ELSE EncodeO32Arith(d, s, base, acc8, acc16, group)
  BY DEF A16Arith, A32Arith, ArithForced, With2
<1>2. i.name \in DOMAIN Ariths => base \in Base /\ acc8 \in Opcode /\ acc16 \in Opcode /\ group \in Int
  BY Tables
<1>3. Fits(FAIL, e, 0)
  BY Fitting
<1>4. ASSUME AreOperands(i.args)
      PROVE  /\ Settles(A16Arith(i, f), e, 0) /\ Settles(A32Arith(i, f), e, 0)
             /\ Settles(ArithForced(i, EncodeO32Arith), e, 0)
  <2>1. Len(i.args) = 2 => IsOperand(d) /\ IsOperand(s)
    BY <1>4 DEF AreOperands
  <2> HIDE DEF d, s, base, acc8, acc16, group
  <2>2. Len(i.args) = 2 /\ i.name \in DOMAIN Ariths =>
          /\ Fits(EncodeA16Arith(d, s, base, acc8, acc16, group, f), e, 0)
          /\ Fits(EncodeA32Arith(d, s, base, acc8, acc16, group, f), e, 0)
    BY Ranges, <1>2, <2>1, AddressArithFits
  <2>3. Len(i.args) = 2 /\ i.name \in DOMAIN Ariths => Emits(EncodeO32Arith(d, s, base, acc8, acc16, group))
    BY Ranges, <1>2, <2>1, O32CopiesEmit
  <2>4. Len(i.args) = 2 /\ i.name \in DOMAIN Ariths => Fits(EncodeO32Arith(d, s, base, acc8, acc16, group), e, 0)
    BY <2>3, EmittedFits
  <2> QED
    BY <1>1, <1>3, <2>2, <2>4 DEF Settles
<1> QED
  BY <1>1, <1>4

\* call behind o32.
LEMMA O32CallSettles ==
  ASSUME NEW i, IsInstruction(i), i.name = "call", NEW e, IsPlace(e)
  PROVE  Settles(IF Len(i.args) # 1 THEN FAIL ELSE EncodeO32Call(i.args[1], e), e, Extra(i))
<1> DEFINE t == i.args[1]
           x == Extra(i)
<1>1. x = FarExtra(t)
  BY DEF Extra
<1>2. Len(i.args) = 1 => IsJumpTarget(t)
  BY Arguments DEF TakesTarget
<1> SUFFICES Settles(IF Len(i.args) # 1 THEN FAIL ELSE EncodeO32Call(t, e), e, x)
  OBVIOUS
<1> HIDE DEF t, x
<1>3. Fits(FAIL, e, x)
  BY Fitting
<1>4. ASSUME Len(i.args) = 1
      PROVE  Fits(EncodeO32Call(t, e), e, x)
  <2>1. CASE x = 0
    <3>1. \A y, z \in AByte : Fits(EncodeO32Call(t, e), e, 0)
      BY Ranges, <1>2, <1>4, O32JumpsFit
    <3>2. 0 \in AByte
      BY Ranges
    <3> QED
      BY <2>1, <3>1, <3>2
  <2>2. CASE t.o.kind = "FAR"
    <3>1. EncodeO32Call(t, e) = FAIL
      BY <2>2 DEF EncodeO32Call, Scalar
    <3> QED
      BY <1>3, <3>1
  <2> QED
    BY <1>1, <2>1, <2>2 DEF FarExtra
<1> QED
  BY <1>3, <1>4 DEF Settles

\* The lists of their own of an address prefix, and of o32 and an address prefix.
LEMMA AddressListsSettle ==
  ASSUME NEW i, IsInstruction(i), NEW e
  PROVE  /\ Settles(A16Only(i), e, Extra(i)) /\ Settles(A32Only(i), e, Extra(i))
         /\ Settles(A16ThenO32(i), e, Extra(i)) /\ Settles(O32ThenA16(i), e, Extra(i))
         /\ Settles(A32ThenO32(i), e, Extra(i)) /\ Settles(O32ThenA32(i), e, Extra(i))
<1> DEFINE x == Extra(i)
           a16 == ForcePrefixes(FALSE, FALSE, TRUE, FALSE)
           a32 == ForcePrefixes(FALSE, FALSE, FALSE, TRUE)
           o32a16 == ForcePrefixes(TRUE, FALSE, TRUE, FALSE)
           o32a32 == ForcePrefixes(TRUE, FALSE, FALSE, TRUE)
<1>1. ASSUME NEW f
      PROVE  /\ Settles(Adjusts(i, f), e, x) /\ Settles(TwoForced(i, f), e, x) /\ Settles(AddressTest(i, f), e, x)
             /\ Settles(A16Arith(i, f), e, x) /\ Settles(A32Arith(i, f), e, x)
  <2>1. CASE i.name \notin TakesTarget
    <3>1. AreOperands(i.args) /\ x = 0
      BY <2>1, Arguments DEF Extra, TakesTarget
    <3> HIDE DEF x
    <3>2. Answers(Adjusts(i, f)) /\ Answers(TwoForced(i, f)) /\ Answers(AddressTest(i, f))
      BY <3>1, AdjustsSettle, TwoForcedSettles
    <3>3. Settles(A16Arith(i, f), e, x) /\ Settles(A32Arith(i, f), e, x)
      BY <3>1, ArithsSettle
    <3> QED
      BY <3>1, <3>2, <3>3, Settling
  <2>2. CASE i.name \in TakesTarget
    <3>1. i.name \notin DOMAIN Ariths
      BY <2>2, TargetNames
    <3>2. /\ Adjusts(i, f) = NONE /\ TwoForced(i, f) = NONE /\ AddressTest(i, f) = NONE
          /\ A16Arith(i, f) = NONE /\ A32Arith(i, f) = NONE
      BY <2>2, <3>1, AdjustsSettle, TwoForcedSettles, ArithsSettle
    <3> HIDE DEF x
    <3> QED
      BY <3>2, Settling
  <2> QED
    BY <2>1, <2>2
<1>2. /\ A16Only(i) = OrElse(Adjusts(i, a16), OrElse(A16Arith(i, a16), OrElse(AddressTest(i, a16), TwoForced(i, a16))))
      /\ A32Only(i) = OrElse(Adjusts(i, a32), OrElse(A32Arith(i, a32), OrElse(AddressTest(i, a32), TwoForced(i, a32))))
  BY DEF A16Only, A32Only
<1>3. /\ A16ThenO32(i) = OrElse(Adjusts(i, o32a16), OrElse(A16Arith(i, o32a16), TwoForced(i, o32a16)))
      /\ O32ThenA16(i) = OrElse(Adjusts(i, o32a16), OrElse(A16Arith(i, o32a16), TwoForced(i, o32a16)))
  BY DEF A16ThenO32, O32ThenA16
<1>4. /\ A32ThenO32(i) = OrElse(Adjusts(i, o32a32), OrElse(A32Arith(i, o32a32), TwoForced(i, o32a32)))
      /\ O32ThenA32(i) = OrElse(Adjusts(i, o32a32), OrElse(A32Arith(i, o32a32), TwoForced(i, o32a32)))
  BY DEF A32ThenO32, O32ThenA32
<1> HIDE DEF x, a16, a32, o32a16, o32a32
<1>5. \A f : /\ Settles(OrElse(A16Arith(i, f), TwoForced(i, f)), e, x)
             /\ Settles(OrElse(A32Arith(i, f), TwoForced(i, f)), e, x)
             /\ Settles(OrElse(AddressTest(i, f), TwoForced(i, f)), e, x)
  BY <1>1, Settling
<1>6. \A f : /\ Settles(OrElse(A16Arith(i, f), OrElse(AddressTest(i, f), TwoForced(i, f))), e, x)
             /\ Settles(OrElse(A32Arith(i, f), OrElse(AddressTest(i, f), TwoForced(i, f))), e, x)
  BY <1>1, <1>5, Settling
<1>7. /\ Settles(A16Only(i), e, x) /\ Settles(A32Only(i), e, x)
      /\ Settles(A16ThenO32(i), e, x) /\ Settles(O32ThenA16(i), e, x)
      /\ Settles(A32ThenO32(i), e, x) /\ Settles(O32ThenA32(i), e, x)
  BY <1>1, <1>2, <1>3, <1>4, <1>5, <1>6, Settling
<1> QED
  BY <1>7 DEF x

\* The list of o32 alone, and that of three prefixes.
LEMMA O32ListsSettle ==
  ASSUME NEW i, IsInstruction(i), NEW e, IsPlace(e)
  PROVE  Settles(O32Only(i, e), e, Extra(i)) /\ Settles(O32A16O16(i), e, Extra(i))
<1> DEFINE x == Extra(i)
           o32 == ForcePrefixes(TRUE, FALSE, FALSE, FALSE)
           a16 == ForcePrefixes(FALSE, FALSE, TRUE, FALSE)
           no == FALSE
           yes == TRUE
           arith == ArithForced(i, EncodeO32Arith)
           mov == With2(i.args, EncodeO32Mov)
           test == With2(i.args, EncodeO32Test)
           call == With1(i.args, LAMBDA t : EncodeO32Call(t, e))
           dec == With1(i.args, LAMBDA d : EncodePrefixedIncDec(d, 1, \h48, a16))
           own == CASE i.name \in DOMAIN Ariths -> arith
                    [] i.name = "mov"  -> mov
                    [] i.name = "test" -> test
                    [] i.name = "call" -> call
                    [] OTHER -> TwoForced(i, o32)
<1>1. O32Only(i, e) = OrElse(Adjusts(i, o32), own)
  BY DEF O32Only
<1>2. O32A16O16(i) = OrElse(EmitPrefixedConvert(i, no, no, yes),
                     OrElse(EmitPrefixedDecimalAdjust(i, no, no), IF i.name # "dec" THEN NONE ELSE dec))
  BY DEF O32A16O16
<1>3. ASSUME i.name \notin TakesTarget
      PROVE  /\ Settles(Adjusts(i, o32), e, x) /\ Settles(own, e, x) /\ Settles(EmitPrefixedConvert(i, no, no, yes), e, x)
             /\ Settles(EmitPrefixedDecimalAdjust(i, no, no), e, x) /\ Settles(dec, e, x)
  <2>1. AreOperands(i.args) /\ x = 0 /\ i.name # "call"
    BY <1>3, Arguments DEF Extra, TakesTarget
  <2>2. /\ Len(i.args) = 1 => IsOperand(i.args[1])
        /\ Len(i.args) = 2 => IsOperand(i.args[1]) /\ IsOperand(i.args[2])
    BY <2>1 DEF AreOperands
  <2>3. Emits(mov) /\ Emits(test)
    <3>1. Len(i.args) = 2 => Emits(EncodeO32Mov(i.args[1], i.args[2])) /\ Emits(EncodeO32Test(i.args[1], i.args[2]))
      BY <2>2, O32CopiesEmit
    <3> QED
      BY <3>1, Counting, Ranges DEF With2
  <2>4. Emits(dec)
    <3> HIDE DEF a16
    <3>1. Len(i.args) = 1 => \A g \in Int, b \in Base : Emits(EncodePrefixedIncDec(i.args[1], g, b, a16))
      BY Ranges, <2>2, IncDecEmits
    <3>2. Len(i.args) = 1 => Emits(EncodePrefixedIncDec(i.args[1], 1, \h48, a16))
      BY Ranges, <3>1
    <3> QED
      BY <3>2, Counting, Ranges DEF With1
  <2> HIDE DEF x, o32, no, yes, mov, test, call, dec
  <2>5. Settles(arith, e, x)
    BY <2>1, ArithsSettle
  <2> HIDE DEF arith
  <2>6. /\ Answers(Adjusts(i, o32)) /\ Answers(TwoForced(i, o32)) /\ Answers(EmitPrefixedConvert(i, no, no, yes))
        /\ Answers(EmitPrefixedDecimalAdjust(i, no, no)) /\ Answers(mov) /\ Answers(test) /\ Answers(dec)
    BY <2>1, <2>3, <2>4, AdjustsSettle, TwoForcedSettles, NamesAnswer, Asking
  <2>7. /\ Settles(Adjusts(i, o32), e, x) /\ Settles(TwoForced(i, o32), e, x)
        /\ Settles(EmitPrefixedConvert(i, no, no, yes), e, x)
        /\ Settles(EmitPrefixedDecimalAdjust(i, no, no), e, x)
        /\ Settles(mov, e, x) /\ Settles(test, e, x) /\ Settles(dec, e, x)
    BY <2>1, <2>6, Settling
  <2>8. Settles(own, e, x)
    BY <2>1, <2>5, <2>7
  <2> QED
    BY <2>7, <2>8
<1>4. ASSUME i.name \in TakesTarget
      PROVE  /\ Settles(Adjusts(i, o32), e, x) /\ Settles(own, e, x) /\ Settles(EmitPrefixedConvert(i, no, no, yes), e, x)
             /\ Settles(EmitPrefixedDecimalAdjust(i, no, no), e, x) /\ i.name # "dec"
  <2>1. i.name = "call" => Settles(call, e, x)
    <3>1. call = IF Len(i.args) # 1 THEN FAIL ELSE EncodeO32Call(i.args[1], e)
      BY DEF With1
    <3>2. i.name = "call" => Settles(IF Len(i.args) # 1 THEN FAIL ELSE EncodeO32Call(i.args[1], e), e, x)
      BY O32CallSettles
    <3> HIDE DEF call, x
    <3> QED
      BY <3>1, <3>2
  <2> HIDE DEF x, o32, no, yes, mov, test, call, dec, arith
  <2>2. /\ Adjusts(i, o32) = NONE /\ TwoForced(i, o32) = NONE /\ EmitPrefixedConvert(i, no, no, yes) = NONE
        /\ EmitPrefixedDecimalAdjust(i, no, no) = NONE
    <3>1. EmitPrefixedConvert(i, no, no, yes) = NONE /\ EmitPrefixedDecimalAdjust(i, no, no) = NONE
      BY <1>4, TargetStrings
    <3>2. Adjusts(i, o32) = NONE /\ TwoForced(i, o32) = NONE
      BY <1>4, AdjustsSettle, TwoForcedSettles
    <3> QED
      BY <3>1, <3>2
  <2>3. i.name \notin DOMAIN Ariths /\ i.name \notin {"mov", "test"}
    BY <1>4, TargetNames
  <2>4. i.name # "dec"
    BY <1>4 DEF TakesTarget, Loops
  <2>5. Settles(own, e, x)
    BY <2>1, <2>2, <2>3, Settling
  <2> QED
    BY <2>2, <2>4, <2>5, Settling
<1> HIDE DEF x, o32, no, yes, own, dec
<1>5. Settles(O32Only(i, e), e, x)
  BY <1>1, <1>3, <1>4, Settling
<1>6. Settles(IF i.name # "dec" THEN NONE ELSE dec, e, x)
  BY <1>3, <1>4, Settling
<1>7. Settles(OrElse(EmitPrefixedDecimalAdjust(i, no, no), IF i.name # "dec" THEN NONE ELSE dec), e, x)
  BY <1>3, <1>4, <1>6, Settling
<1>8. Settles(O32A16O16(i), e, x)
  BY <1>2, <1>3, <1>4, <1>7, Settling
<1> QED
  BY <1>5, <1>8 DEF x

\* How many bytes more is none or one.
LEMMA ExtraIsInt ==
  ASSUME NEW i
  PROVE  Extra(i) \in Int
  BY DEF Extra, FarExtra

\* Behind the first of the prefixes.
LEMMA FirstPrefixSettles ==
  ASSUME NEW prefix \in SizePrefixes, NEW rest, rest \in Follow[prefix], NEW i, IsInstruction(i), NEW e, IsPlace(e)
  PROVE  Settles(EncodeFirstPrefix(prefix, rest, i, e), e, Extra(i))
<1> DEFINE x == Extra(i)
           plain == IF EncodeO16Prefix(rest, i) THEN EncodePlain(i, e) ELSE NONE
           o32 == EncodeO32Prefix(rest, i, e)
           a16 == EncodeA16Prefix(rest, i)
           a32 == EncodeA32Prefix(rest, i)
<1>1. EncodeFirstPrefix(prefix, rest, i, e)
        = CASE prefix = "o16" -> plain [] prefix = "o32" -> o32 [] prefix = "a16" -> a16 [] prefix = "a32" -> a32
  BY DEF EncodeFirstPrefix
<1>2. /\ Settles(A16Only(i), e, x) /\ Settles(A32Only(i), e, x)
      /\ Settles(A16ThenO32(i), e, x) /\ Settles(O32ThenA16(i), e, x)
      /\ Settles(A32ThenO32(i), e, x) /\ Settles(O32ThenA32(i), e, x)
      /\ Settles(O32Only(i, e), e, x)
  BY AddressListsSettle, O32ListsSettle
<1>3. Fits(EncodePlain(i, e), e, x)
  BY PlainFits
<1>4. prefix = "o16" => Settles(plain, e, x)
  BY <1>3 DEF Settles
<1>5. /\ prefix = "o32" => rest \in FollowO32
      /\ prefix = "a16" => rest \in FollowA16
      /\ prefix = "a32" => rest \in FollowA32
  BY DEF Follow
<1> HIDE DEF x
<1>6. Settles(NONE, e, x)
  BY Settling
<1>7. prefix = "o32" => Settles(o32, e, x)
  <2>1. /\ <<>> # <<"a32">> /\ <<>> # <<"a16">> /\ <<"a32">> # <<"a16">>
    OBVIOUS
  <2> QED
    BY <1>2, <1>5, <2>1, Zenon DEF FollowO32, EncodeO32Prefix
<1>8. /\ prefix = "a16" => Settles(a16, e, x)
      /\ prefix = "a32" => Settles(a32, e, x)
  <2>1. /\ <<>> # <<"o16">> /\ <<>> # <<"o32">> /\ <<"o16">> # <<"o32">>
    OBVIOUS
  <2> QED
    BY <1>2, <1>5, <1>6, <2>1, Zenon DEF FollowA16, FollowA32, EncodeA16Prefix, EncodeA32Prefix
<1> HIDE DEF plain, o32, a16, a32
<1>9. Settles(EncodeFirstPrefix(prefix, rest, i, e), e, x)
  BY <1>1, <1>4, <1>7, <1>8 DEF SizePrefixes
<1> QED
  BY <1>9 DEF x

\* Behind what neither locks nor repeats.
LEMMA SizedFits ==
  ASSUME NEW prefixes, prefixes = <<>> \/ Head(prefixes) \in SizePrefixes,
         NEW i, IsInstruction(i), NEW e, IsPlace(e)
  PROVE  Fits(EncodeSized(prefixes, i, e), e, Extra(i))
<1> DEFINE x == Extra(i)
           three == OrElse(O32A16O16(i), FAIL)
           misc == EncodeMiscPrefixedInstruction(i, Forces(prefixes), e)
           sized == EncodeFirstPrefix(Head(prefixes), Tail(prefixes), i, e)
           other == OrElse(misc, OrElse(sized, FAIL))
<1>1. EncodeSized(prefixes, i, e)
        = CASE prefixes = <<>> -> EncodePlain(i, e)
            [] prefixes = <<"o32", "a16", "o16">> -> three
            [] prefixes # <<>> /\ Tail(prefixes) \in Follow[Head(prefixes)] -> other
            [] OTHER -> FAIL
  BY DEF EncodeSized
<1>2. Fits(EncodePlain(i, e), e, x) /\ Fits(FAIL, e, x)
  BY PlainFits, Fitting
<1>3. Fits(three, e, x)
  <2>1. Settles(O32A16O16(i), e, x)
    BY O32ListsSettle
  <2> HIDE DEF x
  <2> QED
    BY <2>1, Settling
<1>4. prefixes # <<>> /\ Tail(prefixes) \in Follow[Head(prefixes)] => Fits(other, e, x)
  <2>1. Settles(misc, e, x)
    <3> DEFINE f == Forces(prefixes)
    <3>1. misc = EncodeMiscPrefixedInstruction(i, f, e)
      OBVIOUS
    <3> HIDE DEF f, misc
    <3> QED
      BY <3>1, MiscSettles
  <2>2. prefixes # <<>> /\ Tail(prefixes) \in Follow[Head(prefixes)] => Settles(sized, e, x)
    BY FirstPrefixSettles
  <2> HIDE DEF x, misc, sized
  <2>3. Settles(sized, e, x) => Settles(OrElse(sized, FAIL), e, x)
    BY Settling DEF Settles
  <2>4. Settles(sized, e, x) => Fits(OrElse(misc, OrElse(sized, FAIL)), e, x)
    <3>1. Settles(sized, e, x) => Fits(OrElse(sized, FAIL), e, x)
      BY Settling
    <3> QED
      BY <2>1, <3>1, Zenon DEF Settles, OrElse
  <2> QED
    BY <2>2, <2>4
<1> HIDE DEF x, three, other
<1>5. Fits(EncodeSized(prefixes, i, e), e, x)
  BY <1>1, <1>2, <1>3, <1>4
<1> QED
  BY <1>5 DEF x

\* _86_exec.
LEMMA ExecFits ==
  ASSUME NEW prefixes, prefixes \in Seq(SizePrefixes \cup {"lock"} \cup DOMAIN Repeats),
         NEW i, IsInstruction(i), NEW e, IsPlace(e)
  PROVE  Fits(Exec(prefixes, i, e), e, Extra(i))
<1> DEFINE x == Extra(i)
           head == IF prefixes = <<>> THEN "none" ELSE Head(prefixes)
           guard == IF head = "lock" THEN <<\hF0>>
                    ELSE IF head \in DOMAIN Repeats THEN <<Repeats[head]>> ELSE <<>>
           rest == IF guard = <<>> THEN prefixes ELSE Tail(prefixes)
           refused == \/ head = "lock" /\ ~EncodeLockPrefix(rest, i)
                      \/ head \in DOMAIN Repeats /\ ~EncodeRepeatPrefix(head, rest, i)
           out == EncodeSized(rest, i, e)
<1>1. Exec(prefixes, i, e) = IF refused THEN FAIL ELSE Behind(guard, out)
  BY DEF Exec
<1>2. Counts(guard, Len(guard))
  <2>1. \hF0 \in AByte
    BY Ranges
  <2>2. \A name \in DOMAIN Repeats : Repeats[name] \in {\hF2, \hF3}
    BY DEF Repeats
  <2>3. \A n \in {\hF2, \hF3} : n \in AByte
    BY Ranges
  <2>4. guard \in Bytes
    BY <2>1, <2>2, <2>3, Few
  <2> HIDE DEF guard
  <2> QED
    BY <2>4, Few DEF Counts, Bytes
<1>3. ASSUME ~refused
      PROVE  Fits(out, e, x)
  <2>1. rest = <<>> \/ Head(rest) \in SizePrefixes
    <3>1. CASE head = "lock"
      <4>1. rest = <<>>
        BY <1>3, <3>1 DEF EncodeLockPrefix
      <4> QED
        BY <4>1
    <3>2. CASE head \in DOMAIN Repeats /\ head # "lock"
      <4>1. \A n \in DOMAIN rest : rest[n] \in SizePrefixes
        BY <1>3, <3>2, Zenon DEF EncodeRepeatPrefix, RepeatTargetAllowed
      <4>2. prefixes # <<>>
        BY <3>2 DEF Repeats
      <4>3. rest \in Seq(SizePrefixes \cup {"lock"} \cup DOMAIN Repeats)
        BY <4>2
      <4> HIDE DEF rest
      <4>4. rest # <<>> => 1 \in DOMAIN rest /\ Head(rest) = rest[1]
        BY <4>3
      <4> QED
        BY <4>1, <4>4
    <3>3. CASE head \notin DOMAIN Repeats /\ head # "lock"
      <4>1. rest = prefixes
        BY <3>3
      <4>2. prefixes # <<>> => Head(prefixes) \in SizePrefixes \cup {"lock"} \cup DOMAIN Repeats
        OBVIOUS
      <4> QED
        BY <3>3, <4>1, <4>2
    <3> QED
      BY <3>1, <3>2, <3>3
  <2> HIDE DEF rest
  <2> QED
    BY <2>1, SizedFits
<1>4. x \in Int /\ Fits(FAIL, e, x)
  BY ExtraIsInt, Fitting
<1> HIDE DEF x, guard, out, refused
<1>5. ~refused => Fits(Behind(guard, out), e, x)
  BY <1>2, <1>3, <1>4, FitsBehind
<1>6. Fits(Exec(prefixes, i, e), e, x)
  BY <1>1, <1>4, <1>5
<1> QED
  BY <1>6 DEF x

----------------------------------------------------------------------------
(* The two passes                                                          *)

\* A label's address in place of what names it leaves an instruction one.
LEMMA WithLabelIsInstruction ==
  ASSUME NEW i, IsInstruction(i), NEW value \in Int
  PROVE  IsInstruction(WithLabel(i, value)) /\ WithLabel(i, value).name = i.name
<1> DEFINE args == [n \in DOMAIN i.args |-> Bind(i.args[n], value)]
           w == [i EXCEPT !.args = args]
<1>1. ASSUME NEW o, IsOperand(o)
      PROVE  /\ IsOperand(Bound1(o, value)) /\ "o" \notin DOMAIN o
             /\ Bound1(o, value).kind = o.kind /\ Bound1(o, value).unresolved = o.unresolved
  BY <1>1 DEF IsOperand, Operand, Bound1
<1>2. ASSUME NEW o, IsOperand(o)
      PROVE  /\ IsOperand(Bind(o, value))
             /\ Bind(o, value).kind = o.kind /\ Bind(o, value).unresolved = o.unresolved
  BY <1>1, <1>2 DEF Bind
<1>3. ASSUME NEW t, IsJumpTarget(t)
      PROVE  IsJumpTarget(Bind(t, value))
  <2>1. "o" \in DOMAIN t /\ IsOperand(Bound1(t.o, value))
    BY <1>1, <1>3 DEF IsJumpTarget, Target
  <2>2. Bind(t, value) = [t EXCEPT !.o = Bound1(t.o, value)]
    BY <2>1 DEF Bind
  <2>3. Bound1(t.o, value) \in Operand
    BY <2>1 DEF IsOperand
  <2>4. Bind(t, value) \in Target /\ Bind(t, value).o = Bound1(t.o, value)
    BY <1>3, <2>2, <2>3 DEF IsJumpTarget, Target
  <2>5. Bound1(t.o, value).unresolved => Bound1(t.o, value).kind \in {"IMM", "FAR"}
    BY <1>1, <1>3, <2>1 DEF IsJumpTarget
  <2> QED
    BY <2>1, <2>4, <2>5 DEF IsJumpTarget
<1>4. WithLabel(i, value) = w
  BY DEF WithLabel
<1>5. /\ \A n \in DOMAIN i.args :
           IF i.name \in TakesTarget THEN IsJumpTarget(args[n])
           ELSE IsOperand(args[n]) /\ (args[n].unresolved => args[n].kind = "IMM")
      /\ DOMAIN args = DOMAIN i.args
  BY <1>2, <1>3 DEF IsInstruction
<1>6. args \in Seq(Target \cup Operand)
  <2>1. \A n \in DOMAIN i.args : args[n] \in Target \cup Operand
    BY <1>5 DEF IsJumpTarget, IsOperand
  <2>2. PICK k \in Nat : DOMAIN i.args = 1..k
    BY DEF IsInstruction
  <2> QED
    BY <2>1, <2>2

<1>7. w \in [name : STRING, cond : STRING, args : Seq(Target \cup Operand)] /\ w.args = args
      /\ w.name = i.name /\ w.cond = i.cond
  <2> HIDE DEF args
  <2> QED
    BY <1>6 DEF IsInstruction
<1> HIDE DEF args, w
<1>8. IsInstruction(w)
  BY <1>5, <1>7 DEF IsInstruction
<1> QED
  BY <1>4, <1>7, <1>8

\* Where the statement stands in each pass.
InPass1 == [addr |-> addr, last |-> FALSE, cached |-> 0]
InPass2 == [addr |-> addr, last |-> TRUE, cached |-> Remembered(stmt, first)]

\* What is known of the answers of the two passes: each is that of _86_exec, asked for
\* the statement with what the pass knows of the label.
Answered ==
  /\ IsStatement(stmt) /\ addr \in Int /\ gap \in Int /\ first.size \in Int
  /\ pass \in {"last", "done"} => first = Exec(stmt.prefixes, WithLabel(stmt.i, 0), InPass1) /\ ~(first.size < 0)
  /\ Done => last = Exec(stmt.prefixes, Inst, InPass2) /\ ~(last.size < 0)

LEMMA AnsweredInvariant ==
  /\ Init => Answered
  /\ Answered /\ [Next]_vars => Answered'
<1>1. ASSUME Init
      PROVE  Answered
  <2>1. IsStatement(stmt) /\ addr \in Int /\ gap \in Int
    BY <1>1, StatementsAssumption, 0 \in Int DEF Init
  <2>2. first.size \in Int /\ pass = "first"
    BY <1>1 DEF Init, NONE, Out
  <2> QED
    BY <2>1, <2>2 DEF Answered, Done
<1>2. ASSUME Answered, [Next]_vars
      PROVE  Answered'
  <2>1. /\ stmt.prefixes \in Seq(SizePrefixes \cup {"lock"} \cup DOMAIN Repeats) /\ IsInstruction(stmt.i)
        /\ addr \in Int /\ gap \in Int /\ first.size \in Int /\ IsStatement(stmt)
    BY <1>2 DEF Answered, IsStatement
  <2>2. CASE FirstPass
    <3> DEFINE i == WithLabel(stmt.i, 0)
    <3>1. IsInstruction(i) /\ IsPlace(InPass1)
      BY <2>1, 0 \in Int, WithLabelIsInstruction DEF IsPlace, InPass1
    <3>2. /\ first' = Exec(stmt.prefixes, i, InPass1) /\ UNCHANGED <<stmt, addr, gap>> /\ pass' # "done"
          /\ pass' = "last" => ~(first'.size < 0)
      BY <2>2 DEF FirstPass, InPass1
    <3>3. InPass1' = InPass1 /\ WithLabel(stmt.i, 0)' = i
      BY <3>2 DEF InPass1
    <3> HIDE DEF i
    <3>4. first'.size \in Int
      BY <2>1, <3>1, <3>2, ExecFits DEF Fits
    <3>5. IsStatement(stmt)'
      BY <2>1, <3>2
    <3>6. pass' \in {"last", "done"}
            => first' = Exec(stmt'.prefixes, WithLabel(stmt.i, 0)', InPass1') /\ ~(first'.size < 0)
      BY <3>2, <3>3
    <3> QED
      BY <2>1, <3>2, <3>4, <3>5, <3>6 DEF Answered, Done
  <2>3. CASE LastPass
    <3>1. /\ last' = Exec(stmt.prefixes, Inst, InPass2) /\ UNCHANGED <<stmt, addr, gap, first>> /\ pass = "last"
          /\ pass' = "done" => ~(last'.size < 0)
      BY <2>3 DEF LastPass, Inst, InPass2
    <3>2. InPass1' = InPass1 /\ InPass2' = InPass2 /\ Inst' = Inst
      BY <3>1 DEF InPass1, InPass2, Inst, Label
    <3>3. first = Exec(stmt.prefixes, WithLabel(stmt.i, 0), InPass1) /\ ~(first.size < 0)
      BY <1>2, <3>1 DEF Answered
    <3>4. IsStatement(stmt)' /\ (first.size \in Int)'
      BY <2>1, <3>1
    <3>5. first' = Exec(stmt'.prefixes, WithLabel(stmt.i, 0)', InPass1') /\ ~(first'.size < 0)
      BY <3>1, <3>2, <3>3
    <3>6. pass' = "done" => last' = Exec(stmt'.prefixes, Inst', InPass2') /\ ~(last'.size < 0)
      BY <3>1, <3>2
    <3> QED
      BY <2>1, <3>1, <3>4, <3>5, <3>6 DEF Answered, Done
  <2>4. CASE UNCHANGED vars
    BY <1>2, <2>4 DEF vars, Answered, Done, Inst, Label, InPass1, InPass2
  <2> QED
    BY <1>2, <2>2, <2>3, <2>4 DEF Next
<1> QED
  BY <1>1, <1>2

\* Each pass has a size and bytes for an answer, also when it has refused the statement.
Typed ==
  /\ pass \in {"first", "last", "done", "failed"}
  /\ first.size \in Int /\ first.bytes \in Bytes
  /\ last.size \in Int /\ last.bytes \in Bytes

LEMMA TypedInvariant ==
  /\ Init => Typed
  /\ Answered /\ Typed /\ [Next]_vars => Typed'
<1>1. Init => Typed
  BY Few DEF Init, NONE, Out, Typed
<1>2. ASSUME Answered, Typed, [Next]_vars
      PROVE  Typed'
  <2>1. /\ stmt.prefixes \in Seq(SizePrefixes \cup {"lock"} \cup DOMAIN Repeats) /\ IsInstruction(stmt.i)
        /\ addr \in Int /\ gap \in Int /\ first.size \in Int
    BY <1>2 DEF Answered, IsStatement
  <2>2. CASE FirstPass
    <3> DEFINE i == WithLabel(stmt.i, 0)
    <3>1. IsInstruction(i) /\ IsPlace(InPass1)
      BY <2>1, 0 \in Int, WithLabelIsInstruction DEF IsPlace, InPass1
    <3>2. /\ first' = Exec(stmt.prefixes, i, InPass1) /\ last' = last /\ pass' \in {"last", "failed"}
      BY <2>2 DEF FirstPass, InPass1
    <3> HIDE DEF i
    <3>3. first'.size \in Int /\ first'.bytes \in Bytes
      BY <2>1, <3>1, <3>2, ExecFits DEF Fits
    <3> QED
      BY <1>2, <3>2, <3>3 DEF Typed
  <2>3. CASE LastPass
    <3>1. IsInstruction(Inst) /\ IsPlace(InPass2)
      <4>1. Label \in Int
        BY <2>1 DEF Label
      <4> QED
        BY <2>1, <4>1, WithLabelIsInstruction DEF Inst, IsPlace, InPass2
    <3>2. last' = Exec(stmt.prefixes, Inst, InPass2) /\ first' = first /\ pass' \in {"done", "failed"}
      BY <2>3 DEF LastPass, Inst, InPass2
    <3>3. last'.size \in Int /\ last'.bytes \in Bytes
      BY <2>1, <3>1, <3>2, ExecFits DEF Fits
    <3> QED
      BY <1>2, <3>2, <3>3 DEF Typed
  <2>4. CASE UNCHANGED vars
    BY <1>2, <2>4 DEF vars, Typed
  <2> QED
    BY <1>2, <2>2, <2>3, <2>4 DEF Next
<1> QED
  BY <1>1, <1>2

\* Type correctness: whatever the statement, the addresses and the label, the pass is one
\* of four and what is written are bytes: no opcode leaves its byte where the width, the
\* number of a register, of a condition or of a segment is added to it, nor a ModRM or SIB
\* byte where its fields are added up.
THEOREM TypeCorrect == Spec => []TypeOK
<1>1. \A s \in Bytes : DOMAIN s = 1..Len(s) /\ \A n \in DOMAIN s : s[n] \in 0..255
  <2>1. \A s \in Bytes : DOMAIN s = 1..Len(s) /\ \A n \in DOMAIN s : s[n] \in AByte
    BY DEF Bytes
  <2> QED
    BY <2>1 DEF AByte
<1>2. Typed => TypeOK
  BY <1>1 DEF Typed, TypeOK
<1> QED
  BY <1>2, AnsweredInvariant, TypedInvariant, PTL DEF Spec

\* The size an encoder returns is the number of bytes it writes, for every statement,
\* at every address and with the label anywhere.
THEOREM EncodedIsCounted == Spec => []SizeIsEmitted
<1>1. Answered => SizeIsEmitted
  <2> SUFFICES ASSUME Answered, Done
               PROVE  Len(last.bytes) = last.size + (IF FarDword THEN 1 ELSE 0)
    BY DEF SizeIsEmitted
  <2>1. /\ stmt.prefixes \in Seq(SizePrefixes \cup {"lock"} \cup DOMAIN Repeats) /\ IsInstruction(stmt.i)
        /\ addr \in Int /\ gap \in Int /\ first.size \in Int
        /\ last = Exec(stmt.prefixes, Inst, InPass2) /\ ~(last.size < 0)
    BY DEF Answered, IsStatement
  <2>2. Label \in Int
    BY <2>1 DEF Label
  <2>3. IsInstruction(Inst)
    BY <2>1, <2>2, WithLabelIsInstruction DEF Inst
  <2>4. IsPlace(InPass2) /\ InPass2.last
    BY <2>1 DEF IsPlace, InPass2
  <2>5. Fits(last, InPass2, Extra(Inst))
    BY <2>1, <2>3, <2>4, ExecFits
  <2>6. Extra(Inst) = IF FarDword THEN 1 ELSE 0
    BY DEF Extra, FarExtra, FarDword, Name, Target1
  <2> QED
    BY <2>1, <2>4, <2>5, <2>6 DEF Fits
<1> QED
  BY <1>1, AnsweredInvariant, PTL DEF Spec

----------------------------------------------------------------------------
(* The encoders there are twice                                            *)

\* Behind o32 alone.
O32Alone == ForcePrefixes(TRUE, FALSE, FALSE, FALSE)

\* What stands behind nothing, and what stands behind what.
LEMMA Nothing == \A s \in Bytes : <<>> \o s = s /\ s \o <<>> = s
BY DEF Bytes

Grouped(x, y, z) == (x \o y) \o z = x \o (y \o z)

LEMMA Joins == \A x, y, z \in Bytes : Grouped(x, y, z)
BY DEF Bytes, Grouped

\* A part in the middle of others stands in front of all that follows.
InFront(r, p, a, o, m) == (((r \o p) \o a) \o o) \o m = r \o (p \o ((a \o o) \o m))

LEMMA Regroup ==
  ASSUME NEW r \in Bytes, NEW a \in Bytes, NEW o \in Bytes, NEW m \in Bytes
  PROVE  \A p \in Bytes : InFront(r, p, a, o, m)
<1> TAKE p \in Bytes
<1>1. /\ r \o p \in Bytes /\ (r \o p) \o a \in Bytes
      /\ o \o m \in Bytes /\ a \o (o \o m) \in Bytes
  BY Concat
<1>2. /\ Grouped((r \o p) \o a, o, m) /\ Grouped(r \o p, a, o \o m)
      /\ Grouped(r, p, a \o (o \o m)) /\ Grouped(a, o, m)
  BY <1>1, Joins
<1> QED
  BY <1>2 DEF Grouped, InFront

\* The two parts of what is joined.
LEMMA Cut ==
  ASSUME NEW r \in Bytes, NEW s \in Bytes
  PROVE  /\ SubSeq(r \o s, 1, Len(r)) = r /\ SubSeq(r \o s, Len(r) + 1, Len(r \o s)) = s
<1>3. SubSeq(r \o s, 1, Len(r)) = r
  BY DEF Bytes
<1>4. SubSeq(r \o s, Len(r) + 1, Len(r \o s)) = s
  <2>1. r \o s \in Seq(AByte) /\ Len(r \o s) = Len(r) + Len(s)
    BY Ranges DEF Bytes
  <2>2. Len(SubSeq(r \o s, Len(r) + 1, Len(r \o s))) = Len(s)
    BY <2>1 DEF Bytes
  <2>3. \A k \in 1..Len(s) : SubSeq(r \o s, Len(r) + 1, Len(r \o s))[k] = s[k]
    BY <2>1, SMTT(30) DEF Bytes
  <2>4. SubSeq(r \o s, Len(r) + 1, Len(r \o s)) \in Seq(AByte)
    BY <2>1 DEF Bytes
  <2> QED
    BY <2>2, <2>3, <2>4 DEF Bytes
<1> QED
  BY <1>3, <1>4

\* Sequences are what they are made of.
LEMMA Same ==
  ASSUME NEW a \in Seq(Int), NEW b \in Seq(Int), Len(a) = Len(b), \A k \in 1..Len(a) : a[k] = b[k]
  PROVE  a = b
OBVIOUS

\* One byte in front of a few.
LEMMA Pairs ==
  /\ \A x, y \in Int : <<x>> \o <<y>> = <<x, y>>
  /\ \A x, y, z \in Int : <<x>> \o <<y, z>> = <<x, y, z>>
<1>1. ASSUME NEW x \in Int, NEW y \in Int
      PROVE  <<x>> \o <<y>> = <<x, y>>
  <2> DEFINE a == <<x>> \o <<y>>
             b == <<x, y>>
  <2>1. a \in Seq(Int) /\ Len(a) = 2 /\ a[1] = x /\ a[2] = y
    OBVIOUS
  <2>2. b \in Seq(Int) /\ Len(b) = 2 /\ b[1] = x /\ b[2] = y
    OBVIOUS
  <2> HIDE DEF a, b
  <2>3. \A k \in 1..Len(a) : a[k] = b[k]
    BY <2>1, <2>2
  <2>4. a = b
    BY <2>1, <2>2, <2>3, Same
  <2> QED
    BY <2>4 DEF a, b
<1>2. ASSUME NEW x \in Int, NEW y \in Int, NEW z \in Int
      PROVE  <<x>> \o <<y, z>> = <<x, y, z>>
  <2> DEFINE a == <<x>> \o <<y, z>>
             b == <<x, y, z>>
  <2>1. a \in Seq(Int) /\ Len(a) = 3 /\ a[1] = x /\ a[2] = y /\ a[3] = z
    OBVIOUS
  <2>2. b \in Seq(Int) /\ Len(b) = 3 /\ b[1] = x /\ b[2] = y /\ b[3] = z
    OBVIOUS
  <2> HIDE DEF a, b
  <2>3. \A k \in 1..Len(a) : a[k] = b[k]
    BY <2>1, <2>2
  <2>4. a = b
    BY <2>1, <2>2, <2>3, Same
  <2> QED
    BY <2>4 DEF a, b
<1> QED
  BY <1>1, <1>2

\* The bytes in front of which an operand size prefix stands.
SegmentLenOf(d) == IF d.kind = "MEM" THEN SegmentPrefixLen(d.mem) ELSE 0

\* A form of any operand size: the prefix of the segment, that of the size, and a rest.
IsParted(d, opcode, reg, n, r, s, k) ==
  /\ Len(r) = SegmentLenOf(d)
  /\ \A x : RmForm(x, opcode, reg, d, n)
              = Out(r \o (OperandSizePrefix(x) \o s), k + OperandSizePrefixLen(x))

LEMMA FormParts ==
  ASSUME NEW d, IsOperand(d), NEW opcode, NEW reg \in Int, NEW n \in {2, 3}, Counts(opcode, n - 1)
  PROVE  \E r \in Bytes, s \in Bytes, k \in Nat : IsParted(d, opcode, reg, n, r, s, k)
<1>1. d.reg \in Int /\ d.mem \in Memory /\ opcode \in Bytes
  BY Taken DEF Counts
<1>2. \A x : OperandSizePrefix(x) \in Bytes /\ OperandSizePrefixLen(x) \in Nat
  BY OtherPrefixes, \A x : x \in {0, 1} => x \in Nat
<1>3. CASE d.kind = "MEM"
  <2> DEFINE r == SegmentPrefix(d.mem)
             l == SegmentPrefixLen(d.mem)
             a == AddressSizePrefix(d.mem)
             b == AddressSizePrefixLen(d.mem)
             m == ModrmMem(reg, d.mem)
             t == MemoryTailLen(d.mem)
             s == (a \o opcode) \o m
  <2>1. r \in Bytes /\ Len(r) = l /\ l \in Nat /\ a \in Bytes /\ m \in Bytes /\ b \in Nat /\ t \in Nat
    <3>1. r \in Bytes /\ Len(r) = l /\ l \in Nat
      BY <1>1, MemoryPrefixes, \A x : x \in {0, 1} => x \in Nat
    <3>2. a \in Bytes /\ b \in Nat
      BY Few, Ranges DEF AddressSizePrefix, AddressSizePrefixLen
    <3> QED
      BY <1>1, <3>1, <3>2, TailIsCounted
  <2>2. \A x : RmForm(x, opcode, reg, d, n)
               = Out(((r \o OperandSizePrefix(x)) \o a) \o opcode \o m, l + OperandSizePrefixLen(x) + b + n + t)
    BY <1>3 DEF RmForm, MemForm, MemoryOperandPrefixes, MemoryOperandPrefixLen
  <2>3. SegmentLenOf(d) = l
    BY <1>3 DEF SegmentLenOf
  <2> HIDE DEF r, l, a, b, m, t
  <2>4. s \in Bytes /\ l + b + n + t \in Nat
    <3>1. a \o opcode \in Bytes
      BY <1>1, <2>1, Concat
    <3> QED
      BY <2>1, <3>1, Concat
  <2>5. \A p \in Bytes : ((r \o p) \o a) \o opcode \o m = r \o (p \o s)
    <3>1. \A p \in Bytes : InFront(r, p, a, opcode, m)
      BY <1>1, <2>1, Regroup
    <3> QED
      BY <3>1 DEF InFront, s
  <2> HIDE DEF s
  <2>6. \A x \in Nat : l + x + b + n + t = (l + b + n + t) + x
    BY <2>1
  <2>7. \A x : RmForm(x, opcode, reg, d, n)
               = Out(r \o (OperandSizePrefix(x) \o s), (l + b + n + t) + OperandSizePrefixLen(x))
    BY <1>2, <2>2, <2>5, <2>6
  <2> QED
    BY <2>1, <2>3, <2>4, <2>7 DEF IsParted
<1>4. CASE d.kind # "MEM"
  <2> DEFINE m == ModrmReg(reg, d.reg)
             s == opcode \o m
  <2>1. m \in Bytes /\ s \in Bytes
    BY <1>1, Registers, Concat
  <2>2. \A x : RmForm(x, opcode, reg, d, n) = Out(OperandSizePrefix(x) \o opcode \o m, OperandSizePrefixLen(x) + n)
    BY <1>4 DEF RmForm, RegForm
  <2>3. SegmentLenOf(d) = 0 /\ <<>> \in Bytes /\ Len(<<>>) = 0 /\ n \in Nat
    BY <1>4, Few, Ranges DEF SegmentLenOf
  <2> HIDE DEF m
  <2>4. \A p \in Bytes : p \o opcode \o m = p \o s
    <3>1. \A p \in Bytes : Grouped(p, opcode, m)
      BY <1>1, <2>1, Joins
    <3> QED
      BY <3>1 DEF Grouped
  <2> HIDE DEF s
  <2>5. \A p \in Bytes : p \o s \in Bytes
    BY <2>1, Concat
  <2>6. \A p \in Bytes : p \o s = <<>> \o (p \o s)
    BY <2>5, Nothing
  <2>7. \A x \in Nat : x + n = n + x
    OBVIOUS
  <2>8. \A x : RmForm(x, opcode, reg, d, n)
               = Out(<<>> \o (OperandSizePrefix(x) \o s), n + OperandSizePrefixLen(x))
    BY <1>2, <2>2, <2>4, <2>6, <2>7
  <2> DEFINE r == <<>>
  <2>9. r \in Bytes /\ Len(r) = SegmentLenOf(d)
    BY <2>3
  <2>10. \A x : RmForm(x, opcode, reg, d, n) = Out(r \o (OperandSizePrefix(x) \o s), n + OperandSizePrefixLen(x))
    BY <2>8
  <2> HIDE DEF r
  <2> QED
    BY <2>1, <2>3, <2>9, <2>10 DEF IsParted
<1> QED
  BY <1>3, <1>4

\* What Wide does to a form whose operand size has no prefix, with or without an
\* immediate behind it: the form has the prefix of a dword then.
LEMMA WideForms ==
  ASSUME NEW d, IsOperand(d), NEW e, e.kind # "MEM" \/ e = d, NEW size, size # 4,
         NEW opcode, NEW reg \in Int, NEW n \in {2, 3}, Counts(opcode, n - 1)
  PROVE  /\ Wide(d, e, RmForm(size, opcode, reg, d, n)) = RmForm(4, opcode, reg, d, n)
         /\ \A b \in Bytes, m \in Nat :
              Wide(d, e, Then(RmForm(size, opcode, reg, d, n), b, m)) = Then(RmForm(4, opcode, reg, d, n), b, m)
<1> DEFINE h == <<\h66>>
<1>1. PICK r \in Bytes, s \in Bytes, k \in Nat : IsParted(d, opcode, reg, n, r, s, k)
  BY FormParts
<1>2. OperandSizePrefix(size) = <<>> /\ OperandSizePrefixLen(size) = 0
      /\ OperandSizePrefix(4) = h /\ OperandSizePrefixLen(4) = 1
  BY DEF OperandSizePrefix, OperandSizePrefixLen
<1>3. h \in Bytes /\ k + 0 = k
  BY Few, Ranges
<1> HIDE DEF h
<1>4. /\ RmForm(size, opcode, reg, d, n) = Out(r \o s, k)
      /\ RmForm(4, opcode, reg, d, n) = Out(r \o (h \o s), k + 1)
  BY <1>1, <1>2, <1>3, Nothing DEF IsParted
<1>5. \A t \in Bytes, j \in Nat : Wide(d, e, Out(r \o t, j)) = Out(r \o (h \o t), j + 1)
  <2> TAKE t \in Bytes, j \in Nat
  <2>1. ~(j < 0)
    OBVIOUS
  <2> DEFINE l == Len(r)
             u == r \o t
  <2>2. Wide(d, e, Out(u, j)) = Out(SubSeq(u, 1, l) \o h \o SubSeq(u, l + 1, Len(u)), j + 1)
    <3>1. l = IF d.kind = "MEM" THEN SegmentPrefixLen(d.mem)
              ELSE IF e.kind = "MEM" THEN SegmentPrefixLen(e.mem) ELSE 0
      BY <1>1 DEF SegmentLenOf, IsParted
    <3> HIDE DEF l, u
    <3> QED
      BY <2>1, <3>1 DEF Wide, Out, h
  <2>3. SubSeq(u, 1, l) = r /\ SubSeq(u, l + 1, Len(u)) = t
    BY Cut
  <2>4. Grouped(r, h, t)
    BY <1>3, Joins
  <2> QED
    BY <2>2, <2>3, <2>4 DEF Grouped
<1>6. Wide(d, e, RmForm(size, opcode, reg, d, n)) = RmForm(4, opcode, reg, d, n)
  BY <1>4, <1>5
<1>7. ASSUME NEW b \in Bytes, NEW m \in Nat
      PROVE  Wide(d, e, Then(RmForm(size, opcode, reg, d, n), b, m)) = Then(RmForm(4, opcode, reg, d, n), b, m)
  <2>1. h \o s \in Bytes /\ s \o b \in Bytes /\ k + m \in Nat
    BY <1>3, Concat
  <2>2. Grouped(r, s, b) /\ Grouped(r, h \o s, b) /\ Grouped(h, s, b)
    BY <1>3, <2>1, Joins
  <2>3. (r \o s) \o b = r \o (s \o b) /\ (r \o (h \o s)) \o b = r \o (h \o (s \o b))
    BY <2>2 DEF Grouped
  <2>4. ~(k < 0) /\ ~(k + 1 < 0) /\ (k + m) + 1 = (k + 1) + m
    OBVIOUS
  <2>5. Then(Out(r \o s, k), b, m) = Out((r \o s) \o b, k + m)
    BY <2>4 DEF Then, Out
  <2>6. Then(Out(r \o (h \o s), k + 1), b, m) = Out((r \o (h \o s)) \o b, (k + 1) + m)
    BY <2>4 DEF Then, Out
  <2>7. Wide(d, e, Out(r \o (s \o b), k + m)) = Out(r \o (h \o (s \o b)), (k + m) + 1)
    BY <1>5, <2>1
  <2> QED
    BY <1>4, <2>3, <2>4, <2>5, <2>6, <2>7
<1> QED
  BY <1>6, <1>7

\* o32 alone forces nothing but the operand size.
LEMMA Lone ==
  /\ O32Alone.o32 /\ ~O32Alone.o16 /\ ~O32Alone.a16 /\ ~O32Alone.a32 /\ Rel32(O32Alone)
  /\ \A o : Forced(o, O32Alone) = o /\ AddressSizeAgrees(o, O32Alone)
  /\ ForcedPrefixPair(O32Alone.o32, O32Alone.a32) = <<\h66>> /\ ForcedPrefixPairLen(O32Alone.o32, O32Alone.a32) = 1
<1>1. O32Alone.o32 /\ ~O32Alone.o16 /\ ~O32Alone.a16 /\ ~O32Alone.a32
  BY DEF O32Alone, ForcePrefixes
<1>2. <<\h66>> \o <<>> = <<\h66>>
  BY Few, Ranges, Nothing
<1> QED
  BY <1>1, <1>2 DEF Rel32, Forced, AddressSizeAgrees, ForcedPrefixPair, ForcedPrefixPairLen

\* not, neg and their kin, and imul.
LEMMA UnaryCopies ==
  ASSUME NEW d, IsOperand(d), NEW group \in Int
  PROVE  EncodePrefixedUnaryGroup(d, group, O32Alone) = EncodeO32UnaryGroup(d, group)
<1> DEFINE f == O32Alone
           x == \hF6 + W(d.size)
           wide == d.kind = "REG32" \/ (d.kind = "MEM" /\ d.size = 4)
           one == RmForm(d.size, <<x>>, group, d, 2)
           four == RmForm(4, <<x>>, group, d, 2)
<1>1. EncodePrefixedUnaryGroup(d, group, f) = IF wide THEN EncodeUnaryGroup(d, group) ELSE Check(IsTarget(d), four)
  BY Lone DEF EncodePrefixedUnaryGroup
<1>2. EncodeO32UnaryGroup(d, group) = IF wide THEN EncodeUnaryGroup(d, group) ELSE Wide(d, d, Check(IsTarget(d), one))
  BY DEF EncodeO32UnaryGroup, EncodeUnaryGroup
<1>3. ASSUME ~wide, IsTarget(d)
      PROVE  Wide(d, d, one) = four
  <2>1. d.size # 4
    BY <1>3 DEF IsTarget, GPR, IsOperand
  <2>2. x \in AByte
    <3>1. \hF6 \in Opcode
      BY Ranges
    <3> QED
      BY <3>1, Opcodes
  <2> HIDE DEF x
  <2>3. Counts(<<x>>, 2 - 1)
    BY <2>2, Counting, Ranges
  <2> QED
    BY <2>1, <2>3, WideForms, SMTT(30)
<1>4. Wide(d, d, FAIL) = FAIL
  BY DEF Wide, FAIL, Out
<1> HIDE DEF one, four, wide
<1> QED
  BY <1>1, <1>2, <1>3, <1>4 DEF Check

LEMMA ImulCopies ==
  ASSUME NEW args, AreOperands(args), Len(args) \in Nat
  PROVE  EncodePrefixedImul(args, O32Alone) = EncodeO32Imul(args)
<1>1. \A d : IsOperand(d) => PrefixedImul1(d, O32Alone) = EncodeO32UnaryGroup(d, 5)
  <2>1. \A d : PrefixedImul1(d, O32Alone) = EncodePrefixedUnaryGroup(d, 5, O32Alone)
    BY Lone DEF PrefixedImul1
  <2> QED
    BY <2>1, UnaryCopies
<1>2. \A d, s : PrefixedImul2(d, s, O32Alone)
                  = IF s.kind = "IMM" THEN EmitO32ImulImmTail(d, d, s) ELSE EmitO32ImulRegRm(d, s)
  BY Lone DEF PrefixedImul2
<1>3. \A d, s, i : PrefixedImul3(d, s, i, O32Alone) = EmitO32ImulImmTail(d, s, i)
  BY Lone DEF PrefixedImul3
<1>4. Len(args) = 1 => IsOperand(args[1])
  BY DEF AreOperands
<1> QED
  BY <1>1, <1>2, <1>3, <1>4 DEF EncodePrefixedImul, EncodeO32Imul

\* The shifts and rotates.
LEMMA ShiftCopies ==
  ASSUME NEW d, IsOperand(d), NEW s, IsOperand(s), NEW group \in Int
  PROVE  EncodePrefixedShiftGroup(d, s, group, O32Alone) = EncodeO32ShiftGroup(d, s, group)
<1> DEFINE size == ShiftTargetSize(d)
           x == ShiftOpcode(s, size)
           b == ShiftCount(s)
           n == ShiftCountLen(s)
           refused == size = 0 \/ ~ShiftCountOK(s)
           Form(y) == RmForm(y, <<x>>, group, d, 2)
<1>1. x \in AByte /\ Counts(b, n)
  BY ShiftParts
<1>2. EncodePrefixedShiftGroup(d, s, group, O32Alone) = IF refused THEN FAIL ELSE Then(Form(4), b, n)
  <2> DEFINE yes == TRUE
             no == FALSE
  <2>1. O32Alone.o32 = yes /\ O32Alone.a32 = no
    BY DEF O32Alone, ForcePrefixes
  <2>2. EncodePrefixedShiftGroup(d, s, group, O32Alone)
          = IF refused THEN FAIL ELSE Then(ForcedForm(yes, no, <<x>>, group, d, 2), b, n)
    <3> DEFINE op == O32Alone.o32 \/ (size = 4 /\ ~O32Alone.o16)
    <3>1. op = yes
      BY Lone, Zenon
    <3>2. EncodePrefixedShiftGroup(d, s, group, O32Alone)
            = IF refused THEN FAIL ELSE Then(ForcedForm(op, O32Alone.a32, <<x>>, group, d, 2), b, n)
      BY Lone DEF EncodePrefixedShiftGroup
    <3> HIDE DEF op, refused, x, b, n
    <3> QED
      BY <2>1, <3>1, <3>2
  <2>3. RmPrefixes(d, yes, no) = OperandPrefixes(d, 4) /\ RmPrefixLen(d, yes, no) = OperandPrefixLen(d, 4)
    BY Lone, <2>1 DEF RmPrefixes, RmPrefixLen, OperandPrefixes, OperandPrefixLen, OperandSizePrefix, OperandSizePrefixLen
  <2> HIDE DEF yes, no
  <2>4. ForcedForm(yes, no, <<x>>, group, d, 2)
          = Out(OperandPrefixes(d, 4) \o <<x>> \o Rm(group, d), OperandPrefixLen(d, 4) + 2 + RmTailLen(d))
    BY <2>3 DEF ForcedForm
  <2>5. 0 \in Int /\ OperandSizePrefixLen(4) + 2 + 0 = OperandSizePrefixLen(4) + 2
    BY DEF OperandSizePrefixLen
  <2>6. Form(4) = Out(OperandPrefixes(d, 4) \o <<x>> \o Rm(group, d), OperandPrefixLen(d, 4) + 2 + RmTailLen(d))
    BY <2>5 DEF RmForm, MemForm, RegForm, OperandPrefixes, OperandPrefixLen, Rm, RmTailLen
  <2> QED
    BY <2>2, <2>4, <2>6
<1>3. EncodeShiftGroup(d, s, group) = IF refused THEN FAIL ELSE Then(Form(size), b, n)
  <2>1. OperandSizePrefixLen(size) + 2 + 0 = OperandSizePrefixLen(size) + 2
    BY DEF OperandSizePrefixLen
  <2>2. Form(size) = Out(OperandPrefixes(d, size) \o <<x>> \o EmitShiftModrm(d, group).bytes,
                         OperandPrefixLen(d, size) + 2 + EmitShiftModrm(d, group).size)
    BY <2>1 DEF RmForm, MemForm, RegForm, OperandPrefixes, OperandPrefixLen, EmitShiftModrm, Out
  <2> QED
    BY <2>2 DEF EncodeShiftGroup
<1>4. EncodeO32ShiftGroup(d, s, group)
        = IF size = 4 THEN EncodeShiftGroup(d, s, group) ELSE Wide(d, s, EncodeShiftGroup(d, s, group))
  BY DEF EncodeO32ShiftGroup
<1>5. Wide(d, s, FAIL) = FAIL
  BY DEF Wide, FAIL, Out
<1>6. ASSUME ~refused, size # 4
      PROVE  Wide(d, s, Then(Form(size), b, n)) = Then(Form(4), b, n)
  <2>1. s.kind # "MEM"
    BY <1>6 DEF ShiftCountOK, IsCl
  <2> HIDE DEF x, size, b, n
  <2>2. Counts(<<x>>, 2 - 1)
    BY <1>1, Counting, Ranges
  <2>3. b \in Bytes /\ n \in Nat
    BY <1>1 DEF Counts
  <2> QED
    <3>1. \A c \in Bytes, m \in Nat : Wide(d, s, Then(Form(size), c, m)) = Then(Form(4), c, m)
      BY <1>6, <2>1, <2>2, WideForms
    <3> HIDE DEF Form
    <3> QED
      BY <2>3, <3>1
<1> HIDE DEF refused, size, Form, b, n
<1> QED
  BY <1>2, <1>3, <1>4, <1>5, <1>6

\* push and pop.
LEMMA StackCopies ==
  ASSUME NEW o, IsOperand(o)
  PROVE  EncodePrefixedPush(o, O32Alone) = EncodeO32Push(o) /\ EncodePrefixedPop(o, O32Alone) = EncodeO32Pop(o)
<1> DEFINE h == \h66
           v == o.imm
           Front(bytes, n) == StackForm(O32Alone.o32, O32Alone, bytes, n)
<1>1. v \in Int /\ o.reg \in Int /\ h \in Int
  BY Taken
<1>3. \A bytes, n : Front(bytes, n) = Out(<<h>> \o bytes, n + 1)
  BY Lone DEF StackForm
<1>2. \A kinds : StackPrefix(o, kinds, O32Alone) = O32Alone.o32
  <2>1. \A kinds : StackPrefix(o, kinds, O32Alone)
    BY Lone, Zenon DEF StackPrefix
  <2>2. \A kinds : StackPrefix(o, kinds, O32Alone) \in BOOLEAN
    BY DEF StackPrefix
  <2> QED
    BY <2>1, <2>2, Lone
<1>5. /\ \A x \in Int : <<h>> \o <<x>> = <<h, x>>
      /\ <<h>> \o (<<\h6A>> \o Byte(v)) = <<h, \h6A>> \o Byte(v)
      /\ <<h>> \o (<<\h68>> \o Word(v)) = <<h, \h68>> \o Word(v)
      /\ <<h>> \o (<<\h68>> \o Dword(v)) = <<h, \h68>> \o Dword(v)
  <2>1. Byte(v) \in Bytes /\ Word(v) \in Bytes /\ Dword(v) \in Bytes
    BY <1>1, Immediates
  <2>2. \A x, y \in Int : <<x>> \o <<y>> = <<x, y>>
    BY Pairs
  <2>3. <<\h6A>> \in Bytes /\ <<\h68>> \in Bytes /\ <<h>> \in Bytes
    BY <1>1, Few, Ranges
  <2> HIDE DEF h, v
  <2>4. /\ Grouped(<<h>>, <<\h6A>>, Byte(v)) /\ Grouped(<<h>>, <<\h68>>, Word(v))
        /\ Grouped(<<h>>, <<\h68>>, Dword(v))
    BY <2>1, <2>3, Joins
  <2>5. <<h>> \o <<\h6A>> = <<h, \h6A>> /\ <<h>> \o <<\h68>> = <<h, \h68>>
    BY <1>1, <2>2
  <2>6. \A x \in Int : <<h>> \o <<x>> = <<h, x>>
    BY <1>1, <2>2
  <2> QED
    BY <2>4, <2>5, <2>6 DEF Grouped
<1>6. 2 + 1 = 3 /\ 5 + 1 = 6 /\ 3 + 1 = 4 /\ 1 + 1 = 2
  OBVIOUS
<1> DEFINE small == o.size = 1 \/ FitsPushImm8(v)
<1> HIDE DEF h, v, Front, small
<1>7. PrefixedPushImmediate(o, O32Alone.o32, O32Alone)
        = IF small THEN Out(<<h, \h6A>> \o Byte(v), 3)
          ELSE IF o.size = 4 THEN Check(FitsU32(v), Out(<<h, \h68>> \o Dword(v), 6))
          ELSE Check(FitsU16(v), Out(<<h, \h68>> \o Word(v), 4))
  <2>1. PrefixedPushImmediate(o, O32Alone.o32, O32Alone)
          = IF small THEN Front(<<\h6A>> \o Byte(v), 2)
            ELSE IF o.size = 4 THEN Check(FitsU32(v), Front(<<\h68>> \o Dword(v), 5))
            ELSE Check(FitsU16(v), Front(<<\h68>> \o Word(v), 3))
    BY Lone DEF PrefixedPushImmediate, Front, v, small
  <2> QED
    BY <1>3, <1>5, <1>6, <2>1
<1>8. \A x, group : StackMemoryForm(O32Alone.o32, o, x, group) = Check(o.size \in {2, 4}, MemForm(4, <<x>>, group, o.mem, 2))
  BY Lone DEF StackMemoryForm
<1>9. EncodePrefixedPush(o, O32Alone) = EncodeO32Push(o)
  <2>1. EncodePrefixedPush(o, O32Alone)
          = CASE o.kind \in R16or32 -> Front(<<\h50 + o.reg>>, 1)
              [] o.kind = "SEG" -> Front(PushSegment(o.reg), SegmentLen(o.reg))
              [] o.kind = "IMM" -> PrefixedPushImmediate(o, O32Alone.o32, O32Alone)
              [] o.kind = "MEM" -> StackMemoryForm(O32Alone.o32, o, \hFF, 6)
              [] OTHER -> FAIL
    <3>1. Forced(o, O32Alone) = o /\ AddressSizeAgrees(o, O32Alone) /\ StackPrefix(o, {"MEM", "IMM"}, O32Alone) = O32Alone.o32
      BY <1>2, Lone
    <3> QED
      BY <3>1, Zenon DEF EncodePrefixedPush, Front
  <2>2. EncodeO32Push(o)
          = CASE o.kind \in R16or32 -> Out(<<h, \h50 + o.reg>>, 2)
              [] o.kind = "SEG" -> Out(<<h>> \o PushSegment(o.reg), SegmentLen(o.reg) + 1)
              [] o.kind = "IMM" -> IF small THEN Out(<<h, \h6A>> \o Byte(v), 3)
                                   ELSE IF o.size = 4 THEN Check(FitsU32(v), Out(<<h, \h68>> \o Dword(v), 6))
                                   ELSE Check(FitsU16(v), Out(<<h, \h68>> \o Word(v), 4))
              [] o.kind = "MEM" -> Check(o.size \in {2, 4}, MemForm(4, <<\hFF>>, 6, o.mem, 2))
              [] OTHER -> FAIL
    BY DEF EncodeO32Push, R16or32, small, h, v
  <2>3. \h50 + o.reg \in Int
    BY <1>1
  <2> QED
    BY <1>3, <1>5, <1>6, <1>7, <1>8, <2>1, <2>2, <2>3, ZenonT(30)
<1>10. EncodePrefixedPop(o, O32Alone) = EncodeO32Pop(o)
  <2>1. EncodePrefixedPop(o, O32Alone)
          = CASE o.kind \in R16or32 -> Front(<<\h58 + o.reg>>, 1)
              [] o.kind = "SEG" -> Check(o.reg # 1, Front(PopSegment(o.reg), SegmentLen(o.reg)))
              [] o.kind = "MEM" -> StackMemoryForm(O32Alone.o32, o, \h8F, 0)
              [] OTHER -> FAIL
    <3>1. Forced(o, O32Alone) = o /\ AddressSizeAgrees(o, O32Alone) /\ StackPrefix(o, {"MEM"}, O32Alone) = O32Alone.o32
      BY <1>2, Lone
    <3> QED
      BY <3>1, Zenon DEF EncodePrefixedPop, Front
  <2>2. EncodeO32Pop(o)
          = CASE o.kind \in R16or32 -> Out(<<h, \h58 + o.reg>>, 2)
              [] o.kind = "SEG" -> Check(o.reg # 1, Out(<<h>> \o PopSegment(o.reg), SegmentLen(o.reg) + 1))
              [] o.kind = "MEM" -> Check(o.size \in {2, 4}, MemForm(4, <<\h8F>>, 0, o.mem, 2))
              [] OTHER -> FAIL
    BY DEF EncodeO32Pop, h
  <2>3. \h58 + o.reg \in Int
    BY <1>1
  <2> QED
    BY <1>3, <1>5, <1>6, <1>8, <2>1, <2>2, <2>3
<1> QED
  BY <1>9, <1>10

\* jmp and jcc in the last pass.
LEMMA JumpCopies ==
  ASSUME NEW t, t.dist \in {"none", "short", "near", "far"}, NEW e, e.last
  PROVE  /\ EncodeO32Jmp(t, e) # FAIL => EncodePrefixedJmp(t, O32Alone, e) = EncodeO32Jmp(t, e)
         /\ \A x, y \in Int : EncodePrefixedJcc(t, x, y, O32Alone, e) = EncodeO32Jcc(t, x, y, e)
<1> DEFINE f == O32Alone
           target == t.o.imm
<1>1. ~Unknown(t.o, e)
  BY DEF Unknown
<1> DEFINE p == ForcedPrefixPair(f.o32, f.a32)
<1>2. \A x \in Int : p \o <<x>> = <<\h66, x>> /\ p \o <<\h0F, x>> = <<\h66, \h0F, x>>
  <2>1. p = <<\h66>>
    BY Lone
  <2>4. \h66 \in Int /\ \h0F \in Int
    OBVIOUS
  <2>2. \A x, y \in Int : <<x>> \o <<y>> = <<x, y>>
    BY Pairs
  <2>3. \A x, y, z \in Int : <<x>> \o <<y, z>> = <<x, y, z>>
    BY Pairs
  <2> HIDE DEF p
  <2> QED
    BY <2>1, <2>2, <2>3, <2>4, ZenonT(30)
<1>3. /\ \A x : EmitPrefixedRel8(target, x, f, e) = Relative(p \o <<x>>, 1, target, e)
      /\ \A x : EmitPrefixedNear(target, x, f, e) = Relative32(p \o x, target, e)
  BY Lone DEF EmitPrefixedRel8, EmitPrefixedNear
<1> HIDE DEF p
<1>4. /\ \A x \in Int : EmitPrefixedRel8(target, x, f, e) = EmitO32Rel8(target, x, e)
      /\ \A x \in Int : EmitPrefixedNear(target, <<x>>, f, e) = EmitO32Rel32(target, x, e)
      /\ \A x \in Int : EmitPrefixedNear(target, <<\h0F, x>>, f, e) = EmitO32JccRel32(target, x, e)
  BY <1>2, <1>3, ZenonT(30) DEF EmitO32Rel8, EmitO32Rel32, EmitO32JccRel32
<1>5. ASSUME NEW x \in Int, NEW y \in Int
      PROVE  EncodePrefixedJcc(t, x, y, f, e) = EncodeO32Jcc(t, x, y, e)
  <2>1. EncodePrefixedJcc(t, x, y, f, e)
          = IF ~Scalar(t) \/ t.dist = "far" THEN FAIL
            ELSE IF t.dist = "short" THEN EmitPrefixedRel8(target, x, f, e)
            ELSE EmitPrefixedNear(target, <<\h0F, y>>, f, e)
    BY <1>1, Lone, Zenon DEF EncodePrefixedJcc, EmitPrefixedJccRel8, EmitPrefixedJccNear
  <2>2. EncodeO32Jcc(t, x, y, e)
          = IF ~Scalar(t) \/ t.dist = "far" THEN FAIL
            ELSE IF t.dist = "short" THEN EmitO32Rel8(target, x, e) ELSE EmitO32JccRel32(target, y, e)
    BY <1>1 DEF EncodeO32Jcc
  <2>3. /\ EmitPrefixedRel8(target, x, f, e) = EmitO32Rel8(target, x, e)
        /\ EmitPrefixedNear(target, <<\h0F, y>>, f, e) = EmitO32JccRel32(target, y, e)
    BY <1>4
  <2> HIDE DEF target
  <2> QED
    BY <2>1, <2>2, <2>3
<1>6. ASSUME EncodeO32Jmp(t, e) # FAIL
      PROVE  EncodePrefixedJmp(t, f, e) = EncodeO32Jmp(t, e)
  <2>1. EncodeO32Jmp(t, e)
          = IF ~Scalar(t) \/ t.dist = "far" THEN FAIL
            ELSE IF t.dist = "short" THEN EmitO32Rel8(target, \hEB, e) ELSE EmitO32Rel32(target, \hE9, e)
    BY <1>1 DEF EncodeO32Jmp
  <2>2. t.o.kind = "IMM" /\ ~t.ptr /\ t.dist \in {"short", "near", "none"}
    BY <1>6, <2>1 DEF Scalar
  <2>3. /\ EncodePrefixedJmpDirect(t.o, 2, f, e) = EmitPrefixedRel8(target, \hEB, f, e)
        /\ \A size \in {0, 3} : EncodePrefixedJmpDirect(t.o, size, f, e) = EmitPrefixedNear(target, <<\hE9>>, f, e)
    BY <1>1, <2>2, Lone DEF EncodePrefixedJmpDirect, EmitPrefixedJmpRel8, EmitPrefixedJmpNear
  <2>4. EncodePrefixedJmp(t, f, e)
          = IF t.dist = "short" THEN EmitPrefixedRel8(target, \hEB, f, e) ELSE EmitPrefixedNear(target, <<\hE9>>, f, e)
    BY <2>2, <2>3 DEF EncodePrefixedJmp
  <2>5. /\ EmitPrefixedRel8(target, \hEB, f, e) = EmitO32Rel8(target, \hEB, e)
        /\ EmitPrefixedNear(target, <<\hE9>>, f, e) = EmitO32Rel32(target, \hE9, e)
    BY <1>4, \hEB \in Int, \hE9 \in Int
  <2>6. Scalar(t) /\ t.dist # "far"
    BY <2>2 DEF Scalar
  <2> HIDE DEF target
  <2> QED
    BY <2>1, <2>4, <2>5, <2>6
<1> QED
  BY <1>5, <1>6

\* What an encoder answers is a size and bytes, and nothing else.
Whole(out) == out = Out(out.bytes, out.size)

LEMMA Wholes ==
  /\ \A b, n : Whole(Out(b, n))
  /\ \A size, opcode, reg, o, n : Whole(RmForm(size, opcode, reg, o, n))
  /\ \A m, size, opcode, reg, n : Whole(MemForm(size, opcode, reg, m, n))
  /\ \A guard, form : Whole(form) => Whole(Check(guard, form))
  /\ \A form, b, n : Whole(form) => Whole(Then(form, b, n))
  /\ \A d, s, form : Whole(Wide(d, s, form))
  /\ Whole(FAIL)
<1>1. \A b, n : Whole(Out(b, n))
  BY DEF Whole, Out
<1>2. Whole(FAIL)
  BY <1>1 DEF FAIL
<1>3. /\ \A size, opcode, reg, o, n : Whole(RmForm(size, opcode, reg, o, n))
      /\ \A m, size, opcode, reg, n : Whole(MemForm(size, opcode, reg, m, n))
  BY <1>1 DEF RmForm, RegForm, MemForm
<1>4. \A guard, form : Whole(form) => Whole(Check(guard, form))
  BY <1>2 DEF Check
<1>5. \A form, b, n : Whole(form) => Whole(Then(form, b, n))
  BY <1>1 DEF Then
<1>6. \A d, s, form : Whole(Wide(d, s, form))
  BY <1>1, <1>2 DEF Wide
<1> QED
  BY <1>1, <1>2, <1>3, <1>4, <1>5, <1>6

LEMMA CopiesWhole ==
  ASSUME NEW d, NEW s, NEW x, NEW y, NEW args, NEW t, NEW e
  PROVE  /\ Whole(EncodeO32Push(d)) /\ Whole(EncodeO32Pop(d))
         /\ Whole(EncodeO32UnaryGroup(d, x)) /\ Whole(EncodeO32ShiftGroup(d, s, x))
         /\ Len(args) \in 1..3 => Whole(EncodeO32Imul(args))
         /\ t.dist \in {"none", "short", "near", "far"} => Whole(EncodeO32Jmp(t, e)) /\ Whole(EncodeO32Jcc(t, x, y, e))
<1>2. Whole(EncodeO32Push(d))
  <2>1. \A b, n, guard : Whole(Check(guard, Out(b, n)))
    BY Wholes
  <2>2. \A b, n : Whole(Out(b, n))
    BY Wholes
  <2>3. \A m, size, opcode, reg, n, guard : Whole(Check(guard, MemForm(size, opcode, reg, m, n)))
    BY Wholes
  <2>4. Whole(FAIL)
    BY Wholes
  <2> QED
    BY <2>1, <2>2, <2>3, <2>4 DEF EncodeO32Push, R16or32
<1>3. Whole(EncodeO32Pop(d))
  BY Wholes DEF EncodeO32Pop, R16or32
<1>4. \A z : Whole(EncodeUnaryGroup(d, z))
  BY Wholes DEF EncodeUnaryGroup
<1>5. \A z : Whole(EncodeO32UnaryGroup(d, z))
  BY <1>4, Wholes DEF EncodeO32UnaryGroup
<1>6. Whole(EncodeO32ShiftGroup(d, s, x))
  <2>1. Whole(EncodeShiftGroup(d, s, x))
    BY Wholes DEF EncodeShiftGroup
  <2> QED
    BY <2>1, Wholes DEF EncodeO32ShiftGroup
<1>7. Len(args) \in 1..3 => Whole(EncodeO32Imul(args))
  <2>1. \A a : Whole(EncodeO32UnaryGroup(a, 5))
    BY Wholes DEF EncodeO32UnaryGroup, EncodeUnaryGroup
  <2>2. \A size, a, b, v : Whole(ImulImm(size, a, b, v))
    BY Wholes DEF ImulImm
  <2>3. \A a, b, i : Whole(EmitO32ImulImmTail(a, b, i))
    BY <2>2, Wholes DEF EmitO32ImulImmTail, EmitImulImmTail
  <2>4. \A a, b : Whole(EmitO32ImulRegRm(a, b))
    BY Wholes DEF EmitO32ImulRegRm, EmitImulRegRm
  <2> QED
    BY <2>1, <2>3, <2>4 DEF EncodeO32Imul
<1>8. /\ \A b, n, v : Whole(Relative(b, n, v, e))
      /\ \A b, v : Whole(Relative32(b, v, e))
      /\ \A n : Whole(Sized(n))
  BY Wholes DEF Relative, Relative32, Sized
<1>9. t.dist \in {"none", "short", "near", "far"} => Whole(EncodeO32Jmp(t, e)) /\ Whole(EncodeO32Jcc(t, x, y, e))
  BY <1>8, Wholes DEF EncodeO32Jmp, EncodeO32Jcc, EmitO32Rel8, EmitO32Rel32, EmitO32JccRel32
<1> QED
  BY <1>2, <1>3, <1>5, <1>6, <1>7, <1>9

\* The names of what is encoded twice, but for the jumps; no other encoder knows them.
CopyNames == {"push", "pop", "not", "imul"} \cup DOMAIN Unary \cup DOMAIN Shifts

LEMMA CopyNamesApart ==
  ASSUME NEW name \in CopyNames
  PROVE  /\ name \notin {"cwd", "cwde", "daa", "das", "clts", "into", "iret", "iretd", "int"}
         /\ name \notin DOMAIN FlagOpcode
         /\ \A names \in {Movs, Cmps, Scas, Lods, Stos, Ins, Outs} :
              name \notin names.any \cup {names.byte, names.word, names.dword}
         /\ name \notin TakesTarget /\ name \notin DOMAIN Returns
         /\ name \notin {"enter", "lea", "xchg", "setcc", "in", "out", "esc", "lar", "lsl"} /\ name \notin DOMAIN FarLoads
         /\ name \notin DOMAIN FarLoads0F /\ name \notin SystemOneOperand /\ name \notin DOMAIN Steps
         /\ name \notin DOMAIN ZeroBytes /\ name \notin DOMAIN ZeroDwords /\ name \notin DOMAIN DoubleShifts
<1>1. name \in {"push", "pop", "not", "imul", "neg", "mul", "div", "idiv", "shl", "sal", "shr", "sar", "rol", "ror", "rcl", "rcr"}
  BY DEF CopyNames, Unary, Shifts
<1>2. name \notin DOMAIN FlagOpcode
  BY <1>1 DEF FlagOpcode
<1>3. \A names \in {Movs, Cmps, Scas, Lods, Stos, Ins, Outs} :
        name \notin names.any \cup {names.byte, names.word, names.dword}
  BY <1>1 DEF Movs, Cmps, Scas, Lods, Stos, Ins, Outs
<1>4. name \notin TakesTarget /\ name \notin DOMAIN Returns /\ name \notin DOMAIN FarLoads
      /\ name \notin DOMAIN FarLoads0F /\ name \notin SystemOneOperand /\ name \notin DOMAIN Steps
  BY <1>1 DEF TakesTarget, Loops, Returns, FarLoads, FarLoads0F, SystemOneOperand, Steps
<1>5. name \notin DOMAIN ZeroBytes /\ name \notin DOMAIN ZeroDwords /\ name \notin DOMAIN DoubleShifts
  BY <1>1 DEF ZeroBytes, ZeroDwords, DoubleShifts
<1> QED
  BY <1>1, <1>2, <1>3, <1>4, <1>5

\* Of what is encoded twice, encode_misc_prefixed_instruction asks nobody else first.
LEMMA CopiesReached ==
  ASSUME NEW i, i.name \in CopyNames, NEW f, NEW e
  PROVE  EncodeMiscPrefixedInstruction(i, f, e) = OrElse(MiscStack(i, f), MiscGroups(i, f))
<1>1. /\ i.name \notin TakesTarget /\ i.name \notin DOMAIN Returns
      /\ i.name \notin {"enter", "lea"} /\ i.name \notin DOMAIN FarLoads
      /\ i.name \notin DOMAIN FarLoads0F /\ i.name \notin SystemOneOperand
  BY CopyNamesApart
<1>2. MiscStrings(i, f) = NONE
  <2> DEFINE op == f.o32
             a32 == f.a32
             forms == { EmitPrefixedConvert(i, op, a32, f.o16), EmitPrefixedDecimalAdjust(i, op, a32),
                        EmitPrefixedFlagControl(i, op, a32), EmitPrefixedScas(i, op, a32, f.o16),
                        EmitPrefixedMovs(i, op, a32, f.o16), EmitPrefixedLods(i, op, a32, f.o16),
                        EmitPrefixedStos(i, op, a32, f.o16), EmitPrefixedIns(i, op, a32, f.o16),
                        EmitPrefixedOuts(i, op, a32, f.o16), EmitPrefixedInterrupt(i, op, a32, f.o16) }
  <2>1. MiscStrings(i, f) = IF forms = {NONE} THEN NONE ELSE CHOOSE form \in forms : form # NONE
    BY DEF MiscStrings
  <2>2. forms = {NONE}
    <3> HIDE DEF op, a32
    <3>1. /\ i.name \notin {"cwd", "cwde", "daa", "das", "clts", "into", "iret", "iretd", "int"}
          /\ i.name \notin DOMAIN FlagOpcode
          /\ \A names \in {Movs, Cmps, Scas, Lods, Stos, Ins, Outs} :
               i.name \notin names.any \cup {names.byte, names.word, names.dword}
      BY CopyNamesApart
    <3> QED
      BY <3>1, NoStrings
  <2> HIDE DEF forms
  <2> QED
    BY <2>1, <2>2
<1>3. MiscControl(i, f, e) = NONE
  <2>1. i.name \notin {"jcc", "jecxz", "jmp"} /\ i.name \notin DOMAIN Loops
    BY <1>1 DEF TakesTarget
  <2> QED
    BY <1>1, <2>1 DEF MiscControl
<1>4. MiscLoads(i, f) = NONE
  BY <1>1 DEF MiscLoads
<1> QED
  BY <1>2, <1>3, <1>4 DEF EncodeMiscPrefixedInstruction, OrElse

\* The forms of a jump behind prefixes.
LEMMA ControlForms ==
  ASSUME NEW i, NEW f, NEW e
  PROVE  /\ i.name = "jmp"
              => MiscControl(i, f, e) = IF Len(i.args) # 1 THEN FAIL ELSE EncodePrefixedJmp(i.args[1], f, e)
         /\ i.name = "jcc"
              => MiscControl(i, f, e)
                   = IF Len(i.args) # 1 THEN FAIL
                     ELSE EncodePrefixedJcc(i.args[1], JccOpcodesFromName(i.cond).short,
                                            JccOpcodesFromName(i.cond).near, f, e)
<1> DEFINE t == i.args[1]
           op == JccOpcodesFromName(i.cond)
<1>1. /\ {"jmp", "jcc"} \cap DOMAIN Returns = {} /\ {"jmp", "jcc"} \cap DOMAIN Loops = {}
      /\ i.name \in {"jmp", "jcc"} => i.name \notin DOMAIN Returns /\ i.name # "enter" /\ i.name \notin DOMAIN Loops
                                     /\ i.name # "jecxz"
  BY TargetNames DEF Loops, Returns
<1>2. i.name \in {"jmp", "jcc"}
       => MiscControl(i, f, e)
            = CASE i.name = "jcc" -> IF Len(i.args) # 1 THEN FAIL ELSE EncodePrefixedJcc(t, op.short, op.near, f, e)
                [] i.name = "jmp" -> IF Len(i.args) # 1 THEN FAIL ELSE EncodePrefixedJmp(t, f, e)
                [] OTHER -> NONE
  BY <1>1 DEF MiscControl, With1
<1> HIDE DEF t, op
<1>3. i.name = "jmp" => i.name # "jcc"
  OBVIOUS
<1> QED
  BY <1>2, <1>3 DEF t, op

\* Behind o32 alone, whoever answers gives what the copy gives.
LEMMA CopiesAnswer ==
  ASSUME NEW i, IsInstruction(i), NEW e, e.last, O32Copy(i, e).size > 0
  PROVE  EncodeMiscPrefixedInstruction(i, O32Alone, e) = O32Copy(i, e) /\ Whole(O32Copy(i, e))
<1> DEFINE f == O32Alone
           c == O32Copy(i, e)
           m == EncodeMiscPrefixedInstruction(i, f, e)
           d == i.args[1]
           s == i.args[2]
           op == JccOpcodesFromName(i.cond)
<1>1. /\ Len(i.args) \in Nat
      /\ i.name \notin TakesTarget => AreOperands(i.args)
      /\ i.name \in TakesTarget => \A n \in 1..Len(i.args) : IsJumpTarget(i.args[n])
      /\ i.name = "jcc" => op.short \in Int /\ op.near \in Int
  BY Arguments DEF JccOpcodesFromName
<1>2. FAIL.size < 0 /\ NONE.size = 0 /\ c # FAIL /\ c # NONE
  BY DEF FAIL, NONE, Out
<1>3. \A other : OrElse(c, other) = c /\ OrElse(NONE, other) = other
  BY <1>2 DEF OrElse
<1>4. CASE i.name \in {"jmp", "jcc"}
  <2>1. i.name \in TakesTarget /\ i.name \notin CopyNames
    BY <1>4, CopyNamesApart DEF TakesTarget
  <2>2. MiscStrings(i, f) = NONE
    BY <2>1, MiscStringsSettle
  <2>3. Len(i.args) = 1 => d.dist \in {"none", "short", "near", "far"}
    BY <1>1, <2>1 DEF IsJumpTarget, Target
  <2> HIDE DEF d, op
  <2>4. /\ i.name = "jmp" => c = IF Len(i.args) # 1 THEN FAIL ELSE EncodeO32Jmp(d, e)
        /\ i.name = "jcc" => c = IF Len(i.args) # 1 THEN FAIL ELSE EncodeO32Jcc(d, op.short, op.near, e)
    <3>1. i.name \notin {"push", "pop", "not", "imul"} /\ i.name \notin DOMAIN Unary /\ i.name \notin DOMAIN Shifts
      BY <2>1 DEF CopyNames
    <3> QED
      BY <3>1 DEF O32Copy, With1, d, op
  <2>5. /\ i.name = "jmp" => MiscControl(i, f, e) = IF Len(i.args) # 1 THEN FAIL ELSE EncodePrefixedJmp(d, f, e)
        /\ i.name = "jcc" => MiscControl(i, f, e)
                               = IF Len(i.args) # 1 THEN FAIL ELSE EncodePrefixedJcc(d, op.short, op.near, f, e)
    BY ControlForms DEF d, op
  <2>6. Len(i.args) = 1 /\ Whole(c)
    BY <1>2, <1>4, <2>3, <2>4, CopiesWhole
  <2>7. MiscControl(i, f, e) = c
    <3>1. i.name = "jmp" => EncodePrefixedJmp(d, f, e) = EncodeO32Jmp(d, e)
      BY <1>2, <2>3, <2>4, <2>6, JumpCopies
    <3>2. i.name = "jcc" => EncodePrefixedJcc(d, op.short, op.near, f, e) = EncodeO32Jcc(d, op.short, op.near, e)
      BY <1>1, <2>3, <2>6, JumpCopies DEF op
    <3> HIDE DEF c
    <3> QED
      BY <1>4, <2>4, <2>5, <2>6, <3>1, <3>2
  <2> HIDE DEF c
  <2> QED
    BY <1>3, <2>2, <2>6, <2>7 DEF EncodeMiscPrefixedInstruction, c
<1>5. CASE i.name \in CopyNames
  <2>1. m = OrElse(MiscStack(i, f), MiscGroups(i, f))
    BY <1>5, CopiesReached
  <2>2. /\ i.name \notin TakesTarget /\ i.name \notin DOMAIN Steps
        /\ i.name \notin {"jmp", "jcc", "xchg", "setcc", "in", "out", "esc", "lar", "lsl"}
        /\ i.name \notin DOMAIN ZeroBytes /\ i.name \notin DOMAIN ZeroDwords /\ i.name \notin DOMAIN DoubleShifts
    BY <1>5, CopyNamesApart DEF TakesTarget
  <2>3. /\ Len(i.args) = 1 => IsOperand(d)
        /\ Len(i.args) = 2 => IsOperand(d) /\ IsOperand(s)
    BY <1>1, <2>2 DEF AreOperands
  <2>4. AreOperands(i.args)
    BY <1>1, <2>2
  <2> HIDE DEF d, s, m
  <2>5. CASE i.name \in {"push", "pop"}
    <3>1. c = IF Len(i.args) # 1 THEN FAIL ELSE IF i.name = "push" THEN EncodeO32Push(d) ELSE EncodeO32Pop(d)
      <4>1. i.name \notin {"not", "imul", "jmp", "jcc"} /\ i.name \notin DOMAIN Unary /\ i.name \notin DOMAIN Shifts
        BY <2>5 DEF Unary, Shifts
      <4> QED
        BY <2>5, <4>1 DEF O32Copy, With1, d
    <3>2. MiscStack(i, f)
            = IF Len(i.args) # 1 THEN FAIL ELSE IF i.name = "push" THEN EncodePrefixedPush(d, f) ELSE EncodePrefixedPop(d, f)
      BY <2>2, <2>5 DEF MiscStack, With1, d
    <3>3. Len(i.args) = 1
      BY <1>2, <3>1
    <3> HIDE DEF c
    <3>4. MiscStack(i, f) = c /\ Whole(c)
      BY <2>3, <3>1, <3>2, <3>3, StackCopies, CopiesWhole
    <3> QED
      BY <1>3, <2>1, <3>4 DEF m, c
  <2>6. CASE i.name \notin {"push", "pop"}
    <3>1. MiscStack(i, f) = NONE
      BY <2>2, <2>6 DEF MiscStack
    <3>2. i.name \in {"not", "imul"} \cup DOMAIN Unary \cup DOMAIN Shifts
      BY <1>5, <2>6 DEF CopyNames
    <3> DEFINE group == IF i.name = "not" THEN 2 ELSE Unary[i.name]
               shift == Shifts[i.name]
               unary == i.name = "not" \/ i.name \in DOMAIN Unary
    <3>3. /\ "not" \notin DOMAIN Unary /\ "imul" \notin DOMAIN Unary
          /\ "not" \notin DOMAIN Shifts /\ "imul" \notin DOMAIN Shifts /\ DOMAIN Shifts \cap DOMAIN Unary = {}
      BY DEF Shifts, Unary
    <3>4. /\ unary => c = IF Len(i.args) # 1 THEN FAIL ELSE EncodeO32UnaryGroup(d, group)
          /\ i.name = "imul" => c = EncodeO32Imul(i.args)
          /\ i.name \in DOMAIN Shifts => c = IF Len(i.args) # 2 THEN FAIL ELSE EncodeO32ShiftGroup(d, s, shift)
      BY <2>2, <2>6, <3>3 DEF O32Copy, With1, With2, d, s
    <3>5. /\ unary => MiscGroups(i, f) = IF Len(i.args) # 1 THEN FAIL ELSE EncodePrefixedUnaryGroup(d, group, f)
          /\ i.name = "imul" => MiscGroups(i, f) = EncodePrefixedImul(i.args, f)
          /\ i.name \in DOMAIN Shifts
               => MiscGroups(i, f) = IF Len(i.args) # 2 THEN FAIL ELSE EncodePrefixedShiftGroup(d, s, shift, f)
      BY <2>2, <2>6, <3>3 DEF MiscGroups, With1, With2, d, s
    <3>6. /\ unary => group \in Int
          /\ i.name \in DOMAIN Shifts => shift \in Int
      BY Tables
    <3>7. i.name = "imul" => Len(i.args) \in 1..3
      <4>1. Len(i.args) \notin 1..3 => EncodeO32Imul(i.args) = FAIL
        BY <1>1 DEF EncodeO32Imul
      <4> QED
        BY <1>2, <3>4, <4>1
    <3> HIDE DEF c, group, shift
    <3>8. MiscGroups(i, f) = c /\ Whole(c)
      <4>1. unary => MiscGroups(i, f) = c /\ Whole(c)
        BY <1>2, <2>3, <3>4, <3>5, <3>6, UnaryCopies, CopiesWhole
      <4>2. i.name = "imul" => MiscGroups(i, f) = c /\ Whole(c)
        BY <1>1, <2>4, <3>4, <3>5, <3>7, ImulCopies, CopiesWhole
      <4>3. i.name \in DOMAIN Shifts => MiscGroups(i, f) = c /\ Whole(c)
        BY <1>2, <2>3, <3>4, <3>5, <3>6, ShiftCopies, CopiesWhole
      <4> QED
        BY <3>2, <4>1, <4>2, <4>3
    <3> QED
      BY <1>3, <2>1, <3>1, <3>8 DEF m, c
  <2> QED
    BY <2>5, <2>6
<1>6. CASE i.name \notin {"jmp", "jcc"} /\ i.name \notin CopyNames
  <2>1. c = NONE
    BY <1>6 DEF O32Copy, CopyNames
  <2> QED
    BY <1>2, <2>1
<1> QED
  BY <1>4, <1>5, <1>6

\* Behind o32 alone the misc encoder is asked first, and no prefix stands in front.
LEMMA O32IsAskedFirst ==
  ASSUME NEW i, NEW e, EncodeMiscPrefixedInstruction(i, O32Alone, e) # NONE
  PROVE  /\ EncodeSized(<<"o32">>, i, e) = EncodeMiscPrefixedInstruction(i, O32Alone, e)
         /\ Exec(<<"o32">>, i, e) = Behind(<<>>, EncodeSized(<<"o32">>, i, e))
<1> DEFINE p == <<"o32">>
           misc == EncodeMiscPrefixedInstruction(i, O32Alone, e)
           sized == EncodeFirstPrefix(Head(p), Tail(p), i, e)
<1>1. p # <<>> /\ p # <<"o32", "a16", "o16">> /\ Head(p) = "o32" /\ Tail(p) = <<>> /\ DOMAIN p = {1} /\ p[1] = "o32"
  OBVIOUS
<1>2. Tail(p) \in Follow[Head(p)]
  BY <1>1 DEF Follow, FollowO32
<1>3. Forces(p) = O32Alone
  BY <1>1 DEF Forces, ForcePrefixes, O32Alone
<1>4. "o32" # "lock" /\ "o32" \notin DOMAIN Repeats
  BY DEF Repeats
<1> HIDE DEF p
<1>5. EncodeSized(p, i, e) = OrElse(EncodeMiscPrefixedInstruction(i, Forces(p), e), OrElse(sized, FAIL))
  BY <1>1, <1>2 DEF EncodeSized
<1>6. EncodeSized(p, i, e) = misc
  BY <1>3, <1>5 DEF OrElse
<1>7. Exec(p, i, e) = Behind(<<>>, EncodeSized(p, i, e))
  BY <1>1, <1>4 DEF Exec
<1> QED
  BY <1>6, <1>7 DEF p

\* What stands behind o32 alone is encoded by two pieces of code, of which one is never
\* reached: wherever the unreached one has an answer, it is the answer of the other.
THEOREM CopiesCorrect == Spec => []CopiesAgree
<1>1. Answered => CopiesAgree
  <2> DEFINE copy == O32Copy(Inst, InPass2)
             misc == EncodeMiscPrefixedInstruction(Inst, O32Alone, InPass2)
  <2> SUFFICES ASSUME Answered, stmt.prefixes = <<"o32">>, Done,
                      O32Copy(Inst, [addr |-> addr, last |-> TRUE, cached |-> 0]).size > 0
               PROVE  O32Copy(Inst, [addr |-> addr, last |-> TRUE, cached |-> 0]) = last
    BY DEF CopiesAgree
  <2>1. /\ IsInstruction(stmt.i) /\ addr \in Int /\ gap \in Int /\ first.size \in Int
        /\ last = Exec(<<"o32">>, Inst, InPass2) /\ ~(last.size < 0)
    BY DEF Answered, IsStatement
  <2>2. InPass2 = [addr |-> addr, last |-> TRUE, cached |-> 0]
    BY DEF InPass2, Remembered
  <2>3. Label \in Int
    BY <2>1 DEF Label
  <2>4. IsInstruction(Inst)
    BY <2>1, <2>3, WithLabelIsInstruction DEF Inst
  <2>5. IsPlace(InPass2) /\ InPass2.last
    BY <2>1, <2>2, 0 \in Int DEF IsPlace
  <2>6. copy.size > 0
    BY <2>2
  <2>7. misc = copy /\ Whole(copy)
    BY <2>4, <2>5, <2>6, CopiesAnswer
  <2>8. copy # NONE
    BY <2>6 DEF NONE, Out
  <2>9. last = Behind(<<>>, copy) /\ EncodeSized(<<"o32">>, Inst, InPass2) = copy
    BY <2>1, <2>7, <2>8, O32IsAskedFirst
  <2>10. copy.bytes \in Bytes /\ copy.size \in Int
    <3>1. <<"o32">> # <<>> /\ Head(<<"o32">>) \in SizePrefixes
      BY DEF SizePrefixes
    <3>2. Fits(copy, InPass2, Extra(Inst))
      BY <2>4, <2>5, <2>9, <3>1, SizedFits
    <3> HIDE DEF copy
    <3> QED
      BY <2>5, <2>6, <3>2 DEF Fits
  <2> HIDE DEF copy
  <2>11. last = copy
    <3>1. <<>> \o copy.bytes = copy.bytes /\ Len(<<>>) = 0
      BY <2>10, Nothing
    <3>2. last = Out(copy.bytes, copy.size)
      BY <2>6, <2>9, <2>10, <3>1 DEF Behind
    <3> QED
      BY <2>7, <3>2 DEF Whole
  <2> QED
    BY <2>2, <2>11 DEF copy
<1> QED
  BY <1>1, AnsweredInvariant, PTL DEF Spec
=============================================================================
