------------------------------- MODULE Decoder -------------------------------
(***************************************************************************)
(* The opcode map of the 386 in real mode, read the other way round: what  *)
(* the processor makes of a sequence of bytes.  It says what the encoders  *)
(* have to mean, and nothing in it is taken from them.                     *)
(*                                                                         *)
(* An entry of the map is a name and the codes of its operands: E is the   *)
(* register or memory of the ModR/M byte, G its other register, M memory   *)
(* alone, S a segment register, Z a register in the opcode, I an immediate,*)
(* J a displacement from the end of the instruction, O an address without  *)
(* ModR/M; b is a byte, w a word, v a word or a dword by the operand size, *)
(* s a byte that is sign-extended, 0 of no size.                           *)
(***************************************************************************)
EXTENDS EncOperand

PrefixBytes == {\h26, \h2E, \h36, \h3E, \h64, \h65, \h66, \h67, \hF0, \hF2, \hF3}

\* The number of prefixes.
Prefixed(b) == CHOOSE n \in 0..Len(b) : /\ \A k \in 1..n : b[k] \in PrefixBytes
                                        /\ n < Len(b) => b[n + 1] \notin PrefixBytes

Group1 == <<"add", "or", "adc", "sbb", "and", "sub", "xor", "cmp">>
Group2 == <<"rol", "ror", "rcl", "rcr", "shl", "shr", "", "sar">>
Group3 == <<"test", "", "not", "neg", "mul", "imul", "div", "idiv">>
Group5 == <<"inc", "dec", "call", "callf", "jmp", "jmpf", "push", "">>
Group6 == <<"sldt", "str", "lldt", "ltr", "verr", "verw", "", "">>
Group7 == <<"sgdt", "sidt", "lgdt", "lidt", "smsw", "", "lmsw", "">>
Group8 == <<"", "", "", "", "bt", "bts", "btr", "btc">>

Segment == <<"es", "cs", "ss", "ds">>
Bad == <<"", <<>>>>
VSuffix(x) == IF x % 2 = 0 THEN "b" ELSE "v"
Erm(x)     == IF x % 2 = 0 THEN "Eb" ELSE "Ev"

\* g is the register field of the byte behind the opcode.
LowMap(x, g) ==
  CASE x < \h40 /\ x % 8 < 6 ->
         <<Group1[x \div 8 + 1],
           << <<"Eb", "Gb">>, <<"Ev", "Gv">>, <<"Gb", "Eb">>, <<"Gv", "Ev">>,
              <<"al", "Ib">>, <<"ax", "Iv">> >>[(x % 8) + 1]>>
    [] x < \h20 /\ x % 8 = 6 -> <<"push", <<Segment[x \div 8 + 1]>>>>
    [] x < \h20 /\ x % 8 = 7 -> <<"pop", <<Segment[x \div 8 + 1]>>>>
    [] x \in {\h27, \h2F, \h37, \h3F} ->
         <<<<"daa", "das", "aaa", "aas">>[(x - \h27) \div 8 + 1], <<>>>>
    [] x \in \h40..\h5F -> <<<<"inc", "dec", "push", "pop">>[(x - \h40) \div 8 + 1], <<"Zv">>>>
    [] x \in \h60..\h61 -> <<<<"pusha", "popa">>[x - \h5F], <<"v">>>>
    [] x = \h62 -> <<"bound", <<"Gv", "M0">>>>
    [] x = \h63 -> <<"arpl", <<"Ew", "Gw">>>>
    [] x = \h68 -> <<"push", <<"Iv">>>>
    [] x = \h69 -> <<"imul", <<"Gv", "Ev", "Iv">>>>
    [] x = \h6A -> <<"push", <<"Is">>>>
    [] x = \h6B -> <<"imul", <<"Gv", "Ev", "Is">>>>
    [] x \in \h6C..\h6F -> <<<<"ins", "outs">>[(x - \h6C) \div 2 + 1], <<VSuffix(x)>>>>
    [] x \in \h70..\h7F -> <<"jcc", <<"Jb">>>>
    [] OTHER -> Bad

MidMap(x, g) ==
  CASE x \in {\h80, \h81} -> <<Group1[g + 1], <<<<"Eb", "Ib">>, <<"Ev", "Iv">>>>[x - \h7F]>>
    [] x = \h83 -> <<Group1[g + 1], <<"Ev", "Is">>>>
    [] x \in \h84..\h85 -> <<"test", <<<<"Eb", "Gb">>, <<"Ev", "Gv">>>>[x - \h83]>>
    [] x \in \h86..\h87 -> <<"xchg", <<<<"Eb", "Gb">>, <<"Ev", "Gv">>>>[x - \h85]>>
    [] x \in \h88..\h8B ->
         <<"mov", << <<"Eb", "Gb">>, <<"Ev", "Gv">>, <<"Gb", "Eb">>, <<"Gv", "Ev">> >>[x - \h87]>>
    [] x = \h8C -> <<"mov", <<"Ew", "Sw">>>>
    [] x = \h8D -> <<"lea", <<"Gv", "M0">>>>
    [] x = \h8E -> <<"mov", <<"Sw", "Ew">>>>
    [] x = \h8F -> <<"pop", <<"Ev">>>>
    [] x = \h90 -> <<"nop", <<>>>>
    [] x \in \h91..\h97 -> <<"xchg", <<"ax", "Zv">>>>
    [] x \in \h98..\h99 -> <<<<"cbw", "cwd">>[x - \h97], <<"v">>>>
    [] x = \h9A -> <<"callf", <<"Ap">>>>
    [] x = \h9B -> <<"wait", <<>>>>
    [] x \in \h9C..\h9D -> <<<<"pushf", "popf">>[x - \h9B], <<"v">>>>
    [] x \in \h9E..\h9F -> <<<<"sahf", "lahf">>[x - \h9D], <<>>>>
    [] x \in \hA0..\hA3 ->
         <<"mov", << <<"al", "Ob">>, <<"ax", "Ov">>, <<"Ob", "al">>, <<"Ov", "ax">> >>[x - \h9F]>>
    [] x \in \hA8..\hA9 -> <<"test", << <<"al", "Ib">>, <<"ax", "Iv">> >>[x - \hA7]>>
    [] x \in \hA4..\hAF \ {\hA8, \hA9} ->
         <<<<"movs", "cmps", "", "stos", "lods", "scas">>[(x - \hA4) \div 2 + 1], <<VSuffix(x)>>>>
    [] x \in \hB0..\hB7 -> <<"mov", <<"Zb", "Ib">>>>
    [] x \in \hB8..\hBF -> <<"mov", <<"Zv", "Iv">>>>
    [] OTHER -> Bad

HighMap(x, g) ==
  CASE x \in \hC0..\hC1 -> <<Group2[g + 1], <<Erm(x), "Ib">>>>
    [] x \in {\hC2, \hCA} -> <<IF x = \hC2 THEN "ret" ELSE "retf", <<"Iw">>>>
    [] x \in {\hC3, \hCB} -> <<IF x = \hC3 THEN "ret" ELSE "retf", <<>>>>
    [] x \in \hC4..\hC5 -> <<<<"les", "lds">>[x - \hC3], <<"Gv", "M0">>>>
    [] x \in \hC6..\hC7 -> <<IF g = 0 THEN "mov" ELSE "", <<<<"Eb", "Ib">>, <<"Ev", "Iv">>>>[x - \hC5]>>
    [] x = \hC8 -> <<"enter", <<"Iw", "Ib">>>>
    [] x = \hC9 -> <<"leave", <<>>>>
    [] x = \hCD -> <<"int", <<"Ib">>>>
    [] x = \hCE -> <<"into", <<>>>>
    [] x = \hCF -> <<"iret", <<"v">>>>
    [] x \in \hD0..\hD1 -> <<Group2[g + 1], <<Erm(x), "1">>>>
    [] x \in \hD2..\hD3 -> <<Group2[g + 1], <<Erm(x), "cl">>>>
    [] x \in \hD4..\hD5 -> <<<<"aam", "aad">>[x - \hD3], <<"Ib">>>>
    [] x = \hD7 -> <<"xlat", <<>>>>
    [] x \in \hD8..\hDF -> <<"esc", <<"E0">>>>
    [] x \in \hE0..\hE3 -> <<<<"loopne", "loope", "loop", "jcxz">>[x - \hDF], <<"Jb">>>>
    [] x \in \hE4..\hE5 -> <<"in", <<<<"al", "ax">>[x - \hE3], "Ib">>>>
    [] x \in \hE6..\hE7 -> <<"out", <<"Ib", <<"al", "ax">>[x - \hE5]>>>>
    [] x \in \hEC..\hED -> <<"in", <<<<"al", "ax">>[x - \hEB], "dx">>>>
    [] x \in \hEE..\hEF -> <<"out", <<"dx", <<"al", "ax">>[x - \hED]>>>>
    [] x \in \hE8..\hE9 -> <<<<"call", "jmp">>[x - \hE7], <<"Jv">>>>
    [] x = \hEA -> <<"jmpf", <<"Ap">>>>
    [] x = \hEB -> <<"jmp", <<"Jb">>>>
    [] x = \hF4 -> <<"hlt", <<>>>>
    [] x = \hF5 -> <<"cmc", <<>>>>
    [] x \in \hF6..\hF7 /\ g = 0 -> <<"test", <<<<"Eb", "Ib">>, <<"Ev", "Iv">>>>[x - \hF5]>>
    [] x \in \hF6..\hF7 /\ g # 0 -> <<Group3[g + 1], <<Erm(x)>>>>
    [] x \in \hF8..\hFD -> <<<<"clc", "stc", "cli", "sti", "cld", "std">>[x - \hF7], <<>>>>
    [] x \in \hFE..\hFF ->
         <<IF x = \hFE /\ g > 1 THEN "" ELSE Group5[g + 1],
           <<IF g \in {3, 5} THEN "M0" ELSE Erm(x)>>>>
    [] OTHER -> Bad

\* Behind 0F.
TwoByteMap(x, g) ==
  CASE x = \h00 -> <<Group6[g + 1], <<IF g < 2 THEN "Et" ELSE "Ew">>>>
    [] x = \h01 -> <<Group7[g + 1], <<CASE g < 4 -> "M0" [] g = 4 -> "Et" [] g > 4 -> "Ew">>>>
    [] x \in \h02..\h03 -> <<<<"lar", "lsl">>[x - 1], <<"Gv", "E0">>>>
    [] x = \h06 -> <<"clts", <<>>>>
    [] x \in {\h20, \h21, \h24} -> <<"mov", <<"Rd", <<"CR", "DR", "", "", "TR">>[x - \h1F]>>>>
    [] x \in {\h22, \h23, \h26} -> <<"mov", <<<<"CR", "DR", "", "", "TR">>[x - \h21], "Rd">>>>
    [] x \in \h80..\h8F -> <<"jcc", <<"Jv">>>>
    [] x \in \h90..\h9F -> <<"setcc", <<"Eb">>>>
    [] x \in {\hA0, \hA8} -> <<"push", <<IF x = \hA0 THEN "fs" ELSE "gs">>>>
    [] x \in {\hA1, \hA9} -> <<"pop", <<IF x = \hA1 THEN "fs" ELSE "gs">>>>
    [] x \in {\hA3, \hAB, \hB3, \hBB} ->
         <<<<"bt", "bts", "btr", "btc">>[(x - \hA3) \div 8 + 1], <<"Ev", "Gv">>>>
    [] x \in {\hA4, \hAC} -> <<IF x = \hA4 THEN "shld" ELSE "shrd", <<"Ev", "Gv", "Ib">>>>
    [] x \in {\hA5, \hAD} -> <<IF x = \hA5 THEN "shld" ELSE "shrd", <<"Ev", "Gv", "cl">>>>
    [] x = \hAF -> <<"imul", <<"Gv", "Ev">>>>
    [] x = \hB2 -> <<"lss", <<"Gv", "M0">>>>
    [] x \in \hB4..\hB5 -> <<<<"lfs", "lgs">>[x - \hB3], <<"Gv", "M0">>>>
    [] x \in {\hB6, \hB7} -> <<"movzx", <<"Gv", <<"Eb", "Ew">>[x - \hB5]>>>>
    [] x \in {\hBE, \hBF} -> <<"movsx", <<"Gv", <<"Eb", "Ew">>[x - \hBD]>>>>
    [] x = \hBA -> <<Group8[g + 1], <<"Ev", "Ib">>>>
    [] x \in \hBC..\hBD -> <<<<"bsf", "bsr">>[x - \hBB], <<"Gv", "Ev">>>>
    [] OTHER -> Bad

----------------------------------------------------------------------------
(* Reading                                                                 *)

\* Bytes that are missing are read as 0, and the length tells.
At(b, k) == IF k \in DOMAIN b THEN b[k] ELSE 0
Value(b, k, n) ==
  CASE n = 1 -> At(b, k)
    [] n = 2 -> At(b, k) + BYTE * At(b, k + 1)
    [] n = 4 -> At(b, k) + BYTE * At(b, k + 1) + WORD * (At(b, k + 2) + BYTE * At(b, k + 3))
    [] OTHER -> 0
ValuesOf(n) == CASE n = 1 -> BYTE [] n = 2 -> WORD [] n = 4 -> DWORD
Signed(v, n) == IF v >= ValuesOf(n) \div 2 THEN v - ValuesOf(n) ELSE v

ModrmCodes == {"Eb", "Ev", "Ew", "E0", "Et", "Gb", "Gv", "Gw", "M0", "Sw", "Rd", "CR", "DR", "TR"}

\* The memory operand whose ModR/M byte is b[k], and how many bytes it has behind it.
Memory16(b, k) ==
  LET mod == b[k] \div 64
      rm  == b[k] % 8
      direct == mod = 0 /\ rm = 6
      n == IF direct THEN 2 ELSE mod
  IN [tail |-> n, rm |-> IF direct THEN 8 ELSE rm, base |-> -1, index |-> -1, scale |-> 0,
      disp |-> IF n = 0 THEN 0 ELSE Signed(Value(b, k + 1, n), n)]

Memory32(b, k) ==
  LET mod == b[k] \div 64
      sib == b[k] % 8 = 4
      s   == At(b, k + 1)
      low == IF sib THEN s % 8 ELSE b[k] % 8
      no_base == mod = 0 /\ low = 5
      index == IF sib /\ (s \div 8) % 8 # 4 THEN (s \div 8) % 8 ELSE -1
      at == k + 1 + (IF sib THEN 1 ELSE 0)
      n == IF no_base \/ mod = 2 THEN 4 ELSE mod
  IN [tail |-> n + (IF sib THEN 1 ELSE 0), rm |-> -1, base |-> IF no_base THEN -1 ELSE low,
      index |-> index, scale |-> IF index < 0 THEN 0 ELSE s \div 64,
      disp |-> IF n = 0 THEN 0 ELSE Signed(Value(b, at, n), n)]

Register(kind, size, n) == [kind |-> kind, size |-> size, reg |-> n]
General(size, n) ==
  Register(CASE size = 1 -> "REG8" [] size = 2 -> "REG16" [] size = 4 -> "REG32" [] size = 0 -> "REG",
           size, n)
Immediate(size, v) == [kind |-> "IMM", size |-> size, imm |-> v]

Decode(b) ==
  LET n == Prefixed(b)
      Has(x) == \E k \in 1..n : b[k] = x
      osz == IF Has(\h66) THEN 4 ELSE 2
      asz == IF Has(\h67) THEN 4 ELSE 2
      two == At(b, n + 1) = \h0F
      at  == IF two THEN n + 2 ELSE n + 1
      x   == At(b, at)
      m   == At(b, at + 1)
      g   == (m \div 8) % 8
      entry == IF two THEN TwoByteMap(x, g)
               ELSE CASE x < \h80 -> LowMap(x, g)
                      [] x \in \h80..\hBF -> MidMap(x, g)
                      [] x > \hBF -> HighMap(x, g)
      codes == entry[2]
      modrm == \E k \in DOMAIN codes : codes[k] \in ModrmCodes
      in_memory == modrm /\ m < \hC0
      memory == IF asz = 4 THEN Memory32(b, at + 1) ELSE Memory16(b, at + 1)
      start == at + 1 + (IF modrm THEN 1 ELSE 0) + (IF in_memory THEN memory.tail ELSE 0)
      ImmLen(code) == CASE code \in {"Ib", "Is", "Jb"} -> 1
                        [] code = "Iw" -> 2
                        [] code \in {"Iv", "Jv"} -> osz
                        [] code \in {"Ob", "Ov"} -> asz
                        [] code = "Ap" -> osz + 2
                        [] OTHER -> 0
      Len1(k) == IF k \in DOMAIN codes THEN ImmLen(codes[k]) ELSE 0
      Offset(k) == start + (IF k > 1 THEN Len1(1) ELSE 0) + (IF k > 2 THEN Len1(2) ELSE 0)
      Seg == IF \E k \in 1..n : b[k] \in {SegmentPrefixes[j] : j \in 1..6}
             THEN (CHOOSE j \in 1..6 : Has(SegmentPrefixes[j])) - 1 ELSE -1
      Mem(size) == [kind |-> "MEM", size |-> size, asz |-> asz, seg |-> Seg, at |-> memory]
      RegOrMem(reg_size, mem_size) ==
        IF in_memory THEN Mem(mem_size) ELSE General(reg_size, m % 8)
      ReadOperand(k) ==
        LET code == codes[k]
            v == Value(b, Offset(k), Len1(k))
        IN CASE code = "Eb" -> RegOrMem(1, 1)
             [] code = "Ew" -> RegOrMem(2, 2)
             [] code = "Ev" -> RegOrMem(osz, osz)
             [] code = "Et" -> RegOrMem(osz, 2)
             [] code = "E0" -> RegOrMem(0, 0)
             [] code = "M0" -> RegOrMem(0, 0)
             [] code = "Gb" -> General(1, g)
             [] code = "Gw" -> General(2, g)
             [] code = "Gv" -> General(osz, g)
             [] code = "Zb" -> General(1, x % 8)
             [] code = "Zv" -> General(osz, x % 8)
             [] code = "Rd" -> General(4, m % 8)
             [] code = "Sw" -> Register("SEG", 2, g)
             [] code \in {"CR", "DR", "TR"} -> Register(code, 4, g)
             [] code = "al" -> General(1, 0)
             [] code = "cl" -> General(1, 1)
             [] code = "ax" -> General(osz, 0)
             [] code = "dx" -> General(2, 2)
             [] code = "es" -> Register("SEG", 2, 0)
             [] code = "cs" -> Register("SEG", 2, 1)
             [] code = "ss" -> Register("SEG", 2, 2)
             [] code = "ds" -> Register("SEG", 2, 3)
             [] code = "fs" -> Register("SEG", 2, 4)
             [] code = "gs" -> Register("SEG", 2, 5)
             [] code = "1"  -> Immediate(1, 1)
             [] code = "Ib" -> Immediate(1, v)
             [] code = "Is" -> Immediate(osz, Signed(v, 1))
             [] code = "Iw" -> Immediate(2, v)
             [] code = "Iv" -> Immediate(osz, v)
             [] code \in {"Jb", "Jv"} -> Immediate(0, Signed(v, Len1(k)))
             [] code \in {"Ob", "Ov"} ->
                  [kind |-> "MEM", size |-> IF code = "Ob" THEN 1 ELSE osz, asz |-> asz, seg |-> Seg,
                   at |-> [tail |-> 0, rm |-> IF asz = 2 THEN 8 ELSE -1, base |-> -1, index |-> -1,
                           scale |-> 0, disp |-> Signed(v, asz)]]
             [] code = "Ap" -> [kind |-> "FAR", size |-> osz, imm |-> Value(b, start, osz),
                                seg |-> Value(b, start + osz, 2)]
      width == CASE codes = <<"b">> -> 1 [] codes = <<"v">> -> osz [] OTHER -> 0
  IN [name |-> IF (\E k \in DOMAIN codes : codes[k] = "M0") /\ ~in_memory THEN "" ELSE entry[1],
      ops |-> IF width # 0 THEN <<>> ELSE [k \in DOMAIN codes |-> ReadOperand(k)],
      width |-> width,
      number |-> CASE entry[1] \in {"jcc", "setcc"} -> x % 16
                   [] entry[1] = "esc" -> 8 * (x - \hD8) + g
                   [] OTHER -> -1,
      osz |-> osz, asz |-> asz,
      guards |-> {b[k] : k \in 1..n} \cap {\hF0, \hF2, \hF3},
      len |-> start - 1 + Len1(1) + Len1(2) + Len1(3)]
=============================================================================
