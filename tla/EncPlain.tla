------------------------------ MODULE EncPlain ------------------------------
(***************************************************************************)
(* The encoders of src/langs/i386/main.c for instructions without operands *)
(* behind prefixes, and for those with a condition in their name.          *)
(*                                                                         *)
(* An instruction is a record [name, cond, args]: "jcc" and "setcc" stand  *)
(* for the names that end in the condition cond.  op and a32 are the       *)
(* operand size prefix and the address size prefix that are forced, o16    *)
(* whether an o16 takes the operand size prefix away.                      *)
(***************************************************************************)
EXTENDS EncOperand

EmitPrefixedZeroOpByte(i, opcode, op, a32) ==
  Check(i.args = <<>>, Out(ForcedPrefixPair(op, a32) \o <<opcode>>, 1 + ForcedPrefixPairLen(op, a32)))

EmitPrefixedZeroOp0F(i, opcode, op, a32) ==
  Check(i.args = <<>>,
        Out(ForcedPrefixPair(op, a32) \o <<\h0F, opcode>>, 2 + ForcedPrefixPairLen(op, a32)))

\* cwde is cwd's byte with the other operand size.
EmitPrefixedConvert(i, op, a32, o16) ==
  CASE i.name = "cwd"  -> EmitPrefixedZeroOpByte(i, \h99, op, a32)
    [] i.name = "cwde" -> EmitPrefixedZeroOpByte(i, \h98, op \/ ~o16, a32)
    [] OTHER -> NONE

EmitPrefixedDecimalAdjust(i, op, a32) ==
  CASE i.name = "daa" -> EmitPrefixedZeroOpByte(i, \h27, op, a32)
    [] i.name = "das" -> EmitPrefixedZeroOpByte(i, \h2F, op, a32)
    [] OTHER -> NONE

FlagOpcode ==
  [clc |-> \hF8, stc |-> \hF9, cld |-> \hFC, std |-> \hFD, cli |-> \hFA, sti |-> \hFB,
   cmc |-> \hF5, lahf |-> \h9F, sahf |-> \h9E, hlt |-> \hF4]

EmitPrefixedFlagControl(i, op, a32) ==
  CASE i.name \in DOMAIN FlagOpcode -> EmitPrefixedZeroOpByte(i, FlagOpcode[i.name], op, a32)
    [] i.name = "clts" -> EmitPrefixedZeroOp0F(i, \h06, op, a32)
    [] OTHER -> NONE

----------------------------------------------------------------------------
(* Strings: names are those of any width, of a byte, a word and a dword.   *)
(* The opcode is the byte's.  The dword asks for the operand size prefix.  *)

StringOp(i, names, opcode, op, a32, o16) ==
  CASE i.name \notin names.any \cup {names.byte, names.word, names.dword} -> NONE
    [] OTHER ->
         EmitPrefixedZeroOpByte(i, IF i.name = names.byte THEN opcode ELSE opcode + 1,
                                op \/ (i.name = names.dword /\ ~o16), a32)

Cmps == [any |-> {"cmps"}, byte |-> "cmpsb", word |-> "cmpsw", dword |-> "cmpsd"]
Scas == [any |-> {"scas"}, byte |-> "scasb", word |-> "scasw", dword |-> "scasd"]
Movs == [any |-> {"movs"}, byte |-> "movsb", word |-> "movsw", dword |-> "movsd"]
Lods == [any |-> {"lods"}, byte |-> "lodsb", word |-> "lodsw", dword |-> "lodsd"]
Stos == [any |-> {"stos"}, byte |-> "stosb", word |-> "stosw", dword |-> "stosd"]
Ins  == [any |-> {}, byte |-> "insb", word |-> "insw", dword |-> "insd"]
Outs == [any |-> {}, byte |-> "outsb", word |-> "outsw", dword |-> "outsd"]

StringNames(s) == s.any \cup {s.byte, s.word, s.dword}

EmitPrefixedCmps(i, op, a32)      == StringOp(i, Cmps, \hA6, op, a32, FALSE)
EmitPrefixedScas(i, op, a32, o16) == StringOp(i, Scas, \hAE, op, a32, o16)
EmitPrefixedMovs(i, op, a32, o16) == StringOp(i, Movs, \hA4, op, a32, o16)
EmitPrefixedLods(i, op, a32, o16) == StringOp(i, Lods, \hAC, op, a32, o16)
EmitPrefixedStos(i, op, a32, o16) == StringOp(i, Stos, \hAA, op, a32, o16)
EmitPrefixedIns(i, op, a32, o16)  == StringOp(i, Ins, \h6C, op, a32, o16)
EmitPrefixedOuts(i, op, a32, o16) == StringOp(i, Outs, \h6E, op, a32, o16)

----------------------------------------------------------------------------
(* Interrupts, aad and aam                                                 *)

EmitPrefixedInterrupt(i, op, a32, o16) ==
  CASE i.name = "into"  -> EmitPrefixedZeroOpByte(i, \hCE, op, a32)
    [] i.name = "iret"  -> EmitPrefixedZeroOpByte(i, \hCF, op, a32)
    [] i.name = "iretd" -> EmitPrefixedZeroOpByte(i, \hCF, ~o16, a32)
    [] i.name = "int"   ->
         Check(Len(i.args) = 1 /\ i.args[1].kind = "IMM" /\ FitsU8(i.args[1].imm),
               Out(ForcedPrefixPair(op, a32) \o <<\hCD>> \o Byte(i.args[1].imm),
                   2 + ForcedPrefixPairLen(op, a32)))
    [] OTHER -> NONE

\* The base is ten unless the operand says another.
EmitPrefixedAsciiImm(i, opcode, op, a32) ==
  LET base == IF i.args = <<>> THEN 10 ELSE i.args[1].imm
  IN Check(\/ i.args = <<>>
           \/ Len(i.args) = 1 /\ i.args[1].kind = "IMM" /\ FitsU16(i.args[1].imm),
           Out(ForcedPrefixPair(op, a32) \o <<opcode>> \o Byte(base),
               2 + ForcedPrefixPairLen(op, a32)))

----------------------------------------------------------------------------
(* Conditions: the four bits that both jcc and setcc end in                *)

Conditions ==
  << {"o"}, {"no"}, {"b", "c", "nae"}, {"nb", "ae", "nc"}, {"e", "z"}, {"ne", "nz"},
     {"be", "na"}, {"a", "nbe"}, {"s"}, {"ns"}, {"p", "pe"}, {"np", "po"},
     {"l", "nge"}, {"ge", "nl"}, {"le", "ng"}, {"g", "nle"} >>

\* The name of a jcc or a setcc is what it does and a condition.
Condition(c) == CHOOSE n \in 0..15 : c \in Conditions[n + 1]

JccOpcodesFromName(c)   == [short |-> \h70 + Condition(c), near |-> \h80 + Condition(c)]
SetccOpcodeFromName(c)  == \h90 + Condition(c)

EncodePrefixedSetcc(i, opcode, f) ==
  IF Len(i.args) # 1 THEN FAIL
  ELSE LET d == Forced(i.args[1], f)
       IN Check(/\ AddressSizeAgrees(d, f)
                /\ d.kind = "REG8" \/ MemorySizeMatches(d, 1),
                ForcedForm(f.o32, f.a32, <<\h0F, opcode>>, 0, d, 3))
=============================================================================
