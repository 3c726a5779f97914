----------------------------- MODULE ExecMeaning -----------------------------
(***************************************************************************)
(* What the bytes of a statement of Exec386 mean to the processor: read by *)
(* the opcode map of the 386 they are the instruction the statement names. *)
(***************************************************************************)
EXTENDS Exec386, Decoder

----------------------------------------------------------------------------
(* What the processor should read                                          *)

Synonym ==
  [retn |-> "ret", sal |-> "shl", loopz |-> "loope", loopnz |-> "loopne", jecxz |-> "jcxz",
   fwait |-> "wait", xlatb |-> "xlat"]

\* Instructions without operands whose name says how wide they are.
Width ==
  [pusha |-> <<"pusha", 2>>, pushaw |-> <<"pusha", 2>>, pushad |-> <<"pusha", 4>>,
   popa |-> <<"popa", 2>>, popaw |-> <<"popa", 2>>, popad |-> <<"popa", 4>>,
   pushf |-> <<"pushf", 2>>, pushfd |-> <<"pushf", 4>>, popf |-> <<"popf", 2>>,
   popfd |-> <<"popf", 4>>, iret |-> <<"iret", 2>>, iretd |-> <<"iret", 4>>,
   cbw |-> <<"cbw", 2>>, cwde |-> <<"cbw", 4>>, cwd |-> <<"cwd", 2>>, cdq |-> <<"cwd", 4>>,
   movs |-> <<"movs", 2>>, movsb |-> <<"movs", 1>>, movsw |-> <<"movs", 2>>, movsd |-> <<"movs", 4>>,
   cmps |-> <<"cmps", 2>>, cmpsb |-> <<"cmps", 1>>, cmpsw |-> <<"cmps", 2>>, cmpsd |-> <<"cmps", 4>>,
   scas |-> <<"scas", 2>>, scasb |-> <<"scas", 1>>, scasw |-> <<"scas", 2>>, scasd |-> <<"scas", 4>>,
   lods |-> <<"lods", 2>>, lodsb |-> <<"lods", 1>>, lodsw |-> <<"lods", 2>>, lodsd |-> <<"lods", 4>>,
   stos |-> <<"stos", 2>>, stosb |-> <<"stos", 1>>, stosw |-> <<"stos", 2>>, stosd |-> <<"stos", 4>>,
   insb |-> <<"ins", 1>>, insw |-> <<"ins", 2>>, insd |-> <<"ins", 4>>,
   outsb |-> <<"outs", 1>>, outsw |-> <<"outs", 2>>, outsd |-> <<"outs", 4>>]

\* The width a prefix in front gives what is a word or a dword.
Forcing(size) == IF size \notin {2, 4} THEN size
                 ELSE IF Asked.o32 THEN 4 ELSE IF Asked.o16 THEN 2 ELSE size

SameSize(asked, read) == asked = 0 \/ read \in {0, asked, Forcing(asked)}

SameAddress(m, x) ==
  /\ x.seg = m.seg_override
  /\ x.asz = m.addr_size
  /\ IF m.addr_size = 2
     THEN x.at.rm = IF m.direct THEN 8 ELSE m.rm
     ELSE /\ x.at.base = m.base /\ x.at.index = m.index
          /\ m.index >= 0 => x.at.scale = m.scale
  /\ (x.at.disp - (IF m.has_disp THEN m.disp ELSE 0)) % ValuesOf(m.addr_size) = 0

\* x is what the processor reads where the statement has o.
Reads(o, x) ==
  CASE o.kind \in GPR -> x.kind \in GPR \cup {"REG"} /\ x.reg = o.reg /\ SameSize(o.size, x.size)
    [] o.kind \in {"SEG", "CR", "DR", "TR"} -> x.kind = o.kind /\ x.reg = o.reg
    [] o.kind = "MEM" -> x.kind = "MEM" /\ SameSize(o.size, x.size) /\ SameAddress(o.mem, x)
    [] o.kind = "FAR" -> /\ x.kind = "FAR" /\ x.size = (IF o.size = 0 THEN 2 ELSE o.size)
                         /\ (x.imm - o.imm) % ValuesOf(x.size) = 0 /\ (x.seg - o.seg) % WORD = 0
    [] o.kind = "IMM" -> /\ x.kind = "IMM"
                         /\ \/ x.size = 0 /\ addr + Len(last.bytes) + x.imm = o.imm
                            \/ /\ x.size # 0
                               /\ (x.imm - o.imm) % ValuesOf(IF o.size = 1 THEN 1 ELSE x.size) = 0

\* The operands as the processor has them.
Operands ==
  LET own == [n \in DOMAIN Inst.args |->
                LET a == Inst.args[n]
                    o == IF "o" \in DOMAIN a THEN a.o ELSE a
                IN Forced(IF Inst.name = "lea" THEN LeaSource(o) ELSE o, Asked)]
  IN CASE Inst.name = "imul" /\ Len(own) = 2 /\ own[2].kind = "IMM" -> <<own[1], own[1], own[2]>>
       [] Inst.name \in {"aad", "aam"} /\ own = <<>> -> <<Immediate(1, 10)>>
       [] Inst.name = "esc" -> <<own[2]>>
       [] OTHER -> own

SameName(x) ==
  CASE Inst.name \in DOMAIN Width ->
         x.name = Width[Inst.name][1] /\ x.width = Forcing(Width[Inst.name][2])
    [] Inst.name \in {"jmp", "call"} /\ Inst.args[1].dist = "far" ->
         x.name = IF Inst.name = "jmp" THEN "jmpf" ELSE "callf"
    [] Inst.name \in {"jcc", "setcc"} -> x.name = Inst.name /\ x.number = Condition(Inst.cond)
    [] Inst.name = "esc" -> x.name = "esc" /\ x.number = Inst.args[1].imm
    [] Inst.name \in DOMAIN Synonym -> x.name = Synonym[Inst.name]
    [] OTHER -> x.name = Inst.name

\* In either order for the two instructions that do not care.
SameOperands(ops, x) ==
  /\ Len(x.ops) = Len(ops)
  /\ \E order \in IF Inst.name \in {"xchg", "test"} THEN {<<1, 2>>, <<2, 1>>} ELSE {<<1, 2, 3>>} :
       \A n \in DOMAIN ops : Reads(ops[n], x.ops[order[n]])

\* xchg of the accumulator with itself is nop.
IsNop(ops, x) ==
  Inst.name = "xchg" /\ x.name = "nop" /\ \A n \in 1..2 : ops[n].kind \in R16or32 /\ ops[n].reg = 0

Guards == (IF Has("lock") THEN {\hF0} ELSE {})
            \cup (IF Has("rep") \/ Has("repe") \/ Has("repz") THEN {\hF3} ELSE {})
            \cup (IF Has("repne") \/ Has("repnz") THEN {\hF2} ELSE {})

SamePrefixes(x) ==
  /\ x.guards = Guards
  /\ Asked.o32 => x.osz = 4
  /\ Asked.o16 => x.osz = 2
  /\ Asked.a32 \/ Inst.name = "jecxz" => x.asz = 4
  /\ Asked.a16 => x.asz = 2

----------------------------------------------------------------------------
(* What the encoders are known to get wrong, each part by its own name     *)

HasOperand(Test(_)) == \E ops \in {Operands} : \E n \in DOMAIN ops : Test(ops[n])

\* Behind o32 the immediate of an operand that is not a dword stays a word.
WordImmediate ==
  /\ Asked.o32
  /\ Name({"add", "adc", "sub", "sbb", "cmp", "and", "or", "xor", "test", "mov", "imul", "push"})
  /\ HasOperand(LAMBDA o : o.kind = "IMM")
  /\ ~HasOperand(LAMBDA o : o.kind = "REG8" \/ (o.kind # "IMM" /\ o.size \in {1, 4}))

\* The test for a sign-extended byte behind a prefix is that of a word for a push of a dword too.
DwordPushedAsWord ==
  Name({"push"}) /\ Inst.args[1].kind = "IMM" /\ Inst.args[1].size = 4 /\ stmt.prefixes # <<>>

\* An o16 is not looked at by these where the operand is a dword, nor by a dec behind three.
IgnoresO16 ==
  /\ Asked.o16
  /\ Name({"neg", "not", "mul", "div", "idiv", "imul", "xchg", "or", "sbb", "sub", "test", "dec"})
  /\ Name({"dec"}) => Len(stmt.prefixes) = 3
  /\ HasOperand(LAMBDA o : o.size = 4)

\* Behind two prefixes the displacement is a word although there is an operand size prefix.
NearBehindTwo ==
  /\ Asked.o32 /\ (Asked.a16 \/ Asked.a32)
  /\ Name({"jcc", "jmp"})
  /\ Scalar(Target1) /\ Target1.dist \in {"none", "near"}

\* A far jmp drops its prefixes, and a jmp through memory the o16.
DropsPrefixes ==
  /\ Name({"jmp"}) /\ stmt.prefixes # <<>>
  /\ Target1.dist = "far" \/ (Asked.o16 /\ Target1.ptr)

\* esc has no address prefix without memory, and jecxz is one whatever is asked.
NoAddressPrefix == (Name({"esc"}) /\ Inst.args[2].kind = "REG16" /\ Asked.a32) \/ (Name({"jecxz"}) /\ Asked.a16)

Misread == \/ WordImmediate \/ DwordPushedAsWord \/ IgnoresO16
           \/ NearBehindTwo \/ DropsPrefixes \/ NoAddressPrefix

----------------------------------------------------------------------------

\* The processor reads what the statement says: the bytes, by the opcode map of the
\* 386, are the instruction with its operands, its immediate values as wide as the form
\* has them, its target seen from the end of the instruction, and the prefixes asked for.
ReadsBack ==
  Done /\ ~Misread /\ ~FarDword
  => \E x \in {Decode(last.bytes)}, ops \in {Operands} :
       /\ x.len = Len(last.bytes)
       /\ SamePrefixes(x)
       /\ IsNop(ops, x) \/ (SameName(x) /\ SameOperands(ops, x))
=============================================================================
