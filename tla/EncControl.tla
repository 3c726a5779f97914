----------------------------- MODULE EncControl -----------------------------
(***************************************************************************)
(* The encoders of src/langs/i386/main.c for jumps, calls, returns and     *)
(* loops.                                                                  *)
(*                                                                         *)
(* Their operand is a target, a record [dist, ptr, o]: dist the word in    *)
(* front of it ("short", "near", "far" or none), ptr whether "ptr" follows *)
(* and o what follows that: an operand, or a far address of kind "FAR"     *)
(* whose offset is imm and whose segment is seg.  o.size is the size       *)
(* written before ptr, 0 if there is none.  o.unresolved and o.named say   *)
(* whether o names a label that is not known yet, and whether it is a name *)
(* at all.                                                                 *)
(*                                                                         *)
(* e is where the instruction stands: [addr, last, cached], its address,   *)
(* whether this is the last pass, and the size the jump cache remembers    *)
(* for the address (0: none).                                              *)
(***************************************************************************)
EXTENDS EncOperand

Target == [dist : {"none", "short", "near", "far"}, ptr : BOOLEAN, o : Operand]
\* A name that is not known yet stands for a number, alone or as the offset of a far address.
IsJumpTarget(t) ==
  t \in Target /\ IsOperand(t.o) /\ (t.o.unresolved => t.o.kind \in {"IMM", "FAR"})

\* An instruction with a label that is not known yet: only its size matters.
Unknown(o, e) == o.unresolved /\ ~e.last
Sized(size) == Out(<<>>, size)

IsFar(t)  == t.dist = "far"
IsDist(t) == t.dist \in {"near", "far"}

\* A scalar is read, and the name of a register is none.
Scalar(t) == t.o.kind = "IMM" /\ ~t.ptr

----------------------------------------------------------------------------
(* Relative targets                                                        *)

\* bytes, and a displacement of n bytes from the end of the instruction.
Relative(bytes, n, target, e) ==
  LET size == Len(bytes) + n
      disp == target - (e.addr + size)
  IN Check(IF n = 1 THEN FitsI8(disp) ELSE FitsI16(disp), Out(bytes \o Imm(n, disp), size))

EmitJmpRelative(target, size, e) ==
  IF size = 2 THEN Relative(<<\hEB>>, 1, target, e) ELSE Relative(<<\hE9>>, 2, target, e)

EmitCallRelative(target, e) == Relative(<<\hE8>>, 2, target, e)

EmitCondRelative(target, size, short, near, e) ==
  IF size = 2 THEN Relative(<<short>>, 1, target, e) ELSE Relative(<<\h0F, near>>, 2, target, e)

ShortIfFits(target, e) == IF FitsI8(target - (e.addr + 2)) THEN 2 ELSE 3

JmpDirectSizeForgotten(o, e) == IF o.unresolved /\ ~e.last THEN 3 ELSE ShortIfFits(o.imm, e)

\* The size a sizeless jmp has, remembered in the first pass for the last.
JmpDirectSize(o, e) ==
  CASE ~e.last -> IF o.unresolved THEN 3 ELSE ShortIfFits(o.imm, e)
    [] e.last /\ e.cached # 0 -> e.cached
    [] e.last /\ e.cached = 0 -> IF o.named THEN 3 ELSE ShortIfFits(o.imm, e)

EncodeJmpDirect(o, explicit_size, e) ==
  CASE o.kind # "IMM" -> FAIL
    [] o.kind = "IMM" /\ explicit_size # 0 ->
         IF Unknown(o, e) THEN Sized(explicit_size) ELSE EmitJmpRelative(o.imm, explicit_size, e)
    [] o.kind = "IMM" /\ explicit_size = 0 ->
         IF e.last THEN EmitJmpRelative(o.imm, JmpDirectSize(o, e), e)
                   ELSE Sized(JmpDirectSize(o, e))

EncodeCallDirect(o, e) ==
  CASE o.kind # "IMM" -> FAIL
    [] o.kind = "IMM" /\ Unknown(o, e) -> Sized(3)
    [] o.kind = "IMM" /\ ~Unknown(o, e) -> EmitCallRelative(o.imm, e)

EncodeRel8Control(t, opcode, e) ==
  IF ~Scalar(t) \/ t.dist # "none" THEN FAIL
  ELSE IF Unknown(t.o, e) THEN Sized(2) ELSE Relative(<<opcode>>, 1, t.o.imm, e)

EncodeJecxz(t, e) ==
  IF ~Scalar(t) \/ t.dist # "none" THEN FAIL
  ELSE IF Unknown(t.o, e) THEN Sized(3) ELSE Relative(<<\h67, \hE3>>, 1, t.o.imm, e)

EncodeConditionalJump(t, short, near, e) ==
  LET size == IF t.dist = "near" THEN 4 ELSE 2
  IN IF ~Scalar(t) \/ t.dist = "far" THEN FAIL
     ELSE IF Unknown(t.o, e) THEN Sized(size)
     ELSE EmitCondRelative(t.o.imm, size, short, near, e)

----------------------------------------------------------------------------
(* Targets in registers, in memory, in another segment                     *)

\* What parse_jump_memory_from takes for the place of a pointer.
JumpMemory(o) == o.kind = "MEM" /\ o.size \in {0, 2, 4}

PtrMem(o, group) ==
  Check(JumpMemory(o), MemForm(IF o.size = 4 THEN 4 ELSE 2, <<\hFF>>, group, o.mem, 2))

EncodeJmpPtrMem(o, far)  == PtrMem(o, IF far THEN 5 ELSE 4)
EncodeCallPtrMem(o, far) == PtrMem(o, IF far THEN 3 ELSE 2)

\* The size of a far address with an offset of 4 bytes is 7 in the code.
FarImmediateSize(offset_size) == IF offset_size = 4 THEN 7 ELSE 5

FarImmediate(o, opcode, offset_size, e) ==
  IF o.kind # "FAR" \/ offset_size \notin {2, 4} THEN FAIL
  ELSE IF Unknown(o, e) THEN Sized(FarImmediateSize(offset_size))
  ELSE Check(FitsU16(o.seg) /\ FitsImm(offset_size, o.imm),
             Out(OperandSizePrefix(offset_size) \o <<opcode>> \o Imm(offset_size, o.imm)
                   \o Word(o.seg),
                 FarImmediateSize(offset_size)))

EncodeJmpFarImmediate(o, offset_size, e)  == FarImmediate(o, \hEA, offset_size, e)
EncodeCallFarImmediate(o, offset_size, e) == FarImmediate(o, \h9A, offset_size, e)

\* ptr with a size: what is not memory is a far address of that offset size, and
\* memory of a size no pointer has is an error.
\* ptr without one: a far address has an offset of 2 bytes.
EncodeJmp(t, e) ==
  CASE t.dist = "short" -> IF t.ptr THEN FAIL ELSE EncodeJmpDirect(t.o, 2, e)
    [] IsDist(t) /\ t.ptr /\ (t.o.kind = "MEM" \/ ~IsFar(t)) -> EncodeJmpPtrMem(t.o, IsFar(t))
    [] IsDist(t) /\ t.ptr /\ t.o.kind # "MEM" /\ IsFar(t) ->
         EncodeJmpFarImmediate(t.o, IF t.o.size # 0 THEN t.o.size ELSE 2, e)
    [] IsDist(t) /\ ~t.ptr -> IF IsFar(t) THEN FAIL ELSE EncodeJmpDirect(t.o, 3, e)
    [] t.dist = "none" ->
         CASE t.o.kind \in R16or32 -> RegForm(t.o.size, <<\hFF>>, 4, t.o.reg, 2)
           [] t.o.kind = "IMM" -> EncodeJmpDirect(t.o, 0, e)
           [] OTHER -> FAIL

EncodeCall(t, e) ==
  CASE t.dist = "short" -> FAIL
    [] IsDist(t) /\ t.ptr /\ (t.o.kind = "MEM" \/ ~IsFar(t)) -> EncodeCallPtrMem(t.o, IsFar(t))
    [] IsDist(t) /\ t.ptr /\ t.o.kind # "MEM" /\ IsFar(t) ->
         EncodeCallFarImmediate(t.o, IF t.o.size # 0 THEN t.o.size ELSE 2, e)
    [] IsDist(t) /\ ~t.ptr -> IF IsFar(t) THEN FAIL ELSE EncodeCallDirect(t.o, e)
    [] t.dist = "none" ->
         CASE t.o.kind \in R16or32 -> RegForm(t.o.size, <<\hFF>>, 2, t.o.reg, 2)
           [] t.o.kind = "IMM" -> EncodeCallDirect(t.o, e)
           [] OTHER -> FAIL

----------------------------------------------------------------------------
(* ret, retf, enter                                                        *)

EncodeRet(args, plain, with_imm) ==
  CASE Len(args) = 0 -> Out(<<plain>>, 1)
    [] Len(args) = 1 -> Check(args[1].kind = "IMM" /\ FitsU16(args[1].imm),
                              Out(<<with_imm>> \o Word(args[1].imm), 3))
    [] OTHER -> FAIL

EncodePrefixedRet(args, plain, with_imm, f) ==
  Behind(ForcedPrefixPair(f.o32, f.a32), EncodeRet(args, plain, with_imm))

\* Neither the size of the frame nor the level is asked to fit.
EncodeEnter(args) ==
  Check(Len(args) = 2 /\ (\A i \in DOMAIN args : args[i].kind = "IMM"),
        Out(<<\hC8>> \o Word(args[1].imm) \o Byte(args[2].imm), 4))

EncodePrefixedEnter(args, f) == Behind(ForcedPrefixPair(f.o32, f.a32), EncodeEnter(args))
=============================================================================
