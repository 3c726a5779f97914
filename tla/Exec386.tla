------------------------------- MODULE Exec386 -------------------------------
(***************************************************************************)
(* One statement of a program for the i386 backend, assembled in the two   *)
(* passes of eval.c: the first asks _86_exec for the size of the statement,*)
(* the last for the size and the bytes.  A label stands GAP bytes behind   *)
(* the statement.  What names it is not known in the first pass; in the    *)
(* last it is at the address the size of the first pass puts it at.        *)
(*                                                                         *)
(* A statement is [prefixes, i].  The target or immediate that names the   *)
(* label has the field unresolved.                                         *)
(***************************************************************************)
EXTENDS Encoder

CONSTANTS Statements, Addrs, Gaps

VARIABLES
  stmt,    \* the statement
  addr,    \* its address
  gap,     \* the bytes between its end and the label
  pass,    \* "first", "last", "done" or "failed"
  first,   \* what the first pass answered
  last     \* what the last pass answered

vars == <<stmt, addr, gap, pass, first, last>>

\* What parse_prefix_chain and the parsers of operands make of a line.
IsStatement(s) ==
  /\ s.prefixes \in Seq(SizePrefixes \cup {"lock"} \cup DOMAIN Repeats)
  /\ IsInstruction(s.i)

ASSUME StatementsAssumption ==
  /\ Addrs \subseteq Int /\ Gaps \subseteq Int
  /\ \A s \in Statements : IsStatement(s)

\* What names the label is 0 in the first pass, and in the last the label's address.
Bound1(o, value) == IF o.unresolved THEN [o EXCEPT !.imm = value] ELSE o
\* A target has its operand inside.
Bind(a, value) == IF "o" \in DOMAIN a THEN [a EXCEPT !.o = Bound1(a.o, value)] ELSE Bound1(a, value)
WithLabel(i, value) == [i EXCEPT !.args = [n \in DOMAIN i.args |-> Bind(i.args[n], value)]]

\* The jump cache has a size for a jmp without prefixes and without a size.
Remembered(s, out) ==
  IF s.prefixes = <<>> /\ s.i.name = "jmp" /\ s.i.args[1].dist = "none" THEN out.size ELSE 0

Label == addr + first.size + gap

NamesLabel(i) ==
  \E n \in DOMAIN i.args : LET a == i.args[n] IN IF "o" \in DOMAIN a THEN a.o.unresolved ELSE a.unresolved

Init == /\ stmt \in Statements
        /\ addr \in Addrs
        /\ gap \in IF NamesLabel(stmt.i) THEN Gaps ELSE {0}
        /\ pass = "first"
        /\ first = NONE
        /\ last = NONE

FirstPass ==
  /\ pass = "first"
  /\ first' = Exec(stmt.prefixes, WithLabel(stmt.i, 0), [addr |-> addr, last |-> FALSE, cached |-> 0])
  /\ pass' = IF first'.size < 0 THEN "failed" ELSE "last"
  /\ UNCHANGED <<stmt, addr, gap, last>>

LastPass ==
  /\ pass = "last"
  /\ last' = Exec(stmt.prefixes, WithLabel(stmt.i, Label),
                  [addr |-> addr, last |-> TRUE, cached |-> Remembered(stmt, first)])
  /\ pass' = IF last'.size < 0 THEN "failed" ELSE "done"
  /\ UNCHANGED <<stmt, addr, gap, first>>

Next == FirstPass \/ LastPass

Spec == Init /\ [][Next]_vars

----------------------------------------------------------------------------
(* What the statement asks for                                             *)

Has(prefix) == \E n \in DOMAIN stmt.prefixes : stmt.prefixes[n] = prefix
\* Of o16 and o32 the last one counts.
LastOf(one, other) ==
  \E n \in DOMAIN stmt.prefixes :
    stmt.prefixes[n] = one /\ \A k \in n..Len(stmt.prefixes) : stmt.prefixes[k] # other
Asked == [o32 |-> LastOf("o32", "o16"), o16 |-> LastOf("o16", "o32"),
          a16 |-> Has("a16"), a32 |-> Has("a32")]

Inst == WithLabel(stmt.i, Label)

----------------------------------------------------------------------------
(* What the encoders are known to get wrong, each part by its own name: a  *)
(* statement is left out of a property by the part that applies to it, and *)
(* of no other property.                                                   *)

Done == pass = "done"
Name(names) == Inst.name \in names
Target1 == Inst.args[1]

\* A far address with an offset of a dword is written in eight bytes and counted as seven.
FarDword == /\ Name({"jmp", "call"})
            /\ Target1.o.kind = "FAR" /\ Target1.o.size = 4

\* The size of a short jcc behind o32, and of a jmp of an explicit size that is not a
\* lone o32's near, leaves out the prefix while the target is not known.
ShortBehindO32 ==
  /\ Asked.o32 /\ NamesLabel(stmt.i)
  /\ \/ Name({"jcc"}) /\ Target1.dist = "short"
     \/ Name({"jmp"}) /\ (Target1.dist = "short" \/ (Target1.dist = "near" /\ (Asked.a16 \/ Asked.a32)))

\* The encoders that choose between two forms by the value of an immediate do so for a
\* label as well, and it is 0 in the first pass.  A shift has a form of its own for 1.
ValueSized ==
  /\ NamesLabel(stmt.i)
  /\ \/ Name({"push", "and", "or", "xor", "test", "add", "adc", "sub", "sbb", "cmp", "imul"})
     \/ Name(DOMAIN Shifts) /\ Label = 1

----------------------------------------------------------------------------

\* The pass is one of four, and what a pass answers is a size and bytes.
TypeOK == /\ pass \in {"first", "last", "done", "failed"}
          /\ \A out \in {first, last} :
               /\ out.size \in Int
               /\ DOMAIN out.bytes = 1..Len(out.bytes)
               /\ \A n \in DOMAIN out.bytes : out.bytes[n] \in 0..255

\* The size an encoder returns, by which eval.c moves the address on, is the number of
\* bytes it has written: the two are counted by separate code (memory_tail_len and
\* emit_modrm_mem, for one).
SizeIsEmitted == Done => Len(last.bytes) = last.size + (IF FarDword THEN 1 ELSE 0)

\* The size is the same in both passes, also where a target or an address is only known
\* in the last: every label behind the statement is where the first pass has put it.
SizeIsStable == Done /\ ~ValueSized => last.size = first.size + (IF ShortBehindO32 THEN 1 ELSE 0)

\* An operand prefix and an address prefix may come in either order: each order has a
\* dispatcher of its own (encode_a16_prefix, encode_o32_prefix, ...) with a list of its own.
EitherOrder ==
  Done /\ Len(stmt.prefixes) = 2 /\ (Asked.o32 \/ Asked.o16) /\ (Asked.a32 \/ Asked.a16)
  => Exec(<<stmt.prefixes[2], stmt.prefixes[1]>>, Inst,
          [addr |-> addr, last |-> TRUE, cached |-> 0]) = last

\* What stands behind o32 alone is encoded once by encode_misc_prefixed_instruction, and
\* once more, never reached, by an encoder of its own; the two agree.
O32Copy(i, e) ==
  CASE i.name = "push" -> With1(i.args, EncodeO32Push)
    [] i.name = "pop"  -> With1(i.args, EncodeO32Pop)
    [] i.name = "not"  -> With1(i.args, LAMBDA d : EncodeO32UnaryGroup(d, 2))
    [] i.name \in DOMAIN Unary -> With1(i.args, LAMBDA d : EncodeO32UnaryGroup(d, Unary[i.name]))
    [] i.name = "imul" -> EncodeO32Imul(i.args)
    [] i.name \in DOMAIN Shifts -> With2(i.args, LAMBDA d, s : EncodeO32ShiftGroup(d, s, Shifts[i.name]))
    [] i.name = "jmp"  -> With1(i.args, LAMBDA t : EncodeO32Jmp(t, e))
    [] i.name = "jcc"  -> LET op == JccOpcodesFromName(i.cond)
                          IN With1(i.args, LAMBDA t : EncodeO32Jcc(t, op.short, op.near, e))
    [] OTHER -> NONE

CopiesAgree ==
  stmt.prefixes = <<"o32">> /\ Done
  => LET copy == O32Copy(Inst, [addr |-> addr, last |-> TRUE, cached |-> 0])
     IN copy.size > 0 => copy = last
=============================================================================
