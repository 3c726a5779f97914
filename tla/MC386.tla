-------------------------------- MODULE MC386 --------------------------------
(***************************************************************************)
(* Statements for Exec386: every name with operands of every kind and      *)
(* size, immediates and displacements at the limits of their forms, behind *)
(* every list of prefixes.  A byte of data has sixteen values.             *)
(***************************************************************************)
EXTENDS Integers, Sequences

NoMem == [addr_size |-> 2, rm |-> 0, direct |-> FALSE, disp |-> 0, has_disp |-> FALSE,
          seg_override |-> -1, base |-> -1, index |-> -1, scale |-> 0]
Operand == [kind |-> "IMM", size |-> 0, reg |-> 0, imm |-> 0, mem |-> NoMem, seg |-> 0,
            unresolved |-> FALSE, named |-> FALSE]

Reg(size, n) ==
  [Operand EXCEPT !.kind = CASE size = 1 -> "REG8" [] size = 2 -> "REG16" [] size = 4 -> "REG32",
                  !.size = size, !.reg = n]
SegReg(n) == [Operand EXCEPT !.kind = "SEG", !.size = 2, !.reg = n]
Special(kind, n) == [Operand EXCEPT !.kind = kind, !.size = 4, !.reg = n]
Num(v) == [Operand EXCEPT !.imm = v]
SizedNum(size, v) == [Operand EXCEPT !.imm = v, !.size = size]
Label == [Operand EXCEPT !.unresolved = TRUE, !.named = TRUE]
Mem(size, m) == [Operand EXCEPT !.kind = "MEM", !.size = size, !.mem = m]

Mem16(rm, seg) == [NoMem EXCEPT !.rm = rm, !.seg_override = seg]
Disp16(rm, disp) == [NoMem EXCEPT !.rm = rm, !.disp = disp, !.has_disp = TRUE]
Direct(disp, seg) == [Disp16(6, disp) EXCEPT !.direct = TRUE, !.seg_override = seg]
Mem32(base, index, scale) ==
  [NoMem EXCEPT !.addr_size = 4, !.base = base, !.index = index, !.scale = scale]
Disp32(base, index, scale, disp) ==
  [Mem32(base, index, scale) EXCEPT !.disp = disp, !.has_disp = TRUE]

\* Every shape of an address.
Mems == {Mem16(0, -1), Mem16(6, -1), Mem16(7, 0), Disp16(6, 7), Disp16(2, 8), Disp16(1, -8),
         Disp16(6, -9), Disp16(4, 255), Direct(3, -1), Direct(200, 4), Mem32(0, -1, 0),
         Mem32(5, -1, 0), Mem32(4, -1, 0), Mem32(-1, 6, 3), Mem32(5, 1, 2), Mem32(3, 5, 0),
         Disp32(5, -1, 0, 7), Disp32(0, -1, 0, 8), Disp32(4, -1, 0, -8), Disp32(-1, 7, 1, -9),
         Disp32(2, 3, 2, 300), [Disp32(1, 0, 3, -3) EXCEPT !.seg_override = 5]}
FewMems == {Mem16(6, -1), Direct(200, 0), Disp32(4, -1, 0, -8)}

Sizes == {1, 2, 4}
Regs == {Reg(size, n) : size \in Sizes, n \in {0, 2}}
MemOps(ms) == {Mem(size, m) : size \in {0, 1, 2, 4}, m \in ms}
Nums == {Num(v) : v \in {1, 7, 8, 15, 248, 255, -9, 65535}}

Instr(name, args) == [name |-> name, cond |-> "", args |-> args]

One(names, ops) == {Instr(n, <<o>>) : n \in names, o \in ops}
Two(names, ds, ss) == {Instr(n, <<d, s>>) : n \in names, d \in ds, s \in ss}

PrefixLists ==
  { <<>>, <<"o16">>, <<"o32">>, <<"a16">>, <<"a32">>, <<"o16", "a16">>, <<"a16", "o16">>,
    <<"o16", "a32">>, <<"a32", "o16">>, <<"o16", "o32">>, <<"o32", "a16">>, <<"a16", "o32">>,
    <<"o32", "a32">>, <<"a32", "o32">>, <<"o32", "a16", "o16">>, <<"lock">> }
RepLists == { <<"rep">>, <<"repe">>, <<"repnz">>, <<"rep", "o32">>, <<"rep", "a32", "o16">> }

ZeroNames ==
  {"pusha", "pushaw", "pushad", "popa", "popaw", "popad", "pushf", "pushfd", "popf", "popfd",
   "lahf", "sahf", "xlat", "xlatb", "movs", "movsb", "movsw", "movsd", "cmps", "cmpsb", "cmpsw",
   "cmpsd", "scas", "scasb", "scasw", "scasd", "lods", "lodsb", "lodsw", "lodsd", "stos", "stosb",
   "stosw", "stosd", "insb", "insw", "insd", "outsb", "outsw", "outsd", "cbw", "cwd", "cwde",
   "cdq", "aaa", "aad", "aam", "aas", "daa", "das", "clc", "clts", "stc", "cmc", "cld", "std",
   "cli", "sti", "hlt", "wait", "fwait", "nop", "into", "iret", "iretd", "leave", "ret", "retn",
   "retf"}
Zero == {Instr(n, <<>>) : n \in ZeroNames}

OneNames ==
  {"push", "pop", "not", "inc", "dec", "neg", "mul", "div", "idiv", "imul", "sgdt", "lidt", "sldt",
   "lldt", "ltr", "str", "lmsw", "smsw", "verr", "verw", "aad", "aam", "ret", "retf", "int"}
Ones == One(OneNames, Regs \cup {SegReg(n) : n \in {0, 1, 4}} \cup Nums \cup {Label}
                        \cup MemOps(FewMems))
          \cup One({"push"}, {SizedNum(size, v) : size \in Sizes, v \in {1, 8, 15, 255, 65535}})
          \cup {[Instr("setcc", <<o>>) EXCEPT !.cond = c] :
                  o \in {Reg(1, 2), Reg(2, 2)} \cup MemOps(FewMems), c \in {"no", "nae", "g"}}

TwoNames ==
  {"mov", "movsx", "movzx", "arpl", "bsf", "lar", "lsl", "bt", "bts", "xchg", "add", "cmp", "and", "or",
   "xor", "test"}
Twos ==
  Two(TwoNames, Regs, Regs \cup Nums \cup MemOps(FewMems)) \cup
  Two(TwoNames, MemOps(FewMems), Regs \cup Nums) \cup
  Two({"and", "mov", "lea", "shl", "bt", "imul"}, {Reg(2, 2), Reg(4, 0)}, {Label}) \cup
  Two({"mov", "sar", "btc", "cmp"}, {Mem(2, Disp16(6, 7)), Mem(4, Mem32(5, 1, 2))}, {Label}) \cup
  Two({"in", "enter"}, {Reg(1, 0), Num(8)}, {Label}) \cup
  Two({"out", "esc", "enter"}, {Label}, {Reg(4, 0), Reg(2, 3), Num(1)}) \cup
  {Instr("shld", <<Reg(2, 2), Reg(2, 1), Label>>)} \cup
  Two({"mov"}, {Reg(2, 2), Reg(4, 3), Mem(0, Mem16(0, -1)), Mem(2, Mem32(0, -1, 0))},
               {SegReg(3), SegReg(5), Special("CR", 3), Special("TR", 7)}) \cup
  Two({"mov"}, {SegReg(2), Special("DR", 7)},
               {Reg(2, 2), Reg(4, 3), Mem(0, Mem16(0, -1)), Mem(2, Mem32(0, -1, 0))}) \cup
  Two({"mov", "lea"}, {Reg(2, 1), Reg(4, 0)}, {Mem(0, m) : m \in Mems} \cup {Num(9)}) \cup
  Two({"lds", "lss", "bound"}, {Reg(2, 1), Reg(4, 2)}, {Mem(0, m) : m \in FewMems}) \cup
  Two({"shl", "sar", "rcr"}, Regs \cup MemOps(FewMems), {Num(1), Num(8), Reg(1, 1)}) \cup
  Two({"in"}, {Reg(size, 0) : size \in Sizes}, {Num(8), Reg(2, 2)}) \cup
  Two({"out"}, {Num(8), Reg(2, 2)}, {Reg(size, 0) : size \in Sizes}) \cup
  Two({"esc"}, {Num(0), Num(29), Num(64)}, {Reg(2, 3)} \cup {Mem(0, m) : m \in FewMems}) \cup
  Two({"enter"}, {Num(200)}, {Num(1)})

Threes ==
  {Instr(n, <<d, s, c>>) : n \in {"shld", "shrd"},
     d \in {Reg(2, 2), Reg(4, 3)} \cup {Mem(size, m) : size \in {0, 2, 4}, m \in FewMems},
     s \in {Reg(2, 1), Reg(4, 0)}, c \in {Num(8), Reg(1, 1)}} \cup
  {Instr("imul", <<d, s, c>>) : d \in {Reg(2, 2), Reg(4, 3)},
     s \in {Reg(2, 1), Reg(4, 0)} \cup {Mem(size, m) : size \in {0, 2, 4}, m \in FewMems}, c \in Nums} \cup
  Two({"imul"}, {Reg(2, 2), Reg(4, 3)},
      {Reg(2, 1), Reg(4, 0)} \cup Nums \cup {Mem(size, m) : size \in {0, 2, 4}, m \in FewMems})

\* Targets: what names the label, addresses before and behind the statement.
Target(dist, ptr, o) == [dist |-> dist, ptr |-> ptr, o |-> o]
Far(size, seg, v) == [SizedNum(size, v) EXCEPT !.kind = "FAR", !.seg = seg]
FarLabel(size) == [Far(size, 5, 0) EXCEPT !.unresolved = TRUE, !.named = TRUE]
Dists == {"none", "short", "near", "far"}
Scalars == {Label, Num(36), Num(33), Num(49), Num(50), Num(3), Num(150)}
Targets ==
  {Target(dist, FALSE, o) : dist \in Dists, o \in Scalars} \cup
  {Target("none", FALSE, o) : o \in {Reg(2, 3), Reg(4, 2)}} \cup
  {Target(dist, TRUE, Mem(size, m)) : dist \in {"near", "far"}, size \in {0, 2, 4}, m \in FewMems} \cup
  {Target("far", TRUE, o) : o \in {Far(0, 5, 90), Far(2, 255, 255), FarLabel(2), Far(4, 5, 90), FarLabel(4)}}

Controls == One({"jmp", "call", "loop", "loopz", "jcxz", "jecxz"}, Targets)
              \cup {[Instr("jcc", <<t>>) EXCEPT !.cond = c] : t \in Targets, c \in {"nz", "le"}}

Stmts(prefixes, is) == {[prefixes |-> p, i |-> i] : p \in prefixes, i \in is}
MCStatements ==
  Stmts(PrefixLists \cup RepLists, Zero) \cup Stmts(PrefixLists, Ones \cup Twos \cup Threes \cup Controls)
==============================================================================
