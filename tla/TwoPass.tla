------------------------------- MODULE TwoPass -------------------------------
(***************************************************************************)
(* The two passes of the assembler: assemble() in src/core/core.c runs     *)
(* eval_ast() of src/core/eval.c twice over the same tree.  The first pass *)
(* places the labels, the last one writes the bytes; nothing checks that   *)
(* both walk the tree in the same way.                                     *)
(*                                                                         *)
(* A program is its tree: a function from body numbers to sequences of     *)
(* statements, body 1 being the file.  Each action is one statement of     *)
(* eval_ast, the end of a body, or a step of assemble().  The recursion of *)
(* eval_ast is the stack.  Values are integers; strings and arrays are     *)
(* lengths.  A definition set just before another, named for a mistake, is *)
(* the form that mistake would take.                                       *)
(***************************************************************************)
EXTENDS Layout, Sequences

CONSTANTS
  Programs,       \* the trees the parser may hand to assemble()
  Names,          \* identifiers of variables and labels
  UninitLang,     \* what active_lang may be when the parser is created
  UninitValues,   \* what the number of an uninitialised struct Value may read as
  NotDeclared,    \* the value of a name without a variable, or without a label
  MaxAddr,        \* max_addr of each language
  JMP_CACHE_MAX

Langs     == {"6502", "i386"}
NoLang    == "NULL"
WildLang  == "uninitialised"    \* a pointer nobody stored
SizeOfPtr == [l \in Langs |-> 2]

M6502 == INSTANCE Mos6502
X86   == INSTANCE I386

VARIABLES
  prog,         \* the tree
  last_pass,
  stack,        \* the activations of eval_ast; << >> when it has returned
  addr,
  variables,
  labels,
  active_lang,
  jmp_cache,    \* the static jump cache of i386
  out,          \* bytes written to the output file
  result        \* "running", or how assemble() ended

vars == <<prog, last_pass, stack, addr, variables, labels, active_lang,
          jmp_cache, out, result>>

----------------------------------------------------------------------------
(* Trees                                                                   *)

Nint == NintMin..NintMax

Atoms == [k : {"LITERAL"}, n : Nint] \cup [k : {"VAR"}, name : Names]
           \cup [k : {"DOLLAR"}]

Operators == {"PLUS", "MINUS", "LESS", "EQEQUAL"}

Exprs == Atoms \cup [k : {"BINOP"}, op : Operators, left : Atoms, right : Atoms]

Operands ==
  [k : {"NONE"}] \cup [k : {"NUMBER"}, n : Nint, selector : M6502!Selectors]
    \cup [k : {"NAME"}, name : Names, selector : M6502!Selectors]

\* How each language encodes the mnemonic; the parser does not tell them apart.
FormsOf == [l \in Langs |-> (IF l = "6502" THEN M6502!Forms ELSE X86!Forms) \cup {"unknown"}]

Forms == {form \in [Langs -> UNION {FormsOf[l] : l \in Langs}] :
            \A l \in Langs : form[l] \in FormsOf[l]}

SpaceTypes == {"BYTE", "WORD", "DWORD", "QWORD", "PTR"}

\* The parser accepts neither an empty array nor an alignment of 0.  A @save
\* is a space whose value is the literal 0.
Statements ==
  [op : {"ASSIGN_VAR"}, name : Names, ass_type : {"EQUAL", "PLUSEQUAL"}, expr : Exprs]
    \cup [op : {"IF"}, branches : Seq([cond : Exprs, body : Nat])]
    \cup [op : {"WHILE", "REPEAT"}, expr : Exprs, body : Nat]
    \cup [op : {"ORG", "ALIGN", "ASSERT"}, expr : Exprs]
    \cup [op : {"LABEL", "DEL"}, name : Names]
    \cup [op : {"SPACE"}, type : SpaceTypes, len : Nat \ {0},
          align_per_el : Nat \ {0}, align_start : Nat \ {0}, value : Exprs]
    \cup [op : {"STRING"}, len : Nat, align_start : Nat \ {0}]
    \cup [op : {"ERROR", "BREAK", "CONTINUE"}]
    \cup [op : {"CODE"}, lang : Langs]
    \cup [op : {"INSTRUCTION"}, form : Forms, arg : Operands]

\* The bodies a statement may run.
BodiesOf(s) ==
  CASE s.op \in {"WHILE", "REPEAT"} -> {s.body}
    [] s.op = "IF" -> {s.branches[i].body : i \in DOMAIN s.branches}
    [] OTHER -> {}

\* The bodies inside of loops: breaks and continues are in them alone, as
\* is_inside_block of the parser makes sure, and an if is where its branches are.
AreInsideLoops(inside, p) ==
  /\ 1 \notin inside
  /\ \A b \in DOMAIN p \ inside : \A i \in DOMAIN p[b] :
       /\ p[b][i].op \notin {"BREAK", "CONTINUE"}
       /\ p[b][i].op = "IF" => BodiesOf(p[b][i]) \cap inside = {}

IsProgram(p) ==
  /\ 1 \in DOMAIN p
  /\ \A b \in DOMAIN p :
       /\ b \in Nat
       /\ p[b] \in Seq(Statements)
       /\ \A i \in DOMAIN p[b] : BodiesOf(p[b][i]) \subseteq DOMAIN p
  /\ \E inside \in SUBSET DOMAIN p : AreInsideLoops(inside, p)

ASSUME TwoPassAssumption ==
  /\ \A p \in Programs : IsProgram(p)
  /\ UninitLang \subseteq {NoLang, WildLang}
  /\ UninitValues \subseteq Nint
  /\ NotDeclared \notin Int
  /\ MaxAddr \in [Langs -> Nat]
  /\ JMP_CACHE_MAX \in Nat

----------------------------------------------------------------------------
(* Expressions (_eval_expr).  An expression that fails ends the run.       *)

AtomOK(a, env) == a.k = "VAR" => env[a.name] # NotDeclared

Atom(a, env) ==
  CASE a.k = "LITERAL" -> a.n
    [] a.k = "VAR"     -> env[a.name]
    [] a.k = "DOLLAR"  -> addr

Truth(b) == IF b THEN 1 ELSE 0

Value(e, env) ==
  IF e.k # "BINOP" THEN Atom(e, env)
  ELSE LET l == Atom(e.left, env)  r == Atom(e.right, env)
       IN  CASE e.op = "PLUS"    -> l + r
             [] e.op = "MINUS"   -> l - r
             [] e.op = "LESS"    -> Truth(l < r)
             [] e.op = "EQEQUAL" -> Truth(l = r)

ExprOK(e, env) ==
  IF e.k # "BINOP" THEN AtomOK(e, env)
  ELSE AtomOK(e.left, env) /\ AtomOK(e.right, env) /\ IsNint(Value(e, env))

Holds(e) == Value(e, variables) # 0

Reads(e, name) ==
  LET IsIt(a) == a.k = "VAR" /\ a.name = name
  IN  IF e.k = "BINOP" THEN IsIt(e.left) \/ IsIt(e.right) ELSE IsIt(e)

----------------------------------------------------------------------------
(* The activations of eval_ast                                             *)

Frame == [body : Nat, pc : Nat \ {0}, loop : {"NONE", "WHILE", "REPEAT"}, left : Nat]

Top == stack[Len(stack)]

Stmt == prog[Top.body][Top.pc]

Executing(op) ==
  /\ result = "running" /\ stack # << >>
  /\ Top.pc <= Len(prog[Top.body])
  /\ Stmt.op = op

\* stmt = stmt->next
Advanced(s) == [s EXCEPT ![Len(s)].pc = @ + 1]

EnteredAfterNext(s, body, loop, left) ==
  Append(Advanced(s), [body |-> body, pc |-> 1, loop |-> loop, left |-> left])

Entered(s, body, loop, left) ==
  Append(s, [body |-> body, pc |-> 1, loop |-> loop, left |-> left])

Parents(s) == SubSeq(s, 1, Len(s) - 1)

\* The body of a repeat from its start, with one more turn done.
Repeated(f) == [body |-> f.body, pc |-> 1, loop |-> f.loop, left |-> f.left - 1]

\* The last activation returns EVAL_OK, or EVAL_CONTINUE to its loop.  A while
\* evaluates its condition again, a repeat counts down.
Resumed(s) ==
  CASE Len(s) = 1 -> << >>
    [] s[Len(s)].loop = "WHILE" -> Parents(s)
    [] s[Len(s)].loop = "REPEAT" /\ s[Len(s)].left > 0 ->
         [s EXCEPT ![Len(s)] = Repeated(@)]
    [] OTHER -> Advanced(Parents(s))

Loops(s) == {i \in DOMAIN s : s[i].loop # "NONE"}

\* Ifs hand EVAL_BREAK and EVAL_CONTINUE to the innermost loop around them.
Unwound(s) == SubSeq(s, 1, CHOOSE i \in Loops(s) : \A j \in Loops(s) : j <= i)

Broken(s) == Advanced(Parents(Unwound(s)))

\* The run ends; the caller looks at nothing but its result.
Ends(r) ==
  /\ result' = r
  /\ UNCHANGED <<prog, last_pass, stack, addr, variables, labels, active_lang,
                 jmp_cache, out>>

Fail  == Ends("FAIL")
Crash == Ends("CRASH")

\* Only the position in the tree changes.
Goto(s) ==
  /\ stack' = s
  /\ UNCHANGED <<prog, last_pass, addr, variables, labels, active_lang,
                 jmp_cache, out, result>>

----------------------------------------------------------------------------
(* Statements that change the variables, the labels or the flow            *)

\* The variable is created before its value is computed, so that an expression
\* that reads it finds whatever the new structure holds.
EvalAssign ==
  /\ Executing("ASSIGN_VAR") /\ Stmt.ass_type = "EQUAL"
  /\ \E old \in IF variables[Stmt.name] = NotDeclared
                THEN UninitValues ELSE {variables[Stmt.name]} :
       LET env == [variables EXCEPT ![Stmt.name] = old]
       IN  \/ /\ ExprOK(Stmt.expr, env)
              /\ variables' = [env EXCEPT ![Stmt.name] = Value(Stmt.expr, env)]
              /\ stack' = Advanced(stack)
              /\ UNCHANGED <<prog, last_pass, addr, labels, active_lang,
                             jmp_cache, out, result>>
           \/ ~ExprOK(Stmt.expr, env) /\ Fail

EvalAugmentedAssign ==
  /\ Executing("ASSIGN_VAR") /\ Stmt.ass_type = "PLUSEQUAL"
  /\ LET ok  == variables[Stmt.name] # NotDeclared /\ ExprOK(Stmt.expr, variables)
         new == variables[Stmt.name] + Value(Stmt.expr, variables)
     IN  \/ /\ ok /\ IsNint(new)
            /\ variables' = [variables EXCEPT ![Stmt.name] = new]
            /\ stack' = Advanced(stack)
            /\ UNCHANGED <<prog, last_pass, addr, labels, active_lang,
                           jmp_cache, out, result>>
         \/ ~(ok /\ IsNint(new)) /\ Fail

EvalDel ==
  /\ Executing("DEL")
  /\ variables' = [variables EXCEPT ![Stmt.name] = NotDeclared]
  /\ stack' = Advanced(stack)
  /\ UNCHANGED <<prog, last_pass, addr, labels, active_lang, jmp_cache, out, result>>

\* The conditions are evaluated in order until one of them fails or holds; an
\* else is a last branch whose condition is the literal 1.
EvalIf ==
  /\ Executing("IF")
  /\ LET b == Stmt.branches
         Decides(i) == ~ExprOK(b[i].cond, variables) \/ Holds(b[i].cond)
         deciding == {i \in DOMAIN b : Decides(i) /\ \A j \in 1..(i - 1) : ~Decides(j)}
     IN  \/ deciding = {} /\ Goto(Advanced(stack))
         \/ \E i \in deciding :
              \/ ExprOK(b[i].cond, variables) /\ Goto(Entered(stack, b[i].body, "NONE", 0))
              \/ ~ExprOK(b[i].cond, variables) /\ Fail

EvalWhile ==
  /\ Executing("WHILE")
  /\ IF ~ExprOK(Stmt.expr, variables) THEN Fail
     ELSE IF Holds(Stmt.expr) THEN Goto(Entered(stack, Stmt.body, "WHILE", 0))
     ELSE Goto(Advanced(stack))

EvalRepeat ==
  /\ Executing("REPEAT")
  /\ LET ok == ExprOK(Stmt.expr, variables)
         n  == Value(Stmt.expr, variables)
     IN  IF ~ok THEN Fail
         ELSE IF n < 0 THEN Fail
         ELSE IF n = 0 THEN Goto(Advanced(stack))
         ELSE Goto(Entered(stack, Stmt.body, "REPEAT", n - 1))

\* The end of a body: EVAL_OK.
EndBody ==
  /\ result = "running" /\ stack # << >>
  /\ Top.pc > Len(prog[Top.body])
  /\ Goto(Resumed(stack))

\* The parser rejects both outside of a loop.
EvalBreak    == Executing("BREAK") /\ Goto(Broken(stack))
EvalContinue == Executing("CONTINUE") /\ Goto(Resumed(Unwound(stack)))

EvalAssert ==
  /\ Executing("ASSERT")
  /\ IF ~ExprOK(Stmt.expr, variables) THEN Fail
     ELSE IF Holds(Stmt.expr) THEN Goto(Advanced(stack))
     ELSE Fail

EvalError == Executing("ERROR") /\ Fail

EvalCode ==
  /\ Executing("CODE")
  /\ active_lang' = Stmt.lang
  /\ stack' = Advanced(stack)
  /\ UNCHANGED <<prog, last_pass, addr, variables, labels, jmp_cache, out, result>>

EvalLabelInBothPasses ==
  /\ Executing("LABEL")
  /\ \/ labels[Stmt.name] # NotDeclared /\ Fail
     \/ /\ labels[Stmt.name] = NotDeclared
        /\ labels' = [labels EXCEPT ![Stmt.name] = addr]
        /\ stack' = Advanced(stack)
        /\ UNCHANGED <<prog, last_pass, addr, variables, active_lang, jmp_cache,
                       out, result>>

EvalLabel ==
  /\ Executing("LABEL")
  /\ \/ last_pass /\ Goto(Advanced(stack))
     \/ ~last_pass /\ labels[Stmt.name] # NotDeclared /\ Fail
     \/ /\ ~last_pass /\ labels[Stmt.name] = NotDeclared
        /\ labels' = [labels EXCEPT ![Stmt.name] = addr]
        /\ stack' = Advanced(stack)
        /\ UNCHANGED <<prog, last_pass, addr, variables, active_lang, jmp_cache,
                       out, result>>

\* Nothing keeps the new address under max_addr.
EvalOrg ==
  /\ Executing("ORG")
  /\ LET ok  == active_lang # NoLang /\ ExprOK(Stmt.expr, variables)
         val == Value(Stmt.expr, variables)
     IN  IF ~ok THEN Fail
         ELSE IF val < 0 THEN Fail
         ELSE /\ addr' = val
              /\ stack' = Advanced(stack)
              /\ UNCHANGED <<prog, last_pass, variables, labels, active_lang,
                             jmp_cache, out, result>>

----------------------------------------------------------------------------
(* Statements that take space.  Each needs a language, and reads it to     *)
(* move addr by something or to report that it cannot.                     *)

CanAdvance(n) ==
  \/ n = 0
  \/ active_lang \in Langs /\ IncrementOK(addr, n, MaxAddr[active_lang])

\* addr moves by n, and the last pass writes "bytes" bytes.
Advance(n, bytes) ==
  /\ addr' = addr + n
  /\ out' = IF last_pass THEN out + bytes ELSE out
  /\ stack' = Advanced(stack)
  /\ UNCHANGED <<prog, last_pass, variables, labels, active_lang, result>>

\* An error that names max_addr: it needs the language too.
Overflow == IF active_lang = WildLang THEN Crash ELSE Fail

\* get_size_of_type
TypeSize(type) ==
  CASE type = "BYTE"  -> 1
    [] type = "WORD"  -> 2
    [] type = "DWORD" -> 4
    [] type = "QWORD" -> 8
    [] type = "PTR"   -> SizeOfPtr[active_lang]

SpaceBytesWithTrailingPadding(size, s) ==
  (ArrayStart(addr, s.align_per_el, s.align_start) - addr)
    + s.len * Stride(size, s.align_per_el)

\* What the three loops of encode_space_ident write: the padding in front, the
\* elements, and the padding between two of them.
SpaceBytes(size, s) ==
  (ArrayStart(addr, s.align_per_el, s.align_start) - addr)
    + s.len * size
    + (s.len - 1) * (Stride(size, s.align_per_el) - size)

\* encode_space_ident.  A wild language is read before anything can fail, or
\* right after it, unless the value is what fails.
EvalSpace ==
  /\ Executing("SPACE")
  /\ \/ active_lang = NoLang /\ Fail
     \/ active_lang = WildLang /\ Crash
     \/ active_lang = WildLang /\ ~ExprOK(Stmt.value, variables) /\ Fail
     \/ /\ active_lang \in Langs
        /\ LET size  == TypeSize(Stmt.type)
               fits  == ArrayOK(addr, Stmt.len, size, Stmt.align_per_el, Stmt.align_start)
               total == ArrayTotal(addr, Stmt.len, size, Stmt.align_per_el, Stmt.align_start)
           IN  IF fits /\ ExprOK(Stmt.value, variables) /\ CanAdvance(total)
               THEN Advance(total, SpaceBytes(size, Stmt)) /\ UNCHANGED jmp_cache
               ELSE Fail

\* The characters are counted first and must fit without the padding too.
EvalString ==
  /\ Executing("STRING")
  /\ LET n     == Stmt.len
         a     == Stmt.align_start
         total == ArrayTotal(addr, 1, n, a, 1)
     IN  \/ active_lang = NoLang /\ Fail
         \/ /\ active_lang # NoLang
            /\ IF CanAdvance(n) /\ ArrayOK(addr, 1, n, a, 1) /\ CanAdvance(total)
               THEN /\ Advance(total, (ArrayStart(addr, a, 1) - addr) + n)
                    /\ UNCHANGED jmp_cache
               ELSE Overflow

EvalAlign ==
  /\ Executing("ALIGN")
  /\ LET ok  == active_lang # NoLang /\ ExprOK(Stmt.expr, variables)
         val == Value(Stmt.expr, variables)
         n   == Aligned(addr, val) - addr
     IN  IF ~ok THEN Fail
         ELSE IF val < 0 THEN Fail
         ELSE IF AlignOK(addr, val) /\ CanAdvance(n)
              THEN Advance(n, n) /\ UNCHANGED jmp_cache
              ELSE Overflow

----------------------------------------------------------------------------
(* Instructions                                                            *)

\* parse_potential_variable: a variable hides a label; a name that is neither
\* reads as 0.
Resolved(arg) ==
  CASE arg.k = "NONE" ->
         [named |-> FALSE, unresolved |-> FALSE, value |-> 0, selector |-> "NONE"]
    [] arg.k = "NUMBER" ->
         [named |-> FALSE, unresolved |-> FALSE, value |-> arg.n, selector |-> arg.selector]
    [] arg.k = "NAME" ->
         LET var == variables[arg.name]  label == labels[arg.name]
         IN  [named      |-> TRUE,
              unresolved |-> var = NotDeclared /\ label = NotDeclared,
              value      |-> IF var # NotDeclared THEN var
                             ELSE IF label # NotDeclared THEN label ELSE 0,
              selector   |-> arg.selector]

Form == Stmt.form[active_lang]

Operand == Resolved(Stmt.arg)

InstructionSize ==
  IF active_lang = "6502" THEN M6502!Size(Form, Operand)
  ELSE X86!Size(Form, Operand, addr, last_pass, jmp_cache)

\* exec: the mnemonic exists, the number of arguments is right, and so is the
\* argument.
InstructionOK ==
  /\ Form # "unknown"
  /\ (Form \in {"implied", "plain"}) = (Stmt.arg.k = "NONE")
  /\ IF active_lang = "6502" THEN M6502!Accepts(Form, Operand, addr, last_pass)
     ELSE X86!Accepts(Form, Operand, addr, InstructionSize, last_pass)

\* exec writes the bytes, and remembers the size of a jump, before anyone looks
\* whether there is room for them.
EvalInstruction ==
  /\ Executing("INSTRUCTION")
  /\ \/ active_lang = NoLang /\ Fail
     \/ active_lang = WildLang /\ Crash
     \/ active_lang \in Langs /\ ~InstructionOK /\ Fail
     \/ /\ active_lang \in Langs /\ InstructionOK
        /\ jmp_cache' = IF active_lang = "6502" THEN jmp_cache
                        ELSE X86!CacheAfter(Form, Operand, addr, last_pass, jmp_cache)
        /\ IF CanAdvance(InstructionSize)
           THEN Advance(InstructionSize, InstructionSize)
           ELSE /\ out' = IF last_pass THEN out + InstructionSize ELSE out
                /\ result' = "FAIL"
                /\ UNCHANGED <<prog, last_pass, stack, addr, variables, labels,
                               active_lang>>

----------------------------------------------------------------------------
(* assemble()                                                              *)

Init ==
  /\ prog \in Programs
  /\ last_pass = FALSE
  /\ stack = <<[body |-> 1, pc |-> 1, loop |-> "NONE", left |-> 0]>>
  /\ addr = 0
  /\ variables = [n \in Names |-> NotDeclared]
  /\ labels = [n \in Names |-> NotDeclared]
  /\ active_lang \in UninitLang
  /\ jmp_cache = << >>
  /\ out = 0
  /\ result = "running"

StartLastPassAtOldAddr ==
  /\ result = "running" /\ stack = << >> /\ ~last_pass
  /\ last_pass' = TRUE
  /\ stack' = <<[body |-> 1, pc |-> 1, loop |-> "NONE", left |-> 0]>>
  /\ variables' = [n \in Names |-> NotDeclared]
  /\ UNCHANGED <<prog, addr, labels, active_lang, jmp_cache, out, result>>

StartLastPassWithOldVariables ==
  /\ result = "running" /\ stack = << >> /\ ~last_pass
  /\ last_pass' = TRUE
  /\ stack' = <<[body |-> 1, pc |-> 1, loop |-> "NONE", left |-> 0]>>
  /\ addr' = 0
  /\ UNCHANGED <<prog, variables, labels, active_lang, jmp_cache, out, result>>

\* The labels, the language and the jump cache stay as the first pass left them.
StartLastPass ==
  /\ result = "running" /\ stack = << >> /\ ~last_pass
  /\ last_pass' = TRUE
  /\ stack' = <<[body |-> 1, pc |-> 1, loop |-> "NONE", left |-> 0]>>
  /\ addr' = 0
  /\ variables' = [n \in Names |-> NotDeclared]
  /\ UNCHANGED <<prog, labels, active_lang, jmp_cache, out, result>>

Finish ==
  /\ result = "running" /\ stack = << >> /\ last_pass
  /\ Ends("SUCCESS")

Next ==
  \/ EvalAssign \/ EvalAugmentedAssign \/ EvalDel
  \/ EvalIf \/ EvalWhile \/ EvalRepeat \/ EndBody \/ EvalBreak \/ EvalContinue
  \/ EvalAssert \/ EvalError \/ EvalCode \/ EvalLabel \/ EvalOrg
  \/ EvalSpace \/ EvalString \/ EvalAlign \/ EvalInstruction
  \/ StartLastPass \/ Finish

Spec == Init /\ [][Next]_vars

----------------------------------------------------------------------------
(* Properties                                                              *)

\* The type invariant of an assembly.
TypeOK ==
  /\ prog \in Programs
  /\ last_pass \in BOOLEAN
  /\ stack \in Seq(Frame)
  /\ addr \in 0..NintMax
  /\ variables \in [Names -> Nint \cup {NotDeclared}]
  /\ labels \in [Names -> (0..NintMax) \cup {NotDeclared}]
  /\ active_lang \in Langs \cup {NoLang, WildLang}
  /\ jmp_cache \in Seq([addr : Nat, size : {2, 3}]) /\ Len(jmp_cache) <= JMP_CACHE_MAX
  /\ out \in Nat
  /\ result \in {"running", "SUCCESS", "FAIL", "CRASH"}

\* Every activation of eval_ast runs a body of the statement its caller is at:
\* whatever breaks and continues jump over, a loop is resumed at its own
\* statement (eval.c, the EVAL_BREAK and EVAL_CONTINUE returns).
StackMatchesTree ==
  \A i \in 1..Len(stack) :
    IF i = 1 THEN stack[i].body = 1 /\ stack[i].loop = "NONE"
    ELSE LET caller == stack[i - 1]
             s == prog[caller.body][caller.pc]
         IN  /\ caller.pc <= Len(prog[caller.body])
             /\ stack[i].body \in BodiesOf(s)
             /\ stack[i].loop = IF s.op = "IF" THEN "NONE" ELSE s.op

\* The bytes written are those addr moved over: in the last pass every statement
\* but @org writes exactly as many bytes as it moves addr, paddings and elements
\* counted one by one; in the first pass none writes.
OutputMatchesLayout ==
  [][LET moved == result' = "running" /\ last_pass = last_pass' /\ ~Executing("ORG")
     IN  IF last_pass THEN moved => out' - out = addr' - addr
         ELSE out' = out]_vars

\* helper.c: a name that is still unknown in the last pass is reported as
\* "unresolved label" and fails the instruction, and so the assembly.
UnresolvedLabelFails ==
  [][Executing("INSTRUCTION") /\ active_lang \in Langs /\ last_pass /\ Operand.unresolved
       => result' = "FAIL"]_vars
=============================================================================
