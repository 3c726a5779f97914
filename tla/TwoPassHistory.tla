--------------------------- MODULE TwoPassHistory ---------------------------
(***************************************************************************)
(* TwoPass with a history of the first pass, to say what the code relies   *)
(* on and never checks: that the last pass repeats the first.  The history *)
(* variables follow the assembler; no step of it depends on them, but for  *)
(* MaxSteps, which bounds the first pass of a program that never ends.     *)
(***************************************************************************)
EXTENDS TwoPass

CONSTANT MaxSteps   \* bound on the statements of a first pass

ASSUME HistoryAssumption == MaxSteps \in Nat

VARIABLES
  log,      \* what each statement of the first pass started from
  clock,    \* statements of the last pass so far, up to those of the first
  exact     \* nothing was read that was never written, and no size was taken
            \* from the 0 that stands for an unknown name

hvars == <<vars, log, clock, exact>>

Snapshot == [stack |-> stack, addr |-> addr, variables |-> variables, lang |-> active_lang]

\* The statement about to run depends on more than the tree says.
Guesses ==
  \/ /\ Executing("ASSIGN_VAR")
     /\ variables[Stmt.name] = NotDeclared
     /\ Reads(Stmt.expr, Stmt.name)
  \/ /\ Executing("INSTRUCTION") /\ active_lang = "i386" /\ ~last_pass
     /\ Form \in X86!ValueSized
     /\ Operand.unresolved

HInit == Init /\ log = << >> /\ clock = 0 /\ exact = TRUE

HNext ==
  /\ Next
  /\ exact' = (exact /\ ~Guesses)
  /\ IF last_pass
     THEN clock' = (IF clock < Len(log) THEN clock + 1 ELSE clock) /\ UNCHANGED log
     ELSE log' = Append(log, Snapshot) /\ Len(log) < MaxSteps /\ UNCHANGED clock

HSpec == HInit /\ [][HNext]_hvars

\* The assembler is one thread that runs until it returns.
FairHSpec == HSpec /\ WF_hvars(HNext)

----------------------------------------------------------------------------

At(s) == prog[s.stack[Len(s.stack)].body][s.stack[Len(s.stack)].pc]

AtStatement(s) ==
  s.stack # << >> /\ s.stack[Len(s.stack)].pc <= Len(prog[s.stack[Len(s.stack)].body])

\* A jmp whose size the first pass chose.
ChoseJmpSize(s) ==
  /\ AtStatement(s)
  /\ At(s).op = "INSTRUCTION" /\ s.lang = "i386"
  /\ At(s).form[s.lang] = "jmp"

\* The jump cache still holds every size the first pass chose: no two jumps at
\* one address chose differently, and the cache did not run full.
CacheKept ==
  \A i \in 1..(Len(log) - 1) :
    ChoseJmpSize(log[i]) =>
      X86!Remembered(jmp_cache, log[i].addr) = log[i + 1].addr - log[i].addr

Repeatable == exact /\ CacheKept

\* The last pass repeats the first, statement by statement: the same place in the
\* tree, the same address, the same variables, and the same language once one is
\* chosen (assemble() resets addr and the variables, and keeps the labels, the
\* language and the jump cache).
Replay ==
  last_pass /\ Repeatable /\ result = "running" =>
    LET now == Snapshot  before == log[clock + 1]
    IN  /\ clock < Len(log)
        /\ now.stack = before.stack
        /\ now.addr = before.addr
        /\ now.variables = before.variables
        /\ before.lang \in Langs => now.lang = before.lang

\* When the last pass comes to a label, addr is what the label was given in the
\* first: every reference that was written means this place.
LabelsWhereFound ==
  last_pass /\ Repeatable /\ Executing("LABEL") => labels[Stmt.name] = addr

\* A last pass that repeats the first comes to an end, whatever its loops depend
\* on; so does the assembler.
LastPassEnds == last_pass /\ Repeatable ~> ~Repeatable \/ result # "running"

\* A statement whose outcome the first pass may not know: an operand is a name,
\* or a jmp, whose distance only the last pass checks.
DecidedLate(s) ==
  s.op = "INSTRUCTION" /\ (s.arg.k = "NAME" \/ s.form["i386"] = "jmp")

\* Everything else is reported in the first pass: a program without such
\* statements never fails in the last, with part of its output written.
FailsEarly ==
  LET late == \E b \in DOMAIN prog : \E i \in DOMAIN prog[b] : DecidedLate(prog[b][i])
  IN  last_pass /\ Repeatable /\ ~late => result \in {"running", "SUCCESS"}
=============================================================================
