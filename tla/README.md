# A verification model of nyasm

nyasm is an assembler in C. It reads one source file (and the files it includes),
turns it into a tree, and walks the tree twice: the first walk gives every label its
address, the second writes the bytes. Two backends, `6502` and `i386`, size and encode
the instructions. Everything is allocated from one pool whose size is an option of the
command line. There are no threads; what makes the program hard is that two walks must
agree without anything checking it, that callers of the allocator must own the block they
resize, that addresses are computed from numbers of the source, and that state survives
where the next step does not expect it.

This directory holds TLA+ modules translated from the code, configurations with which TLC
checks them, and proofs checked by TLAPS. `PROJECT.json` maps every definition to the
lines it models, and lists the runs, the hazards and the findings.

## 1. The system

| component | state it keeps | operations | hard behaviour | what makes it correct |
|---|---|---|---|---|
| memory pool (`src/memory`) | `memory`: start, end, curr, list of blocks | `mem_alloc`, `mem_resize_last`, `mem_free_last`, `mem_init`, `mem_deinit` | only the last block may be resized or given back; `start` of a block is not updated by a resize | blocks never overlap, pointers stay valid, nothing past the end |
| lexer (`core/lexer.c`) | `tok_state`: position, indentation stack, parentheses, token buffer | `_Lexer_get`, `_Lexer_token_setup`, `token_push_cp`, `token_trim_cp_buffer` | indentation limits, several dedents at once, growth of a buffer | every indent has its dedent; the buffer is never overrun |
| macro expansion (`core/parser.c`) | macro table, stack of macro ends, count of expansions, pending dedents | declare, expand into the token list in place | limits, nesting, the end of a macro inside another | a name expands to its own macro's tokens, recursion stops |
| parser (`core/parser.c`, `ast.c`) | token list, position, stack of contexts, blocks | statements, expressions, `@include` | binding of operators, break/continue only in loops, stack of blocks | the tree has the structure of the source |
| evaluator (`core/eval.c`, `core.c`) | `addr`, `last_pass`, `variables`, labels, `active_lang`, output | one case of `eval_ast` per statement | two walks over one tree; loops over `$`; forward references | the last pass repeats the first; labels mean the place they were found at |
| address arithmetic (`core/eval.c`) | none | `align_address_safe`, `lcm`, `array_total_size_safe`, `increment_addr` | overflow, padding | sizes are those of an array, no overflow |
| struct layout (`core/eval.c`) | declarations of structs | `encode_struct` | paddings of nested structs | offset = bytes written |
| names in operands (`core/helper.c`) | none | `parse_potential_variable`, `fail_unresolved_label` | names not known yet | an unknown name fails the last pass |
| 6502, i386 backends (`langs`) | i386: cache of jump sizes | `exec` of one instruction: check, size, emit | a size that depends on a value not known yet; a cache that runs full; size and bytes computed apart; a copy of each encoder for each prefix | the size is the number of bytes and the same in both passes; the bytes are the instruction |
| numbers, strings, arrays (`core/variables.c`, `eval.c`) | the elements of arrays, in the tree and in variables alike | `new_number`, operators, assignments, copies | integers at their limits; lists shared by copies and by both passes | the value that is written, or an error |
| unicode, argument parsing, files, log | - | - | vendored libraries and I/O | - |

`main` initialises the pool and calls `assemble` (`core.c`), which loads the file, asks the
parser for a tree (the parser pulls tokens from the lexer and expands macros in the token
list), calls `eval_ast` twice and closes the output. `eval_ast` calls the backend's `exec`
through `p->active_lang`, and the backend calls back `parse_potential_variable` for the
names in its operands. The shared state is `struct Parser`; the tree, including the values
inside it, is shared by both passes.

## 2. Modules

| module | models | runs |
|---|---|---|
| `Allocator` | what `memory.h` promises of blocks, abstractly | `arena`: `Arena` implements it |
| `Arena` | the pool and every caller that resizes or releases | `arena` (`MCArena`) |
| `ArenaProofs` | the invariants of `Arena` and its refinement of `Allocator`, proved | - |
| `Layout` | the address arithmetic, as pairs "it succeeds" / "its value" | `layout` (`MCLayout`) |
| `LayoutProofs`, `ArrayProofs` | `gcd` and `lcm` for all numbers; `MCLayout` for every width of the integers, proved | - |
| `Mos6502` | size and acceptance of every 6502 operand form | through `TwoPass` |
| `I386` | jumps, the jump size cache, and the two kinds of operand whose value sizes the instruction | through `TwoPass` |
| `TwoPass` | `assemble` and `eval_ast`: composes `Layout`, `Mos6502`, `I386` | `unresolved_label` (`MCTwoPass`) |
| `TwoPassHistory` | `TwoPass` with a record of the first pass | `two_pass`, `two_pass_all` |
| `TwoPassProofs` | the invariants of both for every program, proved | - |
| `Lexer` | `tokenize` and `next_cp`, a code point a step | `lexer`, `lexer_comment` (`MCLexer`) |
| `LexerProofs` | its invariants for every file, proved | - |
| `OffsideProofs` | the off-side rule for every file, proved | - |
| `Macros` | the parser's token list: declarations, calls expanded in place, included files | `macros_dedents`, `macros_uncalled` (`MCMacros`) |
| `MacroMeaning` | `Macros` next to what its file means by substitution | `macros` |
| `Numbers` | `new_number`: digits to integers and doubles | through `Eval` |
| `Parser` | expressions, statements and blocks, by recursive descent | through `Eval` |
| `Eval` | expressions and assignments over the parser's tree, in two rounds | through `EvalMeaning` |
| `EvalMeaning` | `Eval` next to a grammar that is not read from left to right, and values that are not lists in memory | `expressions` (`MCExpressions`) |
| `EncOperand` | i386: what every encoder is built from, the emitting and the counting piece of each part | through `Exec386` |
| `EncMove`, `EncAlu`, `EncControl`, `EncStack`, `EncPlain` | i386: the encoders of instructions on their own (`EncStack` and `EncPlain` behind prefixes too) | through `Exec386` |
| `EncForced`, `EncPrefixed` | i386: the copies behind `o32`, `o16`, `a32`, `a16`, and what only exists behind them | through `Exec386` |
| `Encoder` | i386: the dispatchers of `_86_exec` | through `Exec386` |
| `Exec386` | one i386 statement in both passes | through `ExecMeaning` |
| `Decoder` | the opcode map of the 386, read from bytes to instructions | through `ExecMeaning` |
| `ExecMeaning` | `Exec386` next to what the processor reads | `encoder` (`MC386Run`, statements in `MC386`) |
| `ExecProofs` | the size an encoder returns is what it writes, for every encoder and for every statement, proved | - |
| `PassProofs` | both passes are told the same size, and prefixes commute, proved | - |

A definition set just before another and named for a mistake (`FreedLastToData`,
`StartLastPassAtOldAddr`, ...) is not part of the model: it is a plausible slip in that
code, and shows that a property would notice it.

### Arena
Addresses are offsets from `memory.start`. `memory.chain` is the linked list up to
`last_alloc`; `phase` says which caller is in the middle of using the last block, `used`
and `cap` are that caller's locals. Each action is one call with the test of its result:
a `NULL` ends the run (`nomem`), after which `main` still calls `MEM_DEINIT`. Allocations
that are kept for good are one action, `NewBlock`, over a set of sizes.

The pool is correct only together with its callers. `mem_free_last` sets `curr` to
`start` of the block before, which `mem_resize_last` does not update: freeing behind a block that
was resized would hand out memory in use. The only release in the program is
`_strtod`'s, and the block before it is the `struct Value` that `new_number` has just allocated.

`Allocator` knows nothing of headers, alignment padding, chains or callers: a block is
granted where nothing else is, the last one is resized in place or released, everything is
released at the end. `Arena` maps its list of blocks to `granted` and every step to one of those
four or to none.

### Layout
Integers are unbounded and every function is split in a guard (`AlignOK`, `MulOK`,
`LcmOK`, `ArrayOK`, `IncrementOK`) and a value; the property `NothingOverflows` says that
under the guard no intermediate value leaves the integers of the code. `Gcd` is a recursive
function, so that the module can be used in proofs.

### TwoPass
A program is a function from body numbers to sequences of statements. The recursion of
`eval_ast` is the variable `stack`: an activation has its body, the statement it is at, and
for a loop its kind and what is left of a repeat. Each action is one case of `eval_ast`
with every call it makes; `EndBody`, `EvalBreak` and `EvalContinue` are the returns
`EVAL_OK`, `EVAL_BREAK` and `EVAL_CONTINUE` as the callers treat them; `StartLastPass` and
`Finish` are `assemble`. `result` says how the run ended, `CRASH` being a call through a
pointer nobody stored: `_Parser_New` leaves `active_lang` uninitialised, so before the
first `@code` it may be null or not (`UninitLang`). A new variable's structure is
uninitialised as well until its first value is computed (`UninitValues`).

Strings and arrays are lengths, values are integers, and the output is a count of bytes.
An instruction carries a form for each language, since the parser does not know which
language will be active.

### TwoPassHistory
`log` records what each statement of the first pass started from, `clock` counts the
statements of the last pass, `exact` turns false when the program does what makes the
passes legitimately differ: it reads a structure nobody wrote, or takes a size from the 0
that stands for a name not known yet (i386 displacements and immediates). `Repeatable`
adds that the jump cache has kept every size. Nothing in the assembler reads these
variables; only `MaxSteps`, which cuts the first pass of a program that loops for ever, bounds it.

### Lexer
A file is a sequence of characters with one more byte behind it, which `core.c` reserves for
the newline the last line may lack. `uc` holds the buffer, `curr`, `end`, `inp`
(the end of the line verified so far) and the code point read last; `NextCp` and `BackupCp` are
`next_cp` and `backup_cp` with what makes them subtle: a line is verified when its first code
point is read, the newline is written then, a code point that is given back stays in
`cp`, and at the end of the file nothing is given back. `phase` is the place in
`tokenize`; every action reads one code point or ends a token. Letters, digits and
the other characters of names and numbers are one character, and encodings are valid.

### Macros
A token is a number, its address; `tokens` gives its text and trace and `next` its link, so a
copy, an expansion and a token that was taken off the list differ as they do in memory.
The texts are those of the file; arguments, names and brackets are strings, never characters.
`Walk` is the path of `_read_token_impl` and `_peek_token_impl` on a list that goes on. The
other one is `_fill_and_expand_macros`, a round of its loop a step: a token (`FillToken`,
which pops `macro_ends` and emits DEDENTs), a call (`Expand`, `FailCall`), or the name of a macro
that is not called (`FillNameWithoutCall`). `re` is where it reads, `NotFilling` outside of the loop.
The parser is what it does to this list: it declares macros, includes a file, and reads any
other statement to its NEWLINE; `RestOfStatement` peeks up to `MaxPeek` tokens ahead at
any time, which is more than any statement does. `CRASH` stands for a dereference of NULL, and
`OVERRUN` for a write behind `macro_ends`: by a push (`Expand`, `FillNameWithoutCall`), or by the pop
of `FillToken`, which writes NULL one place above the entry it takes off. Elsewhere nothing reads the
place above the entries, so that the stack is the sequence of those. What is overwritten is
`ctx_block_stack`, and a run stops there: nothing is said of what follows, and the bound of
`macro_ends` in `TypeOK` is kept only by stopping. `ReadIsMeaning` says when it comes to that: not
before as many expansions as are allowed, unless a macro's name is not called.
`trace` is a token's chain of `macro_trace` and its parents.
Malformed declarations and calls that are never closed end in an error at once and are left
out, and so are failed allocations; `args_tail` of a new macro, which nothing sets, counts as NULL.

`MacroMeaning` computes once, from the whole file, what substitution makes of it, without a
list, a cursor or a stack: arguments are found by name, from the front or from the back, the
owed DEDENTs stand at an END behind the body. It shares with `Macros` only how a
call's text is cut into arguments.

### Parser, Numbers and Eval
`Parser` has an operator per function of the recursive descent. Each takes the position of the last
token read and the array elements made so far and gives a node, the position reached and the
elements; `ok` is false when the code returns NULL or `FAIL`. Tokens are records, so a
program is a short sequence. `Numbers` follows the digits of a literal through `digitlimit`
and `smallmax` with the width of an integer as a parameter; a double is a fraction.

`Eval` runs the assignments of a tree twice: with `again` = `"pass"` as the two passes do, variables
cleared in between, with `"loop"` as two rounds of a loop, variables kept. Elements of arrays
have a number, their address: a value of type ARRAY is three fields, so a copy
shares the list, as it does in the code, and the elements of a literal are evaluated
where they stand in the tree. `Pun` is what a member of the union in `struct Value` reads as
when another one was written; `WILD` and `CRASH` are reads of what nobody wrote and of NULL.

`EvalMeaning` says what a text means without either: `Grammar` splits a token list at the operator
that is applied last, finding brackets by counting, and `IdealAssign` computes with values that are
sequences. It shares with the model the table of binding powers, how a list is read (`Walk`, `IsValue`), how
`+=` stands for `+`, and whether a numeral with an underscore or a fraction is one. The cases the code gets wrong, or leaves to the C
compiler, have a name each where they are left out:

* `UncheckedPlus`, `IntMinusDouble`, `MixedModulo`, `ModuloWraps`, `ModuloTraps`, `ShiftLost` (the operators,
  `eval.c` 300-930), `NestedLiteral` (a literal in a literal is never evaluated), `StringIndex`
  (`eval.c:1436`), `ReadsItsTarget` (`eval.c:1450-1473`): the meaning is `Anything`;
* `DropsElifCondition` (`parser.c:2106`): the condition of the `@if` is tested again instead of the `@elif`'s;
* `Overhangs` (`eval.c:294-298`): a comparison of arrays walks to the end of a list, which another copy may have lengthened.

### The i386 encoders
There is one operator per encoder function of `langs/i386/main.c`. Its arguments are
the parsed operands and what a prefix forces; its answer is `[size, bytes]`. The code
has the property that makes it worth modelling: the bytes come from `emit_*`, the size from
`*_len`, in separate functions, for each of the plain encoder and up to four copies of it. `Out(bytes, size)` keeps both
as they are computed, `Check` is an early return, `FAIL` an error, `NONE` the answer for "not mine" on which
a dispatcher goes on to the next encoder.

`Exec386` asks for a statement in both passes. A label the statement names is unknown in the first and, in the last, stands
`gap` bytes behind the end the first pass counted. A byte of data has `BYTE` values; opcodes, ModR/M and prefixes are always real.

`Decoder` is written from the processor's opcode map and not from the code. `Operands`, `Reads` and `SameName` say when what
it reads is what the statement asks for. What the encoders get wrong is named at `Exec386` and `ExecMeaning` and
left out of what it breaks and of nothing else:

| name | code | what |
|---|---|---|
| `FarDword` | `main.c` 2540-2553, 2977-2988 | a far address with a dword offset is written in 8 bytes and counted as 7; `SizeIsEmitted` states the difference exactly |
| `ShortBehindO32` | `main.c` 8735, 8871-8882 | the prefix is not counted while the target is unknown; `SizeIsStable` states the difference exactly |
| `ValueSized` | `EncodeArith`, `push`, `imul`, the shifts ... | the form is chosen by an immediate that is 0 in the first pass; a shift by a label has a shorter one if the label is 1 |
| `WordImmediate`, `DwordPushedAsWord` | copies behind `o32`, `push` | an immediate is narrower than the operand |
| `IgnoresO16`, `NearBehindTwo`, `DropsPrefixes`, `NoAddressPrefix` | prefixed dispatchers | a prefix that is asked for is not written, or not counted with |

The encoders check less than they could: an 8-bit immediate of the arithmetic group is only asked to fit
16 bits, the operands of `enter` and 16-bit displacements are not checked at all, and `lock` refuses
32-bit registers. The decoder compares modulo the field, so none of this is a difference.

## 3. What the runs show

| run | question | bounds |
|---|---|---|
| `arena` | can any order of calls make blocks overlap, leave the pool, or write past a block? | pool of 64 bytes, header of 8: at most four blocks, the pool runs out at every allocation and at every resize; token buffer from 2 code points, path buffer of 3 bytes |
| `layout` | is the arithmetic that of an array in memory, at the limits too? | NINT_MAX 40, INT_MAX 12, every base, sizes 0 1 2 4 8, alignments up to 8 |
| `lexer` | are the tokens of the layout those of the file's indentation, whatever the file, and is its end reached? | every file of three out of thirteen fragments (names, spaces, tabs, the comments, line ends, parentheses, quotes), of four out of the eight that join, of four out of ten lines, and sixty-four that are read on behind a CR; a slash behind the file; three levels of indentation and two of parentheses |
| `two_pass` | does every statement keep the stack, write what it moves, and does the last pass end and fail only for late reasons? | 80 programs written so that each statement, in each language, succeeds and is refused for each reason; `max_addr` 40 and 400, a jump cache of 2, so that both are exceeded; integers up to 100000 |
| `two_pass_all` | does the last pass repeat the first for programs nobody picked? | all programs of four statements over eleven, in both languages |
| `macros` | does the rewritten list give what substitution gives, whenever the parser peeks? | 1,189 files: six first macros (arguments in and out of order, variadic in the middle, a block at the end, no body), four that call them (mid-line, as an argument, in a block, themselves), two out of seven statements, includes in front, an empty include, names without a call, calls that fill `macro_ends`; a limit of 4 expansions, peeks of 2 tokens |
| `encoder` | does every i386 statement return the size it writes, the same in both passes, and does the processor read what was asked for? | every name with every kind and size of operand, values at both sides of each limit, behind every list of prefixes the parser accepts; a byte of data has 16 values, the address is 40, labels are 0, 4, 7, 8 and 100 bytes behind, so that short jumps reach and miss, and 42 in front, where one is 1 |
| `expressions` | is what is parsed what is written, and what is computed what it means, in both passes and in a loop? | integers of 8 bits, three levels of blocks; every text of up to five tokens over three alphabets, all chains of three operators, numerals at the limits in four bases, nests of five lines; every operator between values at the edges of every type, every program of up to three statements out of those that make, copy, change and append to arrays |
| `unresolved_label`, `lexer_comment`, `macros_uncalled`, `macros_dedents` | four places where the code does not do what it says | see findings |

The bounds scale constants, not structure: `NINT_MAX`, `max_addr`, the pool and the
cache are small so that their limits are reached in a few steps, and the comparisons are the
code's own. Four statements suffice for a forward reference, a loop over the address,
a jump and a label behind them, which is what the passes can disagree about. An i386 encoder
looks at one statement and at no other, so that one at a time is all there is to see.

What they show. `Replay`: as long as `Repeatable` holds, the last pass goes through the
same statements with the same addresses and variables. `LabelsWhereFound`: a label's
address is where the last pass finds it. `LastPassEnds`: the last pass ends whenever it
repeats the first. `FailsEarly`: a program without late-bound operands is refused before a
byte of the image is written. `OutputMatchesLayout`: the bytes written by hand-written
loops are those `addr` moves over. `StackMatchesTree`: breaks and continues always resume at
the loop they left. `CurrIsFree`, `BlocksApart`, `InsidePool`, `FillsWhatItOwns`,
`PointersStayValid`, `ImplementsAllocator`: the pool. `OffsideRule`, stated on the text of the file alone: the number
of INDENTs without their DEDENT in front of a line is the number of columns it is inside of.
`IndentsClosed`, `LinesAreWhole`, `NoLayoutInParentheses`: what the parser's blocks rely on.
`GetsOn`: whatever is given back and read again, each step of the tokenizer leaves less to do.
`TabsAgree`: no accepted file depends on the width of a tab. `StaysInBuffer`: the implicit
newline is written once. `ReadIsMeaning`: what the parser reads, and the trace of every token of
it, is what the macros mean, however far it peeked before; fewer calls than are allowed leave
`macro_ends` in its bounds, since no more ends are pushed than calls expanded. `PlacesInOrder`: between calls of the
expander, `last_token`, `peek` and `tail` are on the list and in this order. `SizeIsEmitted`, `SizeIsStable`: no i386
statement but those named shifts the labels behind it. `ReadsBack`: the bytes are the instruction.
`EitherOrder`: an operand and an address prefix mean the same in either order, though each order has a dispatcher.
`CopiesAgree`: where the code has an encoder twice, both give the same bytes. `ReadAsWritten`: precedence, brackets, blocks and
branches. `StepIsMeaning`: an assignment stores the value that is written, or fails where it has none.
`ArraysStayApart`: only copying an array ties two together. `PassesAgree`: evaluating literals in the shared tree does
not change what the last pass computes, unless elements are assigned to or arrays compared.

**Fairness.** `FairHSpec` has weak fairness of the next-state relation: the assembler is one
thread that runs until it returns. So has `FairSpec` of `Lexer`, since `tokenize` does
not return before it has a token. `LastPassEnds` and `Ends` are the properties that need it.

**Deadlock** is not checked where the assembler stops when it has finished (and in `encoder` and
`expressions`, where a statement or a program ends). It is in `macros`,
where `Stopped` is the step behind the end: no place of the list leaves the expander without a round to do.

### Findings
Each of these is shown by a run:

* i386: `read_memory_displacement` returns `INSTRUCTION_FAILED` through an unsigned type
  which its callers take for success, so an unknown label in a displacement is reported
  and assembled as 0.
* A `//` comment on a line that ends in CR LF makes the line an error: the CR is given back and
  then, since `cp` still holds it, taken for one that has just been read.
* The name of a declared macro that no `(` follows: `_read` has read one token more than it
  says, and the caller writes through a trace that is NULL.
* A body that ends in a block whose last line ends in a call owes a DEDENT that is never emitted.

These were met while the modules were written; the models follow the code:

* `memory.h` describes `mem_alloc_t.start` as the unaligned start of the chunk;
  `mem_alloc` stores the end of the block there, and `mem_free_last` relies on that.
* `eval.h` gives the priority "registers, structs, labels, vars"; `parse_potential_variable`
  looks for variables before labels.
* A CR without an LF has the code point behind it overwritten by the implicit newline;
  `lexer.h` says it is restored.
* "macro is already declared" is never said of a file's own macro: its name behind a second
  `@macro` is a call, and is expanded before it is looked up.
* `macro_ends` has a place for each expansion that is allowed (`parser.h:52`), and its pop writes NULL
  one place above the entry (`parser.c:835`). When each call is the last token of what the one before
  it stands for, no end is popped before the last one's: with `MAX_MACRO_EXPANSION_LIMIT` of them,
  100, the write is behind the array, over `ctx_block_stack[0]`. `m(m(m(m(x))))`, a file of `macros`
  at its limit of 4, is read that way and ends in `OVERRUN`.
* An empty included file leaves `prev` at NULL, which is written through.
* `m() p()` in a body, where `m()` stands for nothing: `p()` is replaced behind the removed `)`,
  and `p ( )` is read as it is.
* Behind a declaration without a body a statement of one token is skipped with its NEWLINE
  (`parser.c:1908`; the comment at line 1443 speaks of new lines).
* An instruction of the 6502 with an empty argument (`lda 1,`) is parsed with an argument without tokens, which
  `6502/main.c:597` reads.
* `@align` and `@org` do not ask for the NEWLINE behind their expression.

The files of `macros` avoid what is said of macros here, or end in `CRASH` or `OVERRUN`: they have no
call right behind an empty one in a body, no call at the end of a body that owes DEDENTs, and no statement of one token behind an empty declaration.

## 4. What is proved

The theorems listed in `PROJECT.json` hold for every value of the constants that satisfies
the named assumptions, which TLC evaluates on the instances of the runs. Hardly one of the invariants is
inductive as a run states it; the strengthening is what there is to understand of each component.

### The pool: `ArenaProofs`
For every pool size, header size, set of block sizes and initial buffer size (`ArenaAssumption`: naturals,
and buffers of at least two units, which the sources' constants satisfy), `TypeOK`,
`BlocksApart`, `CurrIsFree`, `InsidePool` and `FillsWhatItOwns` are invariants and
`PointersStayValid` is an action property. `BlocksApart` alone does not survive a release:

    IInv == TypeOK /\ Ordered(memory) /\ CurrAtEnd(memory) /\ PhaseInv

says that blocks are in order and well placed (`Ordered`), that `curr` is the end of the last block
(`CurrAtEnd`), and in `PhaseInv` what each caller knows: the block it fills is the last one
with the size it believes, and during `_strtod` the block before the copy has not been resized,
so that its `start` is still its end. Lemmas for `mem_alloc`, `mem_resize_last`
and `mem_free_last` say what each does to a memory in order; the step lemma has one
case per action. `Refines` shows from the same invariant that every step is one of `Allocator`'s or a stutter.

### Addresses: `LayoutProofs` and `ArrayProofs`
`GcdCorrect` and `LcmCorrect`: the loop of `gcd()` computes a greatest common divisor and `lcm()` a least
common multiple, for all numbers. The library's induction cannot be used here, as it takes an operator; a
function over `Nat \X Nat` can be shown to obey its recursion by a least counterexample, since sets of
naturals have least elements (`Least`, from the well-foundedness of finite sets). Composed with
`align_address_safe`, this gives the three invariants of the `layout` run for every `NINT_MAX` and
`INT_MAX <= NINT_MAX`, base, length, element size and alignment: no intermediate value leaves the
integers, no array that fits is refused, each element lies where placing one after the other would put it,
and the total ends at the last one's end. The assumption `MCLayoutAssumption` says that the
arguments are those a caller can pass: lengths and alignments from 1, sizes from 0.

### Two passes: `TwoPassProofs`
For every set of programs the parser accepts (`TwoPassAssumption`; that a break stands in a loop only is
what `is_inside_block` checks). With `IInv == TypeOK /\ Well(stack)`, `Well` being that each activation runs
a body of the statement below it, with a loop of that statement's kind, and that a body from which a break can come has a
loop beneath: `TypeCorrect`, `StackCorrect`, and, as an action property, `OutputCorrect`.

`HInv` relates the record to the state. In the first pass (`Recorded`) each entry of the log leads to the next, and the last one
to the state: `Ran` says what the statement did, in terms that stay true while labels are added behind it. They do only
because `exact` has turned false wherever a size was taken from a name not known yet. In the last pass (`Complete`, and `Agrees`) the state is
the entry `clock + 1`, but for `active_lang`, which is uninitialised at the start of the one and as the first pass left it in the
other: `LangKept` says what is left of equality, and that no statement of the log tells the difference. From it `ReplayCorrect`, `LabelsCorrect` and
`FailsEarlyCorrect`; and `HistoryIsTwoPass`: every behaviour with the record is one of `TwoPass`.

### Tokens: `LexerProofs`, `OffsideProofs`
For every set of files over the character classes and any limits, a level of indentation at least
(`LexerAssumption`). Besides the buffer (`UcOK`: there is room for the newline until it is written) and the levels (`LevelsOK`:
columns increase for both widths of a tab), `LInv` counts: `Balanced` says that the INDENTs handed out and
not closed, with those pending, are the levels on the stack, and the parentheses likewise. The hard
part is the end of the file. That an ENDMARKER follows a NEWLINE needs, before any token of the last line, that
the line will have one: `Ending` says of the states in which everything is read that the code point in hand is that newline, or that every level
is closed behind a NEWLINE or a DEDENT, and `BetweenLines` that a line of which nothing was handed out follows a NEWLINE. `TypeCorrect`, `BufferCorrect`, `IndentsCorrect`, `TabsCorrect`, `ParenthesesCorrect`, `LinesCorrect`.

*Progress* (`ProgressCorrect`). `Left` is a tuple of four naturals, compared from the left: the code points to read, with the
missing newline and the one at hand, which is part of what is being read (`Reading`); whether there is an indentation to measure; INDENTs and DEDENTs pending; and how far
`tokenize` is from its end. The tokenizer gives back one code point or two in several places, and writes one behind the file: `NextUnread`, `BackupUnread`, `RereadUnread` and
`StartKeepsSize` say what each does to the first component, `InHand` that there is a code point at hand wherever one may be given back within a
token or a comment, and then each action lowers a component and raises none in front of it (`Advances`).

*The off-side rule* (`OffsideCorrect`). The property compares a history (the tokens) with a recursion over the text; the code
compares with neither, it keeps columns on a stack. The recursion is unfolded once, for every column of the text (`ColumnIs`), and
what is said of the tokens is said of a list of numbers: `Places` gives each token its column, or -1 when it leads no line, and `Seen`
the columns that stand in front of the last one with nothing further left behind them. `OInv` has three parts. `Placed`: the levels on the stack are the columns seen (`Lined`), and the
innermost has its line (`Settled`) unless that line's first token is still being read (`Fresh`: it may be a comment yet). `LineMeasured`: in the
middle of an indentation `col` is the column of the text read so far, and what `get_indentation` gives back it gives
back to a column it knows. `TokenMeasured`: within a token that leads its line, the line's column is the innermost level's. Beside it are lemmas about a text that is written into while it is
read (`CpMoves`, `CpGivenBack`, `PlacesKept`: the implicit newline only changes what is ahead), and lists of columns (`LevelAdded`, `LevelsLeft`); then one lemma for each action.
The proof found the property false as it had been stated: in `"\ra \ra"` a line that was taken for blank goes on behind its CR, and the token there, which starts at the CR, is
measured from there. `Leads` now leaves out tokens that start at a CR or at a comment, and the run has such files.

### i386 encoders: `ExecProofs`, `PassProofs`
For every set of statements, addresses, gaps and every even `BYTE` up to 256. The assumption `StatementsAssumption` only says that a
statement is what the parsers of operands and prefixes can produce (kinds, sizes and registers in their ranges, immediates and
displacements any integer). TLC's run has a few values of each; a count that is off for some combination of base,
index, displacement and segment, or for some prefix list, would be off for all time in every label behind it.

*What is written are bytes* (`TypeCorrect`). Encoders add to opcodes: the width to one, the number of a register or a condition to
another, a segment's to a third, and `base`, `acc8` and `group` come to them through three calls. `Opcode` and `Base` are those
that leave room for it; each lemma asks for what its encoder adds to, `Tables` and the dispatchers supply it, and what fits
(`Fits`) has only bytes, in either pass and when it fails. `Typed` is the invariant.

*Sizes are bytes* (`EncodedIsCounted`). `ExecProofs` first proves of each part of an instruction (prefixes, ModR/M, displacement,
immediate) that the counting piece is the length of the emitting one (`TailIsCounted`), from it the same
of the shapes that encoders are built from, and has a lemma per encoder: `Emits` when it
writes in both passes, `Answers` when it may say `NONE`, `Fits(out, e, x)` when it writes in the last pass only, x bytes more than it
says. They are then composed through the dispatchers. The two steps of `Exec386` have the invariant `Answered`: what is held of a pass
is what `Exec` answers to the statement as that pass knows it.

*Both passes have the same size* (`SizesStable`). Two instructions that differ in a number only are `Steady`; each encoder's two
answers then `Agree`: one fails, or they are equally long. That is proved encoder by encoder, as the
form is chosen by kinds and sizes, and fails for those `ValueSized` names. For jumps (`Told`: the
same target, unresolved in the first pass) the form does depend on the distance, and the argument is the cache's:
a `jmp` without a size is held at the size it was given (`Remembered`), and one that does not reach fails. Behind `o32`
`Grows` follows the difference exactly: a byte more where `ShortBehindO32` says so (`JumpsFollow`), and none elsewhere.
The proof did not go through for shifts at first: `shl dx, label` is a byte shorter in the last pass
when the label is 1, which no statement of the run reached; it now has one that does, and `ValueSized` names it.

*The order of prefixes* (`OrdersAgree`). `ExecAnywhere` and `OrdersAlike`: the list of encoders each of the two dispatchers
tries is the same, in the same order, and is given the same forces.

*The copies* (`CopiesCorrect`). Behind `o32` alone there are two encoders of `push`, `pop`, unary and shift instructions, `imul`
and jumps: one that splices `66` behind the segment prefix of the plain form (`Wide`), and one that puts it there itself. The
segment prefix is the only thing in front (`FormParts`), so both write the same parts (`WideForms`), encoder by encoder (`StackCopies` to
`JumpCopies`), and the one that is asked first (`CopiesReached`) is the other.

### Only model-checked
Everything about `Macros`, `Parser`, `Eval` and their meanings; `ReadsBack` of `ExecMeaning`. Liveness (`Ends`, `LastPassEnds`) is beyond the prover: of `Ends` it has `GetsOn`, that no file is read for ever, and
TLC the rest, that every state in front of the end has a step. So is what the
recursions of `Substituted`, `Grammar` or the expression parser compute for every input.

## 5. Not modelled

* Vendored code (`argparse`, `strtonum`, `utf8proc` with its tables, which are more than a third of the lines), logging,
  messages, debug printers and file handles.
* `@struct`: declarations and `encode_struct`, whose arithmetic is that of `Layout`; and with it fields in operands.
* How the tokens of an operand become an operand, in both backends, but for what an unknown name becomes;
  the opcode table and the indexed modes of the 6502.
* Exponents and the rounding of `strtod()`, escapes in strings and the bytes of an encoding.
* `@warn`, which changes nothing, and functions, which the code has commented out.
* Failed allocations outside of `Arena`: each is an early return.

## 6. Where it could be carried further

The order in which more would pay: `TypeOK` and `PlacesInOrder` of `Macros`;
`ReadsBack` for the plain encoders, form by form; `encode_struct` against the layout it declares; the parsers of
operands in front of `Exec386`; an abstract assembler (labels placed, then bytes written once) that `TwoPass` implements.
