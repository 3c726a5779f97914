------------------------------- MODULE Arena -------------------------------
(***************************************************************************)
(* The bump allocator of src/memory/memory.c and the ways its callers use  *)
(* it.  Blocks are handed out one after the other from a single pool; the  *)
(* only block that can be resized or given back is the last one, and the   *)
(* allocator trusts its callers to own that block.  The callers that do so *)
(* are the file loader, the token buffer of the lexer, the path buffer of  *)
(* @include and the number parser; everything else (AST nodes, variables,  *)
(* labels, tokens ...) only ever allocates.                                *)
(*                                                                         *)
(* Addresses are offsets in bytes from memory.start, which is aligned.     *)
(*                                                                         *)
(* A definition set just before another, named for a mistake, is the form  *)
(* that mistake would take: the properties are checked to refute it.       *)
(***************************************************************************)
EXTENDS Integers, Sequences

CONSTANTS
  PoolSize,        \* memory.end: the size given by --memory
  SizeofHeader,    \* sizeof(struct mem_alloc_t)
  BlockSizes,      \* sizes of the structs that are allocated and kept
  FileSizes,       \* sizes of the source files
  SizeofValue,     \* sizeof(struct Value)
  DupSizes,        \* sizes of the copy of a literal made for strtod
  TokenInitSize,   \* TOKEN_CP_BUFFER_INIT_SIZE, in code points
  PathBufSize      \* CP_ENCODING_BUF: the longest encoding of a code point, with its terminator

ASSUME ArenaAssumption ==
  /\ {PoolSize, SizeofHeader, SizeofValue} \subseteq Nat
  /\ BlockSizes \subseteq Nat /\ FileSizes \subseteq Nat /\ DupSizes \subseteq Nat
  /\ TokenInitSize \in Nat /\ TokenInitSize >= 2
  /\ PathBufSize \in Nat /\ PathBufSize >= 2

VARIABLES
  memory,   \* struct mem_t: where free memory starts, and the list of blocks up to last_alloc
  phase,    \* what the (only) caller is in the middle of
  used,     \* units written so far to the buffer that is being filled
  cap       \* units the caller believes that buffer holds

vars == <<memory, phase, used, cap>>

MEM_ALIGN == 8
SizeofCp  == 4       \* sizeof(int32_t)

----------------------------------------------------------------------------
(* memory.c                                                                *)

NextAligned(a) == ((a + MEM_ALIGN - 1) \div MEM_ALIGN) * MEM_ALIGN

\* The block mem_alloc would carve out of m: "size" is what the owner may use.
NextBlock(m, size) ==
  LET alloc == NextAligned(m.curr)
      data  == NextAligned(alloc + SizeofHeader)
  IN  [alloc |-> alloc, data |-> data, start |-> data + size, size |-> size]

CanAllocWithoutHeader(m, size) == m.curr + size < PoolSize

CanAlloc(m, size) == NextBlock(m, size).start < PoolSize

Alloced(m, size) ==
  LET b == NextBlock(m, size)
  IN  [curr |-> b.start, chain |-> Append(m.chain, b)]

LastBlock(m) == m.chain[Len(m.chain)]

FreedLastToData(m) ==
  IF Len(m.chain) < 2 THEN [m EXCEPT !.chain = << >>]
  ELSE [curr  |-> m.chain[Len(m.chain) - 1].data,
        chain |-> SubSeq(m.chain, 1, Len(m.chain) - 1)]

FreedFirst(m) ==
  IF Len(m.chain) < 2 THEN [m EXCEPT !.chain = << >>]
  ELSE [curr |-> m.curr, chain |-> SubSeq(m.chain, 2, Len(m.chain))]

\* Freeing the only block leaves curr where it is.
FreedLast(m) ==
  IF Len(m.chain) < 2 THEN [m EXCEPT !.chain = << >>]
  ELSE [curr  |-> m.chain[Len(m.chain) - 1].start,
        chain |-> SubSeq(m.chain, 1, Len(m.chain) - 1)]

CanResize(m, size) == Len(m.chain) > 0 /\ LastBlock(m).data + size < PoolSize

ResizedKeepsCurr(m, size) ==
  [m EXCEPT !.chain[Len(m.chain)].size = size]

\* Resizing moves curr and leaves the block's own record of it (start) behind.
Resized(m, size) ==
  [curr  |-> LastBlock(m).data + size,
   chain |-> [m.chain EXCEPT ![Len(m.chain)].size = size]]

EmptyMemory == [curr |-> 0, chain |-> << >>]

----------------------------------------------------------------------------
(* The callers                                                             *)

Init ==
  /\ memory = EmptyMemory
  /\ phase = "idle" /\ used = 0 /\ cap = 0

\* MEM_ALLOC followed by the caller's check for NULL, which ends the run.
AllocThen(size, next) ==
  \/ /\ CanAlloc(memory, size)
     /\ memory' = Alloced(memory, size)
     /\ phase' = next
  \/ /\ ~CanAlloc(memory, size)
     /\ phase' = "nomem"
     /\ UNCHANGED memory

ResizeThen(size, next) ==
  \/ /\ CanResize(memory, size)
     /\ memory' = Resized(memory, size)
     /\ phase' = next
  \/ /\ ~CanResize(memory, size)
     /\ phase' = "nomem"
     /\ UNCHANGED memory

\* The buffer is complete: its length and capacity were locals of its caller.
Forget == used' = 0 /\ cap' = 0

\* A node, a token, a variable, a label ...: allocated once and kept.
NewBlock ==
  /\ phase = "idle"
  /\ \E size \in BlockSizes : AllocThen(size, "idle")
  /\ UNCHANGED <<used, cap>>

\* load_file, then room for the implicit newline.
LoadFile ==
  /\ phase = "idle"
  /\ \E size \in FileSizes : AllocThen(size, "file") /\ cap' = size
  /\ used' = 0

GrowFile ==
  /\ phase = "file"
  /\ ResizeThen(cap + 1, "idle")
  /\ Forget

\* The buffer of the lexer grows by half.
GrownByQuarter(n) == n + n \div 4

Grown(n) == n + n \div 2

\* The lexer copies the code points of a token into a buffer.
TokenCpBufferInit ==
  /\ phase = "idle"
  /\ AllocThen(TokenInitSize * SizeofCp, "token")
  /\ used' = 0 /\ cap' = TokenInitSize

TokenPushCp ==
  /\ phase = "token"
  /\ \/ /\ used # cap
        /\ used' = used + 1
        /\ UNCHANGED <<memory, phase, cap>>
     \/ /\ used = cap
        /\ cap' = Grown(cap)
        /\ ResizeThen(cap' * SizeofCp, "token")
        /\ used' = IF phase' = "token" THEN used + 1 ELSE used

TokenTrimDropsOne ==
  /\ phase = "token"
  /\ cap' = used - 1
  /\ ResizeThen((used - 1) * SizeofCp, "trimmed")
  /\ UNCHANGED used

TokenTrim ==
  /\ phase = "token"
  /\ cap' = used
  /\ ResizeThen(used * SizeofCp, "trimmed")
  /\ UNCHANGED used

\* A NAME is composed in place, which never lengthens it, and trimmed again.
TokenNormalize ==
  /\ phase = "trimmed"
  /\ \/ \E len \in 1..used : ResizeThen(len * SizeofCp, "idle")
     \/ phase' = "idle" /\ UNCHANGED memory
  /\ Forget

\* cp_string_to_encoding: the path of an @include, grown one encoding at a time.
PathInit ==
  /\ phase = "idle"
  /\ AllocThen(PathBufSize, "path")
  /\ used' = 0 /\ cap' = PathBufSize

PathPush ==
  /\ phase = "path"
  /\ \E n \in 1..(PathBufSize - 1) :
       \/ /\ used + n + 1 <= cap
          /\ used' = used + n
          /\ UNCHANGED <<memory, phase, cap>>
       \/ /\ used + n + 1 > cap
          /\ cap' = cap + PathBufSize
          /\ ResizeThen(cap', "path")
          /\ used' = IF phase' = "path" THEN used + n ELSE used

PathTrim ==
  /\ phase = "path"
  /\ ResizeThen(used + 1, "idle")
  /\ Forget

\* new_number: the Value is allocated first; a literal that is not an integer
\* is then copied for strtod, and the copy is given back on every path.
NewNumber ==
  /\ phase = "idle"
  /\ AllocThen(SizeofValue, "number")
  /\ UNCHANGED <<used, cap>>

NumberIsInteger ==
  /\ phase = "number"
  /\ phase' = "idle"
  /\ UNCHANGED <<memory, used, cap>>

StrtodDup ==
  /\ phase = "number"
  /\ \E size \in DupSizes : AllocThen(size, "strtod")
  /\ UNCHANGED <<used, cap>>

StrtodFree ==
  /\ phase = "strtod"
  /\ memory' = FreedLast(memory)
  /\ phase' \in {"idle", "failed"}
  /\ UNCHANGED <<used, cap>>

\* main: MEM_DEINIT once the assembler has returned, whatever it returned.
Deinit ==
  /\ phase \in {"idle", "nomem", "failed"}
  /\ memory' = EmptyMemory
  /\ phase' = "done"
  /\ UNCHANGED <<used, cap>>

Next ==
  \/ NewBlock \/ LoadFile \/ GrowFile
  \/ TokenCpBufferInit \/ TokenPushCp \/ TokenTrim \/ TokenNormalize
  \/ PathInit \/ PathPush \/ PathTrim
  \/ NewNumber \/ NumberIsInteger \/ StrtodDup \/ StrtodFree
  \/ Deinit

Spec == Init /\ [][Next]_vars

----------------------------------------------------------------------------
(* Properties                                                              *)

Block == [alloc : Nat, data : Nat, start : Nat, size : Nat]

Phases == {"idle", "file", "token", "trimmed", "path", "number", "strtod",
           "nomem", "failed", "done"}

\* The type invariant of the allocator and of its callers.
TypeOK ==
  /\ memory \in [curr : Nat, chain : Seq(Block)]
  /\ phase \in Phases
  /\ used \in Nat /\ cap \in Nat

\* What the owner of a block may write ends before the header of the next
\* block: no write to a block that was granted changes another block or the
\* links of the list (mem_alloc and mem_resize_last against mem_free_last).
BlocksApart ==
  \A i \in 1..Len(memory.chain) :
    \A j \in 1..Len(memory.chain) :
      i < j => memory.chain[i].data + memory.chain[i].size <= memory.chain[j].alloc

\* memory.h: curr "points to free memory".  Everything granted lies below it,
\* after a block was resized and after the next one was given back alike.
CurrIsFree ==
  \A i \in 1..Len(memory.chain) :
    memory.chain[i].data + memory.chain[i].size <= memory.curr

\* Every block, its header included, lies inside the pool.
InsidePool ==
  /\ \A i \in 1..Len(memory.chain) :
       memory.chain[i].data + memory.chain[i].size < PoolSize
  /\ memory.chain # << >> => memory.curr < PoolSize

\* A caller that fills a growing buffer writes only what the last block of the
\* list holds: the lexer's 1.5x growth and the terminator of an include path
\* stay inside the size granted by the last resize.
FillsWhatItOwns ==
  /\ phase \in {"token", "trimmed"} =>
       Len(memory.chain) > 0 /\ used * SizeofCp <= LastBlock(memory).size
  /\ phase = "path" =>
       Len(memory.chain) > 0 /\ used + 1 <= LastBlock(memory).size

\* No step moves a block that was handed out, and only the last block changes
\* size: the pointers the callers keep stay valid (lexer.c: "it will allways be
\* the same returned by token_cp_buffer_init").
PointersStayValid ==
  [][\A i \in 1..Len(memory.chain) :
       i <= Len(memory'.chain) =>
         /\ memory'.chain[i].data = memory.chain[i].data
         /\ i < Len(memory.chain) => memory'.chain[i] = memory.chain[i]]_vars

\* The abstract allocator sees of a block where its data is and how much of it there is.
Granted ==
  [i \in 1..Len(memory.chain) |-> [at |-> memory.chain[i].data, size |-> memory.chain[i].size]]

Contract == INSTANCE Allocator WITH granted <- Granted, Pool <- PoolSize, Align <- MEM_ALIGN

\* Bumping a pointer, resizing the last block in place and falling back to the
\* block before it implement an allocator that always grants aligned memory
\* nobody else has (memory.h, mem_alloc, mem_resize_last, mem_free_last).
ImplementsAllocator == Contract!Spec

=============================================================================
