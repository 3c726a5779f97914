---------------------------- MODULE ArenaProofs ----------------------------
(***************************************************************************)
(* The blocks of the arena never overlap, for every pool size, block size  *)
(* and order of calls the callers can produce.  The allocator alone does   *)
(* not guarantee it (freeing after a resize would hand out live memory):   *)
(* the invariant has to say that the block in front of the copy made for   *)
(* strtod was never resized.                                               *)
(***************************************************************************)
EXTENDS Arena, TLAPS

\* A block as mem_alloc lays it out: header, alignment, data.
WellPlaced(b) ==
  /\ b.alloc + SizeofHeader <= b.data
  /\ b.data + b.size < PoolSize

\* The blocks in the order of the list, each behind the previous one.
Ordered(m) ==
  /\ \A i \in 1..Len(m.chain) : WellPlaced(m.chain[i])
  /\ \A i \in 1..Len(m.chain) : \A j \in 1..Len(m.chain) :
       i < j => m.chain[i].data + m.chain[i].size <= m.chain[j].alloc

\* curr is the end of the last block.
CurrAtEnd(m) ==
  m.chain # << >> => m.curr = LastBlock(m).data + LastBlock(m).size

\* Block i has not been resized since it was allocated.
Unresized(m, i) == m.chain[i].start = m.chain[i].data + m.chain[i].size

\* What the callers know in each phase about the blocks they hold.
PhaseInv ==
  /\ phase \in {"file", "token", "trimmed", "path", "number"} => Len(memory.chain) > 0
  /\ phase = "token" =>
       LastBlock(memory).size = cap * SizeofCp /\ used <= cap /\ cap >= 2
  /\ phase = "trimmed" => LastBlock(memory).size = used * SizeofCp
  /\ phase = "path" => LastBlock(memory).size = cap /\ used + 1 <= cap
  /\ phase = "number" => Unresized(memory, Len(memory.chain))
  /\ phase = "strtod" =>
       Len(memory.chain) > 1 /\ Unresized(memory, Len(memory.chain) - 1)

IInv == TypeOK /\ Ordered(memory) /\ CurrAtEnd(memory) /\ PhaseInv

MemoryOK(m) ==
  m \in [curr : Nat, chain : Seq(Block)] /\ Ordered(m) /\ CurrAtEnd(m)

----------------------------------------------------------------------------

\* The constants are the numbers the arithmetic below needs.
LEMMA Sizes ==
  PoolSize \in Nat /\ SizeofHeader \in Nat /\ SizeofValue \in Nat
BY ArenaAssumption

\* Rounding up to MEM_ALIGN never goes down.
LEMMA NextAlignedLemma ==
  \A a \in Nat : NextAligned(a) \in Nat /\ a <= NextAligned(a)
BY DEF NextAligned, MEM_ALIGN

\* A block carved out of m is well placed behind everything m granted.
LEMMA NextBlockLemma ==
  ASSUME NEW m, MemoryOK(m), NEW size \in Nat, CanAlloc(m, size)
  PROVE  /\ NextBlock(m, size) \in Block
         /\ WellPlaced(NextBlock(m, size))
         /\ NextBlock(m, size).start = NextBlock(m, size).data + size
         /\ NextBlock(m, size).size = size
         /\ m.curr <= NextBlock(m, size).alloc
<1>1. SizeofHeader \in Nat /\ PoolSize \in Nat
  BY ArenaAssumption
<1>2. m.curr \in Nat
  BY DEF MemoryOK
<1> DEFINE al == NextAligned(m.curr)
           da == NextAligned(al + SizeofHeader)
<1>3. al \in Nat /\ m.curr <= al
  BY <1>2, NextAlignedLemma
<1>4. da \in Nat /\ al + SizeofHeader <= da
  BY <1>1, <1>3, NextAlignedLemma
<1>5. NextBlock(m, size) = [alloc |-> al, data |-> da, start |-> da + size, size |-> size]
  BY DEF NextBlock
<1> HIDE DEF al, da
<1> QED
  BY <1>1, <1>3, <1>4, <1>5 DEF CanAlloc, WellPlaced, Block

\* In an ordered memory everything granted lies below curr.
LEMMA BelowCurr ==
  ASSUME NEW m, MemoryOK(m), NEW i \in 1..Len(m.chain)
  PROVE  m.chain[i].data + m.chain[i].size <= m.curr
<1> DEFINE n == Len(m.chain)
<1>1. m.chain \in Seq(Block) /\ n \in Nat /\ n \in 1..n /\ m.chain # << >>
  BY DEF MemoryOK
<1>2. m.chain[i] \in Block /\ m.chain[n] \in Block
  BY <1>1
<1>3. m.curr = m.chain[n].data + m.chain[n].size
  BY <1>1 DEF MemoryOK, CurrAtEnd, LastBlock
<1>4. CASE i = n
  BY <1>2, <1>3, <1>4 DEF Block
<1>5. CASE i < n
  <2>1. m.chain[i].data + m.chain[i].size <= m.chain[n].alloc
    BY <1>1, <1>5 DEF MemoryOK, Ordered
  <2>2. m.chain[n].alloc + SizeofHeader <= m.chain[n].data
    BY <1>1 DEF MemoryOK, Ordered, WellPlaced
  <2> QED
    BY <1>2, <1>3, <2>1, <2>2, Sizes DEF Block
<1> QED
  BY <1>1, <1>4, <1>5

\* mem_alloc keeps the memory in order and adds one unresized block.
LEMMA AllocLemma ==
  ASSUME NEW m, MemoryOK(m), NEW size \in Nat, CanAlloc(m, size)
  PROVE  LET r == Alloced(m, size) IN
         /\ MemoryOK(r)
         /\ Len(r.chain) = Len(m.chain) + 1
         /\ LastBlock(r).size = size
         /\ Unresized(r, Len(r.chain))
         /\ \A i \in 1..Len(m.chain) : r.chain[i] = m.chain[i]
<1> DEFINE b == NextBlock(m, size)
           r == Alloced(m, size)
           n == Len(m.chain)
<1>1. /\ b \in Block /\ WellPlaced(b) /\ b.start = b.data + size
      /\ b.size = size /\ m.curr <= b.alloc
  BY NextBlockLemma
<1>2. m.chain \in Seq(Block) /\ n \in Nat
  BY DEF MemoryOK
<1>3. r.curr = b.start /\ r.chain = Append(m.chain, b)
  BY DEF Alloced
<1>4. r \in [curr : Nat, chain : Seq(Block)]
  BY <1>1, <1>2 DEF Alloced, Block
<1>5. /\ Len(r.chain) = n + 1 /\ r.chain[n + 1] = b
      /\ \A i \in 1..n : r.chain[i] = m.chain[i]
  BY <1>1, <1>2, <1>3
<1>6. \A i \in 1..n : m.chain[i].data + m.chain[i].size <= m.curr
  BY BelowCurr
<1> HIDE DEF b, r, n
<1>7. Ordered(r)
  <2>1. \A i \in 1..Len(r.chain) : WellPlaced(r.chain[i])
    BY <1>1, <1>2, <1>5 DEF MemoryOK, Ordered, n
  <2>2. ASSUME NEW i \in 1..Len(r.chain), NEW j \in 1..Len(r.chain), i < j
        PROVE  r.chain[i].data + r.chain[i].size <= r.chain[j].alloc
    <3>1. i \in 1..n
      BY <1>2, <1>5, <2>2
    <3>2. CASE j \in 1..n
      BY <1>5, <2>2, <3>1, <3>2 DEF MemoryOK, Ordered, n
    <3>3. CASE j = n + 1
      <4>1. m.chain[i] \in Block
        BY <1>2, <3>1 DEF n
      <4>2. m.curr \in Nat
        BY DEF MemoryOK
      <4>3. r.chain[i] = m.chain[i] /\ r.chain[j] = b
        BY <1>5, <3>1, <3>3
      <4>4. m.chain[i].data + m.chain[i].size <= m.curr
        BY <1>6, <3>1
      <4>5. /\ b.alloc \in Nat /\ m.curr <= b.alloc
            /\ m.chain[i].data \in Nat /\ m.chain[i].size \in Nat
        BY <1>1, <4>1 DEF Block
      <4>6. m.chain[i].data + m.chain[i].size <= b.alloc
        BY <4>2, <4>4, <4>5
      <4> QED
        BY <4>3, <4>6
    <3> QED
      BY <1>2, <1>5, <3>2, <3>3
  <2> QED
    BY <2>1, <2>2 DEF Ordered
<1>8. CurrAtEnd(r) /\ Unresized(r, Len(r.chain)) /\ LastBlock(r).size = size
  BY <1>1, <1>3, <1>5 DEF CurrAtEnd, Unresized, LastBlock
<1> QED
  BY <1>4, <1>5, <1>7, <1>8 DEF MemoryOK, r, n

\* mem_resize_last keeps the memory in order: only the size of the last block
\* changes, and nothing lies behind it.
LEMMA ResizeLemma ==
  ASSUME NEW m, MemoryOK(m), NEW size \in Nat, CanResize(m, size)
  PROVE  LET r == Resized(m, size) IN
         /\ MemoryOK(r)
         /\ Len(r.chain) = Len(m.chain)
         /\ LastBlock(r).size = size
         /\ LastBlock(r).data = LastBlock(m).data
         /\ \A i \in 1..(Len(m.chain) - 1) : r.chain[i] = m.chain[i]
         /\ \A i \in 1..Len(m.chain) : r.chain[i].data = m.chain[i].data
<1> DEFINE n == Len(m.chain)
           r == Resized(m, size)
<1>1. m.chain \in Seq(Block) /\ n \in Nat /\ n \in 1..n
  BY DEF MemoryOK, CanResize
<1>2. m.chain[n] \in Block /\ \A i \in 1..n : m.chain[i] \in Block
  BY <1>1
<1>3. r.curr = m.chain[n].data + size /\ r.chain = [m.chain EXCEPT ![n].size = size]
  BY DEF Resized, LastBlock
<1>4. [m.chain[n] EXCEPT !.size = size] \in Block
  BY <1>2 DEF Block
<1>5. /\ r.chain \in Seq(Block) /\ Len(r.chain) = n
      /\ r.chain[n] = [m.chain[n] EXCEPT !.size = size]
      /\ \A i \in 1..n : i # n => r.chain[i] = m.chain[i]
  BY <1>1, <1>3, <1>4
<1>6. /\ r.chain[n].size = size
      /\ r.chain[n].data = m.chain[n].data
      /\ r.chain[n].alloc = m.chain[n].alloc
  BY <1>2, <1>5 DEF Block
<1>7. r \in [curr : Nat, chain : Seq(Block)]
  <2>1. m.chain[n].data + size \in Nat
    BY <1>2 DEF Block
  <2> QED
    BY <1>3, <1>5, <2>1 DEF Resized
<1>8. m.chain[n].data + size < PoolSize
  BY DEF CanResize, LastBlock
<1> HIDE DEF r, n
<1>9. Ordered(r)
  <2>1. ASSUME NEW i \in 1..n
        PROVE  WellPlaced(r.chain[i])
    <3>1. WellPlaced(m.chain[i])
      BY <2>1 DEF MemoryOK, Ordered, n
    <3>2. CASE i = n
      BY <1>6, <1>8, <3>1, <3>2 DEF WellPlaced
    <3>3. CASE i # n
      BY <1>5, <3>1, <3>3
    <3> QED
      BY <3>2, <3>3
  <2>2. ASSUME NEW i \in 1..n, NEW j \in 1..n, i < j
        PROVE  r.chain[i].data + r.chain[i].size <= r.chain[j].alloc
    <3>1. m.chain[i].data + m.chain[i].size <= m.chain[j].alloc
      BY <2>2 DEF MemoryOK, Ordered, n
    <3>2. r.chain[i] = m.chain[i]
      BY <1>1, <1>5, <2>2
    <3>3. r.chain[j].alloc = m.chain[j].alloc
      BY <1>5, <1>6
    <3> QED
      BY <3>1, <3>2, <3>3
  <2> QED
    BY <1>5, <2>1, <2>2 DEF Ordered
<1>10. CurrAtEnd(r)
  BY <1>3, <1>5, <1>6 DEF CurrAtEnd, LastBlock
<1>11. \A i \in 1..n : r.chain[i].data = m.chain[i].data
  BY <1>5, <1>6
<1>12. \A i \in 1..(n - 1) : r.chain[i] = m.chain[i]
  BY <1>1, <1>5
<1> QED
  BY <1>5, <1>6, <1>7, <1>9, <1>10, <1>11, <1>12 DEF MemoryOK, LastBlock, r, n

\* mem_free_last keeps the memory in order provided that the block it falls
\* back to was never resized: curr is taken from that block's start.
LEMMA FreeLemma ==
  ASSUME NEW m, MemoryOK(m), Len(m.chain) > 1, Unresized(m, Len(m.chain) - 1)
  PROVE  LET r == FreedLast(m) IN
         /\ MemoryOK(r)
         /\ Len(r.chain) = Len(m.chain) - 1
         /\ \A i \in 1..Len(r.chain) : r.chain[i] = m.chain[i]
<1> DEFINE n == Len(m.chain)
           r == FreedLast(m)
<1>1. m.chain \in Seq(Block) /\ n \in Nat /\ n > 1 /\ n - 1 \in 1..n
  BY DEF MemoryOK
<1>2. r = [curr |-> m.chain[n - 1].start, chain |-> SubSeq(m.chain, 1, n - 1)]
  BY <1>1 DEF FreedLast
<1>3. /\ r.chain \in Seq(Block) /\ Len(r.chain) = n - 1
      /\ \A i \in 1..(n - 1) : r.chain[i] = m.chain[i]
  BY <1>1, <1>2
<1>4. m.chain[n - 1] \in Block
  BY <1>1
<1>5. r \in [curr : Nat, chain : Seq(Block)]
  <2>1. m.chain[n - 1].start \in Nat
    BY <1>4 DEF Block
  <2>2. SubSeq(m.chain, 1, n - 1) \in Seq(Block)
    BY <1>1
  <2> QED
    BY <1>2, <2>1, <2>2
<1> HIDE DEF r, n
<1>6. Ordered(r)
  <2>1. \A i \in 1..(n - 1) : i \in 1..n
    BY <1>1
  <2>2. \A i \in 1..n : WellPlaced(m.chain[i])
    BY DEF MemoryOK, Ordered, n
  <2>3. \A i \in 1..n : \A j \in 1..n :
          i < j => m.chain[i].data + m.chain[i].size <= m.chain[j].alloc
    BY DEF MemoryOK, Ordered, n
  <2>4. \A i \in 1..(n - 1) : WellPlaced(r.chain[i])
    BY <1>3, <2>1, <2>2
  <2>5. ASSUME NEW i \in 1..(n - 1), NEW j \in 1..(n - 1), i < j
        PROVE  r.chain[i].data + r.chain[i].size <= r.chain[j].alloc
    <3>1. r.chain[i] = m.chain[i] /\ r.chain[j] = m.chain[j]
      BY <1>3
    <3>2. m.chain[i].data + m.chain[i].size <= m.chain[j].alloc
      BY <2>1, <2>3, <2>5
    <3> QED
      BY <3>1, <3>2
  <2> QED
    BY <1>3, <2>4, <2>5 DEF Ordered
<1>7. CurrAtEnd(r)
  <2>1. m.chain[n - 1].start = m.chain[n - 1].data + m.chain[n - 1].size
    BY DEF Unresized, n
  <2>2. r.chain[Len(r.chain)] = m.chain[n - 1]
    BY <1>1, <1>3
  <2> QED
    BY <1>2, <2>1, <2>2 DEF CurrAtEnd, LastBlock
<1> QED
  BY <1>3, <1>5, <1>6, <1>7 DEF MemoryOK, r, n

----------------------------------------------------------------------------
(* The invariant                                                           *)

\* After AllocThen, either the block was carved out or nothing moved.
LEMMA AllocThenLemma ==
  ASSUME MemoryOK(memory), NEW size \in Nat, NEW next, AllocThen(size, next)
  PROVE  \/ /\ phase' = next
            /\ MemoryOK(memory')
            /\ Len(memory'.chain) = Len(memory.chain) + 1
            /\ LastBlock(memory').size = size
            /\ Unresized(memory', Len(memory'.chain))
            /\ \A i \in 1..Len(memory.chain) : memory'.chain[i] = memory.chain[i]
         \/ phase' = "nomem" /\ memory' = memory
<1>1. CASE CanAlloc(memory, size) /\ memory' = Alloced(memory, size) /\ phase' = next
  BY <1>1, AllocLemma
<1> QED
  BY <1>1 DEF AllocThen

\* After ResizeThen, either the last block has its new size or nothing moved.
LEMMA ResizeThenLemma ==
  ASSUME MemoryOK(memory), NEW size \in Nat, NEW next, ResizeThen(size, next)
  PROVE  \/ /\ phase' = next
            /\ MemoryOK(memory')
            /\ Len(memory'.chain) = Len(memory.chain)
            /\ LastBlock(memory').size = size
            /\ \A i \in 1..(Len(memory.chain) - 1) : memory'.chain[i] = memory.chain[i]
            /\ \A i \in 1..Len(memory.chain) : memory'.chain[i].data = memory.chain[i].data
         \/ phase' = "nomem" /\ memory' = memory
<1>1. CASE CanResize(memory, size) /\ memory' = Resized(memory, size) /\ phase' = next
  BY <1>1, ResizeLemma
<1> QED
  BY <1>1 DEF ResizeThen

\* A memory from which nothing was allocated is in order.
LEMMA EmptyOK == MemoryOK(EmptyMemory)
<1>1. EmptyMemory.chain = << >> /\ EmptyMemory.curr = 0 /\ Len(EmptyMemory.chain) = 0
  BY DEF EmptyMemory
<1>2. EmptyMemory \in [curr : Nat, chain : Seq(Block)]
  BY DEF EmptyMemory
<1> QED
  BY <1>1, <1>2 DEF MemoryOK, Ordered, CurrAtEnd

\* The program starts with an empty memory, in order.
LEMMA InitIInv == Init => IInv
<1> SUFFICES ASSUME Init PROVE IInv
  OBVIOUS
<1>1. TypeOK /\ PhaseInv
  BY EmptyOK DEF Init, TypeOK, PhaseInv, Phases, MemoryOK
<1> QED
  BY <1>1, EmptyOK DEF Init, IInv, MemoryOK

\* Every step of every caller keeps the strengthened invariant.
LEMMA NextIInv == IInv /\ [Next]_vars => IInv'
<1> SUFFICES ASSUME IInv, [Next]_vars PROVE IInv'
  OBVIOUS
<1>0. MemoryOK(memory) /\ PhaseInv /\ phase \in Phases /\ used \in Nat /\ cap \in Nat
  BY DEF IInv, TypeOK, MemoryOK
<1>1. SUFFICES MemoryOK(memory') /\ phase' \in Phases /\ used' \in Nat /\ cap' \in Nat /\ PhaseInv'
  BY DEF IInv, TypeOK, MemoryOK, Ordered, CurrAtEnd, LastBlock
<1>a. Len(memory.chain) \in Nat
  BY <1>0 DEF MemoryOK
<1>2. CASE NewBlock
  BY <1>0, <1>2, AllocThenLemma, ArenaAssumption DEF NewBlock, PhaseInv, Phases
<1>3. CASE LoadFile
  BY <1>0, <1>a, <1>3, AllocThenLemma, ArenaAssumption DEF LoadFile, PhaseInv, Phases
<1>4. CASE GrowFile
  BY <1>0, <1>4, ResizeThenLemma DEF GrowFile, Forget, PhaseInv, Phases
<1>5. CASE TokenCpBufferInit
  <2>1. TokenInitSize * SizeofCp \in Nat /\ TokenInitSize \in Nat /\ TokenInitSize >= 2
    BY ArenaAssumption DEF SizeofCp
  <2> QED
    BY <1>0, <1>a, <1>5, <2>1, AllocThenLemma DEF TokenCpBufferInit, PhaseInv, Phases
<1>6. CASE TokenPushCp
  <2>1. CASE used # cap /\ used' = used + 1 /\ UNCHANGED <<memory, phase, cap>>
    BY <1>0, <1>6, <2>1 DEF TokenPushCp, PhaseInv, Phases, LastBlock
  <2>2. CASE /\ used = cap
             /\ cap' = Grown(cap)
             /\ ResizeThen(cap' * SizeofCp, "token")
             /\ used' = IF phase' = "token" THEN used + 1 ELSE used
    <3>1. cap' \in Nat /\ cap' * SizeofCp \in Nat
      BY <1>0, <2>2 DEF SizeofCp, Grown
    <3>2. phase = "token" /\ Len(memory.chain) > 0
      BY <1>0, <1>6 DEF TokenPushCp, PhaseInv
    <3>3. CASE phase' = "nomem" /\ memory' = memory
      BY <1>0, <2>2, <3>1, <3>3 DEF PhaseInv, Phases
    <3>4. CASE /\ phase' = "token" /\ MemoryOK(memory')
               /\ Len(memory'.chain) = Len(memory.chain)
               /\ LastBlock(memory').size = cap' * SizeofCp
      <4>1. used' = used + 1
        BY <2>2, <3>4
      <4>2. used + 1 <= cap' /\ 2 <= cap'
        BY <1>0, <2>2, <3>2 DEF PhaseInv, Grown
      <4> QED
        BY <1>0, <2>2, <3>1, <3>2, <3>4, <4>1, <4>2 DEF PhaseInv, Phases
    <3> QED
      BY <1>0, <2>2, <3>1, <3>3, <3>4, ResizeThenLemma
  <2> QED
    BY <1>6, <2>1, <2>2 DEF TokenPushCp
<1>7. CASE TokenTrim
  <2>1. used * SizeofCp \in Nat
    BY <1>0 DEF SizeofCp
  <2> QED
    BY <1>0, <1>7, <2>1, ResizeThenLemma DEF TokenTrim, PhaseInv, Phases
<1>8. CASE TokenNormalize
  <2>1. CASE phase' = "idle" /\ UNCHANGED memory
    BY <1>0, <1>8, <2>1 DEF TokenNormalize, Forget, PhaseInv, Phases
  <2>2. CASE \E len \in 1..used : ResizeThen(len * SizeofCp, "idle")
    <3>1. PICK len \in 1..used : ResizeThen(len * SizeofCp, "idle")
      BY <2>2
    <3>2. len * SizeofCp \in Nat
      BY <1>0 DEF SizeofCp
    <3> QED
      BY <1>0, <1>8, <3>1, <3>2, ResizeThenLemma DEF TokenNormalize, Forget, PhaseInv, Phases
  <2> QED
    BY <1>8, <2>1, <2>2 DEF TokenNormalize
<1>9. CASE PathInit
  BY <1>0, <1>a, <1>9, AllocThenLemma, ArenaAssumption DEF PathInit, PhaseInv, Phases
<1>10. CASE PathPush
  <2>1. PICK n \in 1..(PathBufSize - 1) :
          \/ /\ used + n + 1 <= cap
             /\ used' = used + n
             /\ UNCHANGED <<memory, phase, cap>>
          \/ /\ used + n + 1 > cap
             /\ cap' = cap + PathBufSize
             /\ ResizeThen(cap', "path")
             /\ used' = IF phase' = "path" THEN used + n ELSE used
    BY <1>10 DEF PathPush
  <2>2. n \in Nat /\ n + 1 <= PathBufSize /\ PathBufSize \in Nat
    BY ArenaAssumption
  <2>3. phase = "path" /\ Len(memory.chain) > 0 /\ used + 1 <= cap
    BY <1>0, <1>10 DEF PathPush, PhaseInv
  <2>4. CASE used + n + 1 <= cap /\ used' = used + n /\ UNCHANGED <<memory, phase, cap>>
    BY <1>0, <2>2, <2>3, <2>4 DEF PhaseInv, Phases, LastBlock
  <2>5. CASE /\ cap' = cap + PathBufSize
             /\ ResizeThen(cap', "path")
             /\ used' = IF phase' = "path" THEN used + n ELSE used
    <3>1. cap' \in Nat
      BY <1>0, <2>2, <2>5
    <3>2. CASE phase' = "nomem" /\ memory' = memory
      BY <1>0, <2>5, <3>1, <3>2 DEF PhaseInv, Phases
    <3>3. CASE /\ phase' = "path" /\ MemoryOK(memory')
               /\ Len(memory'.chain) = Len(memory.chain)
               /\ LastBlock(memory').size = cap'
      <4>1. used' = used + n /\ used' + 1 <= cap'
        BY <1>0, <2>2, <2>3, <2>5, <3>3
      <4> QED
        BY <1>0, <2>2, <2>3, <3>1, <3>3, <4>1 DEF PhaseInv, Phases
    <3> QED
      BY <1>0, <2>5, <3>1, <3>2, <3>3, ResizeThenLemma
  <2> QED
    BY <2>1, <2>4, <2>5
<1>11. CASE PathTrim
  BY <1>0, <1>11, ResizeThenLemma DEF PathTrim, Forget, PhaseInv, Phases
<1>12. CASE NewNumber
  BY <1>0, <1>a, <1>12, AllocThenLemma, Sizes DEF NewNumber, PhaseInv, Phases
<1>13. CASE NumberIsInteger
  BY <1>0, <1>13 DEF NumberIsInteger, PhaseInv, Phases
<1>14. CASE StrtodDup
  <2>1. PICK size \in DupSizes : AllocThen(size, "strtod")
    BY <1>14 DEF StrtodDup
  <2>2. /\ phase = "number" /\ Len(memory.chain) > 0
        /\ Unresized(memory, Len(memory.chain))
        /\ size \in Nat /\ used' = used /\ cap' = cap
    BY <1>0, <1>14, <2>1, ArenaAssumption DEF StrtodDup, PhaseInv
  <2>3. CASE phase' = "nomem" /\ memory' = memory
    BY <1>0, <2>2, <2>3 DEF PhaseInv, Phases
  <2>4. CASE /\ phase' = "strtod" /\ MemoryOK(memory')
             /\ Len(memory'.chain) = Len(memory.chain) + 1
             /\ \A i \in 1..Len(memory.chain) : memory'.chain[i] = memory.chain[i]
    <3>1. Len(memory'.chain) > 1 /\ Len(memory'.chain) - 1 = Len(memory.chain)
      BY <1>a, <2>2, <2>4
    <3>2. Unresized(memory', Len(memory'.chain) - 1)
      BY <1>a, <2>2, <2>4, <3>1 DEF Unresized
    <3> QED
      BY <1>0, <2>2, <2>4, <3>1, <3>2 DEF PhaseInv, Phases
  <2> QED
    BY <1>0, <2>1, <2>2, <2>3, <2>4, AllocThenLemma
<1>15. CASE StrtodFree
  BY <1>0, <1>15, FreeLemma DEF StrtodFree, PhaseInv, Phases
<1>16. CASE Deinit
  BY <1>0, <1>16, EmptyOK DEF Deinit, PhaseInv, Phases
<1>17. CASE UNCHANGED vars
  BY <1>0, <1>17 DEF vars, IInv, PhaseInv, LastBlock, Unresized
<1> QED
  BY <1>2, <1>3, <1>4, <1>5, <1>6, <1>7, <1>8, <1>9, <1>10, <1>11, <1>12, <1>13,
     <1>14, <1>15, <1>16, <1>17 DEF Next

\* The properties the runs check follow from the invariant.
LEMMA IInvImplies ==
  IInv => TypeOK /\ BlocksApart /\ CurrIsFree /\ InsidePool /\ FillsWhatItOwns
<1> SUFFICES ASSUME IInv
             PROVE  TypeOK /\ BlocksApart /\ CurrIsFree /\ InsidePool /\ FillsWhatItOwns
  OBVIOUS
<1>1. MemoryOK(memory)
  BY DEF IInv, TypeOK, MemoryOK
<1>2. BlocksApart
  BY DEF IInv, Ordered, BlocksApart
<1>3. CurrIsFree
  BY <1>1, BelowCurr DEF CurrIsFree
<1>4. FillsWhatItOwns
  BY DEF IInv, TypeOK, PhaseInv, FillsWhatItOwns, SizeofCp
<1>5. InsidePool
  <2>1. \A i \in 1..Len(memory.chain) :
          memory.chain[i].data + memory.chain[i].size < PoolSize
    BY DEF IInv, Ordered, WellPlaced
  <2>2. memory.chain # << >> => Len(memory.chain) \in 1..Len(memory.chain)
    BY <1>1 DEF MemoryOK
  <2> QED
    BY <2>1, <2>2 DEF IInv, CurrAtEnd, LastBlock, InsidePool
<1> QED
  BY <1>2, <1>3, <1>4, <1>5 DEF IInv

\* The inductive invariant: the list of blocks is in the order of the addresses,
\* curr follows its last block, and only that block may ever have been resized.
THEOREM Invariant == Spec => []IInv
BY InitIInv, NextIInv, PTL DEF Spec

\* The allocator and its callers are well typed in every reachable state.
THEOREM TypeCorrect == Spec => []TypeOK
BY Invariant, IInvImplies, PTL

\* No block ever overlaps the header or the data of a later one.
THEOREM NoOverlap == Spec => []BlocksApart
BY Invariant, IInvImplies, PTL

\* memory.curr always points past everything that was granted.
THEOREM FreeMemoryIsFree == Spec => []CurrIsFree
BY Invariant, IInvImplies, PTL

\* Nothing reaches the end of the pool.
THEOREM StaysInsidePool == Spec => []InsidePool
BY Invariant, IInvImplies, PTL

\* The growing buffers are never overrun.
THEOREM BuffersHold == Spec => []FillsWhatItOwns
BY Invariant, IInvImplies, PTL

\* The step of an allocation, a resize or a release leaves every earlier block
\* where it is and as it is.
LEMMA StepKeepsPointers ==
  ASSUME IInv, [Next]_vars
  PROVE  \A i \in 1..Len(memory.chain) :
           i <= Len(memory'.chain) =>
             /\ memory'.chain[i].data = memory.chain[i].data
             /\ i < Len(memory.chain) => memory'.chain[i] = memory.chain[i]
<1>1. MemoryOK(memory) /\ PhaseInv /\ Len(memory.chain) \in Nat /\ used \in Nat /\ cap \in Nat
  BY DEF IInv, TypeOK, MemoryOK
<1> DEFINE Keeps == \A i \in 1..Len(memory.chain) :
                      i <= Len(memory'.chain) =>
                        /\ memory'.chain[i].data = memory.chain[i].data
                        /\ i < Len(memory.chain) => memory'.chain[i] = memory.chain[i]
<1>2. ASSUME NEW size \in Nat, NEW next, AllocThen(size, next) PROVE Keeps
  BY <1>1, <1>2, AllocThenLemma
<1>3. ASSUME NEW size \in Nat, NEW next, ResizeThen(size, next) PROVE Keeps
  BY <1>1, <1>3, ResizeThenLemma
<1>4. CASE UNCHANGED memory
  BY <1>4
<1>5. CASE NewBlock \/ LoadFile \/ TokenCpBufferInit \/ PathInit \/ NewNumber \/ StrtodDup
  <2>1. TokenInitSize * SizeofCp \in Nat
    BY ArenaAssumption DEF SizeofCp
  <2>2. PICK size \in Nat, next \in Phases : AllocThen(size, next)
    BY <1>5, <2>1, ArenaAssumption, Sizes
    DEF NewBlock, LoadFile, TokenCpBufferInit, PathInit, NewNumber, StrtodDup, Phases
  <2> QED
    BY <1>2, <2>2
<1>6. CASE GrowFile \/ PathTrim \/ TokenTrim
  <2>1. cap + 1 \in Nat /\ used + 1 \in Nat /\ used * SizeofCp \in Nat
    BY <1>1 DEF SizeofCp
  <2>2. PICK size \in Nat, next \in Phases : ResizeThen(size, next)
    BY <1>6, <2>1 DEF GrowFile, PathTrim, TokenTrim, Phases
  <2> QED
    BY <1>3, <2>2
<1>7. CASE TokenPushCp
  <2>1. Grown(cap) \in Nat /\ Grown(cap) * SizeofCp \in Nat
    BY <1>1 DEF SizeofCp, Grown
  <2>2. CASE ResizeThen(Grown(cap) * SizeofCp, "token")
    BY <1>3, <2>1, <2>2
  <2> QED
    BY <1>4, <1>7, <2>2 DEF TokenPushCp
<1>8. CASE PathPush
  <2>1. cap + PathBufSize \in Nat
    BY <1>1, ArenaAssumption
  <2>2. CASE ResizeThen(cap + PathBufSize, "path")
    BY <1>3, <2>1, <2>2
  <2> QED
    BY <1>4, <1>8, <2>2 DEF PathPush
<1>8a. CASE TokenNormalize
  <2>1. CASE \E len \in 1..used : ResizeThen(len * SizeofCp, "idle")
    <3>1. PICK len \in 1..used : ResizeThen(len * SizeofCp, "idle")
      BY <2>1
    <3>2. len * SizeofCp \in Nat
      BY <1>1 DEF SizeofCp
    <3> QED
      BY <1>3, <3>1, <3>2
  <2> QED
    BY <1>4, <1>8a, <2>1 DEF TokenNormalize
<1>9. CASE StrtodFree
  BY <1>1, <1>9, FreeLemma DEF StrtodFree, PhaseInv
<1>10. CASE Deinit
  BY <1>1, <1>10 DEF Deinit, EmptyMemory
<1>11. CASE NumberIsInteger \/ UNCHANGED vars
  BY <1>4, <1>11 DEF NumberIsInteger, vars
<1> QED
  BY <1>5, <1>6, <1>7, <1>8, <1>8a, <1>9, <1>10, <1>11 DEF Next

\* A pointer to a block stays valid for as long as the block is allocated.
THEOREM PointersNeverMove == Spec => PointersStayValid
<1>1. IInv /\ [Next]_vars =>
        [\A i \in 1..Len(memory.chain) :
           i <= Len(memory'.chain) =>
             /\ memory'.chain[i].data = memory.chain[i].data
             /\ i < Len(memory.chain) => memory'.chain[i] = memory.chain[i]]_vars
  BY StepKeepsPointers
<1> QED
  BY <1>1, Invariant, PTL DEF Spec, PointersStayValid

----------------------------------------------------------------------------
(* The arena implements the abstract allocator                             *)

\* Rounding up gives a multiple of MEM_ALIGN.
LEMMA AlignedLemma ==
  \A a \in Nat : NextAligned(a) % MEM_ALIGN = 0
BY DEF NextAligned, MEM_ALIGN

\* What the abstract allocator sees of the list.
LEMMA GrantedLemma ==
  ASSUME MemoryOK(memory)
  PROVE  /\ Len(Granted) = Len(memory.chain)
         /\ DOMAIN Granted = 1..Len(memory.chain)
         /\ Granted \in Seq([at : Nat, size : Nat])
         /\ \A i \in 1..Len(memory.chain) :
              /\ Granted[i].at = memory.chain[i].data
              /\ Granted[i].size = memory.chain[i].size
              /\ memory.chain[i] \in Block
<1>1. memory.chain \in Seq(Block) /\ Len(memory.chain) \in Nat
  BY DEF MemoryOK
<1>2. \A i \in 1..Len(memory.chain) : memory.chain[i] \in Block
  BY <1>1
<1>3. \A i \in 1..Len(memory.chain) :
        [at |-> memory.chain[i].data, size |-> memory.chain[i].size] \in [at : Nat, size : Nat]
  BY <1>2 DEF Block
<1>4. Granted \in Seq([at : Nat, size : Nat])
  BY <1>1, <1>3 DEF Granted
<1>5. Len(Granted) = Len(memory.chain) /\ DOMAIN Granted = 1..Len(memory.chain)
  BY <1>1, <1>4 DEF Granted
<1>6. \A i \in 1..Len(memory.chain) :
        /\ Granted[i].at = memory.chain[i].data
        /\ Granted[i].size = memory.chain[i].size
  BY DEF Granted
<1> QED
  BY <1>2, <1>4, <1>5, <1>6

\* mem_alloc grants an aligned block in which nobody else has a byte.
LEMMA AllocGrants ==
  ASSUME MemoryOK(memory), MemoryOK(memory'), NEW size \in Nat,
         CanAlloc(memory, size), memory' = Alloced(memory, size)
  PROVE  Contract!Grant
<1> DEFINE b == NextBlock(memory, size)
           n == Len(memory.chain)
<1>1. /\ b \in Block /\ WellPlaced(b) /\ b.size = size /\ memory.curr <= b.alloc
  BY NextBlockLemma
<1>2. memory.chain \in Seq(Block) /\ n \in Nat /\ memory.curr \in Nat
  BY DEF MemoryOK
<1>3. memory'.chain = Append(memory.chain, b)
  BY DEF Alloced
<1>4. b.data % MEM_ALIGN = 0
  <2>1. NextAligned(memory.curr) \in Nat
    BY <1>2, NextAlignedLemma
  <2>2. NextAligned(memory.curr) + SizeofHeader \in Nat
    BY <2>1, Sizes
  <2>3. NextAligned(NextAligned(memory.curr) + SizeofHeader) % MEM_ALIGN = 0
    BY <2>2, AlignedLemma
  <2> QED
    BY <2>3 DEF NextBlock
<1> HIDE DEF b
<1>5. /\ Len(memory'.chain) = n + 1 /\ memory'.chain[n + 1] = b
      /\ \A i \in 1..n : memory'.chain[i] = memory.chain[i]
  BY <1>1, <1>2, <1>3
<1>6. b.data \in Nat /\ b.alloc \in Nat /\ memory.curr <= b.data /\ b.data + size < PoolSize
  BY <1>1, <1>2, Sizes DEF WellPlaced, Block
<1>7. Contract!IsFree(0, b.data, size)
  <2>1. ASSUME NEW j \in 1..n
        PROVE  Granted[j].at + Granted[j].size <= b.data
    <3>1. memory.chain[j].data + memory.chain[j].size <= memory.curr
      BY BelowCurr
    <3>2. memory.chain[j].data \in Nat /\ memory.chain[j].size \in Nat
      BY GrantedLemma DEF Block
    <3>3. Granted[j].at = memory.chain[j].data /\ Granted[j].size = memory.chain[j].size
      BY GrantedLemma
    <3> QED
      BY <1>2, <1>6, <3>1, <3>2, <3>3
  <2>2. b.data + size <= PoolSize
    BY <1>6, Sizes
  <2>3. Len(Granted) = n
    BY GrantedLemma
  <2> QED
    BY <2>1, <2>2, <2>3 DEF Contract!IsFree
<1>8. Granted' = Append(Granted, [at |-> b.data, size |-> size])
  <2>1. Granted' = [i \in 1..(n + 1) |-> [at |-> memory'.chain[i].data, size |-> memory'.chain[i].size]]
    BY <1>5 DEF Granted
  <2>2. Granted = [i \in 1..n |-> [at |-> memory.chain[i].data, size |-> memory.chain[i].size]]
    BY DEF Granted
  <2>3. Append(Granted, [at |-> b.data, size |-> size])
          = [i \in 1..(n + 1) |-> IF i = n + 1 THEN [at |-> b.data, size |-> size] ELSE Granted[i]]
    BY <1>2, GrantedLemma
  <2>4. ASSUME NEW i \in 1..(n + 1)
        PROVE  [at |-> memory'.chain[i].data, size |-> memory'.chain[i].size]
                 = IF i = n + 1 THEN [at |-> b.data, size |-> size] ELSE Granted[i]
    BY <1>1, <1>2, <1>5, <2>2
  <2> HIDE DEF n
  <2> QED
    BY <2>1, <2>3, <2>4
<1>9. Len(Granted') = Len(Granted) + 1 /\ Granted'[Len(Granted')] = [at |-> b.data, size |-> size]
  BY <1>2, <1>8, GrantedLemma
<1>10. b.data \in 0..PoolSize /\ size \in 0..PoolSize
  BY <1>6, Sizes
<1>11. Contract!GrantBlock(b.data, size)
  BY <1>4, <1>7, <1>8, <1>10 DEF Contract!GrantBlock
<1> QED
  BY <1>9, <1>11 DEF Contract!Grant
\* mem_resize_last changes the size of the last block, and meets no other.
LEMMA ResizeResizes ==
  ASSUME MemoryOK(memory), MemoryOK(memory'), NEW size \in Nat,
         CanResize(memory, size), memory' = Resized(memory, size)
  PROVE  Contract!ResizeLast
<1> DEFINE n == Len(memory.chain)
           at == memory.chain[n].data
<1>1. memory.chain \in Seq(Block) /\ n \in Nat /\ n \in 1..n
  BY DEF MemoryOK, CanResize
<1>2. memory.chain[n] \in Block /\ at \in Nat /\ at + size < PoolSize
  <2>1. memory.chain[n] \in Block
    BY <1>1
  <2>2. at \in Nat
    BY <2>1 DEF Block
  <2> QED
    BY <2>1, <2>2 DEF CanResize, LastBlock
<1>3. memory'.chain = [memory.chain EXCEPT ![n].size = size]
  <2>1. Resized(memory, size).chain = [memory.chain EXCEPT ![n].size = size]
    BY DEF Resized
  <2> QED
    BY <2>1
<1>4. /\ Len(memory'.chain) = n
      /\ memory'.chain[n] = [memory.chain[n] EXCEPT !.size = size]
      /\ \A i \in 1..n : i # n => memory'.chain[i] = memory.chain[i]
  BY <1>1, <1>3
<1>5. memory'.chain[n].data = at /\ memory'.chain[n].size = size
  BY <1>2, <1>4 DEF Block
<1>6. Len(Granted) = n /\ Granted[n].at = at
  BY <1>1, GrantedLemma
<1>7. Contract!IsFree(n, at, size)
  <2>1. ASSUME NEW j \in 1..n, j # n
        PROVE  Granted[j].at + Granted[j].size <= at
    <3>1. memory.chain[j].data + memory.chain[j].size <= memory.chain[n].alloc
      BY <1>1, <2>1 DEF MemoryOK, Ordered
    <3>2. memory.chain[n].alloc + SizeofHeader <= at
      BY <1>1 DEF MemoryOK, Ordered, WellPlaced
    <3>3. memory.chain[j] \in Block
      BY GrantedLemma
    <3>4. memory.chain[j].data + memory.chain[j].size <= at
      <4> DEFINE end == memory.chain[j].data + memory.chain[j].size
                 alloc == memory.chain[n].alloc
      <4>1. end \in Nat
        BY <3>3 DEF Block
      <4>2. alloc \in Nat
        BY <1>2 DEF Block
      <4> HIDE DEF end, alloc, at
      <4>3. end <= alloc /\ alloc + SizeofHeader <= at
        BY <3>1, <3>2 DEF end, alloc
      <4>4. end <= at
        BY <1>2, <4>1, <4>2, <4>3, Sizes
      <4> QED
        BY <4>4 DEF end
    <3>5. Granted[j].at = memory.chain[j].data /\ Granted[j].size = memory.chain[j].size
      BY GrantedLemma
    <3> QED
      BY <3>4, <3>5
  <2>2. at + size <= PoolSize
    BY <1>2, Sizes
  <2> HIDE DEF at
  <2> QED
    BY <1>6, <2>1, <2>2 DEF Contract!IsFree
<1>8. Granted' = [Granted EXCEPT ![n].size = size]
  <2>1. Granted' = [i \in 1..n |-> [at |-> memory'.chain[i].data, size |-> memory'.chain[i].size]]
    BY <1>4 DEF Granted
  <2>2. Granted = [i \in 1..n |-> [at |-> memory.chain[i].data, size |-> memory.chain[i].size]]
    BY DEF Granted
  <2>3. [Granted EXCEPT ![n].size = size]
          = [i \in 1..n |-> IF i = n THEN [at |-> at, size |-> size] ELSE Granted[i]]
    <3>1. Granted[n] = [at |-> at, size |-> memory.chain[n].size]
      BY <1>1, <2>2
    <3>2. [Granted[n] EXCEPT !.size = size] = [at |-> at, size |-> size]
      BY <3>1
    <3>3. Granted = [i \in 1..n |-> Granted[i]]
      BY <2>2
    <3> HIDE DEF n, at
    <3> QED
      BY <1>1, <3>2, <3>3
  <2>4. ASSUME NEW i \in 1..n
        PROVE  [at |-> memory'.chain[i].data, size |-> memory'.chain[i].size]
                 = IF i = n THEN [at |-> at, size |-> size] ELSE Granted[i]
    BY <1>4, <1>5, <2>2
  <2> HIDE DEF n, at
  <2> QED
    BY <2>1, <2>3, <2>4
<1>9. Len(Granted') = n /\ Granted'[n].size = size
  <2>1. Granted \in Seq([at : Nat, size : Nat]) /\ n \in 1..Len(Granted)
    BY <1>1, <1>6, GrantedLemma
  <2> HIDE DEF n
  <2>2. [Granted EXCEPT ![n].size = size][n].size = size
    BY <2>1
  <2>3. Len([Granted EXCEPT ![n].size = size]) = Len(Granted)
    BY <2>1
  <2> QED
    BY <1>6, <1>8, <2>2, <2>3
<1>10. size \in 0..PoolSize
  BY <1>2, Sizes
<1>11. Contract!ResizeTo(size)
  <2> HIDE DEF n, at
  <2> QED
    BY <1>6, <1>7, <1>8, <1>10 DEF Contract!ResizeTo
<1>12. n > 0
  BY <1>1
<1> QED
  BY <1>6, <1>9, <1>11, <1>12 DEF Contract!ResizeLast

\* mem_free_last gives the last block back and touches no other.
LEMMA FreeReleases ==
  ASSUME MemoryOK(memory), Len(memory.chain) > 1, memory' = FreedLast(memory)
  PROVE  Contract!ReleaseLast
<1> DEFINE n == Len(memory.chain)
<1>1. memory.chain \in Seq(Block) /\ n \in Nat /\ n > 1
  BY DEF MemoryOK
<1>2. memory'.chain = SubSeq(memory.chain, 1, n - 1)
  BY <1>1 DEF FreedLast
<1>3. Len(memory'.chain) = n - 1 /\ \A i \in 1..(n - 1) : memory'.chain[i] = memory.chain[i]
  BY <1>1, <1>2
<1>4. Granted' = [i \in 1..(n - 1) |-> Granted[i]]
  <2>1. Granted' = [i \in 1..(n - 1) |-> [at |-> memory'.chain[i].data, size |-> memory'.chain[i].size]]
    BY <1>3 DEF Granted
  <2>2. \A i \in 1..(n - 1) :
          Granted[i] = [at |-> memory'.chain[i].data, size |-> memory'.chain[i].size]
    BY <1>1, <1>3 DEF Granted
  <2> HIDE DEF n
  <2> QED
    BY <2>1, <2>2
<1>5. SubSeq(Granted, 1, n - 1) = [i \in 1..(n - 1) |-> Granted[i]]
  BY <1>1, GrantedLemma
<1> QED
  BY <1>1, <1>4, <1>5, GrantedLemma DEF Contract!ReleaseLast

\* Every step of every caller is one step of the abstract allocator, or none.
LEMMA StepRefines ==
  ASSUME IInv, IInv', [Next]_vars
  PROVE  [Contract!Next]_Granted
<1>1. /\ MemoryOK(memory) /\ MemoryOK(memory') /\ PhaseInv
      /\ used \in Nat /\ cap \in Nat
  BY DEF IInv, TypeOK, MemoryOK, Ordered, CurrAtEnd, LastBlock
<1>2. ASSUME NEW size \in Nat, NEW next, AllocThen(size, next)
      PROVE  [Contract!Next]_Granted
  <2>1. CASE CanAlloc(memory, size) /\ memory' = Alloced(memory, size)
    BY <1>1, <2>1, AllocGrants DEF Contract!Next
  <2>2. CASE UNCHANGED memory
    BY <2>2 DEF Granted
  <2> QED
    BY <1>2, <2>1, <2>2 DEF AllocThen
<1>3. ASSUME NEW size \in Nat, NEW next, ResizeThen(size, next)
      PROVE  [Contract!Next]_Granted
  <2>1. CASE CanResize(memory, size) /\ memory' = Resized(memory, size)
    BY <1>1, <2>1, ResizeResizes DEF Contract!Next
  <2>2. CASE UNCHANGED memory
    BY <2>2 DEF Granted
  <2> QED
    BY <1>3, <2>1, <2>2 DEF ResizeThen
<1>4. CASE UNCHANGED memory
  BY <1>4 DEF Granted
<1>5. CASE NewBlock \/ LoadFile \/ TokenCpBufferInit \/ PathInit \/ NewNumber \/ StrtodDup
  <2>1. TokenInitSize * SizeofCp \in Nat
    BY ArenaAssumption DEF SizeofCp
  <2>2. PICK size \in Nat, next \in Phases : AllocThen(size, next)
    BY <1>5, <2>1, ArenaAssumption, Sizes
    DEF NewBlock, LoadFile, TokenCpBufferInit, PathInit, NewNumber, StrtodDup, Phases
  <2> QED
    BY <1>2, <2>2
<1>6. CASE GrowFile \/ PathTrim \/ TokenTrim
  <2>1. cap + 1 \in Nat /\ used + 1 \in Nat /\ used * SizeofCp \in Nat
    BY <1>1 DEF SizeofCp
  <2>2. PICK size \in Nat, next \in Phases : ResizeThen(size, next)
    BY <1>6, <2>1 DEF GrowFile, PathTrim, TokenTrim, Phases
  <2> QED
    BY <1>3, <2>2
<1>7. CASE TokenPushCp
  <2>1. Grown(cap) \in Nat /\ Grown(cap) * SizeofCp \in Nat
    BY <1>1 DEF SizeofCp, Grown
  <2>2. CASE ResizeThen(Grown(cap) * SizeofCp, "token")
    BY <1>3, <2>1, <2>2
  <2> QED
    BY <1>4, <1>7, <2>2 DEF TokenPushCp
<1>8. CASE PathPush
  <2>1. cap + PathBufSize \in Nat
    BY <1>1, ArenaAssumption
  <2>2. CASE ResizeThen(cap + PathBufSize, "path")
    BY <1>3, <2>1, <2>2
  <2> QED
    BY <1>4, <1>8, <2>2 DEF PathPush
<1>9. CASE TokenNormalize
  <2>1. CASE \E len \in 1..used : ResizeThen(len * SizeofCp, "idle")
    <3>1. PICK len \in 1..used : ResizeThen(len * SizeofCp, "idle")
      BY <2>1
    <3>2. len * SizeofCp \in Nat
      BY <1>1 DEF SizeofCp
    <3> QED
      BY <1>3, <3>1, <3>2
  <2> QED
    BY <1>4, <1>9, <2>1 DEF TokenNormalize
<1>10. CASE StrtodFree
  BY <1>1, <1>10, FreeReleases DEF StrtodFree, PhaseInv, Contract!Next
<1>11. CASE Deinit
  <2>1. Granted' = << >>
    BY <1>11 DEF Deinit, EmptyMemory, Granted
  <2> QED
    BY <2>1 DEF Contract!ReleaseAll, Contract!Next
<1>12. CASE NumberIsInteger \/ UNCHANGED vars
  BY <1>4, <1>12 DEF NumberIsInteger, vars
<1> QED
  BY <1>5, <1>6, <1>7, <1>8, <1>9, <1>10, <1>11, <1>12 DEF Next

\* Whatever the callers do, the pool is to them an allocator that never grants
\* a byte twice: every behaviour of the arena is one of the abstract allocator.
THEOREM Refines == Spec => ImplementsAllocator
<1>1. Init => Contract!Init
  BY DEF Init, EmptyMemory, Granted, Contract!Init
<1>2. IInv /\ IInv' /\ [Next]_vars => [Contract!Next]_Granted
  BY StepRefines
<1> QED
  BY <1>1, <1>2, Invariant, PTL DEF Spec, ImplementsAllocator, Contract!Spec
=============================================================================
