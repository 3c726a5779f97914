----------------------------- MODULE Allocator -----------------------------
(***************************************************************************)
(* What src/memory/memory.h promises the rest of the assembler: a block    *)
(* that is granted is aligned, lies in the pool and shares no byte with    *)
(* any other; the last one may change its size where it is, or be given    *)
(* back; at the end everything is.  Nothing is said of where a block goes, *)
(* nor of headers: those are the business of Arena, which implements this. *)
(***************************************************************************)
EXTENDS Integers, Sequences

CONSTANTS
  Pool,    \* the size of the pool
  Align    \* what the address of a block is a multiple of

VARIABLE granted    \* the blocks, in the order they were granted: [at, size]

\* Bytes at .. at + size - 1 are in the pool and in no block but the one at index i.
IsFree(i, at, size) ==
  /\ at + size <= Pool
  /\ \A j \in 1..Len(granted) :
       j # i => \/ granted[j].at + granted[j].size <= at
                \/ at + size <= granted[j].at

Init == granted = << >>

GrantBlock(at, size) ==
  /\ at \in 0..Pool /\ at % Align = 0 /\ size \in 0..Pool
  /\ IsFree(0, at, size)
  /\ granted' = Append(granted, [at |-> at, size |-> size])

\* Where the block goes and how long it is are read off the step itself.
Grant ==
  /\ Len(granted') = Len(granted) + 1
  /\ LET b == granted'[Len(granted')] IN GrantBlock(b.at, b.size)

ResizeTo(size) ==
  /\ size \in 0..Pool
  /\ IsFree(Len(granted), granted[Len(granted)].at, size)
  /\ granted' = [granted EXCEPT ![Len(granted)].size = size]

ResizeLast ==
  /\ Len(granted) > 0 /\ Len(granted') = Len(granted)
  /\ ResizeTo(granted'[Len(granted)].size)

ReleaseLast ==
  /\ Len(granted) > 0
  /\ granted' = SubSeq(granted, 1, Len(granted) - 1)

ReleaseAll == granted' = << >>

Next == Grant \/ ResizeLast \/ ReleaseLast \/ ReleaseAll

Spec == Init /\ [][Next]_granted
=============================================================================
