------------------------------- MODULE Layout -------------------------------
(***************************************************************************)
(* The address arithmetic of src/core/eval.c.  Every function there either *)
(* fails or returns a value; here each is a pair: a predicate that says    *)
(* when it succeeds and an operator that gives its value when it does.     *)
(***************************************************************************)
EXTENDS Integers

CONSTANTS
  NintMax,   \* NINT_MAX, the largest value of the assembler's integers
  IntMax     \* INT_MAX, the bound lcm() uses instead

ASSUME LayoutAssumption == NintMax \in Nat /\ IntMax \in Nat /\ IntMax <= NintMax

NintMin == -NintMax - 1

IsNint(n) == NintMin <= n /\ n <= NintMax

----------------------------------------------------------------------------

AlignOKUnchecked(address, alignment) == alignment > 0

AlignOKForWholeAlignment(address, alignment) ==
  /\ alignment > 0
  /\ address <= NintMax - alignment

\* align_address_safe: the next multiple of alignment.
AlignOK(address, alignment) ==
  /\ alignment > 0
  /\ (address % alignment) # 0 =>
       address <= NintMax - (alignment - (address % alignment))

Aligned(address, alignment) ==
  IF (address % alignment) = 0 THEN address
  ELSE address + (alignment - (address % alignment))

\* mul_nint_safe, on the values its callers can pass (no negative ones).
MulOK(a, b) == a = 0 \/ b = 0 \/ a <= NintMax \div b

\* gcd: Euclid's loop, over the pairs of its two variables.
Euclid[p \in Nat \X Nat] == IF p[2] = 0 THEN p[1] ELSE Euclid[<<p[2], p[1] % p[2]>>]

Gcd(a, b) == Euclid[<<a, b>>]

\* lcm
LcmOK(a, b) == a = 0 \/ b = 0 \/ a \div Gcd(a, b) <= IntMax \div b

Lcm(a, b) == IF a = 0 \/ b = 0 THEN 0 ELSE (a \div Gcd(a, b)) * b

\* array_total_size_safe: n elements from base on, the first aligned to both
\* alignments, each next one to elem_align.
Stride(elem_size, elem_align) == Aligned(elem_size, elem_align)

ArrayStartForArrayOnly(base, elem_align, array_align) == Aligned(base, array_align)

ArrayStart(base, elem_align, array_align) ==
  Aligned(base, Lcm(array_align, elem_align))

ArrayOK(base, n, elem_size, elem_align, array_align) ==
  /\ LcmOK(array_align, elem_align)
  /\ AlignOK(base, Lcm(array_align, elem_align))
  /\ AlignOK(elem_size, elem_align)
  /\ MulOK(n, Stride(elem_size, elem_align))
  /\ ArrayStart(base, elem_align, array_align) - base
       <= NintMax - n * Stride(elem_size, elem_align)

ArrayTotal(base, n, elem_size, elem_align, array_align) ==
  (ArrayStart(base, elem_align, array_align) - base)
    + n * Stride(elem_size, elem_align)
    - (Stride(elem_size, elem_align) - elem_size)

\* increment_addr
IncrementOK(addr, val, max_addr) ==
  /\ val \in Nat /\ val <= NintMax - addr
  /\ val = 0 \/ val - 1 <= max_addr - addr
=============================================================================
