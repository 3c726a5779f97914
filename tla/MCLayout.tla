------------------------------ MODULE MCLayout ------------------------------
(***************************************************************************)
(* The address arithmetic of Layout over every small argument, compared    *)
(* with what an array in memory is: the first element at the lowest        *)
(* address from base on that suits both alignments, each next one at the   *)
(* lowest address behind the one before that suits its own.                *)
(***************************************************************************)
EXTENDS Layout, FiniteSets, FiniteSetsExt

CONSTANTS Bases, Lengths, ElemSizes, Alignments

\* The arguments are integers of the assembler; the parser accepts neither an
\* empty array nor an alignment of 0, but a string may be empty.
ASSUME MCLayoutAssumption ==
  /\ Bases \subseteq 0..NintMax /\ ElemSizes \subseteq 0..NintMax
  /\ Lengths \subseteq Nat \ {0} /\ Alignments \subseteq Nat \ {0}

MCBases == 0..NintMax

VARIABLES
  args,     \* the arguments of a call of array_total_size_safe
  answer    \* what it answers, once it has

vars == <<args, answer>>

Init ==
  /\ args \in [base : Bases, n : Lengths, size : ElemSizes,
               elem_align : Alignments, array_align : Alignments]
  /\ answer = "none"

array_total_size_safe ==
  /\ answer = "none"
  /\ answer' = IF ArrayOK(args.base, args.n, args.size, args.elem_align, args.array_align)
               THEN "SUCCESS" ELSE "FAIL"
  /\ UNCHANGED args

Next == array_total_size_safe

Spec == Init /\ [][Next]_vars

----------------------------------------------------------------------------
(* The reference                                                           *)

Multiple(a, m) == (a % m) = 0

\* The lowest address from "from" on with a property of alignments.
Lowest(from, aligns) ==
  Min({a \in from..(from + 2 * NintMax) : \A m \in aligns : Multiple(a, m)})

Elements == 1..args.n

\* Where the elements are, one after the other.
Places ==
  LET place[i \in Elements] ==
        IF i = 1 THEN Lowest(args.base, {args.elem_align, args.array_align})
        ELSE Lowest(place[i - 1] + args.size, {args.elem_align})
  IN  place

EndOfArray == Places[args.n] + args.size

----------------------------------------------------------------------------

Start == ArrayStart(args.base, args.elem_align, args.array_align)
Pitch == Stride(args.size, args.elem_align)
Total == ArrayTotal(args.base, args.n, args.size, args.elem_align, args.array_align)

\* Every element is where the reference puts it: the stride that the loops of
\* encode_space_ident write is the distance of two aligned elements, and the
\* start suits the array and its elements alike.  The total moves addr right
\* behind the last element, without its padding.
ElementsInPlace ==
  answer = "SUCCESS" =>
    /\ \A i \in Elements : Start + (i - 1) * Pitch = Places[i]
    /\ args.base + Total = EndOfArray

\* When the call succeeds nothing it computed on the way left the integers.
NothingOverflows ==
  answer = "SUCCESS" =>
    \A v \in {Lcm(args.array_align, args.elem_align), Start, Pitch, args.n * Pitch,
              (Start - args.base) + args.n * Pitch, Total} : IsNint(v)

\* The call refuses an array only when it is too large: one of its places, or
\* the memory up to the end of the padding of its last element, is past
\* NINT_MAX, or the alignment they share is past INT_MAX.
RefusesOnlyTooLarge ==
  answer = "FAIL" =>
    \/ Lcm(args.array_align, args.elem_align) > IntMax
    \/ Start > NintMax
    \/ Pitch > NintMax
    \/ (Start - args.base) + args.n * Pitch > NintMax
=============================================================================
