---------------------------- MODULE ArrayProofs ----------------------------
(***************************************************************************)
(* MCLayout for every width of the integers and all arguments: an array    *)
(* lies where one element after the other would be put, and its call fails *)
(* only for what is too large.                                             *)
(***************************************************************************)
EXTENDS MCLayout, LayoutProofs

Arguments ==
  [base : Bases, n : Lengths, size : ElemSizes, elem_align : Alignments,
   array_align : Alignments]

Fits == ArrayOK(args.base, args.n, args.size, args.elem_align, args.array_align)

IInv ==
  /\ args \in Arguments
  /\ answer = "SUCCESS" => Fits
  /\ answer = "FAIL" => ~Fits

LEMMA Invariant == Spec => []IInv
<1>1. Init => IInv
  BY DEF Init, IInv, Arguments
<1>2. IInv /\ [Next]_vars => IInv'
  <2> SUFFICES ASSUME IInv, [Next]_vars
               PROVE  IInv'
    OBVIOUS
  <2>1. CASE array_total_size_safe
    BY <2>1 DEF IInv, array_total_size_safe, Fits
  <2>2. CASE UNCHANGED vars
    BY <2>2 DEF IInv, vars, Fits
  <2> QED
    BY <2>1, <2>2 DEF Next
<1> QED
  BY <1>1, <1>2, PTL DEF Spec

----------------------------------------------------------------------------
(* A call and what it computes                                             *)

MCL == Lcm(args.array_align, args.elem_align)

\* The arguments are numbers of the assembler.
LEMMA Numbers ==
  ASSUME IInv
  PROVE  /\ args.base \in Nat /\ args.base <= NintMax
         /\ args.size \in Nat /\ args.size <= NintMax
         /\ args.n \in Pos /\ args.elem_align \in Pos /\ args.array_align \in Pos
         /\ NintMax \in Nat /\ IntMax \in Nat /\ IntMax <= NintMax
<1>1. /\ args.base \in Bases /\ args.n \in Lengths /\ args.size \in ElemSizes
      /\ args.elem_align \in Alignments /\ args.array_align \in Alignments
  BY DEF IInv, Arguments
<1>2. \A k \in 0..NintMax : k \in Nat /\ k <= NintMax
  BY LayoutAssumption
<1>3. args.base \in 0..NintMax /\ args.size \in 0..NintMax
  BY <1>1, MCLayoutAssumption
<1> QED
  BY <1>1, <1>2, <1>3, LayoutAssumption, MCLayoutAssumption DEF Pos

LEMMA Computed ==
  ASSUME IInv
  PROVE  /\ MCL \in Pos /\ Common(MCL, args.array_align, args.elem_align)
         /\ Start \in Nat /\ args.base <= Start /\ Start < args.base + MCL
         /\ Divides(MCL, Start)
         /\ Pitch \in Nat /\ args.size <= Pitch /\ Pitch < args.size + args.elem_align
         /\ Divides(args.elem_align, Pitch)
<1>1. MCL \in Pos /\ Common(MCL, args.array_align, args.elem_align)
  BY Numbers, LcmCorrect DEF MCL
<1>2. /\ Start \in Nat /\ args.base <= Start /\ Start < args.base + MCL
      /\ Divides(MCL, Start)
  BY <1>1, Numbers, AlignedIsLowest DEF Start, ArrayStart, MCL
<1>3. /\ Pitch \in Nat /\ args.size <= Pitch /\ Pitch < args.size + args.elem_align
      /\ Divides(args.elem_align, Pitch)
  BY Numbers, AlignedIsLowest DEF Pitch, Stride
<1> QED
  BY <1>1, <1>2, <1>3

\* A quotient bounds a product.
LEMMA ProductBound ==
  ASSUME NEW x \in Nat, NEW b \in Pos, NEW m \in Nat
  PROVE  x <= m \div b <=> x * b <= m
<1> DEFINE q == m \div b  r == m % b
<1>1. q \in Nat /\ r \in Nat /\ r < b /\ m = b * q + r
  BY Division
<1> HIDE DEF q, r
<1>2. ASSUME x <= q
      PROVE  x * b <= m
  <2>1. x * b <= b * q
    BY <1>1, <1>2 DEF Pos
  <2> QED
    BY <1>1, <2>1 DEF Pos
<1>3. ASSUME q + 1 <= x
      PROVE  m < x * b
  <2>1. b * (q + 1) <= x * b
    BY <1>1, <1>3 DEF Pos
  <2>2. b * (q + 1) = b * q + b
    BY <1>1 DEF Pos
  <2> QED
    BY <1>1, <2>1, <2>2 DEF Pos
<1>4. m < x * b => ~(x * b <= m)
  BY DEF Pos
<1> QED
  BY <1>1, <1>2, <1>3, <1>4 DEF q

\* The guard of lcm() is that the product it returns is an int.
LEMMA LcmOKIsFit ==
  ASSUME NEW a \in Pos, NEW b \in Pos
  PROVE  LcmOK(a, b) <=> Lcm(a, b) <= IntMax
<1> DEFINE x == a \div Gcd(a, b)
<1>1. a \in Nat /\ b \in Nat /\ a # 0 /\ b # 0 /\ IntMax \in Nat
  BY LayoutAssumption DEF Pos
<1>2. Gcd(a, b) \in Nat /\ IsGcd(Gcd(a, b), a, b)
  BY <1>1, GcdCorrect
<1>3. PICK k \in Nat : a = Gcd(a, b) * k
  BY <1>2 DEF IsGcd, Divides
<1>4. Gcd(a, b) \in Pos
  BY <1>1, <1>2, <1>3 DEF Pos
<1>5. x \in Nat
  BY <1>1, <1>4, Division
<1> HIDE DEF x
<1>6. x <= IntMax \div b <=> x * b <= IntMax
  BY <1>1, <1>5, ProductBound
<1>7. Lcm(a, b) = x * b
  BY <1>1 DEF Lcm, x
<1>8. LcmOK(a, b) <=> x <= IntMax \div b
  BY <1>1 DEF LcmOK, x
<1> QED
  BY <1>6, <1>7, <1>8

\* The guard of align_address_safe is that its result is an integer.
LEMMA AlignOKIsFit ==
  ASSUME NEW a \in Nat, a <= NintMax, NEW n \in Pos
  PROVE  AlignOK(a, n) <=> Aligned(a, n) <= NintMax
<1>1. a % n \in Nat /\ a % n < n
  BY Division
<1> DEFINE r == a % n
<1>2. AlignOK(a, n) <=> (r # 0 => a <= NintMax - (n - r))
  BY DEF AlignOK, Pos
<1>3. Aligned(a, n) = IF r = 0 THEN a ELSE a + (n - r)
  BY DEF Aligned
<1> HIDE DEF r
<1>4. r \in Nat /\ r < n
  BY <1>1 DEF r
<1> QED
  BY <1>2, <1>3, <1>4, LayoutAssumption DEF Pos

\* What array_total_size_safe accepts, and what the parts of it are.
LEMMA FitsWhen ==
  ASSUME IInv
  PROVE  Fits <=> /\ MCL <= IntMax /\ Start <= NintMax /\ Pitch <= NintMax
                  /\ args.n * Pitch <= NintMax
                  /\ (Start - args.base) + args.n * Pitch <= NintMax
<1> DEFINE P == Pitch  B == args.n * Pitch
<1>1. LcmOK(args.array_align, args.elem_align) <=> MCL <= IntMax
  BY Numbers, LcmOKIsFit DEF MCL
<1>2. AlignOK(args.base, MCL) <=> Start <= NintMax
  BY Numbers, Computed, AlignOKIsFit DEF Start, ArrayStart, MCL
<1>3. AlignOK(args.size, args.elem_align) <=> Pitch <= NintMax
  BY Numbers, AlignOKIsFit DEF Pitch, Stride
<1>4. MulOK(args.n, Pitch) <=> B <= NintMax
  <2>1. CASE Pitch = 0
    <3>1. B = 0
      BY <2>1, Numbers DEF Pos
    <3> QED
      BY <2>1, <3>1, Numbers DEF MulOK
  <2>2. CASE Pitch # 0
    <3>1. Pitch \in Pos /\ args.n \in Nat /\ args.n # 0
      BY <2>2, Computed, Numbers DEF Pos
    <3> QED
      BY <3>1, <2>2, ProductBound, Numbers DEF MulOK
  <2> QED
    BY <2>1, <2>2
<1>5. B \in Nat
  BY Numbers, Computed DEF Pos
<1>6. Fits <=> /\ LcmOK(args.array_align, args.elem_align) /\ AlignOK(args.base, MCL)
               /\ AlignOK(args.size, args.elem_align) /\ MulOK(args.n, Pitch)
               /\ Start - args.base <= NintMax - B
  BY DEF Fits, ArrayOK, MCL, Start, Pitch
<1> HIDE DEF B
<1>7. Start - args.base <= NintMax - B <=> (Start - args.base) + B <= NintMax
  BY <1>5, Numbers, Computed
<1> QED
  BY <1>1, <1>2, <1>3, <1>4, <1>6, <1>7 DEF B

----------------------------------------------------------------------------

\* When the call succeeds nothing it computed left the integers.
THEOREM Overflows == Spec => []NothingOverflows
<1>1. IInv => NothingOverflows
  <2> SUFFICES ASSUME IInv, answer = "SUCCESS"
               PROVE  \A v \in {MCL, Start, Pitch, args.n * Pitch,
                                (Start - args.base) + args.n * Pitch, Total} : IsNint(v)
    BY DEF NothingOverflows, MCL
  <2> DEFINE B == args.n * Pitch
  <2>1. B \in Nat /\ Pitch <= B
    BY Numbers, Computed DEF Pos
  <2>2. Total = (Start - args.base) + B - (Pitch - args.size)
    BY DEF Total, ArrayTotal, Start, Pitch
  <2>3. /\ MCL <= IntMax /\ Start <= NintMax /\ Pitch <= NintMax /\ B <= NintMax
        /\ (Start - args.base) + B <= NintMax
    BY FitsWhen DEF IInv
  <2> HIDE DEF B
  <2>4. /\ 0 <= (Start - args.base) + B /\ 0 <= Total /\ Total <= NintMax
        /\ 0 <= MCL /\ MCL <= NintMax
    BY <2>1, <2>2, <2>3, Numbers, Computed DEF Pos
  <2>5. /\ MCL \in Int /\ Start \in Int /\ Pitch \in Int /\ B \in Int /\ Total \in Int
        /\ (Start - args.base) + B \in Int /\ 0 <= Start /\ 0 <= Pitch /\ 0 <= B
    BY <2>1, <2>2, Numbers, Computed DEF Pos
  <2>6. ASSUME NEW v \in Int, 0 <= v, v <= NintMax
        PROVE  IsNint(v)
    BY <2>6, LayoutAssumption DEF IsNint, NintMin
  <2>7. IsNint(MCL) /\ IsNint(Start) /\ IsNint(Pitch) /\ IsNint(B) /\ IsNint(Total)
        /\ IsNint((Start - args.base) + B)
    BY <2>3, <2>4, <2>5, <2>6
  <2> QED
    BY <2>7 DEF B
<1> QED
  BY Invariant, <1>1, PTL

\* The call refuses an array only when a part of it is too large.
THEOREM Refusals == Spec => []RefusesOnlyTooLarge
<1>1. IInv => RefusesOnlyTooLarge
  <2> SUFFICES ASSUME IInv, answer = "FAIL"
               PROVE  \/ MCL > IntMax \/ Start > NintMax \/ Pitch > NintMax
                      \/ (Start - args.base) + args.n * Pitch > NintMax
    BY DEF RefusesOnlyTooLarge, MCL
  <2> DEFINE B == args.n * Pitch
  <2>1. B \in Nat
    BY Numbers, Computed DEF Pos
  <2>2. ~(/\ MCL <= IntMax /\ Start <= NintMax /\ Pitch <= NintMax
          /\ B <= NintMax /\ (Start - args.base) + B <= NintMax)
    BY FitsWhen DEF IInv
  <2> HIDE DEF B
  <2>3. \/ MCL > IntMax \/ Start > NintMax \/ Pitch > NintMax
        \/ (Start - args.base) + B > NintMax
    BY <2>1, <2>2, Numbers, Computed DEF Pos
  <2> QED
    BY <2>3 DEF B
<1> QED
  BY Invariant, <1>1, PTL

----------------------------------------------------------------------------
(* The elements and the reference                                          *)

\* The lowest address with a property is the one below which there is none.
LEMMA LowestIs ==
  ASSUME NEW from \in Nat, NEW aligns, NEW x \in Nat,
         from <= x, x <= from + 2 * NintMax,
         \A m \in aligns : Multiple(x, m),
         \A y \in Nat : from <= y /\ (\A m \in aligns : Multiple(y, m)) => x <= y
  PROVE  Lowest(from, aligns) = x
<1> DEFINE S == {a \in from..(from + 2 * NintMax) : \A m \in aligns : Multiple(a, m)}
<1>1. x \in S /\ S \subseteq Nat /\ \A y \in S : x <= y
  BY LayoutAssumption
<1>2. \A z \in S : (\A y \in S : z <= y) => z = x
  BY <1>1
<1>3. Min(S) = x
  BY <1>1, <1>2 DEF Min
<1> QED
  BY <1>3 DEF Lowest

LEMMA MultipleIsDivides ==
  ASSUME NEW a \in Nat, NEW n \in Pos
  PROVE  Multiple(a, n) <=> Divides(n, a)
BY Remainder0 DEF Multiple

\* The first element: the lowest address that suits both alignments.
LEMMA FirstElement ==
  ASSUME IInv, Fits
  PROVE  Lowest(args.base, {args.elem_align, args.array_align}) = Start
<1> DEFINE e == args.elem_align  a == args.array_align
<1>1. e \in Pos /\ a \in Pos /\ e \in Nat /\ a \in Nat /\ args.base \in Nat
      /\ MCL \in Pos /\ MCL \in Nat
  BY Numbers, Computed DEF Pos
<1>2. MCL <= NintMax
  BY FitsWhen, Numbers, <1>1
<1>3. Start \in Nat /\ args.base <= Start /\ Start <= args.base + 2 * NintMax
  BY <1>1, <1>2, Computed, Numbers
<1>4. Divides(e, Start) /\ Divides(a, Start)
  BY <1>1, Computed, DividesTransitive DEF Common
<1>5. ASSUME NEW y \in Nat, args.base <= y, \A m \in {e, a} : Multiple(y, m)
      PROVE  Start <= y
  <2>1. Divides(a, y) /\ Divides(e, y)
    BY <1>1, <1>5, MultipleIsDivides
  <2>2. Divides(MCL, y)
    BY <1>1, <2>1, LcmCorrect DEF Common, MCL
  <2> QED
    BY <1>1, <1>5, <2>2, AlignedIsLowest DEF Start, ArrayStart, MCL
<1>6. \A m \in {e, a} : Multiple(Start, m)
  BY <1>1, <1>3, <1>4, MultipleIsDivides
<1>7. \A y \in Nat : args.base <= y /\ (\A m \in {e, a} : Multiple(y, m)) => Start <= y
  BY <1>5
<1> DEFINE both == {e, a}
<1>8. \A m \in both : Multiple(Start, m)
  BY <1>6
<1>9. \A y \in Nat : args.base <= y /\ (\A m \in both : Multiple(y, m)) => Start <= y
  BY <1>7
<1> HIDE DEF both
<1>10. Lowest(args.base, both) = Start
  BY <1>1, <1>3, <1>8, <1>9, LowestIs
<1> QED
  BY <1>10 DEF both

\* Every next one: the lowest address behind the one before that suits it.
LEMMA NextElement ==
  ASSUME IInv, Fits, NEW m \in Nat, Divides(args.elem_align, m)
  PROVE  Lowest(m + args.size, {args.elem_align}) = m + Pitch
<1> DEFINE e == args.elem_align
<1>1. e \in Pos /\ e \in Nat /\ args.size \in Nat /\ Pitch \in Nat /\ args.size <= Pitch
  BY Numbers, Computed DEF Pos
<1>2. Divides(e, m + Pitch)
  BY <1>1, Computed, DividesSum
<1>3. ASSUME NEW y \in Nat, m + args.size <= y, \A n \in {e} : Multiple(y, n)
      PROVE  m + Pitch <= y
  <2>1. Divides(e, y)
    BY <1>1, <1>3, MultipleIsDivides
  <2>2. m <= y /\ y - m \in Nat /\ args.size <= y - m
    BY <1>1, <1>3
  <2>3. Divides(e, y - m)
    BY <1>1, <2>1, <2>2, DividesDifference
  <2>4. Pitch <= y - m
    BY <1>1, <2>2, <2>3, AlignedIsLowest DEF Pitch, Stride
  <2> QED
    BY <1>1, <2>4
<1>4. m + args.size \in Nat /\ m + Pitch \in Nat /\ m + args.size <= m + Pitch
      /\ m + Pitch <= (m + args.size) + 2 * NintMax
  BY <1>1, FitsWhen, Numbers
<1>5. \A n \in {e} : Multiple(m + Pitch, n)
  BY <1>1, <1>2, <1>4, MultipleIsDivides
<1>6. \A y \in Nat : m + args.size <= y /\ (\A n \in {e} : Multiple(y, n)) => m + Pitch <= y
  BY <1>3
<1> HIDE DEF e
<1>7. Lowest(m + args.size, {e}) = m + Pitch
  BY <1>4, <1>5, <1>6, LowestIs
<1> QED
  BY <1>7 DEF e

\* Where the elements are, as the equation that Places solves.
IsPlaces(f) ==
  f = [i \in Elements |->
         IF i = 1 THEN Lowest(args.base, {args.elem_align, args.array_align})
         ELSE Lowest(f[i - 1] + args.size, {args.elem_align})]

ByPitch == [i \in Elements |-> Start + (i - 1) * Pitch]

\* The distances are multiples of the alignment.
LEMMA OnPitch ==
  ASSUME IInv, NEW k \in Nat
  PROVE  /\ Start + k * Pitch \in Nat /\ Divides(args.elem_align, Start + k * Pitch)
         /\ Start + (k + 1) * Pitch = (Start + k * Pitch) + Pitch
<1> DEFINE e == args.elem_align
<1>1. e \in Nat /\ MCL \in Nat /\ Start \in Nat /\ Pitch \in Nat
  BY Numbers, Computed DEF Pos
<1>2. Divides(e, Start)
  BY <1>1, Computed, DividesTransitive DEF Common
<1>3. Divides(e, Pitch * k) /\ Pitch * k \in Nat
  <2>1. Divides(e, Pitch)
    BY Computed
  <2>2. Pitch * k \in Nat
    BY <1>1
  <2>3. Divides(e, Pitch * k)
    BY <1>1, <2>1, DividesProduct, Zenon
  <2> QED
    BY <2>2, <2>3
<1>4. Pitch * k = k * Pitch /\ (k + 1) * Pitch = k * Pitch + Pitch
  BY <1>1
<1>5. Divides(e, Start + Pitch * k)
  BY <1>1, <1>2, <1>3, DividesSum
<1> QED
  BY <1>1, <1>3, <1>4, <1>5

LEMMA ByPitchIsPlaces ==
  ASSUME IInv, Fits
  PROVE  IsPlaces(ByPitch)
<1>1. ASSUME NEW i \in Elements
      PROVE  ByPitch[i] =
               IF i = 1 THEN Lowest(args.base, {args.elem_align, args.array_align})
               ELSE Lowest(ByPitch[i - 1] + args.size, {args.elem_align})
  <2>0. i \in Nat /\ 1 <= i /\ args.n \in Nat /\ i <= args.n /\ Start \in Nat /\ Pitch \in Nat
    BY Numbers, Computed DEF Elements, Pos
  <2>1. CASE i = 1
    <3>1. ByPitch[1] = Start + 0 * Pitch
      BY <2>1 DEF ByPitch
    <3>2. ByPitch[1] = Start
      BY <3>1, <2>0
    <3> QED
      BY <2>1, <3>2, FirstElement
  <2>2. CASE i # 1
    <3>1. PICK k \in Nat : i = k + 2
      BY <2>0, <2>2
    <3>2. i - 1 \in Elements /\ (i - 1) - 1 = k /\ i - 1 = k + 1
      BY <2>0, <3>1 DEF Elements
    <3>3. ByPitch[i] = Start + (k + 1) * Pitch /\ ByPitch[i - 1] = Start + k * Pitch
      BY <3>2 DEF ByPitch
    <3>4. /\ Start + k * Pitch \in Nat /\ Divides(args.elem_align, Start + k * Pitch)
          /\ Start + (k + 1) * Pitch = (Start + k * Pitch) + Pitch
      BY OnPitch
    <3>5. Lowest((Start + k * Pitch) + args.size, {args.elem_align})
            = (Start + k * Pitch) + Pitch
      BY <3>4, NextElement
    <3> QED
      BY <2>2, <3>3, <3>4, <3>5
  <2> QED
    BY <2>1, <2>2
<1> QED
  BY <1>1 DEF IsPlaces, ByPitch

\* The equation has one solution.
LEMMA PlacesUnique ==
  ASSUME IInv, NEW f, NEW h, IsPlaces(f), IsPlaces(h)
  PROVE  f = h
<1> DEFINE Differ == {i \in Elements : f[i] # h[i]}
<1>1. /\ f = [i \in Elements |-> f[i]] /\ h = [i \in Elements |-> h[i]]
      /\ \A i \in Elements :
           /\ f[i] = IF i = 1 THEN Lowest(args.base, {args.elem_align, args.array_align})
                     ELSE Lowest(f[i - 1] + args.size, {args.elem_align})
           /\ h[i] = IF i = 1 THEN Lowest(args.base, {args.elem_align, args.array_align})
                     ELSE Lowest(h[i - 1] + args.size, {args.elem_align})
  BY DEF IsPlaces
<1>2. ASSUME Differ # {}
      PROVE  FALSE
  <2>1. Differ \in SUBSET Nat
    BY Numbers DEF Elements, Pos
  <2>2. PICK i \in Differ : \A j \in Differ : i <= j
    BY <1>2, <2>1, Least
  <2>3. i \in Elements /\ f[i] # h[i] /\ i # 1
    BY <1>1
  <2>4. i - 1 \in Elements /\ i - 1 < i
    BY <2>3, Numbers DEF Elements, Pos
  <2>5. i - 1 \notin Differ
    BY <2>2, <2>4, Numbers DEF Elements, Pos
  <2>6. f[i - 1] = h[i - 1]
    BY <2>4, <2>5
  <2> QED
    BY <1>1, <2>3, <2>6
<1> QED
  BY <1>1, <1>2

LEMMA PlacesAre ==
  ASSUME IInv, Fits
  PROVE  Places = ByPitch
<1>1. Places = CHOOSE f : IsPlaces(f)
  BY DEF Places, IsPlaces
<1>2. IsPlaces(Places)
  BY <1>1, ByPitchIsPlaces
<1> QED
  BY <1>2, ByPitchIsPlaces, PlacesUnique

\* Every element is where the lowest suitable address behind the one before is,
\* and the total ends right behind the last of them.
THEOREM InPlace == Spec => []ElementsInPlace
<1>1. ASSUME IInv, answer = "SUCCESS"
      PROVE  \A i \in Elements : Start + (i - 1) * Pitch = Places[i]
  BY <1>1, PlacesAre DEF IInv, ByPitch
<1>2. ASSUME IInv, answer = "SUCCESS"
      PROVE  args.base + Total = Places[args.n] + args.size
  <2>1. args.n \in Elements
    BY <1>2, Numbers DEF Elements, Pos
  <2>2. Places[args.n] = Start + (args.n - 1) * Pitch
    BY <1>1, <1>2, <2>1
  <2>3. PICK k \in Nat : args.n = k + 1 /\ args.n - 1 = k
    BY <1>2, Numbers DEF Pos
  <2>4. Total = (Start - args.base) + (k + 1) * Pitch - (Pitch - args.size)
    BY <2>3 DEF Total, ArrayTotal, Start, Pitch
  <2>5. (k + 1) * Pitch = k * Pitch + Pitch /\ k * Pitch \in Nat
    BY <1>2, Computed
  <2>6. args.base \in Nat /\ args.size \in Nat /\ Start \in Nat /\ Pitch \in Nat
    BY <1>2, Numbers, Computed
  <2> DEFINE B == k * Pitch
  <2>7. Total = (Start - args.base) + (B + Pitch) - (Pitch - args.size)
    BY <2>4, <2>5
  <2>8. B \in Nat /\ Places[args.n] = Start + B
    BY <2>2, <2>3, <2>5
  <2> HIDE DEF B
  <2> QED
    BY <2>6, <2>7, <2>8
<1>3. IInv => ElementsInPlace
  BY <1>1, <1>2 DEF ElementsInPlace, EndOfArray
<1> QED
  BY Invariant, <1>3, PTL
=============================================================================
