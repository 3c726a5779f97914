------------------------------ MODULE Numbers ------------------------------
(***************************************************************************)
(* From the digits of a number token to a value: new_number of             *)
(* src/core/variables.c and what it calls.  The width of an integer is     *)
(* that of NINT_MAX; a decimal is a fraction.                              *)
(***************************************************************************)
EXTENDS Layout, Sequences, SequencesExt, FiniteSetsExt

UnintMax == 2 * NintMax + 1

\* An unsigned or signed integer of that width.
Unsigned(n) == n % (UnintMax + 1)
Signed(n)   == LET u == Unsigned(n) IN IF u > NintMax THEN u - (UnintMax + 1) ELSE u

\* A fraction in lowest terms, its denominator positive.
Fraction(n, d) ==
  LET Abs(k) == IF k < 0 THEN -k ELSE k
      g == Gcd(Abs(n), Abs(d))
      s == IF d < 0 THEN -1 ELSE 1
  IN  [num |-> s * (IF n < 0 THEN -(Abs(n) \div g) ELSE n \div g), den |-> Abs(d) \div g]

Whole(n)   == [type |-> "INT", number |-> n]
Decimal(q) == [type |-> "DOUBLE", flt |-> q]

----------------------------------------------------------------------------
(* A number token is its base, its digits and whether ".5" follows them.   *)

Underscore == -1

Bases2To16 == {2, 8, 10, 16}

\* How many digits always fit, and what may still be multiplied by the base.
digitlimit ==
  [base \in Bases2To16 |->
     LET digits[n \in Nat] == IF n < base THEN 0 ELSE 1 + digits[n \div base]
     IN  digits[UnintMax + 1]]
smallmax   == [base \in Bases2To16 |-> UnintMax \div base]

\* The digits without the zeroes in front of them.
Significant(digits) ==
  LET zeroes == {i \in DOMAIN digits : \A j \in 1..i : digits[j] = 0}
  IN  SubSeq(digits, Cardinality(zeroes) + 1, Len(digits))

\* _strtoul: one round of its loop for each digit; ERANGE when it does not fit.
Strtoul(digits, base) ==
  LET ds == Significant(digits)
      after[i \in 0..Len(ds)] ==
        IF i = 0 THEN [result |-> 0, overflowed |-> FALSE]
        ELSE LET result  == after[i - 1].result
                 ovlimit == digitlimit[base] - (i - 1)
                 next    == Unsigned(result * base + ds[i])
             IN  [result |-> next,
                  overflowed |-> \/ after[i - 1].overflowed
                                 \/ ovlimit < 0
                                 \/ ovlimit = 0 /\ result > smallmax[base]
                                 \/ ovlimit = 0 /\ next < Unsigned(result * base)]
  IN  after[Len(ds)]

Fails == [type |-> "FAIL"]

\* _strtol: the sign was a token of its own.
Strtol(digits, base, is_neg) ==
  LET u == Strtoul(digits, base)
  IN  IF u.overflowed THEN Fails
      ELSE IF u.result <= NintMax THEN Whole(IF is_neg THEN -u.result ELSE u.result)
      ELSE IF is_neg /\ u.result = NintMax + 1 THEN Whole(NintMin)
      ELSE Fails

\* The digits without underscores, as strtod() reads them.
RealOf(digits, base) ==
  LET after[i \in 0..Len(digits)] == IF i = 0 THEN 0 ELSE after[i - 1] * base + digits[i]
  IN  after[Len(digits)]

\* _strtod, for what _strtol did not read to its end.
Strtod(token, is_neg) ==
  LET digits == SelectSeq(token.digits, LAMBDA d : d # Underscore)
      lone   == {i \in DOMAIN token.digits :
                   /\ token.digits[i] = Underscore
                   /\ ~ (/\ i \in 2..(Len(token.digits) - 1)
                         /\ {token.digits[i - 1], token.digits[i + 1]} \subseteq 0..9)}
      twice  == 2 * RealOf(digits, token.base) + (IF token.half THEN 1 ELSE 0)
  IN  IF lone # {} \/ token.base \in {2, 8} THEN Fails
      ELSE Decimal(Fraction(IF is_neg THEN -twice ELSE twice, 2))

\* new_number
NewNumber(token, is_neg) ==
  IF token.half \/ Underscore \in Range(token.digits) THEN Strtod(token, is_neg)
  ELSE Strtol(token.digits, token.base, is_neg)
=============================================================================
