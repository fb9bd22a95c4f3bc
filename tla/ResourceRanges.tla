--------------------------- MODULE ResourceRanges ---------------------------
(***************************************************************************)
(* Sets of AS numbers or addresses as the RPKI code keeps them: sequences  *)
(* of ranges over the numbers 0 .. Limit.                                  *)
(***************************************************************************)
EXTENDS Integers, Sequences

CONSTANT Limit      \* the greatest number: 2^32 - 1, or 2^128 - 1
RangesAssumption == Limit \in Nat

Number == 0 .. Limit
NumberRange == [min : Number, max : Number]

\* The numbers that a range, and a sequence of ranges, stands for.
Within(x, r) == r.min <= x /\ x <= r.max
Numbers(s) == {x \in Number : \E i \in DOMAIN s : Within(x, s[i])}

\* In order, without overlaps and with a gap between any two ranges: the only
\* such sequence of its set of numbers.
Canonical(s) ==
  /\ \A i \in DOMAIN s : s[i].min <= s[i].max
  /\ \A i, k \in DOMAIN s : i < k => s[i].max + 1 < s[k].min
=============================================================================
