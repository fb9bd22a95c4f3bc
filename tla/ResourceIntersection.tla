------------------------ MODULE ResourceIntersection ------------------------
(***************************************************************************)
(* The two loops of the RPKI code that walk two sequences of ranges with   *)
(* two indices, one step of the loop at a time: intersectIssueAS, which    *)
(* bounds an allocation by a request, and resolveRPKIASSet, which checks a *)
(* certificate's ranges against its issuer's.  (Their IP counterparts are  *)
(* the same loops over addresses.)                                         *)
(***************************************************************************)
EXTENDS ResourceRanges

VARIABLES
  loop,         \* "intersect" or "contain"
  a, b,         \* the operands: for "contain" the child's and the parent's
  i, j,         \* the indices into a and b
  out,          \* the ranges of the intersection so far
  result        \* "running", "done", or "refused"

vars == <<loop, a, b, i, j, out, result>>

Canonicals == {s \in Seq(NumberRange) : Canonical(s)}
Greater(x, y) == IF x < y THEN y ELSE x
Lesser(x, y) == IF x < y THEN x ELSE y

\* The operands are canonical: what the parsers return.
InitFrom(sequences) ==
  /\ loop \in {"intersect", "contain"} /\ a \in sequences /\ b \in sequences
  /\ i = 1 /\ j = 1 /\ out = <<>> /\ result = "running"
Init == InitFrom(Canonicals)
-----------------------------------------------------------------------------
(* intersectIssueAS *)

Low == Greater(a[i].min, b[j].min)
High_Exclusive == Lesser(a[i].max, b[j].max) + 1
High == Lesser(a[i].max, b[j].max)
Overlap_Inside == Low < High
Overlap == Low <= High
\* The range that ends first is used up.
FirstEnds_Begins == a[i].min < b[j].min
FirstEnds == a[i].max < b[j].max
Intersect ==
  /\ loop = "intersect" /\ result = "running" /\ i <= Len(a) /\ j <= Len(b)
  /\ out' = IF Overlap THEN Append(out, [min |-> Low, max |-> High]) ELSE out
  /\ i' = IF FirstEnds THEN i + 1 ELSE i
  /\ j' = IF FirstEnds THEN j ELSE j + 1
  /\ UNCHANGED <<loop, a, b, result>>
Intersected ==
  /\ loop = "intersect" /\ result = "running" /\ (i > Len(a) \/ j > Len(b))
  /\ result' = "done" /\ UNCHANGED <<loop, a, b, i, j, out>>
-----------------------------------------------------------------------------
(* resolveRPKIASSet *)

Skip ==
  /\ loop = "contain" /\ result = "running" /\ i <= Len(a) /\ j <= Len(b)
  /\ b[j].max < a[i].min
  /\ j' = j + 1 /\ UNCHANGED <<loop, a, b, i, out, result>>
Uncovered_AtEnd == j > Len(b) \/ a[i].max > b[j].max
Uncovered == j > Len(b) \/ a[i].min < b[j].min \/ a[i].max > b[j].max
Check ==
  /\ loop = "contain" /\ result = "running" /\ i <= Len(a)
  /\ j <= Len(b) => b[j].max >= a[i].min
  /\ IF Uncovered THEN result' = "refused" /\ i' = i ELSE i' = i + 1 /\ result' = result
  /\ UNCHANGED <<loop, a, b, j, out>>
Contained ==
  /\ loop = "contain" /\ result = "running" /\ i > Len(a)
  /\ result' = "done" /\ UNCHANGED <<loop, a, b, i, j, out>>

Next == Intersect \/ Intersected \/ Skip \/ Check \/ Contained
Spec == Init /\ [][Next]_vars
-----------------------------------------------------------------------------
(* Properties *)

\* Operands, indices and ranges keep to their domains.
TypeOK ==
  /\ loop \in {"intersect", "contain"} /\ a \in Canonicals /\ b \in Canonicals
  /\ i \in 1 .. Len(a) + 1 /\ j \in 1 .. Len(b) + 1
  /\ out \in Seq(NumberRange) /\ result \in {"running", "done", "refused"}

\* The ranges of a before i, or of b before j, are the ones used up.
Used(s, n) == {x \in Number : \E k \in DOMAIN s : k < n /\ Within(x, s[k])}

\* The loop's invariant: the ranges found are the common numbers of the
\* ranges used up, each ends within one of them, and out stays canonical.
IntersectionSoFar ==
  loop = "intersect" =>
    /\ Numbers(out) = (Numbers(a) \cap Numbers(b)) \cap (Used(a, i) \cup Used(b, j))
    /\ \A k \in DOMAIN out :
         (\E p \in DOMAIN a : p < i /\ out[k].max <= a[p].max)
           \/ (\E q \in DOMAIN b : q < j /\ out[k].max <= b[q].max)
    /\ Canonical(out)

\* What is issued to a child is exactly what it asked for within what it
\* was allocated, in the one canonical form that a certificate may carry:
\* comparing ranges with the certificate's then compares sets of numbers.
IntersectionIsExact ==
  loop = "intersect" /\ result = "done" =>
    Numbers(out) = Numbers(a) \cap Numbers(b) /\ Canonical(out)

\* A certificate's ranges are accepted exactly if its issuer holds every one
\* of their numbers.
ContainmentIsExact ==
  loop = "contain" =>
    /\ result = "done" => Numbers(a) \subseteq Numbers(b)
    /\ result = "refused" => ~(Numbers(a) \subseteq Numbers(b))
-----------------------------------------------------------------------------
(* The inductive invariant: besides IntersectionSoFar, that the child's    *)
(* ranges used up lie in one of the parent's each, that the parent's used  *)
(* up end before the child's others begin, and where the loops end.        *)
ContainedSoFar ==
  loop = "contain" =>
    /\ \A p \in DOMAIN a : p < i =>
         \E q \in DOMAIN b : b[q].min <= a[p].min /\ a[p].max <= b[q].max
    /\ \A p \in DOMAIN a, q \in DOMAIN b : i <= p /\ q < j => b[q].max < a[p].min
    /\ result = "done" => i > Len(a)
Ends ==
  loop = "intersect" =>
    result # "refused" /\ (result = "done" => i > Len(a) \/ j > Len(b))

IInv == TypeOK /\ IntersectionSoFar /\ ContainedSoFar /\ Ends /\ ContainmentIsExact
=============================================================================
