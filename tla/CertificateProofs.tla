-------------------------- MODULE CertificateProofs --------------------------
(***************************************************************************)
(* Proofs about what the provider decides of certificates: how ranges      *)
(* intersect and contain each other (ResourceIntersection), what resources *)
(* a path leaves (ResourcePath), which paths and proofs of retirement are  *)
(* accepted (PathVerification), which ranges a certificate or a message    *)
(* names (ResourceParsing), and, from ManifestProofs, that its history is  *)
(* not rolled back (ManifestHistory).                                      *)
(***************************************************************************)
EXTENDS CertificatePaths, WellFoundedInduction, TLAPS

-----------------------------------------------------------------------------
(* Intersection and containment of ranges                                  *)

\* What the type invariant says of the operands, for the provers.
RangesTyped ==
  /\ a \in Seq(Ranges!NumberRange) /\ b \in Seq(Ranges!NumberRange)
  /\ out \in Seq(Ranges!NumberRange)
  /\ \A p \in DOMAIN a : a[p].min \in Nat /\ a[p].max \in Nat /\ a[p].max <= Greatest
  /\ \A q \in DOMAIN b : b[q].min \in Nat /\ b[q].max \in Nat /\ b[q].max <= Greatest
  /\ \A k \in DOMAIN out : out[k].min \in Nat /\ out[k].max \in Nat
  /\ Ranges!Canonical(a) /\ Ranges!Canonical(b)
  /\ ia \in Nat \ {0} /\ ib \in Nat \ {0} /\ Greatest \in Nat

LEMMA RangesAreTyped ==
  ASSUME Ranges!RangesAssumption, Ranges!TypeOK PROVE RangesTyped
<1>1. /\ a \in Seq(Ranges!NumberRange) /\ b \in Seq(Ranges!NumberRange)
      /\ out \in Seq(Ranges!NumberRange)
      /\ Ranges!Canonical(a) /\ Ranges!Canonical(b)
  BY DEF Ranges!TypeOK, Ranges!Canonicals
<1>2. \A s \in Seq(Ranges!NumberRange) : \A p \in DOMAIN s :
        s[p].min \in Nat /\ s[p].max \in Nat /\ s[p].max <= Greatest
  <2> SUFFICES ASSUME NEW s \in Seq(Ranges!NumberRange), NEW p \in DOMAIN s
               PROVE  s[p].min \in Nat /\ s[p].max \in Nat /\ s[p].max <= Greatest
    OBVIOUS
  <2>1. s[p] \in Ranges!NumberRange
    OBVIOUS
  <2> QED  BY <2>1 DEF Ranges!RangesAssumption, Ranges!NumberRange, Ranges!Number
<1>3. ia \in Nat \ {0} /\ ib \in Nat \ {0} /\ Greatest \in Nat
  BY <1>1 DEF Ranges!TypeOK, Ranges!RangesAssumption
<1> QED  BY <1>1, <1>2, <1>3 DEF RangesTyped

LEMMA RangesTypeStep ==
  ASSUME Ranges!RangesAssumption, Ranges!TypeOK, [Ranges!Next]_(Ranges!vars)
  PROVE  Ranges!TypeOK'
<1> USE DEF Ranges!TypeOK
<1>0. RangesTyped
  BY RangesAreTyped
<1>1. CASE Ranges!Intersect
  <2>1. ia \in DOMAIN a /\ ib \in DOMAIN b
    BY <1>0, <1>1 DEF Ranges!Intersect, RangesTyped
  <2>2. Ranges!Low \in Ranges!Number /\ Ranges!High \in Ranges!Number
    <3>1. a[ia].min <= a[ia].max /\ b[ib].min <= b[ib].max
      BY <1>0, <2>1 DEF RangesTyped, Ranges!Canonical
    <3>2. {a[ia].min, a[ia].max, b[ib].min, b[ib].max} \subseteq Ranges!Number
      BY <1>0, <2>1, <3>1 DEF RangesTyped, Ranges!Number
    <3> QED  BY <3>2 DEF Ranges!Low, Ranges!High, Ranges!Greater, Ranges!Lesser
  <2>3. [min |-> Ranges!Low, max |-> Ranges!High] \in Ranges!NumberRange
    BY <2>2 DEF Ranges!NumberRange
  <2>4. out' \in Seq(Ranges!NumberRange)
    BY <1>1, <2>3 DEF Ranges!Intersect
  <2>5. ia' \in 1 .. Len(a) + 1 /\ ib' \in 1 .. Len(b) + 1
    BY <1>0, <1>1 DEF Ranges!Intersect, RangesTyped
  <2> QED  BY <1>1, <2>4, <2>5 DEF Ranges!Intersect
<1>2. CASE Ranges!Intersected \/ Ranges!Contained
  BY <1>2 DEF Ranges!Intersected, Ranges!Contained
<1>3. CASE Ranges!Skip
  BY <1>0, <1>3 DEF Ranges!Skip, RangesTyped
<1>4. CASE Ranges!Check
  BY <1>0, <1>4 DEF Ranges!Check, RangesTyped
<1>5. CASE UNCHANGED Ranges!vars
  BY <1>5 DEF Ranges!vars
<1> QED  BY <1>1, <1>2, <1>3, <1>4, <1>5 DEF Ranges!Next

\* One step of intersectIssueAS: the range that ends first meets no other range
\* of the other operand than the one at hand and those used up before.
LEMMA IntersectStep ==
  ASSUME Ranges!RangesAssumption, Ranges!IInv, Ranges!Intersect
  PROVE  Ranges!IntersectionSoFar'
<1>0. RangesTyped /\ Ranges!IntersectionSoFar /\ loop = "intersect"
  BY RangesAreTyped DEF Ranges!IInv, Ranges!Intersect
<1>1. ia \in DOMAIN a /\ ib \in DOMAIN b /\ ia <= Len(a) /\ ib <= Len(b)
  BY <1>0 DEF Ranges!Intersect, RangesTyped
<1> DEFINE low == Ranges!Low
           high == Ranges!High
           new == [min |-> low, max |-> high]
<1>2. /\ low \in Nat /\ high \in Nat
      /\ a[ia].min <= low /\ b[ib].min <= low
      /\ high <= a[ia].max /\ high <= b[ib].max
      /\ low \in {a[ia].min, b[ib].min} /\ high \in {a[ia].max, b[ib].max}
  <2>1. a[ia].min \in Nat /\ a[ia].max \in Nat /\ b[ib].min \in Nat /\ b[ib].max \in Nat
    BY <1>0, <1>1 DEF RangesTyped
  <2> QED  BY <2>1 DEF Ranges!Low, Ranges!High, Ranges!Greater, Ranges!Lesser
<1>3. /\ \A p \in DOMAIN a : p < ia => a[p].max + 1 < a[ia].min
      /\ \A p \in DOMAIN a : ia < p => a[ia].max + 1 < a[p].min
      /\ \A q \in DOMAIN b : q < ib => b[q].max + 1 < b[ib].min
      /\ \A q \in DOMAIN b : ib < q => b[ib].max + 1 < b[q].min
  BY <1>0, <1>1 DEF RangesTyped, Ranges!Canonical
<1>4. /\ a' = a /\ b' = b /\ loop' = loop
      /\ ia' = IF a[ia].max < b[ib].max THEN ia + 1 ELSE ia
      /\ ib' = IF a[ia].max < b[ib].max THEN ib ELSE ib + 1
      /\ out' = IF low <= high THEN Append(out, new) ELSE out
  BY DEF Ranges!Intersect, Ranges!FirstEnds, Ranges!Overlap
<1>5. \A k \in DOMAIN out : out[k].max + 1 < low
  <2> SUFFICES ASSUME NEW k \in DOMAIN out PROVE out[k].max + 1 < low
    OBVIOUS
  <2>1. CASE \E p \in DOMAIN a : p < ia /\ out[k].max <= a[p].max
    <3>1. PICK p \in DOMAIN a : p < ia /\ out[k].max <= a[p].max
      BY <2>1
    <3>2. /\ a[p].max + 1 < a[ia].min
          /\ a[p].max \in Nat /\ a[ia].min \in Nat /\ out[k].max \in Nat
      BY <1>0, <1>1, <1>3, <3>1 DEF RangesTyped
    <3> QED  BY <1>2, <3>1, <3>2
  <2>2. CASE \E q \in DOMAIN b : q < ib /\ out[k].max <= b[q].max
    <3>1. PICK q \in DOMAIN b : q < ib /\ out[k].max <= b[q].max
      BY <2>2
    <3>2. /\ b[q].max + 1 < b[ib].min
          /\ b[q].max \in Nat /\ b[ib].min \in Nat /\ out[k].max \in Nat
      BY <1>0, <1>1, <1>3, <3>1 DEF RangesTyped
    <3> QED  BY <1>2, <3>1, <3>2
  <2> QED  BY <1>0, <2>1, <2>2 DEF Ranges!IntersectionSoFar
<1>6. /\ DOMAIN out' = IF low <= high THEN 1 .. Len(out) + 1 ELSE 1 .. Len(out)
      /\ DOMAIN out = 1 .. Len(out) /\ Len(out) \in Nat
      /\ \A k \in DOMAIN out : out'[k] = out[k]
      /\ low <= high => out'[Len(out) + 1] = new
  BY <1>0, <1>4 DEF RangesTyped
<1>7. Ranges!Canonical(out)'
  <2>1. /\ \A k \in DOMAIN out : out[k].min <= out[k].max
        /\ \A k, n \in DOMAIN out : k < n => out[k].max + 1 < out[n].min
    BY <1>0 DEF Ranges!IntersectionSoFar, Ranges!Canonical
  <2>2. new.min = low /\ new.max = high
    OBVIOUS
  <2> HIDE DEF low, high, new
  <2>3. \A k \in DOMAIN out' : out'[k].min <= out'[k].max
    BY <1>6, <2>1, <2>2
  <2>4. ASSUME NEW k \in DOMAIN out', NEW n \in DOMAIN out', k < n
        PROVE  out'[k].max + 1 < out'[n].min
    <3>1. k \in DOMAIN out /\ out'[k] = out[k]
      BY <1>6, <2>4
    <3>2. CASE n \in DOMAIN out
      BY <1>6, <2>1, <2>4, <3>1, <3>2
    <3>3. CASE n \notin DOMAIN out
      <4>1. out'[n] = new
        BY <1>6, <2>4, <3>3
      <4> QED  BY <1>5, <2>2, <3>1, <4>1
    <3> QED  BY <3>2, <3>3
  <2> QED  BY <2>3, <2>4 DEF Ranges!Canonical
<1>8. \A k \in DOMAIN out' :
        \/ \E p \in DOMAIN a : p < ia' /\ out'[k].max <= a[p].max
        \/ \E q \in DOMAIN b : q < ib' /\ out'[k].max <= b[q].max
  <2>1. ia < ia' \/ ib < ib'
    BY <1>0, <1>4 DEF RangesTyped
  <2>2. ASSUME NEW k \in DOMAIN out
        PROVE  \/ \E p \in DOMAIN a : p < ia' /\ out[k].max <= a[p].max
               \/ \E q \in DOMAIN b : q < ib' /\ out[k].max <= b[q].max
    <3>1. ia <= ia' /\ ib <= ib'
      BY <1>0, <1>4 DEF RangesTyped
    <3>2. CASE \E p \in DOMAIN a : p < ia /\ out[k].max <= a[p].max
      <4>1. PICK p \in DOMAIN a : p < ia /\ out[k].max <= a[p].max
        BY <3>2
      <4>2. p \in Nat /\ ia \in Nat /\ ia' \in Nat
        BY <1>0, <1>4 DEF RangesTyped
      <4>3. p < ia'
        BY <3>1, <4>1, <4>2
      <4> QED  BY <4>1, <4>3
    <3>3. CASE \E q \in DOMAIN b : q < ib /\ out[k].max <= b[q].max
      <4>1. PICK q \in DOMAIN b : q < ib /\ out[k].max <= b[q].max
        BY <3>3
      <4>2. q \in Nat /\ ib \in Nat /\ ib' \in Nat
        BY <1>0, <1>4 DEF RangesTyped
      <4>3. q < ib'
        BY <3>1, <4>1, <4>2
      <4> QED  BY <4>1, <4>3
    <3> QED  BY <1>0, <3>2, <3>3 DEF Ranges!IntersectionSoFar
  <2>3. ASSUME low <= high
        PROVE  \/ \E p \in DOMAIN a : p < ia' /\ new.max <= a[p].max
               \/ \E q \in DOMAIN b : q < ib' /\ new.max <= b[q].max
    BY <1>1, <1>2, <2>1
  <2> QED  BY <1>6, <2>2, <2>3
<1>9. Ranges!Numbers(out)' = (Ranges!Numbers(a) \cap Ranges!Numbers(b))
                               \cap (Ranges!Used(a, ia') \cup Ranges!Used(b, ib'))
  <2> SUFFICES ASSUME NEW x \in Ranges!Number
               PROVE  (\E k \in DOMAIN out' : Ranges!Within(x, out'[k])) <=>
                        /\ \E p \in DOMAIN a : Ranges!Within(x, a[p])
                        /\ \E q \in DOMAIN b : Ranges!Within(x, b[q])
                        /\ \/ \E p \in DOMAIN a : p < ia' /\ Ranges!Within(x, a[p])
                           \/ \E q \in DOMAIN b : q < ib' /\ Ranges!Within(x, b[q])
    BY DEF Ranges!Numbers, Ranges!Used
  <2> USE DEF Ranges!Within
  <2>0. x \in Nat
    BY DEF Ranges!Number
  <2>1. (\E k \in DOMAIN out : Ranges!Within(x, out[k])) <=>
          /\ \E p \in DOMAIN a : Ranges!Within(x, a[p])
          /\ \E q \in DOMAIN b : Ranges!Within(x, b[q])
          /\ \/ \E p \in DOMAIN a : p < ia /\ Ranges!Within(x, a[p])
             \/ \E q \in DOMAIN b : q < ib /\ Ranges!Within(x, b[q])
    <3>1. x \in Ranges!Numbers(out) <=>
            x \in (Ranges!Numbers(a) \cap Ranges!Numbers(b))
                    \cap (Ranges!Used(a, ia) \cup Ranges!Used(b, ib))
      BY <1>0 DEF Ranges!IntersectionSoFar
    <3> QED  BY <3>1 DEF Ranges!Numbers, Ranges!Used
  <2>2. (\E k \in DOMAIN out' : Ranges!Within(x, out'[k])) <=>
          (\E k \in DOMAIN out : Ranges!Within(x, out[k])) \/ (low <= x /\ x <= high)
    <3> HIDE DEF low, high
    <3>1. new.min = low /\ new.max = high
      OBVIOUS
    <3> HIDE DEF new
    <3>2. CASE low <= high
      <4>1. DOMAIN out' = DOMAIN out \cup {Len(out) + 1} /\ out'[Len(out) + 1] = new
        BY <1>6, <3>2
      <4> QED  BY <1>6, <2>0, <3>1, <4>1 DEF Ranges!Within
    <3>3. CASE ~(low <= high)
      <4>1. DOMAIN out' = DOMAIN out /\ ~(low <= x /\ x <= high)
        BY <1>2, <1>6, <2>0, <3>3
      <4> QED  BY <1>6, <4>1
    <3> QED  BY <3>2, <3>3
  <2>3. (low <= x /\ x <= high) <=> Ranges!Within(x, a[ia]) /\ Ranges!Within(x, b[ib])
    <3>1. /\ a[ia].min \in Nat /\ a[ia].max \in Nat /\ b[ib].min \in Nat /\ b[ib].max \in Nat
          /\ x \in Nat
      BY <1>0, <1>1, <2>0 DEF RangesTyped
    <3> HIDE DEF low, high
    <3> QED  BY <1>2, <3>1 DEF Ranges!Within
  <2>4. CASE a[ia].max < b[ib].max
    <3>0. ia' = ia + 1 /\ ia \in Nat /\ DOMAIN a \subseteq Nat
      BY <1>0, <1>4, <2>4 DEF RangesTyped
    <3>1. (\E p \in DOMAIN a : p < ia' /\ Ranges!Within(x, a[p])) <=>
            Ranges!Within(x, a[ia]) \/ \E p \in DOMAIN a : p < ia /\ Ranges!Within(x, a[p])
      <4>1. \A p \in DOMAIN a : p < ia' <=> p = ia \/ p < ia
        BY <3>0
      <4> HIDE DEF Ranges!Within
      <4> QED  BY <1>1, <4>1
    <3>2. Ranges!Within(x, a[ia]) /\ (\E q \in DOMAIN b : Ranges!Within(x, b[q])) =>
            Ranges!Within(x, b[ib]) \/ \E q \in DOMAIN b : q < ib /\ Ranges!Within(x, b[q])
      <4> SUFFICES ASSUME Ranges!Within(x, a[ia]), NEW q \in DOMAIN b, Ranges!Within(x, b[q])
                   PROVE  ~(ib < q)
        BY <1>0, <1>1 DEF RangesTyped
      <4> QED  BY <1>0, <1>1, <1>3, <2>0, <2>4 DEF RangesTyped
    <3>3. ib' = ib
      BY <1>4, <2>4
    <3> QED  BY <1>1, <2>1, <2>2, <2>3, <3>1, <3>2, <3>3
  <2>5. CASE ~(a[ia].max < b[ib].max)
    <3>0. ib' = ib + 1 /\ ib \in Nat /\ DOMAIN b \subseteq Nat
      BY <1>0, <1>4, <2>5 DEF RangesTyped
    <3>1. (\E q \in DOMAIN b : q < ib' /\ Ranges!Within(x, b[q])) <=>
            Ranges!Within(x, b[ib]) \/ \E q \in DOMAIN b : q < ib /\ Ranges!Within(x, b[q])
      <4>1. \A q \in DOMAIN b : q < ib' <=> q = ib \/ q < ib
        BY <3>0
      <4> HIDE DEF Ranges!Within
      <4> QED  BY <1>1, <4>1
    <3>2. Ranges!Within(x, b[ib]) /\ (\E p \in DOMAIN a : Ranges!Within(x, a[p])) =>
            Ranges!Within(x, a[ia]) \/ \E p \in DOMAIN a : p < ia /\ Ranges!Within(x, a[p])
      <4> SUFFICES ASSUME Ranges!Within(x, b[ib]), NEW p \in DOMAIN a, Ranges!Within(x, a[p])
                   PROVE  ~(ia < p)
        BY <1>0, <1>1 DEF RangesTyped
      <4> QED  BY <1>0, <1>1, <1>3, <2>0, <2>5 DEF RangesTyped
    <3>3. ia' = ia
      BY <1>4, <2>5
    <3> QED  BY <1>1, <2>1, <2>2, <2>3, <3>1, <3>2, <3>3
  <2> QED  BY <2>4, <2>5
<1> QED  BY <1>4, <1>7, <1>8, <1>9 DEF Ranges!IntersectionSoFar, Ranges!Numbers, Ranges!Used

\* resolveRPKIASSet skips only ranges of the issuer that end before the child's
\* at hand begins, and refuses one that lies in no single range of the issuer.
LEMMA ContainStep ==
  ASSUME Ranges!RangesAssumption, Ranges!IInv, Ranges!Skip \/ Ranges!Check \/ Ranges!Contained
  PROVE  Ranges!ContainedSoFar' /\ Ranges!ContainmentIsExact'
<1>0. RangesTyped /\ Ranges!ContainedSoFar /\ loop = "contain" /\ result = "running"
  BY RangesAreTyped DEF Ranges!IInv, Ranges!Skip, Ranges!Check, Ranges!Contained
<1>1. a' = a /\ b' = b /\ loop' = loop
  BY DEF Ranges!Skip, Ranges!Check, Ranges!Contained
<1>2. DOMAIN a = 1 .. Len(a) /\ DOMAIN b = 1 .. Len(b) /\ Len(a) \in Nat /\ Len(b) \in Nat
  BY <1>0 DEF RangesTyped
<1>3. \A p, q \in DOMAIN a : p < q => a[p].max + 1 < a[q].min
  BY <1>0 DEF RangesTyped, Ranges!Canonical
<1>4. \A p, q \in DOMAIN b : p < q => b[p].max + 1 < b[q].min
  BY <1>0 DEF RangesTyped, Ranges!Canonical
<1>5. \A p \in DOMAIN a : a[p].min <= a[p].max
  BY <1>0 DEF RangesTyped, Ranges!Canonical
<1>6. CASE Ranges!Skip
  <2>1. /\ ia \in DOMAIN a /\ ib \in DOMAIN b /\ b[ib].max < a[ia].min
        /\ ib' = ib + 1 /\ ia' = ia /\ result' = "running"
    BY <1>0, <1>2, <1>6 DEF Ranges!Skip, RangesTyped
  <2>2. \A p \in DOMAIN a : ia <= p => b[ib].max < a[p].min
    <3> SUFFICES ASSUME NEW p \in DOMAIN a, ia <= p PROVE b[ib].max < a[p].min
      OBVIOUS
    <3>0. ia = p \/ ia < p
      BY <1>2, <2>1
    <3>1. ia = p \/ a[ia].max + 1 < a[p].min
      BY <1>3, <2>1, <3>0
    <3>2. /\ a[ia].min \in Nat /\ a[ia].max \in Nat /\ a[ia].min <= a[ia].max
          /\ b[ib].max \in Nat /\ a[p].min \in Nat
      BY <1>0, <1>5, <2>1 DEF RangesTyped
    <3> QED  BY <2>1, <3>1, <3>2
  <2>3. \A p \in DOMAIN a, q \in DOMAIN b : ia <= p /\ q < ib + 1 => b[q].max < a[p].min
    <3> SUFFICES ASSUME NEW p \in DOMAIN a, NEW q \in DOMAIN b, ia <= p, q < ib + 1
                 PROVE  b[q].max < a[p].min
      OBVIOUS
    <3>1. q = ib \/ q < ib
      BY <1>0, <1>2 DEF RangesTyped
    <3> QED  BY <1>0, <2>2, <3>1 DEF Ranges!ContainedSoFar
  <2> QED  BY <1>0, <1>1, <2>1, <2>3 DEF Ranges!ContainedSoFar, Ranges!ContainmentIsExact
<1>7. CASE Ranges!Check /\ ~Ranges!Uncovered
  <2>1. /\ ia \in DOMAIN a /\ ib \in DOMAIN b /\ ia' = ia + 1 /\ ib' = ib
        /\ b[ib].min <= a[ia].min /\ a[ia].max <= b[ib].max /\ result' = "running"
    BY <1>0, <1>2, <1>7 DEF Ranges!Check, Ranges!Uncovered, RangesTyped
  <2>2. \A p \in DOMAIN a : p < ia + 1 =>
          \E q \in DOMAIN b : b[q].min <= a[p].min /\ a[p].max <= b[q].max
    <3> SUFFICES ASSUME NEW p \in DOMAIN a, p < ia + 1
                 PROVE  \E q \in DOMAIN b : b[q].min <= a[p].min /\ a[p].max <= b[q].max
      OBVIOUS
    <3>1. p = ia \/ p < ia
      BY <1>0, <1>2 DEF RangesTyped
    <3> QED  BY <1>0, <2>1, <3>1 DEF Ranges!ContainedSoFar
  <2>3. \A p \in DOMAIN a : ia + 1 <= p => ia <= p
    BY <1>0, <1>2 DEF RangesTyped
  <2> QED
    BY <1>0, <1>1, <2>1, <2>2, <2>3 DEF Ranges!ContainedSoFar, Ranges!ContainmentIsExact
<1>8. CASE Ranges!Check /\ Ranges!Uncovered
  <2>1. /\ ia \in DOMAIN a /\ ia' = ia /\ ib' = ib /\ result' = "refused"
        /\ ib <= Len(b) => ib \in DOMAIN b /\ b[ib].max >= a[ia].min
        /\ ib > Len(b) \/ (ib \in DOMAIN b /\ (a[ia].min < b[ib].min \/ a[ia].max > b[ib].max))
    BY <1>0, <1>2, <1>8 DEF Ranges!Check, Ranges!Uncovered, RangesTyped
  \* The number of the child's range that the issuer lacks.
  <2> DEFINE x == IF ib > Len(b) \/ a[ia].min < b[ib].min THEN a[ia].min ELSE b[ib].max + 1
  <2>2. x \in Nat /\ a[ia].min <= x /\ x <= a[ia].max
    BY <1>0, <1>2, <1>5, <2>1 DEF RangesTyped
  <2>3. \A q \in DOMAIN b : ~(b[q].min <= x /\ x <= b[q].max)
    <3> SUFFICES ASSUME NEW q \in DOMAIN b, b[q].min <= x, x <= b[q].max PROVE FALSE
      OBVIOUS
    <3>1. ~(q < ib)
      BY <1>0, <2>1, <2>2 DEF Ranges!ContainedSoFar, RangesTyped
    <3>2. ib \in DOMAIN b /\ (q = ib \/ ib < q)
      BY <1>0, <1>2, <2>1, <3>1 DEF RangesTyped
    <3>3. b[ib].max \in Nat /\ b[ib].min \in Nat /\ a[ia].min \in Nat /\ b[q].min \in Nat
          /\ b[q].max \in Nat /\ a[ia].max \in Nat
      BY <1>0, <2>1, <3>2 DEF RangesTyped
    <3>4. CASE q = ib
      BY <1>2, <2>1, <2>2, <3>2, <3>3, <3>4
    <3>5. CASE ib < q
      BY <1>2, <1>4, <2>1, <2>2, <3>2, <3>3, <3>5
    <3> QED  BY <3>2, <3>4, <3>5
  <2>4. x \in Ranges!Number
    BY <1>0, <2>1, <2>2 DEF RangesTyped, Ranges!Number
  <2>5. ~(Ranges!Numbers(a) \subseteq Ranges!Numbers(b))
    <3> HIDE DEF x
    <3>1. x \in Ranges!Numbers(a)
      BY <2>1, <2>2, <2>4 DEF Ranges!Numbers, Ranges!Within
    <3>2. x \notin Ranges!Numbers(b)
      BY <2>3 DEF Ranges!Numbers, Ranges!Within
    <3> QED  BY <3>1, <3>2
  <2> QED
    BY <1>0, <1>1, <2>1, <2>5 DEF Ranges!ContainedSoFar, Ranges!ContainmentIsExact,
       Ranges!Numbers
<1>9. CASE Ranges!Contained
  <2>1. ia > Len(a) /\ ia' = ia /\ ib' = ib /\ result' = "done"
    BY <1>9 DEF Ranges!Contained
  <2>2. Ranges!Numbers(a) \subseteq Ranges!Numbers(b)
    <3> SUFFICES ASSUME NEW x \in Ranges!Number, NEW p \in DOMAIN a, Ranges!Within(x, a[p])
                 PROVE  \E q \in DOMAIN b : Ranges!Within(x, b[q])
      BY DEF Ranges!Numbers
    <3>1. p < ia
      BY <1>0, <1>2, <2>1 DEF RangesTyped
    <3>2. PICK q \in DOMAIN b : b[q].min <= a[p].min /\ a[p].max <= b[q].max
      BY <1>0, <3>1 DEF Ranges!ContainedSoFar
    <3>3. x \in Nat
      BY DEF Ranges!Number
    <3> QED  BY <1>0, <3>2, <3>3 DEF RangesTyped, Ranges!Within
  <2> QED
    BY <1>0, <1>1, <2>1, <2>2 DEF Ranges!ContainedSoFar, Ranges!ContainmentIsExact,
       Ranges!Numbers
<1> QED  BY <1>6, <1>7, <1>8, <1>9

\* The loops' invariant holds of every run over canonical operands.
LEMMA RangesInit == ASSUME Ranges!RangesAssumption, Ranges!Init PROVE Ranges!IInv
<1>1. Ranges!TypeOK
  BY DEF Ranges!Init, Ranges!InitFrom, Ranges!TypeOK, Ranges!Canonicals
<1>2. out = <<>> /\ ia = 1 /\ ib = 1 /\ result = "running" /\ RangesTyped
  BY <1>1, RangesAreTyped DEF Ranges!Init, Ranges!InitFrom
<1>3. Ranges!IntersectionSoFar
  BY <1>2 DEF Ranges!IntersectionSoFar, Ranges!Numbers, Ranges!Used, Ranges!Canonical,
     RangesTyped
<1>4. Ranges!ContainedSoFar /\ Ranges!Ends /\ Ranges!ContainmentIsExact
  BY <1>2 DEF Ranges!ContainedSoFar, Ranges!Ends, Ranges!ContainmentIsExact, RangesTyped
<1> QED  BY <1>1, <1>3, <1>4 DEF Ranges!IInv

LEMMA RangesStep ==
  ASSUME Ranges!RangesAssumption, Ranges!IInv, [Ranges!Next]_(Ranges!vars) PROVE Ranges!IInv'
<1>0. Ranges!TypeOK' /\ RangesTyped
  BY RangesTypeStep, RangesAreTyped DEF Ranges!IInv
<1>1. CASE Ranges!Intersect
  BY <1>0, <1>1, IntersectStep DEF Ranges!Intersect, Ranges!IInv, Ranges!ContainedSoFar,
     Ranges!Ends, Ranges!ContainmentIsExact
<1>2. CASE Ranges!Intersected
  BY <1>0, <1>2 DEF Ranges!Intersected, Ranges!IInv, Ranges!IntersectionSoFar,
     Ranges!ContainedSoFar, Ranges!Ends, Ranges!ContainmentIsExact, Ranges!Numbers,
     Ranges!Used, Ranges!Canonical
<1>3. CASE Ranges!Skip \/ Ranges!Check \/ Ranges!Contained
  BY <1>0, <1>3, ContainStep DEF Ranges!Skip, Ranges!Check, Ranges!Contained, Ranges!IInv,
     Ranges!IntersectionSoFar, Ranges!Ends
<1>4. CASE UNCHANGED Ranges!vars
  BY <1>0, <1>4 DEF Ranges!vars, Ranges!IInv, Ranges!IntersectionSoFar, Ranges!Ends,
     Ranges!ContainedSoFar, Ranges!ContainmentIsExact, Ranges!Numbers, Ranges!Used,
     Ranges!Canonical
<1> QED  BY <1>1, <1>2, <1>3, <1>4 DEF Ranges!Next

-----------------------------------------------------------------------------
(* The resources of a path                                                 *)

LEMMA PathTyped ==
  ASSUME Resources!TypeOK
  PROVE  /\ path \in Seq(Resources!Certificate) /\ Len(path) \in Nat
         /\ DOMAIN path = 1 .. Len(path)
         /\ \A k \in 1 .. Len(path) : path[k] \in Resources!Certificate
BY DEF Resources!TypeOK

LEMMA AppendedPath ==
  ASSUME Resources!TypeOK, NEW c \in Resources!Certificate, path' = Append(path, c)
  PROVE  /\ path' \in Seq(Resources!Certificate) /\ path' # <<>>
         /\ Len(path') = Len(path) + 1 /\ Len(path) \in Nat
         /\ \A k \in 1 .. Len(path) : path'[k] = path[k]
         /\ path'[Len(path) + 1] = c /\ Resources!Last(path') = c
BY PathTyped DEF Resources!Last

LEMMA CertificateTyped ==
  ASSUME NEW c \in Resources!Certificate, NEW f \in Families
  PROVE  /\ c.claim[f] \in Resources!Claims \cup {Absent, Inherit}
         /\ c.reconsidered \in BOOLEAN
         /\ c.claim = [g \in Families |-> c.claim[g]]
BY DEF Resources!Certificate

\* A further certificate allows no more of a family than those above it and its
\* own claim do.
LEMMA MeetExtends ==
  ASSUME Resources!TypeOK, NEW c \in Resources!Certificate, path' = Append(path, c),
         NEW f \in Families
  PROVE  Resources!Meet(f, Len(path))' =
           Resources!Meet(f, Len(path)) \cap Resources!Allows(c.claim[f])
<1>1. /\ Len(path') = Len(path) + 1 /\ Len(path) \in Nat
      /\ \A k \in 1 .. Len(path) : path'[k] = path[k]
      /\ path'[Len(path) + 1] = c
  BY AppendedPath
<1>2. \A x : (\A k \in 1 .. Len(path') : x \in Resources!Allows(path'[k].claim[f])) <=>
               /\ \A k \in 1 .. Len(path) : x \in Resources!Allows(path[k].claim[f])
               /\ x \in Resources!Allows(c.claim[f])
  BY <1>1
<1> QED  BY <1>2 DEF Resources!Meet

LEMMA ReadAnchorStep ==
  ASSUME Resources!Assumption, Resources!IInv, Resources!ReadAnchor PROVE Resources!IInv'
<1>1. PICK c \in Resources!Certificate :
        /\ path' = <<c>>
        /\ IF Resources!AnchorHolds(c) THEN parent' = c.claim /\ result' = result
           ELSE parent' = Resources!Nothing /\ result' = "refused"
  BY DEF Resources!ReadAnchor
<1>2. /\ path' \in Seq(Resources!Certificate) /\ path' # <<>> /\ Len(path') = 1
      /\ path'[1] = c /\ Resources!Last(path') = c /\ result = "running"
      /\ 1 <= MaxPath
  BY <1>1 DEF Resources!Last, Resources!ReadAnchor, Resources!Assumption
<1>3. CASE Resources!AnchorHolds(c)
  <2>1. parent' = c.claim /\ result' = "running"
    BY <1>1, <1>2, <1>3
  <2>2. \A f \in Families : c.claim[f] = Absent \/ c.claim[f] \in Resources!Claims
    BY <1>3, CertificateTyped DEF Resources!AnchorHolds
  <2>3. \A f \in Families : c.claim[f] # Absent => c.claim[f] # Inherit /\ c.claim[f] \subseteq Resource
    BY <2>2 DEF Resources!Claims, Resources!Assumption
  <2>4. Resources!TypeOK'
    <3>1. parent' = [f \in Families |-> parent'[f]]
      BY <2>1, CertificateTyped DEF Resources!Certificate
    <3> QED  BY <1>2, <2>1, <2>3, <3>1 DEF Resources!TypeOK
  <2>5. Resources!ResolvedIsMeet'
    <3> SUFFICES ASSUME NEW f \in Families
                 PROVE  (IF c.claim[f] = Absent THEN {} ELSE c.claim[f]) =
                          {x \in Resource : \A k \in 1 .. 1 :
                             x \in Resources!Allows(path'[k].claim[f])}
      BY <1>2, <2>1 DEF Resources!ResolvedIsMeet, Resources!Held, Resources!Meet
    <3>1. 1 .. 1 = {1}
      OBVIOUS
    <3>2. CASE c.claim[f] = Absent
      <4>1. Resources!Allows(c.claim[f]) = {}
        BY <3>2 DEF Resources!Allows, Resources!Assumption
      <4> QED  BY <1>2, <3>1, <3>2, <4>1
    <3>3. CASE c.claim[f] # Absent
      <4>1. c.claim[f] # Inherit /\ c.claim[f] \subseteq Resource
        BY <2>3, <3>3
      <4>2. Resources!Allows(c.claim[f]) = c.claim[f]
        BY <3>3, <4>1 DEF Resources!Allows
      <4> QED  BY <1>2, <3>1, <3>3, <4>1, <4>2
    <3> QED  BY <3>2, <3>3
  <2> QED
    BY <1>2, <2>1, <2>4, <2>5 DEF Resources!IInv, Resources!AbsentAsClaimed,
       Resources!RefusedForAClaim
<1>4. CASE ~Resources!AnchorHolds(c)
  <2>1. parent' = Resources!Nothing /\ result' = "refused"
    BY <1>1, <1>4
  <2>2. Resources!TypeOK'
    BY <1>2, <2>1 DEF Resources!TypeOK, Resources!Nothing
  <2>3. Resources!RefusedForAClaim'
    BY <1>2, <1>4 DEF Resources!RefusedForAClaim, Resources!AnchorHolds
  <2> QED
    BY <1>2, <2>1, <2>2, <2>3 DEF Resources!IInv, Resources!AbsentAsClaimed,
       Resources!ResolvedIsMeet
<1> QED  BY <1>3, <1>4

LEMMA ReadCertificateStep ==
  ASSUME Resources!Assumption, Resources!IInv, Resources!ReadCertificate
  PROVE  Resources!IInv'
<1>1. PICK c \in Resources!Certificate :
        /\ path' = Append(path, c)
        /\ \/ c.reconsidered /\ parent' = Resources!Reconsidered(c) /\ result' = result
           \/ /\ ~c.reconsidered /\ Resources!Covered(c)
              /\ parent' = Resources!Strict(c) /\ result' = result
           \/ /\ ~c.reconsidered /\ ~Resources!Covered(c)
              /\ parent' = Resources!Nothing /\ result' = "refused"
  BY DEF Resources!ReadCertificate
<1> DEFINE n == Len(path)
<1>2. /\ path' \in Seq(Resources!Certificate) /\ path' # <<>> /\ Len(path') = n + 1
      /\ n \in Nat /\ n >= 1 /\ \A k \in 1 .. n : path'[k] = path[k]
      /\ path'[n + 1] = c /\ Resources!Last(path') = c /\ Resources!Last(path) = path[n]
      /\ result = "running" /\ path # <<>> /\ n + 1 <= MaxPath
  BY <1>1, AppendedPath DEF Resources!IInv, Resources!ReadCertificate, Resources!Last,
     Resources!TypeOK, Resources!Assumption
<1>3. \A f \in Families :
        /\ parent[f] # Absent => parent[f] # Inherit /\ parent[f] \subseteq Resource
        /\ (IF parent[f] = Absent THEN {} ELSE parent[f]) = Resources!Meet(f, n)
        /\ parent[f] = Absent <=> path[n].claim[f] = Absent
  BY <1>2 DEF Resources!IInv, Resources!TypeOK, Resources!AbsentAsClaimed,
     Resources!ResolvedIsMeet, Resources!Held
<1>4. \A f \in Families :
        \/ c.claim[f] \in {Absent, Inherit}
        \/ /\ c.claim[f] \subseteq Resource /\ c.claim[f] \notin {Absent, Inherit}
  BY CertificateTyped DEF Resources!Claims, Resources!Assumption
<1>5. \A f \in Families :
        Resources!Meet(f, n)' = Resources!Meet(f, n) \cap Resources!Allows(c.claim[f])
  BY <1>1, MeetExtends DEF Resources!IInv
\* A certificate that is not refused: what it holds, given by its claim.
<1>6. ASSUME result' = "running", parent' = [f \in Families |-> parent'[f]],
             \A f \in Families :
               /\ parent'[f] = Absent <=> c.claim[f] = Absent
               /\ parent'[f] # Absent =>
                    parent'[f] = Resources!Meet(f, n) \cap Resources!Allows(c.claim[f])
      PROVE  Resources!IInv'
  <2>1. \A f \in Families : parent'[f] # Absent => parent'[f] \in SUBSET Resource
    BY <1>6 DEF Resources!Meet
  <2>2. Resources!TypeOK'
    BY <1>2, <1>6, <2>1 DEF Resources!TypeOK, Resources!Assumption
  <2>3. Resources!ResolvedIsMeet'
    <3>1. \A f \in Families : c.claim[f] = Absent => Resources!Allows(c.claim[f]) = {}
      <4> SUFFICES ASSUME NEW f \in Families, c.claim[f] = Absent
                   PROVE  Resources!Allows(c.claim[f]) = {}
        OBVIOUS
      <4> QED  BY DEF Resources!Allows, Resources!Assumption
    <3>2. \A f \in Families :
            (IF parent'[f] = Absent THEN {} ELSE parent'[f]) = Resources!Meet(f, n)'
      BY <1>5, <1>6, <3>1
    <3> QED  BY <3>2 DEF Resources!ResolvedIsMeet, Resources!Held
  <2> QED
    BY <1>2, <1>6, <2>2, <2>3 DEF Resources!IInv, Resources!AbsentAsClaimed,
       Resources!RefusedForAClaim
<1>7. CASE c.reconsidered /\ parent' = Resources!Reconsidered(c) /\ result' = result
  <2> SUFFICES ASSUME NEW f \in Families
               PROVE  /\ parent'[f] = Absent <=> c.claim[f] = Absent
                      /\ parent'[f] # Absent =>
                           parent'[f] = Resources!Meet(f, n) \cap Resources!Allows(c.claim[f])
    BY <1>2, <1>6, <1>7 DEF Resources!Reconsidered
  <2>1. parent'[f] = IF c.claim[f] = Absent THEN Absent
                     ELSE IF parent[f] = Absent THEN {}
                     ELSE (IF c.claim[f] = Inherit THEN parent[f] ELSE c.claim[f])
                            \cap parent[f]
    BY <1>7 DEF Resources!Reconsidered, Resources!Strict
  <2>2. {} # Absent /\ \A S \in SUBSET Resource : S # Absent
    BY DEF Resources!Assumption
  <2>3. CASE c.claim[f] = Absent
    BY <2>1, <2>3
  <2>4. CASE c.claim[f] # Absent /\ parent[f] = Absent
    BY <1>3, <2>1, <2>2, <2>4
  <2>5. CASE c.claim[f] # Absent /\ parent[f] # Absent
    <3>1. parent'[f] = (IF c.claim[f] = Inherit THEN parent[f] ELSE c.claim[f]) \cap parent[f]
      BY <2>1, <2>5
    <3>2. parent[f] \subseteq Resource /\ parent[f] = Resources!Meet(f, n)
      BY <1>3, <2>5
    <3>3. parent'[f] = Resources!Meet(f, n) \cap Resources!Allows(c.claim[f])
      BY <2>5, <3>1, <3>2 DEF Resources!Allows
    <3> QED  BY <2>2, <2>5, <3>1, <3>2, <3>3
  <2> QED  BY <2>3, <2>4, <2>5
<1>8. CASE /\ ~c.reconsidered /\ Resources!Covered(c)
           /\ parent' = Resources!Strict(c) /\ result' = result
  <2> SUFFICES ASSUME NEW f \in Families
               PROVE  /\ parent'[f] = Absent <=> c.claim[f] = Absent
                      /\ parent'[f] # Absent =>
                           parent'[f] = Resources!Meet(f, n) \cap Resources!Allows(c.claim[f])
    BY <1>2, <1>6, <1>8 DEF Resources!Strict
  <2>1. parent'[f] = IF c.claim[f] = Inherit THEN parent[f] ELSE c.claim[f]
    BY <1>8 DEF Resources!Strict
  <2>2. c.claim[f] # Absent =>
          parent[f] # Absent /\ (c.claim[f] # Inherit => c.claim[f] \subseteq parent[f])
    BY <1>8 DEF Resources!Covered
  <2>3. CASE c.claim[f] = Absent
    BY <2>1, <2>3 DEF Resources!Assumption
  <2>4. CASE c.claim[f] # Absent
    <3>1. parent[f] \subseteq Resource /\ parent[f] = Resources!Meet(f, n)
      BY <1>3, <2>2, <2>4
    <3> QED  BY <2>1, <2>2, <2>4, <3>1 DEF Resources!Allows
  <2> QED  BY <2>3, <2>4
<1>9. CASE /\ ~c.reconsidered /\ ~Resources!Covered(c)
           /\ parent' = Resources!Nothing /\ result' = "refused"
  <2>1. Resources!TypeOK'
    BY <1>2, <1>9 DEF Resources!TypeOK, Resources!Nothing
  <2>2. PICK f \in Families :
          /\ c.claim[f] # Absent
          /\ parent[f] = Absent \/ (c.claim[f] # Inherit /\ ~(c.claim[f] \subseteq parent[f]))
    BY <1>9 DEF Resources!Covered
  <2>3. CASE parent[f] = Absent
    <3>1. path'[Len(path') - 1].claim[f] = Absent
      BY <1>2, <1>3, <2>3
    <3> QED
      BY <1>2, <1>9, <2>1, <2>2, <3>1 DEF Resources!IInv, Resources!AbsentAsClaimed,
         Resources!ResolvedIsMeet, Resources!RefusedForAClaim
  <2>4. CASE parent[f] # Absent
    <3>1. Resources!Meet(f, n) = parent[f] /\ c.claim[f] # Inherit
      BY <1>3, <2>2, <2>4
    <3>2. Resources!Allows(c.claim[f]) = c.claim[f] /\ c.claim[f] \subseteq Resource
      BY <1>4, <2>2, <3>1 DEF Resources!Allows
    <3>3. {x \in Resource : \A k \in 1 .. (Len(path') - 1) :
             x \in Resources!Allows(path'[k].claim[f])} = Resources!Meet(f, n)
      BY <1>2 DEF Resources!Meet
    <3>4. ~(Resources!Allows(c.claim[f]) \cap Resource
              \subseteq {x \in Resource : \A k \in 1 .. (Len(path') - 1) :
                           x \in Resources!Allows(path'[k].claim[f])})
      BY <2>2, <2>4, <3>1, <3>2, <3>3
    <3> QED
      BY <1>2, <1>9, <2>1, <3>1, <3>4 DEF Resources!IInv, Resources!AbsentAsClaimed,
         Resources!ResolvedIsMeet, Resources!RefusedForAClaim, Resources!Meet
  <2> QED  BY <2>3, <2>4
<1> QED  BY <1>1, <1>7, <1>8, <1>9

\* The invariant of the walk from the trust anchor down.
LEMMA ResourcesInit == ASSUME Resources!Assumption, Resources!Init PROVE Resources!IInv
BY DEF Resources!Assumption, Resources!Init, Resources!IInv, Resources!TypeOK,
   Resources!Nothing, Resources!AbsentAsClaimed, Resources!ResolvedIsMeet,
   Resources!RefusedForAClaim

LEMMA ResourcesStep ==
  ASSUME Resources!Assumption, Resources!IInv, [Resources!Next]_(Resources!vars) PROVE Resources!IInv'
<1>1. CASE Resources!End
  BY <1>1 DEF Resources!End, Resources!IInv, Resources!TypeOK, Resources!AbsentAsClaimed,
     Resources!ResolvedIsMeet, Resources!RefusedForAClaim, Resources!Held, Resources!Meet
<1>2. CASE UNCHANGED Resources!vars
  BY <1>2 DEF Resources!vars, Resources!IInv, Resources!TypeOK, Resources!AbsentAsClaimed,
     Resources!ResolvedIsMeet, Resources!RefusedForAClaim, Resources!Held, Resources!Meet
<1> QED  BY <1>1, <1>2, ReadAnchorStep, ReadCertificateStep DEF Resources!Next

-----------------------------------------------------------------------------
(* Paths and proofs of retirement                                          *)

\* What the type invariant says of an issuer's publications.
LEMMA LogTyped ==
  ASSUME Paths!Assumption, Paths!TypeOK, NEW i \in Paths!Issuers
  PROVE  /\ log[i] \in Seq(Paths!Publication) /\ Len(log[i]) \in 1 .. MaxPubs
         /\ DOMAIN log[i] = 1 .. Len(log[i])
         /\ \A k \in 1 .. Len(log[i]) :
              /\ log[i][k] \in Paths!Publication
              /\ log[i][k].time \in Nat /\ log[i][k].time <= MaxClock
              /\ log[i][k].child \in Paths!Serial \cup {None} /\ log[i][k].crl \subseteq Paths!Serial
         /\ Paths!Given(i) \subseteq Paths!Serial
<1>1. log[i] \in Seq(Paths!Publication) /\ Len(log[i]) \in 1 .. MaxPubs
  BY DEF Paths!TypeOK, Paths!Serial
<1>2. DOMAIN log[i] = 1 .. Len(log[i])
  BY <1>1
<1>3. \A k \in 1 .. Len(log[i]) : log[i][k] \in Paths!Publication
  BY <1>1
<1>4. \A k \in 1 .. Len(log[i]) :
        /\ log[i][k].time \in Nat /\ log[i][k].time <= MaxClock
        /\ log[i][k].child \in Paths!Serial \cup {None} /\ log[i][k].crl \subseteq Paths!Serial
  BY <1>3 DEF Paths!Assumption, Paths!Publication
<1>5. Paths!Given(i) \subseteq Paths!Serial
  BY <1>2, <1>4 DEF Paths!Given
<1> QED  BY <1>1, <1>2, <1>3, <1>4, <1>5

\* ... and of a running call.
LEMMA CallTyped ==
  ASSUME Paths!Assumption, Paths!TypeOK, NEW c \in Callers, call[c] # None
  PROVE  /\ call[c] \in Paths!Call /\ call[c].op \in Paths!Workflows /\ call[c].path \in Paths!Path
         /\ call[c].level \in 1 .. Depth /\ call[c].now \in 0 .. MaxClock
         /\ call[c].pubs \in [Paths!Issuers -> 0 .. MaxPubs]
         /\ call[c].at \in {"discover", "retrieve", "verify"}
BY DEF Paths!TypeOK, Paths!Call, Paths!Issuers

LEMMA OneIsIssuer == ASSUME Paths!Assumption PROVE 1 \in Paths!Issuers /\ 0 \in Paths!Below
BY DEF Paths!Assumption, Paths!Issuers, Paths!Below

\* A step of a call that accepts nothing: it puts d for the call.
LEMMA CallGoesOn ==
  ASSUME Paths!Assumption, Paths!IInv, NEW c \in Callers, NEW d \in Paths!Call \cup {None},
         call' = [call EXCEPT ![c] = d],
         d # None => Paths!Filled(d) /\ \A i \in Paths!Issuers : d.pubs[i] <= Len(log[i]),
         last' = None, UNCHANGED <<log, clock, mark, retired>>
  PROVE  Paths!IInv'
<1>1. \A e \in Callers : call'[e] = IF e = c THEN d ELSE call[e]
  BY DEF Paths!IInv, Paths!TypeOK
<1>2. log' = log /\ clock' = clock /\ mark' = mark /\ retired' = retired
  OBVIOUS
<1>3. \A i \in Paths!Issuers, e \in Callers : call'[e] # None => call'[e].pubs[i] <= Len(log[i])
  BY <1>1 DEF Paths!IInv, Paths!TypeOK
<1>4. Paths!TypeOK'
  BY <1>2, <1>3 DEF Paths!IInv, Paths!TypeOK
<1>5. Paths!CallInv'
  BY <1>1, <1>2 DEF Paths!IInv, Paths!CallInv, Paths!Filled
<1> QED
  BY <1>2, <1>4, <1>5 DEF Paths!IInv, Paths!LogInv, Paths!RetiredInv, Paths!NoneLongRevoked

LEMMA StartStep ==
  ASSUME Paths!Assumption, Paths!NoneAssumption, Paths!IInv, NEW c \in Callers,
         Paths!Start(c) PROVE Paths!IInv'
<1>1. PICK op \in Paths!Workflows, p \in Paths!Path :
        /\ p[0] \in Paths!Given(1)
        /\ \A i \in Paths!Below \ {0} : IF op = "discover" THEN p[i] = None ELSE p[i] \in Paths!Given(i + 1)
        /\ call' = [call EXCEPT ![c] = Paths!NewCall(op, p)]
  BY DEF Paths!Start
<1>2. /\ last' = None /\ UNCHANGED <<log, clock, mark, retired>> /\ clock \in 0 .. MaxClock
      /\ \A i \in Paths!Issuers : Len(log[i]) >= 0
  BY LogTyped DEF Paths!Start, Paths!IInv, Paths!TypeOK
<1>3. Paths!NewCall(op, p) \in Paths!Call
  BY <1>2, OneIsIssuer DEF Paths!NewCall, Paths!Call, Paths!Assumption
<1>4. \A i \in Paths!Issuers : Paths!Given(i) \subseteq Paths!Serial /\ None \notin Paths!Serial
  BY LogTyped DEF Paths!IInv, Paths!Assumption, Paths!Serial
<1>5. p[0] # None /\ (op # "discover" \/ Depth = 1 => \A i \in Paths!Below : p[i] # None)
  BY <1>1, <1>4, OneIsIssuer DEF Paths!Below, Paths!Issuers, Paths!Assumption
<1>6. Paths!Filled(Paths!NewCall(op, p))
  BY <1>2, <1>5 DEF Paths!NewCall, Paths!Filled, Paths!Below, Paths!Issuers, Paths!Assumption
<1>7. \A i \in Paths!Issuers : Paths!NewCall(op, p).pubs[i] <= Len(log[i])
  BY <1>2 DEF Paths!NewCall
<1> QED  BY <1>1, <1>2, <1>3, <1>6, <1>7, CallGoesOn

LEMMA FailStep ==
  ASSUME Paths!Assumption, Paths!NoneAssumption, Paths!IInv, NEW c \in Callers,
         Paths!Fail(c) PROVE Paths!IInv'
BY CallGoesOn DEF Paths!Fail

\* A repository shows what was published.
LEMMA Polled ==
  ASSUME Paths!Assumption, Paths!IInv, NEW i \in Paths!Issuers, NEW k \in Paths!Refreshed(i)
  PROVE  k \in 1 .. Len(log[i]) /\ k \in 1 .. MaxPubs /\ k <= Len(log[i])
<1>1. Len(log[i]) \in 1 .. MaxPubs
  BY LogTyped DEF Paths!IInv
<1> QED  BY <1>1 DEF Paths!Refreshed, Paths!Assumption

LEMMA DiscoverStep ==
  ASSUME Paths!Assumption, Paths!NoneAssumption, Paths!IInv, NEW c \in Callers,
         Paths!Discover(c) PROVE Paths!IInv'
<1> DEFINE d == call[c]
           i == d.level + 1
<1>1. /\ d # None /\ d.at = "discover" /\ d.level < Depth
      /\ last' = None /\ UNCHANGED <<log, clock, mark, retired>>
  BY DEF Paths!Discover, Paths!At
<1>2. d \in Paths!Call /\ d.level \in 1 .. Depth /\ i \in Paths!Issuers /\ d.path \in Paths!Path /\ Paths!Filled(d)
  BY <1>1, CallTyped DEF Paths!IInv, Paths!CallInv, Paths!Issuers, Paths!Assumption
<1>3. PICK k \in Paths!Refreshed(i) :
        /\ log[i][k].child # None
        /\ call' = [call EXCEPT ![c] = Paths!WithIssuer(d, log[i][k].child)]
  BY DEF Paths!Discover
<1> DEFINE cert == log[i][k].child
           e == Paths!WithIssuer(d, cert)
<1>4. cert \in Paths!Serial
  BY <1>2, <1>3, Polled, LogTyped DEF Paths!IInv
<1>5. d.level \in Paths!Below /\ Paths!Below \subseteq Int
  BY <1>1, <1>2 DEF Paths!Below, Paths!Assumption
<1>6. /\ e.path = [d.path EXCEPT ![d.level] = cert] /\ e.path \in Paths!Path
      /\ e.pubs = d.pubs /\ e.now = d.now
      /\ \/ e.at = "discover" /\ e.level = d.level + 1 /\ d.level + 1 < Depth
         \/ e.at = "retrieve" /\ e.level = 1 /\ d.level + 1 >= Depth
      /\ e \in Paths!Call
  <2> DEFINE found == [d EXCEPT !.path[d.level] = cert]
  <2>1. [d.path EXCEPT ![d.level] = cert] \in Paths!Path
    BY <1>2, <1>4, <1>5 DEF Paths!Path
  <2>2. found = [d EXCEPT !.path = [d.path EXCEPT ![d.level] = cert]]
    BY <1>2 DEF Paths!Call
  <2>3. found \in Paths!Call /\ found.path = [d.path EXCEPT ![d.level] = cert]
        /\ found.pubs = d.pubs /\ found.now = d.now /\ found.at = d.at /\ found.level = d.level
    BY <1>2, <2>1, <2>2 DEF Paths!Call
  <2>4. e = IF d.level + 1 < Depth THEN [found EXCEPT !.level = d.level + 1]
            ELSE [found EXCEPT !.at = "retrieve", !.level = 1]
    BY <2>3 DEF Paths!WithIssuer
  <2> HIDE DEF found, e
  <2>5. CASE d.level + 1 < Depth
    <3>1. e = [found EXCEPT !.level = d.level + 1] /\ d.level + 1 \in Paths!Issuers
      BY <1>2, <2>4, <2>5
    <3>2. e \in Paths!Call /\ e.path = found.path /\ e.pubs = found.pubs /\ e.now = found.now
          /\ e.at = found.at /\ e.level = d.level + 1
      BY <2>3, <3>1 DEF Paths!Call
    <3> QED  BY <1>1, <2>1, <2>3, <2>5, <3>2
  <2>6. CASE ~(d.level + 1 < Depth)
    <3>1. e = [found EXCEPT !.at = "retrieve", !.level = 1]
      BY <2>4, <2>6
    <3>2. e \in Paths!Call /\ e.path = found.path /\ e.pubs = found.pubs /\ e.now = found.now
          /\ e.at = "retrieve" /\ e.level = 1
      BY <2>3, <3>1, OneIsIssuer DEF Paths!Call
    <3>3. d.level + 1 >= Depth
      BY <1>2, <2>6 DEF Paths!Assumption
    <3> QED  BY <2>1, <2>3, <3>2, <3>3
  <2> QED  BY <2>5, <2>6
<1>7. \A j \in Paths!Below : j <= d.level => e.path[j] # None
  <2>1. \A j \in Paths!Below : j < d.level => d.path[j] # None
    BY <1>2, <1>3 DEF Paths!Filled
  <2>2. d.path \in Paths!Path
    BY <1>2 DEF Paths!Call
  <2>3. cert # None /\ e.path = [d.path EXCEPT ![d.level] = cert]
    BY <1>3, <1>6
  <2>4. \A j \in Paths!Below : e.path[j] = IF j = d.level THEN cert ELSE d.path[j]
    BY <2>2, <2>3 DEF Paths!Path
  <2>5. \A j \in Paths!Below : j <= d.level => j < d.level \/ j = d.level
    BY <1>5
  <2> HIDE DEF d, e, cert
  <2> QED  BY <2>1, <2>3, <2>4, <2>5
<1>8. Paths!Filled(e)
  <2>1. e.path[0] # None /\ e.now <= clock
    <3>1. d.path[0] # None /\ d.now <= clock /\ 0 \in Paths!Below /\ 0 <= d.level
      BY <1>2, OneIsIssuer DEF Paths!Filled
    <3> HIDE DEF d, e
    <3> QED  BY <1>6, <1>7, <3>1
  <2>2. CASE e.at = "discover" /\ e.level = d.level + 1
    <3> HIDE DEF d, e
    <3>1. \A j \in Paths!Below : j < e.level => j <= d.level
      <4> SUFFICES ASSUME NEW j \in Paths!Below, j < e.level PROVE j <= d.level
        OBVIOUS
      <4>1. j \in Int /\ d.level \in Int
        BY <1>5
      <4> QED  BY <2>2, <4>1
    <3> QED  BY <1>7, <2>1, <2>2, <3>1 DEF Paths!Filled
  <2>3. CASE e.at = "retrieve" /\ e.level = 1 /\ d.level + 1 >= Depth
    <3> HIDE DEF d, e
    <3>1. \A j \in Paths!Below : j <= d.level
      BY <1>5, <2>3 DEF Paths!Below, Paths!Assumption
    <3>2. \A j \in Paths!Below : e.path[j] # None
      BY <1>7, <3>1
    <3> QED  BY <2>1, <2>3, <3>2 DEF Paths!Filled, Paths!Issuers
  <2> QED  BY <1>6, <2>2, <2>3
<1>9. \A j \in Paths!Issuers : e.pubs[j] <= Len(log[j])
  BY <1>1, <1>6 DEF Paths!IInv, Paths!TypeOK
<1> HIDE DEF d, e, cert, i
<1> QED  BY <1>1, <1>3, <1>6, <1>8, <1>9, CallGoesOn DEF e, cert, d

LEMMA RetrieveStep ==
  ASSUME Paths!Assumption, Paths!NoneAssumption, Paths!IInv, NEW c \in Callers,
         Paths!Retrieve(c) PROVE Paths!IInv'
<1> DEFINE d == call[c]
           i == d.level
<1>1. /\ d # None /\ d.at = "retrieve" /\ last' = None /\ UNCHANGED <<log, clock, mark, retired>>
  BY DEF Paths!Retrieve, Paths!At
<1>2. /\ d \in Paths!Call /\ i \in Paths!Issuers /\ d.path \in Paths!Path /\ Paths!Filled(d)
      /\ d.pubs \in [Paths!Issuers -> 0 .. MaxPubs] /\ Paths!Issuers = 1 .. Depth /\ Depth \in Nat \ {0}
  BY <1>1, CallTyped DEF Paths!IInv, Paths!CallInv, Paths!Issuers, Paths!Assumption
<1>3. PICK k \in Paths!Refreshed(i) : call' = [call EXCEPT ![c] = Paths!WithPublication(d, k)]
  BY DEF Paths!Retrieve
<1>4. k \in 1 .. MaxPubs /\ k <= Len(log[i])
  BY <1>2, <1>3, Polled
<1> DEFINE read == [d EXCEPT !.pubs[i] = k]
           e == Paths!WithPublication(d, k)
<1>5. /\ read \in Paths!Call /\ read.pubs = [d.pubs EXCEPT ![i] = k]
      /\ read.path = d.path /\ read.now = d.now /\ read.at = d.at /\ read.level = i
  <2>1. [d.pubs EXCEPT ![i] = k] \in [Paths!Issuers -> 0 .. MaxPubs]
    BY <1>2, <1>4
  <2>2. read = [d EXCEPT !.pubs = [d.pubs EXCEPT ![i] = k]]
    BY <1>2 DEF Paths!Call
  <2> QED  BY <1>2, <2>1, <2>2 DEF Paths!Call
<1>6. /\ e \in Paths!Call /\ e.pubs = read.pubs /\ e.path = d.path /\ e.now = d.now
      /\ \/ e.at = "retrieve" /\ e.level = i + 1 /\ i < Depth
         \/ e.at = "verify" /\ i = Depth
  <2>1. e = IF i < Depth THEN [read EXCEPT !.level = i + 1] ELSE [read EXCEPT !.at = "verify"]
    BY <1>5 DEF Paths!WithPublication
  <2> HIDE DEF read, e
  <2>2. CASE i < Depth
    <3>1. e = [read EXCEPT !.level = i + 1] /\ i + 1 \in Paths!Issuers
      BY <1>2, <2>1, <2>2
    <3>2. e \in Paths!Call /\ e.pubs = read.pubs /\ e.path = read.path /\ e.now = read.now
          /\ e.at = read.at /\ e.level = i + 1
      BY <1>5, <3>1 DEF Paths!Call
    <3> QED  BY <1>1, <1>5, <2>2, <3>2
  <2>3. CASE ~(i < Depth)
    <3>1. e = [read EXCEPT !.at = "verify"] /\ i = Depth
      BY <1>2, <2>1, <2>3
    <3>2. e \in Paths!Call /\ e.pubs = read.pubs /\ e.path = read.path /\ e.now = read.now
          /\ e.at = "verify"
      BY <1>5, <3>1 DEF Paths!Call
    <3> QED  BY <1>5, <3>1, <3>2
  <2> QED  BY <2>2, <2>3
<1>7. \A j \in Paths!Issuers : e.pubs[j] = IF j = i THEN k ELSE d.pubs[j]
  BY <1>2, <1>5, <1>6
<1>8. Paths!Filled(e)
  <2>1. \A j \in Paths!Issuers : j <= i => e.pubs[j] # 0
    <3> SUFFICES ASSUME NEW j \in Paths!Issuers, j <= i PROVE e.pubs[j] # 0
      OBVIOUS
    <3>1. j = i \/ j < i
      BY <1>2
    <3>2. j < i => d.pubs[j] # 0
      BY <1>1, <1>2 DEF Paths!Filled
    <3>3. k # 0
      BY <1>4
    <3> HIDE DEF e, d
    <3> QED  BY <1>7, <3>1, <3>2, <3>3
  <2>2. /\ e.path[0] # None /\ e.now <= clock /\ \A j \in Paths!Below : e.path[j] # None
    BY <1>1, <1>2, <1>6 DEF Paths!Filled
  <2> HIDE DEF e, d
  <2>3. e.at = "retrieve" => \A j \in Paths!Issuers : j < e.level => e.pubs[j] # 0
    BY <1>2, <1>6, <2>1
  <2>4. e.at = "verify" => \A j \in Paths!Issuers : e.pubs[j] # 0
    BY <1>2, <1>6, <2>1
  <2>5. e.at # "discover"
    BY <1>6
  <2> QED  BY <2>2, <2>3, <2>4, <2>5 DEF Paths!Filled
<1>9. \A j \in Paths!Issuers : e.pubs[j] <= Len(log[j])
  <2>1. \A j \in Paths!Issuers : d.pubs[j] <= Len(log[j])
    BY <1>1 DEF Paths!IInv, Paths!TypeOK
  <2> HIDE DEF e, d
  <2> QED  BY <1>4, <1>7, <2>1
<1> HIDE DEF d, e, i
<1> QED  BY <1>1, <1>3, <1>6, <1>8, <1>9, CallGoesOn DEF e, d

\* What a call that is about to be verified has retrieved.
LEMMA Retrieved ==
  ASSUME Paths!Assumption, Paths!IInv, NEW c \in Callers, Paths!At(c, "verify"),
         NEW i \in Paths!Issuers
  PROVE  call[c].pubs[i] \in 1 .. Len(log[i]) /\ call[c].pubs[i] \in 1 .. MaxPubs
<1>1. /\ call[c].pubs[i] \in 0 .. MaxPubs /\ call[c].pubs[i] # 0
      /\ call[c].pubs[i] <= Len(log[i]) /\ Len(log[i]) \in 1 .. MaxPubs
  BY CallTyped, LogTyped DEF Paths!At, Paths!IInv, Paths!TypeOK, Paths!CallInv, Paths!Filled
<1> QED  BY <1>1 DEF Paths!Assumption

\* The history moves on to what was verified, never back: every step that ends
\* a verified call, accepted or in vain.
LEMMA HistoryMoves ==
  ASSUME Paths!Assumption, Paths!NoneAssumption, Paths!IInv, NEW c \in Callers, Paths!At(c,
         "verify"), Paths!Authentic(c),
         mark' = Paths!Remembered(c), call' = [call EXCEPT ![c] = None], UNCHANGED <<log, clock>>
  PROVE  /\ \A i \in Paths!Issuers : mark[i] <= mark'[i] /\ mark'[i] = call[c].pubs[i]
         /\ mark' \in [Paths!Issuers -> 0 .. MaxPubs]
         /\ \A i \in Paths!Issuers : mark'[i] <= Len(log'[i])
         /\ Paths!LogInv' /\ Paths!CallInv'
         /\ (last' # None => last' \in Paths!Result /\ \A i \in Paths!Below : last'.path[i] # None)
              /\ retired' \subseteq Paths!Serial => Paths!TypeOK'
<1>1. mark' = call[c].pubs /\ mark' \in [Paths!Issuers -> 0 .. MaxPubs]
  BY CallTyped DEF Paths!Remembered, Paths!At, Paths!IInv
<1>2. \A i \in Paths!Issuers : mark[i] <= mark'[i] /\ mark'[i] <= Len(log'[i])
  BY <1>1, Retrieved, LogTyped DEF Paths!Authentic, Paths!NotBehind, Paths!IInv, Paths!TypeOK
<1>3. \A e \in Callers : call'[e] = IF e = c THEN None ELSE call[e]
  BY DEF Paths!IInv, Paths!TypeOK
<1>4. Paths!LogInv' /\ Paths!CallInv'
  BY <1>3 DEF Paths!IInv, Paths!LogInv, Paths!CallInv, Paths!Filled
<1>5. ASSUME last' # None => last' \in Paths!Result /\ \A i \in Paths!Below : last'.path[i] # None,
             retired' \subseteq Paths!Serial
      PROVE  Paths!TypeOK'
  <2>1. call' \in [Callers -> {None} \cup Paths!Call]
    BY DEF Paths!IInv, Paths!TypeOK
  <2>2. \A i \in Paths!Issuers, e \in Callers : call'[e] # None => call'[e].pubs[i] <= Len(log[i])
    BY <1>3 DEF Paths!IInv, Paths!TypeOK
  <2> QED  BY <1>1, <1>2, <1>5, <2>1, <2>2 DEF Paths!IInv, Paths!TypeOK
<1> QED  BY <1>1, <1>2, <1>4, <1>5

\* A retirement stays covered by the history as that moves on.
LEMMA RetiredKept ==
  ASSUME Paths!Assumption, Paths!IInv, mark' \in [Paths!Issuers -> 0 .. MaxPubs], log' = log,
         \A i \in Paths!Issuers : mark[i] <= mark'[i], NEW s \in retired
  PROVE  \E k \in 1 .. mark'[1] : s \in log'[1][k].crl /\ log'[1][k].child = None
<1>1. mark[1] \in Nat /\ mark'[1] \in Nat /\ mark[1] <= mark'[1]
  BY OneIsIssuer DEF Paths!IInv, Paths!TypeOK, Paths!Assumption
<1> QED  BY <1>1 DEF Paths!IInv, Paths!RetiredInv

LEMMA SavedInVainStep ==
  ASSUME Paths!Assumption, Paths!NoneAssumption, Paths!IInv, NEW c \in Callers,
         Paths!SavedInVain(c) PROVE Paths!IInv'
<1>1. /\ Paths!At(c, "verify") /\ Paths!Authentic(c) /\ mark' = Paths!Remembered(c) /\ last' = None
      /\ call' = [call EXCEPT ![c] = None] /\ UNCHANGED <<log, clock>> /\ retired' = retired
  BY DEF Paths!SavedInVain
<1>2. Paths!TypeOK' /\ Paths!LogInv' /\ Paths!CallInv'
  BY <1>1, HistoryMoves DEF Paths!IInv, Paths!TypeOK
<1>3. Paths!RetiredInv'
  BY <1>1, HistoryMoves, RetiredKept DEF Paths!RetiredInv
<1> QED  BY <1>1, <1>2, <1>3 DEF Paths!IInv, Paths!NoneLongRevoked

\* A path that is accepted: what its issuers' CRLs said a CRL's validity ago.
LEMMA NoneRevokedLongAgo ==
  ASSUME Paths!Assumption, Paths!NoneAssumption, Paths!IInv, NEW c \in Callers, Paths!Verify(c)
  PROVE  Paths!NoneLongRevoked'
<1> SUFFICES ASSUME last' # None, NEW i \in Paths!Issuers, NEW k \in 1 .. MaxPubs,
                    k <= Len(log'[i]), log'[i][k].time + Validity <= last'.time,
                    ~(last'.op = "retire" /\ i = 1)
             PROVE  last'.path[i - 1] \notin log'[i][k].crl
  BY DEF Paths!NoneLongRevoked
<1> DEFINE n == call[c].pubs[i]
<1>1. /\ Paths!At(c, "verify") /\ Paths!Authentic(c) /\ log' = log
      /\ last' = [op |-> call[c].op, path |-> call[c].path, time |-> Paths!Now(c)]
  BY DEF Paths!Verify
<1>2. n \in 1 .. Len(log[i]) /\ Paths!Used(c, i) = log[i][n] /\ k \in 1 .. Len(log[i])
  BY <1>1, Retrieved, LogTyped DEF Paths!Used, Paths!IInv
<1>3. Paths!Now(c) < log[i][n].time + Validity /\ call[c].path[i - 1] \notin log[i][n].crl
  BY <1>1, <1>2 DEF Paths!Authentic, Paths!Current, Paths!Unrevoked
<1>4. Paths!Now(c) \in Int
  BY <1>1, CallTyped DEF Paths!Now, Paths!At, Paths!IInv, Paths!TypeOK, Paths!Assumption
<1>5. log[i][k].time < log[i][n].time
  <2>1. log[i][k].time \in Nat /\ log[i][n].time \in Nat /\ Validity \in Nat
    BY <1>2, LogTyped DEF Paths!IInv, Paths!Assumption
  <2>2. log[i][k].time + Validity <= Paths!Now(c)
    BY <1>1
  <2> QED  BY <1>3, <1>4, <2>1, <2>2
<1>6. k <= n
  <2>1. n <= k => log[i][n].time <= log[i][k].time
    BY <1>2 DEF Paths!IInv, Paths!LogInv
  <2>2. log[i][k].time \in Nat /\ log[i][n].time \in Nat /\ k \in Int /\ n \in Int
    BY <1>2, LogTyped DEF Paths!IInv
  <2> QED  BY <1>5, <2>1, <2>2
<1>7. log[i][k].crl \subseteq log[i][n].crl
  BY <1>2, <1>6 DEF Paths!IInv, Paths!LogInv
<1> QED  BY <1>1, <1>3, <1>7

LEMMA VerifyStep ==
  ASSUME Paths!Assumption, Paths!NoneAssumption, Paths!IInv, NEW c \in Callers,
         Paths!Verify(c) PROVE Paths!IInv'
<1>1. /\ Paths!At(c, "verify") /\ Paths!Authentic(c) /\ mark' = Paths!Remembered(c)
      /\ call' = [call EXCEPT ![c] = None] /\ UNCHANGED <<log, clock>>
      /\ last' = [op |-> call[c].op, path |-> call[c].path, time |-> Paths!Now(c)]
      /\ retired' = retired \cup (IF call[c].op = "retire" THEN {call[c].path[0]} ELSE {})
  BY DEF Paths!Verify
<1>2. /\ call[c].op \in Paths!Workflows /\ call[c].path \in Paths!Path /\ Paths!Filled(call[c])
      /\ call[c].at = "verify" /\ call[c].now \in 0 .. MaxClock
  BY <1>1, CallTyped DEF Paths!At, Paths!IInv, Paths!CallInv
<1>3. /\ last' \in Paths!Result /\ \A i \in Paths!Below : last'.path[i] # None
  BY <1>1, <1>2 DEF Paths!Result, Paths!Now, Paths!Filled, Paths!IInv, Paths!TypeOK
<1>4. retired' \subseteq Paths!Serial
  BY <1>1, <1>2, OneIsIssuer DEF Paths!Path, Paths!Filled, Paths!IInv, Paths!TypeOK
<1>5. Paths!TypeOK' /\ Paths!LogInv' /\ Paths!CallInv'
  BY <1>1, <1>3, <1>4, HistoryMoves
<1>6. Paths!RetiredInv'
  <2> SUFFICES ASSUME NEW s \in retired'
               PROVE  \E k \in 1 .. mark'[1] : s \in log'[1][k].crl /\ log'[1][k].child = None
    BY DEF Paths!RetiredInv
  <2>1. CASE s \in retired
    BY <1>1, <2>1, HistoryMoves, RetiredKept
  <2>2. CASE s \notin retired
    <3>1. call[c].op = "retire" /\ s = call[c].path[0]
      BY <1>1, <2>2
    <3>2. Paths!Retired(c)
      BY <1>1, <3>1, OneIsIssuer DEF Paths!Authentic
    <3>3. mark'[1] = call[c].pubs[1] /\ call[c].pubs[1] \in 1 .. Len(log[1])
      BY <1>1, HistoryMoves, Retrieved, OneIsIssuer
    <3>4. call[c].pubs[1] \in 1 .. mark'[1]
      BY <3>3, OneIsIssuer, LogTyped DEF Paths!IInv
    <3> QED  BY <1>1, <3>1, <3>2, <3>3, <3>4 DEF Paths!Retired, Paths!Used
  <2> QED  BY <2>1, <2>2
<1> QED  BY <1>5, <1>6, NoneRevokedLongAgo DEF Paths!IInv

\* What was published stays as it was; what is new is newer, and takes no
\* revocation back.
LEMMA PublishStep ==
  ASSUME Paths!Assumption, Paths!NoneAssumption, Paths!IInv, NEW i \in Paths!Issuers,
         Paths!Publish(i) PROVE Paths!IInv'
<1> DEFINE n == Len(log[i])
           old == log[i][n]
<1>1. PICK child \in {old.child, n + 1, None}, revoked \in {{}, Paths!Given(i)} :
        log' = [log EXCEPT ![i] = Append(@, [time |-> clock, child |-> child,
                                             crl |-> old.crl \cup revoked])]
  BY DEF Paths!Publish
<1> DEFINE p == [time |-> clock, child |-> child, crl |-> old.crl \cup revoked]
<1>2. /\ n < MaxPubs /\ last' = None /\ UNCHANGED <<clock, mark, call, retired>>
  BY DEF Paths!Publish
<1>3. /\ n \in Nat /\ n >= 1 /\ old.child \in Paths!Serial \cup {None} /\ old.crl \subseteq Paths!Serial
      /\ revoked \subseteq Paths!Serial /\ n + 1 \in Paths!Serial /\ log[i] \in Seq(Paths!Publication)
      /\ clock \in 0 .. MaxClock /\ old.time <= clock /\ old.time \in Nat
  BY <1>1, <1>2, LogTyped DEF Paths!IInv, Paths!LogInv, Paths!Serial, Paths!TypeOK, Paths!Assumption
<1>4. p \in Paths!Publication
  BY <1>1, <1>3 DEF Paths!Publication
<1>5. log' = [log EXCEPT ![i] = Append(log[i],
   p)] /\ log \in [Paths!Issuers -> Seq(Paths!Publication)]
  BY <1>1 DEF Paths!IInv, Paths!TypeOK
<1> HIDE DEF p
<1>6. /\ log' \in [Paths!Issuers -> Seq(Paths!Publication)]
      /\ \A j \in Paths!Issuers : Len(log'[j]) = IF j = i THEN n + 1 ELSE Len(log[j])
      /\ \A j \in Paths!Issuers : \A k \in 1 .. Len(log[j]) : log'[j][k] = log[j][k]
      /\ log'[i][n + 1] = p
  BY <1>3, <1>4, <1>5
<1>7. \A j \in Paths!Issuers : Len(log'[j]) \in Paths!Serial /\ Len(log[j]) \in 1 .. MaxPubs
                           /\ Len(log[j]) <= Len(log'[j])
  BY <1>3, <1>6, LogTyped DEF Paths!IInv, Paths!Serial
<1>8. Paths!TypeOK'
  <2>1. \A j \in Paths!Issuers :
          /\ mark[j] <= Len(log'[j])
          /\ \A c \in Callers : call[c] # None => call[c].pubs[j] <= Len(log'[j])
    <3> SUFFICES ASSUME NEW j \in Paths!Issuers
                 PROVE  /\ mark[j] <= Len(log'[j])
                        /\ \A c \in Callers : call[c] # None => call[c].pubs[j] <= Len(log'[j])
      OBVIOUS
    <3>1. mark[j] \in 0 .. MaxPubs /\ mark[j] <= Len(log[j])
      BY DEF Paths!IInv, Paths!TypeOK
    <3>2. \A c \in Callers : call[c] # None =>
            call[c].pubs[j] \in 0 .. MaxPubs /\ call[c].pubs[j] <= Len(log[j])
      BY CallTyped DEF Paths!IInv, Paths!TypeOK
    <3>3. \A x \in 0 .. MaxPubs : x <= Len(log[j]) => x <= Len(log'[j])
      BY <1>7 DEF Paths!Serial
    <3> QED  BY <3>1, <3>2, <3>3
  <2> QED  BY <1>2, <1>6, <1>7, <2>1 DEF Paths!IInv, Paths!TypeOK
<1>9. Paths!LogInv'
  <2> SUFFICES ASSUME NEW j \in Paths!Issuers, NEW k \in 1 .. Len(log'[j]),
     NEW m \in 1 .. Len(log'[j])
               PROVE  /\ log'[j][k].time <= clock
                      /\ k <= m => /\ log'[j][k].time <= log'[j][m].time
                                   /\ log'[j][k].crl \subseteq log'[j][m].crl
    BY <1>2 DEF Paths!LogInv
  <2>1. CASE k \in 1 .. Len(log[j]) /\ m \in 1 .. Len(log[j])
    BY <1>6, <2>1 DEF Paths!IInv, Paths!LogInv
  <2>2. CASE j = i /\ k \in 1 .. n /\ m = n + 1
    <3>1. /\ log[i][k].time <= clock /\ log[i][k].crl \subseteq old.crl
      BY <1>3, <2>2 DEF Paths!IInv, Paths!LogInv
    <3>2. log'[j][k] = log[i][k] /\ log'[j][m].time = clock /\ old.crl \subseteq log'[j][m].crl
      BY <1>6, <2>2 DEF p
    <3> QED  BY <3>1, <3>2
  <2>3. CASE j = i /\ k = n + 1
    <3>1. log'[j][k].time = clock
      BY <1>6, <2>3 DEF p
    <3>2. k <= m => m = k
      BY <1>3, <1>6, <2>3
    <3>3. clock <= clock
      BY <1>3
    <3> QED  BY <3>1, <3>2, <3>3
  <2>4. j # i => Len(log'[j]) = Len(log[j])
    BY <1>6
  <2>5. CASE j = i /\ k \in 1 .. n /\ m \in 1 .. n
    BY <2>1, <2>5
  <2>6. CASE j # i
    BY <2>1, <2>4, <2>6
  <2>7. CASE j = i
    <3>1. k \in 1 .. n + 1 /\ m \in 1 .. n + 1
      BY <1>6, <2>7
    <3>2. k = n + 1 \/ (k \in 1 .. n /\ (m = n + 1 \/ m \in 1 .. n))
      BY <1>3, <3>1
    <3> QED  BY <2>2, <2>3, <2>5, <2>7, <3>2
  <2> QED  BY <2>6, <2>7
<1>10. Paths!CallInv'
  BY <1>2 DEF Paths!IInv, Paths!CallInv, Paths!Filled
<1>11. Paths!RetiredInv'
  <2> SUFFICES ASSUME NEW s \in retired
               PROVE  \E k \in 1 .. mark[1] : s \in log'[1][k].crl /\ log'[1][k].child = None
    BY <1>2 DEF Paths!RetiredInv
  <2>1. PICK k \in 1 .. mark[1] : s \in log[1][k].crl /\ log[1][k].child = None
    BY DEF Paths!IInv, Paths!RetiredInv
  <2>2. mark[1] \in 0 .. MaxPubs /\ mark[1] <= Len(log[1]) /\ Len(log[1]) \in Nat
    BY OneIsIssuer, LogTyped DEF Paths!IInv, Paths!TypeOK
  <2>3. k \in 1 .. Len(log[1])
    BY <2>2
  <2> QED  BY <1>6, <2>1, <2>3, OneIsIssuer
<1> QED  BY <1>2, <1>8, <1>9, <1>10, <1>11 DEF Paths!IInv, Paths!NoneLongRevoked

LEMMA TickStep == ASSUME Paths!Assumption, Paths!NoneAssumption, Paths!IInv,
   Paths!Tick PROVE Paths!IInv'
<1>1. /\ clock < MaxClock /\ clock' = clock + 1 /\ last' = None
      /\ UNCHANGED <<log, mark, call, retired>> /\ clock \in 0 .. MaxClock
  BY DEF Paths!Tick, Paths!IInv, Paths!TypeOK
<1>2. clock' \in 0 .. MaxClock /\ \A t \in Int : t <= clock => t <= clock'
  BY <1>1 DEF Paths!Assumption
<1>3. Paths!TypeOK'
  BY <1>1, <1>2 DEF Paths!IInv, Paths!TypeOK
<1>4. Paths!LogInv'
  <2>1. \A i \in Paths!Issuers : \A k \in 1 .. Len(log[i]) : log[i][k].time \in Int
    BY LogTyped DEF Paths!IInv
  <2> QED  BY <1>1, <1>2, <2>1 DEF Paths!IInv, Paths!LogInv
<1>5. Paths!CallInv'
  <2>1. \A c \in Callers : call[c] # None => call[c].now \in Int
    BY CallTyped DEF Paths!IInv
  <2> QED  BY <1>1, <1>2, <2>1 DEF Paths!IInv, Paths!CallInv, Paths!Filled
<1> QED  BY <1>1, <1>3, <1>4, <1>5 DEF Paths!IInv, Paths!RetiredInv, Paths!NoneLongRevoked

LEMMA PathsInit == ASSUME Paths!Assumption, Paths!NoneAssumption, Paths!Init PROVE Paths!IInv
<1>1. PICK p \in Paths!First : log = [i \in Paths!Issuers |-> <<p>>]
  BY DEF Paths!Init
<1>2. /\ p \in Paths!Publication /\ p.time = 0
  BY <1>1 DEF Paths!First, Paths!Publication, Paths!Serial, Paths!Assumption
<1>3. /\ log \in [Paths!Issuers -> Seq(Paths!Publication)]
      /\ \A i \in Paths!Issuers : Len(log[i]) = 1 /\ log[i][1] = p
  BY <1>1, <1>2
<1>4. Paths!TypeOK
  <2>1. /\ mark = [i \in Paths!Issuers |-> 0]
        /\ call = [c \in Callers |-> None] /\ clock = 0 /\ last = None /\ retired = {}
    BY DEF Paths!Init
  <2>2. 0 \in 0 .. MaxPubs /\ 0 \in 0 .. MaxClock /\ 1 \in Paths!Serial
    BY DEF Paths!Assumption, Paths!Serial
  <2>3. /\ mark \in [Paths!Issuers -> 0 .. MaxPubs]
        /\ call \in [Callers -> {None} \cup Paths!Call]
    BY <2>1, <2>2
  <2>4. \A i \in Paths!Issuers :
          /\ Len(log[i]) \in Paths!Serial /\ mark[i] <= Len(log[i])
          /\ \A c \in Callers : call[c] # None => call[c].pubs[i] <= Len(log[i])
    <3> SUFFICES ASSUME NEW i \in Paths!Issuers
                 PROVE  /\ Len(log[i]) \in Paths!Serial /\ mark[i] <= Len(log[i])
                        /\ \A c \in Callers : call[c] # None => call[c].pubs[i] <= Len(log[i])
      OBVIOUS
    <3>1. mark[i] = 0 /\ Len(log[i]) = 1 /\ \A c \in Callers : call[c] = None
      BY <1>3, <2>1
    <3> QED  BY <2>2, <3>1
  <2> QED  BY <1>3, <2>1, <2>2, <2>3, <2>4 DEF Paths!TypeOK
<1>5. Paths!LogInv
  BY <1>2, <1>3 DEF Paths!Init, Paths!LogInv
<1> QED  BY <1>4, <1>5 DEF Paths!Init, Paths!IInv, Paths!CallInv, Paths!RetiredInv,
   Paths!NoneLongRevoked

LEMMA PathsStep ==
  ASSUME Paths!Assumption, Paths!NoneAssumption, Paths!IInv, [Paths!Next]_(Paths!vars) PROVE Paths!IInv'
<1>1. CASE UNCHANGED Paths!vars
  BY <1>1 DEF Paths!vars, Paths!IInv, Paths!TypeOK, Paths!LogInv, Paths!CallInv, Paths!Filled,
     Paths!RetiredInv, Paths!NoneLongRevoked
<1>2. CASE \E c \in Callers : Paths!CallStep(c)
  BY <1>2, StartStep, DiscoverStep, RetrieveStep, VerifyStep, FailStep, SavedInVainStep
     DEF Paths!CallStep
<1> QED  BY <1>1, <1>2, PublishStep, TickStep DEF Paths!Next

\* A retired certificate was revoked and withdrawn, ...
LEMMA RetiredIsRevoked ==
  ASSUME Paths!Assumption, Paths!IInv PROVE Paths!RetirementIsReal
<1> SUFFICES ASSUME NEW s \in retired
             PROVE  \E k \in DOMAIN log[1] : s \in log[1][k].crl /\ log[1][k].child = None
  BY DEF Paths!RetirementIsReal
<1>1. PICK k \in 1 .. mark[1] : s \in log[1][k].crl /\ log[1][k].child = None
  BY DEF Paths!IInv, Paths!RetiredInv
<1>2. mark[1] \in 0 .. MaxPubs /\ mark[1] <= Len(log[1]) /\ Len(log[1]) \in Nat /\ DOMAIN log[1] = 1 .. Len(log[1])
  BY OneIsIssuer, LogTyped DEF Paths!IInv, Paths!TypeOK
<1> QED  BY <1>1, <1>2

\* ... and a path that is accepted has none: its publications are as new as the
\* history, which has seen the revocation.
LEMMA RetiredIsRefused ==
  ASSUME Paths!Assumption, Paths!IInv, Paths!Next PROVE Paths!RetirementIsFinal
<1> SUFFICES ASSUME last' # None, last'.op # "retire", last'.path[0] \in retired PROVE FALSE
  BY DEF Paths!RetirementIsFinal
<1>1. PICK c \in Callers : Paths!Verify(c)
  BY DEF Paths!Next, Paths!CallStep, Paths!Start, Paths!Discover, Paths!Retrieve, Paths!Fail,
     Paths!SavedInVain, Paths!Publish, Paths!Tick
<1> DEFINE s == call[c].path[0]
           n == call[c].pubs[1]
<1>2. /\ Paths!At(c, "verify") /\ Paths!Authentic(c) /\ call[c].op # "retire" /\ s \in retired
  BY <1>1 DEF Paths!Verify
<1>3. PICK k \in 1 .. mark[1] : s \in log[1][k].crl
  BY <1>2 DEF Paths!IInv, Paths!RetiredInv
<1>4. n >= mark[1] /\ s \notin log[1][n].crl
  BY <1>2, OneIsIssuer DEF Paths!Authentic, Paths!NotBehind, Paths!Unrevoked, Paths!Used
<1>5. n \in 1 .. Len(log[1]) /\ Len(log[1]) \in Nat /\ mark[1] \in 0 .. MaxPubs
  BY <1>2, OneIsIssuer, Retrieved, LogTyped DEF Paths!IInv, Paths!TypeOK
<1>6. k \in 1 .. Len(log[1]) /\ k <= n
  BY <1>4, <1>5
<1> QED  BY <1>3, <1>4, <1>5, <1>6, OneIsIssuer DEF Paths!IInv, Paths!LogInv
-----------------------------------------------------------------------------
(* Numbers.  The library's induction takes an operator; that every         *)
(* nonempty set of natural numbers has a least element does as well.       *)

\* Every nonempty set of natural numbers has a least element.
LEMMA LeastNumber ==
  ASSUME NEW T \in SUBSET Nat, T # {}
  PROVE  \E x \in T : \A y \in T : x <= y
<1> DEFINE R == OpToRel(<, Nat)
<1>1. \E x \in T : \A y \in T : <<y, x>> \notin R
  <2> HIDE DEF R
  <2>1. IsWellFoundedOn(R, Nat)
    BY NatLessThanWellFounded DEF R
  <2> QED  BY <2>1, WFMin
<1>2. \A x \in Nat, y \in Nat : <<y, x>> \notin R => x <= y
  BY DEF OpToRel
<1> HIDE DEF R
<1> QED  BY <1>1, <1>2

\* What holds of 0 and of every successor up to n holds up to n.
LEMMA UpTo ==
  ASSUME NEW n \in Nat, NEW T \in SUBSET (0 .. n), 0 \in T, \A k \in T : k < n => k + 1 \in T
  PROVE  T = 0 .. n
<1> SUFFICES ASSUME (0 .. n) \ T # {} PROVE FALSE
  OBVIOUS
<1>1. PICK k \in (0 .. n) \ T : \A m \in (0 .. n) \ T : k <= m
  <2>1. (0 .. n) \ T \in SUBSET Nat
    OBVIOUS
  <2> QED  BY <2>1, LeastNumber
<1>2. k # 0 /\ k - 1 \in 0 .. n /\ k - 1 \in T
  BY <1>1
<1> QED  BY <1>1, <1>2

\* g holds the powers of 2 up to n.
PowersTo(n, g) == g = [k \in 0 .. n |-> IF k = 0 THEN 1 ELSE 2 * g[k - 1]]
\* The powers of 2 are defined: for every n there is a function on 0 .. n.
LEMMA PowerDefined ==
  ASSUME Bits \in Nat
  PROVE  \A k \in 0 .. Bits : Parsing!Power[k] = IF k = 0 THEN 1 ELSE 2 * Parsing!Power[k - 1]
<1> DEFINE T == {n \in 0 .. Bits : \E g : PowersTo(n, g)}
<1>1. 0 \in T
  <2>1. PICK g : g = [k \in 0 .. 0 |-> 1]
    OBVIOUS
  <2>2. PowersTo(0, g)
    BY <2>1 DEF PowersTo
  <2> QED  BY <2>2
<1>2. ASSUME NEW n \in T, n < Bits PROVE n + 1 \in T
  <2>1. PICK g : PowersTo(n, g)
    OBVIOUS
  <2>2. PICK h : h = [k \in 0 .. n + 1 |-> IF k = n + 1 THEN 2 * g[n] ELSE g[k]]
    OBVIOUS
  <2>3. \A k \in 0 .. n + 1 : h[k] = IF k = 0 THEN 1 ELSE 2 * h[k - 1]
    BY <2>1, <2>2 DEF PowersTo
  <2>4. PowersTo(n + 1, h)
    BY <2>2, <2>3 DEF PowersTo
  <2> QED  BY <1>2, <2>4
<1>3. Bits \in T
  <2> HIDE DEF T
  <2>1. T \in SUBSET (0 .. Bits)
    BY DEF T
  <2> QED  BY <1>1, <1>2, <2>1, UpTo
<1>4. PICK g : g = [k \in 0 .. Bits |-> IF k = 0 THEN 1 ELSE 2 * g[k - 1]]
  BY <1>3 DEF PowersTo
<1>5. Parsing!Power = [k \in 0 .. Bits |-> IF k = 0 THEN 1 ELSE 2 * Parsing!Power[k - 1]]
  BY <1>4 DEF Parsing!Power
<1> QED  BY <1>5

\* A power is twice the one before, and never 0.
LEMMA PowerStep ==
  ASSUME Parsing!Assumption
  PROVE  /\ Parsing!Power[0] = 1
         /\ \A k \in 0 .. Bits : k < Bits => Parsing!Power[k + 1] = 2 * Parsing!Power[k]
         /\ \A k \in 0 .. Bits : Parsing!Power[k] \in Nat /\ Parsing!Power[k] >= 1
<1>1. Parsing!Power[0] = 1 /\ \A k \in 0 .. Bits : k < Bits => Parsing!Power[k + 1] = 2 * Parsing!Power[k]
  BY PowerDefined DEF Parsing!Assumption
<1> DEFINE T == {k \in 0 .. Bits : Parsing!Power[k] \in Nat /\ Parsing!Power[k] >= 1}
<1>2. 0 \in T
  BY <1>1 DEF Parsing!Assumption
<1>3. ASSUME NEW k \in T, k < Bits PROVE k + 1 \in T
  BY <1>1, <1>3 DEF Parsing!Assumption
<1>4. T = 0 .. Bits
  <2> HIDE DEF T
  <2>1. T \in SUBSET (0 .. Bits) /\ Bits \in Nat
    BY DEF T, Parsing!Assumption
  <2> QED  BY <1>2, <1>3, <2>1, UpTo
<1> QED  BY <1>1, <1>4

\* Powers multiply as their exponents add.
LEMMA PowerSum ==
  ASSUME Parsing!Assumption, NEW m \in Nat, NEW n \in Nat, m + n <= Bits
  PROVE  Parsing!Power[m + n] = Parsing!Power[m] * Parsing!Power[n]
<1> DEFINE T == {k \in 0 .. n : Parsing!Power[m + k] = Parsing!Power[m] * Parsing!Power[k]}
<1>1. Bits \in Nat
  BY DEF Parsing!Assumption
<1>2. 0 \in T
  BY <1>1, PowerStep
<1>3. ASSUME NEW k \in T, k < n PROVE k + 1 \in T
  <2>1. Parsing!Power[m + k] = Parsing!Power[m] * Parsing!Power[k] /\ k \in Nat /\ m + k < Bits
    BY <1>1, <1>3
  <2>2. Parsing!Power[(m + k) + 1] = 2 * Parsing!Power[m + k] /\ Parsing!Power[k + 1] = 2 * Parsing!Power[k]
    BY <1>1, <2>1, PowerStep
  <2>3. Parsing!Power[m] \in Nat /\ Parsing!Power[k] \in Nat
    BY <1>1, <2>1, PowerStep
  <2>4. 2 * (Parsing!Power[m] * Parsing!Power[k]) = Parsing!Power[m] * (2 * Parsing!Power[k])
    BY <2>3
  <2>5. Parsing!Power[m + (k + 1)] = Parsing!Power[m] * Parsing!Power[k + 1]
    BY <2>1, <2>2, <2>4
  <2> QED  BY <1>3, <2>1, <2>5
<1>4. T = 0 .. n
  <2> HIDE DEF T
  <2>1. T \in SUBSET (0 .. n)
    BY DEF T
  <2> QED  BY <1>2, <1>3, <2>1, UpTo
<1> QED  BY <1>4

\* A higher power is at least twice a lower one.
LEMMA PowerGrows ==
  ASSUME Parsing!Assumption, NEW m \in Nat, NEW n \in Nat, m < n, n <= Bits
  PROVE  /\ 2 * Parsing!Power[m] <= Parsing!Power[n]
         /\ Parsing!Power[n] = Parsing!Power[m] * (2 * Parsing!Power[n - m - 1])
         /\ Parsing!Power[n - m - 1] \in Nat /\ Parsing!Power[n - m - 1] >= 1
<1>1. Bits \in Nat
  BY DEF Parsing!Assumption
<1>2. Parsing!Power[n - m - 1] \in Nat /\ Parsing!Power[n - m - 1] >= 1 /\ Parsing!Power[m] \in Nat
      /\ Parsing!Power[m] >= 1
  BY <1>1, PowerStep
<1>3. Parsing!Power[n - m] = 2 * Parsing!Power[n - m - 1]
  <2>1. n - m - 1 \in 0 .. Bits /\ n - m - 1 < Bits /\ (n - m - 1) + 1 = n - m
    BY <1>1
  <2> QED  BY <2>1, PowerStep
<1>4. Parsing!Power[n] = Parsing!Power[m] * Parsing!Power[n - m]
  <2>1. n - m \in Nat /\ m + (n - m) = n
    OBVIOUS
  <2> QED  BY <2>1, PowerSum
<1>5. \A x, y \in Nat : x >= 1 /\ y >= 1 => 2 * x <= x * (2 * y)
  OBVIOUS
<1> QED  BY <1>2, <1>3, <1>4, <1>5
-----------------------------------------------------------------------------
(* Division *)

\* The quotient is the number of times that the divisor fits.
LEMMA Quotient ==
  ASSUME NEW n \in Nat, NEW m \in Nat, m > 0
  PROVE  /\ n \div m \in Nat /\ (n \div m) * m <= n /\ n < (n \div m) * m + m
         /\ \A q \in Nat : q * m <= n /\ n < q * m + m => q = n \div m
<1> DEFINE d == n \div m
<1>1. d \in Nat /\ d * m <= n /\ n < d * m + m
  OBVIOUS
<1>2. ASSUME NEW q \in Nat, q * m <= n, n < q * m + m PROVE q = d
  <2>1. CASE q < d
    <3>1. (q + 1) * m <= d * m
      BY <1>1, <2>1
    <3> QED  BY <1>1, <1>2, <3>1
  <2>2. CASE d < q
    <3>1. (d + 1) * m <= q * m
      BY <1>1, <2>2
    <3> QED  BY <1>1, <1>2, <3>1
  <2> HIDE DEF d
  <2> QED  BY <1>1, <2>1, <2>2
<1> QED  BY <1>1, <1>2

\* Dividing by a product is dividing twice.
LEMMA DividedTwice ==
  ASSUME NEW n \in Nat, NEW m \in Nat, NEW k \in Nat, m > 0, k > 0
  PROVE  n \div (m * k) = (n \div m) \div k
<1>1. PICK q \in Nat : q = n \div m /\ q * m <= n /\ n < q * m + m
  BY Quotient
<1>2. PICK p \in Nat : p = q \div k /\ p * k <= q /\ q < p * k + k
  BY Quotient
<1>3. m * k \in Nat /\ m * k > 0
  OBVIOUS
<1>4. p * (m * k) <= n
  <2>1. (p * k) * m <= q * m
    BY <1>2
  <2>2. (p * k) * m = p * (m * k)
    OBVIOUS
  <2> QED  BY <1>1, <1>3, <2>1, <2>2
<1>5. n < p * (m * k) + m * k
  <2>1. (q + 1) * m <= (p * k + k) * m
    BY <1>2
  <2>2. (p * k + k) * m = p * (m * k) + m * k
    OBVIOUS
  <2>3. (q + 1) * m = q * m + m
    OBVIOUS
  <2> QED  BY <1>1, <1>3, <2>1, <2>2, <2>3
<1>6. p = n \div (m * k)
  BY <1>3, <1>4, <1>5, Quotient
<1> QED  BY <1>1, <1>2, <1>6

\* What is below a multiple's unit does not count.
LEMMA QuotientOfSum ==
  ASSUME NEW v \in Nat, NEW m \in Nat, NEW r \in Nat, r < m
  PROVE  (v * m + r) \div m = v
<1>1. v * m + r \in Nat
  OBVIOUS
<1> QED  BY <1>1, Quotient

\* What the types of a bit string say, for the provers.
LEMMA BitStringTyped ==
  ASSUME Parsing!Assumption, NEW s \in Parsing!BitString
  PROVE  /\ s.len \in 0 .. Bits /\ s.len \in Nat /\ Bits - s.len \in 0 .. Bits /\ Bits - s.len \in Nat
         /\ s.value \in Nat /\ s.value < Parsing!Power[s.len]
         /\ s = [len |-> s.len, value |-> s.value]
         /\ Parsing!Power[s.len] \in Nat /\ Parsing!Power[Bits - s.len] \in Nat
            /\ Parsing!Power[Bits - s.len] >= 1
         /\ Parsing!Power[Bits] = Parsing!Power[s.len] * Parsing!Power[Bits - s.len]
<1>1. /\ s.len \in 0 .. Bits /\ s.value \in Parsing!Number /\ s.value < Parsing!Power[s.len]
      /\ s = [len |-> s.len, value |-> s.value]
  BY DEF Parsing!BitString
<1>2. Bits \in Nat /\ Parsing!Power[Bits] \in Nat
  BY PowerStep DEF Parsing!Assumption
<1>3. /\ s.len \in Nat /\ Bits - s.len \in 0 .. Bits /\ Bits - s.len \in Nat
      /\ s.len + (Bits - s.len) = Bits
  BY <1>1, <1>2
<1>4. Parsing!Power[Bits] = Parsing!Power[s.len] * Parsing!Power[Bits - s.len]
  BY <1>2, <1>3, PowerSum
<1>5. Parsing!Power[s.len] \in Nat /\ Parsing!Power[Bits - s.len] \in Nat
      /\ Parsing!Power[Bits - s.len] >= 1
  BY <1>1, <1>3, PowerStep
<1> QED  BY <1>1, <1>2, <1>3, <1>4, <1>5 DEF Parsing!Number, Parsing!Limit

\* Numbers are those below the power of all bits.
LEMMA NumberTyped ==
  ASSUME Parsing!Assumption
  PROVE  /\ Parsing!Limit \in Nat /\ Parsing!Limit + 1 = Parsing!Power[Bits] /\ Bits \in Nat
         /\ \A x : x \in Parsing!Number <=> x \in Nat /\ x < Parsing!Power[Bits]
<1>1. Bits \in Nat /\ Parsing!Power[Bits] \in Nat /\ Parsing!Power[Bits] >= 1
  BY PowerStep DEF Parsing!Assumption
<1> QED  BY <1>1 DEF Parsing!Limit, Parsing!Number

\* The addresses that start with given bits are numbers.
LEMMA AddressTyped ==
  ASSUME Parsing!Assumption, NEW s \in Parsing!BitString
  PROVE  /\ Parsing!Address(s, FALSE) = s.value * Parsing!Power[Bits - s.len]
         /\ Parsing!Address(s, TRUE) = s.value * Parsing!Power[Bits - s.len] + (Parsing!Power[Bits - s.len] - 1)
         /\ Parsing!Address(s, FALSE) \in Parsing!Number /\ Parsing!Address(s, TRUE) \in Parsing!Number
         /\ Parsing!Address(s, FALSE) <= Parsing!Address(s, TRUE)
<1>1. PICK v, c, d \in Nat : v = s.value /\ c = Parsing!Power[Bits - s.len] /\ d = Parsing!Power[s.len]
  BY BitStringTyped
<1>2. v < d /\ c >= 1 /\ Parsing!Power[Bits] = d * c
  BY <1>1, BitStringTyped
<1>3. v * c \in Nat /\ v * c + c <= d * c
  <2>1. (v + 1) * c <= d * c
    BY <1>2
  <2> QED  BY <2>1
<1>4. Parsing!Address(s, FALSE) = v * c /\ Parsing!Address(s, TRUE) = v * c + (c - 1)
  BY <1>1, <1>3 DEF Parsing!Address
<1>5. PICK x \in Nat : x = v * c
  BY <1>3
<1>6. x \in Parsing!Number /\ x + (c - 1) \in Parsing!Number /\ x <= x + (c - 1)
  BY <1>2, <1>3, <1>5, NumberTyped
<1> QED  BY <1>1, <1>4, <1>5, <1>6

\* The prefix of a text, cut from its address.
LEMMA PrefixTyped ==
  ASSUME Parsing!Assumption, NEW x \in Parsing!Number, NEW l \in 0 .. Bits
  PROVE  [len |-> l, value |-> x \div Parsing!Power[Bits - l]] \in Parsing!BitString
<1>1. /\ l \in Nat /\ Bits - l \in Nat /\ l + (Bits - l) = Bits /\ x \in Nat /\ x < Parsing!Power[Bits]
      /\ Bits - l \in 0 .. Bits
  BY NumberTyped
<1>2. PICK c, d \in Nat : c = Parsing!Power[Bits - l] /\ d = Parsing!Power[l] /\ c >= 1
  BY <1>1, PowerStep
<1>3. Parsing!Power[Bits] = d * c
  BY <1>1, <1>2, PowerSum
<1>4. PICK q \in Nat : q = x \div c /\ q * c <= x
  BY <1>1, <1>2, Quotient
<1>5. q < d
  <2> SUFFICES ASSUME d <= q PROVE FALSE
    OBVIOUS
  <2>1. d * c <= q * c
    OBVIOUS
  <2>2. d * c \in Nat /\ q * c \in Nat
    OBVIOUS
  <2> QED  BY <1>1, <1>3, <1>4, <2>1, <2>2
<1>6. q <= x
  <2>1. q <= q * c
    BY <1>2
  <2> QED  BY <1>1, <1>4, <2>1
<1>7. q \in Parsing!Number
  BY <1>1, <1>4, <1>6, NumberTyped
<1> QED  BY <1>2, <1>4, <1>5, <1>7 DEF Parsing!BitString

\* The forms of an item.
LEMMA ItemForms ==
  ASSUME syntax \in Parsing!Syntaxes, NEW e \in Parsing!Items
  PROVE  /\ e.form \in {"single", "range", "prefix"} /\ (e.form = "single" => e.lo = e.hi)
         /\ e.form = "prefix" => syntax = "IP text"
         /\ syntax = "AS" => e.lo \in -1 .. Parsing!Limit + 1 /\ e.hi \in -1 .. Parsing!Limit + 1
         /\ syntax = "IP" => e.lo \in Parsing!BitString /\ e.hi \in Parsing!BitString
         /\ syntax = "AS text" => e.lo \in 0 .. Parsing!Limit + 1 /\ e.hi \in 0 .. Parsing!Limit + 1
         /\ syntax = "IP text" =>
              e.lo \in Parsing!Number
              /\ (IF e.form = "prefix" THEN e.hi \in 0 .. Bits ELSE e.hi \in Parsing!Number)
         /\ e = [form |-> e.form, lo |-> e.lo, hi |-> e.hi]
<1>1. ASSUME NEW S, e \in Parsing!Singles(S) \cup Parsing!Item("range", S, S)
      PROVE  /\ e.form \in {"single", "range"} /\ (e.form = "single" => e.lo = e.hi)
             /\ e.lo \in S /\ e.hi \in S /\ e = [form |-> e.form, lo |-> e.lo, hi |-> e.hi]
  BY <1>1 DEF Parsing!Singles, Parsing!Item
<1>2. CASE syntax = "AS"
  <2>1. e \in Parsing!Singles(-1 .. Parsing!Limit + 1)
              \cup Parsing!Item("range", -1 .. Parsing!Limit + 1, -1 .. Parsing!Limit + 1)
    BY <1>2 DEF Parsing!Items
  <2> DEFINE S == -1 .. Parsing!Limit + 1
  <2>2. e \in Parsing!Singles(S) \cup Parsing!Item("range", S, S)
    BY <2>1
  <2> HIDE DEF S
  <2>3. /\ e.form \in {"single", "range"} /\ (e.form = "single" => e.lo = e.hi)
        /\ e.lo \in S /\ e.hi \in S /\ e = [form |-> e.form, lo |-> e.lo, hi |-> e.hi]
    BY <1>1, <2>2
  <2> QED  BY <1>2, <2>3 DEF S
<1>3. CASE syntax = "IP"
  <2>1. e \in Parsing!Singles(Parsing!BitString)
              \cup Parsing!Item("range", Parsing!BitString, Parsing!BitString)
    BY <1>3 DEF Parsing!Items
  <2> QED  BY <1>1, <1>3, <2>1
<1>4. CASE syntax = "AS text"
  <2>1. e \in Parsing!Singles(0 .. Parsing!Limit + 1)
              \cup Parsing!Item("range", 0 .. Parsing!Limit + 1, 0 .. Parsing!Limit + 1)
    BY <1>4 DEF Parsing!Items
  <2> DEFINE S == 0 .. Parsing!Limit + 1
  <2>2. e \in Parsing!Singles(S) \cup Parsing!Item("range", S, S)
    BY <2>1
  <2> HIDE DEF S
  <2>3. /\ e.form \in {"single", "range"} /\ (e.form = "single" => e.lo = e.hi)
        /\ e.lo \in S /\ e.hi \in S /\ e = [form |-> e.form, lo |-> e.lo, hi |-> e.hi]
    BY <1>1, <2>2
  <2> QED  BY <1>4, <2>3 DEF S
<1>5. CASE syntax = "IP text"
  <2>1. CASE e \in Parsing!Singles(Parsing!Number)
                   \cup Parsing!Item("range", Parsing!Number, Parsing!Number)
    BY <1>1, <1>5, <2>1
  <2>2. CASE e \in Parsing!Item("prefix", Parsing!Number, 0 .. Bits)
    BY <1>5, <2>2 DEF Parsing!Item
  <2> QED  BY <1>5, <2>1, <2>2 DEF Parsing!Items
<1> QED  BY <1>2, <1>3, <1>4, <1>5 DEF Parsing!Syntaxes, Parsing!DER

\* An item that is well formed names numbers.
LEMMA ItemTyped ==
  ASSUME Parsing!Assumption, syntax \in Parsing!Syntaxes, NEW e \in Parsing!Items, Parsing!WellFormed(e)
  PROVE  Parsing!Low(e) \in Parsing!Number /\ Parsing!High(e) \in Parsing!Number
         /\ Parsing!Low(e) <= Parsing!High(e)
<1>1. CASE syntax \in {"AS", "AS text"}
  <2>1. Parsing!Low(e) = e.lo /\ Parsing!High(e) = e.hi
    BY <1>1, ItemForms DEF Parsing!Low, Parsing!High
  <2>2. /\ e.lo \in Int /\ e.hi \in Int /\ e.form \in {"single", "range"}
        /\ e.form = "single" => e.lo = e.hi
    <3>1. \A x : x \in -1 .. Parsing!Limit + 1 \/ x \in 0 .. Parsing!Limit + 1 => x \in Int
      BY NumberTyped
    <3>2. /\ e.lo \in -1 .. Parsing!Limit + 1 \/ e.lo \in 0 .. Parsing!Limit + 1
          /\ e.hi \in -1 .. Parsing!Limit + 1 \/ e.hi \in 0 .. Parsing!Limit + 1
          /\ e.form \in {"single", "range"} /\ (e.form = "single" => e.lo = e.hi)
      BY <1>1, ItemForms
    <3> QED  BY <3>1, <3>2
  <2>3. Parsing!InRange(e) /\ (e.form = "range" => e.lo <= e.hi)
    <3>1. CASE syntax = "AS"
      BY <2>2, <3>1 DEF Parsing!WellFormed
    <3>2. CASE syntax = "AS text"
      BY <2>2, <3>2 DEF Parsing!WellFormed
    <3> QED  BY <1>1, <3>1, <3>2
  <2>4. /\ 0 <= e.lo /\ e.lo <= e.hi /\ e.hi <= Parsing!Limit
    BY <2>2, <2>3, NumberTyped DEF Parsing!InRange
  <2> QED  BY <2>1, <2>2, <2>4, NumberTyped
<1>2. CASE syntax = "IP"
  <2>1. e.lo \in Parsing!BitString /\ e.hi \in Parsing!BitString /\ (e.form = "single" => e.lo = e.hi)
        /\ e.form \in {"single", "range"}
    BY <1>2, ItemForms
  <2>2. Parsing!Low(e) = Parsing!Address(e.lo, FALSE) /\ Parsing!High(e) = Parsing!Address(e.hi, TRUE)
    <3>1. Parsing!Low(e) = Parsing!Address(e.lo, FALSE)
      BY <1>2 DEF Parsing!Low
    <3>2. Parsing!High(e) = Parsing!Address(e.hi, TRUE)
      BY <1>2, <2>1 DEF Parsing!High
    <3> QED  BY <3>1, <3>2
  <2>3. e.form = "range" => Parsing!Low(e) < Parsing!High(e)
    BY <1>2 DEF Parsing!WellFormed
  <2>4. Parsing!Low(e) \in Parsing!Number /\ Parsing!High(e) \in Parsing!Number
    BY <2>1, <2>2, AddressTyped
  <2>5. e.form = "single" => Parsing!Low(e) <= Parsing!High(e)
    BY <2>1, <2>2, AddressTyped
  <2> QED  BY <2>1, <2>3, <2>4, <2>5, NumberTyped
<1>3. CASE syntax = "IP text"
  <2>1. e.form # "single" /\ Parsing!Low(e) <= Parsing!High(e)
    BY <1>3 DEF Parsing!WellFormed
  <2>2. CASE e.form = "range" /\ e.lo \in Parsing!Number /\ e.hi \in Parsing!Number
    BY <1>3, <2>1, <2>2 DEF Parsing!Low, Parsing!High
  <2>3. CASE e.form = "prefix" /\ e.lo \in Parsing!Number /\ e.hi \in 0 .. Bits
    <3>1. Parsing!Prefix(e) \in Parsing!BitString
      BY <2>3, PrefixTyped DEF Parsing!Prefix
    <3>2. Parsing!Low(e) = e.lo /\ Parsing!High(e) = Parsing!Address(Parsing!Prefix(e), TRUE)
      BY <1>3, <2>3 DEF Parsing!Low, Parsing!High
    <3> QED  BY <2>1, <2>3, <3>1, <3>2, AddressTyped
  <2> QED  BY <1>3, <2>1, <2>2, <2>3, ItemForms
<1> QED  BY <1>1, <1>2, <1>3 DEF Parsing!Syntaxes, Parsing!DER

(* Bit strings and the ends they stand for *)

\* Two bit strings that start the same address: the longer one goes on with
\* zeros, and with ones if they end at the same address.
LEMMA SameLow ==
  ASSUME Parsing!Assumption, NEW s \in Parsing!BitString, NEW t \in Parsing!BitString,
         Parsing!Address(s, FALSE) = Parsing!Address(t, FALSE), s.len < t.len
  PROVE  t.value % 2 = 0
<1>1. PICK v, w, c, d \in Nat : /\ v = s.value /\ w = t.value /\ c = Parsing!Power[Bits - t.len] /\ c >= 1
                               /\ d = Parsing!Power[t.len - s.len - 1]
                               /\ Parsing!Power[Bits - s.len] = c * (2 * d)
  <2>1. /\ Bits - t.len \in Nat /\ Bits - s.len \in Nat /\ Bits - t.len < Bits - s.len
        /\ Bits - s.len <= Bits /\ (Bits - s.len) - (Bits - t.len) - 1 = t.len - s.len - 1
    BY BitStringTyped, NumberTyped
  <2> QED  BY <2>1, BitStringTyped, PowerGrows
<1>2. v * (c * (2 * d)) = w * c
  BY <1>1, AddressTyped
<1>3. v * (c * (2 * d)) = (2 * (v * d)) * c
  OBVIOUS
<1>4. PICK x \in Nat : x = v * d
  OBVIOUS
<1>5. 2 * x = w
  <2>1. (2 * x) * c = w * c
    BY <1>2, <1>3, <1>4
  <2>2. \A i, j, k \in Nat : k >= 1 /\ i * k = j * k => i = j
    OBVIOUS
  <2>3. 2 * x \in Nat
    BY <1>4
  <2> HIDE <1>4
  <2> QED  BY <1>1, <2>1, <2>2, <2>3
<1> QED  BY <1>1, <1>4, <1>5

\* ... and likewise with ones.
LEMMA SameHigh ==
  ASSUME Parsing!Assumption, NEW s \in Parsing!BitString, NEW t \in Parsing!BitString,
         Parsing!Address(s, TRUE) = Parsing!Address(t, TRUE), s.len < t.len
  PROVE  t.value % 2 = 1
<1>1. PICK v, w, c, d \in Nat : /\ v = s.value /\ w = t.value /\ c = Parsing!Power[Bits - t.len] /\ c >= 1
                               /\ d = Parsing!Power[t.len - s.len - 1] /\ d >= 1
                               /\ Parsing!Power[Bits - s.len] = c * (2 * d)
  <2>1. /\ Bits - t.len \in Nat /\ Bits - s.len \in Nat /\ Bits - t.len < Bits - s.len
        /\ Bits - s.len <= Bits /\ (Bits - s.len) - (Bits - t.len) - 1 = t.len - s.len - 1
    BY BitStringTyped, NumberTyped
  <2> QED  BY <2>1, BitStringTyped, PowerGrows
<1>2. v * (c * (2 * d)) + (c * (2 * d) - 1) = w * c + (c - 1)
  BY <1>1, AddressTyped
<1>3. v * (c * (2 * d)) + c * (2 * d) = (2 * ((v + 1) * d)) * c
  OBVIOUS
<1>4. PICK x \in Nat : x = (v + 1) * d
  OBVIOUS
<1>5. 2 * x = w + 1
  <2>0. c * (2 * d) \in Nat /\ v * (c * (2 * d)) \in Nat /\ w * c \in Nat
    OBVIOUS
  <2>1. (2 * x) * c = (w + 1) * c
    <3>1. (w + 1) * c = w * c + c
      OBVIOUS
    <3> QED  BY <1>2, <1>3, <1>4, <2>0, <3>1
  <2>2. \A i, j, k \in Nat : k >= 1 /\ i * k = j * k => i = j
    OBVIOUS
  <2>3. 2 * x \in Nat /\ w + 1 \in Nat
    BY <1>4
  <2> QED  BY <1>1, <2>1, <2>2, <2>3
<1> QED  BY <1>1, <1>4, <1>5

\* Bit strings of one length with the same address are equal.
LEMMA SameLength ==
  ASSUME Parsing!Assumption, NEW s \in Parsing!BitString, NEW t \in Parsing!BitString, s.len = t.len,
         Parsing!Address(s, FALSE) = Parsing!Address(t, FALSE)
           \/ Parsing!Address(s, TRUE) = Parsing!Address(t, TRUE)
  PROVE  s = t
<1>1. PICK v, w, c \in Nat : v = s.value /\ w = t.value /\ c = Parsing!Power[Bits - t.len] /\ c >= 1
  BY BitStringTyped
<1>2. v * c \in Nat /\ w * c \in Nat
  OBVIOUS
<1>3. v * c = w * c
  <2>1. Parsing!Address(s, FALSE) = v * c /\ Parsing!Address(s, TRUE) = v * c + (c - 1)
    BY <1>1, AddressTyped
  <2>2. Parsing!Address(t, FALSE) = w * c /\ Parsing!Address(t, TRUE) = w * c + (c - 1)
    BY <1>1, AddressTyped
  <2>3. PICK x, y \in Nat : x = v * c /\ y = w * c
    BY <1>2
  <2>4. x = y \/ x + (c - 1) = y + (c - 1)
    BY <2>1, <2>2, <2>3
  <2>5. x = y
    BY <1>1, <2>4
  <2> QED  BY <2>3, <2>5
<1>4. v = w
  <2>1. \A i, j, k \in Nat : k >= 1 /\ i * k = j * k => i = j
    OBVIOUS
  <2> QED  BY <1>1, <1>3, <2>1
<1> QED  BY <1>1, <1>4, BitStringTyped

\* A range is at most one prefix.
LEMMA SamePrefix ==
  ASSUME Parsing!Assumption, NEW s \in Parsing!BitString, NEW t \in Parsing!BitString,
         Parsing!Address(s, FALSE) = Parsing!Address(t, FALSE),
         Parsing!Address(s, TRUE) = Parsing!Address(t, TRUE)
  PROVE  s = t
<1>1. ~(s.len < t.len)
  <2> SUFFICES ASSUME s.len < t.len PROVE FALSE
    OBVIOUS
  <2>1. t.value % 2 = 0
    BY SameLow
  <2>2. t.value % 2 = 1
    BY SameHigh
  <2> QED  BY <2>1, <2>2
<1>2. ~(t.len < s.len)
  <2> SUFFICES ASSUME t.len < s.len PROVE FALSE
    OBVIOUS
  <2>1. s.value % 2 = 0
    BY SameLow
  <2>2. s.value % 2 = 1
    BY SameHigh
  <2> QED  BY <2>1, <2>2
<1>3. s.len \in Nat
  BY BitStringTyped
<1>4. t.len \in Nat
  BY BitStringTyped
<1>5. s.len = t.len
  BY <1>1, <1>2, <1>3, <1>4
<1> QED  BY <1>5, SameLength

\* What is not written in the fewest bits can be written in fewer.
LEMMA Shorten ==
  ASSUME Parsing!Assumption, NEW s \in Parsing!BitString, s.len > 0
  PROVE  /\ s.value % 2 = 0 =>
              \E t \in Parsing!BitString :
                t.len < s.len /\ Parsing!Address(t, FALSE) = Parsing!Address(s, FALSE)
         /\ s.value % 2 = 1 =>
              \E t \in Parsing!BitString :
                t.len < s.len /\ Parsing!Address(t, TRUE) = Parsing!Address(s, TRUE)
<1>1. PICK v, c \in Nat : v = s.value /\ c = Parsing!Power[Bits - s.len] /\ c >= 1
  BY BitStringTyped
<1>2. PICK t : t = [len |-> s.len - 1, value |-> v \div 2]
  OBVIOUS
<1>3. s.len - 1 \in 0 .. Bits /\ s.len - 1 < Bits /\ Bits - (s.len - 1) = (Bits - s.len) + 1
      /\ Bits - s.len \in 0 .. Bits /\ Bits - s.len < Bits /\ s.len \in Nat
  BY BitStringTyped, NumberTyped
<1>4. Parsing!Power[s.len] = 2 * Parsing!Power[s.len - 1] /\ Parsing!Power[Bits - (s.len - 1)] = 2 * c
      /\ Parsing!Power[s.len - 1] \in Nat
  <2>1. (s.len - 1) + 1 = s.len
    BY <1>3
  <2> QED  BY <1>1, <1>3, <2>1, PowerStep
<1>5. v \div 2 \in Nat /\ v \div 2 <= v /\ v \div 2 < Parsing!Power[s.len - 1]
  BY <1>1, <1>4, BitStringTyped
<1>6. v \in Parsing!Number
  BY <1>1 DEF Parsing!BitString
<1>7. t \in Parsing!BitString
  BY <1>2, <1>3, <1>5, <1>6, NumberTyped DEF Parsing!BitString
<1>8. PICK h \in Nat : h = v \div 2
  BY <1>5
<1>9. /\ Parsing!Address(t, FALSE) = h * (2 * c) /\ Parsing!Address(t, TRUE) = h * (2 * c) + (2 * c - 1)
      /\ Parsing!Address(s, FALSE) = v * c /\ Parsing!Address(s, TRUE) = v * c + (c - 1)
  BY <1>1, <1>2, <1>4, <1>7, <1>8, AddressTyped
<1>10. CASE v % 2 = 0
  <2>1. v = 2 * h
    BY <1>8, <1>10
  <2>2. (2 * h) * c = h * (2 * c)
    OBVIOUS
  <2>3. Parsing!Address(t, FALSE) = Parsing!Address(s, FALSE)
    BY <1>9, <2>1, <2>2
  <2>4. t.len < s.len
    BY <1>2, <1>3
  <2>5. s.value % 2 # 1
    BY <1>1, <1>10
  <2> QED  BY <1>7, <2>3, <2>4, <2>5
<1>11. CASE v % 2 = 1
  <2>1. v = 2 * h + 1
    BY <1>8, <1>11
  <2>2. (2 * h + 1) * c + (c - 1) = h * (2 * c) + (2 * c - 1)
    OBVIOUS
  <2>3. Parsing!Address(t, TRUE) = Parsing!Address(s, TRUE)
    BY <1>9, <2>1, <2>2
  <2>4. t.len < s.len
    BY <1>2, <1>3
  <2>5. s.value % 2 # 0
    BY <1>1, <1>11
  <2> QED  BY <1>7, <2>3, <2>4, <2>5
<1>12. v % 2 \in {0, 1}
  OBVIOUS
<1> QED  BY <1>1, <1>10, <1>11, <1>12

(* Bits of a number *)

\* A quotient by a power is twice the next one and a bit.
LEMMA Halved ==
  ASSUME Parsing!Assumption, NEW x \in Parsing!Number, NEW p \in 0 .. Bits - 1
  PROVE  /\ x \div Parsing!Power[p] \in Nat /\ x \div Parsing!Power[p + 1] \in Nat
         /\ x \div Parsing!Power[p] = 2 * (x \div Parsing!Power[p + 1]) + Parsing!Bit(x, p)
         /\ Parsing!Bit(x, p) \in {0, 1}
<1>1. x \in Nat /\ p \in 0 .. Bits /\ p < Bits /\ p + 1 \in 0 .. Bits
  BY NumberTyped
<1>2. PICK c \in Nat : c = Parsing!Power[p] /\ c > 0 /\ Parsing!Power[p + 1] = c * 2
  BY <1>1, PowerStep
<1>3. PICK q \in Nat : q = x \div c
  BY <1>1, <1>2, Quotient
<1>4. x \div (c * 2) = q \div 2
  BY <1>1, <1>2, <1>3, DividedTwice
<1>5. q \div 2 \in Nat /\ q = 2 * (q \div 2) + (q % 2) /\ q % 2 \in {0, 1}
  OBVIOUS
<1>6. x \div Parsing!Power[p] = q
  BY <1>2, <1>3
<1>7. x \div Parsing!Power[p + 1] = q \div 2 /\ Parsing!Bit(x, p) = q % 2
  BY <1>2, <1>4, <1>6 DEF Parsing!Bit
<1> QED  BY <1>5, <1>6, <1>7

\* The number of all the bits below p, when they are all 0 or all 1.
LEMMA BitsBelow ==
  ASSUME Parsing!Assumption, NEW low \in Parsing!Number, NEW high \in Parsing!Number, NEW k \in 0 .. Bits,
         \A p \in 0 .. Bits - 1 : p < k => Parsing!Bit(low, p) = 0 /\ Parsing!Bit(high, p) = 1
  PROVE  /\ low = (low \div Parsing!Power[k]) * Parsing!Power[k]
         /\ high = (high \div Parsing!Power[k]) * Parsing!Power[k] + (Parsing!Power[k] - 1)
<1> DEFINE T == {p \in 0 .. k : /\ low = (low \div Parsing!Power[p]) * Parsing!Power[p]
                                /\ high = (high \div Parsing!Power[p]) * Parsing!Power[p] + (Parsing!Power[p] - 1)}
<1>1. k \in Nat /\ low \in Nat /\ high \in Nat /\ Bits \in Nat /\ k <= Bits
  BY NumberTyped
<1>2. 0 \in T
  BY <1>1, PowerStep
<1>3. ASSUME NEW p \in T, p < k PROVE p + 1 \in T
  <2>1. p \in 0 .. Bits - 1 /\ p \in 0 .. Bits /\ p < Bits
    BY <1>1, <1>3
  <2>2. PICK c \in Nat : c = Parsing!Power[p] /\ c > 0 /\ Parsing!Power[p + 1] = 2 * c
    BY <2>1, PowerStep
  <2>3. PICK l, h \in Nat : l = low \div Parsing!Power[p + 1] /\ h = high \div Parsing!Power[p + 1]
    BY <2>1, Halved
  <2>4. low \div Parsing!Power[p] = 2 * l /\ high \div Parsing!Power[p] = 2 * h + 1
    BY <1>3, <2>1, <2>3, Halved
  <2>5. low = (2 * l) * c /\ high = (2 * h + 1) * c + (c - 1)
    BY <2>2, <2>4
  <2>6. (2 * l) * c = l * (2 * c)
    OBVIOUS
  <2>7. (2 * h + 1) * c + (c - 1) = h * (2 * c) + (2 * c - 1)
    OBVIOUS
  <2> QED  BY <1>1, <1>3, <2>2, <2>3, <2>5, <2>6, <2>7
<1>4. T = 0 .. k
  <2> HIDE DEF T
  <2>1. T \in SUBSET (0 .. k)
    BY DEF T
  <2> QED  BY <1>1, <1>2, <1>3, <2>1, UpTo
<1> QED  BY <1>1, <1>4

\* Numbers with the same bits from k up have the same quotient.
LEMMA BitsAbove ==
  ASSUME Parsing!Assumption, NEW low \in Parsing!Number, NEW high \in Parsing!Number, NEW k \in 0 .. Bits,
         \A p \in 0 .. Bits - 1 : p >= k => Parsing!Bit(low, p) = Parsing!Bit(high, p)
  PROVE  low \div Parsing!Power[k] = high \div Parsing!Power[k]
<1> DEFINE T == {j \in 0 .. Bits - k : low \div Parsing!Power[Bits - j] = high \div Parsing!Power[Bits - j]}
<1>1. k \in Nat /\ low \in Nat /\ high \in Nat /\ Bits \in Nat /\ k <= Bits
      /\ low < Parsing!Power[Bits] /\ high < Parsing!Power[Bits] /\ Bits - k \in Nat
  BY NumberTyped
<1>2. 0 \in T
  <2>1. \A x, m \in Nat : x < m => x \div m = 0
    OBVIOUS
  <2>2. Parsing!Power[Bits] \in Nat
    BY <1>1, PowerStep
  <2>3. low \div Parsing!Power[Bits] = 0 /\ high \div Parsing!Power[Bits] = 0
    BY <1>1, <2>1, <2>2
  <2> QED  BY <1>1, <2>3
<1>3. ASSUME NEW j \in T, j < Bits - k PROVE j + 1 \in T
  <2>1. PICK p \in 0 .. Bits - 1 : p = Bits - (j + 1) /\ p + 1 = Bits - j /\ p >= k
    BY <1>1, <1>3
  <2>2. Parsing!Bit(low, p) = Parsing!Bit(high, p)
        /\ low \div Parsing!Power[p + 1] = high \div Parsing!Power[p + 1]
    BY <2>1
  <2>3. low \div Parsing!Power[p] = high \div Parsing!Power[p]
    <3>1. low \div Parsing!Power[p] = 2 * (low \div Parsing!Power[p + 1]) + Parsing!Bit(low, p)
      BY Halved
    <3>2. high \div Parsing!Power[p] = 2 * (high \div Parsing!Power[p + 1]) + Parsing!Bit(high, p)
      BY Halved
    <3> QED  BY <2>2, <3>1, <3>2
  <2>4. low \div Parsing!Power[Bits - (j + 1)] = high \div Parsing!Power[Bits - (j + 1)]
        /\ j + 1 \in 0 .. Bits - k
    BY <1>1, <1>3, <2>1, <2>3
  <2> QED  BY <2>4
<1>4. T = 0 .. Bits - k
  <2> HIDE DEF T
  <2>1. T \in SUBSET (0 .. Bits - k)
    BY DEF T
  <2> QED  BY <1>1, <1>2, <1>3, <2>1, UpTo
<1>5. Bits - k \in T
  <2>1. Bits - k \in 0 .. Bits - k
    BY <1>1
  <2> HIDE DEF T
  <2> QED  BY <1>4, <2>1
<1>6. Bits - (Bits - k) = k
  BY <1>1
<1> QED  BY <1>5, <1>6

\* What the code reads from the bits: from the first that differs, all differ.
LEMMA BitsOfPrefix ==
  ASSUME Parsing!Assumption, NEW low \in Parsing!Number, NEW high \in Parsing!Number,
         Parsing!RangeIsPrefix(low, high)
  PROVE  \E s \in Parsing!BitString : Parsing!Address(s, FALSE) = low /\ Parsing!Address(s, TRUE) = high
<1>1. PICK k \in 0 .. Bits : \A p \in 0 .. Bits - 1 :
        IF p >= k THEN Parsing!Bit(low, p) = Parsing!Bit(high, p)
        ELSE Parsing!Bit(low, p) = 0 /\ Parsing!Bit(high, p) = 1
  BY DEF Parsing!RangeIsPrefix
<1>2. k \in Nat /\ k <= Bits /\ Bits \in Nat /\ Bits - k \in 0 .. Bits /\ Bits - (Bits - k) = k
  BY NumberTyped
<1>3. low = (low \div Parsing!Power[k]) * Parsing!Power[k]
      /\ high = (high \div Parsing!Power[k]) * Parsing!Power[k] + (Parsing!Power[k] - 1)
  <2>1. \A p \in 0 .. Bits - 1 : p < k => Parsing!Bit(low, p) = 0 /\ Parsing!Bit(high, p) = 1
    BY <1>1, <1>2
  <2> QED  BY <2>1, BitsBelow
<1>4. low \div Parsing!Power[k] = high \div Parsing!Power[k]
  <2>1. \A p \in 0 .. Bits - 1 : p >= k => Parsing!Bit(low, p) = Parsing!Bit(high, p)
    BY <1>1
  <2> QED  BY <2>1, BitsAbove
<1>5. PICK s : s = [len |-> Bits - k, value |-> low \div Parsing!Power[k]]
  OBVIOUS
<1>6. s \in Parsing!BitString
  BY <1>2, <1>5, PrefixTyped
<1>7. Bits - s.len = k /\ s.value = low \div Parsing!Power[k]
  BY <1>2, <1>5
<1>8. Parsing!Address(s, FALSE) = s.value * Parsing!Power[k]
      /\ Parsing!Address(s, TRUE) = s.value * Parsing!Power[k] + (Parsing!Power[k] - 1)
  <2>1. Bits - s.len = k
    BY <1>7
  <2> QED  BY <1>6, <2>1, AddressTyped
<1>9. Parsing!Address(s, FALSE) = low /\ Parsing!Address(s, TRUE) = high
  <2>1. s.value = high \div Parsing!Power[k]
    BY <1>4, <1>7
  <2>2. Parsing!Address(s, TRUE) = high
    BY <1>3, <1>8, <2>1
  <2>3. Parsing!Address(s, FALSE) = low
    BY <1>3, <1>7, <1>8
  <2> QED  BY <2>2, <2>3
<1> QED  BY <1>6, <1>9

\* ... and every bit string is read so.
LEMMA PrefixBits ==
  ASSUME Parsing!Assumption, NEW s \in Parsing!BitString
  PROVE  Parsing!RangeIsPrefix(Parsing!Address(s, FALSE), Parsing!Address(s, TRUE))
<1>1. PICK low, high \in Nat : low = Parsing!Address(s, FALSE) /\ high = Parsing!Address(s, TRUE)
  BY AddressTyped, NumberTyped
<1>2. PICK k \in 0 .. Bits : k = Bits - s.len
  BY BitStringTyped
<1>3. PICK v, c \in Nat : v = s.value /\ c = Parsing!Power[k] /\ c > 0
  BY <1>2, BitStringTyped
<1>4. low = v * c /\ high = v * c + (c - 1) /\ k \in Nat /\ Bits \in Nat /\ k <= Bits
  <2>1. Bits \in Nat
    BY NumberTyped
  <2>2. /\ low = s.value * Parsing!Power[Bits - s.len]
        /\ high = s.value * Parsing!Power[Bits - s.len] + (Parsing!Power[Bits - s.len] - 1)
    BY <1>1, AddressTyped
  <2> QED  BY <1>2, <1>3, <2>1, <2>2
<1>5. low \div c = v /\ high \div c = v
  <2>1. (v * c + 0) \div c = v
    BY <1>3, QuotientOfSum
  <2>2. (v * c + (c - 1)) \div c = v
    BY <1>3, QuotientOfSum
  <2>3. v * c + 0 = v * c
    OBVIOUS
  <2> QED  BY <1>4, <2>1, <2>2, <2>3
<1>6. ASSUME NEW p \in 0 .. Bits - 1, p >= k PROVE Parsing!Bit(low, p) = Parsing!Bit(high, p)
  <2>1. k + (p - k) = p /\ p - k \in Nat /\ p - k \in 0 .. Bits /\ p <= Bits
    BY <1>4, <1>6
  <2>2. PICK d \in Nat : d = Parsing!Power[p - k] /\ d > 0
    BY <2>1, PowerStep
  <2>3. Parsing!Power[p] = c * d
    BY <1>3, <1>4, <2>1, <2>2, PowerSum
  <2>4. low \div (c * d) = v \div d
    BY <1>3, <1>5, <2>2, DividedTwice
  <2>5. high \div (c * d) = v \div d
    BY <1>3, <1>5, <2>2, DividedTwice
  <2> QED  BY <2>3, <2>4, <2>5 DEF Parsing!Bit
<1>7. ASSUME NEW p \in 0 .. Bits - 1, p < k PROVE Parsing!Bit(low, p) = 0 /\ Parsing!Bit(high, p) = 1
  <2>1. PICK m, d \in Nat : m = Parsing!Power[p] /\ m > 0 /\ d = Parsing!Power[k - p - 1] /\ d > 0
                            /\ c = m * (2 * d)
    <3>1. p \in Nat /\ p \in 0 .. Bits /\ k <= Bits
      BY <1>4
    <3>2. Parsing!Power[p] \in Nat /\ Parsing!Power[p] >= 1
      BY <3>1, PowerStep
    <3>3. Parsing!Power[k] = Parsing!Power[p] * (2 * Parsing!Power[k - p - 1])
          /\ Parsing!Power[k - p - 1] \in Nat
          /\ Parsing!Power[k - p - 1] >= 1
      BY <1>4, <1>7, <3>1, PowerGrows
    <3> QED  BY <1>3, <3>2, <3>3
  <2>2. PICK x, y \in Nat : x = v * d /\ y = (v + 1) * d /\ y >= 1
    BY <2>1
  <2>3. low = (2 * x) * m + 0
    <3>1. v * (m * (2 * d)) = (2 * (v * d)) * m
      OBVIOUS
    <3>2. (2 * x) * m \in Nat
      BY <2>1, <2>2
    <3> QED  BY <1>4, <2>1, <2>2, <3>1, <3>2
  <2>4. high = (2 * y - 1) * m + (m - 1)
    <3>1. v * (m * (2 * d)) + m * (2 * d) = (2 * ((v + 1) * d)) * m
      OBVIOUS
    <3>2. (2 * y - 1) * m + m = (2 * y) * m
      OBVIOUS
    <3>3. m * (2 * d) \in Nat /\ v * (m * (2 * d)) \in Nat /\ (2 * y) * m \in Nat
          /\ (2 * y - 1) * m \in Int
      BY <2>1, <2>2
    <3>4. v * (m * (2 * d)) + m * (2 * d) = (2 * y - 1) * m + m
      BY <2>2, <3>1, <3>2
    <3>5. high = v * (m * (2 * d)) + (m * (2 * d) - 1)
      BY <1>4, <2>1
    <3> QED  BY <2>1, <3>3, <3>4, <3>5
  <2>5. low \div m = 2 * x
    BY <2>1, <2>2, <2>3, QuotientOfSum
  <2>6. high \div m = 2 * y - 1
    <3>1. PICK z \in Nat : z = 2 * y - 1
      BY <2>2
    <3>2. PICK r \in Nat : r = m - 1 /\ r < m
      BY <2>1
    <3>3. (z * m + r) \div m = z
      BY <2>1, <3>2, QuotientOfSum
    <3> QED  BY <2>4, <3>1, <3>2, <3>3
  <2>7. (2 * x) % 2 = 0 /\ (2 * y - 1) % 2 = 1
    BY <2>2
  <2> QED  BY <2>1, <2>5, <2>6, <2>7 DEF Parsing!Bit
<1>8. ASSUME NEW p \in 0 .. Bits - 1
      PROVE  IF p >= k THEN Parsing!Bit(low, p) = Parsing!Bit(high, p)
             ELSE Parsing!Bit(low, p) = 0 /\ Parsing!Bit(high, p) = 1
  <2>1. p >= k \/ p < k
    BY <1>4
  <2>2. CASE p >= k
    BY <1>6, <2>2
  <2>3. CASE p < k
    BY <1>4, <1>7, <2>3
  <2> QED  BY <2>1, <2>2, <2>3
<1>9. Parsing!RangeIsPrefix(low, high)
  BY <1>8 DEF Parsing!RangeIsPrefix
<1> QED  BY <1>1, <1>9

(* Encodings *)

\* A member that no other member undercuts or equals in length is the shortest.
LEMMA ShortestIs ==
  ASSUME Parsing!Assumption, NEW U \in SUBSET Parsing!BitString, NEW x \in U,
         \A t \in U : x.len <= t.len, \A t \in U : t.len = x.len => t = x
  PROVE  Parsing!Shortest(U) = x
<1>1. PICK s : s = Parsing!Shortest(U)
  OBVIOUS
<1>2. s \in U /\ \A t \in U : s.len <= t.len
  BY <1>1 DEF Parsing!Shortest
<1>3. s.len \in Nat /\ x.len \in Nat
  BY <1>2, BitStringTyped
<1>4. s.len = x.len
  BY <1>2, <1>3
<1> QED  BY <1>1, <1>2, <1>4

\* Every nonempty set of bit strings has a shortest one.
LEMMA ShortestExists ==
  ASSUME Parsing!Assumption, NEW U \in SUBSET Parsing!BitString, U # {}
  PROVE  Parsing!Shortest(U) \in U /\ \A t \in U : Parsing!Shortest(U).len <= t.len
<1> DEFINE T == {s.len : s \in U}
<1>1. T \in SUBSET Nat /\ T # {}
  BY BitStringTyped
<1>2. PICK n \in T : \A m \in T : n <= m
  <2> HIDE DEF T
  <2> QED  BY <1>1, LeastNumber
<1>3. PICK s \in U : n = s.len
  OBVIOUS
<1>4. \A t \in U : s.len <= t.len
  BY <1>2, <1>3
<1> QED  BY <1>4 DEF Parsing!Shortest

\* A minimum without its last zeros, and a maximum without its last ones, are
\* the shortest.
LEMMA MinimalIsShortest ==
  ASSUME Parsing!Assumption, NEW s \in Parsing!BitString
  PROVE  /\ (s.len > 0 => s.value % 2 = 1) =>
              s = Parsing!Shortest(Parsing!Starting(Parsing!Address(s, FALSE)))
         /\ (s.len > 0 => s.value % 2 = 0) =>
              s = Parsing!Shortest(Parsing!Ending(Parsing!Address(s, TRUE)))
<1> USE DEF Parsing!Starting, Parsing!Ending
<1>0. s.len \in Nat
  BY BitStringTyped
<1>1. ASSUME s.len > 0 => s.value % 2 = 1
      PROVE  s = Parsing!Shortest(Parsing!Starting(Parsing!Address(s, FALSE)))
  <2> DEFINE U == Parsing!Starting(Parsing!Address(s, FALSE))
  <2>1. ASSUME NEW t \in U PROVE s.len <= t.len
    <3> SUFFICES ASSUME t.len < s.len PROVE FALSE
      BY <1>0, BitStringTyped
    <3>1. s.value % 2 = 0
      BY SameLow
    <3>2. s.len > 0
      BY <1>0, BitStringTyped
    <3> QED  BY <1>1, <3>1, <3>2
  <2>2. ASSUME NEW t \in U, t.len = s.len PROVE t = s
    BY <2>2, SameLength
  <2>3. s \in U
    OBVIOUS
  <2>4. U \in SUBSET Parsing!BitString
    OBVIOUS
  <2> HIDE DEF U
  <2>5. Parsing!Shortest(U) = s
    BY <2>1, <2>2, <2>3, <2>4, ShortestIs
  <2> QED  BY <2>5 DEF U
<1>2. ASSUME s.len > 0 => s.value % 2 = 0
      PROVE  s = Parsing!Shortest(Parsing!Ending(Parsing!Address(s, TRUE)))
  <2> DEFINE U == Parsing!Ending(Parsing!Address(s, TRUE))
  <2>1. ASSUME NEW t \in U PROVE s.len <= t.len
    <3> SUFFICES ASSUME t.len < s.len PROVE FALSE
      BY <1>0, BitStringTyped
    <3>1. s.value % 2 = 1
      BY SameHigh
    <3>2. s.len > 0
      BY <1>0, BitStringTyped
    <3> QED  BY <1>2, <3>1, <3>2
  <2>2. ASSUME NEW t \in U, t.len = s.len PROVE t = s
    BY <2>2, SameLength
  <2>3. s \in U
    OBVIOUS
  <2>4. U \in SUBSET Parsing!BitString
    OBVIOUS
  <2> HIDE DEF U
  <2>5. Parsing!Shortest(U) = s
    BY <2>1, <2>2, <2>3, <2>4, ShortestIs
  <2> QED  BY <2>5 DEF U
<1> QED  BY <1>1, <1>2

\* A number is all of its bits.
LEMMA WholeNumber ==
  ASSUME Parsing!Assumption, NEW x \in Parsing!Number
  PROVE  \E s \in Parsing!BitString : Parsing!Address(s, FALSE) = x /\ Parsing!Address(s, TRUE) = x
<1>1. PICK s : s = [len |-> Bits, value |-> x]
  OBVIOUS
<1>2. /\ x \in Nat /\ x < Parsing!Power[Bits] /\ Bits \in 0 .. Bits /\ Bits - Bits = 0
         /\ Parsing!Power[0] = 1
  BY NumberTyped, PowerStep
<1>3. s \in Parsing!BitString
  BY <1>1, <1>2 DEF Parsing!BitString
<1>4. s.value = x /\ Parsing!Power[Bits - s.len] = 1
  BY <1>1, <1>2
<1>5. x * 1 = x /\ x + (1 - 1) = x
  BY <1>2
<1> QED  BY <1>3, <1>4, <1>5, AddressTyped

\* The shortest bits of an address end as DER wants them.
LEMMA ShortestIsMinimal ==
  ASSUME Parsing!Assumption, NEW x \in Parsing!Number
  PROVE  LET l == Parsing!Shortest(Parsing!Starting(x))
             h == Parsing!Shortest(Parsing!Ending(x))
         IN  /\ l.len > 0 => l.value % 2 = 1
             /\ h.len > 0 => h.value % 2 = 0
<1> USE DEF Parsing!Starting, Parsing!Ending
<1> DEFINE L == Parsing!Starting(x)
           H == Parsing!Ending(x)
<1>1. L # {} /\ H # {}
  BY WholeNumber
<1>3. \A n \in Int : n % 2 = 0 \/ n % 2 = 1
  OBVIOUS
<1>4. PICK l : l = Parsing!Shortest(L)
  OBVIOUS
<1>5. l.len > 0 => l.value % 2 = 1
  <2>1. L \in SUBSET Parsing!BitString /\ L # {}
    BY <1>1
  <2>2. l \in L /\ \A t \in L : l.len <= t.len
    <3> HIDE DEF L
    <3> QED  BY <1>4, <2>1, ShortestExists
  <2> SUFFICES ASSUME l.len > 0, l.value % 2 = 0 PROVE FALSE
    BY <1>3, <2>2, BitStringTyped
  <2>3. PICK t \in Parsing!BitString : t.len < l.len /\ Parsing!Address(t, FALSE) = Parsing!Address(l, FALSE)
    BY <2>2, Shorten
  <2>4. t \in L
    BY <2>2, <2>3
  <2>5. t.len \in Nat /\ l.len \in Nat /\ l.len <= t.len
    BY <2>2, <2>4, BitStringTyped
  <2> QED  BY <2>3, <2>5
<1>6. PICK h : h = Parsing!Shortest(H)
  OBVIOUS
<1>7. h.len > 0 => h.value % 2 = 0
  <2>1. H \in SUBSET Parsing!BitString /\ H # {}
    BY <1>1
  <2>2. h \in H /\ \A t \in H : h.len <= t.len
    <3> HIDE DEF H
    <3> QED  BY <1>6, <2>1, ShortestExists
  <2> SUFFICES ASSUME h.len > 0, h.value % 2 = 1 PROVE FALSE
    BY <1>3, <2>2, BitStringTyped
  <2>3. PICK t \in Parsing!BitString : t.len < h.len /\ Parsing!Address(t, TRUE) = Parsing!Address(h, TRUE)
    BY <2>2, Shorten
  <2>4. t \in H
    BY <2>2, <2>3
  <2>5. t.len \in Nat /\ h.len \in Nat /\ h.len <= t.len
    BY <2>2, <2>4, BitStringTyped
  <2> QED  BY <2>3, <2>5
<1> QED  BY <1>4, <1>5, <1>6, <1>7

\* What DER accepts as an item is the encoding of what it names, ...
LEMMA WellFormedIsEncoding ==
  ASSUME Parsing!Assumption, syntax \in Parsing!DER, NEW e \in Parsing!Items, Parsing!WellFormed(e)
  PROVE  e = Parsing!Encoding([min |-> Parsing!Low(e), max |-> Parsing!High(e)])
<1>1. PICK r : r = [min |-> Parsing!Low(e), max |-> Parsing!High(e)]
  OBVIOUS
<1>2. /\ r.min = Parsing!Low(e) /\ r.max = Parsing!High(e) /\ syntax \in Parsing!Syntaxes
      /\ e.form \in {"single", "range"} /\ (e.form = "single" => e.lo = e.hi)
      /\ e = [form |-> e.form, lo |-> e.lo, hi |-> e.hi]
  <2>1. syntax \in Parsing!Syntaxes /\ syntax # "IP text"
    BY DEF Parsing!Syntaxes, Parsing!DER
  <2> QED  BY <1>1, <2>1, ItemForms
<1>3. CASE syntax = "AS"
  <2>1. r.min = e.lo /\ r.max = e.hi
    BY <1>2, <1>3 DEF Parsing!Low, Parsing!High
  <2>2. e.form = "range" => e.lo # e.hi
    <3>1. e.form = "range" => e.lo < e.hi
      BY <1>3 DEF Parsing!WellFormed
    <3>2. e.lo \in -1 .. Parsing!Limit + 1 /\ e.hi \in -1 .. Parsing!Limit + 1
      BY <1>2, <1>3, ItemForms
    <3> QED  BY <3>1, <3>2, NumberTyped
  <2>3. Parsing!Encoding(r) = [form |-> IF r.min = r.max THEN "single" ELSE "range", lo |-> r.min,
        hi |-> r.max]
    BY <1>3 DEF Parsing!Encoding
  <2> QED  BY <1>1, <1>2, <2>1, <2>2, <2>3
<1>4. CASE syntax = "IP"
  <2>1. e.lo \in Parsing!BitString /\ e.hi \in Parsing!BitString
    BY <1>2, <1>4, ItemForms
  <2>2. r.min = Parsing!Address(e.lo, FALSE) /\ r.max = Parsing!Address(e.hi, TRUE)
    BY <1>2, <1>4 DEF Parsing!Low, Parsing!High
  <2>3. CASE e.form = "single"
    <3>1. Parsing!PrefixesOf(r) = {e.lo}
      BY <1>2, <2>1, <2>2, <2>3, SamePrefix DEF Parsing!PrefixesOf, Parsing!Starting, Parsing!Ending
    <3>2. Parsing!Shortest(Parsing!PrefixesOf(r)) = e.lo
      BY <3>1 DEF Parsing!Shortest
    <3>3. Parsing!Encoding(r) = [form |-> "single", lo |-> e.lo, hi |-> e.lo]
      BY <1>4, <3>1, <3>2 DEF Parsing!Encoding
    <3> QED  BY <1>1, <1>2, <2>3, <3>3
  <2>4. CASE e.form = "range"
    <3>1. Parsing!Minimal(e) /\ ~Parsing!RangeIsPrefix(r.min, r.max)
      BY <1>2, <1>4, <2>4 DEF Parsing!WellFormed
    <3>2. Parsing!PrefixesOf(r) = {}
      BY <3>1, PrefixBits DEF Parsing!PrefixesOf, Parsing!Starting, Parsing!Ending
    <3>3. /\ e.lo = Parsing!Shortest(Parsing!Starting(r.min))
          /\ e.hi = Parsing!Shortest(Parsing!Ending(r.max))
      BY <2>1, <2>2, <3>1, MinimalIsShortest DEF Parsing!Minimal
    <3>4. Parsing!Encoding(r) = [form |-> "range", lo |-> e.lo, hi |-> e.hi]
      BY <1>4, <3>2, <3>3 DEF Parsing!Encoding
    <3> QED  BY <1>1, <1>2, <2>4, <3>4
  <2> QED  BY <1>2, <2>3, <2>4
<1> QED  BY <1>3, <1>4 DEF Parsing!DER

\* ... and the encoding of a range is accepted.
LEMMA EncodingIsWellFormed ==
  ASSUME Parsing!Assumption, syntax \in Parsing!Syntaxes, NEW e \in Parsing!Items,
         Parsing!Low(e) \in Parsing!Number, Parsing!High(e) \in Parsing!Number,
         Parsing!Low(e) <= Parsing!High(e),
         e = Parsing!Encoding([min |-> Parsing!Low(e), max |-> Parsing!High(e)])
  PROVE  Parsing!WellFormed(e)
<1>1. PICK r : r = [min |-> Parsing!Low(e), max |-> Parsing!High(e)]
  OBVIOUS
<1>2. /\ r.min = Parsing!Low(e) /\ r.max = Parsing!High(e) /\ e = Parsing!Encoding(r)
      /\ r.min \in Nat /\ r.max \in Nat /\ r.max <= Parsing!Limit /\ r.min <= r.max
  BY <1>1, NumberTyped DEF Parsing!Number
<1>3. CASE syntax \in {"AS", "AS text"}
  <2>1. e = [form |-> IF r.min = r.max THEN "single" ELSE "range", lo |-> r.min, hi |-> r.max]
    BY <1>2, <1>3 DEF Parsing!Encoding
  <2>2. e.lo = r.min /\ e.hi = r.max /\ (e.form = "range" => r.min # r.max)
    BY <2>1
  <2>3. Parsing!InRange(e) /\ e.lo <= e.hi /\ (e.form = "range" => e.lo < e.hi)
    BY <1>2, <2>2, NumberTyped DEF Parsing!InRange
  <2>4. CASE syntax = "AS"
    BY <2>3, <2>4 DEF Parsing!WellFormed
  <2>5. CASE syntax = "AS text"
    BY <2>3, <2>5 DEF Parsing!WellFormed
  <2> QED  BY <1>3, <2>4, <2>5
<1>4. CASE syntax = "IP"
  <2>1. CASE Parsing!PrefixesOf(r) # {}
    <3>1. e = [form |-> "single", lo |-> Parsing!Shortest(Parsing!PrefixesOf(r)),
          hi |-> Parsing!Shortest(Parsing!PrefixesOf(r))]
      BY <1>2, <1>4, <2>1 DEF Parsing!Encoding
    <3>2. e.form # "range"
      BY <3>1
    <3> QED  BY <1>4, <3>2 DEF Parsing!WellFormed
  <2>2. CASE Parsing!PrefixesOf(r) = {}
    <3>1. e = [form |-> "range", lo |-> Parsing!Shortest(Parsing!Starting(r.min)),
                                 hi |-> Parsing!Shortest(Parsing!Ending(r.max))]
      BY <1>2, <1>4, <2>2 DEF Parsing!Encoding
    <3>2. Parsing!Minimal(e)
      <4>1. r.min \in Parsing!Number /\ r.max \in Parsing!Number
        BY <1>2
      <4>2. e.lo.len > 0 => e.lo.value % 2 = 1
        BY <3>1, <4>1, ShortestIsMinimal
      <4>3. e.hi.len > 0 => e.hi.value % 2 = 0
        BY <3>1, <4>1, ShortestIsMinimal
      <4> QED  BY <4>2, <4>3 DEF Parsing!Minimal
    <3>3. ~Parsing!RangeIsPrefix(Parsing!Low(e), Parsing!High(e))
      <4> SUFFICES ASSUME Parsing!RangeIsPrefix(Parsing!Low(e), Parsing!High(e)) PROVE FALSE
        OBVIOUS
      <4>1. PICK s \in Parsing!BitString : Parsing!Address(s, FALSE) = Parsing!Low(e)
                                           /\ Parsing!Address(s, TRUE) = Parsing!High(e)
        BY BitsOfPrefix
      <4> QED  BY <1>2, <2>2, <4>1 DEF Parsing!PrefixesOf, Parsing!Starting, Parsing!Ending
    <3>4. r.min # r.max
      <4> SUFFICES ASSUME r.min = r.max PROVE Parsing!PrefixesOf(r) # {}
        BY <2>2
      <4>1. PICK s \in Parsing!BitString : Parsing!Address(s, FALSE) = r.min
                                           /\ Parsing!Address(s, TRUE) = r.min
        BY <1>2, WholeNumber
      <4> QED  BY <4>1 DEF Parsing!PrefixesOf, Parsing!Starting, Parsing!Ending
    <3>5. Parsing!Low(e) < Parsing!High(e)
      BY <1>2, <3>4
    <3> QED  BY <1>4, <3>2, <3>3, <3>5 DEF Parsing!WellFormed
  <2> QED  BY <2>1, <2>2
<1>5. CASE syntax = "IP text"
  <2>1. e = [form |-> "range", lo |-> r.min, hi |-> r.max]
    BY <1>2, <1>5 DEF Parsing!Encoding
  <2>2. e.form = "range"
    BY <2>1
  <2> QED  BY <1>5, <2>2 DEF Parsing!WellFormed
<1> QED  BY <1>3, <1>4, <1>5 DEF Parsing!Syntaxes, Parsing!DER

(* The lists *)

\* What an item means depends on the syntax alone.
LEMMA SyntaxKept ==
  ASSUME syntax' = syntax
  PROVE  /\ Parsing!Items' = Parsing!Items
         /\ \A e : /\ Parsing!Low(e)' = Parsing!Low(e) /\ Parsing!High(e)' = Parsing!High(e)
            /\ Parsing!RangeOf(e)' = Parsing!RangeOf(e)
                   /\ Parsing!WellFormed(e)' = Parsing!WellFormed(e)
                      /\ Parsing!Encoding(e)' = Parsing!Encoding(e)
  BY DEF Parsing!Items, Parsing!Low, Parsing!High, Parsing!RangeOf, Parsing!WellFormed, Parsing!Encoding,
         Parsing!Minimal, Parsing!InRange

\* In a canonical sequence every range ends before the last one does.
LEMMA EndsLast ==
  ASSUME Parsing!Assumption, NEW s \in Seq(Parsing!NumberRange), Parsing!Canonical(s), NEW k \in DOMAIN s
  PROVE  /\ s[k].min \in Nat /\ s[k].max \in Nat /\ s[k].max <= Parsing!Limit
         /\ s[Len(s)].max \in Nat /\ s[k].max <= s[Len(s)].max
<1>1. /\ s[k] \in Parsing!NumberRange /\ Len(s) \in DOMAIN s /\ s[Len(s)] \in Parsing!NumberRange
         /\ Len(s) \in Nat
      /\ k \in Nat /\ k <= Len(s)
  OBVIOUS
<1>2. \A r \in Parsing!NumberRange : r.min \in Nat /\ r.max \in Nat /\ r.max <= Parsing!Limit
  BY NumberTyped DEF Parsing!NumberRange, Parsing!Number
<1>3. k < Len(s) => s[k].max + 1 < s[Len(s)].min /\ s[Len(s)].min <= s[Len(s)].max
  BY <1>1 DEF Parsing!Canonical
<1>4. CASE k = Len(s)
  BY <1>1, <1>2, <1>4
<1>5. CASE k < Len(s)
  <2>1. s[k].max \in Nat /\ s[Len(s)].min \in Nat /\ s[Len(s)].max \in Nat /\ s[k].min \in Nat
        /\ s[k].max <= Parsing!Limit
    BY <1>1, <1>2
  <2> QED  BY <1>3, <1>5, <2>1
<1> QED  BY <1>1, <1>4, <1>5

\* What is true of a list to which a range was added.
Added(t, s, low, high) ==
  /\ t \in Seq(Parsing!NumberRange) /\ Parsing!Canonical(t) /\ t # <<>> /\ t[Len(t)].max = high
  /\ Parsing!Numbers(t) = Parsing!Numbers(s) \cup (low .. high)
Joined(s, low, high) == Append(s, [min |-> low, max |-> high])
Widened(s, high) == [s EXCEPT ![Len(s)].max = high]

\* A range apart from the last one is appended, ...
LEMMA AppendRange ==
  ASSUME Parsing!Assumption, NEW s \in Seq(Parsing!NumberRange), Parsing!Canonical(s),
         NEW low \in Parsing!Number, NEW high \in Parsing!Number, low <= high,
         s # <<>> => s[Len(s)].max + 1 < low
  PROVE  Added(Joined(s, low, high), s, low, high)
<1>0. PICK t : t = Append(s, [min |-> low, max |-> high])
  OBVIOUS
<1>1. PICK r \in Parsing!NumberRange : r = [min |-> low, max |-> high] /\ r.min = low /\ r.max = high
  <2>1. [min |-> low, max |-> high] \in Parsing!NumberRange
    BY DEF Parsing!NumberRange
  <2> QED  BY <2>1
<1>2. /\ t \in Seq(Parsing!NumberRange) /\ Len(t) = Len(s) + 1 /\ Len(s) \in Nat /\ t # <<>>
      /\ DOMAIN s = 1 .. Len(s) /\ DOMAIN t = 1 .. Len(s) + 1
      /\ t[Len(s) + 1] = r
      /\ \A k \in DOMAIN s : t[k] = s[k] /\ k \in DOMAIN t
  <2>1. t = Append(s, r)
    BY <1>0, <1>1
  <2> QED  BY <2>1
<1>3. low \in Nat /\ high \in Nat
  BY NumberTyped
<1>4. Parsing!Canonical(t)
  <2>1. ASSUME NEW k \in DOMAIN t PROVE t[k].min <= t[k].max
    BY <1>1, <1>2, <1>3 DEF Parsing!Canonical
  <2>2. ASSUME NEW k \in DOMAIN t, NEW m \in DOMAIN t, k < m PROVE t[k].max + 1 < t[m].min
    <3>1. k \in DOMAIN s /\ t[k] = s[k]
      BY <1>2, <2>2
    <3>2. CASE m \in DOMAIN s
      BY <1>2, <2>2, <3>1, <3>2 DEF Parsing!Canonical
    <3>3. CASE m \notin DOMAIN s
      <4>1. t[m].min = low /\ s # <<>>
        BY <1>1, <1>2, <3>1, <3>3
      <4>2. s[k].max <= s[Len(s)].max /\ s[k].max \in Nat /\ s[Len(s)].max \in Nat
        BY <3>1, EndsLast
      <4> QED  BY <1>3, <3>1, <4>1, <4>2
    <3> QED  BY <3>2, <3>3
  <2> QED  BY <2>1, <2>2 DEF Parsing!Canonical
<1>5. ASSUME NEW x \in Parsing!Number
      PROVE  (\E k \in DOMAIN t : Parsing!Within(x, t[k])) <=> (\E k \in DOMAIN s : Parsing!Within(x, s[k]))
               \/ x \in low .. high
  <2>1. Parsing!Within(x, r) <=> x \in low .. high
    BY <1>1, <1>3, NumberTyped DEF Parsing!Within
  <2> QED  BY <1>2, <2>1
<1>6. low .. high \subseteq Parsing!Number
  BY <1>3, NumberTyped
<1>7. Added(t, s, low, high)
  BY <1>1, <1>2, <1>4, <1>5, <1>6 DEF Parsing!Numbers, Added
<1> QED  BY <1>0, <1>7 DEF Joined

\* ... and one that touches the last one extends it.
LEMMA WidenLast ==
  ASSUME Parsing!Assumption, NEW s \in Seq(Parsing!NumberRange), Parsing!Canonical(s), s # <<>>,
         NEW low \in Parsing!Number, NEW high \in Parsing!Number, low <= high, s[Len(s)].max + 1 = low
  PROVE  Added(Widened(s, high), s, low, high)
<1>0. PICK t : t = [s EXCEPT ![Len(s)].max = high]
  OBVIOUS
<1>1. PICK n \in DOMAIN s : n = Len(s) /\ n \in Nat
  OBVIOUS
<1>2. s[n] \in Parsing!NumberRange /\ s[n].min \in Parsing!Number /\ s[n].max \in Parsing!Number
  <2>1. s[n] \in Parsing!NumberRange
    OBVIOUS
  <2> QED  BY <2>1 DEF Parsing!NumberRange
<1>3. PICK r \in Parsing!NumberRange : r = [min |-> s[n].min, max |-> high] /\ r.min = s[n].min
                                       /\ r.max = high
  <2>1. PICK x \in Parsing!Number : x = s[n].min
    BY <1>2
  <2>2. [min |-> x, max |-> high] \in Parsing!NumberRange
    BY DEF Parsing!NumberRange
  <2> QED  BY <2>1, <2>2
<1>4. [s[n] EXCEPT !.max = high] = r
  <2>1. \A x \in Parsing!NumberRange : [x EXCEPT !.max = high] = [min |-> x.min, max |-> high]
    BY DEF Parsing!NumberRange
  <2> QED  BY <1>2, <1>3, <2>1
<1>5. /\ t = [s EXCEPT ![n] = r] /\ t \in Seq(Parsing!NumberRange) /\ Len(t) = n /\ DOMAIN t = DOMAIN s
      /\ DOMAIN s = 1 .. n /\ t # <<>> /\ t[n] = r /\ \A k \in DOMAIN s : k # n => t[k] = s[k]
  <2>1. t = [s EXCEPT ![n] = r]
    BY <1>0, <1>1, <1>4
  <2>2. /\ DOMAIN s = 1 .. n /\ DOMAIN t = 1 .. n /\ n >= 1 /\ t[n] = r
        /\ \A k \in 1 .. n : k # n => t[k] = s[k]
    BY <1>1, <2>1
  <2>3. t \in Seq(Parsing!NumberRange)
    BY <1>1, <2>1
  <2>4. Len(t) = n /\ t # <<>>
    BY <1>1, <2>2, <2>3
  <2> QED  BY <2>1, <2>2, <2>3, <2>4
<1>6. low \in Nat /\ high \in Nat /\ s[n].min \in Nat /\ s[n].max \in Nat /\ s[n].min <= s[n].max
      /\ s[n].max + 1 = low
  BY <1>1, <1>2, NumberTyped DEF Parsing!Canonical
<1>7. Parsing!Canonical(t)
  <2>1. ASSUME NEW k \in DOMAIN t PROVE t[k].min <= t[k].max
    BY <1>3, <1>5, <1>6 DEF Parsing!Canonical
  <2>2. ASSUME NEW k \in DOMAIN t, NEW m \in DOMAIN t, k < m PROVE t[k].max + 1 < t[m].min
    <3>1. t[k] = s[k] /\ t[m].min = s[m].min
      BY <1>3, <1>5, <2>2
    <3>2. k \in DOMAIN s /\ m \in DOMAIN s
      BY <1>5
    <3> QED  BY <2>2, <3>1, <3>2 DEF Parsing!Canonical
  <2> QED  BY <2>1, <2>2 DEF Parsing!Canonical
<1>8. ASSUME NEW x \in Parsing!Number
      PROVE  (\E k \in DOMAIN t : Parsing!Within(x, t[k])) <=> (\E k \in DOMAIN s : Parsing!Within(x, s[k]))
               \/ x \in low .. high
  <2>1. Parsing!Within(x, r) <=> Parsing!Within(x, s[n]) \/ x \in low .. high
    BY <1>3, <1>6, NumberTyped DEF Parsing!Within
  <2>2. (\E k \in DOMAIN t : Parsing!Within(x, t[k])) <=> Parsing!Within(x, r) \/ \E k \in DOMAIN s : k # n
        /\ Parsing!Within(x, s[k])
    BY <1>1, <1>5
  <2> QED  BY <1>1, <2>1, <2>2
<1>9. low .. high \subseteq Parsing!Number
  BY <1>6, NumberTyped
<1>10. Added(t, s, low, high)
  BY <1>3, <1>5, <1>7, <1>8, <1>9 DEF Parsing!Numbers, Added
<1> QED  BY <1>0, <1>10 DEF Widened

\* The empty list names nothing.
LEMMA ParsingInit ==
  ASSUME Parsing!Assumption, Parsing!Init PROVE Parsing!IInv
<1> USE DEF Parsing!Init
<1>1. Parsing!TypeOK /\ items \in Seq(Parsing!Items)
  BY DEF Parsing!TypeOK, Parsing!Assumption
<1>2. Parsing!Canonical(out) /\ Parsing!Numbers(out) = {} /\ Len(out) = Len(items) /\ DOMAIN items = {}
  BY DEF Parsing!Canonical, Parsing!Numbers
<1>3. UNION {Parsing!Low(items[k]) .. Parsing!High(items[k]) : k \in DOMAIN items} = {}
  BY <1>2
<1> QED  BY <1>1, <1>2, <1>3 DEF Parsing!IInv, Parsing!ParsedSoFar, Parsing!NoEncodingIsRefused

\* An item that is taken.
LEMMA TakeStep ==
  ASSUME Parsing!Assumption, Parsing!IInv, syntax' = syntax, result = "running", Len(items) < MaxItems,
         NEW e \in Parsing!Items, items' = Append(items, e), Parsing!Take(e)
  PROVE  Parsing!TypeOK' /\ (items \in Seq(Parsing!Items))' /\ Parsing!ParsedSoFar'
<1>1. Parsing!TypeOK /\ items \in Seq(Parsing!Items) /\ Parsing!ParsedSoFar /\ syntax \in Parsing!Syntaxes
  BY DEF Parsing!IInv, Parsing!TypeOK
<1>2. Parsing!WellFormed(e) /\ Parsing!InOrder(e) /\ out' = Parsing!Extended(e) /\ result' = "running"
  BY DEF Parsing!Take
<1>3. PICK low, high \in Parsing!Number : low = Parsing!Low(e) /\ high = Parsing!High(e) /\ low <= high
  BY <1>1, <1>2, ItemTyped
<1>4. /\ out \in Seq(Parsing!NumberRange) /\ Parsing!Canonical(out) /\ low \in Nat /\ high \in Nat
  BY <1>1, <1>3, NumberTyped DEF Parsing!TypeOK, Parsing!ParsedSoFar
<1>5. /\ out' \in Seq(Parsing!NumberRange) /\ Parsing!Canonical(out') /\ out' # <<>>
         /\ out'[Len(out')].max = high
      /\ Parsing!Numbers(out') = Parsing!Numbers(out) \cup (low .. high)
  <2>1. CASE out # <<>> /\ out[Len(out)].max + 1 = low
    <3>1. out' = Widened(out, high)
      BY <1>2, <1>3, <2>1 DEF Parsing!Extended, Parsing!Last, Widened
    <3> QED  BY <1>3, <1>4, <2>1, <3>1, WidenLast DEF Added
  <2>2. CASE ~(out # <<>> /\ out[Len(out)].max + 1 = low)
    <3>1. out' = Joined(out, low, high)
      BY <1>2, <1>3, <2>2 DEF Parsing!Extended, Parsing!Last, Joined
    <3>2. out # <<>> => out[Len(out)].max + 1 < low
      <4> SUFFICES ASSUME out # <<>> PROVE out[Len(out)].max + 1 < low
        OBVIOUS
      <4>1. out[Len(out)].max \in Nat
        BY <1>4, EndsLast
      <4>2. low > out[Len(out)].max
        BY <1>2, <1>3, <1>4, <4>1 DEF Parsing!InOrder, Parsing!Last
      <4> QED  BY <1>4, <2>2, <4>1, <4>2
    <3> QED  BY <1>3, <1>4, <3>1, <3>2, AppendRange DEF Added
  <2> QED  BY <2>1, <2>2
<1>6. PICK n \in Nat : /\ n = Len(items) /\ DOMAIN items = 1 .. n /\ items' \in Seq(Parsing!Items)
                       /\ Len(items') = n + 1
                       /\ DOMAIN items' = 1 .. n + 1 /\ items'[n + 1] = e /\ items' # <<>>
                       /\ \A k \in 1 .. n : items'[k] = items[k]
  BY <1>1
<1>7. Parsing!TypeOK' /\ (items \in Seq(Parsing!Items))'
  BY <1>1, <1>2, <1>5, <1>6, SyntaxKept DEF Parsing!TypeOK, Parsing!Assumption
<1>8. CASE syntax \in Parsing!DER
  <2>1. Len(out) = n /\ DOMAIN out = 1 .. n
        /\ \A k \in 1 .. n : out[k] = Parsing!RangeOf(items[k]) /\ items[k] = Parsing!Encoding(out[k])
    BY <1>1, <1>4, <1>6, <1>8 DEF Parsing!ParsedSoFar
  <2>2. out' = Append(out, Parsing!RangeOf(e))
    <3>1. out # <<>> => out[Len(out)].max \in Nat
      BY <1>4, EndsLast
    <3>2. ~(out # <<>> /\ out[Len(out)].max + 1 = low)
      BY <1>2, <1>3, <1>4, <1>8, <3>1 DEF Parsing!InOrder, Parsing!Last
    <3> QED  BY <1>2, <1>3, <3>2 DEF Parsing!Extended, Parsing!Last, Parsing!RangeOf
  <2>3. e = Parsing!Encoding(Parsing!RangeOf(e))
    BY <1>2, <1>8, WellFormedIsEncoding DEF Parsing!RangeOf
  <2>4. Len(out') = n + 1 /\ out'[n + 1] = Parsing!RangeOf(e) /\ \A k \in 1 .. n : out'[k] = out[k]
    BY <1>4, <2>1, <2>2
  <2>5. \A k \in DOMAIN items' : out'[k] = Parsing!RangeOf(items'[k])
        /\ items'[k] = Parsing!Encoding(out'[k])
    BY <1>6, <2>1, <2>3, <2>4
  <2>6. (\A k \in DOMAIN items : out[k] = Parsing!RangeOf(items[k]) /\ items[k] = Parsing!Encoding(out[k]))'
    BY <2>5, SyntaxKept
  <2>7. (items # <<>> => Parsing!Last(out).max = Parsing!High(Parsing!Last(items)))'
    BY <1>3, <1>5, <1>6, SyntaxKept DEF Parsing!Last
  <2> QED  BY <1>5, <1>6, <1>7, <1>8, <2>4, <2>6, <2>7 DEF Parsing!ParsedSoFar
<1>9. CASE syntax \notin Parsing!DER
  <2>1. Parsing!Numbers(out) = UNION {Parsing!Low(items[k]) .. Parsing!High(items[k]) : k \in 1 .. n}
    BY <1>1, <1>6, <1>9 DEF Parsing!ParsedSoFar
  <2>2. Parsing!Numbers(out') = UNION {Parsing!Low(items'[k]) .. Parsing!High(items'[k]) : k \in 1 .. n + 1}
    <3>1. ASSUME NEW x
          PROVE  x \in UNION {Parsing!Low(items'[k]) .. Parsing!High(items'[k]) : k \in 1 .. n + 1}
                   <=> x \in Parsing!Numbers(out) \/ x \in low .. high
      <4>1. x \in Parsing!Numbers(out)
              <=> \E k \in 1 .. n : x \in Parsing!Low(items'[k]) .. Parsing!High(items'[k])
        BY <1>6, <2>1
      <4>2. x \in low .. high <=> x \in Parsing!Low(items'[n + 1]) .. Parsing!High(items'[n + 1])
        BY <1>3, <1>6
      <4>3. 1 .. n + 1 = (1 .. n) \cup {n + 1}
        OBVIOUS
      <4> QED  BY <4>1, <4>2, <4>3
    <3> QED  BY <1>5, <3>1
  <2>3. (Parsing!Numbers(out) = UNION {Parsing!Low(items[k]) .. Parsing!High(items[k]) : k \in DOMAIN items})'
    BY <1>6, <2>2, SyntaxKept
  <2>4. (items # <<>> => Parsing!Last(out).max = Parsing!High(Parsing!Last(items)))'
    BY <1>3, <1>5, <1>6, SyntaxKept DEF Parsing!Last
  <2> QED  BY <1>5, <1>6, <1>7, <1>9, <2>3, <2>4 DEF Parsing!ParsedSoFar
<1> QED  BY <1>7, <1>8, <1>9

\* An item that is refused is not one of an encoding.
LEMMA RefuseStep ==
  ASSUME Parsing!Assumption, Parsing!IInv, syntax' = syntax, result = "running", Len(items) < MaxItems,
         NEW e \in Parsing!Items, items' = Append(items, e), Parsing!RefuseItem(e)
  PROVE  Parsing!TypeOK' /\ (items \in Seq(Parsing!Items))' /\ Parsing!NoEncodingIsRefused'
<1>1. Parsing!TypeOK /\ items \in Seq(Parsing!Items) /\ Parsing!ParsedSoFar /\ syntax \in Parsing!Syntaxes
  BY DEF Parsing!IInv, Parsing!TypeOK
<1>2. ~(Parsing!WellFormed(e) /\ Parsing!InOrder(e)) /\ out' = <<>> /\ result' = "refused"
  BY DEF Parsing!RefuseItem
<1>3. PICK n \in Nat : /\ n = Len(items) /\ DOMAIN items = 1 .. n /\ items' \in Seq(Parsing!Items)
                       /\ Len(items') = n + 1
                       /\ DOMAIN items' = 1 .. n + 1 /\ items'[n + 1] = e /\ items' # <<>>
                       /\ \A k \in 1 .. n : items'[k] = items[k]
  BY <1>1
<1>4. Parsing!TypeOK' /\ (items \in Seq(Parsing!Items))'
  BY <1>1, <1>2, <1>3, SyntaxKept DEF Parsing!TypeOK, Parsing!Assumption
<1>5. ASSUME NEW s, s = [k \in DOMAIN items' |-> Parsing!RangeOf(items'[k])],
             s \in [DOMAIN items' -> Parsing!NumberRange],
             Parsing!Canonical(s), items' = Parsing!Encodings(s)'
      PROVE  FALSE
  <2>1. s[n + 1] = Parsing!RangeOf(e) /\ s[n + 1] \in Parsing!NumberRange /\ n + 1 \in DOMAIN s
        /\ s[n + 1].min <= s[n + 1].max
    <3>1. n + 1 \in DOMAIN items' /\ items'[n + 1] = e /\ DOMAIN s = DOMAIN items'
      BY <1>3, <1>5
    <3>2. s[n + 1] = Parsing!RangeOf(e)
      BY <1>5, <3>1
    <3>3. s[n + 1] \in Parsing!NumberRange
      BY <1>5, <3>1
    <3> QED  BY <1>5, <3>1, <3>2, <3>3 DEF Parsing!Canonical
  <2>2. PICK low, high \in Parsing!Number : low = Parsing!Low(e) /\ high = Parsing!High(e) /\ low <= high
    BY <2>1 DEF Parsing!RangeOf, Parsing!NumberRange
  <2>3. e = Parsing!Encoding(Parsing!RangeOf(e))
    BY <1>3, <1>5, <2>1, SyntaxKept DEF Parsing!Encodings
  <2>4. Parsing!WellFormed(e)
    BY <1>1, <2>2, <2>3, EncodingIsWellFormed DEF Parsing!RangeOf
  <2>5. out # <<>> /\ ~Parsing!InOrder(e)
    BY <1>2, <2>4 DEF Parsing!InOrder
  <2>6. items # <<>> /\ Parsing!Last(out).max = Parsing!High(items[n]) /\ n > 0
    BY <1>1, <1>3, <2>5 DEF Parsing!ParsedSoFar, Parsing!Last
  <2>7. s[n].max = Parsing!High(items[n]) /\ s[n].max + 1 < s[n + 1].min /\ s[n].max \in Parsing!Number
    <3>0. n \in DOMAIN items' /\ n + 1 \in DOMAIN items' /\ n < n + 1 /\ n \in 1 .. n
      BY <1>3, <2>6
    <3>1. n \in DOMAIN s /\ n + 1 \in DOMAIN s /\ n < n + 1 /\ items'[n] = items[n]
      BY <1>3, <1>5, <3>0
    <3>2. s[n] = Parsing!RangeOf(items[n]) /\ s[n] \in Parsing!NumberRange
      BY <1>5, <3>0, <3>1
    <3> QED  BY <1>5, <3>1, <3>2 DEF Parsing!Canonical, Parsing!RangeOf, Parsing!NumberRange
  <2>8. s[n + 1].min = low
    BY <2>1, <2>2 DEF Parsing!RangeOf
  <2> QED  BY <2>2, <2>5, <2>6, <2>7, <2>8, NumberTyped DEF Parsing!InOrder
<1>6. Parsing!NoEncodingIsRefused'
  <2> SUFFICES ASSUME NEW s, s = [k \in DOMAIN items |-> Parsing!RangeOf(items[k])]',
                      s \in [DOMAIN items' -> Parsing!NumberRange], Parsing!Canonical(s),
                      items' = Parsing!Encodings(s)'
               PROVE  FALSE
    BY DEF Parsing!NoEncodingIsRefused
  <2>1. s = [k \in DOMAIN items' |-> Parsing!RangeOf(items'[k])]
    BY SyntaxKept
  <2> QED  BY <1>5, <2>1
<1> QED  BY <1>4, <1>6

\* Every step of the parsers keeps the invariant.
LEMMA ParsingStep ==
  ASSUME Parsing!Assumption, Parsing!IInv, [Parsing!Next]_(Parsing!vars) PROVE Parsing!IInv'
<1>1. CASE Parsing!ReadItem
  <2>1. PICK e \in Parsing!Items : items' = Append(items, e) /\ (Parsing!Take(e) \/ Parsing!RefuseItem(e))
    BY <1>1 DEF Parsing!ReadItem
  <2>2. syntax' = syntax /\ result = "running" /\ Len(items) < MaxItems
    BY <1>1 DEF Parsing!ReadItem
  <2>3. CASE Parsing!Take(e)
    <3>1. Parsing!TypeOK' /\ (items \in Seq(Parsing!Items))' /\ Parsing!ParsedSoFar'
      BY <2>1, <2>2, <2>3, TakeStep
    <3>2. result' = "running"
      BY <2>2, <2>3 DEF Parsing!Take
    <3> QED  BY <3>1, <3>2 DEF Parsing!IInv, Parsing!NoEncodingIsRefused
  <2>4. CASE Parsing!RefuseItem(e)
    <3>1. Parsing!TypeOK' /\ (items \in Seq(Parsing!Items))' /\ Parsing!NoEncodingIsRefused'
      BY <2>1, <2>2, <2>4, RefuseStep
    <3>2. result' = "refused"
      BY <2>4 DEF Parsing!RefuseItem
    <3> QED  BY <3>1, <3>2 DEF Parsing!IInv
  <2> QED  BY <2>1, <2>3, <2>4
<1>2. CASE Parsing!End \/ UNCHANGED Parsing!vars
  <2>1. syntax' = syntax /\ items' = items /\ out' = out
    BY <1>2 DEF Parsing!End, Parsing!vars
  <2>2. result' \in {"running", "done", "refused"} /\ (result' # "refused" => result # "refused")
        /\ (result' = "refused" => result = "refused" \/ items = <<>>)
    BY <1>2 DEF Parsing!End, Parsing!vars, Parsing!IInv, Parsing!TypeOK
  <2>3. Parsing!TypeOK' /\ (items \in Seq(Parsing!Items))'
    BY <2>1, <2>2, SyntaxKept DEF Parsing!IInv, Parsing!TypeOK
  <2>4. result' # "refused" => Parsing!ParsedSoFar'
    <3> SUFFICES ASSUME Parsing!ParsedSoFar PROVE Parsing!ParsedSoFar'
      BY <2>2 DEF Parsing!IInv
    <3> QED  BY <2>1, SyntaxKept DEF Parsing!ParsedSoFar
  <2>5. Parsing!NoEncodingIsRefused'
    <3>1. CASE items = <<>>
      BY <2>1, <3>1 DEF Parsing!NoEncodingIsRefused
    <3>2. CASE items # <<>>
      BY <2>1, <2>2, <3>2, SyntaxKept DEF Parsing!NoEncodingIsRefused, Parsing!IInv, Parsing!Encodings
    <3> QED  BY <3>1, <3>2
  <2> QED  BY <2>3, <2>4, <2>5 DEF Parsing!IInv
<1> QED  BY <1>1, <1>2 DEF Parsing!Next

\* What is read is exact.
LEMMA ParsedIsExact ==
  ASSUME Parsing!IInv PROVE Parsing!OneEncoding /\ Parsing!TextMeansItsNumbers
         /\ Parsing!NoEncodingIsRefused
<1>1. ASSUME result = "done", syntax \in Parsing!DER PROVE items = Parsing!Encodings(out)
  <2>1. /\ Len(out) = Len(items) /\ out \in Seq(Parsing!NumberRange) /\ items \in Seq(Parsing!Items)
        /\ \A k \in DOMAIN items : items[k] = Parsing!Encoding(out[k])
    BY <1>1 DEF Parsing!IInv, Parsing!ParsedSoFar, Parsing!TypeOK
  <2>2. DOMAIN out = DOMAIN items /\ items = [k \in DOMAIN items |-> items[k]]
    BY <2>1
  <2> QED  BY <2>1, <2>2 DEF Parsing!Encodings
<1> QED  BY <1>1 DEF Parsing!IInv, Parsing!ParsedSoFar, Parsing!OneEncoding, Parsing!TextMeansItsNumbers

-----------------------------------------------------------------------------
(* The histories: their proofs, of this instance                           *)

Histories == INSTANCE ManifestProofs WITH Numbers <- ManifestNumbers

\* The two instances have the same assumptions, initial states and steps.
LEMMA HistoriesAssumed ==
  ASSUME History!NumbersAssumption, History!NoneAssumption
  PROVE  Histories!NumbersAssumption /\ Histories!NoneAssumption
  BY DEF History!NumbersAssumption, Histories!NumbersAssumption,
         History!NoneAssumption, Histories!NoneAssumption,
         History!Version, Histories!Version, History!History, Histories!History

LEMMA HistoriesInit == History!Init => Histories!Init
  BY DEF History!Init, Histories!Init, History!Empty, Histories!Empty

LEMMA HistoriesStep ==
  [History!Next]_(History!vars) => [Histories!Next]_(Histories!vars)
<1> USE DEF History!files, Histories!files, History!locals, Histories!locals, History!history,
            Histories!history,
            History!Goto, Histories!Goto, History!Empty, Histories!Empty
<1>1. ASSUME NEW p \in Procs
      PROVE  /\ \A x \in Anchors : History!Lock(p, x) => Histories!Lock(p, x)
             /\ \A x, y \in Anchors : History!LockFirst(p, x, y) => Histories!LockFirst(p, x, y)
             /\ History!LockSecond(p) => Histories!LockSecond(p)
             /\ History!LockRefused(p) => Histories!LockRefused(p)
             /\ History!LockSync(p) => Histories!LockSync(p)
  BY DEF History!Lock, Histories!Lock, History!LockFirst, Histories!LockFirst, History!LockSecond,
         Histories!LockSecond,
         History!LockRefused, Histories!LockRefused, History!LockSync, Histories!LockSync,
         History!MakeLock, Histories!MakeLock,
         History!First, Histories!First, History!Second, Histories!Second, History!SyncDirectory,
         Histories!SyncDirectory
<1>0. \A S : History!Cardinality(S) = Histories!Cardinality(S)
  BY DEF History!Cardinality, Histories!Cardinality
<1>2. ASSUME NEW p \in Procs, NEW x \in History!History, History!Remember(p, x)
      PROVE  Histories!Remember(p, x)
  <2> DEFINE h == History!Read(target[p])
             n == [m \in Manifests |-> IF x[m] # None THEN x[m] ELSE h[m]]
             k == [m \in Manifests |-> IF x[m] # None THEN x[m] ELSE Histories!Read(target[p])[m]]
  <2>1. /\ \A m \in History!Entries(x) : h[m] # None => ~History!Rollback(h[m], x[m])
        /\ History!Cardinality(History!Entries(n)) <= MaxEntries
        /\ pc[p] = "read" /\ pc' = [pc EXCEPT ![p] = "save"] /\ source[p] = None
        /\ seen' = [seen EXCEPT ![p] = x] /\ mem' = [mem EXCEPT ![p] = n]
        /\ UNCHANGED <<file, fileD, locks, source, target, held, reported, crashed>>
    BY <1>2 DEF History!Remember
  <2>2. /\ h = Histories!Read(target[p])
        /\ \A f : History!Entries(f) = Histories!Entries(f)
        /\ \A v, w : History!Rollback(v, w) = Histories!Rollback(v, w)
    BY DEF History!Read, Histories!Read, History!Entries, Histories!Entries, History!Rollback,
           Histories!Rollback
  <2>3. n = k
    BY <2>2
  <2>4. /\ \A m \in Histories!Entries(x) : Histories!Read(target[p])[m] # None
             => ~Histories!Rollback(Histories!Read(target[p])[m], x[m])
        /\ Histories!Cardinality(Histories!Entries(k)) <= MaxEntries /\ mem' = [mem EXCEPT ![p] = k]
    <3> HIDE DEF n, h, k
    <3> QED  BY <1>0, <2>1, <2>2, <2>3
  <2> QED  BY <2>1, <2>4 DEF Histories!Remember
<1>3. ASSUME NEW p \in Procs, History!Merge(p)
      PROVE  Histories!Merge(p)
  <2> DEFINE h == file[source[p]]
             o == History!Read(target[p])
             n == [m \in Manifests |-> History!Merged(h[m], o[m])]
             k == [m \in Manifests |-> Histories!Merged(h[m], Histories!Read(target[p])[m])]
  <2>1. /\ \A m \in History!Entries(h) : o[m] # None => ~History!Conflict(h[m], o[m])
        /\ History!Cardinality(History!Entries(n)) <= MaxEntries
        /\ pc[p] = "read" /\ pc' = [pc EXCEPT ![p] = "save"] /\ source[p] # None /\ h # None
        /\ seen' = [seen EXCEPT ![p] = History!Empty] /\ mem' = [mem EXCEPT ![p] = n]
        /\ UNCHANGED <<file, fileD, locks, source, target, held, reported, crashed>>
    BY <1>3 DEF History!Merge
  <2>2. /\ o = Histories!Read(target[p])
        /\ \A f : History!Entries(f) = Histories!Entries(f)
        /\ \A v, w : History!Conflict(v, w) = Histories!Conflict(v, w)
        /\ \A v, w : History!Merged(v, w) = Histories!Merged(v, w)
    BY DEF History!Read, Histories!Read, History!Entries, Histories!Entries, History!Conflict,
           Histories!Conflict,
           History!Merged, Histories!Merged
  <2>3. n = k
    BY <2>2
  <2>4. /\ \A m \in Histories!Entries(h) : Histories!Read(target[p])[m] # None
             => ~Histories!Conflict(h[m], Histories!Read(target[p])[m])
        /\ Histories!Cardinality(Histories!Entries(k)) <= MaxEntries /\ mem' = [mem EXCEPT ![p] = k]
    <3> HIDE DEF n, h, k, o
    <3> QED  BY <1>0, <2>1, <2>2, <2>3
  <2> QED  BY <2>1, <2>4 DEF Histories!Merge
<1>4. ASSUME NEW p \in Procs
      PROVE  /\ History!SaveRename(p) => Histories!SaveRename(p)
             /\ History!SaveSync(p) => Histories!SaveSync(p)
             /\ History!Refuse(p) => Histories!Refuse(p)
             /\ History!Unlock(p) => Histories!Unlock(p)
             /\ History!UnlockSync(p) => Histories!UnlockSync(p)
             /\ History!Kill(p) => Histories!Kill(p)
  BY DEF History!SaveRename, Histories!SaveRename, History!SaveSync, Histories!SaveSync, History!Refuse,
         Histories!Refuse,
         History!Unlock, Histories!Unlock, History!UnlockSync, Histories!UnlockSync, History!Kill,
         Histories!Kill,
         History!Later, Histories!Later, History!Committed, Histories!Committed, History!Forget,
         Histories!Forget,
         History!SyncOf, Histories!SyncOf, History!SyncDirectory, Histories!SyncDirectory, History!Reset,
         Histories!Reset
<1>5. History!PowerLoss => Histories!PowerLoss
  BY DEF History!PowerLoss, Histories!PowerLoss, History!Reset, Histories!Reset, History!History,
         Histories!History, 
         History!Version, Histories!Version
<1>6. History!RemoveStaleLock => Histories!RemoveStaleLock
  BY DEF History!RemoveStaleLock, Histories!RemoveStaleLock
<1>7. History!History = Histories!History
  BY DEF History!History, Histories!History, History!Version, Histories!Version
<1> USE DEF History!vars, Histories!vars
<1>8. UNCHANGED History!vars => UNCHANGED Histories!vars
  OBVIOUS
<1>9. ASSUME NEW p \in Procs PROVE History!Step(p) => Histories!Step(p)
  BY <1>1, <1>2, <1>3, <1>4, <1>7 DEF History!Step, Histories!Step
<1>10. History!Next => Histories!Next
  BY <1>5, <1>6, <1>9 DEF History!Next, Histories!Next
<1> QED  BY <1>8, <1>10
-----------------------------------------------------------------------------
(* Every decider                                                           *)

IInv ==
  /\ decider \in {"verification", "intersection", "parsing", "resources", "history"}
  /\ decider = "verification" => Paths!IInv
  /\ decider = "intersection" => Ranges!IInv
  /\ decider = "parsing" => Parsing!IInv
  /\ decider = "resources" => Resources!IInv
  /\ decider = "history" => Histories!IInv

\* The loops of the parsers and of intersection, the resolution of a path, its
\* verification and its history keep their invariants, for every value of the
\* constants.
THEOREM Inductive == Spec => []IInv
<1>1. Init => IInv
  <2> SUFFICES ASSUME Init PROVE IInv
    OBVIOUS
  <2>1. decider = "verification" => Paths!Init
    BY DEF Init
  <2>2. decider = "intersection" => Ranges!Init
    BY PartsAssumption DEF Init, Ranges!Init, Ranges!InitFrom
  <2>3. decider = "resources" => Resources!Init
    BY DEF Init
  <2>4. decider = "history" => Histories!IInv
    BY PartsAssumption, HistoriesAssumed, HistoriesInit, Histories!Initially DEF Init
  <2>5. decider = "parsing" => Parsing!Init
    BY DEF Init
  <2>6. decider \in {"verification", "intersection", "parsing", "resources", "history"}
    BY DEF Init
  <2> QED
    BY <2>1, <2>2, <2>3, <2>4, <2>5, <2>6, PartsAssumption, PathsInit, RangesInit, ResourcesInit,
       ParsingInit DEF IInv
<1>2. IInv /\ [Next]_vars => IInv'
  <2> SUFFICES ASSUME IInv, [Next]_vars PROVE IInv'
    OBVIOUS
  <2>1. decider' = decider
    BY DEF Next, vars
  <2>2. decider = "verification" => [Paths!Next]_(Paths!vars)
    BY DEF Next, vars, verification, Paths!vars
  <2>3. decider = "intersection" => [Ranges!Next]_(Ranges!vars)
    BY DEF Next, vars, intersection, Ranges!vars
  <2>4. decider = "resources" => [Resources!Next]_(Resources!vars)
    BY DEF Next, vars, resources, Resources!vars
  <2>5. decider = "history" => [History!Next]_(History!vars)
    BY DEF Next, vars, history, History!vars, History!files, History!locals, History!history
  <2>6. decider = "history" => Histories!IInv'
    BY <2>5, PartsAssumption, HistoriesAssumed, HistoriesStep, Histories!Preserved DEF IInv
  <2>7. decider = "parsing" => [Parsing!Next]_(Parsing!vars)
    BY DEF Next, vars, parsing, Parsing!vars
  <2> QED
    BY <2>1, <2>2, <2>3, <2>4, <2>6, <2>7, PartsAssumption, PathsStep, RangesStep, ResourcesStep,
       ParsingStep DEF IInv
<1> QED  BY <1>1, <1>2, PTL DEF Spec

\* The variables of every decider keep to their domains: no range holds a
\* number that its type cannot, a path's resources are of its families, and
\* neither the history nor a call knows of a manifest that was not published.
THEOREM TypeCorrect == Spec => []TypeOK
<1>1. IInv => TypeOK
  <2>1. Histories!IInv => History!TypeOK
    BY DEF Histories!IInv, Histories!TypeOK, History!TypeOK, History!History, Histories!History,
           History!Version, Histories!Version, History!Places, Histories!Places
  <2> QED  BY <2>1 DEF IInv, TypeOK, Paths!IInv, Ranges!IInv, Parsing!IInv, Resources!IInv
<1> QED  BY <1>1, Inductive, PTL

\* At every width of the numbers, what is issued within an allocation and
\* whether a certificate's ranges are its issuer's is exact, and what is read
\* from a certificate or a message is what it names, in its one encoding.
THEOREM ReadExactly == Spec => []NumbersAreExact
<1>1. ASSUME Ranges!IInv PROVE Ranges!IntersectionIsExact /\ Ranges!ContainmentIsExact
  <2> SUFFICES ASSUME loop = "intersect", result = "done"
               PROVE  /\ Ranges!Numbers(out) = Ranges!Numbers(a) \cap Ranges!Numbers(b)
                      /\ Ranges!Canonical(out)
    BY <1>1 DEF Ranges!IntersectionIsExact, Ranges!IInv
  <2>1. RangesTyped /\ Ranges!IntersectionSoFar /\ (ia > Len(a) \/ ib > Len(b))
    BY <1>1, RangesAreTyped, PartsAssumption DEF Ranges!IInv, Ranges!Ends
  <2>2. \/ Ranges!Numbers(a) \subseteq Ranges!Used(a, ia)
        \/ Ranges!Numbers(b) \subseteq Ranges!Used(b, ib)
    BY <2>1 DEF RangesTyped, Ranges!Numbers, Ranges!Used
  <2> QED  BY <2>1, <2>2 DEF Ranges!IntersectionSoFar
<1>2. IInv => NumbersAreExact
  BY <1>1, ParsedIsExact DEF IInv, NumbersAreExact
<1> QED  BY <1>2, Inductive, PTL

\* No certificate of a path of any length gives back what one above it had not,
\* and a path is refused only for what one of its certificates claims.
THEOREM NothingIsRegained == Spec => []ResolvedIsMeet
<1>1. IInv => ResolvedIsMeet
  BY DEF IInv, ResolvedIsMeet, Resources!IInv
<1> QED  BY <1>1, Inductive, PTL

\* No accepted path has a certificate whose revocation was published for as long
\* as a CRL is valid, for paths of any length and any order of reading.
THEOREM RevocationIsHeeded == Spec => []NoneLongRevoked
<1>1. IInv => NoneLongRevoked
  BY DEF IInv, NoneLongRevoked, Paths!IInv
<1> QED  BY <1>1, Inductive, PTL

\* A certificate proved to be retired is revoked and withdrawn, and no path with
\* it is accepted afterwards, by any caller.
THEOREM RetirementHoldsForever == Spec => RetirementHolds
<1>1. IInv => (decider = "verification" => Paths!RetirementIsReal)
  BY RetiredIsRevoked, PartsAssumption DEF IInv
<1>2. IInv /\ [Next]_vars =>
        [decider = "verification" =>
           (decider = "verification")' /\ Paths!RetirementIsFinal]_vars
  BY RetiredIsRefused, PartsAssumption DEF IInv, Next
<1> QED  BY <1>1, <1>2, Inductive, PTL DEF Spec, RetirementHolds

\* Whatever order the manifests of a path are remembered in, and whatever
\* crashes, the history never admits less than was reported.
THEOREM HistoryIsNeverRolledBack == Spec => []NoRollback
<1>1. IInv => NoRollback
  BY DEF IInv, NoRollback, Histories!IInv, History!NoRollback, Histories!NoRollback,
         History!Follows, Histories!Follows, History!Empty, Histories!Empty, History!Read, Histories!Read
<1> QED  BY <1>1, Inductive, PTL
=============================================================================
