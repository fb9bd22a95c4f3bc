---------------------------- MODULE ResourcePath ----------------------------
(***************************************************************************)
(* The resources that a certificate path leaves to its last certificate:   *)
(* resolveRPKIResourcePath walks from the trust anchor down.  A            *)
(* certificate gives each family (AS numbers, IPv4, IPv6) a set, inherits  *)
(* it, or leaves it out; a certificate of the strict profile may not       *)
(* claim more than its issuer holds, and one of the reconsidered profile   *)
(* (RFC 8360) holds what is left of its claim.  What the loops over ranges *)
(* compute is ResourceIntersection's subject; here they are sets.          *)
(***************************************************************************)
EXTENDS Integers, Sequences

CONSTANTS
  Families,     \* AS numbers, IPv4 and IPv6
  Resource,     \* the numbers or addresses of a family
  MaxPath,      \* the longest path: 32
  Absent, Inherit

Assumption ==
  /\ MaxPath \in Nat /\ Absent # Inherit
  /\ \A S \in SUBSET Resource : S # Absent /\ S # Inherit

VARIABLES
  path,         \* the certificates read so far, the trust anchor first
  parent,       \* what the last of them holds
  result        \* "running", "done" or "refused"

vars == <<path, parent, result>>

Claims == (SUBSET Resource) \ {{}}     \* an explicit set is never empty
Certificate ==
  {c \in [reconsidered : BOOLEAN, claim : [Families -> Claims \cup {Absent, Inherit}]] :
     \E f \in Families : c.claim[f] # Absent}
Nothing == [f \in Families |-> Absent]
Last(s) == s[Len(s)]

Init == path = <<>> /\ parent = Nothing /\ result = "running"
-----------------------------------------------------------------------------
AnchorHolds_Always(c) == TRUE
AnchorHolds(c) == \A f \in Families : c.claim[f] # Inherit

\* resolveRPKIASSet and resolveRPKIIPSet: all that is claimed must be held.
Covered_IfHeld(c) ==
  \A f \in Families : c.claim[f] \notin {Absent, Inherit} /\ parent[f] # Absent
                        => c.claim[f] \subseteq parent[f]
Covered_Whole(c) ==
  \A f \in Families : c.claim[f] # Absent =>
    parent[f] # Absent /\ (c.claim[f] # Inherit => c.claim[f] = parent[f])
Covered(c) ==
  \A f \in Families : c.claim[f] # Absent =>
    parent[f] # Absent /\ (c.claim[f] # Inherit => c.claim[f] \subseteq parent[f])
Strict(c) == [f \in Families |-> IF c.claim[f] = Inherit THEN parent[f] ELSE c.claim[f]]

\* intersectRPKIIPSet: what is not held is dropped.
Reconsidered_Claim(c) ==
  [f \in Families |-> IF c.claim[f] = Absent THEN Absent
                      ELSE IF parent[f] = Absent THEN {} ELSE Strict(c)[f]]
Reconsidered(c) ==
  [f \in Families |-> IF c.claim[f] = Absent THEN Absent
                      ELSE IF parent[f] = Absent THEN {} ELSE Strict(c)[f] \cap parent[f]]

ReadAnchor ==
  /\ result = "running" /\ path = <<>> /\ MaxPath > 0
  /\ \E c \in Certificate :
       /\ path' = <<c>>
       /\ IF AnchorHolds(c) THEN parent' = c.claim /\ result' = result
                            ELSE parent' = Nothing /\ result' = "refused"
ReadCertificate ==
  /\ result = "running" /\ path # <<>> /\ Len(path) < MaxPath
  /\ \E c \in Certificate :
       /\ path' = Append(path, c)
       /\ \/ c.reconsidered /\ parent' = Reconsidered(c) /\ result' = result
          \/ ~c.reconsidered /\ Covered(c) /\ parent' = Strict(c) /\ result' = result
          \/ ~c.reconsidered /\ ~Covered(c) /\ parent' = Nothing /\ result' = "refused"
\* An empty path is refused.
End ==
  /\ result = "running" /\ result' = IF path = <<>> THEN "refused" ELSE "done"
  /\ UNCHANGED <<path, parent>>

Next == ReadAnchor \/ ReadCertificate \/ End
Spec == Init /\ [][Next]_vars
-----------------------------------------------------------------------------
(* Properties *)

\* The path is made of certificates and what it leaves is a set or nothing:
\* inheritance is always resolved.
TypeOK ==
  /\ path \in Seq(Certificate) /\ Len(path) <= MaxPath
  /\ parent = [f \in Families |-> parent[f]]
  /\ \A f \in Families :
       parent[f] # Absent => parent[f] # Inherit /\ parent[f] \subseteq Resource
  /\ result \in {"running", "done", "refused"}

\* What a certificate's claim allows of a family.
Allows(claim) ==
  CASE claim = Absent -> {} [] claim = Inherit -> Resource [] OTHER -> claim
Held(f) == IF parent[f] = Absent THEN {} ELSE parent[f]
Meet(f, n) == {x \in Resource : \A k \in 1 .. n : x \in Allows(path[k].claim[f])}

\* A certificate holds exactly what every certificate above it, and it
\* itself, allows: no certificate of a path, of whichever profile, gives back
\* what one above it had not.
ResolvedIsMeet ==
  result # "refused" /\ path # <<>> => \A f \in Families : Held(f) = Meet(f, Len(path))

\* A path is refused only for a trust anchor that inherits, or a strict
\* certificate that names a family its issuer does not, or more than it holds.
RefusedForAClaim ==
  result = "refused" /\ path # <<>> =>
    LET c == Last(path) IN
    IF Len(path) = 1 THEN \E f \in Families : c.claim[f] = Inherit
    ELSE /\ ~c.reconsidered
         /\ \E f \in Families :
              \/ c.claim[f] # Absent /\ path[Len(path) - 1].claim[f] = Absent
              \/ ~(Allows(c.claim[f]) \cap Resource \subseteq Meet(f, Len(path) - 1))
                   /\ c.claim[f] # Inherit
-----------------------------------------------------------------------------
(* The inductive invariant: a family is absent exactly where the last      *)
(* certificate leaves it out, so what is left of one that an issuer above  *)
(* did not have is nothing, and not again the whole.                       *)
AbsentAsClaimed ==
  /\ path = <<>> => parent = Nothing /\ result # "done"
  /\ result # "refused" /\ path # <<>> =>
       \A f \in Families : parent[f] = Absent <=> Last(path).claim[f] = Absent

IInv == TypeOK /\ AbsentAsClaimed /\ ResolvedIsMeet /\ RefusedForAClaim
=============================================================================
