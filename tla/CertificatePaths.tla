------------------------- MODULE CertificatePaths -------------------------
(***************************************************************************)
(* What the provider decides about certificates: whether a path is         *)
(* current and a certificate retired, what resources a path leaves, which  *)
(* ranges a certificate or message names, how ranges intersect, and how    *)
(* the manifests of a path move the history.  The deciders share no state, *)
(* so a behaviour is one of one decider.                                   *)
(***************************************************************************)
EXTENDS Integers, FiniteSets, Sequences

CONSTANTS
  None,
  Callers, Depth, Validity, MaxPubs, MaxClock,        \* verification of paths
  Greatest, Operands,                                 \* intersection
  Bits, MaxItems,                                     \* parsing
  Families, Resource, MaxPath, Absent, Inherit,       \* resources of a path
  Procs, Anchors, Manifests, ManifestNumbers, Times, Hashes, MaxEntries \* history

VARIABLES
  decider,
  log, clock, mark, call, last, retired,       \* verification of paths
  loop, a, b, ia, ib,                                 \* intersection
  out, result,                                        \* of several
  syntax, items,                                      \* parsing
  path, parent,                                       \* resources of a path
  file, fileD, locks, pc, source, target, held, seen, mem, reported, crashed \* history

Paths == INSTANCE PathVerification
Ranges == INSTANCE ResourceIntersection WITH Limit <- Greatest, i <- ia, j <- ib
Parsing == INSTANCE ResourceParsing
Resources == INSTANCE ResourcePath
History == INSTANCE ManifestHistory WITH Numbers <- ManifestNumbers

\* The operands of an intersection are what the parsers return.
ASSUME PartsAssumption ==
  /\ Paths!Assumption /\ Paths!NoneAssumption
  /\ Ranges!RangesAssumption /\ Operands \subseteq Ranges!Canonicals
  /\ Parsing!Assumption /\ Resources!Assumption
  /\ History!NumbersAssumption /\ History!NoneAssumption

verification == <<log, clock, mark, call, last, retired>>
intersection == <<loop, a, b, ia, ib>>
parsing == <<syntax, items>>
resources == <<path, parent>>
history == <<file, fileD, locks, pc, source, target, held, seen, mem, reported, crashed>>
vars == <<decider, verification, intersection, out, result, parsing, resources, history>>

\* The variables that a decider does not have.
NoVerification ==
  /\ log = None /\ clock = None /\ mark = None /\ call = None /\ last = None
  /\ retired = None
NoIntersection == loop = None /\ a = None /\ b = None /\ ia = None /\ ib = None
NoParsing == syntax = None /\ items = None
NoResources == path = None /\ parent = None
NoHistory ==
  /\ file = None /\ fileD = None /\ locks = None /\ pc = None /\ source = None /\ target = None
  /\ held = None /\ seen = None /\ mem = None /\ reported = None /\ crashed = None

Init ==
  \/ /\ decider = "verification" /\ Paths!Init
     /\ NoIntersection /\ out = None /\ result = None /\ NoParsing /\ NoResources /\ NoHistory
  \/ /\ decider = "intersection" /\ Ranges!InitFrom(Operands)
     /\ NoVerification /\ NoParsing /\ NoResources /\ NoHistory
  \/ /\ decider = "parsing" /\ Parsing!Init
     /\ NoVerification /\ NoIntersection /\ NoResources /\ NoHistory
  \/ /\ decider = "resources" /\ Resources!Init
     /\ NoVerification /\ NoIntersection /\ out = None /\ NoParsing /\ NoHistory
  \/ /\ decider = "history" /\ History!Init
     /\ NoVerification /\ NoIntersection /\ out = None /\ result = None /\ NoParsing /\ NoResources

Next ==
  /\ UNCHANGED decider
  /\ \/ /\ decider = "verification" /\ Paths!Next
        /\ UNCHANGED <<intersection, out, result, parsing, resources, history>>
     \/ /\ decider = "intersection" /\ Ranges!Next
        /\ UNCHANGED <<verification, parsing, resources, history>>
     \/ /\ decider = "parsing" /\ Parsing!Next
        /\ UNCHANGED <<verification, intersection, resources, history>>
     \/ /\ decider = "resources" /\ Resources!Next
        /\ UNCHANGED <<verification, intersection, out, parsing, history>>
     \/ /\ decider = "history" /\ History!Next
        /\ UNCHANGED <<verification, intersection, out, result, parsing, resources>>
Spec == Init /\ [][Next]_vars

-----------------------------------------------------------------------------
(* Properties *)

\* The variables of the decider keep to their domains.
TypeOK ==
  CASE decider = "verification" -> Paths!TypeOK
    [] decider = "intersection" -> Ranges!TypeOK
    [] decider = "parsing" -> Parsing!TypeOK
    [] decider = "resources" -> Resources!TypeOK
    [] decider = "history" -> History!TypeOK

\* A path that is accepted has no certificate, at any level, whose revocation
\* its issuer had published for as long as a CRL is valid: however old what
\* the caches show and however the repositories were read one after another.
NoneLongRevoked == decider = "verification" => Paths!NoneLongRevoked

\* "Preventing rollback across the two workflows": a certificate proved to be
\* retired is revoked and withdrawn by its issuer, and no path with it is
\* accepted afterwards, by any caller, also one that had retrieved its
\* publications before the proof.
RetirementHolds ==
  [][decider = "verification" =>
       Paths!RetirementIsReal' /\ Paths!RetirementIsFinal]_vars

\* What is read from a certificate or message is exactly what it names, in
\* the one form that makes equal resources compare equal; intersection and
\* containment of ranges are those of the sets of numbers, also at the ends
\* of the number space.
NumbersAreExact ==
  /\ decider = "intersection" =>
       Ranges!IntersectionIsExact /\ Ranges!ContainmentIsExact
  /\ decider = "parsing" =>
       Parsing!OneEncoding /\ Parsing!TextMeansItsNumbers /\ Parsing!NoEncodingIsRefused

\* A certificate holds exactly what every certificate above it, and it
\* itself, allows: no certificate of a path, of whichever profile, gives back
\* what one above it had not, and a path is refused only for a claim it makes.
ResolvedIsMeet ==
  decider = "resources" => Resources!ResolvedIsMeet /\ Resources!RefusedForAClaim

\* Whatever order the manifests of one path are remembered in, and whichever
\* of them is a rollback, the history never admits less than was reported.
NoRollback == decider = "history" => History!NoRollback
=============================================================================
