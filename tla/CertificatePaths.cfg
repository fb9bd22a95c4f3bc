SPECIFICATION Spec
CONSTANTS
  None = None
  Absent = Absent
  Inherit = Inherit
  Callers = {x, y}
  Depth = 2
  Validity = 2
  MaxPubs = 2
  MaxClock = 2
  Greatest = 6
  Operands <- AllCanonicals
  Bits = 3
  MaxItems = 4
  Families = {x, y}
  Resource = {r1, r2}
  MaxPath = 3
  Procs = {x, y}
  Anchors = {1}
  Manifests = {m1, m2, m3}
  ManifestNumbers = {1, 2}
  Times = {1, 2}
  Hashes = {r1}
  MaxEntries = 2
SYMMETRY Symmetry
CONSTRAINT Bound
CHECK_DEADLOCK FALSE
INVARIANTS TypeOK NoneLongRevoked NumbersAreExact ResolvedIsMeet NoRollback
PROPERTY RetirementHolds
