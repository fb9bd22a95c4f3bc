SPECIFICATION Spec
CONSTANTS
  a = a
  b = b
  h1 = h1
  h2 = h2
  URIs = {a, b}
  Hashes = {h1, h2}
  Configs <- KeepsMember
  MaxTime = 3
  MaxEdits = 1
  Absent = Absent
  None = None
CHECK_DEADLOCK FALSE
INVARIANTS TypeOK DecisionsHold LandedIsSeen
PROPERTIES NoHalfBundle ImplementsSlot
