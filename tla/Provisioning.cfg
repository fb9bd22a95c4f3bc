SPECIFICATION Spec
CONSTANTS
  k1 = k1
  all = all
  part = part
  Keys = {k1}
  Wants = {all, part}
  None = None
  MaxTime = 4
  MaxSerial = 2
  MaxPubs = 3
CONSTRAINT Bound
CHECK_DEADLOCK FALSE
INVARIANTS TypeOK Fenced
PROPERTIES EvidenceIsCurrent NothingUnmanaged
