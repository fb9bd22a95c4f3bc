SPECIFICATION Spec
CONSTANTS
  p1 = p1
  p2 = p2
  u1 = u1
  u2 = u2
  k1 = k1
  k2 = k2
  k3 = k3
  Procs = {p1, p2}
  URIs = {u1}
  Hosts = {"a", "b"}
  Packs = {k1, k2, k3}
  None = None
  Minute = 1
  MaxPublications = 3
  MaxClock = 2
  MaxFaults = 1
SYMMETRY CacheSymmetry
CHECK_DEADLOCK FALSE
INVARIANTS TypeOK GenerationsAreWhole PollInterval
PROPERTIES SavesGoForward
