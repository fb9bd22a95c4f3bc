SPECIFICATION FairSpec
CONSTANTS
  None = None
  x = x
  y = y
  z = z
  foreign = foreign
  Calls = {x, y, z}
  Orgs = {"org"}
  Locks = {"lock"}
  Assocs = {"poc"}
  OrgMutations <- Additions
  Nil = Nil
CHECK_DEADLOCK FALSE
PROPERTIES NobodyStarves RecoveryCompletes
