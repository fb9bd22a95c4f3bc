SPECIFICATION FairSpec
CONSTANTS
  p1 = p1
  p2 = p2
  Procs = {p1, p2}
  ReadOps = {"publication-list"}
  MutationOps = {"publication-batch"}
  Bodies = {"b"}
  Replies = {"r"}
  MaxTime = 2
  None = None
INVARIANTS TypeOK LeaseIsSound SurvivesCrash
PROPERTIES ImplementsSlot CallsEnd
