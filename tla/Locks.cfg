SPECIFICATION LocksSpec
CONSTANTS
  Procs = {p1, p2}
  Anchors = {1, 2}
  Manifests = {m1}
  Numbers = {1, 2}
  Times = {1, 2}
  Hashes = {h1, h2}
  MaxEntries = 1
  None = None
  Nil = Nil
  OrgMutations <- AllMutations
  Calls = {p1, p2, c3}
  Orgs = {o1}
  Locks = {h1, h2}
  Assocs = {a1, a2}
SYMMETRY Symmetry
CONSTRAINT OneAbandonedRequest
INVARIANTS TypeOK NoRollback LocksAreSound LockTypeOK LockIsSound NoLostAssociation
PROPERTY ImplementsWatermarks
