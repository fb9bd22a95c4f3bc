SPECIFICATION Spec
CONSTANTS
  a = a
  b = b
  h1 = h1
  h2 = h2
  URIs = {a, b}
  Hashes = {h1, h2}
  Configs <- AddsMember
  MaxTime = 4
  MaxEdits = 0
  Absent = Absent
  None = None
CHECK_DEADLOCK FALSE
PROPERTY RefreshedUpdateFits
