SPECIFICATION Spec
CONSTANTS
  Handles = {g1}
  Values = {v1}
  None = None
  MaxSubmits = 3
  MaxTickets = 0
  MaxEdits = 0
  MaxCrashes = 0
CHECK_DEADLOCK FALSE
INVARIANT RepeatsBlocked
