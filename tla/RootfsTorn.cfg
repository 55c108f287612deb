SPECIFICATION Spec
CONSTANTS
  g = g
  b = b
  Images = {g, b}
  Factory = g
  Good = {g}
  Healthy = {g}
  Stamped = {}
  Named = {}
  Compat <- MCCompat
  Junk = junk
  Unknown = unknown
  Proc = {daemon}
  AttemptLimit = 3
  MaxStaged = 1
  Events = {"apply", "power"}
INVARIANTS
  OffReachesGoodSlot
CHECK_DEADLOCK FALSE
