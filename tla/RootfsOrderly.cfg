SPECIFICATION LiveSpec
CONSTANTS
  g = g
  b = b
  Images = {g, b}
  Factory = g
  Good = {g}
  Healthy = {g}
  Stamped = {}
  Named = {}
  Compat <- MCCompat
  Junk = junk
  Unknown = unknown
  Proc = {daemon}
  AttemptLimit = 3
  MaxStaged = 1
  Events = {"apply", "rollback", "sync", "identity", "confirm"}
INVARIANTS
  BootedIdentity
PROPERTIES
  ComesBack
CHECK_DEADLOCK FALSE
