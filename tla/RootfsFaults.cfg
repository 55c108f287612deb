SPECIFICATION Spec
CONSTANTS
  g = g
  b = b
  Images = {g, b}
  Factory = g
  Good = {g}
  Healthy = {g}
  Stamped = {}
  Named = {}
  Compat <- MCCompat
  Junk = junk
  Unknown = unknown
  Proc = {daemon}
  AttemptLimit = 1
  MaxStaged = 1
  Events = {"apply", "rollback", "power", "fail", "kill", "mislabel", "busy", "confirm"}
CONSTRAINT Unupset
INVARIANTS
  RunningIntact
  SomeSlotBoots
  Recoverable
CHECK_DEADLOCK FALSE
