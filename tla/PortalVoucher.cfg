SPECIFICATION Spec
CONSTANTS
  Client = {c1}
  MaxUses = 2
  MaxId = 2
  Task = {t1, t2}
  Reaper = reaper
  Ops = {"authorize", "update"}
  Events = {"disk", "restart"}
VIEW MCView
INVARIANTS
  VoucherLimit
