SPECIFICATION LiveSpec
CONSTANTS
  Client = {c1}
  MaxUses = 1
  MaxId = 2
  Task = {t1, t2}
  Reaper = reaper
  Ops = {"authorize", "create", "logout", "revoke", "status", "update", "rules", "block"}
  Events = {"nft", "disk", "restart", "idle"}
CONSTRAINT InTurn
INVARIANTS
  KernelGates
  VoucherLimit
PROPERTIES
  ExpiredLeave
