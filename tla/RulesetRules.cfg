SPECIFICATION LiveSpec
CONSTANTS
  Rule = {r, q, x}
  Rejected = {x}
  Setting = {s0, s1}
  Default = s0
  Hardened = s1
  Alias = {n}
  IP = {a}
  Proc = {t1, t2, t3}
  Nobody = nobody
  Ops = {"save_rules", "ai_rules"}
  Events = {"nft"}
INVARIANTS
  AckedKept
PROPERTIES
  RulesCommitAtomically
  OperationsEnd
