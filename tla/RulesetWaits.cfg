SPECIFICATION LiveSpec
CONSTANTS
  Rule = {r}
  Rejected = {}
  Setting = {s0, s1}
  Default = s0
  Hardened = s1
  Alias = {}
  IP = {}
  Proc = {t1, t2}
  Nobody = nobody
  Ops = {"save_rules", "bootstrap", "list"}
  Events = {"nft", "disk", "restart"}
PROPERTIES
  OperationsEnd
