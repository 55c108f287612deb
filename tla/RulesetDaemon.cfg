SPECIFICATION LiveSpec
CONSTANTS
  Rule = {r}
  Rejected = {}
  Setting = {s0, s1}
  Default = s0
  Hardened = s1
  Alias = {}
  IP = {a}
  Proc = {t1}
  Nobody = nobody
  Ops = {"save_rules", "ai_rules", "settings", "nat", "aliases", "bootstrap", "list", "block", "unblock", "expire"}
  Events = {"nft", "disk", "restart"}
INVARIANTS
  KernelMatches
  BlocksPublished
PROPERTIES
  BlocksEnd
