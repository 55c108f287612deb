SPECIFICATION Spec
CONSTANTS
  Client = {c1, c2}
  Parts = {"policy", "login", "acme", "rules", "ddns", "notify"}
  Iface = {"lan", "wan"}
  Traffic <- MCTraffic
  IntentLists <- MCIntentLists
  Limits <- MCLimits
  Asked = {"", "lan"}
  Saved <- MCSaved
  Bootstraps <- MCBootstraps
  Appliance <- MCAppliance
  Window = 2
  Attempts = 2
  ScanPorts = 2
  SetId = {"et"}
  Watched <- MCWatched
  Rules = {"r1"}
  Latest = 2
  SomeLists <- MCSomeLists
  Jobs = {"rulesets", "dynamic_dns"}
  Plans <- MCPlans
  Late = 1
  Domain = {"a", "b"}
  AcmePlans <- MCAcmePlans
  Securities <- MCSecurities
  Passwords = {"x", "y"}
  FirstKeys <- MCFirstKeys
  DdnsPlans <- MCDdnsPlans
  Uplink = {"wan", "lte"}
  Address = {"none", "a", "b"}
  MailPlans <- MCMailPlans
  Room = 2
  Period = 3
  Budgets <- MCBudgets
INVARIANTS Undoable PairsMatch GuessLimit TokensHonoured StatusTrue MailsLimited
PROPERTIES ServicesAdmitted UpdatesLoaded
CHECK_DEADLOCK FALSE
