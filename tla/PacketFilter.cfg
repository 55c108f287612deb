SPECIFICATION FilterSpec
CONSTANTS
  Iface <- MCIface
  Host <- MCHost
  SixHost <- MCSixHost
  Self <- MCSelf
  Port <- MCPort
  Wan <- MCWan
  Blocked <- MCBlocked
  Route <- MCRoute
  AnyIface = any
  FirewallRules <- MCRules
  NatRules <- MCNatRules
  Settings <- MCSettings
  Systems <- MCSystems
  Portals <- MCPortals
  Aliases <- MCAliases
  Packets <- MCPackets
  Starts <- MCStarts
  MaxEdits = 2
INVARIANTS
  AdminReachable
  RulesDecide
  PortalGate
  NatDecides
