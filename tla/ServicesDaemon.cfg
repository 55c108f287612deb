SPECIFICATION Spec
CONSTANTS
  Client = {c1, c2}
  Daemon = daemon
  Parts = {"dns", "dhcp4", "dhcp6", "ntp", "qos", "wireguard", "net", "suricata", "caddy", "tunnel"}
  Item = {"a", "b"}
  Refused = {"b"}
  Port = {"lan", "opt"}
  HasTimesyncd = TRUE
  Anchor = TRUE
  Wan = {"a"}
  Vlan <- MCVlan
  MaxRequests = 2
  MaxFaults = 1
  MaxRestarts = 1
INVARIANTS KeaAccepted InterfacesAgree
PROPERTIES Applied Reconciles ErrorsHarmless
CHECK_DEADLOCK FALSE
