SPECIFICATION Spec
CONSTANTS
  Run = "r1"
  Dev = "Edge"
  Tools = {
    "ping", "traceroute", "hosts", "dig", "ip-addr", "ip-route", "ipconfig",
    "apk", "rpm", "dpkg", "mac-table", "neighbor", "cdp", "inventory",
    "arista", "cisco-routes", "juniper-routes", "brocade-routes", "brocade", "powerconnect", "wireless",
    "vyos", "iptables", "nmap", "nessus", "prowler", "pcap", "instances",
    "network-interfaces", "network-acls", "security-groups", "subnets", "vpcs", "vpc-peering-connections", "route-tables",
    "transit-gateway-attachments", "cisco", "juniper-conf", "juniper-set", "juniper-xml", "f5", "paloalto"}
  LinesOf <- MCLinesOf
INVARIANTS
  LossesAreKnown
  AgainAddsNothing
  AbortLosesNothing
  RespondingIsJustified
  AddressesUnderTheirInterface
  RoutesUnderTheirTable
  RulesKeepTheirOrder
  RulesNameKnownObjects
  GlobalsReachInterfaces
