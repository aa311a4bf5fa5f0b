------------------------------- MODULE MCImports -------------------------------
(* Every import tool on short files.  A file of a tool follows one of its       *)
(* shapes: steps are the lines it needs to say something, in their order, and   *)
(* free is how many other lines of the tool may come before, between and after  *)
(* them.  Any prefix of such a file is a file too.                              *)
EXTENDS ImportProperties, MCImportLines

Lines(t) ==
  CASE t = "ping" -> PingLines                      [] t = "traceroute" -> TracerouteLines
    [] t = "hosts" -> HostsLines                    [] t = "dig" -> DigLines
    [] t = "ip-addr" -> IpAddrLines                 [] t = "ip-route" -> IpRouteLines
    [] t = "ipconfig" -> IpconfigLines              [] t \in {"apk", "rpm", "dpkg"} -> PackageLines
    [] t = "mac-table" -> MacTableLines             [] t = "neighbor" -> NeighborLines
    [] t = "cdp" -> CdpLines                        [] t = "inventory" -> InventoryLines
    [] t = "arista" -> AristaLines                  [] t = "cisco-routes" -> CiscoRouteLines
    [] t = "juniper-routes" -> JuniperRouteLines    [] t = "brocade-routes" -> BrocadeRouteLines
    [] t = "brocade" -> BrocadeLines                [] t = "powerconnect" -> PowerConnectLines
    [] t = "wireless" -> WirelessLines              [] t = "vyos" -> VyosLines
    [] t = "iptables" -> IptablesLines
    [] t = "nmap" -> NmapLines                      [] t = "nessus" -> NessusLines
    [] t = "prowler" -> ProwlerLines                [] t = "pcap" -> PcapLines
    [] t = "instances" -> InstanceItems             [] t = "network-interfaces" -> NicItems
    [] t = "network-acls" -> NetworkAclItems        [] t = "security-groups" -> GroupItems
    [] t = "subnets" -> SubnetItems                 [] t = "vpcs" -> VpcItems
    [] t = "vpc-peering-connections" -> PeeringItems [] t = "route-tables" -> RouteTableItems
    [] t = "transit-gateway-attachments" -> AttachmentItems
    [] t = "cisco" -> CiscoLines                    [] t = "juniper-conf" -> ConfLines
    [] t = "juniper-set" -> SetLines                [] t = "juniper-xml" -> XmlDocs
    [] t = "f5" -> F5Docs                           [] t = "paloalto" -> PaloAltoDocs

\* The lines of a tool of the kind k
LOCAL Kind(t, ks) == {l \in Lines(t) : l.k \in ks}
LOCAL Steps(t, kinds) == [i \in DOMAIN kinds |-> Kind(t, {kinds[i]})]
LOCAL Opening(t, b) == {l \in Lines(t) : l.k = "open" /\ l.block = b}
LOCAL Free(n) == [steps |-> <<>>, free |-> n]
LOCAL Shape(t, kinds, n) == [steps |-> Steps(t, kinds), free |-> n]

LOCAL VyosShape(inner) ==
  [i \in DOMAIN inner |-> IF inner[i] \in {"close", "action", "address"} THEN Kind("vyos", {inner[i]})
                          ELSE Opening("vyos", inner[i])]

Shapes(t) ==
  CASE t = "dig" -> {Shape(t, <<"comment", "blank", "question", "blank", "section", "record", "blank", "server", "blank">>, 2)}
    [] t = "iptables" -> {Shape(t, <<"comment", "table", "chain", "rule", "rule", "commit", "comment">>, 1)}
    [] t = "ipconfig" -> {Shape(t, <<"title", "adapter", "ip", "blank", "adapter", "ip">>, 2)}
    [] t = "traceroute" -> {Shape(t, <<"linux trace", "hop", "hop">>, 2)}
    [] t = "vyos" -> {[steps |-> VyosShape(<<"firewall", "name", "rule", "action", "close", "close", "close">>), free |-> 1],
                      [steps |-> VyosShape(<<"interfaces", "interface", "address", "close", "interface", "address", "close", "close">>), free |-> 1],
                      Free(3)}
    [] t = "cdp" -> {Shape(t, <<"dashes", "device", "address", "port", "dashes">>, 2)}
    [] t = "ip-addr" -> {Shape(t, <<"iface", "link", "inet", "iface", "link", "inet">>, 1)}
    [] t = "cisco-routes" -> {Shape(t, <<"vrf", "route", "vrf">>, 2)}
    [] t = "juniper-routes" -> {Shape(t, <<"system", "instance", "route", "footer", "system", "instance", "route", "footer">>, 1)}
    [] t = "cisco" -> {Free(2), Shape(t, <<"server", "hostname", "server">>, 0),
                       Shape(t, <<"list", "rule", "rule", "list", "rule">>, 1),
                       Shape(t, <<"networks", "host", "list", "rule", "interface", "nameif", "apply">>, 1),
                       Shape(t, <<"interface", "address", "interface">>, 1),
                       Shape(t, <<"networks", "host", "interface", "alias address", "interface">>, 1)}
    [] t = "juniper-conf" -> {Free(3)}
    [] t = "ping" -> {Free(3), Shape(t, <<"linux ping", "linux reply", "linux summary", "linux ping", "linux summary">>, 1),
                      Shape(t, <<"windows ping", "windows reply", "windows summary", "windows ping", "windows summary">>, 1)}
    [] t \in {"prowler", "nmap"} -> {Free(2)}
    [] t \in {"juniper-xml", "f5", "paloalto"} -> {Free(1)}
    [] OTHER -> {Free(3)}

\* How many steps the lines have taken
LOCAL Taken(steps, ls) ==
  FoldLeft(LAMBDA n, l : IF n < Len(steps) /\ l \in steps[n + 1] THEN n + 1 ELSE n, 0, ls)

MCLinesOf(t, ls) ==
  UNION {LET n == Taken(f.steps, ls)
         IN  (IF n < Len(f.steps) /\ Len(ls) - n <= f.free THEN f.steps[n + 1] ELSE {})
             \union (IF Len(ls) - n < f.free THEN Lines(t) ELSE {}) : f \in Shapes(t)}
================================================================================
