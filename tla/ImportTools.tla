------------------------------ MODULE ImportTools ------------------------------
(***************************************************************************)
(* The import tools: the parser, the inserts and the vendor of each.  An   *)
(* AWS document is read one item at a time and has no other parser state.  *)
(***************************************************************************)
EXTENDS HostParsers, NeighborParsers, RouteParsers, ScanParsers, CiscoParser, JuniperParsers, JuniperXml, AwsDocuments

Start(t) ==
  CASE t = "ping"       -> PingStart          [] t = "traceroute" -> TracerouteStart
    [] t = "hosts"      -> HostsStart         [] t = "dig"        -> DigStart
    [] t = "ip-addr"    -> IpAddrStart        [] t = "ip-route"   -> IpRouteStart
    [] t = "ipconfig"   -> IpconfigStart      [] t = "dpkg"       -> DpkgStart
    [] t \in {"apk", "rpm"} -> PackagesStart  [] t = "mac-table"  -> MacTableStart
    [] t = "neighbor"   -> NeighborStart      [] t = "cdp"        -> CdpStart
    [] t = "inventory"  -> InventoryStart     [] t = "arista"     -> AristaStart
    [] t = "cisco-routes" -> CiscoRoutesStart [] t = "juniper-routes" -> JuniperRoutesStart
    [] t = "brocade-routes" -> BrocadeRoutesStart [] t = "brocade" -> BrocadeStart
    [] t = "powerconnect" -> PowerConnectStart [] t = "wireless"  -> WirelessStart
    [] t = "vyos"       -> VyosStart          [] t = "iptables"   -> IptablesStart
    [] t = "nmap"       -> NmapStart          [] t = "nessus"     -> NessusStart
    [] t = "prowler"    -> ProwlerStart       [] t = "pcap"       -> PcapStart
    [] t = "cisco"      -> CiscoStart         [] t = "juniper-conf" -> ConfStart
    [] t = "juniper-set" -> SetStart          [] t \in {"juniper-xml", "f5", "paloalto"} -> NoSystems
    [] t \in AwsKinds   -> [mode |-> "open", doc |-> <<>>]

Line(t, p, l) ==
  CASE t = "ping"       -> PingLine(p, l)         [] t = "traceroute" -> TracerouteLine(p, l)
    [] t = "hosts"      -> HostsLine(p, l)        [] t = "dig"        -> DigLine(p, l)
    [] t = "ip-addr"    -> IpAddrLine(p, l)       [] t = "ip-route"   -> IpRouteLine(p, l)
    [] t = "ipconfig"   -> IpconfigLine(p, l)     [] t = "dpkg"       -> DpkgLine(p, l)
    [] t = "apk"        -> ApkLine(p, l)          [] t = "rpm"        -> RpmLine(p, l)
    [] t = "mac-table"  -> MacTableLine(p, l)     [] t = "neighbor"   -> NeighborLine(p, l)
    [] t = "cdp"        -> CdpLine(p, l)          [] t = "inventory"  -> InventoryLine(p, l)
    [] t = "arista"     -> AristaLine(p, l)       [] t = "cisco-routes" -> CiscoRoutesLine(p, l)
    [] t = "juniper-routes" -> JuniperRoutesLine(p, l) [] t = "brocade-routes" -> BrocadeRoutesLine(p, l)
    [] t = "brocade"    -> BrocadeLine(p, l)      [] t = "powerconnect" -> PowerConnectLine(p, l)
    [] t = "wireless"   -> WirelessLine(p, l)     [] t = "vyos"       -> VyosLine(p, l)
    [] t = "iptables"   -> IptablesLine(p, l)
    [] t = "nmap"       -> NmapLine(p, l)         [] t = "nessus"     -> NessusLine(p, l)
    [] t = "prowler"    -> ProwlerLine(p, l)      [] t = "pcap"       -> PcapLine(p, l)
    [] t = "cisco"      -> CiscoLine(p, l)        [] t = "juniper-conf" -> ConfLine(p, l)
    [] t = "juniper-set" -> SetLine(p, l)         [] t = "juniper-xml" -> JuniperXmlDocument(p, l)
    [] t = "f5"         -> F5Document(p, l)       [] t = "paloalto"   -> PaloAltoDocument(p, l)
    [] t \in AwsKinds   -> IF AwsLacks(t, l) THEN Fail(p) ELSE [p EXCEPT !.doc = Append(@, l)]

MayEnd(t, p) ==
  CASE t = "ping"     -> PingMayEnd(p)      [] t = "traceroute"   -> TracerouteMayEnd(p)
    [] t = "dig"      -> DigMayEnd(p)       [] t = "ipconfig"     -> IpconfigMayEnd(p)
    [] t = "dpkg"     -> p.mode = "open"    [] t = "cisco-routes" -> CiscoRoutesMayEnd(p)
    [] t = "ip-addr"  -> p.mode # "link"    [] t = "vyos"         -> VyosMayEnd(p)
    [] t = "iptables" -> IptablesMayEnd(p)  [] t = "cisco"        -> CiscoMayEnd(p)
    [] t = "juniper-conf" -> ConfMayEnd(p)  [] t = "juniper-set"  -> SetMayEnd(p)
    [] OTHER -> TRUE

Inserts(t, p, run, dev) ==
  CASE t = "ping"       -> PingInserts(p, run, dev)      [] t = "traceroute" -> TracerouteInserts(p, run, dev)
    [] t = "hosts"      -> HostsInserts(p, run, dev)     [] t = "dig"        -> DigInserts(p, run, dev)
    [] t = "ip-addr"    -> IpAddrInserts(p, run, dev)    [] t = "ip-route"   -> IpRouteInserts(p, run, dev)
    [] t = "ipconfig"   -> IpconfigInserts(p, run, dev)
    [] t \in {"apk", "rpm", "dpkg"} -> PackagesInserts(p, run, dev)
    [] t = "mac-table"  -> MacTableInserts(p, run, dev)  [] t = "neighbor"   -> NeighborInserts(p, run, dev)
    [] t = "cdp"        -> CdpInserts(p, run, dev)       [] t = "inventory"  -> InventoryInserts(p, run, dev)
    [] t = "arista"     -> AristaInserts(p, run, dev)    [] t = "cisco-routes" -> CiscoRoutesInserts(p, run, dev)
    [] t = "juniper-routes" -> JuniperRoutesInserts(p, run, dev)
    [] t = "brocade-routes" -> BrocadeRoutesInserts(p, run, dev)
    [] t = "brocade"    -> BrocadeInserts(p, run, dev)   [] t = "powerconnect" -> PowerConnectInserts(p, run, dev)
    [] t = "wireless"   -> WirelessInserts(p, run, dev)  [] t = "vyos"       -> VyosInserts(p, run, dev)
    [] t = "iptables"   -> IptablesInserts(p, run, dev)
    [] t = "nmap"       -> NmapInserts(p, run, NoIp)     [] t = "nessus"     -> NessusInserts(p, run, dev)
    [] t = "prowler"    -> ProwlerInserts(p, run, dev)   [] t = "pcap"       -> PcapInserts(p, run, dev)
    [] t = "cisco"      -> CiscoInserts(p, run, dev)     [] t = "juniper-conf" -> ConfInserts(p, run, dev)
    [] t = "juniper-set" -> SetInserts(p, run, dev)      [] t = "juniper-xml" -> JuniperXmlInserts(p, run, dev)
    [] t = "f5"         -> F5Inserts(p, run, dev)        [] t = "paloalto"   -> PaloAltoInserts(p, run, dev)
    [] t \in AwsKinds   -> AwsInserts(t, p.doc, run, dev)

\* A vendor the tool's constructor gives the device
Vendor(t) == CASE t = "f5" -> "F5" [] t = "juniper-xml" -> "Juniper" [] t = "paloalto" -> "Palo Alto" [] OTHER -> ""

\* Tools that take no device: the option is there, but not used or not asked for.
Deviceless == AwsKinds \union {"nmap", "nessus", "prowler", "pcap"}

\* The members of the parser the results are made of.  A parser whose result is a list of what
\* each line gave has a result as soon as there is a line, even one it ignores; one that gives
\* an object for a file whatever it holds always has a result.
LOCAL ByLine == {"hosts", "ip-route", "mac-table", "juniper-routes", "brocade-routes"}
LOCAL Results(t) ==
  CASE t \in {"ping", "neighbor"}      -> {"data"}
    [] t = "traceroute"                -> {"hops"}
    [] t = "ip-addr"                   -> {"ifaces", "observations"}
    [] t = "ipconfig"                  -> {"devInfos", "ifaces", "routes", "services"}
    [] t \in {"apk", "rpm", "dpkg"}    -> {"packages", "observations"}
    [] t = "inventory"                 -> {"items"}
    [] t = "arista"                    -> {"mode"}
    [] t = "vyos"                      -> {"ifaces", "services", "networkBooks", "ruleBooks", "observations"}
    [] t = "iptables"                  -> {"networkBooks", "serviceBooks", "ruleBooks"}
    [] t = "prowler"                   -> {"v2Data", "v3Data"}
    [] t = "juniper-set"               -> {"routes", "ifaces", "nets", "svcs", "rules", "observations"}
    [] OTHER                           -> {}

\* Mutant: the comparison of the results looks at the interfaces only.
NothingReadOfInterfaces(t, lines, p) == "ifaces" \in Results(t) /\ p.ifaces = Start(t).ifaces

\* tResults == R(), for a parser that has read the lines
NothingRead(t, lines, p) ==
  CASE t \in ByLine       -> lines = <<>>
    [] t \in AwsKinds     -> AwsEmpty(t, p.doc)
    [] t = "cdp"          -> CdpEnd(p).devInfos = <<>>
    [] Results(t) = {}    -> FALSE
    [] OTHER              -> \A member \in Results(t) : p[member] = Start(t)[member]
================================================================================
