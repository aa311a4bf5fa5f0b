---------------------------- MODULE NeighborParsers ----------------------------
(***************************************************************************)
(* The parsers of what switches and routers know of their neighbours: MAC  *)
(* address tables, ARP and neighbour discovery tables, CDP, and of their   *)
(* own hardware.  See the module ProbeParsers for the conventions.         *)
(***************************************************************************)
EXTENDS ProbeParsers

----------------------------------------------------------------------------
(* show mac address-table *)

MacTableStart == [mode |-> "open", links |-> <<>>]

\* The port may be a list of ports, which the tool takes apart; vlan is 0 where the table says N/A.
MacTableLine(p, l) ==
  IF l.k # "link" THEN p
  ELSE [p EXCEPT !.links = Append(@, [ports |-> l.ports, iface |->
         [AddReachable(IF l.vlan = 0 THEN NoIfaceNet ELSE AddVlan(NoIfaceNet, l.vlan), [NoMac EXCEPT !.mac = l.mac])
            EXCEPT !.partial = TRUE, !.up = TRUE]])]

MacTableInserts(p, run, dev) ==
  ForEach(p.links, LAMBDA link : ForEach(link.ports, LAMBDA port :
    SaveIfaceNet([link.iface EXCEPT !.name = ExpandCisco(port)], run, dev)))

----------------------------------------------------------------------------
(* show arp, show ipv6 neighbor: tables of several vendors in one file *)

NoMark == [set |-> FALSE]
NeighborStart ==
  [ mode |-> "between", table |-> "", data |-> <<>>, nameColumn |-> FALSE, trlvColumn |-> FALSE,
    arpMark |-> NoMark, ndpMark |-> NoMark ]

LOCAL Mark(p) == [set |-> TRUE, data |-> p.data, name |-> p.nameColumn, trlv |-> p.trlvColumn]
LOCAL BackTo(p, mark) ==
  IF mark.set THEN [p EXCEPT !.data = mark.data, !.nameColumn = mark.name, !.trlvColumn = mark.trlv] ELSE p

LOCAL ArpFirst == {"arista arp", "ios arp"}
LOCAL NdpFirst == {"juniper arp", "arista ndp", "ios ndp"}

\* Between tables the rule of the NX-OS header looks for its title in all the lines
\* ahead; where it finds it, what lies between was never read.
Searching(p, l) ==
  [p EXCEPT !.arpMark = IF p.mode = "between" /\ ~@.set /\ l.k \notin ArpFirst THEN Mark(p) ELSE @,
            !.ndpMark = IF p.mode = "between" /\ ~@.set /\ l.k \notin ArpFirst \union NdpFirst THEN Mark(p) ELSE @]

\* The two members that tell of an extra column are set by a header and never reset.
NeighborHeader(p, l) ==
  LET q == CASE l.k = "nxos arp" -> [BackTo(p, p.arpMark) EXCEPT !.arpMark = NoMark, !.ndpMark = NoMark]
             [] l.k = "nxos ndp" -> [BackTo(p, p.ndpMark) EXCEPT !.ndpMark = NoMark]
             [] OTHER -> p
  IN  [q EXCEPT !.mode = "table", !.table = l.k,
                !.nameColumn = @ \/ (l.k = "juniper arp" /\ l.extra),
                !.trlvColumn = @ \/ (l.k = "ios ndp" /\ l.extra)]

\* What is read as the interface: with an extra column expected and none there,
\* the word after it, and nothing at all in a table whose MAC address comes later.
NeighborIface(p, l) ==
  CASE p.table = "juniper arp" /\ p.nameColumn /\ ~l.extra -> l.next
    [] p.table = "ios ndp" /\ p.trlvColumn /\ ~l.extra     -> ""
    [] OTHER -> l.iface

\* In an ARP table of IOS an entry may lack its interface.
LOCAL IsEntry(p, l) == l.k = "entry" /\ (NeighborIface(p, l) # "" \/ p.table = "ios arp")

NeighborEntry(p, l) ==
  [p EXCEPT !.data = Append(@, AddReachable([NoIfaceNet EXCEPT !.name = Lower(NeighborIface(p, l))],
                                            AddIp([NoMac EXCEPT !.mac = l.mac], l.ip)))]

LOCAL NeighborHeaders == ArpFirst \union NdpFirst \union {"nxos arp", "nxos ndp"}

NeighborLine(p, l) ==
  CASE p.mode = "table" /\ IsEntry(p, l) -> NeighborEntry(p, l)
    [] l.k \in NeighborHeaders -> NeighborHeader(Searching([p EXCEPT !.mode = "between"], l), l)
    [] OTHER -> [Searching([p EXCEPT !.mode = "between"], l) EXCEPT !.table = ""]

NeighborInserts(p, run, dev) ==
  ForEach(p.data, LAMBDA i : SaveIfaceNet([i EXCEPT !.name = ExpandCisco(i.name)], run, dev))

----------------------------------------------------------------------------
(* show cdp neighbor *)

NoNeighbor == [host |-> "", iface |-> "", vendor |-> "", model |-> "", ips |-> <<>>]
CdpStart == [mode |-> "open", nd |-> NoNeighbor, ips |-> <<>>, devInfos |-> <<>>, ifaces |-> <<>>]

UpdateIpAddrs(p) ==
  [p EXCEPT !.ips = @ \o [n \in DOMAIN p.nd.ips |-> AddAlias(p.nd.ips[n], p.nd.host, "cdp import")]]

UpdateInterfaces(p) ==
  [p EXCEPT !.ifaces = Append(@, [device |-> FirstLabel(p.nd.host), iface |->
     FoldLeft(AddIfaceIp, [IfaceNet(p.nd.iface) EXCEPT !.partial = TRUE], p.nd.ips)])]

\* Without a model the vendor is taken for one.
UpdateDeviceInformation(p) ==
  LET d == SetDeviceId(NoDevice, FirstLabel(p.nd.host))
  IN  [p EXCEPT !.devInfos = Append(@, IF p.nd.model = "" THEN [d EXCEPT !.model = p.nd.vendor]
                                       ELSE [d EXCEPT !.vendor = Lower(p.nd.vendor), !.model = p.nd.model])]

\* Mutant: a neighbour begins with what is known of the last one.
CdpFinalizeKept(p) ==
  IF p.nd.host = "" THEN p ELSE UpdateDeviceInformation(UpdateInterfaces(UpdateIpAddrs([p EXCEPT !.nd.host = Lower(@)])))

\* A neighbour without a name is dropped with all that was read of it.
CdpFinalize(p) ==
  LET q == [p EXCEPT !.nd.host = Lower(@)]
  IN  [IF p.nd.host = "" THEN p ELSE UpdateDeviceInformation(UpdateInterfaces(UpdateIpAddrs(q)))
         EXCEPT !.nd = NoNeighbor]

LOCAL InDetail(p) == p.mode = "detail"

\* A detailed entry ends where the next rule of dashes, or the file, does.
CdpLine(p, l) ==
  CASE l.k = "dashes"   -> [(IF InDetail(p) THEN CdpFinalize(p) ELSE p) EXCEPT !.mode = "detail"]
    [] l.k = "device"   /\ InDetail(p) -> [p EXCEPT !.nd.host = l.name]
    [] l.k = "address"  /\ InDetail(p) -> [p EXCEPT !.nd.ips = Append(@, l.ip)]
    [] l.k = "platform" /\ InDetail(p) -> [p EXCEPT !.nd.vendor = l.vendor, !.nd.model = l.model]
    [] l.k = "port"     /\ InDetail(p) -> [p EXCEPT !.nd.iface = l.name]
    [] l.k = "codes"    /\ ~InDetail(p) -> [p EXCEPT !.mode = "entries"]
    [] l.k = "entry"    /\ p.mode = "entries" ->
         CdpFinalize([p EXCEPT !.nd.host = l.name, !.nd.model = l.model, !.nd.iface = l.port])
    [] OTHER -> IF p.mode = "entries" THEN [p EXCEPT !.mode = "open"] ELSE p

\* The last neighbour of a detailed listing ends with the file.
CdpEnd(p) == IF InDetail(p) THEN CdpFinalize(p) ELSE p

CdpInserts(p, run, dev) ==
  LET q == CdpEnd(p)
  IN  ForEach(q.ips, LAMBDA ip : SaveIp(ip, run, dev))
      \o ForEach(q.devInfos, LAMBDA d : SaveDevice(d, run))
      \o ForEach(q.ifaces, LAMBDA i : SaveIfaceNet(i.iface, run, i.device))

----------------------------------------------------------------------------
(* show inventory, of Cisco and of Arista *)

InventoryStart == [mode |-> "open", items |-> <<>>]
InventoryItem(l) ==
  [Device("Cisco") EXCEPT !.type = IF l.type \in {"Chassis", "chassis", "1"} THEN "chassis" ELSE Lower(l.type),
                          !.description = l.description, !.model = l.model, !.serial = l.serial]
\* Once something else follows an item the list is over; a later item is an error.
InventoryLine(p, l) ==
  CASE l.k = "item" /\ p.mode # "after" -> [p EXCEPT !.mode = "items", !.items = Append(@, InventoryItem(l))]
    [] l.k = "item" -> Fail(p)
    [] OTHER -> IF p.mode = "items" /\ l.k # "blank" THEN [p EXCEPT !.mode = "after"] ELSE p
InventoryInserts(p, run, dev) == ForEach(p.items, LAMBDA d : SaveDevice(SetDeviceId(d, dev), run))

AristaStart == [mode |-> "open", seen |-> Empty, devInfo |-> NoDevice]

\* emplace: a value read from an earlier table stays.
ExtractKeyValues(map, columns) == [k \in DOMAIN map \union DOMAIN columns |->
                                     IF k \in DOMAIN map THEN map[k] ELSE columns[k]]

AristaInformation(p) ==
  [p EXCEPT !.devInfo = [Device("Arista") EXCEPT !.model = Get(p.seen, "Model", ""),
                           !.description = Get(p.seen, "Description", ""),
                           !.serial = Get(p.seen, "Serial Number", "")]]

AristaLine(p, l) ==
  CASE l.k = "information" ->
         AristaInformation([p EXCEPT !.mode = "found", !.seen = FoldLeft(ExtractKeyValues, @, l.tables)])
    [] l.k \in {"power supply", "fan", "ports", "transceiver", "storage"} -> [p EXCEPT !.mode = "found"]
    [] l.k = "blank" -> p
    [] OTHER -> Fail(p)

AristaInserts(p, run, dev) == When(p.mode = "found", SaveDevice(SetDeviceId(p.devInfo, dev), run))
================================================================================
