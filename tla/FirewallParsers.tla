---------------------------- MODULE FirewallParsers ----------------------------
(***************************************************************************)
(* Importers that read a document as a whole: the answers of an F5 and the *)
(* configuration of a Palo Alto firewall.  A document is a record of what  *)
(* its parser selects from it.  The result is a map of logical systems,    *)
(* each of them saved as a device of its own.                              *)
(***************************************************************************)
EXTENDS ProbeParsers

NoSystem ==
  [ ifaces |-> Empty, hierarchies |-> <<>>, vrfs |-> Empty, services |-> <<>>, resolvers |-> <<>>,
    searchDomains |-> <<>>, zones |-> Empty, netSets |-> Empty, aclServices |-> <<>>, aclRules |-> <<>> ]

NoSystems == [mode |-> "open", systems |-> Empty, observations |-> NoObservations]

\* The maps' operator[]: what is not there is made.
System(p, name)    == Get(p.systems, name, NoSystem)
WithSystem(p, name, s) == [p EXCEPT !.systems = Put(@, name, s)]
IfaceOf(s, name)   == Get(s.ifaces, name, NoIfaceNet)
VrfOf(s, id)       == Get(s.vrfs, id, NoVrf)
Resolver(ip)       == [src |-> NoIp, dst |-> ip]
MadeService(name, protocol, port, ip) == [Service(name, ip) EXCEPT !.protocol = protocol, !.dstPorts = {<<port>>}]

SaveSystem(s, run, dev) ==
  ForAll(Range(s.ifaces), LAMBDA i : SaveIfaceNet(i, run, dev))
  \o ForEach(s.hierarchies, LAMBDA h : <<<<"insert_raw_device_interface_hierarchy", run, dev, h[1], h[2]>>>>)
  \o ForAll(Range(s.vrfs), LAMBDA v : SaveVrf(v, run, dev))
  \o ForEach(s.services, LAMBDA v : SaveService(v, run, dev))
  \o ForEach(s.resolvers, LAMBDA r : SaveDnsResolver(r, run, dev))
  \o ForEach(s.searchDomains, LAMBDA d : <<<<"insert_raw_device_dns_search_domain", run, dev, d>>>>)
  \o ForAll(Range(s.zones), LAMBDA z : SaveZone(z, run, dev))
  \o ForAll(Range(s.netSets), LAMBDA n : SaveNetSet(n, run, dev))
  \o ForEach(s.aclServices, LAMBDA v : SaveAclService(v, run, dev))
  \o ForEach(s.aclRules, LAMBDA r : SaveAclRuleService(r, run, dev))

\* The device's row has its name in lower case; everything else is saved under the name as it is.
SystemId(dev, name) == IF name = "" THEN dev ELSE dev \o ":" \o name
SystemsInserts(p, vendor, run, dev) ==
  SaveObservations(p.observations, run)
  \o ForAll(DOMAIN p.systems, LAMBDA name :
       SaveDevice(SetDeviceId(Device(vendor), SystemId(dev, name)), run)
       \o SaveSystem(p.systems[name], run, SystemId(dev, name)))

----------------------------------------------------------------------------
(* F5: a document is of one kind and has items *)

\* Parser::parseIpAddrVrfStr: some addresses have a name, and any may end in %<routing domain>.
F5Address(text) ==
  CASE text.name = "default-inet6" -> Ip(Any6, 0)
    [] text.name = "default"       -> Ip(Any4, 0)
    [] text.name = "any6"          -> Ip(Any6, 128)
    [] text.name = "any"           -> Ip(Any4, 32)
    [] OTHER -> text.ip

\* An item's interface is described, given to its routing domain, and changed as the kind says.
LOCAL F5Iface(p, item, domain, Change(_)) ==
  LET name == Lower(item.partition)
      s    == System(p, name)
      i    == [IfaceOf(s, item.name) EXCEPT !.name = Lower(item.name), !.description = item.path]
  IN  WithSystem(p, name,
        [s EXCEPT !.ifaces = Put(@, item.name, Change(i)),
                  !.vrfs   = Put(@, domain, AddVrfIface([VrfOf(s, domain) EXCEPT !.id = domain], item.name))])

ParseLtmVirtualAddress(p, item) ==
  F5Iface(p, item, item.address.domain,
          LAMBDA i : AddIfaceIp(i, SetNetmask(F5Address(item.address), F5Address(item.mask).addr)))

ParseNetArpNdp(p, item) ==
  F5Iface(p, item, item.address.domain,
          LAMBDA i : AddReachable(i, AddIp([NoMac EXCEPT !.mac = item.mac, !.up = TRUE], F5Address(item.address))))

ParseNetSelf(p, item) ==
  F5Iface(p, item, item.address.domain, LAMBDA i : AddIfaceIp(i, F5Address(item.address)))

\* A route without a routing domain is given to the instance named "", which is never saved.
ParseNetRoute(p, item) ==
  LET name   == Lower(item.partition)
      s      == System(p, name)
      domain == item.gateway.domain
      route  == [NoRoute EXCEPT !.dst = F5Address(item.network), !.hop = F5Address(item.gateway), !.vrf = domain]
  IN  WithSystem(p, name, [s EXCEPT !.vrfs = Put(@, domain, AddVrfRoute([VrfOf(s, domain) EXCEPT !.id = domain], route))])

\* A member that is not there ends the program.
LOCAL F5Members(kind) ==
  {"partition", "name", "path"}
  \union CASE kind = "virtual addresses" -> {"mask", "address"} [] kind = "neighbors" -> {"address", "mac"}
           [] kind = "selves" -> {"address"} [] kind = "routes" -> {"network", "gateway"}

F5Document(p, doc) ==
  IF doc.kind \notin {"virtual addresses", "neighbors", "selves", "routes"}
  THEN [p EXCEPT !.observations = AddUnsupported(@, <<doc.kind>>)]
  ELSE IF \E i \in DOMAIN doc.items : ~(F5Members(doc.kind) \subseteq DOMAIN doc.items[i]) THEN Fail(p)
  ELSE FoldLeft(LAMBDA q, item : CASE doc.kind = "virtual addresses" -> ParseLtmVirtualAddress(q, item)
                                   [] doc.kind = "neighbors" -> ParseNetArpNdp(q, item)
                                   [] doc.kind = "selves"    -> ParseNetSelf(q, item)
                                   [] doc.kind = "routes"    -> ParseNetRoute(q, item),
                p, doc.items)

F5Inserts(p, run, dev) == SystemsInserts(p, "F5", run, dev)

----------------------------------------------------------------------------
(* Palo Alto: interfaces and routers of the whole, and virtual systems that *)
(* import interfaces and add their zones, sets, services and rules to what *)
(* all of them share.  A selection is the sequence of the nodes it finds,  *)
(* and a node the sequence of its entries.                                 *)

LOCAL Entries(nodes) == FlattenSeq(nodes)
LOCAL Both(doc, v, section) == v[section] \o doc.shared[section]

\* Of two entries with a name, the later one in a node counts, but the earlier one of two nodes.
LOCAL Keyed(node, Value(_)) == FoldLeft(LAMBDA map, e : Put(map, e.name, Value(e)), Empty, node)
LOCAL Merged(nodes, Value(_)) == FoldLeft(LAMBDA map, node : map @@ Keyed(node, Value), Empty, nodes)

\* Parser::parseConfigDeviceconfig
ParseConfigDeviceconfig(s, doc) ==
  [s EXCEPT !.services = @ \o [i \in DOMAIN doc.dns |-> MadeService("dns", "udp", 53, doc.dns[i])]
                           \o [i \in DOMAIN doc.ntp |-> MadeService("ntp", "udp", 123, doc.ntp[i])],
            !.resolvers = @ \o [i \in DOMAIN doc.dns |-> Resolver(doc.dns[i])],
            !.searchDomains = @ \o doc.domains]

\* An address of an interface may be the name of one or more entries anywhere in the document.
LOCAL NamedAddresses(doc, name) ==
  LET nodes == Entries(doc.shared.addresses) \o FlattenSeq([i \in DOMAIN doc.vsys |-> Entries(doc.vsys[i].addresses)])
  IN  UNION {Range(e.nets) : e \in {e \in Range(nodes) : e.name = name}}

ParseConfigInterfaceEntry(doc, entry) ==
  LET ips == UNION {IF a.name = "" THEN {a.ip} ELSE NamedAddresses(doc, a.name) : a \in Range(entry.ips)}
      media == IF entry.kind \in {"loopback", "tunnel"} THEN entry.kind ELSE "ethernet"
      name  == IF entry.kind = "loopback" THEN "loopback" ELSE entry.name
  IN  FoldSet(LAMBDA ip, i : AddIfaceIp(i, ip), [IfaceNet(name) EXCEPT !.mediaType = media], ips)

\* Interfaces are kept under their names in lower case.
ParseConfigInterface(doc) ==
  FoldLeft(LAMBDA map, e : LET i == ParseConfigInterfaceEntry(doc, e) IN Put(map, i.name, i), Empty, doc.ifaces)

ParseConfigVirtualRouter(doc) ==
  LET Routed(r)   == [NoRoute EXCEPT !.dst = r.dst, !.hop = r.hop, !.iface = r.iface]
      Router(e)   == FoldLeft(LAMBDA v, r : AddVrfRoute(v, [Routed(r) EXCEPT !.vrf = e.name]),
                              FoldLeft(AddVrfIface, Vrf(e.name), e.ifaces), e.routes)
  IN  Keyed(doc.routers, Router)

ParseConfigZone(nodes) == Merged(nodes, LAMBDA e : FoldLeft(AddZoneIface, Zone(e.name), e.ifaces))

\* Addresses before groups; "any" takes the two default networks, on top of an entry of that name.
LOCAL Inclusion(ids) == [i \in DOMAIN ids |-> <<"", ids[i]>>]
ParseConfigAddress(doc, v) ==
  LET addresses == Merged(Both(doc, v, "addresses"),
                          LAMBDA e : [NetSet("", e.name) EXCEPT !.nets = e.nets, !.hostnames = e.names])
      groups    == Merged(Both(doc, v, "groups"), LAMBDA e : [NetSet("", e.name) EXCEPT !.includes = Inclusion(e.members)])
      sets      == addresses @@ groups
      any       == Get(sets, "any", NoNetSet)
  IN  Put(sets, "any", [any EXCEPT !.ns = "", !.id = "any", !.nets = @ \o <<Ip(Any4, 0), Ip(Any6, 0)>>])

LOCAL AllPorts == <<0, 65535>>
LOCAL AnyService == [AclService("any") EXCEPT !.protocol = "any", !.srcPorts = <<AllPorts>>, !.dstPorts = <<AllPorts>>]

\* A protocol with ports has them all unless it says which.
PortedService(id, protocol, srcPorts, dstPorts) ==
  LET Ports(given) == IF given # <<>> THEN given
                      ELSE IF protocol \in {"tcp", "udp", "sctp"} THEN <<AllPorts>> ELSE <<>>
  IN  [AclService(id) EXCEPT !.protocol = protocol, !.srcPorts = Ports(srcPorts), !.dstPorts = Ports(dstPorts)]

\* Every node of services brings the service "any"; without one there is none.
ParseConfigService(doc, v) ==
  LET Node(node) == <<AnyService>> \o [i \in DOMAIN node |->
                      PortedService(node[i].name, node[i].protocol, <<>>, node[i].ports)]
      nodes  == Both(doc, v, "services")
      groups == Entries(Both(doc, v, "serviceGroups"))
  IN  FlattenSeq([n \in DOMAIN nodes |-> Node(nodes[n])])
      \o [i \in DOMAIN groups |-> [AclService(groups[i].name) EXCEPT !.includes = groups[i].members]]

LOCAL OrAny(ids) == IF ids = <<>> THEN <<"any">> ELSE ids
LOCAL RuleTypes(rule) ==
  IF rule.types # <<>> THEN rule.types
  ELSE CASE rule.name = "intrazone-default" -> <<"intrazone">>
         [] rule.name = "interzone-default" -> <<"interzone">>
         [] OTHER -> <<"unspecified">>

\* "any" zone, and no zone, are all the zones of the system.
LOCAL ZoneIds(ids, zones) ==
  FlattenSeq([i \in DOMAIN OrAny(ids) |-> IF OrAny(ids)[i] = "any" THEN SetToSeq(zones) ELSE <<ids[i]>>])

LOCAL Blocking == {"deny", "drop", "reset-client", "reset-server", "reset-both"}

\* Parser::parseConfigRules: one rule for every combination, all with the entry's number.
ParseConfigRule(rule, priority, zones) ==
  LET base == [NoAclRule EXCEPT !.priority = priority, !.description = rule.name,
                                !.action = IF rule.action \in Blocking THEN "block" ELSE rule.action]
      Excluded(type, in, out) == (type = "intrazone" /\ in # out) \/ (type = "interzone" /\ in = out)
  IN  ForEach(ZoneIds(rule.from, zones), LAMBDA in : ForEach(ZoneIds(rule.to, zones), LAMBDA out :
      ForEach(RuleTypes(rule), LAMBDA type : When(~Excluded(type, in, out),
      ForEach(OrAny(rule.srcs), LAMBDA src : ForEach(OrAny(rule.dsts), LAMBDA dst :
      ForEach(OrAny(rule.services), LAMBDA service :
        <<[base EXCEPT !.incoming = in, !.outgoing = out, !.src = src, !.dst = dst, !.service = service]>>)))))))

\* Numbers start anew in every node, so a shared rule has the number of one of the system's own.
ParseConfigRulebase(doc, v, zones) ==
  LET Rules(node, first) == FlattenSeq([i \in DOMAIN node |-> ParseConfigRule(node[i], first + i - 1, zones)])
      security == Both(doc, v, "rules")  defaults == Both(doc, v, "defaultRules")
  IN  ForEach(security, LAMBDA node : Rules(node, 1000000)) \o ForEach(defaults, LAMBDA node : Rules(node, 2000000))

LOCAL Imports(doc, v) == Range(Entries(Both(doc, v, "imports")))

\* Parser::parseConfigVsys
ParseConfigVsys(p, doc, v) ==
  LET s     == ParseConfigDeviceconfig(System(p, v.name), doc)
      zones == s.zones @@ ParseConfigZone(Both(doc, v, "zones"))
      base  == System(p, "").ifaces
      names == UNION {Range(e.names) : e \in Range(Entries(Both(doc, v, "addresses")))}
      fqdns == AddNotable(p.observations, <<"FQDNs are used that must be resolved">>)
  IN  [WithSystem(p, v.name,
         [s EXCEPT !.ifaces = [n \in Imports(doc, v) |-> base[n]] @@ @, !.zones = zones,
                   !.netSets = @ @@ ParseConfigAddress(doc, v), !.aclServices = @ \o ParseConfigService(doc, v),
                   !.aclRules = @ \o ParseConfigRulebase(doc, v, DOMAIN zones)])
         EXCEPT !.observations = IF names = {} THEN @ ELSE fqdns]

\* An imported interface that is not there, or not under the name it is imported by, ends the program.
PaloAltoDocument(p, doc) ==
  LET whole == [ParseConfigDeviceconfig(NoSystem, doc)
                  EXCEPT !.ifaces = ParseConfigInterface(doc), !.vrfs = ParseConfigVirtualRouter(doc)]
      Missing(v) == Imports(doc, v) \ DOMAIN whole.ifaces
  IN  IF \E i \in DOMAIN doc.vsys : Missing(doc.vsys[i]) # {} THEN Fail(p)
      ELSE FoldLeft(LAMBDA q, v : ParseConfigVsys(q, doc, v), WithSystem(p, "", whole), doc.vsys)

PaloAltoInserts(p, run, dev) == SystemsInserts(p, "Palo Alto", run, dev)
================================================================================
