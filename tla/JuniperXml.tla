------------------------------- MODULE JuniperXml -------------------------------
(***************************************************************************)
(* The importer of a Juniper device's XML answers.  A document is the      *)
(* sequence of the answers under /rpc-reply; a configuration has groups    *)
(* and logical systems that are configurations themselves.  What a device  *)
(* has marked inactive is never selected and so never in a document.  An   *)
(* element that may be absent is a sequence of at most one value, or "".   *)
(***************************************************************************)
EXTENDS FirewallParsers

LOCAL DefaultVrf == ""

\* The interface of a name is made when it is not there, and changed as Change says.
LOCAL Named(ifaces, name, Change(_)) ==
  Put(ifaces, name, Change([Get(ifaces, name, NoIfaceNet) EXCEPT !.name = Lower(name)]))
LOCAL AsItIs(i) == i
LOCAL WithMedia(i, media) == IF media = "" THEN i ELSE [i EXCEPT !.mediaType = Lower(media)]

\* An address of a network learned from the device: a MAC that is one, and its IP
LOCAL Peer(e) == FoldLeft(AddIp, [NoMac EXCEPT !.mac = e.mac], e.ips)
LOCAL WithPeer(i, m) == IF m.mac = "" THEN i ELSE AddReachable(i, m)

----------------------------------------------------------------------------
(* Parser::parseConfigInterfaces: ranges, then interfaces with their units *)

LOCAL Joined(s, under, over, made) ==
  [s EXCEPT !.ifaces = Named(@, made, AsItIs), !.hierarchies = Append(@, <<under, over>>)]

LOCAL WithParents(s, name, parents) == FoldLeft(LAMBDA t, parent : Joined(t, name, parent, parent), s, parents)

LOCAL InterfaceRange(s, range) ==
  FoldLeft(LAMBDA t, m :
             WithParents([t EXCEPT !.ifaces = Named(@, m.name, LAMBDA i :
                                     WithMedia([i EXCEPT !.description = range.name], m.media))],
                         m.name, range.parents),
           s, range.members)

LOCAL Described(i, e) == IF e.description = "" THEN i ELSE [i EXCEPT !.description = e.description]

LOCAL UnitAddress(i, a) ==
  FoldLeft(LAMBDA j, arp : WithPeer(j, [Peer(arp) EXCEPT !.up = TRUE]), AddIfaceIp(i, a.ip), a.arps)

LOCAL UnitOf(s, iface, unit) ==
  LET name == iface.name \o "." \o unit.name
      Change(i) == LET j == Described(WithMedia(i, iface.media), unit)
                       k == IF unit.disable \/ iface.disable THEN [j EXCEPT !.up = FALSE] ELSE j
                   IN  FoldLeft(UnitAddress, FoldLeft(AddVlan, k, unit.vlan), unit.addresses)
  IN  [s EXCEPT !.ifaces = Named(@, name, Change), !.hierarchies = Append(@, <<iface.name, name>>)]

LOCAL InterfaceOf(s, iface) ==
  LET Change(i) == LET j == Described(WithMedia(i, iface.media), iface)
                   IN  IF iface.disable THEN [j EXCEPT !.up = FALSE] ELSE j
      physical == [s EXCEPT !.ifaces = Named(@, iface.name, Change)]
      fabric   == FoldLeft(LAMBDA t, m : Joined(t, m, iface.name, m),
                           WithParents(physical, iface.name, iface.parents), iface.members)
  IN  FoldLeft(LAMBDA t, unit : UnitOf(t, iface, unit), fabric, iface.units)

\* An interface the system already has is kept; the hierarchies of both are.
ParseConfigInterfaces(s, node) ==
  LET parsed == FoldLeft(InterfaceOf, FoldLeft(InterfaceRange, NoSystem, node.ranges), node.interfaces)
  IN  [s EXCEPT !.ifaces = @ @@ parsed.ifaces, !.hierarchies = @ \o parsed.hierarchies]

----------------------------------------------------------------------------
(* Routing *)

\* A table of a routing instance, [vrf, table]
LOCAL ToTable(r, table) == FoldLeft(LAMBDA q, t : [q EXCEPT !.nextVrf = t.vrf, !.nextTable = t.table], r, table)
LOCAL Null(r, name) == [r EXCEPT !.iface = name, !.nullRoute = TRUE]

\* Parser::parseConfigRoutingOptions
LOCAL StaticRoute(e, vrf) ==
  LET route == [NoRoute EXCEPT !.dst = e.dst, !.hop = e.hop, !.vrf = vrf]
  IN  ToTable(IF e.discard THEN Null(route, "discard") ELSE route, e.table)
ParseConfigRoutingOptions(v, routes, vrf) == FoldLeft(LAMBDA w, e : AddVrfRoute(w, StaticRoute(e, vrf)), v, routes)

\* Parser::parseConfigRoutingInstances: only interfaces the configuration has
LOCAL Instance(vrfs, e, ifaces) ==
  LET v == [Get(vrfs, e.name, NoVrf) EXCEPT !.id = e.name]
      known == SelectSeq(e.ifaces, LAMBDA name : name \in DOMAIN ifaces)
  IN  Put(vrfs, e.name, ParseConfigRoutingOptions(FoldLeft(AddVrfIface, v, known), e.routes, e.name))
ParseConfigRoutingInstances(node, ifaces) ==
  FoldLeft(LAMBDA vrfs, e : Instance(vrfs, e, ifaces), Put(Empty, DefaultVrf, Vrf(DefaultVrf)), node)
LOCAL Undefined(node, ifaces) ==
  UNION {{<<e.name, name>> : name \in Range(e.ifaces) \ DOMAIN ifaces} : e \in Range(node)}

LOCAL MergeVrfs(vrfs, parsed) ==
  [id \in DOMAIN vrfs \union DOMAIN parsed |->
     IF id \notin DOMAIN vrfs THEN parsed[id]
     ELSE IF id \in DOMAIN parsed THEN MergeVrf(vrfs[id], parsed[id]) ELSE vrfs[id]]

LOCAL Routing(s, c) ==
  LET merged == FoldLeft(LAMBDA vrfs, node : MergeVrfs(vrfs, ParseConfigRoutingInstances(node, s.ifaces)), s.vrfs, c.instances)
      Default(vrfs, node) == Put(vrfs, DefaultVrf,
                                 ParseConfigRoutingOptions(Get(vrfs, DefaultVrf, NoVrf), node, DefaultVrf))
  IN  [s EXCEPT !.vrfs = FoldLeft(Default, merged, c.routing)]

----------------------------------------------------------------------------
(* Zones, address books, applications and policies *)

LOCAL ParseConfigZones(node) ==
  FoldLeft(LAMBDA zones, e : Put(zones, e.name,
             FoldLeft(AddZoneIface, [Get(zones, e.name, NoZone) EXCEPT !.id = e.name], e.ifaces)), Empty, node)

LOCAL Zones(s, c) ==
  LET parsed == FoldLeft(LAMBDA zones, node : zones @@ ParseConfigZones(node), s.zones, c.zones)
      self   == AddZoneIface([Get(parsed, "junos-host", NoZone) EXCEPT !.id = "junos-host"], "_self_")
      any    == [Get(parsed, "any", NoZone) EXCEPT !.id = "any"]
      all    == SetToSeq(DOMAIN parsed \ {"any", "junos-host"})
  IN  [s EXCEPT !.zones = ("junos-host" :> self) @@ ("any" :> [any EXCEPT !.includes = @ \o all]) @@ parsed]

\* Parser::parseConfigAddressBook.  What a set includes is looked for in the namespace "".
LOCAL BookEntry(sets, book, name, Change(_)) ==
  Put(sets, <<book, name>>, Change([Get(sets, <<book, name>>, NoNetSet) EXCEPT !.ns = book, !.id = name]))
LOCAL Including(set, names) == [set EXCEPT !.includes = @ \o [i \in DOMAIN names |-> <<"", names[i]>>]]
ParseConfigAddressBook(book) ==
  LET Address(sets, e) == BookEntry(sets, book.name, e.name, LAMBDA set :
                            [set EXCEPT !.nets = @ \o e.nets, !.hostnames = @ \o e.names])
      Set(sets, e)     == BookEntry(sets, book.name, e.name, LAMBDA set : Including(set, e.members))
  IN  FoldLeft(Set, FoldLeft(Address, Empty, book.addresses), book.sets)

\* A namespace that is already there keeps its sets and takes none of a second book's.
LOCAL Books(s, c) ==
  LET Spaces(sets) == {key[1] : key \in DOMAIN sets}
      Take(t, book) == IF book.name \in t.spaces THEN t
                       ELSE [spaces |-> t.spaces \union {book.name}, sets |-> t.sets @@ ParseConfigAddressBook(book)]
      t == FoldLeft(Take, [spaces |-> Spaces(s.netSets), sets |-> s.netSets], c.books)
      Defaults(sets, space) ==
        BookEntry(BookEntry(BookEntry(sets,
          space, "any-ipv4", LAMBDA set : [set EXCEPT !.nets = Append(@, Ip(Any4, 0))]),
          space, "any-ipv6", LAMBDA set : [set EXCEPT !.nets = Append(@, Ip(Any6, 0))]),
          space, "any", LAMBDA set : Including(set, <<"any-ipv4", "any-ipv6">>))
  IN  [s EXCEPT !.netSets = FoldSet(LAMBDA space, sets : Defaults(sets, space), t.sets, t.spaces \union {"global"})]

\* Parser::parseConfigApplicationOrTerm: without a protocol there is no service; terms
\* give services of the application's name.
LOCAL OfApplication(name, e) ==
  IF e.protocol = "" THEN <<>> ELSE <<PortedService(name, e.protocol, e.srcPorts, e.dstPorts)>>
ParseConfigApplications(node) ==
  ForEach(node.applications, LAMBDA e : OfApplication(e.name, e) \o ForEach(e.terms, LAMBDA t : OfApplication(e.name, t)))
  \o [i \in DOMAIN node.sets |-> [AclService(node.sets[i].name) EXCEPT !.includes = node.sets[i].members]]

LOCAL OrAny(ids) == IF ids = <<>> THEN <<"any">> ELSE ids

\* Parser::parseConfigPolicy: one rule for every combination of what matches
ParseConfigPolicy(policy, context, number, zoneBooks) ==
  LET Space(zone) == IF zoneBooks /\ zone # "any" THEN zone ELSE "global"
      Base(in, out) == CASE context.global -> 4000000 [] in # out -> 3000000 [] OTHER -> 2000000
      action == CASE policy.then = "permit" -> "allow" [] policy.then \in {"deny", "reject"} -> "block" [] OTHER -> ""
  IN  ForEach(OrAny(context.from \o policy.from), LAMBDA in : ForEach(OrAny(context.to \o policy.to), LAMBDA out :
      ForEach(OrAny(policy.srcs), LAMBDA src : ForEach(OrAny(policy.dsts), LAMBDA dst :
      ForEach(OrAny(policy.applications), LAMBDA service :
        <<[NoAclRule EXCEPT !.priority = Base(in, out) + number, !.action = action, !.incoming = in, !.outgoing = out,
             !.srcNs = Space(in), !.src = src, !.dstNs = Space(out), !.dst = dst, !.service = service,
             !.description = policy.name]>>)))))

\* Parser::parseConfigPolicies: policies between zones are numbered on across the pairs of
\* zones, and global ones anew.
ParseConfigPolicies(node, zoneBooks) ==
  LET Global == [global |-> TRUE, from |-> <<>>, to |-> <<>>]
      Between(pair) == [global |-> FALSE, from |-> pair.from, to |-> pair.to]
      zoned == ForEach(node.pairs, LAMBDA pair : [i \in DOMAIN pair.policies |-> <<pair.policies[i], Between(pair)>>])
      Rules(policies) == FlattenSeq([n \in DOMAIN policies |->
                           ParseConfigPolicy(policies[n][1], policies[n][2], n - 1, zoneBooks)])
  IN  Rules(zoned) \o Rules([i \in DOMAIN node.global |-> <<node.global[i], Global>>])

----------------------------------------------------------------------------
(* Parser::parseConfig *)

\* System settings are those of every configuration of the document, whichever system is parsed.
LOCAL WithSettings(s, doc) ==
  LET configs == SelectSeq(doc, LAMBDA node : node.k = "configuration")
      All(field) == ForEach(configs, LAMBDA c : c.system[field])
      Ntp(e) == [i \in DOMAIN e.servers |-> [MadeService("ntp", "udp", 123, e.servers[i]) EXCEPT !.src = e.src]]
      dns == All("nameServers")  tacplus == All("tacplus")
  IN  [s EXCEPT !.services = @ \o [i \in DOMAIN dns |-> MadeService("dns", "udp", 53, dns[i])]
                               \o [i \in DOMAIN tacplus |-> MadeService("tacacs", "tcp", 49, tacplus[i])]
                               \o ForEach(All("ntp"), Ntp),
                !.resolvers = @ \o [i \in DOMAIN dns |-> Resolver(dns[i])],
                !.searchDomains = @ \o All("domains")]

LOCAL Fqdns(c) == \E b \in Range(c.books) : \E e \in Range(b.addresses) : e.names # <<>>

\* One system, without its groups and logical systems
LOCAL OneSystem(p, doc, c) ==
  LET name   == IF c.name = "junos-defaults" THEN "" ELSE Lower(c.name)
      made   == WithSettings(System(p, name), doc)
      ifaces == FoldLeft(ParseConfigInterfaces, [made EXCEPT !.ifaces = Named(@, "_self_", AsItIs)], c.interfaces)
      s      == Books(Zones(Routing(ifaces, c), c), c)
      zoneBooks == \E b \in Range(c.books) : b.ofZone
      notables  == UNION {Undefined(node, ifaces.ifaces) : node \in Range(c.instances)}
                   \union (IF Fqdns(c) THEN {<<"FQDNs are used that must be resolved">>} ELSE {})
  IN  [WithSystem(p, name,
         [s EXCEPT !.aclServices = @ \o ForEach(c.applications, ParseConfigApplications),
                   !.aclRules = @ \o ForEach(c.policies, LAMBDA node : ParseConfigPolicies(node, zoneBooks))])
         EXCEPT !.observations.notables = @ \union notables]

\* Groups that are not the defaults of the device should have been applied by it.
RECURSIVE ParseConfig(_, _, _)
ParseConfig(p, doc, c) ==
  LET Each(q, configs) == FoldLeft(LAMBDA r, config : ParseConfig(r, doc, config), q, configs)
      defaults == SelectSeq(c.groups, LAMBDA g : g.name = "junos-defaults")
      noted(q) == IF defaults = c.groups THEN q
                  ELSE [q EXCEPT !.observations = AddNotable(@, <<"Groups are present">>)]
  IN  Each(OneSystem(noted(Each(p, defaults)), doc, c), c.systems)

----------------------------------------------------------------------------
(* The other answers *)

\* Parser::parseRoute: routes to "multicast, unicast" give none
LOCAL Entry(dst, e, t) ==
  LET default == IF IsV4(dst) THEN Ip(Any4, 0) ELSE Ip(Any6, 0)
      route   == [NoRoute EXCEPT !.dst = dst, !.hop = default, !.active = e.active, !.vrf = t.vrf]
      typed   == CASE e.type = "Discard" -> Null(route, "discard") [] e.type = "Reject" -> Null(route, "reject")
                   [] OTHER -> route
      given   == ToTable(IF e.to = <<>> THEN typed ELSE [typed EXCEPT !.hop = e.to[1]], e.table)
  IN  IF e.via = "" THEN given ELSE [given EXCEPT !.iface = e.via]
ParseRoute(rt, t) == IF rt.multicast THEN <<>> ELSE ForEach(rt.entries, LAMBDA e : <<Entry(rt.dst, e, t)>>)

\* Parser::parseRouteTable: a table name that is not understood, or is a family without a
\* number, gives no routes.
ParseRouteTable(t) ==
  IF ~t.numbered THEN Empty
  ELSE Put(Empty, t.vrf, FoldLeft(AddVrfRoute, Vrf(t.vrf), ForEach(t.routes, LAMBDA rt : ParseRoute(rt, t))))

\* Parser::parseRouteInfo: the routes are those of the system the last output before them names.
ParseRouteInfo(p, node, output) ==
  LET name == IF output.system = "default" THEN "" ELSE Lower(output.system)
      s    == System(p, name)
  IN  WithSystem(p, name, [s EXCEPT !.vrfs = FoldLeft(LAMBDA v, t : MergeVrfs(v, ParseRouteTable(t)), @, node.tables)])

LOCAL ChangeIface(p, name, Change(_)) ==
  WithSystem(p, "", [System(p, "") EXCEPT !.ifaces = Named(@, name, Change)])
LOCAL Touched(p) == WithSystem(p, "", System(p, ""))

\* Parser::parseArpTableInfo, Parser::parseIpv6NeighborInfo
ParseNeighbors(p, node) ==
  FoldLeft(LAMBDA q, e : IF e.iface = "" THEN q
                         ELSE ChangeIface(q, e.iface, LAMBDA i : WithPeer(i, [Peer(e) EXCEPT !.up = TRUE])),
           Touched(p), node.entries)

\* Parser::parseLldpNeighborInfo: what the neighbor is called, where that is a MAC address
ParseLldpNeighborInfo(p, node) ==
  LET Heard(i, e) == FoldLeft(LAMBDA j, mac : AddReachable(j, [NoMac EXCEPT !.mac = mac]), i, e.macs)
      At(q, name, e) == IF name \in {"", "-"} THEN q ELSE ChangeIface(q, name, LAMBDA i : Heard(i, e))
  IN  FoldLeft(LAMBDA q, e : At(At(q, e.port, e), e.parent, e), Touched(p), node.entries)

\* Parser::parseEthernetSwitching
ParseEthernetSwitching(p, node) ==
  FoldLeft(LAMBDA q, e : IF e.iface = "" THEN q
                         ELSE ChangeIface(q, e.iface, LAMBDA i : WithPeer(FoldLeft(AddVlan, i, e.vlan), Peer(e))),
           Touched(p), node.entries)

LOCAL NoOutput == [k |-> "output", system |-> "default"]
LOCAL OutputBefore(doc, n) ==
  LET before == {i \in 1..(n - 1) : doc[i].k = "output"} IN IF before = {} THEN NoOutput ELSE doc[Max(before)]

\* Parser::handleXML
LOCAL Answer(p, doc, n) ==
  LET node == doc[n]
  IN  CASE node.k = "configuration"     -> ParseConfig(p, doc, node)
        [] node.k = "route information" -> ParseRouteInfo(p, node, OutputBefore(doc, n))
        [] node.k = "neighbors"         -> ParseNeighbors(p, node)
        [] node.k = "lldp"              -> ParseLldpNeighborInfo(p, node)
        [] node.k = "switching"         -> ParseEthernetSwitching(p, node)
        [] node.k = "error"   -> [p EXCEPT !.observations = AddNotable(@, <<"message", node.k>>)]
        [] node.k = "unknown" -> [p EXCEPT !.observations = AddUnsupported(@, <<node.k>>)]
        [] node.k = "output"  -> p

JuniperXmlDocument(p, doc) == FoldLeft(LAMBDA q, n : Answer(q, doc, n), p, [n \in DOMAIN doc |-> n])

\* The systems are tied to the device when all of them have been saved.
JuniperXmlInserts(p, run, dev) ==
  SystemsInserts(p, "Juniper", run, dev)
  \o ForAll(DOMAIN p.systems \ {""}, LAMBDA name :
       <<<<"insert_raw_device_virtualization", run, dev, SystemId(dev, name)>>>>)
================================================================================
