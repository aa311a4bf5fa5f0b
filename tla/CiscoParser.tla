------------------------------- MODULE CiscoParser -------------------------------
(***************************************************************************)
(* The parser of a Cisco configuration, nmdb-import-cisco.  A line starts  *)
(* a block or stands alone; in says that it is indented.  A block ends at  *)
(* the first line it cannot read to the end (rest: words are left over),   *)
(* and from there on the lines under it are read as if they stood alone;   *)
(* a line nothing is known of is ignored.                                  *)
(***************************************************************************)
EXTENDS CiscoAccess

CiscoStart ==
  [ mode |-> "open", device |-> Device("cisco"), cdp |-> TRUE, guard |-> FALSE, filter |-> FALSE, domains |-> <<>>, aaas |-> <<>>,
    services |-> <<>>, routes |-> <<>>, vrfId |-> "", vlanIds |-> <<>>, vlanText |-> "", vlans |-> <<>>,
    name |-> "", prefix |-> 0, ifaces |-> Empty, own |-> [cdp |-> {}, guard |-> {}, filter |-> {}],
    ports |-> {}, vrfs |-> Empty, nameifs |-> Empty, aliased |-> <<>>, applied |-> Empty,
    policy |-> "", policies |-> {}, classes |-> {}, servicePolicies |-> {},
    acl |-> NoAcl, ruleBooks |-> Empty, book |-> NoNamed, nets |-> Empty, svcs |-> Empty, protocol |-> "",
    texts |-> Empty, observations |-> NoObservations ]

LOCAL Unsup(p, text) == [p EXCEPT !.observations = AddUnsupported(@, <<text>>)]

----------------------------------------------------------------------------
(* Services, routes, VLANs *)

\* serviceAddNtp and the others, with what ServiceFactory gives each; the reason names the device
\* as it is called so far.
LOCAL Made ==
  ("dhcp" :> <<"dhcps", {<<67>>}>>) @@ ("dns" :> <<"dns", {<<53>>}>>) @@ ("ntp" :> <<"ntp", {<<123>>}>>)
  @@ ("radius" :> <<"radius", {<<1812>>, <<1813>>}>>) @@ ("snmp" :> <<"snmp", {<<162>>}>>)
  @@ ("syslog" :> <<"syslog", {<<514>>}>>)
CiscoService(p, kind, ip) ==
  [p EXCEPT !.services = Append(@, [Service(Made[kind][1], ip) EXCEPT !.protocol = "udp", !.dstPorts = Made[kind][2],
                                                                      !.reason = p.device.id \o "'s config"])]

\* The routing instance of a route is used up by the route that is added.
LOCAL RouteAdd(p, r) == [p EXCEPT !.routes = Append(@, [r EXCEPT !.vrf = p.vrfId]), !.vrfId = ""]

LOCAL DefaultHop(dst) == IF IsV4(dst) THEN Ipv4Default ELSE Ipv6Default
LOCAL OutOf(r, name)  == [r EXCEPT !.iface = Lower(name), !.nullRoute = name = "Null0"]
RouteAddIp(p, dst, hop)            == RouteAdd(p, [NoRoute EXCEPT !.dst = dst, !.hop = hop])
RouteAddIface(p, dst, name)        == RouteAdd(p, OutOf([NoRoute EXCEPT !.dst = dst, !.hop = DefaultHop(dst)], name))
RouteAddIfaceIp(p, dst, name, hop) == RouteAdd(p, OutOf([NoRoute EXCEPT !.dst = dst, !.hop = hop], name))

\* dst is an address and a mask, or an address and a prefix.  Only the latter
\* may be followed by an interface and an address; after the former the address
\* is taken for a distance, and the line cannot be read to its end.
CiscoRoute(p, l) ==
  LET q    == IF l.vrf = "" THEN p ELSE [p EXCEPT !.vrfId = l.vrf]
      dst  == IF l.mask = <<>> THEN l.ip ELSE SetNetmask(l.ip, l.mask)
      done == CASE l.iface = "" -> RouteAddIp(q, dst, l.hop)
                [] l.iface # "" /\ (l.hop = NoIp \/ l.mask # <<>>) -> RouteAddIface(q, dst, l.iface)
                [] OTHER -> RouteAddIfaceIp(q, dst, l.iface, l.hop)
  IN  IF l.rest \/ (l.iface # "" /\ l.hop # NoIp /\ l.mask # <<>>) THEN Fail(p) ELSE done

\* expandIfaceVlanRangeList: every VLAN of the line gets the one name.
VlansAdd(p) ==
  [p EXCEPT !.mode = "open", !.vlanText = "",
            !.vlans = @ \o [i \in DOMAIN p.vlanIds |-> Vlan(p.vlanIds[i], p.vlanText)]]

\* After an interface that is named after a VLAN, its networks are the VLAN's.
VlanAddIfaceData(p) ==
  LET id == IfaceVlan(p.name)
      Of(ip) == [Vlan(id, "") EXCEPT !.net = ip]
  IN  IF id = 0 THEN [p EXCEPT !.mode = "open"]
      ELSE [p EXCEPT !.mode = "open",
                     !.vlans = @ \o SetToSeq({Of(ip) : ip \in p.ifaces[p.name].mac.ips})]

----------------------------------------------------------------------------
(* Interfaces, by the name as it is spelled *)

IfaceInit(p, name) ==
  [p EXCEPT !.mode = "interface", !.name = name, !.prefix = 0,
            !.ifaces = Put(@, name, [Get(@, name, NoIfaceNet) EXCEPT !.name = Lower(name)])]

LOCAL Iface(p) == p.ifaces[p.name]
LOCAL Edit(p, i) == [p EXCEPT !.ifaces[p.name] = i]
LOCAL Own(p, what) == [p EXCEPT !.own[what] = @ \union {Lower(p.name)}]

\* Parser::ifaceAddAlias: the address is not known before the end.
IfaceAddAlias(p, l) ==
  LET ip == IF ValidIp(Ip(l.mask, 32)) THEN SetMask(NoIp, l.mask) ELSE NoIp
  IN  [p EXCEPT !.aliased = Append(@, <<p.name, l.name, ip>>)]

IfaceAddressLine(p, l) ==
  LET ip == IF l.mask = <<>> THEN l.ip ELSE SetNetmask(l.ip, l.mask)
  IN  CASE l.k = "address" -> [Edit(p, AddIfaceIp(Iface(p), ip)) EXCEPT !.prefix = ip.prefix]
        [] l.k = "vrrp"    -> Edit(p, AddIfaceIp(Iface(p), SetPrefix(l.ip, p.prefix)))
        [] l.k = "standby" -> Edit(p, AddIfaceIp(Iface(p), l.ip))
        [] l.k = "alias address" -> IfaceAddAlias(p, l)

\* A bare "switchport port-security" is not taken by its rule, which wants a blank after it.
IfacePortSecurityLine(p, l) ==
  CASE l.k = "ps maximum"   -> Edit(p, [Iface(p) EXCEPT !.maxMacs = l.n])
    [] l.k = "ps sticky"    -> Edit(p, AddSticky([Iface(p) EXCEPT !.sticky = ~l.no], l.mac))
    [] l.k = "ps mac"       -> Edit(p, AddSticky(Iface(p), l.mac))
    [] l.k = "ps violation" -> Edit(p, [Iface(p) EXCEPT !.violation = l.name])
    [] l.k = "ps"           -> IF l.blank THEN Edit(p, [Iface(p) EXCEPT !.portSecurity = ~l.no]) ELSE p
    [] l.k = "ps other"     -> Fail(p)

IfaceSwitchLine(p, l) ==
  CASE l.k = "mode"       -> Edit(p, [Iface(p) EXCEPT !.mode = "l2 " \o l.name])
    [] l.k = "vlans"      -> Edit(p, FoldSet(LAMBDA id, i : AddVlan(i, id), Iface(p), l.ids))
    [] l.k = "vlan words" -> Unsup(p, "switchport vlan")
    [] l.k = "bpduguard"  -> Own(Edit(p, [Iface(p) EXCEPT !.bpduGuard = IF l.set = "" THEN ~l.no ELSE l.set = "enable"]),
                                 "guard")
    [] l.k = "bpdufilter" -> Own(Edit(p, [Iface(p) EXCEPT !.bpduFilter = IF l.set = "" THEN ~l.no ELSE l.set = "enable"]),
                                 "filter")
    [] l.k = "portfast"   -> Edit(p, [Iface(p) EXCEPT !.portfast = IF l.set = "" THEN ~l.no ELSE l.set = "edge"])
    [] l.k = "spanning-tree" -> Unsup(p, "spanning-tree")

\* Parser::createAccessGroup: one application is kept of each book, the last one.
CreateAccessGroup(p, book, direction, name) == [p EXCEPT !.applied = Put(@, book, <<name, direction>>)]

IfaceTieLine(p, l) ==
  CASE l.k = "access-group"   -> CreateAccessGroup(p, l.name, l.direction, Lower(p.name))
    [] l.k = "service-policy" -> [p EXCEPT !.servicePolicies = @ \union {<<Lower(p.name), l.name, l.direction>>}]
    [] l.k = "nameif"         -> IF l.name \in DOMAIN p.nameifs THEN p
                                 ELSE [p EXCEPT !.nameifs = Put(@, l.name, p.name)]
    [] l.k = "vrf member"     -> [p EXCEPT !.vrfs = Put(@, l.name, AddVrfIface([Get(@, l.name, NoVrf) EXCEPT !.id = l.name],
                                                                               Lower(p.name)))]
    [] l.k = "channel-group"  -> [p EXCEPT !.ports = @ \union {<<l.n, Lower(p.name)>>}]
    [] l.k = "dhcp"           -> CiscoService(p, "dhcp", l.ip)

IfaceLine(p, l) ==
  CASE l.k = "description" -> Edit(p, [Iface(p) EXCEPT !.description = l.name])
    [] l.k = "shutdown"    -> Edit(p, [Iface(p) EXCEPT !.up = l.no])
    [] l.k = "cdp enable"  -> Own(Edit(p, [Iface(p) EXCEPT !.cdp = ~l.no]), "cdp")
    [] l.k = "port-profile" -> Unsup(p, "port-profile")
    [] l.k = "vm mac"      -> Edit(p, AddReachable(Iface(p), l.mac))
    [] l.k \in {"address", "vrrp", "standby", "alias address"} -> IfaceAddressLine(p, l)
    [] l.k \in {"ps maximum", "ps sticky", "ps mac", "ps violation", "ps", "ps other"} -> IfacePortSecurityLine(p, l)
    [] l.k \in {"mode", "vlans", "vlan words", "bpduguard", "bpdufilter", "portfast", "spanning-tree"} ->
         IfaceSwitchLine(p, l)
    [] l.k \in {"access-group", "service-policy", "nameif", "vrf member", "channel-group", "dhcp"} -> IfaceTieLine(p, l)
    [] OTHER -> p

----------------------------------------------------------------------------
(* Blocks and lines that stand alone *)

PolicyLine(p, l) ==
  CASE p.mode = "policy" /\ l.k = "class"     -> [p EXCEPT !.policies = @ \union {<<p.policy, l.name>>}]
    [] p.mode = "class" /\ l.k = "match list" -> [p EXCEPT !.classes = @ \union {<<p.policy, l.name>>}]
    [] OTHER -> p

BlockLine(p, l) ==
  CASE p.mode = "interface" -> IfaceLine(p, l)
    [] p.mode = "vlan"      -> IF l.k = "vlan name" THEN [p EXCEPT !.vlanText = l.name] ELSE p
    [] p.mode = "acl"       -> AclLine(p, l)
    [] p.mode = "networks"  -> NetworkBookLine(p, l)
    [] p.mode = "services"  -> ServiceBookLine(p, l)
    [] p.mode \in {"policy", "class"} -> PolicyLine(p, l)
    [] p.mode \in {"vrf", "mst"} -> p

\* What the semantic action of a block does at its end
CiscoClose(p) ==
  CASE p.mode = "interface" -> VlanAddIfaceData(p)
    [] p.mode = "vlan"      -> VlansAdd(p)
    [] p.mode = "acl"       -> [AclRuleBookAdd(p) EXCEPT !.mode = "open"]
    [] p.mode = "networks"  -> FinalizeNetworkBook(p)
    [] p.mode = "services"  -> FinalizeServiceBook(p)
    [] p.mode \in {"policy", "class", "vrf", "mst"} -> [p EXCEPT !.mode = "open"]
    [] OTHER -> p

CiscoOpen(p, l) ==
  CASE l.k = "interface"  -> IfaceInit(p, l.name)
    [] l.k = "vlan"       -> [p EXCEPT !.mode = "vlan", !.vlanIds = l.ids]
    [] l.k = "vrf"        -> [p EXCEPT !.mode = "vrf", !.vrfs = Put(@, l.name, Get(@, l.name, Vrf(l.name)))]
    [] l.k = "mst"        -> [p EXCEPT !.mode = "mst"]
    [] l.k = "list"       -> [p EXCEPT !.mode = "acl", !.acl = InitRuleBook(@, l.style, l.name)]
    [] l.k = "networks"   -> [p EXCEPT !.mode = "networks", !.book.name = l.name]
    [] l.k = "services"   -> [p EXCEPT !.mode = "services", !.book.name = l.name, !.protocol = l.protocol]
    [] l.k = "policy-map" -> [p EXCEPT !.mode = "policy", !.policy = l.name]
    [] l.k = "class-map"  -> [p EXCEPT !.mode = "class", !.policy = l.name]

CiscoGlobal(p, l) ==
  CASE l.k \in {"interface", "vlan", "vrf", "mst", "list", "networks", "services", "policy-map", "class-map"} ->
         CiscoOpen(p, l)
    [] l.k = "asa version" \/ (l.k = "cdp enable" /\ l.no) -> [p EXCEPT !.cdp = FALSE]
    [] l.k = "bpduguard default"  -> [p EXCEPT !.guard = TRUE]
    [] l.k = "bpdufilter default" -> [p EXCEPT !.filter = TRUE]
    [] l.k = "aaa"          -> [p EXCEPT !.aaas = Append(@, l.name)]
    [] l.k = "hostname"     -> [p EXCEPT !.device = SetDeviceId(@, l.name)]
    [] l.k = "domain-name"  -> [p EXCEPT !.domains = Append(@, l.name)]
    [] l.k = "server"       -> CiscoService(p, l.kind, l.ip)
    [] l.k = "route"        -> CiscoRoute(p, l)
    [] l.k = "access-list"  -> AclSingleLine(p, l)
    [] l.k = "apply"        -> CreateAccessGroup(p, l.name, l.direction, l.iface)
    [] l.k = "name"         -> FinalizeNetworkBook(FromIp([p EXCEPT !.book.name = l.name], l.ip))
    [] OTHER -> p

CiscoLine(p, l) ==
  LET q == IF p.mode # "open" /\ l.in THEN BlockLine(p, l) ELSE p
  IN  CASE q.mode = "failed" -> q
        [] p.mode # "open" /\ l.in /\ ~l.rest -> q
        [] OTHER -> CiscoGlobal(CiscoClose(q), l)

----------------------------------------------------------------------------
(* Parser::getData: what can only be said at the end of the file *)

LOCAL GlobalNotes(p) ==
  LET cdp  == IF p.cdp THEN AddNotable(p.observations, <<"CDP">>) ELSE p.observations
  IN  IF p.guard \/ p.filter THEN cdp ELSE AddNotable(cdp, <<"BPDU">>)

\* Global settings apply to the interfaces that did not set their own.
LOCAL WithGlobals(p, i) ==
  [i EXCEPT !.cdp        = IF i.name \in p.own.cdp THEN @ ELSE p.cdp,
            !.bpduGuard  = IF i.name \in p.own.guard THEN @ ELSE p.guard,
            !.bpduFilter = IF i.name \in p.own.filter THEN @ ELSE p.filter]

\* An aliased address is given the address the alias stands for, and the alias as a name.
LOCAL Resolved(p, alias) ==
  {AddAlias([alias[3] EXCEPT !.addr = p.texts[text].addr], alias[2], "config") :
     text \in Get(p.nets, alias[2], {}) \intersect DOMAIN p.texts}
LOCAL WithAliases(p, ifaces) ==
  FoldLeft(LAMBDA all, alias : [all EXCEPT ![alias[1]] = FoldSet(LAMBDA ip, i : AddIfaceIp(i, ip), @, Resolved(p, alias))],
           ifaces, p.aliased)
\* Mutant: a global setting is not given to the interfaces.
CiscoIfacesOwn(p) == WithAliases(p, p.ifaces)

CiscoIfaces(p) == WithAliases(p, [name \in DOMAIN p.ifaces |-> WithGlobals(p, p.ifaces[name])])

\* Parser::setRuleTargetIface: the name of an interface stands for it.
LOCAL TargetIface(p, name) == IF name \in DOMAIN p.nameifs THEN Lower(p.nameifs[name]) ELSE name
LOCAL Tied(p, r, name, incoming) ==
  IF incoming
  THEN [r EXCEPT !.srcIfaces = AddIfUnique(@, TargetIface(p, name)), !.dstIfaces = AddIfUnique(@, "any")]
  ELSE [r EXCEPT !.srcIfaces = AddIfUnique(@, "any"), !.dstIfaces = AddIfUnique(@, TargetIface(p, name))]

\* <<interface, book, incoming>>: by an access group, or by a policy, its classes and their lists
LOCAL Groups(p) ==
  {<<p.applied[book][1], book, p.applied[book][2] = "in">> :
     book \in {b \in DOMAIN p.applied : p.applied[b][2] \in {"in", "out"}}}
LOCAL Policies(p) ==
  {<<s[1], c[2], s[3] = "input">> : <<s, pc, c>> \in
     {t \in p.servicePolicies \X p.policies \X p.classes :
        t[1][2] = t[2][1] /\ t[2][2] = t[3][1] /\ t[1][3] \in {"input", "output"}}}
CiscoRuleBook(p, book) ==
  LET Tie(r, ties) == FoldSet(LAMBDA tie, s : Tied(p, s, tie[1], tie[3]), r, {t \in ties : t[2] = book})
  IN  [i \in DOMAIN p.ruleBooks[book] |-> Tie(Tie(p.ruleBooks[book][i], Groups(p)), Policies(p))]

LOCAL UndefinedBooks(p) ==
  {<<"undefined", p.applied[book][1], book>> : book \in DOMAIN p.applied \ DOMAIN p.ruleBooks}

\* Every source, destination and service of a rule is in a book of its zone.
LOCAL Ensure(books, zone, texts) == books @@ [key \in {zone} \X texts |-> {key[2]}]
LOCAL RulesOf(p) == UNION {Range(p.ruleBooks[book]) : book \in DOMAIN p.ruleBooks}
LOCAL InZone(books) == LET final == GetFinalVersion(books)
                       IN  [key \in {Zone0} \X DOMAIN books |-> final[key[2]]]
\* Mutant: only the networks that were given a name are kept.
CiscoNetworksNamed(p) == InZone(p.nets)

CiscoNetworks(p) ==
  FoldSet(LAMBDA r, books : Ensure(Ensure(books, r.srcId, Range(r.srcs)), r.dstId, Range(r.dsts)),
          InZone(p.nets), RulesOf(p))
CiscoServices(p) ==
  FoldSet(LAMBDA r, books : Ensure(books, r.dstId, Range(r.services)), InZone(p.svcs), RulesOf(p))

----------------------------------------------------------------------------
(* The end of the file, and the inserts *)

\* Objects that name each other are expanded for ever, until the stack is used up.
CiscoMayEnd(p) == LET q == CiscoClose(p) IN ~NeverExpanded(q.nets) /\ ~NeverExpanded(q.svcs)

LOCAL Hierarchy(run, dev, pairs) ==
  ForAll(pairs, LAMBDA pair : <<<<"insert_raw_device_interface_hierarchy", run, dev, pair[1], pair[2]>>>>)

\* An interface lies under that of a VLAN it is in, and under that of its port channel.
CiscoHierarchy(p, run, dev) ==
  LET names == DOMAIN p.ifaces
  IN  Hierarchy(run, dev, {<<Lower(n), Lower(v)>> : <<n, v>> \in
                             {t \in names \X names : IfaceVlan(t[2]) # 0 /\ IfaceVlan(t[2]) \in p.ifaces[t[1]].vlans}})
      \o Hierarchy(run, dev, {<<port[2], Lower(n)>> : <<port, n>> \in
                                {t \in p.ports \X names : t[1][1] = PortChannelNumber(t[2])}})

LOCAL CiscoBooks(p, run, dev) ==
  LET nets == CiscoNetworks(p)  svcs == CiscoServices(p)
      Filled(books, key) == [Book(key[1], key[2]) EXCEPT !.data = books[key]]
  IN  ForAll(DOMAIN nets, LAMBDA key : SaveNetworkBook(Filled(nets, key), run, dev))
      \o ForAll(DOMAIN svcs, LAMBDA key : SaveServiceBook(Filled(svcs, key), run, dev))
      \o ForAll(DOMAIN p.ruleBooks, LAMBDA book :
           ForEach(CiscoRuleBook(p, book), LAMBDA r : SaveRule(r, run, dev)))

CiscoInserts(parser, run, dev) ==
  LET p == CiscoClose(parser)
      notes == [GlobalNotes(p) EXCEPT !.notables = @ \union UndefinedBooks(p)]
  IN  ConfiguredDevice(p.device, run, dev)
      \o ForEach(p.domains, LAMBDA name : <<<<"insert_raw_device_dns_search_domain", run, dev, name>>>>)
      \o ForEach(p.aaas, LAMBDA aaa : <<<<"insert_raw_device_aaa", run, dev, aaa>>>>)
      \o ForEach(p.services, LAMBDA s : SaveService(s, run, ""))
      \o ForEach(p.routes, LAMBDA r : SaveRoute(r, run, dev))
      \o ForEach(p.vlans, LAMBDA v : SaveVlan(v, run, dev))
      \o ForAll(Range(CiscoIfaces(p)), LAMBDA i : SaveIfaceNet(i, run, dev))
      \o ForAll(Range(p.vrfs), LAMBDA v : SaveVrf(v, run, dev))
      \o CiscoHierarchy(p, run, dev)
      \o CiscoBooks(p, run, dev)
      \o SaveObservations(notes, run)
================================================================================
