---------------------------- MODULE JuniperParsers ----------------------------
(***************************************************************************)
(* The parsers of Juniper configurations: nested blocks                    *)
(* (nmdb-import-juniper-conf) and lines of set commands                    *)
(* (nmdb-import-juniper-set).  One file may describe several devices.      *)
(***************************************************************************)
EXTENDS CiscoAccess

----------------------------------------------------------------------------
(* Books of a zone: keys are <<zone, name>> *)

NoBooks == Empty
AddToBook(books, zone, name, texts) == Put(books, <<zone, name>>, Get(books, <<zone, name>>, {}) \union texts)

\* updateNetBookGroup and updateSrvcBookGroup: a book that has data now gives its
\* data, one that has none gives its name, and is in the zone from here on.
AddGroup(books, zone, name, other) ==
  LET data == Get(books, <<zone, other>>, {})
  IN  AddToBook(AddToBook(books, zone, other, {}), zone, name, IF data = {} THEN {other} ELSE data)

\* Names are replaced by what they stand for within a zone, not from one zone to another.
LOCAL BooksOf(books, zone) == [name \in {k[2] : k \in {k \in DOMAIN books : k[1] = zone}} |-> books[<<zone, name>>]]
ExpandedBooks(books) == [key \in DOMAIN books |-> Expand(BooksOf(books, key[1]), key[2])]
BooksLoop(books)     == \E key \in DOMAIN books : NeverExpanded(BooksOf(books, key[1]))

SaveBooks(nets, svcs, run, dev) ==
  LET Filled(books, key) == [Book(key[1], key[2]) EXCEPT !.data = books[key]]
  IN  ForAll(DOMAIN nets, LAMBDA key : SaveNetworkBook(Filled(nets, key), run, dev))
      \o ForAll(DOMAIN svcs, LAMBDA key : SaveServiceBook(Filled(svcs, key), run, dev))

----------------------------------------------------------------------------
(* Blocks: path holds the blocks a line is in, "ignored" is one nobody reads *)

NoJuniperDevice ==
  [ id |-> "", type |-> "", vlans |-> Empty, ifaces |-> Empty, routes |-> <<>>, nets |-> NoBooks, svcs |-> NoBooks,
    rules |-> Empty, observations |-> NoObservations ]

\* at is the device that is described; 0 is that of a group, which is never saved.
ConfStart ==
  [ mode |-> "open", path |-> <<>>, devices |-> <<NoJuniperDevice>>, scrap |-> NoJuniperDevice, at |-> 1,
    type |-> "", slot |-> "", iface |-> "", up |-> TRUE, tgtZone |-> Zone0, srcZone |-> Zone0, dstZone |-> Zone0,
    book |-> "", zones |-> <<Zone0, Zone0>>, rule |-> 0, ruleIds |-> Empty,
    proto |-> "", srcPort |-> "", dstPort |-> "", vlan |-> "", members |-> {} ]

LOCAL Here(p) == IF p.path = <<>> THEN "top" ELSE Last(p.path)
LOCAL D(p)    == IF p.at = 0 THEN p.scrap ELSE p.devices[p.at]
LOCAL SetD(p, d) == IF p.at = 0 THEN [p EXCEPT !.scrap = d] ELSE [p EXCEPT !.devices[p.at] = d]
LOCAL ConfUnsup(p, text) == SetD(p, [D(p) EXCEPT !.observations = AddUnsupported(@, <<text>>)])

LOCAL Parts == {"applications", "interfaces", "routing-options", "security"}
LOCAL Blocks ==
  [ top |-> Parts \union {"system", "groups", "vlans", "logical-systems", "routing-instances"},
    applications |-> {"application-set", "application"}, interfaces |-> {"interface"}, interface |-> {"unit"},
    unit |-> {"family"}, security |-> {"policies", "zones", "address-book"}, policies |-> {"from-to"},
    policy |-> {"match", "then"}, zones |-> {"zone"}, zone |-> {"address-book", "zone interfaces"},
    groups |-> {"group"}, group |-> Parts \union {"system"}, vlans |-> {"vlan"} ]
  @@ ("routing-options" :> {"static"}) @@ ("from-to" :> {"policy"})
  @@ ("address-book" :> {"named book", "address-set"}) @@ ("named book" :> {"address-set"})
  @@ ("logical-systems" :> {"logical-system"}) @@ ("logical-system" :> Parts)
  @@ ("routing-instances" :> {"routing-instance"}) @@ ("routing-instance" :> {"routing-options"})

\* Parser::addDevice
LOCAL AddDevice(p, name, type) ==
  [p EXCEPT !.devices = Append(@, [NoJuniperDevice EXCEPT !.id = Lower(name), !.type = Lower(type)]),
            !.at = Len(p.devices) + 1]

\* Parser::addGroup: a group of a node is a device, another group is put aside.
LOCAL AddConfGroup(p, l) == IF l.node THEN AddDevice(p, l.name, l.name) ELSE [p EXCEPT !.at = 0]

\* Parser::updateIfaceNameTypeState
IfaceNameTypeState(p) ==
  LET i == [Get(D(p).ifaces, p.iface, NoIfaceNet) EXCEPT !.name = Lower(p.iface), !.mediaType = Lower(p.type), !.up = p.up]
  IN  SetD(p, [D(p) EXCEPT !.ifaces = Put(@, p.iface, i)])
LOCAL EditIface(p, Change(_)) ==
  SetD(p, [D(p) EXCEPT !.ifaces = Put(@, p.iface, Change(Get(@, p.iface, NoIfaceNet)))])

\* A unit is an interface of its own, in the state its interface is in when the unit begins.
LOCAL UpdateIfaceUnit(p, l) ==
  EditIface(IfaceNameTypeState([p EXCEPT !.iface = p.type \o p.slot \o "." \o l.name]),
            LAMBDA i : [i EXCEPT !.mode = "l2 access"])

\* Parser::updateZones: rules are filed under the pair of their zones.
LOCAL UpdateZones(p, from, to) == [p EXCEPT !.srcZone = from, !.dstZone = to, !.tgtZone = to, !.zones = <<from, to>>]

\* Parser::updateCurRuleId: the numbers go on from one device to the next.
LOCAL UpdateCurRuleId(p, l) ==
  LET id   == Get(p.ruleIds, p.zones, 0)
      rule == [Get(D(p).rules, <<p.zones, id>>, NoRule) EXCEPT !.id = id, !.description = l.name]
  IN  [SetD(p, [D(p) EXCEPT !.rules = Put(@, <<p.zones, id>>, rule)]) EXCEPT !.rule = id,
         !.ruleIds = Put(@, p.zones, id + 1)]

LOCAL UpdateBookName(p, name) == [p EXCEPT !.book = name, !.proto = "", !.srcPort = "", !.dstPort = ""]

ConfOpenKnown(p, l) ==
  CASE l.block = "applications"     -> [p EXCEPT !.tgtZone = Zone0]
    [] l.block \in {"application-set", "application"} -> UpdateBookName(p, l.name)
    [] l.block = "interface"        -> [p EXCEPT !.type = l.type, !.slot = l.name, !.iface = l.type \o l.name]
    [] l.block = "unit"             -> UpdateIfaceUnit(p, l)
    [] l.block = "from-to"          -> UpdateZones(p, l.from, l.to)
    [] l.block = "policy"           -> UpdateCurRuleId(p, l)
    [] l.block \in {"zone", "named book"} -> [p EXCEPT !.tgtZone = l.name]
    [] l.block = "address-set"      -> [p EXCEPT !.book = l.name]
    [] l.block = "group"            -> AddConfGroup(p, l)
    [] l.block = "vlan"             -> SetD([p EXCEPT !.vlan = l.name],
                                            [D(p) EXCEPT !.vlans = Put(@, l.name, [Get(@, l.name, NoVlan) EXCEPT !.description = l.name])])
    [] l.block \in {"logical-system", "routing-instance"} -> AddDevice(p, l.name, l.block)
    [] OTHER -> p

ConfOpen(p, l) ==
  IF l.block \in Get(Blocks, Here(p), {})
  THEN [ConfOpenKnown(p, l) EXCEPT !.path = Append(@, l.block)]
  ELSE [p EXCEPT !.path = Append(@, "ignored")]

\* Parser::updateSrvcBook
UpdateSrvcBook(p) ==
  IF p.proto = "" /\ p.srcPort = "" /\ p.dstPort = "" THEN p
  ELSE [SetD(p, [D(p) EXCEPT !.svcs = AddToBook(@, p.tgtZone, p.book, {Srvc(p.proto, p.srcPort, p.dstPort)})])
          EXCEPT !.proto = "", !.srcPort = "", !.dstPort = ""]

\* At the end of a unit up is set to what it was when the parser was made.
ConfCloseKnown(p) ==
  CASE Here(p) = "application" -> UpdateSrvcBook(p)
    [] Here(p) = "unit"        -> [p EXCEPT !.up = TRUE]
    [] Here(p) = "interface"   -> [IfaceNameTypeState(p) EXCEPT !.up = TRUE]
    [] Here(p) = "from-to"     -> UpdateZones(p, Zone0, Zone0)
    [] Here(p) = "zone"        -> [p EXCEPT !.tgtZone = Zone0]
    [] Here(p) \in {"group", "logical-system", "routing-instance"} -> [p EXCEPT !.at = 1]
    [] OTHER -> p
ConfClose(p) == IF p.path = <<>> THEN p ELSE LET q == ConfCloseKnown(p) IN [q EXCEPT !.path = Front(@)]

----------------------------------------------------------------------------
(* Lines within the blocks *)

\* Parser::updateSrvcData
UpdateSrvcData(p, key, value) ==
  CASE key = "protocol"         -> [p EXCEPT !.proto = value]
    [] key = "source-port"      -> [p EXCEPT !.srcPort = value]
    [] key = "destination-port" -> [p EXCEPT !.dstPort = value]
    [] key = "rpc-program-number" -> [p EXCEPT !.proto = @ \o "-sun-rpc", !.srcPort = "", !.dstPort = value]
    [] key = "uuid"             -> [p EXCEPT !.proto = @ \o "-ms-rpc", !.srcPort = "", !.dstPort = value]
    [] OTHER -> p
LOCAL Terms(p, pairs) == UpdateSrvcBook(FoldLeft(LAMBDA q, pair : UpdateSrvcData(q, pair[1], pair[2]), p, pairs))

\* A line that is no application spoils the whole block: what was read of it stays.
ApplicationsLeaf(p, l) ==
  CASE Here(p) = "applications" /\ l.k = "application" -> Terms(UpdateBookName(p, l.name), l.terms)
    [] Here(p) = "applications" /\ l.k # "comment" -> [p EXCEPT !.path[Len(p.path)] = "ignored"]
    [] Here(p) = "application-set" /\ l.k = "application" ->
         SetD(p, [D(p) EXCEPT !.svcs = AddGroup(@, p.tgtZone, p.book, l.name)])
    [] Here(p) = "application" /\ l.k = "value" -> UpdateSrvcData(p, l.key, l.value)
    [] Here(p) = "application" /\ l.k = "terms" -> Terms(p, l.terms)
    [] OTHER -> p

InterfaceLeaf(p, l) ==
  CASE l.k = "disable" -> [p EXCEPT !.up = FALSE]
    [] l.k = "vlan-id" -> EditIface(p, LAMBDA i : AddVlan(i, l.n))
    [] l.k = "address" -> EditIface(p, LAMBDA i : AddIfaceIp(i, l.ip))
    [] l.k = "port-mode" -> EditIface(p, LAMBDA i : [i EXCEPT !.mode = "l2 " \o l.name])
    [] l.k = "members" -> [p EXCEPT !.members = @ \union {<<p.iface, l.name>>}]
    [] OTHER -> p

LOCAL UpdateRule(p, key, values) ==
  LET r == Get(D(p).rules, <<p.zones, p.rule>>, NoRule)
      Add(seq) == FoldLeft(AddIfUnique, seq, values)
      changed == CASE key = "source-address"      -> [r EXCEPT !.srcs = Add(@), !.srcId = p.srcZone]
                   [] key = "destination-address" -> [r EXCEPT !.dsts = Add(@), !.dstId = p.dstZone]
                   [] key = "application"         -> [r EXCEPT !.services = Add(@)]
                   [] key = "action"              -> [r EXCEPT !.actions = Add(@)]
  IN  SetD(p, [D(p) EXCEPT !.rules = Put(@, <<p.zones, p.rule>>, changed)])

\* Parser::addZoneIface: it is added to the rules of the zone that were read before.
AddConfZoneIface(p, name) ==
  LET Tied(key, r) == [r EXCEPT !.srcIfaces = IF key[1][1] = p.tgtZone THEN AddIfUnique(@, name) ELSE @,
                                !.dstIfaces = IF key[1][2] = p.tgtZone THEN AddIfUnique(@, name) ELSE @]
  IN  SetD(p, [D(p) EXCEPT !.rules = [key \in DOMAIN @ |-> Tied(key, @[key])]])

SecurityLeaf(p, l) ==
  CASE Here(p) = "match" /\ l.k = "match"  ->
         (IF l.key \in {"source-address", "destination-address", "application"} THEN UpdateRule(p, l.key, l.values)
          ELSE ConfUnsup(p, "updateRule"))
    [] Here(p) = "then" /\ l.k = "then"    -> UpdateRule(p, "action", <<l.name>>)
    [] Here(p) = "zone interfaces"         -> AddConfZoneIface(p, l.name)
    [] Here(p) \in {"address-book", "named book"} /\ l.k = "address" ->
         SetD(p, [D(p) EXCEPT !.nets = AddToBook(@, p.tgtZone, l.name, {l.text})])
    [] Here(p) \in {"address-book", "named book"} /\ l.k = "attach" -> ConfUnsup(p, "attach")
    [] Here(p) = "address-set" /\ l.k = "member" -> SetD(p, [D(p) EXCEPT !.nets = AddGroup(@, p.tgtZone, p.book, l.name)])
    [] OTHER -> p

\* A route's next hop is an address, or an interface beside a default address.
ConfRoute(l) ==
  [NoRoute EXCEPT !.dst = l.ip, !.iface = Lower(l.name),
                  !.hop = IF l.name = "" THEN l.hop ELSE IF IsV4(l.ip) THEN Ipv4Default ELSE Ipv6Default]

VlanLeaf(p, l) ==
  CASE l.k = "vlan-id"      -> SetD(p, [D(p) EXCEPT !.vlans[p.vlan].id = l.n])
    [] l.k = "description"  -> SetD(p, [D(p) EXCEPT !.vlans[p.vlan].description = l.name])
    [] l.k = "l3-interface" -> EditIface([p EXCEPT !.iface = l.name], LAMBDA i : [i EXCEPT !.mode = "l3"])
    [] l.k = "interface"    -> ConfUnsup([p EXCEPT !.iface = l.name], "vlan interface")
    [] OTHER -> p

ConfLeaf(p, l) ==
  CASE Here(p) \in {"applications", "application-set", "application"} -> ApplicationsLeaf(p, l)
    [] Here(p) = "interfaces" /\ l.k = "interface-range" -> ConfUnsup(p, "interface-range")
    [] Here(p) \in {"interface", "unit", "family"} -> InterfaceLeaf(p, l)
    [] Here(p) = "static" /\ l.k = "route" -> SetD(p, [D(p) EXCEPT !.routes = Append(@, ConfRoute(l))])
    [] Here(p) = "vlan" -> VlanLeaf(p, l)
    [] Here(p) = "routing-instance" /\ l.k = "interface" ->
         SetD(p, [D(p) EXCEPT !.ifaces = Put(@, l.name, Get(@, l.name, NoIfaceNet))])
    [] OTHER -> SecurityLeaf(p, l)

ConfLine(p, l) ==
  CASE l.k = "open"  -> ConfOpen(p, l)
    [] l.k = "close" -> ConfClose(p)
    [] OTHER -> ConfLeaf(p, l)

----------------------------------------------------------------------------
(* Parser::getData *)

LOCAL IdsOf(vlans) == {vlans[name].id : name \in DOMAIN vlans}

\* The named VLANs of all interfaces, given to those interfaces of every device
\* and not only of the one that has them.
LOCAL WithMember(d, root, member) ==
  LET named == CASE member[2] = "all" -> IdsOf(d.vlans) \union IdsOf(root.vlans)
                 [] member[2] \in DOMAIN d.vlans    -> {d.vlans[member[2]].id}
                 [] member[2] \in DOMAIN root.vlans -> {root.vlans[member[2]].id}
                 [] OTHER -> {}
      Tagged(i) == FoldSet(LAMBDA id, j : AddVlan(j, id), i, named)
  IN  CASE named # {} -> [d EXCEPT !.ifaces = Put(@, member[1], Tagged(Get(@, member[1], NoIfaceNet)))]
        [] member[2] = "all" -> d
        [] OTHER -> [d EXCEPT !.observations = AddNotable(@, <<"Unknown VLAN member name", member[2]>>)]
LOCAL WithMembers(devices, members) ==
  [n \in DOMAIN devices |-> FoldSet(LAMBDA m, d : WithMember(d, devices[1], m), devices[n], members)]

\* An interface that a device only names is taken from the first device.
LOCAL Take(devices, n, name) ==
  [devices EXCEPT ![n].ifaces[name] = Get(devices[1].ifaces, name, NoIfaceNet),
                  ![1].ifaces = [other \in DOMAIN @ \ {name} |-> @[other]]]
LOCAL TakeAll(devices, n) ==
  LET lacking == {name \in DOMAIN devices[n].ifaces : ~ValidIfaceNet(devices[n].ifaces[name])}
  IN  FoldSet(LAMBDA name, all : Take(all, n, name), devices, lacking)
ConfDevices(p) ==
  FoldLeft(TakeAll, WithMembers(p.devices, p.members), [i \in 1..Len(p.devices) - 1 |-> i + 1])

ConfMayEnd(p) == \A n \in DOMAIN p.devices : ~BooksLoop(p.devices[n].nets) /\ ~BooksLoop(p.devices[n].svcs)

LOCAL DeviceName(d, n, dev) == IF n = 1 \/ d.id = "" THEN dev ELSE dev \o ":" \o d.id
LOCAL ConfDeviceInserts(d, name, run, dev) ==
  SaveDevice(SetDeviceId([NoDevice EXCEPT !.type = d.type], name), run)
  \o When(name # dev, <<<<"insert_raw_device_virtualization", run, dev, name>>>>)
  \o ForAll(Range(d.vlans), LAMBDA v : SaveVlan(v, run, name))
  \o ForAll(Range(d.ifaces), LAMBDA i : SaveIfaceNet(i, run, name))
  \o ForEach(d.routes, LAMBDA r : SaveRoute(r, run, name))
  \o SaveBooks(ExpandedBooks(d.nets), ExpandedBooks(d.svcs), run, name)
  \o ForAll(Range(d.rules), LAMBDA r : SaveRule(r, run, name))
  \o SaveObservations(d.observations, run)

ConfInserts(p, run, dev) ==
  LET devices == ConfDevices(p)
  IN  FlattenSeq([n \in DOMAIN devices |-> ConfDeviceInserts(devices[n], DeviceName(devices[n], n, dev), run, dev)])

----------------------------------------------------------------------------
(* Set commands *)

SetStart ==
  [ mode |-> "open", iface |-> "", ifaces |-> Empty, routes |-> Empty, zoneIfaces |-> Empty, nets |-> NoBooks,
    svcs |-> NoBooks, rule |-> 0, rules |-> Empty, observations |-> NoObservations ]

\* Parser::initIface: an interface that is there already is left as it is.
InitIface(p, name, type) ==
  LET i == [NoIfaceNet EXCEPT !.name = Lower(name), !.up = TRUE, !.mediaType = Lower(type)]
  IN  [p EXCEPT !.iface = name, !.ifaces = Put(@, name, Get(@, name, i))]

SetInterface(p, l) ==
  LET q == InitIface(p, l.name, l.type)
  IN  CASE l.what = "address" -> [q EXCEPT !.ifaces[l.name] = AddIfaceIp(@, l.ip)]
        [] l.what = "disable" -> [q EXCEPT !.ifaces[l.name].up = FALSE]
        [] l.what = "zone"    -> [q EXCEPT !.zoneIfaces = Put(@, l.zone, l.name)]
        [] OTHER -> q

\* One route is kept for an interface, and one for all routes without an interface.
SetRoute(p, l) ==
  [p EXCEPT !.routes = Put(@, l.name, [Get(@, l.name, NoRoute) EXCEPT !.dst = l.ip, !.hop = l.hop])]

LOCAL SetCurRule(p, Change(_)) ==
  [p EXCEPT !.rules = Put(@, p.rule, Change([Get(@, p.rule, NoRule) EXCEPT !.id = p.rule]))]
LOCAL AddedRule(r, l) ==
  [r EXCEPT !.srcId = l.from, !.srcs = AddIfUnique(@, l.src), !.dstId = l.to, !.dsts = AddIfUnique(@, l.dst),
            !.services = AddIfUnique(@, l.service), !.actions = AddIfUnique(@, l.action)]

\* More addresses, services and actions of the rule that was named last
SetRuleMore(r, l) ==
  CASE l.key = "src-address" -> [r EXCEPT !.srcs = AddIfUnique(@, l.value)]
    [] l.key = "dst-address" -> [r EXCEPT !.dsts = AddIfUnique(@, l.value)]
    [] l.key = "service"     -> [r EXCEPT !.services = AddIfUnique(@, l.value)]
    [] l.key = "log"         -> [r EXCEPT !.actions = AddIfUnique(@, l.value)]
    [] OTHER -> r

SetPolicy(p, l) ==
  LET q == [p EXCEPT !.rule = l.id]
  IN  CASE l.what = "from"    -> SetCurRule(q, LAMBDA r : AddedRule(r, l))
        [] l.what = "disable" -> SetCurRule(q, LAMBDA r : [r EXCEPT !.enabled = FALSE])
        [] l.what = "more"    -> SetCurRule(q, LAMBDA r : SetRuleMore(r, l))
        [] OTHER -> [SetCurRule(q, LAMBDA r : r) EXCEPT !.observations = AddUnsupported(@, <<l.what>>)]

SetLine(p, l) ==
  CASE l.k = "interface" -> SetInterface(p, l)
    [] l.k = "route"     -> SetRoute(p, l)
    [] l.k = "address"   -> [p EXCEPT !.nets = AddToBook(@, l.zone, l.name, {l.text})]
    [] l.k = "group"     -> [p EXCEPT !.nets = AddGroup(@, l.zone, l.name, l.other)]
    [] l.k = "service"   -> [p EXCEPT !.svcs = AddToBook(@, Zone0, l.name, {Srvc(l.protocol, l.src, l.dst)})]
    [] l.k = "services"  -> [p EXCEPT !.svcs = AddGroup(@, Zone0, l.name, l.other)]
    [] l.k = "policy"    -> SetPolicy(p, l)
    [] OTHER -> p
SetMayEnd(p) == ~BooksLoop(p.nets) /\ ~BooksLoop(p.svcs)

\* Parser::getData: of the interfaces of a zone, the last one stands in its rules.
SetRules(p) ==
  LET Of(zone) == IF zone \in DOMAIN p.zoneIfaces THEN <<p.zoneIfaces[zone]>> ELSE <<>>
  IN  {[r EXCEPT !.srcIfaces = Of(r.srcId), !.dstIfaces = Of(r.dstId)] : r \in Range(p.rules)}

SetInserts(p, run, dev) ==
  ConfiguredDevice(Device("Juniper"), run, dev)
  \o ForAll(Range(p.ifaces), LAMBDA i : SaveIfaceNet(i, run, dev))
  \o ForAll(Range(p.routes), LAMBDA r : SaveRoute(r, run, dev))
  \o SaveBooks(ExpandedBooks(p.nets), ExpandedBooks(p.svcs), run, dev)
  \o ForAll(SetRules(p), LAMBDA r : SaveRule(r, run, dev))
  \o SaveObservations(p.observations, run)
================================================================================
