----------------------------- MODULE DeviceParsers -----------------------------
(***************************************************************************)
(* The parsers of the configurations of small devices: Brocade and         *)
(* PowerConnect switches, Cisco wireless controllers, VyOS routers and the *)
(* rules of iptables-save.  See the module ProbeParsers for the            *)
(* conventions.                                                            *)
(***************************************************************************)
EXTENDS ProbeParsers

\* Every address of a network time server is a service of the network, not of the device.
\* The reason given for it names the device as it is called so far.
NtpService(device, ip) ==
  [Service("ntp", ip) EXCEPT !.protocol = "udp", !.dstPorts = {<<123>>}, !.reason = device.id \o "'s config"]

\* The device takes its name from the command line, whatever the configuration calls it.
ConfiguredDevice(d, run, dev) == SaveDevice(SetDeviceId(d, dev), run)

----------------------------------------------------------------------------
(* Brocade *)

BrocadeStart == [mode |-> "open", device |-> Device("brocade"), bootName |-> "", iface |-> NoIfaceNet,
                 ifaces |-> <<>>, routes |-> <<>>, services |-> <<>>]

\* The route of the boot parameters has a next hop and an interface but no destination.
BrocadeBootLine(p, l) ==
  CASE l.k = "boot address" -> [p EXCEPT !.iface = AddIfaceIp(@, l.ip)]
    [] l.k = "boot mac"     -> [p EXCEPT !.iface.mac.mac = l.mac]
    [] l.k = "boot device"  -> [p EXCEPT !.bootName = l.name, !.iface.name = Lower(l.name)]
    [] l.k = "boot gateway" ->
         [p EXCEPT !.routes = Append(@, [NoRoute EXCEPT !.hop = l.ip, !.iface = p.bootName])]
    [] l.k = "section"      -> [p EXCEPT !.mode = "open", !.ifaces = Append(@, p.iface)]
    [] OTHER -> p

BrocadeLine(p, l) ==
  CASE p.mode = "boot"  -> BrocadeBootLine(p, l)
    [] l.k = "boot"     -> [p EXCEPT !.mode = "boot", !.iface = NoIfaceNet, !.bootName = ""]
    [] l.k = "hostname" -> [p EXCEPT !.device = SetDeviceId(@, l.name)]
    [] l.k = "vendor"   -> [p EXCEPT !.device.vendor = Lower(l.name)]
    [] l.k = "product"  -> [p EXCEPT !.device.type = Lower(l.name)]
    [] l.k = "ntp"      -> [p EXCEPT !.services = Append(@, NtpService(p.device, l.ip))]
    [] OTHER -> p

BrocadeInserts(p, run, dev) ==
  ConfiguredDevice(p.device, run, dev)
  \o ForEach(IF p.mode = "boot" THEN Append(p.ifaces, p.iface) ELSE p.ifaces, LAMBDA i : SaveIfaceNet(i, run, dev))
  \o ForEach(p.routes, LAMBDA r : SaveRoute(r, run, dev))
  \o ForEach(p.services, LAMBDA s : SaveService(s, run, ""))

----------------------------------------------------------------------------
(* PowerConnect: interfaces and routes are maps from interface names *)

\* since holds the lines read since the interface's own line.
PowerConnectStart ==
  [mode |-> "open", device |-> Device("Dell"), name |-> "", since |-> <<>>, ifaces |-> Empty, routes |-> Empty]

\* Parser::updateIfaceTypeSlot: an interface that was there before is changed, not replaced.
UpdateIfaceTypeSlot(p, l) ==
  LET name == l.type \o l.slot
      i    == Get(p.ifaces, name, NoIfaceNet)
  IN  [p EXCEPT !.mode = "interface", !.name = name, !.since = <<>>,
                !.ifaces = Put(@, name, [i EXCEPT !.name = Lower(name), !.mediaType = Lower(l.type), !.up = TRUE,
                                                  !.mode = "l2 access"])]

\* The gateway's route leads to the network of an address of the interface.
SetIfaceGateway(p, gateway) ==
  LET SetRoute(q, ip) == [q EXCEPT !.routes = Put(@, p.name, [NoRoute EXCEPT !.dst = ip, !.hop = gateway])]
  IN  IF gateway = NoIp THEN p ELSE FoldSet(LAMBDA ip, q : SetRoute(q, ip), p, p.ifaces[p.name].mac.ips)

PowerConnectIfaceLine(p, l) ==
  CASE l.k = "address" -> SetIfaceGateway([p EXCEPT !.ifaces[p.name] = AddIfaceIp(@, SetNetmask(l.ip, l.mask))],
                                          l.gateway)
    [] l.k = "switchport mode" -> [p EXCEPT !.ifaces[p.name].mode = "l2 " \o l.name]
    [] l.k = "shutdown" -> [p EXCEPT !.ifaces[p.name].up = FALSE]
    [] l.k = "exit"     -> [p EXCEPT !.mode = "open"]
    [] OTHER -> p

PowerConnectLine(p, l) ==
  CASE p.mode = "interface" -> [PowerConnectIfaceLine(p, l) EXCEPT !.since = Append(@, l)]
    [] l.k = "interface"    -> UpdateIfaceTypeSlot(p, l)
    [] l.k = "hostname"     -> [p EXCEPT !.device = SetDeviceId(@, l.name)]
    [] OTHER -> p

\* An interface without an exit is no interface: its lines are read once more, as those of the
\* whole device, and what they did the first time stays.
RECURSIVE PowerConnectEnd(_)
PowerConnectEnd(p) ==
  IF p.mode = "open" THEN p ELSE PowerConnectEnd(FoldLeft(PowerConnectLine, [p EXCEPT !.mode = "open"], p.since))

PowerConnectInserts(parser, run, dev) ==
  LET p == PowerConnectEnd(parser)
  IN  ConfiguredDevice(p.device, run, dev)
      \o ForAll(Range(p.ifaces), LAMBDA i : SaveIfaceNet(i, run, dev))
      \o ForAll(Range(p.routes), LAMBDA r : SaveRoute(r, run, dev))

----------------------------------------------------------------------------
(* Cisco wireless controllers *)

WirelessStart == [mode |-> "open", device |-> Device("cisco"), ifaces |-> <<>>, routes |-> <<>>, services |-> <<>>]

\* Parser::addIface2, and addIface1 when there is no router
AddIface2(p, l) ==
  LET ip    == SetNetmask(l.ip, l.mask)
      route == [NoRoute EXCEPT !.dst = ip, !.hop = l.router, !.iface = l.name, !.nullRoute = l.name = "Null0"]
  IN  [p EXCEPT !.ifaces = Append(@, AddIfaceIp(IfaceNet(l.name), ip)),
                !.routes = IF ValidIp(l.router) THEN Append(@, route) ELSE @]

WirelessLine(p, l) ==
  CASE l.k = "sysname"   -> [p EXCEPT !.device = SetDeviceId(@, l.name)]
    [] l.k = "interface" -> AddIface2(p, l)
    [] l.k = "ntp"       -> [p EXCEPT !.services = Append(@, NtpService(p.device, l.ip))]
    [] OTHER -> p

WirelessInserts(p, run, dev) ==
  ConfiguredDevice(p.device, run, dev)
  \o ForEach(p.ifaces, LAMBDA i : SaveIfaceNet(i, run, dev))
  \o ForEach(p.services, LAMBDA s : SaveService(s, run, ""))
  \o ForEach(p.routes, LAMBDA r : SaveRoute(r, run, dev))

----------------------------------------------------------------------------
(* Rules of access control books, for VyOS and iptables *)

Srvc(protocol, src, dst) == protocol \o ":" \o src \o ":" \o dst

LOCAL AnyIfNone(seq) == IF seq = <<>> THEN <<"any">> ELSE seq
OpenEnds(r) ==
  [r EXCEPT !.srcs = AnyIfNone(@), !.srcIfaces = AnyIfNone(@), !.dsts = AnyIfNone(@), !.dstIfaces = AnyIfNone(@)]

----------------------------------------------------------------------------
(* VyOS: nested blocks.  path holds the blocks a line is in; "ignored" is a *)
(* block nobody reads.                                                     *)

VyosStart ==
  [ mode |-> "open", path |-> <<>>, iface |-> "", book |-> "", zone |-> "global", rule |-> 0, curRuleId |-> 0,
    protocol |-> "", srcPort |-> "", dstPort |-> "", states |-> <<>>, defaultAction |-> "",
    creds |-> [level |-> "", user |-> "", encrypted |-> "", plain |-> ""],
    ifaces |-> Empty, services |-> <<>>, networkBooks |-> Empty, ruleBooks |-> Empty,
    observations |-> NoObservations ]

LOCAL Here(p) == IF p.path = <<>> THEN "top" ELSE Last(p.path)

\* The blocks that are known in a block
LOCAL Known ==
  [ top |-> {"system", "interfaces", "firewall"}, system |-> {"login"}, login |-> {"user"},
    user |-> {"authentication"}, interfaces |-> {"interface"}, interface |-> {"iface firewall"},
    firewall |-> {"group", "name"}, group |-> {"address-group"}, name |-> {"rule"},
    rule |-> {"state", "source", "destination"} ]
    @@ ("iface firewall" :> {"in", "local", "out"})

\* In these blocks a line that is not known is an error; elsewhere it is ignored with all its block.
LOCAL Exact == {"login", "user", "authentication", "iface firewall", "in", "local", "out", "state"}

\* A rule is filed under the number of rules before it in the file.
VyosRuleInit(p, id) ==
  LET r == [NoRule EXCEPT !.id = id, !.srcId = "global", !.dstId = "global"]
  IN  [p EXCEPT !.rule = p.curRuleId, !.curRuleId = @ + 1,
                !.ruleBooks = Put(@, p.zone, Put(Get(@, p.zone, Empty), p.curRuleId, r))]

VyosOpen(p, l) ==
  LET q == [p EXCEPT !.path = Append(@, l.block)]
  IN  CASE Here(p) = "ignored" -> [p EXCEPT !.path = Append(@, "ignored")]
        [] l.block \notin Get(Known, Here(p), {}) ->
             (IF Here(p) \in Exact THEN Fail(p) ELSE [p EXCEPT !.path = Append(@, "ignored")])
        [] l.block = "interface" ->
             [q EXCEPT !.iface = l.name,
                       !.ifaces = Put(@, l.name, [Get(@, l.name, NoIfaceNet) EXCEPT !.name = Lower(l.name),
                                                                                    !.mediaType = Lower(l.type)])]
        [] l.block = "user"          -> [q EXCEPT !.creds.user = l.name]
        [] l.block = "address-group" -> [q EXCEPT !.book = l.name]
        [] l.block = "name"          -> [q EXCEPT !.zone = l.name]
        [] l.block = "rule"          -> VyosRuleInit(q, l.id)
        [] OTHER -> q

LOCAL UpdateRule(p, r) == [p EXCEPT !.ruleBooks[p.zone][p.rule] = r]
LOCAL CurRule(p)       == p.ruleBooks[p.zone][p.rule]

\* Parser::ruleAddService
VyosRuleDone(p) ==
  LET service == IF p.protocol = "" /\ p.srcPort = "" /\ p.dstPort = "" THEN "any"
                 ELSE Srvc(p.protocol, p.srcPort, p.dstPort)
      states  == IF p.states = <<>> THEN CurRule(p).services \o <<service>>
                 ELSE CurRule(p).services \o <<service, "state:(" \o FoldLeft(LAMBDA s, t : s \o t, "", p.states) \o ")">>
  IN  [UpdateRule(p, [CurRule(p) EXCEPT !.services = states])
         EXCEPT !.protocol = "", !.srcPort = "", !.dstPort = "", !.states = <<>>]

\* The credentials are noted at the end of a user, and not reset.
LOCAL NoteCredentials(p) ==
  [p EXCEPT !.observations = AddNotable(@, <<"Creds", p.creds.level, p.creds.user, p.creds.encrypted, p.creds.plain>>)]

VyosClose(p) ==
  LET q == [p EXCEPT !.path = Front(@)]
  IN  CASE p.path = <<>>      -> Fail(p)
        [] Here(p) = "rule"   -> VyosRuleDone(q)
        [] Here(p) = "user"   -> NoteCredentials(q)
        [] OTHER -> q

\* A rule set is tied to an interface by name; only the rules read before are told.
VyosTie(p, l) ==
  LET Tied(r) == IF Here(p) = "out" THEN [r EXCEPT !.srcIfaces = AddIfUnique(@, Lower(p.iface))]
                 ELSE [r EXCEPT !.dstIfaces = AddIfUnique(@, Lower(p.iface))]
      rules   == Get(p.ruleBooks, l.name, Empty)
  IN  [p EXCEPT !.ruleBooks = Put(@, l.name, [n \in DOMAIN rules |-> Tied(rules[n])])]

VyosRuleLeaf(p, l) ==
  CASE l.k = "action"   -> UpdateRule(p, [CurRule(p) EXCEPT !.actions = AddIfUnique(@, l.name)])
    [] l.k = "protocol" -> [p EXCEPT !.protocol = l.name]
    [] l.k = "disable"  -> UpdateRule(p, [CurRule(p) EXCEPT !.enabled = FALSE])
    [] OTHER -> p

VyosEndLeaf(p, l) ==
  CASE Here(p) = "source" /\ l.k = "port"      -> [p EXCEPT !.srcPort = l.name]
    [] Here(p) = "destination" /\ l.k = "port" -> [p EXCEPT !.dstPort = l.name]
    [] Here(p) = "source" /\ l.k = "address"   -> UpdateRule(p, [CurRule(p) EXCEPT !.srcs = AddIfUnique(@, l.name)])
    [] l.k = "address" -> UpdateRule(p, [CurRule(p) EXCEPT !.dsts = AddIfUnique(@, l.name)])
    [] OTHER -> p

VyosLeaf(p, l) ==
  CASE Here(p) = "system" /\ l.k = "name-server" ->
         [p EXCEPT !.services = Append(@, [Service("DNS", l.ip) EXCEPT !.protocol = "udp", !.dstPorts = {<<53>>},
                                                                        !.reason = "vyos device config"])]
    [] Here(p) = "system" /\ l.k \in {"host-name", "domain-name"} ->
         [p EXCEPT !.observations = AddUnsupported(@, <<l.k, l.name>>)]
    [] Here(p) = "user" /\ l.k = "level" -> [p EXCEPT !.creds.level = l.name]
    [] Here(p) = "authentication" /\ l.k = "encrypted-password" -> [p EXCEPT !.creds.encrypted = l.name]
    [] Here(p) = "authentication" /\ l.k = "plaintext-password" -> [p EXCEPT !.creds.plain = l.name]
    [] Here(p) = "interface" /\ l.k = "address" -> [p EXCEPT !.ifaces[p.iface] = AddIfaceIp(@, l.ip)]
    [] Here(p) = "interface" /\ l.k = "address text" -> [p EXCEPT !.observations = AddUnsupported(@, <<"address", l.name>>)]
    [] Here(p) = "interface" /\ l.k = "description" -> [p EXCEPT !.ifaces[p.iface].description = l.name]
    [] Here(p) \in {"in", "local", "out"} /\ l.k = "name" -> VyosTie(p, l)
    [] Here(p) = "address-group" /\ l.k = "address" ->
         [p EXCEPT !.networkBooks = Put(@, <<p.zone, p.book>>, Get(@, <<p.zone, p.book>>, {}) \union {IpText(l.ip)})]
    [] Here(p) = "name" /\ l.k = "default-action" -> [p EXCEPT !.defaultAction = l.name]
    [] Here(p) = "state" /\ l.k = "enable" -> [p EXCEPT !.states = Append(@, l.name)]
    [] Here(p) = "rule" -> VyosRuleLeaf(p, l)
    [] Here(p) \in {"source", "destination"} -> VyosEndLeaf(p, l)
    [] Here(p) \in Exact -> Fail(p)
    [] OTHER -> p

VyosLine(p, l) ==
  CASE l.k = "open"  -> VyosOpen(p, l)
    [] l.k = "close" -> VyosClose(p)
    [] OTHER -> VyosLeaf(p, l)
VyosMayEnd(p) == p.path = <<>>

\* Parser::getData: the last default action read is given to the first rule
\* without an action, in the order of the books' names, and to no other one.
VyosRules(p) ==
  LET Lacking == {<<book, n>> \in (DOMAIN p.ruleBooks) \X (0..p.curRuleId) :
                    n \in DOMAIN p.ruleBooks[book] /\ p.ruleBooks[book][n].actions = <<>>}
      First   == CHOOSE b \in Lacking : \A c \in Lacking : b[1] = c[1] => b[2] <= c[2]
      Acting(b) == IF Lacking # {} /\ b = First /\ p.defaultAction # ""
                   THEN [p.ruleBooks[b[1]][b[2]] EXCEPT !.actions = <<p.defaultAction>>]
                   ELSE p.ruleBooks[b[1]][b[2]]
  IN  UNION {{OpenEnds(Acting(<<book, n>>)) : n \in DOMAIN p.ruleBooks[book]} : book \in DOMAIN p.ruleBooks}

VyosInserts(p, run, dev) ==
  ForAll(Range(p.ifaces), LAMBDA i : SaveIfaceNet(i, run, dev))
  \o ForEach(p.services, LAMBDA s : SaveService(s, run, ""))
  \o ForAll(DOMAIN p.networkBooks, LAMBDA b :
       SaveNetworkBook([NoBook EXCEPT !.id = b[1], !.name = b[2], !.data = p.networkBooks[b]], run, dev))
  \o ForAll(VyosRules(p), LAMBDA r : SaveRule(r, run, dev))
  \o SaveObservations(p.observations, run)

----------------------------------------------------------------------------
(* iptables-save: tables of chains, which may have a policy, and of rules *)

PolicyId == 1000000     \* SIZE_MAX, for a book has fewer rules
IptablesStart ==
  [mode |-> "open", table |-> "", ruleIds |-> Empty, ruleBooks |-> Empty, networkBooks |-> {}, serviceBooks |-> {}]

LOCAL NamedBook(p, chain) == p.table \o ":" \o chain

\* An option of a rule is <<negated, switch, value>>.
IptablesOption(r, option) ==
  LET value == IF option[1] THEN "!" \o option[3] ELSE option[3]
  IN  CASE option[2] = "s" -> [r EXCEPT !.srcs = AddIfUnique(@, value)]
        [] option[2] = "d" -> [r EXCEPT !.dsts = AddIfUnique(@, value)]
        [] option[2] = "i" -> [r EXCEPT !.srcIfaces = AddIfUnique(@, value)]
        [] option[2] = "o" -> [r EXCEPT !.dstIfaces = AddIfUnique(@, value)]
        [] option[2] \in {"p", "m", "f"} -> [r EXCEPT !.services = AddIfUnique(@, value)]
        [] option[2] \in {"j", "g"} -> [r EXCEPT !.actions = AddIfUnique(@, value)]
        [] OTHER -> r

\* Parser::finalizeRule
LOCAL FinalizeRule(r, book) ==
  [OpenEnds(r) EXCEPT !.srcId = book, !.dstId = book, !.services = AnyIfNone(@),
                      !.actions = IF @ = <<>> THEN <<"none">> ELSE @]

IptablesRule(p, l) ==
  LET book == NamedBook(p, l.chain)  id == Get(p.ruleIds, book, 0)
      rule == FoldLeft(IptablesOption, [Get(Get(p.ruleBooks, book, Empty), id, NoRule) EXCEPT !.id = id], l.options)
      Values(switches) == {<<book, IF o[1] THEN "!" \o o[3] ELSE o[3]>> : o \in {o \in Range(l.options) : o[2] \in switches}}
  IN  [p EXCEPT !.mode = "rules", !.ruleIds = Put(@, book, id + 1),
                !.ruleBooks = Put(@, book, Put(Get(@, book, Empty), id, FinalizeRule(rule, book))),
                !.networkBooks = @ \union Values({"s", "d"}), !.serviceBooks = @ \union Values({"p", "m", "f"})]

\* The policy of a chain is a rule that comes after all others; a chain of the user has none.
UpdateChainPolicy(p, l) ==
  LET book   == NamedBook(p, l.chain)
      policy == Get(Get(p.ruleBooks, book, Empty), PolicyId, [NoRule EXCEPT !.id = PolicyId])
  IN  IF l.policy = "-" THEN [p EXCEPT !.mode = "chains"]
      ELSE [p EXCEPT !.mode = "chains",
                     !.ruleBooks = Put(@, book, Put(Get(@, book, Empty), PolicyId,
                       FinalizeRule([policy EXCEPT !.actions = AddIfUnique(@, l.policy)], book)))]

IptablesLine(p, l) ==
  CASE l.k = "comment" /\ p.mode = "open"      -> [p EXCEPT !.mode = "named"]
    [] l.k = "table" /\ p.mode = "named"       -> [p EXCEPT !.mode = "table", !.table = l.name]
    [] l.k = "chain" /\ p.mode \in {"table", "chains"} -> UpdateChainPolicy(p, l)
    [] l.k = "rule" /\ p.mode \in {"chains", "rules"}  -> IptablesRule(p, l)
    [] l.k = "commit" /\ p.mode \in {"chains", "rules"} -> [p EXCEPT !.mode = "committed"]
    [] l.k = "comment" /\ p.mode = "committed" -> [p EXCEPT !.mode = "open"]
    [] OTHER -> Fail(p)
IptablesMayEnd(p) == p.mode = "open"

\* Only the filter table is saved.  A policy's number is that of the chain's rules.
LOCAL Filtered(p) == {b \in DOMAIN p.ruleBooks : \E chain \in {"INPUT", "FORWARD", "USER"} : b = "filter:" \o chain}
LOCAL Numbered(book, n) == IF n = PolicyId THEN [book[n] EXCEPT !.id = Cardinality(DOMAIN book) - 1] ELSE book[n]
IptablesInserts(p, run, dev) ==
  ForAll(p.networkBooks, LAMBDA b : SaveNetworkBook(Book(b[1], b[2]), run, dev))
  \o ForAll(p.serviceBooks, LAMBDA b : SaveServiceBook(Book(b[1], b[2]), run, dev))
  \o ForAll(Filtered(p), LAMBDA b : ForAll({Numbered(p.ruleBooks[b], n) : n \in DOMAIN p.ruleBooks[b]},
                                           LAMBDA r : SaveRule(r, run, dev)))
================================================================================
