----------------------------- MODULE ScanParsers -----------------------------
(***************************************************************************)
(* The importers of scanners' reports: nmap and Nessus (XML, of which the  *)
(* "lines" are the elements of the hosts), prowler (JSON entries) and      *)
(* packet captures (packets).  See the module ProbeParsers for the         *)
(* conventions.                                                            *)
(***************************************************************************)
EXTENDS ProbeParsers

----------------------------------------------------------------------------
(* nmap: each kind of thing is looked for in all hosts before the next *)

NmapStart == [mode |-> "open", protocols |-> <<>>, hosts |-> <<>>]
NmapLine(p, l) ==
  CASE l.k = "scaninfo" -> [p EXCEPT !.protocols = Append(@, l.protocol)]
    [] l.k = "host"     -> [p EXCEPT !.hosts = Append(@, l)]
    [] OTHER -> Fail(p)

\* A host the user said is up counts as up when a port of it answered.
ExtractHostIsResponding(h) ==
  /\ h.state = "up"
  /\ h.reason = "user-set" => \E port \in Range(h.ports) : port.state \in {"open", "closed"}

\* The first MAC and the first IP address of a host
ExtractHostMacAddr(h) == [NoMac EXCEPT !.mac = IF h.macs = <<>> THEN "" ELSE h.macs[1]]
ExtractHostIpAddr(h)  == IF h.ips = <<>> THEN NoIp ELSE h.ips[1]

ExtractMacAndIpAddrs(h) ==
  AddIp([ExtractHostMacAddr(h) EXCEPT !.up = ExtractHostIsResponding(h)], ExtractHostIpAddr(h))

\* names: what the expression for the script finds in its output
ScriptHostnames(h, s) ==
  When(s.names # {} /\ s.id \in {"nbstat", "smb-os-discovery", "rdp-ntlm-info", "ms-sql-ntlm-info"},
       <<AddNames(ExtractHostIpAddr(h), s.names, "nmap " \o s.id)>>)

\* Names: those of the host, those its scripts found, those its services gave
ExtractHostnames(hosts) ==
  ForEach(hosts, LAMBDA h : ForEach(h.hostnames, LAMBDA n :
    <<AddAlias(ExtractHostIpAddr(h), n.name, "nmap " \o n.type)>>))
  \o ForEach(hosts, LAMBDA h : ForEach(h.scripts, LAMBDA s : ScriptHostnames(h, s)))
  \o ForEach(hosts, LAMBDA h : ForEach(h.ports, LAMBDA port : ForEach(port.scripts, LAMBDA s : ScriptHostnames(h, s))))
  \o ForEach(hosts, LAMBDA h : ForEach(h.ports, LAMBDA port : When(port.hostname \notin {"", "self"},
       <<AddAlias(ExtractHostIpAddr(h), port.hostname, "nmap " \o port.service)>>)))

\* A service that gives the address itself for a name is noted.
NmapObservations(hosts) ==
  LET self == {<<h, port>> \in UNION {{h} \X Range(h.ports) : h \in Range(hosts)} : port.hostname = "self"}
  IN  FoldSet(LAMBDA s, o : AddNotable(o, <<s[2].service, ExtractHostIpAddr(s[1])>>), NoObservations, self)

ExtractOperatingSystems(h) == [i \in DOMAIN h.oses |-> [h.oses[i] EXCEPT !.ip = ExtractHostIpAddr(h)]]

ExtractTraceRoutes(h) ==
  [i \in DOMAIN h.hops |->
     [hop |-> SetResponding(AddAlias(h.hops[i].ip, h.hops[i].name, "nmap trace"), TRUE), count |-> h.hops[i].ttl,
      dst |-> ExtractHostIpAddr(h)]]

\* Ports that are not listed are one port, -1; their protocol is that of the only
\* scan, or guessed from the reason.
LOCAL GuessedProtocol(reason) ==
  CASE reason \in {"tcp-response", "tcp-responses", "syn-ack", "syn-acks", "reset", "resets"} -> "tcp"
    [] reason \in {"udp-response", "udp-responses", "port-unreach", "port-unreaches"} -> "udp"
    [] OTHER -> ""
ExtraPorts(p, h) ==
  ForEach(h.extras, LAMBDA e : [i \in DOMAIN e.reasons |->
    [Port(ExtractHostIpAddr(h)) EXCEPT !.port = -1, !.state = e.state, !.reason = e.reasons[i],
       !.protocol = IF Len(p.protocols) = 1 THEN p.protocols[1] ELSE GuessedProtocol(e.reasons[i])]])

LOCAL HostPort(h, port) ==
  [Port(ExtractHostIpAddr(h)) EXCEPT !.port = port.id, !.protocol = port.protocol]
ExtractPorts(h) ==
  [i \in DOMAIN h.ports |-> [HostPort(h, h.ports[i]) EXCEPT !.state = h.ports[i].state, !.reason = h.ports[i].reason]]
ExtractServices(h) ==
  ForEach(h.ports, LAMBDA port : When(port.service # "none",
    <<[Service(port.service, ExtractHostIpAddr(h)) EXCEPT !.protocol = port.protocol, !.dstPorts = {<<port.id>>},
                                                          !.description = port.product, !.reason = port.method]>>))

\* Every script has a result, for a port of which neither state nor reason is given; two of them
\* have keys and algorithms of ssh as well.
ExtractNse(h) == ForEach(h.ports, LAMBDA port : [i \in DOMAIN port.scripts |->
                   [port |-> HostPort(h, port), script |-> port.scripts[i].id, output |-> port.scripts[i].output]])
LOCAL OfScript(h, id) ==
  ForEach(h.ports, LAMBDA port : ForEach(port.scripts, LAMBDA s : When(s.id = id, [i \in DOMAIN s.rows |->
    [s.rows[i] EXCEPT !.port = HostPort(h, port)]])))
ExtractSshKeys(h)       == OfScript(h, "ssh-hostkey")
ExtractSshAlgorithms(h) == OfScript(h, "ssh2-enum-algos")

\* origin: the address the scan came from, NoIp unless the option gives one
NmapInserts(p, run, origin) ==
  LET Every(Extract(_), Save(_, _, _)) ==
        ForEach(p.hosts, LAMBDA h : ForEach(Extract(h), LAMBDA x : Save(x, run, "")))
  IN  ForEach(p.hosts, LAMBDA h : SaveMac(ExtractMacAndIpAddrs(h), run, ""))
      \o ForEach(ExtractHostnames(p.hosts), LAMBDA ip : SaveIp(ip, run, ""))
      \o Every(ExtractOperatingSystems, SaveOperatingSystem)
      \o Every(ExtractTraceRoutes, SaveHop)
      \o ForEach(p.hosts, LAMBDA h : ForEach(ExtraPorts(p, h), LAMBDA x : SavePort(x, run, "")))
      \o Every(ExtractPorts, SavePort)
      \o ForEach(p.hosts, LAMBDA h : ForEach(ExtractServices(h), LAMBDA s :
           SaveService([s EXCEPT !.src = IF ValidIp(origin) THEN origin ELSE @], run, "")))
      \o Every(ExtractNse, SaveNseResult)
      \o Every(ExtractSshKeys, SaveSshKey)
      \o Every(ExtractSshAlgorithms, SaveSshAlgorithm)
      \o SaveObservations(NmapObservations(p.hosts), run)

----------------------------------------------------------------------------
(* Nessus *)

NessusStart ==
  [ mode |-> "open", macs |-> <<>>, ips |-> <<>>, oses |-> <<>>, ports |-> <<>>, hops |-> <<>>, results |-> <<>>,
    cves |-> <<>>, modules |-> <<>>, interfaces |-> Empty ]

\* The tags that give an address change the same one, which keeps its names: the last is the host's.
HostAddresses(l) ==
  [i \in DOMAIN l.ips |-> AddNames(SetResponding(SetAddress(NoIp, l.ips[i].addr), TRUE), l.names, "nessus scan")]
LOCAL HostAddress(l) == IF l.ips = <<>> THEN NoIp ELSE Last(HostAddresses(l))

\* The address of a host with one MAC address is tied to the MAC address that is last
\* in the list, which is another one if the host's was in the list before.
HostMacs(macs, l, tag) ==
  LET all == FoldLeft(LAMBDA seq, mac : AddIfUnique(seq, [NoMac EXCEPT !.mac = mac, !.up = TRUE]), macs, tag)
  IN  IF Len(tag) # 1 THEN all ELSE [all EXCEPT ![Len(all)] = AddIp(@, HostAddress(l))]

LOCAL AddAllUnique(seq, items) == FoldLeft(AddIfUnique, seq, items)

\* InterfaceHelper::add: an interface that is known gets the MAC address and the addresses of this one.
AddHelper(helper, i, hostname) ==
  LET known == helper[i.name]
      all   == [FoldSet(LAMBDA ip, m : AddIp(m, ip), known.interface.mac, i.mac.ips)
                  EXCEPT !.mac = IF ValidMac(i.mac) THEN i.mac.mac ELSE @]
  IN  IF i.name \notin DOMAIN helper THEN Put(helper, i.name, [interface |-> i, deviceId |-> hostname])
      ELSE Put(helper, i.name, [known EXCEPT !.interface.mac = all])

InterfacePlugins == {25202, 25203, 33276}

ParseReportItem(p, l, item) ==
  LET ip   == HostAddress(l)
      port == [Port(ip) EXCEPT !.protocol = item.protocol, !.port = item.port,
                               !.state = IF item.port = 0 THEN "none" ELSE "open", !.reason = "nessus scan"]
  IN  [p EXCEPT
         !.ports   = AddIfUnique(@, port),
         !.results = AddIfUnique(@, [port |-> port, plugin |-> item.plugin, output |-> item.output,
                                        severity |-> item.severity, solution |-> item.solution]),
         !.cves    = AddAllUnique(@, [i \in DOMAIN item.cves |->
                       [port |-> port, plugin |-> item.plugin, cve |-> item.cves[i]]]),
         !.modules = AddAllUnique(@, [i \in DOMAIN item.modules |->
                       [port |-> port, plugin |-> item.plugin, name |-> item.modules[i]]]),
         !.interfaces = IF item.plugin \notin InterfacePlugins THEN @
                        ELSE Put(@, ip, FoldLeft(LAMBDA h, i : AddHelper(h, i, l.hostname),
                                                 Get(@, ip, Empty), item.interfaces))]

ParseReportHost(p, l) ==
  LET ip == HostAddress(l)
      q  == [p EXCEPT !.ips  = AddAllUnique(@, HostAddresses(l)),
                      !.macs = FoldLeft(LAMBDA macs, tag : HostMacs(macs, l, tag), @, l.macs),
                      !.oses = AddAllUnique(@, [i \in DOMAIN l.cpes |->
                                 [ip |-> ip, vendor |-> "", product |-> "", version |-> "", cpe |-> l.cpes[i]]]),
                      !.hops = AddAllUnique(@, [i \in DOMAIN l.hops |->
                                 [hop |-> l.hops[i].ip, count |-> l.hops[i].number, dst |-> ip]])]
  IN  FoldLeft(LAMBDA r, item : ParseReportItem(r, l, item), q, l.items)

NessusLine(p, l) == IF l.k = "host" THEN ParseReportHost(p, l) ELSE Fail(p)

\* An interface of a host with a name is saved if it has a MAC address, of another one its MAC address is.
LOCAL SaveHelper(w, run) ==
  LET d == SetDeviceId(NoDevice, w.deviceId)
  IN  IF ValidDevice(d)
      THEN SaveDevice(d, run) \o When(ValidMac(w.interface.mac), SaveInterface(w.interface, run, d.id))
      ELSE SaveMac(w.interface.mac, run, "")

NessusInserts(p, run, dev) ==
  LET Every(items, Save(_, _, _)) == ForEach(items, LAMBDA x : Save(x, run, ""))
  IN  Every(p.macs, SaveMac) \o Every(p.ips, SaveIp) \o Every(p.oses, SaveOperatingSystem)
      \o Every(p.ports, SavePort) \o Every(p.hops, SaveHop) \o Every(p.results, SaveNessusResult)
      \o Every(p.cves, SaveCve) \o Every(p.modules, SaveMetasploitModule)
      \o ForAll(DOMAIN p.interfaces, LAMBDA ip : ForAll(Range(p.interfaces[ip]), LAMBDA w : SaveHelper(w, run)))

----------------------------------------------------------------------------
(* prowler: entries that say nothing are left out *)

ProwlerStart == [mode |-> "open", v2Data |-> <<>>, v3Data |-> <<>>]

\* needed: the members isValid looks at that are missing
ProwlerLine(p, l) ==
  CASE l.k = "v2" -> IF l.text = "" THEN p ELSE [p EXCEPT !.v2Data = Append(@, [l EXCEPT !.severity = Lower(@)])]
    [] l.k = "v3" -> IF l.text = "" THEN p ELSE [p EXCEPT !.v3Data = Append(@, l)]
    [] OTHER -> Fail(p)

ValidV2(e) == e.needed \intersect {"account", "time", "region", "level", "control", "service"} = {}
ValidV3(e) == e.needed \intersect {"time", "finding"} = {}

ProwlerInserts(p, run, dev) ==
  ForEach(p.v2Data, LAMBDA e :
    When(ValidV2(e), <<<<"insert_raw_prowler_v2_check", run, <<e.text, e.severity>>>>>>))
  \o ForEach(p.v3Data, LAMBDA e :
    When(ValidV3(e), <<<<"insert_raw_prowler_v3_check", run, <<e.text, e.severity>>>>>>))

----------------------------------------------------------------------------
(* Packet captures: a packet is its link layer, the headers under it in     *)
(* order, and how many of them, the link's first, were captured in full.    *)

PcapStart == [mode |-> "open", vlans |-> {}, macAddrs |-> Empty, ipAddrs |-> Empty, observations |-> NoObservations]

\* An entry of a MAC address is replaced, with what was known of it.
LOCAL PutMac(p, mac, entry) == [p EXCEPT !.macAddrs = Put(@, mac, entry)]

\* Parser::getIpAddrLoc
GetIpAddrLoc(p, ip) == Get(p.ipAddrs, ip.addr, ip)
LOCAL SeenIp(p, ip) ==
  [p EXCEPT !.ipAddrs = Put(@, ip.addr, [SetResponding(GetIpAddrLoc(p, ip), TRUE) EXCEPT !.reason = "from pcap import"])]

\* dst: "stp", "bridges" (01:80:c2:00:00:00), "discovery" or another address
ProcessEthernetHeader(p, l) ==
  LET q == PutMac(p, l.src, [NoMac EXCEPT !.mac = l.src, !.up = TRUE])
      stp  == IF l.dst \in {"stp", "bridges"} THEN AddNotable(q.observations, <<"Probable STP", l.src>>) ELSE q.observations
      disc == IF l.dst = "discovery" /\ ~l.ieee THEN AddNotable(stp, <<"Probable discovery", l.src>>) ELSE stp
  IN  [q EXCEPT !.observations = disc]
SkipEthernet(l) == l.dst \in {"stp", "bridges"} \/ (l.dst = "discovery" /\ ~l.ieee)

ProcessLinuxCookedHeader(p, l) == PutMac(p, l.src, [NoMac EXCEPT !.mac = l.src, !.up = TRUE])

ProcessVlanHeader(p, h) == [p EXCEPT !.vlans = @ \union {Vlan(h.id, "from pcap import")}]

\* The address an ARP packet ties to a MAC address replaces those before, and its up.
ProcessArpHeader(p, h) ==
  PutMac(p, h.mac, AddIp([NoMac EXCEPT !.mac = h.mac], [h.ip EXCEPT !.reason = "from pcap import"]))

\* Answers of a name server: the bytes of an address and a name each
ProcessDnsHeader(p, h) ==
  FoldLeft(LAMBDA q, a :
             LET ip == FromBytes(a.bytes)
             IN  [q EXCEPT !.ipAddrs = Put(@, ip.addr, AddAlias(GetIpAddrLoc(q, ip), a.name, "from pcap import"))],
           p, h.answers)

\* Under IPv4, TCP and UDP from port 53 carry answers; each header has to be there in full.
ProcessIpv4Header(p, h, whole) ==
  LET q == SeenIp(p, FromBytes(h.src))
  IN  IF whole >= 3 /\ h.protocol \in {"tcp", "udp"} /\ h.srcPort = 53 /\ h.response
      THEN ProcessDnsHeader(q, h) ELSE q
ProcessIpv6Header(p, h) == SeenIp(p, FromBytes(h.src))

\* The headers after the link's, and how many bytes' worth of headers are left.  A
\* VLAN tag is looked at before it is known to be there in full.
ProcessPayload(p, headers, whole) ==
  LET Step(s, h) ==
        CASE s.done            -> s
          [] h.k = "vlan"      -> [p |-> ProcessVlanHeader(s.p, h), whole |-> s.whole - 1, done |-> s.whole < 1]
          [] h.k = "arp"       -> [s EXCEPT !.p = ProcessArpHeader(@, h), !.done = TRUE]
          [] h.k = "ipv4"      -> [s EXCEPT !.p = ProcessIpv4Header(@, h, s.whole), !.done = TRUE]
          [] h.k = "ipv6"      -> [s EXCEPT !.p = ProcessIpv6Header(@, h), !.done = TRUE]
          [] OTHER             -> [s EXCEPT !.done = TRUE]
  IN  FoldLeft(Step, [p |-> p, whole |-> whole, done |-> FALSE], headers).p

PcapLine(p, l) ==
  CASE l.k = "ethernet" ->
         LET q == ProcessEthernetHeader(p, l)
         IN  IF SkipEthernet(l) \/ l.whole = 0 THEN q ELSE ProcessPayload(q, l.headers, l.whole - 1)
    [] l.k = "cooked" ->
         LET q == ProcessLinuxCookedHeader(p, l)
         IN  IF l.whole = 0 THEN q ELSE ProcessPayload(q, l.headers, l.whole - 1)
    [] OTHER -> p

PcapInserts(p, run, dev) ==
  ForAll(Range(p.macAddrs), LAMBDA m : SaveMac(m, run, dev))
  \o ForAll(Range(p.ipAddrs), LAMBDA ip : SaveIp(ip, run, dev))
  \o ForAll(p.vlans, LAMBDA v : SaveVlan(v, run, dev))
  \o SaveObservations(p.observations, run)
================================================================================
