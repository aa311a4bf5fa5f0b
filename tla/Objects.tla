-------------------------------- MODULE Objects --------------------------------
(***************************************************************************)
(* The objects a parser fills and what saving one asks of the data store:  *)
(* the calls of the prepared statements, in order.  A record holds the     *)
(* members that decide whether something is saved or that reach a column   *)
(* the module Schema keeps.  run and dev are the arguments of save; dev is *)
(* "" where the program saves without a device.                            *)
(***************************************************************************)
EXTENDS Statements, FiniteSets, FiniteSetsExt

When(condition, calls) == IF condition THEN calls ELSE <<>>
ForEach(items, Calls(_)) == FlattenSeq([i \in DOMAIN items |-> Calls(items[i])])
ForAll(items, Calls(_))  == FoldSet(LAMBDA item, calls : calls \o Calls(item), <<>>, items)

----------------------------------------------------------------------------
(* Addresses *)

\* A reason is prefixed with the device it comes from, if both are there.
LOCAL FullReason(why, dev) == IF why # "" /\ dev # "" THEN dev \o "'s " \o why ELSE why

SaveNet(net, run, dev) ==
  When(ValidNet(net),
       <<<<"insert_raw_ip_net", run, NetText(net), FullReason(net.reason, dev)>>>>
       \o When(net.weight > 0, <<<<"insert_ip_net_extra_weight", NetText(net), net.weight>>>>))

SaveIp(ip, run, dev) ==
  When(ValidIp(ip),
       SaveNet(ip, run, dev)
       \o <<<<"insert_raw_ip_addr", run, IpText(ip), ip.up>>>>
       \o ForAll(ip.aliases, LAMBDA name :
            <<<<"insert_raw_hostname", run, IpText(ip), name, FullReason(ip.reason, dev)>>>>))

\* mac is "" when the address has not six octets
NoMac == [mac |-> "", up |-> FALSE, ips |-> {}]
AddIp(m, ip) == IF ip = NoIp THEN m ELSE [m EXCEPT !.ips = @ \union {ip}]
ValidMac(m)  == m.mac # ""

SaveMac(m, run, dev) ==
  When(ValidMac(m), <<<<"insert_raw_mac_addr", run, m.mac, m.up>>>>)
  \o ForAll(m.ips, LAMBDA ip :
       SaveIp(SetResponding(ip, m.up), run, dev)
       \o When(ValidIp(ip) /\ ValidMac(m), <<<<"insert_raw_mac_addr_ip_addr", run, m.mac, IpText(ip)>>>>))

----------------------------------------------------------------------------
(* Interfaces *)

NoInterface == [name |-> "", mediaType |-> "ethernet", up |-> FALSE, description |-> "", mac |-> NoMac]

Interface(name) == [NoInterface EXCEPT !.name = Lower(name)]

ValidInterface(i) == i.name # "" /\ i.mediaType # "" /\ i.mediaType # "loopback"

LOCAL DeviceAddresses(i, m, run, dev) ==
  When(ValidMac(m), <<<<"insert_raw_device_mac_addr", run, dev, i.name, m.mac>>>>)
  \o ForAll({ip \in m.ips : ValidIp(ip)}, LAMBDA ip :
       <<<<"insert_raw_device_ip_addr", run, dev, i.name, IpText(ip)>>>>)

\* The guard lets an invalid interface through when there is no device.
SaveInterface(i, run, dev) ==
  When(ValidInterface(i) \/ dev = "",
       <<<<"insert_raw_device_interface", run, dev, i.name, i.mediaType, i.up, i.description>>>>
       \o SaveMac([i.mac EXCEPT !.up = i.up], run, dev)
       \o DeviceAddresses(i, i.mac, run, dev))

SaveInterfaceAsMetadata(i, run) ==
  When(ValidInterface(i),
       <<<<"insert_tool_run_interface", run, i.name, i.mediaType, i.up>>>>
       \o When(ValidMac(i.mac), <<<<"insert_tool_run_mac_addr", run, i.name, i.mac.mac>>>>)
       \o ForAll({ip \in i.mac.ips : ValidIp(ip)}, LAMBDA ip :
            <<<<"insert_tool_run_ip_addr", run, i.name, IpText(ip)>>>>))

NoIfaceNet ==
  [ name |-> "", description |-> "", mediaType |-> "ethernet", up |-> TRUE, mac |-> NoMac, mode |-> "l3",
    cdp |-> TRUE, bpduGuard |-> FALSE, bpduFilter |-> FALSE, portfast |-> FALSE,
    portSecurity |-> FALSE, sticky |-> FALSE, maxMacs |-> 1, violation |-> "shutdown", partial |-> FALSE,
    learned |-> {}, reachable |-> {}, vlans |-> {} ]

IfaceNet(name)            == [NoIfaceNet EXCEPT !.name = Lower(name)]
AddIfaceIp(i, ip)         == [i EXCEPT !.mac = AddIp(@, ip)]
AddVlan(i, id)            == [i EXCEPT !.vlans = @ \union {id}]
AddReachable(i, mac)      == IF mac = NoMac THEN i ELSE [i EXCEPT !.reachable = @ \union {mac}]
AddSticky(i, mac)         == IF mac = NoMac THEN i ELSE [i EXCEPT !.learned = @ \union {mac}]

ValidIfaceNet(i) == i.name # "" /\ i.mediaType # "" /\ i.mode # ""

SwitchingCalls(i, run, dev) ==
  << <<"insert_raw_device_interfaces_cdp", run, dev, i.name, i.cdp>>,
     <<"insert_raw_device_interfaces_bpdu", run, dev, i.name, i.bpduGuard, i.bpduFilter>>,
     <<"insert_raw_device_interfaces_portfast", run, dev, i.name, i.portfast>>,
     <<"insert_raw_device_interfaces_mode", run, dev, i.name, i.mode>>,
     <<"insert_raw_device_interfaces_port_security", run, dev, i.name,
       i.portSecurity, i.sticky, i.maxMacs, i.violation>> >>

PeerCalls(i, run, dev) ==
  ForAll(i.learned, LAMBDA m : SaveMac(m, run, "")
    \o When(ValidMac(m),
         << <<"insert_raw_device_link_connection", run, dev, i.name, m.mac>>,
            <<"insert_raw_device_interfaces_port_security_mac_addr", run, dev, i.name, m.mac>> >>))
  \o ForAll(i.reachable, LAMBDA m : SaveMac(m, run, "")
    \o When(ValidMac(m), <<<<"insert_raw_device_link_connection", run, dev, i.name, m.mac>>>>))

NoVlan == [id |-> 65535, description |-> "", net |-> NoIp]
Vlan(id, text) == [NoVlan EXCEPT !.id = id, !.description = text]
ValidVlan(v) == v.id < 4096

SaveVlan(v, run, dev) ==
  When(ValidVlan(v),
    IF dev = ""
    THEN <<<<"insert_raw_vlan", run, v.id, v.description>>>>
         \o When(ValidNet(v.net),
                 SaveNet(v.net, run, dev) \o <<<<"insert_raw_vlan_ip_net", run, v.id, NetText(v.net)>>>>)
    ELSE <<<<"insert_raw_device_vlan", run, dev, v.id, v.description>>>>
         \o When(ValidNet(v.net),
                 SaveNet(v.net, run, dev)
                 \o <<<<"insert_raw_device_vlan_ip_net", run, dev, v.id, NetText(v.net)>>>>))

\* An interface knows its VLANs by number only.
SaveIfaceNet(i, run, dev) ==
  When(ValidIfaceNet(i) \/ dev = "",
       <<<<"insert_raw_device_interface", run, dev, i.name, i.mediaType, i.up, i.description>>>>
       \o When(~i.partial, SwitchingCalls(i, run, dev))
       \o PeerCalls(i, run, dev)
       \o SaveMac([i.mac EXCEPT !.up = i.up], run, dev)
       \o DeviceAddresses(i, i.mac, run, dev)
       \o ForAll(i.vlans, LAMBDA id : SaveVlan(Vlan(id, ""), run, dev)
            \o When(ValidVlan(Vlan(id, "")), <<<<"insert_raw_device_interfaces_vlan", run, dev, i.name, id>>>>)))

----------------------------------------------------------------------------
(* Routes and routing instances *)

NoRoute ==
  [ vrf |-> "", dst |-> NoIp, nextVrf |-> "", nextTable |-> "", hop |-> NoIp, iface |-> "",
    nullRoute |-> FALSE, active |-> TRUE ]

\* Text of the next hop: <<>> stands for ""
HopText(r) == IF r.nullRoute \/ HasUnsetPrefix(r.hop) THEN <<>> ELSE IpText(r.hop)

ValidRoute(r) ==
  /\ ~HasUnsetPrefix(r.dst)
  /\ \/ ~HasUnsetPrefix(r.hop)
     \/ r.nullRoute
     \/ r.nextVrf # "" /\ r.nextTable # ""
     \/ r.iface # ""

SaveRoute(r, run, dev) ==
  When(ValidRoute(r),
       SaveNet(r.dst, run, dev) \o SaveIp(r.hop, run, dev)
       \o When(r.vrf # "", <<<<"insert_raw_device_vrf", run, dev, r.vrf>>>>)
       \o <<<<"insert_raw_device_ip_route", run, dev, r.vrf, NetText(r.dst),
              r.nextVrf, r.nextTable, HopText(r), r.iface>>>>)

SaveRouteAsMetadata(r, run) ==
  When(ValidRoute(r), <<<<"insert_tool_run_ip_route", run, r.iface, NetText(r.dst), HopText(r)>>>>)

NoVrf == [id |-> "", ifaces |-> <<>>, routes |-> <<>>]
Vrf(id) == [NoVrf EXCEPT !.id = id]
AddVrfIface(v, name) == [v EXCEPT !.ifaces = Append(@, Lower(name))]
AddVrfRoute(v, r)    == [v EXCEPT !.routes = Append(@, r)]
MergeVrf(v, other)   == [v EXCEPT !.ifaces = @ \o other.ifaces, !.routes = @ \o other.routes]
ValidVrf(v) == v.id # ""

SaveVrf(v, run, dev) ==
  When(ValidVrf(v),
       <<<<"insert_raw_device_vrf", run, dev, v.id>>>>
       \o ForEach(v.ifaces, LAMBDA i : <<<<"insert_raw_device_vrf_interface", run, dev, v.id, i>>>>)
       \o ForEach(v.routes, LAMBDA r : SaveRoute(r, run, dev)))

----------------------------------------------------------------------------
(* Ports and services *)

NoPort == [ip |-> NoIp, protocol |-> "", port |-> 2147483647, state |-> "", reason |-> ""]
Port(ip) == [NoPort EXCEPT !.ip = ip]
ValidPort(p) == ValidIp(p.ip) /\ p.protocol # "" /\ p.port \in -1..65535

SavePort(p, run, dev) ==
  When(ValidPort(p),
       SaveIp(p.ip, run, dev) \o <<<<"insert_raw_port", run, IpText(p.ip), p.protocol, p.port, p.state, p.reason>>>>)

\* The ports of a service are texts, which the module Statements reads.
NoService ==
  [ name |-> "", dst |-> NoIp, src |-> NoIp, iface |-> "-", protocol |-> "", dstPorts |-> {},
    description |-> "", reason |-> "" ]
Service(name, ip) == [NoService EXCEPT !.name = name, !.dst = ip]

ValidDeviceService(s)  == s.name # "" /\ ValidIp(s.dst)
ValidNetworkService(s) == ValidIp(s.dst) /\ s.dstPorts # {} /\ s.protocol # ""
ValidService(s)        == ValidDeviceService(s) \/ ValidNetworkService(s)

LOCAL SaveAsDevice(s, run, dev) ==
  LET Server(port) ==
        <<<<"insert_raw_device_ip_server", run, dev, s.iface, s.name, IpText(s.dst), port, s.description>>>>
  IN  IF s.dstPorts = {} THEN Server(<<>>) ELSE ForAll(s.dstPorts, Server)

\* Whoever is not known to have observed it is the IPv4 default, which is stored as null.
LOCAL SaveAsNetwork(s, run) ==
  ForAll(s.dstPorts, LAMBDA port :
    SavePort([Port(s.dst) EXCEPT !.protocol = s.protocol, !.port = port[1]], run, "")
    \o <<<<"insert_raw_network_service", run, IpText(s.dst), s.protocol, port, s.name, s.description, s.reason,
           IpText(IF HasUnsetPrefix(s.src) THEN Ipv4Default ELSE s.src)>>>>)

\* A service with a name but no port reaches no table when there is no device.
SaveService(s, run, dev) ==
  When(ValidService(s),
       SaveIp(s.dst, run, dev) \o SaveIp(s.src, run, dev)
       \o When(ValidDeviceService(s) /\ dev # "", SaveAsDevice(s, run, dev))
       \o When(ValidNetworkService(s) /\ dev = "", SaveAsNetwork(s, run)))

----------------------------------------------------------------------------
(* Devices and observations *)

NoDevice == [id |-> "", type |-> "", vendor |-> "", model |-> "", serial |-> "", description |-> "", color |-> ""]
Device(vendor) == [NoDevice EXCEPT !.vendor = Lower(vendor)]
SetDeviceId(d, id) == [d EXCEPT !.id = Lower(id)]
ValidDevice(d) == d.id # ""

LOCAL Hardware(d) == <<d.type, d.vendor, d.model, d.serial, d.description>>

SaveDevice(d, run) ==
  When(ValidDevice(d),
       <<<<"insert_raw_device", run, d.id>>>>
       \o When(Hardware(d) # <<"", "", "", "", "">>,
               <<<<"insert_raw_device_hardware_information", run, d.id, Hardware(d)>>>>)
       \o When(d.color # "", <<<<"insert_device_color", d.id, d.color>>>>))

NoObservations == [notables |-> {}, unsupported |-> {}]
AddNotable(o, text)     == [o EXCEPT !.notables = @ \union {text}]
AddUnsupported(o, text) == [o EXCEPT !.unsupported = @ \union {text}]

LOCAL SaveObserved(run, category, texts) ==
  ForAll(texts, LAMBDA text : <<<<"insert_raw_tool_observation", run, category, text>>>>)
SaveObservations(o, run) ==
  SaveObserved(run, "notable", o.notables) \o SaveObserved(run, "unsupported feature", o.unsupported)

----------------------------------------------------------------------------
(* Access control: books and rules *)

NoBook == [id |-> "", name |-> "", data |-> {}]
Book(id, name) == [NoBook EXCEPT !.id = id, !.name = name]
AddData(b, entry)    == [b EXCEPT !.data = @ \union {entry}]
RemoveData(b, entry) == [b EXCEPT !.data = @ \ {entry}]

\* A book without data is one row whose data is null, "" here.
LOCAL Entries(b) == IF b.data = {} THEN {""} ELSE b.data

SaveNetworkBook(b, run, dev) ==
  When(b.id # "" /\ b.name # "",
       ForAll(Entries(b), LAMBDA entry : <<<<"insert_raw_device_ac_net", run, dev, b.id, b.name, entry>>>>))
SaveServiceBook(b, run, dev) ==
  When(b.name # "",
       ForAll(Entries(b), LAMBDA entry : <<<<"insert_raw_device_ac_service", run, dev, b.name, entry>>>>))

NoRule ==
  [ enabled |-> TRUE, id |-> 0, srcId |-> "", srcs |-> <<>>, srcIfaces |-> <<>>, dstId |-> "", dsts |-> <<>>,
    dstIfaces |-> <<>>, services |-> <<>>, actions |-> <<>>, description |-> "" ]
AddIfUnique(seq, value) == IF \E i \in DOMAIN seq : seq[i] = value THEN seq ELSE Append(seq, value)
ValidRule(r) == r.srcId # "" /\ r.srcs # <<>> /\ r.actions # <<>>

LOCAL OrEmpty(seq) == IF seq = <<>> THEN <<"">> ELSE seq

\* One row for every combination.  The observation names the rule by its description.
SaveRule(r, run, dev) ==
  When(ValidRule(r),
       When(r.srcIfaces = <<>> \/ r.dstIfaces = <<>>,
            SaveObservations(AddNotable(NoObservations, <<"AcRule", r.description>>), run))
       \o ForEach(r.srcs, LAMBDA src : ForEach(OrEmpty(r.srcIfaces), LAMBDA srcIface :
          ForEach(OrEmpty(r.dsts), LAMBDA dst : ForEach(OrEmpty(r.dstIfaces), LAMBDA dstIface :
          ForEach(OrEmpty(r.services), LAMBDA service :
            <<<<"insert_raw_device_ac_rule", run, dev, r.enabled, r.id, r.srcId, src, srcIface,
                r.dstId, dst, dstIface, service, r.actions, r.description>>>>))))))

----------------------------------------------------------------------------
(* Access control lists: zones, sets, services and rules *)

NoZone == [id |-> "", ifaces |-> <<>>, includes |-> <<>>]
Zone(id) == [NoZone EXCEPT !.id = id]
AddZoneIface(z, name) == [z EXCEPT !.ifaces = Append(@, Lower(name))]
SaveZone(z, run, dev) ==
  When(z.id # "",
       <<<<"insert_raw_device_acl_zone_base", run, dev, z.id>>>>
       \o ForEach(z.ifaces, LAMBDA i : <<<<"insert_raw_device_acl_zone_interface", run, dev, z.id, i>>>>)
       \o ForEach(z.includes, LAMBDA id : <<<<"insert_raw_device_acl_zone_include", run, dev, z.id, id>>>>))

\* A set is named by a namespace and an id; so are the sets it includes.
NoNetSet == [ns |-> "", id |-> "", nets |-> <<>>, hostnames |-> <<>>, includes |-> <<>>]
NetSet(ns, id) == [NoNetSet EXCEPT !.ns = ns, !.id = id]
SaveNetSet(s, run, dev) ==
  When(s.id # "",
       <<<<"insert_raw_device_acl_ip_net_base", run, dev, s.ns, s.id>>>>
       \o ForEach(s.nets, LAMBDA net :
            <<<<"insert_raw_device_acl_ip_net_ip_net", run, dev, s.ns, s.id, NetText(net)>>>>)
       \o ForEach(s.hostnames, LAMBDA name :
            << <<"insert_raw_device_dns_reference", run, dev, name>>,
               <<"insert_raw_device_acl_ip_net_hostname", run, dev, s.ns, s.id, name>> >>)
       \o ForEach(s.includes, LAMBDA i :
            <<<<"insert_raw_device_acl_ip_net_include", run, dev, s.ns, s.id, i[1], i[2]>>>>))

\* No caller can give a port set a port range.
SavePortSet(s, run, dev) ==
  When(s.id # "",
       <<<<"insert_raw_device_acl_port_base", run, dev, s.id>>>>
       \o ForEach(s.includes, LAMBDA id : <<<<"insert_raw_device_acl_port_include", run, dev, s.id, id>>>>))

NoAclService == [id |-> "", protocol |-> "", srcPorts |-> <<>>, dstPorts |-> <<>>, includes |-> <<>>]
AclService(id) == [NoAclService EXCEPT !.id = id]
SaveAclService(s, run, dev) ==
  When(s.id # "",
       <<<<"insert_raw_device_acl_service_base", run, dev, s.id>>>>
       \o When(s.protocol # "",
            <<<<"insert_raw_device_acl_service_protocol", run, dev, s.id, s.protocol>>>>
            \o ForEach(s.srcPorts, LAMBDA src : ForEach(s.dstPorts, LAMBDA dst :
                 <<<<"insert_raw_device_acl_service_port", run, dev, s.id, s.protocol, src, dst>>>>)))
       \o ForEach(s.includes, LAMBDA id : <<<<"insert_raw_device_acl_service_include", run, dev, s.id, id>>>>))

\* Zones and sets a rule leaves open are named "": they must exist all the same.
NoAclRule ==
  [ priority |-> 0, action |-> "", incoming |-> "", outgoing |-> "", srcNs |-> "", src |-> "", dstNs |-> "",
    dst |-> "", service |-> "", protocol |-> "", srcPorts |-> "", dstPorts |-> "", description |-> "" ]
LOCAL Filter(r) == <<r.priority, r.action, r.incoming, r.outgoing, r.srcNs, r.src, r.dstNs, r.dst>>
SaveAclRuleService(r, run, dev) ==
  << <<"insert_raw_device_acl_rule_service", run, dev>> \o Filter(r) \o <<r.service, r.description>> >>
SaveAclRulePort(r, run, dev) ==
  << <<"insert_raw_device_acl_rule_port", run, dev>> \o Filter(r)
     \o <<r.protocol, r.srcPorts, r.dstPorts, r.description>> >>

----------------------------------------------------------------------------
(* What is known of a host *)

\* A response of a section, as the sequence of its columns
SaveDnsLookup(l, run) ==
  ForAll(l.sections, LAMBDA s : ForAll(s.answers, LAMBDA answer :
    <<<<"insert_raw_dns_lookup", run, IpText(l.resolver.ip), s.name, answer>>>>))

SaveDnsResolver(r, run, dev) == <<<<"insert_raw_device_dns_resolver", run, dev, IpText(r.src), IpText(r.dst)>>>>

ValidOperatingSystem(o) == ValidIp(o.ip) /\ (o.vendor # "" \/ o.product # "" \/ o.version # "" \/ o.cpe # "")
SaveOperatingSystem(o, run, dev) ==
  When(ValidOperatingSystem(o),
       SaveIp(o.ip, run, dev)
       \o <<<<"insert_raw_operating_system", run, IpText(o.ip), <<o.vendor, o.product, o.version, o.cpe>>>>>>)

ValidHop(h) == ValidIp(h.hop) /\ ValidIp(h.dst) /\ h.count > 0
SaveHop(h, run, dev) ==
  When(ValidHop(h), SaveIp(h.hop, run, dev) \o SaveIp(h.dst, run, dev)
                    \o <<<<"insert_raw_ip_traceroute", run, h.count, IpText(h.hop), IpText(h.dst)>>>>)

\* An incomplete package is saved, and refused by no constraint, when there is no device.
ValidPackage(p) == p.name # "" /\ p.version # "" /\ p.architecture # "" /\ p.description # ""
SavePackage(p, run, dev) ==
  When(ValidPackage(p) \/ dev = "",
       <<<<"insert_raw_packages", run, p.state, <<p.name, p.version, p.architecture, p.description>>>>>>)

LOCAL OfPort(statement, p, run) == <<statement, run, IpText(p.ip), p.protocol, p.port>>

\* output stands for the texts of a result that come before its severity, name, family and type of
\* the plugin and what it wrote, and solution for those after it.
ValidNessusResult(r) == ValidPort(r.port)
SaveNessusResult(r, run, dev) ==
  When(ValidNessusResult(r),
       SavePort(r.port, run, dev)
       \o <<OfPort("insert_raw_nessus_result", r.port, run) \o <<r.plugin, r.output, r.severity, r.solution>>>>)

\* The result of the plugin has to be there already.
ValidCve(c) == c.cve # "" /\ ValidPort(c.port)
SaveCve(c, run, dev) ==
  When(ValidCve(c),
       SavePort(c.port, run, dev) \o <<OfPort("insert_raw_nessus_result_cve", c.port, run) \o <<c.plugin, c.cve>>>>)

ValidMetasploitModule(m) == ValidPort(m.port) /\ m.name # ""
SaveMetasploitModule(m, run, dev) ==
  When(ValidMetasploitModule(m),
       SavePort(m.port, run, dev)
       \o <<OfPort("insert_raw_nessus_result_metasploit_module", m.port, run) \o <<m.plugin, m.name>>>>)

ValidNseResult(r) == ValidPort(r.port) /\ r.script # ""
SaveNseResult(r, run, dev) ==
  When(ValidNseResult(r),
       SavePort(r.port, run, dev) \o <<OfPort("insert_raw_nse_result", r.port, run) \o <<r.script, r.output>>>>)

ValidSshKey(k) == ValidPort(k.port) /\ k.type # "" /\ k.bits # -1 /\ k.fingerprint # ""
SaveSshKey(k, run, dev) ==
  When(ValidSshKey(k),
       SavePort(k.port, run, dev)
       \o <<OfPort("insert_raw_ssh_host_public_key", k.port, run) \o <<<<k.type, k.bits, k.fingerprint>>, k.key>>>>)

ValidSshAlgorithm(a) == ValidPort(a.port) /\ a.type # "" /\ a.name # ""
SaveSshAlgorithm(a, run, dev) ==
  When(ValidSshAlgorithm(a),
       SavePort(a.port, run, dev)
       \o <<OfPort("insert_raw_ssh_host_algorithm", a.port, run) \o <<<<a.type, a.name>>>>>>)
================================================================================
