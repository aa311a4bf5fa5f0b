----------------------------- MODULE MCImportLines -----------------------------
(* Lines that files of each kind are made of. *)
EXTENDS Objects

Addr(n) == Ip(<<10, 0, 0, n>>, 32)
In24(n) == Ip(<<10, 0, 0, n>>, 24)
Net(n)  == Ip(<<10, n, 0, 0>>, 16)
Six     == Ip(<<8193, 0, 0, 0, 0, 0, 0, 1>>, 128)

L(k) == [k |-> k]
AnIp(k, ip) == [k |-> k, ip |-> ip]
Named(k, name) == [k |-> k, name |-> name]
AnIpNamed(k, ip, name) == [k |-> k, ip |-> ip, name |-> name]

PingLines ==
  {AnIpNamed("linux ping", Addr(1), "www"), AnIpNamed("linux ping", Addr(2), ""), AnIpNamed("linux reply", Addr(1), ""),
   AnIpNamed("linux reply", Addr(2), "www"), L("linux summary"), AnIpNamed("windows ping", Addr(1), ""),
   AnIpNamed("windows reply", Addr(1), ""), L("windows summary"), L("other")}

TracerouteLines ==
  {AnIp("linux trace", Addr(9)), AnIp("windows trace", Addr(9)), L("complete"), L("other")}
  \union {[k |-> "hop", count |-> c, answers |-> a] : c \in 1..2,
          a \in {<<>>, <<<<Addr(1), "one">>>>, <<<<Addr(2), "two">>, <<Addr(1), "">>>>}}

HostsLines ==
  {[k |-> "host", ip |-> Addr(1), names |-> {"www", "Www"}], [k |-> "host", ip |-> Addr(2), names |-> {"www"}],
   [k |-> "host", ip |-> Addr(1), names |-> {}], L("comment"), L("blank"), L("other")}

DigLines ==
  {L("comment"), L("blank"), Named("question", "www"), Named("section", "answer"),
   [k |-> "record", name |-> "www", data |-> "10.0.0.1"],
   [k |-> "server", ip |-> Addr(9), port |-> 53]}

IpAddrLines ==
  {[k |-> "iface", name |-> "Eth0", up |-> TRUE], [k |-> "iface", name |-> "eth1", up |-> FALSE],
   [k |-> "link", media |-> "ether", mac |-> "mac1", extra |-> "peer"],
   [k |-> "link", media |-> "loopback", mac |-> "", extra |-> ""],
   AnIp("inet", In24(1)), AnIp("inet", In24(2)), L("altname"), L("other"), L("cut")}

IpRouteLines ==
  {[k |-> "via", dst |-> SetPrefix(NoIp, 0), hop |-> Addr(1), iface |-> "eth0"],
   [k |-> "via", dst |-> SetPrefix(NoIp, 0), hop |-> Six, iface |-> "eth0"],
   [k |-> "dev", dst |-> Net(1), src |-> Addr(1), iface |-> "eth0"],
   [k |-> "dev", dst |-> SetPrefix(NoIp, 0), src |-> NoIp, iface |-> "eth1"],
   [k |-> "null", dst |-> Net(1)], L("multipath")}

IpconfigLines ==
  {L("title"), L("blank"), Named("host", "Edge"), [k |-> "adapter", name |-> "Eth0", media |-> "Ethernet"],
   Named("suffix", "lan"), [k |-> "ip", ip |-> Addr(1), mask |-> <<255, 255, 255, 0>>],
   [k |-> "gateways", ips |-> <<Addr(9)>>], [k |-> "server", name |-> "DNS", ip |-> Addr(9)]}

PackageLines ==
  {L("headers"), L("cut"), L("other")}
  \union {[k |-> "package", name |-> n, version |-> "1", architecture |-> a, description |-> "text", state |-> s] :
            n \in {"sh", "ls"}, a \in {"all", ""}, s \in {"ii ", "rc "}}

MacTableLines ==
  {[k |-> "link", ports |-> p, vlan |-> v, mac |-> m] : p \in {<<"Gi1">>, <<"gi1", "Gi2">>}, v \in {0, 10}, m \in {"mac1", ""}}
  \union {L("other")}

NeighborLines ==
  {[k |-> h, extra |-> e] : h \in {"juniper arp", "ios ndp"}, e \in BOOLEAN}
  \union {L("ios arp"), L("nxos arp"), L("nxos ndp"), L("other")}
  \union {[k |-> "entry", ip |-> Addr(1), mac |-> "mac1", iface |-> "Gi1", extra |-> TRUE, next |-> "none"],
          [k |-> "entry", ip |-> Six, mac |-> "mac2", iface |-> "Gi2", extra |-> FALSE, next |-> "none"]}

CdpLines ==
  {L("dashes"), Named("device", "core.one"), Named("device", "core.two"), AnIp("address", Addr(1)),
   [k |-> "platform", vendor |-> "cisco", model |-> "c1"], Named("port", "Eth0"), L("codes"),
   [k |-> "entry", name |-> "Core", model |-> "c2", port |-> "eth1"], L("other")}

InventoryLines ==
  {[k |-> "item", type |-> "chassis", description |-> "d", model |-> "m", serial |-> s] : s \in {"1", "2"}}
  \union {L("blank"), L("other")}
AristaLines ==
  {[k |-> "information", tables |-> <<("Model" :> m) @@ ("Serial Number" :> "1")>>] : m \in {"m1", "m2"}}
  \union {L("fan"), L("blank"), L("other")}

CiscoRoute6(k) == [k |-> k, v6 |-> FALSE, dst |-> Net(1), direct |-> FALSE, hop |-> Addr(9), nextVrf |-> "",
                   nextTable |-> "", ifaces |-> <<"eth0">>]
CiscoRouteLines ==
  {[k |-> "vrf", vrf |-> v, v6 |-> FALSE] : v \in {"default", "blue"}} \union {L("other"), L("subnetted")}
  \union {CiscoRoute6("route"), [CiscoRoute6("route") EXCEPT !.dst = Net(2), !.ifaces = <<"eth0", "Null0">>],
          [CiscoRoute6("also") EXCEPT !.hop = Addr(8), !.ifaces = <<>>],
          [CiscoRoute6("route") EXCEPT !.direct = TRUE, !.dst = Net(3)]}

JuniperRouteOf(k, dst) == [k |-> k, dst |-> dst, hop |-> Addr(9), iface |-> "eth0", nextVrf |-> ""]
JuniperRouteLines ==
  {Named("system", ""), Named("system", "Blue"), Named("instance", "main"), Named("instance", ""),
   JuniperRouteOf("route", Net(1)), JuniperRouteOf("route", Net(2)), JuniperRouteOf("blank route", Net(1)), JuniperRouteOf("next", Net(1)),
   L("footer"), L("other")}

BrocadeRouteLines ==
  {[k |-> "route", dst |-> Net(n), direct |-> d, hop |-> Addr(9), iface |-> i] :
     n \in 1..2, d \in BOOLEAN, i \in {"eth0", ""}} \union {L("other")}

BrocadeLines ==
  {L("boot"), L("section"), AnIp("boot address", In24(1)), Named("boot device", "Eth0"), AnIp("boot gateway", Addr(9)),
   [k |-> "boot mac", mac |-> "mac1"], Named("hostname", "Edge"), Named("product", "icx"), AnIp("ntp", Addr(9)), L("other")}

PowerConnectLines ==
  {[k |-> "interface", type |-> "Eth", slot |-> s] : s \in {"0", "1"}}
  \union {[k |-> "address", ip |-> Addr(n), mask |-> <<255, 255, 255, 0>>, gateway |-> g] : n \in 1..2, g \in {NoIp, Addr(9)}}
  \union {Named("switchport mode", "trunk"), L("shutdown"), L("exit"), Named("hostname", "Edge"), L("other")}

WirelessLines ==
  {[k |-> "interface", name |-> n, ip |-> Addr(1), mask |-> <<255, 255, 255, 0>>, router |-> r] :
     n \in {"Eth0", "Null0"}, r \in {NoIp, Addr(9)}}
  \union {Named("sysname", "Edge"), AnIp("ntp", Addr(9)), L("other")}

Block(b) == [k |-> "open", block |-> b, name |-> "b1", type |-> "ethernet", id |-> 5]
VyosLines ==
  {Block(b) : b \in {"firewall", "name", "rule", "interfaces", "interface", "system", "login", "user"}}
  \union {[Block("interface") EXCEPT !.name = "b2"], AnIpNamed("address", In24(1), "10.0.0.1")}
  \union {L("close"), Named("action", "drop"), Named("default-action", "accept"), Named("address text", "dhcp"), AnIp("name-server", Addr(9)), Named("level", "admin")}

IptablesLines ==
  {L("comment"), Named("table", "filter"), Named("table", "nat"), L("commit"),
   [k |-> "chain", chain |-> "INPUT", policy |-> "DROP"], [k |-> "chain", chain |-> "USER", policy |-> "-"],
   [k |-> "rule", chain |-> "INPUT", options |-> <<<<FALSE, "s", "10.0.0.1">>, <<FALSE, "j", "ACCEPT">>>>],
   [k |-> "rule", chain |-> "USER", options |-> <<<<TRUE, "p", "tcp">>>>]}

------------------------------------------------------------------------------
(* Elements of scanners' reports, packets, and items of AWS documents. *)

Script(id) ==
  [id |-> id, names |-> {"www"}, output |-> "said",
   rows |-> IF id = "ssh-hostkey" THEN <<[port |-> NoPort, type |-> "rsa", bits |-> 2048, fingerprint |-> "f", key |-> "k"]>> ELSE <<>>]
OnPort(n, state, scripts) ==
  [id |-> n, protocol |-> "tcp", state |-> state, reason |-> "syn-ack", service |-> "ssh", product |-> "", method |-> "table",
   hostname |-> "self", scripts |-> scripts]
Extra(state, reasons) == [state |-> state, reasons |-> reasons]
NmapHost == [k |-> "host", state |-> "up", reason |-> "user-set", macs |-> <<"mac1">>, ips |-> <<Addr(1)>>, hostnames |-> <<>>,
             scripts |-> <<>>, ports |-> <<>>, oses |-> <<>>, hops |-> <<>>, extras |-> <<>>]
NmapLines ==
  {[k |-> "scaninfo", protocol |-> p] : p \in {"tcp", "udp"}}
  \union {NmapHost, [NmapHost EXCEPT !.state = "down", !.reason = "no-response", !.macs = <<>>],
          [NmapHost EXCEPT !.ports = <<OnPort(22, "open", <<Script("ssh-hostkey")>>), OnPort(80, "closed", <<>>)>>,
                           !.hostnames = <<[name |-> "www", type |-> "PTR"]>>],
          [NmapHost EXCEPT !.ports = <<[OnPort(22, "open", <<[Script("ssh-hostkey") EXCEPT !.output = "said later"]>>)
                                          EXCEPT !.product = "OpenSSH", !.method = "probed"]>>],
          [NmapHost EXCEPT !.ports = <<OnPort(80, "filtered", <<Script("nbstat")>>)>>, !.hops = <<[ip |-> Addr(9), name |-> "gw", ttl |-> 1]>>],
          [NmapHost EXCEPT !.ips = <<Addr(2)>>, !.macs = <<>>, !.reason = "echo-reply",
                           !.extras = <<Extra("filtered", <<"no-responses">>), Extra("closed", <<"resets">>)>>,
                           !.oses = <<[ip |-> NoIp, vendor |-> "v", product |-> "p", version |-> "", cpe |-> ""]>>]}

NessusItem(plugin, port, interfaces) ==
  [protocol |-> "tcp", port |-> port, severity |-> 2, plugin |-> plugin, output |-> "said", solution |-> "patch", cves |-> <<"CVE-1">>, modules |-> <<"m">>, interfaces |-> interfaces]
Nic(name, mac, ips) == [Interface(name) EXCEPT !.mac = [mac |-> mac, up |-> FALSE, ips |-> ips]]
NessusHost(n, macs) ==
  [k |-> "host", ips |-> <<Addr(n)>>, names |-> {"www"}, macs |-> macs, cpes |-> <<>>, hops |-> <<[number |-> 1, ip |-> Addr(9)]>>,
   hostname |-> "", items |-> <<>>]
NessusLines ==
  {NessusHost(n, macs) : n \in 1..2, macs \in {<<<<"mac1">>>>, <<<<"mac2">>>>, <<<<"mac1", "mac2">>>>, <<>>}}
  \union {[NessusHost(1, <<>>) EXCEPT !.items = <<NessusItem(1, 22, <<>>), NessusItem(1, 0, <<>>)>>],
          [NessusHost(2, <<>>) EXCEPT !.hostname = "Core",
             !.items = <<NessusItem(33276, 0, <<Nic("Eth0", "mac1", {Addr(2)}), Nic("eth1", "", {Addr(3)})>>)>>],
          [NessusHost(1, <<>>) EXCEPT !.items = <<[NessusItem(1, 22, <<>>) EXCEPT !.output = "said of another"]>>],
          [NessusHost(3, <<>>) EXCEPT !.ips = <<>>]}

ProwlerLines ==
  {[k |-> v, needed |-> n, text |-> t, severity |-> s] :
     v \in {"v2", "v3"}, n \in {{}, {"time"}, {"level"}}, t \in {"text", ""}, s \in {"High", "high", ""}} \union {L("other")}

Packet(k, src, dst, headers, whole) == [k |-> k, src |-> src, dst |-> dst, ieee |-> FALSE, headers |-> headers, whole |-> whole]
Arp(mac, n) == [k |-> "arp", mac |-> mac, ip |-> Addr(n)]
FromV4(n) == [k |-> "ipv4", src |-> <<10, 0, 0, n>>, protocol |-> "udp", srcPort |-> 53, response |-> TRUE,
              answers |-> <<[bytes |-> <<10, 0, 0, 3>>, name |-> "www"]>>]
PcapLines ==
  {Packet(k, m, "other", <<h>>, 4) : k \in {"ethernet", "cooked"}, m \in {"mac1", "mac2"}, h \in {Arp("mac1", 1), Arp("mac2", 2), FromV4(1)}}
  \union {Packet("ethernet", "mac1", "other", <<[k |-> "vlan", id |-> 10], Arp("mac1", 2)>>, w) : w \in 0..3}
  \union {Packet("ethernet", "mac1", d, <<Arp("mac1", 2)>>, 3) : d \in {"stp", "bridges", "discovery"}} \union {L("other")}

----------------------------------------------------------------------------
Address(n, association) == [PrivateIpAddress |-> Addr(n), PrivateDnsName |-> "www", Association |-> association]
NicItem == [NetworkInterfaceId |-> "eni1", Description |-> "first", Status |-> "in-use", InterfaceType |-> "interface", MacAddress |-> "mac1", SubnetId |-> "s1",
            VpcId |-> "v1", Attachment |-> [AttachmentId |-> "a1", Status |-> "attached"], Groups |-> <<[GroupId |-> "g1"]>>,
            Ipv6Addresses |-> <<[Ipv6Address |-> Six]>>,
            PrivateIpAddresses |-> <<Address(1, [PublicIp |-> Addr(9), PublicDnsName |-> "pub"])>>]
Without(item, key) == [k \in DOMAIN item \ {key} |-> item[k]]
NicItems == {NicItem, Without(NicItem, "Attachment"), Without(NicItem, "NetworkInterfaceId"), [NicItem EXCEPT !.Description = "second"], [NicItem EXCEPT !.Groups = <<>>]}

InstanceItem == [InstanceId |-> "i1", InstanceType |-> "t", Placement |-> L("p"), State |-> [Code |-> 16], NetworkInterfaces |-> <<NicItem>>]
InstanceItems == {InstanceItem, Without(InstanceItem, "Placement"), [InstanceItem EXCEPT !.NetworkInterfaces = <<>>],
                  [InstanceItem EXCEPT !.InstanceId = "i2"]}

AclEntryItem(n, key) == (key :> IF key = "CidrBlock" THEN Net(1) ELSE Six)
                        @@ [RuleNumber |-> n, RuleAction |-> "allow", Protocol |-> "6", Egress |-> FALSE, PortRange |-> [From |-> 22, To |-> 23]]
NetworkAclItem(entries) == [NetworkAclId |-> "acl1", VpcId |-> "v1", Associations |-> <<[SubnetId |-> "s1"]>>, Entries |-> entries]
NetworkAclItems == {NetworkAclItem(<<>>), NetworkAclItem(<<AclEntryItem(1, "CidrBlock"), AclEntryItem(2, "Ipv6CidrBlock")>>),
                    NetworkAclItem(<<AclEntryItem(1, "CidrBlock") @@ ("Ipv6CidrBlock" :> Six)>>), [NetworkAclId |-> "acl2"]}

PermissionItem(protocol) ==
  [IpProtocol |-> protocol, FromPort |-> 22, ToPort |-> 22, IpRanges |-> <<[CidrIp |-> Net(1)], [CidrIp |-> Net(2)]>>, Ipv6Ranges |-> <<>>,
   PrefixListIds |-> <<>>, UserIdGroupPairs |-> <<[GroupId |-> "g2"]>>]
GroupItem(in, out) == [GroupId |-> "g1", GroupName |-> "n", Description |-> "d", VpcId |-> "v1", IpPermissions |-> in, IpPermissionsEgress |-> out]
GroupItems == {GroupItem(<<>>, <<>>), GroupItem(<<PermissionItem("tcp")>>, <<>>), GroupItem(<<PermissionItem("icmp")>>, <<PermissionItem("-1")>>),
               [GroupId |-> "g2"]}

SubnetItem(state) == [SubnetId |-> "s1", VpcId |-> "v1", State |-> state, CidrBlock |-> Net(1), AvailabilityZone |-> "z", SubnetArn |-> "arn",
                      Ipv6CidrBlockAssociationSet |-> <<[Ipv6CidrBlock |-> Six, Ipv6CidrBlockState |-> [State |-> "associated"]]>>]
SubnetItems == {SubnetItem("available"), SubnetItem("pending"), Without(SubnetItem("available"), "State")}

VpcItem == [VpcId |-> "v1", OwnerId |-> "o", State |-> "available",
            CidrBlockAssociationSet |-> <<[CidrBlock |-> Net(1), CidrBlockState |-> [State |-> "associated"]]>>]
VpcItems == {VpcItem, Without(VpcItem, "VpcId"), [VpcItem EXCEPT !.VpcId = "v2"]}
PeerInfo(id) == [VpcId |-> id, OwnerId |-> "o", CidrBlock |-> Net(1), CidrBlockSet |-> <<[CidrBlock |-> Net(1)], [CidrBlock |-> Net(2)]>>]
PeeringItem == [VpcPeeringConnectionId |-> "p1", Status |-> [Code |-> "active", Message |-> "m"],
                AccepterVpcInfo |-> PeerInfo("v1"), RequesterVpcInfo |-> PeerInfo("v2")]
PeeringItems == {PeeringItem, Without(PeeringItem, "Status"), Without(PeeringItem, "AccepterVpcInfo")}

RouteItem(target) == target @@ [State |-> "active", DestinationCidrBlock |-> Net(1)]
RouteTableItem(routes) == [RouteTableId |-> "rtb1", VpcId |-> "v1", Routes |-> routes,
                           Associations |-> <<[AssociationState |-> "associated", Main |-> TRUE, SubnetId |-> "s1"]>>]
RouteTableItems == {RouteTableItem(<<>>), RouteTableItem(<<RouteItem("GatewayId" :> "local")>>),
                    RouteTableItem(<<RouteItem(("GatewayId" :> "igw1") @@ ("NatGatewayId" :> "nat1"))>>), [RouteTableId |-> "rtb2"]}
AttachmentItem == [TransitGatewayAttachmentId |-> "tga1", TransitGatewayId |-> "tgw1", TransitGatewayOwnerId |-> "o", State |-> "available",
                   ResourceType |-> "vpc", ResourceId |-> "v1", ResourceOwnerId |-> "o", Association |-> [State |-> "associated"]]
AttachmentItems == {AttachmentItem, Without(AttachmentItem, "Association"), Without(AttachmentItem, "TransitGatewayId")}

------------------------------------------------------------------------------
(* Lines and parts of configurations; in a document there are one or two of the parts. *)

Mask24  == <<255, 255, 255, 0>>
Wildcard24 == <<0, 0, 0, 255>>

----------------------------------------------------------------------------
\* Cisco: lines that stand alone, and lines under a header
Top(k)   == [k |-> k, in |-> FALSE, rest |-> FALSE]
Under(k) == [k |-> k, in |-> TRUE, rest |-> FALSE]
WithRest(l)  == [l EXCEPT !.rest = TRUE]
From(name) == [name |-> name, ip |-> NoIp, mask |-> <<>>]
NoText == [op |-> "", text |-> ""]
Permit(src, port, numbered) ==
  Under("rule") @@ [numbered |-> numbered, action |-> "permit", protocol |-> "tcp", src |-> src, dst |-> {From("web")},
                    srcPort |-> NoText, dstPort |-> port, established |-> FALSE, log |-> FALSE, tail |-> ""]

CiscoLines ==
  {Top("interface") @@ [name |-> n] : n \in {"Gi1", "Vlan10"}}
  \union {Under("address") @@ [ip |-> Addr(1), mask |-> Mask24, name |-> ""],
          Under("alias address") @@ [name |-> "web", mask |-> Mask24], WithRest(Under("vlans") @@ [ids |-> {10}]),
          Under("cdp enable") @@ [no |-> TRUE], Under("bpduguard") @@ [set |-> "disable", no |-> FALSE], Top("bpduguard default"),
          Under("shutdown") @@ [no |-> FALSE], Under("nameif") @@ [name |-> "inside"],
          Top("apply") @@ [name |-> "acl", direction |-> "in", iface |-> "inside"],
          Under("access-group") @@ [name |-> "acl", direction |-> "out"],
          Top("list") @@ [style |-> "extended", name |-> "acl"], Under("remark") @@ [text |-> "old"],
          Permit(From("any"), [op |-> "eq", text |-> "80"], FALSE),
          Permit([name |-> "", ip |-> Addr(0), mask |-> Wildcard24], [op |-> "eq", text |-> "echo"], FALSE),
          [Permit([name |-> "", ip |-> Addr(0), mask |-> Wildcard24], NoText, FALSE) EXCEPT !.action = "deny"],
          Top("access-list") @@ [style |-> "asa", name |-> "acl", line |-> Permit(From("any"), NoText, FALSE)],
          Top("networks") @@ [name |-> "web"], Under("host") @@ [ip |-> Addr(2)], Under("group-object") @@ [name |-> "web"],
          Top("route") @@ [vrf |-> "", ip |-> Addr(0), mask |-> Mask24, hop |-> Addr(9), iface |-> ""],
          Top("hostname") @@ [name |-> "Edge"], Top("server") @@ [kind |-> "ntp", ip |-> Addr(9)], Top("other")}

----------------------------------------------------------------------------
Open(b, fields) == [k |-> "open", block |-> b] @@ fields
Bare(b)  == [k |-> "open", block |-> b]
Leaf(k, fields) == [k |-> k] @@ fields
ConfLines ==
  {Bare(b) : b \in {"interfaces", "applications", "security", "zones", "address-book", "groups", "policies", "match"}}
  \union {Open("interface", [type |-> "ge", name |-> "-0"]), Open("unit", [name |-> "0"]), Bare("family"),
          Open("application", [name |-> "web"]), Open("group", [name |-> "node1", node |-> TRUE]),
          Open("group", [name |-> "other", node |-> FALSE]), Open("zone", [name |-> "trust"]), Bare("zone interfaces"),
          Open("from-to", [from |-> "trust", to |-> "dmz"]), Open("policy", [name |-> "p1"]), [k |-> "close"],
          Leaf("disable", [n |-> 0]), Leaf("address", [ip |-> In24(1), name |-> "lan", text |-> "10.0.0.0/24"]),
          Leaf("interface", [name |-> "ge-0.0"]), Leaf("value", [key |-> "protocol", value |-> "tcp"]),
          Leaf("match", [key |-> "source-address", values |-> <<"lan">>])}

SetLines ==
  {[k |-> "interface", name |-> "Eth0", type |-> "ethernet", what |-> w, ip |-> In24(1), zone |-> "trust"] : w \in {"address", "disable", "zone"}}
  \union {[k |-> "interface", name |-> "eth1", type |-> "ethernet", what |-> "zone", ip |-> NoIp, zone |-> "trust"]}
  \union {[k |-> "route", name |-> i, ip |-> Net(n), hop |-> Addr(9)] : i \in {"", "eth1"}, n \in 1..2}
  \union {[k |-> "address", zone |-> "trust", name |-> "lan", text |-> "10.0.0.0/24"],
          [k |-> "group", zone |-> "trust", name |-> "all", other |-> "lan"], [k |-> "group", zone |-> "trust", name |-> "lan", other |-> "all"],
          [k |-> "service", name |-> "web", protocol |-> "tcp", src |-> "", dst |-> "80"], [k |-> "other"],
          [k |-> "policy", what |-> "from", id |-> 1, from |-> "trust", to |-> "dmz", src |-> "lan", dst |-> "any", service |-> "web", action |-> "permit"],
          [k |-> "policy", what |-> "more", id |-> 1, key |-> "src-address", value |-> "all"], [k |-> "policy", what |-> "disable", id |-> 2]}

----------------------------------------------------------------------------
\* Juniper XML
Settings(dns) == [nameServers |-> dns, domains |-> <<"lan">>, tacplus |-> <<>>, ntp |-> <<[src |-> NoIp, servers |-> <<Addr(9)>>]>>]
Config(name) == [k |-> "configuration", name |-> name, groups |-> <<>>, system |-> Settings(<<>>), interfaces |-> <<>>, instances |-> <<>>,
                 routing |-> <<>>, zones |-> <<>>, books |-> <<>>, applications |-> <<>>, policies |-> <<>>, systems |-> <<>>]
XmlUnit(vlan) == [name |-> "0", description |-> "", disable |-> FALSE, vlan |-> vlan,
                  addresses |-> <<[ip |-> In24(1), arps |-> <<[mac |-> "mac1", ips |-> <<Addr(2)>>]>>]>>]
XmlInterface(disable) == [name |-> "ge-0", media |-> "ge", description |-> "up", disable |-> disable, parents |-> <<"reth0">>, members |-> <<>>,
                          units |-> <<XmlUnit(<<10>>)>>]
XmlInterfaces(disable) == <<[ranges |-> <<[name |-> "r", members |-> <<[name |-> "ge-0", media |-> "ge"], [name |-> "ge-1", media |-> "ge"]>>,
                                            parents |-> <<>>]>>, interfaces |-> <<XmlInterface(disable)>>]>>
XmlRoute(dst, table) == [dst |-> dst, discard |-> FALSE, hop |-> Addr(9), table |-> table]
XmlInstance(name) == <<<<[name |-> name, ifaces |-> <<"ge-0.0", "none">>, routes |-> <<XmlRoute(Net(1), <<>>)>>]>>>>
XmlZones == <<<<[name |-> "trust", ifaces |-> <<"ge-0.0">>], [name |-> "dmz", ifaces |-> <<>>]>>>>
XmlBook(name, ofZone) == [name |-> name, ofZone |-> ofZone, addresses |-> <<[name |-> "lan", nets |-> <<Net(1)>>, names |-> <<>>]>>,
                          sets |-> <<[name |-> "all", members |-> <<"lan">>]>>]
XmlApplications == <<[applications |-> <<[name |-> "web", protocol |-> "tcp", srcPorts |-> <<>>, dstPorts |-> <<<<80, 80>>>>, terms |-> <<>>]>>,
                      sets |-> <<[name |-> "webs", members |-> <<"web">>]>>]>>
XmlPolicy(srcs, service) == [name |-> "p1", from |-> <<>>, to |-> <<>>, srcs |-> srcs, dsts |-> <<>>, applications |-> service, then |-> "permit"]
XmlPolicies(srcs, service) == <<[pairs |-> <<[from |-> <<"trust">>, to |-> <<"dmz">>, policies |-> <<XmlPolicy(srcs, service)>>]>>,
                                global |-> <<[XmlPolicy(<<>>, service) EXCEPT !.then = "deny"]>>]>>
Firewall(books, srcs, service) ==
  [Config("") EXCEPT !.interfaces = XmlInterfaces(FALSE), !.zones = XmlZones, !.books = books, !.applications = XmlApplications,
                     !.policies = XmlPolicies(srcs, service)]
AnyService == [Config("") EXCEPT !.applications = <<[applications |-> <<[name |-> "any", protocol |-> "any", srcPorts |-> <<>>, dstPorts |-> <<>>,
                                                                   terms |-> <<>>]>>, sets |-> <<>>]>>]
ParentOf(system) == [Config("") EXCEPT !.system = Settings(<<Addr(9)>>), !.systems = <<system>>]
XmlTable(vrf, numbered) ==
  [vrf |-> vrf, numbered |-> numbered,
   routes |-> <<[multicast |-> FALSE, dst |-> Net(2),
                 entries |-> <<[active |-> TRUE, type |-> "", to |-> <<Addr(9)>>, table |-> <<>>, via |-> "ge-0.0"]>>]>>]

XmlParts ==
  {Firewall(<<XmlBook("global", FALSE)>>, <<"lan">>, <<"web">>), Firewall(<<XmlBook("trust", TRUE)>>, <<"lan">>, <<"web">>),
   Firewall(<<XmlBook("trust", TRUE), XmlBook("dmz", TRUE)>>, <<"all">>, <<"webs">>), Firewall(<<XmlBook("global", FALSE)>>, <<"none">>, <<"web">>),
   [Firewall(<<XmlBook("global", FALSE)>>, <<"lan">>, <<"web">>) EXCEPT !.policies[1].pairs[1].policies[1].name = "p2"],
   Firewall(<<>>, <<>>, <<>>), AnyService,
   ParentOf([Config("Blue") EXCEPT !.interfaces = XmlInterfaces(TRUE), !.instances = XmlInstance("red")]),
   [Config("") EXCEPT !.groups = <<Config("junos-defaults"), Config("node0")>>],
   [Config("") EXCEPT !.groups = <<Config("junos-defaults")>>, !.system = Settings(<<Addr(9)>>)],
   [Config("") EXCEPT !.routing = <<<<XmlRoute(Net(1), <<[vrf |-> "red", table |-> "inet.0"]>>)>>>>, !.instances = XmlInstance("red")],
   [k |-> "route information", tables |-> <<XmlTable("red", TRUE), XmlTable("", TRUE), XmlTable("red", FALSE)>>],
   [k |-> "neighbors", entries |-> <<[iface |-> "ge-0.0", mac |-> "mac1", ips |-> <<Addr(2)>>], [iface |-> "", mac |-> "mac2", ips |-> <<>>]>>],
   [k |-> "lldp", entries |-> <<[port |-> "ge-0", parent |-> "-", macs |-> <<"mac2">>]>>],
   [k |-> "switching", entries |-> <<[iface |-> "ge-0.0", vlan |-> <<10>>, mac |-> "mac3", ips |-> <<Addr(3)>>]>>],
   [k |-> "output", system |-> "Blue"], [k |-> "output", system |-> "default"], [k |-> "error"], [k |-> "unknown"]}

----------------------------------------------------------------------------
\* F5
NamedAddress(name) == [name |-> name, domain |-> "", ip |-> NoIp]
AnAddress(n, domain) == [name |-> "", domain |-> domain, ip |-> Addr(n)]
Item(name) == [partition |-> "Common", name |-> name, path |-> "/Common/x"]
Mask(n) == [name |-> "", domain |-> "", ip |-> Ip(<<255, 255, 255, n>>, 32)]
F5Docs ==
  {[kind |-> "virtual addresses", items |-> <<Item("v1") @@ [address |-> a, mask |-> m]>>] :
     a \in {AnAddress(1, "1"), AnAddress(1, ""), NamedAddress("any")}, m \in {Mask(255), Mask(0)}}
  \union {[kind |-> "neighbors", items |-> <<Item("Eth0") @@ [address |-> AnAddress(2, "1"), mac |-> "mac1"]>>],
          [kind |-> "selves", items |-> <<Item("Eth0") @@ [address |-> AnAddress(3, "1")], Item("eth1") @@ [address |-> AnAddress(4, "")]>>],
          [kind |-> "selves", items |-> <<Item("Eth0")>>], [kind |-> "pools", items |-> <<>>]}
  \union {[kind |-> "routes", items |-> <<Item("r") @@ [network |-> NamedAddress("default"), gateway |-> AnAddress(9, d)]>>] : d \in {"", "1"}}

\* Palo Alto
PaRule(name, types, from, to, srcs, services, action) ==
  [name |-> name, types |-> types, from |-> from, to |-> to, srcs |-> srcs, dsts |-> <<>>, services |-> services, action |-> action]
NoSection == [imports |-> <<>>, zones |-> <<>>, addresses |-> <<>>, groups |-> <<>>, services |-> <<>>, serviceGroups |-> <<>>,
              rules |-> <<>>, defaultRules |-> <<>>]
Lan == <<[name |-> "lan", nets |-> <<Net(1)>>, names |-> <<>>]>>
Web == <<[name |-> "web", protocol |-> "tcp", ports |-> <<<<80, 80>>>>]>>
PaZones == <<<<[name |-> "trust", ifaces |-> <<"eth1">>], [name |-> "dmz", ifaces |-> <<>>]>>>>
Vsys(name, srcs, services, types) ==
  [NoSection EXCEPT !.imports = <<<<"eth1">>>>, !.zones = PaZones, !.services = <<Web>>,
     !.rules = <<<<PaRule("r1", types, <<"trust">>, <<"any">>, srcs, services, "allow")>>>>,
     !.defaultRules = <<<<PaRule("intrazone-default", <<>>, <<>>, <<>>, <<>>, <<>>, "drop")>>>>] @@ [name |-> name]
PaloAlto(vsys) ==
  [dns |-> <<Addr(9)>>, ntp |-> <<>>, domains |-> <<"lan">>, vsys |-> vsys, shared |-> [NoSection EXCEPT !.addresses = <<Lan>>],
   ifaces |-> <<[kind |-> "ethernet", name |-> "eth1", ips |-> <<[name |-> "", ip |-> In24(1)], [name |-> "lan", ip |-> NoIp]>>]>>,
   routers |-> <<[name |-> "vr", ifaces |-> <<"eth1">>, routes |-> <<[dst |-> Net(2), hop |-> Addr(9), iface |-> "eth1"]>>]>>]
PaloAltoDocs ==
  {PaloAlto(<<Vsys(n, s, v, t)>>) : n \in {"vsys1", "Vsys1"}, s \in {<<"lan">>, <<>>, <<"none">>}, v \in {<<>>, <<"web">>, <<"ssh">>},
                                  t \in {<<>>, <<"interzone">>}}
  \union {[PaloAlto(<<Vsys("vsys1", <<>>, <<>>, <<>>)>>) EXCEPT !.shared.rules = <<<<PaRule("r2", <<>>, <<"trust">>, <<"any">>, <<>>, <<>>, "allow")>>>>],
          PaloAlto(<<>>), PaloAlto(<<[Vsys("vsys1", <<>>, <<>>, <<>>) EXCEPT !.imports = <<<<"eth9">>>>]>>),
          PaloAlto(<<Vsys("vsys1", <<"lan">>, <<>>, <<>>), Vsys("vsys2", <<>>, <<"web">>, <<>>)>>)}

XmlDocs == {<<a, b>> : a \in XmlParts, b \in XmlParts}
===============================================================================
