------------------------------ MODULE AwsObjects ------------------------------
(***************************************************************************)
(* The objects of the AWS importers and of the prowler importer, and the   *)
(* statements saving one asks for.  An identifier or a text that is absent *)
(* is "", as it is in the program.                                         *)
(***************************************************************************)
EXTENDS Objects

\* INT32_MIN: a port, type or code that was never set
NoCode == -2147483647 - 1

NoCidr == [ip |-> NoIp, state |-> "", fqdns |-> {}]
Cidr(ip) == [NoCidr EXCEPT !.ip = ip]
CidrText(c) == IF c.ip = NoIp THEN <<>> ELSE IpText(c.ip)
AddFqdn(c, name) == IF name = "" THEN c ELSE [c EXCEPT !.fqdns = @ \union {name}]
ValidCidr(c) == c.ip # NoIp

\* The block of an address that can be saved is saved as an address with its names.
SaveCidr(c, run, owner) ==
  LET named == FoldSet(LAMBDA name, ip : AddAlias(ip, name, "AWS CidrBlock"), c.ip, c.fqdns)
  IN  When(ValidCidr(c),
           <<<<"insert_raw_aws_cidr_block", run, CidrText(c)>>>>
           \o (IF ValidIp(c.ip) THEN SaveIp(named, run, "") ELSE SaveNet(c.ip, run, ""))
           \o When(c.state # "", <<<<"insert_raw_aws_cidr_block_detail", run, CidrText(c), c.state>>>>)
           \o ForAll(c.fqdns, LAMBDA name : <<<<"insert_raw_aws_cidr_block_fqdn", run, CidrText(c), name>>>>))

LOCAL SaveVpcTie(statement, vpc, other, run) ==
  When(vpc # "", << <<"insert_raw_aws_vpc", run, vpc>>, <<statement, run, vpc, other>> >>)

----------------------------------------------------------------------------
(* Network interfaces and instances *)

NoAttachment == [id |-> "", status |-> ""]
SaveAttachment(a, run, nic) ==
  When(a.id # "" /\ a.status # "",
       <<<<"insert_raw_aws_network_interface_attachment", run, nic, <<a.id, a.status>>>>>>)

NoNic ==
  [ id |-> "", description |-> "", type |-> "", status |-> "", attachment |-> NoAttachment, mac |-> "", cidrs |-> {},
    subnet |-> "", vpc |-> "", groups |-> {} ]
ValidNic(n) == n.id # ""

LOCAL NicAddresses(n, run) ==
  When(n.mac # "", <<<<"insert_raw_aws_network_interface_mac", run, n.id, n.mac>>>>)
  \o ForAll(n.cidrs, LAMBDA c :
       SaveCidr(c, run, n.id) \o <<<<"insert_raw_aws_network_interface_ip", run, n.id, CidrText(c)>>>>)

\* What the interface is tied to is inserted first, as far as its name goes.
LOCAL NicTies(n, run, instance) ==
  When(n.subnet # "", <<<<"insert_raw_aws_subnet", run, n.subnet>>>>)
  \o When(n.vpc # "", <<<<"insert_raw_aws_vpc", run, n.vpc>>>>)
  \o When(n.subnet # "" /\ n.vpc # "",
          <<<<"insert_raw_aws_network_interface_vpc_subnet", run, n.id, n.vpc, n.subnet>>>>)
  \o ForAll(n.groups, LAMBDA g :
       << <<"insert_raw_aws_security_group", run, g>>,
          <<"insert_raw_aws_network_interface_security_group", run, n.id, g>> >>)
  \o When(instance # "", <<<<"insert_raw_aws_instance_network_interface", run, instance, n.id>>>>)

SaveNic(n, run, instance) ==
  When(ValidNic(n),
       <<<<"insert_raw_aws_network_interface", run, n.id>>>>
       \o When(n.type # "" /\ n.status # "",
               <<<<"insert_raw_aws_network_interface_detail", run, n.id, <<n.type, n.status>>, n.description>>>>)
       \o SaveAttachment(n.attachment, run, n.id)
       \o NicAddresses(n, run) \o NicTies(n, run, instance))

NoInstance == [id |-> "", details |-> "", nics |-> {}]
AddNic(i, n) == IF n = NoNic THEN i ELSE [i EXCEPT !.nics = @ \union {n}]
SaveInstance(i, run) ==
  When(i.id # "",
       << <<"insert_raw_aws_instance", run, i.id>>, <<"insert_raw_aws_instance_detail", run, i.id, i.details>> >>
       \o ForAll(i.nics, LAMBDA n : SaveNic(n, run, i.id)))

----------------------------------------------------------------------------
(* Filters: network ACLs and security groups *)

NoAclEntry ==
  [ egress |-> FALSE, number |-> NoCode, action |-> "", protocol |-> "", from |-> NoCode, to |-> NoCode,
    ports |-> FALSE, typed |-> FALSE, cidrs |-> {} ]
ValidAclEntry(r) == r.number # NoCode /\ r.action # "" /\ r.protocol # "" /\ r.cidrs # {}
SaveAclEntry(r, run, acl) ==
  LET key == <<run, acl, r.egress, r.number, r.action>>
      span == <<<<r.from, r.to>>>>
  IN  When(ValidAclEntry(r),
           ForAll(r.cidrs, LAMBDA c :
             SaveCidr(c, run, acl)
             \o <<<<"insert_raw_aws_network_acl_rule">> \o key \o <<r.protocol, CidrText(c)>>>>)
           \o When(r.ports, <<<<"insert_raw_aws_network_acl_rules_port", run, acl, r.egress, r.number>> \o span>>)
           \o When(r.typed, <<<<"insert_raw_aws_network_acl_rules_type_code", run, acl, r.egress, r.number>> \o span>>))

NoNetworkAcl == [id |-> "", vpc |-> "", rules |-> {}, subnets |-> {}]
SaveNetworkAcl(a, run) ==
  When(a.id # "",
       <<<<"insert_raw_aws_network_acl", run, a.id>>>>
       \o ForAll(a.rules, LAMBDA r : SaveAclEntry(r, run, a.id))
       \o SaveVpcTie("insert_raw_aws_vpc_network_acl", a.vpc, a.id, run)
       \o ForAll(a.subnets, LAMBDA s :
            << <<"insert_raw_aws_subnet", run, s>>, <<"insert_raw_aws_network_acl_subnet", run, a.id, s>> >>))

NoPermission ==
  [ egress |-> FALSE, protocol |-> "", from |-> NoCode, to |-> NoCode, cidrs |-> {}, others |-> {}, details |-> {} ]
ValidPermission(r) ==
  /\ r.protocol # "" /\ r.from # NoCode /\ r.to # NoCode
  /\ r.cidrs # {} \/ r.others # {}

\* Any protocol, "-1", is recorded both as ports and as a type and a code.
SavePermission(r, run, group) ==
  LET Row(statement, target) == <<statement, run, group, r.egress, r.protocol, <<r.from, r.to>>, target>>
      typed == r.protocol \in {"icmp", "-1"}
      ports == r.protocol # "icmp"
  IN  When(ValidPermission(r),
           ForAll(r.cidrs, LAMBDA c :
             SaveCidr(c, run, group)
             \o When(typed, <<Row("insert_raw_aws_security_group_rules_type_code", CidrText(c))>>)
             \o When(ports, <<Row("insert_raw_aws_security_group_rules_port", CidrText(c))>>))
           \o ForAll(r.others, LAMBDA name :
             When(typed, <<Row("insert_raw_aws_security_group_rules_non_ip_type_code", name)>>)
             \o When(ports, <<Row("insert_raw_aws_security_group_rules_non_ip_port", name)>>))
           \o ForAll(r.details, LAMBDA text :
             <<Row("insert_raw_aws_security_group_rules_non_ip_detail", text)>>))

NoGroup == [id |-> "", name |-> "", description |-> "", vpc |-> "", rules |-> {}]
AddPermission(g, r) == IF r = NoPermission THEN g ELSE [g EXCEPT !.rules = @ \union {r}]
SaveGroup(g, run) ==
  When(g.id # "",
       <<<<"insert_raw_aws_security_group", run, g.id>>>>
       \o When(g.name # "" /\ g.description # "",
               <<<<"insert_raw_aws_security_group_detail", run, g.id, <<g.name, g.description>>>>>>)
       \o ForAll(g.rules, LAMBDA r : SavePermission(r, run, g.id))
       \o SaveVpcTie("insert_raw_aws_vpc_security_group", g.vpc, g.id, run))

----------------------------------------------------------------------------
(* Subnets, VPCs, route tables and what joins them *)

NoSubnet == [id |-> "", zone |-> "", arn |-> "", vpc |-> "", cidrs |-> {}]
SaveSubnet(s, run) ==
  When(s.id # "",
       <<<<"insert_raw_aws_subnet", run, s.id>>>>
       \o When(s.zone # "" /\ s.arn # "", <<<<"insert_raw_aws_subnet_detail", run, s.id, <<s.zone, s.arn>>>>>>)
       \o ForAll(s.cidrs, LAMBDA c :
            SaveCidr(c, run, s.id) \o <<<<"insert_raw_aws_subnet_cidr_block", run, s.id, CidrText(c)>>>>)
       \o SaveVpcTie("insert_raw_aws_vpc_subnet", s.vpc, s.id, run))

NoVpc == [id |-> "", owner |-> "", state |-> "", cidrs |-> {}]
ValidVpc(v) == v.id # "" /\ v.owner # ""

\* The state stored with a block is the state of the VPC.
SaveVpc(v, run) ==
  When(ValidVpc(v),
       << <<"insert_raw_aws_vpc", run, v.id>>, <<"insert_raw_aws_vpc_owner", run, v.id, v.owner>> >>
       \o When(v.state # "", <<<<"insert_raw_aws_vpc_detail", run, v.id, v.state>>>>)
       \o ForAll(v.cidrs, LAMBDA c :
            SaveCidr(c, run, v.id) \o <<<<"insert_raw_aws_vpc_cidr_block", run, v.id, CidrText(c), v.state>>>>))

NoPeering == [id |-> "", code |-> "", message |-> "", accepter |-> NoVpc, requester |-> NoVpc]
ValidPeering(p) == p.id # "" /\ ValidVpc(p.accepter) /\ ValidVpc(p.requester)
SavePeering(p, run) ==
  When(ValidPeering(p),
       << <<"insert_raw_aws_vpc_peering_connection", run, p.id>>,
          <<"insert_raw_aws_vpc_peering_connection_peer", run, p.id, p.accepter.id, p.accepter.owner,
            p.requester.id, p.requester.owner>> >>
       \o When(p.code # "",
               <<<<"insert_raw_aws_vpc_peering_connection_status", run, p.id, <<p.code, p.message>>>>>>)
       \o SaveVpc(p.accepter, run) \o SaveVpc(p.requester, run))

NoAwsRoute == [target |-> "", state |-> "", cidrs |-> {}, others |-> {}]
ValidAwsRoute(r) == r.target # ""
SaveAwsRoute(r, run, table) ==
  When(ValidAwsRoute(r),
       ForAll(r.cidrs, LAMBDA c :
         SaveCidr(c, run, table)
         \o <<<<"insert_raw_aws_route_table_route_cidr", run, table, r.target, r.state, CidrText(c)>>>>)
       \o ForAll(r.others, LAMBDA name :
         <<<<"insert_raw_aws_route_table_route_non_cidr", run, table, r.target, r.state, name>>>>))

NoRouteTable == [id |-> "", vpc |-> "", default |-> FALSE, associations |-> {}, routes |-> {}]
SaveRouteTable(t, run) ==
  When(t.id # "",
       <<<<"insert_raw_aws_route_table", run, t.id>>>>
       \o ForAll(t.associations, LAMBDA a : <<<<"insert_raw_aws_route_table_association", run, t.id, a>>>>)
       \o ForAll(t.routes, LAMBDA r : SaveAwsRoute(r, run, t.id))
       \o When(t.vpc # "",
            << <<"insert_raw_aws_vpc", run, t.vpc>>,
               <<"insert_raw_aws_vpc_route_table", run, t.vpc, t.id, t.default>> >>))

NoGatewayAttachment ==
  [ id |-> "", gateway |-> "", owner |-> "", state |-> "", resource |-> <<"", "", "", "">> ]
ValidGatewayAttachment(a) == a.id # "" /\ a.gateway # "" /\ a.state # ""
SaveGatewayAttachment(a, run) ==
  When(ValidGatewayAttachment(a),
       << <<"insert_raw_aws_transit_gateway", run, a.gateway>>,
          <<"insert_raw_aws_transit_gateway_attachment", run, a.gateway, a.id, a.state>> >>
       \o When(a.owner # "", <<<<"insert_raw_aws_transit_gateway_owner", run, a.gateway, a.owner>>>>)
       \o When(\A i \in DOMAIN a.resource : a.resource[i] # "",
               <<<<"insert_raw_aws_transit_gateway_attachment_detail", run, a.gateway, a.id, a.resource>>>>))
================================================================================
