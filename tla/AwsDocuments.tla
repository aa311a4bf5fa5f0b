----------------------------- MODULE AwsDocuments -----------------------------
(***************************************************************************)
(* The parsers of the AWS importers.  A document is the list of the items  *)
(* under its one key; a JSON object is a record, which may lack a key; the *)
(* text of an address is the IpAddress it stands for, "" is NoIp.          *)
(* Parsed(kind, item) is the object an item becomes and the observations   *)
(* made on the way; Lacks(kind, item) tells that at() or an absent value   *)
(* throws json::out_of_range, which ends the program before it opens the   *)
(* data store.                                                             *)
(***************************************************************************)
EXTENDS AwsObjects

ANY == -1

Value(json, key, default) == IF key \in DOMAIN json THEN json[key] ELSE default
Has(json, keys)           == keys \subseteq DOMAIN json
Each(json, key)           == Range(Value(json, key, <<>>))


----------------------------------------------------------------------------
(* describe-instances and describe-network-interfaces *)

\* Three kinds of public addresses share the one public name.
PublicCidrs(address) ==
  LET association == Value(address, "Association", [none |-> ""])
  IN  {AddFqdn(Cidr(association[key]), Value(association, "PublicDnsName", "")) :
         key \in {"CarrierIp", "CustomerOwnedIp", "PublicIp"} \intersect DOMAIN association}

NicCidrs(json) ==
  {Cidr(a.Ipv6Address) : a \in Each(json, "Ipv6Addresses")}
  \union UNION {{AddFqdn(Cidr(a.PrivateIpAddress), Value(a, "PrivateDnsName", ""))} \union PublicCidrs(a) :
                  a \in Each(json, "PrivateIpAddresses")}

LOCAL Nic(json, attachment) ==
  [NoNic EXCEPT !.id = Value(json, "NetworkInterfaceId", ""), !.description = Value(json, "Description", ""),
                !.status = Value(json, "Status", ""),
                !.type = Value(json, "InterfaceType", ""), !.mac = Value(json, "MacAddress", ""),
                !.subnet = Value(json, "SubnetId", ""), !.vpc = Value(json, "VpcId", ""),
                !.attachment = attachment,
                !.groups = {Value(g, "GroupId", "") : g \in Each(json, "Groups")}, !.cidrs = NicCidrs(json)]

LOCAL Attachment(json) == [id |-> Value(json, "AttachmentId", ""), status |-> Value(json, "Status", "")]

\* The list of interfaces takes an attachment as it is.
DescribedNic(json) ==
  Nic(json, IF Has(json, {"Attachment"}) THEN Attachment(json.Attachment) ELSE NoAttachment)

\* An instance's interface has none if any of what is wanted of it is missing.
InstanceNic(json) ==
  Nic(json, IF Has(json, {"Attachment"}) /\ Has(json.Attachment, {"DeleteOnTermination"})
            THEN Attachment(json.Attachment) ELSE NoAttachment)

LOCAL NicLacks(json) ==
  \/ \E a \in Each(json, "Ipv6Addresses")      : ~Has(a, {"Ipv6Address"})
  \/ \E a \in Each(json, "PrivateIpAddresses") : ~Has(a, {"PrivateIpAddress"})

InstanceLacks(json) ==
  \/ ~Has(json, {"InstanceId", "Placement", "State", "NetworkInterfaces"})
  \/ ~Has(json.State, {"Code"})
  \/ \E n \in Range(json.NetworkInterfaces) :
       ~Has(n, {"Groups", "Ipv6Addresses", "PrivateIpAddresses"}) \/ NicLacks(n)

DescribedInstance(json) ==
  FoldLeft(LAMBDA i, n : AddNic(i, InstanceNic(n)),
           [NoInstance EXCEPT !.id = json.InstanceId, !.details = Value(json, "InstanceType", "")],
           json.NetworkInterfaces)

----------------------------------------------------------------------------
(* describe-network-acls and describe-security-groups *)

AclEntry(json) ==
  LET ports == Value(json, "PortRange", <<>>)  code == Value(json, "IcmpTypeCode", <<>>)
      span  == IF code # <<>> THEN <<Value(code, "Type", ANY), Value(code, "Code", ANY)>>
               ELSE IF ports # <<>> THEN <<Value(ports, "From", ANY), Value(ports, "To", ANY)>>
               ELSE <<NoCode, NoCode>>
  IN  [NoAclEntry EXCEPT !.number = Value(json, "RuleNumber", ANY), !.action = Value(json, "RuleAction", ""),
         !.protocol = Value(json, "Protocol", ""), !.egress = Value(json, "Egress", FALSE),
         !.ports = ports # <<>>, !.typed = code # <<>>, !.from = span[1], !.to = span[2],
         !.cidrs = {Cidr(json[k]) : k \in {k \in {"CidrBlock", "Ipv6CidrBlock"} : Value(json, k, NoIp) # NoIp}}]

NetworkAclLacks(json) == ~Has(json, {"Associations", "Entries"})

DescribedNetworkAcl(json) ==
  [NoNetworkAcl EXCEPT !.id = Value(json, "NetworkAclId", ""), !.vpc = Value(json, "VpcId", ""),
     !.subnets = {Value(a, "SubnetId", "") : a \in Range(json.Associations)} \ {""},
     !.rules   = {AclEntry(e) : e \in Range(json.Entries)} \ {NoAclEntry}]

LOCAL PermissionLists == {"IpRanges", "Ipv6Ranges", "PrefixListIds", "UserIdGroupPairs"}

\* What a permission names beside blocks is kept twice: its id, and all that is said of it.
Permission(json, egress) ==
  LET Ids(list, key)    == {Value(e, key, "") : e \in Range(json[list])}
      Blocks(list, key) == {Cidr(Value(e, key, NoIp)) : e \in Range(json[list])} \ {NoCidr}
  IN  [NoPermission EXCEPT !.egress = egress, !.protocol = Value(json, "IpProtocol", ""),
         !.from = Value(json, "FromPort", ANY), !.to = Value(json, "ToPort", ANY),
         !.cidrs   = Blocks("IpRanges", "CidrIp") \union Blocks("Ipv6Ranges", "CidrIpv6"),
         !.others  = (Ids("PrefixListIds", "PrefixListId") \union Ids("UserIdGroupPairs", "GroupId")) \ {""},
         !.details = Range(json.PrefixListIds) \union Range(json.UserIdGroupPairs)]

SecurityGroupLacks(json) ==
  \/ ~Has(json, {"IpPermissions", "IpPermissionsEgress"})
  \/ \E p \in Range(json.IpPermissions) \union Range(json.IpPermissionsEgress) : ~Has(p, PermissionLists)

DescribedGroup(json) ==
  LET Permissions(key) == {Permission(p, key = "IpPermissionsEgress") : p \in Range(json[key])}
  IN  [NoGroup EXCEPT !.id = Value(json, "GroupId", ""), !.name = Value(json, "GroupName", ""),
         !.description = Value(json, "Description", ""), !.vpc = Value(json, "VpcId", ""),
         !.rules = (Permissions("IpPermissions") \union Permissions("IpPermissionsEgress")) \ {NoPermission}]

----------------------------------------------------------------------------
(* describe-subnets, describe-vpcs, describe-vpc-peering-connections *)

SubnetLacks(json) ==
  \/ ~Has(json, {"State", "Ipv6CidrBlockAssociationSet"})
  \/ \E c \in Range(json.Ipv6CidrBlockAssociationSet) : ~Has(c, {"Ipv6CidrBlockState"})

DescribedSubnet(json) ==
  LET Ipv6(c) == [Cidr(Value(c, "Ipv6CidrBlock", NoIp)) EXCEPT !.state = Value(c.Ipv6CidrBlockState, "State", "")]
  IN  [NoSubnet EXCEPT !.id = Value(json, "SubnetId", ""), !.vpc = Value(json, "VpcId", ""),
         !.zone = Value(json, "AvailabilityZone", ""), !.arn = Value(json, "SubnetArn", ""),
         !.cidrs = ({Cidr(Value(json, "CidrBlock", NoIp))}
                    \union {Ipv6(c) : c \in Range(json.Ipv6CidrBlockAssociationSet)}) \ {NoCidr}]

SubnetObservations(json) ==
  IF json.State = "available" THEN NoObservations ELSE AddNotable(NoObservations, Value(json, "SubnetId", ""))

LOCAL Families ==
  { [set |-> "CidrBlockAssociationSet", listed |-> "CidrBlockSet", block |-> "CidrBlock", state |-> "CidrBlockState"],
    [set |-> "Ipv6CidrBlockAssociationSet", listed |-> "Ipv6CidrBlockSet", block |-> "Ipv6CidrBlock",
     state |-> "Ipv6CidrBlockState"] }

VpcLacks(json) == \E f \in Families : \E c \in Each(json, f.set) : ~Has(c, {f.state})

DescribedVpc(json) ==
  LET Block(f, c) == [Cidr(Value(c, f.block, NoIp)) EXCEPT !.state = Value(c[f.state], "State", "")]
  IN  [NoVpc EXCEPT !.id = Value(json, "VpcId", ""), !.owner = Value(json, "OwnerId", ""),
         !.state = Value(json, "State", ""),
         !.cidrs = UNION {{Block(f, c) : c \in Each(json, f.set)} : f \in Families} \ {NoCidr}]

PeerCidrs(json) ==
  UNION {{Cidr(Value(c, f.block, NoIp)) : c \in Each(json, f.listed)} : f \in Families} \ {NoCidr}

PeerVpc(json, key) ==
  IF ~Has(json, {key}) THEN NoVpc
  ELSE [NoVpc EXCEPT !.id = Value(json[key], "VpcId", ""), !.owner = Value(json[key], "OwnerId", ""),
          !.cidrs = ({Cidr(Value(json[key], "CidrBlock", NoIp))} \ {NoCidr}) \union PeerCidrs(json[key])]

DescribedPeering(json) ==
  [NoPeering EXCEPT !.id = Value(json, "VpcPeeringConnectionId", ""),
     !.code    = IF Has(json, {"Status"}) THEN Value(json.Status, "Code", "") ELSE "",
     !.message = IF Has(json, {"Status"}) THEN Value(json.Status, "Message", "") ELSE "",
     !.accepter = PeerVpc(json, "AccepterVpcInfo"), !.requester = PeerVpc(json, "RequesterVpcInfo")]

----------------------------------------------------------------------------
(* describe-route-tables and describe-transit-gateway-attachments *)

\* In the order of the keys: the first one found is the route's target.
LOCAL TargetKeys ==
  << "CarrierGatewayId", "CoreNetworkArn", "EgressOnlyInternetGatewayId", "GatewayId", "LocalGatewayId",
     "NatGatewayId", "NetworkInterfaceId", "TransitGatewayId", "VpcPeeringConnectionId" >>
LOCAL Targets(json) == SelectSeq(TargetKeys, LAMBDA key : Has(json, {key}))

RouteTarget(json) == IF Targets(json) = <<>> THEN "" ELSE json[Head(Targets(json))]

DescribedRoute(json) ==
  [NoAwsRoute EXCEPT !.target = RouteTarget(json), !.state = Value(json, "State", ""),
     !.cidrs  = {Cidr(Value(json, k, NoIp)) : k \in {"DestinationCidrBlock", "DestinationIpv6CidrBlock"}} \ {NoCidr},
     !.others = {Value(json, "DestinationPrefixListId", "")} \ {""}]

RouteObservations(json) ==
  LET known == {"DestinationCidrBlock", "DestinationIpv6CidrBlock", "DestinationPrefixListId"} \intersect DOMAIN json
      more  == {<<"multiple IDs", json[Targets(json)[i]]>> : i \in 2..Len(Targets(json))}
  IN  [NoObservations EXCEPT !.unsupported =
         more \union (IF known = {} THEN {<<"no known destination type", RouteTarget(json)>>} ELSE {})]

RouteTableLacks(json) ==
  \/ ~Has(json, {"Associations", "Routes"})
  \/ \E a \in Range(json.Associations) : ~Has(a, {"AssociationState"})

\* Main counts even of an association that is being undone.
DescribedRouteTable(json) ==
  LET joined == {a \in Range(json.Associations) : a.AssociationState = "associated"}
  IN  [NoRouteTable EXCEPT !.id = Value(json, "RouteTableId", ""), !.vpc = Value(json, "VpcId", ""),
         !.default      = \E a \in Range(json.Associations) : Value(a, "Main", FALSE),
         !.associations = UNION {{Value(a, k, "") : k \in {"GatewayId", "SubnetId"}} : a \in joined} \ {""},
         !.routes       = {DescribedRoute(r) : r \in Range(json.Routes)} \ {NoAwsRoute}]

RouteTableObservations(json) ==
  [NoObservations EXCEPT !.unsupported = UNION {RouteObservations(r).unsupported : r \in Range(json.Routes)}]

DescribedGatewayAttachment(json) ==
  [ id |-> Value(json, "TransitGatewayAttachmentId", ""), gateway |-> Value(json, "TransitGatewayId", ""),
    owner |-> Value(json, "TransitGatewayOwnerId", ""), state |-> Value(json, "State", ""),
    resource |-> << Value(json, "ResourceType", ""), Value(json, "ResourceId", ""),
                    Value(json, "ResourceOwnerId", ""),
                    IF Has(json, {"Association"}) THEN Value(json.Association, "State", "") ELSE "" >> ]

----------------------------------------------------------------------------
(* The nine tools *)

AwsKinds ==
  { "instances", "network-acls", "network-interfaces", "route-tables", "security-groups", "subnets",
    "transit-gateway-attachments", "vpc-peering-connections", "vpcs" }

AwsLacks(kind, json) ==
  CASE kind = "instances"          -> InstanceLacks(json)
    [] kind = "network-acls"       -> NetworkAclLacks(json)
    [] kind = "network-interfaces" -> NicLacks(json)
    [] kind = "route-tables"       -> RouteTableLacks(json)
    [] kind = "security-groups"    -> SecurityGroupLacks(json)
    [] kind = "subnets"            -> SubnetLacks(json)
    [] kind = "vpcs"               -> VpcLacks(json)
    [] OTHER -> FALSE

AwsObservations(kind, json) ==
  CASE kind = "subnets" -> SubnetObservations(json)
    [] kind = "route-tables" -> RouteTableObservations(json)
    [] OTHER -> NoObservations

\* A data-less item is left out; an instance never is.
AwsKept(kind, json) ==
  CASE kind = "instances"          -> TRUE
    [] kind = "network-acls"       -> DescribedNetworkAcl(json) # NoNetworkAcl
    [] kind = "network-interfaces" -> DescribedNic(json) # NoNic
    [] kind = "route-tables"       -> DescribedRouteTable(json) # NoRouteTable
    [] kind = "security-groups"    -> DescribedGroup(json) # NoGroup
    [] kind = "subnets"            -> DescribedSubnet(json) # NoSubnet
    [] kind = "vpcs"               -> DescribedVpc(json) # NoVpc
    [] kind = "vpc-peering-connections"     -> DescribedPeering(json) # NoPeering
    [] kind = "transit-gateway-attachments" -> DescribedGatewayAttachment(json) # NoGatewayAttachment

\* Only an interface looks at the device it is saved with, and takes it for its instance.
SaveAws(kind, json, run, dev) ==
  CASE kind = "instances"          -> SaveInstance(DescribedInstance(json), run)
    [] kind = "network-acls"       -> SaveNetworkAcl(DescribedNetworkAcl(json), run)
    [] kind = "network-interfaces" -> SaveNic(DescribedNic(json), run, dev)
    [] kind = "route-tables"       -> SaveRouteTable(DescribedRouteTable(json), run)
    [] kind = "security-groups"    -> SaveGroup(DescribedGroup(json), run)
    [] kind = "subnets"            -> SaveSubnet(DescribedSubnet(json), run)
    [] kind = "vpcs"               -> SaveVpc(DescribedVpc(json), run)
    [] kind = "vpc-peering-connections"     -> SavePeering(DescribedPeering(json), run)
    [] kind = "transit-gateway-attachments" -> SaveGatewayAttachment(DescribedGatewayAttachment(json), run)

\* An empty result aborts the import.
AwsEmpty(kind, doc) ==
  \A i \in DOMAIN doc : ~AwsKept(kind, doc[i]) /\ AwsObservations(kind, doc[i]) = NoObservations

AwsInserts(kind, doc, run, dev) ==
  ForEach(doc, LAMBDA json : When(AwsKept(kind, json), SaveAws(kind, json, run, dev)))
  \o ForEach(doc, LAMBDA json : SaveObservations(AwsObservations(kind, json), run))
================================================================================
