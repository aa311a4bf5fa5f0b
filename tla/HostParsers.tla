------------------------------ MODULE HostParsers ------------------------------
(***************************************************************************)
(* The parsers of what a host says of itself: its interfaces and routes    *)
(* (ip addr show, ip route show, ipconfig) and its packages (apk, dpkg,    *)
(* rpm).  See the module ProbeParsers for the conventions.                 *)
(***************************************************************************)
EXTENDS ProbeParsers

----------------------------------------------------------------------------
(* ip addr show *)

IpAddrStart == [mode |-> "garbage", ifaces |-> <<>>, observations |-> NoObservations]

LOCAL LastIface(p, i) == [p EXCEPT !.ifaces[Len(p.ifaces)] = i]
LOCAL CurIface(p)     == Last(p.ifaces)

\* What follows the broadcast address is noted, not understood.
IpAddrLink(p, l) ==
  [LastIface(p, [CurIface(p) EXCEPT !.mediaType = Lower(l.media), !.mac.mac = l.mac])
     EXCEPT !.mode = "addresses",
            !.observations = IF l.extra = "" THEN @ ELSE AddNotable(@, <<CurIface(p).name, l.extra>>)]

\* One line out of place ends the interface; its other addresses are not read.
IpAddrLine(p, l) ==
  CASE l.k = "iface" -> [p EXCEPT !.mode = "link", !.ifaces = Append(@, [Interface(l.name) EXCEPT !.up = l.up])]
    [] l.k = "link" /\ p.mode = "link" -> IpAddrLink(p, l)
    [] l.k = "altname" /\ p.mode \in {"link", "addresses"} -> [p EXCEPT !.mode = "addresses"]
    [] l.k = "inet" /\ p.mode \in {"link", "addresses", "inets"} ->
         [LastIface(p, [CurIface(p) EXCEPT !.mac = AddIp(@, l.ip)]) EXCEPT !.mode = "inets"]
    [] l.k = "cut" -> Fail(p)
    [] OTHER -> [p EXCEPT !.mode = "garbage"]

IpAddrInserts(p, run, dev) ==
  ForEach(p.ifaces, LAMBDA i : SaveInterface(i, run, dev)) \o SaveObservations(p.observations, run)
IpAddrMetadata(p, run) == ForEach(p.ifaces, LAMBDA i : SaveInterfaceAsMetadata(i, run))

----------------------------------------------------------------------------
(* ip route show *)

LOCAL Said(ip) == [ip EXCEPT !.reason = "ip route show"]
LOCAL DefaultDst == SetPrefix(NoIp, 0)      \* "default" is an IPv4 network until a gateway says otherwise

IpRouteStart == [mode |-> "open", routes |-> <<>>]

\* Parser::ensureSameFamily
SameFamily(dst, hop) == IF ~IsV4(hop) /\ IsV4(dst) THEN SetPrefix(SetAddress(dst, Any6), 0) ELSE dst

RouteVia(l) == [NoRoute EXCEPT !.dst = SameFamily(Said(l.dst), Said(l.hop)), !.hop = Said(l.hop), !.iface = l.iface]

\* Without a gateway the next hop is the source address, or the default of the family.
RouteDev(l) ==
  [NoRoute EXCEPT !.dst = Said(l.dst), !.iface = l.iface,
                  !.hop = IF l.src # NoIp THEN Said(l.src) ELSE IF IsV4(l.dst) THEN Ipv4Default ELSE Ipv6Default]

RouteNull(l) == [NoRoute EXCEPT !.dst = Said(l.dst), !.nullRoute = TRUE]

\* Every other line, of a multipath route for one, is an error.
IpRouteLine(p, l) ==
  CASE l.k = "via"  -> [p EXCEPT !.routes = Append(@, RouteVia(l))]
    [] l.k = "dev"  -> [p EXCEPT !.routes = Append(@, RouteDev(l))]
    [] l.k = "null" -> [p EXCEPT !.routes = Append(@, RouteNull(l))]
    [] OTHER -> Fail(p)

IpRouteInserts(p, run, dev) == ForEach(p.routes, LAMBDA r : SaveRoute(r, run, dev))
IpRouteMetadata(p, run)     == ForEach(p.routes, LAMBDA r : SaveRouteAsMetadata(r, run))

----------------------------------------------------------------------------
(* ipconfig *)

IpconfigStart ==
  [ mode |-> "before", curHostname |-> "", curIface |-> "", suffixes |-> Empty,
    devInfos |-> Empty, ifaces |-> Empty, routes |-> <<>>, services |-> <<>> ]

AddDevInfo(p, name) ==
  [p EXCEPT !.curHostname = Lower(name), !.devInfos = Put(@, Lower(name), SetDeviceId(NoDevice, name))]

\* An adapter of a name that was there before replaces it.
AddAdapter(p, l) ==
  LET i == [Interface(l.name) EXCEPT !.mediaType = Lower(l.media), !.up = TRUE]
  IN  [p EXCEPT !.mode = "adapter title", !.curIface = i.name, !.ifaces = Put(@, i.name, i)]

\* A name is made of the host's and the adapter's suffix, if a suffix was read before, even an empty one.
LOCAL FullName(p) ==
  (IF p.curHostname = "" THEN "" ELSE p.curHostname \o ".") \o p.suffixes[p.curIface]
AddIfaceAddress(p, ip) ==
  LET named == IF p.curIface \in DOMAIN p.suffixes THEN AddAlias(ip, FullName(p), "ipconfig") ELSE ip
  IN  [p EXCEPT !.ifaces[p.curIface].mac = AddIp(@, named)]

\* A gateway makes one route of each address of its family read so far, to the address' network.
AddGateway(p, gateway) ==
  LET own == SetToSeq({ip \in p.ifaces[p.curIface].mac.ips : IsV4(ip) = IsV4(gateway)})
  IN  [p EXCEPT !.routes = @ \o [n \in DOMAIN own |->
         [NoRoute EXCEPT !.iface = p.curIface, !.hop = gateway, !.dst = own[n]]]]

LOCAL WellKnown == [DHCP |-> 67, DNS |-> 53, WINS |-> 42]
AddServer(p, name, ip) ==
  [p EXCEPT !.services = Append(@, [Service(name, ip) EXCEPT !.iface = p.curIface, !.description = "ipconfig",
                                                             !.dstPorts = {<<WellKnown[name]>>}])]

\* A mask on the line after an address gives the address its prefix.
LOCAL WithMask(l) == IF l.mask = <<>> THEN l.ip ELSE SetNetmask(l.ip, l.mask)

IpconfigAdapterData(p, l) ==
  CASE l.k = "physical" -> [p EXCEPT !.ifaces[p.curIface].mac.mac = l.mac]
    [] l.k = "ip"       -> AddIfaceAddress(p, WithMask(l))
    [] l.k = "down"     -> [p EXCEPT !.ifaces[p.curIface].up = FALSE]
    [] l.k = "suffix"   -> [p EXCEPT !.suffixes = Put(@, p.curIface, l.name)]
    [] l.k = "gateways" -> FoldLeft(AddGateway, p, l.ips)
    [] l.k = "server"   -> AddServer(p, l.name, l.ip)
    [] OTHER -> p

\* A blank line ends what is known of an adapter, except the one under its title.
IpconfigAdapterLine(p, l) ==
  CASE l.k # "blank"        -> [IpconfigAdapterData(p, l) EXCEPT !.mode = "adapter"]
    [] p.mode = "adapter"   -> [p EXCEPT !.mode = "body"]
    [] OTHER -> p

\* Nothing is read before the title; between adapters every line is about a host.
IpconfigLine(p, l) ==
  CASE p.mode = "before"  -> (IF l.k = "title" THEN [p EXCEPT !.mode = "title"] ELSE p)
    [] p.mode \in {"adapter title", "adapter"} -> IpconfigAdapterLine(p, l)
    [] l.k = "adapter" /\ p.mode \in {"title", "body"} -> AddAdapter(p, l)
    [] l.k = "host"       -> [AddDevInfo(p, l.name) EXCEPT !.mode = "host"]
    [] l.k = "blank"      -> IF p.mode = "title" THEN p ELSE [p EXCEPT !.mode = "body"]
    [] OTHER -> [p EXCEPT !.mode = "host"]

IpconfigMayEnd(p) == p.mode \in {"body", "adapter"} \/ (p.mode = "host" /\ p.ifaces # Empty)
IpconfigInserts(p, run, dev) ==
  ForAll(Range(p.devInfos), LAMBDA d : SaveDevice(d, run))
  \o ForAll(Range(p.ifaces), LAMBDA i : SaveInterface(i, run, dev))
  \o ForEach(p.routes, LAMBDA r : SaveRoute(r, run, dev))
  \o ForEach(p.services, LAMBDA s : SaveService(s, run, dev))

----------------------------------------------------------------------------
(* Packages *)

PackagesStart == [mode |-> "open", packages |-> <<>>, observations |-> NoObservations]
DpkgStart     == [PackagesStart EXCEPT !.mode = "headers"]

LOCAL AddPackage(p, l, state) ==
  [p EXCEPT !.packages = Append(@, [name |-> l.name, version |-> l.version, architecture |-> l.architecture,
                                    description |-> l.description, state |-> state])]

ApkLine(p, l) ==
  CASE l.k = "package" -> AddPackage(p, l, "")
    [] l.k = "cut"     -> Fail(p)
    [] OTHER -> p
RpmLine(p, l) == ApkLine(p, l)

\* Parser::addStateNote
AddStateNote(o, state) == IF state = "ii " THEN o ELSE AddNotable(o, <<"Unexpected package state", state>>)
DpkgLine(p, l) ==
  CASE p.mode = "headers" -> (IF l.k = "headers" THEN [p EXCEPT !.mode = "open"] ELSE Fail(p))
    [] l.k = "package"    -> [AddPackage(p, l, l.state) EXCEPT !.observations = AddStateNote(@, l.state)]
    [] l.k = "cut"        -> Fail(p)
    [] OTHER -> p

PackagesInserts(p, run, dev) ==
  ForEach(p.packages, LAMBDA pkg : SavePackage(pkg, run, dev)) \o SaveObservations(p.observations, run)
================================================================================
