----------------------------- MODULE RouteParsers -----------------------------
(***************************************************************************)
(* The parsers of routing tables that routers print.  See the module       *)
(* ProbeParsers for the conventions.                                       *)
(***************************************************************************)
EXTENDS ProbeParsers

----------------------------------------------------------------------------
(* Cisco show ip route: a table per VRF *)

LOCAL NoTable == [routes |-> <<>>, observations |-> NoObservations]
CiscoRoutesStart ==
  [ mode |-> "before", curVrf |-> "", curIface |-> "", dst |-> NoIp, v6 |-> FALSE,
    table |-> NoTable, done |-> <<>> ]

\* Mutant: the name of the first table is kept.
NextVrfKept(p, l) ==
  [p EXCEPT !.mode = "routes", !.curVrf = IF @ = "" THEN l.vrf ELSE @, !.v6 = l.v6, !.table = NoTable,
            !.done = IF p.mode = "before" THEN @ ELSE Append(@, p.table)]

\* Parser::finalizeVrfData resets every member, and the header of the next table sets them.
NextVrf(p, l) ==
  [CiscoRoutesStart EXCEPT !.mode = "routes", !.curVrf = l.vrf, !.v6 = l.v6,
                           !.done = IF p.mode = "before" THEN <<>> ELSE Append(p.done, p.table)]

\* An interface named after an interface is taken for an alias of a router.
DetermineNullRoute(p, r, name) ==
  [ parser |-> [p EXCEPT !.curIface = IF @ = "" THEN name ELSE "",
                         !.table.observations = IF p.curIface = "" THEN @
                                                ELSE AddUnsupported(@, <<p.curVrf, p.curIface, name>>)],
    route  |-> [r EXCEPT !.iface = name, !.nullRoute = @ \/ name = "Null0"] ]

\* A line without a destination is another path to the one before it.
LOCAL RouteOf(p, l) ==
  [NoRoute EXCEPT !.dst = IF l.k = "also" THEN p.dst ELSE l.dst,
                  !.hop = IF l.direct THEN (IF p.v6 THEN Ipv6Default ELSE Ipv4Default) ELSE l.hop,
                  !.nextVrf = l.nextVrf, !.nextTable = l.nextTable]

AddRouteToData(p, r) ==
  LET vrf == IF p.curVrf = "default" THEN "" ELSE p.curVrf
  IN  [p EXCEPT !.curVrf = vrf, !.table.routes = Append(@, [r EXCEPT !.vrf = vrf])]

ShownRoute(p, l) ==
  LET r     == RouteOf(p, l)
      named == FoldLeft(LAMBDA s, name : DetermineNullRoute(s.parser, s.route, name),
                        [parser |-> [p EXCEPT !.curIface = "", !.dst = r.dst], route |-> r], l.ifaces)
  IN  AddRouteToData(named.parser, named.route)

\* After a line that is no route the rest of the table is not read.
CiscoRoutesLine(p, l) ==
  CASE l.k = "vrf" -> NextVrf(p, l)
    [] l.k \in {"route", "also"} /\ p.mode = "routes" /\ l.v6 = p.v6 -> ShownRoute(p, l)
    [] l.k \in {"blank", "subnetted"} \/ p.mode # "routes" -> p
    [] OTHER -> [p EXCEPT !.mode = "ignored"]

CiscoRoutesMayEnd(p) == p.mode # "before"
CiscoRoutesInserts(p, run, dev) ==
  SaveDevice(SetDeviceId(Device("cisco"), dev), run)
  \o ForEach(Append(p.done, p.table), LAMBDA t :
       ForEach(t.routes, LAMBDA r : SaveRoute(r, run, dev)) \o SaveObservations(t.observations, run))

----------------------------------------------------------------------------
(* Juniper show route: logical systems of routing instances of routes *)

JuniperRoutesStart == [mode |-> "garbage", id |-> "", instances |-> <<>>, dst |-> NoIp, systems |-> <<>>]

\* The rule that gives another path of a route does not give it the destination.
JuniperRoute(p, l) ==
  LET dst == CASE l.k = "route" -> l.dst  [] l.k = "blank route" -> p.dst  [] OTHER -> NoIp
  IN  [p EXCEPT !.dst = IF l.k = "next" THEN @ ELSE dst,
                !.instances[Len(p.instances)].routes =
                  Append(@, [NoRoute EXCEPT !.dst = dst, !.hop = l.hop, !.iface = l.iface, !.nextVrf = l.nextVrf])]

\* A logical system counts when its footer is reached; any other line makes garbage of all of it.
JuniperRoutesLine(p, l) ==
  CASE l.k = "system" -> [p EXCEPT !.mode = "system", !.id = l.name, !.instances = <<>>]
    [] p.mode = "garbage" -> p
    [] l.k = "instance" -> [p EXCEPT !.mode = "instance", !.instances = Append(@, [id |-> l.name, routes |-> <<>>])]
    [] l.k \in {"route", "blank route", "next"} /\ p.mode = "instance" -> JuniperRoute(p, l)
    [] l.k = "footer" ->
         [p EXCEPT !.mode = "garbage", !.systems = Append(@, [id |-> p.id, instances |-> p.instances])]
    [] OTHER -> [p EXCEPT !.mode = "garbage", !.instances = <<>>]

\* The device of a logical system is named after it.
SystemDevice(dev, id) == IF id = "" THEN dev ELSE dev \o ":" \o Lower(id)
JuniperRoutesInserts(p, run, dev) ==
  ForEach(p.systems, LAMBDA s : ForEach(s.instances, LAMBDA i :
    SaveDevice(SetDeviceId(Device("Juniper"), SystemDevice(dev, s.id)), run)
    \o ForEach(i.routes, LAMBDA r : SaveRoute([r EXCEPT !.vrf = i.id], run, SystemDevice(dev, s.id)))))

----------------------------------------------------------------------------
(* Brocade show ip route *)

BrocadeRoutesStart == [mode |-> "open", routes |-> <<>>]
BrocadeRoutesLine(p, l) ==
  IF l.k # "route" THEN p
  ELSE [p EXCEPT !.routes = Append(@, [NoRoute EXCEPT !.dst = l.dst, !.hop = IF l.direct THEN NoIp ELSE l.hop,
                                                      !.iface = l.iface])]
BrocadeRoutesInserts(p, run, dev) == ForEach(p.routes, LAMBDA r : SaveRoute(r, run, dev))
================================================================================
