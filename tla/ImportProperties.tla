--------------------------- MODULE ImportProperties ---------------------------
(***************************************************************************)
(* What is right about a finished import, whatever the tool: properties    *)
(* that relate the rows of the data store to the lines of the file.        *)
(***************************************************************************)
EXTENDS FileImport

Stored == outcome = "stored"
Rows(table) == {row \in db : row[1] = table}

----------------------------------------------------------------------------
(* The transaction as a whole *)

\* Rows of one key are merged in the tables of addresses, so that a row may say more than the call
\* did; of the descriptions of a network the first one stays.
MergedTables == {"raw_ip_addrs", "raw_mac_addrs", "raw_ip_nets"}

\* Tables in which a tool is known to lose rows.  Of what is told twice in different words only
\* the first stays: what a Nessus plugin wrote on a port, the state of ports nmap sums up and the
\* ports, services and script output of a host it lists twice, an interface that has a second
\* block or description.  A rule of a firewall is lost when it has the number of another one and
\* says the same under another name, an AWS rule's second address family has the key of the
\* first, and a server of the network is kept as named by the device before it was given a name.
KnownLosses ==
  {<<"nessus", "raw_nessus_results">>}
  \union {"nmap"} \X {"raw_ports", "raw_network_services", "raw_nse_results"}
  \union {<<"ip-addr", "raw_device_interfaces">>, <<"network-interfaces", "raw_aws_network_interface_details">>,
          <<"network-acls", "raw_aws_network_acl_rules">>}
  \union {"juniper-xml", "paloalto"} \X {"raw_device_acl_rules_services"}
  \union {"brocade", "wireless", "cisco"} \X {"raw_network_services"}

\* Nothing a tool asks the data store to keep is silently lost: ON CONFLICT DO NOTHING only ever
\* meets the very same row, so that a key does not swallow what differs in the other columns
\* (QueriesCommon.cpp).  The tables where this fails today are named one by one, in KnownLosses.
LossesAreKnown ==
  Stored => \A row \in {RowOf(made[i]) : i \in DOMAIN made} :
              \/ row \in db
              \/ row[1] \in MergedTables /\ SameKey(db, row) # {}
              \/ <<tool, row[1]>> \in KnownLosses

\* An import may be repeated with the tool run's id (--tool-run-id): it adds nothing, whichever
\* statements it is made of.  Only the resolvers of a device are inserted without ON CONFLICT, and
\* their import cannot be repeated.
AgainAddsNothing ==
  Stored => \A again \in {Transaction(db, made)} :
              IF Rows("raw_device_dns_resolvers") # {} THEN again.refused
              ELSE ~again.refused /\ again.db = db

\* runTool aborts when the results equal a default-constructed one.  Then there really is
\* nothing to keep: the inserts would have left nothing but the tool run and its device.
AbortLosesNothing ==
  outcome = "aborted" =>
    \A i \in DOMAIN made :
      RowOf(made[i])[1] \in {"tool_runs", "raw_devices", "raw_device_hardware_information"}

----------------------------------------------------------------------------
(* Addresses *)

\* The interfaces a statement says are up
UpInterfaces ==
  {<<made[i][3], made[i][4]>> : i \in {j \in DOMAIN made : made[j][1] = "insert_raw_device_interface" /\ made[j][6]}}

\* The addresses a line says something was heard from.  A router's or a load balancer's
\* document also names peers, which are all taken to be there.
LOCAL AddrsOf(ips) == {ip.addr : ip \in Range(ips)}
LOCAL SenderOf(h) == CASE h.k = "arp" -> {h.ip.addr} [] h.k \in {"ipv4", "ipv6"} -> {h.src} [] OTHER -> {}
HeardOf(l) ==
  CASE tool = "ping" /\ l.k \in {"linux reply", "windows reply"} -> {l.ip.addr}
    [] tool = "traceroute" /\ l.k = "hop" -> AddrsOf([i \in DOMAIN l.answers |-> l.answers[i][1]])
    [] tool = "nmap" /\ l.k = "host" -> {hop.ip.addr : hop \in Range(l.hops)} \union (IF l.state = "up" THEN AddrsOf(l.ips) ELSE {})
    [] tool = "nessus" /\ l.k = "host" -> AddrsOf(l.ips)
    [] tool = "pcap" /\ l.k \in {"ethernet", "cooked"} -> UNION {SenderOf(h) : h \in Range(l.headers)}
    [] OTHER -> {}
Heard    == UNION {HeardOf(l) : l \in Range(read)}
HasPeers == tool \in {"f5", "juniper-xml"}

\* An address is responding when, and only when, a line heard from it or it is on an interface
\* that is up: the flag is not carried over from the target or the interface before.
RespondingIsJustified ==
  Stored => LET up == UpInterfaces
                onUp == {row \in Rows("raw_device_ip_addrs") : <<row[3], row[4]>> \in up}
            IN  /\ \A ip \in Rows("raw_ip_addrs") :
                     ip[4] => HasPeers \/ ip[3] \in Heard \/ \E row \in onUp : row[5] = ip[3]
                /\ \A row \in onUp : \E ip \in Rows("raw_ip_addrs") : ip[3] = row[5] /\ ip[4]

\* Where the description of an interface, or of a neighbour's, begins, and its name and addresses.
\* Under a PowerConnect's interface every line up to the exit is the interface's.
Begins(l) ==
  CASE tool = "ip-addr"                    -> l.k = "iface"
    [] tool = "powerconnect"               -> l.k = "exit"
    [] tool = "ipconfig"                   -> l.k = "adapter"
    [] tool = "brocade"                    -> l.k = "boot"
    [] tool = "cdp"                        -> l.k = "dashes"
    [] tool = "vyos"                       -> l.k = "open" /\ l.block = "interface"
    [] OTHER                               -> l.k = "interface"
NameOf(l) ==
  CASE tool = "powerconnect" /\ l.k = "interface" -> {Lower(l.type \o l.slot)}
    [] tool = "brocade" /\ l.k = "boot device"    -> {Lower(l.name)}
    [] tool = "cdp" /\ l.k = "port"               -> {Lower(l.name)}
    [] tool \notin {"powerconnect", "brocade", "cdp"} /\ Begins(l) -> {Lower(l.name)}
    [] OTHER -> {}
AddressOf(l) ==
  CASE l.k \in {"inet", "address", "boot address", "vrrp", "standby"} /\ "ip" \in DOMAIN l -> {l.ip.addr}
    [] tool = "ipconfig" /\ l.k = "ip"            -> {l.ip.addr}
    [] tool = "wireless" /\ l.k = "interface"     -> {l.ip.addr}
    [] tool = "juniper-set" /\ l.k = "interface" /\ l.what = "address" -> {l.ip.addr}
    [] OTHER -> {}

\* An alias stands for the addresses of an object that may come anywhere.
AliasIn(l) == l.k = "alias address"

\* Lines i and j describe the same interface.
OneBlock(i, j) ==
  LET first == IF i < j THEN i ELSE j  last == IF i < j THEN j ELSE i
  IN  \A n \in first + 1..last : ~Begins(read[n])

HasBlocks == {"ip-addr", "ipconfig", "brocade", "cdp", "vyos", "powerconnect", "wireless", "juniper-set", "cisco"}

\* An address is stored under the interface whose description it was read in, and never under
\* one that was read before or after it: nothing of an interface is left in the parser when the
\* next one begins, in whichever order its lines come.
AddressesUnderTheirInterface ==
  Stored /\ tool \in HasBlocks =>
    \A row \in Rows("raw_device_ip_addrs") :
      \E i, j \in DOMAIN read : /\ row[4] \in NameOf(read[i]) /\ OneBlock(i, j)
                                /\ row[5] \in AddressOf(read[j]) \/ AliasIn(read[j])

----------------------------------------------------------------------------
(* Routes *)

\* The last of the lines of a kind up to line i
Before(i, k) == {n \in 1..i : read[n].k = k}
NoHeader == [name |-> "none", vrf |-> "none", dst |-> NoIp]
HeaderBefore(i, k) ==
  IF Before(i, k) = {} THEN NoHeader ELSE read[CHOOSE n \in Before(i, k) : \A m \in Before(i, k) : m <= n]

RouteLine(i) == read[i].k \in {"route", "blank route", "next", "also"}
DefaultVrf(vrf) == IF vrf = "default" THEN "" ELSE vrf

\* The table, and with a Juniper router the logical system, a route line belongs to
TableOf(i) ==
  CASE tool = "cisco-routes"   -> <<DeviceId(tool), DefaultVrf(HeaderBefore(i, "vrf").vrf)>>
    [] tool = "juniper-routes" -> <<SystemDevice(DeviceId(tool), HeaderBefore(i, "system").name), HeaderBefore(i, "instance").name>>

\* A route is stored with the table whose header was the last one before it, however tables of
\* several routing instances, logical systems and address families follow each other; another
\* path of a route is stored with the destination of the route line before it.
RoutesUnderTheirTable ==
  Stored /\ tool \in {"cisco-routes", "juniper-routes"} =>
    \A row \in Rows("raw_device_ip_routes") :
      \E i \in DOMAIN read : /\ RouteLine(i) /\ TableOf(i) = <<row[3], row[4]>>
                             /\ row[5][1] = HeaderBefore(i, "route").dst.addr

----------------------------------------------------------------------------
(* Rules of firewalls *)

\* The lines that are rules, as <<number of the line, what the rule does>>
RuleLines ==
  {<<i, IF tool = "cisco" THEN LET l == IF read[i].k = "access-list" THEN read[i].line ELSE read[i] IN <<l.action>>
        ELSE <<Last(read[i].options)[3]>>>> :
     i \in {n \in DOMAIN read : read[n].k = "rule" \/ (read[n].k = "access-list" /\ read[n].line.k = "rule")}}

\* The first rule that matches a packet decides, so the numbers of the rules of a list keep the
\* order of the lines, also when a list is continued further down or is written in single lines:
\* they have no gaps, there is a line for each, and of two rules the one with the lower number
\* was read first.
RulesKeepTheirOrder ==
  Stored /\ tool = "cisco" =>
    LET rules == Rows("raw_device_ac_rules")
        ids   == {r[5] : r \in rules}
    IN  /\ ids = 1..Cardinality(ids) /\ Cardinality(ids) <= Cardinality(RuleLines)
        /\ \A r, s \in rules : r[5] < s[5] =>
             \E a, b \in RuleLines : a[1] < b[1] /\ a[2] = r[13] /\ b[2] = s[13]

\* Whatever name a rule gives as source, destination or service is found in a book of the zone the
\* rule gives it in: those that want to know what a rule means look there (Parser::getData).
RulesNameKnownObjects ==
  Stored /\ tool = "cisco" =>
    LET nets == {<<row[4], row[5]>> : row \in Rows("raw_device_ac_nets")}
        services == {row[4] : row \in Rows("raw_device_ac_services")}
    IN  \A r \in Rows("raw_device_ac_rules") :
          <<r[6], r[7]>> \in nets /\ (r[10] # "" => <<r[9], r[10]>> \in nets) /\ (r[12] # "" => r[12] \in services)

----------------------------------------------------------------------------
(* Settings of a whole device *)

\* A line in the block of the interface
OwnLine(name, k) ==
  \E i, j \in DOMAIN read : i < j /\ read[j].k = k /\ name \in NameOf(read[i]) /\ OneBlock(i, j)

\* A global setting holds for every interface that does not set its own, those read before the
\* setting included; and an interface's own setting is not another one's.
GlobalsReachInterfaces ==
  Stored /\ tool = "cisco" =>
    /\ \A row \in Rows("raw_device_interfaces_bpdu") :
         OwnLine(row[4], "bpduguard") \/ row[5] = (\E l \in Range(read) : l.k = "bpduguard default")
    /\ \A r, s \in Rows("raw_device_interfaces_cdp") :
         OwnLine(r[4], "cdp enable") \/ OwnLine(s[4], "cdp enable") \/ r[5] = s[5]
===============================================================================
