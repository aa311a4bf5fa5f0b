------------------------------ MODULE CiscoAccess ------------------------------
(***************************************************************************)
(* Access lists and named objects of a Cisco configuration: the grammars   *)
(* CiscoAcls, CiscoNetworkBook and CiscoServiceBook, which share a parser  *)
(* with the module CiscoParser.  A block is a header and the indented      *)
(* lines under it.  An entry of a book is a text; texts is what the texts  *)
(* that are addresses stand for.                                           *)
(***************************************************************************)
EXTENDS DeviceParsers

AddrText(ip) == ToString(IpText(ip))
Zone0 == "global"

----------------------------------------------------------------------------
(* Access lists *)

NoAcl == [style |-> "", book |-> "", rules |-> <<>>, description |-> ""]

\* CiscoAcls::initRuleBook: the remark of the last book is still there.
InitRuleBook(acl, style, book) == [acl EXCEPT !.style = style, !.book = book, !.rules = <<>>]

\* An address of a rule is a name (any, an object) or an address with, perhaps, a mask.
LOCAL AllOrNothing == {Any4, <<255, 255, 255, 255>>}
LOCAL ReadsAs(a)   == a.name # "" \/ a.mask \notin AllOrNothing
AddressText(a) == CASE a.name # ""   -> a.name
                    [] a.mask = <<>> -> AddrText(a.ip)
                    [] OTHER         -> AddrText(SetMask(a.ip, a.mask))

\* A port after eq must not begin like an address, a log option or an ICMP message.
LOCAL Reserved == {"echo", "login"}
LOCAL Unreadable(port) == port.op \in {"eq", "neq"} /\ port.text \in Reserved
PortText(port) == CASE port.op = "neq" -> "!" \o port.text
                    [] port.op = "lt"  -> "<" \o port.text
                    [] port.op = "gt"  -> ">" \o port.text
                    [] OTHER -> port.text

\* CiscoAcls::updateRuleService
RuleServices(l) ==
  LET src == PortText(l.srcPort)  dst == PortText(l.dstPort)
      service == IF src = "" /\ dst = "" THEN l.protocol ELSE Srvc(l.protocol, src, dst)
  IN  IF l.protocol = "" THEN <<>> ELSE <<service \o (IF l.established THEN "--established" ELSE "")>>

\* CiscoAcls::curRuleFinalize: a rule without a remark is described by the name of its book.
CurRuleFinalize(acl, l) ==
  LET rule == [NoRule EXCEPT !.id = Len(acl.rules) + 1, !.enabled = l.tail # "inactive",
                 !.srcId = Zone0, !.srcs = <<AddressText(l.src)>>,
                 !.dstId = IF l.dst = {} THEN "" ELSE Zone0, !.dsts = SetToSeq({AddressText(a) : a \in l.dst}),
                 !.actions = <<l.action>> \o (IF l.log THEN <<"log">> ELSE <<>>),
                 !.services = RuleServices(l),
                 !.description = IF acl.description = "" THEN acl.book ELSE acl.description]
  IN  [acl EXCEPT !.rules = Append(@, rule), !.description = ""]

\* Which lines are a rule depends on the header: a number may, must or must not come first.
LOCAL Readable(l) == \A a \in {l.src} \union l.dst : ReadsAs(a)
LOCAL RuleOf(style, l) ==
  /\ l.k = "rule" /\ Readable(l)
  /\ CASE style = "standard" -> l.protocol = ""
       [] style = "extended" -> l.protocol # "" /\ ~l.numbered /\ l.tail = ""
       [] style = "nxos"     -> l.protocol # "" /\ l.numbered /\ l.tail = ""
       [] style = "ipv6"     -> l.protocol # "" /\ l.tail = ""
       [] style = "asa"      -> l.protocol # "" /\ ~l.numbered /\ l.tail \in {"", "inactive"}

\* A line of a list.  Under a header, a line that is no rule is ignored.
AclLine(p, l) ==
  CASE l.k = "remark" -> [p EXCEPT !.acl.description = l.text]
    [] ~RuleOf(p.acl.style, l) -> p
    [] p.acl.style = "standard" /\ (l.tail # "" \/ l.dst # {}) -> Fail(p)
    [] Unreadable(l.srcPort) \/ Unreadable(l.dstPort) -> Fail(p)
    [] OTHER -> [p EXCEPT !.acl = CurRuleFinalize(@, l)]

\* Mutant: what continues a list is put before what is there.
AclRuleBookAddFirst(p) ==
  LET all == p.acl.rules \o Get(p.ruleBooks, p.acl.book, <<>>)
  IN  IF p.acl.book = "" THEN p
      ELSE [p EXCEPT !.ruleBooks = Put(@, p.acl.book, [i \in DOMAIN all |-> [all[i] EXCEPT !.id = i]])]

\* Parser::aclRuleBookAdd: rules of a book that is there already get the numbers that follow.
AclRuleBookAdd(p) ==
  LET book   == p.acl.book
      before == Get(p.ruleBooks, book, <<>>)
      more   == [i \in DOMAIN p.acl.rules |-> [p.acl.rules[i] EXCEPT !.id = Len(before) + i]]
  IN  IF book = "" THEN p ELSE [p EXCEPT !.ruleBooks = Put(@, book, before \o more)]

\* A list written in single lines: each is a book of its own, added at once.
AclSingleLine(p, l) ==
  LET q == AclLine([p EXCEPT !.acl = InitRuleBook(@, l.style, l.name)], l.line)
  IN  IF q.mode = "failed" \/ l.line.k = "remark" \/ RuleOf(l.style, l.line) THEN AclRuleBookAdd(q)
      ELSE p

----------------------------------------------------------------------------
(* Named networks *)

NoNamed == [name |-> "", data |-> {}]

\* CiscoNetworkBook::finalizeCurBook and CiscoServiceBook::finalizeCurBook
LOCAL Merged(books, b) == Put(books, b.name, Get(books, b.name, {}) \union b.data)
FinalizeNetworkBook(p) == [p EXCEPT !.mode = "open", !.nets = Merged(@, p.book), !.book = NoNamed]
FinalizeServiceBook(p) == [p EXCEPT !.mode = "open", !.svcs = Merged(@, p.book), !.book = NoNamed,
                                    !.protocol = ""]

FromIp(p, ip) == [p EXCEPT !.book.data = @ \union {AddrText(ip)}, !.texts = Put(@, AddrText(ip), ip)]
FromText(p, text) == [p EXCEPT !.book.data = @ \union {text}]

\* CiscoNetworkBook::fromIpMask
FromIpMask(p, ip, mask) ==
  FromIp(p, IF mask \in AllOrNothing THEN SetNetmask(ip, mask) ELSE SetMask(ip, mask))

\* CiscoNetworkBook::fromNetworkObjectMask: a book that is not defined yet gives nothing.
FromNetworkObjectMask(p, name, mask) ==
  FoldSet(LAMBDA text, q : FromIp(q, SetMask(p.texts[text], mask)), p,
          Get(p.nets, name, {}) \intersect DOMAIN p.texts)

\* After a bare host or network the rest of the line is not consumed, which ends the group.
NetworkBookLine(p, l) ==
  CASE l.k = "host"             -> FromIp(p, l.ip)
    [] l.k = "network mask"     -> FromIpMask(p, l.ip, l.mask)
    [] l.k = "fqdn"             -> FromText(p, l.name)
    [] l.k = "range"            -> FromText(p, AddrText(l.ip) \o "-" \o AddrText(l.last))
    [] l.k = "group-object"     -> FromText(p, l.name)
    [] l.k = "object mask"      -> FromNetworkObjectMask(p, l.name, l.mask)
    [] l.k = "bare host"        -> FinalizeNetworkBook(FromIp(p, l.ip))
    [] l.k = "bare network"     -> FinalizeNetworkBook(FromIpMask(p, l.ip, l.mask))
    [] l.k = "description"      -> p
    [] OTHER -> Fail(p)

----------------------------------------------------------------------------
(* Named services *)

\* CiscoServiceBook::addCurData: a service without a protocol is dropped, the protocol stays.
AddCurData(p, l) ==
  LET protocol == IF l.protocol = "" THEN p.protocol ELSE l.protocol
      text     == IF l.srcPort = "" /\ l.dstPort = "" THEN protocol ELSE Srvc(protocol, l.srcPort, l.dstPort)
  IN  IF protocol = "" THEN p ELSE FromText([p EXCEPT !.protocol = protocol], text)

\* The protocol of a group is on its header; that of a port object is the header's or the last one.
\* A service that names an object adds it, and then the last protocol once more.
ServiceBookLine(p, l) ==
  CASE l.k = "service"        -> AddCurData(p, l)
    [] l.k = "service object" -> AddCurData(FromText(p, l.name), [protocol |-> "", srcPort |-> "", dstPort |-> ""])
    [] l.k = "group-object"   -> FromText(p, l.name)
    [] l.k = "description"    -> p
    [] OTHER -> Fail(p)

----------------------------------------------------------------------------
(* Objects that name objects *)

\* nmdu::expanded skips an object that names itself, and nothing else: it does
\* not return from objects that name each other.
NeverExpanded(books) ==
  \E names \in SUBSET DOMAIN books : names # {} /\ \A n \in names : \E d \in books[n] : d # n /\ d \in names

RECURSIVE Expand(_, _)
Expand(books, name) ==
  UNION {IF d # name /\ Get(books, d, {}) # {} THEN Expand(books, d) ELSE {d} : d \in books[name]}
GetFinalVersion(books) == [name \in DOMAIN books |-> Expand(books, name)]
================================================================================
