----------------------------- MODULE ProbeParsers -----------------------------
(***************************************************************************)
(* The parsers of what ping, traceroute, dig and a hosts file say.  A      *)
(* parser is a record of its members and of the rule it is in, its mode;   *)
(* it is given one line at a time, as the rule that matches the line and   *)
(* what the rule takes from it.  A line that no rule takes makes the       *)
(* import fail, as the end of the file does in a mode that is not in       *)
(* <Tool>MayEnd.  <Tool>Inserts is what the tool asks of the data store.   *)
(***************************************************************************)
EXTENDS Objects

\* A map is a function from its keys.
Empty == <<>>
Put(map, key, value) == [k \in DOMAIN map \union {key} |-> IF k = key THEN value ELSE map[k]]
Get(map, key, default) == IF key \in DOMAIN map THEN map[key] ELSE default

Fail(p) == [p EXCEPT !.mode = "failed"]
AddNames(ip, names, why) == FoldSet(LAMBDA name, sum : AddAlias(sum, name, why), ip, names)

----------------------------------------------------------------------------
(* ping: a run is a header, responses among other lines, and a summary *)

PingStart == [mode |-> "open", ip |-> NoIp, aliases |-> {}, up |-> FALSE, data |-> <<>>]

\* Mutant: the answer of one target is left for the next.
PingFinalizeKept(p) ==
  LET ip == SetResponding(AddNames(p.ip, p.aliases, "ping"), p.up)
  IN  [p EXCEPT !.ip = ip, !.aliases = {}, !.data = IF ip = NoIp THEN @ ELSE Append(@, ip)]

\* Parser::finalize
PingFinalize(p) ==
  LET ip == SetResponding(AddNames(p.ip, p.aliases, "ping"), p.up)
  IN  [p EXCEPT !.ip = ip, !.aliases = {}, !.up = FALSE,
                !.data = IF ip = NoIp THEN @ ELSE Append(@, ip)]

\* The target of the line, an address that may be preceded by a name
LOCAL PingTarget(p, l) == [p EXCEPT !.ip = l.ip, !.aliases = @ \union ({l.name} \ {""})]

PingLinux(p, l) ==
  CASE l.k = "linux reply"   -> PingFinalize([PingTarget(p, l) EXCEPT !.up = TRUE])
    [] l.k = "linux summary" -> [p EXCEPT !.mode = "open"]
    [] OTHER -> p

PingWindows(p, l) ==
  CASE l.k = "windows reply"   -> PingFinalize([PingTarget(p, [l EXCEPT !.name = ""]) EXCEPT !.up = TRUE])
    [] l.k = "windows summary" -> [p EXCEPT !.mode = "open"]
    [] OTHER -> p

PingLine(p, l) ==
  CASE p.mode = "linux"     -> PingLinux(p, l)
    [] p.mode = "windows"   -> PingWindows(p, l)
    [] l.k = "linux ping"   -> PingFinalize([PingTarget(p, l) EXCEPT !.mode = "linux"])
    [] l.k = "windows ping" -> PingFinalize([PingTarget(p, l) EXCEPT !.mode = "windows"])
    [] OTHER -> p

PingMayEnd(p) == p.mode = "open"
PingInserts(p, run, dev) == ForEach(p.data, LAMBDA ip : SaveIp(ip, run, dev))

----------------------------------------------------------------------------
(* traceroute: a trace is a header and at least one hop *)

NoHop == [hop |-> NoIp, count |-> 0, dst |-> NoIp]
TracerouteStart == [mode |-> "empty", dst |-> NoIp, hopCount |-> 0, hops |-> <<>>]

\* Parser::addHop: the number of the hop is used up by its first address.
AddHop(p, ip) ==
  [p EXCEPT !.hops = Append(@, [hop |-> SetResponding(ip, TRUE), count |-> p.hopCount, dst |-> p.dst]),
            !.hopCount = 0]

\* A hop is a number and what answered, <<address, name>> each; a probe without an answer is left out.
LOCAL HopLine(p, l) ==
  FoldLeft(LAMBDA q, answer : AddHop(q, AddAlias(answer[1], answer[2], "from traceroute import")),
           [p EXCEPT !.hopCount = l.count], l.answers)

TracerouteLine(p, l) ==
  CASE p.mode \in {"empty", "garbage"} ->
         (CASE l.k = "linux trace"   -> [p EXCEPT !.mode = "linux first", !.dst = l.ip]
            [] l.k = "windows trace" -> [p EXCEPT !.mode = "windows first", !.dst = l.ip]
            [] OTHER -> [p EXCEPT !.mode = "garbage"])
    [] p.mode = "linux first" /\ l.k # "hop"   -> Fail(p)
    [] p.mode \in {"linux first", "linux"} /\ l.k = "hop" -> [HopLine(p, l) EXCEPT !.mode = "linux"]
    [] p.mode = "linux"   -> (IF l.k = "linux trace" THEN [p EXCEPT !.mode = "linux first", !.dst = l.ip]
                              ELSE IF l.k = "windows trace" THEN [p EXCEPT !.mode = "windows first", !.dst = l.ip]
                              ELSE [p EXCEPT !.mode = "garbage"])
    [] p.mode \in {"windows first", "windows"} /\ l.k = "hop" -> [HopLine(p, l) EXCEPT !.mode = "windows"]
    [] p.mode = "windows" /\ l.k = "complete"  -> [p EXCEPT !.mode = "garbage"]
    [] OTHER -> Fail(p)

TracerouteMayEnd(p) == p.mode \in {"garbage", "linux"}
TracerouteInserts(p, run, dev) == ForEach(p.hops, LAMBDA h : SaveHop(h, run, dev))

----------------------------------------------------------------------------
(* hosts *)

HostsStart == [mode |-> "open", ips |-> <<>>]
HostsLine(p, l) ==
  CASE l.k = "host" /\ l.names # {} -> [p EXCEPT !.ips = Append(@, AddNames(l.ip, l.names, "hosts file"))]
    [] l.k \in {"comment", "blank"} -> p
    [] OTHER -> Fail(p)
HostsInserts(p, run, dev) == ForEach(p.ips, LAMBDA ip : SaveIp(ip, run, dev))

----------------------------------------------------------------------------
(* dig: comments with the status, the question, sections of records, footers *)

NoLookup == [question |-> "", resolver |-> Port(NoIp), sections |-> {}]
DigStart == [mode |-> "before", lookup |-> NoLookup, section |-> "", answers |-> {}, data |-> <<>>]

\* A map of sections: a second section of a name is not added.
AddResponseSection(p) ==
  [p EXCEPT !.mode = "sections",
            !.lookup.sections = IF \E s \in @ : s.name = p.section THEN @
                                ELSE @ \union {[name |-> p.section, answers |-> p.answers]}]

\* The last footer that names the server wins; a comment names none.
DigFooter(p, l) ==
  [p EXCEPT !.mode = "footer",
            !.lookup.resolver = IF l.k \in {"server", "received"} THEN [Port(l.ip) EXCEPT !.port = l.port] ELSE @]

LOCAL DigIsFooter(l) == l.k \in {"server", "received", "comment"}
LOCAL DigDone(p) == [p EXCEPT !.data = Append(@, p.lookup), !.lookup = NoLookup]

DigLine(p, l) ==
  CASE p.mode \in {"before", "between"} /\ l.k = "blank" -> p
    [] p.mode \in {"before", "between", "head"} /\ l.k = "comment" -> [p EXCEPT !.mode = "head"]
    [] p.mode = "head" /\ l.k = "blank"         -> [p EXCEPT !.mode = "question"]
    [] p.mode = "question" /\ l.k = "question"  -> [p EXCEPT !.mode = "asked", !.lookup.question = l.name]
    [] p.mode \in {"asked", "sections"} /\ l.k = "blank" -> [p EXCEPT !.mode = "sections"]
    [] p.mode = "sections" /\ l.k = "section"   ->
         [p EXCEPT !.mode = "records", !.section = l.name, !.answers = {}]
    [] p.mode = "records" /\ l.k = "record"     ->
         [p EXCEPT !.answers = @ \union {<<p.lookup.question, l.name, l.data>>}]
    [] p.mode = "records" /\ l.k = "blank"      -> AddResponseSection(p)
    [] p.mode \in {"sections", "footer"} /\ DigIsFooter(l) -> DigFooter(p, l)
    [] p.mode = "footer" /\ l.k = "blank"       -> [DigDone(p) EXCEPT !.mode = "between"]
    [] OTHER -> Fail(p)

DigMayEnd(p) == p.mode \in {"between", "footer"}
DigInserts(p, run, dev) ==
  ForEach(IF p.mode = "footer" THEN Append(p.data, p.lookup) ELSE p.data, LAMBDA l : SaveDnsLookup(l, run))
================================================================================
