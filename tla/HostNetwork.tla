----------------------------- MODULE HostNetwork -----------------------------
(***************************************************************************)
(* What the `ip`, `sysctl` and `macchanger` commands issued by             *)
(* nmdb-playbook do to the Linux host it runs on.  The kernel is not part  *)
(* of the repository: this module is an external model, limited to what    *)
(* the playbook's own commands and checks can tell apart.                  *)
(*                                                                         *)
(* A link is named by a tuple: <<iface>> is a physical interface,          *)
(* <<iface, vlan>> the VLAN device on top of it, and <<>> the empty name.  *)
(***************************************************************************)
EXTENDS Naturals, Sequences

NoLink == <<>>

\* A command line: its operation, the link it names and one more argument.
Cmd(op, link, arg) == [op |-> op, link |-> link, arg |-> arg]

Base(link) == <<link[1]>>

\* The links that go down with `link`: itself and the VLANs stacked on it.
Stack(net, link) == {l \in net.links : l = link \/ Base(l) = link}

\* The host before the playbook: physical interfaces that are all down.
CleanNet(ifaces) ==
  [ links |-> {<<i>> : i \in ifaces},
    up |-> {}, addrs |-> {}, macs |-> {}, knobs |-> {},
    routes |-> {}, default |-> {} ]

TakeDown(net, down) ==
  [net EXCEPT !.up = @ \ down,
              !.routes = {r \in @ : r[1] \notin down},
              !.default = {d \in @ : d[1] \notin down}]

LinkAdd(net, l) ==
  IF Base(l) \in net.links THEN [net EXCEPT !.links = @ \cup {l}] ELSE net

LinkDel(net, l) ==
  IF l \notin net.links THEN net
  ELSE [TakeDown(net, {l}) EXCEPT
          !.links = @ \ {l},
          !.addrs = {a \in @ : a[1] # l},
          !.macs  = {m \in @ : m[1] # l},
          !.knobs = {n \in @ : n[1] # l}]

\* A VLAN device cannot come up while its base interface is down.
LinkUp(net, l) ==
  IF l \in net.links /\ (l = Base(l) \/ Base(l) \in net.up)
  THEN [net EXCEPT !.up = @ \cup {l}] ELSE net

AddTo(net, field, l, arg) ==
  IF l \in net.links THEN [net EXCEPT ![field] = @ \cup {<<l, arg>>}] ELSE net

RouteAdd(net, l, rtr) ==
  IF l \in net.up THEN [net EXCEPT !.routes = @ \cup {<<l, rtr>>}] ELSE net

\* Only one default route of a metric may exist, and its gateway must be
\* reachable; the kernel resolves the device from the gateway.
DefaultAdd(net, rtr) ==
  IF net.default = {}
  THEN [net EXCEPT !.default = {r \in net.routes : r[2] = rtr}] ELSE net

\* The host after one command; a command the kernel rejects changes nothing.
Run(net, c) ==
  CASE c.op = "link add"     -> LinkAdd(net, c.link)
    [] c.op = "link del"     -> LinkDel(net, c.link)
    [] c.op = "link up"      -> LinkUp(net, c.link)
    [] c.op = "link down"    -> TakeDown(net, Stack(net, c.link))
    [] c.op = "mac set"      -> AddTo(net, "macs", c.link, c.arg)
    [] c.op = "mac reset"    -> [net EXCEPT !.macs = {m \in @ : m[1] # c.link}]
    [] c.op = "sysctl on"    -> AddTo(net, "knobs", c.link, c.arg)
    [] c.op = "sysctl off"   -> [net EXCEPT !.knobs = @ \ {<<c.link, c.arg>>}]
    [] c.op = "addr add"     -> AddTo(net, "addrs", c.link, c.arg)
    [] c.op = "addr del"     -> [net EXCEPT !.addrs = @ \ {<<c.link, c.arg>>}]
    [] c.op = "route add"    -> RouteAdd(net, c.link, c.arg)
    [] c.op = "route del"    -> [net EXCEPT !.routes = @ \ {<<c.link, c.arg>>}]
    [] c.op = "default add"  -> DefaultAdd(net, c.arg)
    [] c.op = "default del"  -> [net EXCEPT !.default = {d \in @ : d[2] # c.arg}]
    [] OTHER                 -> net

\* Nothing of a link is configured any more.
Unconfigured(net, l) ==
  /\ l \notin net.up
  /\ \A field \in {"addrs", "macs", "knobs", "routes", "default"} :
       \A x \in net[field] : x[1] # l
=============================================================================
