------------------------- MODULE PlaybookHostProofs -------------------------
(***************************************************************************)
(* What nmdb-playbook does to the host it runs on, and what it may rely on *)
(* there.  A source whose link or address is gone is not tested any more;  *)
(* while plays run, the host has what the guards in scope have configured; *)
(* and once a thread has returned, nothing of what it configured is left.  *)
(***************************************************************************)
EXTENDS PlaybookTestProofs

-----------------------------------------------------------------------------
(* The host.                                                               *)

\* The state of the host has these fields.
IsHost(n) ==
  DOMAIN n = {"links", "up", "addrs", "macs", "knobs", "routes", "default"}

\* What the commands that act on a whole link do to a host.
LEMMA HostTakeDown ==
  ASSUME NEW n, IsHost(n), NEW S
  PROVE  LET m == TakeDown(n, S) IN
         /\ IsHost(m)
         /\ m.links = n.links /\ m.addrs = n.addrs
         /\ m.macs = n.macs /\ m.knobs = n.knobs
         /\ m.up = n.up \ S
         /\ m.routes = {r \in n.routes : r[1] \notin S}
         /\ m.default = {d \in n.default : d[1] \notin S}
BY DEF TakeDown, IsHost

\* Deleting a link takes everything on it away.
LEMMA HostLinkDel ==
  ASSUME NEW n, IsHost(n), NEW l
  PROVE  LET m == LinkDel(n, l) IN
         /\ IsHost(m)
         /\ l \notin n.links => m = n
         /\ l \in n.links =>
              /\ m.links = n.links \ {l} /\ m.up = n.up \ {l}
              /\ m.addrs = {a \in n.addrs : a[1] # l}
              /\ m.macs = {a \in n.macs : a[1] # l}
              /\ m.knobs = {a \in n.knobs : a[1] # l}
              /\ m.routes = {r \in n.routes : r[1] # l}
              /\ m.default = {d \in n.default : d[1] # l}
<1> DEFINE k == TakeDown(n, {l})
<1>1. /\ IsHost(k)
      /\ k.links = n.links /\ k.addrs = n.addrs
      /\ k.macs = n.macs /\ k.knobs = n.knobs
      /\ k.up = n.up \ {l}
      /\ k.routes = {r \in n.routes : r[1] \notin {l}}
      /\ k.default = {d \in n.default : d[1] \notin {l}}
  BY HostTakeDown
<1> HIDE DEF k
<1>2. CASE l \notin n.links
  BY <1>2 DEF LinkDel
<1>3. CASE l \in n.links
  <2> DEFINE m == [k EXCEPT
          !.links = @ \ {l},
          !.addrs = {a \in @ : a[1] # l},
          !.macs  = {a \in @ : a[1] # l},
          !.knobs = {a \in @ : a[1] # l}]
  <2>1. LinkDel(n, l) = m
    BY <1>3 DEF LinkDel, k
  <2>2. /\ IsHost(m) /\ m.links = k.links \ {l} /\ m.up = k.up
        /\ m.addrs = {a \in k.addrs : a[1] # l}
        /\ m.macs = {a \in k.macs : a[1] # l}
        /\ m.knobs = {a \in k.knobs : a[1] # l}
        /\ m.routes = k.routes /\ m.default = k.default
    BY <1>1 DEF IsHost
  <2> HIDE DEF m
  <2>3. /\ m.routes = {r \in n.routes : r[1] # l}
        /\ m.default = {d \in n.default : d[1] # l}
    BY <1>1, <2>2
  <2> QED BY <1>1, <1>3, <2>1, <2>2, <2>3
<1> QED BY <1>2, <1>3

\* Adding a link, bringing it up and adding a route touch one thing each.
LEMMA HostSmall ==
  ASSUME NEW n, IsHost(n), NEW l, NEW x
  PROVE  /\ IsHost(LinkAdd(n, l))
         /\ LinkAdd(n, l).up = n.up /\ LinkAdd(n, l).addrs = n.addrs
         /\ LinkAdd(n, l).links = n.links \/ LinkAdd(n, l).links = n.links \cup {l}
         /\ IsHost(LinkUp(n, l))
         /\ LinkUp(n, l).links = n.links /\ LinkUp(n, l).addrs = n.addrs
         /\ LinkUp(n, l).up = n.up \/ LinkUp(n, l).up = n.up \cup {l}
         /\ IsHost(RouteAdd(n, l, x))
         /\ RouteAdd(n, l, x).links = n.links /\ RouteAdd(n, l, x).up = n.up
         /\ RouteAdd(n, l, x).addrs = n.addrs
         /\ IsHost(DefaultAdd(n, x))
         /\ DefaultAdd(n, x).links = n.links /\ DefaultAdd(n, x).up = n.up
         /\ DefaultAdd(n, x).addrs = n.addrs
BY DEF LinkAdd, LinkUp, RouteAdd, DefaultAdd, IsHost

\* What a check at the start of a phase would find of link l and address a.
Gone(n, l, a) == l \in n.links \ n.up \/ <<l, a>> \notin n.addrs

\* The commands that bring a link or an address back.
Restores(c) == c.op \in {"link up", "addr add"}

\* Run, one command at a time: what it does is what one of these does.
LEMMA RunCases ==
  ASSUME NEW n, NEW c
  PROVE  \/ Run(n, c) = n
         \/ Run(n, c) = LinkAdd(n, c.link) \/ Run(n, c) = LinkDel(n, c.link)
         \/ Run(n, c) = LinkUp(n, c.link) /\ Restores(c)
         \/ Run(n, c) = TakeDown(n, Stack(n, c.link))
         \/ Run(n, c) = AddTo(n, "macs", c.link, c.arg)
         \/ Run(n, c) = [n EXCEPT !.macs = {m \in @ : m[1] # c.link}]
         \/ Run(n, c) = AddTo(n, "knobs", c.link, c.arg)
         \/ Run(n, c) = [n EXCEPT !.knobs = @ \ {<<c.link, c.arg>>}]
         \/ Run(n, c) = AddTo(n, "addrs", c.link, c.arg) /\ Restores(c)
         \/ Run(n, c) = [n EXCEPT !.addrs = @ \ {<<c.link, c.arg>>}]
         \/ Run(n, c) = RouteAdd(n, c.link, c.arg)
         \/ Run(n, c) = [n EXCEPT !.routes = @ \ {<<c.link, c.arg>>}]
         \/ Run(n, c) = DefaultAdd(n, c.arg)
         \/ Run(n, c) = [n EXCEPT !.default = {d \in @ : d[2] # c.arg}]
BY Zenon DEF Run, Restores

\* No command but those brings a link or an address back.
LEMMA RunKeepsGone ==
  ASSUME NEW n, IsHost(n), NEW c
  PROVE  /\ IsHost(Run(n, c))
         /\ \A l, a : Gone(n, l, a) /\ (Restores(c) => c.link # l)
              => Gone(Run(n, c), l, a)
<1> DEFINE k == c.link
           x == c.arg
           Same(m) == /\ IsHost(m)
                      /\ m.links = n.links /\ m.up = n.up /\ m.addrs = n.addrs
           Keeps(m) == IsHost(m) /\ \A l, a : Gone(n, l, a) => Gone(m, l, a)
           Spares(m) == IsHost(m) /\ \A l, a : Gone(n, l, a) /\ k # l => Gone(m, l, a)
<1>0. \A m : Same(m) => Keeps(m)
  BY DEF Gone
<1>1. Keeps(n)
  OBVIOUS
<1>2. Keeps(LinkAdd(n, k))
  <2>1. /\ IsHost(LinkAdd(n, k))
        /\ LinkAdd(n, k).up = n.up /\ LinkAdd(n, k).addrs = n.addrs
        /\ n.links \subseteq LinkAdd(n, k).links
    BY HostSmall
  <2> QED BY <2>1 DEF Gone
<1>3. Keeps(LinkDel(n, k))
  <2> DEFINE m == LinkDel(n, k)
  <2>1. CASE k \notin n.links
    BY <2>1 DEF LinkDel
  <2>2. CASE k \in n.links
    <3>1. /\ IsHost(m) /\ m.links = n.links \ {k} /\ m.up = n.up \ {k}
          /\ m.addrs = {a \in n.addrs : a[1] # k}
      BY <2>2, HostLinkDel
    <3> HIDE DEF m
    <3>2. ASSUME NEW l, NEW a, Gone(n, l, a) PROVE Gone(m, l, a)
      <4>1. <<l, a>>[1] = l
        OBVIOUS
      <4>2. l = k => <<l, a>> \notin m.addrs
        BY <3>1, <4>1
      <4>3. l # k => (l \in n.links \ n.up => l \in m.links \ m.up)
        BY <3>1
      <4>4. <<l, a>> \notin n.addrs => <<l, a>> \notin m.addrs
        BY <3>1
      <4> QED BY <3>2, <4>2, <4>3, <4>4 DEF Gone
    <3> QED BY <3>1, <3>2 DEF m
  <2> QED BY <2>1, <2>2
<1>4. Spares(LinkUp(n, k))
  <2>1. /\ IsHost(LinkUp(n, k))
        /\ LinkUp(n, k).links = n.links /\ LinkUp(n, k).addrs = n.addrs
        /\ LinkUp(n, k).up = n.up \/ LinkUp(n, k).up = n.up \cup {k}
    BY HostSmall
  <2> QED BY <2>1 DEF Gone
<1>5. Keeps(TakeDown(n, Stack(n, k)))
  <2> DEFINE m == TakeDown(n, Stack(n, k))
  <2>1. /\ IsHost(m) /\ m.links = n.links /\ m.addrs = n.addrs
        /\ m.up = n.up \ Stack(n, k)
    BY HostTakeDown
  <2> QED BY <2>1 DEF Gone
<1>6. /\ Same(AddTo(n, "macs", k, x)) /\ Same(AddTo(n, "knobs", k, x))
      /\ Same([n EXCEPT !.macs = {m \in @ : m[1] # k}])
      /\ Same([n EXCEPT !.knobs = @ \ {<<k, x>>}])
      /\ Same([n EXCEPT !.routes = @ \ {<<k, x>>}])
      /\ Same([n EXCEPT !.default = {d \in @ : d[2] # x}])
  BY DEF AddTo, IsHost
<1>7. Same(RouteAdd(n, k, x)) /\ Same(DefaultAdd(n, x))
  BY DEF RouteAdd, DefaultAdd, IsHost
<1>8. Spares(AddTo(n, "addrs", k, x))
  <2> DEFINE m == AddTo(n, "addrs", k, x)
  <2>1. /\ IsHost(m) /\ m.links = n.links /\ m.up = n.up
        /\ m.addrs = n.addrs \/ m.addrs = n.addrs \cup {<<k, x>>}
    BY DEF AddTo, IsHost
  <2> HIDE DEF m
  <2>2. \A l, a : l # k => <<l, a>> # <<k, x>>
    OBVIOUS
  <2>3. Spares(m)
    BY <2>1, <2>2 DEF Gone
  <2> QED BY <2>3 DEF m
<1>9. Keeps([n EXCEPT !.addrs = @ \ {<<k, x>>}])
  <2> DEFINE m == [n EXCEPT !.addrs = @ \ {<<k, x>>}]
  <2>1. /\ IsHost(m) /\ m.links = n.links /\ m.up = n.up
        /\ m.addrs = n.addrs \ {<<k, x>>}
    BY DEF IsHost
  <2> HIDE DEF m
  <2>2. Keeps(m)
    BY <2>1 DEF Gone
  <2> QED BY <2>2 DEF m
<1>10. Keeps(Run(n, c)) \/ (Spares(Run(n, c)) /\ Restores(c))
  <2> HIDE DEF Keeps, Spares, Same
  <2> QED BY <1>0, <1>1, <1>2, <1>3, <1>4, <1>5, <1>6, <1>7, <1>8, <1>9,
             RunCases, Zenon DEF k, x
<1> QED BY <1>10

-----------------------------------------------------------------------------
(* Runtime errors.                                                         *)

Broken(src) == RuntimeErrors(src) # {}

\* The check fails when the link is there but down, or the address is gone.
LEMMA BrokenIs ==
  ASSUME NEW src
  PROVE  /\ Broken(src) <=> opts.execute /\ Gone(net, SourceLink(src), src.addr)
         /\ Broken(src)' <=> opts'.execute /\ Gone(net', SourceLink(src), src.addr)
         /\ \A e \in RuntimeErrors(src) : e[1] = src
<1> DEFINE l == SourceLink(src)
           isError(n) == [down |-> l \in n.links \ n.up,
                          lost |-> <<l, src.addr>> \notin n.addrs]
           found(o, n) == {x \in {"down", "lost"} : o.execute /\ isError(n)[x]}
<1>1. /\ RuntimeErrors(src) = {<<src, x>> : x \in found(opts, net)}
      /\ RuntimeErrors(src)' = {<<src, x>> : x \in found(opts', net')}
  BY DEF RuntimeErrors
<1>2. ASSUME NEW o, NEW n
      PROVE  found(o, n) # {} <=> o.execute /\ Gone(n, l, src.addr)
  <2>1. /\ isError(n)["down"] <=> l \in n.links \ n.up
        /\ isError(n)["lost"] <=> <<l, src.addr>> \notin n.addrs
    OBVIOUS
  <2> HIDE DEF isError
  <2> QED BY <2>1 DEF Gone
<1> HIDE DEF found
<1>3. \A o, n : \A e \in {<<src, x>> : x \in found(o, n)} : e[1] = src
  OBVIOUS
<1>4. \A o, n : {<<src, x>> : x \in found(o, n)} # {} <=> found(o, n) # {}
  OBVIOUS
<1> QED BY <1>1, <1>2, <1>3, <1>4, Zenon DEF Broken

\* A source is being tested, or has been through a session.
Begun(t, src) ==
  \/ Now(t).phase # 0 /\ Now(t).src = src
  \/ \E p \in Now(t).tested : p[1] = src

\* A source with an error on record is done with, or broken.
Barred(t, src) ==
  pc[t] > 0 /\ (src \in Now(t).done \/ (Broken(src) /\ Begun(t, src)))

\* Once the check of a phase has been made, nothing runs in it.
Stopped(t, src) ==
  Now(t).phase # 0 /\ Now(t).src = src /\ Now(t).checked
    => ~runnerExecute /\ running = {}

\* Where the errors of the first run come from and what holds for them.
ErrorsBehind ==
  proc = "up" /\ opts.scope = "inter" /\ budget.runs = 1 =>
    \A e \in errors :
      /\ \E n \in 1..stage : e[1].stage = StageOf(opts, loaded, n)
      /\ \A t \in Threads : e[1] \in Sources(t) =>
           Barred(t, e[1]) /\ Stopped(t, e[1])

\* Errors come from a first run and a check.
ErrorsRecorded ==
  /\ IsHost(net)
  /\ budget.runs = 0 => proc = "off" /\ errors = {}
  /\ errors # {} => opts.ignoreIfaceStateChange

\* A phase counts as checked from its check to its end.
LEMMA FollowsChecked ==
  ASSUME NEW o, NEW t, NEW own, NEW A, NEW x, NEW B, Follows(o, t, own, A, x, B),
         B.checked, x.do # "check"
  PROVE  A.checked /\ (B.phase # 0 => B.src = A.src /\ B.phase = A.phase)
<1> USE DEF Control
<1>1. ASSUME \/ SessionFollows(o, own, A, x, B) \/ EndPhaseFollows(o, A, x, B)
             \/ ResetFollows(A, x, B) \/ CompleteFollows(o, own, A, x, B)
      PROVE  FALSE
  <2>1. CASE SessionFollows(o, own, A, x, B)
    <3>1. PICK src, rtr :
            B = Control(A.kids, A.joined, A.done, A.tested, src, rtr, 1, 0,
                        FALSE, A.held)
      BY <2>1, Zenon DEF SessionFollows
    <3> QED BY <3>1, Zenon
  <2>2. CASE EndPhaseFollows(o, A, x, B)
    BY <2>2, Zenon DEF EndPhaseFollows
  <2>3. CASE ResetFollows(A, x, B)
    BY <2>3, Zenon DEF ResetFollows
  <2>4. CASE CompleteFollows(o, own, A, x, B)
    BY <2>4, Zenon DEF CompleteFollows
  <2> QED BY <1>1, <2>1, <2>2, <2>3, <2>4
<1>2. CASE B = A
  BY <1>2
<1>3. CASE SpawnFollows(t, A, x, B)
  BY <1>3 DEF SpawnFollows
<1>4. CASE JoinFollows(A, x, B)
  BY <1>4 DEF JoinFollows
<1>5. CASE BlockFollows(o, t, A, x, B)
  BY <1>5 DEF BlockFollows, Holding
<1>6. CASE SetFollows(A, x, B)
  BY <1>6 DEF SetFollows
<1> QED BY <1>1, <1>2, <1>3, <1>4, <1>5, <1>6 DEF Follows, DisableFollows, CheckFollows

\* What happens at the control point of a thread when it moves on: a session
\* begun stays begun.
LEMMA BegunKept ==
  ASSUME Located, NEW t \in Threads, Moves(t), NEW u \in Threads, pc[u] > 0,
         NEW src
  PROVE  /\ pc'[u] > 0
         /\ Begun(u, src) => Begun(u, src)'
         /\ src \in Now(u).done => src \in Now(u)'.done
<1> USE DEF Located
<1>1. proc = "up" /\ Alive(t) /\ UNCHANGED <<proc, opts, loaded, plan, stage>>
  BY DEF Moves
<1>2. pc[u] \in Nat
  BY <1>1, StateTraced
<1>3. CASE pc'[u] = pc[u] /\ Now(u)' = Now(u)
  BY <1>3 DEF Begun
<1>4. CASE u = t /\ pc' # pc
  <2>1. pc'[t] = pc[t] + 1 /\ Now(t)' = After(t)
    BY <1>4, Frame
  <2>2. Follows(opts, t, Sources(t), Now(t), Step(t), After(t))
    BY <1>1, StateTraced
  <2>3. Now(t).done \subseteq After(t).done
    BY <2>2, FollowsDone
  <2>4. /\ Now(t).tested \subseteq After(t).tested
        /\ Now(t).phase # 0 =>
             \/ /\ Step(t).do \notin {"end of phase", "reset"}
                /\ After(t).src = Now(t).src /\ After(t).rtr = Now(t).rtr
                /\ After(t).phase = Now(t).phase
             \/ /\ Step(t).do = "end of phase"
                /\ After(t).src = Now(t).src /\ After(t).rtr = Now(t).rtr
                /\ After(t).phase = Now(t).phase + 1
             \/ /\ Step(t).do = "reset"
                /\ <<Now(t).src, Now(t).rtr>> \in After(t).tested
    BY <2>2, FollowsSession
  <2>5. Now(t).phase \in Nat
    <3>1. pc[t] \in 1..(Len(Steps(t)) + 1)
      BY <1>1, StateTraced DEF Alive
    <3> QED BY <1>1, <3>1, StateTraced DEF IsControl
  <2>6. ASSUME Now(t).phase # 0, Now(t).src = src
        PROVE  Begun(t, src)'
    <3>1. CASE After(t).src = src /\ After(t).phase # 0
      BY <2>1, <3>1 DEF Begun
    <3>2. CASE <<src, Now(t).rtr>> \in After(t).tested
      <4>1. <<src, Now(t).rtr>>[1] = src
        OBVIOUS
      <4> QED BY <2>1, <3>2, <4>1 DEF Begun
    <3>3. Now(t).phase + 1 # 0
      BY <2>5
    <3> QED BY <2>4, <2>6, <3>1, <3>2, <3>3
  <2>7. ASSUME NEW p \in Now(t).tested, p[1] = src
        PROVE  Begun(t, src)'
    BY <2>1, <2>4, <2>7 DEF Begun
  <2>8. Begun(t, src) => Begun(t, src)'
    BY <2>6, <2>7 DEF Begun
  <2>9. pc'[t] > 0
    BY <1>2, <1>4, <2>1
  <2> QED BY <1>4, <2>1, <2>3, <2>8, <2>9
<1>5. pc' = pc => pc'[u] = pc[u] /\ Now(u)' = Now(u)
  BY <1>1 DEF Now, Trace
<1>6. u # t => pc'[u] = pc[u] /\ Now(u)' = Now(u)
  BY <1>2, Frame
<1> QED BY <1>3, <1>4, <1>5, <1>6

\* What a thread that runs a command may do to its link.
LEMMA BlockMay ==
  ASSUME Located, NEW t \in Threads, SystemExec(t)
  PROVE  /\ proc = "up" /\ Alive(t) /\ Moves(t) /\ pc' = pc
         /\ Now(t).phase = 0
         /\ LET c == Cmds(t)[issued'[t]] IN
            Restores(c) => /\ c.link = MyLink(t) /\ Now(t).kids = {}
                           /\ \A p \in Now(t).tested : p[1] \in Now(t).done
<1> DEFINE c == Cmds(t)[issued'[t]]
           A == Now(t)
<1>1. /\ At(t, "block") /\ issued[t] < Len(Cmds(t))
      /\ issued' = [issued EXCEPT ![t] = @ + 1]
      /\ UNCHANGED <<proc, opts, loaded, plan, stage, pc>>
  BY DEF SystemExec, Issue
<1>2. proc = "up" /\ Alive(t) /\ Step(t).do = "block"
  BY <1>1 DEF At
<1>3. Moves(t) /\ pc' = pc
  BY <1>1, <1>2 DEF Moves
<1>4. BlockFollows(opts, t, A, Step(t), After(t))
  BY <1>2, StateTraced, FollowsKind DEF Located
<1>5. PICK h : Configures(opts, t, A, Cmds(t), h)
  BY <1>4 DEF BlockFollows, Cmds
<1>6. issued'[t] \in 1..Len(Cmds(t))
  <2>1. Len(Cmds(t)) \in Nat
    BY <1>5, Zenon DEF Configures
  <2>2. issued[t] \in Nat /\ issued'[t] = issued[t] + 1
    BY <1>1 DEF Located, TypeInv, TypeOK
  <2> QED BY <1>1, <2>1, <2>2
<1>7. PICK H : May(opts, t, A, H, c)
  BY <1>5, <1>6, Zenon DEF Configures
<1> HIDE DEF c, A
<1>8. Restores(c) =>
        c.op \notin {"sleep", "flush cache", "default add", "default del", "link del"}
  BY Zenon DEF Restores
<1>9. Restores(c) => /\ c.link = MyLink(t) /\ A.kids = {}
                     /\ \A p \in A.tested : p[1] \in A.done
  BY <1>7, <1>8, Zenon DEF May, Restores
<1>10. A.phase = 0
  BY <1>4 DEF BlockFollows
<1> QED BY <1>2, <1>3, <1>9, <1>10 DEF c, A

\* Inter-network, no thread brings back the link or the address of a source
\* that is being tested, nor of one that was and is not done.
LEMMA BreaksStay ==
  ASSUME Located, OneVlanActive, IsHost(net), NEW u \in Threads, SystemExec(u),
         opts.scope = "inter", NEW t \in Threads, NEW src \in Sources(t),
         pc[t] > 0, src \notin Now(t).done, Broken(src), Begun(t, src)
  PROVE  Broken(src)'
<1> USE DEF Located
<1> DEFINE c == Cmds(u)[issued'[u]]
           l == SourceLink(src)
<1>1. /\ proc = "up" /\ Alive(u) /\ Now(u).phase = 0
      /\ opts' = opts
      /\ Restores(c) => /\ c.link = MyLink(u) /\ Now(u).kids = {}
                        /\ \A p \in Now(u).tested : p[1] \in Now(u).done
  BY BlockMay DEF Moves
<1>2. net' = net \/ net' = Run(net, c)
  BY DEF SystemExec
<1>3. opts.execute /\ Gone(net, l, src.addr)
  BY BrokenIs
<1>4. /\ t = <<src.iface, src.vlan>> /\ src.vlan # RESERVED
      /\ src \in loaded /\ loaded \subseteq Rows
  BY <1>1, SourceOf DEF Sources, TypeInv, PlanLoaded
<1>5. Alive(t)
  <2>1. /\ pc[t] \in Nat /\ Len(Steps(t)) \in Nat /\ pc[t] <= Len(Steps(t)) + 1
    BY <1>1, StateTraced DEF Positions
  <2>2. pc[t] # Len(Steps(t)) + 1
    BY <1>1, StateTraced
  <2> QED BY <2>1, <2>2 DEF Alive
<1>6. u # t \/ ~Restores(c)
  BY <1>1 DEF Begun
<1>7. Restores(c) => c.link # l
  <2> SUFFICES ASSUME Restores(c), MyLink(u) = l PROVE FALSE
    BY <1>1
  <2> DEFINE i == src.iface
             v == src.vlan
  <2>1. t = <<i, v>> /\ l = LinkName(<<i, v>>) /\ v # RESERVED
    BY <1>4 DEF SourceLink
  <2> HIDE DEF i, v
  <2>2. l = <<i, v>> \/ l = <<i>>
    BY <2>1 DEF LinkName, VlanIfaceName, Base, RESERVED
  <2>3. t \in VlanThreads
    <3>1. Len(<<i, v>>) = 2
      OBVIOUS
    <3> QED BY <2>1, <3>1 DEF VlanThreads
  <2>4. Len(u) # 2
    BY <1>1, <1>5, <1>6, <2>3 DEF OneVlanActive, VlanThreads
  <2>5. MyLink(u) = u
    BY <2>4 DEF MyLink
  <2>6. u = <<i>>
    <3>1. Len(<<i, v>>) = 2
      OBVIOUS
    <3> QED BY <2>2, <2>4, <2>5, <3>1
  <2>7. IsChild(u, t)
    BY <2>1, <2>6 DEF IsChild
  <2>8. t \in Now(u).kids
    BY <1>1, <2>7 DEF Family
  <2> QED BY <1>1, <2>8
<1> HIDE DEF c, l
<1>8. Gone(net', l, src.addr)
  BY <1>2, <1>3, <1>7, RunKeepsGone
<1> QED BY <1>1, <1>3, <1>8, BrokenIs DEF l

\* What the steps of a thread leave alone.
LEMMA HostKept ==
  ASSUME NEW t \in Threads, ThreadStep(t)
  PROVE  /\ budget' = budget
         /\ ~SystemExec(t) => net' = net
         /\ ~CheckPhase(t) => errors' = errors
<1>1. CASE DisableSkippedSet(t) \/ EndPhase(t) \/ EndSession(t)
  <2>1. UNCHANGED <<host, ghost>>
    BY <1>1, Zenon DEF DisableSkippedSet, EndPhase, EndSession, SetExecute
  <2> QED BY <2>1 DEF host, ghost
<1>2. CASE SystemExec(t) \/ StartPlay(t)
  BY <1>2 DEF SystemExec, StartPlay, Issue
<1> QED BY <1>1, <1>2 DEF ThreadStep, SpawnThread, JoinThread, Lock, PlayOk, PlayFails,
      Unlock, BeginSession, CheckPhase, CheckAborts, Complete, ghost, host

\* The check of a phase is made by CheckPhase.
LEMMA CheckSteps ==
  ASSUME NEW t \in Threads, ThreadStep(t), Step(t).do = "check", pc' # pc
  PROVE  CheckPhase(t)
<1>1. ~DisableSkippedSet(t) /\ ~EndPhase(t) /\ ~EndSession(t)
  BY Zenon DEF DisableSkippedSet, EndPhase, EndSession, SetExecute, At
<1>2. ~(SpawnThread(t) \/ JoinThread(t) \/ BeginSession(t) \/ Complete(t))
  BY DEF SpawnThread, JoinThread, BeginSession, Complete, At
<1>3. ~(Lock(t) \/ SystemExec(t) \/ StartPlay(t) \/ PlayOk(t) \/ PlayFails(t) \/ Unlock(t))
  BY DEF Lock, SystemExec, StartPlay, Issue, PlayOk, PlayFails, Unlock, At, AtBlock
<1>4. ~CheckAborts(t)
  BY DEF CheckAborts
<1> QED BY <1>1, <1>2, <1>3, <1>4 DEF ThreadStep

\* The runner goes on again at the end of a phase and of a session only.
LEMMA EndsInSession ==
  ASSUME Located, NEW t \in Threads, Moves(t), EndPhase(t) \/ EndSession(t)
  PROVE  /\ Step(t).do \in {"end of phase", "reset"} /\ pc[t] > 0
         /\ pc' # pc /\ Now(t).phase # 0 /\ Now(t)'.phase # Now(t).phase
<1> USE DEF Located
<1>1. proc = "up" /\ Alive(t) /\ pc' = [pc EXCEPT ![t] = @ + 1]
  <2>1. CASE EndPhase(t)
    BY <2>1, Zenon DEF EndPhase, SetExecute, At, Advance
  <2>2. CASE EndSession(t)
    BY <2>2, Zenon DEF EndSession, SetExecute, At, Advance
  <2> QED BY <2>1, <2>2
<1>a. Step(t).do \in {"end of phase", "reset"}
  BY Zenon DEF EndPhase, EndSession, SetExecute, At
<1>2. /\ pc[t] \in Nat /\ pc[t] > 0
      /\ Follows(opts, t, Sources(t), Now(t), Step(t), After(t))
  BY <1>1, StateTraced DEF Alive
<1>3. pc'[t] = pc[t] + 1 /\ pc' # pc
  BY <1>1, <1>2 DEF TypeInv, TypeOK
<1>4. Now(t)' = After(t)
  BY <1>3, Frame
<1>5. Len(Plays) \in Nat
  BY OptionsAssumption
<1>6. CASE EndPhaseFollows(opts, Now(t), Step(t), After(t))
  <2>1. Now(t).phase \in 1..Len(Plays) /\ After(t).phase = Now(t).phase + 1
    <3>1. /\ Now(t).phase \in 1..Len(Plays)
          /\ After(t) = Control(Now(t).kids, Now(t).joined, Now(t).done, Now(t).tested,
               Now(t).src, Now(t).rtr, Now(t).phase + 1, 0, FALSE, Now(t).held)
      BY <1>6, Zenon DEF EndPhaseFollows
    <3> QED BY <3>1 DEF Control
  <2>2. Now(t).phase # 0 /\ After(t).phase # Now(t).phase
    BY <1>5, <2>1
  <2> QED BY <1>a, <1>2, <1>3, <1>4, <2>2
<1>7. CASE ResetFollows(Now(t), Step(t), After(t))
  <2>1. Now(t).phase = Len(Plays) + 1 /\ After(t).phase = 0
    BY <1>7 DEF ResetFollows, Control
  <2>2. Now(t).phase # 0 /\ After(t).phase # Now(t).phase
    BY <1>5, <2>1
  <2> QED BY <1>a, <1>2, <1>3, <1>4, <2>2
<1> QED BY <1>a, <1>2, <1>6, <1>7, FollowsKind

\* A source on record stays barred.
LEMMA BarredKept ==
  ASSUME Located, OneVlanActive, IsHost(net), opts.scope = "inter",
         NEW t \in Threads, Moves(t), ThreadStep(t) \/ (StageBegin /\ t = Main),
         NEW u \in Threads, NEW src \in Sources(u), Barred(u, src)
  PROVE  Barred(u, src)'
<1>1. /\ pc[u] > 0 /\ pc'[u] > 0
      /\ Begun(u, src) => Begun(u, src)'
      /\ src \in Now(u).done => src \in Now(u)'.done
  BY BegunKept DEF Barred
<1>2. ASSUME src \notin Now(u).done PROVE Broken(src)'
  <2>1. Broken(src) /\ Begun(u, src)
    BY <1>2 DEF Barred
  <2>2. CASE SystemExec(t)
    BY <1>1, <1>2, <2>1, <2>2, BreaksStay
  <2>3. CASE ~SystemExec(t)
    <3>1. net' = net /\ opts' = opts
      BY <2>3, HostKept DEF Moves, StageBegin, host
    <3> QED BY <2>1, <3>1, BrokenIs
  <2> QED BY <2>2, <2>3
<1> QED BY <1>1, <1>2 DEF Barred

\* And what was stopped stays so until the phase is over.
LEMMA StoppedKept ==
  ASSUME Located, OneVlanActive, opts.scope = "inter", NEW t \in Threads, Moves(t),
         ThreadStep(t) \/ (StageBegin /\ t = Main), ~CheckPhase(t),
         NEW u \in Threads, NEW src, pc[u] > 0, Stopped(u, src)
  PROVE  Stopped(u, src)'
<1> USE DEF Located
<1> SUFFICES ASSUME Now(u)'.phase # 0, Now(u)'.src = src, Now(u)'.checked
             PROVE  ~runnerExecute' /\ running' = {}
  BY DEF Stopped
<1>1. proc = "up" /\ Alive(t) /\ UNCHANGED <<proc, opts, loaded, plan, stage>>
  BY DEF Moves
<1>2. /\ Now(u).phase # 0 /\ Now(u).src = src /\ Now(u).checked
      /\ Now(u)'.phase = Now(u).phase
  <2>1. CASE pc' = pc
    <3>1. Now(u)' = Now(u)
      BY <1>1, <2>1 DEF Now, Trace
    <3> QED BY <3>1
  <2>2. CASE u # t
    <3>1. pc[u] # 0
      BY <1>1, StateTraced
    <3>2. Now(u)' = Now(u)
      BY <2>2, <3>1, Frame
    <3> QED BY <3>2
  <2>3. CASE u = t /\ pc' # pc
    <3>1. Now(t)' = After(t)
      BY <2>3, Frame
    <3>2. Follows(opts, t, Sources(t), Now(t), Step(t), After(t))
      BY <1>1, StateTraced
    <3>3. Step(t).do # "check"
      BY <2>3, CheckSteps DEF StageBegin, At
    <3>4. Now(t).checked /\ (After(t).phase # 0 =>
             After(t).src = Now(t).src /\ After(t).phase = Now(t).phase)
      BY <2>3, <3>1, <3>2, <3>3, FollowsChecked
    <3> QED BY <2>3, <3>1, <3>4
  <2> QED BY <2>1, <2>2, <2>3
<1>3. ~runnerExecute /\ running = {}
  BY <1>2 DEF Stopped
<1>4. ~EndPhase(t) /\ ~EndSession(t)
  <2> SUFFICES ASSUME EndPhase(t) \/ EndSession(t) PROVE FALSE
    OBVIOUS
  <2>1. /\ pc[t] > 0 /\ Now(t).phase # 0 /\ Now(t)'.phase # Now(t).phase
    BY EndsInSession
  <2>2. t = u
    BY <1>1, <1>2, <2>1, OneSession
  <2> QED BY <1>2, <2>1, <2>2
<1>5. CASE ThreadStep(t)
  BY <1>3, <1>4, <1>5, OffKept
<1>6. CASE StageBegin
  BY <1>3, <1>6 DEF StageBegin, runner
<1> QED BY <1>5, <1>6

\* A check that finds the link or the address gone puts the error on record
\* and stops the phase.
LEMMA CheckErrors ==
  ASSUME Located, OneVlanActive, ErrorsRecorded, ErrorsBehind,
         NEW t \in Threads, CheckPhase(t), Moves(t)
  PROVE  ErrorsBehind'
<1> USE DEF Located
<1>1. /\ proc = "up" /\ Alive(t) /\ UNCHANGED <<proc, opts, loaded, plan, stage>>
      /\ ThreadStep(t)
  BY DEF Moves, ThreadStep
<1>2. /\ At(t, "check") /\ pc' = [pc EXCEPT ![t] = @ + 1]
      /\ errors' = errors \cup RuntimeErrors(Step(t).src)
      /\ runnerExecute' = (runnerExecute /\ RuntimeErrors(Step(t).src) = {})
      /\ UNCHANGED <<running, net, budget>>
  BY DEF CheckPhase, Advance, ghost
<1> SUFFICES ASSUME opts.scope = "inter", budget.runs = 1 PROVE ErrorsBehind'
  BY <1>1, <1>2 DEF ErrorsBehind
<1>3. /\ pc[t] \in Nat /\ pc[t] > 0 /\ pc'[t] = pc[t] + 1
      /\ IsControl(Sources(t), Now(t))
      /\ Follows(opts, t, Sources(t), Now(t), Step(t), After(t))
  BY <1>1, <1>2, StateTraced DEF Alive, TypeInv, TypeOK
<1> DEFINE src == Step(t).src
<1>4. src = Now(t).src /\ Now(t).phase # 0
  <2>1. CheckFollows(Now(t), Step(t), After(t))
    BY <1>2, <1>3, FollowsKind DEF At
  <2> QED BY <2>1 DEF CheckFollows
<1>5. src \in Sources(t) /\ src \notin Now(t).done
  BY <1>3, <1>4 DEF IsControl
<1> HIDE DEF src
<1>6. running = {}
  <2> SUFFICES ASSUME NEW c \in running PROVE FALSE
    OBVIOUS
  <2>1. /\ coutMutex \in Threads /\ At(coutMutex, "set")
        /\ Now(coutMutex).phase # 0 /\ pc[coutMutex] > 0
    BY <1>1, RunningOf
  <2>2. coutMutex = t
    BY <1>1, <1>3, <1>4, <2>1, OneSession
  <2> QED BY <1>2, <2>1, <2>2 DEF At
<1>7. \A u \in Threads : Sources(u)' = Sources(u)
  BY Frame
<1>8. ASSUME NEW u \in Threads, NEW s \in Sources(u), Barred(u, s)
      PROVE  Barred(u, s)'
  BY <1>1, <1>8, BarredKept DEF ErrorsRecorded
<1>9. Broken(src) => Barred(t, src) /\ ~runnerExecute' /\ running' = {}
  BY <1>2, <1>3, <1>4, <1>6 DEF Barred, Begun, Broken, src
<1>10. ASSUME NEW u \in Threads, NEW s \in Sources(u), Barred(u, s)
       PROVE  Stopped(u, s)'
  <2> SUFFICES ASSUME Now(u)'.phase # 0, Now(u)'.src = s
               PROVE  ~runnerExecute' /\ running' = {}
    BY DEF Stopped
  <2>1. pc[u] > 0 /\ pc'[u] > 0
    BY <1>10, BegunKept DEF Barred
  <2>2. ~At(t, "session") /\ ~At(t, "reset")
    BY <1>2 DEF At
  <2>3. Now(u).phase # 0
    BY <2>1, <2>2, SessionWentOn
  <2>4. u = t
    BY <1>1, <1>3, <1>4, <2>1, <2>3, OneSession
  <2>5. Now(t)'.src = Now(t).src
    <3>1. Now(t)' = After(t)
      <4>1. pc' # pc
        BY <1>3
      <4> QED BY <4>1, Frame
    <3>2. CheckFollows(Now(t), Step(t), After(t))
      BY <1>2, <1>3, FollowsKind DEF At
    <3> QED BY <3>1, <3>2 DEF CheckFollows, Control
  <2>6. s = src
    BY <1>4, <2>4, <2>5
  <2>7. Broken(src)
    BY <1>5, <1>10, <2>4, <2>6 DEF Barred
  <2> QED BY <1>9, <2>7
<1>11. ASSUME NEW e \in errors'
       PROVE  /\ \E n \in 1..stage : e[1].stage = StageOf(opts, loaded, n)
              /\ \A u \in Threads : e[1] \in Sources(u) => Barred(u, e[1])
  <2>1. CASE e \in errors
    BY <1>1, <2>1 DEF ErrorsBehind
  <2>2. CASE e \in RuntimeErrors(src)
    <3>1. e[1] = src /\ Broken(src)
      BY <2>2, BrokenIs DEF Broken
    <3>2. stage \in 1..stage
      BY <1>1 DEF TypeInv, TypeOK
    <3>3. src.stage = StageOf(opts, loaded, stage)
      BY <1>5, SourcesLoaded
    <3>4. ASSUME NEW u \in Threads, src \in Sources(u) PROVE u = t
      BY <1>5, <3>4, SourceOf DEF Sources
    <3> QED BY <1>9, <3>1, <3>2, <3>3, <3>4
  <2> QED BY <1>2, <2>1, <2>2 DEF src
<1> QED BY <1>1, <1>7, <1>8, <1>10, <1>11 DEF ErrorsBehind

\* Any other move.
LEMMA MoveErrors ==
  ASSUME Located, OneVlanActive, ErrorsRecorded, ErrorsBehind, NEW t \in Threads,
         Moves(t), ThreadStep(t) \/ (StageBegin /\ t = Main), ~CheckPhase(t)
  PROVE  ErrorsBehind'
<1>1. proc = "up" /\ UNCHANGED <<proc, opts, loaded, plan, stage>>
  BY DEF Moves
<1>2. errors' = errors /\ budget' = budget
  BY HostKept DEF StageBegin, host, ghost
<1> SUFFICES ASSUME opts.scope = "inter", budget.runs = 1 PROVE ErrorsBehind'
  BY <1>1, <1>2 DEF ErrorsBehind
<1>3. \A u \in Threads : Sources(u)' = Sources(u)
  BY Frame DEF Located
<1>4. ASSUME NEW u \in Threads, NEW e \in errors, e[1] \in Sources(u)
      PROVE  Barred(u, e[1])' /\ Stopped(u, e[1])'
  <2>1. Barred(u, e[1]) /\ Stopped(u, e[1])
    BY <1>1, <1>4 DEF ErrorsBehind
  <2>2. Barred(u, e[1])'
    BY <1>4, <2>1, BarredKept DEF ErrorsRecorded
  <2>3. pc[u] > 0
    BY <2>1 DEF Barred
  <2>4. Stopped(u, e[1])'
    BY <2>1, <2>3, StoppedKept
  <2> QED BY <2>2, <2>4
<1> QED BY <1>1, <1>2, <1>3, <1>4 DEF ErrorsBehind

\* The sources of a new stage have no errors yet.
LEMMA StageErrors ==
  ASSUME Located, ErrorsBehind, StageEnd, proc' = "up"
  PROVE  ErrorsBehind'
<1>1. /\ proc = "up" /\ stage' = stage + 1 /\ errors' = errors /\ budget' = budget
      /\ UNCHANGED <<opts, loaded, plan>>
      /\ stage + 1 \in 1..Len(plan) /\ stage \in 1..Len(plan)
  BY PlanLength DEF StageEnd, Located, TypeInv, TypeOK, PlanLoaded, ghost, host
<1> SUFFICES ASSUME opts.scope = "inter", budget.runs = 1 PROVE ErrorsBehind'
  BY <1>1 DEF ErrorsBehind
<1>2. \A e \in errors : \E n \in 1..stage : e[1].stage = StageOf(opts, loaded, n)
  BY <1>1 DEF ErrorsBehind
<1>3. \A n \in 1..stage : n \in 1..stage'
  BY <1>1
<1>4. ASSUME NEW u \in Threads, NEW e \in errors,
             e[1] \in SourcesOf(opts, loaded, stage + 1, u)
      PROVE  FALSE
  <2>1. PICK n \in 1..stage : e[1].stage = StageOf(opts, loaded, n)
    BY <1>2
  <2> QED BY <1>1, <1>4, <2>1, NotOfNext
<1>5. \A u \in Threads : Sources(u)' = SourcesOf(opts, loaded, stage + 1, u)
  BY <1>1 DEF Sources
<1>6. \A e \in errors' : \E n \in 1..stage' : e[1].stage = StageOf(opts', loaded', n)
  BY <1>1, <1>2, <1>3
<1> QED BY <1>1, <1>4, <1>5, <1>6 DEF ErrorsBehind

\* ErrorsBehind is inductive, given where the threads are and that they
\* take turns.
LEMMA NextErrors ==
  Located /\ OneVlanActive /\ ErrorsRecorded /\ ErrorsBehind /\ [Next]_vars
    => ErrorsBehind'
<1> SUFFICES ASSUME Located, OneVlanActive, ErrorsRecorded, ErrorsBehind,
                    [Next]_vars, proc' = "up"
             PROVE  ErrorsBehind'
  BY DEF ErrorsBehind
<1>1. CASE Start
  <2>1. budget.runs \in Nat /\ budget'.runs = budget.runs + 1 /\ errors' = errors
    BY <1>1 DEF Start, Located, TypeInv, TypeOK, host
  <2>2. budget'.runs = 1 => errors' = {}
    BY <2>1 DEF ErrorsRecorded
  <2> QED BY <2>2 DEF ErrorsBehind
<1>2. CASE StageBegin
  <2>1. Main \in Threads /\ Moves(Main) /\ ~CheckPhase(Main)
    BY <1>2 DEF StageBegin, Moves, At, Advance, Threads, CheckPhase
  <2> QED BY <1>2, <2>1, MoveErrors
<1>3. CASE StageQuit
  BY <1>3 DEF StageQuit
<1>4. CASE StageEnd
  BY <1>4, StageErrors
<1>5. ASSUME NEW t \in Threads, ThreadStep(t) PROVE ErrorsBehind'
  <2>1. ~CheckAborts(t)
    BY DEF CheckAborts
  <2>2. Moves(t)
    BY <1>5, <2>1, ThreadMoves
  <2>3. CASE CheckPhase(t)
    BY <2>2, <2>3, CheckErrors
  <2>4. CASE ~CheckPhase(t)
    BY <1>5, <2>2, <2>4, MoveErrors
  <2> QED BY <2>3, <2>4
<1>6. CASE Crash
  BY <1>6 DEF Crash
<1>7. CASE Flap
  <2>1. /\ UNCHANGED <<proc, opts, loaded, plan, stage, pc, errors, running, runnerExecute>>
        /\ budget'.runs = budget.runs
    BY <1>7 DEF Flap, flow, runner, Located, TypeInv, TypeOK
  <2>2. net'.links = net.links /\ net'.up \subseteq net.up /\ net'.addrs \subseteq net.addrs
    BY <1>7 DEF Flap, ErrorsRecorded, IsHost
  <2>3. \A src : Broken(src) => Broken(src)'
    BY <2>1, <2>2, BrokenIs DEF Gone
  <2> QED BY <2>1, <2>3 DEF ErrorsBehind, Barred, Begun, Stopped, Sources, Now, Trace
<1>8. CASE UNCHANGED vars
  <2>1. UNCHANGED <<proc, opts, loaded, plan, stage, pc, errors, running, runnerExecute,
                    budget, net>>
    BY <1>8 DEF vars, flow, runner, ghost, host
  <2>2. \A src : Broken(src) => Broken(src)'
    BY <2>1, BrokenIs
  <2> QED BY <2>1, <2>2 DEF ErrorsBehind, Barred, Begun, Stopped, Sources, Now, Trace
<1> QED BY <1>1, <1>2, <1>3, <1>4, <1>5, <1>6, <1>7, <1>8 DEF Next, Progress, Finished

\* Only a first run, and a check in it, puts an error on record.
LEMMA NextRecorded == Located /\ ErrorsRecorded /\ [Next]_vars => ErrorsRecorded'
<1> SUFFICES ASSUME Located, ErrorsRecorded, [Next]_vars PROVE ErrorsRecorded'
  OBVIOUS
<1>1. CASE Start
  <2>1. budget.runs \in Nat /\ budget'.runs = budget.runs + 1
        /\ errors' = errors /\ net' = net /\ opts' = opts
    BY <1>1 DEF Start, Located, TypeInv, TypeOK, host
  <2>2. budget'.runs # 0
    BY <2>1
  <2> QED BY <2>1, <2>2 DEF ErrorsRecorded
<1>2. CASE StageBegin \/ StageQuit \/ StageEnd
  <2>1. proc = "up" /\ UNCHANGED <<net, errors, budget, opts>>
    BY <1>2 DEF StageBegin, StageQuit, StageEnd, At, host, ghost
  <2> QED BY <2>1 DEF ErrorsRecorded
<1>3. ASSUME NEW t \in Threads, ThreadStep(t) PROVE ErrorsRecorded'
  <2>1. proc = "up" /\ opts' = opts
    BY <1>3, ThreadMoves DEF Moves, CheckAborts, At
  <2>2. budget' = budget /\ budget.runs # 0
    BY <1>3, <2>1, HostKept DEF ErrorsRecorded
  <2>3. IsHost(net')
    <3>1. CASE SystemExec(t)
      <4>1. net' = net \/ net' = Run(net, Cmds(t)[issued'[t]])
        BY <3>1 DEF SystemExec
      <4> QED BY <4>1, RunKeepsGone DEF ErrorsRecorded
    <3>2. CASE ~SystemExec(t)
      BY <1>3, <3>2, HostKept DEF ErrorsRecorded
    <3> QED BY <3>1, <3>2
  <2>4. errors' # {} => opts.ignoreIfaceStateChange
    <3>1. CASE CheckPhase(t)
      <4>1. Alive(t) /\ Step(t).do = "check"
        BY <3>1 DEF CheckPhase, At
      <4>2. Follows(opts, t, Sources(t), Now(t), Step(t), After(t))
        BY <2>1, <4>1, StateTraced DEF Located
      <4> QED BY <4>1, <4>2, FollowsKind
    <3>2. CASE ~CheckPhase(t)
      BY <1>3, <3>2, HostKept DEF ErrorsRecorded
    <3> QED BY <3>1, <3>2
  <2> QED BY <2>1, <2>2, <2>3, <2>4 DEF ErrorsRecorded
<1>4. CASE Crash
  <2>1. proc = "up" /\ UNCHANGED <<net, errors, opts>> /\ budget'.runs = budget.runs
    BY <1>4 DEF Crash, host, Located, TypeInv, TypeOK
  <2> QED BY <2>1 DEF ErrorsRecorded
<1>5. CASE Flap
  <2>1. /\ proc = "up" /\ proc' = proc /\ UNCHANGED <<errors, opts>>
        /\ budget'.runs = budget.runs
    BY <1>5 DEF Flap, flow, Located, TypeInv, TypeOK
  <2>2. IsHost(net')
    BY <1>5 DEF Flap, ErrorsRecorded, IsHost
  <2> QED BY <2>1, <2>2 DEF ErrorsRecorded
<1>6. CASE UNCHANGED vars
  <2>1. UNCHANGED <<proc, net, errors, budget, opts>>
    BY <1>6 DEF vars, flow, host, ghost
  <2> QED BY <2>1 DEF ErrorsRecorded
<1> QED BY <1>1, <1>2, <1>3, <1>4, <1>5, <1>6 DEF Next, Progress, Finished

Sealed        == opts.scope = "inter" \/ ~opts.ignoreIfaceStateChange
SealedScans   == Sealed => NoScanAfterRuntimeError
UpSealedScans == proc = "up" => SealedScans

\* No play of a source with an error on record runs.
LEMMA ErrorsHold ==
  Located /\ ErrorsRecorded /\ ErrorsBehind => UpSealedScans
<1> SUFFICES ASSUME Located, ErrorsRecorded, ErrorsBehind, proc = "up", Sealed,
                    budget.runs = 1, NEW c \in running, NEW e \in errors,
                    e[1] = c.arg.src
             PROVE  FALSE
  BY DEF UpSealedScans, SealedScans, NoScanAfterRuntimeError
<1>1. PICK t \in Threads : t = coutMutex
  BY RunningOf
<1>2. /\ At(t, "set") /\ pc[t] > 0
      /\ IsControl(Sources(t), Now(t)) /\ Now(t).phase # 0 /\ c.arg.src = Now(t).src
  BY <1>1, RunningOf
<1>3. opts.ignoreIfaceStateChange /\ opts.scope = "inter"
  BY DEF ErrorsRecorded, Sealed
<1>4. Now(t).checked
  <2>1. Follows(opts, t, Sources(t), Now(t), Step(t), After(t)) /\ Step(t).do = "set"
    BY <1>2, StateTraced DEF Located, At
  <2> QED BY <1>3, <2>1, FollowsKind
<1>5. Now(t).src \in Sources(t)
  BY <1>2 DEF IsControl
<1>6. Stopped(t, e[1])
  BY <1>2, <1>3, <1>5 DEF ErrorsBehind
<1> QED BY <1>2, <1>4, <1>6 DEF Stopped

\* Once the check at the start of a phase has recorded that a source's link
\* or address is gone, no further play of that source runs in that run: the
\* update at the end of every phase turns the runner on again, but the next
\* phase checks again, and no thread brings a link or an address back while
\* a source that uses it is being tested.  Inter-network, or without
\* ignore-iface-state-change, when nothing is checked.  (Intra-network
\* another thread may turn the runner on after the check.)
THEOREM ErrorsEndTests ==
  Spec => [](opts.scope = "inter" \/ ~opts.ignoreIfaceStateChange
               => NoScanAfterRuntimeError)
<1>1. Init => Serial /\ ErrorsRecorded /\ ErrorsBehind /\ SealedScans
  BY DEF Init, Serial, ErrorsRecorded, ErrorsBehind, SealedScans,
         NoScanAfterRuntimeError, IsHost, CleanNet
<1>2. Located => TypeInv
  BY DEF Located
<1>3. Located /\ SealedScans /\ [Next]_vars /\ UpSealedScans' => SealedScans'
  <2> SUFFICES ASSUME Located, SealedScans, [Next]_vars, proc' # "up"
               PROVE  SealedScans'
    BY DEF UpSealedScans
  <2>1. CASE Start
    BY <2>1 DEF Start, SealedScans, NoScanAfterRuntimeError
  <2>2. CASE ~Start
    <3>1. UNCHANGED <<opts, running, errors>>
      BY <2>2, Halts
    <3>2. budget'.runs = budget.runs
      <4>1. CASE StageBegin \/ StageQuit \/ StageEnd \/ UNCHANGED vars
        BY <4>1 DEF StageBegin, StageQuit, StageEnd, vars, ghost
      <4>2. ASSUME NEW t \in Threads, ThreadStep(t) PROVE budget' = budget
        BY <4>2, HostKept
      <4>3. CASE Crash \/ Flap
        BY <4>3 DEF Crash, Flap, Located, TypeInv, TypeOK
      <4> QED BY <2>2, <4>1, <4>2, <4>3 DEF Next, Progress, Finished
    <3> QED BY <3>1, <3>2 DEF SealedScans, Sealed, NoScanAfterRuntimeError
  <2> QED BY <2>1, <2>2
<1>4. SealedScans => (opts.scope = "inter" \/ ~opts.ignoreIfaceStateChange
                        => NoScanAfterRuntimeError)
  BY DEF SealedScans, Sealed
<1> QED BY <1>1, <1>2, <1>3, <1>4, InitLocated, NextLocated, NextSerial,
      SerialImpliesOne, NextRecorded, NextErrors, ErrorsHold, PTL DEF Spec

-----------------------------------------------------------------------------
(* What the threads have configured.                                       *)

\* What is configured before and after each command of a block that leads
\* from A to B.
HeldIn(o, t, A, cmds, B) ==
  CHOOSE h : /\ h[0] = A.held /\ Configures(o, t, A, cmds, h)
             /\ B.held = h[Len(cmds)]

\* The same of the block thread t is at; and what the guards of t have
\* configured up to now and not undone.
BlockHeld(t) == HeldIn(opts, t, Now(t), Cmds(t), After(t))

Held(t) ==
  IF pc[t] = 0 THEN {}
  ELSE IF Alive(t) /\ Step(t).do = "block" THEN BlockHeld(t)[issued[t]]
       ELSE Now(t).held

\* Only blocks configure anything.
LEMMA FollowsHeld ==
  ASSUME NEW o, NEW t, NEW own, NEW A, NEW x, NEW B, Follows(o, t, own, A, x, B),
         x.do # "block"
  PROVE  B.held = A.held
<1> USE DEF Control
<1>1. CASE (x.do = "stage" /\ B = A) \/ BlockFollows(o, t, A, x, B)
  BY <1>1 DEF BlockFollows
<1>2. CASE SpawnFollows(t, A, x, B)
  BY <1>2 DEF SpawnFollows
<1>3. CASE JoinFollows(A, x, B)
  BY <1>3 DEF JoinFollows
<1>4. CASE SessionFollows(o, own, A, x, B)
  BY <1>4 DEF SessionFollows
<1>5. CASE CheckFollows(A, x, B) \/ DisableFollows(o, A, x, B)
  BY <1>5 DEF CheckFollows, DisableFollows
<1>6. CASE SetFollows(A, x, B) \/ EndPhaseFollows(o, A, x, B)
  <2>1. \E p, s, k : B = Control(A.kids, A.joined, A.done, A.tested, A.src, A.rtr,
                                 p, s, k, A.held)
    BY <1>6 DEF SetFollows, EndPhaseFollows, Control
  <2> QED BY <2>1
<1>7. CASE ResetFollows(A, x, B) \/ CompleteFollows(o, own, A, x, B)
  BY <1>7 DEF ResetFollows, CompleteFollows
<1> QED BY <1>1, <1>2, <1>3, <1>4, <1>5, <1>6, <1>7 DEF Follows

\* At the end of its steps a thread has undone everything.
LEMMA PlanReturns ==
  ASSUME NEW o \in OptionSet, NEW rows \in SUBSET Rows,
         NEW n \in 1..Len(Plan(o, rows)), NEW t \in Threads
  PROVE  TraceOf(o, rows, n, t)[Len(Plan(o, rows)[n][t]) + 1].held = {}
<1> DEFINE s == Plan(o, rows)[n][t]
           stg == StageOf(o, rows, n)
           c == TraceOf(o, rows, n, t)
<1>1. s = threadActions(o, rows, stg, t)
  <2>1. n \in DOMAIN Plan(o, rows)
    BY PlanLength
  <2> QED BY <2>1 DEF Plan, StageOf
<1>2. o \in OptionType
  BY OptionsAssumption
<1> HIDE DEF s
<1>3. \E d : ThreadTrace(o, rows, stg, t, s, d)
  <2> HIDE DEF stg
  <2> QED BY <1>1, <1>2, ThreadsFollowLoops
<1>4. c = CHOOSE d : ThreadTrace(o, rows, stg, t, s, d)
  BY DEF TraceOf, s
<1> HIDE DEF c
<1>5. ThreadTrace(o, rows, stg, t, s, c)
  BY <1>3, <1>4
<1> QED BY <1>5 DEF ThreadTrace, s, c

\* A thread at a block is between sessions, and all it has started have
\* returned.
LEMMA BlockTraced ==
  ASSUME TypeInv, proc = "up", NEW t \in Threads, Alive(t), Step(t).do = "block"
  PROVE  /\ Now(t).phase = 0 /\ Now(t).kids = Now(t).joined
         /\ BlockHeld(t)[0] = Now(t).held
         /\ Configures(opts, t, Now(t), Cmds(t), BlockHeld(t))
         /\ After(t).held = BlockHeld(t)[Len(Cmds(t))]
         /\ After(t).kids = Now(t).kids
<1> DEFINE A == Now(t)
           B == After(t)
           cmds == Cmds(t)
<1>1. BlockFollows(opts, t, A, Step(t), B)
  BY StateTraced, FollowsKind
<1>2. cmds = Step(t).cmds
  BY DEF Cmds
<1> HIDE DEF A, B, cmds
<1>3. PICK h : /\ h[0] = A.held /\ Configures(opts, t, A, cmds, h)
               /\ B = Holding(A, h[Len(cmds)])
  BY <1>1, <1>2 DEF BlockFollows
<1>4. B.held = h[Len(cmds)] /\ B.kids = A.kids
  BY <1>3 DEF Holding, Control
<1>5. LET g == HeldIn(opts, t, A, cmds, B) IN
      /\ g[0] = A.held /\ Configures(opts, t, A, cmds, g)
      /\ B.held = g[Len(cmds)]
  BY <1>3, <1>4, Zenon DEF HeldIn
<1>6. A.phase = 0 /\ A.kids = A.joined
  BY <1>1 DEF BlockFollows
<1> QED BY <1>4, <1>5, <1>6 DEF BlockHeld, A, B, cmds

\* Only the thread at the runner has issued a part of a block.
LEMMA IssuedHolder ==
  ASSUME Located, proc = "up", NEW t \in Threads
  PROVE  /\ issued[t] \in Nat
         /\ issued[t] # 0 => AtBlock(t) /\ coutMutex = t /\ pc[t] > 0
<1>1. issued[t] \in Nat /\ pc[t] \in Nat
  BY DEF Located, TypeInv, TypeOK
<1>2. ASSUME issued[t] # 0 PROVE AtBlock(t) /\ coutMutex = t /\ pc[t] > 0
  <2>1. coutMutex = t
    BY <1>1, <1>2 DEF Located, RunnerExclusive
  <2>2. t # Nobody
    BY NobodyIsNoThread
  <2>3. AtBlock(t)
    BY <2>1, <2>2 DEF Located, Locked
  <2> QED BY <2>1, <2>3 DEF AtBlock, At, Alive
<1> QED BY <1>1, <1>2

\* What a thread has configured: nothing before it starts and after it
\* returned, what its control point says between its blocks.
LEMMA HeldAt ==
  ASSUME Located, proc = "up", NEW t \in Threads
  PROVE  /\ pc[t] = 0 => Held(t) = {}
         /\ Returned(t) => Held(t) = {}
         /\ pc[t] > 0 /\ issued[t] = 0 => Held(t) = Now(t).held
         /\ At(t, "set") => Held(t) = Now(t).held
         /\ Alive(t) /\ Step(t).do # "block" => Held(t) = Now(t).held
<1>0. pc[t] \in Nat /\ Len(Steps(t)) \in Nat /\ pc[t] <= Len(Steps(t)) + 1
  BY StateTraced DEF Located, Positions
<1>1. pc[t] = 0 => Held(t) = {}
  BY DEF Held
<1>2. ASSUME Returned(t) PROVE Held(t) = {}
  <2>1. pc[t] = Len(Steps(t)) + 1 /\ ~Alive(t) /\ pc[t] # 0
    BY <1>0, <1>2 DEF Returned, Alive
  <2>2. Held(t) = Now(t).held
    BY <2>1 DEF Held
  <2>3. /\ plan = Plan(opts, loaded) /\ loaded \in SUBSET Rows
        /\ opts \in OptionSet /\ stage \in 1..Len(plan)
    BY DEF Located, TypeInv, TypeOK, PlanLoaded
  <2>4. TraceOf(opts, loaded, stage, t)[Len(Plan(opts, loaded)[stage][t]) + 1].held = {}
    BY <2>3, PlanReturns
  <2>5. Now(t) = TraceOf(opts, loaded, stage, t)[Len(Plan(opts, loaded)[stage][t]) + 1]
    BY <2>1, <2>3 DEF Now, Trace, Steps
  <2> QED BY <2>2, <2>4, <2>5
<1>3. ASSUME pc[t] > 0, issued[t] = 0 PROVE Held(t) = Now(t).held
  <2>1. pc[t] # 0
    BY <1>0, <1>3
  <2>2. CASE Alive(t) /\ Step(t).do = "block"
    <3>1. BlockHeld(t)[0] = Now(t).held
      BY <2>2, BlockTraced DEF Located
    <3> QED BY <1>3, <2>1, <2>2, <3>1 DEF Held
  <2>3. CASE ~(Alive(t) /\ Step(t).do = "block")
    BY <2>1, <2>3 DEF Held
  <2> QED BY <2>2, <2>3
<1>4. ASSUME Alive(t), Step(t).do # "block" PROVE Held(t) = Now(t).held
  <2>1. pc[t] # 0
    BY <1>0, <1>4 DEF Alive
  <2> QED BY <1>4, <2>1 DEF Held
<1> QED BY <1>1, <1>2, <1>3, <1>4 DEF At

\* Between the parts of its blocks, the same in one formula.
HeldBetween ==
  \A t \in Threads : pc[t] > 0 /\ issued[t] = 0 => Held(t) = Now(t).held

\* It holds wherever the threads are.
LEMMA HeldBetweenBlocks == Located /\ proc = "up" => HeldBetween
BY HeldAt DEF HeldBetween

\* And after a step as well.
LEMMA HeldBetweenNext == (Located /\ proc = "up" => HeldBetween)'
BY HeldBetweenBlocks, PTL

\* How a step counts the commands of a block.
LEMMA IssuedMoves ==
  ASSUME NEW t \in Threads, ThreadStep(t), issued \in [Threads -> Nat]
  PROVE  /\ \A u \in Threads \ {t} : issued'[u] = issued[u]
         /\ \/ issued' = issued /\ (pc' # pc => ~AtBlock(t))
            \/ pc' = pc /\ (SystemExec(t) \/ StartPlay(t))
            \/ Unlock(t)
<1>1. CASE DisableSkippedSet(t) \/ EndPhase(t) \/ EndSession(t)
  <2>1. issued' = issued
    BY <1>1, Zenon DEF DisableSkippedSet, EndPhase, EndSession, SetExecute
  <2>2. ~AtBlock(t)
    BY <1>1, Zenon DEF DisableSkippedSet, EndPhase, EndSession, SetExecute, AtBlock, At
  <2> QED BY <2>1, <2>2
<1>2. CASE SystemExec(t) \/ StartPlay(t)
  BY <1>2 DEF SystemExec, StartPlay, Issue
<1>3. CASE Unlock(t)
  BY <1>3 DEF Unlock
<1>4. CASE Lock(t) \/ PlayOk(t) \/ PlayFails(t)
  BY <1>4 DEF Lock, PlayOk, PlayFails, flow
<1>5. CASE \/ SpawnThread(t) \/ JoinThread(t) \/ BeginSession(t) \/ CheckPhase(t)
           \/ CheckAborts(t) \/ Complete(t)
  BY <1>5 DEF SpawnThread, JoinThread, BeginSession, CheckPhase, CheckAborts, Complete,
    AtBlock, At
<1> QED BY <1>1, <1>2, <1>3, <1>4, <1>5 DEF ThreadStep

\* A step changes what is configured only by running a command.
LEMMA HeldMoves ==
  ASSUME Located, Located', NEW t \in Threads, Moves(t),
         ThreadStep(t) \/ (StageBegin /\ t = Main),
         NEW u \in Threads, ~(u = t /\ SystemExec(t))
  PROVE  Held(u)' = Held(u)
<1>1. /\ proc = "up" /\ proc' = "up" /\ Alive(t)
      /\ UNCHANGED <<proc, opts, loaded, plan, stage>>
  BY DEF Moves
<1>2. issued \in [Threads -> Nat] /\ pc \in [Threads -> Nat] /\ pc' \in [Threads -> Nat]
  BY DEF Located, TypeInv, TypeOK
<1>3. HeldBetween'
  BY <1>1, HeldBetweenNext
<1>4. /\ \A v \in Threads \ {t} : issued'[v] = issued[v]
      /\ \/ issued' = issued /\ (pc' # pc => ~AtBlock(t))
         \/ pc' = pc /\ (SystemExec(t) \/ StartPlay(t))
         \/ Unlock(t)
  <2>1. CASE ThreadStep(t)
    BY <1>2, <2>1, IssuedMoves
  <2>2. CASE StageBegin /\ t = Main
    BY <2>2 DEF StageBegin, AtBlock, At
  <2> QED BY <2>1, <2>2
<1>5. ASSUME pc'[u] = pc[u], issued'[u] = issued[u] PROVE Held(u)' = Held(u)
  <2>1. /\ Now(u)' = Now(u) /\ After(u)' = After(u) /\ Cmds(u)' = Cmds(u)
        /\ Step(u)' = Step(u) /\ (Alive(u)' <=> Alive(u))
    BY <1>1, <1>5 DEF Now, After, Trace, Cmds, Step, Steps, Alive
  <2>2. BlockHeld(u)' = BlockHeld(u)
    BY <1>1, <2>1 DEF BlockHeld
  <2> QED BY <1>5, <2>1, <2>2 DEF Held
<1>6. CASE u # t
  <2>1. CASE pc'[u] = pc[u]
    BY <1>4, <1>5, <1>6, <2>1
  <2>2. CASE pc[u] = 0 /\ pc'[u] = 1 /\ Now(u)' = Beginning
    <3>1. issued'[u] = 0
      BY <1>1, <1>4, <1>6, <2>2, IssuedHolder
    <3>2. Held(u)' = {}
      BY <2>2, <3>1, <1>3 DEF HeldBetween, Beginning, Control
    <3>3. Held(u) = {}
      BY <2>2 DEF Held
    <3> QED BY <3>2, <3>3
  <2> QED BY <1>6, <2>1, <2>2, Frame DEF Located
<1>7. CASE u = t /\ pc' = pc
  <2>1. CASE issued' = issued
    BY <1>5, <1>7, <2>1
  <2>2. CASE StartPlay(t)
    <3>1. At(t, "set")
      BY <2>2 DEF StartPlay
    <3>2. At(t, "set")' /\ Now(t)' = Now(t)
      BY <1>1, <1>7, <3>1 DEF At, Alive, Step, Steps, Now, Trace
    <3>3. Held(t) = Now(t).held /\ Held(t)' = Now(t)'.held
      BY <3>1, <3>2, <1>2 DEF Held, At, Alive
    <3> QED BY <1>7, <3>2, <3>3
  <2>3. ~Unlock(t)
    BY <1>2, <1>7 DEF Unlock, Advance
  <2> QED BY <1>4, <1>7, <2>1, <2>2, <2>3
<1>8. CASE u = t /\ pc' # pc
  <2>1. pc'[t] = pc[t] + 1 /\ Now(t)' = After(t) /\ pc[t] \in Nat
    BY <1>2, <1>8, Frame DEF Located
  <2>2. issued'[t] = 0
    <3>1. CASE Unlock(t)
      BY <1>2, <3>1 DEF Unlock
    <3>2. CASE ~Unlock(t)
      BY <1>1, <1>4, <1>8, <3>2, IssuedHolder
    <3> QED BY <3>1, <3>2
  <2>3. Held(t)' = After(t).held
    BY <2>1, <2>2, <1>3 DEF HeldBetween
  <2>4. Follows(opts, t, Sources(t), Now(t), Step(t), After(t))
    BY <1>1, StateTraced DEF Located
  <2>5. CASE Step(t).do = "block"
    <3>1. Unlock(t)
      BY <1>1, <1>4, <1>8, <2>5 DEF AtBlock, At
    <3>2. issued[t] = Len(Cmds(t))
      BY <3>1 DEF Unlock
    <3>3. After(t).held = BlockHeld(t)[Len(Cmds(t))]
      BY <1>1, <2>5, BlockTraced DEF Located
    <3>4. pc[t] # 0
      BY <1>1, <2>1 DEF Alive
    <3> QED BY <1>1, <1>8, <2>3, <2>5, <3>2, <3>3, <3>4 DEF Held
  <2>6. CASE Step(t).do # "block"
    <3>1. After(t).held = Now(t).held
      BY <2>4, <2>6, FollowsHeld
    <3>2. Held(t) = Now(t).held
      BY <1>1, <2>6, HeldAt
    <3> QED BY <1>8, <2>3, <3>1, <3>2
  <2> QED BY <2>5, <2>6
<1> QED BY <1>6, <1>7, <1>8

\* What a command may be, and what it configures.
LEMMA HeldExec ==
  ASSUME Located, NEW t \in Threads, SystemExec(t)
  PROVE  LET c == Cmds(t)[issued'[t]] IN
         /\ proc = "up" /\ Alive(t) /\ Moves(t) /\ pc' = pc /\ pc[t] > 0
         /\ Step(t).do = "block" /\ coutMutex = t
         /\ Now(t).phase = 0 /\ Now(t).kids = Now(t).joined
         /\ May(opts, t, Now(t), Held(t), c)
         /\ Held(t)' = Configured(Held(t), c)
<1> DEFINE c == Cmds(t)[issued'[t]]
           h == BlockHeld(t)
<1>1. /\ At(t, "block") /\ issued[t] < Len(Cmds(t))
      /\ issued' = [issued EXCEPT ![t] = @ + 1] /\ coutMutex = t
      /\ UNCHANGED <<proc, opts, loaded, plan, stage, pc>>
  BY DEF SystemExec, Issue
<1>2. proc = "up" /\ Alive(t) /\ Step(t).do = "block"
  BY <1>1 DEF At
<1>3. Moves(t) /\ pc' = pc
  BY <1>1, <1>2 DEF Moves
<1>4. /\ Now(t).phase = 0 /\ Now(t).kids = Now(t).joined
      /\ Configures(opts, t, Now(t), Cmds(t), h)
  BY <1>2, BlockTraced DEF Located
<1>5. pc[t] \in Nat /\ pc[t] # 0 /\ pc[t] > 0
  BY <1>2 DEF Located, TypeInv, TypeOK, Alive
<1>6. Held(t) = h[issued[t]]
  BY <1>2, <1>5 DEF Held
<1>7. Held(t)' = h[issued'[t]]
  <2>1. /\ Now(t)' = Now(t) /\ After(t)' = After(t) /\ Cmds(t)' = Cmds(t)
        /\ Step(t)' = Step(t) /\ (Alive(t)' <=> Alive(t))
    BY <1>1 DEF Now, After, Trace, Cmds, Step, Steps, Alive
  <2>2. BlockHeld(t)' = BlockHeld(t)
    BY <1>1, <2>1 DEF BlockHeld
  <2> QED BY <1>1, <1>2, <1>5, <2>1, <2>2 DEF Held
<1>8. issued'[t] \in 1..Len(Cmds(t)) /\ issued[t] = issued'[t] - 1
  <2>1. Len(Cmds(t)) \in Nat
    BY <1>4, Zenon DEF Configures
  <2>2. issued[t] \in Nat /\ issued'[t] = issued[t] + 1
    BY <1>1 DEF Located, TypeInv, TypeOK
  <2> QED BY <1>1, <2>1, <2>2
<1> HIDE DEF h
<1>9. May(opts, t, Now(t), h[issued'[t] - 1], c)
      /\ h[issued'[t]] = Configured(h[issued'[t] - 1], c)
  BY <1>4, <1>8, Zenon DEF Configures
<1>10. May(opts, t, Now(t), Held(t), c) /\ Held(t)' = Configured(Held(t), c)
  BY <1>6, <1>7, <1>8, <1>9
<1> QED BY <1>1, <1>2, <1>3, <1>4, <1>5, <1>10, Zenon

-----------------------------------------------------------------------------
(* What a command does to the host and to what is configured.              *)

\* The commands thread t may issue when H is configured, with what they make
\* of H and of the host n.
OnLink(t, A, H) ==
  HasLink(t) /\ A.kids = {} /\ (OnDevice(t) => Device \in H)

Routed(o, t) == o.scope = "inter" /\ Len(t) = 2

MayLink(t, A, H, n, G, m) ==
  LET l == MyLink(t) IN
  \/ HasLink(t) /\ OnDevice(t) /\ H = {} /\ G = {Device} /\ m = LinkAdd(n, l)
  \/ HasLink(t) /\ OnDevice(t) /\ G = {} /\ m = LinkDel(n, l)
  \/ H = {} /\ G = {} /\ m = LinkDel(n, NoLink)
  \/ OnLink(t, A, H) /\ G = H \cup {Up} /\ m = LinkUp(n, l)
  \/ /\ HasLink(t) /\ G = {h \in H : h[1] \notin {"up", "routes", "default"}}
     /\ m = TakeDown(n, Stack(n, l))

MayAdd(t, A, H, a, n, G, m) ==
  LET l == MyLink(t) IN
  /\ OnLink(t, A, H)
  /\ \/ G = H \cup {<<"macs", a>>} /\ m = AddTo(n, "macs", l, a)
     \/ G = H \cup {<<"knobs", a>>} /\ m = AddTo(n, "knobs", l, a)
     \/ G = H \cup {<<"addrs", a>>} /\ m = AddTo(n, "addrs", l, a)

MayDrop(t, H, a, n, G, m) ==
  LET l == MyLink(t) IN
  /\ HasLink(t)
  /\ \/ G = {h \in H : h[1] # "macs"} /\ m = [n EXCEPT !.macs = {x \in @ : x[1] # l}]
     \/ G = H \ {<<"knobs", a>>} /\ m = [n EXCEPT !.knobs = @ \ {<<l, a>>}]
     \/ G = H \ {<<"addrs", a>>} /\ m = [n EXCEPT !.addrs = @ \ {<<l, a>>}]
     \/ G = H \ {<<"routes", a>>} /\ m = [n EXCEPT !.routes = @ \ {<<l, a>>}]

MayRoute(o, t, H, a, n, G, m) ==
  /\ Routed(o, t)
  /\ \/ /\ HasLink(t) /\ Up \in H
        /\ G = H \cup {<<"routes", a>>} /\ m = RouteAdd(n, MyLink(t), a)
     \/ /\ <<"routes", a>> \in H /\ HasNo(H, {"default"})
        /\ G = H \cup {<<"default", a>>} /\ m = DefaultAdd(n, a)
     \/ G = H \ {<<"default", a>>} /\ m = [n EXCEPT !.default = {d \in @ : d[2] # a}]

\* A thread with a device of its own has a link.
LEMMA DeviceLink == \A t : OnDevice(t) => HasLink(t)
BY DEF OnDevice, HasLink, Main, RESERVED

\* These are all the cases there are.
LEMMA ExecCases ==
  ASSUME NEW o, NEW t, NEW A, NEW H, NEW c, May(o, t, A, H, c), NEW n
  PROVE  LET G == Configured(H, c)
             m == Run(n, c)
         IN  \/ MayLink(t, A, H, n, G, m) \/ MayAdd(t, A, H, c.arg, n, G, m)
             \/ MayDrop(t, H, c.arg, n, G, m) \/ MayRoute(o, t, H, c.arg, n, G, m)
             \/ G = H /\ m = n
<1> DEFINE G == Configured(H, c)
           m == Run(n, c)
           l == MyLink(t)
           a == c.arg
<1>1. CASE c.op = "link add"
  <2>1. G = H \cup {Device} /\ m = LinkAdd(n, c.link)
    BY <1>1, Zenon DEF Configured, Run
  <2>2. HasLink(t) /\ c.link = l /\ OnDevice(t) /\ H = {}
    BY <1>1, Zenon DEF May
  <2> QED BY <2>1, <2>2, Zenon DEF MayLink
<1>2. CASE c.op = "link up"
  <2>1. G = H \cup {Up} /\ m = LinkUp(n, c.link)
    BY <1>2, Zenon DEF Configured, Run
  <2>2. OnLink(t, A, H) /\ c.link = l
    BY <1>2, Zenon DEF May, OnLink
  <2> QED BY <2>1, <2>2, Zenon DEF MayLink
<1>3. CASE c.op = "link down"
  <2>1. G = {h \in H : h[1] \notin {"up", "routes", "default"}} /\ m = TakeDown(n, Stack(n, c.link))
    BY <1>3, Zenon DEF Configured, Run
  <2>2. HasLink(t) /\ c.link = l
    BY <1>3, Zenon DEF May
  <2> QED BY <2>1, <2>2, Zenon DEF MayLink
<1>4. CASE c.op = "mac set"
  <2>1. G = H \cup {<<"macs", a>>} /\ m = AddTo(n, "macs", c.link, a)
    BY <1>4, Zenon DEF Configured, Run
  <2>2. OnLink(t, A, H) /\ c.link = l
    BY <1>4, Zenon DEF May, OnLink
  <2> QED BY <2>1, <2>2, Zenon DEF MayAdd
<1>5. CASE c.op = "sysctl on"
  <2>1. G = H \cup {<<"knobs", a>>} /\ m = AddTo(n, "knobs", c.link, a)
    BY <1>5, Zenon DEF Configured, Run
  <2>2. OnLink(t, A, H) /\ c.link = l
    BY <1>5, Zenon DEF May, OnLink
  <2> QED BY <2>1, <2>2, Zenon DEF MayAdd
<1>6. CASE c.op = "addr add"
  <2>1. G = H \cup {<<"addrs", a>>} /\ m = AddTo(n, "addrs", c.link, a)
    BY <1>6, Zenon DEF Configured, Run
  <2>2. OnLink(t, A, H) /\ c.link = l
    BY <1>6, Zenon DEF May, OnLink
  <2> QED BY <2>1, <2>2, Zenon DEF MayAdd
<1>7. CASE c.op = "mac reset"
  <2>1. G = {h \in H : h[1] # "macs"} /\ m = [n EXCEPT !.macs = {x \in @ : x[1] # c.link}]
    BY <1>7, Zenon DEF Configured, Run
  <2>2. HasLink(t) /\ c.link = l
    BY <1>7, Zenon DEF May
  <2> QED BY <2>1, <2>2, Zenon DEF MayDrop
<1>8. CASE c.op = "sysctl off"
  <2>1. G = H \ {<<"knobs", a>>} /\ m = [n EXCEPT !.knobs = @ \ {<<c.link, a>>}]
    BY <1>8, Zenon DEF Configured, Run
  <2>2. HasLink(t) /\ c.link = l
    BY <1>8, Zenon DEF May
  <2> QED BY <2>1, <2>2, Zenon DEF MayDrop
<1>9. CASE c.op = "addr del"
  <2>1. G = H \ {<<"addrs", a>>} /\ m = [n EXCEPT !.addrs = @ \ {<<c.link, a>>}]
    BY <1>9, Zenon DEF Configured, Run
  <2>2. HasLink(t) /\ c.link = l
    BY <1>9, Zenon DEF May
  <2> QED BY <2>1, <2>2, Zenon DEF MayDrop
<1>10. CASE c.op = "route del"
  <2>1. G = H \ {<<"routes", a>>} /\ m = [n EXCEPT !.routes = @ \ {<<c.link, a>>}]
    BY <1>10, Zenon DEF Configured, Run
  <2>2. HasLink(t) /\ c.link = l
    BY <1>10, Zenon DEF May
  <2> QED BY <2>1, <2>2, Zenon DEF MayDrop
<1>11. CASE c.op = "route add"
  <2>1. G = H \cup {<<"routes", a>>} /\ m = RouteAdd(n, c.link, a)
    BY <1>11, Zenon DEF Configured, Run
  <2>2. HasLink(t) /\ c.link = l /\ Up \in H /\ Routed(o, t)
    BY <1>11, Zenon DEF May, Routed
  <2> QED BY <2>1, <2>2, Zenon DEF MayRoute
<1>12. CASE c.op = "default add"
  <2>1. G = H \cup {<<"default", a>>} /\ m = DefaultAdd(n, a)
    BY <1>12, Zenon DEF Configured, Run
  <2>2. <<"routes", a>> \in H /\ HasNo(H, {"default"}) /\ Routed(o, t)
    BY <1>12, Zenon DEF May, Routed
  <2> QED BY <2>1, <2>2, Zenon DEF MayRoute
<1>13. CASE c.op = "default del"
  <2>1. G = H \ {<<"default", a>>} /\ m = [n EXCEPT !.default = {d \in @ : d[2] # a}]
    BY <1>13, Zenon DEF Configured, Run
  <2>2. Routed(o, t)
    BY <1>13, Zenon DEF May, Routed
  <2> QED BY <2>1, <2>2, Zenon DEF MayRoute
<1>14. CASE c.op = "link del"
  <2>1. G = {} /\ m = LinkDel(n, c.link)
    BY <1>14, Zenon DEF Configured, Run
  <2>2. \/ HasLink(t) /\ c.link = l /\ OnDevice(t)
        \/ c.link = NoLink /\ H = {}
    <3>1. (OnDevice(t) /\ c.link = l) \/ (c.link = NoLink /\ H = {})
      BY <1>14, Zenon DEF May
    <3> QED BY <3>1, DeviceLink, Zenon
  <2> QED BY <2>1, <2>2, Zenon DEF MayLink
<1> DEFINE known == {"link add", "link up", "link down", "mac set", "sysctl on",
                     "addr add", "mac reset", "sysctl off", "addr del", "route del",
                     "route add", "default add", "default del", "link del"}
<1>15. CASE c.op \notin known
  BY <1>15, Zenon DEF Configured, Run
<1> QED BY <1>1, <1>2, <1>3, <1>4, <1>5, <1>6, <1>7, <1>8, <1>9, <1>10, <1>11,
           <1>12, <1>13, <1>14, <1>15, Zenon

-----------------------------------------------------------------------------
(* The effect of a command on a host.                                      *)

\* A link that is there before the playbook, and stays.
IsBase(l) == \E i \in Ifaces : l = <<i>>

\* <<f, a>> is configured on link l of host n.
Fact(n, f, l, a) ==
  \/ f = "link" /\ a = 0 /\ l \in n.links /\ ~IsBase(l)
  \/ f = "up" /\ a = 0 /\ l \in n.up
  \/ f = "addrs" /\ <<l, a>> \in n.addrs
  \/ f = "macs" /\ <<l, a>> \in n.macs
  \/ f = "knobs" /\ <<l, a>> \in n.knobs
  \/ f = "routes" /\ <<l, a>> \in n.routes
  \/ f = "default" /\ <<l, a>> \in n.default

\* What is configured is configured on a link that exists.
OnLinks(S, links) == \A x \in S : \E l \in links : \E a : x = <<l, a>>

Grounded(n) ==
  /\ IsHost(n)
  /\ NoLink \notin n.links /\ \A l : IsBase(l) => l \in n.links
  /\ n.up \subseteq n.links
  /\ OnLinks(n.addrs, n.links) /\ OnLinks(n.macs, n.links) /\ OnLinks(n.knobs, n.links)
  /\ OnLinks(n.routes, n.links) /\ OnLinks(n.default, n.links)

\* The effect of one command of thread t, which turns host n into m and what
\* t has configured from H into G.  What is new on the host t has configured;
\* what t has undone is gone; t takes nothing away but from its own link, from
\* the devices on it, or, inter-network, a default route; and if the host has
\* what t needs, what t has configured is there.
Adds(o, t, n, m, H, G) ==
  \A f, k, a : Fact(m, f, k, a) =>
    \/ Fact(n, f, k, a)
    \/ HasLink(t) /\ k = MyLink(t) /\ <<f, a>> \in G
    \/ /\ f = "default" /\ <<f, a>> \in G /\ Routed(o, t)
       /\ Fact(n, "routes", k, a)

Undoes(t, m, H, G) ==
  \A f, a : <<f, a>> \in H \ G => ~Fact(m, f, MyLink(t), a)

Removes(o, t, n, m, G) ==
  \A f, k, a : Fact(n, f, k, a) /\ ~Fact(m, f, k, a) =>
    \/ HasLink(t) /\ k = MyLink(t) /\ <<f, a>> \notin G
    \/ HasLink(t) /\ k # MyLink(t) /\ Base(k) = MyLink(t)
    \/ /\ f = "default" /\ Routed(o, t)
       /\ k = MyLink(t) => <<f, a>> \notin G

\* What a thread needs on the host for its commands to succeed.
HostReady(o, t, n, H) ==
  /\ \A f, a : <<f, a>> \in H => Fact(n, f, MyLink(t), a)
  /\ OnDevice(t) => Base(t) \in n.up
  /\ Routed(o, t) => \A k, a : <<k, a>> \in n.default => <<"default", a>> \in H

Succeeds(o, t, n, m, H, G) ==
  HostReady(o, t, n, H) =>
    \A f, a : <<f, a>> \in G \ H => Fact(m, f, MyLink(t), a)

Effect(o, t, n, m, H, G) ==
  /\ Grounded(m) /\ Adds(o, t, n, m, H, G) /\ Undoes(t, m, H, G)
  /\ Removes(o, t, n, m, G) /\ Succeeds(o, t, n, m, H, G)

\* The link of a thread is a VLAN device of its own or a physical interface.
LEMMA ThreadLink ==
  ASSUME NEW t \in Threads, HasLink(t)
  PROVE  /\ MyLink(t) # NoLink
         /\ OnDevice(t) => /\ MyLink(t) = t /\ ~IsBase(t) /\ IsBase(Base(t))
                           /\ Base(t) # t
         /\ ~OnDevice(t) => IsBase(MyLink(t)) /\ Base(MyLink(t)) = MyLink(t)
<1>1. CASE \E i \in Ifaces : t = <<i>>
  BY <1>1 DEF MyLink, OnDevice, IsBase, Base, NoLink
<1>2. CASE \E r \in Rows : t = <<r.iface, r.vlan>>
  <2>1. PICK r \in Rows : t = <<r.iface, r.vlan>>
    BY <1>2
  <2>2. r.iface \in Ifaces /\ r.vlan \in 0..RESERVED \cup {NONE}
    BY RowsAssumption DEF Ifaces, RowType
  <2> DEFINE i == r.iface
             v == r.vlan
  <2>3. /\ Len(t) = 2 /\ t[1] = i /\ t[2] = v /\ v # RESERVED
    BY <2>1 DEF HasLink
  <2> HIDE DEF i, v
  <2>4. v < RESERVED \/ (v = NONE /\ ~(v < RESERVED) /\ ~(RESERVED > v))
    <3>1. v \in 0..RESERVED \cup {NONE} /\ v # RESERVED
      BY <2>2, <2>3 DEF v
    <3>2. v < RESERVED \/ v = NONE
      BY <3>1, VlanNumbers
    <3>3. ~(NONE < RESERVED) /\ ~(RESERVED > NONE)
      BY DEF NONE, RESERVED
    <3> QED BY <3>2, <3>3
  <2>5. IsBase(<<i>>) /\ Base(t) = <<i>> /\ Base(<<i>>) = <<i>>
    BY <2>2, <2>3 DEF IsBase, Base, i
  <2>6. ~IsBase(t) /\ t # NoLink
    <3>1. \A j : t # <<j>>
      BY <2>3
    <3> QED BY <2>3, <3>1 DEF IsBase, NoLink
  <2>7. CASE v < RESERVED
    <3>1. RESERVED > t[2] /\ t[2] < RESERVED
      BY <2>2, <2>3, <2>7 DEF RESERVED, NONE, v
    <3>2. MyLink(t) = t /\ OnDevice(t)
      BY <2>3, <3>1 DEF MyLink, LinkName, VlanIfaceName, OnDevice
    <3>3. Base(t) # t
      BY <2>5, <2>6
    <3> QED BY <2>5, <2>6, <3>2, <3>3
  <2>8. CASE v = NONE /\ ~(v < RESERVED) /\ ~(RESERVED > v)
    <3>1. MyLink(t) = <<i>> /\ ~OnDevice(t)
      BY <2>3, <2>5, <2>8 DEF MyLink, LinkName, OnDevice
    <3>2. <<i>> # NoLink
      BY DEF NoLink
    <3> QED BY <2>5, <3>1, <3>2
  <2> QED BY <2>4, <2>7, <2>8
<1> QED BY <1>1, <1>2 DEF Threads, HasLink

\* A command that changes nothing has such an effect;
LEMMA EffectNone ==
  ASSUME NEW o, NEW t, NEW n, NEW H, Grounded(n)
  PROVE  Effect(o, t, n, n, H, H)
BY DEF Effect, Adds, Undoes, Removes, Succeeds

\* so has adding the device of a VLAN,
LEMMA EffectLinkAdd ==
  ASSUME NEW o, NEW t \in Threads, NEW n, Grounded(n), HasLink(t), OnDevice(t)
  PROVE  Effect(o, t, n, LinkAdd(n, MyLink(t)), {}, {Device})
<1> DEFINE m == LinkAdd(n, t)
<1>1. MyLink(t) = t /\ t # NoLink /\ ~IsBase(t) /\ IsBase(Base(t))
  BY ThreadLink
<1>2. Base(t) \in n.links
  BY <1>1 DEF Grounded
<1>3. /\ IsHost(m) /\ m.links = n.links \cup {t} /\ m.up = n.up /\ m.addrs = n.addrs
      /\ m.macs = n.macs /\ m.knobs = n.knobs
      /\ m.routes = n.routes /\ m.default = n.default
  BY <1>2 DEF LinkAdd, Grounded, IsHost
<1> HIDE DEF m
<1>4. Grounded(m)
  BY <1>1, <1>3 DEF Grounded, OnLinks
<1>5. Adds(o, t, n, m, {}, {Device})
  BY <1>1, <1>3 DEF Adds, Fact, Device
<1>6. Undoes(t, m, {}, {Device})
  BY DEF Undoes
<1>7. Removes(o, t, n, m, {Device})
  BY <1>3 DEF Removes, Fact
<1>8. Succeeds(o, t, n, m, {}, {Device})
  BY <1>1, <1>3 DEF Succeeds, Fact, Device
<1> QED BY <1>1, <1>4, <1>5, <1>6, <1>7, <1>8 DEF Effect, m

\* deleting it, with all that is on it,
LEMMA EffectLinkDel ==
  ASSUME NEW o, NEW t \in Threads, NEW n, Grounded(n), HasLink(t), OnDevice(t), NEW H
  PROVE  Effect(o, t, n, LinkDel(n, MyLink(t)), H, {})
<1> DEFINE m == LinkDel(n, t)
<1>1. MyLink(t) = t /\ ~IsBase(t)
  BY ThreadLink
<1>2. \A f, a : t \notin n.links => ~Fact(n, f, t, a)
  BY DEF Grounded, OnLinks, Fact
<1>3. CASE t \notin n.links
  <2>1. m = n
    BY <1>3 DEF LinkDel
  <2> HIDE DEF m
  <2>2. Undoes(t, m, H, {})
    BY <1>1, <1>2, <1>3, <2>1 DEF Undoes
  <2>3. /\ Adds(o, t, n, m, H, {}) /\ Removes(o, t, n, m, {})
        /\ Succeeds(o, t, n, m, H, {})
    BY <2>1 DEF Adds, Removes, Succeeds
  <2> QED BY <1>1, <2>1, <2>2, <2>3 DEF Effect, m
<1>4. CASE t \in n.links
  <2>1. /\ IsHost(m)
        /\ m.links = n.links \ {t} /\ m.up = n.up \ {t}
        /\ m.addrs = {a \in n.addrs : a[1] # t}
        /\ m.macs = {a \in n.macs : a[1] # t}
        /\ m.knobs = {a \in n.knobs : a[1] # t}
        /\ m.routes = {r \in n.routes : r[1] # t}
        /\ m.default = {d \in n.default : d[1] # t}
    BY <1>4, HostLinkDel DEF Grounded
  <2> HIDE DEF m
  <2>2. Grounded(m)
    <3>1. ASSUME NEW S, NEW T, OnLinks(S, n.links), T = {x \in S : x[1] # t}
          PROVE  OnLinks(T, m.links)
      BY <2>1, <3>1 DEF OnLinks
    <3>2. NoLink \notin m.links /\ \A l : IsBase(l) => l \in m.links
      BY <1>1, <2>1 DEF Grounded
    <3>3. m.up \subseteq m.links
      BY <2>1 DEF Grounded
    <3>4. /\ OnLinks(m.addrs, m.links) /\ OnLinks(m.macs, m.links)
          /\ OnLinks(m.knobs, m.links) /\ OnLinks(m.routes, m.links)
          /\ OnLinks(m.default, m.links)
      BY <2>1, <3>1, Zenon DEF Grounded
    <3> QED BY <2>1, <3>2, <3>3, <3>4 DEF Grounded
  <2>3. ASSUME NEW f, NEW k, NEW a
        PROVE  Fact(m, f, k, a) <=> Fact(n, f, k, a) /\ k # t
    <3>1. <<k, a>>[1] = k
      OBVIOUS
    <3> QED BY <2>1, <3>1 DEF Fact
  <2>4. Adds(o, t, n, m, H, {})
    BY <2>3, Zenon DEF Adds
  <2>5. Undoes(t, m, H, {})
    BY <1>1, <2>3, Zenon DEF Undoes
  <2>6. Removes(o, t, n, m, {})
    BY <1>1, <2>3, Zenon DEF Removes
  <2>7. Succeeds(o, t, n, m, H, {})
    BY DEF Succeeds
  <2> QED BY <1>1, <2>2, <2>4, <2>5, <2>6, <2>7 DEF Effect, m
<1> QED BY <1>3, <1>4

\* deleting the device the reserved VLAN never had,
LEMMA EffectNoDel ==
  ASSUME NEW o, NEW t, NEW n, Grounded(n)
  PROVE  Effect(o, t, n, LinkDel(n, NoLink), {}, {})
<1>1. LinkDel(n, NoLink) = n
  BY DEF LinkDel, Grounded
<1> QED BY <1>1, EffectNone

\* bringing a link up, which is on the host or is a device the thread added,
LEMMA EffectLinkUp ==
  ASSUME NEW o, NEW t \in Threads, NEW n, Grounded(n), HasLink(t), NEW H,
         OnDevice(t) => Device \in H
  PROVE  Effect(o, t, n, LinkUp(n, MyLink(t)), H, H \cup {Up})
<1> DEFINE l == MyLink(t)
           m == LinkUp(n, l)
           G == H \cup {Up}
<1>1. /\ OnDevice(t) => l = t
      /\ ~OnDevice(t) => IsBase(l) /\ Base(l) = l
  BY ThreadLink
<1>2. /\ IsHost(m) /\ m.links = n.links /\ m.addrs = n.addrs
      /\ m.macs = n.macs /\ m.knobs = n.knobs
      /\ m.routes = n.routes /\ m.default = n.default
      /\ m.up = n.up \/ (l \in n.links /\ m.up = n.up \cup {l})
      /\ l \in n.links /\ (l = Base(l) \/ Base(l) \in n.up) => l \in m.up
  BY DEF LinkUp, Grounded, IsHost
<1> HIDE DEF l, m
<1>3. Grounded(m)
  BY <1>2 DEF Grounded
<1>4. Adds(o, t, n, m, H, G)
  BY <1>2 DEF Adds, Fact, Up, l
<1>5. Undoes(t, m, H, G)
  BY DEF Undoes
<1>6. Removes(o, t, n, m, G)
  BY <1>2 DEF Removes, Fact
<1>7. ASSUME HostReady(o, t, n, H) PROVE l \in m.up
  <2>1. OnDevice(t) => Fact(n, "link", l, 0) /\ Base(t) \in n.up
    BY <1>7 DEF HostReady, Device, l
  <2>2. OnDevice(t) => l \in n.links
    BY <2>1 DEF Fact
  <2>3. ~OnDevice(t) => l \in n.links
    BY <1>1 DEF Grounded
  <2> QED BY <1>1, <1>2, <2>1, <2>2, <2>3
<1>8. Succeeds(o, t, n, m, H, G)
  BY <1>7 DEF Succeeds, Fact, Up, l
<1> QED BY <1>3, <1>4, <1>5, <1>6, <1>8 DEF Effect, m, l

\* and taking it down, with its routes and the devices on it.
LEMMA EffectLinkDown ==
  ASSUME NEW o, NEW t \in Threads, NEW n, Grounded(n), HasLink(t), NEW H
  PROVE  Effect(o, t, n, TakeDown(n, Stack(n, MyLink(t))), H,
                {h \in H : h[1] \notin {"up", "routes", "default"}})
<1> DEFINE l == MyLink(t)
           S == Stack(n, l)
           m == TakeDown(n, S)
           Soft == {"up", "routes", "default"}
           G == {h \in H : h[1] \notin Soft}
<1>1. /\ IsHost(m)
      /\ m.links = n.links /\ m.addrs = n.addrs
      /\ m.macs = n.macs /\ m.knobs = n.knobs
      /\ m.up = n.up \ S
      /\ m.routes = {r \in n.routes : r[1] \notin S}
      /\ m.default = {d \in n.default : d[1] \notin S}
  BY HostTakeDown DEF Grounded
<1>2. /\ l \in n.links => l \in S
      /\ \A k \in S : k = l \/ Base(k) = l
  BY DEF Stack
<1>3. \A f, a : Fact(n, f, l, a) => l \in n.links
  BY DEF Grounded, OnLinks, Fact
<1> HIDE DEF l, m, S
<1>4. Grounded(m)
  BY <1>1 DEF Grounded, OnLinks
<1>5. \A f, a : <<f, a>> \in G <=> <<f, a>> \in H /\ f \notin Soft
  OBVIOUS
<1>6. ASSUME NEW f, NEW k, NEW a
      PROVE  Fact(m, f, k, a) <=> Fact(n, f, k, a) /\ (k \in S => f \notin Soft)
  <2>1. <<k, a>>[1] = k
    OBVIOUS
  <2> QED BY <1>1, <2>1 DEF Fact
<1> HIDE DEF G, Soft
<1>7. Adds(o, t, n, m, H, G)
  BY <1>6, Zenon DEF Adds
<1>8. Undoes(t, m, H, G)
  <2> SUFFICES ASSUME NEW f, NEW a, <<f, a>> \in H, <<f, a>> \notin G,
                      Fact(m, f, l, a)
               PROVE  FALSE
    BY DEF Undoes, l
  <2> QED BY <1>2, <1>3, <1>5, <1>6, Zenon
<1>9. Removes(o, t, n, m, G)
  <2> SUFFICES ASSUME NEW f, NEW k, NEW a, Fact(n, f, k, a), ~Fact(m, f, k, a)
               PROVE  (k = l /\ <<f, a>> \notin G) \/ (k # l /\ Base(k) = l)
    BY Zenon DEF Removes, l
  <2> QED BY <1>2, <1>5, <1>6, Zenon
<1>10. Succeeds(o, t, n, m, H, G)
  BY DEF Succeeds, G
<1> QED BY <1>4, <1>7, <1>8, <1>9, <1>10 DEF Effect, m, l, S, G, Soft

\* Something is added to, or taken from, one of the sets of a host.
LEMMA EffectOne ==
  ASSUME NEW o, NEW t \in Threads, NEW n, NEW m, Grounded(m), HasLink(t),
         NEW H, NEW G, NEW f0, NEW a,
         HostReady(o, t, n, H) => Fact(m, f0, MyLink(t), a),
         G = H \cup {<<f0, a>>},
         \A f, k, b : Fact(n, f, k, b) => Fact(m, f, k, b),
         \A f, k, b : Fact(m, f, k, b) => Fact(n, f, k, b)
                                            \/ (f = f0 /\ k = MyLink(t) /\ b = a)
  PROVE  Effect(o, t, n, m, H, G)
<1>1. \A f, b : <<f, b>> \in G => <<f, b>> \in H \/ (f = f0 /\ b = a)
  OBVIOUS
<1>2. <<f0, a>> \in G
  OBVIOUS
<1>3. Adds(o, t, n, m, H, G)
  <2> SUFFICES ASSUME NEW f, NEW k, NEW b, Fact(m, f, k, b), ~Fact(n, f, k, b)
               PROVE  k = MyLink(t) /\ <<f, b>> \in G
    BY DEF Adds
  <2> QED BY <1>2
<1>4. Undoes(t, m, H, G)
  BY DEF Undoes
<1>5. Removes(o, t, n, m, G)
  BY Zenon DEF Removes
<1>6. Succeeds(o, t, n, m, H, G)
  <2> SUFFICES ASSUME NEW f, NEW b, <<f, b>> \in G, <<f, b>> \notin H,
                      HostReady(o, t, n, H)
               PROVE  Fact(m, f, MyLink(t), b)
    BY DEF Succeeds
  <2>1. f = f0 /\ b = a
    BY <1>1
  <2> QED BY <2>1
<1> QED BY <1>3, <1>4, <1>5, <1>6 DEF Effect

\* The same when something is taken.
LEMMA EffectCut ==
  ASSUME NEW o, NEW t \in Threads, NEW n, NEW m, Grounded(m), HasLink(t),
         NEW H, NEW G, G \subseteq H,
         \A f, k, b : Fact(m, f, k, b) => Fact(n, f, k, b),
         \A f, k, b : Fact(n, f, k, b) /\ ~Fact(m, f, k, b) =>
                        k = MyLink(t) /\ <<f, b>> \notin G,
         \A f, b : <<f, b>> \in H \ G => ~Fact(m, f, MyLink(t), b)
  PROVE  Effect(o, t, n, m, H, G)
<1>1. Adds(o, t, n, m, H, G)
  BY Zenon DEF Adds
<1>2. Undoes(t, m, H, G)
  BY Zenon DEF Undoes
<1>3. Removes(o, t, n, m, G)
  BY Zenon DEF Removes
<1>4. Succeeds(o, t, n, m, H, G)
  BY DEF Succeeds
<1> QED BY <1>1, <1>2, <1>3, <1>4 DEF Effect

\* A thread whose link is there can add to it.
LEMMA LinkReady ==
  ASSUME NEW o, NEW t \in Threads, NEW n, Grounded(n), HasLink(t), NEW H,
         OnDevice(t) => Device \in H, HostReady(o, t, n, H)
  PROVE  MyLink(t) \in n.links
<1>1. CASE OnDevice(t)
  <2>1. Fact(n, "link", MyLink(t), 0)
    BY <1>1 DEF HostReady, Device
  <2> QED BY <2>1 DEF Fact
<1>2. CASE ~OnDevice(t)
  <2>1. IsBase(MyLink(t))
    BY <1>2, ThreadLink
  <2> QED BY <2>1 DEF Grounded
<1> QED BY <1>1, <1>2

\* MAC addresses, settings and addresses are added to a link,
LEMMA EffectAdd ==
  ASSUME NEW o, NEW t \in Threads, NEW n, Grounded(n), HasLink(t), NEW H,
         OnDevice(t) => Device \in H, NEW a
  PROVE  /\ Effect(o, t, n, AddTo(n, "macs", MyLink(t), a), H, H \cup {<<"macs", a>>})
         /\ Effect(o, t, n, AddTo(n, "knobs", MyLink(t), a), H, H \cup {<<"knobs", a>>})
         /\ Effect(o, t, n, AddTo(n, "addrs", MyLink(t), a), H, H \cup {<<"addrs", a>>})
<1> DEFINE l == MyLink(t)
           x == <<l, a>>
           S(old) == IF l \in n.links THEN old \cup {x} ELSE old
<1>1. HostReady(o, t, n, H) => l \in n.links
  BY LinkReady
<1>2. ASSUME NEW old, OnLinks(old, n.links) PROVE OnLinks(S(old), n.links)
  BY <1>2 DEF OnLinks
<1>3. \A k, b : <<k, b>> = x => k = l /\ b = a
  OBVIOUS
<1>4. Effect(o, t, n, AddTo(n, "macs", l, a), H, H \cup {<<"macs", a>>})
  <2> DEFINE m == AddTo(n, "macs", l, a)
  <2>1. /\ IsHost(m) /\ m.links = n.links /\ m.up = n.up /\ m.addrs = n.addrs
        /\ m.knobs = n.knobs /\ m.routes = n.routes /\ m.default = n.default
        /\ m.macs = S(n.macs)
    BY DEF AddTo, Grounded, IsHost
  <2> HIDE DEF m, l
  <2>2. Grounded(m)
    BY <1>2, <2>1 DEF Grounded
  <2>3. \A f, k, b : Fact(n, f, k, b) => Fact(m, f, k, b)
    BY <2>1 DEF Fact
  <2>4. \A f, k, b : Fact(m, f, k, b) => Fact(n, f, k, b) \/ (f = "macs" /\ k = l /\ b = a)
    BY <1>3, <2>1 DEF Fact
  <2>5. l \in n.links => Fact(m, "macs", l, a)
    BY <2>1 DEF Fact
  <2> QED BY <1>1, <2>2, <2>3, <2>4, <2>5, EffectOne DEF l, m
<1>5. Effect(o, t, n, AddTo(n, "knobs", l, a), H, H \cup {<<"knobs", a>>})
  <2> DEFINE m == AddTo(n, "knobs", l, a)
  <2>1. /\ IsHost(m) /\ m.links = n.links /\ m.up = n.up /\ m.addrs = n.addrs
        /\ m.macs = n.macs /\ m.routes = n.routes /\ m.default = n.default
        /\ m.knobs = S(n.knobs)
    BY DEF AddTo, Grounded, IsHost
  <2> HIDE DEF m, l
  <2>2. Grounded(m)
    BY <1>2, <2>1 DEF Grounded
  <2>3. \A f, k, b : Fact(n, f, k, b) => Fact(m, f, k, b)
    BY <2>1 DEF Fact
  <2>4. \A f, k, b : Fact(m, f, k, b) => Fact(n, f, k, b) \/ (f = "knobs" /\ k = l /\ b = a)
    BY <1>3, <2>1 DEF Fact
  <2>5. l \in n.links => Fact(m, "knobs", l, a)
    BY <2>1 DEF Fact
  <2> QED BY <1>1, <2>2, <2>3, <2>4, <2>5, EffectOne DEF l, m
<1>6. Effect(o, t, n, AddTo(n, "addrs", l, a), H, H \cup {<<"addrs", a>>})
  <2> DEFINE m == AddTo(n, "addrs", l, a)
  <2>1. /\ IsHost(m) /\ m.links = n.links /\ m.up = n.up /\ m.macs = n.macs
        /\ m.knobs = n.knobs /\ m.routes = n.routes /\ m.default = n.default
        /\ m.addrs = S(n.addrs)
    BY DEF AddTo, Grounded, IsHost
  <2> HIDE DEF m, l
  <2>2. Grounded(m)
    BY <1>2, <2>1 DEF Grounded
  <2>3. \A f, k, b : Fact(n, f, k, b) => Fact(m, f, k, b)
    BY <2>1 DEF Fact
  <2>4. \A f, k, b : Fact(m, f, k, b) => Fact(n, f, k, b) \/ (f = "addrs" /\ k = l /\ b = a)
    BY <1>3, <2>1 DEF Fact
  <2>5. l \in n.links => Fact(m, "addrs", l, a)
    BY <2>1 DEF Fact
  <2> QED BY <1>1, <2>2, <2>3, <2>4, <2>5, EffectOne DEF l, m
<1> QED BY <1>4, <1>5, <1>6

\* and taken from it, and so are routes.
LEMMA EffectDrop ==
  ASSUME NEW o, NEW t \in Threads, NEW n, Grounded(n), HasLink(t), NEW H, NEW a
  PROVE  LET l == MyLink(t) IN
         /\ Effect(o, t, n, [n EXCEPT !.macs = {x \in @ : x[1] # l}], H,
                   {h \in H : h[1] # "macs"})
         /\ Effect(o, t, n, [n EXCEPT !.knobs = @ \ {<<l, a>>}], H, H \ {<<"knobs", a>>})
         /\ Effect(o, t, n, [n EXCEPT !.addrs = @ \ {<<l, a>>}], H, H \ {<<"addrs", a>>})
         /\ Effect(o, t, n, [n EXCEPT !.routes = @ \ {<<l, a>>}], H,
                   H \ {<<"routes", a>>})
<1> DEFINE l == MyLink(t)
<1>1. Effect(o, t, n, [n EXCEPT !.macs = {x \in @ : x[1] # l}], H,
            {h \in H : h[1] # "macs"})
  <2> DEFINE m == [n EXCEPT !.macs = {x \in @ : x[1] # l}]
             G == {h \in H : h[1] # "macs"}
  <2>1. /\ IsHost(m) /\ m.links = n.links /\ m.up = n.up
        /\ m.addrs = n.addrs /\ m.knobs = n.knobs /\ m.routes = n.routes
        /\ m.default = n.default /\ m.macs = {x \in n.macs : x[1] # l}
    BY DEF Grounded, IsHost
  <2> HIDE DEF m, l
  <2>2. Grounded(m)
    BY <2>1 DEF Grounded, OnLinks
  <2>3. ASSUME NEW k, NEW b
        PROVE  <<k, b>> \in m.macs <=> <<k, b>> \in n.macs /\ ~(k = l)
    BY <2>1
  <2>4. G \subseteq H
    OBVIOUS
  <2>5. \A f, k, b : Fact(m, f, k, b) => Fact(n, f, k, b)
    BY <2>1, <2>3 DEF Fact
  <2>6. \A f, k, b : Fact(n, f, k, b) /\ ~Fact(m, f, k, b) => k = l /\ <<f, b>> \notin G
    BY <2>1, <2>3 DEF Fact
  <2>7. \A f, b : <<f, b>> \in H \ G => ~Fact(m, f, l, b)
    BY <2>1, <2>3 DEF Fact
  <2> HIDE DEF G
  <2> QED BY <2>2, <2>4, <2>5, <2>6, <2>7, EffectCut DEF l, m, G
<1>2. Effect(o, t, n, [n EXCEPT !.knobs = @ \ {<<l, a>>}], H,
            H \ {<<"knobs", a>>})
  <2> DEFINE m == [n EXCEPT !.knobs = @ \ {<<l, a>>}]
             G == H \ {<<"knobs", a>>}
  <2>1. /\ IsHost(m) /\ m.links = n.links /\ m.up = n.up
        /\ m.addrs = n.addrs /\ m.macs = n.macs /\ m.routes = n.routes
        /\ m.default = n.default /\ m.knobs = n.knobs \ {<<l, a>>}
    BY DEF Grounded, IsHost
  <2> HIDE DEF m, l
  <2>2. Grounded(m)
    BY <2>1 DEF Grounded, OnLinks
  <2>3. ASSUME NEW k, NEW b
        PROVE  <<k, b>> \in m.knobs <=> <<k, b>> \in n.knobs /\ ~(k = l /\ b = a)
    BY <2>1
  <2>4. G \subseteq H
    OBVIOUS
  <2>5. \A f, k, b : Fact(m, f, k, b) => Fact(n, f, k, b)
    BY <2>1, <2>3 DEF Fact
  <2>6. \A f, k, b : Fact(n, f, k, b) /\ ~Fact(m, f, k, b) => k = l /\ <<f, b>> \notin G
    BY <2>1, <2>3 DEF Fact
  <2>7. \A f, b : <<f, b>> \in H \ G => ~Fact(m, f, l, b)
    BY <2>1, <2>3 DEF Fact
  <2> HIDE DEF G
  <2> QED BY <2>2, <2>4, <2>5, <2>6, <2>7, EffectCut DEF l, m, G
<1>3. Effect(o, t, n, [n EXCEPT !.addrs = @ \ {<<l, a>>}], H,
            H \ {<<"addrs", a>>})
  <2> DEFINE m == [n EXCEPT !.addrs = @ \ {<<l, a>>}]
             G == H \ {<<"addrs", a>>}
  <2>1. /\ IsHost(m) /\ m.links = n.links /\ m.up = n.up
        /\ m.macs = n.macs /\ m.knobs = n.knobs /\ m.routes = n.routes
        /\ m.default = n.default /\ m.addrs = n.addrs \ {<<l, a>>}
    BY DEF Grounded, IsHost
  <2> HIDE DEF m, l
  <2>2. Grounded(m)
    BY <2>1 DEF Grounded, OnLinks
  <2>3. ASSUME NEW k, NEW b
        PROVE  <<k, b>> \in m.addrs <=> <<k, b>> \in n.addrs /\ ~(k = l /\ b = a)
    BY <2>1
  <2>4. G \subseteq H
    OBVIOUS
  <2>5. \A f, k, b : Fact(m, f, k, b) => Fact(n, f, k, b)
    BY <2>1, <2>3 DEF Fact
  <2>6. \A f, k, b : Fact(n, f, k, b) /\ ~Fact(m, f, k, b) => k = l /\ <<f, b>> \notin G
    BY <2>1, <2>3 DEF Fact
  <2>7. \A f, b : <<f, b>> \in H \ G => ~Fact(m, f, l, b)
    BY <2>1, <2>3 DEF Fact
  <2> HIDE DEF G
  <2> QED BY <2>2, <2>4, <2>5, <2>6, <2>7, EffectCut DEF l, m, G
<1>4. Effect(o, t, n, [n EXCEPT !.routes = @ \ {<<l, a>>}], H,
            H \ {<<"routes", a>>})
  <2> DEFINE m == [n EXCEPT !.routes = @ \ {<<l, a>>}]
             G == H \ {<<"routes", a>>}
  <2>1. /\ IsHost(m) /\ m.links = n.links /\ m.up = n.up
        /\ m.addrs = n.addrs /\ m.macs = n.macs /\ m.knobs = n.knobs
        /\ m.default = n.default /\ m.routes = n.routes \ {<<l, a>>}
    BY DEF Grounded, IsHost
  <2> HIDE DEF m, l
  <2>2. Grounded(m)
    BY <2>1 DEF Grounded, OnLinks
  <2>3. ASSUME NEW k, NEW b
        PROVE  <<k, b>> \in m.routes <=> <<k, b>> \in n.routes /\ ~(k = l /\ b = a)
    BY <2>1
  <2>4. G \subseteq H
    OBVIOUS
  <2>5. \A f, k, b : Fact(m, f, k, b) => Fact(n, f, k, b)
    BY <2>1, <2>3 DEF Fact
  <2>6. \A f, k, b : Fact(n, f, k, b) /\ ~Fact(m, f, k, b) => k = l /\ <<f, b>> \notin G
    BY <2>1, <2>3 DEF Fact
  <2>7. \A f, b : <<f, b>> \in H \ G => ~Fact(m, f, l, b)
    BY <2>1, <2>3 DEF Fact
  <2> HIDE DEF G
  <2> QED BY <2>2, <2>4, <2>5, <2>6, <2>7, EffectCut DEF l, m, G
<1> QED BY <1>1, <1>2, <1>3, <1>4

\* A route is added to a link that is up.
LEMMA EffectRouteAdd ==
  ASSUME NEW o, NEW t \in Threads, NEW n, Grounded(n), HasLink(t), NEW H, Up \in H, NEW a
  PROVE  Effect(o, t, n, RouteAdd(n, MyLink(t), a), H, H \cup {<<"routes", a>>})
<1> DEFINE l == MyLink(t)
           m == RouteAdd(n, l, a)
           x == <<l, a>>
<1>1. HostReady(o, t, n, H) => l \in n.up
  <2>1. HostReady(o, t, n, H) => Fact(n, "up", l, 0)
    BY DEF HostReady, Up
  <2> QED BY <2>1 DEF Fact
<1>2. /\ IsHost(m) /\ m.links = n.links /\ m.up = n.up /\ m.addrs = n.addrs
      /\ m.macs = n.macs /\ m.knobs = n.knobs /\ m.default = n.default
      /\ m.routes = IF l \in n.up THEN n.routes \cup {x} ELSE n.routes
  BY DEF RouteAdd, Grounded, IsHost
<1>3. \A k, b : <<k, b>> = x => k = l /\ b = a
  OBVIOUS
<1> HIDE DEF l, m
<1>4. Grounded(m)
  <2>1. OnLinks(m.routes, m.links)
    BY <1>2 DEF Grounded, OnLinks
  <2> QED BY <1>2, <2>1 DEF Grounded
<1>5. \A f, k, b : Fact(n, f, k, b) => Fact(m, f, k, b)
  BY <1>2 DEF Fact
<1>6. \A f, k, b : Fact(m, f, k, b) => Fact(n, f, k, b) \/ (f = "routes" /\ k = l /\ b = a)
  BY <1>2, <1>3 DEF Fact
<1>7. l \in n.up => Fact(m, "routes", l, a)
  BY <1>2 DEF Fact
<1> QED BY <1>1, <1>4, <1>5, <1>6, <1>7, EffectOne DEF l, m

\* The default route is added along a route to its router,
LEMMA EffectDefaultAdd ==
  ASSUME NEW o, NEW t \in Threads, NEW n, Grounded(n), Routed(o, t), NEW H, NEW a,
         <<"routes", a>> \in H, HasNo(H, {"default"})
  PROVE  Effect(o, t, n, DefaultAdd(n, a), H, H \cup {<<"default", a>>})
<1> DEFINE l == MyLink(t)
           m == DefaultAdd(n, a)
           G == H \cup {<<"default", a>>}
<1>1. /\ IsHost(m) /\ m.links = n.links /\ m.up = n.up /\ m.addrs = n.addrs
      /\ m.macs = n.macs /\ m.knobs = n.knobs /\ m.routes = n.routes
      /\ m.default = IF n.default = {} THEN {r \in n.routes : r[2] = a} ELSE n.default
  BY DEF DefaultAdd, Grounded, IsHost
<1> HIDE DEF m, l
<1>2. Grounded(m)
  <2>1. OnLinks(m.default, m.links)
    BY <1>1 DEF Grounded, OnLinks
  <2> QED BY <1>1, <2>1 DEF Grounded
<1>3. \A f, k, b : Fact(n, f, k, b) => Fact(m, f, k, b)
  BY <1>1 DEF Fact
<1>4. Adds(o, t, n, m, H, G)
  <2> SUFFICES ASSUME NEW f, NEW k, NEW b, Fact(m, f, k, b), ~Fact(n, f, k, b)
               PROVE  f = "default" /\ <<f, b>> \in G /\ Fact(n, "routes", k, b)
    BY DEF Adds
  <2>1. f = "default" /\ <<k, b>> \in m.default /\ <<k, b>> \notin n.default
    BY <1>1 DEF Fact
  <2>2. <<k, b>> \in n.routes /\ b = a
    BY <1>1, <2>1
  <2> QED BY <2>1, <2>2 DEF Fact
<1>5. Undoes(t, m, H, G)
  BY DEF Undoes
<1>6. Removes(o, t, n, m, G)
  BY <1>3, Zenon DEF Removes
<1>7. Succeeds(o, t, n, m, H, G)
  <2> SUFFICES ASSUME HostReady(o, t, n, H), NEW f, NEW b, <<f, b>> \in G, <<f, b>> \notin H
               PROVE  Fact(m, f, l, b)
    BY DEF Succeeds, l
  <2>1. f = "default" /\ b = a
    OBVIOUS
  <2>2. n.default = {}
    <3> SUFFICES ASSUME NEW x \in n.default PROVE FALSE
      OBVIOUS
    <3>1. PICK k, c : x = <<k, c>>
      BY DEF Grounded, OnLinks
    <3>2. <<"default", c>> \in H
      BY <3>1 DEF HostReady
    <3>3. <<"default", c>>[1] = "default"
      OBVIOUS
    <3> QED BY <3>2, <3>3 DEF HasNo
  <2>3. Fact(n, "routes", l, a)
    BY DEF HostReady, l
  <2>4. <<l, a>> \in n.routes
    BY <2>3 DEF Fact
  <2>5. <<l, a>>[2] = a
    OBVIOUS
  <2> QED BY <1>1, <2>1, <2>2, <2>4, <2>5 DEF Fact
<1> QED BY <1>2, <1>4, <1>5, <1>6, <1>7 DEF Effect, m

\* and taken away by the number of its router.
LEMMA EffectDefaultDel ==
  ASSUME NEW o, NEW t \in Threads, NEW n, Grounded(n), Routed(o, t), NEW H, NEW a
  PROVE  Effect(o, t, n, [n EXCEPT !.default = {d \in @ : d[2] # a}], H,
                H \ {<<"default", a>>})
<1> DEFINE l == MyLink(t)
           m == [n EXCEPT !.default = {d \in @ : d[2] # a}]
           G == H \ {<<"default", a>>}
<1>1. /\ IsHost(m) /\ m.links = n.links /\ m.up = n.up /\ m.addrs = n.addrs
      /\ m.macs = n.macs /\ m.knobs = n.knobs /\ m.routes = n.routes
      /\ m.default = {d \in n.default : d[2] # a}
  BY DEF Grounded, IsHost
<1> HIDE DEF m, l
<1>2. Grounded(m)
  <2>1. OnLinks(m.default, m.links)
    BY <1>1 DEF Grounded, OnLinks
  <2> QED BY <1>1, <2>1 DEF Grounded
<1>3. ASSUME NEW k, NEW b
      PROVE  <<k, b>> \in m.default <=> <<k, b>> \in n.default /\ b # a
  BY <1>1
<1>4. \A f, k, b : Fact(m, f, k, b) => Fact(n, f, k, b)
  BY <1>1, <1>3 DEF Fact
<1>5. \A f, k, b : Fact(n, f, k, b) /\ ~Fact(m, f, k, b) => f = "default" /\ b = a
  BY <1>1, <1>3 DEF Fact
<1>6. Adds(o, t, n, m, H, G)
  BY <1>4, Zenon DEF Adds
<1>7. Undoes(t, m, H, G)
  <2> SUFFICES ASSUME NEW f, NEW b, <<f, b>> \in H, <<f, b>> \notin G
               PROVE  ~Fact(m, f, l, b)
    BY DEF Undoes, l
  <2>1. f = "default" /\ b = a
    OBVIOUS
  <2> QED BY <1>3, <2>1 DEF Fact
<1>8. Removes(o, t, n, m, G)
  <2> SUFFICES ASSUME NEW f, NEW k, NEW b, Fact(n, f, k, b), ~Fact(m, f, k, b)
               PROVE  f = "default" /\ <<f, b>> \notin G
    BY DEF Removes
  <2> QED BY <1>5
<1>9. Succeeds(o, t, n, m, H, G)
  BY DEF Succeeds
<1> QED BY <1>2, <1>6, <1>7, <1>8, <1>9 DEF Effect, m

\* Whatever a thread may issue has such an effect.
LEMMA ExecEffect ==
  ASSUME NEW o, NEW t \in Threads, NEW A, NEW H, NEW c, May(o, t, A, H, c),
         NEW n, Grounded(n)
  PROVE  Effect(o, t, n, Run(n, c), H, Configured(H, c))
<1> DEFINE G == Configured(H, c)
           m == Run(n, c)
           a == c.arg
<1>1. \/ MayLink(t, A, H, n, G, m) \/ MayAdd(t, A, H, a, n, G, m)
      \/ MayDrop(t, H, a, n, G, m) \/ MayRoute(o, t, H, a, n, G, m)
      \/ G = H /\ m = n
  BY ExecCases
<1> SUFFICES Effect(o, t, n, m, H, G)
  OBVIOUS
<1> HIDE DEF G, m, a
<1>2. CASE MayLink(t, A, H, n, G, m)
  <2>1. CASE HasLink(t) /\ OnDevice(t) /\ H = {} /\ G = {Device} /\ m = LinkAdd(n, MyLink(t))
    BY <2>1, EffectLinkAdd
  <2>2. CASE HasLink(t) /\ OnDevice(t) /\ G = {} /\ m = LinkDel(n, MyLink(t))
    BY <2>2, EffectLinkDel
  <2>3. CASE H = {} /\ G = {} /\ m = LinkDel(n, NoLink)
    BY <2>3, EffectNoDel
  <2>4. CASE OnLink(t, A, H) /\ G = H \cup {Up} /\ m = LinkUp(n, MyLink(t))
    BY <2>4, EffectLinkUp DEF OnLink
  <2>5. CASE /\ HasLink(t) /\ G = {h \in H : h[1] \notin {"up", "routes", "default"}}
             /\ m = TakeDown(n, Stack(n, MyLink(t)))
    BY <2>5, EffectLinkDown
  <2> QED BY <1>2, <2>1, <2>2, <2>3, <2>4, <2>5, Zenon DEF MayLink
<1>3. CASE MayAdd(t, A, H, a, n, G, m)
  <2>1. HasLink(t) /\ (OnDevice(t) => Device \in H)
    BY <1>3, Zenon DEF MayAdd, OnLink
  <2>2. /\ Effect(o, t, n, AddTo(n, "macs", MyLink(t), a), H, H \cup {<<"macs", a>>})
        /\ Effect(o, t, n, AddTo(n, "knobs", MyLink(t), a), H, H \cup {<<"knobs", a>>})
        /\ Effect(o, t, n, AddTo(n, "addrs", MyLink(t), a), H, H \cup {<<"addrs", a>>})
    BY <2>1, EffectAdd
  <2> QED BY <1>3, <2>2, Zenon DEF MayAdd
<1>4. CASE MayDrop(t, H, a, n, G, m)
  <2>1. HasLink(t)
    BY <1>4, Zenon DEF MayDrop
  <2>2. CASE /\ G = {h \in H : h[1] # "macs"}
             /\ m = [n EXCEPT !.macs = {x \in @ : x[1] # MyLink(t)}]
    BY <2>1, <2>2, EffectDrop
  <2>3. CASE G = H \ {<<"knobs", a>>} /\ m = [n EXCEPT !.knobs = @ \ {<<MyLink(t), a>>}]
    BY <2>1, <2>3, EffectDrop
  <2>4. CASE G = H \ {<<"addrs", a>>} /\ m = [n EXCEPT !.addrs = @ \ {<<MyLink(t), a>>}]
    BY <2>1, <2>4, EffectDrop
  <2>5. CASE G = H \ {<<"routes", a>>} /\ m = [n EXCEPT !.routes = @ \ {<<MyLink(t), a>>}]
    BY <2>1, <2>5, EffectDrop
  <2> QED BY <1>4, <2>2, <2>3, <2>4, <2>5, Zenon DEF MayDrop
<1>5. CASE MayRoute(o, t, H, a, n, G, m)
  <2>1. Routed(o, t)
    BY <1>5, Zenon DEF MayRoute
  <2>2. CASE /\ HasLink(t) /\ Up \in H
             /\ G = H \cup {<<"routes", a>>} /\ m = RouteAdd(n, MyLink(t), a)
    BY <2>2, EffectRouteAdd
  <2>3. CASE /\ <<"routes", a>> \in H /\ HasNo(H, {"default"})
             /\ G = H \cup {<<"default", a>>} /\ m = DefaultAdd(n, a)
    BY <2>1, <2>3, EffectDefaultAdd
  <2>4. CASE G = H \ {<<"default", a>>} /\ m = [n EXCEPT !.default = {d \in @ : d[2] # a}]
    BY <2>1, <2>4, EffectDefaultDel
  <2> QED BY <1>5, <2>2, <2>3, <2>4, Zenon DEF MayRoute
<1>6. CASE G = H /\ m = n
  BY <1>6, EffectNone
<1> QED BY <1>1, <1>2, <1>3, <1>4, <1>5, <1>6

-----------------------------------------------------------------------------
(* What parents and children have configured.                              *)

\* Only a thread that has a link configures anything, only the thread of a
\* VLAN a device, and only inter-network and per VLAN are there routes.
OwnHeld(o, t, H) ==
  /\ H # {} => HasLink(t)
  /\ Device \in H => OnDevice(t)
  /\ \A a : <<"routes", a>> \in H \/ <<"default", a>> \in H => Routed(o, t)

\* While the direct tests of an interface may run, the thread of the
\* interface has nothing configured; while the thread of a VLAN is at work,
\* the interface below it is up.
ChildHeld(p, c) ==
  /\ c[2] = NONE /\ pc[c] > 0 => Held(p) = {}
  /\ OnDevice(c) /\ Alive(c) => Up \in Held(p)

HeldFits ==
  proc = "up" =>
    /\ \A t \in Threads : OwnHeld(opts, t, Held(t))
    /\ \A p, c \in Threads : IsChild(p, c) /\ Len(c) = 2 => ChildHeld(p, c)

\* Its commands keep to what a thread may configure, and a parent that has
\* started a thread and has nothing configured adds nothing.
LEMMA OwnConfigured ==
  ASSUME NEW o, NEW t, NEW A, NEW H, NEW c, May(o, t, A, H, c), OwnHeld(o, t, H)
  PROVE  LET G == Configured(H, c) IN
         /\ OwnHeld(o, t, G)
         /\ Len(t) = 1 /\ A.kids # {} /\ H = {} => G = {}
<1> DEFINE G == Configured(H, c)
           a == c.arg
           m == Run({}, c)
<1>1. \/ MayLink(t, A, H, {}, G, m) \/ MayAdd(t, A, H, a, {}, G, m)
      \/ MayDrop(t, H, a, {}, G, m) \/ MayRoute(o, t, H, a, {}, G, m)
      \/ G = H /\ m = {}
  BY ExecCases
<1> SUFFICES OwnHeld(o, t, G) /\ (Len(t) = 1 /\ A.kids # {} /\ H = {} => G = {})
  OBVIOUS
<1> HIDE DEF G, m, a
<1>2. CASE \/ G = {} \/ (G \subseteq H)
  BY <1>2 DEF OwnHeld
<1>3. MayDrop(t, H, a, {}, G, m) => G \subseteq H
  BY DEF MayDrop
<1>4. CASE MayAdd(t, A, H, a, {}, G, m)
  <2>1. HasLink(t) /\ A.kids = {}
    BY <1>4 DEF MayAdd, OnLink
  <2>2. /\ Device \in G => Device \in H
        /\ \A b : /\ <<"routes", b>> \in G => <<"routes", b>> \in H
                  /\ <<"default", b>> \in G => <<"default", b>> \in H
    BY <1>4 DEF MayAdd, Device
  <2> QED BY <2>1, <2>2 DEF OwnHeld
<1>5. CASE MayLink(t, A, H, {}, G, m)
  <2>1. CASE HasLink(t) /\ OnDevice(t) /\ H = {} /\ G = {Device}
    <3>1. Len(t) = 2 /\ \A b : <<"routes", b>> \notin G /\ <<"default", b>> \notin G
      BY <2>1 DEF OnDevice, Device
    <3> QED BY <2>1, <3>1 DEF OwnHeld
  <2>2. CASE HasLink(t) /\ A.kids = {} /\ G = H \cup {Up}
    <3>1. /\ Device \in G => Device \in H
          /\ \A b : /\ <<"routes", b>> \in G => <<"routes", b>> \in H
                    /\ <<"default", b>> \in G => <<"default", b>> \in H
      BY <2>2 DEF Device, Up
    <3> QED BY <2>2, <3>1 DEF OwnHeld
  <2>3. \/ HasLink(t) /\ OnDevice(t) /\ H = {} /\ G = {Device}
        \/ HasLink(t) /\ A.kids = {} /\ G = H \cup {Up}
        \/ G \subseteq H \/ G = {}
    BY <1>5 DEF MayLink, OnLink
  <2> QED BY <1>2, <2>1, <2>2, <2>3
<1>6. CASE MayRoute(o, t, H, a, {}, G, m)
  <2>1. Routed(o, t) /\ Len(t) = 2
    BY <1>6 DEF MayRoute, Routed
  <2>2. G # {} => HasLink(t)
    <3>1. H # {} => HasLink(t)
      BY DEF OwnHeld
    <3>2. HasLink(t) \/ H # {} \/ G \subseteq H
      BY <1>6 DEF MayRoute
    <3> QED BY <3>1, <3>2
  <2>3. Device \in G => Device \in H
    BY <1>6 DEF MayRoute, Device
  <2> QED BY <2>1, <2>2, <2>3 DEF OwnHeld
<1> QED BY <1>1, <1>2, <1>3, <1>4, <1>5, <1>6

\* What is configured depends on where the threads are and on nothing else.
LEMMA FlowHeld ==
  ASSUME UNCHANGED <<opts, loaded, plan, stage, pc, issued>>, NEW u
  PROVE  Held(u)' = Held(u) /\ (Alive(u)' <=> Alive(u))
<1>1. /\ Now(u)' = Now(u) /\ After(u)' = After(u) /\ Cmds(u)' = Cmds(u)
      /\ Step(u)' = Step(u) /\ (Alive(u)' <=> Alive(u))
  BY DEF Now, After, Trace, Cmds, Step, Steps, Alive
<1>2. BlockHeld(u)' = BlockHeld(u)
  BY <1>1 DEF BlockHeld
<1> QED BY <1>1, <1>2 DEF Held

\* At the start of a stage nothing is configured.
LEMMA FreshHeld ==
  ASSUME Located', proc' = "up", pc' = OnlyMain, issued'[Main] = 0
  PROVE  \A u \in Threads : Held(u)' = {} /\ (pc'[u] > 0 => u = Main)
<1>1. /\ \A u \in Threads : pc'[u] > 0 <=> u = Main
      /\ Main \in Threads => Now(Main)' = Beginning
  BY FreshStage DEF Located
<1>2. pc' \in [Threads -> Nat] /\ Main \in Threads
  BY DEF Located, TypeInv, TypeOK, Threads
<1>3. HeldBetween'
  BY HeldBetweenNext
<1>4. Held(Main)' = {}
  BY <1>1, <1>2, <1>3 DEF HeldBetween, Beginning, Control
<1>5. ASSUME NEW u \in Threads, u # Main PROVE Held(u)' = {}
  <2>1. pc'[u] = 0
    BY <1>1, <1>2, <1>5
  <2> QED BY <2>1 DEF Held
<1> QED BY <1>1, <1>4, <1>5

\* At the end of one, neither.
LEMMA StageHeld ==
  ASSUME Located, proc = "up", Returned(Main), NEW u \in Threads
  PROVE  Held(u) = {} /\ issued[u] = 0
<1>1. pc[u] \in Nat /\ Len(Steps(u)) \in Nat
  BY StateTraced DEF Located
<1>2. pc[u] = 0 \/ Returned(u)
  BY <1>1, AllReturned DEF Located
<1>3. ~Alive(u)
  BY <1>1, <1>2 DEF Alive, Returned
<1> QED BY <1>2, <1>3, HeldAt, IssuedHolder DEF AtBlock, At

\* At the start of a stage parents and children fit.
LEMMA FreshFits ==
  ASSUME Located', proc' = "up", pc' = OnlyMain, issued'[Main] = 0
  PROVE  HeldFits'
<1>1. \A u \in Threads : Held(u)' = {} /\ (pc'[u] > 0 => u = Main)
  BY FreshHeld
<1>2. \A t \in Threads : OwnHeld(opts', t, Held(t)')
  BY <1>1 DEF OwnHeld
<1>3. ASSUME NEW c \in Threads, Len(c) = 2 PROVE c # Main /\ pc'[c] = 0
  <2>1. c # Main
    BY <1>3 DEF Main
  <2> QED BY <1>1, <2>1 DEF Located, TypeInv, TypeOK
<1>4. ASSUME NEW c \in Threads, pc'[c] = 0 PROVE ~Alive(c)'
  BY <1>4 DEF Alive
<1> QED BY <1>1, <1>2, <1>3, <1>4 DEF HeldFits, ChildHeld

\* A thread that is started finds what it needs.
LEMMA SpawnHeld ==
  ASSUME Located, proc = "up", NEW t \in Threads, Alive(t), Step(t).do = "spawn"
  PROVE  IsChild(t, Step(t).thread) /\ ReadyToStart(Held(t), Step(t).thread)
<1>1. SpawnFollows(t, Now(t), Step(t), After(t))
  BY StateTraced, FollowsKind DEF Located
<1>2. Held(t) = Now(t).held
  BY HeldAt
<1> QED BY <1>1, <1>2 DEF SpawnFollows

\* What a parent has configured and what its children need, after a step of
\* a thread.
LEMMA MoveChildren ==
  ASSUME Located, Located', HeldFits, NEW t \in Threads, Moves(t),
         ThreadStep(t) \/ (StageBegin /\ t = Main),
         NEW p \in Threads, NEW c \in Threads, IsChild(p, c), Len(c) = 2
  PROVE  ChildHeld(p, c)'
<1>1. /\ proc = "up" /\ Alive(t) /\ UNCHANGED <<proc, opts, loaded, plan, stage>>
      /\ pc \in [Threads -> Nat] /\ Len(Steps(c)) \in Nat
  BY StateTraced DEF Moves, Located, TypeInv, TypeOK
<1>2. ChildHeld(p, c) /\ OwnHeld(opts, p, Held(p))
  BY <1>1 DEF HeldFits
<1>3. OnDevice(c) => c[2] # NONE
  BY DEF OnDevice, NONE, RESERVED
<1>4. CASE SystemExec(t) /\ p = t
  <2> DEFINE x == Cmds(t)[issued'[t]]
             G == Configured(Held(t), x)
  <2>1. /\ pc' = pc /\ Now(t).kids = Now(t).joined
        /\ May(opts, t, Now(t), Held(t), x) /\ Held(t)' = G /\ pc[t] > 0
    BY <1>4, HeldExec
  <2>2. Len(t) = 1
    BY <1>4 DEF IsChild, Main
  <2>3. Now(t).kids # {} /\ Held(t) = {} => G = {}
    BY <1>2, <1>4, <2>1, <2>2, OwnConfigured
  <2> HIDE DEF G, x
  <2>4. pc[c] > 0 => c \in Now(t).kids /\ Returned(c)
    BY <1>1, <1>4, <2>1 DEF Located, Family
  <2>5. Alive(c)' <=> Alive(c)
    BY <1>1, <2>1, StepKept
  <2>6. Alive(c) => pc[c] > 0 /\ ~Returned(c)
    BY <1>1 DEF Alive, Returned
  <2> QED BY <1>2, <1>4, <2>1, <2>3, <2>4, <2>5, <2>6 DEF ChildHeld
<1>5. CASE ~(SystemExec(t) /\ p = t)
  <2>1. Held(p)' = Held(p)
    BY <1>5, HeldMoves
  <2>2. CASE pc'[c] = pc[c]
    <3>1. Alive(c)' <=> Alive(c)
      BY <1>1, <2>2, StepKept
    <3> QED BY <1>2, <2>1, <2>2, <3>1 DEF ChildHeld
  <2>3. CASE c = t
    <3>1. pc[c] > 0
      BY <1>1, <2>3 DEF Alive
    <3> QED BY <1>1, <1>2, <2>1, <2>3, <3>1 DEF ChildHeld
  <2>4. CASE Step(t).do = "spawn" /\ c = Step(t).thread
    <3>1. IsChild(t, c) /\ ReadyToStart(Held(t), c)
      BY <1>1, <2>4, SpawnHeld
    <3>2. p = t
      BY <3>1, OneParent
    <3> QED BY <1>3, <2>1, <3>1, <3>2 DEF ReadyToStart, ChildHeld
  <2> QED BY <2>2, <2>3, <2>4, Frame DEF Located
<1> QED BY <1>4, <1>5

\* A step of a thread keeps parents and children together.
LEMMA MoveFits ==
  ASSUME Located, Located', HeldFits, NEW t \in Threads, Moves(t),
         ThreadStep(t) \/ (StageBegin /\ t = Main)
  PROVE  HeldFits'
<1>1. proc = "up" /\ opts' = opts
  BY DEF Moves
<1>2. ASSUME NEW u \in Threads PROVE OwnHeld(opts', u, Held(u)')
  <2>1. OwnHeld(opts, u, Held(u))
    BY <1>1 DEF HeldFits
  <2>2. CASE u = t /\ SystemExec(t)
    <3> DEFINE x == Cmds(t)[issued'[t]]
    <3>1. May(opts, t, Now(t), Held(t), x) /\ Held(t)' = Configured(Held(t), x)
      BY <2>2, HeldExec
    <3>2. OwnHeld(opts, t, Configured(Held(t), x))
      BY <2>1, <2>2, <3>1, OwnConfigured
    <3> QED BY <1>1, <2>2, <3>1, <3>2
  <2>3. CASE ~(u = t /\ SystemExec(t))
    <3>1. Held(u)' = Held(u)
      BY <2>3, HeldMoves
    <3> QED BY <1>1, <2>1, <3>1
  <2> QED BY <2>2, <2>3
<1>3. \A p, c \in Threads : IsChild(p, c) /\ Len(c) = 2 => ChildHeld(p, c)'
  BY MoveChildren
<1> QED BY <1>2, <1>3 DEF HeldFits

\* HeldFits is inductive, given where the threads are.
LEMMA NextFits == Located /\ Located' /\ HeldFits /\ [Next]_vars => HeldFits'
<1> SUFFICES ASSUME Located, Located', HeldFits, [Next]_vars, proc' = "up"
             PROVE  HeldFits'
  BY DEF HeldFits
<1>0. Main \in Threads
  BY DEF Threads
<1>1. CASE Start
  <2>1. pc' = OnlyMain /\ issued'[Main] = 0
    BY <1>0, <1>1 DEF Start, NoThreads
  <2> QED BY <2>1, FreshFits
<1>2. CASE StageBegin
  <2>1. Moves(Main)
    BY <1>2 DEF StageBegin, Moves, At, Advance
  <2> QED BY <1>0, <1>2, <2>1, MoveFits
<1>3. CASE StageEnd
  <2>1. pc' = OnlyMain /\ issued' = issued /\ proc = "up" /\ Returned(Main)
    BY <1>3 DEF StageEnd
  <2>2. issued'[Main] = 0
    BY <1>0, <2>1, StageHeld
  <2> QED BY <2>1, <2>2, FreshFits
<1>4. ASSUME NEW t \in Threads, ThreadStep(t) PROVE HeldFits'
  <2>1. ~CheckAborts(t)
    BY DEF CheckAborts
  <2>2. Moves(t)
    BY <1>4, <2>1, ThreadMoves
  <2> QED BY <1>4, <2>2, MoveFits
<1>5. CASE Flap \/ UNCHANGED vars
  <2>1. UNCHANGED <<proc, opts, loaded, plan, stage, pc, issued>>
    BY <1>5 DEF Flap, flow, vars
  <2>2. \A u : Held(u)' = Held(u) /\ (Alive(u)' <=> Alive(u))
    BY <2>1, FlowHeld
  <2> QED BY <2>1, <2>2 DEF HeldFits, ChildHeld
<1> QED BY <1>1, <1>2, <1>3, <1>4, <1>5 DEF Next, Progress, Finished, StageQuit, Crash

-----------------------------------------------------------------------------
(* Who may touch what.                                                     *)

\* The threads that have a link: those of an interface, of a VLAN, and of
\* the direct tests of an interface.
LEMMA ThreadKinds ==
  ASSUME NEW t \in Threads, HasLink(t)
  PROVE  \/ \E i \in Ifaces : t = <<i>> /\ ~OnDevice(t) /\ MyLink(t) = <<i>>
         \/ \E i \in Ifaces : \E v : t = <<i, v>> /\ OnDevice(t) /\ MyLink(t) = t
         \/ \E i \in Ifaces : t = <<i, NONE>> /\ ~OnDevice(t) /\ MyLink(t) = <<i>>
<1>1. CASE \E i \in Ifaces : t = <<i>>
  BY <1>1 DEF MyLink, OnDevice
<1>2. CASE \E r \in Rows : t = <<r.iface, r.vlan>>
  <2>1. PICK r \in Rows : t = <<r.iface, r.vlan>>
    BY <1>2
  <2> DEFINE i == r.iface
             v == r.vlan
  <2>2. i \in Ifaces /\ v \in 0..RESERVED \cup {NONE}
    BY RowsAssumption DEF Ifaces, RowType
  <2>3. Len(t) = 2 /\ t[1] = i /\ t[2] = v /\ t = <<i, v>> /\ v # RESERVED
    BY <2>1 DEF HasLink
  <2> HIDE DEF i, v
  <2>4. OnDevice(t) <=> v < RESERVED
    BY <2>3 DEF OnDevice
  <2>5. v < RESERVED <=> v # NONE
    BY <2>2, <2>3, VlanNumbers
  <2>6. OnDevice(t) => MyLink(t) = t
    BY ThreadLink
  <2>7. v = NONE => MyLink(t) = <<i>>
    <3>1. v = NONE => ~(RESERVED > v)
      BY DEF NONE, RESERVED
    <3> QED BY <2>3, <3>1 DEF MyLink, LinkName, Base
  <2> QED BY <2>2, <2>3, <2>4, <2>5, <2>6, <2>7
<1> QED BY <1>1, <1>2 DEF Threads, HasLink

\* While a thread runs a command, nothing is configured on its link, or on
\* a device on it, but by the thread itself.
LEMMA OwnsLink ==
  ASSUME Located, HeldFits, NEW t \in Threads, SystemExec(t), HasLink(t),
         NEW u \in Threads, u # t, HasLink(u),
         MyLink(u) = MyLink(t) \/ Base(MyLink(u)) = MyLink(t)
  PROVE  Held(u) = {}
<1>1. /\ proc = "up" /\ Alive(t) /\ pc[t] > 0 /\ Now(t).kids = Now(t).joined
  BY HeldExec
<1>2. ~Alive(u) => Held(u) = {}
  <2>1. pc[u] \in Nat /\ Len(Steps(u)) \in Nat
    BY <1>1, StateTraced DEF Located
  <2>2. ~Alive(u) => pc[u] = 0 \/ Returned(u)
    BY <2>1 DEF Alive, Returned
  <2> QED BY <1>1, <2>2, HeldAt
<1>3. ASSUME IsChild(t, u), Alive(u) PROVE FALSE
  <2>1. pc[u] > 0 /\ ~Returned(u)
    BY <1>1, <1>3, StateTraced DEF Alive, Returned, Located
  <2> QED BY <1>1, <1>3, <2>1 DEF Located, Family
<1>4. CASE \E i \in Ifaces : t = <<i>> /\ MyLink(t) = <<i>>
  <2>1. PICK i \in Ifaces : t = <<i>> /\ MyLink(t) = <<i>>
    BY <1>4
  <2>2. IsChild(t, u)
    <3>1. CASE \E j \in Ifaces : u = <<j>> /\ MyLink(u) = <<j>>
      BY <2>1, <3>1 DEF Base
    <3>2. CASE \E j \in Ifaces : \E v : u = <<j, v>> /\ MyLink(u) = u
      BY <2>1, <3>2 DEF Base, IsChild
    <3>3. CASE \E j \in Ifaces : u = <<j, NONE>> /\ MyLink(u) = <<j>>
      BY <2>1, <3>3 DEF Base, IsChild
    <3> QED BY <3>1, <3>2, <3>3, ThreadKinds
  <2> QED BY <1>2, <1>3, <2>2
<1>5. CASE \E i \in Ifaces : \E v : t = <<i, v>> /\ MyLink(t) = t
  <2>0. PICK i \in Ifaces : \E v : t = <<i, v>> /\ MyLink(t) = t
    BY <1>5
  <2>1. PICK v : t = <<i, v>> /\ MyLink(t) = t
    BY <2>0
  <2>2. CASE \E j \in Ifaces : MyLink(u) = <<j>>
    BY <2>1, <2>2 DEF Base
  <2>3. CASE \E j \in Ifaces : \E w : u = <<j, w>> /\ MyLink(u) = u
    BY <2>1, <2>3 DEF Base
  <2> QED BY <2>2, <2>3, ThreadKinds
<1>6. CASE \E i \in Ifaces : t = <<i, NONE>> /\ MyLink(t) = <<i>>
  <2>1. PICK i \in Ifaces : t = <<i, NONE>> /\ MyLink(t) = <<i>>
    BY <1>6
  <2>2. <<i>> \in Threads /\ IsChild(<<i>>, t) /\ Len(t) = 2 /\ t[2] = NONE
    BY <2>1 DEF Threads, IsChild
  <2>3. Held(<<i>>) = {}
    BY <1>1, <2>2 DEF HeldFits, ChildHeld
  <2>4. CASE \E j \in Ifaces : u = <<j>> /\ MyLink(u) = <<j>>
    BY <2>1, <2>3, <2>4 DEF Base
  <2>5. CASE \E j \in Ifaces : \E v : u = <<j, v>> /\ OnDevice(u) /\ MyLink(u) = u
    <3>0. PICK j \in Ifaces : \E v : u = <<j, v>> /\ OnDevice(u) /\ MyLink(u) = u
      BY <2>5
    <3>1. PICK v : u = <<j, v>> /\ OnDevice(u) /\ MyLink(u) = u
      BY <3>0
    <3>2. j = i
      BY <2>1, <3>1 DEF Base
    <3>3. IsChild(<<i>>, u) /\ Len(u) = 2
      BY <3>1, <3>2 DEF IsChild
    <3>4. ~Alive(u)
      BY <1>1, <2>2, <2>3, <3>1, <3>3 DEF HeldFits, ChildHeld
    <3> QED BY <1>2, <3>4
  <2>6. CASE \E j \in Ifaces : u = <<j, NONE>> /\ MyLink(u) = <<j>>
    BY <2>1, <2>6 DEF Base
  <2> QED BY <2>4, <2>5, <2>6, ThreadKinds
<1> QED BY <1>4, <1>5, <1>6, ThreadKinds

\* While the thread of a VLAN is at work, inter-network, no other has a route.
LEMMA OneRouter ==
  ASSUME Located, HeldFits, OneVlanActive, proc = "up", opts.scope = "inter",
         NEW t \in Threads, Len(t) = 2, Alive(t), NEW u \in Threads, u # t, NEW a
  PROVE  <<"routes", a>> \notin Held(u) /\ <<"default", a>> \notin Held(u)
<1> SUFFICES ASSUME Held(u) # {}, Len(u) = 2 PROVE FALSE
  BY DEF HeldFits, OwnHeld, Routed
<1>1. pc[u] \in Nat /\ Len(Steps(u)) \in Nat
  BY StateTraced DEF Located
<1>2. Alive(u)
  BY <1>1, HeldAt DEF Alive, Returned
<1> QED BY <1>2 DEF OneVlanActive, VlanThreads

-----------------------------------------------------------------------------
(* The runner is on while guards are at work.                              *)

\* Nothing in the plays file or on the command line turns the runner off.
Undisturbed ==
  /\ ~opts.ignoreIfaceStateChange
  /\ \A p \in 1..Len(Plays) : \A s \in 1..Len(Plays[p]) :
       /\ Plays[p][s].onFail = "undefined"
       /\ opts.noPrompt => ~Plays[p][s].skip

\* The runs whose guards find the runner on: inter-network the one session
\* under way turns it off and on again, intra-network it must not be turned
\* off at all, since the guards of one thread and the sessions of another
\* run side by side.
Steady == opts.scope = "inter" \/ Undisturbed

RunnerStaysOn ==
  proc = "up" /\ Undisturbed =>
    /\ runnerExecute = opts.execute
    /\ \A t \in Threads : stageEnabled[t]

\* Where nothing turns the runner off, it is on from the start.
LEMMA NextStaysOn == Located /\ RunnerStaysOn /\ [Next]_vars => RunnerStaysOn'
<1> SUFFICES ASSUME Located, RunnerStaysOn, [Next]_vars, proc' = "up", Undisturbed'
             PROVE  /\ runnerExecute' = opts'.execute
                    /\ \A t \in Threads : stageEnabled'[t]
  BY DEF RunnerStaysOn
<1>1. CASE Start
  BY <1>1 DEF Start
<1>2. ASSUME proc = "up", opts' = opts
      PROVE  /\ Undisturbed /\ runnerExecute = opts.execute
             /\ \A t \in Threads : stageEnabled[t]
  BY <1>2 DEF RunnerStaysOn, Undisturbed
<1>3. CASE StageBegin \/ StageEnd \/ Flap \/ UNCHANGED vars
  <2>1. UNCHANGED <<opts, runnerExecute, stageEnabled>> /\ proc = "up"
    BY <1>3 DEF StageBegin, StageEnd, Flap, vars, flow, runner, At
  <2> QED BY <1>2, <2>1
<1>4. ASSUME NEW t \in Threads, ThreadStep(t)
      PROVE  /\ runnerExecute' = opts'.execute
             /\ \A u \in Threads : stageEnabled'[u]
  <2>1. ~CheckAborts(t)
    BY DEF CheckAborts
  <2>2. Moves(t)
    BY <1>4, <2>1, ThreadMoves
  <2>3. /\ proc = "up" /\ opts' = opts /\ Alive(t)
        /\ Follows(opts, t, Sources(t), Now(t), Step(t), After(t))
    BY <2>2, StateTraced DEF Moves, Located
  <2>4. /\ Undisturbed /\ runnerExecute = opts.execute
        /\ \A u \in Threads : stageEnabled[u]
    BY <1>2, <2>3
  <2>5. ~PlayFails(t)
    <3> SUFFICES ASSUME PlayFails(t) PROVE FALSE
      OBVIOUS
    <3>1. Step(t).do = "set" /\ Step(t).onFail # "undefined"
      BY DEF PlayFails, At
    <3>2. SetFollows(Now(t), Step(t), After(t))
      BY <2>3, <3>1, FollowsKind
    <3> QED BY <2>4, <3>1, <3>2 DEF SetFollows, HasNextSet, Undisturbed
  <2>6. ~CheckPhase(t)
    <3> SUFFICES ASSUME CheckPhase(t) PROVE FALSE
      OBVIOUS
    <3>1. Step(t).do = "check"
      BY DEF CheckPhase, At
    <3> QED BY <2>3, <2>4, <3>1, FollowsKind DEF Undisturbed
  <2>7. ~DisableSkippedSet(t)
    <3> SUFFICES ASSUME DisableSkippedSet(t) PROVE FALSE
      OBVIOUS
    <3>1. Step(t).do = "disable"
      BY Zenon DEF DisableSkippedSet, SetExecute, At
    <3>2. DisableFollows(opts, Now(t), Step(t), After(t))
      BY <2>3, <3>1, FollowsKind
    <3> QED BY <2>4, <3>2 DEF DisableFollows, HasNextSet, Undisturbed
  <2>8. CASE EndPhase(t)
    <3>1. runnerExecute' = (opts.execute /\ stageEnabled[t]) /\ stageEnabled' = stageEnabled
      BY <2>8, Zenon DEF EndPhase, SetExecute
    <3>2. opts.execute \in BOOLEAN /\ stageEnabled[t]
      BY <2>4, OptionsTyped DEF Located, TypeInv, TypeOK
    <3> QED BY <2>3, <2>4, <3>1, <3>2
  <2>9. CASE EndSession(t)
    <3>1. runnerExecute' = opts.execute /\ stageEnabled' = stageEnabled
      BY <2>9, Zenon DEF EndSession, SetExecute
    <3> QED BY <2>3, <2>4, <3>1
  <2>10. CASE ~EndPhase(t) /\ ~EndSession(t)
    <3>1. /\ runnerExecute' = runnerExecute
          /\ \A u \in Threads : ~stageEnabled'[u] => ~stageEnabled[u]
      BY <1>4, <2>5, <2>6, <2>7, <2>10, FlagsKept DEF Located, TypeInv
    <3> QED BY <2>3, <2>4, <3>1
  <2> QED BY <2>8, <2>9, <2>10
<1> QED BY <1>1, <1>3, <1>4 DEF Next, Progress, Finished, StageQuit, Crash

\* Inter-network, no thread runs a block while a session is under way.
LEMMA BlockAlone ==
  ASSUME Located, Serial, OneVlanActive, proc = "up", opts.scope = "inter",
         NEW t \in Threads, Alive(t), Step(t).do = "block",
         NEW u \in Threads, pc[u] > 0, Now(u).phase # 0
  PROVE  FALSE
<1>1. /\ pc[u] \in Nat /\ Len(Steps(u)) \in Nat /\ pc[u] <= Len(Steps(u)) + 1
      /\ pc[u] = Len(Steps(u)) + 1 => Now(u).phase = 0
      /\ pc[u] \in 1..(Len(Steps(u)) + 1) => IsControl(Sources(u), Now(u))
  BY StateTraced DEF Located, Positions
<1>2. Alive(u) /\ IsControl(Sources(u), Now(u))
  BY <1>1 DEF Alive
<1>3. Now(u).src \in Sources(u)
  BY <1>2 DEF IsControl
<1>4. Len(u) = 2 /\ u # Main
  <2>1. u = <<Now(u).src.iface, Now(u).src.vlan>>
    BY <1>3, SourceOf DEF Sources
  <2> HIDE DEF Now
  <2> QED BY <2>1 DEF Main
<1>5. t # u
  BY BlockTraced DEF Located
<1>6. Len(t) # 2
  BY <1>2, <1>4, <1>5 DEF OneVlanActive, VlanThreads
<1>7. PICK p \in Threads : IsChild(p, u) /\ Alive(p) /\ Step(p) = Join(u)
  BY <1>2, <1>4 DEF Serial, ParentWaits
<1>8. \E i : p = <<i>>
  BY <1>4, <1>7 DEF IsChild
<1>9. p # Main /\ Len(p) = 1
  BY <1>8 DEF Main
<1>10. PICK q \in Threads : IsChild(q, p) /\ Step(q) = Join(p)
  BY <1>7, <1>9 DEF Serial, ParentWaits
<1>11. q = Main
  BY <1>9, <1>10 DEF IsChild
<1>12. \A x : Join(x).do = "join" /\ Join(x).thread = x
  BY DEF Join
<1>13. t # Main /\ t # p
  BY <1>7, <1>10, <1>11, <1>12
<1>14. PICK r \in Threads : IsChild(r, t) /\ Step(r) = Join(t)
  BY <1>13 DEF Serial, ParentWaits
<1>15. r = Main
  BY <1>6, <1>14 DEF IsChild
<1>16. Join(p) = Join(t)
  BY <1>10, <1>11, <1>14, <1>15
<1> QED BY <1>12, <1>13, <1>16, Zenon

\* While a thread is at a block, the runner is on.
LEMMA GuardsRun ==
  ASSUME Located, Serial, OneVlanActive, Accounted, RunnerStaysOn, Steady,
         opts.execute, NEW t \in Threads, SystemExec(t)
  PROVE  runnerExecute
<1>1. proc = "up" /\ Alive(t) /\ Step(t).do = "block"
  BY HeldExec
<1>2. CASE opts.scope = "inter"
  BY <1>1, <1>2, BlockAlone DEF Accounted, OffForReason, Reason
<1>3. CASE Undisturbed
  BY <1>1, <1>3 DEF RunnerStaysOn
<1> QED BY <1>2, <1>3 DEF Steady

-----------------------------------------------------------------------------
(* What is configured on the host.                                         *)

\* Whatever is configured on the host, some thread has configured.
Belongs ==
  \A f, l, a : Fact(net, f, l, a) =>
    \E u \in Threads : HasLink(u) /\ MyLink(u) = l /\ <<f, a>> \in Held(u)

\* Whatever a thread has configured is there.
Present ==
  \A u \in Threads : \A f, a : <<f, a>> \in Held(u) => Fact(net, f, MyLink(u), a)

\* In the first run, when it executes every command and its guards find the
\* runner on, the host is configured as the threads have it; until the
\* network takes something away.
HostHeld ==
  proc = "up" /\ opts.execute /\ opts.excluded = {} /\ budget.runs = 1 /\ Steady =>
    /\ Grounded(net) /\ Belongs
    /\ budget.flaps = 0 => Present

\* The first run finds the host as it was.
FirstHost == budget.runs = 0 => net = CleanNet(Ifaces)

\* Nothing touches the host before the first run.
LEMMA NextFirstHost == Located /\ ErrorsRecorded /\ FirstHost /\ [Next]_vars => FirstHost'
<1> SUFFICES ASSUME Located, ErrorsRecorded, FirstHost, [Next]_vars, budget'.runs = 0
             PROVE  net' = CleanNet(Ifaces)
  BY DEF FirstHost
<1>1. budget.runs \in Nat
  BY DEF Located, TypeInv, TypeOK
<1>2. CASE Start
  BY <1>1, <1>2 DEF Start, Located, TypeInv, TypeOK
<1>3. CASE ~Start
  <2>1. budget'.runs = budget.runs
    <3>1. CASE StageBegin \/ StageQuit \/ StageEnd \/ UNCHANGED vars
      BY <3>1 DEF StageBegin, StageQuit, StageEnd, vars, ghost
    <3>2. ASSUME NEW t \in Threads, ThreadStep(t) PROVE budget' = budget
      BY <3>2, HostKept
    <3>3. CASE Crash \/ Flap
      BY <3>3 DEF Crash, Flap, Located, TypeInv, TypeOK
    <3> QED BY <1>3, <3>1, <3>2, <3>3 DEF Next, Progress, Finished
  <2>2. proc = "off" /\ net = CleanNet(Ifaces)
    BY <2>1 DEF ErrorsRecorded, FirstHost
  <2>3. ASSUME NEW t \in Threads, ThreadStep(t) PROVE FALSE
    BY <2>2, <2>3, ThreadMoves DEF Moves, CheckAborts, At
  <2>4. ~StageBegin /\ ~StageQuit /\ ~StageEnd /\ ~Crash /\ ~Flap
    BY <2>2 DEF StageBegin, StageQuit, StageEnd, Crash, Flap, At
  <2> QED BY <1>3, <2>2, <2>3, <2>4 DEF Next, Progress, Finished, vars, host
<1> QED BY <1>2, <1>3

\* The host before the first run has nothing configured.
LEMMA CleanHost ==
  /\ Grounded(CleanNet(Ifaces))
  /\ \A f, l, a : ~Fact(CleanNet(Ifaces), f, l, a)
<1> DEFINE n == CleanNet(Ifaces)
<1>1. /\ IsHost(n) /\ n.links = {<<i>> : i \in Ifaces}
      /\ n.up = {} /\ n.addrs = {} /\ n.macs = {} /\ n.knobs = {}
      /\ n.routes = {} /\ n.default = {}
  BY DEF CleanNet, IsHost
<1> HIDE DEF n
<1>2. NoLink \notin n.links
  BY <1>1 DEF NoLink
<1>3. \A l : l \in n.links <=> IsBase(l)
  BY <1>1 DEF IsBase
<1> QED BY <1>1, <1>2, <1>3 DEF Grounded, OnLinks, Fact, n

\* What a command needs on the host is there.
LEMMA HostIsReady ==
  ASSUME Located, HeldFits, OneVlanActive, Belongs, Present, proc = "up",
         NEW t \in Threads, Alive(t)
  PROVE  HostReady(opts, t, net, Held(t))
<1>1. \A f, a : <<f, a>> \in Held(t) => Fact(net, f, MyLink(t), a)
  BY DEF Present
<1>2. ASSUME OnDevice(t) PROVE Base(t) \in net.up
  <2>1. Len(t) = 2 /\ HasLink(t)
    BY <1>2, DeviceLink DEF OnDevice
  <2>2. PICK i \in Ifaces : t[1] = i /\ t = <<i, t[2]>>
    BY <2>1, ThreadKinds
  <2>3. Base(t) = <<i>> /\ <<i>> \in Threads /\ MyLink(<<i>>) = <<i>>
    BY <2>2 DEF Base, Threads, MyLink
  <2>4. IsChild(<<i>>, t)
    BY <2>2 DEF IsChild
  <2>5. Up \in Held(<<i>>)
    BY <1>2, <2>1, <2>3, <2>4 DEF HeldFits, ChildHeld
  <2>6. Fact(net, "up", <<i>>, 0)
    BY <2>3, <2>5 DEF Present, Up
  <2> QED BY <2>3, <2>6 DEF Fact
<1>3. ASSUME Routed(opts, t), NEW k, NEW a, <<k, a>> \in net.default
      PROVE  <<"default", a>> \in Held(t)
  <2>1. Fact(net, "default", k, a)
    BY <1>3 DEF Fact
  <2>2. PICK u \in Threads : <<"default", a>> \in Held(u)
    BY <2>1 DEF Belongs
  <2> QED BY <1>3, <2>2, OneRouter DEF Routed
<1> QED BY <1>1, <1>2, <1>3 DEF HostReady

\* A command leaves the host configured as the threads have it.
LEMMA ExecBelongs ==
  ASSUME Located, Located', HeldFits, OneVlanActive, Belongs, NEW t \in Threads, SystemExec(t),
         Effect(opts, t, net, net', Held(t), Held(t)')
  PROVE  Belongs'
<1>1. proc = "up" /\ Alive(t) /\ Moves(t)
  BY HeldExec
<1>2. \A u \in Threads : u # t => Held(u)' = Held(u)
  BY <1>1, HeldMoves DEF ThreadStep
<1> DEFINE H == Held(t)
           G == Held(t)'
<1>3. Adds(opts, t, net, net', H, G) /\ Undoes(t, net', H, G)
  BY DEF Effect
<1> HIDE DEF H, G
<1> SUFFICES ASSUME NEW f, NEW l, NEW a, Fact(net', f, l, a)
             PROVE  \E u \in Threads : HasLink(u) /\ MyLink(u) = l /\ <<f, a>> \in Held(u)'
  BY DEF Belongs
<1>4. \/ Fact(net, f, l, a)
      \/ HasLink(t) /\ l = MyLink(t) /\ <<f, a>> \in G
      \/ /\ f = "default" /\ <<f, a>> \in G /\ Routed(opts, t)
         /\ Fact(net, "routes", l, a)
  BY <1>3 DEF Adds
<1>5. CASE Fact(net, f, l, a)
  <2>1. PICK u \in Threads : HasLink(u) /\ MyLink(u) = l /\ <<f, a>> \in Held(u)
    BY <1>5 DEF Belongs
  <2>2. CASE u # t
    BY <1>2, <2>1, <2>2
  <2>3. CASE u = t
    <3>1. <<f, a>> \in H
      BY <2>1, <2>3 DEF H
    <3>2. <<f, a>> \in G
      BY <1>3, <2>1, <2>3, <3>1 DEF Undoes
    <3> QED BY <2>1, <2>3, <3>2 DEF G
  <2> QED BY <2>2, <2>3
<1>6. CASE HasLink(t) /\ l = MyLink(t) /\ <<f, a>> \in G
  BY <1>6 DEF G
<1>7. CASE /\ f = "default" /\ <<f, a>> \in G /\ Routed(opts, t)
           /\ Fact(net, "routes", l, a)
  <2>1. PICK u \in Threads : HasLink(u) /\ MyLink(u) = l /\ <<"routes", a>> \in Held(u)
    BY <1>7 DEF Belongs
  <2>2. u = t
    BY <1>1, <1>7, <2>1, OneRouter DEF Routed
  <2> QED BY <1>7, <2>1, <2>2 DEF G
<1> QED BY <1>4, <1>5, <1>6, <1>7

\* And what the threads have configured stays there.
LEMMA ExecPresent ==
  ASSUME Located, Located', HeldFits, OneVlanActive, Belongs, Present, NEW t \in Threads,
         SystemExec(t), Effect(opts, t, net, net', Held(t), Held(t)')
  PROVE  Present'
<1>1. proc = "up" /\ Alive(t) /\ Moves(t)
  BY HeldExec
<1>2. \A u \in Threads : u # t => Held(u)' = Held(u)
  BY <1>1, HeldMoves DEF ThreadStep
<1>3. HostReady(opts, t, net, Held(t))
  BY <1>1, HostIsReady
<1> DEFINE H == Held(t)
           G == Held(t)'
<1>4. Removes(opts, t, net, net', G) /\ Succeeds(opts, t, net, net', H, G)
      /\ HostReady(opts, t, net, H)
  BY <1>3 DEF Effect
<1> HIDE DEF H, G
<1> SUFFICES ASSUME NEW u \in Threads, NEW f, NEW a, <<f, a>> \in Held(u)',
                    ~Fact(net', f, MyLink(u), a)
             PROVE  FALSE
  BY DEF Present
<1>5. CASE <<f, a>> \in Held(u)
  <2>1. Fact(net, f, MyLink(u), a)
    BY <1>5 DEF Present
  <2> DEFINE k == MyLink(u)
  <2>2. \/ HasLink(t) /\ k = MyLink(t) /\ <<f, a>> \notin G
        \/ HasLink(t) /\ k # MyLink(t) /\ Base(k) = MyLink(t)
        \/ /\ f = "default" /\ Routed(opts, t)
           /\ k = MyLink(t) => <<f, a>> \notin G
    BY <1>4, <2>1 DEF Removes
  <2>3. u # t
    <3>1. CASE u = t
      <4>1. k = MyLink(t) /\ <<f, a>> \in G
        BY <3>1 DEF G
      <4> QED BY <2>2, <4>1
    <3> QED BY <3>1
  <2>4. HasLink(u) /\ Held(u) # {}
    BY <1>1, <1>5 DEF HeldFits, OwnHeld
  <2>5. ~(HasLink(t) /\ (k = MyLink(t) \/ Base(k) = MyLink(t)))
    BY <2>3, <2>4, OwnsLink
  <2>6. f = "default" /\ Routed(opts, t)
    BY <2>2, <2>5
  <2> QED BY <1>1, <1>5, <2>3, <2>6, OneRouter DEF Routed
<1>6. CASE <<f, a>> \notin Held(u)
  <2>1. u = t
    BY <1>2, <1>6
  <2>2. <<f, a>> \in G \ H
    BY <1>6, <2>1 DEF G, H
  <2> QED BY <1>4, <2>1, <2>2 DEF Succeeds
<1> QED BY <1>5, <1>6

\* A move of a thread keeps the host as the threads have it.
LEMMA MoveHost ==
  ASSUME Located, Located', HeldFits, Serial, OneVlanActive, Accounted, RunnerStaysOn,
         HostHeld, NEW t \in Threads, Moves(t), ThreadStep(t) \/ (StageBegin /\ t = Main)
  PROVE  HostHeld'
<1>1. proc = "up" /\ opts' = opts /\ budget' = budget
  BY HostKept DEF Moves, StageBegin, ghost
<1>2. Steady' <=> Steady
  BY <1>1 DEF Steady, Undisturbed
<1> SUFFICES ASSUME opts.execute, opts.excluded = {}, budget.runs = 1, Steady
             PROVE  /\ Grounded(net') /\ Belongs'
                    /\ budget.flaps = 0 => Present'
  BY <1>1, <1>2 DEF HostHeld
<1>3. /\ Grounded(net) /\ Belongs
      /\ budget.flaps = 0 => Present
  BY <1>1 DEF HostHeld
<1>4. CASE SystemExec(t)
  <2> DEFINE c == Cmds(t)[issued'[t]]
  <2>1. May(opts, t, Now(t), Held(t), c) /\ Held(t)' = Configured(Held(t), c)
    BY <1>4, HeldExec
  <2>2. Effect(opts, t, net, Run(net, c), Held(t), Configured(Held(t), c))
    BY <1>3, <2>1, ExecEffect
  <2>3. runnerExecute
    BY <1>4, GuardsRun
  <2>4. net' = Run(net, c)
    BY <1>4, <2>3 DEF SystemExec, Executes, isEnabled
  <2> HIDE DEF c
  <2>5. Effect(opts, t, net, net', Held(t), Held(t)')
    BY <2>1, <2>2, <2>4
  <2>6. Grounded(net')
    BY <2>5 DEF Effect
  <2>7. Belongs'
    BY <1>3, <1>4, <2>5, ExecBelongs
  <2>8. budget.flaps = 0 => Present'
    BY <1>3, <1>4, <2>5, ExecPresent
  <2> QED BY <2>6, <2>7, <2>8
<1>5. CASE ~SystemExec(t)
  <2>1. net' = net
    BY <1>5, HostKept DEF StageBegin, host
  <2>2. \A u \in Threads : Held(u)' = Held(u)
    BY <1>5, HeldMoves
  <2> QED BY <1>3, <2>1, <2>2 DEF Belongs, Present
<1> QED BY <1>4, <1>5

\* When nothing is configured by a thread, nothing is on the host.
LEMMA StageHost ==
  ASSUME Located, Located', HostHeld, StageEnd, proc' = "up"
  PROVE  HostHeld'
<1>1. /\ proc = "up" /\ Returned(Main) /\ pc' = OnlyMain
      /\ UNCHANGED <<opts, issued, net, budget>>
  BY DEF StageEnd, host, ghost
<1>2. Steady' <=> Steady
  BY <1>1 DEF Steady, Undisturbed
<1>3. Main \in Threads
  BY DEF Threads
<1>4. \A u \in Threads : Held(u) = {} /\ issued[u] = 0
  BY <1>1, StageHeld
<1>5. \A u \in Threads : Held(u)' = {}
  BY <1>1, <1>3, <1>4, FreshHeld
<1> QED BY <1>1, <1>2, <1>4, <1>5 DEF HostHeld, Belongs, Present

\* HostHeld is inductive, given where the threads are and that the guards of
\* a thread find the runner on.
LEMMA NextHost ==
  /\ Located /\ Located' /\ HeldFits /\ Serial /\ OneVlanActive /\ Accounted
  /\ RunnerStaysOn /\ ErrorsRecorded /\ FirstHost /\ HostHeld /\ [Next]_vars
  => HostHeld'
<1> SUFFICES ASSUME Located, Located', HeldFits, Serial, OneVlanActive, Accounted,
                    RunnerStaysOn, ErrorsRecorded, FirstHost, HostHeld, [Next]_vars,
                    proc' = "up"
             PROVE  HostHeld'
  BY DEF HostHeld
<1>0. Main \in Threads
  BY DEF Threads
<1>1. CASE Start
  <2>1. /\ budget.runs \in Nat /\ budget'.runs = budget.runs + 1 /\ net' = net
        /\ pc' = OnlyMain /\ issued'[Main] = 0
    BY <1>0, <1>1 DEF Start, Located, TypeInv, TypeOK, host, NoThreads
  <2>2. budget'.runs = 1 => net' = CleanNet(Ifaces)
    BY <2>1 DEF FirstHost
  <2>3. \A u \in Threads : Held(u)' = {}
    BY <2>1, FreshHeld
  <2> QED BY <2>2, <2>3, CleanHost DEF HostHeld, Belongs, Present
<1>2. CASE StageBegin
  <2>1. Moves(Main)
    BY <1>2 DEF StageBegin, Moves, At, Advance
  <2> QED BY <1>0, <1>2, <2>1, MoveHost
<1>3. CASE StageEnd
  BY <1>3, StageHost
<1>4. ASSUME NEW t \in Threads, ThreadStep(t) PROVE HostHeld'
  <2>1. ~CheckAborts(t)
    BY DEF CheckAborts
  <2>2. Moves(t)
    BY <1>4, <2>1, ThreadMoves
  <2> QED BY <1>4, <2>2, MoveHost
<1>5. CASE Flap
  <2>1. /\ UNCHANGED <<proc, opts, loaded, plan, stage, pc, issued>> /\ proc = "up"
        /\ budget'.runs = budget.runs /\ budget.flaps \in Nat
        /\ budget'.flaps = budget.flaps + 1
    BY <1>5 DEF Flap, flow, Located, TypeInv, TypeOK
  <2>2. Steady' <=> Steady
    BY <2>1 DEF Steady, Undisturbed
  <2>3. \A u : Held(u)' = Held(u)
    BY <2>1, FlowHeld
  <2>4. ASSUME Grounded(net)
        PROVE  Grounded(net') /\ \A f, l, a : Fact(net', f, l, a) => Fact(net, f, l, a)
    <3>1. /\ IsHost(net') /\ net'.links = net.links /\ net'.up \subseteq net.up
          /\ net'.addrs \subseteq net.addrs /\ net'.macs = net.macs
          /\ net'.knobs = net.knobs /\ net'.routes = net.routes
          /\ net'.default = net.default
      BY <1>5, <2>4 DEF Flap, Grounded, IsHost
    <3>2. Grounded(net')
      BY <2>4, <3>1 DEF Grounded, OnLinks
    <3>3. \A f, l, a : Fact(net', f, l, a) => Fact(net, f, l, a)
      BY <3>1 DEF Fact
    <3> QED BY <3>2, <3>3
  <2>5. budget'.flaps # 0
    BY <2>1
  <2> QED BY <2>1, <2>2, <2>3, <2>4, <2>5 DEF HostHeld, Belongs
<1>6. CASE UNCHANGED vars
  <2>1. UNCHANGED <<proc, opts, loaded, plan, stage, pc, issued, net, budget>>
    BY <1>6 DEF vars, flow, host, ghost
  <2>2. Steady' <=> Steady
    BY <2>1 DEF Steady, Undisturbed
  <2>3. \A u : Held(u)' = Held(u)
    BY <2>1, FlowHeld
  <2> QED BY <2>1, <2>2, <2>3 DEF HostHeld, Belongs, Present
<1> QED BY <1>1, <1>2, <1>3, <1>4, <1>5, <1>6 DEF Next, Progress, Finished, StageQuit, Crash

-----------------------------------------------------------------------------
(* What the guards leave behind, and what the tests find.                  *)

\* Nothing is configured on a physical interface whose threads have nothing
\* configured.
LEMMA Unclaimed ==
  ASSUME Grounded(net), Belongs, NEW i,
         \A u \in Threads : HasLink(u) /\ MyLink(u) = <<i>> => Held(u) = {}
  PROVE  Unconfigured(net, <<i>>)
<1> DEFINE l == <<i>>
<1>1. \A f, a : ~Fact(net, f, l, a)
  BY DEF Belongs
<1> HIDE DEF l
<1>2. l \notin net.up
  BY <1>1 DEF Fact
<1>3. ASSUME NEW S, OnLinks(S, net.links), \A a : <<l, a>> \notin S, NEW x \in S
      PROVE  x[1] # l
  BY <1>3 DEF OnLinks
<1>4. /\ \A x \in net.addrs : x[1] # l
      /\ \A x \in net.macs : x[1] # l
      /\ \A x \in net.knobs : x[1] # l
      /\ \A x \in net.routes : x[1] # l
      /\ \A x \in net.default : x[1] # l
  <2>1. \A a : /\ <<l, a>> \notin net.addrs /\ <<l, a>> \notin net.macs
               /\ <<l, a>> \notin net.knobs /\ <<l, a>> \notin net.routes
               /\ <<l, a>> \notin net.default
    BY <1>1 DEF Fact
  <2> QED BY <1>3, <2>1 DEF Grounded
<1> QED BY <1>2, <1>4 DEF Unconfigured, l

\* The threads that configure a physical interface are its own and that of
\* its direct tests.
LEMMA Claimants ==
  ASSUME NEW i, NEW u \in Threads, HasLink(u), MyLink(u) = <<i>>
  PROVE  u = <<i>> \/ u = <<i, NONE>>
BY ThreadKinds

FirstRun == budget.runs <= 1 /\ Steady

FirstDeconfigured     == FirstRun => Deconfigured
FirstBaseDeconfigured == FirstRun => BaseDeconfigured
FirstScansConfigured  == FirstRun => ScansRunConfigured
UpScansConfigured     == proc = "up" => FirstScansConfigured

\* A process that is at work in the first run is in it.
LEMMA InFirstRun ==
  ASSUME Located, ErrorsRecorded, HostHeld, FirstRun, proc = "up",
         opts.execute, opts.excluded = {}
  PROVE  Grounded(net) /\ Belongs /\ (budget.flaps = 0 => Present)
<1>1. budget.runs = 1
  BY DEF FirstRun, ErrorsRecorded, Located, TypeInv, TypeOK
<1> QED BY <1>1 DEF HostHeld, FirstRun

\* The thread of a VLAN that has returned has nothing configured, so nothing
\* of it is on the host.
LEMMA HeldDeconfigured ==
  Located /\ ErrorsRecorded /\ HeldFits /\ HostHeld => FirstDeconfigured
<1> SUFFICES ASSUME Located, ErrorsRecorded, HeldFits, HostHeld, FirstRun,
                    proc = "up", opts.execute, opts.excluded = {},
                    NEW t \in VlanThreads, pc[t] > 0, Returned(t)
             PROVE  IF t[2] # NONE THEN t \notin net.links
                    ELSE Alive(Base(t)) => Unconfigured(net, Base(t))
  BY DEF FirstDeconfigured, Deconfigured
<1>1. Grounded(net) /\ Belongs
  BY InFirstRun
<1>2. t \in Threads /\ Len(t) = 2
  BY DEF VlanThreads
<1>3. Held(t) = {}
  BY <1>2, HeldAt
<1>4. t \notin net.links
  <2> SUFFICES ASSUME t \in net.links PROVE FALSE
    OBVIOUS
  <2>1. ~IsBase(t)
    BY <1>2 DEF IsBase
  <2>2. Fact(net, "link", t, 0)
    BY <2>1 DEF Fact
  <2>3. PICK u \in Threads : HasLink(u) /\ MyLink(u) = t /\ <<"link", 0>> \in Held(u)
    BY <1>1, <2>2 DEF Belongs
  <2>4. OnDevice(u)
    BY <2>3 DEF HeldFits, OwnHeld, Device
  <2>5. MyLink(u) = u
    BY <2>3, <2>4, ThreadLink
  <2> QED BY <1>3, <2>3, <2>5
<1>5. ASSUME t[2] = NONE PROVE Unconfigured(net, Base(t))
  <2>1. PICK i \in Ifaces : t = <<i, NONE>>
    <3>1. PICK r \in Rows : t = <<r.iface, r.vlan>>
      <4>1. t # Main /\ \A j : t # <<j>>
        BY <1>2 DEF Main
      <4> QED BY <1>2, <4>1 DEF Threads
    <3>2. r.iface \in Ifaces /\ r.vlan = NONE
      BY <1>5, <3>1 DEF Ifaces
    <3> QED BY <3>1, <3>2
  <2>2. Base(t) = <<i>> /\ <<i>> \in Threads /\ IsChild(<<i>>, t)
    BY <2>1 DEF Base, Threads, IsChild
  <2>3. Held(<<i>>) = {}
    BY <1>2, <1>5, <2>2 DEF HeldFits, ChildHeld
  <2>4. \A u \in Threads : HasLink(u) /\ MyLink(u) = <<i>> => Held(u) = {}
    BY <1>3, <2>1, <2>3, Claimants
  <2> QED BY <1>1, <2>2, <2>4, Unclaimed
<1> QED BY <1>4, <1>5

\* Nor is anything of the thread of a physical interface that has returned,
\* nor of that of its direct tests.
LEMMA HeldBaseDeconfigured ==
  Located /\ ErrorsRecorded /\ HostHeld => FirstBaseDeconfigured
<1> SUFFICES ASSUME Located, ErrorsRecorded, HostHeld, FirstRun,
                    proc = "up", opts.execute, opts.excluded = {},
                    NEW i \in Ifaces, pc[<<i>>] > 0, Returned(<<i>>)
             PROVE  Unconfigured(net, <<i>>)
  BY DEF FirstBaseDeconfigured, BaseDeconfigured
<1>1. Grounded(net) /\ Belongs
  BY InFirstRun
<1>2. <<i>> \in Threads
  BY DEF Threads
<1>3. Held(<<i>>) = {}
  BY <1>2, HeldAt
<1>4. ASSUME NEW u \in Threads, u = <<i, NONE>> PROVE Held(u) = {}
  <2>1. IsChild(<<i>>, u)
    BY <1>4 DEF IsChild
  <2>2. pc[u] > 0 => Returned(u)
    BY <1>2, <2>1, ReturnsLast DEF Located
  <2>3. pc[u] \in Nat
    BY DEF Located, TypeInv, TypeOK
  <2> QED BY <2>2, <2>3, HeldAt
<1>5. \A u \in Threads : HasLink(u) /\ MyLink(u) = <<i>> => Held(u) = {}
  BY <1>3, <1>4, Claimants
<1> QED BY <1>1, <1>5, Unclaimed

\* The plays of a set run on the link of their source.
LEMMA PlayLink ==
  ASSUME NEW src, NEW rtr, NEW p \in 1..Len(Plays), NEW s \in 1..Len(Plays[p]),
         NEW k \in 1..Len(PhaseCommands(src, rtr, p, s))
  PROVE  PhaseCommands(src, rtr, p, s)[k].link = SourceLink(src)
<1> DEFINE set == Plays[p][s]
           size == set.always + IF src.family = 4 THEN set.ipv4 ELSE set.ipv6
           cmd(n) == Cmd("play", SourceLink(src),
                         [src |-> src, rtr |-> rtr, phase |-> p, set |-> s, n |-> n])
           f == [n \in 1..size |-> cmd(n)]
<1>1. PhaseCommands(src, rtr, p, s) = f
  BY DEF PhaseCommands
<1>2. DOMAIN PhaseCommands(src, rtr, p, s) = 1..Len(PhaseCommands(src, rtr, p, s))
  BY PhaseCommandsTyped
<1>3. \A n : cmd(n).link = SourceLink(src)
  BY DEF Cmd
<1> HIDE DEF cmd, size
<1>4. f[k] = cmd(k)
  BY <1>1, <1>2
<1> QED BY <1>1, <1>3, <1>4

\* What a test needs its thread has configured, so it is on the host.
LEMMA HeldScans ==
  Located /\ OneVlanActive /\ DryRunHarmless /\ ErrorsRecorded /\ HeldFits /\ HostHeld
    => UpScansConfigured
<1> SUFFICES ASSUME Located, OneVlanActive, DryRunHarmless, ErrorsRecorded, HeldFits,
                    HostHeld, FirstRun, proc = "up", budget.flaps = 0,
                    opts.excluded = {}, NEW c \in running
             PROVE  /\ c.link \in net.up
                    /\ <<c.link, c.arg.src.addr>> \in net.addrs
                    /\ c.arg.rtr # 0 => net.default = {<<c.link, c.arg.rtr>>}
  BY DEF UpScansConfigured, FirstScansConfigured, ScansRunConfigured
<1>1. opts.execute
  BY DEF DryRunHarmless
<1>2. Grounded(net) /\ Belongs /\ Present
  BY <1>1, InFirstRun
<1>3. PICK t \in Threads : t = coutMutex
  BY RunningOf
<1> DEFINE src == Now(t).src
           rtr == Now(t).rtr
<1>4. /\ At(t, "set") /\ SetFollows(Now(t), Step(t), After(t))
      /\ IsControl(Sources(t), Now(t)) /\ Now(t).phase # 0
      /\ c.arg.src = src /\ c.arg.rtr = rtr
  BY <1>3, RunningOf
<1>5. ReadyFor(Held(t), src, rtr) /\ src \in Sources(t)
  <2>1. Held(t) = Now(t).held
    BY <1>4, HeldAt
  <2> QED BY <1>4, <2>1 DEF IsControl
<1>6. MyLink(t) = SourceLink(src)
  <2>1. t = <<src.iface, src.vlan>>
    BY <1>5, SourceOf DEF Sources
  <2> HIDE DEF src
  <2>2. Len(t) = 2
    BY <2>1
  <2> QED BY <2>1, <2>2 DEF MyLink, SourceLink
<1>7. c.link = MyLink(t)
  <2>1. PICK k \in 1..Len(Cmds(t)) : c = Cmds(t)[k]
    BY <1>3 DEF Located, Locked
  <2>2. Cmds(t) = PhaseCommands(src, rtr, Now(t).phase, Now(t).set + 1)
    BY <1>4 DEF SetFollows, Cmds
  <2>3. Now(t).phase \in 1..Len(Plays) /\ Now(t).set + 1 \in 1..Len(Plays[Now(t).phase])
    BY <1>4 DEF SetFollows, HasNextSet
  <2> HIDE DEF src, rtr
  <2> QED BY <1>6, <2>1, <2>2, <2>3, PlayLink
<1> HIDE DEF src, rtr
<1>8. c.link \in net.up /\ <<c.link, c.arg.src.addr>> \in net.addrs
  <2>1. Up \in Held(t) /\ <<"addrs", src.addr>> \in Held(t)
    BY <1>5 DEF ReadyFor
  <2>2. Fact(net, "up", c.link, 0) /\ Fact(net, "addrs", c.link, src.addr)
    BY <1>2, <1>7, <2>1 DEF Present, Up
  <2> QED BY <1>4, <2>2 DEF Fact
<1>9. ASSUME rtr # 0 PROVE net.default = {<<c.link, rtr>>}
  <2>1. {h \in Held(t) : h[1] = "default"} = {<<"default", rtr>>}
    BY <1>5, <1>9 DEF ReadyFor
  <2>2. <<"default", rtr>> \in Held(t)
    BY <2>1
  <2>3. Routed(opts, t)
    BY <2>2 DEF HeldFits, OwnHeld
  <2>4. <<c.link, rtr>> \in net.default
    <3>1. Fact(net, "default", c.link, rtr)
      BY <1>2, <1>7, <2>2 DEF Present
    <3> QED BY <3>1 DEF Fact
  <2>5. ASSUME NEW x \in net.default PROVE x = <<c.link, rtr>>
    <3>1. PICK l, a : x = <<l, a>>
      BY <1>2 DEF Grounded, OnLinks
    <3>2. Fact(net, "default", l, a)
      BY <3>1 DEF Fact
    <3>3. PICK u \in Threads : HasLink(u) /\ MyLink(u) = l /\ <<"default", a>> \in Held(u)
      BY <1>2, <3>2 DEF Belongs
    <3>4. u = t
      BY <1>4, <2>3, <3>3, OneRouter DEF Routed, At
    <3>5. a = rtr
      <4>1. <<"default", a>>[1] = "default" /\ <<"default", a>>[2] = a
            /\ <<"default", rtr>>[2] = rtr
        OBVIOUS
      <4>2. <<"default", a>> \in {<<"default", rtr>>}
        BY <2>1, <3>3, <3>4, <4>1
      <4> QED BY <4>1, <4>2
    <3> QED BY <1>7, <3>1, <3>3, <3>4, <3>5
  <2> QED BY <2>4, <2>5
<1> QED BY <1>4, <1>8, <1>9

\* A process that is not at work leaves its plays and the host as they are.
LEMMA HaltedScans ==
  Located /\ FirstScansConfigured /\ [Next]_vars /\ UpScansConfigured'
    => FirstScansConfigured'
<1> SUFFICES ASSUME Located, FirstScansConfigured, [Next]_vars, proc' # "up"
             PROVE  FirstScansConfigured'
  BY DEF UpScansConfigured
<1>1. CASE Start
  BY <1>1 DEF Start, FirstScansConfigured, ScansRunConfigured
<1>2. CASE ~Start
  <2>1. UNCHANGED <<opts, running>>
    BY <1>2, Halts
  <2>2. net' = net /\ budget'.runs = budget.runs /\ budget'.flaps = budget.flaps
    <3>1. CASE StageBegin \/ StageQuit \/ StageEnd \/ UNCHANGED vars
      BY <3>1 DEF StageBegin, StageQuit, StageEnd, vars, ghost, host
    <3>2. ASSUME NEW t \in Threads, ThreadStep(t) PROVE net' = net /\ budget' = budget
      <4>1. ~SystemExec(t)
        <5> SUFFICES ASSUME SystemExec(t) PROVE FALSE
          OBVIOUS
        <5> QED BY HeldExec DEF Moves
      <4> QED BY <3>2, <4>1, HostKept
    <3>3. CASE Crash \/ Flap
      BY <3>3 DEF Crash, Flap, flow, host, Located, TypeInv, TypeOK
    <3> QED BY <1>2, <3>1, <3>2, <3>3 DEF Next, Progress, Finished
  <2> QED BY <2>1, <2>2 DEF FirstScansConfigured, FirstRun, Steady, Undisturbed,
                            ScansRunConfigured
<1> QED BY <1>1, <1>2

\* Where everything is, and what the host has.
Hosted == Located /\ OneVlanActive /\ ErrorsRecorded /\ HeldFits /\ HostHeld

\* All of it holds in every state.
LEMMA HostInvariant == Spec => []Hosted
<1>1. Init => /\ Serial /\ Accounted /\ RunnerStaysOn /\ ErrorsRecorded
              /\ FirstHost /\ HeldFits /\ HostHeld
  BY DEF Init, Serial, Accounted, RunnerStaysOn, ErrorsRecorded, FirstHost, HeldFits,
         HostHeld, IsHost, CleanNet
<1>2. Located => TypeInv
  BY DEF Located
<1>3. Located /\ OneVlanActive /\ ErrorsRecorded /\ HeldFits /\ HostHeld => Hosted
  BY DEF Hosted
<1> QED BY <1>1, <1>2, <1>3, InitLocated, NextLocated, NextSerial, SerialImpliesOne,
      NextAccounted, NextStaysOn, NextRecorded, NextFirstHost, NextFits, NextHost,
      PTL DEF Spec

\* In the first run, when every command is executed, the clean-up of the
\* thread of a VLAN finds the host as the guards left it, and succeeds: once
\* that thread has returned, its device is gone, and once the thread of the
\* direct tests has, nothing is left on the interface.  Inter-network; or
\* intra-network with nothing that turns the runner off.
THEOREM GuardsUndone ==
  Spec => [](budget.runs <= 1 /\ Steady => Deconfigured)
<1>1. Hosted => FirstDeconfigured
  BY HeldDeconfigured DEF Hosted
<1>2. FirstDeconfigured => (budget.runs <= 1 /\ Steady => Deconfigured)
  BY DEF FirstDeconfigured, FirstRun
<1> QED BY <1>1, <1>2, HostInvariant, PTL

\* In such a run, once the thread of a physical interface has returned,
\* nothing the playbook has configured is left on that interface.
THEOREM InterfaceUndone ==
  Spec => [](budget.runs <= 1 /\ Steady => BaseDeconfigured)
<1>1. Hosted => FirstBaseDeconfigured
  BY HeldBaseDeconfigured DEF Hosted
<1>2. FirstBaseDeconfigured => (budget.runs <= 1 /\ Steady => BaseDeconfigured)
  BY DEF FirstBaseDeconfigured, FirstRun
<1> QED BY <1>1, <1>2, HostInvariant, PTL

\* In such a run, as long as the network takes nothing away, every play
\* runs on a link that is up and has the address of its source, and through
\* a router only while the one default route is the one through it.
THEOREM ScansFindHost ==
  Spec => [](budget.runs <= 1 /\ Steady => ScansRunConfigured)
<1>1. Hosted => Located
  BY DEF Hosted
<1>2. Hosted /\ DryRunHarmless => UpScansConfigured
  BY HeldScans DEF Hosted
<1>3. Init => FirstScansConfigured
  BY DEF Init, FirstScansConfigured, ScansRunConfigured
<1>4. FirstScansConfigured => (budget.runs <= 1 /\ Steady => ScansRunConfigured)
  BY DEF FirstScansConfigured, FirstRun
<1> QED BY <1>1, <1>2, <1>3, <1>4, HaltedScans, HostInvariant, DryRunSafe, PTL DEF Spec
=============================================================================
