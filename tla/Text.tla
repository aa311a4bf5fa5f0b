--------------------------------- MODULE Text ---------------------------------
(***************************************************************************)
(* Letter case.  Names are compared, never taken apart, so it is enough to *)
(* know the lower case of the few names that are written with capitals.    *)
(***************************************************************************)
EXTENDS TLC

LOCAL Capitals ==
  ("Edge" :> "edge") @@ ("Core" :> "core") @@ ("Eth0" :> "eth0") @@ ("Eth1" :> "eth1")
  @@ ("Www" :> "www") @@ ("Vlan10" :> "vlan10") @@ ("Gi1" :> "gi1") @@ ("Port-channel1" :> "port-channel1")
  @@ ("Null0" :> "null0") @@ ("High" :> "high") @@ ("Blue" :> "blue") @@ ("edge:Vsys1" :> "edge:vsys1")

\* nmcu::toLower and the lower() of a statement
Lower(name) == IF name \in DOMAIN Capitals THEN Capitals[name] ELSE name

\* The number in the name of a VLAN's or of a port channel's interface; 0: it is another interface.
IfaceVlan(name) == IF Lower(name) = "vlan10" THEN 10 ELSE 0
PortChannelNumber(name) == IF Lower(name) = "port-channel1" THEN 1 ELSE 0

LOCAL Expanded == ("gi1" :> "gigabitethernet1") @@ ("gi2" :> "gigabitethernet2") @@ ("te1" :> "tengigabitethernet1")

\* nmcu::expandCiscoIfaceName, on the names in use
ExpandCisco(name) == LET low == Lower(name) IN IF low \in DOMAIN Expanded THEN Expanded[low] ELSE low

LOCAL Short == ("core.one" :> "core") @@ ("core.two" :> "core") @@ ("10.0.0.1" :> "10")

\* A name up to its first dot
FirstLabel(name) == IF name \in DOMAIN Short THEN Short[name] ELSE name
================================================================================
