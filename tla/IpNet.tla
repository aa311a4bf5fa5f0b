--------------------------------- MODULE IpNet ---------------------------------
(***************************************************************************)
(* IpNetwork and IpAddress: addresses with a prefix, how a prefix follows  *)
(* from a mask, the network an address lies in, and which of them the data *)
(* store is given.  An address is the sequence of its octets (IPv4) or of  *)
(* its 16-bit groups (IPv6); "" in an INET column is the empty sequence.   *)
(***************************************************************************)
EXTENDS Integers, Sequences, SequencesExt

UNSET == 255            \* UINT8_MAX: no prefix was ever set

Any4 == <<0, 0, 0, 0>>
Any6 == <<0, 0, 0, 0, 0, 0, 0, 0>>

\* A default-constructed IpAddress; an IpNetwork has no use for the last two fields.
NoIp == [addr |-> Any4, prefix |-> UNSET, reason |-> "", weight |-> 0, up |-> FALSE, aliases |-> {}]

IsV4(ip)   == Len(ip.addr) = 4
Width(a)   == IF Len(a) = 4 THEN 32 ELSE 128
Group(a)   == Width(a) \div Len(a)

\* The i-th bit of an address, the first bit being the most significant one.
Bit(a, i) == LET g == Group(a)  k == (i - 1) % g
             IN  (a[(i - 1) \div g + 1] \div 2^(g - 1 - k)) % 2

SetPrefix(ip, p)  == [ip EXCEPT !.prefix = IF p = UNSET THEN Width(ip.addr) ELSE p]
SetAddress(ip, a) == SetPrefix([ip EXCEPT !.addr = a], ip.prefix)
Ip(a, p)          == SetPrefix(SetAddress(NoIp, a), p)

Ipv4Default == [Ip(Any4, 0) EXCEPT !.reason = "Netmeld IPv4 default used"]
Ipv6Default == [Ip(Any6, 0) EXCEPT !.reason = "Netmeld IPv6 default used"]

\* Each group of an IPv6 address is written as two hexadecimal numbers with
\* nothing between them and no leading zero, and read back as one.
LOCAL Written(high, low) == IF low < 16 THEN high * 16 + low ELSE high * 256 + low
FromBytes(bytes) ==
  IF Len(bytes) = 4 THEN SetAddress(NoIp, bytes)
  ELSE IF Len(bytes) = 16
       THEN SetAddress(NoIp, [i \in 1..8 |-> Written(bytes[2 * i - 1], bytes[2 * i])])
       ELSE NoIp

\* convert: the address with every bit after the prefix cleared
LOCAL Masked(a, p) ==
  [i \in DOMAIN a |->
     LET g == Group(a)  kept == LET k == p - (g * (i - 1)) IN IF k < 0 THEN 0 ELSE IF k > g THEN g ELSE k
     IN  a[i] - (a[i] % 2^(g - kept))]

GetNetwork(ip) ==
  IF ip.prefix = UNSET THEN ip.addr
  ELSE IF ip.prefix > Width(ip.addr) THEN <<>> ELSE Masked(ip.addr, ip.prefix)

\* The loop counts ones until a one follows a zero, which makes the prefix the
\* whole width.  contiguous is what the call returns.
LOCAL CountStep(s, isOne) ==
  IF isOne /\ s.zero THEN [s EXCEPT !.contiguous = FALSE, !.count = s.width]
  ELSE IF isOne THEN [s EXCEPT !.count = @ + 1] ELSE [s EXCEPT !.zero = TRUE]
PrefixFromMask(mask, flip) ==
  LET w == Width(mask)
  IN  FoldLeft(CountStep, [count |-> 0, zero |-> FALSE, contiguous |-> TRUE, width |-> w],
               [i \in 1..w |-> (Bit(mask, i) = 1) # flip])

SetNetmask(ip, mask)      == [ip EXCEPT !.prefix = PrefixFromMask(mask, FALSE).count]
SetWildcardMask(ip, mask) == [ip EXCEPT !.prefix = PrefixFromMask(mask, TRUE).count]

\* bVal.test(0) is the last bit of the mask, not the first.
IsWildcard(mask)        == Bit(mask, Width(mask)) = 1
SetMask(ip, mask)       == IF IsWildcard(mask) THEN SetWildcardMask(ip, mask) ELSE SetNetmask(ip, mask)
MaskContiguous(mask)    == PrefixFromMask(mask, IsWildcard(mask)).contiguous

HasUnsetPrefix(ip) == ip.prefix = UNSET

LOCAL IsLoopback(a)  == IF Len(a) = 4 THEN a[1] = 127 ELSE a = <<0, 0, 0, 0, 0, 0, 0, 1>>
LOCAL IsMulticast(a) == IF Len(a) = 4 THEN a[1] \in 224..239 ELSE a[1] \div 256 = 255
LOCAL IsUnspecified(a) == \A i \in DOMAIN a : a[i] = 0
LOCAL NeverInserted(a) == IsLoopback(a) \/ IsMulticast(a) \/ IsUnspecified(a)

ValidNet(ip) == ~NeverInserted(ip.addr) /\ ip.prefix < Width(ip.addr)
ValidIp(ip)  == ~NeverInserted(ip.addr) /\ ip.prefix <= Width(ip.addr)

\* toString: a network is written with its host bits cleared, an address is not.
NetText(ip) == <<GetNetwork(ip), ip.prefix>>
IpText(ip)  == <<ip.addr, ip.prefix>>

\* All the names of an address share its one reason, the last one given.
AddAlias(ip, name, why) ==
  IF name = "" THEN ip ELSE [ip EXCEPT !.aliases = @ \union {name}, !.reason = why]
SetResponding(ip, up) == [ip EXCEPT !.up = up]
================================================================================
