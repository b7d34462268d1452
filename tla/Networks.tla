------------------------------ MODULE Networks ------------------------------
(***************************************************************************)
(* IP networks as the ban engine uses them, and the kernel ipset they end  *)
(* up in.                                                                  *)
(*                                                                         *)
(* A network is the code's IpNet: an address together with a prefix        *)
(* length. Two different networks can hold the same addresses, because     *)
(* IpNet does not clear the host bits (10.0.0.1/24 and 10.0.0.0/24 are     *)
(* unequal); Canon is IpNet::trunc.                                        *)
(***************************************************************************)
EXTENDS Integers, FiniteSets, FiniteSetsExt

CONSTANTS
  Addr,       \* IP addresses
  Net,        \* networks
  Members,    \* the addresses a network contains
  Base,       \* IpNet::addr, host bits included
  HostNet,    \* IpNet::from(ip), the /32 or /128 of an address
  Canon       \* IpNet::trunc, the network with its host bits cleared

ASSUME NetworkAssumption ==
  /\ Members \in [Net -> SUBSET Addr]
  /\ Base \in [Net -> Addr]
  /\ HostNet \in [Addr -> Net]
  /\ Canon \in [Net -> Net]
  /\ \A n \in Net : Base[n] \in Members[n] /\ Members[Canon[n]] = Members[n]
  /\ \A a \in Addr : Members[HostNet[a]] = {a}

-----------------------------------------------------------------------------
(* Maps with a changing domain: the code's HashMaps and HashSets.          *)

IsMap(f, S, R) == DOMAIN f \subseteq S /\ \A x \in DOMAIN f : f[x] \in R

Put(f, k, v) == [x \in DOMAIN f \cup {k} |-> IF x = k THEN v ELSE f[x]]

Drop(f, S) == Restrict(f, DOMAIN f \ S)

EmptyMap == [x \in {} |-> 0]

-----------------------------------------------------------------------------
(* Networks.                                                               *)

InAny(a, nets) == \E n \in nets : a \in Members[n]

\* is_network_covered: some network at least as wide contains all of n.
Covers(outer, inner) == Members[inner] \subseteq Members[outer]

CoveredByAny(n, nets) == \E e \in nets : Covers(e, n)

IsHostNet(n) == \E a \in Addr : n = HostNet[a]

-----------------------------------------------------------------------------
(* BanTarget: one address, or a subnet.                                    *)

Ip(a) == [kind |-> "ip", net |-> HostNet[a]]

Subnet(n) == [kind |-> "subnet", net |-> n]

Target == {Ip(a) : a \in Addr} \cup {Subnet(n) : n \in Net}

-----------------------------------------------------------------------------
(* The kernel's hash:net set, which is not part of the repository: one     *)
(* flagged entry per canonical network. `ipset -exist add` overwrites the  *)
(* flag of an existing entry, `ipset -exist del` removes the entry         *)
(* whatever its flag, and a packet is judged by the most specific entry.   *)

Entry(n) == Canon[n]

IpsetAdd(set, n, flag) == Put(set, Entry(n), flag)

IpsetDel(set, nets) == Drop(set, {Entry(n) : n \in nets})

Blocks(set, a) ==
  \E n \in DOMAIN set :
    /\ a \in Members[n]
    /\ set[n] = "match"
    /\ \A m \in DOMAIN set : a \in Members[m] => Covers(m, n)

=============================================================================
