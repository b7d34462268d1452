--------------------------- MODULE MCBanAggregate ---------------------------
(***************************************************************************)
(* Instance of BanAggregate for TLC: three addresses in subnets of two, an *)
(* operator who bans one address or a whole subnet, an allowlist that may  *)
(* hold one address. Where backend commands may fail the instance is       *)
(* smaller: hits from one subnet of two addresses, and one hit bans.       *)
(***************************************************************************)
EXTENDS BanAggregate, MCNetworks

MCAddr == 0..2
MCPair == 0..1

MCNet == {NetOf(a, Width) : a \in MCAddr} \cup {Truncated(NetOf(a, 1)) : a \in MCAddr}
MCMembers == Table([n \in MCNet |-> MembersIn(MCAddr, n)])
MCBase == Table([n \in MCNet |-> n.base])
MCHostNet == Table([a \in MCAddr |-> NetOf(a, Width)])
MCCanon == Table([n \in MCNet |-> Truncated(n)])
MCSubnetOf == Table([a \in MCAddr |-> Truncated(NetOf(a, 1))])

\* Durations in ticks, ordered as validate_config and validate_tuning demand.
Tuning(ip, subnet) ==
  [ipFailures |-> ip, subnetFailures |-> subnet, promoteAfter |-> 2,
   repromoteAfter |-> 1, scoreRetention |-> 2, reputationRetention |-> 3,
   promotionWindow |-> 2, subnetBan |-> 1,
   banLength |-> <<1, 2, 2, 2>>]

MCConfigs == {Tuning(2, 2)}

MCManualTargets == {Ip(0), Subnet(NetOf(0, 1))}

MCExceptionSets == {{NetOf(1, Width)}}

\* A step of the instance: hits of weight 1, and of weight 2 on the smaller one.
MCNext ==
  /\ \/ \E a \in IF faulty THEN MCPair ELSE MCAddr : Record(a, IF faulty THEN 2 ELSE 1)
     \/ NextBesideHits
  /\ UNCHANGED faulty
  /\ faulty => now' <= 1

MCSpec == Init /\ [][MCNext]_<<vars, faulty>>

\* What the theorems about kernel entries assume.
ASSUME EntriesAssumption == DistinctEntries

=============================================================================
