---------------------------- MODULE MCBanWorker ----------------------------
(***************************************************************************)
(* Instances of BanWorker for TLC.                                         *)
(***************************************************************************)
EXTENDS BanWorker, MCNetworks

MCPair == 0..1
MCOne == {0}

MCNet == {NetOf(a, Width) : a \in Addr} \cup {Truncated(NetOf(a, 1)) : a \in Addr}
MCMembers == [n \in Net |-> MembersIn(Addr, n)]
MCBase == [n \in Net |-> n.base]
MCHostNet == [a \in Addr |-> NetOf(a, Width)]
MCCanon == [n \in Net |-> Truncated(n)]
MCSubnetOf == [a \in Addr |-> Truncated(NetOf(a, 1))]

\* One hit bans, a subnet that was banned before is promoted at once.
MCConfigs ==
  {[ipFailures |-> 2, subnetFailures |-> 9, promoteAfter |-> 2,
    repromoteAfter |-> 1, scoreRetention |-> 1, reputationRetention |-> 2,
    promotionWindow |-> 1, subnetBan |-> 1, banLength |-> <<1, 1, 1, 1>>]}

MCManualTargets == {Subnet(NetOf(0, 1))}
MCManualBoth == {Subnet(NetOf(0, 1)), Ip(1)}

MCExceptionSets == {{NetOf(1, Width)}}
MCExceptionOne == {{NetOf(0, Width)}}

\* What the theorems about kernel entries and the state file assume.
ASSUME EntriesAssumption == DistinctEntries

=============================================================================
