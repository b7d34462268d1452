---------------------------- MODULE BanAggregate ----------------------------
(***************************************************************************)
(* The aggregator of the ban engine (ban_attack/aggregate.rs): scores per  *)
(* address and per subnet, bans with expiry, reputation that makes repeat  *)
(* offenders stay longer, promotion of a subnet when several of its        *)
(* addresses offend, and the bounds on every table.                        *)
(*                                                                         *)
(* The aggregator is owned by the engine's worker thread, so each method   *)
(* is one action. Every call it makes to the backend is an `ipset`         *)
(* command; when `faulty` a command may report an error, and a command     *)
(* that reports one (it may have been killed at its deadline) may or may   *)
(* not have taken effect.                                                  *)
(*                                                                         *)
(* Left out: rule statistics, eviction_count, hit counts, sources and      *)
(* reasons, which are only reported. Of an active ban only its expiry is   *)
(* kept.                                                                   *)
(***************************************************************************)
EXTENDS Networks

CONSTANTS
  SubnetOf,           \* subnet_for: the subnet bucket of an address
  Configs,            \* the tunable part of AggregationConfig
  MaxTrackedIps,      \* max_tracked_ips
  MaxTrackedSubnets,  \* max_tracked_subnets
  MaxReputation,      \* max_reputation_entries
  MaxActiveBans,      \* max_active_bans
  MaxScore,           \* u64::MAX, where scores saturate
  MaxOffense,         \* u32::MAX, where offense counts saturate
  Weights,            \* rule weights
  ManualTargets,      \* targets an operator bans, resets
  ManualDurations,    \* durations of manual bans
  ExceptionSets,      \* the sets of networks an allowlist may hold
  FaultyBackend,      \* the values of faulty that are considered
  MaxTime             \* bound: the clock stops here

\* The configurations that compile: validate_config refuses the others.
LegalConfigs ==
  {c \in [ipFailures : Nat \ {0}, subnetFailures : Nat \ {0},
          promoteAfter : Nat \ {0, 1}, repromoteAfter : Nat \ {0},
          scoreRetention : Nat \ {0}, reputationRetention : Nat \ {0},
          promotionWindow : Nat \ {0}, subnetBan : Nat \ {0},
          banLength : [1..4 -> Nat \ {0}]] :
     \A i \in 1..3 : c.banLength[i] <= c.banLength[i + 1]}

ASSUME AggregateAssumption ==
  /\ SubnetOf \in [Addr -> Net]
  /\ \A a, b \in Addr : b \in Members[SubnetOf[a]] <=> SubnetOf[b] = SubnetOf[a]
  /\ Configs \subseteq LegalConfigs
  /\ {MaxTrackedIps, MaxTrackedSubnets, MaxReputation, MaxActiveBans}
       \subseteq Nat \ {0}
  /\ MaxScore \in Nat \ {0}
  /\ MaxOffense \in Nat \ {0}
  /\ Weights \subseteq 1..MaxScore
  /\ ManualTargets \subseteq Target
  /\ ManualDurations \subseteq Nat \ {0}
  /\ \A exc \in ExceptionSets : exc \subseteq Net
  /\ FaultyBackend \subseteq BOOLEAN
  /\ MaxTime \in Nat

VARIABLES
  config,         \* the AggregationConfig in force
  ipCounts,       \* address -> score
  lastSeen,       \* address -> time of its last recorded hit
  subnetCounts,   \* subnet -> score
  offenders,      \* <<subnet, address>> -> when the address crossed the threshold
  reputation,     \* network -> [offense, banned, until]
  active,         \* target -> expires_at
  bannedIps,      \* addresses banned one by one
  bannedSubnets,  \* subnets banned as a whole
  ipset,          \* the kernel's set
  now,            \* wall clock
  faulty          \* whether backend commands may fail, the same for ever

scoreVars == <<ipCounts, lastSeen, subnetCounts, offenders>>
banVars == <<reputation, active, bannedIps, bannedSubnets>>
vars == <<config, scoreVars, banVars, ipset, now>>

Time == Nat
Flag == {"match", "nomatch"}
Score == 0..MaxScore
Offender == Net \X Addr
Reputation == [offense : 0..MaxOffense, banned : Time, until : Time]

-----------------------------------------------------------------------------
(* Operators the methods share.                                            *)

\* Mutation: a plain addition.
SaturatedNever(x, max) == x

\* saturating_add stops at max.
Saturated(x, max) == IF x \in 0..max THEN x ELSE max

Later(s, t) == IF s >= t THEN s ELSE t

ValueOr(f, k, default) == IF k \in DOMAIN f THEN f[k] ELSE default

\* The k entries with the smallest time, whichever way ties are broken.
OldestKeys(time, k) ==
  {E \in kSubset(k, DOMAIN time) :
     \A x \in E, y \in DOMAIN time \ E : time[x] <= time[y]}

\* Mutation: room is made one entry too late.
ExcessOffByOne(n, limit) == IF n > limit THEN n - limit ELSE 0

\* How many entries must leave a table of n for one more to fit under limit.
Excess(n, limit) == IF n >= limit THEN n - limit + 1 ELSE 0

\* rebuild_subnet_counts.
ScoreSum(counts, n) ==
  MapThenSumSet(LAMBDA a : counts[a], {a \in DOMAIN counts : SubnetOf[a] = n})

SubnetTotals(counts) ==
  [n \in {SubnetOf[a] : a \in DOMAIN counts} |-> Saturated(ScoreSum(counts, n), MaxScore)]

IsCoveredByBannedSubnet(a) == InAny(a, bannedSubnets)

SeenTooLongAgo(a) == lastSeen[a] + config.scoreRetention <= now

\* What a backend command that reports an error may have left behind.
MaybeDone(before, after) == {before, after}

-----------------------------------------------------------------------------
(* Scoring one hit: make_room_for_ip, make_room_for_subnet and the two     *)
(* counters. A stale score is forgotten first; the oldest address gives    *)
(* way when the table is full, then the oldest subnet with all its         *)
(* addresses.                                                              *)

StaleScore(a) == {x \in {a} \cap DOMAIN lastSeen : SeenTooLongAgo(x)}

IpVictims(a) ==
  LET kept  == Drop(lastSeen, StaleScore(a))
      known == DOMAIN ipCounts \ StaleScore(a)
  IN  IF a \in known THEN {{}}
      ELSE OldestKeys(kept, Excess(Cardinality(known), MaxTrackedIps))

\* The time of the last hit from a subnet, -1 when none is remembered.
SubnetLastSeen(seen, n) ==
  Max({seen[x] : x \in DOMAIN seen \cap Members[n]} \cup {-1})

SubnetVictims(totals, seen, n) ==
  IF n \in DOMAIN totals \/ Cardinality(DOMAIN totals) < MaxTrackedSubnets
  THEN {{}}
  ELSE OldestKeys([m \in DOMAIN totals |-> SubnetLastSeen(seen, m)], 1)

\* Mutation: the subnet scores are not rebuilt after an eviction.
ScoreWithoutRebuild(a, w, V, S) ==
  LET gone   == StaleScore(a) \cup V
      counts == Drop(ipCounts, gone)
      inS    == {x \in DOMAIN counts : InAny(x, S)}
      n      == SubnetOf[a]
  IN  [counts    |-> Put(Drop(counts, inS), a,
                         Saturated(ValueOr(counts, a, 0) + w, MaxScore)),
       before    |-> ValueOr(counts, a, 0),
       seen      |-> Put(Drop(lastSeen, gone \cup inS), a, now),
       totals    |-> Put(Drop(subnetCounts, S), n,
                         Saturated(ValueOr(subnetCounts, n, 0) + w, MaxScore)),
       offenders |-> Drop(offenders, {k \in DOMAIN offenders : k[1] \in S})]

\* The tables after the hit, once the victims V and S have been evicted.
ScoreWithout(a, w, V, S) ==
  LET gone   == StaleScore(a) \cup V
      counts == Drop(ipCounts, gone)
      totals == IF gone = {} THEN subnetCounts ELSE SubnetTotals(counts)
      inS    == {x \in DOMAIN counts : InAny(x, S)}
      n      == SubnetOf[a]
  IN  [counts    |-> Put(Drop(counts, inS), a,
                         Saturated(ValueOr(counts, a, 0) + w, MaxScore)),
       before    |-> ValueOr(counts, a, 0),
       seen      |-> Put(Drop(lastSeen, gone \cup inS), a, now),
       totals    |-> Put(Drop(totals, S), n,
                         Saturated(ValueOr(totals, n, 0) + w, MaxScore)),
       offenders |-> Drop(offenders, {k \in DOMAIN offenders : k[1] \in S})]

TotalsWithout(a, V) ==
  IF StaleScore(a) \cup V = {} THEN subnetCounts
  ELSE SubnetTotals(Drop(ipCounts, StaleScore(a) \cup V))

ScoreOutcomes(a, w) ==
  UNION {{ScoreWithout(a, w, V, S) :
            S \in SubnetVictims(TotalsWithout(a, V),
                                Drop(lastSeen, StaleScore(a) \cup V),
                                SubnetOf[a])} :
         V \in IpVictims(a)}

\* record_subnet_offender: at most one record per address and subnet, the
\* oldest of all gives way when max_tracked_ips are held, and those of this
\* subnet outside the promotion window are forgotten.
OffenderOutcomes(a, off) ==
  LET n       == SubnetOf[a]
      victims == IF <<n, a>> \in DOMAIN off \/ Cardinality(DOMAIN off) < MaxTrackedIps
                 THEN {{}}
                 ELSE OldestKeys(off, 1)
      lapsed(V) == {k \in DOMAIN off \ V :
                      k[1] = n /\ off[k] <= now - config.promotionWindow}
  IN  {Put(Drop(off, V \cup lapsed(V)), <<n, a>>, now) : V \in victims}

DistinctOffenders(off, n) == Cardinality({k \in DOMAIN off : k[1] = n})

ShouldPromote(a, s, off) ==
  LET n == SubnetOf[a]
  IN  \/ /\ s.counts[a] >= config.ipFailures
         /\ n \in DOMAIN reputation
         /\ reputation[n].offense >= config.repromoteAfter
      \/ DistinctOffenders(off, n) >= config.promoteAfter
      \/ /\ s.totals[n] >= config.subnetFailures
         /\ Cardinality(DOMAIN s.counts \cap Members[n]) >= config.promoteAfter

-----------------------------------------------------------------------------
(* add_timed: the ban is put in the kernel first, then recorded, then the  *)
(* network's reputation grows and the reputation table is trimmed.         *)

HasRoomFor(t) == t \in DOMAIN active \/ Cardinality(DOMAIN active) < MaxActiveBans

NextOffense(n) ==
  IF n \in DOMAIN reputation
  THEN Saturated(reputation[n].offense + 1, MaxOffense)
  ELSE 1

BanLength(n) == config.banLength[IF NextOffense(n) <= 3 THEN NextOffense(n) ELSE 4]

ReputationAfterBan(n) ==
  LET entry == [offense |-> NextOffense(n), banned |-> now,
                until |-> now + config.reputationRetention]
      grown == Put(reputation, n, entry)
      excess == Excess(Cardinality(DOMAIN grown), MaxReputation + 1)
  IN  {Drop(grown, V) :
         V \in OldestKeys([m \in DOMAIN grown |-> grown[m].banned], excess)}

\* The ban is refused: the table is full, or the backend reported an error.
BanFails(t) ==
  /\ UNCHANGED banVars
  /\ \/ ~HasRoomFor(t) /\ UNCHANGED ipset
     \/ /\ HasRoomFor(t) /\ faulty
        /\ ipset' \in MaybeDone(ipset, IpsetAdd(ipset, t.net, "match"))

\* An address is banned on its own.
BanIp(a, expiry) ==
  /\ HasRoomFor(Ip(a))
  /\ active' = Put(active, Ip(a), expiry)
  /\ bannedIps' = bannedIps \cup {a}
  /\ reputation' \in ReputationAfterBan(HostNet[a])
  /\ ipset' = IpsetAdd(ipset, HostNet[a], "match")
  /\ UNCHANGED bannedSubnets

\* Mutation: the address bans of the subnet are left in place.
BanSubnetBesideIps(n, expiry) ==
  /\ HasRoomFor(Subnet(n))
  /\ active' = Put(active, Subnet(n), expiry)
  /\ bannedSubnets' = bannedSubnets \cup {n}
  /\ reputation' \in ReputationAfterBan(n)
  /\ ipset' = IpsetAdd(ipset, n, "match")
  /\ UNCHANGED bannedIps

\* Mutation: the kernel entries of the address bans are forgotten.
BanSubnetOverEntries(n, expiry) ==
  LET taken == bannedIps \cap Members[n]
  IN  /\ HasRoomFor(Subnet(n))
      /\ active' = Drop(Put(active, Subnet(n), expiry), {Ip(a) : a \in taken})
      /\ bannedIps' = bannedIps \ taken
      /\ bannedSubnets' = bannedSubnets \cup {n}
      /\ reputation' \in ReputationAfterBan(n)
      /\ ipset' = IpsetAdd(ipset, n, "match")

\* A subnet is banned and takes over from the bans of its addresses
\* (remove_covered_ip_bans): an address ban is forgotten even when the
\* backend could not remove its entry.
BanSubnet(n, expiry) ==
  LET taken == bannedIps \cap Members[n]
      hosts == {HostNet[a] : a \in taken}
      added == IpsetAdd(ipset, n, "match")
  IN  /\ HasRoomFor(Subnet(n))
      /\ active' = Drop(Put(active, Subnet(n), expiry), {Ip(a) : a \in taken})
      /\ bannedIps' = bannedIps \ taken
      /\ bannedSubnets' = bannedSubnets \cup {n}
      /\ reputation' \in ReputationAfterBan(n)
      /\ \E done \in (IF faulty THEN SUBSET hosts ELSE {hosts}) :
           ipset' = IpsetDel(added, done)

-----------------------------------------------------------------------------
(* The methods the worker calls.                                           *)

\* record: ok says whether the method returns Ok. On an error the scores
\* and offenders have already changed.
RecordStep(a, w, ok) ==
  \E s \in ScoreOutcomes(a, w) :
    /\ ipCounts' = s.counts
    /\ lastSeen' = s.seen
    /\ subnetCounts' = s.totals
    /\ UNCHANGED <<config, now>>
    /\ \/ /\ IsCoveredByBannedSubnet(a)
          /\ ok
          /\ offenders' = s.offenders
          /\ UNCHANGED <<banVars, ipset>>
       \/ /\ ~IsCoveredByBannedSubnet(a)
          /\ LET n       == SubnetOf[a]
                 over    == s.counts[a] >= config.ipFailures
                 crossed == over /\ s.before < config.ipFailures
             IN  \E off \in (IF crossed THEN OffenderOutcomes(a, s.offenders)
                             ELSE {s.offenders}) :
                   /\ offenders' = off
                   /\ \/ /\ ShouldPromote(a, s, off)
                         /\ \/ /\ ok
                               /\ BanSubnet(n, now + Later(BanLength(n), config.subnetBan))
                            \/ ~ok /\ BanFails(Subnet(n))
                      \/ /\ ~ShouldPromote(a, s, off)
                         /\ over /\ a \notin bannedIps
                         /\ \/ ok /\ BanIp(a, now + BanLength(HostNet[a]))
                            \/ ~ok /\ BanFails(Ip(a))
                      \/ /\ ~ShouldPromote(a, s, off)
                         /\ ~over \/ a \in bannedIps
                         /\ ok
                         /\ UNCHANGED <<banVars, ipset>>

Record(a, w) == \E ok \in BOOLEAN : RecordStep(a, w, ok)

\* add_manual.
AddManualOk(t, length) ==
  /\ \/ \E a \in Addr :
          /\ t = Ip(a)
          /\ ~IsCoveredByBannedSubnet(a)
          /\ BanIp(a, now + length)
     \/ \E n \in Net : t = Subnet(n) /\ BanSubnet(n, now + length)
  /\ UNCHANGED <<config, scoreVars, now>>

\* add_manual returning an error it did not foresee in its first check.
AddManualFails(t) ==
  /\ \A a \in Addr : t = Ip(a) => ~IsCoveredByBannedSubnet(a)
  /\ BanFails(t)
  /\ UNCHANGED <<config, scoreVars, now>>

AddManual(t, length) == AddManualOk(t, length) \/ AddManualFails(t)

\* Mutation: banned_subnets keeps a subnet whose ban was lifted.
LiftKeepingSubnets(T) ==
  /\ active' = Drop(active, T)
  /\ bannedIps' = {a \in bannedIps : Ip(a) \notin T}
  /\ UNCHANGED bannedSubnets

\* The bookkeeping of lifting the bans in T.
Lift(T) ==
  /\ active' = Drop(active, T)
  /\ bannedIps' = {a \in bannedIps : Ip(a) \notin T}
  /\ bannedSubnets' = {n \in bannedSubnets : Subnet(n) \notin T}

\* A loop that removes the bans in T one after the other, in no particular
\* order, and returns at the first error; those in before are removed by then.
LiftUntilError(before, T) ==
  \E some \in SUBSET T, failed \in T :
    LET done    == before \cup some
        removed == IpsetDel(ipset, {t.net : t \in done})
    IN  /\ failed \notin some
        /\ Lift(done)
        /\ ipset' \in MaybeDone(removed, IpsetDel(removed, {failed.net}))

\* Mutation: bans are lifted a tick early.
ExpiredBansEarly == {t \in DOMAIN active : active[t] <= now + 1}

\* Mutation: only the bans of addresses expire.
ExpiredBansOfIps == {t \in DOMAIN active : active[t] <= now /\ t.kind = "ip"}

ExpiredBans == {t \in DOMAIN active : active[t] <= now}

\* cleanup_expired when every removal succeeds: what has aged is pruned.
CleanupOk ==
  LET aged   == {a \in DOMAIN lastSeen : SeenTooLongAgo(a)}
      counts == Restrict(ipCounts, (DOMAIN ipCounts \cap DOMAIN lastSeen) \ aged)
  IN  /\ Lift(ExpiredBans)
      /\ ipset' = IpsetDel(ipset, {t.net : t \in ExpiredBans})
      /\ ipCounts' = counts
      /\ lastSeen' = Drop(lastSeen, aged)
      /\ subnetCounts' = SubnetTotals(counts)
      /\ reputation' = Drop(reputation,
                            {n \in DOMAIN reputation : reputation[n].until <= now})
      /\ offenders' = Drop(offenders,
                           {k \in DOMAIN offenders :
                              offenders[k] <= now - config.promotionWindow})
      /\ UNCHANGED <<config, now>>

\* cleanup_expired when a removal fails: nothing is pruned.
CleanupFails ==
  /\ faulty
  /\ LiftUntilError({}, ExpiredBans)
  /\ UNCHANGED <<config, scoreVars, reputation, now>>

CleanupExpired == CleanupOk \/ CleanupFails

\* The bans that the networks in exc exempt.
ExemptIps(exc) == {Ip(a) : a \in {x \in bannedIps : InAny(x, exc)}}
ExemptSubnets(exc) == {Subnet(n) : n \in {m \in bannedSubnets : CoveredByAny(m, exc)}}
ExemptBans(exc) == ExemptIps(exc) \cup ExemptSubnets(exc)

\* apply_exceptions when every removal succeeds.
ApplyExceptionsOk(exc) ==
  LET exempt == {a \in Addr : InAny(a, exc)}
  IN  /\ Lift(ExemptBans(exc))
      /\ ipset' = IpsetDel(ipset, {t.net : t \in ExemptBans(exc)})
      /\ ipCounts' = Drop(ipCounts, exempt)
      /\ lastSeen' = Drop(lastSeen, exempt)
      /\ subnetCounts' = SubnetTotals(Drop(ipCounts, exempt))
      /\ reputation' = Drop(reputation, {n \in DOMAIN reputation : CoveredByAny(n, exc)})
      /\ offenders' = Drop(offenders, {k \in DOMAIN offenders :
                                         CoveredByAny(k[1], exc) \/ k[2] \in exempt})
      /\ UNCHANGED <<config, now>>

\* apply_exceptions stopped by an error, among the addresses or, once they are
\* all lifted, among the subnets: no history is cleared.
ApplyExceptionsFails(exc) ==
  /\ faulty
  /\ \/ LiftUntilError({}, ExemptIps(exc))
     \/ LiftUntilError(ExemptIps(exc), ExemptSubnets(exc))
  /\ UNCHANGED <<config, scoreVars, reputation, now>>

ApplyExceptions(exc) == ApplyExceptionsOk(exc) \/ ApplyExceptionsFails(exc)

\* Mutation: last_seen keeps the addresses that were reset.
ResetCountsKeepingSeen(t) ==
  LET ips    == Members[t.net]
      nets   == IF t.kind = "ip" THEN {t.net}
                ELSE {n \in Net : Base[n] \in Members[t.net]}
      counts == Drop(ipCounts, ips)
  IN  /\ ipCounts' = counts
      /\ subnetCounts' = SubnetTotals(counts)
      /\ reputation' = Drop(reputation, nets)
      /\ offenders' = Drop(offenders, {k \in DOMAIN offenders : k[2] \in ips})
      /\ UNCHANGED <<config, lastSeen, active, bannedIps, bannedSubnets, ipset, now>>

\* reset_counts: an address forgets the offenses of its own host network
\* only; a subnet forgets every network whose address it contains.
ResetCounts(t) ==
  LET ips    == Members[t.net]
      nets   == IF t.kind = "ip" THEN {t.net}
                ELSE {n \in Net : Base[n] \in Members[t.net]}
      counts == Drop(ipCounts, ips)
  IN  /\ ipCounts' = counts
      /\ lastSeen' = Drop(lastSeen, ips)
      /\ subnetCounts' = SubnetTotals(counts)
      /\ reputation' = Drop(reputation, nets)
      /\ offenders' = Drop(offenders, {k \in DOMAIN offenders :
                                         IF t.kind = "ip" THEN k[2] \in ips
                                         ELSE k[1] \in nets})
      /\ UNCHANGED <<config, active, bannedIps, bannedSubnets, ipset, now>>

\* reconfigure.
Reconfigure(c) ==
  /\ config' = c
  /\ subnetCounts' = SubnetTotals(ipCounts)
  /\ UNCHANGED <<ipCounts, lastSeen, offenders, banVars, ipset, now>>

\* The wall clock moves on.
Tick ==
  /\ now < MaxTime
  /\ now' = now + 1
  /\ UNCHANGED <<config, scoreVars, banVars, ipset>>

-----------------------------------------------------------------------------

\* Aggregator::new over an empty set.
Init ==
  /\ config \in Configs
  /\ ipCounts = EmptyMap
  /\ lastSeen = EmptyMap
  /\ subnetCounts = EmptyMap
  /\ offenders = EmptyMap
  /\ reputation = EmptyMap
  /\ active = EmptyMap
  /\ bannedIps = {}
  /\ bannedSubnets = {}
  /\ ipset = EmptyMap
  /\ now = 0
  /\ faulty \in FaultyBackend

NextBesideHits ==
  \/ \E t \in ManualTargets, length \in ManualDurations : AddManual(t, length)
  \/ CleanupExpired
  \/ \E exc \in ExceptionSets : ApplyExceptions(exc)
  \/ \E t \in ManualTargets : ResetCounts(t)
  \/ \E c \in Configs : Reconfigure(c)
  \/ Tick

Next == (\E a \in Addr, w \in Weights : Record(a, w)) \/ NextBesideHits

Spec == Init /\ [][Next /\ UNCHANGED faulty]_<<vars, faulty>>

-----------------------------------------------------------------------------
(* Properties.                                                             *)

(* Every table of the aggregator holds values of its type.                 *)
TypeOK ==
  /\ config \in Configs
  /\ IsMap(ipCounts, Addr, Score)
  /\ IsMap(lastSeen, Addr, Time)
  /\ IsMap(subnetCounts, Net, Score)
  /\ IsMap(offenders, Offender, Time)
  /\ IsMap(reputation, Net, Reputation)
  /\ IsMap(active, Target, Time)
  /\ bannedIps \subseteq Addr
  /\ bannedSubnets \subseteq Net
  /\ IsMap(ipset, Net, Flag)
  /\ now \in Time

(* The three tables that describe the bans agree: banned_ips and           *)
(* banned_subnets, which decide whether a hit is ignored or banned again,  *)
(* are exactly the keys of active_bans, which decides what is reconciled,  *)
(* persisted and expired.                                                  *)
BansAgree == DOMAIN active = {Ip(a) : a \in bannedIps} \cup {Subnet(n) : n \in bannedSubnets}

(* A banned subnet is authoritative over its addresses: none of them is    *)
(* banned individually at the same time (aggregate.rs, add_manual and      *)
(* remove_covered_ip_bans).                                                *)
SubnetBansSubsume == \A a \in bannedIps : ~InAny(a, bannedSubnets)

(* Every scored address has a last sighting and the other way round, so    *)
(* that every score can age out and be evicted.                            *)
ScoresDated == DOMAIN ipCounts = DOMAIN lastSeen

(* The subnet scores, which record updates in place, are those that        *)
(* rebuild_subnet_counts would compute from the address scores.            *)
SubnetScoresExact == subnetCounts = SubnetTotals(ipCounts)

(* No table outgrows its configured capacity, whatever is recorded or      *)
(* banned.                                                                 *)
WithinCapacity ==
  /\ Cardinality(DOMAIN ipCounts) <= MaxTrackedIps
  /\ Cardinality(DOMAIN subnetCounts) <= MaxTrackedSubnets
  /\ Cardinality(DOMAIN offenders) <= MaxTrackedIps
  /\ Cardinality(DOMAIN reputation) <= MaxReputation
  /\ Cardinality(DOMAIN active) <= MaxActiveBans

(* The kernel set holds a matching entry for each active ban and nothing   *)
(* else, when no command fails.                                            *)
IpsetMirrorsBans ==
  /\ DOMAIN ipset = {Entry(t.net) : t \in DOMAIN active}
  /\ \A n \in DOMAIN ipset : ipset[n] = "match"

(* What hits, promotions and operators ban. The code lets two of them      *)
(* share a kernel entry (a subnet prefix of 32 makes the host networks the *)
(* subnets, an operator may write one network in two ways), and then the   *)
(* end of one ban removes the entry of the other: what is proved about     *)
(* entries assumes that they do not.                                       *)
PossibleTargets ==
  {Ip(a) : a \in Addr} \cup {Subnet(SubnetOf[a]) : a \in Addr} \cup ManualTargets

DistinctEntries ==
  \A t, u \in PossibleTargets : Entry(t.net) = Entry(u.net) => t = u

(* Whatever command fails, a ban on record that has not expired has its    *)
(* entry in the kernel, unless the removal of an exempt ban stopped in the *)
(* middle: failed removals leave entries without a ban, never a ban        *)
(* without its entry.                                                      *)
BansEnforcedDespiteFaults ==
  \A t \in DOMAIN active :
    active[t] > now =>
      \/ ValueOr(ipset, Entry(t.net), "absent") = "match"
      \/ \E exc \in ExceptionSets : t \in ExemptBans(exc)

(* The kernel set holds a matching entry for each active ban and nothing   *)
(* else as long as no command fails; when commands fail, no ban in force   *)
(* lacks its entry (aggregate.rs adds the entry before the ban, and drops  *)
(* the ban after the entry).                                               *)
IpsetFollowsBans == BansEnforcedDespiteFaults /\ (~faulty => IpsetMirrorsBans)

\* What may end the bans that a step ends.
BansEndRightly ==
  \A t \in DOMAIN active \ DOMAIN active' :
    \/ active[t] <= now
    \/ \E u \in DOMAIN active' : Covers(u.net, t.net) /\ active'[u] > now
    \/ \E exc \in ExceptionSets : ApplyExceptions(exc)

(* Only its own expiry or an exception ends a ban before its time: no hit, *)
(* manual ban, promotion, cleanup, reset or failed command drops a ban     *)
(* that has not expired, unless an unexpired ban of a network around it    *)
(* takes over.                                                             *)
BansHold == [][BansEndRightly]_active

=============================================================================
