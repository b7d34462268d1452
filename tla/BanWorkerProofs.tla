--------------------------- MODULE BanWorkerProofs ---------------------------
(***************************************************************************)
(* Theorems about the worker of the ban engine and its state file, for     *)
(* every set of addresses and networks, every configuration and capacity,  *)
(* with a backend and a disk that may fail and a process that may be       *)
(* killed between any two steps.                                           *)
(***************************************************************************)
EXTENDS BanWorker, BanAggregateProofs

-----------------------------------------------------------------------------
(* The inductive invariant.                                                *)

(* A file holds what a snapshot of the memory could hold.                  *)
FileFits(file) ==
  /\ IsMap(file.bans, Net, Time)
  /\ Within(DOMAIN file.bans, MaxActiveBans)
  /\ IsMap(file.scores, Addr, Score)
  /\ IsMap(file.seen, Addr, Time)
  /\ DOMAIN file.scores = DOMAIN file.seen
  /\ Within(DOMAIN file.scores, MaxTrackedIps)
  /\ Within(ScoredSubnets(file.scores), MaxTrackedSubnets)
  /\ IsMap(file.reputation, Net, Reputation)
  /\ Within(DOMAIN file.reputation, MaxReputation)
  /\ IsMap(file.offenders, Offender, Time)
  /\ Within(DOMAIN file.offenders, MaxTrackedIps)

(* A worker that is down remembers no ban, and an update that is about to  *)
(* take effect has lifted every ban it exempts.                            *)
PhaseInv ==
  /\ phase = "down" => DOMAIN active = {}
  /\ phase = "applied" => ExemptBans(candidate.exceptions) = {}

WorkerInv ==
  /\ IInv
  /\ phase \in Phase
  /\ exceptions \in Allowlists
  /\ candidate \in Candidate
  /\ dirty \in BOOLEAN
  /\ FileFits(disk)
  /\ PhaseInv

(* The bans of a file are bans of possible targets, and none of an address *)
(* stands beside one of a subnet around it.                                *)
FileNets(file) ==
  /\ \A n \in DOMAIN file.bans : \E t \in PossibleTargets : t.net = n
  /\ \A m, n \in DOMAIN file.bans : IsHostNet(n) /\ Covers(m, n) => IsHostNet(m)

(* Unless memory is marked as ahead of it, the file has every ban.         *)
Filed(file, t) == t.net \in DOMAIN file.bans /\ file.bans[t.net] = active[t]

FiledInv == ~dirty => \A t \in DOMAIN active : Filed(disk, t)

(* A start has brought back every ban of the file.                         *)
RestoredInv ==
  phase = "starting" => \A n \in Unexpired : \E t \in DOMAIN active : t.net = n /\ Filed(disk, t)

EntriesInv == EnforcedInv /\ FileNets(disk) /\ FiledInv /\ RestoredInv

-----------------------------------------------------------------------------
(* Types.                                                                  *)

\* Allowlists are sets of networks.
LEMMA AllowlistTypes ==
  \A exc \in Allowlists : exc \subseteq Net
  BY AggregateAssumption DEF Allowlists

\* What is within a limit is within a larger one, and so are its subsets.
LEMMA SubsetWithin ==
  ASSUME NEW D, NEW M \in Nat, Within(D, M), NEW limit \in Nat, M <= limit
  PROVE  /\ Within(D, limit)
         /\ \A E \in SUBSET D : Within(E, M)
<1>1. Cardinality(D) \in Nat
  BY FS_CardinalityType DEF Within
<1>2. Within(D, limit)
  BY <1>1 DEF Within
<1>. QED
  BY <1>2, SmallerWithin

(* A table that was cut to fit is a part of it within the limit.           *)
LEMMA FittingPart ==
  ASSUME NEW S, IsFiniteSet(S), NEW limit \in Nat, NEW F \in Fitting(S, limit)
  PROVE  F \subseteq S /\ Within(F, limit)
<1>1. CASE Cardinality(S) <= limit
  BY <1>1 DEF Fitting, Within
<1>2. CASE ~(Cardinality(S) <= limit)
  <2>1. F \in SUBSET S /\ Cardinality(F) = limit
    BY <1>2 DEF Fitting, kSubset
  <2>. QED
    BY <2>1, FS_Subset DEF Within
<1>. QED
  BY <1>1, <1>2

\* What fits is kept entirely.
LEMMA FittingAll ==
  ASSUME NEW S, NEW limit, Within(S, limit), NEW F \in Fitting(S, limit)
  PROVE  F = S
  BY DEF Fitting, Within

(* A host network is that of one address.                                  *)
LEMMA HostNetInjective ==
  \A a, b \in Addr : HostNet[a] = HostNet[b] => a = b
  BY Targets DEF Ip

(* The addresses whose host networks are among some networks are no more   *)
(* than those networks.                                                    *)
LEMMA HostsWithin ==
  ASSUME NEW N, NEW M \in Nat, Within(N, M), NEW A, A \subseteq Addr,
         \A a \in A : HostNet[a] \in N
  PROVE  Within(A, M)
<1> DEFINE f == [a \in A |-> HostNet[a]]
<1>1. f \in Injection(A, N)
  BY HostNetInjective DEF Injection, IsInjective
<1>2. IsFiniteSet(A) /\ Cardinality(A) <= Cardinality(N)
  BY <1>1, FS_Injection DEF Within
<1>3. Cardinality(A) \in Nat /\ Cardinality(N) \in Nat
  BY <1>2, FS_CardinalityType DEF Within
<1>. QED
  BY <1>2, <1>3 DEF Within

(* An image is no larger than the set.                                     *)
LEMMA ImageSize ==
  ASSUME NEW S, IsFiniteSet(S), NEW f
  PROVE  IsFiniteSet({f[x] : x \in S}) /\ Cardinality({f[x] : x \in S}) <= Cardinality(S)
<1> DEFINE g == [x \in S |-> f[x]]
<1>1. g \in Surjection(S, {f[x] : x \in S})
  BY DEF Surjection
<1>. QED
  BY <1>1, FS_Surjection

(* The networks of the bans are no more than the bans.                     *)
LEMMA NetsWithin ==
  ASSUME NEW T, NEW M \in Nat, Within(T, M)
  PROVE  Within({t.net : t \in T}, M)
<1> DEFINE N == {t.net : t \in T}
           f == [t \in T |-> t.net]
<1>1. N = {f[t] : t \in T}
  OBVIOUS
<1> HIDE DEF N, f
<1>2. IsFiniteSet(N) /\ Cardinality(N) <= Cardinality(T)
  BY <1>1, ImageSize DEF Within
<1>3. Cardinality(N) \in Nat /\ Cardinality(T) \in Nat
  BY <1>2, FS_CardinalityType DEF Within
<1>4. Within(N, M)
  BY <1>2, <1>3 DEF Within
<1>. QED
  BY <1>4 DEF N

\* A restricted map is a map.
LEMMA RestrictType ==
  ASSUME NEW S, NEW R, NEW f, IsMap(f, S, R), NEW D, D \subseteq DOMAIN f
  PROVE  /\ IsMap(Restrict(f, D), S, R)
         /\ DOMAIN Restrict(f, D) = D
         /\ \A x \in D : Restrict(f, D)[x] = f[x]
  BY DEF IsMap, Restrict

-----------------------------------------------------------------------------
(* The state file.                                                         *)

\* What is saved of tables in good order is a file in good order.
LEMMA SnapshotFits ==
  ASSUME IInv
  PROVE  FileFits(Snapshot)
<1>1. ScoresInv /\ BansInv
  BY DEF IInv
<1> DEFINE nets == {t.net : t \in DOMAIN active}
           file == Snapshot
<1>2. file.bans = [n \in nets |-> active[CHOOSE t \in DOMAIN active : t.net = n]]
  BY DEF Snapshot
<1>3. Within(nets, MaxActiveBans)
  BY <1>1, NetsWithin, ConstantTypes DEF BansInv
<1>4. IsMap(file.bans, Net, Time)
  <2>1. nets \subseteq Net
    BY <1>1, TargetNet DEF BansInv, IsMap
  <2>2. \A n \in nets : active[CHOOSE t \in DOMAIN active : t.net = n] \in Time
    BY <1>1 DEF BansInv, IsMap
  <2>. QED
    BY <1>2, <2>1, <2>2 DEF IsMap
<1>5. /\ file.scores = ipCounts /\ file.seen = lastSeen
      /\ file.reputation = reputation /\ file.offenders = offenders
  BY DEF Snapshot
<1> HIDE DEF file
<1>6. Within(ScoredSubnets(file.scores), MaxTrackedSubnets)
  BY <1>1, <1>5 DEF ScoresInv, SubnetsScored
<1>7. FileFits(file)
  BY <1>1, <1>2, <1>3, <1>4, <1>5, <1>6 DEF FileFits, ScoresInv, BansInv, ScoresDated
<1>. QED
  BY <1>7 DEF file

(* A save leaves the file as it was, or a snapshot.                        *)
LEMMA SavedFits ==
  ASSUME FileFits(disk), IInv',
         SaveNow \/ SaveLater \/ SaveIfDirty \/ UNCHANGED disk \/ disk' = Snapshot'
  PROVE  FileFits(disk)'
<1>1. (IInv => FileFits(Snapshot))'
  BY SnapshotFits, PTL
<1>2. disk' = disk \/ disk' = Snapshot'
  BY DEF SaveNow, SaveLater, SaveIfDirty, SaveSucceeds, SaveFails
<1>. QED
  BY <1>1, <1>2 DEF FileFits, ScoredSubnets

\* A save sets dirty or clears it.
LEMMA SavedFlag ==
  ASSUME dirty \in BOOLEAN, SaveNow \/ SaveLater \/ SaveIfDirty
  PROVE  dirty' \in BOOLEAN
  BY DEF SaveNow, SaveLater, SaveIfDirty, SaveSucceeds, SaveFails

(* What a start picks from the unexpired bans of the file.                 *)
RestorableNets == {n \in Unexpired : ~IsHostNet(n)}
RestorableAddrs(S) == {a \in Addr : HostNet[a] \in Unexpired /\ ~InAny(a, S)}

\* What a start takes from the file: subnets first, then addresses, within the
\* limit.
LEMMA RestoredParts ==
  ASSUME NEW bans \in RestoredBans
  PROVE  /\ bans.subnets \in Fitting(RestorableNets, MaxActiveBans)
         /\ bans.ips \in Fitting(RestorableAddrs(bans.subnets),
                                 MaxActiveBans - Cardinality(bans.subnets))
         /\ bans.subnets \subseteq Unexpired
         /\ bans.ips \subseteq Addr
<1>1. PICK S \in Fitting(RestorableNets, MaxActiveBans) :
        \E I \in Fitting(RestorableAddrs(S), MaxActiveBans - Cardinality(S)) :
          bans = [subnets |-> S, ips |-> I]
  BY DEF RestoredBans, RestorableNets, RestorableAddrs
<1>2. PICK I \in Fitting(RestorableAddrs(S), MaxActiveBans - Cardinality(S)) :
        bans = [subnets |-> S, ips |-> I]
  BY <1>1
<1>3. \A A, k : \A F \in Fitting(A, k) : F \subseteq A
  BY DEF Fitting, kSubset
<1>4. RestorableNets \subseteq Unexpired /\ RestorableAddrs(S) \subseteq Addr
  BY DEF RestorableNets, RestorableAddrs
<1>. QED
  BY <1>1, <1>2, <1>3, <1>4

(* What a start reads from the file fits the tables.                       *)
LEMMA RestoreFits ==
  ASSUME FileFits(disk), now \in Time, NEW c \in Configs, Restore(c),
         config' = c, now' = now, IsMap(ipset', Net, Flag)
  PROVE  IInv'
<1>1. PICK bans \in RestoredBans, scored \in RestoredScores(c), known \in RestoredReputation :
        Restore(c)!(bans, scored, known)
  BY DEF Restore
<1>2. /\ bans.ips \subseteq Addr /\ bans.subnets \subseteq Unexpired
      /\ \A a \in bans.ips : HostNet[a] \in Unexpired /\ ~InAny(a, bans.subnets)
      /\ \A n \in bans.subnets : ~IsHostNet(n)
      /\ Within(bans.subnets, MaxActiveBans)
      /\ IsFiniteSet(bans.ips)
      /\ Cardinality(bans.ips) + Cardinality(bans.subnets) <= MaxActiveBans
  <2> DEFINE S == bans.subnets
             I == bans.ips
  <2>1. /\ S \in Fitting(RestorableNets, MaxActiveBans)
        /\ I \in Fitting(RestorableAddrs(S), MaxActiveBans - Cardinality(S))
    BY RestoredParts
  <2>2. Within(Unexpired, MaxActiveBans)
    BY SmallerWithin, ConstantTypes DEF FileFits, Unexpired
  <2>3. IsFiniteSet(RestorableNets)
    BY <2>2, FS_Subset DEF Within, RestorableNets
  <2>4. S \subseteq RestorableNets /\ Within(S, MaxActiveBans)
    BY <2>1, <2>3, FittingPart, ConstantTypes
  <2>5. Within(RestorableAddrs(S), MaxActiveBans)
    BY <2>2, HostsWithin, ConstantTypes DEF RestorableAddrs
  <2>6. MaxActiveBans - Cardinality(S) \in Nat /\ Cardinality(S) \in Nat
    BY <2>4, FS_CardinalityType, ConstantTypes DEF Within
  <2>7. I \subseteq RestorableAddrs(S) /\ Within(I, MaxActiveBans - Cardinality(S))
    BY <2>1, <2>5, <2>6, FittingPart DEF Within
  <2>8. Cardinality(I) \in Nat
    BY <2>7, FS_CardinalityType DEF Within
  <2>9. Cardinality(I) + Cardinality(S) <= MaxActiveBans
    BY <2>6, <2>7, <2>8, ConstantTypes DEF Within
  <2>. QED
    BY <2>4, <2>7, <2>9 DEF Within, RestorableNets, RestorableAddrs
<1> DEFINE ips  == {Ip(a) : a \in bans.ips}
           nets == {Subnet(n) : n \in bans.subnets}
<1>3. /\ active' = [t \in ips \cup nets |-> disk.bans[t.net]]
      /\ bannedIps' = bans.ips /\ bannedSubnets' = bans.subnets
  BY <1>1
<1>4. Unexpired \subseteq Net /\ \A n \in Unexpired : disk.bans[n] \in Time
  BY DEF FileFits, Unexpired, IsMap
<1>5. IsMap(active', Target, Time)
  BY <1>2, <1>3, <1>4, Targets DEF IsMap
<1>6. Within(DOMAIN active', MaxActiveBans)
  <2>1. IsFiniteSet(ips) /\ Cardinality(ips) <= Cardinality(bans.ips)
    <3> DEFINE f == [a \in bans.ips |-> Ip(a)]
    <3>1. ips = {f[a] : a \in bans.ips}
      OBVIOUS
    <3> HIDE DEF ips, f
    <3>. QED
      BY <3>1, <1>2, ImageSize
  <2>2. IsFiniteSet(nets) /\ Cardinality(nets) <= Cardinality(bans.subnets)
    <3> DEFINE f == [n \in bans.subnets |-> Subnet(n)]
    <3>1. nets = {f[n] : n \in bans.subnets}
      OBVIOUS
    <3> HIDE DEF nets, f
    <3>. QED
      BY <3>1, <1>2, ImageSize DEF Within
  <2> HIDE DEF ips, nets
  <2>3. /\ IsFiniteSet(ips \cup nets)
        /\ Cardinality(ips \cup nets)
             = Cardinality(ips) + Cardinality(nets) - Cardinality(ips \cap nets)
    BY <2>1, <2>2, FS_Union
  <2>4. IsFiniteSet(ips \cap nets)
    BY <2>1, FS_Subset
  <2>5. /\ Cardinality(ips) \in Nat /\ Cardinality(nets) \in Nat
        /\ Cardinality(ips \cap nets) \in Nat
        /\ Cardinality(bans.ips) \in Nat /\ Cardinality(bans.subnets) \in Nat
    BY <1>2, <2>1, <2>2, <2>4, FS_CardinalityType DEF Within
  <2>6. Cardinality(ips \cup nets) <= MaxActiveBans
    BY <1>2, <2>1, <2>2, <2>3, <2>5, ConstantTypes
  <2>. QED
    BY <1>3, <2>3, <2>6 DEF Within
<1>7. BansAgree' /\ SubnetBansSubsume'
  BY <1>2, <1>3 DEF BansAgree, SubnetBansSubsume, InAny
<1>8. IsMap(reputation', Net, Reputation) /\ Within(DOMAIN reputation', MaxReputation)
  <2> DEFINE fresh == {n \in DOMAIN disk.reputation : disk.reputation[n].until > now}
  <2>1. IsFiniteSet(fresh)
    BY FS_Subset DEF FileFits, Within
  <2>2. known \subseteq fresh /\ Within(known, MaxReputation)
    BY <2>1, FittingPart, ConstantTypes DEF RestoredReputation
  <2>3. reputation' = Restrict(disk.reputation, known)
    BY <1>1
  <2>. QED
    BY <2>2, <2>3, RestrictType DEF FileFits
<1>9. BansInv'
  BY <1>2, <1>3, <1>4, <1>5, <1>6, <1>7, <1>8 DEF BansInv
<1>10. /\ IsMap(ipCounts', Addr, Score) /\ DOMAIN ipCounts' = scored
       /\ IsMap(lastSeen', Addr, Time) /\ DOMAIN lastSeen' = scored
       /\ scored \subseteq DOMAIN disk.scores
       /\ Within(scored, MaxTrackedIps)
  <2> DEFINE fresh == {a \in DOMAIN disk.scores : disk.seen[a] + c.scoreRetention > now}
  <2>1. IsFiniteSet(fresh)
    BY FS_Subset DEF FileFits, Within
  <2>2. scored \subseteq fresh /\ Within(scored, MaxTrackedIps)
    BY <2>1, FittingPart, ConstantTypes DEF RestoredScores
  <2>3. ipCounts' = Restrict(disk.scores, scored) /\ lastSeen' = Restrict(disk.seen, scored)
    BY <1>1
  <2>. QED
    BY <2>2, <2>3, RestrictType DEF FileFits
<1>11. IsMap(subnetCounts', Net, Score) /\ DOMAIN subnetCounts' = ScoredSubnets(ipCounts')
  BY <1>1, <1>10, SubnetTotalsType DEF IsMap
<1>12. Within(DOMAIN subnetCounts', MaxTrackedSubnets)
  <2>1. DOMAIN subnetCounts' \subseteq ScoredSubnets(disk.scores)
    BY <1>10, <1>11 DEF ScoredSubnets
  <2>. QED
    BY <2>1, SmallerWithin, ConstantTypes DEF FileFits
<1>13. IsMap(offenders', Offender, Time) /\ Within(DOMAIN offenders', MaxTrackedIps)
  <2>1. PICK D : offenders' = Drop(disk.offenders, D)
    BY <1>1
  <2>2. DOMAIN offenders' = DOMAIN disk.offenders \ D
    BY <2>1, DropDomain
  <2>3. DOMAIN offenders' \subseteq DOMAIN disk.offenders
    BY <2>2
  <2>. QED
    BY <2>1, <2>3, DropType, SmallerWithin, ConstantTypes DEF FileFits
<1>14. ScoresInv'
  BY <1>10, <1>11, <1>12, <1>13 DEF ScoresInv, ScoresDated, SubnetsScored, ScoredSubnets
<1>. QED
  BY <1>9, <1>14 DEF IInv

\* A rebuilt kernel set is one.
LEMMA ReconciledType ==
  ASSUME NEW T, T \subseteq Target, NEW exc \in Allowlists
  PROVE  IsMap(Reconciled(T, exc), Net, Flag)
<1>1. \A n \in Net : Entry(n) \in Net
  BY NetworkAssumption DEF Entry
<1>2. {Entry(t.net) : t \in T} \cup {Entry(n) : n \in exc} \subseteq Net
  BY <1>1, TargetNet, AllowlistTypes
<1>. QED
  BY <1>2 DEF Reconciled, IsMap, Flag

(* A worker that is gone remembers nothing.                                *)
LEMMA ForgetInv ==
  ASSUME IInv, Forget, UNCHANGED <<config, ipset, now>>
  PROVE  IInv' /\ DOMAIN active' = {}
<1>1. DOMAIN EmptyMap = {} /\ \A S, R : IsMap(EmptyMap, S, R)
  BY DEF EmptyMap, IsMap
<1>2. \A M \in Nat : Within({}, M)
  BY FS_EmptySet DEF Within
<1>3. ScoresInv'
  <2>1. ScoresDated' /\ SubnetsScored'
    BY <1>1 DEF Forget, ScoresDated, SubnetsScored, ScoredSubnets
  <2>. QED
    BY <2>1, <1>1, <1>2, ConstantTypes DEF Forget, ScoresInv
<1>4. BansInv'
  <2>1. BansAgree' /\ SubnetBansSubsume'
    BY <1>1 DEF Forget, BansAgree, SubnetBansSubsume, InAny
  <2>. QED
    BY <2>1, <1>1, <1>2, ConstantTypes DEF Forget, IInv, BansInv
<1>. QED
  BY <1>1, <1>3, <1>4 DEF IInv, Forget

(* Replacing the kernel set leaves the tables.                             *)
LEMMA IpsetReplacedInv ==
  ASSUME IInv, UNCHANGED <<config, scoreVars, banVars, now>>, IsMap(ipset', Net, Flag)
  PROVE  IInv'
<1>1. ScoresInv'
  BY ScoresSame DEF IInv, scoreVars
<1>2. BansInv'
  BY DEF IInv, BansInv, banVars, BansAgree, SubnetBansSubsume, InAny
<1>. QED
  BY <1>1, <1>2 DEF IInv

-----------------------------------------------------------------------------
(* The steps.                                                              *)

\* So are those that the worker builds.
LEMMA ReconciledActive ==
  ASSUME IInv, NEW exc \in Allowlists
  PROVE  /\ IsMap(Reconciled(TargetsExcluding(exc), exc), Net, Flag)
         /\ IsMap(Reconciled(DOMAIN active, exc), Net, Flag)
<1>1. DOMAIN active \subseteq Target
  BY DEF IInv, BansInv, IsMap
<1>2. TargetsExcluding(exc) \subseteq Target
  BY <1>1 DEF TargetsExcluding
<1>. QED
  BY <1>1, <1>2, ReconciledType

(* What was lifted is not exempt any more.                                 *)
LEMMA NoneExempt ==
  ASSUME NEW exc, Lift(ExemptBans(exc))
  PROVE  ExemptBans(exc)' = {}
  BY DEF Lift, ExemptBans, ExemptIps, ExemptSubnets

\* A start that replaced the kernel set keeps the invariant.
LEMMA StartInv ==
  ASSUME WorkerInv, NEW c \in Configs, NEW exc \in Allowlists, Start(c, exc)
  PROVE  WorkerInv'
<1>1. /\ config' = c /\ exceptions' = exc /\ candidate' = InForce'
      /\ Restore(c) /\ phase' = "starting" /\ UNCHANGED <<now, disk, dirty>>
      /\ ipset' = Reconciled(TargetsExcluding(exc)', exc)
  BY DEF Start
<1>2. IsMap(ipset', Net, Flag)
  <2>1. TargetsExcluding(exc)' \subseteq Target
    <3>1. PICK bans \in RestoredBans :
            active' = [t \in {Ip(a) : a \in bans.ips} \cup {Subnet(n) : n \in bans.subnets} |->
                         disk.bans[t.net]]
      BY <1>1 DEF Restore
    <3>2. bans.ips \subseteq Addr /\ bans.subnets \subseteq Unexpired
      BY RestoredParts
    <3>3. DOMAIN active' \subseteq Target
      BY <3>1, <3>2, Targets DEF WorkerInv, FileFits, Unexpired, IsMap
    <3>. QED
      BY <3>3 DEF TargetsExcluding
  <2>. QED
    BY <1>1, <2>1, ReconciledType
<1>3. IInv'
  BY <1>1, <1>2, RestoreFits DEF WorkerInv, IInv
<1>4. candidate' \in Candidate
  BY <1>1 DEF InForce, Candidate
<1>. QED
  BY <1>1, <1>3, <1>4 DEF WorkerInv, PhaseInv, Phase, FileFits, ScoredSubnets

\* A start that could not keeps the invariant.
LEMMA StartFailsInv ==
  ASSUME WorkerInv, NEW exc \in Allowlists, StartFails(exc)
  PROVE  WorkerInv'
<1>1. UNCHANGED <<config, scoreVars, banVars, now, workerVars>> /\ phase = "down"
  BY DEF StartFails
<1>2. IsMap(ipset', Net, Flag)
  <2>1. PICK bans \in RestoredBans :
          LET kept == {Ip(a) : a \in {x \in bans.ips : ~InAny(x, exc)}}
                        \cup {Subnet(n) : n \in {m \in bans.subnets : ~CoveredByAny(m, exc)}}
          IN  ipset' \in MaybeDone(ipset, Reconciled(kept, exc))
    BY DEF StartFails
  <2> DEFINE kept == {Ip(a) : a \in {x \in bans.ips : ~InAny(x, exc)}}
                       \cup {Subnet(n) : n \in {m \in bans.subnets : ~CoveredByAny(m, exc)}}
  <2>2. bans.ips \subseteq Addr /\ bans.subnets \subseteq Unexpired
    BY RestoredParts
  <2>3. kept \subseteq Target
    BY <2>2, Targets DEF WorkerInv, FileFits, Unexpired, IsMap
  <2>4. ipset' \in {ipset, Reconciled(kept, exc)}
    BY <2>1 DEF MaybeDone
  <2> HIDE DEF kept
  <2>. QED
    BY <2>3, <2>4, ReconciledType DEF WorkerInv, IInv, BansInv
<1>3. IInv'
  BY <1>1, <1>2, IpsetReplacedInv DEF WorkerInv
<1>4. UNCHANGED <<phase, exceptions, candidate, disk, dirty, active>>
  BY <1>1 DEF workerVars, banVars
<1>. QED
  BY <1>1, <1>3, <1>4 DEF WorkerInv, PhaseInv, FileFits, ScoredSubnets

\* The rest of a start keeps the invariant.
LEMMA StartAppliesInv ==
  ASSUME WorkerInv, StartApplies
  PROVE  WorkerInv'
<1>1. /\ phase' = "idle" /\ UNCHANGED <<exceptions, candidate, dirty>>
      /\ ApplyExceptions(exceptions)
      /\ UNCHANGED disk \/ disk' = Snapshot'
  BY DEF StartApplies, ApplyExceptions
<1>2. IInv'
  BY <1>1, ApplyExceptionsInv DEF WorkerInv
<1>3. FileFits(disk)'
  BY <1>1, <1>2, SavedFits DEF WorkerInv
<1>. QED
  BY <1>1, <1>2, <1>3 DEF WorkerInv, PhaseInv, Phase

\* An end of the worker keeps the invariant.
LEMMA StopInv ==
  ASSUME WorkerInv, Stop \/ Crash
  PROVE  WorkerInv'
<1>1. /\ Forget /\ UNCHANGED <<config, ipset, now, exceptions>>
      /\ phase' = "down" /\ dirty' = FALSE
      /\ UNCHANGED candidate \/ candidate' = InForce
      /\ UNCHANGED disk \/ disk' = Snapshot
  BY DEF Stop, Crash
<1>2. IInv' /\ DOMAIN active' = {}
  BY <1>1, ForgetInv DEF WorkerInv
<1>3. FileFits(disk)'
  BY <1>1, SnapshotFits DEF WorkerInv, FileFits, ScoredSubnets
<1>4. candidate' \in Candidate
  BY <1>1 DEF WorkerInv, IInv, InForce, Candidate
<1>. QED
  BY <1>1, <1>2, <1>3, <1>4 DEF WorkerInv, PhaseInv, Phase

(* Requests that the idle worker serves in one step.                       *)
LEMMA ServedInv ==
  ASSUME WorkerInv, IInv', phase = "idle", UNCHANGED <<phase, exceptions, candidate>>,
         SaveNow \/ SaveLater \/ SaveIfDirty \/ UNCHANGED <<disk, dirty>>
  PROVE  WorkerInv'
<1>1. FileFits(disk)'
  BY SavedFits DEF WorkerInv
<1>2. dirty' \in BOOLEAN
  BY SavedFlag DEF WorkerInv
<1>. QED
  BY <1>1, <1>2 DEF WorkerInv, PhaseInv

\* A line of the log keeps the invariant.
LEMMA RecordLineInv ==
  ASSUME WorkerInv, NEW a \in Addr, NEW w \in Weights, RecordLine(a, w)
  PROVE  WorkerInv'
<1>1. /\ phase = "idle" /\ UNCHANGED <<phase, exceptions, candidate>>
      /\ \E ok \in BOOLEAN : RecordStep(a, w, ok)
      /\ SaveNow \/ SaveLater \/ UNCHANGED <<disk, dirty>>
  BY DEF RecordLine
<1>2. IInv'
  BY <1>1, RecordStepInv DEF WorkerInv
<1>. QED
  BY <1>1, <1>2, ServedInv

\* A manual ban keeps the invariant.
LEMMA AddBanInv ==
  ASSUME WorkerInv, NEW t \in ManualTargets, NEW length \in ManualDurations, AddBan(t, length)
  PROVE  WorkerInv'
<1>1. /\ phase = "idle" /\ UNCHANGED <<phase, exceptions, candidate>>
      /\ AddManual(t, length)
      /\ SaveNow \/ UNCHANGED <<disk, dirty>>
  BY DEF AddBan, AddManual
<1>2. t \in Target /\ length \in Nat \ {0}
  BY AggregateAssumption
<1>3. IInv'
  BY <1>1, <1>2, AddManualInv DEF WorkerInv
<1>. QED
  BY <1>1, <1>3, ServedInv

\* A reset keeps the invariant.
LEMMA ResetInv ==
  ASSUME WorkerInv, NEW t, Reset(t)
  PROVE  WorkerInv'
<1>1. IInv'
  BY ResetCountsInv DEF Reset, WorkerInv
<1>. QED
  BY <1>1, ServedInv DEF Reset

\* A flush keeps the invariant.
LEMMA FlushInv ==
  ASSUME WorkerInv, Flush
  PROVE  WorkerInv'
<1>1. IInv'
  BY IpsetReplacedInv DEF Flush, WorkerInv, IInv, BansInv, vars
<1>. QED
  BY <1>1, ServedInv DEF Flush

\* A cleanup keeps the invariant.
LEMMA CleanupInv ==
  ASSUME WorkerInv, Cleanup \/ CleanupStops
  PROVE  WorkerInv'
<1>1. /\ phase = "idle" /\ CleanupExpired /\ UNCHANGED <<phase, exceptions, candidate>>
      /\ SaveNow \/ SaveIfDirty \/ UNCHANGED <<disk, dirty>>
  BY DEF Cleanup, CleanupStops, CleanupExpired, workerVars
<1>2. IInv'
  BY <1>1, CleanupExpiredInv DEF WorkerInv
<1>. QED
  BY <1>1, <1>2, ServedInv

\* The first step of an update keeps the invariant.
LEMMA UpdateInv ==
  ASSUME WorkerInv, NEW c \in Configs, NEW exc \in Allowlists, Update(c, exc)
  PROVE  WorkerInv'
<1>1. /\ candidate' = [config |-> c, exceptions |-> exc] /\ phase' = "reconciled"
      /\ ipset' = Reconciled(TargetsExcluding(exc), exc)
      /\ UNCHANGED <<config, scoreVars, banVars, now, exceptions, disk, dirty>>
  BY DEF Update
<1>2. IInv'
  BY <1>1, ReconciledActive, IpsetReplacedInv DEF WorkerInv
<1>3. candidate' \in Candidate
  BY <1>1 DEF Candidate
<1>. QED
  BY <1>1, <1>2, <1>3 DEF WorkerInv, PhaseInv, Phase, FileFits, ScoredSubnets

(* Re-verification, and whatever fails to replace the set.                 *)
LEMMA ReverifyInv ==
  ASSUME WorkerInv, \/ \E exc \in Allowlists : UpdateFails(exc)
                    \/ Reverify \/ ReverifyFails
  PROVE  WorkerInv'
<1>1. /\ phase = "idle" /\ UNCHANGED <<config, scoreVars, banVars, now, workerVars>>
      /\ \E exc \in Allowlists :
           ipset' \in {ipset, Reconciled(TargetsExcluding(exc), exc),
                      Reconciled(DOMAIN active, exc)}
  BY DEF UpdateFails, Reverify, ReverifyFails, ReconcileFails, MaybeDone, WorkerInv
<1>2. IsMap(ipset', Net, Flag)
  BY <1>1, ReconciledActive DEF WorkerInv, IInv, BansInv
<1>3. IInv'
  BY <1>1, <1>2, IpsetReplacedInv DEF WorkerInv
<1>. QED
  BY <1>1, <1>3, ServedInv DEF workerVars

\* Its second step keeps the invariant.
LEMMA UpdateAppliesInv ==
  ASSUME WorkerInv, UpdateApplies
  PROVE  WorkerInv'
<1>1. /\ ApplyExceptions(candidate.exceptions) /\ UNCHANGED <<exceptions, disk, dirty>>
      /\ \/ phase' = "applied" /\ UNCHANGED candidate
            /\ Lift(ExemptBans(candidate.exceptions))
         \/ phase' = "idle" /\ candidate' = InForce
  BY DEF UpdateApplies, ApplyExceptions, ApplyExceptionsOk
<1>2. IInv'
  BY <1>1, ApplyExceptionsInv DEF WorkerInv
<1>3. candidate' \in Candidate
  BY <1>1 DEF WorkerInv, IInv, InForce, Candidate
<1>4. phase' = "applied" => ExemptBans(candidate.exceptions)' = {}
  BY <1>1, NoneExempt DEF ExemptBans, ExemptIps, ExemptSubnets
<1>. QED
  BY <1>1, <1>2, <1>3, <1>4 DEF WorkerInv, PhaseInv, Phase, FileFits, ScoredSubnets

\* Its last step keeps the invariant.
LEMMA UpdateEndsInv ==
  ASSUME WorkerInv, UpdateEnds
  PROVE  WorkerInv'
<1>1. /\ Reconfigure(candidate.config) /\ exceptions' = candidate.exceptions
      /\ SaveNow /\ phase' = "idle" /\ UNCHANGED candidate
  BY DEF UpdateEnds
<1>2. candidate.config \in Configs /\ candidate.exceptions \in Allowlists
  BY DEF WorkerInv, Candidate
<1>3. IInv'
  BY <1>1, <1>2, ReconfigureInv DEF WorkerInv
<1>4. FileFits(disk)' /\ dirty' \in BOOLEAN
  BY <1>1, <1>3, SavedFits, SavedFlag DEF WorkerInv
<1>. QED
  BY <1>1, <1>2, <1>3, <1>4 DEF WorkerInv, PhaseInv, Phase

\* Time passing keeps the invariant.
LEMMA WaitInv ==
  ASSUME WorkerInv, Wait
  PROVE  WorkerInv'
<1>1. Tick /\ UNCHANGED workerVars
  BY DEF Wait
<1>2. IInv'
  BY <1>1, TickInv DEF WorkerInv
<1>3. UNCHANGED <<phase, exceptions, candidate, disk, dirty, active, bannedIps, bannedSubnets>>
  BY <1>1 DEF Tick, banVars, workerVars
<1>. QED
  BY <1>2, <1>3 DEF WorkerInv, PhaseInv, FileFits, ScoredSubnets,
                    ExemptBans, ExemptIps, ExemptSubnets

-----------------------------------------------------------------------------
(* The theorems.                                                           *)

\* A worker that never ran has the invariant.
LEMMA WorkerInitInv == WorkerInit => WorkerInv
<1> SUFFICES ASSUME WorkerInit PROVE WorkerInv
  OBVIOUS
<1>1. IInv /\ DOMAIN active = {}
  BY InitInv DEF WorkerInit, Init, EmptyMap
<1>2. FileFits(disk)
  <2>1. DOMAIN EmptyMap = {} /\ \A S, R : IsMap(EmptyMap, S, R)
    BY DEF EmptyMap, IsMap
  <2>2. \A M \in Nat : Within({}, M)
    BY FS_EmptySet DEF Within
  <2>. QED
    BY <2>1, <2>2, ConstantTypes DEF WorkerInit, NoFile, FileFits, ScoredSubnets
<1>. QED
  BY <1>1, <1>2 DEF WorkerInit, WorkerInv, PhaseInv, Phase, InForce, Allowlists, Candidate, IInv

\* Every step keeps the invariant.
LEMMA WorkerStepInv == WorkerInv /\ [WorkerNext]_allVars => WorkerInv'
<1> SUFFICES ASSUME WorkerInv, [WorkerNext]_allVars PROVE WorkerInv'
  OBVIOUS
<1>1. CASE \E c \in Configs, exc \in Allowlists : Start(c, exc) \/ Update(c, exc)
  BY <1>1, StartInv, UpdateInv
<1>2. CASE \E exc \in Allowlists : StartFails(exc) \/ UpdateFails(exc)
  BY <1>2, StartFailsInv, ReverifyInv
<1>3. CASE StartApplies \/ UpdateApplies \/ UpdateEnds
  BY <1>3, StartAppliesInv, UpdateAppliesInv, UpdateEndsInv
<1>4. CASE \E a \in Addr, w \in Weights : RecordLine(a, w)
  BY <1>4, RecordLineInv
<1>5. CASE \E t \in ManualTargets, length \in ManualDurations : AddBan(t, length)
  BY <1>5, AddBanInv
<1>6. CASE \E t \in ManualTargets : Reset(t)
  BY <1>6, ResetInv
<1>7. CASE Flush \/ Cleanup \/ CleanupStops \/ Reverify \/ ReverifyFails
  BY <1>7, FlushInv, CleanupInv, ReverifyInv
<1>8. CASE Stop \/ Crash
  BY <1>8, StopInv
<1>9. CASE Wait
  BY <1>9, WaitInv
<1>10. CASE UNCHANGED allVars
  <2>1. IInv'
    BY <1>10, IpsetReplacedInv DEF allVars, vars, WorkerInv, IInv, BansInv
  <2>2. UNCHANGED <<phase, exceptions, candidate, disk, dirty, active, bannedIps, bannedSubnets>>
    BY <1>10 DEF allVars, vars, banVars, workerVars
  <2>. QED
    BY <2>1, <2>2 DEF WorkerInv, PhaseInv, FileFits, ScoredSubnets,
                      ExemptBans, ExemptIps, ExemptSubnets
<1>. QED
  BY <1>1, <1>2, <1>3, <1>4, <1>5, <1>6, <1>7, <1>8, <1>9, <1>10 DEF WorkerNext

\* The steps of the specification, whether commands may fail or not.
LEMMA WorkerSteps == WorkerSpec => WorkerInit /\ [][WorkerNext]_allVars
<1>1. [WorkerNext /\ UNCHANGED faulty]_<<allVars, faulty>> => [WorkerNext]_allVars
  OBVIOUS
<1>. QED
  BY <1>1, PTL DEF WorkerSpec

(* The aggregator's tables and the state file fit each other through       *)
(* restarts, failed saves and failed commands.                             *)
THEOREM WorkerInvariant == WorkerSpec => []WorkerInv
<1>. QED
  BY WorkerInitInv, WorkerStepInv, WorkerSteps, PTL

(* What the worker keeps and what it reads back from the file has its      *)
(* type.                                                                   *)
THEOREM WorkerTypeCorrect == WorkerSpec => []WorkerTypeOK
<1>1. WorkerInv => WorkerTypeOK
  BY DEF WorkerInv, WorkerTypeOK, FileFits, IInv, ScoresInv, BansInv, TypeOK
<1>. QED
  BY <1>1, WorkerInvariant, PTL

(* A start cuts the file to the capacities, and no table outgrows them.    *)
THEOREM WorkerTablesBounded ==
  WorkerSpec => [](WithinCapacity /\ BansAgree /\ SubnetBansSubsume)
<1>1. WorkerInv => WithinCapacity /\ BansAgree /\ SubnetBansSubsume
  BY DEF WorkerInv, IInv, ScoresInv, BansInv, Within, WithinCapacity
<1>. QED
  BY <1>1, WorkerInvariant, PTL

-----------------------------------------------------------------------------
(* Exempt bans.                                                            *)

(* The bans that an action may add.                                        *)
LEMMA BansAdded ==
  /\ \A a \in Addr : \A w, ok : RecordStep(a, w, ok)
       => DOMAIN active' \subseteq DOMAIN active \cup {Ip(a), Subnet(SubnetOf[a])}
  /\ \A t, length : AddManual(t, length)
       => DOMAIN active' \subseteq DOMAIN active \cup {t}
  /\ CleanupExpired => DOMAIN active' \subseteq DOMAIN active
  /\ \A exc : ApplyExceptions(exc) => DOMAIN active' \subseteq DOMAIN active
<1>1. ASSUME NEW T, Lift(T)
      PROVE  DOMAIN active' \subseteq DOMAIN active
  <2>1. DOMAIN active' = DOMAIN active \ T
    BY <1>1, DropDomain DEF Lift
  <2>. QED
    BY <2>1
<1>2. ASSUME NEW a, NEW expiry, BanIp(a, expiry)
      PROVE  DOMAIN active' \subseteq DOMAIN active \cup {Ip(a)}
  BY <1>2, PutDomain DEF BanIp
<1>3. ASSUME NEW n, NEW expiry, BanSubnet(n, expiry)
      PROVE  DOMAIN active' \subseteq DOMAIN active \cup {Subnet(n)}
  <2> DEFINE grown == Put(active, Subnet(n), expiry)
             lost  == {Ip(a) : a \in bannedIps \cap Members[n]}
  <2>1. active' = Drop(grown, lost)
    BY <1>3 DEF BanSubnet
  <2>2. DOMAIN grown = DOMAIN active \cup {Subnet(n)}
    BY PutDomain
  <2> HIDE DEF grown, lost
  <2>3. DOMAIN active' = DOMAIN grown \ lost
    BY <2>1, DropDomain
  <2>. QED
    BY <2>2, <2>3
<1>4. ASSUME NEW a \in Addr, NEW w, NEW ok, RecordStep(a, w, ok)
      PROVE  DOMAIN active' \subseteq DOMAIN active \cup {Ip(a), Subnet(SubnetOf[a])}
  <2>1. \/ UNCHANGED active
        \/ \E expiry : BanSubnet(SubnetOf[a], expiry)
        \/ \E expiry : BanIp(a, expiry)
    BY <1>4 DEF RecordStep, BanFails, banVars
  <2>. QED
    BY <2>1, <1>2, <1>3
<1>5. ASSUME NEW t, NEW length, AddManual(t, length)
      PROVE  DOMAIN active' \subseteq DOMAIN active \cup {t}
  <2>1. \/ UNCHANGED active
        \/ \E n, expiry : t = Subnet(n) /\ BanSubnet(n, expiry)
        \/ \E a, expiry : t = Ip(a) /\ BanIp(a, expiry)
    BY <1>5 DEF AddManual, AddManualOk, AddManualFails, BanFails, banVars
  <2>. QED
    BY <2>1, <1>2, <1>3
<1>6. CleanupExpired => \E T : Lift(T)
  BY DEF CleanupExpired, CleanupOk, CleanupFails, LiftUntilError
<1>7. \A exc : ApplyExceptions(exc) => \E T : Lift(T)
  BY DEF ApplyExceptions, ApplyExceptionsOk, ApplyExceptionsFails, LiftUntilError
<1>. QED
  BY <1>1, <1>4, <1>5, <1>6, <1>7

(* A ban that an address outside the allowlist earns is not exempt, nor is *)
(* one of a network that overlaps no exception.                            *)
LEMMA EarnedNotExempt ==
  ASSUME NEW exc, NEW a \in Addr, ~InAny(a, exc)
  PROVE  ~Exempted(Ip(a), exc) /\ ~Exempted(Subnet(SubnetOf[a]), exc)
<1>1. a \in Members[SubnetOf[a]] /\ SubnetOf[a] \in Net
  BY BucketMembers, ConstantTypes
<1>2. ~Exempted(Ip(a), exc)
  BY Targets DEF Exempted
<1>3. ~Exempted(Subnet(SubnetOf[a]), exc)
  BY <1>1, Targets DEF Exempted, CoveredByAny, Covers, InAny
<1>. QED
  BY <1>2, <1>3

\* A target that no exception covers is not exempt.
LEMMA ApartNotExempt ==
  ASSUME NEW exc, NEW t, \A n \in exc : ~Covers(n, t.net)
  PROVE  ~Exempted(t, exc)
<1>1. ASSUME NEW a \in Addr, t = Ip(a), NEW n \in exc, a \in Members[n]
      PROVE  FALSE
  <2>1. Members[t.net] = {a}
    BY <1>1, Targets, NetworkAssumption
  <2>. QED
    BY <1>1, <2>1 DEF Covers
<1>2. ASSUME NEW n \in Net, t = Subnet(n), CoveredByAny(n, exc)
      PROVE  FALSE
  BY <1>2, Targets DEF CoveredByAny
<1>. QED
  BY <1>1, <1>2 DEF Exempted, InAny

\* The exempt bans, target by target.
LEMMA ExemptByTarget ==
  BansInv => \A exc : ExemptBans(exc) = {t \in DOMAIN active : Exempted(t, exc)}
  BY ExemptIff

\* No step of a running worker makes an exempt ban appear.
LEMMA ExemptShrinks ==
  ASSUME WorkerInv, WorkerNext, Idle', phase # "starting"
  PROVE  ExemptBans(exceptions)' \subseteq ExemptBans(exceptions)
<1>1. BansInv /\ WorkerInv'
  BY WorkerStepInv DEF WorkerInv, IInv
<1>2. ExemptBans(exceptions) = {t \in DOMAIN active : Exempted(t, exceptions)}
  BY <1>1, ExemptIff
<1>3. ExemptBans(exceptions)' = {t \in DOMAIN active' : Exempted(t, exceptions')}
  <2>1. (BansInv => \A exc : ExemptBans(exc) = {t \in DOMAIN active : Exempted(t, exc)})'
    BY ExemptByTarget, PTL
  <2>2. BansInv'
    BY <1>1 DEF WorkerInv, IInv
  <2>. QED
    BY <2>1, <2>2 DEF ExemptBans, ExemptIps, ExemptSubnets, Exempted
<1>4. ASSUME exceptions' = exceptions,
             \A t \in DOMAIN active' \ DOMAIN active : ~Exempted(t, exceptions)
      PROVE  ExemptBans(exceptions)' \subseteq ExemptBans(exceptions)
  BY <1>2, <1>3, <1>4
<1>5. CASE \E a \in Addr, w \in Weights : RecordLine(a, w)
  <2>1. PICK a \in Addr, w \in Weights : RecordLine(a, w)
    BY <1>5
  <2>2. /\ exceptions' = exceptions /\ ~InAny(a, exceptions)
        /\ DOMAIN active' \subseteq DOMAIN active \cup {Ip(a), Subnet(SubnetOf[a])}
    BY <2>1, BansAdded DEF RecordLine
  <2>. QED
    BY <2>2, <1>4, EarnedNotExempt
<1>6. CASE \E t \in ManualTargets, length \in ManualDurations : AddBan(t, length)
  <2>1. PICK t \in ManualTargets, length \in ManualDurations : AddBan(t, length)
    BY <1>6
  <2>2. /\ exceptions' = exceptions /\ \A n \in exceptions : ~Covers(n, t.net)
        /\ AddManual(t, length)
    BY <2>1 DEF AddBan, AddManual
  <2>3. DOMAIN active' \subseteq DOMAIN active \cup {t}
    BY <2>2, BansAdded
  <2>. QED
    BY <2>2, <2>3, <1>4, ApartNotExempt
<1>7. CASE UpdateEnds
  <2>1. /\ phase = "applied" /\ exceptions' = candidate.exceptions
        /\ UNCHANGED <<active, bannedIps, bannedSubnets>>
    BY <1>7 DEF UpdateEnds, Reconfigure, banVars
  <2>2. ExemptBans(exceptions)' = ExemptBans(candidate.exceptions)
    BY <2>1 DEF ExemptBans, ExemptIps, ExemptSubnets
  <2>. QED
    BY <2>1, <2>2, <1>1 DEF WorkerInv, PhaseInv
<1>8. CASE CleanupExpired \/ ApplyExceptions(candidate.exceptions) \/ UNCHANGED active
  <2>1. DOMAIN active' \subseteq DOMAIN active
    BY <1>8, BansAdded
  <2>2. exceptions' = exceptions \/ UpdateEnds
    BY DEF WorkerNext, Start, StartFails, StartApplies, RecordLine, AddBan, Reset, Flush,
           Update, UpdateFails, UpdateApplies, Cleanup, CleanupStops, Reverify, ReverifyFails,
           Stop, Crash, Wait, workerVars, Idle
  <2>. QED
    BY <2>1, <2>2, <1>4, <1>7
<1>9. \/ \E a \in Addr, w \in Weights : RecordLine(a, w)
      \/ \E t \in ManualTargets, length \in ManualDurations : AddBan(t, length)
      \/ UpdateEnds
      \/ CleanupExpired \/ ApplyExceptions(candidate.exceptions) \/ UNCHANGED active
  BY DEF WorkerNext, Idle, Start, StartFails, StartApplies, Stop, Crash, Update, UpdateFails,
         UpdateApplies, ApplyExceptions, Reset, ResetCounts, Flush, Cleanup, CleanupStops,
         CleanupExpired, Reverify, ReverifyFails, Wait, Tick, workerVars, vars, banVars
<1>. QED
  BY <1>5, <1>6, <1>7, <1>8, <1>9

(* While the worker serves requests, no hit, promotion, manual ban, update *)
(* or failure makes a ban appear that the allowlist in force exempts.      *)
THEOREM NoExemptBanEverAppears == WorkerSpec => NoExemptBanAppears
<1> DEFINE A == Idle' /\ phase # "starting"
                 => ExemptBans(exceptions)' \subseteq ExemptBans(exceptions)
<1>1. WorkerInv /\ [WorkerNext]_allVars => [A]_allVars
  BY ExemptShrinks
<1>. QED
  BY <1>1, WorkerInvariant, WorkerSteps, PTL DEF NoExemptBanAppears

-----------------------------------------------------------------------------
(* The bans of the memory, of the file and of the kernel, if no two        *)
(* targets share a kernel entry.                                           *)

\* With distinct entries a network belongs to one target.
LEMMA PossibleNets ==
  ASSUME DistinctEntries
  PROVE  /\ \A t, u \in PossibleTargets : t.net = u.net => t = u
         /\ \A t \in PossibleTargets : ~IsHostNet(t.net) => t = Subnet(t.net)
         /\ \A t \in PossibleTargets : \A a \in Addr : t.net = HostNet[a] => t = Ip(a)
<1>1. \A t, u \in PossibleTargets : t.net = u.net => t = u
  BY DEF DistinctEntries
<1>2. \A t \in PossibleTargets : ~IsHostNet(t.net) => t = Subnet(t.net)
  BY PossibleTypes, Targets DEF Target, IsHostNet
<1>3. \A t \in PossibleTargets : \A a \in Addr : t.net = HostNet[a] => t = Ip(a)
  BY <1>1, PossibleTypes, Targets
<1>. QED
  BY <1>1, <1>2, <1>3

(* A snapshot has every ban.                                               *)
LEMMA SnapshotFiles ==
  ASSUME DistinctEntries, IInv, BansPossible
  PROVE  FileNets(Snapshot) /\ \A t \in DOMAIN active : Filed(Snapshot, t)
<1> DEFINE file == Snapshot
           nets == {t.net : t \in DOMAIN active}
<1>1. file.bans = [n \in nets |-> active[CHOOSE t \in DOMAIN active : t.net = n]]
  BY DEF Snapshot
<1>2. DOMAIN active \subseteq PossibleTargets
  BY DEF BansPossible
<1>3. DOMAIN active = {Ip(a) : a \in bannedIps} \cup {Subnet(n) : n \in bannedSubnets}
  BY DEF IInv, BansInv, BansAgree
<1>4. bannedIps \subseteq Addr /\ bannedSubnets \subseteq Net
  BY DEF IInv, BansInv
<1> HIDE DEF file
<1>5. ASSUME NEW t \in DOMAIN active
      PROVE  Filed(file, t)
  <2>1. (CHOOSE u \in DOMAIN active : u.net = t.net) = t
    BY <1>2, PossibleNets
  <2>. QED
    BY <1>1, <2>1 DEF Filed
<1>6. ASSUME NEW n \in DOMAIN file.bans
      PROVE  \E t \in PossibleTargets : t.net = n
  BY <1>1, <1>2
<1>7. ASSUME NEW m \in DOMAIN file.bans, NEW n \in DOMAIN file.bans,
             IsHostNet(n), Covers(m, n), ~IsHostNet(m)
      PROVE  FALSE
  <2>1. PICK a \in Addr : n = HostNet[a]
    BY <1>7 DEF IsHostNet
  <2>2. PICK t \in DOMAIN active : t.net = n
    BY <1>1
  <2>3. t = Ip(a)
    BY <1>2, <2>1, <2>2, PossibleNets
  <2>4. a \in bannedIps
    BY <1>3, <1>4, <2>2, <2>3, Targets
  <2>5. PICK u \in DOMAIN active : u.net = m
    BY <1>1
  <2>6. u = Subnet(m)
    BY <1>2, <1>7, <2>5, PossibleNets
  <2>7. m \in bannedSubnets
    BY <1>3, <2>5, <2>6 DEF Ip, Subnet
  <2>8. a \in Members[m]
    BY <1>7, <2>1, NetworkAssumption DEF Covers
  <2>. QED
    BY <2>4, <2>7, <2>8 DEF IInv, BansInv, SubnetBansSubsume, InAny
<1>8. FileNets(file)
  BY <1>6, <1>7 DEF FileNets
<1>. QED
  BY <1>5, <1>8 DEF file

\* A snapshot of the next state files every ban it has.
LEMMA SnapshotFilesNext ==
  ASSUME DistinctEntries, IInv', BansPossible'
  PROVE  FileNets(Snapshot') /\ \A t \in DOMAIN active' : Filed(Snapshot, t)'
<1>1. (DistinctEntries /\ IInv /\ BansPossible
         => FileNets(Snapshot) /\ \A t \in DOMAIN active : Filed(Snapshot, t))'
  BY SnapshotFiles, PTL
<1>. QED
  BY <1>1 DEF FileNets

(* A request that saves at once leaves nothing unsaved.                    *)
LEMMA SavedFiles ==
  ASSUME DistinctEntries, IInv', BansPossible', FileNets(disk), SaveNow \/ (dirty' /\ disk' = disk)
  PROVE  FileNets(disk)' /\ FiledInv'
<1>1. FileNets(Snapshot') /\ \A t \in DOMAIN active' : Filed(Snapshot, t)'
  BY SnapshotFilesNext
<1>2. CASE SaveSucceeds
  BY <1>1, <1>2 DEF SaveSucceeds, FileNets, FiledInv, Filed
<1>3. CASE dirty' /\ disk' = disk
  BY <1>3 DEF FileNets, FiledInv
<1>. QED
  BY <1>2, <1>3 DEF SaveNow, SaveFails

(* A step that adds no ban and saves nothing, or saves all the same.       *)
LEMMA FiledKept ==
  ASSUME DistinctEntries, IInv', BansPossible', FileNets(disk), FiledInv, UNCHANGED dirty,
         DOMAIN active' \subseteq DOMAIN active,
         \A t \in DOMAIN active' : active'[t] = active[t],
         UNCHANGED disk \/ disk' = Snapshot'
  PROVE  FileNets(disk)' /\ FiledInv'
<1>1. CASE UNCHANGED disk
  BY <1>1 DEF FileNets, FiledInv, Filed
<1>2. CASE disk' = Snapshot'
  <2>1. FileNets(Snapshot') /\ \A t \in DOMAIN active' : Filed(Snapshot, t)'
    BY SnapshotFilesNext
  <2>. QED
    BY <1>2, <2>1 DEF FileNets, FiledInv, Filed
<1>. QED
  BY <1>1, <1>2

(* Lifting bans changes no other.                                          *)
LEMMA LiftKeepsOthers ==
  ASSUME CleanupExpired \/ \E exc : ApplyExceptions(exc)
  PROVE  /\ DOMAIN active' \subseteq DOMAIN active
         /\ \A t \in DOMAIN active' : active'[t] = active[t]
<1>1. PICK T : Lift(T)
  BY DEF CleanupExpired, CleanupOk, CleanupFails, LiftUntilError,
         ApplyExceptions, ApplyExceptionsOk, ApplyExceptionsFails
<1>2. active' = Drop(active, T) /\ DOMAIN active' = DOMAIN active \ T
  BY <1>1, DropDomain DEF Lift
<1>3. \A t \in DOMAIN active' : active'[t] = active[t]
  BY <1>2 DEF Drop, Restrict
<1>. QED
  BY <1>2, <1>3

(* A new kernel set has the entry of every ban that is not exempt.         *)
NewSetsEnforce ==
  \A exc \in Allowlists : \A t \in DOMAIN active :
    /\ HasEntry(Reconciled(TargetsExcluding(exc), exc), t) \/ MayBeExempt(t)
    /\ HasEntry(Reconciled(DOMAIN active, exc), t) \/ MayBeExempt(t)

\* A rebuilt kernel set has an entry for each ban.
LEMMA ReconciledEnforces == IInv => NewSetsEnforce
<1> SUFFICES ASSUME IInv, NEW exc \in Allowlists, NEW t \in DOMAIN active,
                    ~MayBeExempt(t),
                    NEW T \in {TargetsExcluding(exc), DOMAIN active}
             PROVE  HasEntry(Reconciled(T, exc), t)
  BY DEF NewSetsEnforce
<1>1. t \in Target
  BY DEF IInv, BansInv, IsMap
<1>2. ~Exempted(t, exc)
  BY DEF MayBeExempt, Allowlists, Exempted, InAny, CoveredByAny
<1>3. t \in T
  BY <1>2, ExemptIff DEF TargetsExcluding, IInv
<1>4. Entry(t.net) \notin {Entry(n) : n \in exc}
  <2> SUFFICES ASSUME NEW n \in exc, Entry(n) = Entry(t.net)
               PROVE  FALSE
    OBVIOUS
  <2>1. Members[n] = Members[t.net]
    BY <1>1, TargetNet, AllowlistTypes, NetworkAssumption DEF Entry
  <2>2. Covers(n, t.net)
    BY <2>1 DEF Covers
  <2>3. CASE \E a \in Addr : t = Ip(a)
    BY <2>1, <2>3, <1>2, Targets, NetworkAssumption DEF Exempted, InAny
  <2>4. CASE \E m \in Net : t = Subnet(m)
    BY <2>2, <2>4, <1>2, Targets DEF Exempted, CoveredByAny
  <2>. QED
    BY <1>1, <2>3, <2>4 DEF Target
<1>. QED
  BY <1>3, <1>4 DEF Reconciled, HasEntry, ValueOr

(* A start brings every ban of the file back into memory and the kernel.   *)
LEMMA StartEntries ==
  ASSUME DistinctEntries, WorkerInv, EntriesInv, NEW c \in Configs, NEW exc \in Allowlists,
         Start(c, exc)
  PROVE  EntriesInv'
<1>1. /\ Restore(c) /\ phase' = "starting" /\ UNCHANGED <<now, disk, dirty>>
      /\ ipset' = Reconciled(TargetsExcluding(exc)', exc)
  BY DEF Start
<1>2. PICK bans \in RestoredBans :
        active' = [t \in {Ip(a) : a \in bans.ips} \cup {Subnet(n) : n \in bans.subnets} |->
                     disk.bans[t.net]]
  BY <1>1 DEF Restore
<1>3. Within(Unexpired, MaxActiveBans) /\ Unexpired \subseteq DOMAIN disk.bans
  BY SmallerWithin, ConstantTypes DEF WorkerInv, FileFits, Unexpired
<1>4. bans.subnets = RestorableNets
  <2>1. Within(RestorableNets, MaxActiveBans)
    BY <1>3, SmallerWithin, ConstantTypes DEF RestorableNets
  <2>. QED
    BY <2>1, RestoredParts, FittingAll
<1>5. bans.ips = {a \in Addr : HostNet[a] \in Unexpired}
  <2> DEFINE hosts == {a \in Addr : HostNet[a] \in Unexpired}
             names == Unexpired \ RestorableNets
  <2>1. RestorableAddrs(bans.subnets) = hosts
    <3>1. ASSUME NEW a \in Addr, HostNet[a] \in Unexpired, NEW n \in RestorableNets
          PROVE  a \notin Members[n]
      <4>1. IsHostNet(HostNet[a]) /\ ~IsHostNet(n) /\ n \in Unexpired
        BY <3>1 DEF IsHostNet, RestorableNets
      <4>2. ~Covers(n, HostNet[a])
        BY <1>3, <3>1, <4>1 DEF EntriesInv, FileNets
      <4>. QED
        BY <4>2, NetworkAssumption DEF Covers
    <3>. QED
      BY <1>4, <3>1 DEF RestorableAddrs, InAny
  <2>2. /\ IsFiniteSet(names) /\ IsFiniteSet(RestorableNets)
        /\ Cardinality(names) + Cardinality(RestorableNets) <= MaxActiveBans
    <3>1. IsFiniteSet(names) /\ IsFiniteSet(RestorableNets)
      BY <1>3, FS_Subset DEF Within, RestorableNets
    <3>2. names \cup RestorableNets = Unexpired /\ names \cap RestorableNets = {}
      BY DEF RestorableNets
    <3>3. Cardinality(Unexpired) = Cardinality(names) + Cardinality(RestorableNets) - Cardinality({})
      BY <3>1, <3>2, FS_Union
    <3>4. Cardinality(names) \in Nat /\ Cardinality(RestorableNets) \in Nat
      BY <3>1, FS_CardinalityType
    <3>. QED
      BY <1>3, <3>1, <3>3, <3>4, FS_EmptySet DEF Within
  <2>3. Cardinality(names) \in Nat /\ Cardinality(RestorableNets) \in Nat
    BY <2>2, FS_CardinalityType
  <2> DEFINE room == MaxActiveBans - Cardinality(RestorableNets)
  <2>4. room \in Nat /\ Within(names, room)
    BY <2>2, <2>3, ConstantTypes DEF Within
  <2>5. \A a \in hosts : HostNet[a] \in names
    BY DEF RestorableNets, IsHostNet
  <2> HIDE DEF names, room
  <2>6. Within(hosts, room)
    BY <2>4, <2>5, HostsWithin
  <2>7. bans.ips \in Fitting(hosts, room)
    BY <2>1, <1>4, RestoredParts DEF room
  <2> HIDE DEF hosts
  <2>8. bans.ips = hosts
    BY <2>6, <2>7, FittingAll
  <2>. QED
    BY <2>8 DEF hosts
<1>6. \A t \in DOMAIN active' : t.net \in Unexpired /\ active'[t] = disk.bans[t.net]
  <2>1. Unexpired \subseteq Net
    BY <1>3 DEF WorkerInv, FileFits, IsMap
  <2>. QED
    BY <1>2, <1>4, <1>5, <2>1, Targets DEF RestorableNets
<1>7. BansPossible'
  <2>1. \A n \in RestorableNets : Subnet(n) \in PossibleTargets
    <3>1. \A n \in RestorableNets : \E t \in PossibleTargets : t.net = n /\ ~IsHostNet(n)
      BY <1>3 DEF RestorableNets, EntriesInv, FileNets
    <3>. QED
      BY <3>1, PossibleNets
  <2>. QED
    BY <1>2, <1>4, <1>5, <2>1, PossibleTypes DEF BansPossible
<1>8. EnforcedInv'
  <2>1. WorkerInv' /\ exc \in Allowlists
    BY StartInv
  <2>2. (IInv => NewSetsEnforce)'
    BY ReconciledEnforces, PTL
  <2>3. \A t \in DOMAIN active' : HasEntry(ipset', t) \/ MayBeExempt(t)
    BY <1>1, <2>1, <2>2 DEF WorkerInv, NewSetsEnforce, HasEntry, Reconciled, MayBeExempt
  <2>. QED
    BY <1>7, <2>3 DEF EnforcedInv, MayBeExempt
<1>9. FiledInv'
  BY <1>1, <1>3, <1>6 DEF FiledInv, Filed
<1>10. RestoredInv'
  <2>1. Unexpired' = Unexpired
    BY <1>1 DEF Unexpired
  <2>2. ASSUME NEW n \in Unexpired
        PROVE  \E t \in DOMAIN active' : t.net = n
    <3>1. CASE IsHostNet(n)
      <4>1. PICK a \in Addr : n = HostNet[a]
        BY <3>1 DEF IsHostNet
      <4>2. Ip(a) \in DOMAIN active' /\ Ip(a).net = n
        BY <4>1, <1>2, <1>5, Targets
      <4>. QED
        BY <4>2
    <3>2. CASE ~IsHostNet(n)
      <4>1. Subnet(n) \in DOMAIN active' /\ Subnet(n).net = n
        BY <3>2, <1>2, <1>4 DEF RestorableNets, Subnet
      <4>. QED
        BY <4>1
    <3>. QED
      BY <3>1, <3>2
  <2>. QED
    BY <1>1, <1>3, <1>6, <2>1, <2>2 DEF RestoredInv, Filed
<1>11. FileNets(disk)'
  BY <1>1 DEF EntriesInv, FileNets
<1>. QED
  BY <1>8, <1>9, <1>10, <1>11 DEF EntriesInv

(* The other steps that end or follow a start.                             *)
LEMMA StartAppliesEntries ==
  ASSUME DistinctEntries, WorkerInv, EntriesInv, StartApplies
  PROVE  EntriesInv'
<1>1. /\ phase' = "idle" /\ UNCHANGED dirty /\ exceptions \in Allowlists
      /\ ApplyExceptions(exceptions)
      /\ UNCHANGED disk \/ disk' = Snapshot'
  BY DEF StartApplies, ApplyExceptions, WorkerInv
<1>2. EnforcedInv'
  BY <1>1, ApplyExceptionsEnforced DEF WorkerInv, EntriesInv, Allowlists
<1>3. IInv' /\ BansPossible'
  BY <1>2, StartAppliesInv DEF WorkerInv, EnforcedInv
<1>4. FileNets(disk)' /\ FiledInv'
  BY <1>1, <1>3, LiftKeepsOthers, FiledKept DEF EntriesInv
<1>. QED
  BY <1>1, <1>2, <1>4 DEF EntriesInv, RestoredInv

\* An end of the worker keeps file, bans and entries together.
LEMMA StopEntries ==
  ASSUME DistinctEntries, WorkerInv, EntriesInv, Stop \/ Crash
  PROVE  EntriesInv'
<1>1. /\ Forget /\ phase' = "down"
      /\ UNCHANGED disk \/ disk' = Snapshot
  BY DEF Stop, Crash
<1>2. DOMAIN active' = {}
  BY <1>1 DEF Forget, EmptyMap
<1>3. FileNets(disk)'
  BY <1>1, SnapshotFiles DEF FileNets, EntriesInv, EnforcedInv, WorkerInv
<1>. QED
  BY <1>1, <1>2, <1>3 DEF EntriesInv, EnforcedInv, BansPossible, FiledInv, RestoredInv

(* Requests that the idle worker serves: they keep the kernel's entries    *)
(* and save what they change, or have nothing to save.                     *)
LEMMA ServedEntries ==
  ASSUME DistinctEntries, WorkerInv', EntriesInv, EnforcedInv', Idle',
         \/ SaveNow \/ (dirty' /\ disk' = disk)
         \/ /\ UNCHANGED <<disk, dirty>>
            /\ DOMAIN active' \subseteq DOMAIN active
            /\ \A t \in DOMAIN active' : active'[t] = active[t]
  PROVE  EntriesInv'
<1>1. IInv' /\ BansPossible'
  BY DEF WorkerInv, EnforcedInv
<1>2. FileNets(disk)' /\ FiledInv'
  BY <1>1, SavedFiles, FiledKept DEF EntriesInv
<1>. QED
  BY <1>2 DEF EntriesInv, RestoredInv, Idle

\* A line of the log keeps them together.
LEMMA RecordLineEntries ==
  ASSUME DistinctEntries, WorkerInv, EntriesInv,
         NEW a \in Addr, NEW w \in Weights, RecordLine(a, w)
  PROVE  EntriesInv'
<1>1. WorkerInv' /\ Idle'
  BY RecordLineInv DEF RecordLine, Idle
<1>2. EnforcedInv'
  BY RecordStepEnforced DEF RecordLine, WorkerInv, EntriesInv
<1>3. \/ SaveNow \/ (dirty' /\ disk' = disk)
      \/ UNCHANGED <<disk, dirty, active>>
  BY DEF RecordLine, SaveLater, RecordStep, BanFails, banVars
<1>. QED
  BY <1>1, <1>2, <1>3, ServedEntries

\* A manual ban keeps them together.
LEMMA AddBanEntries ==
  ASSUME DistinctEntries, WorkerInv, EntriesInv,
         NEW t \in ManualTargets, NEW length \in ManualDurations, AddBan(t, length)
  PROVE  EntriesInv'
<1>1. WorkerInv' /\ Idle'
  BY AddBanInv DEF AddBan, Idle
<1>2. EnforcedInv'
  BY AddManualEnforced DEF AddBan, AddManual, WorkerInv, EntriesInv
<1>3. SaveNow \/ UNCHANGED <<disk, dirty, active>>
  BY DEF AddBan, AddManualFails, BanFails, banVars
<1>. QED
  BY <1>1, <1>2, <1>3, ServedEntries

\* A cleanup keeps them together.
LEMMA CleanupEntries ==
  ASSUME DistinctEntries, WorkerInv, EntriesInv, Cleanup \/ CleanupStops
  PROVE  EntriesInv'
<1>1. WorkerInv' /\ Idle' /\ CleanupExpired
  BY CleanupInv DEF Cleanup, CleanupStops, CleanupExpired, workerVars, Idle
<1>2. EnforcedInv'
  BY <1>1, CleanupExpiredEnforced DEF WorkerInv, EntriesInv
<1>3. SaveNow \/ UNCHANGED <<disk, dirty>>
  BY DEF Cleanup, CleanupStops, SaveIfDirty, workerVars
<1>. QED
  BY <1>1, <1>2, <1>3, LiftKeepsOthers, ServedEntries

(* Requests that leave the bans and their entries.                         *)
LEMMA SameEntries ==
  ASSUME DistinctEntries, WorkerInv, EntriesInv,
         Flush \/ (\E t : Reset(t)) \/ UpdateEnds
  PROVE  EntriesInv'
<1>1. WorkerInv' /\ Idle' /\ SaveNow
  BY FlushInv, ResetInv, UpdateEndsInv DEF Flush, Reset, UpdateEnds, Idle
<1>2. UNCHANGED <<active, ipset, now>>
  BY DEF Flush, Reset, ResetCounts, UpdateEnds, Reconfigure, vars, banVars
<1>3. EnforcedInv'
  BY <1>2, SameBansEnforced DEF WorkerInv, EntriesInv, IInv, Time
<1>. QED
  BY <1>1, <1>3, ServedEntries

(* Replacing the kernel set, in an update or to re-verify it.              *)
LEMMA ReplaceEntries ==
  ASSUME DistinctEntries, WorkerInv, EntriesInv,
         \/ \E c \in Configs, exc \in Allowlists : Update(c, exc)
         \/ \E exc \in Allowlists : UpdateFails(exc)
         \/ Reverify \/ ReverifyFails
  PROVE  EntriesInv'
<1>1. /\ UNCHANGED <<active, now, disk, dirty>> /\ phase' # "starting"
      /\ \E exc \in Allowlists :
           ipset' \in {ipset, Reconciled(TargetsExcluding(exc), exc),
                      Reconciled(DOMAIN active, exc)}
  BY DEF Update, UpdateFails, Reverify, ReverifyFails, ReconcileFails, MaybeDone,
         WorkerInv, workerVars, banVars
<1>2. \A t \in DOMAIN active : HasEntry(ipset, t) => HasEntry(ipset', t) \/ MayBeExempt(t)
  BY <1>1, ReconciledEnforces DEF WorkerInv, NewSetsEnforce
<1>3. EnforcedInv'
  BY <1>1, <1>2, EntriesFollow DEF WorkerInv, IInv, BansInv, EntriesInv, Time
<1>4. FileNets(disk)' /\ FiledInv'
  BY <1>1 DEF EntriesInv, FileNets, FiledInv, Filed
<1>. QED
  BY <1>1, <1>3, <1>4 DEF EntriesInv, RestoredInv

\* The second step of an update keeps them together.
LEMMA UpdateAppliesEntries ==
  ASSUME DistinctEntries, WorkerInv, EntriesInv, UpdateApplies
  PROVE  EntriesInv'
<1>1. /\ UNCHANGED <<disk, dirty>> /\ phase' # "starting"
      /\ ApplyExceptions(candidate.exceptions)
      /\ candidate.exceptions \in Allowlists
  BY DEF UpdateApplies, ApplyExceptions, WorkerInv, Candidate
<1>2. EnforcedInv'
  BY <1>1, ApplyExceptionsEnforced DEF WorkerInv, EntriesInv, Allowlists
<1>3. IInv' /\ BansPossible'
  BY <1>2, UpdateAppliesInv DEF WorkerInv, EnforcedInv
<1>4. FileNets(disk)' /\ FiledInv'
  BY <1>1, <1>3, LiftKeepsOthers, FiledKept DEF EntriesInv
<1>. QED
  BY <1>1, <1>2, <1>4 DEF EntriesInv, RestoredInv

(* Nothing but the clock changes, or the set of a worker that is down.     *)
LEMMA WaitEntries ==
  ASSUME DistinctEntries, WorkerInv, EntriesInv,
         Wait \/ (\E exc \in Allowlists : StartFails(exc)) \/ UNCHANGED allVars
  PROVE  EntriesInv'
<1>1. /\ UNCHANGED <<active, phase, disk, dirty>>
      /\ now' \in Nat /\ now' >= now
      /\ UNCHANGED ipset \/ DOMAIN active = {}
  BY DEF Wait, Tick, StartFails, allVars, vars, banVars, workerVars, WorkerInv, PhaseInv,
         IInv, Time
<1>2. EnforcedInv'
  <2>1. CASE UNCHANGED ipset
    BY <2>1, <1>1, SameBansEnforced DEF WorkerInv, EntriesInv, Time
  <2>2. CASE DOMAIN active = {}
    BY <2>2, <1>1 DEF EntriesInv, EnforcedInv, BansPossible
  <2>. QED
    BY <1>1, <2>1, <2>2
<1>3. Unexpired' \subseteq Unexpired
  BY <1>1 DEF Unexpired, WorkerInv, FileFits, IsMap, IInv, Time
<1>. QED
  BY <1>1, <1>2, <1>3 DEF EntriesInv, FileNets, FiledInv, Filed, RestoredInv

\* Every step keeps them together.
LEMMA EntriesStep ==
  ASSUME DistinctEntries, WorkerInv, EntriesInv, [WorkerNext]_allVars
  PROVE  EntriesInv'
<1>1. CASE \E c \in Configs, exc \in Allowlists : Start(c, exc) \/ Update(c, exc)
  BY <1>1, StartEntries, ReplaceEntries
<1>2. CASE \E exc \in Allowlists : StartFails(exc) \/ UpdateFails(exc)
  BY <1>2, WaitEntries, ReplaceEntries
<1>3. CASE StartApplies \/ UpdateApplies \/ UpdateEnds
  BY <1>3, StartAppliesEntries, UpdateAppliesEntries, SameEntries
<1>4. CASE \E a \in Addr, w \in Weights : RecordLine(a, w)
  BY <1>4, RecordLineEntries
<1>5. CASE \E t \in ManualTargets, length \in ManualDurations : AddBan(t, length)
  BY <1>5, AddBanEntries
<1>6. CASE (\E t \in ManualTargets : Reset(t)) \/ Flush
  BY <1>6, SameEntries
<1>7. CASE Cleanup \/ CleanupStops
  BY <1>7, CleanupEntries
<1>8. CASE Reverify \/ ReverifyFails
  BY <1>8, ReplaceEntries
<1>9. CASE Stop \/ Crash
  BY <1>9, StopEntries
<1>10. CASE Wait \/ UNCHANGED allVars
  BY <1>10, WaitEntries
<1>. QED
  BY <1>1, <1>2, <1>3, <1>4, <1>5, <1>6, <1>7, <1>8, <1>9, <1>10 DEF WorkerNext

(* Memory, file and kernel agree on the bans, whatever fails or is killed. *)
THEOREM EntriesInvariant ==
  ASSUME DistinctEntries
  PROVE  WorkerSpec => []EntriesInv
<1>1. WorkerInit => EntriesInv
  BY DEF WorkerInit, Init, NoFile, EmptyMap, EntriesInv, EnforcedInv, BansPossible,
         FileNets, FiledInv, RestoredInv
<1>2. WorkerInv /\ EntriesInv /\ [WorkerNext]_allVars => EntriesInv'
  BY EntriesStep
<1>. QED
  BY <1>1, <1>2, WorkerInvariant, WorkerSteps, PTL

(* While nothing is waiting to be saved, the file has every ban in force.  *)
THEOREM BansAreDurable ==
  ASSUME DistinctEntries
  PROVE  WorkerSpec => []BansDurable
<1>1. EntriesInv => BansDurable
  BY DEF EntriesInv, FiledInv, Filed, BansDurable
<1>. QED
  BY <1>1, EntriesInvariant, PTL

(* No restart loses an unexpired ban of the file, whatever the capacity.   *)
THEOREM RestartKeepsAllBans ==
  ASSUME DistinctEntries
  PROVE  WorkerSpec => []RestartKeepsBans
<1>1. EntriesInv => RestartKeepsBans
  BY DEF EntriesInv, RestoredInv, Filed, RestartKeepsBans, Covers, Unexpired
<1>. QED
  BY <1>1, EntriesInvariant, PTL

(* Whatever commands fail, and through restarts, an unexpired ban has its  *)
(* kernel entry unless it may be exempt.                                   *)
THEOREM WorkerBansEnforced ==
  ASSUME DistinctEntries
  PROVE  WorkerSpec => []BansEnforcedDespiteFaults
<1>1. WorkerInv /\ EntriesInv => BansEnforcedDespiteFaults
  BY EnforcedImplies DEF WorkerInv, EntriesInv
<1>. QED
  BY <1>1, EntriesInvariant, WorkerInvariant, PTL

=============================================================================
