------------------------- MODULE BanAggregateProofs -------------------------
(***************************************************************************)
(* Theorems about the aggregator, for every set of addresses and networks, *)
(* every configuration and capacity, and backends that may fail.           *)
(***************************************************************************)
EXTENDS BanAggregate, FiniteSetTheorems, TLAPS

(* The assumptions the proofs use most.                                    *)
LEMMA ConstantTypes ==
  /\ SubnetOf \in [Addr -> Net]
  /\ HostNet \in [Addr -> Net]
  /\ MaxScore \in Nat /\ MaxScore > 0
  /\ MaxOffense \in Nat /\ MaxOffense > 0
  /\ MaxTrackedIps \in Nat /\ MaxTrackedIps > 0
  /\ MaxTrackedSubnets \in Nat /\ MaxTrackedSubnets > 0
  /\ MaxReputation \in Nat /\ MaxReputation > 0
  /\ MaxActiveBans \in Nat /\ MaxActiveBans > 0
  BY AggregateAssumption, NetworkAssumption

(* The subnet bucket of an address holds the addresses of that bucket.     *)
LEMMA BucketMembers ==
  \A a, b \in Addr : b \in Members[SubnetOf[a]] <=> SubnetOf[b] = SubnetOf[a]
  BY AggregateAssumption

-----------------------------------------------------------------------------
(* Maps with a changing domain.                                            *)

(* What Put and Drop do to the domain and the type of a map.               *)
LEMMA PutDomain ==
  ASSUME NEW f, NEW k, NEW v
  PROVE  DOMAIN Put(f, k, v) = DOMAIN f \cup {k}
  BY DEF Put

\* A map that is given a value is a map.
LEMMA PutType ==
  ASSUME NEW S, NEW R, NEW f, IsMap(f, S, R), NEW k \in S, NEW v \in R
  PROVE  IsMap(Put(f, k, v), S, R)
  BY DEF IsMap, Put

\* What is dropped is out of the domain.
LEMMA DropDomain ==
  ASSUME NEW f, NEW D
  PROVE  DOMAIN Drop(f, D) = DOMAIN f \ D
  BY DEF Drop, Restrict

\* A map of which something is dropped is a map.
LEMMA DropType ==
  ASSUME NEW S, NEW R, NEW f, IsMap(f, S, R), NEW D
  PROVE  IsMap(Drop(f, D), S, R)
  BY DEF IsMap, Drop, Restrict

\* Saturated arithmetic stays in range.
LEMMA SaturatedType ==
  ASSUME NEW x, NEW max \in Nat
  PROVE  Saturated(x, max) \in 0..max
  BY DEF Saturated

-----------------------------------------------------------------------------
(* Making room in a bounded table.                                         *)

Within(D, M) == IsFiniteSet(D) /\ Cardinality(D) <= M

(* Replacing the members E of a finite set by one new member.              *)
LEMMA EvictThenAdd ==
  ASSUME NEW D, IsFiniteSet(D), NEW E \in SUBSET D, NEW x, NEW M \in Nat,
         Cardinality(D) - Cardinality(E) + 1 <= M
  PROVE  Within((D \ E) \cup {x}, M)
<1>1. IsFiniteSet(E) /\ IsFiniteSet(D \ E)
  BY FS_Subset
<1>2. Cardinality(D) = Cardinality(D \ E) + Cardinality(E)
  <2>1. (D \ E) \cup E = D /\ (D \ E) \cap E = {}
    OBVIOUS
  <2>2. Cardinality(D) = Cardinality(D \ E) + Cardinality(E) - Cardinality({})
    BY <1>1, <2>1, FS_Union
  <2>3. Cardinality(D \ E) \in Nat /\ Cardinality(E) \in Nat
    BY <1>1, FS_CardinalityType
  <2>. QED
    BY <2>2, <2>3, FS_EmptySet
<1>3. Cardinality(D \ E) \in Nat /\ Cardinality(E) \in Nat /\ Cardinality(D) \in Nat
  BY <1>1, FS_CardinalityType
<1>4. IsFiniteSet((D \ E) \cup {x})
  BY <1>1, FS_AddElement
<1>5. Cardinality((D \ E) \cup {x}) = IF x \in D \ E THEN Cardinality(D \ E)
                                      ELSE Cardinality(D \ E) + 1
  BY <1>1, FS_AddElement
<1>. QED
  BY <1>2, <1>3, <1>4, <1>5 DEF Within

(* A subset of a finite set is finite and no larger than a common bound.   *)
LEMMA SmallerWithin ==
  ASSUME NEW D, NEW M \in Nat, Within(D, M), NEW E, E \subseteq D
  PROVE  Within(E, M)
<1>1. IsFiniteSet(E) /\ Cardinality(E) <= Cardinality(D)
  BY FS_Subset DEF Within
<1>2. Cardinality(E) \in Nat /\ Cardinality(D) \in Nat
  BY <1>1, FS_CardinalityType DEF Within
<1>. QED
  BY <1>1, <1>2 DEF Within

(* A table below its limit takes one more; a full one takes one more when  *)
(* one gives way, or as many as Excess asks for.                           *)
LEMMA AddOne ==
  ASSUME NEW D, NEW M \in Nat, Within(D, M), Cardinality(D) < M, NEW x
  PROVE  Within(D \cup {x}, M)
<1>1. IsFiniteSet(D) /\ Cardinality(D) \in Nat
  BY FS_CardinalityType DEF Within
<1>2. /\ IsFiniteSet(D \cup {x})
      /\ Cardinality(D \cup {x}) = IF x \in D THEN Cardinality(D) ELSE Cardinality(D) + 1
  BY <1>1, FS_AddElement
<1>. QED
  BY <1>1, <1>2 DEF Within

\* One out and one in stays within the limit.
LEMMA EvictOne ==
  ASSUME NEW D, NEW M \in Nat, Within(D, M), NEW x,
         NEW E, E \subseteq D, Cardinality(E) = 1
  PROVE  Within((D \ E) \cup {x}, M)
<1>1. Cardinality(D) \in Nat
  BY FS_CardinalityType DEF Within
<1>2. Cardinality(D) - Cardinality(E) + 1 <= M
  BY <1>1 DEF Within
<1>. QED
  BY <1>2, EvictThenAdd DEF Within

\* The excess out and one in stays within the limit.
LEMMA EvictExcess ==
  ASSUME NEW D, NEW M \in Nat, M > 0, Within(D, M), NEW x,
         NEW E, E \subseteq D, Cardinality(E) = Excess(Cardinality(D), M)
  PROVE  Within((D \ E) \cup {x}, M)
<1>1. Cardinality(D) \in Nat
  BY FS_CardinalityType DEF Within
<1>2. Cardinality(D) - Cardinality(E) + 1 <= M
  BY <1>1 DEF Within, Excess
<1>. QED
  BY <1>2, EvictThenAdd DEF Within

(* The entries that give way are entries, and as many as were asked for.   *)
LEMMA OldestKeysSize ==
  ASSUME NEW time, NEW k, NEW E \in OldestKeys(time, k)
  PROVE  E \subseteq DOMAIN time /\ Cardinality(E) = k
  BY DEF OldestKeys, kSubset

-----------------------------------------------------------------------------
(* The inductive invariant.                                                *)

(* A subnet is scored exactly when one of its addresses is.                *)
ScoredSubnets(counts) == {SubnetOf[a] : a \in DOMAIN counts}
SubnetsScored == DOMAIN subnetCounts = ScoredSubnets(ipCounts)

ScoresInv ==
  /\ IsMap(ipCounts, Addr, Score)
  /\ IsMap(lastSeen, Addr, Time)
  /\ IsMap(subnetCounts, Net, Score)
  /\ IsMap(offenders, Offender, Time)
  /\ ScoresDated
  /\ SubnetsScored
  /\ Within(DOMAIN ipCounts, MaxTrackedIps)
  /\ Within(DOMAIN subnetCounts, MaxTrackedSubnets)
  /\ Within(DOMAIN offenders, MaxTrackedIps)

BansInv ==
  /\ IsMap(reputation, Net, Reputation)
  /\ IsMap(active, Target, Time)
  /\ bannedIps \subseteq Addr
  /\ bannedSubnets \subseteq Net
  /\ IsMap(ipset, Net, Flag)
  /\ BansAgree
  /\ SubnetBansSubsume
  /\ Within(DOMAIN reputation, MaxReputation)
  /\ Within(DOMAIN active, MaxActiveBans)

IInv == config \in Configs /\ now \in Time /\ ScoresInv /\ BansInv

-----------------------------------------------------------------------------
(* The scores.                                                             *)

\* Rebuilt subnet scores are scores, one for each scored subnet.
LEMMA SubnetTotalsType ==
  ASSUME NEW counts, DOMAIN counts \subseteq Addr
  PROVE  /\ IsMap(SubnetTotals(counts), Net, Score)
         /\ DOMAIN SubnetTotals(counts) = ScoredSubnets(counts)
<1>1. \A n : Saturated(ScoreSum(counts, n), MaxScore) \in Score
  BY SaturatedType, ConstantTypes DEF Score
<1>2. \A a \in DOMAIN counts : SubnetOf[a] \in Net
  BY ConstantTypes
<1>. QED
  BY <1>1, <1>2 DEF SubnetTotals, IsMap, ScoredSubnets

(* Forgetting the addresses D and some offenders.                          *)
LEMMA PruneScores ==
  ASSUME ScoresInv, NEW D, NEW F,
         ipCounts' = Drop(ipCounts, D), lastSeen' = Drop(lastSeen, D),
         subnetCounts' = SubnetTotals(Drop(ipCounts, D)),
         offenders' = Drop(offenders, F)
  PROVE  ScoresInv'
<1>1. /\ IsMap(ipCounts', Addr, Score)
      /\ DOMAIN ipCounts' = DOMAIN ipCounts \ D
  BY DropDomain, DropType DEF ScoresInv
<1>2. /\ IsMap(lastSeen', Addr, Time)
      /\ DOMAIN lastSeen' = DOMAIN lastSeen \ D
  BY DropDomain, DropType DEF ScoresInv
<1>3. /\ IsMap(offenders', Offender, Time)
      /\ DOMAIN offenders' = DOMAIN offenders \ F
  BY DropDomain, DropType DEF ScoresInv
<1>4. /\ IsMap(subnetCounts', Net, Score)
      /\ DOMAIN subnetCounts' = ScoredSubnets(ipCounts')
  BY <1>1, SubnetTotalsType DEF IsMap
<1>5. DOMAIN subnetCounts' \subseteq DOMAIN subnetCounts
  BY <1>1, <1>4 DEF ScoresInv, SubnetsScored, ScoredSubnets
<1>6. Within(DOMAIN ipCounts', MaxTrackedIps)
  BY <1>1, SmallerWithin, ConstantTypes DEF ScoresInv
<1>7. Within(DOMAIN subnetCounts', MaxTrackedSubnets)
  BY <1>5, SmallerWithin, ConstantTypes DEF ScoresInv
<1>8. Within(DOMAIN offenders', MaxTrackedIps)
  BY <1>3, SmallerWithin, ConstantTypes DEF ScoresInv
<1>. QED
  BY <1>1, <1>2, <1>3, <1>4, <1>6, <1>7, <1>8
     DEF ScoresInv, ScoresDated, SubnetsScored

(* What a scored hit leaves in the tables.                                 *)
ScoresFit(s) ==
  /\ IsMap(s.counts, Addr, Score)
  /\ IsMap(s.seen, Addr, Time)
  /\ IsMap(s.totals, Net, Score)
  /\ IsMap(s.offenders, Offender, Time)
  /\ DOMAIN s.counts = DOMAIN s.seen
  /\ DOMAIN s.totals = ScoredSubnets(s.counts)
  /\ Within(DOMAIN s.counts, MaxTrackedIps)
  /\ Within(DOMAIN s.totals, MaxTrackedSubnets)
  /\ Within(DOMAIN s.offenders, MaxTrackedIps)

\* Scoring a hit leaves tables of their type and within their limits.
LEMMA ScoreOutcomesFit ==
  ASSUME ScoresInv, now \in Time, NEW a \in Addr, NEW w \in Weights,
         NEW s \in ScoreOutcomes(a, w)
  PROVE  ScoresFit(s)
<1>1. PICK V \in IpVictims(a) :
        \E S \in SubnetVictims(TotalsWithout(a, V),
                               Drop(lastSeen, StaleScore(a) \cup V), SubnetOf[a]) :
          s = ScoreWithout(a, w, V, S)
  BY DEF ScoreOutcomes
<1>2. PICK S \in SubnetVictims(TotalsWithout(a, V),
                              Drop(lastSeen, StaleScore(a) \cup V), SubnetOf[a]) :
        s = ScoreWithout(a, w, V, S)
  BY <1>1
<1> DEFINE n      == SubnetOf[a]
           gone   == StaleScore(a) \cup V
           known  == DOMAIN ipCounts \ StaleScore(a)
           counts == Drop(ipCounts, gone)
           totals == TotalsWithout(a, V)
           inS    == {x \in DOMAIN counts : InAny(x, S)}
           left   == Drop(counts, inS)
           kept   == Drop(totals, S)
<1>3. s.counts = Put(left, a, Saturated(ValueOr(counts, a, 0) + w, MaxScore))
  BY <1>2 DEF ScoreWithout
<1>17. s.seen = Put(Drop(lastSeen, gone \cup inS), a, now)
  BY <1>2 DEF ScoreWithout
<1>18. s.totals = Put(kept, n, Saturated(ValueOr(totals, n, 0) + w, MaxScore))
  BY <1>2 DEF ScoreWithout, TotalsWithout
<1>19. s.offenders = Drop(offenders, {k \in DOMAIN offenders : k[1] \in S})
  BY <1>2 DEF ScoreWithout
<1>4. n \in Net /\ MaxScore \in Nat /\ MaxTrackedIps \in Nat /\ MaxTrackedSubnets \in Nat
  BY ConstantTypes
<1>5. /\ IsMap(counts, Addr, Score) /\ DOMAIN counts = known \ V
      /\ IsMap(left, Addr, Score) /\ DOMAIN left = DOMAIN counts \ inS
  <2>1. IsMap(counts, Addr, Score) /\ DOMAIN counts = DOMAIN ipCounts \ gone
    BY DropDomain, DropType DEF ScoresInv
  <2>2. IsMap(left, Addr, Score) /\ DOMAIN left = DOMAIN counts \ inS
    BY <2>1, DropDomain, DropType
  <2>. QED
    BY <2>1, <2>2
<1>6. /\ IsMap(totals, Net, Score)
      /\ DOMAIN totals = ScoredSubnets(counts)
      /\ DOMAIN totals \subseteq DOMAIN subnetCounts
  <2>1. CASE gone = {}
    <3>1. totals = subnetCounts /\ DOMAIN counts = DOMAIN ipCounts
      BY <2>1, <1>5 DEF TotalsWithout
    <3>. QED
      BY <3>1 DEF ScoresInv, SubnetsScored, ScoredSubnets
  <2>2. CASE gone # {}
    <3>1. totals = SubnetTotals(counts)
      BY <2>2 DEF TotalsWithout
    <3>2. IsMap(totals, Net, Score) /\ DOMAIN totals = ScoredSubnets(counts)
      BY <3>1, <1>5, SubnetTotalsType DEF IsMap
    <3>. QED
      BY <3>2, <1>5 DEF ScoresInv, SubnetsScored, ScoredSubnets
  <2>. QED
    BY <2>1, <2>2
<1>7. IsMap(kept, Net, Score) /\ DOMAIN kept = DOMAIN totals \ S
  BY <1>6, DropDomain, DropType
<1>8. /\ IsMap(s.counts, Addr, Score)
      /\ DOMAIN s.counts = DOMAIN left \cup {a}
  <2>1. Saturated(ValueOr(counts, a, 0) + w, MaxScore) \in Score
    BY <1>4, SaturatedType DEF Score
  <2>2. IsMap(left, Addr, Score)
    BY <1>5
  <2> HIDE DEF left, counts
  <2>3. IsMap(s.counts, Addr, Score)
    BY <1>3, <2>1, <2>2, PutType
  <2>4. DOMAIN s.counts = DOMAIN left \cup {a}
    BY <1>3, PutDomain
  <2>. QED
    BY <2>3, <2>4
<1>9. /\ IsMap(s.totals, Net, Score)
      /\ DOMAIN s.totals = DOMAIN kept \cup {n}
  <2>1. Saturated(ValueOr(totals, n, 0) + w, MaxScore) \in Score
    BY <1>4, SaturatedType DEF Score
  <2>2. IsMap(kept, Net, Score) /\ n \in Net
    BY <1>4, <1>7
  <2> HIDE DEF kept, totals, n
  <2>3. IsMap(s.totals, Net, Score)
    BY <1>18, <2>1, <2>2, PutType
  <2>4. DOMAIN s.totals = DOMAIN kept \cup {n}
    BY <1>18, PutDomain
  <2>. QED
    BY <2>3, <2>4
<1>10. /\ IsMap(s.seen, Addr, Time)
       /\ DOMAIN s.seen = DOMAIN s.counts
  <2> DEFINE seen == Drop(lastSeen, gone \cup inS)
  <2>1. IsMap(seen, Addr, Time)
    BY DropType DEF ScoresInv
  <2>2. DOMAIN seen = DOMAIN lastSeen \ (gone \cup inS)
    BY DropDomain
  <2>3. s.seen = Put(seen, a, now)
    BY <1>17
  <2>4. DOMAIN seen = DOMAIN left
    BY <2>2, <1>5 DEF ScoresInv, ScoresDated
  <2> HIDE DEF seen, left
  <2>5. IsMap(s.seen, Addr, Time)
    BY <2>1, <2>3, PutType
  <2>6. DOMAIN s.seen = DOMAIN seen \cup {a}
    BY <2>3, PutDomain
  <2>. QED
    BY <2>4, <2>5, <2>6, <1>8
<1>11. /\ IsMap(s.offenders, Offender, Time)
       /\ DOMAIN s.offenders \subseteq DOMAIN offenders
  <2>1. IsMap(s.offenders, Offender, Time)
    BY <1>19, DropType DEF ScoresInv
  <2> DEFINE F == {k \in DOMAIN offenders : k[1] \in S}
  <2>2. s.offenders = Drop(offenders, F)
    BY <1>19
  <2> HIDE DEF F
  <2>3. DOMAIN s.offenders = DOMAIN offenders \ F
    BY <2>2, DropDomain
  <2>. QED
    BY <2>1, <2>3
<1>12. S \subseteq DOMAIN totals
  <2>1. CASE S = {}
    BY <2>1
  <2>2. CASE S \in OldestKeys([m \in DOMAIN totals |->
                 SubnetLastSeen(Drop(lastSeen, StaleScore(a) \cup V), m)], 1)
    BY <2>2, OldestKeysSize
  <2>. QED
    BY <1>2, <2>1, <2>2 DEF SubnetVictims
<1>13. DOMAIN s.totals = ScoredSubnets(s.counts)
  <2>1. \A x \in DOMAIN counts : InAny(x, S) <=> SubnetOf[x] \in S
    <3> SUFFICES ASSUME NEW x \in DOMAIN counts PROVE InAny(x, S) <=> SubnetOf[x] \in S
      OBVIOUS
    <3>1. x \in Addr /\ \A m \in S : \E y \in Addr : m = SubnetOf[y]
      BY <1>5, <1>6, <1>12 DEF IsMap, ScoredSubnets
    <3>. QED
      BY <3>1, BucketMembers DEF InAny
  <2>2. inS = {x \in DOMAIN counts : SubnetOf[x] \in S}
    BY <2>1
  <2>3. DOMAIN s.counts = {x \in DOMAIN counts : SubnetOf[x] \notin S} \cup {a}
    BY <2>2, <1>5, <1>8
  <2>4. DOMAIN s.totals = ({SubnetOf[x] : x \in DOMAIN counts} \ S) \cup {SubnetOf[a]}
    BY <1>6, <1>7, <1>9 DEF ScoredSubnets
  <2> HIDE DEF counts
  <2>. QED
    BY <2>3, <2>4 DEF ScoredSubnets
<1>14. Within(DOMAIN s.counts, MaxTrackedIps)
  <2>1. Within(known, MaxTrackedIps)
    BY <1>4, SmallerWithin DEF ScoresInv
  <2>2. CASE a \in known
    <3>1. DOMAIN s.counts \subseteq known
      BY <2>2, <1>5, <1>8
    <3>. QED
      BY <2>1, <3>1, <1>4, SmallerWithin
  <2>3. CASE a \notin known
    <3>1. DOMAIN Drop(lastSeen, StaleScore(a)) = known
      BY DropDomain, DropType DEF ScoresInv, ScoresDated
    <3>2. V \in OldestKeys(Drop(lastSeen, StaleScore(a)),
                          Excess(Cardinality(known), MaxTrackedIps))
      BY <1>1, <2>3 DEF IpVictims
    <3>3. V \subseteq known /\ Cardinality(V) = Excess(Cardinality(known), MaxTrackedIps)
      BY <3>1, <3>2, OldestKeysSize
    <3>4. Within((known \ V) \cup {a}, MaxTrackedIps)
      BY <2>1, <3>3, ConstantTypes, EvictExcess
    <3>5. DOMAIN s.counts \subseteq (known \ V) \cup {a}
      BY <1>5, <1>8
    <3>. QED
      BY <3>4, <3>5, <1>4, SmallerWithin
  <2>. QED
    BY <2>2, <2>3
<1>15. Within(DOMAIN s.totals, MaxTrackedSubnets)
  <2>1. Within(DOMAIN totals, MaxTrackedSubnets)
    BY <1>4, <1>6, SmallerWithin DEF ScoresInv
  <2>2. DOMAIN s.totals = (DOMAIN totals \ S) \cup {n}
    BY <1>7, <1>9
  <2>3. CASE n \in DOMAIN totals
    <3>1. DOMAIN s.totals \subseteq DOMAIN totals
      BY <2>2, <2>3
    <3>. QED
      BY <2>1, <3>1, <1>4, SmallerWithin
  <2>4. CASE n \notin DOMAIN totals /\ Cardinality(DOMAIN totals) < MaxTrackedSubnets
    <3>1. Within(DOMAIN totals \cup {n}, MaxTrackedSubnets)
      BY <2>1, <2>4, <1>4, AddOne
    <3>2. DOMAIN s.totals \subseteq DOMAIN totals \cup {n}
      BY <2>2
    <3>. QED
      BY <3>1, <3>2, <1>4, SmallerWithin
  <2>5. CASE n \notin DOMAIN totals /\ ~(Cardinality(DOMAIN totals) < MaxTrackedSubnets)
    <3>1. Cardinality(S) = 1
      BY <1>2, <2>5, OldestKeysSize DEF SubnetVictims
    <3> HIDE DEF totals, n
    <3>2. Within((DOMAIN totals \ S) \cup {n}, MaxTrackedSubnets)
      BY <3>1, <2>1, <1>4, <1>12, EvictOne
    <3>. QED
      BY <3>2, <2>2
  <2>. QED
    BY <2>3, <2>4, <2>5
<1>16. Within(DOMAIN s.offenders, MaxTrackedIps)
  BY <1>4, <1>11, SmallerWithin DEF ScoresInv
<1>. QED
  BY <1>8, <1>9, <1>10, <1>11, <1>13, <1>14, <1>15, <1>16 DEF ScoresFit

(* The offenders of a subnet stay within their bound.                      *)
LEMMA OffenderOutcomesFit ==
  ASSUME NEW a \in Addr, now \in Time, NEW off, IsMap(off, Offender, Time),
         Within(DOMAIN off, MaxTrackedIps), NEW o \in OffenderOutcomes(a, off)
  PROVE  IsMap(o, Offender, Time) /\ Within(DOMAIN o, MaxTrackedIps)
<1> DEFINE k == <<SubnetOf[a], a>>
<1>1. PICK V \in (IF k \in DOMAIN off \/ Cardinality(DOMAIN off) < MaxTrackedIps
                 THEN {{}} ELSE OldestKeys(off, 1)) :
        \E D : o = Put(Drop(off, V \cup D), k, now)
  BY DEF OffenderOutcomes
<1>11. PICK D : o = Put(Drop(off, V \cup D), k, now)
  BY <1>1
<1>2. k \in Offender /\ MaxTrackedIps \in Nat
  BY ConstantTypes DEF Offender
<1> HIDE DEF k
<1> DEFINE left == Drop(off, V \cup D)
<1>3. IsMap(left, Offender, Time)
  BY DropType
<1>4. DOMAIN left = DOMAIN off \ (V \cup D)
  BY DropDomain
<1>5. o = Put(left, k, now)
  BY <1>11
<1> HIDE DEF left
<1>6. IsMap(o, Offender, Time)
  BY <1>2, <1>3, <1>5, PutType
<1>7. DOMAIN o = DOMAIN left \cup {k}
  BY <1>5, PutDomain
<1>8. CASE k \in DOMAIN off
  <2>1. DOMAIN o \subseteq DOMAIN off
    BY <1>4, <1>7, <1>8
  <2>. QED
    BY <2>1, <1>2, <1>6, SmallerWithin
<1>9. CASE k \notin DOMAIN off /\ Cardinality(DOMAIN off) < MaxTrackedIps
  <2>1. Within(DOMAIN off \cup {k}, MaxTrackedIps)
    BY <1>2, <1>9, AddOne
  <2>2. DOMAIN o \subseteq DOMAIN off \cup {k}
    BY <1>4, <1>7
  <2>. QED
    BY <2>1, <2>2, <1>2, <1>6, SmallerWithin
<1>10. CASE k \notin DOMAIN off /\ ~(Cardinality(DOMAIN off) < MaxTrackedIps)
  <2>1. V \subseteq DOMAIN off /\ Cardinality(V) = 1
    BY <1>1, <1>10, OldestKeysSize
  <2>2. Within((DOMAIN off \ V) \cup {k}, MaxTrackedIps)
    BY <2>1, <1>2, EvictOne
  <2>3. DOMAIN o \subseteq (DOMAIN off \ V) \cup {k}
    BY <1>4, <1>7
  <2>. QED
    BY <2>2, <2>3, <1>2, <1>6, SmallerWithin
<1>. QED
  BY <1>8, <1>9, <1>10

-----------------------------------------------------------------------------
(* Targets and the kernel set.                                             *)

(* Two targets are the same only if they ban the same thing.               *)
LEMMA Targets ==
  /\ \A a \in Addr : Ip(a) \in Target /\ Ip(a).net = HostNet[a]
  /\ \A n \in Net : Subnet(n) \in Target /\ Subnet(n).net = n
  /\ \A a \in Addr, n \in Net : Ip(a) # Subnet(n)
  /\ \A a, b \in Addr : Ip(a) = Ip(b) => a = b
  /\ \A m, n \in Net : Subnet(m) = Subnet(n) => m = n
<1>1. \A a, b \in Addr : HostNet[a] = HostNet[b] => a = b
  BY NetworkAssumption
<1>2. \A a, b \in Addr : Ip(a) = Ip(b) => HostNet[a] = HostNet[b]
  BY DEF Ip
<1>3. \A m, n \in Net : Subnet(m) = Subnet(n) => m = n
  BY DEF Subnet
<1>4. \A a \in Addr, n \in Net : Ip(a) # Subnet(n)
  BY DEF Ip, Subnet
<1>5. \A a \in Addr : Ip(a) \in Target /\ Ip(a).net = HostNet[a]
  BY DEF Ip, Target
<1>6. \A n \in Net : Subnet(n) \in Target /\ Subnet(n).net = n
  BY DEF Subnet, Target
<1>. QED
  BY <1>1, <1>2, <1>3, <1>4, <1>5, <1>6

(* A target is a network.                                                  *)
LEMMA TargetNet ==
  \A t \in Target : t.net \in Net
  BY Targets, ConstantTypes DEF Target

\* Adding an entry leaves a kernel set.
LEMMA IpsetAddType ==
  ASSUME NEW set, IsMap(set, Net, Flag), NEW n \in Net
  PROVE  IsMap(IpsetAdd(set, n, "match"), Net, Flag)
<1>1. Entry(n) \in Net /\ "match" \in Flag
  BY NetworkAssumption DEF Entry, Flag
<1>. QED
  BY <1>1, PutType DEF IpsetAdd

\* Deleting entries leaves a kernel set.
LEMMA IpsetDelType ==
  ASSUME NEW set, IsMap(set, Net, Flag), NEW nets
  PROVE  IsMap(IpsetDel(set, nets), Net, Flag)
  BY DropType DEF IpsetDel

-----------------------------------------------------------------------------
(* The bans.                                                               *)

\* The fields of the configuration in force.
LEMMA ConfigTypes ==
  ASSUME config \in Configs
  PROVE  /\ config.reputationRetention \in Nat
         /\ config.subnetBan \in Nat /\ config.subnetBan > 0
         /\ config.banLength \in [1..4 -> Nat \ {0}]
  BY AggregateAssumption DEF LegalConfigs

(* An offense count grows, and every ban it earns has a positive length.   *)
LEMMA BanLengthType ==
  ASSUME config \in Configs, IsMap(reputation, Net, Reputation), NEW n \in Net
  PROVE  /\ NextOffense(n) \in 1..MaxOffense
         /\ BanLength(n) \in Nat /\ BanLength(n) > 0
<1>1. NextOffense(n) \in 1..MaxOffense
  <2>1. CASE n \in DOMAIN reputation
    <3>1. reputation[n].offense \in 0..MaxOffense
      BY <2>1 DEF IsMap, Reputation
    <3>. QED
      BY <2>1, <3>1, ConstantTypes DEF NextOffense, Saturated
  <2>2. CASE n \notin DOMAIN reputation
    BY <2>2, ConstantTypes DEF NextOffense
  <2>. QED
    BY <2>1, <2>2
<1>2. (IF NextOffense(n) <= 3 THEN NextOffense(n) ELSE 4) \in 1..4
  BY <1>1, ConstantTypes
<1>. QED
  BY <1>1, <1>2, ConfigTypes DEF BanLength

(* The reputation grows by one network at most, and is trimmed.            *)
LEMMA ReputationFits ==
  ASSUME config \in Configs, now \in Time, NEW n \in Net,
         IsMap(reputation, Net, Reputation), Within(DOMAIN reputation, MaxReputation),
         NEW r \in ReputationAfterBan(n)
  PROVE  IsMap(r, Net, Reputation) /\ Within(DOMAIN r, MaxReputation)
<1> DEFINE entry == [offense |-> NextOffense(n), banned |-> now,
                     until |-> now + config.reputationRetention]
           grown == Put(reputation, n, entry)
           excess == Excess(Cardinality(DOMAIN grown), MaxReputation + 1)
<1>1. PICK V \in OldestKeys([m \in DOMAIN grown |-> grown[m].banned], excess) :
        r = Drop(grown, V)
  BY DEF ReputationAfterBan
<1>2. entry \in Reputation
  <2>1. NextOffense(n) \in 0..MaxOffense
    BY BanLengthType, ConstantTypes
  <2>2. now \in Time /\ now + config.reputationRetention \in Time
    BY ConfigTypes DEF Time
  <2>. QED
    BY <2>1, <2>2 DEF Reputation
<1> HIDE DEF entry
<1>3. IsMap(grown, Net, Reputation)
  BY <1>2, PutType
<1>4. DOMAIN grown = DOMAIN reputation \cup {n}
  BY PutDomain
<1> HIDE DEF grown
<1>5. V \subseteq DOMAIN grown /\ Cardinality(V) = excess
  <2> DEFINE times == [m \in DOMAIN grown |-> grown[m].banned]
  <2>1. V \in OldestKeys(times, excess) /\ DOMAIN times = DOMAIN grown
    BY <1>1
  <2> HIDE DEF times
  <2>2. V \subseteq DOMAIN times /\ Cardinality(V) = excess
    BY <2>1, OldestKeysSize
  <2>. QED
    BY <2>1, <2>2
<1>6. IsMap(r, Net, Reputation)
  BY <1>1, <1>3, DropType
<1>7. DOMAIN r = DOMAIN grown \ V
  BY <1>1, DropDomain
<1>8. Within(DOMAIN r, MaxReputation)
  <2>1. IsFiniteSet(DOMAIN reputation) /\ Cardinality(DOMAIN reputation) <= MaxReputation
    BY DEF Within
  <2>2. Cardinality(DOMAIN reputation) \in Nat
    BY <2>1, FS_CardinalityType
  <2>3. /\ IsFiniteSet(DOMAIN grown)
        /\ Cardinality(DOMAIN grown) = IF n \in DOMAIN reputation
                                       THEN Cardinality(DOMAIN reputation)
                                       ELSE Cardinality(DOMAIN reputation) + 1
    BY <1>4, <2>1, FS_AddElement
  <2>4. CASE excess = 0
    <3>1. Cardinality(DOMAIN grown) <= MaxReputation
      BY <2>2, <2>3, <2>4, <2>1, ConstantTypes DEF Excess
    <3>2. Within(DOMAIN grown, MaxReputation) /\ DOMAIN r \subseteq DOMAIN grown
      BY <3>1, <2>3, <1>7 DEF Within
    <3>. QED
      BY <3>2, ConstantTypes, SmallerWithin
  <2>5. CASE excess # 0
    <3>1. excess = 1 /\ Cardinality(DOMAIN grown) = MaxReputation + 1
      BY <2>1, <2>2, <2>3, <2>5, ConstantTypes DEF Excess
    <3>2. PICK v : V = {v}
      <4>1. IsFiniteSet(V)
        BY <1>5, <2>3, FS_Subset
      <4>. QED
        BY <4>1, <1>5, <3>1, FS_Singleton
    <3>3. /\ IsFiniteSet(DOMAIN grown \ {v})
          /\ Cardinality(DOMAIN grown \ {v}) = Cardinality(DOMAIN grown) - 1
      BY <2>3, <3>2, <1>5, FS_RemoveElement
    <3>4. Cardinality(DOMAIN grown \ {v}) <= MaxReputation
      BY <3>1, <3>3, ConstantTypes
    <3>. QED
      BY <3>2, <3>3, <3>4, <1>7 DEF Within
  <2>. QED
    BY <2>4, <2>5
<1>. QED
  BY <1>6, <1>8

(* The ban table has room for the target that is recorded.                 *)
LEMMA ActiveFits ==
  ASSUME NEW t \in Target, NEW expiry \in Time, HasRoomFor(t),
         IsMap(active, Target, Time), Within(DOMAIN active, MaxActiveBans)
  PROVE  /\ IsMap(Put(active, t, expiry), Target, Time)
         /\ Within(DOMAIN Put(active, t, expiry), MaxActiveBans)
<1>1. IsMap(Put(active, t, expiry), Target, Time)
  BY PutType
<1>2. DOMAIN Put(active, t, expiry) = DOMAIN active \cup {t}
  BY PutDomain
<1>3. Within(DOMAIN active \cup {t}, MaxActiveBans)
  <2>1. CASE t \in DOMAIN active
    <3>1. DOMAIN active \cup {t} = DOMAIN active
      BY <2>1
    <3>. QED
      BY <3>1
  <2>2. CASE t \notin DOMAIN active
    BY <2>2, AddOne, ConstantTypes DEF HasRoomFor
  <2>. QED
    BY <2>1, <2>2
<1>. QED
  BY <1>1, <1>2, <1>3

(* Banning an address that no banned subnet covers.                        *)
LEMMA BanIpInv ==
  ASSUME BansInv, config \in Configs, now \in Time,
         NEW a \in Addr, NEW expiry \in Time, ~IsCoveredByBannedSubnet(a), BanIp(a, expiry)
  PROVE  BansInv'
<1>1. /\ HasRoomFor(Ip(a))
      /\ active' = Put(active, Ip(a), expiry)
      /\ bannedIps' = bannedIps \cup {a}
      /\ reputation' \in ReputationAfterBan(HostNet[a])
      /\ ipset' = IpsetAdd(ipset, HostNet[a], "match")
      /\ bannedSubnets' = bannedSubnets
  BY DEF BanIp
<1>2. HostNet[a] \in Net /\ Ip(a) \in Target
  BY ConstantTypes, Targets
<1>3. IsMap(active', Target, Time) /\ Within(DOMAIN active', MaxActiveBans)
  BY <1>1, <1>2, ActiveFits DEF BansInv
<1>4. IsMap(reputation', Net, Reputation) /\ Within(DOMAIN reputation', MaxReputation)
  BY <1>1, <1>2, ReputationFits DEF BansInv
<1>5. IsMap(ipset', Net, Flag)
  BY <1>1, <1>2, IpsetAddType DEF BansInv
<1>6. BansAgree'
  <2>1. DOMAIN active' = DOMAIN active \cup {Ip(a)}
    BY <1>1, PutDomain
  <2>. QED
    BY <1>1, <2>1 DEF BansInv, BansAgree
<1>7. SubnetBansSubsume'
  BY <1>1 DEF BansInv, SubnetBansSubsume, IsCoveredByBannedSubnet
<1>8. bannedIps' \subseteq Addr /\ bannedSubnets' \subseteq Net
  BY <1>1 DEF BansInv
<1>. QED
  BY <1>3, <1>4, <1>5, <1>6, <1>7, <1>8 DEF BansInv

(* Banning a subnet, which takes over from the bans of its addresses.      *)
LEMMA BanSubnetInv ==
  ASSUME BansInv, config \in Configs, now \in Time,
         NEW n \in Net, NEW expiry \in Time, BanSubnet(n, expiry)
  PROVE  BansInv'
<1> DEFINE taken == bannedIps \cap Members[n]
           grown == Put(active, Subnet(n), expiry)
           lost  == {Ip(a) : a \in taken}
<1>1. /\ HasRoomFor(Subnet(n))
      /\ active' = Drop(grown, lost)
      /\ bannedIps' = bannedIps \ taken
      /\ bannedSubnets' = bannedSubnets \cup {n}
      /\ reputation' \in ReputationAfterBan(n)
      /\ \E done : ipset' = IpsetDel(IpsetAdd(ipset, n, "match"), done)
  BY DEF BanSubnet
<1>2. Subnet(n) \in Target
  BY Targets
<1>3. IsMap(grown, Target, Time) /\ Within(DOMAIN grown, MaxActiveBans)
  BY <1>1, <1>2, ActiveFits DEF BansInv
<1>4. DOMAIN grown = DOMAIN active \cup {Subnet(n)}
  BY PutDomain
<1> HIDE DEF grown
<1>5. IsMap(active', Target, Time)
  BY <1>1, <1>3, DropType
<1>6. DOMAIN active' = DOMAIN grown \ lost
  BY <1>1, DropDomain
<1>7. Within(DOMAIN active', MaxActiveBans)
  <2>1. DOMAIN active' \subseteq DOMAIN grown
    BY <1>6
  <2>. QED
    BY <2>1, <1>3, ConstantTypes, SmallerWithin
<1>8. IsMap(reputation', Net, Reputation) /\ Within(DOMAIN reputation', MaxReputation)
  BY <1>1, ReputationFits DEF BansInv
<1>9. IsMap(ipset', Net, Flag)
  <2>1. IsMap(IpsetAdd(ipset, n, "match"), Net, Flag)
    BY IpsetAddType DEF BansInv
  <2>. QED
    BY <1>1, <2>1, IpsetDelType
<1>10. BansAgree'
  <2>1. bannedIps \subseteq Addr /\ bannedSubnets \subseteq Net
    BY DEF BansInv
  <2>2. DOMAIN active = {Ip(a) : a \in bannedIps} \cup {Subnet(m) : m \in bannedSubnets}
    BY DEF BansInv, BansAgree
  <2>3. {Ip(a) : a \in bannedIps} \ lost = {Ip(a) : a \in bannedIps \ taken}
    BY <2>1, Targets
  <2>4. ({Subnet(m) : m \in bannedSubnets} \cup {Subnet(n)}) \ lost
          = {Subnet(m) : m \in bannedSubnets \cup {n}}
    BY <2>1, Targets
  <2> HIDE DEF lost, taken
  <2>5. DOMAIN active' = {Ip(a) : a \in bannedIps \ taken}
                           \cup {Subnet(m) : m \in bannedSubnets \cup {n}}
    BY <1>4, <1>6, <2>2, <2>3, <2>4
  <2>. QED
    BY <2>5, <1>1 DEF BansAgree
<1>11. SubnetBansSubsume'
  BY <1>1 DEF BansInv, SubnetBansSubsume, InAny
<1>12. bannedIps' \subseteq Addr /\ bannedSubnets' \subseteq Net
  BY <1>1 DEF BansInv
<1>. QED
  BY <1>5, <1>7, <1>8, <1>9, <1>10, <1>11, <1>12 DEF BansInv

(* A refused ban.                                                          *)
LEMMA BanFailsInv ==
  ASSUME BansInv, NEW t \in Target, BanFails(t)
  PROVE  BansInv'
<1>1. UNCHANGED <<reputation, active, bannedIps, bannedSubnets>>
  BY DEF BanFails, banVars
<1>2. IsMap(ipset', Net, Flag)
  <2>1. IsMap(IpsetAdd(ipset, t.net, "match"), Net, Flag)
    BY IpsetAddType, TargetNet DEF BansInv
  <2>2. ipset' = ipset \/ ipset' = IpsetAdd(ipset, t.net, "match")
    BY DEF BanFails, MaybeDone
  <2>. QED
    BY <2>1, <2>2 DEF BansInv
<1>. QED
  BY <1>1, <1>2 DEF BansInv, BansAgree, SubnetBansSubsume, InAny

\* Reputation that is dropped leaves a table within its limit.
LEMMA ReputationPruned ==
  ASSUME IsMap(reputation, Net, Reputation), Within(DOMAIN reputation, MaxReputation),
         NEW R, reputation' = reputation \/ reputation' = Drop(reputation, R)
  PROVE  IsMap(reputation', Net, Reputation) /\ Within(DOMAIN reputation', MaxReputation)
<1>1. CASE reputation' = reputation
  BY <1>1
<1>2. CASE reputation' = Drop(reputation, R)
  <2>1. IsMap(reputation', Net, Reputation)
    BY <1>2, DropType
  <2>2. DOMAIN reputation' = DOMAIN reputation \ R
    BY <1>2, DropDomain
  <2>3. DOMAIN reputation' \subseteq DOMAIN reputation
    BY <2>2
  <2>. QED
    BY <2>1, <2>3, ConstantTypes, SmallerWithin
<1>. QED
  BY <1>1, <1>2

(* Lifting bans, with or without forgetting some of the reputation.        *)
LEMMA LiftInv ==
  ASSUME BansInv, NEW T, Lift(T), IsMap(ipset', Net, Flag),
         NEW R, reputation' = reputation \/ reputation' = Drop(reputation, R)
  PROVE  BansInv'
<1>1. /\ active' = Drop(active, T)
      /\ bannedIps' = {a \in bannedIps : Ip(a) \notin T}
      /\ bannedSubnets' = {n \in bannedSubnets : Subnet(n) \notin T}
  BY DEF Lift
<1>2. IsMap(active', Target, Time)
  BY <1>1, DropType DEF BansInv
<1>3. DOMAIN active' = DOMAIN active \ T
  BY <1>1, DropDomain
<1>4. Within(DOMAIN active', MaxActiveBans)
  <2>1. DOMAIN active' \subseteq DOMAIN active
    BY <1>3
  <2>. QED
    BY <2>1, ConstantTypes, SmallerWithin DEF BansInv
<1>5. IsMap(reputation', Net, Reputation) /\ Within(DOMAIN reputation', MaxReputation)
  BY ReputationPruned DEF BansInv
<1>6. BansAgree'
  BY <1>1, <1>3 DEF BansInv, BansAgree
<1>7. SubnetBansSubsume'
  BY <1>1 DEF BansInv, SubnetBansSubsume, InAny
<1>8. bannedIps' \subseteq Addr /\ bannedSubnets' \subseteq Net
  BY <1>1 DEF BansInv
<1>. QED
  BY <1>2, <1>4, <1>5, <1>6, <1>7, <1>8 DEF BansInv

\* A loop that stops at an error keeps the tables in agreement.
LEMMA LiftUntilErrorInv ==
  ASSUME BansInv, NEW before, NEW T, LiftUntilError(before, T), reputation' = reputation
  PROVE  BansInv'
<1>1. PICK done, nets, more : /\ Lift(done)
                             /\ \/ ipset' = IpsetDel(ipset, nets)
                                \/ ipset' = IpsetDel(IpsetDel(ipset, nets), more)
  BY DEF LiftUntilError, MaybeDone
<1>2. IsMap(ipset', Net, Flag)
  <2>1. IsMap(IpsetDel(ipset, nets), Net, Flag)
    BY IpsetDelType DEF BansInv
  <2>2. IsMap(IpsetDel(IpsetDel(ipset, nets), more), Net, Flag)
    BY <2>1, IpsetDelType
  <2>. QED
    BY <1>1, <2>1, <2>2
<1>. QED
  BY <1>1, <1>2, LiftInv

-----------------------------------------------------------------------------
(* The steps.                                                              *)

\* Untouched scores stay well.
LEMMA ScoresSame ==
  ASSUME ScoresInv, UNCHANGED scoreVars
  PROVE  ScoresInv'
  BY DEF ScoresInv, scoreVars, ScoresDated, SubnetsScored, ScoredSubnets

\* Untouched bans stay well.
LEMMA BansSame ==
  ASSUME BansInv, UNCHANGED <<banVars, ipset>>
  PROVE  BansInv'
  BY DEF BansInv, banVars, BansAgree, SubnetBansSubsume, InAny

(* A ban is kept, or a longer-lived one around it takes over.              *)
LEMMA BanIpKeeps ==
  ASSUME NEW a \in Addr, NEW expiry, BanIp(a, expiry)
  PROVE  BansEndRightly
<1>1. active' = Put(active, Ip(a), expiry)
  BY DEF BanIp
<1>2. DOMAIN active' = DOMAIN active \cup {Ip(a)}
  BY <1>1, PutDomain
<1>. QED
  BY <1>2 DEF BansEndRightly

\* A banned subnet ends the bans of its addresses only, which it covers.
LEMMA BanSubnetKeeps ==
  ASSUME BansInv, NEW n \in Net, NEW expiry, expiry > now, BanSubnet(n, expiry)
  PROVE  BansEndRightly
<1> DEFINE taken == bannedIps \cap Members[n]
           grown == Put(active, Subnet(n), expiry)
           lost  == {Ip(a) : a \in taken}
<1>1. active' = Drop(grown, lost)
  BY DEF BanSubnet
<1>2. taken \subseteq Addr
  BY DEF BansInv
<1>3. Subnet(n) \notin lost
  BY <1>2, Targets
<1>4. DOMAIN grown = DOMAIN active \cup {Subnet(n)} /\ grown[Subnet(n)] = expiry
  BY DEF Put
<1>5. \A t \in lost : Covers(Subnet(n).net, t.net)
  <2>1. \A a \in taken : Members[Ip(a).net] = {a}
    BY <1>2, Targets, NetworkAssumption
  <2>2. Subnet(n).net = n
    BY Targets
  <2>. QED
    BY <2>1, <2>2 DEF Covers
<1> HIDE DEF grown, lost
<1>6. DOMAIN active' = DOMAIN grown \ lost
  BY <1>1, DropDomain
<1>7. Subnet(n) \in DOMAIN active' /\ active'[Subnet(n)] = expiry
  BY <1>1, <1>3, <1>4 DEF Drop, Restrict
<1>8. DOMAIN active \ DOMAIN active' \subseteq lost
  BY <1>4, <1>6
<1>. QED
  BY <1>5, <1>7, <1>8 DEF BansEndRightly

\* Lifting expired bans ends expired bans only.
LEMMA LiftExpiredKeeps ==
  ASSUME NEW T, T \subseteq ExpiredBans, Lift(T)
  PROVE  BansEndRightly
<1>1. active' = Drop(active, T)
  BY DEF Lift
<1>2. DOMAIN active' = DOMAIN active \ T
  BY <1>1, DropDomain
<1>. QED
  BY <1>2 DEF BansEndRightly, ExpiredBans

\* Untouched bans do not end.
LEMMA SameBansKeep ==
  ASSUME UNCHANGED active
  PROVE  BansEndRightly
  BY DEF BansEndRightly

(* record.                                                                 *)
LEMMA RecordStepInv ==
  ASSUME IInv, NEW a \in Addr, NEW w \in Weights, NEW ok, RecordStep(a, w, ok)
  PROVE  IInv' /\ BansEndRightly
<1>1. config \in Configs /\ now \in Time /\ ScoresInv /\ BansInv
  BY DEF IInv
<1>2. PICK s \in ScoreOutcomes(a, w) : RecordStep(a, w, ok)!(s)
  BY DEF RecordStep
<1>3. ScoresFit(s)
  BY <1>1, ScoreOutcomesFit
<1> DEFINE n == SubnetOf[a]
<1>4. n \in Net /\ HostNet[a] \in Net /\ Subnet(n) \in Target /\ Ip(a) \in Target
  BY ConstantTypes, Targets
<1>5. config' \in Configs /\ now' \in Time
  BY <1>1, <1>2
<1>6. IsMap(offenders', Offender, Time) /\ Within(DOMAIN offenders', MaxTrackedIps)
  <2>1. offenders' = s.offenders \/ offenders' \in OffenderOutcomes(a, s.offenders)
    BY <1>2
  <2>. QED
    BY <2>1, <1>1, <1>3, OffenderOutcomesFit DEF ScoresFit
<1>7. ScoresInv'
  <2>1. ipCounts' = s.counts /\ lastSeen' = s.seen /\ subnetCounts' = s.totals
    BY <1>2
  <2>. QED
    BY <2>1, <1>3, <1>6 DEF ScoresFit, ScoresInv, ScoresDated, SubnetsScored, ScoredSubnets
<1>8. BansInv' /\ BansEndRightly
  <2>1. CASE UNCHANGED <<banVars, ipset>>
    <3>1. UNCHANGED active
      BY <2>1 DEF banVars
    <3>. QED
      BY <2>1, <3>1, <1>1, BansSame, SameBansKeep
  <2>2. CASE BanSubnet(n, now + Later(BanLength(n), config.subnetBan))
    <3> DEFINE expiry == now + Later(BanLength(n), config.subnetBan)
    <3>1. expiry \in Time /\ expiry > now
      BY <1>1, <1>4, BanLengthType, ConfigTypes DEF Time, Later, BansInv
    <3> HIDE DEF expiry, n
    <3>2. BanSubnet(n, expiry)
      BY <2>2 DEF expiry
    <3>. QED
      BY <3>1, <3>2, <1>1, <1>4, BanSubnetInv, BanSubnetKeeps
  <2>3. CASE ~IsCoveredByBannedSubnet(a) /\ BanIp(a, now + BanLength(HostNet[a]))
    <3>1. now + BanLength(HostNet[a]) \in Time
      BY <1>1, <1>4, BanLengthType DEF Time, BansInv
    <3>. QED
      BY <2>3, <3>1, <1>1, BanIpInv, BanIpKeeps
  <2>4. CASE BanFails(Subnet(n)) \/ BanFails(Ip(a))
    <3>1. UNCHANGED active
      BY <2>4 DEF BanFails, banVars
    <3>. QED
      BY <2>4, <3>1, <1>1, <1>4, BanFailsInv, SameBansKeep
  <2>. QED
    BY <1>2, <2>1, <2>2, <2>3, <2>4
<1>. QED
  BY <1>5, <1>7, <1>8 DEF IInv

(* add_manual.                                                             *)
LEMMA AddManualInv ==
  ASSUME IInv, NEW t \in Target, NEW length \in Nat \ {0}, AddManual(t, length)
  PROVE  IInv' /\ BansEndRightly
<1>1. config \in Configs /\ now \in Time /\ ScoresInv /\ BansInv
  BY DEF IInv
<1>2. UNCHANGED <<config, scoreVars, now>>
  BY DEF AddManual, AddManualOk, AddManualFails
<1>3. ScoresInv'
  BY <1>1, <1>2, ScoresSame
<1>4. now + length \in Time /\ now + length > now
  BY <1>1 DEF Time
<1>5. BansInv' /\ BansEndRightly
  <2>1. CASE \E a \in Addr : ~IsCoveredByBannedSubnet(a) /\ BanIp(a, now + length)
    <3>1. PICK a \in Addr : ~IsCoveredByBannedSubnet(a) /\ BanIp(a, now + length)
      BY <2>1
    <3>. QED
      BY <3>1, <1>1, <1>4, BanIpInv, BanIpKeeps
  <2>2. CASE \E n \in Net : BanSubnet(n, now + length)
    <3>1. PICK n \in Net : BanSubnet(n, now + length)
      BY <2>2
    <3>. QED
      BY <3>1, <1>1, <1>4, BanSubnetInv, BanSubnetKeeps
  <2>3. CASE BanFails(t)
    <3>1. UNCHANGED active
      BY <2>3 DEF BanFails, banVars
    <3>. QED
      BY <2>3, <3>1, <1>1, BanFailsInv, SameBansKeep
  <2>. QED
    BY <2>1, <2>2, <2>3 DEF AddManual, AddManualOk, AddManualFails
<1>. QED
  BY <1>1, <1>2, <1>3, <1>5 DEF IInv

(* cleanup_expired.                                                        *)
LEMMA CleanupExpiredInv ==
  ASSUME IInv, CleanupExpired
  PROVE  IInv' /\ BansEndRightly
<1>1. config \in Configs /\ now \in Time /\ ScoresInv /\ BansInv
  BY DEF IInv
<1>2. CASE CleanupOk
  <2> DEFINE aged == {a \in DOMAIN lastSeen : SeenTooLongAgo(a)}
             F    == {k \in DOMAIN offenders : offenders[k] <= now - config.promotionWindow}
             R    == {n \in DOMAIN reputation : reputation[n].until <= now}
             nets == {t.net : t \in ExpiredBans}
  <2>1. Restrict(ipCounts, (DOMAIN ipCounts \cap DOMAIN lastSeen) \ aged) = Drop(ipCounts, aged)
    <3>1. (DOMAIN ipCounts \cap DOMAIN lastSeen) \ aged = DOMAIN ipCounts \ aged
      BY <1>1 DEF ScoresInv, ScoresDated
    <3>. QED
      BY <3>1 DEF Drop
  <2>2. /\ ipCounts' = Drop(ipCounts, aged)
        /\ lastSeen' = Drop(lastSeen, aged)
        /\ subnetCounts' = SubnetTotals(Drop(ipCounts, aged))
        /\ offenders' = Drop(offenders, F)
    BY <1>2, <2>1 DEF CleanupOk
  <2>3. Lift(ExpiredBans) /\ ipset' = IpsetDel(ipset, nets) /\ reputation' = Drop(reputation, R)
    BY <1>2 DEF CleanupOk
  <2>4. UNCHANGED <<config, now>>
    BY <1>2 DEF CleanupOk
  <2> HIDE DEF aged, F, R, nets
  <2>5. ScoresInv'
    BY <1>1, <2>2, PruneScores
  <2>6. IsMap(ipset', Net, Flag)
    BY <1>1, <2>3, IpsetDelType DEF BansInv
  <2>7. BansInv'
    BY <1>1, <2>3, <2>6, LiftInv
  <2>8. BansEndRightly
    BY <2>3, LiftExpiredKeeps
  <2>. QED
    BY <1>1, <2>4, <2>5, <2>7, <2>8 DEF IInv
<1>3. CASE CleanupFails
  <2>1. LiftUntilError({}, ExpiredBans) /\ UNCHANGED <<config, scoreVars, reputation, now>>
    BY <1>3 DEF CleanupFails
  <2>2. ScoresInv'
    BY <1>1, <2>1, ScoresSame
  <2>3. BansInv'
    BY <1>1, <2>1, LiftUntilErrorInv
  <2>4. PICK T : T \subseteq ExpiredBans /\ Lift(T)
    BY <2>1 DEF LiftUntilError
  <2>5. BansEndRightly
    BY <2>4, LiftExpiredKeeps
  <2>. QED
    BY <1>1, <2>1, <2>2, <2>3, <2>5 DEF IInv
<1>. QED
  BY <1>2, <1>3 DEF CleanupExpired

(* apply_exceptions.                                                       *)
LEMMA ApplyExceptionsInv ==
  ASSUME IInv, NEW exc, ApplyExceptions(exc)
  PROVE  IInv'
<1>1. config \in Configs /\ now \in Time /\ ScoresInv /\ BansInv
  BY DEF IInv
<1>2. CASE ApplyExceptionsOk(exc)
  <2> DEFINE exempt == {a \in Addr : InAny(a, exc)}
             F      == {k \in DOMAIN offenders : CoveredByAny(k[1], exc) \/ k[2] \in exempt}
             R      == {n \in DOMAIN reputation : CoveredByAny(n, exc)}
             nets   == {t.net : t \in ExemptBans(exc)}
  <2>1. /\ ipCounts' = Drop(ipCounts, exempt)
        /\ lastSeen' = Drop(lastSeen, exempt)
        /\ subnetCounts' = SubnetTotals(Drop(ipCounts, exempt))
        /\ offenders' = Drop(offenders, F)
    BY <1>2 DEF ApplyExceptionsOk
  <2>2. Lift(ExemptBans(exc)) /\ ipset' = IpsetDel(ipset, nets) /\ reputation' = Drop(reputation, R)
    BY <1>2 DEF ApplyExceptionsOk
  <2>3. UNCHANGED <<config, now>>
    BY <1>2 DEF ApplyExceptionsOk
  <2> HIDE DEF exempt, F, R, nets
  <2>4. ScoresInv'
    BY <1>1, <2>1, PruneScores
  <2>5. IsMap(ipset', Net, Flag)
    BY <1>1, <2>2, IpsetDelType DEF BansInv
  <2>6. BansInv'
    BY <1>1, <2>2, <2>5, LiftInv
  <2>. QED
    BY <1>1, <2>3, <2>4, <2>6 DEF IInv
<1>3. CASE ApplyExceptionsFails(exc)
  <2>1. UNCHANGED <<config, scoreVars, reputation, now>>
    BY <1>3 DEF ApplyExceptionsFails
  <2>2. ScoresInv'
    BY <1>1, <2>1, ScoresSame
  <2>3. BansInv'
    BY <1>1, <1>3, <2>1, LiftUntilErrorInv DEF ApplyExceptionsFails
  <2>. QED
    BY <1>1, <2>1, <2>2, <2>3 DEF IInv
<1>. QED
  BY <1>2, <1>3 DEF ApplyExceptions

(* reset_counts.                                                           *)
LEMMA ResetCountsInv ==
  ASSUME IInv, NEW t, ResetCounts(t)
  PROVE  IInv' /\ BansEndRightly
<1>1. config \in Configs /\ now \in Time /\ ScoresInv /\ BansInv
  BY DEF IInv
<1>2. PICK F, R :
        /\ ipCounts' = Drop(ipCounts, Members[t.net])
        /\ lastSeen' = Drop(lastSeen, Members[t.net])
        /\ subnetCounts' = SubnetTotals(Drop(ipCounts, Members[t.net]))
        /\ offenders' = Drop(offenders, F)
        /\ reputation' = Drop(reputation, R)
  BY DEF ResetCounts
<1>3. UNCHANGED <<config, active, bannedIps, bannedSubnets, ipset, now>>
  BY DEF ResetCounts
<1>4. ScoresInv'
  BY <1>1, <1>2, PruneScores
<1>5. IsMap(reputation', Net, Reputation) /\ Within(DOMAIN reputation', MaxReputation)
  BY <1>1, <1>2, ReputationPruned DEF BansInv
<1>7. BansInv'
  BY <1>1, <1>3, <1>5 DEF BansInv, BansAgree, SubnetBansSubsume, InAny
<1>. QED
  BY <1>1, <1>3, <1>4, <1>7, SameBansKeep DEF IInv

(* reconfigure.                                                            *)
LEMMA ReconfigureInv ==
  ASSUME IInv, NEW c \in Configs, Reconfigure(c)
  PROVE  IInv' /\ BansEndRightly
<1>1. config \in Configs /\ now \in Time /\ ScoresInv /\ BansInv
  BY DEF IInv
<1>2. /\ config' = c /\ subnetCounts' = SubnetTotals(ipCounts)
      /\ UNCHANGED <<ipCounts, lastSeen, offenders, banVars, ipset, now>>
  BY DEF Reconfigure
<1>3. IsMap(subnetCounts', Net, Score) /\ DOMAIN subnetCounts' = ScoredSubnets(ipCounts)
  BY <1>1, <1>2, SubnetTotalsType DEF ScoresInv, IsMap
<1>4. ScoresInv'
  BY <1>1, <1>2, <1>3 DEF ScoresInv, ScoresDated, SubnetsScored, ScoredSubnets
<1>5. BansInv' /\ UNCHANGED active
  BY <1>1, <1>2, BansSame DEF banVars
<1>. QED
  BY <1>1, <1>2, <1>4, <1>5, SameBansKeep DEF IInv

\* Time passing keeps the invariant.
LEMMA TickInv ==
  ASSUME IInv, Tick
  PROVE  IInv' /\ BansEndRightly
<1>1. now' \in Time /\ UNCHANGED <<config, scoreVars, banVars, ipset>>
  BY DEF Tick, IInv, Time
<1>2. ScoresInv' /\ BansInv' /\ UNCHANGED active
  BY <1>1, ScoresSame, BansSame DEF IInv, banVars
<1>. QED
  BY <1>1, <1>2, SameBansKeep DEF IInv

-----------------------------------------------------------------------------
(* The theorems.                                                           *)

\* A new aggregator has the invariant.
LEMMA InitInv == Init => IInv
<1> SUFFICES ASSUME Init PROVE IInv
  OBVIOUS
<1>1. DOMAIN EmptyMap = {} /\ \A S, R : IsMap(EmptyMap, S, R)
  BY DEF EmptyMap, IsMap
<1>2. \A M \in Nat : Within({}, M)
  BY FS_EmptySet DEF Within
<1>3. ScoresInv
  <2>1. ScoresDated /\ SubnetsScored
    BY <1>1 DEF Init, ScoresDated, SubnetsScored, ScoredSubnets
  <2>. QED
    BY <2>1, <1>1, <1>2, ConstantTypes DEF Init, ScoresInv
<1>4. BansInv
  <2>1. BansAgree /\ SubnetBansSubsume
    BY <1>1 DEF Init, BansAgree, SubnetBansSubsume, InAny
  <2>. QED
    BY <2>1, <1>1, <1>2, ConstantTypes DEF Init, BansInv
<1>. QED
  BY <1>3, <1>4 DEF Init, IInv, Time

\* Every step keeps the invariant, and ends bans rightly.
LEMMA StepInv == IInv /\ [Next]_vars => IInv' /\ [BansEndRightly]_active
<1> SUFFICES ASSUME IInv, [Next]_vars PROVE IInv' /\ [BansEndRightly]_active
  OBVIOUS
<1>1. CASE \E a \in Addr, w \in Weights : Record(a, w)
  BY <1>1, RecordStepInv DEF Record
<1>2. CASE \E t \in ManualTargets, length \in ManualDurations : AddManual(t, length)
  <2>1. ManualTargets \subseteq Target /\ ManualDurations \subseteq Nat \ {0}
    BY AggregateAssumption
  <2>. QED
    BY <1>2, <2>1, AddManualInv
<1>3. CASE CleanupExpired
  BY <1>3, CleanupExpiredInv
<1>4. CASE \E exc \in ExceptionSets : ApplyExceptions(exc)
  BY <1>4, ApplyExceptionsInv DEF BansEndRightly
<1>5. CASE \E t \in ManualTargets : ResetCounts(t)
  BY <1>5, ResetCountsInv
<1>6. CASE \E c \in Configs : Reconfigure(c)
  BY <1>6, ReconfigureInv
<1>7. CASE Tick
  BY <1>7, TickInv
<1>8. CASE UNCHANGED vars
  <2>1. ScoresInv' /\ BansInv' /\ UNCHANGED active
    BY <1>8, ScoresSame, BansSame DEF IInv, vars, banVars
  <2>. QED
    BY <1>8, <2>1 DEF IInv, vars
<1>. QED
  BY <1>1, <1>2, <1>3, <1>4, <1>5, <1>6, <1>7, <1>8 DEF Next, NextBesideHits

\* The steps of the specification, whether commands may fail or not.
LEMMA SpecSteps == Spec => Init /\ [][Next]_vars
<1>1. [Next /\ UNCHANGED faulty]_<<vars, faulty>> => [Next]_vars
  OBVIOUS
<1>. QED
  BY <1>1, PTL DEF Spec

(* The tables keep their types, agree with each other and stay within      *)
(* their bounds: the invariant behind all the others.                      *)
THEOREM AggregateInvariant == Spec => []IInv
<1>. QED
  BY InitInv, StepInv, SpecSteps, PTL

(* Every table of the aggregator holds values of its type.                 *)
THEOREM TypeCorrect == Spec => []TypeOK
<1>1. IInv => TypeOK
  BY DEF IInv, ScoresInv, BansInv, TypeOK
<1>. QED
  BY <1>1, AggregateInvariant, PTL

(* banned_ips and banned_subnets are the keys of active_bans, also after   *)
(* backend errors.                                                         *)
THEOREM BanTablesAgree == Spec => []BansAgree
<1>1. IInv => BansAgree
  BY DEF IInv, BansInv
<1>. QED
  BY <1>1, AggregateInvariant, PTL

(* No address is banned one by one inside a banned subnet.                 *)
THEOREM SubnetsAuthoritative == Spec => []SubnetBansSubsume
<1>1. IInv => SubnetBansSubsume
  BY DEF IInv, BansInv
<1>. QED
  BY <1>1, AggregateInvariant, PTL

(* Every scored address can age out.                                       *)
THEOREM AllScoresDated == Spec => []ScoresDated
<1>1. IInv => ScoresDated
  BY DEF IInv, ScoresInv
<1>. QED
  BY <1>1, AggregateInvariant, PTL

(* No table outgrows its capacity, for every capacity and every number of  *)
(* addresses.                                                              *)
THEOREM TablesBounded == Spec => []WithinCapacity
<1>1. IInv => WithinCapacity
  BY DEF IInv, ScoresInv, BansInv, Within, WithinCapacity
<1>. QED
  BY <1>1, AggregateInvariant, PTL

(* Only expiry, an exception or a ban around it ends a ban.                *)
THEOREM BansHoldAlways == Spec => BansHold
<1>. QED
  BY InitInv, StepInv, SpecSteps, PTL DEF BansHold

-----------------------------------------------------------------------------
(* The bans and their kernel entries, if no two targets share an entry.    *)

HasEntry(set, t) == ValueOr(set, Entry(t.net), "absent") = "match"

\* A ban of t is one that the networks in exc exempt.
Exempted(t, exc) ==
  \/ \E a \in Addr : t = Ip(a) /\ InAny(a, exc)
  \/ \E n \in Net : t = Subnet(n) /\ CoveredByAny(n, exc)

MayBeExempt(t) == \E exc \in ExceptionSets : Exempted(t, exc)

BansPossible == DOMAIN active \subseteq PossibleTargets

EnforcedInv ==
  /\ BansPossible
  /\ \A t \in DOMAIN active : active[t] > now => HasEntry(ipset, t) \/ MayBeExempt(t)

\* What can be banned is a target; every address and its subnet can.
LEMMA PossibleTypes ==
  /\ PossibleTargets \subseteq Target
  /\ \A a \in Addr : Ip(a) \in PossibleTargets /\ Subnet(SubnetOf[a]) \in PossibleTargets
  BY AggregateAssumption DEF PossibleTargets, Target

(* Whether a ban is exempt depends on its target alone.                    *)
LEMMA ExemptIff ==
  ASSUME BansInv, NEW exc
  PROVE  ExemptBans(exc) = {t \in DOMAIN active : Exempted(t, exc)}
<1>1. DOMAIN active = {Ip(a) : a \in bannedIps} \cup {Subnet(n) : n \in bannedSubnets}
  BY DEF BansInv, BansAgree
<1>2. bannedIps \subseteq Addr /\ bannedSubnets \subseteq Net
  BY DEF BansInv
<1>3. ASSUME NEW t \in ExemptBans(exc)
      PROVE  t \in DOMAIN active /\ Exempted(t, exc)
  BY <1>1, <1>2 DEF ExemptBans, ExemptIps, ExemptSubnets, Exempted
<1>4. ASSUME NEW t \in DOMAIN active, Exempted(t, exc)
      PROVE  t \in ExemptBans(exc)
  <2>1. CASE \E a \in bannedIps : t = Ip(a)
    <3>1. PICK a \in bannedIps : t = Ip(a)
      BY <2>1
    <3>2. InAny(a, exc)
      BY <3>1, <1>2, <1>4, Targets DEF Exempted
    <3>. QED
      BY <3>1, <3>2 DEF ExemptBans, ExemptIps
  <2>2. CASE \E n \in bannedSubnets : t = Subnet(n)
    <3>1. PICK n \in bannedSubnets : t = Subnet(n)
      BY <2>2
    <3>2. CoveredByAny(n, exc)
      BY <3>1, <1>2, <1>4, Targets DEF Exempted
    <3>. QED
      BY <3>1, <3>2 DEF ExemptBans, ExemptSubnets
  <2>. QED
    BY <1>1, <2>1, <2>2
<1>. QED
  BY <1>3, <1>4

(* What adding and deleting entries does to the entry of a target.         *)
LEMMA EntryAdded ==
  ASSUME NEW set, NEW n, NEW t
  PROVE  HasEntry(set, t) \/ Entry(t.net) = Entry(n) => HasEntry(IpsetAdd(set, n, "match"), t)
  BY DEF HasEntry, IpsetAdd, ValueOr, Put

\* A deletion of other entries leaves an entry where it is.
LEMMA EntryKept ==
  ASSUME NEW set, NEW nets, NEW t, \A n \in nets : Entry(n) # Entry(t.net), HasEntry(set, t)
  PROVE  HasEntry(IpsetDel(set, nets), t)
  BY DEF HasEntry, IpsetDel, ValueOr, Drop, Restrict

(* An expired ban may go, an entry too when its ban is gone or may be      *)
(* exempt.                                                                 *)
LEMMA EntriesFollow ==
  ASSUME EnforcedInv, now \in Time, now' \in Time, now' >= now,
         IsMap(active, Target, Time), DOMAIN active' \subseteq DOMAIN active,
         \A t \in DOMAIN active' :
           /\ active'[t] = active[t]
           /\ active[t] > now /\ HasEntry(ipset, t) => HasEntry(ipset', t) \/ MayBeExempt(t)
  PROVE  EnforcedInv'
<1>1. BansPossible'
  BY DEF EnforcedInv, BansPossible
<1>2. ASSUME NEW t \in DOMAIN active', active'[t] > now'
      PROVE  HasEntry(ipset', t) \/ MayBeExempt(t)
  <2>1. active[t] \in Time
    BY DEF IsMap
  <2>2. active[t] > now
    BY <1>2, <2>1 DEF Time
  <2>. QED
    BY <2>2 DEF EnforcedInv
<1>3. \A t : MayBeExempt(t)' = MayBeExempt(t)
  BY DEF MayBeExempt
<1>. QED
  BY <1>1, <1>2, <1>3 DEF EnforcedInv

(* Lifting bans and deleting their entries leaves the other entries.       *)
LEMMA LiftEntries ==
  ASSUME DistinctEntries, BansPossible, NEW T, T \subseteq DOMAIN active, Lift(T)
  PROVE  \A t \in DOMAIN active' :
           /\ t \in DOMAIN active \ T
           /\ active'[t] = active[t]
           /\ \A n \in {u.net : u \in T} : Entry(n) # Entry(t.net)
<1>1. active' = Drop(active, T)
  BY DEF Lift
<1>2. DOMAIN active' = DOMAIN active \ T
  BY <1>1, DropDomain
<1>3. \A t \in DOMAIN active' : active'[t] = active[t]
  BY <1>1, <1>2 DEF Drop, Restrict
<1>. QED
  BY <1>2, <1>3 DEF DistinctEntries, BansPossible

\* Lifted bans take their own entries along, and no other.
LEMMA LiftEnforced ==
  ASSUME DistinctEntries, IInv, EnforcedInv, NEW T, T \subseteq DOMAIN active, Lift(T),
         ipset' = IpsetDel(ipset, {t.net : t \in T}), now' = now
  PROVE  EnforcedInv'
<1>1. now \in Time /\ now' >= now /\ IsMap(active, Target, Time)
  BY DEF IInv, BansInv, Time
<1>2. \A t \in DOMAIN active' :
           /\ t \in DOMAIN active \ T
           /\ active'[t] = active[t]
           /\ \A n \in {u.net : u \in T} : Entry(n) # Entry(t.net)
  BY LiftEntries DEF EnforcedInv
<1>3. \A t \in DOMAIN active' : HasEntry(ipset, t) => HasEntry(ipset', t)
  BY <1>2, EntryKept
<1>. QED
  BY <1>1, <1>2, <1>3, EntriesFollow

(* The ban at which a loop stopped is one that has expired or is exempt.   *)
LEMMA LiftUntilErrorEnforced ==
  ASSUME DistinctEntries, IInv, EnforcedInv, NEW before, NEW T, LiftUntilError(before, T),
         before \cup T \subseteq DOMAIN active, now' = now,
         \A t \in T : active[t] <= now \/ MayBeExempt(t)
  PROVE  EnforcedInv'
<1>1. PICK some \in SUBSET T, failed \in T :
        LiftUntilError(before, T)!(some, failed)
  BY DEF LiftUntilError
<1> DEFINE done    == before \cup some
           nets    == {t.net : t \in done}
           removed == IpsetDel(ipset, nets)
<1>2. Lift(done) /\ ipset' \in {removed, IpsetDel(removed, {failed.net})}
  BY <1>1 DEF MaybeDone
<1>3. now \in Time /\ now' >= now /\ IsMap(active, Target, Time)
  BY DEF IInv, BansInv, Time
<1>4. done \subseteq DOMAIN active
  OBVIOUS
<1>5. \A t \in DOMAIN active' :
        /\ t \in DOMAIN active \ done
        /\ active'[t] = active[t]
        /\ \A n \in nets : Entry(n) # Entry(t.net)
  BY <1>2, <1>4, LiftEntries DEF EnforcedInv
<1>6. ASSUME NEW t \in DOMAIN active', active[t] > now, HasEntry(ipset, t)
      PROVE  HasEntry(ipset', t) \/ MayBeExempt(t)
  <2> HIDE DEF nets, done
  <2>1. HasEntry(removed, t)
    BY <1>5, <1>6, EntryKept
  <2>2. CASE t = failed
    <3>1. active[t] \in Time
      BY <1>3, <1>5 DEF IsMap
    <3>. QED
      BY <2>2, <3>1, <1>3, <1>6 DEF Time
  <2>3. CASE t # failed
    <3>1. Entry(failed.net) # Entry(t.net)
      BY <2>3, <1>5 DEF DistinctEntries, EnforcedInv, BansPossible
    <3> HIDE DEF removed
    <3>2. HasEntry(IpsetDel(removed, {failed.net}), t)
      BY <2>1, <3>1, EntryKept
    <3>. QED
      BY <2>1, <3>2, <1>2
  <2>. QED
    BY <2>2, <2>3
<1>. QED
  BY <1>3, <1>5, <1>6, EntriesFollow

(* A ban that is recorded has its entry, and takes the entries of no       *)
(* other.                                                                  *)
LEMMA BanIpEnforced ==
  ASSUME EnforcedInv, NEW a \in Addr, NEW expiry, BanIp(a, expiry), now' = now
  PROVE  EnforcedInv'
<1>1. active' = Put(active, Ip(a), expiry) /\ ipset' = IpsetAdd(ipset, HostNet[a], "match")
  BY DEF BanIp
<1>2. DOMAIN active' = DOMAIN active \cup {Ip(a)}
  BY <1>1, PutDomain
<1>3. BansPossible'
  BY <1>2, PossibleTypes DEF EnforcedInv, BansPossible
<1>4. ASSUME NEW t \in DOMAIN active', active'[t] > now'
      PROVE  HasEntry(ipset', t) \/ MayBeExempt(t)
  <2>1. CASE t = Ip(a)
    BY <2>1, <1>1, EntryAdded, Targets
  <2>2. CASE t # Ip(a)
    <3>1. t \in DOMAIN active /\ active[t] > now
      BY <2>2, <1>1, <1>2, <1>4 DEF Put
    <3>. QED
      BY <3>1, <1>1, EntryAdded DEF EnforcedInv
  <2>. QED
    BY <2>1, <2>2
<1>. QED
  BY <1>3, <1>4 DEF EnforcedInv, MayBeExempt

\* A banned subnet has its entry, and the other bans keep theirs.
LEMMA BanSubnetEnforced ==
  ASSUME DistinctEntries, BansInv, EnforcedInv, NEW n \in Net,
         Subnet(n) \in PossibleTargets, NEW expiry, BanSubnet(n, expiry), now' = now
  PROVE  EnforcedInv'
<1> DEFINE taken == bannedIps \cap Members[n]
           hosts == {HostNet[a] : a \in taken}
           grown == Put(active, Subnet(n), expiry)
           lost  == {Ip(a) : a \in taken}
           added == IpsetAdd(ipset, n, "match")
<1>1. active' = Drop(grown, lost)
  BY DEF BanSubnet
<1>2. PICK done \in SUBSET hosts : ipset' = IpsetDel(added, done)
  BY DEF BanSubnet
<1>3. taken \subseteq Addr
  BY DEF BansInv
<1>4. DOMAIN grown = DOMAIN active \cup {Subnet(n)}
  BY PutDomain
<1>5. \A t \in DOMAIN active' :
        /\ t \in DOMAIN active \cup {Subnet(n)}
        /\ t \notin lost
        /\ t # Subnet(n) => active'[t] = active[t]
  BY <1>1, <1>4 DEF Drop, Restrict, Put
<1>6. BansPossible'
  BY <1>5 DEF EnforcedInv, BansPossible
<1>7. ASSUME NEW t \in DOMAIN active', active'[t] > now'
      PROVE  HasEntry(ipset', t) \/ MayBeExempt(t)
  <2>1. \A m \in done : Entry(m) # Entry(t.net)
    <3>1. \A a \in taken : Ip(a) # t /\ Ip(a) \in PossibleTargets /\ Ip(a).net = HostNet[a]
      BY <1>3, <1>5, Targets, PossibleTypes
    <3>2. t \in PossibleTargets
      BY <1>5 DEF EnforcedInv, BansPossible
    <3>. QED
      BY <3>1, <3>2, <1>2 DEF DistinctEntries
  <2>2. CASE t = Subnet(n)
    <3>1. HasEntry(added, t)
      BY <2>2, Targets, EntryAdded
    <3>. QED
      BY <3>1, <2>1, <1>2, EntryKept
  <2>3. CASE t # Subnet(n)
    <3>1. HasEntry(ipset, t) \/ MayBeExempt(t)
      BY <2>3, <1>5, <1>7 DEF EnforcedInv
    <3>2. HasEntry(ipset, t) => HasEntry(added, t)
      BY EntryAdded
    <3> HIDE DEF added
    <3>. QED
      BY <3>1, <3>2, <2>1, <1>2, EntryKept
  <2>. QED
    BY <2>2, <2>3
<1>. QED
  BY <1>6, <1>7 DEF EnforcedInv, MayBeExempt

\* A ban that is refused takes no entry away.
LEMMA BanFailsEnforced ==
  ASSUME IInv, EnforcedInv, NEW t, BanFails(t), now' = now
  PROVE  EnforcedInv'
<1>1. active' = active /\ ipset' \in {ipset, IpsetAdd(ipset, t.net, "match")}
  BY DEF BanFails, banVars, MaybeDone
<1>2. now \in Time /\ now' >= now /\ IsMap(active, Target, Time)
  BY DEF IInv, BansInv, Time
<1>3. \A u : HasEntry(ipset, u) => HasEntry(ipset', u)
  BY <1>1, EntryAdded
<1>. QED
  BY <1>1, <1>2, <1>3, EntriesFollow

\* Untouched bans keep their entries while time passes.
LEMMA SameBansEnforced ==
  ASSUME IInv, EnforcedInv, UNCHANGED <<active, ipset>>, now' \in Time, now' >= now
  PROVE  EnforcedInv'
<1>1. now \in Time /\ IsMap(active, Target, Time)
  BY DEF IInv, BansInv
<1>. QED
  BY <1>1, EntriesFollow

(* record, add_manual, cleanup_expired, apply_exceptions.                  *)
LEMMA RecordStepEnforced ==
  ASSUME DistinctEntries, IInv, EnforcedInv,
         NEW a \in Addr, NEW w, NEW ok, RecordStep(a, w, ok)
  PROVE  EnforcedInv'
<1>1. /\ UNCHANGED <<config, now>>
      /\ \/ UNCHANGED <<banVars, ipset>>
         \/ \E expiry : BanSubnet(SubnetOf[a], expiry)
         \/ BanFails(Subnet(SubnetOf[a]))
         \/ \E expiry : BanIp(a, expiry)
         \/ BanFails(Ip(a))
  BY DEF RecordStep
<1>2. now' = now /\ now' >= now /\ now' \in Time /\ BansInv
  BY <1>1 DEF IInv, Time
<1>3. SubnetOf[a] \in Net /\ Subnet(SubnetOf[a]) \in PossibleTargets
  BY ConstantTypes, PossibleTypes
<1>4. CASE UNCHANGED <<banVars, ipset>>
  BY <1>2, <1>4, SameBansEnforced DEF banVars
<1>5. CASE \E expiry : BanSubnet(SubnetOf[a], expiry)
  BY <1>2, <1>3, <1>5, BanSubnetEnforced
<1>6. CASE \E expiry : BanIp(a, expiry)
  BY <1>2, <1>6, BanIpEnforced
<1>7. CASE BanFails(Subnet(SubnetOf[a])) \/ BanFails(Ip(a))
  BY <1>2, <1>7, BanFailsEnforced
<1>. QED
  BY <1>1, <1>4, <1>5, <1>6, <1>7

\* A manual ban keeps the bans enforced.
LEMMA AddManualEnforced ==
  ASSUME DistinctEntries, IInv, EnforcedInv,
         NEW t \in ManualTargets, NEW length, AddManual(t, length)
  PROVE  EnforcedInv'
<1>1. now' = now /\ BansInv
  BY DEF IInv, AddManual, AddManualOk, AddManualFails
<1>2. CASE \E a \in Addr : BanIp(a, now + length)
  BY <1>1, <1>2, BanIpEnforced
<1>3. CASE \E n \in Net : t = Subnet(n) /\ BanSubnet(n, now + length)
  BY <1>1, <1>3, BanSubnetEnforced DEF PossibleTargets
<1>4. CASE BanFails(t)
  BY <1>1, <1>4, BanFailsEnforced
<1>. QED
  BY <1>2, <1>3, <1>4 DEF AddManual, AddManualOk, AddManualFails

\* A cleanup keeps the bans enforced, where it stops too.
LEMMA CleanupExpiredEnforced ==
  ASSUME DistinctEntries, IInv, EnforcedInv, CleanupExpired
  PROVE  EnforcedInv'
<1>1. ExpiredBans \subseteq DOMAIN active /\ \A t \in ExpiredBans : active[t] <= now
  BY DEF ExpiredBans
<1>2. CASE CleanupOk
  <2>1. /\ Lift(ExpiredBans) /\ now' = now
        /\ ipset' = IpsetDel(ipset, {t.net : t \in ExpiredBans})
    BY <1>2 DEF CleanupOk
  <2>. QED
    BY <1>1, <2>1, LiftEnforced
<1>3. CASE CleanupFails
  <2>1. LiftUntilError({}, ExpiredBans) /\ now' = now
    BY <1>3 DEF CleanupFails
  <2>. QED
    BY <1>1, <2>1, LiftUntilErrorEnforced
<1>. QED
  BY <1>2, <1>3 DEF CleanupExpired

\* New exceptions keep the other bans enforced, where they stop half-way too.
LEMMA ApplyExceptionsEnforced ==
  ASSUME DistinctEntries, IInv, EnforcedInv,
         NEW exc \in ExceptionSets \cup {{}}, ApplyExceptions(exc)
  PROVE  EnforcedInv'
<1>1. ExemptBans(exc) = {t \in DOMAIN active : Exempted(t, exc)}
  BY ExemptIff DEF IInv
<1>2. CASE ApplyExceptionsOk(exc)
  <2>1. /\ Lift(ExemptBans(exc)) /\ now' = now
        /\ ipset' = IpsetDel(ipset, {t.net : t \in ExemptBans(exc)})
    BY <1>2 DEF ApplyExceptionsOk
  <2>. QED
    BY <1>1, <2>1, LiftEnforced
<1>3. CASE ApplyExceptionsFails(exc)
  <2>1. now' = now
    BY <1>3 DEF ApplyExceptionsFails
  <2>2. \A t \in ExemptBans(exc) : t \in DOMAIN active /\ MayBeExempt(t)
    <3>1. \A t : ~Exempted(t, {})
      BY DEF Exempted, InAny, CoveredByAny
    <3>. QED
      BY <1>1, <3>1 DEF MayBeExempt
  <2>3. ExemptBans(exc) = ExemptIps(exc) \cup ExemptSubnets(exc)
    BY DEF ExemptBans
  <2>4. CASE LiftUntilError({}, ExemptIps(exc))
    BY <2>1, <2>2, <2>3, <2>4, LiftUntilErrorEnforced
  <2>5. CASE LiftUntilError(ExemptIps(exc), ExemptSubnets(exc))
    BY <2>1, <2>2, <2>3, <2>5, LiftUntilErrorEnforced
  <2>. QED
    BY <1>3, <2>4, <2>5 DEF ApplyExceptionsFails
<1>. QED
  BY <1>2, <1>3 DEF ApplyExceptions

\* Every step keeps the bans enforced.
LEMMA StepEnforced ==
  ASSUME DistinctEntries, IInv, EnforcedInv, [Next]_vars
  PROVE  EnforcedInv'
<1>1. now \in Nat
  BY DEF IInv, Time
<1>2. CASE \E a \in Addr, w \in Weights : Record(a, w)
  BY <1>2, RecordStepEnforced DEF Record
<1>3. CASE \E t \in ManualTargets, length \in ManualDurations : AddManual(t, length)
  BY <1>3, AddManualEnforced
<1>4. CASE CleanupExpired
  BY <1>4, CleanupExpiredEnforced
<1>5. CASE \E exc \in ExceptionSets : ApplyExceptions(exc)
  BY <1>5, ApplyExceptionsEnforced
<1>6. CASE \E t \in ManualTargets : ResetCounts(t)
  <2>1. UNCHANGED <<active, ipset, now>>
    BY <1>6 DEF ResetCounts
  <2>. QED
    BY <2>1, <1>1, SameBansEnforced DEF Time
<1>7. CASE (\E c \in Configs : Reconfigure(c)) \/ UNCHANGED vars
  <2>1. UNCHANGED <<active, ipset, now>>
    BY <1>7 DEF Reconfigure, vars, banVars
  <2>. QED
    BY <2>1, <1>1, SameBansEnforced DEF Time
<1>8. CASE Tick
  <2>1. UNCHANGED <<active, ipset>> /\ now' = now + 1
    BY <1>8 DEF Tick, banVars
  <2>. QED
    BY <2>1, <1>1, SameBansEnforced DEF Time
<1>. QED
  BY <1>2, <1>3, <1>4, <1>5, <1>6, <1>7, <1>8 DEF Next, NextBesideHits

\* What the invariant calls enforced is what the property says.
LEMMA EnforcedImplies ==
  ASSUME IInv, EnforcedInv
  PROVE  BansEnforcedDespiteFaults
<1>1. \A exc : ExemptBans(exc) = {t \in DOMAIN active : Exempted(t, exc)}
  BY ExemptIff DEF IInv
<1>. QED
  BY <1>1 DEF EnforcedInv, HasEntry, MayBeExempt, BansEnforcedDespiteFaults

\* The bans have their entries in every state.
LEMMA KernelInvariant ==
  ASSUME DistinctEntries
  PROVE  Spec => []EnforcedInv
<1>1. Init => EnforcedInv
  BY DEF Init, EmptyMap, EnforcedInv, BansPossible
<1>2. IInv /\ EnforcedInv /\ [Next]_vars => EnforcedInv'
  BY StepEnforced
<1>. QED
  BY <1>1, <1>2, AggregateInvariant, SpecSteps, PTL

(* Whatever commands fail, every unexpired ban has its kernel entry unless *)
(* the allowlist exempts it, if no two targets share an entry.             *)
THEOREM BansEnforced ==
  ASSUME DistinctEntries
  PROVE  Spec => []BansEnforcedDespiteFaults
<1>1. IInv /\ EnforcedInv => BansEnforcedDespiteFaults
  BY EnforcedImplies
<1>. QED
  BY <1>1, KernelInvariant, AggregateInvariant, PTL

-----------------------------------------------------------------------------
(* A backend that never fails.                                             *)

(* The entries are those of the bans, after any step.                      *)
Mirrored(set, targets) ==
  /\ DOMAIN set = {Entry(t.net) : t \in targets}
  /\ \A n \in DOMAIN set : set[n] = "match"

\* A set that mirrors some targets mirrors one more when its entry is added.
LEMMA MirroredAdd ==
  ASSUME NEW set, NEW targets, Mirrored(set, targets), NEW t
  PROVE  Mirrored(IpsetAdd(set, t.net, "match"), targets \cup {t})
  BY DEF Mirrored, IpsetAdd, Put

\* A set that mirrors some targets mirrors the rest when entries are deleted.
LEMMA MirroredDel ==
  ASSUME DistinctEntries, NEW set, NEW targets \in SUBSET PossibleTargets,
         Mirrored(set, targets), NEW T, T \subseteq targets
  PROVE  Mirrored(IpsetDel(set, {t.net : t \in T}), targets \ T)
<1> DEFINE gone == {Entry(n) : n \in {t.net : t \in T}}
<1>1. gone = {Entry(t.net) : t \in T}
  OBVIOUS
<1>2. {Entry(t.net) : t \in targets} \ {Entry(t.net) : t \in T}
        = {Entry(t.net) : t \in targets \ T}
  BY DEF DistinctEntries
<1> HIDE DEF gone
<1>3. DOMAIN Drop(set, gone) = DOMAIN set \ gone
  BY DropDomain
<1>4. \A n \in DOMAIN Drop(set, gone) : Drop(set, gone)[n] = set[n]
  BY <1>3 DEF Drop, Restrict
<1>5. IpsetDel(set, {t.net : t \in T}) = Drop(set, gone)
  BY DEF IpsetDel, gone
<1>. QED
  BY <1>1, <1>2, <1>3, <1>4, <1>5 DEF Mirrored

\* Lifted bans and deleted entries go together.
LEMMA MirrorLift ==
  ASSUME DistinctEntries, BansPossible, IpsetMirrorsBans,
         NEW T, T \subseteq DOMAIN active, Lift(T),
         ipset' = IpsetDel(ipset, {t.net : t \in T})
  PROVE  IpsetMirrorsBans'
<1>1. DOMAIN active' = DOMAIN active \ T
  BY DropDomain DEF Lift
<1>2. Mirrored(ipset, DOMAIN active) /\ DOMAIN active \in SUBSET PossibleTargets
  BY DEF IpsetMirrorsBans, Mirrored, BansPossible
<1>3. Mirrored(ipset', DOMAIN active')
  BY <1>1, <1>2, MirroredDel
<1>. QED
  BY <1>3 DEF IpsetMirrorsBans, Mirrored

\* A banned address and its entry come together.
LEMMA MirrorBanIp ==
  ASSUME IpsetMirrorsBans, NEW a \in Addr, NEW expiry, BanIp(a, expiry)
  PROVE  IpsetMirrorsBans'
<1>1. /\ active' = Put(active, Ip(a), expiry)
      /\ ipset' = IpsetAdd(ipset, Ip(a).net, "match")
  BY Targets DEF BanIp
<1>2. DOMAIN active' = DOMAIN active \cup {Ip(a)}
  BY <1>1, PutDomain
<1>3. Mirrored(ipset, DOMAIN active)
  BY DEF IpsetMirrorsBans, Mirrored
<1>4. Mirrored(ipset', DOMAIN active')
  BY <1>1, <1>2, <1>3, MirroredAdd
<1>. QED
  BY <1>4 DEF IpsetMirrorsBans, Mirrored

\* A banned subnet comes with its entry, and the bans it takes over go with theirs.
LEMMA MirrorBanSubnet ==
  ASSUME DistinctEntries, ~faulty, BansInv, BansPossible, IpsetMirrorsBans,
         NEW n \in Net, Subnet(n) \in PossibleTargets, NEW expiry, BanSubnet(n, expiry)
  PROVE  IpsetMirrorsBans'
<1> DEFINE taken == bannedIps \cap Members[n]
           grown == Put(active, Subnet(n), expiry)
           lost  == {Ip(a) : a \in taken}
           added == IpsetAdd(ipset, Subnet(n).net, "match")
<1>1. taken \subseteq Addr /\ lost \subseteq DOMAIN active
  BY DEF BansInv, BansAgree
<1>2. {HostNet[a] : a \in taken} = {t.net : t \in lost}
  BY <1>1, Targets
<1>3. active' = Drop(grown, lost) /\ ipset' = IpsetDel(added, {t.net : t \in lost})
  BY <1>2, Targets DEF BanSubnet
<1>4. DOMAIN grown = DOMAIN active \cup {Subnet(n)}
  BY PutDomain
<1>5. Mirrored(ipset, DOMAIN active) /\ DOMAIN active \subseteq PossibleTargets
  BY DEF IpsetMirrorsBans, Mirrored, BansPossible
<1>6. Mirrored(added, DOMAIN active \cup {Subnet(n)})
  BY <1>5, MirroredAdd
<1> HIDE DEF grown, lost, added
<1>7. DOMAIN active' = (DOMAIN active \cup {Subnet(n)}) \ lost
  BY <1>3, <1>4, DropDomain
<1>8. Mirrored(ipset', DOMAIN active')
  BY <1>1, <1>3, <1>5, <1>6, <1>7, MirroredDel
<1>. QED
  BY <1>8 DEF IpsetMirrorsBans, Mirrored

\* Untouched bans and entries go on agreeing.
LEMMA SameBansMirror ==
  ASSUME IpsetMirrorsBans, UNCHANGED <<active, ipset>>
  PROVE  IpsetMirrorsBans'
  BY DEF IpsetMirrorsBans

\* When no command fails, every step keeps the entries those of the bans.
LEMMA StepMirror ==
  ASSUME DistinctEntries, ~faulty,
         IInv, BansPossible, IpsetMirrorsBans, [Next]_vars
  PROVE  IpsetMirrorsBans'
<1>1. BansInv
  BY DEF IInv
<1>2. ASSUME NEW a \in Addr, NEW w \in Weights, NEW ok, RecordStep(a, w, ok)
      PROVE  IpsetMirrorsBans'
  <2>1. SubnetOf[a] \in Net /\ Subnet(SubnetOf[a]) \in PossibleTargets
    BY ConstantTypes, PossibleTypes
  <2>2. \/ UNCHANGED <<active, ipset>>
        \/ \E expiry : BanSubnet(SubnetOf[a], expiry)
        \/ \E expiry : BanIp(a, expiry)
    BY <1>2 DEF RecordStep, BanFails, banVars
  <2>. QED
    BY <2>1, <2>2, <1>1, SameBansMirror, MirrorBanSubnet, MirrorBanIp
<1>3. ASSUME NEW t \in ManualTargets, NEW length, AddManual(t, length)
      PROVE  IpsetMirrorsBans'
  <2>1. \/ UNCHANGED <<active, ipset>>
        \/ \E n \in Net : Subnet(n) \in ManualTargets /\ BanSubnet(n, now + length)
        \/ \E a \in Addr : BanIp(a, now + length)
    BY <1>3 DEF AddManual, AddManualOk, AddManualFails, BanFails, banVars
  <2>. QED
    BY <2>1, <1>1, SameBansMirror, MirrorBanSubnet, MirrorBanIp DEF PossibleTargets
<1>4. CASE CleanupExpired
  <2>1. /\ Lift(ExpiredBans) /\ ExpiredBans \subseteq DOMAIN active
        /\ ipset' = IpsetDel(ipset, {t.net : t \in ExpiredBans})
    BY <1>4 DEF CleanupExpired, CleanupOk, CleanupFails, ExpiredBans
  <2>. QED
    BY <2>1, MirrorLift
<1>5. ASSUME NEW exc, ApplyExceptions(exc)
      PROVE  IpsetMirrorsBans'
  <2>1. /\ Lift(ExemptBans(exc))
        /\ ipset' = IpsetDel(ipset, {t.net : t \in ExemptBans(exc)})
    BY <1>5 DEF ApplyExceptions, ApplyExceptionsOk, ApplyExceptionsFails
  <2>2. ExemptBans(exc) \subseteq DOMAIN active
    BY <1>1, ExemptIff
  <2>. QED
    BY <2>1, <2>2, MirrorLift
<1>6. CASE \/ \E t \in ManualTargets : ResetCounts(t)
           \/ \E c \in Configs : Reconfigure(c)
           \/ Tick
           \/ UNCHANGED vars
  <2>1. UNCHANGED <<active, ipset>>
    BY <1>6 DEF ResetCounts, Reconfigure, Tick, vars, banVars
  <2>. QED
    BY <2>1, SameBansMirror
<1>. QED
  BY <1>2, <1>3, <1>4, <1>5, <1>6 DEF Next, NextBesideHits, Record

(* When no command fails the kernel set holds a matching entry for each    *)
(* ban and nothing else; whatever fails, every unexpired ban has its entry *)
(* unless the allowlist exempts it. If no two targets share an entry.      *)
THEOREM EntriesFollowBans ==
  ASSUME DistinctEntries
  PROVE  Spec => []IpsetFollowsBans
<1> DEFINE Mirror == ~faulty => IpsetMirrorsBans
<1>1. Init => Mirror
  BY DEF Init, EmptyMap, IpsetMirrorsBans
<1>2. IInv /\ EnforcedInv /\ Mirror /\ [Next /\ UNCHANGED faulty]_<<vars, faulty>> => Mirror'
  <2> SUFFICES ASSUME IInv, EnforcedInv, Mirror, ~faulty',
                      [Next /\ UNCHANGED faulty]_<<vars, faulty>>
               PROVE  IpsetMirrorsBans'
    OBVIOUS
  <2>1. ~faulty /\ [Next]_vars
    OBVIOUS
  <2> QED
    BY <2>1, StepMirror DEF EnforcedInv
<1>3. BansEnforcedDespiteFaults /\ Mirror => IpsetFollowsBans
  BY DEF IpsetFollowsBans
<1>4. Spec => []EnforcedInv
  BY KernelInvariant
<1>. QED
  BY <1>1, <1>2, <1>3, <1>4, AggregateInvariant, BansEnforced, PTL DEF Spec

-----------------------------------------------------------------------------
(* Sums over finite sets.                                                  *)

(* In every collection of subsets of a finite set one is minimal. This     *)
(* takes the place of induction: the smallest counterexample is refuted.   *)
LEMMA Minimal ==
  ASSUME NEW S, IsFiniteSet(S), NEW Bad \in SUBSET (SUBSET S), Bad # {}
  PROVE  \E T \in Bad : \A U \in Bad : ~(U \subseteq T /\ U # T)
<1> DEFINE R == StrictSubsetOrdering(S)
<1>1. IsWellFoundedOn(R, SUBSET S)
  BY FS_StrictSubsetOrderingWellFounded, FS_FiniteSubsetsOfFinite
<1>2. R = {ss \in (SUBSET S) \X (SUBSET S) : ss[1] \subseteq ss[2] /\ ss[1] # ss[2]}
  BY DEF StrictSubsetOrdering
<1> HIDE DEF R
<1>3. PICK T \in Bad : \A U \in Bad : ~(<<U, T>> \in R)
  BY <1>1, WFMin
<1>4. \A U \in Bad : <<U, T>> \in (SUBSET S) \X (SUBSET S)
  OBVIOUS
<1>5. \A U \in Bad : ~(U \subseteq T /\ U # T)
  BY <1>2, <1>3, <1>4
<1> QED BY <1>5

(* A set of natural numbers has a least member: among the intervals 1..n   *)
(* of its members n there is a minimal one.                                *)
LEMMA Least ==
  ASSUME NEW S \in SUBSET Nat, S # {}
  PROVE  \E n \in S : \A m \in S : n <= m
<1>1. PICK k \in S : TRUE
  OBVIOUS
<1> DEFINE B == 1..k
           Bad == {T \in SUBSET B : \E n \in S : n <= k /\ T = 1..n}
<1>2. IsFiniteSet(B)
  BY FS_Interval
<1>3. B \in Bad
  OBVIOUS
<1>4. PICK T \in Bad : \A U \in Bad : ~(U \subseteq T /\ U # T)
  <2>1. Bad \in SUBSET (SUBSET B) /\ Bad # {}
    BY <1>3
  <2> HIDE DEF B, Bad
  <2> QED BY <1>2, <2>1, Minimal
<1>5. PICK n \in S : n <= k /\ T = 1..n
  OBVIOUS
<1>6. ASSUME NEW m \in S, ~(n <= m) PROVE FALSE
  <2>1. m <= k /\ m < n /\ m \in Nat /\ n \in Nat /\ k \in Nat
    BY <1>5, <1>6
  <2>2. (1..m) \in Bad
    BY <2>1
  <2>3. (1..m) \subseteq T /\ n \in T /\ n \notin 1..m
    BY <2>1, <1>5
  <2> QED BY <2>2, <2>3, <1>4
<1> QED BY <1>6

(* Induction on the natural numbers.                                       *)
LEMMA NatInduct ==
  ASSUME NEW S \in SUBSET Nat, 0 \in S, \A n \in S : n + 1 \in S
  PROVE  S = Nat
<1> SUFFICES ASSUME S # Nat PROVE FALSE
  OBVIOUS
<1> DEFINE B == Nat \ S
<1>0. B \in SUBSET Nat /\ B # {}
  OBVIOUS
<1>1. PICK n \in B : \A m \in B : n <= m
  <2> HIDE DEF B
  <2> QED BY <1>0, Least
<1>2. n # 0 /\ n - 1 \in Nat /\ ~(n <= n - 1)
  OBVIOUS
<1>3. n - 1 \in S
  BY <1>1, <1>2
<1> QED BY <1>2, <1>3

(* The sum of f over a finite set, as MapThenSumSet takes it: one element  *)
(* after the other.                                                        *)
Some(T) == CHOOSE x \in T : TRUE

Sums(g, f, S) ==
  g = [T \in SUBSET S |-> IF T = {} THEN 0 ELSE f[Some(T)] + g[T \ {Some(T)}]]

Total(f, S) == MapThenSumSet(LAMBDA a : f[a], S)

\* The sum, as the fold defines it.
LEMMA TotalIs ==
  ASSUME NEW f, NEW S
  PROVE  Total(f, S) = (CHOOSE g : Sums(g, f, S))[S]
  BY DEF Total, MapThenSumSet, MapThenFoldSet, Sums, Some

\* The element the fold takes first is in the set.
LEMMA SomeIn ==
  ASSUME NEW T, T # {}
  PROVE  Some(T) \in T
  BY DEF Some

(* The recursion has a solution, level by level.                           *)
LEMMA SumsExists ==
  ASSUME NEW S, IsFiniteSet(S), NEW f
  PROVE  \E g : Sums(g, f, S)
<1> DEFINE Level(n) == {T \in SUBSET S : Cardinality(T) <= n}
           Good(n) == \E g : g = [T \in Level(n) |->
                        IF T = {} THEN 0 ELSE f[Some(T)] + g[T \ {Some(T)}]]
           G == {n \in Nat : Good(n)}
<1>0. \A T \in SUBSET S : IsFiniteSet(T) /\ Cardinality(T) \in Nat /\ Cardinality(T) <= Cardinality(S)
  BY FS_Subset, FS_CardinalityType
<1>1. \A T \in SUBSET S : T # {} => /\ Some(T) \in T /\ T \ {Some(T)} \in SUBSET S
                                    /\ Cardinality(T \ {Some(T)}) = Cardinality(T) - 1
  BY <1>0, SomeIn, FS_RemoveElement
<1>2. Good(0)
  <2> DEFINE g == [T \in Level(0) |-> 0]
  <2>1. \A T \in Level(0) : T = {}
    BY <1>0, FS_EmptySet
  <2>2. g = [T \in Level(0) |-> IF T = {} THEN 0 ELSE f[Some(T)] + g[T \ {Some(T)}]]
    BY <2>1
  <2> QED BY <2>2
<1>3. ASSUME NEW n \in Nat, Good(n) PROVE Good(n + 1)
  <2>1. PICK g : g = [T \in Level(n) |->
                        IF T = {} THEN 0 ELSE f[Some(T)] + g[T \ {Some(T)}]]
    BY <1>3
  <2> DEFINE h == [T \in Level(n + 1) |->
                        IF T = {} THEN 0 ELSE f[Some(T)] + g[T \ {Some(T)}]]
  <2>0. \A T \in Level(n) : T \in Level(n + 1)
    BY <1>0
  <2>2. \A T \in Level(n) : h[T] = g[T]
    BY <2>1, <2>0
  <2>3. \A T \in Level(n + 1) : T # {} => T \ {Some(T)} \in Level(n)
    BY <1>0, <1>1
  <2>4. \A T \in Level(n + 1) : T # {} => h[T \ {Some(T)}] = g[T \ {Some(T)}]
    BY <2>2, <2>3
  <2>5. h = [T \in Level(n + 1) |->
                        IF T = {} THEN 0 ELSE f[Some(T)] + h[T \ {Some(T)}]]
    BY <2>4
  <2> QED BY <2>5
<1>4. G = Nat
  <2> HIDE DEF Good
  <2>1. G \in SUBSET Nat /\ 0 \in G /\ \A n \in G : n + 1 \in G
    BY <1>2, <1>3
  <2> HIDE DEF G
  <2> QED BY <2>1, NatInduct
<1>5. Cardinality(S) \in Nat
  BY FS_CardinalityType
<1>6. Good(Cardinality(S))
  BY <1>4, <1>5
<1>7. Level(Cardinality(S)) = SUBSET S
  BY <1>0
<1> QED BY <1>6, <1>7 DEF Sums

(* Solutions for two sets agree on what the sets share.                    *)
LEMMA SumsAgree ==
  ASSUME NEW S, NEW R, IsFiniteSet(S), IsFiniteSet(R), NEW f, NEW g, NEW h,
         Sums(g, f, S), Sums(h, f, R), NEW T, T \subseteq S, T \subseteq R
  PROVE  g[T] = h[T]
<1> DEFINE Bad == {U \in SUBSET T : g[U] # h[U]}
<1> SUFFICES ASSUME T \in Bad PROVE FALSE
  OBVIOUS
<1>1. IsFiniteSet(T)
  BY FS_Subset
<1>2. PICK U \in Bad : \A V \in Bad : ~(V \subseteq U /\ V # U)
  <2>1. Bad \in SUBSET (SUBSET T) /\ Bad # {}
    OBVIOUS
  <2> HIDE DEF Bad
  <2> QED BY <1>1, <2>1, Minimal
<1>3. U \in SUBSET S /\ U \in SUBSET R
  OBVIOUS
<1>4. U # {}
  BY <1>3 DEF Sums
<1> DEFINE V == U \ {Some(U)}
<1>5. V \subseteq U /\ V # U /\ V \in SUBSET T /\ V \notin Bad
  BY <1>2, <1>4, SomeIn
<1>6. g[U] = f[Some(U)] + g[V] /\ h[U] = f[Some(U)] + h[V]
  BY <1>3, <1>4 DEF Sums
<1> QED BY <1>5, <1>6

(* The sum of the empty set, and of a set without one element.             *)
LEMMA TotalOfNone ==
  ASSUME NEW f
  PROVE  Total(f, {}) = 0
<1> DEFINE g == CHOOSE g : Sums(g, f, {})
<1>1. Sums(g, f, {})
  BY SumsExists, FS_EmptySet
<1>2. Total(f, {}) = g[{}]
  BY TotalIs
<1> HIDE DEF g
<1> QED BY <1>1, <1>2 DEF Sums

\* A sum is what the first element gives, and the sum of the others.
LEMMA TotalStep ==
  ASSUME NEW f, NEW S, IsFiniteSet(S), S # {}
  PROVE  Total(f, S) = f[Some(S)] + Total(f, S \ {Some(S)})
<1> DEFINE R == S \ {Some(S)}
           g == CHOOSE g : Sums(g, f, S)
           h == CHOOSE h : Sums(h, f, R)
<1>0. IsFiniteSet(R) /\ R \subseteq S
  BY FS_RemoveElement
<1>1. Sums(g, f, S)
  BY SumsExists
<1>2. Sums(h, f, R)
  BY <1>0, SumsExists
<1>3. Total(f, S) = g[S] /\ Total(f, R) = h[R]
  BY TotalIs
<1> HIDE DEF g, h
<1>4. g[S] = f[Some(S)] + g[R]
  BY <1>1 DEF Sums
<1>5. g[R] = h[R]
  <2> HIDE DEF R
  <2> QED BY <1>0, <1>1, <1>2, SumsAgree
<1> QED BY <1>3, <1>4, <1>5

\* A sum of natural numbers is one.
LEMMA TotalType ==
  ASSUME NEW f, NEW S, IsFiniteSet(S), \A x \in S : f[x] \in Nat
  PROVE  Total(f, S) \in Nat
<1> DEFINE Bad == {U \in SUBSET S : Total(f, U) \notin Nat}
<1> SUFFICES ASSUME S \in Bad PROVE FALSE
  OBVIOUS
<1>2. PICK U \in Bad : \A V \in Bad : ~(V \subseteq U /\ V # U)
  <2>1. Bad \in SUBSET (SUBSET S) /\ Bad # {}
    OBVIOUS
  <2> HIDE DEF Bad
  <2> QED BY <2>1, Minimal
<1>3. IsFiniteSet(U) /\ U \subseteq S
  BY FS_Subset
<1>4. U # {}
  BY TotalOfNone
<1> DEFINE V == U \ {Some(U)}
<1>5. V \subseteq U /\ V # U /\ V \in SUBSET S /\ V \notin Bad /\ Some(U) \in S
  BY <1>2, <1>3, <1>4, SomeIn
<1>6. Total(f, U) = f[Some(U)] + Total(f, V)
  BY <1>3, <1>4, TotalStep
<1>7. Total(f, V) \in Nat /\ f[Some(U)] \in Nat
  BY <1>5
<1> QED BY <1>6, <1>7

(* Which element is taken out does not matter.                             *)
LEMMA TotalTakeOut ==
  ASSUME NEW f, NEW S, IsFiniteSet(S), \A x \in S : f[x] \in Nat, NEW x \in S
  PROVE  Total(f, S) = f[x] + Total(f, S \ {x})
<1> DEFINE Bad == {U \in SUBSET S : \E y \in U : Total(f, U) # f[y] + Total(f, U \ {y})}
<1> SUFFICES ASSUME S \in Bad PROVE FALSE
  OBVIOUS
<1>2. PICK U \in Bad : \A V \in Bad : ~(V \subseteq U /\ V # U)
  <2>1. Bad \in SUBSET (SUBSET S) /\ Bad # {}
    OBVIOUS
  <2> HIDE DEF Bad
  <2> QED BY <2>1, Minimal
<1>3. IsFiniteSet(U) /\ U \subseteq S
  BY FS_Subset
<1>4. PICK y \in U : Total(f, U) # f[y] + Total(f, U \ {y})
  OBVIOUS
<1> DEFINE p == Some(U)
<1>5. p \in U
  BY SomeIn
<1> HIDE DEF p
<1>6. Total(f, U) = f[p] + Total(f, U \ {p})
  BY <1>3, TotalStep DEF p
<1>7. p # y
  BY <1>4, <1>6
<1> DEFINE A == U \ {p}
           B == U \ {y}
           C == U \ {p, y}
<1>8. A \notin Bad /\ B \notin Bad /\ A \in SUBSET S /\ B \in SUBSET S
  BY <1>2, <1>3, <1>5
<1>9. Total(f, A) = f[y] + Total(f, A \ {y}) /\ Total(f, B) = f[p] + Total(f, B \ {p})
  BY <1>5, <1>7, <1>8
<1>10. A \ {y} = C /\ B \ {p} = C
  OBVIOUS
<1>11. C \subseteq S /\ IsFiniteSet(C)
  BY <1>3, FS_Subset
<1>12. Total(f, C) \in Nat
  <2> HIDE DEF C
  <2> QED BY <1>11, TotalType
<1>13. f[p] \in Nat /\ f[y] \in Nat
  BY <1>3, <1>5
<1> HIDE DEF A, B, C
<1>14. Total(f, U) = f[p] + (f[y] + Total(f, C)) /\ Total(f, B) = f[p] + Total(f, C)
  BY <1>6, <1>9, <1>10 DEF A
<1>15. Total(f, U) = f[y] + Total(f, B)
  BY <1>12, <1>13, <1>14
<1> QED BY <1>4, <1>15 DEF B

(* The sum depends on the values of the members alone.                     *)
LEMMA TotalCongruent ==
  ASSUME NEW f, NEW g, NEW S, IsFiniteSet(S), \A x \in S : f[x] = g[x]
  PROVE  Total(f, S) = Total(g, S)
<1> DEFINE Bad == {U \in SUBSET S : Total(f, U) # Total(g, U)}
<1> SUFFICES ASSUME S \in Bad PROVE FALSE
  OBVIOUS
<1>2. PICK U \in Bad : \A V \in Bad : ~(V \subseteq U /\ V # U)
  <2>1. Bad \in SUBSET (SUBSET S) /\ Bad # {}
    OBVIOUS
  <2> HIDE DEF Bad
  <2> QED BY <2>1, Minimal
<1>3. IsFiniteSet(U) /\ U \subseteq S
  BY FS_Subset
<1>4. U # {}
  BY TotalOfNone
<1> DEFINE V == U \ {Some(U)}
<1>5. V \subseteq U /\ V # U /\ V \in SUBSET S /\ V \notin Bad /\ Some(U) \in S
  BY <1>2, <1>3, <1>4, SomeIn
<1>6. Total(f, U) = f[Some(U)] + Total(f, V) /\ Total(g, U) = g[Some(U)] + Total(g, V)
  BY <1>3, <1>4, TotalStep
<1> QED BY <1>5, <1>6

-----------------------------------------------------------------------------
(* The subnet scores are the sums of the address scores.                   *)

\* The addresses of a subnet that have a score.
Bucket(counts, n) == {a \in DOMAIN counts : SubnetOf[a] = n}

\* The score of a subnet is the sum over its bucket, cut off at the maximum.
LEMMA SubnetTotalIs ==
  ASSUME NEW counts, NEW n \in ScoredSubnets(counts)
  PROVE  SubnetTotals(counts)[n] = Saturated(Total(counts, Bucket(counts, n)), MaxScore)
  BY DEF SubnetTotals, ScoredSubnets, ScoreSum, Total, Bucket

(* Saturation may be deferred: adding a hit to a saturated sum gives the   *)
(* saturated sum with the saturated hit.                                   *)
LEMMA SaturatedSum ==
  ASSUME NEW c \in Score, NEW rest \in Nat, NEW w \in Nat
  PROVE  Saturated(Saturated(c + rest, MaxScore) + w, MaxScore)
           = Saturated(Saturated(c + w, MaxScore) + rest, MaxScore)
  BY ConstantTypes DEF Saturated, Score

(* One hit scored on the address a, in the address's score and in that of  *)
(* its subnet, after the subnets S have been evicted.                      *)
LEMMA HitKeepsExact ==
  ASSUME NEW C, IsMap(C, Addr, Score), IsFiniteSet(DOMAIN C),
         NEW a \in Addr, NEW w \in Nat, NEW S, SubnetOf[a] \notin S,
         NEW inS, inS = {x \in DOMAIN C : SubnetOf[x] \in S},
         NEW D, D = Put(Drop(C, inS), a, Saturated(ValueOr(C, a, 0) + w, MaxScore)),
         NEW T, T = Put(Drop(SubnetTotals(C), S), SubnetOf[a],
                        Saturated(ValueOr(SubnetTotals(C), SubnetOf[a], 0) + w, MaxScore))
  PROVE  T = SubnetTotals(D)
<1> DEFINE n == SubnetOf[a]
           hit == Saturated(ValueOr(C, a, 0) + w, MaxScore)
           sum == Saturated(ValueOr(SubnetTotals(C), n, 0) + w, MaxScore)
           rest == Total(C, Bucket(C, n) \ {a})
<1>1. DOMAIN D = {x \in DOMAIN C : SubnetOf[x] \notin S} \cup {a}
  BY DEF Put, Drop, Restrict
<1>2. D[a] = hit /\ \A x \in DOMAIN D \ {a} : D[x] = C[x]
  BY DEF Put, Drop, Restrict
<1>3. \A m : IsFiniteSet(Bucket(C, m)) /\ Bucket(C, m) \subseteq DOMAIN C
  BY FS_Subset DEF Bucket
<1>4. \A x \in DOMAIN C : C[x] \in Score /\ C[x] \in Nat
  BY ConstantTypes DEF IsMap, Score
<1>5. rest \in Nat
  <2> DEFINE B == Bucket(C, n) \ {a}
  <2>1. IsFiniteSet(B) /\ \A x \in B : C[x] \in Nat
    BY <1>3, <1>4, FS_RemoveElement
  <2> HIDE DEF B
  <2>2. Total(C, B) \in Nat
    BY <2>1, TotalType
  <2> QED BY <2>2 DEF B
<1>6. hit \in Nat
  BY ConstantTypes DEF Saturated
<1>7. sum = Saturated(hit + rest, MaxScore)
  <2>1. CASE a \in DOMAIN C
    <3>1. a \in Bucket(C, n) /\ n \in ScoredSubnets(C) /\ n \in DOMAIN SubnetTotals(C)
      BY <2>1 DEF Bucket, ScoredSubnets, SubnetTotals
    <3> DEFINE B == Bucket(C, n)
    <3>2. IsFiniteSet(B) /\ (\A x \in B : C[x] \in Nat) /\ a \in B
      BY <1>3, <1>4, <3>1
    <3> HIDE DEF B
    <3>3. Total(C, B) = C[a] + Total(C, B \ {a})
      BY <3>2, TotalTakeOut
    <3>4. SubnetTotals(C)[n] = Saturated(Total(C, B), MaxScore)
      BY <3>1, SubnetTotalIs DEF B
    <3>5. ValueOr(C, a, 0) = C[a] /\ ValueOr(SubnetTotals(C), n, 0) = SubnetTotals(C)[n]
      BY <2>1, <3>1 DEF ValueOr
    <3>6. Total(C, B \ {a}) = rest
      BY DEF B
    <3>7. C[a] \in Score
      BY <1>4, <2>1
    <3> DEFINE c == C[a]
    <3>8. hit = Saturated(c + w, MaxScore) /\ sum = Saturated(Saturated(c + rest, MaxScore) + w, MaxScore)
      BY <3>3, <3>4, <3>5, <3>6
    <3>9. c \in Score
      BY <3>7
    <3> HIDE DEF c, hit, sum, rest, n
    <3> QED BY <3>8, <3>9, <1>5, SaturatedSum
  <2>2. CASE a \notin DOMAIN C
    <3>1. Bucket(C, n) \ {a} = Bucket(C, n) /\ ValueOr(C, a, 0) = 0
      BY <2>2 DEF Bucket, ValueOr
    <3>2. rest = Total(C, Bucket(C, n))
      BY <3>1
    <3>3. ValueOr(SubnetTotals(C), n, 0) = Saturated(0 + rest, MaxScore)
      <4>1. CASE n \in ScoredSubnets(C)
        <5>1. n \in DOMAIN SubnetTotals(C)
          BY <4>1 DEF ScoredSubnets, SubnetTotals
        <5>2. SubnetTotals(C)[n] = Saturated(rest, MaxScore)
          BY <4>1, <3>2, SubnetTotalIs
        <5> HIDE DEF rest
        <5> QED BY <5>1, <5>2, <1>5 DEF ValueOr
      <4>2. CASE n \notin ScoredSubnets(C)
        <5>1. n \notin DOMAIN SubnetTotals(C) /\ Bucket(C, n) = {}
          BY <4>2 DEF ScoredSubnets, SubnetTotals, Bucket
        <5>2. rest = 0
          BY <3>2, <5>1, TotalOfNone
        <5>3. Saturated(0 + 0, MaxScore) = 0
          BY ConstantTypes DEF Saturated
        <5> HIDE DEF rest
        <5> QED BY <5>1, <5>2, <5>3 DEF ValueOr
      <4> QED BY <4>1, <4>2
    <3>4. 0 \in Score
      BY ConstantTypes DEF Score
    <3>5. hit = Saturated(0 + w, MaxScore) /\ sum = Saturated(Saturated(0 + rest, MaxScore) + w, MaxScore)
      BY <3>1, <3>3
    <3> HIDE DEF hit, sum, rest, n
    <3> QED BY <3>4, <3>5, <1>5, SaturatedSum
  <2> QED BY <2>1, <2>2
<1>8. Total(D, Bucket(D, n)) = hit + rest
  <2> DEFINE B == Bucket(D, n)
             R == Bucket(C, n) \ {a}
  <2>1. B = R \cup {a} /\ a \notin R /\ B \ {a} = R
    BY <1>1 DEF Bucket
  <2>2. IsFiniteSet(R) /\ IsFiniteSet(B)
    BY <1>3, <2>1, FS_RemoveElement, FS_AddElement
  <2>3. \A x \in R : D[x] = C[x] /\ C[x] \in Nat
    BY <1>1, <1>2, <1>4 DEF Bucket
  <2>4. D[a] = hit /\ a \in B
    BY <1>2, <2>1
  <2>5. rest = Total(C, R)
    OBVIOUS
  <2> HIDE DEF B, R, hit, rest
  <2>6. Total(D, R) = Total(C, R)
    BY <2>2, <2>3, TotalCongruent
  <2>7. \A x \in B : D[x] \in Nat
    BY <2>1, <2>3, <2>4, <1>6
  <2>8. Total(D, B) = D[a] + Total(D, B \ {a})
    BY <2>2, <2>4, <2>7, TotalTakeOut
  <2>9. Total(D, B) = hit + rest
    BY <2>1, <2>4, <2>5, <2>6, <2>8
  <2> QED BY <2>9 DEF B
<1>9. ScoredSubnets(D) = (ScoredSubnets(C) \ S) \cup {n}
  BY <1>1 DEF ScoredSubnets
<1>10. DOMAIN T = ScoredSubnets(D)
  <2>1. DOMAIN SubnetTotals(C) = ScoredSubnets(C)
    BY DEF SubnetTotals, ScoredSubnets
  <2> QED BY <1>9, <2>1 DEF Put, Drop, Restrict
<1>11. \A m \in ScoredSubnets(D) : T[m] = SubnetTotals(D)[m]
  <2> SUFFICES ASSUME NEW m \in ScoredSubnets(D) PROVE T[m] = SubnetTotals(D)[m]
    OBVIOUS
  <2>1. SubnetTotals(D)[m] = Saturated(Total(D, Bucket(D, m)), MaxScore)
    BY SubnetTotalIs
  <2>2. CASE m = n
    <3>1. T[n] = sum
      BY DEF Put
    <3> QED BY <2>1, <2>2, <3>1, <1>7, <1>8
  <2>3. CASE m # n
    <3>1. m \in ScoredSubnets(C) \ S
      BY <1>9, <2>3
    <3>2. T[m] = SubnetTotals(C)[m]
      BY <3>1, <2>3 DEF Put, Drop, Restrict, SubnetTotals, ScoredSubnets
    <3>3. SubnetTotals(C)[m] = Saturated(Total(C, Bucket(C, m)), MaxScore)
      BY <3>1, SubnetTotalIs
    <3> DEFINE B == Bucket(C, m)
    <3>4. Bucket(D, m) = B
      BY <1>1, <2>3, <3>1 DEF Bucket
    <3>5. IsFiniteSet(B) /\ \A x \in B : D[x] = C[x]
      <4>1. \A x \in B : x \in DOMAIN D \ {a}
        BY <1>1, <2>3, <3>1 DEF Bucket
      <4> QED BY <4>1, <1>2, <1>3
    <3> HIDE DEF B
    <3>6. Total(D, B) = Total(C, B)
      BY <3>5, TotalCongruent
    <3> QED BY <2>1, <3>2, <3>3, <3>4, <3>6 DEF B
  <2> QED BY <2>2, <2>3
<1>12. SubnetTotals(D) = [m \in ScoredSubnets(D) |-> SubnetTotals(D)[m]]
  BY DEF SubnetTotals, ScoredSubnets
<1>13. T = [m \in DOMAIN T |-> T[m]]
  BY DEF Put
<1> HIDE DEF n, hit, sum, rest
<1> QED BY <1>10, <1>11, <1>12, <1>13

(* The subnet scores depend on the values of the address scores alone.     *)
LEMMA TotalsOfSameScores ==
  ASSUME NEW C, IsFiniteSet(DOMAIN C), NEW D, DOMAIN D = DOMAIN C,
         \A x \in DOMAIN C : D[x] = C[x]
  PROVE  SubnetTotals(D) = SubnetTotals(C)
<1>1. ASSUME NEW n PROVE ScoreSum(D, n) = ScoreSum(C, n)
  <2> DEFINE B == Bucket(C, n)
  <2>1. Bucket(D, n) = B /\ B \subseteq DOMAIN C
    BY DEF Bucket
  <2>2. IsFiniteSet(B) /\ \A x \in B : D[x] = C[x]
    BY <2>1, FS_Subset
  <2>3. ScoreSum(D, n) = Total(D, Bucket(D, n)) /\ ScoreSum(C, n) = Total(C, B)
    BY DEF ScoreSum, Total, Bucket
  <2> HIDE DEF B
  <2> QED
    BY <2>1, <2>2, <2>3, TotalCongruent
<1> QED
  BY <1>1 DEF SubnetTotals

(* What a scored hit leaves are again the subnet scores of the addresses.  *)
LEMMA ScoreOutcomesExact ==
  ASSUME ScoresInv, SubnetScoresExact, NEW a \in Addr, NEW w \in Weights,
         NEW s \in ScoreOutcomes(a, w)
  PROVE  s.totals = SubnetTotals(s.counts)
<1>1. PICK V \in IpVictims(a) :
        \E S \in SubnetVictims(TotalsWithout(a, V),
                               Drop(lastSeen, StaleScore(a) \cup V), SubnetOf[a]) :
          s = ScoreWithout(a, w, V, S)
  BY DEF ScoreOutcomes
<1>2. PICK S \in SubnetVictims(TotalsWithout(a, V),
                              Drop(lastSeen, StaleScore(a) \cup V), SubnetOf[a]) :
        s = ScoreWithout(a, w, V, S)
  BY <1>1
<1> DEFINE n      == SubnetOf[a]
           gone   == StaleScore(a) \cup V
           counts == Drop(ipCounts, gone)
           totals == TotalsWithout(a, V)
           inS    == {x \in DOMAIN counts : InAny(x, S)}
<1>3. s.counts = Put(Drop(counts, inS), a, Saturated(ValueOr(counts, a, 0) + w, MaxScore))
  BY <1>2 DEF ScoreWithout
<1>4. s.totals = Put(Drop(totals, S), n, Saturated(ValueOr(totals, n, 0) + w, MaxScore))
  BY <1>2 DEF ScoreWithout, TotalsWithout
<1>5. /\ IsMap(counts, Addr, Score) /\ IsFiniteSet(DOMAIN counts)
      /\ DOMAIN counts \subseteq DOMAIN ipCounts
  <2>1. IsMap(counts, Addr, Score) /\ DOMAIN counts = DOMAIN ipCounts \ gone
    BY DropDomain, DropType DEF ScoresInv
  <2>2. IsFiniteSet(DOMAIN ipCounts)
    BY DEF ScoresInv, Within
  <2> QED
    BY <2>1, <2>2, FS_Subset
<1>6. totals = SubnetTotals(counts)
  <2>1. CASE gone = {}
    <3>1. totals = SubnetTotals(ipCounts)
      BY <2>1 DEF TotalsWithout, SubnetScoresExact
    <3>2. DOMAIN counts = DOMAIN ipCounts /\ \A x \in DOMAIN ipCounts : counts[x] = ipCounts[x]
      BY <2>1 DEF Drop, Restrict
    <3>3. IsFiniteSet(DOMAIN ipCounts)
      BY DEF ScoresInv, Within
    <3> HIDE DEF counts
    <3> QED
      BY <3>1, <3>2, <3>3, TotalsOfSameScores
  <2>2. CASE gone # {}
    BY <2>2 DEF TotalsWithout
  <2> QED
    BY <2>1, <2>2
<1>7. DOMAIN totals = ScoredSubnets(counts)
  BY <1>6 DEF SubnetTotals, ScoredSubnets
<1>8. S \subseteq DOMAIN totals /\ n \notin S
  <2>1. CASE S = {}
    BY <2>1
  <2>2. CASE /\ n \notin DOMAIN totals
             /\ S \in OldestKeys([m \in DOMAIN totals |->
                  SubnetLastSeen(Drop(lastSeen, StaleScore(a) \cup V), m)], 1)
    BY <2>2, OldestKeysSize
  <2> QED
    BY <1>2, <2>1, <2>2 DEF SubnetVictims
<1>9. inS = {x \in DOMAIN counts : SubnetOf[x] \in S}
  <2> SUFFICES ASSUME NEW x \in DOMAIN counts PROVE InAny(x, S) <=> SubnetOf[x] \in S
    OBVIOUS
  <2>1. x \in Addr /\ \A m \in S : \E y \in Addr : m = SubnetOf[y]
    BY <1>5, <1>7, <1>8 DEF IsMap, ScoredSubnets
  <2> QED
    BY <2>1, BucketMembers DEF InAny
<1>10. w \in Nat
  BY AggregateAssumption
<1>11. s.totals = Put(Drop(SubnetTotals(counts), S), SubnetOf[a],
                      Saturated(ValueOr(SubnetTotals(counts), SubnetOf[a], 0) + w, MaxScore))
  BY <1>4, <1>6
<1> HIDE DEF counts, inS
<1> QED
  BY <1>3, <1>5, <1>8, <1>9, <1>10, <1>11, HitKeepsExact DEF n

(* The other methods rebuild the subnet scores or leave the scores alone.  *)
LEMMA StepExact == IInv /\ SubnetScoresExact /\ [Next]_vars => SubnetScoresExact'
<1> SUFFICES ASSUME IInv, SubnetScoresExact, [Next]_vars PROVE SubnetScoresExact'
  OBVIOUS
<1>1. ASSUME NEW a \in Addr, NEW w \in Weights, Record(a, w) PROVE SubnetScoresExact'
  <2>1. PICK s \in ScoreOutcomes(a, w) : ipCounts' = s.counts /\ subnetCounts' = s.totals
    BY <1>1 DEF Record, RecordStep
  <2>2. ScoresInv
    BY DEF IInv
  <2>3. s.totals = SubnetTotals(s.counts)
    BY <2>2, ScoreOutcomesExact
  <2> QED
    BY <2>1, <2>3 DEF SubnetScoresExact
<1>2. CASE CleanupOk
  BY <1>2 DEF CleanupOk, SubnetScoresExact
<1>3. ASSUME NEW exc, ApplyExceptionsOk(exc) PROVE SubnetScoresExact'
  BY <1>3 DEF ApplyExceptionsOk, SubnetScoresExact
<1>4. ASSUME NEW t, ResetCounts(t) PROVE SubnetScoresExact'
  BY <1>4 DEF ResetCounts, SubnetScoresExact
<1>5. ASSUME NEW c, Reconfigure(c) PROVE SubnetScoresExact'
  BY <1>5 DEF Reconfigure, SubnetScoresExact
<1>6. CASE UNCHANGED scoreVars
  BY <1>6 DEF scoreVars, SubnetScoresExact
<1>7. \/ \E a \in Addr, w \in Weights : Record(a, w)
      \/ CleanupOk
      \/ \E exc : ApplyExceptionsOk(exc)
      \/ \E t : ResetCounts(t)
      \/ \E c : Reconfigure(c)
      \/ UNCHANGED scoreVars
  BY DEF Next, NextBesideHits, AddManual, AddManualOk, AddManualFails, CleanupExpired, CleanupFails,
         ApplyExceptions, ApplyExceptionsFails, Tick, vars
<1> QED
  BY <1>1, <1>2, <1>3, <1>4, <1>5, <1>6, <1>7

(* The score of every subnet, which record updates in place, is the sum of *)
(* the scores of its addresses, whatever is evicted, ages or saturates.    *)
THEOREM SubnetScoresAlwaysExact == Spec => []SubnetScoresExact
<1>1. Init => SubnetScoresExact
  BY DEF Init, SubnetScoresExact, SubnetTotals, EmptyMap
<1> QED
  BY <1>1, StepExact, AggregateInvariant, SpecSteps, PTL

=============================================================================
