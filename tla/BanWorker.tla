------------------------------ MODULE BanWorker ------------------------------
(***************************************************************************)
(* The worker thread of the ban engine (ban_attack/engine.rs), which owns  *)
(* the aggregator, the kernel set and the state file. It starts from the   *)
(* file, serves one command or one line of a log at a time, reconciles the *)
(* kernel periodically, and may be killed between any two steps.           *)
(*                                                                         *)
(* Start and Update call the backend, then the aggregator, then the file:  *)
(* those are separate steps, `phase` says what has been done.              *)
(*                                                                         *)
(* Left out: log tailing and rule matching (a line is an address and a     *)
(* weight), events and health, the poll and persist intervals (a poll, a   *)
(* cleanup, a re-verification may come at any time), a state file that     *)
(* cannot be parsed.                                                       *)
(***************************************************************************)
EXTENDS BanAggregate

CONSTANTS
  FaultyDisk     \* whether saving the state file may fail

VARIABLES
  phase,         \* what the worker is doing
  exceptions,    \* config.exceptions, the allowlist in force
  candidate,     \* the configuration being applied, or the one in force
  disk,          \* the state file
  dirty          \* memory holds something the file does not

workerVars == <<phase, exceptions, candidate, disk, dirty>>
allVars == <<vars, workerVars>>

Phase == {"down", "starting", "idle", "reconciled", "applied"}

Allowlists == ExceptionSets \cup {{}}
Candidate == [config : Configs, exceptions : Allowlists]
InForce == [config |-> config, exceptions |-> exceptions]

-----------------------------------------------------------------------------
(* The state file.                                                         *)

\* persistent_state: a ban is stored under its network.
Snapshot ==
  [bans       |-> [n \in {t.net : t \in DOMAIN active} |->
                     active[CHOOSE t \in DOMAIN active : t.net = n]],
   scores     |-> ipCounts,
   seen       |-> lastSeen,
   reputation |-> reputation,
   offenders  |-> offenders]

NoFile ==
  [bans |-> EmptyMap, scores |-> EmptyMap, seen |-> EmptyMap,
   reputation |-> EmptyMap, offenders |-> EmptyMap]

SaveSucceeds == disk' = Snapshot' /\ dirty' = FALSE

\* Mutation: a save that failed is not tried again.
SaveFailsUnnoticed == FaultyDisk /\ dirty' = FALSE /\ UNCHANGED disk

SaveFails == FaultyDisk /\ dirty' = TRUE /\ UNCHANGED disk

\* Mutation: the state is not marked dirty, so nothing is saved.
SaveNowClean == UNCHANGED <<disk, dirty>>

\* dirty = true, then save_persistence_if_configured(true).
SaveNow == SaveSucceeds \/ SaveFails

\* dirty = true, then save_persistence_if_configured(false): at the earliest
\* when persist_interval has passed.
SaveLater == SaveNow \/ (dirty' = TRUE /\ UNCHANGED disk)

SaveIfDirty == IF dirty THEN SaveNow ELSE UNCHANGED <<disk, dirty>>

-----------------------------------------------------------------------------
(* restore_persistent_state. A table that does not fit is cut; which       *)
(* entries are left out depends on how the file is sorted.                 *)

Fitting(S, limit) == IF Cardinality(S) <= limit THEN {S} ELSE kSubset(limit, S)

Unexpired == {n \in DOMAIN disk.bans : disk.bans[n] > now}

\* Mutation: the bans of addresses are not restored.
RestoredBansSubnetsOnly ==
  UNION {{[subnets |-> S, ips |-> {}]} :
         S \in Fitting({n \in Unexpired : ~IsHostNet(n)}, MaxActiveBans)}

\* Subnets come first and win over the addresses they hold; a host network is
\* restored as its address.
RestoredBans ==
  UNION {{[subnets |-> S, ips |-> I] :
            I \in Fitting({a \in Addr : HostNet[a] \in Unexpired /\ ~InAny(a, S)},
                          MaxActiveBans - Cardinality(S))} :
         S \in Fitting({n \in Unexpired : ~IsHostNet(n)}, MaxActiveBans)}

RestoredScores(c) ==
  Fitting({a \in DOMAIN disk.scores : disk.seen[a] + c.scoreRetention > now},
          MaxTrackedIps)

RestoredReputation ==
  Fitting({n \in DOMAIN disk.reputation : disk.reputation[n].until > now}, MaxReputation)

Restore(c) ==
  \E bans \in RestoredBans, scored \in RestoredScores(c), known \in RestoredReputation :
    /\ bannedIps' = bans.ips
    /\ bannedSubnets' = bans.subnets
    /\ active' = [t \in {Ip(a) : a \in bans.ips} \cup {Subnet(n) : n \in bans.subnets} |->
                    disk.bans[t.net]]
    /\ ipCounts' = Restrict(disk.scores, scored)
    /\ lastSeen' = Restrict(disk.seen, scored)
    /\ subnetCounts' = SubnetTotals(ipCounts')
    /\ reputation' = Restrict(disk.reputation, known)
    /\ offenders' = Drop(disk.offenders,
                         {k \in DOMAIN disk.offenders :
                            disk.offenders[k] <= now - c.promotionWindow})

\* The memory of a worker that is gone.
Forget ==
  /\ ipCounts' = EmptyMap
  /\ lastSeen' = EmptyMap
  /\ subnetCounts' = EmptyMap
  /\ offenders' = EmptyMap
  /\ reputation' = EmptyMap
  /\ active' = EmptyMap
  /\ bannedIps' = {}
  /\ bannedSubnets' = {}

-----------------------------------------------------------------------------
(* backend.reconcile: the kernel set is rebuilt beside the live one and    *)
(* swapped in, exceptions are added last.                                  *)

Reconciled(targets, exc) ==
  LET allowed == {Entry(n) : n \in exc}
  IN  [n \in {Entry(t.net) : t \in targets} \cup allowed |->
         IF n \in allowed THEN "nomatch" ELSE "match"]

\* On an error the old set may still be live, or the new one already.
ReconcileFails(targets, exc) ==
  faulty /\ ipset' \in MaybeDone(ipset, Reconciled(targets, exc))

\* targets_excluding.
TargetsExcluding(exc) == DOMAIN active \ ExemptBans(exc)

-----------------------------------------------------------------------------
(* Starting and stopping.                                                  *)

\* Worker::new up to reconcile, with the policy of the moment: the file is
\* loaded, then the kernel set is replaced.
Start(c, exc) ==
  /\ phase = "down"
  /\ config' = c
  /\ exceptions' = exc
  /\ candidate' = InForce'
  /\ Restore(c)
  /\ ipset' = Reconciled(TargetsExcluding(exc)', exc)
  /\ phase' = "starting"
  /\ UNCHANGED <<now, disk, dirty>>

\* The set could not be replaced: there is no worker.
StartFails(exc) ==
  /\ phase = "down"
  /\ faulty
  /\ \E bans \in RestoredBans :
       LET kept == {Ip(a) : a \in {x \in bans.ips : ~InAny(x, exc)}}
                     \cup {Subnet(n) : n \in {m \in bans.subnets : ~CoveredByAny(m, exc)}}
       IN  ipset' \in MaybeDone(ipset, Reconciled(kept, exc))
  /\ UNCHANGED <<config, scoreVars, banVars, now, workerVars>>

\* The rest of Worker::new. An error is noted, and the worker runs all the same.
StartApplies ==
  /\ phase = "starting"
  /\ phase' = "idle"
  /\ \/ /\ ApplyExceptionsOk(exceptions)
        /\ \/ exceptions = {} /\ UNCHANGED disk
           \/ exceptions # {} /\ disk' = Snapshot'
           \/ exceptions # {} /\ FaultyDisk /\ UNCHANGED disk
     \/ ApplyExceptionsFails(exceptions) /\ UNCHANGED disk
  /\ UNCHANGED <<exceptions, candidate, dirty>>

\* Command::Stop, or the last handle is gone.
Stop ==
  /\ phase = "idle"
  /\ \/ dirty /\ disk' = Snapshot
     \/ dirty /\ FaultyDisk /\ UNCHANGED disk
     \/ ~dirty /\ UNCHANGED disk
  /\ Forget
  /\ phase' = "down"
  /\ dirty' = FALSE
  /\ UNCHANGED <<config, ipset, now, exceptions, candidate>>

\* The process is killed.
Crash ==
  /\ phase # "down"
  /\ Forget
  /\ phase' = "down"
  /\ candidate' = InForce
  /\ dirty' = FALSE
  /\ UNCHANGED <<config, ipset, now, exceptions, disk>>

-----------------------------------------------------------------------------
(* The log.                                                                *)

\* One rule matched a line. The line is dropped when its address is excepted;
\* a recorded hit is saved at once if somebody was banned for it. After an
\* error the scores have changed, and nothing is saved.
RecordLine(a, w) ==
  /\ phase = "idle"
  /\ ~InAny(a, exceptions)
  /\ \/ /\ RecordStep(a, w, TRUE)
        /\ IF active' = active THEN SaveLater ELSE SaveNow
     \/ /\ RecordStep(a, w, FALSE)
        /\ UNCHANGED <<disk, dirty>>
  /\ UNCHANGED <<phase, exceptions, candidate>>

-----------------------------------------------------------------------------
(* Commands.                                                               *)

\* Command::AddBan. The manager refuses a network that overlaps the allowlist
\* before it sends the command.
AddBan(t, length) ==
  /\ phase = "idle"
  /\ \A n \in exceptions : ~Covers(n, t.net) /\ ~Covers(t.net, n)
  /\ \/ AddManualOk(t, length) /\ SaveNow
     \/ AddManualFails(t) /\ UNCHANGED <<disk, dirty>>
  /\ UNCHANGED <<phase, exceptions, candidate>>

\* Command::ResetCounts.
Reset(t) ==
  /\ phase = "idle"
  /\ ResetCounts(t)
  /\ SaveNow
  /\ UNCHANGED <<phase, exceptions, candidate>>

\* Command::Flush, and the end of a poll without a cleanup.
Flush ==
  /\ phase = "idle"
  /\ dirty
  /\ UNCHANGED <<vars, phase, exceptions, candidate>>
  /\ SaveNow

\* Command::Update: first the kernel set is replaced by one that suits the new
\* allowlist.
Update(c, exc) ==
  /\ phase = "idle"
  /\ candidate' = [config |-> c, exceptions |-> exc]
  /\ ipset' = Reconciled(TargetsExcluding(exc), exc)
  /\ phase' = "reconciled"
  /\ UNCHANGED <<config, scoreVars, banVars, now, exceptions, disk, dirty>>

UpdateFails(exc) ==
  /\ phase = "idle"
  /\ ReconcileFails(TargetsExcluding(exc), exc)
  /\ UNCHANGED <<config, scoreVars, banVars, now, workerVars>>

\* Mutation: the update carries on after an error.
UpdateAppliesAnyway ==
  /\ phase = "reconciled"
  /\ ApplyExceptions(candidate.exceptions)
  /\ phase' = "applied"
  /\ UNCHANGED <<candidate, exceptions, disk, dirty>>

\* Then the bans it exempts are lifted; an error abandons the update.
UpdateApplies ==
  /\ phase = "reconciled"
  /\ \/ /\ ApplyExceptionsOk(candidate.exceptions)
        /\ phase' = "applied"
        /\ UNCHANGED candidate
     \/ /\ ApplyExceptionsFails(candidate.exceptions)
        /\ phase' = "idle"
        /\ candidate' = InForce
  /\ UNCHANGED <<exceptions, disk, dirty>>

\* Then the configuration takes effect and the state is saved.
UpdateEnds ==
  /\ phase = "applied"
  /\ Reconfigure(candidate.config)
  /\ exceptions' = candidate.exceptions
  /\ SaveNow
  /\ phase' = "idle"
  /\ UNCHANGED candidate

-----------------------------------------------------------------------------
(* What a poll does besides reading the logs.                              *)

\* The cleanup of a poll: saved when a ban expired or something is unsaved.
Cleanup ==
  /\ phase = "idle"
  /\ CleanupOk
  /\ IF ExpiredBans # {} THEN SaveNow ELSE SaveIfDirty
  /\ UNCHANGED <<phase, exceptions, candidate>>

CleanupStops ==
  /\ phase = "idle"
  /\ CleanupFails
  /\ UNCHANGED workerVars

\* Mutation: re-verification adds what is missing and removes nothing.
ReverifyOnlyAdds ==
  LET wanted == Reconciled(DOMAIN active, exceptions)
  IN  /\ phase = "idle"
      /\ ipset' = [n \in DOMAIN ipset \cup DOMAIN wanted |->
                     IF n \in DOMAIN wanted THEN wanted[n] ELSE ipset[n]]
      /\ UNCHANGED <<config, scoreVars, banVars, now, workerVars>>

\* check_reverify, and Command::Reconcile.
Reverify ==
  /\ phase = "idle"
  /\ ipset' = Reconciled(DOMAIN active, exceptions)
  /\ UNCHANGED <<config, scoreVars, banVars, now, workerVars>>

ReverifyFails ==
  /\ phase = "idle"
  /\ ReconcileFails(DOMAIN active, exceptions)
  /\ UNCHANGED <<config, scoreVars, banVars, now, workerVars>>

Wait == Tick /\ UNCHANGED workerVars

-----------------------------------------------------------------------------

WorkerInit ==
  /\ Init
  /\ phase = "down"
  /\ exceptions = {}
  /\ candidate = InForce
  /\ disk = NoFile
  /\ dirty = FALSE

WorkerNext ==
  \/ \E c \in Configs, exc \in Allowlists : Start(c, exc) \/ Update(c, exc)
  \/ \E exc \in Allowlists : StartFails(exc) \/ UpdateFails(exc)
  \/ StartApplies \/ UpdateApplies \/ UpdateEnds
  \/ \E a \in Addr, w \in Weights : RecordLine(a, w)
  \/ \E t \in ManualTargets, length \in ManualDurations : AddBan(t, length)
  \/ \E t \in ManualTargets : Reset(t)
  \/ Flush \/ Cleanup \/ CleanupStops \/ Reverify \/ ReverifyFails
  \/ Stop \/ Crash
  \/ Wait

\* The worker carries on while it runs, its polls come round again and again,
\* and a backend or a disk that is tried for ever succeeds for ever.
WorkerFairness ==
  /\ WF_allVars(StartApplies) /\ WF_allVars(UpdateApplies) /\ WF_allVars(UpdateEnds)
  /\ SF_allVars(Cleanup)
  /\ SF_allVars(Reverify)
  /\ SF_allVars(Flush /\ SaveSucceeds)

WorkerSpec ==
  /\ WorkerInit
  /\ [][WorkerNext /\ UNCHANGED faulty]_<<allVars, faulty>>
  /\ WorkerFairness

-----------------------------------------------------------------------------
(* Properties.                                                             *)

WorkerTypeOK ==
  /\ TypeOK
  /\ phase \in Phase
  /\ exceptions \in Allowlists
  /\ candidate \in Candidate
  /\ IsMap(disk.bans, Net, Time)
  /\ IsMap(disk.reputation, Net, Reputation)
  /\ dirty \in BOOLEAN

Idle == phase = "idle"

(* Killing the worker loses no ban: while nothing is waiting to be saved,  *)
(* every ban in force is in the file with the expiry it has in memory      *)
(* (engine.rs marks the state dirty on every change and saves it before it *)
(* answers a manual ban).                                                  *)
BansDurable ==
  Idle /\ ~dirty =>
    \A t \in DOMAIN active :
      active[t] > now => t.net \in DOMAIN disk.bans /\ disk.bans[t.net] = active[t]

(* A restart brings back every ban of the file that has not expired,       *)
(* itself or under a banned subnet that holds its network.                 *)
RestartKeepsBans ==
  phase = "starting" =>
    \A n \in Unexpired : \E t \in DOMAIN active : Covers(t.net, n) /\ active[t] > now

(* While the worker serves requests no step makes a ban appear that the    *)
(* allowlist in force exempts: not a hit, not a promotion, not a manual    *)
(* ban, not the end of an update that brings a new allowlist. (Only a      *)
(* start that could not lift an exempt ban begins with one.)               *)
NoExemptBanAppears ==
  [][Idle' /\ phase # "starting"
       => ExemptBans(exceptions)' \subseteq ExemptBans(exceptions)]_allVars

(* An address on the allowlist in force is never blocked by the kernel     *)
(* while the worker serves requests: "a policy update makes the exception  *)
(* durable and atomically asks the running engine to remove covered bans"  *)
(* (src/firewall.rs:282).                                                  *)
ExceptedNeverBlocked ==
  Idle => \A a \in Addr : InAny(a, exceptions) => ~Blocks(ipset, a)

(* Whatever failed, a ban that has expired is lifted in the end: its       *)
(* address is out of the tables and out of the kernel's set.               *)
ExpiredBansEnd ==
  \A t \in Target :
    (t \in DOMAIN active /\ active[t] <= now)
      ~> (phase = "down" \/ t \notin DOMAIN active \/ active[t] > now)

(* Kernel entries that no ban and no exception accounts for, left behind   *)
(* by commands that failed or a process that was killed, disappear.        *)
StrayEntriesEnd ==
  \A a \in Addr :
    (Idle /\ Blocks(ipset, a) /\ ~\E t \in DOMAIN active : a \in Members[t.net])
      ~> (phase = "down" \/ ~Blocks(ipset, a) \/ \E t \in DOMAIN active : a \in Members[t.net])

(* Whatever the backend and the disk refuse, and whichever request made    *)
(* it, a ban in force reaches the state file with its expiry: no error     *)
(* path forgets that memory is ahead of the file.                          *)
BansReachFile ==
  \A t \in Target :
    t \in DOMAIN active
      ~> (\/ phase = "down" \/ t \notin DOMAIN active
          \/ t.net \in DOMAIN disk.bans /\ disk.bans[t.net] = active[t])

=============================================================================
