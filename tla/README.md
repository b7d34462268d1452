# Router Hub: TLA+ models and proofs

Router Hub is a daemon for a home router: a web API (Axum on Tokio) over nginx
sites, dehydrated certificates, AdGuard Home, services, WireGuard, Wake-on-LAN,
and a firewall that reads logs and bans the addresses that misbehave. This
directory holds TLA+ models of it, the TLC configurations that check them, and
theorems that TLAPS proves about them. Paths below are relative to `src/src/`
unless they say otherwise.

    tlc -workers 2 -config MCBanAggregate.cfg MCBanAggregate
    tlapm BanAggregateProofs.tla

`PROJECT.json` maps each definition to the lines it models and lists runs,
mutations, findings, hazards and theorems.

## 1. Inventory

| Component | Code | State it keeps | Operations | Interacts with | What is hard | What makes it correct |
|---|---|---|---|---|---|---|
| Ban aggregator | `ban_attack/aggregate.rs` | scores per address and subnet, last sightings, offenders, reputation, active bans, two sets of banned things | record, add_manual, cleanup_expired, apply_exceptions, reset_counts, reconfigure, persistent_state, restore | backend (synchronous `ipset` commands) | five bounded tables that must agree, bans that replace other bans, commands that fail in the middle | the tables agree; bans end only by expiry, exception or a covering ban; capacities hold |
| Ban engine worker | `ban_attack/engine.rs` | configuration, aggregator, dirty flag, timers | commands from a bounded queue, polls | manager (queue, replies), backend, state file, log files | crash between steps, save failures, updates in several steps | saved bans survive restarts; exempt bans do not appear; leftovers are healed |
| Command queue and handles | `ban_attack/engine.rs` | 128 commands, one-shot replies | enqueue, wait up to a timeout, stop and join | manager and worker | timed-out commands are carried out later; full queue | requests end; replaced engines stop |
| Firewall manager | `firewall.rs`, `api/firewall.rs` | policy in memory, policy file, engine in use, two locks | replace_policy, ban_manual, unban, reconcile, reset_counts, start | API handlers, stores, engines | concurrent edits, hang-ups at every await, two engines alive during a replacement, roll-back | a saved policy is in force; acknowledged bans survive |
| Ipset backend | `ban_attack/backend.rs` | the kernel's sets, chains and hooks; the exceptions it believes to be there | ensure, add, remove, set_exceptions, reconcile, disable | `ipset`, `iptables` | command sequences cut short, staging set and swap | the live set is never half built; hooks point to owned chains only |
| Log tailer | `ban_attack/tailer.rs` | per path an active file, retired files, offsets, partial lines | sync, read_lines_bounded | log files rotated by others | rotation, truncation, replacement, budgets, over-long lines | no line is read twice or lost at a rotation |
| Rules | `ban_attack/{rule,compiled,config}.rs` | compiled expressions | validate, match_line | worker | lazy DFA limits | (pure) |
| Certificate operations | `state.rs`, `api/certificates.rs` | the operation under way, its status, dehydrated's lock file | issue, renew, clear lock, renewal loop | dehydrated, stores | request against loop against hang-up; foreign lock file | at most one operation; the lock file is not taken from a living process; work is bounded |
| Certificate definitions | `api/certificates.rs`, `storage.rs` | the list, `certificates.json` | create, update, delete, import at a start | forwarder, dehydrated's files | no lock from one step of a request to the next | list, file and forwarder agree |
| Nginx sites | `api/nginx.rs`, `nginx.rs`, `nginx_sites.rs` | `sites.toml`, rendered files, enable links, upstream maps, nginx_lock | create, update, delete, enable, disable, settings | renderer, `nginx -t`, reload, AdGuard | several files and a reload per request, failure or hang-up in between | what is enabled is what was tested; a failed request leaves everything as before |
| File transactions, renderer | `nginx_render.rs` | backups of the files it replaces | apply, commit, rollback, drop | file system | failure while applying or rolling back | all or nothing |
| AdGuard client | `adguard.rs`, `api/adguard.rs` | rewrites in AdGuard Home, pause timer | ensure_rewrite, remove_all_rewrites, deduplicate, set_filtering | AdGuard over HTTP, startup task, nginx handlers | read-then-write from several tasks; aborted timers | one rewrite per enabled domain; a pause ends |
| JSON stores | `storage.rs`, `models.rs` | certificates, machines, policy, AdGuard settings | load, save by rename | every handler | save failures, concurrent saves | memory and file agree after every request |
| Services | `api/services.rs` | init.d scripts, S and K names | start, stop, enable, disable | file system, commands | rename and command are separate | the name says what runs at boot |
| WireGuard, Wake-on-LAN | `api/wireguard.rs`, `api/wol.rs` | a store of machines | list, add, wake | commands | little | (parsing) |
| Command runner | `command.rs` | none | run with a deadline, kill the group | every component above | outcome of a killed command is unknown | - |
| Front end | `api/mod.rs`, `auth.rs`, `api/system.rs`, `main.rs`, `config.rs`, `asus_ui.rs`, `system.rs` | token, configuration | routing, start, signals | everything | handlers are dropped when a client hangs up | - |

The firewall is the part with the most state, the most actors and the most
failure handling, and it decides who reaches the router. It is modelled first.

## 2. Modules

    Networks            networks, targets, the kernel's set
      BanAggregate        the aggregator, one action per method
        BanWorker           the worker: commands, polls, file, crash
    FirewallManager     policy, requests, queues, engines
    KernelSets          abstract: a set changes by an entry or as a whole
      IpsetBackend        the commands behind each call; implements KernelSets
    LogTailer           one log, rotated and truncated while it is read
    SiteStore           abstract: requests on sites are all or nothing
      NginxSites          every step of a request; implements SiteStore
    CertificateOperations   dehydrated, its lock file, the renewal loop
    CertificateDefinitions  the list of certificates, its file, the forwarder
    AdGuardRewrites     three tasks that change AdGuard's rewrites
    FilteringPause      pausing AdGuard's filtering, with a timer
    MC...               instances for TLC
    ...Proofs           theorems about the module of that name, section 4; AdGuardProofs
                        is about both AdGuard modules, BackgroundProofs about LogTailer
                        and CertificateOperations

Some MC modules hold two modules that share nothing. Their variable `part` says
which of the two runs, the other stays in an initial state: the graph TLC
explores is the union of the two graphs, not their product.

**Networks.** An `IpNet` is an address and a prefix; `Canon` is `trunc`, because
10.0.0.1/24 and 10.0.0.0/24 are different networks and the same ipset entry. The
kernel set is a function from canonical networks to `match` or `nomatch`: an
add overwrites the flag, a delete removes the entry whatever its flag, a packet
is judged by its most specific entry. That part is not in the repository and is
modelled from the commands `backend.rs` issues.

**BanAggregate.** State and names follow the struct: `ip_counts` is `ipCounts`,
`active_bans` is `active` (only its expiry), `subnet_offenders` is `offenders`
keyed by subnet and address. Each public method is one action, since the worker
thread owns the aggregator: `Record`, `AddManual`, `CleanupExpired`,
`ApplyExceptions`, `ResetCounts`, `Reconfigure`, and `Tick` for the clock. An
eviction picks any of the entries with the smallest time, as the iteration order
of a hash map does. A method returns early with an error after some of its
effects: those are the `...Fails` definitions. A backend command that reports an
error may have been killed at its deadline, so it may or may not have taken
effect (`MaybeDone`). Rule statistics, eviction and hit counts, sources and
reasons are only reported, and left out.

**BanWorker.** The thread around the aggregator, with `phase` for the methods
that make several calls that can fail one by one: `Start`, `StartApplies` are
`Worker::new`; `Update`, `UpdateApplies`, `UpdateEnds` are `update`. A line of a
log is an address and a weight. `RecordLine` saves at once when a ban was made
and otherwise when the persist interval allows, and saves nothing after an
error. `disk` is the state file, `dirty` the flag. `Crash` comes between any two
steps, including those of a start and an update. The poll interval and the
other timers are left out: what they trigger may happen at any time.

**FirewallManager.** Clients read the policy and edit their copy, then replace
the policy under `policy_update`; `update.step` says how far `replace_policy`
has come, from locking to `update_policy`, the write in memory, the write on
disk and the roll-back. In `InnerSteps` the request holds `inner` and a thread of
the runtime (the handle's methods block), so it cannot be dropped there; at the
awaits around them it can (`Abandon`, `HangUp`). Engines have a bounded queue;
a waiter that gives up leaves its command behind with nobody to answer to. An
engine that is replaced runs until it has served `stop`; it shares the state
file and the hooks with its successor. The mode (`off`, `observe`, `enforce`)
stands for `enabled` and `observe_only`: a change between the last two is refused
by `update` as startup-only and always replaces the engine. Here a ban is its
network; BanWorker says what an engine does with it. A reset of counts touches no
ban and a requested reconciliation does what a poll does at any time, so neither
is an action of its own.

**IpsetBackend.** A call of `CommandIpSet` is a list of the rounds of its loops that
are still to run (`call[b].todo`), each the commands for one family or one place of
a chain. A command is a step; a question (`-C`, `-L`) chooses the ones that follow.
`EnsureSet`, `RestoreFamily` and `EnsureOwnedChain` are the rounds the methods of these
names run. `Fail` ends the call at its first error, with or without the effect
of the command; `RestoreFails` leaves part of a staging set behind; `ProbeMisled` is
a `-C` that failed for another reason, taken for "no". `Flush` and `OtherRule` are
the router and the administrator. Between the `-D` and the `-I` of a
re-verification there is no hook for the time of two commands. `KernelSets` says
what BanWorker takes for granted: `live` changes by one entry, or is replaced by
the content asked for. It promises that content only to a reconciliation that ran
alone (`alone`), because two engines share the staging set; `undisturbed` in
`CallsHoldWord` excepts calls during which others changed the rules.
`set_exceptions` has no caller in the program.

**LogTailer.** One path; the active and the retired files with offset, pending
bytes, anchor and idle polls as in the struct. A poll is several steps (`Stat`,
`Follow`, `DrainRetired`, `ReadActive`, `NoteMetadata`, `NoteAnchor`), between which the log
goes on. Bytes are pieces: a body and an end of a line. `disorder` notes when the log
did what no tailer of this kind can follow (truncated under a read, rotated
twice between two polls).

**NginxSites.** The handlers under `nginx_lock` as lists of steps (`request.todo`),
with the undo each failing step is answered with. `disk` is all files: inputs,
site files, links, upstream rows, the names of the forwarder. `loaded` is what the
running nginx serves. A file and its rendered copies are one value, since one
transaction applies them; `WriteFails` is a transaction that failed and rolled
back, `HalfApplied` one whose process was killed in the middle. `torn` counts
requests that a hang-up or a kill cut off, after which nothing is promised of the
site: the code has no recovery for it. `SiteStore` keeps one `entry` per site; the
refinement maps it to the tree as the request under way found it, so that each
request is one step of it at its end.

**CertificateOperations.** `guard` is `certificate_operation_lock` with the step of
who holds it. dehydrated's processes are modelled by what matters to the lock file:
those in the group Router Hub waits for, those it left behind (`left`), and the
administrator's. Dropping a request kills only the group's leader (`kill_on_drop`); a
timeout kills the group. What dehydrated does is external.

**CertificateDefinitions.** A request looks at the list, changes it, saves it, rewrites
the forwarder: four steps with nothing held in between, on a multi-threaded runtime.
A save writes the list of its moment, because `save_certificates` keeps the read
guard until the rename. `found` is what dehydrated's and nginx's directories hold
under a name, which `Issue` writes and a start imports (`Loads`). A write cut off by a
hang-up takes effect at once or not at all; in the code a blocking thread might
still finish it later. Two creations of one name both succeed, and a deleted definition
whose files remain comes back at the next start: the model shows both, and no
property forbids them.

**AdGuardRewrites, FilteringPause.** Each call of the client is one step on AdGuard's
list, which holds `copies` of a rewrite; a call that fails may have been carried
out. `unsettled` are the domains nothing is promised of, because the last task on them
did not finish. In FilteringPause a timer is a task that sleeps and then resumes;
taking the timer, the call, the note and storing the new timer are steps of a
request, and requests overlap. A pause whose second request fails, or whose resuming
call fails, leaves filtering off until someone asks again, and a restart forgets the
timer: `cuts` counts these, and `PauseEnds` excepts them. Resuming early leaves
`filtering_paused_until` set.

## 3. Runs

| Run | Configuration | States | What it shows |
|---|---|---|---|
| aggregate | `MCBanAggregate.cfg` | 50,560 | with a backend that never fails, and one that may: types, agreement of the tables, kernel set following the bans, exact subnet scores, capacities, bans end rightly |
| worker | `MCBanWorker.cfg` | 171,189 | failing backend and disk, crashes: bans on file, restarts keep them, no ban without its entry for longer than a re-verification, no exempt ban appears |
| worker_live | `MCBanWorkerLive.cfg` | 11,590 | expired bans end, stray entries end, bans reach the file |
| manager | `MCFirewallManager.cfg` | 466,180 | failing backend and disk, hang-ups, crashes: acknowledged bans kept, saved policy in force |
| manager_live | `MCFirewallManagerLive.cfg` | 31,548 | requests end, replaced engines stop, observe-only unhooks |
| sites | `MCNginxSites.cfg` | 455,713 | requests on sites are atomic (NginxSites implements SiteStore), all files of a site, the forwarder and the running nginx agree |
| ipset_and_definitions | `MCIpsetBackend.cfg` | 434,950 | live sets are never half built (IpsetBackend implements KernelSets), calls hold their word; certificate list, file and forwarder agree |
| adguard | `MCAdGuard.cfg` | 542,628 | wanted rewrites are never lost; the last answer about filtering holds, pauses end |
| background | `MCBackground.cfg` | 688,515 | one dehydrated at work, its lock file not stolen, work bounded; no line read twice, every line arrives |
| allowlist, disable_hooks, lost_update | `MCBanWorkerAllowlist.cfg`, `MCFirewallManagerHooks.cfg`, `MCFirewallManagerLostUpdate.cfg` | - | counterexamples, section 5 |

### Bounds, and why they are enough

* `aggregate`: three addresses, the first two in one subnet, with room for two
  addresses, one subnet, two reputation entries and two bans. So each table is
  full after two or three hits, eviction of an address and of a whole subnet
  both happen, and a promotion has two addresses to take over. One hit scores
  1, two cross the threshold. `MaxScore` = 2 stands for 2^64 - 1 and is reached;
  `MaxOffense` = 2 for 2^32 - 1.
  Time stops at `MaxTime` = 2: bans of one tick and scores of two expire.
  It has one tuning: a reconfiguration only rebuilds the subnet scores. Whether
  commands may fail (`faulty`) is chosen at the start: with failures in the middle
  of every method the instance would be too large, so that there `MCNext` has hits
  from one subnet of two addresses, one hit that bans, and one tick. The proofs are
  about a backend of either kind.
* `worker`: one subnet of two addresses, one hit bans, a subnet banned before is
  promoted by the next offender; room for one tracked address and one reputation,
  so that any new one evicts the last, and for two bans, so that both addresses can
  be banned; the allowlist is empty or holds one address; one tick. Two offenders that promote their subnet together are left to `aggregate`.
* `worker_live`: one address, which is its own single offender, so that the
  behaviour graph stays small; subnet and address bans still exist side by side
  because the manual ban is of the subnet.
* `manager`: one editor, one operator who bans, two engines (the one in use and
  the one that replaces it; there are never three, a replacement joins the old
  engine before the lock is released), a queue of 2 for 128. A second editor
  would wait at `policy_update` for the first and add no step in between, apart
  from having read an older policy, which is what `lost_update` and
  `manager_live` are about.
* `manager_live`: two editors and a queue of 1, so that a full queue and the wait for
  the lock both happen; no networks, as bans play no part in it.

* `sites`: a domain with a subdomain and a subfolder, two server names, one upstream,
  two global settings, one request cut off (the next finds its leftovers; a second
  adds no new kind). Upstream changes of the domain and of the subdomain come with
  a change of name; several domains differ in nothing that a request relates.
* `ipset_and_definitions`: two backends for one chain of one family with one entry, present or
  not: half built means without it, stale means with it. Families and chains are
  worked off one after the other in the same way. Two certificate requests, two
  definitions of three kinds: an HTTP one, and one that is a DNS or an HTTP one.
* `adguard`: one site's rewrite and another, two copies (a third is not told apart),
  one failure, drop or restart; two requests and three timers for the pause.
* `background`: two outside processes, two certificates due, two hang-ups or restarts;
  two lines, the second of which may be too long, in up to three files, one
  truncation, three pieces and one line a poll. So a poll stops at either
  limit with a rest in a retired file, and a file is given up.

Engines are interchangeable in `manager`, which has no liveness property, hence
its symmetry set. Deadlock is not checked: time is bounded, and a manager
without requests rests.

### Fairness

* The worker's own steps of a start or an update are weakly fair: the thread
  runs. Cleanup and re-verification come round with the poll deadline
  (`engine.rs:500` keeps it under a stream of commands), and a backend or a disk
  that is tried again and again succeeds in the end (strong fairness). Nothing
  forces clients, hits or crashes.
* A request of the manager proceeds, an engine serves its queue (weak fairness),
  and Tokio's locks are handed out in the order they are asked for (strong
  fairness of `Lock`, `Enter`, `SendBan`). Crashes and hang-ups are never
  required, and infinitely many of them are allowed.
* The tailer polls for ever and every poll ends. `Poll` is always enabled, so this is
  weak fairness of it; in `MCBackground` the same is required only while the log is
  the part that runs. Nothing is assumed of the writer or of the rotation.
* A certificate operation goes on and its timer fires, and so does the renewal loop
  (weak fairness); dehydrated may hang, which is what `WorkIsBounded` is about.
* A request on filtering and a timer proceed (weak fairness): sleeps end, calls have
  a timeout.

### Properties

The properties relate tables that different methods update, a step to an
earlier one, or two actors: `BansAgree`, `SubnetBansSubsume`,
`SubnetScoresExact`, `WithinCapacity`, `IpsetFollowsBans`, `BansHold`,
`BansEnforcedDespiteFaults`; `BansDurable`, `RestartKeepsBans`,
`NoExemptBanAppears`, `ExpiredBansEnd`, `StrayEntriesEnd`, `BansReachFile`;
`PromisedBansKept`, `SavedPolicyInForce`, `RequestsEnd`, `OldEnginesStop`,
`ObserveUnhooks`; `RequestsAreAtomic` and `SetsReplacedWhole`, which are
refinements, `SitesAgree`, `ServesWhatIsOnDisk`, `ForwarderNamesAll`;
`CallsHoldWord`, `DefinitionsAgree`; `WantedResolve`, `AnswersHold`, `PauseEnds`;
`WorksAlone`, `LockNotStolen`, `WorkIsBounded`, `LinesReadOnce`, `LinesArrive`.
Each stands at the end of its module with a comment that says
what it means for the code. For each one `PROJECT.json` names a mutation of a
mapped definition, written beside it, under which TLC finds it violated.

## 4. Proofs

Each `...Proofs` module proves about the module it is named after, for every value
of the constants that satisfies the named assumptions: any number of addresses,
sites, clients and engines, any capacity and any length of a queue. All theorems
about a specification have the same three parts: the initial states satisfy the
inductive invariant, every step keeps it (a lemma per action, joined in one step
lemma), and it implies the property. TLC checked each inductive invariant on the
instance of section 3 before it was proved.

| Module | Inductive invariant | Properties proved |
|---|---|---|
| `BanAggregateProofs` | `IInv` (`AggregateInvariant`), `EnforcedInv` | `TypeOK`, `BansAgree`, `SubnetBansSubsume`, `ScoresDated`, `WithinCapacity`, `SubnetScoresExact`, `BansHold`; `BansEnforcedDespiteFaults`, `IpsetFollowsBans` |
| `BanWorkerProofs` | `WorkerInv` (`WorkerInvariant`), `EntriesInv` (`EntriesInvariant`) | `WorkerTypeOK`, capacities and agreement of restored tables, `NoExemptBanAppears`; `BansDurable`, `RestartKeepsBans`, `BansEnforcedDespiteFaults` of the worker |
| `FirewallManagerProofs` | `ManagerInv` (`ManagerInvariant`) | `TypeOK`, `PromisedBansKept`, `SavedPolicyInForce` |
| `IpsetBackendProofs` | `BackendInv` (`BackendInvariant`) | `TypeOK`, `CallsHoldWord`, `SetsReplacedWhole` (`IpsetBackend` implements `KernelSets`); `BothTypeOK` and `DefinitionsAgree` of `MCIpsetBackend` |
| `NginxSitesProofs` | `SitesInv` (`SitesInvariant`) | `TypeOK`, `SitesAgree`, `ServesWhatIsOnDisk`, `ForwarderNamesAll`, `RequestsAreAtomic` (`NginxSites` implements `SiteStore`) |
| `BackgroundProofs` | `TailInv` (`TailInvariant`), `OperationsInv` (`OperationsInvariant`) | `TypeOK` of `LogTailer` and `CertificateOperations`, `LinesReadOnce`, `WorksAlone`, `LockNotStolen`; `BothTypeOK` of `MCBackground` |
| `CertificateDefinitionsProofs` | `DefinitionsInv` (`DefinitionsInvariant`) | `TypeOK`, `DefinitionsAgree` |
| `AdGuardProofs` | `RewritesInv` (`RewritesInvariant`), `PauseInv` (`PauseInvariant`) | `TypeOK` of both, `WantedResolve`, `AnswersHold`, `BothTypeOK` |

### The arguments

**The aggregator.** `IInv` is the conjunction of `ScoresInv` and `BansInv`.
`ScoresInv` adds to types, dates and bounds that a subnet is scored exactly when
one of its addresses is (`SubnetsScored`): a rebuild replaces the subnet scores by
as many entries as there are scored subnets, and without that fact a hit that
evicts nothing could be followed by a rebuild that does not fit. It also says that
the tables are finite, since a cardinality says nothing of an infinite set.
`BansInv` needs `BansAgree` to prove `SubnetBansSubsume` and the other way round,
because a promotion removes the address bans it finds in `banned_ips`. Eviction is
one lemma on cardinality (`EvictThenAdd`: removing what exceeds the limit and
adding one entry stays within it), lifting bans is one lemma for all loops.

`SubnetScoresExact` is about sums that the model writes with a fold. `Sums` says what
such a fold returns: that of a set with one more address is the old sum plus the
score of the address, whichever order the fold takes them in. It is an induction over
finite sets, carried out as a smallest counterexample (`Minimal`), because the
library's induction theorems cannot be instantiated. What is left is that sums cut
off at a maximum may be cut off at each addition or once at the end.

`BansEnforcedDespiteFaults` relates the bans to the kernel, where a command may
fail and may have been carried out all the same. `EnforcedInv` says that each
unexpired ban has its entry or may be exempt, and that only possible targets are
banned: a deletion then hits no entry but its own. That is true only if no two
targets share a kernel entry, which is the hypothesis `DistinctEntries` of these
theorems; the code lets two of them share one (section 5), and then the theorem is
false. `MCBanAggregate` and `MCBanWorker` have TLC evaluate the hypothesis on
their instances. `IpsetFollowsBans` adds that the kernel holds nothing else as long
as no command fails (`StepMirror`); whether any may is a variable, `faulty`, that no
step changes.

**The worker.** `WorkerInv` says that the file always holds what a snapshot of the
memory could hold (`FileFits`), so that what a start restores respects capacities
that may have shrunk meanwhile, and that an update which is about to take effect
has lifted each ban it exempts (`PhaseInv`): that is why `NoExemptBanAppears` holds
at the step that puts the new allowlist in force. `EntriesInv` adds the file:
unless memory is marked dirty it has every ban (`FiledInv`), a start has brought
back every one (`RestoredInv`), and no address of the file stands beside a subnet
that holds it (`FileNets`), without which the order of a restore would matter.

**The backend.** What a call has still to do is always a rest of what its method asks
for: some last rounds, the first of them perhaps begun (`RoundsOK`). A family or a
place that no remaining round is about has been dealt with, and it stays so in a call
that was not disturbed (`SetsOK`, `ChainsOK`). Inside a round `SetMid` and `ChainMid`
say how far the commands have brought it: before the swap of a call that runs alone
the staging set is complete. A question has an answer for each state of the chains, so
each round ends in the same place whatever it found. `CallsHoldWord` is the invariant
with no round left. The refinement needs of it that a swap of a call that is alone
brings exactly what was asked for; the swap of one that is not alone may bring
anything, as `KernelSets` says.

**The manager.** Both results rest on the order in which an engine serves its
queue. The request that replaces the policy holds `inner`, so what it sends is the
last command of the queue, and when it is answered, nothing that an earlier request
gave up on is left (`QueueInv`). That is why the engine still runs by the policy
when it is written (`PolicyInv`), and why a flush that was answered has put every
acknowledged ban into the file the next engine reads (`PromiseInv`).

**The sites.** While a request holds `nginx_lock` the disk is neither the tree it
found nor the one it makes. `CourseInv` says which tree it is: the one the request
found, changed by exactly the steps that are no longer in `todo`. Each handler has
its course (`CreateCourse` and so on); a successful step goes from one stage to the
next (`CourseAdvances`). Then a failing step is a fact about `Undo`: at every
stage it gives back the tree the request found (`CourseUndone`), provided that
tree was sound, and nginx still serves it. `Sound` is what `SitesAgree` says,
strengthened: one row for a key at most, no rows of a site that has no file, a
file of the domain for each child, and the names of the forwarder. Without what it
says of rows an undo would bring back other rows than it found. A request that
ends leaves a sound tree (`CourseEnds`), and where nginx was not asked to reload
it serves the same tree as before (`QuietEdit`, `QuietDeletion`: an edit of a
disabled site, the deletion of one).

**The store of sites.** The refinement shows the store the tree that the request
under way found (`Settled`), so that every step of a request but its last is a
stutter. The last one of an edit is `Save` (`EditSaves`, `ToggleSaves`), of a
deletion `Remove` (`DeletionBlanks`), of the settings `Configure`
(`SettingsConfigure`): what `EditedRows` and the like say of a sound tree gives the
entry of the site, and that no other entry changed. An undo is a stutter by
`CourseUndone`. A request that is cut off, or one that works on the leftovers of
such a request, finds no sound tree; for these `Near` says that at every stage, and
after every undo, nothing outside the family of the site differs from the tree that
was found (`CourseNear`, `UndoNear`), which is what `Tear`, and `Remove` after the
first cut, allow. A settings save killed between its files leaves each site as it
was or rendered anew (`RenderedEntries`).

**Certificates.** `MCIpsetBackend` runs the definitions beside the backend, so
`BothTypesCorrect` and `DefinitionsAgreeAlways` are about that composition, as
`BackgroundTypesCorrect` is about that of the operations and the tailer.
`WorksAlone` does not follow from the lock file alone, because
cleaning up takes it away whoever created it; `GuardInv` says who can be at work at
each step of the guard. `DefinitionsAgree` speaks of a moment without requests;
`RoutesInv` says what a request on its way to the forwarder knows, and who is still
to read what it does not.

**The tailer.** `LinesReadOnce` speaks of what was returned, and says nothing of where
the tailer reads next. `TailInv` does, in four parts beside the types. `TextInv` is
about the log alone: lines are written in order, each into one file, and each is a
body, perhaps a longer one, and an end. `FilesInv` says that a retired file is one the
path has left. `OnceInv` says that no line that ends behind the offset of an open file
is known, that is, was returned or read in this poll. Only a file that is opened, or
found rewritten, is read from its beginning; so a file at the path that is not open
holds nothing known, and an open one either holds nothing known at all or is
`Followed`: its anchor is what the text has at the offset, and the next poll finds just
that. A truncation makes every known line disappear from the file, so the first
alternative holds whenever the second does not. `CalmInv` says where no line is torn: what
is pending is the part of a line that the text has before the offset (`Parsed`), or
the file was truncated, every piece in it is of a later line than the anchor, and the
next poll will notice (`Stale`). It holds unless the log was truncated during a poll,
rotated before the tailer noticed, or a file was passed over (`Calm`); `OnceInv` holds always.

What a poll reads is a fold over the pieces of a file inside a fold over the retired
files, with a budget that each leaves to the next. `ReadSteps` and `DrainSteps` say
that the folds of the community modules go from one element to the next: the function
that `MapThenFoldSet` chooses exists, by size of the domain, and its values are the
stages of the loop in the code. Then a piece is one case of `TakeOne`, a file one of
`DrainOne`, and what holds after the first few is carried to the last (`NatInduct`,
again by a smallest counterexample).

**AdGuard.** Between the deletions of an `ensure_rewrite` and its last look at the
list the rewrite may be missing, and another task may have called it settled:
`SettledInv` allows it to be missing while a call ensures it, and `CallsInv` says
that only a request which has disabled a site removes its rewrite. `PauseInv` says
that no timer runs whose handle is not in the slot, until requests overlap.

### Assumptions

Every assumption is named and stands in the module that declares the constants; TLC
evaluates it on each run.

* `NetworkAssumption`, `AggregateAssumption`: a network contains its base address,
  truncation keeps its members, a host network has one member; buckets partition
  the addresses, capacities are not zero, configurations are those `validate_config`
  in `compiled.rs` lets pass (`LegalConfigs`). `DistinctEntries` is a hypothesis of
  the six theorems that need it, not an assumption.
* `SitesAssumption`: each site has one domain, a domain is its own, and no two
  subfolders share a path segment, the key of their row (it is the simplification
  named at the top of the module); 0 marks such a key and is no server name.
* `BackendAssumption`: families, parents and entries are finitely many, as in the
  code, and each entry belongs to a family.
* `ManagerAssumption`, `RewritesAssumption`, `TailerAssumption`,
  `OperationsAssumption`: bounds are
  numbers, the queue has room for a command (`validate_config` refuses 0), and there
  is a file to be tailed. `OperationsAssumption` is a definition, which `MCBackground`
  assumes of its instance (`CertificatesAssumption`).
* `NoneAssumption`, `WaitersAssumption`, `NobodyAssumption`, `TimersAssumption`, `AbsentAssumption`,
  `CallAssumption`, `RequestAssumption`, and parts of the others: the value for "none" is not one of
  the values it is told apart from, as `None` differs from every `Some` in Rust.

### Only model-checked

* All liveness: `ENABLED` and fairness are out of the prover's reach.
* `NoExemptBanAppears` is proved for steps of a running worker, as stated; that an
  entry of an exempt ban really disappears is `StrayEntriesEnd`, which is liveness.

## 5. Where the code and its documents disagree

* `allowlist`: an update installs the exception's `nomatch` entry and then removes
  the covered ban, and the removal deletes that entry. A promotion of the subnet
  then blocks the allowlisted address until the next re-verification.
* `disable_hooks`: a poll between `Disable` and `Stop` puts the hooks back, and
  they stay.
* `lost_update`: two concurrent edits of the policy, and the later one withdraws the
  exception the earlier one added.

Not a disagreement with a document, but worth knowing: two bans can share one kernel
entry, and then the end of one removes the entry of the other until the next
re-verification. With a subnet prefix of 32 (or 128) the promotion of a banned
address adds and then deletes the same entry; an operator who bans 10.0.0.1/24 after
10.0.0.0/24 has two bans with one entry. `IpsetFollowsBans` holds in `aggregate`, and
`BansEnforcedDespiteFaults` is proved, where possible targets have different entries
(`DistinctEntries`).

## 6. What is not modelled, and the plan

Not modelled:

* regular expressions and several rules for one line, templates, parsing, HTTP,
  wording of errors, health and statistics;
* the detached worker of an engine dropped while its queue is full (it needs 128
  requests whose commands timed out, and status requests, which the model leaves
  out);
* a state file that does not parse; a clock that steps back;
* rules and tuning of a policy in `FirewallManager`;
* `set_exceptions` of the backend, which nothing calls, and the capacity of a set;
* names of sites and their validation, the migration of old inputs;
* the download of dehydrated, and its answer; expiry dates;
* AdGuard's settings, its protection switch, and dnsmasq's files, which are single
  calls or writes;
* services, WireGuard, Wake-on-LAN, the ASUS pages: handlers that run one command
  or write one file and keep no state.

What the models show beyond their properties, and no property forbids: `remove_all`
leaves one copy of a rewrite that AdGuard lists twice when it deletes one at a time
and another task adds it meanwhile; the startup task may add again the rewrite of a
site that was just disabled; a `-C` that failed for another reason doubles a hook.

Induction over data is not lost to these proofs: a set of counterexamples has a
smallest one (`FS_StrictSubsetOrderingWellFounded` and `WFMin`). The modules to be proved about declare no RECURSIVE operator.
