-------------------------- MODULE FirewallManager --------------------------
(***************************************************************************)
(* The firewall manager (firewall.rs, api/firewall.rs): the policy in      *)
(* memory and on disk, the requests that replace it, and the engines it    *)
(* starts, reconfigures and replaces. An engine is a thread behind a       *)
(* bounded command queue (ban_attack/engine.rs); while one is replaced the *)
(* old and the new one run side by side on the same state file and the     *)
(* same kernel hooks.                                                      *)
(*                                                                         *)
(* A request waits for the answer of its command at most for the command   *)
(* timeout, and the command it gave up on stays in the queue. A request    *)
(* whose client hangs up is dropped at the next point where it waits.      *)
(*                                                                         *)
(* What an engine does with one ban is BanWorker's subject: here a ban is  *)
(* its network, and networks are disjoint. Rules and tuning are left out   *)
(* of the policy (an edit of theirs changes nothing in it), so are status  *)
(* requests, which only read, count resets, which touch no ban, and        *)
(* requested reconciliations, which do what a poll does at any time.       *)
(***************************************************************************)
EXTENDS Naturals, Sequences, FiniteSets

CONSTANTS
  Editor,          \* requests that replace the policy, under way at a time
  Banner,          \* requests for a manual ban, at a time
  Net,             \* networks that are banned or allowed
  Engine,          \* bound: engines alive at a time
  Modes,           \* bound: the modes requests ask for
  None,
  QueueCapacity,   \* bound: the manager's queue holds 128 commands
  Faulty,          \* whether commands of the backend may fail
  FaultyDisk       \* whether saving a file may fail

ASSUME ManagerAssumption ==
  /\ None \notin Editor \cup Banner \cup Net \cup Engine
  /\ QueueCapacity \in Nat \ {0}
  /\ Modes \subseteq {"off", "observe", "enforce"}
  /\ {Faulty, FaultyDisk} \subseteq BOOLEAN

VARIABLES
  policy,     \* the policy in memory
  file,       \* firewall-policy.json
  request,    \* client -> what its request is doing
  update,     \* the request that holds policy_update, and how far it is
  inner,      \* the engine in use
  engine,     \* engine -> its state
  queue,      \* engine -> its commands
  answer,     \* who waits -> the answer to the command sent last
  stateFile,  \* ban-attack-state.json: the bans in it
  hooked,     \* the kernel sends packets through our chains
  promised    \* history: bans acknowledged to an operator, not exempted since

Client == Editor \cup Banner

managerVars == <<policy, file, request, update, inner>>
engineVars == <<engine, queue, stateFile, hooked>>
vars == <<managerVars, engineVars, answer, promised>>

Mode == {"off", "observe", "enforce"}   \* enabled and observe_only
Policy == [mode : Mode, allowed : SUBSET Net]
Answer == {"none", "ok", "error"}

\* Who waits for an answer: a client, or the request that replaces the policy.
Updater == "updater"
Waiter == Client \cup {Updater}
Nobody == "nobody"

ASSUME WaitersAssumption == {Updater, Nobody} \cap Client = {}

Command ==
  [op : {"update"}, policy : Policy, from : {Updater, Nobody}]
    \cup [op : {"disable", "flush"}, from : {Updater, Nobody}]
    \cup [op : {"add"}, net : Net, from : Client \cup {Nobody}]
    \cup [op : {"stop"}]

\* The policies an edit makes of p: add_allowlist and unban, delete_allowlist, a
\* change of mode with PUT /firewall, a change of the rules.
Edited(p) ==
  {[p EXCEPT !.allowed = @ \cup {n}] : n \in Net}
    \cup {[p EXCEPT !.allowed = @ \ {n}] : n \in Net}
    \cup {[p EXCEPT !.mode = m] : m \in Modes}

\* What a client's request is doing: it has read the policy and edited its copy
\* ("editing"), it replaces the policy ("replacing"), it has checked the policy
\* before a manual ban ("checked"), it waits for the engine's answer ("sent").
Idle == [at |-> "idle"]
Request ==
  {Idle, [at |-> "replacing"]}
    \cup [at : {"editing"}, goal : Policy, withdraws : SUBSET Net]
    \cup [at : {"checked", "sent"}, net : Net]

\* How far replace_policy has come. In InnerSteps it holds inner for writing, and
\* the runtime's thread: it cannot be dropped there.
Step ==
  {"free", "locked", "updating", "flushing", "disabling", "starting", "restored",
   "stopping", "applied", "saving"}
InnerSteps == {"updating", "flushing", "disabling", "starting", "restored", "stopping"}

\* last: nothing is committed after the engine has been brought in line, because
\* the request is rolled back, or the process starts.
Free == [step |-> "free", client |-> None, goal |-> None, withdraws |-> {},
         previous |-> None, last |-> FALSE, fresh |-> None]

Absent == [state |-> "absent", policy |-> None, bans |-> {}, dirty |-> FALSE]

Running(e) == engine[e].state = "running"

-----------------------------------------------------------------------------
(* The command queue: try_send, recv_timeout and the one-shot replies.     *)

\* Mutation: the queue is unbounded.
EnqueueUnbounded(q, e, w, command) ==
  /\ queue' = [q EXCEPT ![e] = Append(@, command)]
  /\ answer' = [answer EXCEPT ![w] = "none"]

\* enqueue, on top of what q holds: a full queue is an error at once.
Enqueue(q, e, w, command) ==
  IF Len(q[e]) < QueueCapacity
  THEN /\ queue' = [q EXCEPT ![e] = Append(@, command)]
       /\ answer' = [answer EXCEPT ![w] = "none"]
  ELSE /\ queue' = q
       /\ answer' = [answer EXCEPT ![w] = "error"]

\* The receiver is gone: the command is still carried out, its answer is lost.
Orphaned(w) ==
  [e \in Engine |->
     [i \in DOMAIN queue[e] |->
        IF queue[e][i].op # "stop" /\ queue[e][i].from = w
        THEN [queue[e][i] EXCEPT !.from = Nobody]
        ELSE queue[e][i]]]

\* Mutation: a command that found the queue full is waited for.
GivenUpUnlessFull(w) == IF answer[w] = "none" THEN {Orphaned(w)} ELSE {}

\* The queues once w has got an error, or has waited for the command timeout.
GivenUp(w) ==
  CASE answer[w] = "error" -> {queue}
    [] answer[w] = "none"  -> {Orphaned(w)}
    [] answer[w] = "ok"    -> {}

\* The waiter takes note of its answer, or of none.
Heard(w) == answer' = [answer EXCEPT ![w] = "none"]

Reply(w, a) == answer' = IF w = Nobody THEN answer ELSE [answer EXCEPT ![w] = a]

-----------------------------------------------------------------------------
(* The worker threads.                                                     *)

\* save_state: what e holds replaces what the file held.
Saves(e, bans) ==
  \/ /\ stateFile' = bans
     /\ engine' = [engine EXCEPT ![e].bans = bans, ![e].dirty = FALSE]
  \/ /\ FaultyDisk
     /\ engine' = [engine EXCEPT ![e].bans = bans, ![e].dirty = TRUE]
     /\ UNCHANGED stateFile

SavesIfDirty(e) ==
  IF engine[e].dirty THEN Saves(e, engine[e].bans) ELSE UNCHANGED <<engine, stateFile>>

\* Mutation: hooks are never removed.
RehookOnly(mode) == hooked' = (hooked \/ mode = "enforce")

\* backend.reconcile: hooks are put in place, or removed under observe_only. On
\* an error they may be as before.
Rehook(mode) == hooked' = (mode = "enforce")
MaybeRehook(mode) == hooked' \in {hooked, mode = "enforce"}

IsNext(e, op) == Running(e) /\ queue[e] # <<>> /\ Head(queue[e]).op = op
Pop(e) == queue' = [queue EXCEPT ![e] = Tail(@)]

\* Command::Update. The mode belongs to the backend's configuration, which only
\* a new engine can take. An error may leave some of the exempt bans lifted.
ServeUpdate(e) ==
  LET command == Head(queue[e])
      goal    == command.policy
      exempt  == engine[e].bans \cap goal.allowed
  IN  /\ IsNext(e, "update")
      /\ Pop(e)
      /\ promised' = promised \ goal.allowed
      /\ \/ /\ goal.mode = engine[e].policy.mode
            /\ Rehook(goal.mode)
            /\ \E saved \in BOOLEAN :
                 /\ saved \/ FaultyDisk
                 /\ engine' = [engine EXCEPT ![e].policy = goal,
                                             ![e].bans = @ \ exempt,
                                             ![e].dirty = ~saved]
                 /\ stateFile' = IF saved THEN engine[e].bans \ exempt ELSE stateFile
            /\ Reply(command.from, "ok")
         \/ /\ goal.mode # engine[e].policy.mode
            /\ Reply(command.from, "error")
            /\ UNCHANGED <<engine, stateFile, hooked>>
         \/ /\ goal.mode = engine[e].policy.mode
            /\ Faulty
            /\ MaybeRehook(goal.mode)
            /\ \E lifted \in SUBSET exempt :
                 engine' = [engine EXCEPT ![e].bans = @ \ lifted]
            /\ Reply(command.from, "error")
            /\ UNCHANGED stateFile
      /\ UNCHANGED managerVars

\* Command::Disable: only the hooks go.
ServeDisable(e) ==
  /\ IsNext(e, "disable")
  /\ Pop(e)
  /\ \/ hooked' = FALSE /\ Reply(Head(queue[e]).from, "ok")
     \/ Faulty /\ hooked' \in {hooked, FALSE} /\ Reply(Head(queue[e]).from, "error")
  /\ UNCHANGED <<managerVars, engine, stateFile, promised>>

\* Mutation: a flush that could not write reports success.
ServeFlushBlind(e) ==
  /\ IsNext(e, "flush")
  /\ Pop(e)
  /\ SavesIfDirty(e)
  /\ Reply(Head(queue[e]).from, "ok")
  /\ UNCHANGED <<managerVars, hooked, promised>>

\* Command::Flush.
ServeFlush(e) ==
  /\ IsNext(e, "flush")
  /\ Pop(e)
  /\ SavesIfDirty(e)
  /\ Reply(Head(queue[e]).from, IF engine'[e].dirty THEN "error" ELSE "ok")
  /\ UNCHANGED <<managerVars, hooked, promised>>

\* Command::AddBan. The engine does not look at its exceptions again.
ServeAdd(e) ==
  LET command == Head(queue[e])
  IN  /\ IsNext(e, "add")
      /\ Pop(e)
      /\ \/ /\ Saves(e, engine[e].bans \cup {command.net})
            /\ Reply(command.from, "ok")
            /\ promised' = IF command.from = Nobody THEN promised
                           ELSE promised \cup {command.net}
         \/ /\ Faulty
            /\ Reply(command.from, "error")
            /\ UNCHANGED <<engine, stateFile, promised>>
      /\ UNCHANGED <<managerVars, hooked>>

\* Command::Stop ends the thread after a last save; a ban whose save failed
\* twice is gone.
ServeStop(e) ==
  /\ IsNext(e, "stop")
  /\ \/ engine[e].dirty /\ stateFile' = engine[e].bans /\ UNCHANGED promised
     \/ /\ engine[e].dirty /\ FaultyDisk
        /\ promised' = IF update.fresh = None THEN promised \cap stateFile ELSE promised
        /\ UNCHANGED stateFile
     \/ ~engine[e].dirty /\ UNCHANGED <<stateFile, promised>>
  /\ engine' = [engine EXCEPT ![e] = Absent]
  /\ queue' = [queue EXCEPT ![e] = <<>>]
  /\ UNCHANGED <<managerVars, answer, hooked>>

\* check_reverify in a poll, or Command::Reconcile.
Reverify(e) ==
  /\ Running(e)
  /\ \/ Rehook(engine[e].policy.mode)
     \/ Faulty /\ MaybeRehook(engine[e].policy.mode)
  /\ UNCHANGED <<managerVars, engine, queue, stateFile, answer, promised>>

\* A poll reads the logs. A hit bans and is saved at once, or it only scores and
\* waits for a later save.
HitBans(e, n) ==
  /\ Running(e)
  /\ n \notin engine[e].policy.allowed \cup engine[e].bans
  /\ Saves(e, engine[e].bans \cup {n})
  /\ UNCHANGED <<managerVars, queue, hooked, answer, promised>>

HitScores(e) ==
  /\ Running(e)
  /\ engine' = [engine EXCEPT ![e].dirty = TRUE]
  /\ UNCHANGED <<managerVars, queue, stateFile, hooked, answer, promised>>

\* The save of a poll once persist_interval has passed.
Persist(e) ==
  /\ Running(e)
  /\ engine[e].dirty
  /\ SavesIfDirty(e)
  /\ UNCHANGED <<managerVars, queue, hooked, answer, promised>>

Worker(e) ==
  \/ ServeUpdate(e) \/ ServeDisable(e) \/ ServeFlush(e)
  \/ ServeAdd(e) \/ ServeStop(e)

-----------------------------------------------------------------------------
(* replace_policy, one request at a time.                                  *)

Go(step) == update' = [update EXCEPT !.step = step]

\* The request is over, whatever its outcome.
Finish ==
  /\ update' = Free
  /\ request' = IF update.client = None THEN request
                ELSE [request EXCEPT ![update.client] = Idle]

\* A handler reads the policy, and edits its copy.
ReadAndEdit(c) ==
  /\ request[c] = Idle
  /\ \E goal \in Edited(policy) :
       request' = [request EXCEPT ![c] =
                     [at |-> "editing", goal |-> goal,
                      withdraws |-> policy.allowed \ goal.allowed]]
  /\ UNCHANGED <<policy, file, update, inner, engineVars, answer, promised>>

\* policy_update is locked.
Lock(c) ==
  /\ update.step = "free"
  /\ request[c].at = "editing"
  /\ update' = [Free EXCEPT !.step = "locked", !.client = c, !.goal = request[c].goal,
                            !.withdraws = request[c].withdraws, !.previous = policy]
  /\ request' = [request EXCEPT ![c] = [at |-> "replacing"]]
  /\ UNCHANGED <<policy, file, inner, engineVars, answer, promised>>

\* update_policy: inner is locked once no request waits for the engine.
Enter ==
  /\ update.step = "locked"
  /\ \A c \in Client : request[c].at # "sent"
  /\ \/ /\ inner # None /\ update.goal.mode # "off"
        /\ Enqueue(queue, inner, Updater,
                   [op |-> "update", policy |-> update.goal, from |-> Updater])
        /\ Go("updating")
     \/ /\ inner # None /\ update.goal.mode = "off"
        /\ Enqueue(queue, inner, Updater, [op |-> "disable", from |-> Updater])
        /\ Go("disabling")
     \/ /\ inner = None
        /\ Go(IF update.goal.mode = "off" THEN "applied" ELSE "starting")
        /\ UNCHANGED <<queue, answer>>
  /\ UNCHANGED <<policy, file, request, inner, engine, stateFile, hooked, promised>>

Updated ==
  /\ update.step = "updating"
  /\ answer[Updater] = "ok"
  /\ Heard(Updater)
  /\ Go("applied")
  /\ UNCHANGED <<policy, file, request, inner, engineVars, promised>>

\* Mutation: the engine is replaced without a flush.
UpdateRefusedUnflushed ==
  /\ update.step = "updating"
  /\ queue' \in GivenUp(Updater)
  /\ Heard(Updater)
  /\ Go("starting")
  /\ UNCHANGED <<policy, file, request, inner, engine, stateFile, hooked, promised>>

\* An engine that did not take the update is to be replaced; what it holds is
\* flushed first.
UpdateRefused ==
  /\ update.step = "updating"
  /\ \E q \in GivenUp(Updater) :
       Enqueue(q, inner, Updater, [op |-> "flush", from |-> Updater])
  /\ Go("flushing")
  /\ UNCHANGED <<policy, file, request, inner, engine, stateFile, hooked, promised>>

Flushed ==
  /\ update.step = "flushing"
  /\ answer[Updater] = "ok"
  /\ Heard(Updater)
  /\ Go("starting")
  /\ UNCHANGED <<policy, file, request, inner, engineVars, promised>>

\* Mutation: the policy is committed although the engine did not take it.
GiveUpCommitting ==
  /\ update.step \in {"flushing", "disabling"}
  /\ queue' \in GivenUp(Updater)
  /\ Heard(Updater)
  /\ Go("applied")
  /\ UNCHANGED <<policy, file, request, inner, engine, stateFile, hooked, promised>>

\* The flush or the disablement failed: so does the request.
GiveUp ==
  /\ update.step \in {"flushing", "disabling"}
  /\ queue' \in GivenUp(Updater)
  /\ Heard(Updater)
  /\ Finish
  /\ UNCHANGED <<policy, file, inner, engine, stateFile, hooked, promised>>

\* Mutation: the worker is joined without being told to stop.
SendStopNever(e) == UNCHANGED queue

\* Stop is queued by the drop of an engine. There is room: only the commands sent
\* under inner's lock, all answered by now, could fill the queue.
SendStop(e) == queue' = [queue EXCEPT ![e] = Append(@, [op |-> "stop"])]

\* Disabled: the engine is dropped.
Disabled ==
  /\ update.step = "disabling"
  /\ answer[Updater] = "ok"
  /\ Heard(Updater)
  /\ SendStop(inner)
  /\ Go("stopping")
  /\ UNCHANGED <<policy, file, request, inner, engine, stateFile, hooked, promised>>

\* BanEngine::start: backend.ensure, and the state file is restored.
Load(e) ==
  /\ update.step = "starting"
  /\ engine[e] = Absent
  /\ hooked' = (hooked \/ update.goal.mode = "enforce")
  /\ engine' = [engine EXCEPT ![e] = [state |-> "starting", policy |-> update.goal,
                                      bans |-> stateFile, dirty |-> FALSE]]
  /\ update' = [update EXCEPT !.step = "restored", !.fresh = e]
  /\ UNCHANGED <<policy, file, request, inner, queue, stateFile, answer, promised>>

LoadFails ==
  /\ update.step = "starting"
  /\ Faulty
  /\ hooked' \in {hooked, hooked \/ update.goal.mode = "enforce"}
  /\ Finish
  /\ UNCHANGED <<policy, file, inner, engine, queue, stateFile, answer, promised>>

\* The kernel is reconciled and the exempt bans are lifted; an error in the latter
\* is only noted. The thread runs, and the engine it replaces is dropped.
Launch ==
  LET e      == update.fresh
      exempt == engine[e].bans \cap update.goal.allowed
  IN  /\ update.step = "restored"
      /\ Rehook(update.goal.mode)
      /\ promised' = promised \ update.goal.allowed
      /\ \E lifted \in (IF Faulty THEN SUBSET exempt ELSE {exempt}), saved \in BOOLEAN :
           /\ saved => lifted = exempt /\ update.goal.allowed # {}
           /\ ~saved => FaultyDisk \/ lifted # exempt \/ update.goal.allowed = {}
           /\ engine' = [engine EXCEPT ![e].state = "running", ![e].bans = @ \ lifted]
           /\ stateFile' = IF saved THEN engine[e].bans \ lifted ELSE stateFile
      /\ IF inner = None
         THEN /\ inner' = e
              /\ update' = [update EXCEPT !.step = "applied", !.fresh = None]
              /\ UNCHANGED queue
         ELSE /\ SendStop(inner)
              /\ Go("stopping")
              /\ UNCHANGED inner
      /\ UNCHANGED <<policy, file, request, answer>>

LaunchFails ==
  /\ update.step = "restored"
  /\ Faulty
  /\ MaybeRehook(update.goal.mode)
  /\ engine' = [engine EXCEPT ![update.fresh] = Absent]
  /\ Finish
  /\ UNCHANGED <<policy, file, inner, queue, stateFile, answer, promised>>

\* The thread of the engine that is dropped has been joined.
Joined ==
  /\ update.step = "stopping"
  /\ engine[inner] = Absent
  /\ inner' = update.fresh
  /\ update' = [update EXCEPT !.step = "applied", !.fresh = None]
  /\ UNCHANGED <<policy, file, request, engineVars, answer, promised>>

\* The engine is in line: the policy is replaced in memory.
Commit ==
  /\ update.step = "applied"
  /\ ~update.last
  /\ policy' = update.goal
  /\ Go("saving")
  /\ UNCHANGED <<file, request, inner, engineVars, answer, promised>>

\* Then on disk, and the client is told.
Save ==
  /\ update.step = "saving"
  /\ file' = policy
  /\ Finish
  /\ UNCHANGED <<policy, inner, engineVars, answer, promised>>

\* The file could not be written: memory and engine go back.
SaveFails ==
  /\ update.step = "saving"
  /\ FaultyDisk
  /\ policy' = update.previous
  /\ update' = [update EXCEPT !.step = "locked", !.goal = update.previous, !.last = TRUE]
  /\ UNCHANGED <<file, request, inner, engineVars, answer, promised>>

\* Nothing is left to commit.
Settle ==
  /\ update.step = "applied"
  /\ update.last
  /\ Finish
  /\ UNCHANGED <<policy, file, inner, engineVars, answer, promised>>

\* The client hangs up, and its request is dropped where it waits: before inner
\* is locked, before the policy is written, while the file is.
Abandon ==
  /\ \/ update.step = "locked" /\ UNCHANGED file
     \/ update.step = "applied" /\ ~update.last /\ UNCHANGED file
     \/ update.step = "saving" /\ file' \in {file, policy}
  /\ Finish
  /\ UNCHANGED <<policy, inner, engineVars, answer, promised>>

-----------------------------------------------------------------------------
(* ban_manual.                                                             *)

\* ban_manual reads the policy.
CheckBan(c, n) ==
  /\ request[c] = Idle
  /\ policy.mode # "off"
  /\ n \notin policy.allowed
  /\ request' = [request EXCEPT ![c] = [at |-> "checked", net |-> n]]
  /\ UNCHANGED <<policy, file, update, inner, engineVars, answer, promised>>

\* inner is locked for reading, and the command is queued; it stays locked until
\* the request ends.
SendBan(c) ==
  /\ request[c].at = "checked"
  /\ update.step \notin InnerSteps
  /\ \/ /\ inner # None
        /\ Enqueue(queue, inner, c, [op |-> "add", net |-> request[c].net, from |-> c])
        /\ request' = [request EXCEPT ![c].at = "sent"]
     \/ /\ inner = None
        /\ request' = [request EXCEPT ![c] = Idle]
        /\ UNCHANGED <<queue, answer>>
  /\ UNCHANGED <<policy, file, update, inner, engine, stateFile, hooked, promised>>

\* The answer comes, or the command timeout.
EndBan(c) ==
  /\ request[c].at = "sent"
  /\ queue' \in GivenUp(c) \cup (IF answer[c] = "ok" THEN {queue} ELSE {})
  /\ Heard(c)
  /\ request' = [request EXCEPT ![c] = Idle]
  /\ UNCHANGED <<policy, file, update, inner, engine, stateFile, hooked, promised>>

\* A request is dropped while it waits for a lock.
HangUp(c) ==
  /\ request[c].at \in {"editing", "checked"}
  /\ request' = [request EXCEPT ![c] = Idle]
  /\ UNCHANGED <<policy, file, update, inner, engineVars, answer, promised>>

-----------------------------------------------------------------------------

\* FirewallManager::start, before the first request.
Boot(p) ==
  IF p.mode = "off" THEN Free
  ELSE [Free EXCEPT !.step = "starting", !.goal = p, !.last = TRUE]

\* The process is killed, and started again. A ban that was never saved is lost.
Crash ==
  /\ policy' = file
  /\ request' = [c \in Client |-> Idle]
  /\ update' = Boot(file)
  /\ inner' = None
  /\ engine' = [e \in Engine |-> Absent]
  /\ queue' = [e \in Engine |-> <<>>]
  /\ answer' = [w \in Waiter |-> "none"]
  /\ promised' = IF inner # None /\ engine[inner].dirty THEN promised \cap stateFile
                 ELSE promised
  /\ UNCHANGED <<file, stateFile, hooked>>

Init ==
  /\ policy = [mode |-> "off", allowed |-> {}]
  /\ file = policy
  /\ request = [c \in Client |-> Idle]
  /\ update = Free
  /\ inner = None
  /\ engine = [e \in Engine |-> Absent]
  /\ queue = [e \in Engine |-> <<>>]
  /\ answer = [w \in Waiter |-> "none"]
  /\ stateFile = {}
  /\ hooked = FALSE
  /\ promised = {}

Replacing ==
  \/ Enter \/ Updated \/ UpdateRefused \/ Flushed \/ GiveUp \/ Disabled
  \/ (\E e \in Engine : Load(e)) \/ LoadFails \/ Launch \/ LaunchFails \/ Joined
  \/ Commit \/ Save \/ SaveFails \/ Settle

Next ==
  \/ \E c \in Editor : ReadAndEdit(c) \/ Lock(c)
  \/ Replacing
  \/ Abandon
  \/ \E c \in Banner, n \in Net : CheckBan(c, n)
  \/ \E c \in Banner : SendBan(c) \/ EndBan(c)
  \/ \E c \in Client : HangUp(c)
  \/ \E e \in Engine : Worker(e) \/ Reverify(e) \/ HitScores(e) \/ Persist(e)
  \/ \E e \in Engine, n \in Net : HitBans(e, n)
  \/ Crash

\* The threads run. Locks are handed out in the order they are asked for, so a
\* request that may have one again and again gets it. Polls come round, and a
\* backend that is tried for ever succeeds in the end.
Fairness ==
  /\ \A c \in Editor : SF_vars(Lock(c))
  /\ \A c \in Banner : SF_vars(SendBan(c)) /\ WF_vars(EndBan(c))
  /\ SF_vars(Enter) /\ WF_vars(Replacing)
  /\ \A e \in Engine :
       /\ WF_vars(Worker(e))
       /\ SF_vars(Reverify(e) /\ Rehook(engine[e].policy.mode))

Spec == Init /\ [][Next]_vars /\ Fairness

-----------------------------------------------------------------------------
(* Properties.                                                             *)

TypeOK ==
  /\ {policy, file} \subseteq Policy
  /\ request \in [Client -> Request]
  /\ update.step \in Step
  /\ update.client \in Client \cup {None}
  /\ {update.goal, update.previous} \subseteq Policy \cup {None}
  /\ {inner, update.fresh} \subseteq Engine \cup {None}
  /\ \A e \in Engine :
       /\ engine[e].state \in {"absent", "starting", "running"}
       /\ engine[e].policy \in Policy \cup {None}
       /\ engine[e].bans \subseteq Net
       /\ queue[e] \in UNION {[1..k -> Command] : k \in 0..QueueCapacity}
  /\ answer \in [Waiter -> Answer]
  /\ stateFile \subseteq Net
  /\ promised \subseteq Net

(* A policy is written to disk only when the engine in use runs by it:     *)
(* "a saved policy never describes an engine configuration that failed     *)
(* validation or application" (firewall.rs:178), although commands that    *)
(* timed out are still carried out, requests are dropped half-way and the  *)
(* engine may have been replaced.                                          *)
SavedPolicyInForce ==
  [][file' # file =>
       IF file'.mode = "off" THEN inner = None
       ELSE inner # None /\ engine[inner].policy = file']_vars

\* The engine in use, or the one about to be once the old one has stopped.
InUse == IF update.step = "stopping" /\ engine[inner] = Absent THEN update.fresh ELSE inner

(* A manual ban that was acknowledged is held by the engine in use, or by  *)
(* the state file when there is none, through updates, replacements of the *)
(* engine, disablement and crashes, until a request exempts it or the disk *)
(* refuses to take it before the engine ends.                              *)
PromisedBansKept ==
  promised \subseteq (IF InUse = None THEN stateFile ELSE engine[InUse].bans)

(* Every request comes to an end: the one that replaces the policy is not  *)
(* held up for ever by the engine it updates or joins, nor the others by   *)
(* the locks it holds.                                                     *)
RequestsEnd == \A c \in Client : request[c] # Idle ~> request[c] = Idle

(* An engine that was replaced or disabled stops.                          *)
OldEnginesStop == \A e \in Engine : Running(e) /\ inner # e ~> ~Running(e) \/ inner = e

ModeInUse ==
  IF inner = None \/ ~Running(inner) THEN "off" ELSE engine[inner].policy.mode

(* Under observe_only packets are let through in the end, although the     *)
(* enforcing engine that is being replaced may put the hooks back after    *)
(* the new one has removed them.                                           *)
ObserveUnhooks == ModeInUse = "observe" /\ hooked ~> ModeInUse # "observe" \/ ~hooked

(* "Disabling the policy removes only Router Hub's parent hooks"           *)
(* (docs/architecture.md:196): when a request has turned the policy off,   *)
(* no packet goes through our chains any more.                             *)
DisablingUnhooks ==
  [][update.step = "applied" /\ update'.step = "saving"
       /\ update.goal.mode = "off" /\ policy.mode # "off"
     => ~hooked]_vars

(* An unban "adds a durable allowlist exception" (docs/architecture.md:180): *)
(* when a request replaces the policy, a network leaves the allowlist only   *)
(* if that request withdraws it.                                             *)
ExceptionsDurable ==
  [][update.step = "applied" /\ update'.step = "saving"
       => policy.allowed \ policy'.allowed \subseteq update.withdraws]_vars

=============================================================================
