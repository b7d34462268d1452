------------------------ MODULE FirewallManagerProofs ------------------------
(***************************************************************************)
(* What FirewallManager promises for any number of requests, networks and  *)
(* engines, and for a queue of any length, whatever fails.                 *)
(*                                                                         *)
(* Both results rest on the order in which an engine serves its commands.  *)
(* The request that replaces the policy holds inner, so that what it sends *)
(* is the last command of the queue, and when it is answered nothing that  *)
(* an earlier request gave up on is left to be carried out (QueueInv).     *)
(* That is why the engine still runs by the policy when it is written to   *)
(* disk (PolicyInv), and why a flush that was answered has put every ban   *)
(* that was acknowledged into the file that the next engine reads          *)
(* (PromiseInv).                                                           *)
(***************************************************************************)
EXTENDS FirewallManager, SequenceTheorems, TLAPS

(* --------------------------- the invariant ----------------------------- *)

EngineState ==
  [state : {"absent", "starting", "running"}, policy : Policy \cup {None},
   bans : SUBSET Net, dirty : BOOLEAN]

Update ==
  [step : Step, client : Client \cup {None}, goal : Policy \cup {None},
   withdraws : SUBSET Net, previous : Policy \cup {None}, last : BOOLEAN,
   fresh : Engine \cup {None}]

\* TypeOK with what it leaves open: the functions and records it looks into.
ManagerTypes ==
  /\ policy \in Policy /\ file \in Policy
  /\ request \in [Client -> Request]
  /\ update \in Update
  /\ inner \in Engine \cup {None}
  /\ engine \in [Engine -> EngineState]
  /\ queue \in [Engine -> Seq(Command)]
  /\ answer \in [Waiter -> Answer]
  /\ stateFile \subseteq Net
  /\ promised \subseteq Net

At(steps) == update.step \in steps

\* What a request is, from its lock to its end.
UpdateInv ==
  /\ update.client # None => request[update.client].at = "replacing"
  /\ ~At({"free"}) => /\ update.goal \in Policy
                      /\ update.last \/ update.previous \in Policy
  /\ At({"updating", "flushing", "starting", "restored"}) => update.goal.mode # "off"
  /\ At({"disabling"}) => update.goal.mode = "off"
  /\ At({"stopping"}) => (update.fresh = None <=> update.goal.mode = "off")
  /\ At({"updating", "flushing", "disabling", "stopping"}) => inner # None
  /\ At({"restored"}) => update.fresh # None
  /\ At({"saving"}) => ~update.last
  /\ At(InnerSteps) => \A c \in Client : request[c].at # "sent"

\* There are two engines at most: the one in use, and the one that replaces it.
EngineInv ==
  /\ \A e \in Engine : engine[e].state = "absent" => engine[e] = Absent
  /\ \A e \in Engine : engine[e] # Absent => e = inner \/ e = update.fresh
  /\ inner # None => Running(inner) \/ (At({"stopping"}) /\ engine[inner] = Absent)
  /\ update.fresh # None =>
       /\ update.fresh # inner
       /\ \/ At({"restored"}) /\ engine[update.fresh].state = "starting"
          \/ At({"stopping"}) /\ Running(update.fresh)
       /\ engine[update.fresh].policy = update.goal

Waits(w) ==
  IF w = Updater THEN At({"updating", "flushing", "disabling"}) ELSE request[w].at = "sent"

\* The command at place i of the queue in use is one that w waits for.
SentBy(i, w) ==
  i \in DOMAIN queue[inner] /\ queue[inner][i].op # "stop" /\ queue[inner][i].from = w

Op(step) == CASE step = "updating" -> "update"
              [] step = "flushing" -> "flush"
              [] step = "disabling" -> "disable"

\* Commands are in the queue of the engine in use only; who has sent one waits for the
\* answer to that one. What the updater has sent is the last. A stop is alone.
QueueInv ==
  /\ \A e \in Engine : Len(queue[e]) <= QueueCapacity
  /\ \A e \in Engine : e # inner \/ engine[e] = Absent => queue[e] = <<>>
  /\ inner # None =>
       /\ \A w \in Waiter, i \in DOMAIN queue[inner] :
            SentBy(i, w) => Waits(w) /\ answer[w] = "none"
       /\ \A c \in Client, i, j \in DOMAIN queue[inner] : SentBy(i, c) /\ SentBy(j, c) => i = j
       /\ \A i \in DOMAIN queue[inner] : SentBy(i, Updater) => i = Len(queue[inner])
       /\ \A i \in DOMAIN queue[inner] :
            queue[inner][i].op = "stop" => At({"stopping"})
       /\ At({"stopping"}) /\ Running(inner) => queue[inner] = <<[op |-> "stop"]>>
       /\ At({"starting", "restored"}) => queue[inner] = <<>>
  /\ Waits(Updater) /\ answer[Updater] = "none" =>
       /\ queue[inner] # <<>>
       /\ LET command == queue[inner][Len(queue[inner])]
          IN  /\ command.op = Op(update.step) /\ command.from = Updater
              /\ At({"updating"}) => command.policy = update.goal
  /\ Waits(Updater) /\ answer[Updater] = "ok" => queue[inner] = <<>>

InForce(p) == IF p.mode = "off" THEN inner = None
                                ELSE inner # None /\ engine[inner].policy = p

\* Once the engine has taken the policy it runs by it, until the file is written: no
\* other is in its queue.
PolicyInv ==
  /\ At({"updating"}) /\ answer[Updater] = "ok" => engine[inner].policy = update.goal
  /\ At({"applied", "saving"}) =>
       /\ InForce(update.goal)
       /\ inner # None => \A i \in DOMAIN queue[inner] : queue[inner][i].op # "update"
  /\ At({"saving"}) => policy = update.goal

\* From its flush to its end an engine that is replaced leaves what was promised in the
\* file.
Flushing ==
  \/ At({"flushing"}) /\ answer[Updater] = "ok"
  \/ At({"starting", "restored"})
  \/ At({"stopping"}) /\ update.fresh # None

PromiseInv ==
  /\ inner # None /\ Running(inner) => promised \subseteq engine[inner].bans
  /\ inner = None \/ ~engine[inner].dirty \/ Flushing => promised \subseteq stateFile
  /\ update.fresh # None => promised \subseteq engine[update.fresh].bans

ManagerInv == ManagerTypes /\ UpdateInv /\ EngineInv /\ QueueInv /\ PolicyInv /\ PromiseInv

(* ---------------------- commands and their queue ----------------------- *)

\* What a command carries.
LEMMA CommandTypes ==
  ASSUME NEW command \in Command
  PROVE  /\ command.op \in {"update", "disable", "flush", "add", "stop"}
         /\ command.op = "update" => /\ command.policy \in Policy
                                     /\ command.from \in {Updater, Nobody}
         /\ command.op \in {"disable", "flush"} => command.from \in {Updater, Nobody}
         /\ command.op = "add" => /\ command.net \in Net
                                  /\ command.from \in Client \cup {Nobody}
         /\ command.op # "stop" => command.from \in Waiter \cup {Nobody}
BY DEF Command, Waiter

\* Who waits, is told apart.
LEMMA WaitersApart ==
  /\ Updater \in Waiter /\ Updater \notin Client /\ Updater # Nobody
  /\ Client \subseteq Waiter /\ Nobody \notin Waiter
  /\ None \notin Client /\ None \notin Engine
BY WaitersAssumption, ManagerAssumption DEF Waiter, Client, Updater, Nobody

\* The first command of a queue is taken from it.
LEMMA TailOf ==
  ASSUME NEW s \in Seq(Command), s # <<>>
  PROVE  /\ Tail(s) \in Seq(Command) /\ Len(Tail(s)) = Len(s) - 1
         /\ Head(s) = s[1] /\ Head(s) \in Command
         /\ Len(s) \in Nat \ {0} /\ DOMAIN s = 1..Len(s)
         /\ DOMAIN Tail(s) = 1..(Len(s) - 1)
         /\ \A i \in 1..(Len(s) - 1) : Tail(s)[i] = s[i + 1]
         /\ Len(s) = 1 => Tail(s) = <<>>
<1>1. Len(s) \in Nat /\ DOMAIN s = 1..Len(s) /\ Len(s) # 0
  BY EmptySeq
<1>2. Tail(s) \in Seq(Command) /\ Len(Tail(s)) = Len(s) - 1
  BY <1>1
<1>3. Len(s) = 1 => Tail(s) = <<>>
  <2> DEFINE t == Tail(s)
  <2> HIDE DEF t
  <2>1. t \in Seq(Command) /\ t # <<>> => Len(t) # 0
    BY EmptySeq
  <2> QED BY <1>1, <1>2, <2>1 DEF t
<1> QED BY <1>1, <1>2, <1>3

\* A command is added to a queue.
LEMMA AppendOf ==
  ASSUME NEW s \in Seq(Command), NEW command \in Command
  PROVE  /\ Append(s, command) \in Seq(Command)
         /\ Len(s) \in Nat /\ Len(Append(s, command)) = Len(s) + 1
         /\ DOMAIN s = 1..Len(s) /\ DOMAIN Append(s, command) = 1..(Len(s) + 1)
         /\ \A i \in 1..Len(s) : Append(s, command)[i] = s[i]
         /\ Append(s, command)[Len(s) + 1] = command
         /\ Append(s, command) # <<>>
<1>1. Len(s) \in Nat /\ DOMAIN s = 1..Len(s)
  OBVIOUS
<1>2. Append(s, command) \in Seq(Command) /\ Len(Append(s, command)) = Len(s) + 1
  BY <1>1
<1>3. Append(s, command) # <<>>
  BY <1>1, <1>2
<1> QED BY <1>1, <1>2, <1>3

\* What was sent by one that gave up is still there, but has nobody who waits for it.
LEMMA OrphanedOf ==
  ASSUME ManagerTypes, NEW w \in Waiter
  PROVE  /\ Orphaned(w) \in [Engine -> Seq(Command)]
         /\ \A e \in Engine :
              /\ Len(Orphaned(w)[e]) = Len(queue[e])
              /\ DOMAIN Orphaned(w)[e] = DOMAIN queue[e]
              /\ queue[e] = <<>> => Orphaned(w)[e] = <<>>
              /\ \A i \in DOMAIN queue[e] :
                   /\ Orphaned(w)[e][i].op = queue[e][i].op
                   /\ queue[e][i].op # "stop" =>
                        Orphaned(w)[e][i].from = IF queue[e][i].from = w THEN Nobody
                                                 ELSE queue[e][i].from
                   /\ queue[e][i].op = "stop" => Orphaned(w)[e][i] = queue[e][i]
<1>1. ASSUME NEW c \in Command, c.op # "stop"
      PROVE  /\ [c EXCEPT !.from = Nobody] \in Command
             /\ [c EXCEPT !.from = Nobody].op = c.op
             /\ [c EXCEPT !.from = Nobody].from = Nobody
  BY <1>1 DEF Command
<1>2. ASSUME NEW e \in Engine
      PROVE  /\ queue[e] \in Seq(Command) /\ Len(queue[e]) \in Nat
             /\ DOMAIN queue[e] = 1..Len(queue[e])
             /\ \A i \in DOMAIN queue[e] : queue[e][i] \in Command
  BY DEF ManagerTypes
<1>3. ASSUME NEW e \in Engine
      PROVE  /\ Orphaned(w)[e] = [i \in 1..Len(queue[e]) |->
                   IF queue[e][i].op # "stop" /\ queue[e][i].from = w
                   THEN [queue[e][i] EXCEPT !.from = Nobody] ELSE queue[e][i]]
             /\ \A i \in 1..Len(queue[e]) : Orphaned(w)[e][i] \in Command
  BY <1>1, <1>2 DEF Orphaned
<1>4. ASSUME NEW e \in Engine
      PROVE  /\ Orphaned(w)[e] \in Seq(Command)
             /\ Len(Orphaned(w)[e]) = Len(queue[e])
             /\ DOMAIN Orphaned(w)[e] = DOMAIN queue[e]
  <2> DEFINE n == Len(queue[e])
             f == [i \in 1..n |-> Orphaned(w)[e][i]]
  <2>1. n \in Nat /\ Orphaned(w)[e] = f /\ \A i \in 1..n : f[i] \in Command
    BY <1>2, <1>3
  <2> HIDE DEF Orphaned
  <2>2. f \in [1..n -> Command] /\ DOMAIN f = 1..n
    BY <2>1
  <2> HIDE DEF f, n
  <2>3. f \in Seq(Command)
    BY <2>1, <2>2, SeqDef
  <2>4. Len(f) \in Nat /\ 1..Len(f) = 1..n
    BY <2>2, <2>3, LenProperties
  <2>5. Len(f) = n
    BY <2>1, <2>4
  <2> QED BY <1>2, <2>1, <2>3, <2>5 DEF n
<1>5. Orphaned(w) \in [Engine -> Seq(Command)]
  <2>1. Orphaned(w) = [e \in Engine |-> Orphaned(w)[e]]
    BY DEF Orphaned
  <2> HIDE DEF Orphaned
  <2> QED BY <1>4, <2>1
<1>6. ASSUME NEW e \in Engine, queue[e] = <<>> PROVE Orphaned(w)[e] = <<>>
  BY <1>2, <1>4, <1>6, EmptySeq
<1>7. ASSUME NEW e \in Engine, NEW i \in DOMAIN queue[e]
      PROVE  /\ Orphaned(w)[e][i].op = queue[e][i].op
             /\ queue[e][i].op # "stop" =>
                  Orphaned(w)[e][i].from = IF queue[e][i].from = w THEN Nobody
                                           ELSE queue[e][i].from
             /\ queue[e][i].op = "stop" => Orphaned(w)[e][i] = queue[e][i]
  <2>1. queue[e][i] \in Command /\ i \in 1..Len(queue[e])
    BY <1>2
  <2>2. CASE queue[e][i].op # "stop" /\ queue[e][i].from = w
    BY <1>1, <1>3, <2>1, <2>2
  <2>3. CASE ~(queue[e][i].op # "stop" /\ queue[e][i].from = w)
    <3>1. Orphaned(w)[e][i] = queue[e][i]
      BY <1>3, <2>1, <2>3
    <3> QED BY <2>3, <3>1
  <2> QED BY <2>2, <2>3
<1> QED BY <1>4, <1>5, <1>6, <1>7

(* ------------- steps that no engine takes notice of -------------------- *)

\* A client's request goes on that no engine and no update has to do with.
LEMMA RequestMoves ==
  ASSUME ManagerInv, NEW c \in Client, NEW r \in Request,
         request' = [request EXCEPT ![c] = r],
         request[c].at \notin {"sent", "replacing"}, r.at # "sent",
         UNCHANGED <<policy, file, update, inner, engineVars, answer, promised>>
  PROVE  ManagerInv'
<1> USE DEF ManagerInv, engineVars
<1>1. /\ request' \in [Client -> Request] /\ request'[c] = r
      /\ \A d \in Client \ {c} : request'[d] = request[d]
  BY DEF ManagerTypes
<1>2. ManagerTypes'
  BY <1>1 DEF ManagerTypes
<1>3. UpdateInv'
  BY <1>1 DEF UpdateInv, At, ManagerTypes, Update
<1>4. EngineInv'
  BY DEF EngineInv, Running, At
<1>5. QueueInv'
  BY <1>1, WaitersApart DEF QueueInv, SentBy, Waits, At, Running, Waiter
<1>6. PolicyInv'
  BY DEF PolicyInv, InForce, At
<1>7. PromiseInv'
  BY DEF PromiseInv, Flushing, Running, At
<1> QED BY <1>2, <1>3, <1>4, <1>5, <1>6, <1>7

\* The handlers up to the lock.
LEMMA HandlersKeepInv ==
  ASSUME ManagerInv, NEW c \in Client,
         ReadAndEdit(c) \/ (\E n \in Net : CheckBan(c, n)) \/ HangUp(c)
  PROVE  ManagerInv'
<1>1. PICK r \in Request :
        /\ request' = [request EXCEPT ![c] = r]
        /\ request[c].at \notin {"sent", "replacing"}
        /\ r.at # "sent"
  <2>1. CASE ReadAndEdit(c)
    <3>1. policy \in Policy
      BY DEF ManagerInv, ManagerTypes
    <3>2. Edited(policy) \subseteq Policy
      BY <3>1, ManagerAssumption DEF Edited, Policy, Mode
    <3>3. PICK goal \in Edited(policy) :
            request' = [request EXCEPT ![c] =
                          [at |-> "editing", goal |-> goal,
                           withdraws |-> policy.allowed \ goal.allowed]]
      BY <2>1 DEF ReadAndEdit
    <3>4. [at |-> "editing", goal |-> goal,
           withdraws |-> policy.allowed \ goal.allowed] \in Request
      BY <3>1, <3>2 DEF Request, Policy
    <3>5. request[c].at = "idle"
      BY <2>1 DEF ReadAndEdit, Idle
    <3> QED BY <3>3, <3>4, <3>5
  <2>2. CASE \E n \in Net : CheckBan(c, n)
    <3>1. PICK n \in Net : CheckBan(c, n)
      BY <2>2
    <3>2. [at |-> "checked", net |-> n] \in Request
      BY DEF Request
    <3>3. request[c].at = "idle"
      BY <3>1 DEF CheckBan, Idle
    <3> QED BY <3>1, <3>2, <3>3 DEF CheckBan
  <2>3. CASE HangUp(c)
    <3>1. Idle \in Request /\ Idle.at = "idle"
      BY DEF Idle, Request
    <3> QED BY <2>3, <3>1 DEF HangUp
  <2> QED BY <2>1, <2>2, <2>3
<1> QED BY <1>1, RequestMoves DEF ReadAndEdit, CheckBan, HangUp

\* How a request ends.
LEMMA FinishFacts ==
  ASSUME ManagerTypes, UpdateInv, Finish
  PROVE  /\ update' = Free /\ Free \in Update
         /\ request' \in [Client -> Request]
         /\ \A c \in Client : request'[c].at = "sent" <=> request[c].at = "sent"
<1>1. Free \in Update
  BY DEF Free, Update, Step
<1>2. Idle \in Request /\ Idle.at = "idle"
  BY DEF Idle, Request
<1>3. CASE update.client = None
  BY <1>1, <1>3 DEF Finish, ManagerTypes
<1>4. CASE update.client # None
  <2>1. update.client \in Client /\ request[update.client].at = "replacing"
    BY <1>4 DEF ManagerTypes, Update, UpdateInv
  <2> QED BY <1>1, <1>2, <1>4, <2>1 DEF Finish, ManagerTypes
<1> QED BY <1>3, <1>4

\* The update goes on without the engine.
LEMMA QuietStep ==
  ASSUME ManagerInv, update' \in Update, update'.fresh = None,
         At({"free", "locked", "starting", "applied", "saving"}),
         At({"free", "locked", "applied", "saving"})',
         \A c \in Client : request'[c].at = "sent" <=> request[c].at = "sent",
         UNCHANGED <<inner, engine, queue, stateFile, answer, promised>>
  PROVE  EngineInv' /\ QueueInv' /\ PromiseInv'
<1> USE DEF ManagerInv, At
<1>1. update.fresh = None
  BY DEF EngineInv
<1>2. EngineInv'
  BY <1>1 DEF EngineInv, Running
<1>3. \A w \in Waiter : Waits(w)' <=> Waits(w)
  BY WaitersApart DEF Waits, Waiter
<1>4. QueueInv'
  BY <1>3, WaitersApart DEF QueueInv, SentBy, Waits, Running
<1>5. PromiseInv'
  BY <1>1 DEF PromiseInv, Flushing, Running
<1> QED BY <1>2, <1>4, <1>5

\* A request ends, that has come to no engine or is done with it.
LEMMA EndsKeepInv ==
  ASSUME ManagerInv, Save \/ Settle \/ Abandon \/ LoadFails PROVE ManagerInv'
<1> USE DEF ManagerInv, At
<1>1. /\ Finish /\ policy' \in Policy /\ file' \in Policy
      /\ At({"locked", "starting", "applied", "saving"})
      /\ UNCHANGED <<inner, engine, queue, stateFile, answer, promised>>
  BY DEF Save, Settle, Abandon, LoadFails, engineVars, ManagerTypes
<1>2. /\ update' = Free /\ Free \in Update
      /\ request' \in [Client -> Request]
      /\ \A c \in Client : request'[c].at = "sent" <=> request[c].at = "sent"
  BY <1>1, FinishFacts
<1>3. Free.step = "free" /\ Free.client = None /\ Free.fresh = None
  BY DEF Free
<1>4. ManagerTypes'
  BY <1>1, <1>2 DEF ManagerTypes
<1>5. UpdateInv'
  BY <1>2, <1>3 DEF UpdateInv, InnerSteps
<1>6. PolicyInv'
  BY <1>2, <1>3 DEF PolicyInv
<1> QED BY <1>1, <1>2, <1>3, <1>4, <1>5, <1>6, QuietStep

\* A request gets policy_update.
LEMMA LockKeepsInv ==
  ASSUME ManagerInv, NEW c \in Client, Lock(c) PROVE ManagerInv'
<1> USE DEF ManagerInv, At
<1>1. /\ update'.step = "locked" /\ update'.client = c /\ update'.goal = request[c].goal
      /\ update'.withdraws = request[c].withdraws /\ update'.previous = policy
      /\ update'.fresh = None /\ update'.last = FALSE
      /\ update' = [Free EXCEPT !.step = "locked", !.client = c, !.goal = request[c].goal,
                                !.withdraws = request[c].withdraws, !.previous = policy]
  BY DEF Lock, Free
<1>2. request[c].goal \in Policy /\ request[c].withdraws \subseteq Net
  BY DEF Lock, ManagerTypes, Request, Idle
<1>3. update' \in Update
  BY <1>1, <1>2 DEF Free, Update, Step, ManagerTypes
<1>4. /\ request' \in [Client -> Request] /\ request'[c].at = "replacing"
      /\ \A d \in Client \ {c} : request'[d] = request[d]
  BY DEF Lock, ManagerTypes, Request
<1>5. /\ UNCHANGED <<policy, file, inner, engine, queue, stateFile, hooked, answer, promised>>
      /\ update.step = "free" /\ request[c].at = "editing"
  BY DEF Lock, engineVars
<1>6. ManagerTypes'
  BY <1>3, <1>4, <1>5 DEF ManagerTypes
<1>7. UpdateInv'
  BY <1>1, <1>2, <1>4, <1>5 DEF UpdateInv, ManagerTypes, InnerSteps
<1>8. PolicyInv'
  BY <1>1 DEF PolicyInv
<1> QED BY <1>1, <1>3, <1>4, <1>5, <1>6, <1>7, <1>8, QuietStep

\* The policy is replaced in memory, or brought back.
LEMMA CommitKeepsInv ==
  ASSUME ManagerInv, Commit \/ SaveFails PROVE ManagerInv'
<1> USE DEF ManagerInv, At
<1>1. /\ UNCHANGED <<file, request, inner, engine, queue, stateFile, hooked, answer, promised>>
      /\ At({"applied", "saving"}) /\ ~update.last
  BY DEF Commit, SaveFails, engineVars, UpdateInv
<1>2. update.goal \in Policy /\ update.previous \in Policy
  BY <1>1 DEF UpdateInv
<1>3. CASE Commit
  <2>1. /\ update' = [update EXCEPT !.step = "saving"] /\ policy' = update.goal
        /\ update.step = "applied"
    BY <1>3 DEF Commit, Go
  <2>2. /\ update' \in Update /\ update'.step = "saving" /\ update'.fresh = update.fresh
        /\ update'.goal = update.goal /\ update'.client = update.client
        /\ update'.previous = update.previous /\ update'.last = update.last
    BY <2>1 DEF ManagerTypes, Update, Step
  <2>3. update'.fresh = None
    BY <2>1, <2>2 DEF EngineInv
  <2>4. ManagerTypes'
    BY <1>1, <1>2, <2>1, <2>2 DEF ManagerTypes
  <2>5. UpdateInv'
    BY <1>1, <1>2, <2>1, <2>2 DEF UpdateInv, InnerSteps
  <2>6. PolicyInv'
    BY <1>1, <2>1, <2>2 DEF PolicyInv, InForce
  <2> QED BY <1>1, <2>1, <2>2, <2>3, <2>4, <2>5, <2>6, QuietStep
<1>4. CASE SaveFails
  <2>1. /\ update' = [update EXCEPT !.step = "locked", !.goal = update.previous, !.last = TRUE]
        /\ policy' = update.previous /\ update.step = "saving"
    BY <1>4 DEF SaveFails
  <2>2. /\ update' \in Update /\ update'.step = "locked" /\ update'.fresh = update.fresh
        /\ update'.goal = update.previous /\ update'.client = update.client
        /\ update'.last = TRUE
    BY <2>1 DEF ManagerTypes, Update, Step
  <2>3. update'.fresh = None
    BY <2>1, <2>2 DEF EngineInv
  <2>4. ManagerTypes'
    BY <1>1, <1>2, <2>1, <2>2 DEF ManagerTypes
  <2>5. UpdateInv'
    BY <1>1, <1>2, <2>1, <2>2 DEF UpdateInv, InnerSteps
  <2>6. PolicyInv'
    BY <2>2 DEF PolicyInv
  <2> QED BY <1>1, <2>1, <2>2, <2>3, <2>4, <2>5, <2>6, QuietStep
<1> QED BY <1>3, <1>4

(* ----------------------- commands that are sent ------------------------ *)

\* The queues as they are, but for who waits for a command.
Thinned(q) ==
  /\ q \in [Engine -> Seq(Command)]
  /\ \A e \in Engine :
       /\ Len(q[e]) = Len(queue[e]) /\ DOMAIN q[e] = DOMAIN queue[e]
       /\ queue[e] = <<>> => q[e] = <<>>
       /\ \A i \in DOMAIN queue[e] :
            /\ q[e][i].op = queue[e][i].op
            /\ queue[e][i].op # "stop" => q[e][i].from \in {Nobody, queue[e][i].from}
            /\ queue[e][i].op = "stop" => q[e][i] = queue[e][i]

\* Nothing in the queue in use is waited for by w.
NoneFrom(q, w) ==
  \A i \in DOMAIN q[inner] : q[inner][i].op # "stop" => q[inner][i].from # w

\* A queue is one of its own thinned forms.
LEMMA QueueThinned ==
  ManagerTypes => Thinned(queue)
BY DEF ManagerTypes, Thinned

\* One that gives up, leaves nothing that it waits for.
LEMMA GivenUpThinned ==
  ASSUME ManagerTypes, QueueInv, NEW w \in Waiter, NEW q \in GivenUp(w)
  PROVE  Thinned(q) /\ (inner # None => NoneFrom(q, w))
<1>1. CASE q = Orphaned(w)
  <2>1. Thinned(q)
    BY <1>1, OrphanedOf DEF Thinned
  <2>2. ASSUME inner # None, NEW i \in DOMAIN q[inner], q[inner][i].op # "stop"
        PROVE  q[inner][i].from # w
    <3>1. inner \in Engine
      BY <2>2 DEF ManagerTypes
    <3>2. i \in DOMAIN queue[inner] /\ queue[inner][i].op # "stop"
      BY <2>1, <2>2, <3>1 DEF Thinned
    <3>3. q[inner][i].from = IF queue[inner][i].from = w THEN Nobody
                             ELSE queue[inner][i].from
      BY <1>1, <3>1, <3>2, OrphanedOf
    <3> QED BY <3>3, WaitersApart
  <2>3. inner # None => NoneFrom(q, w)
    BY <2>2 DEF NoneFrom
  <2> QED BY <2>1, <2>3
<1>2. CASE q = queue /\ answer[w] = "error"
  BY <1>2, QueueThinned DEF QueueInv, SentBy, NoneFrom
<1> QED BY <1>1, <1>2 DEF GivenUp, ManagerTypes, Answer

\* What enqueue does to the queue in use, and to the answers.
LEMMA EnqueueFacts ==
  ASSUME ManagerTypes, QueueInv, NEW q, Thinned(q), inner # None, NEW w \in Waiter,
         NEW command \in Command, Enqueue(q, inner, w, command)
  PROVE  /\ queue' \in [Engine -> Seq(Command)] /\ answer' \in [Waiter -> Answer]
         /\ \A e \in Engine : Len(queue'[e]) <= QueueCapacity
         /\ \A e \in Engine \ {inner} : queue'[e] = q[e]
         /\ \A v \in Waiter \ {w} : answer'[v] = answer[v]
         /\ \/ queue'[inner] = Append(q[inner], command) /\ answer'[w] = "none"
            \/ queue' = q /\ answer'[w] = "error"
<1>1. inner \in Engine /\ q[inner] \in Seq(Command)
  BY DEF ManagerTypes, Thinned
<1>2. \A e \in Engine : Len(q[e]) \in Nat /\ Len(q[e]) <= QueueCapacity
  BY DEF Thinned, QueueInv
<1>3. /\ Append(q[inner], command) \in Seq(Command)
      /\ Len(Append(q[inner], command)) = Len(q[inner]) + 1
  BY <1>1, AppendOf
<1>4. CASE Len(q[inner]) < QueueCapacity
  <2>1. /\ queue' = [q EXCEPT ![inner] = Append(q[inner], command)]
        /\ answer' = [answer EXCEPT ![w] = "none"]
    BY <1>4 DEF Enqueue
  <2>2. /\ queue' \in [Engine -> Seq(Command)]
        /\ queue'[inner] = Append(q[inner], command)
        /\ \A e \in Engine \ {inner} : queue'[e] = q[e]
    BY <1>1, <1>3, <2>1 DEF Thinned
  <2>3. Len(queue'[inner]) <= QueueCapacity
    BY <1>2, <1>3, <1>4, <2>2, <1>1, ManagerAssumption
  <2> QED BY <1>2, <2>1, <2>2, <2>3 DEF ManagerTypes, Answer
<1>5. CASE ~(Len(q[inner]) < QueueCapacity)
  BY <1>2, <1>5 DEF Enqueue, ManagerTypes, Answer, Thinned
<1> QED BY <1>4, <1>5

\* What the updater sends is the last command of the queue, and the only one it waits for.
LEMMA UpdaterSends ==
  ASSUME ManagerTypes, EngineInv, QueueInv, NEW q, Thinned(q), inner # None,
         NoneFrom(q, Updater),
         NEW command \in Command, Enqueue(q, inner, Updater, command),
         At({"locked", "updating"}), \A c \in Client : request[c].at # "sent",
         At({"updating", "flushing", "disabling"})',
         command.op = Op(update'.step), command.op # "stop", command.from = Updater,
         At({"updating"})' => command.policy = update'.goal,
         UNCHANGED <<request, inner, engine>>
  PROVE  QueueInv'
<1> USE WaitersApart
<1>1. /\ queue' \in [Engine -> Seq(Command)] /\ answer' \in [Waiter -> Answer]
      /\ \A e \in Engine : Len(queue'[e]) <= QueueCapacity
      /\ \A e \in Engine \ {inner} : queue'[e] = q[e]
      /\ \A v \in Waiter \ {Updater} : answer'[v] = answer[v]
      /\ \/ queue'[inner] = Append(q[inner], command) /\ answer'[Updater] = "none"
         \/ queue' = q /\ answer'[Updater] = "error"
  BY EnqueueFacts
<1>2. inner \in Engine /\ q[inner] \in Seq(Command) /\ Running(inner)
  BY DEF ManagerTypes, Thinned, EngineInv, At
<1>3. /\ Len(q[inner]) \in Nat /\ DOMAIN q[inner] = 1..Len(q[inner])
      /\ DOMAIN Append(q[inner], command) = 1..(Len(q[inner]) + 1)
      /\ Len(Append(q[inner], command)) = Len(q[inner]) + 1
      /\ \A i \in 1..Len(q[inner]) : Append(q[inner], command)[i] = q[inner][i]
      /\ Append(q[inner], command)[Len(q[inner]) + 1] = command
      /\ Append(q[inner], command) # <<>>
  BY <1>2, AppendOf
<1>4. \A i \in DOMAIN q[inner], w \in Waiter : q[inner][i].op # "stop" => q[inner][i].from # w
  <2> SUFFICES ASSUME NEW i \in DOMAIN q[inner], NEW w \in Waiter,
                      q[inner][i].op # "stop", q[inner][i].from = w, w # Updater
               PROVE  FALSE
    BY DEF NoneFrom
  <2>1. i \in DOMAIN queue[inner] /\ queue[inner][i].op # "stop" /\ queue[inner][i].from = w
    BY <1>2 DEF Thinned
  <2>2. Waits(w)
    BY <2>1 DEF QueueInv, SentBy
  <2> QED BY <2>2 DEF Waits, Waiter
<1>5. \A i \in DOMAIN q[inner] : q[inner][i].op # "stop"
  BY <1>2 DEF Thinned, QueueInv, At
<1>6. \A e \in Engine : e # inner \/ engine[e] = Absent => q[e] = <<>>
  BY DEF Thinned, QueueInv
<1>7. ~(engine[inner] = Absent)
  BY <1>2 DEF Running, Absent
<1>8. CASE queue'[inner] = Append(q[inner], command) /\ answer'[Updater] = "none"
  <2>1. \A i \in DOMAIN queue'[inner] :
          /\ queue'[inner][i].op # "stop"
          /\ \A w \in Waiter : queue'[inner][i].from = w =>
                             w = Updater /\ i = Len(queue'[inner])
    BY <1>3, <1>4, <1>5, <1>8
  <2>2. queue'[inner] # <<>> /\ queue'[inner][Len(queue'[inner])] = command
    BY <1>3, <1>8
  <2>3. \A w \in Waiter, i \in DOMAIN queue'[inner] :
          SentBy(i, w)' => w = Updater /\ i = Len(queue'[inner])
    BY <2>1 DEF SentBy
  <2>4. Waits(Updater)' /\ answer'[Updater] = "none"
    BY <1>8 DEF Waits, At
  <2>5. \A w \in Waiter, i \in DOMAIN queue'[inner] :
          SentBy(i, w)' => Waits(w)' /\ answer'[w] = "none"
    BY <2>3, <2>4
  <2>6. \A e \in Engine : e # inner \/ engine[e] = Absent => queue'[e] = <<>>
    BY <1>1, <1>6, <1>7
  <2>7. At({"updating"})' => queue'[inner][Len(queue'[inner])].policy = update'.goal
    BY <2>2
  <2>8. ~At({"stopping"})' /\ ~At({"starting", "restored"})'
    BY DEF At
  <2> HIDE DEF Op, Waits, At, SentBy
  <2> QED BY <1>1, <2>1, <2>2, <2>3, <2>4, <2>5, <2>6, <2>7, <2>8 DEF QueueInv
<1>9. CASE queue' = q /\ answer'[Updater] = "error"
  BY <1>1, <1>4, <1>5, <1>6, <1>9 DEF QueueInv, SentBy, Waits, At, Running
<1> QED BY <1>1, <1>8, <1>9

\* The update comes to another step, and changes in nothing else.
LEMMA GoFacts ==
  ASSUME ManagerTypes, NEW step \in Step, update' = [update EXCEPT !.step = step]
  PROVE  /\ update' \in Update /\ update'.step = step
         /\ update'.client = update.client /\ update'.goal = update.goal
         /\ update'.previous = update.previous /\ update'.last = update.last
         /\ update'.fresh = update.fresh
BY DEF ManagerTypes, Update

\* The invariant after the updater has sent a command.
LEMMA SendingKeepsInv ==
  ASSUME ManagerInv, NEW q, Thinned(q), inner # None, NoneFrom(q, Updater),
         NEW command \in Command, Enqueue(q, inner, Updater, command),
         At({"locked", "updating"}), \A c \in Client : request[c].at # "sent",
         NEW step \in {"updating", "flushing", "disabling"}, Go(step),
         command.op = Op(step), command.op # "stop", command.from = Updater,
         step = "updating" => command.policy = update.goal,
         step = "disabling" <=> update.goal.mode = "off",
         UNCHANGED <<policy, file, request, inner, engine, stateFile, hooked, promised>>
  PROVE  ManagerInv'
<1> USE DEF ManagerInv
<1>1. step \in Step
  BY DEF Step
<1>2. /\ update' \in Update /\ update'.step = step
      /\ update'.client = update.client /\ update'.goal = update.goal
      /\ update'.previous = update.previous /\ update'.last = update.last
      /\ update'.fresh = update.fresh
  BY <1>1, GoFacts DEF Go
<1>3. queue' \in [Engine -> Seq(Command)] /\ answer' \in [Waiter -> Answer]
      /\ answer'[Updater] # "ok"
  BY EnqueueFacts, WaitersApart
<1>4. update.fresh = None
  BY DEF EngineInv, At
<1>5. ManagerTypes'
  BY <1>2, <1>3 DEF ManagerTypes
<1>6. UpdateInv'
  BY <1>2 DEF UpdateInv, At
<1>7. EngineInv'
  BY <1>2, <1>4 DEF EngineInv, At, Running
<1>8. QueueInv'
  <2> HIDE DEF Op
  <2>1. /\ At({"updating", "flushing", "disabling"})'
        /\ command.op = Op(update'.step)
        /\ At({"updating"})' => command.policy = update'.goal
    BY <1>2 DEF At
  <2> QED BY <2>1, UpdaterSends
<1>9. PolicyInv'
  BY <1>2, <1>3 DEF PolicyInv, At
<1>10. PromiseInv'
  BY <1>2, <1>3, <1>4 DEF PromiseInv, Flushing, At, Running
<1> QED BY <1>5, <1>6, <1>7, <1>8, <1>9, <1>10

\* inner is locked.
LEMMA EnterKeepsInv ==
  ASSUME ManagerInv, Enter PROVE ManagerInv'
<1>1. /\ UNCHANGED <<policy, file, request, inner, engine, stateFile, hooked, promised>>
      /\ update.step = "locked" /\ At({"locked", "updating"}) /\ ~At({"free"})
      /\ \A c \in Client : request[c].at # "sent"
  BY DEF Enter, At
<1>2. ManagerTypes /\ Thinned(queue) /\ update.goal \in Policy
  BY <1>1, QueueThinned DEF ManagerInv, UpdateInv
<1>3. ASSUME inner # None PROVE NoneFrom(queue, Updater)
  BY <1>1, <1>3, WaitersApart DEF NoneFrom, ManagerInv, QueueInv, SentBy, Waits, At
<1>4. CASE inner # None /\ update.goal.mode # "off"
  <2> DEFINE command == [op |-> "update", policy |-> update.goal, from |-> Updater]
  <2>1. Enqueue(queue, inner, Updater, command) /\ Go("updating")
    BY <1>4 DEF Enter
  <2>2. /\ command \in Command /\ command.op = Op("updating") /\ command.op # "stop"
        /\ command.from = Updater /\ command.policy = update.goal
    BY <1>2 DEF Command, Op
  <2> HIDE DEF command
  <2> QED BY <1>1, <1>2, <1>3, <1>4, <2>1, <2>2, SendingKeepsInv
<1>5. CASE inner # None /\ update.goal.mode = "off"
  <2> DEFINE command == [op |-> "disable", from |-> Updater]
  <2>1. Enqueue(queue, inner, Updater, command) /\ Go("disabling")
    BY <1>5 DEF Enter
  <2>2. /\ command \in Command /\ command.op = Op("disabling") /\ command.op # "stop"
        /\ command.from = Updater
    BY DEF Command, Op
  <2> HIDE DEF command
  <2> QED BY <1>1, <1>2, <1>3, <1>5, <2>1, <2>2, SendingKeepsInv
<1>6. CASE inner = None
  <2> USE DEF ManagerInv
  <2>1. PICK step \in {"applied", "starting"} :
          /\ update' = [update EXCEPT !.step = step]
          /\ step = "applied" <=> update.goal.mode = "off"
          /\ UNCHANGED <<queue, answer>>
    BY <1>6 DEF Enter, Go
  <2>2. /\ update' \in Update /\ update'.step = step
        /\ update'.client = update.client /\ update'.goal = update.goal
        /\ update'.previous = update.previous /\ update'.last = update.last
        /\ update'.fresh = update.fresh
    BY <2>1, GoFacts DEF Step
  <2>3. update.fresh = None
    BY <1>1 DEF EngineInv, At
  <2>4. ManagerTypes'
    BY <1>1, <2>1, <2>2 DEF ManagerTypes
  <2>5. UpdateInv'
    BY <1>1, <2>1, <2>2 DEF UpdateInv, At
  <2>6. EngineInv'
    BY <1>1, <1>6, <2>2, <2>3 DEF EngineInv, At, Running
  <2>7. QueueInv'
    BY <1>1, <1>6, <2>1, <2>2 DEF QueueInv, At, Waits
  <2>8. PolicyInv'
    BY <1>1, <1>6, <2>1, <2>2 DEF PolicyInv, InForce, At
  <2>9. PromiseInv'
    BY <1>1, <1>6, <2>2, <2>3 DEF PromiseInv
  <2> QED BY <2>4, <2>5, <2>6, <2>7, <2>8, <2>9
<1> QED BY <1>4, <1>5, <1>6 DEF Enter

\* An engine that has not taken the update is told to flush.
LEMMA UpdateRefusedKeepsInv ==
  ASSUME ManagerInv, UpdateRefused PROVE ManagerInv'
<1> DEFINE command == [op |-> "flush", from |-> Updater]
<1>1. /\ update.step = "updating" /\ At({"locked", "updating"})
      /\ UNCHANGED <<policy, file, request, inner, engine, stateFile, hooked, promised>>
      /\ Go("flushing")
  BY DEF UpdateRefused, At
<1>2. PICK q \in GivenUp(Updater) : Enqueue(q, inner, Updater, command)
  BY DEF UpdateRefused
<1>3. /\ inner # None /\ update.goal.mode # "off"
      /\ \A c \in Client : request[c].at # "sent"
  BY <1>1 DEF ManagerInv, UpdateInv, At, InnerSteps
<1>4. Thinned(q) /\ NoneFrom(q, Updater)
  BY <1>3, GivenUpThinned, WaitersApart DEF ManagerInv
<1>5. /\ command \in Command /\ command.op = Op("flushing") /\ command.op # "stop"
      /\ command.from = Updater
  BY DEF Command, Op
<1> HIDE DEF command
<1> QED BY <1>1, <1>2, <1>3, <1>4, <1>5, SendingKeepsInv

\* What the updater has heard.
LEMMA HeardFacts ==
  ASSUME ManagerTypes, NEW w \in Waiter, Heard(w)
  PROVE  /\ answer' \in [Waiter -> Answer] /\ answer'[w] = "none"
         /\ \A v \in Waiter \ {w} : answer'[v] = answer[v]
BY DEF ManagerTypes, Heard, Answer

\* The answer has come: the queue is empty, and the update goes on.
LEMMA AnswersKeepInv ==
  ASSUME ManagerInv, Updated \/ Flushed PROVE ManagerInv'
<1> USE DEF ManagerInv
<1> DEFINE step == IF update.step = "updating" THEN "applied" ELSE "starting"
<1>1. /\ update.step \in {"updating", "flushing"} /\ answer[Updater] = "ok"
      /\ UNCHANGED <<policy, file, request, inner, engine, queue, stateFile, hooked, promised>>
      /\ Heard(Updater) /\ update' = [update EXCEPT !.step = step]
  BY DEF Updated, Flushed, Go, engineVars
<1>2. /\ update' \in Update /\ update'.step = step
      /\ update'.client = update.client /\ update'.goal = update.goal
      /\ update'.previous = update.previous /\ update'.last = update.last
      /\ update'.fresh = update.fresh
  BY <1>1, GoFacts DEF Step
<1>3. /\ answer' \in [Waiter -> Answer] /\ answer'[Updater] = "none"
      /\ \A v \in Waiter \ {Updater} : answer'[v] = answer[v]
  BY <1>1, HeardFacts, WaitersApart
<1>4. update.fresh = None /\ inner \in Engine /\ Running(inner) /\ queue[inner] = <<>>
  BY <1>1, WaitersApart DEF EngineInv, UpdateInv, QueueInv, At, Waits, ManagerTypes
<1>5. ManagerTypes'
  BY <1>1, <1>2, <1>3 DEF ManagerTypes
<1>6. UpdateInv'
  BY <1>1, <1>2 DEF UpdateInv, At, InnerSteps
<1>7. EngineInv'
  BY <1>1, <1>2, <1>4 DEF EngineInv, At, Running
<1>8. QueueInv'
  BY <1>1, <1>2, <1>4, WaitersApart DEF QueueInv, SentBy, At, Waits
<1>9. PolicyInv'
  BY <1>1, <1>2, <1>4, WaitersApart DEF PolicyInv, UpdateInv, InForce, At
<1>10. PromiseInv'
  BY <1>1, <1>2, <1>4, WaitersApart DEF PromiseInv, Flushing, At, Running
<1> QED BY <1>5, <1>6, <1>7, <1>8, <1>9, <1>10

\* No answer has come: the request fails, and its command is left in the queue.
LEMMA GiveUpKeepsInv ==
  ASSUME ManagerInv, GiveUp PROVE ManagerInv'
<1> USE DEF ManagerInv
<1>1. /\ update.step \in {"flushing", "disabling"} /\ queue' \in GivenUp(Updater)
      /\ UNCHANGED <<policy, file, inner, engine, stateFile, hooked, promised>>
      /\ Heard(Updater) /\ Finish
  BY DEF GiveUp
<1>2. /\ update' = Free /\ Free \in Update
      /\ request' \in [Client -> Request]
      /\ \A c \in Client : request'[c].at = "sent" <=> request[c].at = "sent"
  BY <1>1, FinishFacts
<1>3. Free.step = "free" /\ Free.client = None /\ Free.fresh = None
  BY DEF Free
<1>4. /\ answer' \in [Waiter -> Answer] /\ answer'[Updater] = "none"
      /\ \A v \in Waiter \ {Updater} : answer'[v] = answer[v]
  BY <1>1, HeardFacts, WaitersApart
<1>5. /\ update.fresh = None /\ inner # None /\ inner \in Engine
      /\ Running(inner)
      /\ \A c \in Client : request[c].at # "sent"
  BY <1>1 DEF EngineInv, UpdateInv, At, InnerSteps, ManagerTypes
<1>6. Thinned(queue') /\ NoneFrom(queue', Updater)
  BY <1>1, <1>5, GivenUpThinned, WaitersApart
<1>7. ManagerTypes'
  BY <1>1, <1>2, <1>4, <1>6 DEF ManagerTypes, Thinned
<1>8. UpdateInv'
  BY <1>2, <1>3 DEF UpdateInv, At, InnerSteps
<1>9. EngineInv'
  BY <1>1, <1>2, <1>3, <1>5 DEF EngineInv, At, Running
<1>10. QueueInv'
  <2>1. \A w \in Waiter, i \in DOMAIN queue'[inner] : ~SentBy(i, w)'
    <3> SUFFICES ASSUME NEW w \in Waiter, NEW i \in DOMAIN queue'[inner],
                        queue'[inner][i].op # "stop", queue'[inner][i].from = w
                 PROVE  FALSE
      BY <1>1 DEF SentBy
    <3>1. w # Updater
      BY <1>6 DEF NoneFrom
    <3>2. SentBy(i, w)
      BY <1>5, <1>6, WaitersApart DEF Thinned, SentBy
    <3>3. request[w].at = "sent" /\ w \in Client
      BY <1>5, <3>1, <3>2 DEF QueueInv, Waits, Waiter, SentBy
    <3> QED BY <1>5, <3>3
  <2>2. \A i \in DOMAIN queue'[inner] : queue'[inner][i].op # "stop"
    BY <1>1, <1>5, <1>6 DEF Thinned, QueueInv, At
  <2>3. \A e \in Engine : /\ Len(queue'[e]) <= QueueCapacity
                          /\ e # inner \/ engine[e] = Absent => queue'[e] = <<>>
    BY <1>6 DEF Thinned, QueueInv
  <2>4. ~Waits(Updater)'
    BY <1>2, <1>3 DEF Waits, At
  <2>5. Client \subseteq Waiter /\ Updater \in Waiter
    BY WaitersApart
  <2>6. update'.step = "free"
    BY <1>2, <1>3
  <2> HIDE DEF SentBy, Waits, ManagerInv
  <2> QED BY <1>1, <2>1, <2>2, <2>3, <2>4, <2>5, <2>6 DEF QueueInv, At
<1>11. PolicyInv'
  BY <1>2, <1>3 DEF PolicyInv, At
<1>12. PromiseInv'
  BY <1>1, <1>2, <1>3, <1>5 DEF PromiseInv, Flushing, At, Running
<1> QED BY <1>7, <1>8, <1>9, <1>10, <1>11, <1>12

\* What the drop of an engine leaves in its queue: it was empty.
LEMMA StopFacts ==
  ASSUME ManagerTypes, inner # None, queue[inner] = <<>>, SendStop(inner)
  PROVE  /\ queue' \in [Engine -> Seq(Command)]
         /\ queue'[inner] = <<[op |-> "stop"]>>
         /\ Len(queue'[inner]) = 1 /\ DOMAIN queue'[inner] = {1}
         /\ queue'[inner][1].op = "stop"
         /\ \A e \in Engine \ {inner} : queue'[e] = queue[e]
<1> DEFINE stop == [op |-> "stop"]
<1>1. stop \in Command /\ stop.op = "stop"
  BY DEF Command
<1> HIDE DEF stop
<1>2. queue' = [queue EXCEPT ![inner] = <<stop>>]
  BY DEF SendStop, stop
<1>3. <<stop>> \in Seq(Command) /\ Len(<<stop>>) = 1 /\ <<stop>>[1] = stop
      /\ DOMAIN <<stop>> = {1}
  BY <1>1
<1> HIDE DEF Command
<1> QED BY <1>1, <1>2, <1>3 DEF ManagerTypes, stop

\* The engine is disabled, and is told to stop.
LEMMA DisabledKeepsInv ==
  ASSUME ManagerInv, Disabled PROVE ManagerInv'
<1> USE DEF ManagerInv
<1>1. /\ update.step = "disabling" /\ answer[Updater] = "ok"
      /\ UNCHANGED <<policy, file, request, inner, engine, stateFile, hooked, promised>>
      /\ Heard(Updater) /\ update' = [update EXCEPT !.step = "stopping"] /\ SendStop(inner)
  BY DEF Disabled, Go
<1>2. /\ update' \in Update /\ update'.step = "stopping"
      /\ update'.client = update.client /\ update'.goal = update.goal
      /\ update'.previous = update.previous /\ update'.last = update.last
      /\ update'.fresh = update.fresh
  BY <1>1, GoFacts DEF Step
<1>3. /\ answer' \in [Waiter -> Answer] /\ answer'[Updater] = "none"
      /\ \A v \in Waiter \ {Updater} : answer'[v] = answer[v]
  BY <1>1, HeardFacts, WaitersApart
<1>4. update.fresh = None /\ inner \in Engine /\ Running(inner) /\ queue[inner] = <<>>
      /\ inner # None
  BY <1>1, WaitersApart DEF EngineInv, UpdateInv, QueueInv, At, Waits, ManagerTypes
<1>5. /\ queue' \in [Engine -> Seq(Command)]
      /\ queue'[inner] = <<[op |-> "stop"]>>
      /\ Len(queue'[inner]) = 1 /\ DOMAIN queue'[inner] = {1}
      /\ queue'[inner][1].op = "stop"
      /\ \A e \in Engine \ {inner} : queue'[e] = queue[e]
  BY <1>1, <1>4, StopFacts
<1>6. ManagerTypes'
  BY <1>1, <1>2, <1>3, <1>5 DEF ManagerTypes
<1>7. UpdateInv'
  BY <1>1, <1>2, <1>4 DEF UpdateInv, At, InnerSteps
<1>8. EngineInv'
  BY <1>1, <1>2, <1>4 DEF EngineInv, At, Running
<1>9. QueueInv'
  <2>1. engine[inner] # Absent
    BY <1>4 DEF Running, Absent
  <2>2. \A e \in Engine : /\ Len(queue'[e]) <= QueueCapacity
                          /\ e # inner \/ engine[e] = Absent => queue'[e] = <<>>
    <3>1. 1 <= QueueCapacity
      BY ManagerAssumption
    <3> QED BY <1>5, <2>1, <3>1 DEF QueueInv
  <2>3. \A w \in Waiter, i \in DOMAIN queue'[inner] : ~SentBy(i, w)'
    BY <1>1, <1>5 DEF SentBy
  <2>4. ~Waits(Updater)' /\ update'.step = "stopping"
    BY <1>2 DEF Waits, At
  <2>5. Client \subseteq Waiter /\ Updater \in Waiter
    BY WaitersApart
  <2> HIDE DEF SentBy, Waits, ManagerInv
  <2> QED BY <1>1, <1>5, <2>1, <2>2, <2>3, <2>4, <2>5 DEF QueueInv, At
<1>10. PolicyInv'
  BY <1>2 DEF PolicyInv, At
<1>11. PromiseInv'
  BY <1>1, <1>2, <1>4 DEF PromiseInv, Flushing, At, Running
<1> QED BY <1>6, <1>7, <1>8, <1>9, <1>10, <1>11

(* ----------------------- engines come and go --------------------------- *)

\* The state of one engine is replaced.
LEMMA EngineMoves ==
  ASSUME ManagerTypes, NEW e \in Engine, NEW state \in EngineState,
         engine' = [engine EXCEPT ![e] = state]
  PROVE  /\ engine' \in [Engine -> EngineState] /\ engine'[e] = state
         /\ \A d \in Engine \ {e} : engine'[d] = engine[d]
BY DEF ManagerTypes

\* An engine is started on the bans of the file.
LEMMA LoadKeepsInv ==
  ASSUME ManagerInv, NEW e \in Engine, Load(e) PROVE ManagerInv'
<1> USE DEF ManagerInv
<1> DEFINE fresh == [state |-> "starting", policy |-> update.goal,
                     bans |-> stateFile, dirty |-> FALSE]
<1>1. /\ update.step = "starting" /\ engine[e] = Absent
      /\ engine' = [engine EXCEPT ![e] = fresh]
      /\ update' = [update EXCEPT !.step = "restored", !.fresh = e]
      /\ UNCHANGED <<policy, file, request, inner, queue, stateFile, answer, promised>>
  BY DEF Load
<1>2. /\ update' \in Update /\ update'.step = "restored"
      /\ update'.client = update.client /\ update'.goal = update.goal
      /\ update'.previous = update.previous /\ update'.last = update.last
      /\ update'.fresh = e
  BY <1>1 DEF ManagerTypes, Update, Step
<1>3. update.goal \in Policy
  BY <1>1 DEF UpdateInv, At
<1>4. /\ fresh \in EngineState /\ fresh.state = "starting" /\ fresh.policy = update.goal
      /\ fresh.bans = stateFile /\ fresh # Absent
  BY <1>3 DEF EngineState, ManagerTypes, Absent
<1> HIDE DEF fresh
<1>5. /\ engine' \in [Engine -> EngineState] /\ engine'[e] = fresh
      /\ \A d \in Engine \ {e} : engine'[d] = engine[d]
  BY <1>1, <1>4, EngineMoves
<1>6. /\ e # inner /\ e # None /\ update.fresh = None
      /\ inner # None => Running(inner) /\ inner \in Engine
  BY <1>1, WaitersApart DEF EngineInv, At, Running, Absent, ManagerTypes
<1>7. ManagerTypes'
  BY <1>1, <1>2, <1>5 DEF ManagerTypes
<1>8. UpdateInv'
  BY <1>1, <1>2, <1>6 DEF UpdateInv, At, InnerSteps
<1>9. EngineInv'
  <2>1. \A d \in Engine :
          /\ engine'[d].state = "absent" => engine'[d] = Absent
          /\ engine'[d] # Absent => d = inner' \/ d = update'.fresh
    BY <1>1, <1>2, <1>4, <1>5, <1>6, WaitersApart DEF EngineInv
  <2>2. inner' # None => Running(inner)'
    BY <1>1, <1>5, <1>6 DEF Running
  <2>3. update'.fresh # inner' /\ At({"restored"})' /\ engine'[update'.fresh] = fresh
    BY <1>1, <1>2, <1>5, <1>6 DEF At
  <2> QED BY <1>2, <1>4, <2>1, <2>2, <2>3 DEF EngineInv
<1>10. QueueInv'
  <2>1. \A w \in Waiter : ~At({"stopping"}) /\ (Waits(w)' <=> Waits(w))
    BY <1>1, <1>2 DEF Waits, At
  <2>2. \A w, i : SentBy(i, w)' <=> SentBy(i, w)
    BY <1>1 DEF SentBy
  <2>3. ~At({"stopping"})' /\ ~At({"stopping"}) /\ At({"starting", "restored"})
    BY <1>1, <1>2 DEF At
  <2>4. Client \subseteq Waiter /\ Updater \in Waiter
    BY WaitersApart
  <2>5. ~Waits(Updater)
    BY <1>1 DEF Waits, At
  <2> HIDE DEF SentBy, Waits, At, ManagerInv
  <2>6. QueueInv
    BY DEF ManagerInv
  <2> QED BY <1>1, <1>5, <1>6, <2>1, <2>2, <2>3, <2>4, <2>5, <2>6 DEF QueueInv
<1>11. PolicyInv'
  BY <1>2 DEF PolicyInv, At
<1>12. PromiseInv'
  BY <1>1, <1>2, <1>4, <1>5, <1>6 DEF PromiseInv, Flushing, At, Running
<1> QED BY <1>7, <1>8, <1>9, <1>10, <1>11, <1>12

\* An engine that could not be started is dropped, and the request fails.
LEMMA LaunchFailsKeepsInv ==
  ASSUME ManagerInv, LaunchFails PROVE ManagerInv'
<1> USE DEF ManagerInv
<1> DEFINE e == update.fresh
<1>1. /\ update.step = "restored" /\ Finish
      /\ engine' = [engine EXCEPT ![e] = Absent]
      /\ UNCHANGED <<policy, file, inner, queue, stateFile, answer, promised>>
  BY DEF LaunchFails
<1>2. /\ update' = Free /\ Free \in Update
      /\ request' \in [Client -> Request]
      /\ \A c \in Client : request'[c].at = "sent" <=> request[c].at = "sent"
  BY <1>1, FinishFacts
<1>3. Free.step = "free" /\ Free.client = None /\ Free.fresh = None
  BY DEF Free
<1>4. /\ e \in Engine /\ e # inner
      /\ inner # None => Running(inner) /\ inner \in Engine
  BY <1>1 DEF EngineInv, UpdateInv, At, ManagerTypes, Update
<1>5. Absent \in EngineState /\ Absent.state = "absent"
  BY DEF Absent, EngineState
<1>6. /\ engine' \in [Engine -> EngineState] /\ engine'[e] = Absent
      /\ \A d \in Engine \ {e} : engine'[d] = engine[d]
  BY <1>1, <1>4, <1>5, EngineMoves
<1>7. ManagerTypes'
  BY <1>1, <1>2, <1>6 DEF ManagerTypes
<1>8. UpdateInv'
  BY <1>2, <1>3 DEF UpdateInv, At, InnerSteps
<1>9. EngineInv'
  BY <1>1, <1>2, <1>3, <1>4, <1>5, <1>6 DEF EngineInv, At, Running
<1>10. QueueInv'
  <2>1. \A w \in Waiter : Waits(w)' <=> Waits(w)
    BY <1>1, <1>2, <1>3 DEF Waits, At, Waiter
  <2>2. \A w, i : SentBy(i, w)' <=> SentBy(i, w)
    BY <1>1 DEF SentBy
  <2>3. /\ ~At({"stopping"})' /\ ~At({"stopping"}) /\ ~At({"starting", "restored"})'
        /\ ~Waits(Updater)
    BY <1>1, <1>2, <1>3 DEF At, Waits
  <2>4. Client \subseteq Waiter /\ Updater \in Waiter
    BY WaitersApart
  <2>5. QueueInv
    OBVIOUS
  <2> HIDE DEF SentBy, Waits, At, ManagerInv
  <2> QED BY <1>1, <1>4, <1>6, <2>1, <2>2, <2>3, <2>4, <2>5 DEF QueueInv
<1>11. PolicyInv'
  BY <1>2, <1>3 DEF PolicyInv, At
<1>12. PromiseInv'
  BY <1>1, <1>2, <1>3, <1>4, <1>6 DEF PromiseInv, Flushing, At, Running
<1> QED BY <1>7, <1>8, <1>9, <1>10, <1>11, <1>12

\* The thread of the new engine runs.
LEMMA LaunchKeepsInv ==
  ASSUME ManagerInv, Launch PROVE ManagerInv'
<1> USE DEF ManagerInv
<1> DEFINE e == update.fresh
           exempt == engine[e].bans \cap update.goal.allowed
<1>1. PICK lifted \in SUBSET exempt, saved \in BOOLEAN :
        /\ engine' = [engine EXCEPT ![e].state = "running", ![e].bans = @ \ lifted]
        /\ stateFile' = IF saved THEN engine[e].bans \ lifted ELSE stateFile
  BY DEF Launch
<1>2. /\ update.step = "restored" /\ promised' = promised \ update.goal.allowed
      /\ UNCHANGED <<policy, file, request, answer>>
  BY DEF Launch
<1>3. /\ e \in Engine /\ e # inner /\ e # None
      /\ engine[e].state = "starting" /\ engine[e].policy = update.goal
      /\ inner # None => Running(inner) /\ inner \in Engine /\ queue[inner] = <<>>
      /\ queue[e] = <<>>
  BY <1>2, WaitersApart DEF EngineInv, UpdateInv, QueueInv, At, ManagerTypes, Update
<1>4. update.goal \in Policy /\ update.goal.mode # "off"
  BY <1>2 DEF UpdateInv, At
<1> DEFINE state == [engine[e] EXCEPT !.state = "running", !.bans = @ \ lifted]
<1>5. /\ state \in EngineState /\ state.state = "running" /\ state.policy = update.goal
      /\ state.bans = engine[e].bans \ lifted
      /\ engine' = [engine EXCEPT ![e] = state]
  <2>1. engine[e] \in EngineState
    BY <1>3 DEF ManagerTypes
  <2>2. engine' = [engine EXCEPT ![e] = state]
    BY <1>1, <1>3 DEF ManagerTypes
  <2> QED BY <1>3, <2>1, <2>2 DEF EngineState
<1> HIDE DEF state
<1>6. /\ engine' \in [Engine -> EngineState] /\ engine'[e] = state
      /\ \A d \in Engine \ {e} : engine'[d] = engine[d]
  BY <1>3, <1>5, EngineMoves
<1>7. stateFile' \subseteq Net /\ promised' \subseteq Net
  BY <1>1, <1>2, <1>3 DEF ManagerTypes, EngineState
<1>8. /\ promised' \subseteq state.bans /\ promised' \subseteq stateFile'
      /\ promised' \subseteq promised
  BY <1>1, <1>2, <1>3, <1>5 DEF PromiseInv, Flushing, At
<1>9. CASE inner = None
  <2>1. /\ inner' = e /\ update' = [update EXCEPT !.step = "applied", !.fresh = None]
        /\ UNCHANGED queue
    BY <1>9 DEF Launch
  <2>2. /\ update' \in Update /\ update'.step = "applied"
        /\ update'.client = update.client /\ update'.goal = update.goal
        /\ update'.previous = update.previous /\ update'.last = update.last
        /\ update'.fresh = None
    BY <2>1 DEF ManagerTypes, Update, Step
  <2>3. ManagerTypes'
    BY <1>2, <1>3, <1>6, <1>7, <2>1, <2>2 DEF ManagerTypes
  <2>4. UpdateInv'
    BY <1>2, <1>3, <2>1, <2>2 DEF UpdateInv, At, InnerSteps
  <2>5. EngineInv'
    BY <1>3, <1>5, <1>6, <1>9, <2>1, <2>2 DEF EngineInv, At, Running
  <2>6. QueueInv'
    <3>1. \A d \in Engine : /\ Len(queue'[d]) <= QueueCapacity
                            /\ queue'[d] = <<>>
      BY <1>3, <1>9, <2>1, WaitersApart DEF QueueInv
    <3>2. \A i : i \notin DOMAIN queue'[e]
      BY <1>3, <2>1
    <3>3. ~Waits(Updater)' /\ update'.step = "applied"
      BY <2>2 DEF Waits, At
    <3>4. Client \subseteq Waiter /\ Updater \in Waiter
      BY WaitersApart
    <3> HIDE DEF Waits, ManagerInv
    <3> QED BY <1>3, <2>1, <3>1, <3>2, <3>3, <3>4 DEF QueueInv, SentBy, At
  <2>7. PolicyInv'
    BY <1>3, <1>4, <1>5, <1>6, <2>1, <2>2 DEF PolicyInv, InForce, At
  <2>8. PromiseInv'
    BY <1>3, <1>6, <1>8, <2>1, <2>2 DEF PromiseInv
  <2> QED BY <2>3, <2>4, <2>5, <2>6, <2>7, <2>8
<1>10. CASE inner # None
  <2>1. /\ SendStop(inner) /\ update' = [update EXCEPT !.step = "stopping"]
        /\ UNCHANGED inner
    BY <1>10 DEF Launch, Go
  <2>2. /\ update' \in Update /\ update'.step = "stopping"
        /\ update'.client = update.client /\ update'.goal = update.goal
        /\ update'.previous = update.previous /\ update'.last = update.last
        /\ update'.fresh = e
    BY <2>1, GoFacts DEF Step
  <2>3. /\ queue' \in [Engine -> Seq(Command)]
        /\ queue'[inner] = <<[op |-> "stop"]>>
        /\ Len(queue'[inner]) = 1 /\ DOMAIN queue'[inner] = {1}
        /\ queue'[inner][1].op = "stop"
        /\ \A d \in Engine \ {inner} : queue'[d] = queue[d]
    BY <1>3, <1>10, <2>1, StopFacts
  <2>4. ManagerTypes'
    BY <1>2, <1>6, <1>7, <2>1, <2>2, <2>3 DEF ManagerTypes
  <2>5. UpdateInv'
    BY <1>2, <1>3, <1>4, <2>1, <2>2, <1>10 DEF UpdateInv, At, InnerSteps
  <2>6. EngineInv'
    BY <1>3, <1>5, <1>6, <1>10, <2>1, <2>2 DEF EngineInv, At, Running
  <2>7. QueueInv'
    <3>1. engine'[inner] # Absent /\ inner \in Engine
      BY <1>3, <1>6, <1>10 DEF Running, Absent
    <3>2. \A d \in Engine : /\ Len(queue'[d]) <= QueueCapacity
                            /\ d # inner \/ engine'[d] = Absent => queue'[d] = <<>>
      <4>1. 1 <= QueueCapacity
        BY ManagerAssumption
      <4> QED BY <1>3, <2>3, <3>1, <4>1 DEF QueueInv
    <3>3. \A w \in Waiter, i \in DOMAIN queue'[inner] : ~SentBy(i, w)'
      BY <2>1, <2>3 DEF SentBy
    <3>4. ~Waits(Updater)' /\ update'.step = "stopping"
      BY <2>2 DEF Waits, At
    <3>5. Client \subseteq Waiter /\ Updater \in Waiter
      BY WaitersApart
    <3> HIDE DEF SentBy, Waits, ManagerInv
    <3> QED BY <2>1, <2>3, <3>1, <3>2, <3>3, <3>4, <3>5 DEF QueueInv, At
  <2>8. PolicyInv'
    BY <2>2 DEF PolicyInv, At
  <2>9. PromiseInv'
    BY <1>3, <1>6, <1>8, <1>10, <2>1, <2>2 DEF PromiseInv, Running
  <2> QED BY <2>4, <2>5, <2>6, <2>7, <2>8, <2>9
<1> QED BY <1>9, <1>10

\* The engine that was dropped has ended, and the new one is in use, or none.
LEMMA JoinedKeepsInv ==
  ASSUME ManagerInv, Joined PROVE ManagerInv'
<1> USE DEF ManagerInv
<1>1. /\ update.step = "stopping" /\ engine[inner] = Absent /\ inner' = update.fresh
      /\ update' = [update EXCEPT !.step = "applied", !.fresh = None]
      /\ UNCHANGED <<policy, file, request, engine, queue, stateFile, answer, promised>>
  BY DEF Joined, engineVars
<1>2. /\ update' \in Update /\ update'.step = "applied"
      /\ update'.client = update.client /\ update'.goal = update.goal
      /\ update'.previous = update.previous /\ update'.last = update.last
      /\ update'.fresh = None
  BY <1>1 DEF ManagerTypes, Update, Step
<1>3. /\ inner # None /\ inner \in Engine /\ update.fresh # inner
      /\ update.fresh \in Engine \cup {None}
      /\ update.fresh = None <=> update.goal.mode = "off"
      /\ update.fresh # None => /\ Running(update.fresh)
                                /\ engine[update.fresh].policy = update.goal
                                /\ queue[update.fresh] = <<>>
      /\ ~engine[inner].dirty
  BY <1>1 DEF UpdateInv, EngineInv, QueueInv, At, ManagerTypes, Update, Absent
<1>4. ManagerTypes'
  BY <1>1, <1>2, <1>3 DEF ManagerTypes
<1>5. UpdateInv'
  BY <1>1, <1>2 DEF UpdateInv, At, InnerSteps
<1>6. EngineInv'
  BY <1>1, <1>2, <1>3 DEF EngineInv, At, Running
<1>7. QueueInv'
  BY <1>1, <1>2, <1>3 DEF QueueInv, SentBy, Waits, At, Running
<1>8. PolicyInv'
  BY <1>1, <1>2, <1>3 DEF PolicyInv, InForce, At
<1>9. PromiseInv'
  BY <1>1, <1>2, <1>3 DEF PromiseInv, Flushing, At, Running
<1> QED BY <1>4, <1>5, <1>6, <1>7, <1>8, <1>9

(* ------------------------- manual bans --------------------------------- *)

\* A ban is sent to the engine in use.
LEMMA SendBanKeepsInv ==
  ASSUME ManagerInv, NEW c \in Client, SendBan(c) PROVE ManagerInv'
<1> USE DEF ManagerInv
<1>1. /\ request[c].at = "checked" /\ update.step \notin InnerSteps
      /\ UNCHANGED <<policy, file, update, inner, engine, stateFile, hooked, promised>>
  BY DEF SendBan
<1>2. CASE inner # None
  <2> DEFINE command == [op |-> "add", net |-> request[c].net, from |-> c]
  <2>1. Enqueue(queue, inner, c, command) /\ request' = [request EXCEPT ![c].at = "sent"]
    BY <1>2 DEF SendBan
  <2>2. /\ request[c] \in Request /\ request[c].net \in Net
        /\ [request[c] EXCEPT !.at = "sent"] \in Request
    BY <1>1 DEF ManagerTypes, Request, Idle
  <2>3. /\ command \in Command /\ command.op = "add" /\ command.op # "update"
        /\ command.from = c
    BY <2>2 DEF Command
  <2> HIDE DEF command
  <2>4. /\ request' \in [Client -> Request] /\ request'[c].at = "sent"
        /\ \A d \in Client \ {c} : request'[d] = request[d]
    BY <2>1, <2>2 DEF ManagerTypes
  <2>5. Thinned(queue) /\ c \in Waiter /\ c # Updater /\ c # Nobody
    BY QueueThinned, WaitersApart
  <2>6. /\ queue' \in [Engine -> Seq(Command)] /\ answer' \in [Waiter -> Answer]
        /\ \A e \in Engine : Len(queue'[e]) <= QueueCapacity
        /\ \A e \in Engine \ {inner} : queue'[e] = queue[e]
        /\ \A v \in Waiter \ {c} : answer'[v] = answer[v]
        /\ \/ queue'[inner] = Append(queue[inner], command) /\ answer'[c] = "none"
           \/ queue' = queue /\ answer'[c] = "error"
    BY <1>2, <2>1, <2>3, <2>5, EnqueueFacts
  <2>7. /\ inner \in Engine /\ queue[inner] \in Seq(Command) /\ Running(inner)
        /\ engine[inner] # Absent
    BY <1>1, <1>2 DEF ManagerTypes, EngineInv, At, InnerSteps, Running, Absent
  <2>8. /\ Len(queue[inner]) \in Nat /\ DOMAIN queue[inner] = 1..Len(queue[inner])
        /\ DOMAIN Append(queue[inner], command) = 1..(Len(queue[inner]) + 1)
        /\ Len(Append(queue[inner], command)) = Len(queue[inner]) + 1
        /\ \A i \in 1..Len(queue[inner]) : Append(queue[inner], command)[i] = queue[inner][i]
        /\ Append(queue[inner], command)[Len(queue[inner]) + 1] = command
    BY <2>3, <2>7, AppendOf
  <2>9. ManagerTypes'
    BY <1>1, <2>4, <2>6 DEF ManagerTypes
  <2>10. UpdateInv'
    BY <1>1, <2>4 DEF UpdateInv, At, InnerSteps, ManagerTypes, Update
  <2>11. EngineInv'
    BY <1>1 DEF EngineInv, At, Running
  <2>12. ~Waits(Updater) /\ ~Waits(Updater)' /\ ~At({"stopping", "starting", "restored"})
    BY <1>1 DEF Waits, At, InnerSteps
  <2>13. ~Waits(c) /\ Waits(c)' /\ \A w \in Waiter \ {c} : Waits(w)' <=> Waits(w)
    BY <1>1, <2>4, <2>5, <2>12 DEF Waits, At, Waiter
  <2>14. \A i \in DOMAIN queue[inner], w \in Waiter :
           SentBy(i, w) => w \in Client \ {c} /\ Waits(w)' /\ answer'[w] = "none"
    BY <1>2, <2>6, <2>12, <2>13 DEF QueueInv, Waiter
  <2>15. \A i \in DOMAIN queue[inner] : queue[inner][i].op # "stop"
    BY <1>2, <2>12 DEF QueueInv, At
  <2>16. \A e \in Engine : e # inner \/ engine[e] = Absent => queue'[e] = <<>>
    BY <2>6, <2>7 DEF QueueInv
  <2>17. QueueInv'
    <3>1. CASE queue' = queue /\ answer'[c] = "error"
      <4>1. \A w, i : SentBy(i, w)' <=> SentBy(i, w)
        BY <1>1, <3>1 DEF SentBy
      <4>2. QueueInv
        OBVIOUS
      <4> HIDE DEF SentBy, Waits, ManagerInv
      <4> QED BY <1>1, <2>6, <2>12, <2>14, <2>15, <2>16, <3>1, <4>1, <4>2, WaitersApart
              DEF QueueInv, At
    <3>2. CASE queue'[inner] = Append(queue[inner], command) /\ answer'[c] = "none"
      <4>1. \A w \in Waiter, i \in DOMAIN queue'[inner] :
              SentBy(i, w)' <=> (IF i \in DOMAIN queue[inner] THEN SentBy(i, w) ELSE w = c)
        BY <1>1, <2>3, <2>8, <3>2 DEF SentBy
      <4>2. \A i \in DOMAIN queue'[inner] : queue'[inner][i].op # "stop"
        BY <2>3, <2>8, <2>15, <3>2
      <4>3. \A w \in Waiter, i \in DOMAIN queue'[inner] :
              SentBy(i, w)' => w \in Client /\ Waits(w)' /\ answer'[w] = "none"
        BY <2>13, <2>14, <3>2, <4>1
      <4>4. \A d \in Client, i, j \in DOMAIN queue'[inner] :
              SentBy(i, d)' /\ SentBy(j, d)' => i = j
        <5> SUFFICES ASSUME NEW d \in Client, NEW i \in DOMAIN queue'[inner],
                            NEW j \in DOMAIN queue'[inner], SentBy(i, d)', SentBy(j, d)'
                     PROVE  i = j
          OBVIOUS
        <5>1. d \in Waiter
          BY WaitersApart
        <5>2. CASE d = c
          BY <2>8, <2>14, <3>2, <4>1, <5>1, <5>2
        <5>3. CASE d # c
          BY <1>2, <4>1, <5>1, <5>3 DEF QueueInv
        <5> QED BY <5>2, <5>3
      <4> HIDE DEF SentBy, Waits, ManagerInv
      <4> QED BY <1>1, <2>6, <2>12, <2>16, <4>2, <4>3, <4>4, WaitersApart
              DEF QueueInv, At
    <3> QED BY <2>6, <3>1, <3>2
  <2>18. \A i \in DOMAIN queue'[inner] :
           queue'[inner][i].op = "update" =>
             i \in DOMAIN queue[inner] /\ queue[inner][i].op = "update"
    BY <2>3, <2>6, <2>8
  <2>19. PolicyInv'
    BY <1>1, <2>18 DEF PolicyInv, InForce, At, InnerSteps
  <2>20. PromiseInv'
    BY <1>1 DEF PromiseInv, Flushing, At, InnerSteps, Running
  <2> QED BY <2>9, <2>10, <2>11, <2>17, <2>19, <2>20
<1>3. CASE inner = None
  <2>1. /\ request' = [request EXCEPT ![c] = Idle] /\ UNCHANGED <<queue, answer>>
        /\ Idle \in Request /\ Idle.at = "idle"
    BY <1>3 DEF SendBan, Idle, Request
  <2> QED BY <1>1, <2>1, RequestMoves DEF engineVars
<1> QED BY <1>2, <1>3

\* The answer to a ban has come, or it has not.
LEMMA EndBanKeepsInv ==
  ASSUME ManagerInv, NEW c \in Client, EndBan(c) PROVE ManagerInv'
<1> USE DEF ManagerInv
<1>1. /\ request[c].at = "sent" /\ Heard(c)
      /\ queue' \in GivenUp(c) \cup (IF answer[c] = "ok" THEN {queue} ELSE {})
      /\ request' = [request EXCEPT ![c] = Idle]
      /\ UNCHANGED <<policy, file, update, inner, engine, stateFile, hooked, promised>>
  BY DEF EndBan
<1>2. c \in Waiter /\ c # Updater
  BY WaitersApart
<1>3. Idle \in Request /\ Idle.at = "idle"
  BY DEF Idle, Request
<1>4. /\ request' \in [Client -> Request] /\ request'[c].at = "idle"
      /\ \A d \in Client \ {c} : request'[d] = request[d]
  BY <1>1, <1>3 DEF ManagerTypes
<1>5. /\ answer' \in [Waiter -> Answer] /\ answer'[c] = "none"
      /\ \A v \in Waiter \ {c} : answer'[v] = answer[v]
  BY <1>1, <1>2, HeardFacts
<1>6. Thinned(queue') /\ (inner # None => NoneFrom(queue', c))
  <2>1. CASE queue' \in GivenUp(c)
    BY <1>2, <2>1, GivenUpThinned
  <2>2. CASE queue' = queue /\ answer[c] = "ok"
    BY <1>2, <2>2, QueueThinned DEF QueueInv, SentBy, NoneFrom
  <2> QED BY <1>1, <2>1, <2>2
<1>7. ~At(InnerSteps) /\ ~Waits(Updater) /\ ~Waits(Updater)'
  BY <1>1 DEF UpdateInv, Waits, At, InnerSteps
<1>8. ManagerTypes'
  BY <1>1, <1>4, <1>5, <1>6 DEF ManagerTypes, Thinned
<1>9. UpdateInv'
  BY <1>1, <1>4, <1>7 DEF UpdateInv, At, InnerSteps, ManagerTypes, Update
<1>10. EngineInv'
  BY <1>1 DEF EngineInv, At, Running
<1>11. QueueInv'
  <2>1. inner # None => inner \in Engine
    BY DEF ManagerTypes
  <2>2. ASSUME inner # None, NEW w \in Waiter, NEW i \in DOMAIN queue'[inner],
               queue'[inner][i].op # "stop", queue'[inner][i].from = w
        PROVE  w # c /\ SentBy(i, w)
    BY <1>6, <2>1, <2>2, WaitersApart DEF NoneFrom, Thinned, SentBy
  <2>3. ASSUME inner # None, NEW w \in Waiter, NEW i, SentBy(i, w)'
        PROVE  /\ w # c /\ SentBy(i, w) /\ i \in DOMAIN queue[inner]
               /\ w # Updater /\ Waits(w)' /\ answer'[w] = "none"
    <3>1. w # c /\ SentBy(i, w) /\ i \in DOMAIN queue[inner]
      BY <1>1, <2>2, <2>3 DEF SentBy
    <3>2. Waits(w) /\ answer[w] = "none"
      BY <2>3, <3>1 DEF QueueInv
    <3>3. w # Updater /\ w \in Client
      BY <1>7, <3>2 DEF Waiter
    <3>4. Waits(w)'
      BY <1>4, <3>1, <3>2, <3>3 DEF Waits
    <3> QED BY <1>5, <3>1, <3>2, <3>3, <3>4
  <2>4. ASSUME inner # None, NEW i \in DOMAIN queue'[inner]
        PROVE  queue'[inner][i].op # "stop"
    <3>1. ~At({"stopping"})
      BY <1>7 DEF At, InnerSteps
    <3> QED BY <1>6, <2>1, <2>4, <3>1 DEF Thinned, QueueInv
  <2>5. \A e \in Engine : /\ Len(queue'[e]) <= QueueCapacity
                          /\ e # inner \/ engine[e] = Absent => queue'[e] = <<>>
    BY <1>6 DEF Thinned, QueueInv
  <2>6. ASSUME inner # None, NEW d \in Client, NEW i, NEW j, SentBy(i, d)', SentBy(j, d)'
        PROVE  i = j
    <3>1. d \in Waiter
      BY WaitersApart
    <3>2. SentBy(i, d) /\ SentBy(j, d) /\ i \in DOMAIN queue[inner]
          /\ j \in DOMAIN queue[inner]
      BY <2>3, <2>6, <3>1
    <3> QED BY <2>6, <3>2 DEF QueueInv
  <2>7. ~At({"stopping"})' /\ ~At({"starting", "restored"})'
    BY <1>1, <1>7 DEF At, InnerSteps
  <2>8. Client \subseteq Waiter /\ Updater \in Waiter
    BY WaitersApart
  <2> HIDE DEF SentBy, Waits, At, ManagerInv
  <2> QED BY <1>1, <1>7, <2>3, <2>4, <2>5, <2>6, <2>7, <2>8 DEF QueueInv
<1>12. PolicyInv'
  <2>1. inner # None => inner \in Engine
    BY DEF ManagerTypes
  <2>2. inner # None => \A i \in DOMAIN queue'[inner] :
          i \in DOMAIN queue[inner] /\ queue'[inner][i].op = queue[inner][i].op
    BY <1>6, <2>1 DEF Thinned
  <2> QED BY <1>1, <1>7, <2>2 DEF PolicyInv, InForce, At, InnerSteps
<1>13. PromiseInv'
  BY <1>1, <1>2, <1>5, <1>7 DEF PromiseInv, Flushing, At, InnerSteps, Running
<1> QED BY <1>8, <1>9, <1>10, <1>11, <1>12, <1>13

(* --------------------- what the worker threads do ---------------------- *)

\* A save leaves the bans in the file, or leaves them to be saved.
LEMMA SavesFacts ==
  ASSUME ManagerTypes, NEW e \in Engine, NEW bans \in SUBSET Net, Saves(e, bans)
  PROVE  \E state \in EngineState :
           /\ engine' = [engine EXCEPT ![e] = state]
           /\ state.state = engine[e].state /\ state.policy = engine[e].policy
           /\ state.bans = bans
           /\ \/ ~state.dirty /\ stateFile' = bans
              \/ state.dirty /\ stateFile' = stateFile
<1>1. PICK dirty \in BOOLEAN :
        /\ engine' = [engine EXCEPT ![e].bans = bans, ![e].dirty = dirty]
        /\ \/ ~dirty /\ stateFile' = bans
           \/ dirty /\ stateFile' = stateFile
  BY DEF Saves
<1> DEFINE state == [engine[e] EXCEPT !.bans = bans, !.dirty = dirty]
<1>2. engine[e] \in EngineState
  BY DEF ManagerTypes
<1>3. /\ state \in EngineState /\ state.state = engine[e].state
      /\ state.policy = engine[e].policy /\ state.bans = bans /\ state.dirty = dirty
  BY <1>2 DEF EngineState
<1>4. engine' = [engine EXCEPT ![e] = state]
  BY <1>1 DEF ManagerTypes
<1> HIDE DEF state
<1> QED BY <1>1, <1>3, <1>4

\* The save of what is not saved yet.
LEMMA SavesIfDirtyFacts ==
  ASSUME ManagerTypes, NEW e \in Engine, SavesIfDirty(e)
  PROVE  \E state \in EngineState :
           /\ engine' = [engine EXCEPT ![e] = state]
           /\ state.state = engine[e].state /\ state.policy = engine[e].policy
           /\ state.bans = engine[e].bans
           /\ \/ ~state.dirty /\ stateFile' = engine[e].bans
              \/ state.dirty = engine[e].dirty /\ stateFile' = stateFile
<1>1. engine[e] \in EngineState
  BY DEF ManagerTypes
<1>2. CASE engine[e].dirty
  <2>1. engine[e].bans \in SUBSET Net /\ Saves(e, engine[e].bans)
    BY <1>1, <1>2 DEF SavesIfDirty, EngineState
  <2>2. PICK state \in EngineState :
          /\ engine' = [engine EXCEPT ![e] = state]
          /\ state.state = engine[e].state /\ state.policy = engine[e].policy
          /\ state.bans = engine[e].bans
          /\ \/ ~state.dirty /\ stateFile' = engine[e].bans
             \/ state.dirty /\ stateFile' = stateFile
    BY <2>1, SavesFacts
  <2>3. state.dirty \in BOOLEAN /\ engine[e].dirty \in BOOLEAN
    BY <1>1 DEF EngineState
  <2>4. state.dirty => state.dirty = engine[e].dirty
    BY <1>2, <2>3
  <2> QED BY <2>2, <2>4
<1>3. CASE ~engine[e].dirty
  <2>1. engine' = [engine EXCEPT ![e] = engine[e]] /\ stateFile' = stateFile
    BY <1>3 DEF SavesIfDirty, ManagerTypes
  <2> QED BY <1>1, <2>1
<1> QED BY <1>2, <1>3

\* An engine goes on with no command: it loses no ban, and what it saves it holds.
LEMMA EngineRuns ==
  ASSUME ManagerInv, NEW e \in Engine, Running(e), NEW state \in EngineState,
         engine' = [engine EXCEPT ![e] = state],
         state.state = "running", state.policy = engine[e].policy,
         engine[e].bans \subseteq state.bans,
         \/ stateFile' = state.bans
         \/ (state.dirty \/ ~engine[e].dirty) /\ stateFile' = stateFile,
         UNCHANGED <<managerVars, queue, answer, promised>>
  PROVE  ManagerInv'
<1> USE DEF ManagerInv, managerVars
<1>1. /\ engine' \in [Engine -> EngineState] /\ engine'[e] = state
      /\ \A d \in Engine \ {e} : engine'[d] = engine[d]
  BY EngineMoves
<1>2. engine[e] # Absent /\ state # Absent /\ (e = inner \/ e = update.fresh)
  BY DEF EngineInv, Running, Absent
<1>3. stateFile' \subseteq Net
  BY DEF ManagerTypes, EngineState
<1>4. ManagerTypes'
  BY <1>1, <1>3 DEF ManagerTypes
<1>5. UpdateInv'
  BY DEF UpdateInv, At
<1>6. /\ inner # None => inner \in Engine
      /\ update.fresh # None => update.fresh \in Engine
  BY DEF ManagerTypes, Update
<1>7. EngineInv'
  <2>1. \A d \in Engine :
          /\ engine'[d].state = "absent" => engine'[d] = Absent
          /\ engine'[d] # Absent => d = inner \/ d = update.fresh
    BY <1>1, <1>2 DEF EngineInv
  <2>2. inner # None => Running(inner)' \/ (At({"stopping"}) /\ engine'[inner] = Absent)
    BY <1>1, <1>6 DEF EngineInv, Running
  <2>3. update.fresh # None =>
          /\ update.fresh # inner
          /\ \/ At({"restored"}) /\ engine'[update.fresh].state = "starting"
             \/ At({"stopping"}) /\ Running(update.fresh)'
          /\ engine'[update.fresh].policy = update.goal
    BY <1>1, <1>6 DEF EngineInv, Running
  <2> QED BY <2>1, <2>2, <2>3 DEF EngineInv, At
<1>8. QueueInv'
  <2>1. \A d \in Engine : engine'[d] = Absent <=> engine[d] = Absent
    BY <1>1, <1>2
  <2>2. inner # None => (Running(inner)' <=> Running(inner))
    BY <1>1, <1>6 DEF Running
  <2>3. \A w : (Waits(w)' <=> Waits(w)) /\ \A i : SentBy(i, w)' <=> SentBy(i, w)
    BY DEF Waits, At, SentBy
  <2>4. QueueInv
    OBVIOUS
  <2> HIDE DEF SentBy, Waits, Running, ManagerInv
  <2> QED BY <2>1, <2>2, <2>3, <2>4 DEF QueueInv, At
<1>9. PolicyInv'
  BY <1>1, <1>6 DEF PolicyInv, InForce, At, UpdateInv
<1>10. PromiseInv'
  <2>1. inner # None => (Running(inner)' <=> Running(inner))
    BY <1>1, <1>6 DEF Running
  <2>2. inner # None /\ Running(inner) => promised \subseteq engine'[inner].bans
    BY <1>1, <1>6 DEF PromiseInv
  <2>3. update.fresh # None => promised \subseteq engine'[update.fresh].bans
    BY <1>1, <1>6 DEF PromiseInv
  <2>4. promised \subseteq engine[e].bans /\ promised \subseteq state.bans
    BY <1>2, WaitersApart DEF PromiseInv
  <2>5. inner = None \/ ~engine'[inner].dirty \/ Flushing => promised \subseteq stateFile'
    <3>1. CASE stateFile' = state.bans
      BY <2>4, <3>1
    <3>2. CASE (state.dirty \/ ~engine[e].dirty) /\ stateFile' = stateFile
      BY <1>1, <1>6, <3>2 DEF PromiseInv
    <3> QED BY <3>1, <3>2
  <2> QED BY <2>1, <2>2, <2>3, <2>5 DEF PromiseInv, Flushing, At
<1> QED BY <1>4, <1>5, <1>7, <1>8, <1>9, <1>10

\* What a poll does.
LEMMA PollsKeepInv ==
  ASSUME ManagerInv, NEW e \in Engine,
         Reverify(e) \/ (\E n \in Net : HitBans(e, n)) \/ HitScores(e) \/ Persist(e)
  PROVE  ManagerInv'
<1>1. engine[e] \in EngineState /\ ManagerTypes
  BY DEF ManagerInv, ManagerTypes
<1>2. CASE Reverify(e)
  <2>1. engine' = [engine EXCEPT ![e] = engine[e]] /\ stateFile' = stateFile
    BY <1>1, <1>2 DEF Reverify, ManagerTypes
  <2>2. engine[e].dirty \/ ~engine[e].dirty
    OBVIOUS
  <2> QED BY <1>1, <1>2, <2>1, <2>2, EngineRuns DEF Reverify, Running
<1>3. CASE \E n \in Net : HitBans(e, n)
  <2>1. PICK n \in Net : HitBans(e, n)
    BY <1>3
  <2>2. engine[e].bans \cup {n} \in SUBSET Net /\ Saves(e, engine[e].bans \cup {n})
    BY <1>1, <2>1 DEF HitBans, EngineState
  <2>3. PICK state \in EngineState :
          /\ engine' = [engine EXCEPT ![e] = state]
          /\ state.state = engine[e].state /\ state.policy = engine[e].policy
          /\ state.bans = engine[e].bans \cup {n}
          /\ \/ ~state.dirty /\ stateFile' = engine[e].bans \cup {n}
             \/ state.dirty /\ stateFile' = stateFile
    BY <1>1, <2>2, SavesFacts
  <2> QED BY <2>1, <2>3, EngineRuns DEF HitBans, Running
<1>4. CASE HitScores(e)
  <2> DEFINE state == [engine[e] EXCEPT !.dirty = TRUE]
  <2>1. /\ state \in EngineState /\ state.state = engine[e].state
        /\ state.policy = engine[e].policy /\ state.bans = engine[e].bans /\ state.dirty
    BY <1>1 DEF EngineState
  <2>2. engine' = [engine EXCEPT ![e] = state]
    BY <1>1, <1>4 DEF HitScores, ManagerTypes
  <2> HIDE DEF state
  <2> QED BY <1>4, <2>1, <2>2, EngineRuns DEF HitScores, Running
<1>5. CASE Persist(e)
  <2>1. SavesIfDirty(e)
    BY <1>5 DEF Persist
  <2>2. PICK state \in EngineState :
          /\ engine' = [engine EXCEPT ![e] = state]
          /\ state.state = engine[e].state /\ state.policy = engine[e].policy
          /\ state.bans = engine[e].bans
          /\ \/ ~state.dirty /\ stateFile' = engine[e].bans
             \/ state.dirty = engine[e].dirty /\ stateFile' = stateFile
    BY <1>1, <2>1, SavesIfDirtyFacts
  <2>3. state.dirty = engine[e].dirty => state.dirty \/ ~engine[e].dirty
    OBVIOUS
  <2> QED BY <1>5, <2>2, <2>3, EngineRuns DEF Persist, Running
<1> QED BY <1>2, <1>3, <1>4, <1>5

(* ---------------------- commands that are served ----------------------- *)

\* The answer to a command.
LEMMA ReplyFacts ==
  ASSUME ManagerTypes, NEW w \in Waiter \cup {Nobody}, NEW a \in {"ok", "error"},
         Reply(w, a)
  PROVE  /\ answer' \in [Waiter -> Answer]
         /\ \A v \in Waiter : answer'[v] = IF v = w THEN a ELSE answer[v]
BY WaitersApart DEF ManagerTypes, Reply, Answer

\* Only the engine in use has a command to serve, and no engine is about to replace it.
\* When the updater is answered, its command was the last.
LEMMA ServeFacts ==
  ASSUME ManagerInv, NEW e \in Engine, NEW op \in {"update", "disable", "flush", "add"},
         IsNext(e, op), Pop(e), NEW a \in {"ok", "error"}, Reply(Head(queue[e]).from, a),
         NEW state \in EngineState, engine' = [engine EXCEPT ![e] = state],
         state.state = "running", UNCHANGED managerVars
  PROVE  /\ e = inner /\ inner # None /\ update.fresh = None /\ Running(e)
         /\ Head(queue[e]) \in Command
         /\ engine' \in [Engine -> EngineState] /\ engine'[inner] = state
         /\ queue' \in [Engine -> Seq(Command)] /\ answer' \in [Waiter -> Answer]
         /\ ~At({"starting", "restored", "stopping"})
         /\ UpdateInv' /\ EngineInv' /\ QueueInv'
         /\ Waits(Updater) /\ answer'[Updater] = "ok" =>
              /\ a = "ok" /\ op = Op(update.step)
              /\ At({"updating"}) => Head(queue[e]).policy = update.goal
         /\ At({"applied", "saving"}) =>
              op # "update" /\ \A i \in DOMAIN queue'[inner] : queue'[inner][i].op # "update"
<1> USE DEF ManagerInv, managerVars
<1> DEFINE w == Head(queue[e]).from
           n == Len(queue[e])
<1>1. /\ Running(e) /\ queue[e] # <<>> /\ Head(queue[e]).op = op
      /\ queue[e] \in Seq(Command)
  BY DEF IsNext, ManagerTypes
<1>2. e = inner /\ inner # None
  BY <1>1, WaitersApart DEF QueueInv
<1>3. /\ queue' = [queue EXCEPT ![e] = Tail(queue[e])]
      /\ engine'[e] = state /\ engine' \in [Engine -> EngineState]
      /\ \A d \in Engine \ {e} : engine'[d] = engine[d]
  BY EngineMoves DEF Pop
<1>4. /\ Tail(queue[e]) \in Seq(Command) /\ Len(Tail(queue[e])) = n - 1
      /\ Head(queue[e]) = queue[e][1] /\ Head(queue[e]) \in Command
      /\ n \in Nat \ {0} /\ DOMAIN queue[e] = 1..n
      /\ DOMAIN Tail(queue[e]) = 1..(n - 1)
      /\ \A i \in 1..(n - 1) : Tail(queue[e])[i] = queue[e][i + 1]
      /\ n = 1 => Tail(queue[e]) = <<>>
  BY <1>1, TailOf
<1>5. /\ queue' \in [Engine -> Seq(Command)] /\ queue'[e] = Tail(queue[e])
      /\ \A d \in Engine \ {e} : queue'[d] = queue[d]
  BY <1>3, <1>4 DEF ManagerTypes
<1>6. w \in Waiter \cup {Nobody}
  BY <1>1, <1>4, CommandTypes
<1>7. /\ answer' \in [Waiter -> Answer]
      /\ \A v \in Waiter : answer'[v] = IF v = w THEN a ELSE answer[v]
  BY <1>6, ReplyFacts
<1>8. 1 \in DOMAIN queue[inner] /\ queue[inner][1].op = op /\ op # "stop"
  BY <1>1, <1>2, <1>4
<1> HIDE DEF n
<1>9. ~At({"stopping"}) /\ ~At({"starting", "restored"})
  <2>1. At({"stopping"}) => queue[inner] = <<[op |-> "stop"]>>
    BY <1>1, <1>2 DEF QueueInv
  <2>2. At({"stopping"}) => queue[inner][1].op = "stop"
    BY <2>1
  <2> QED BY <1>1, <1>2, <1>8, <2>2 DEF QueueInv
<1>10. update.fresh = None
  BY <1>9 DEF EngineInv, At
<1>11. SentBy(1, w)
  BY <1>2, <1>4, <1>8 DEF SentBy
<1>12. UpdateInv'
  BY DEF UpdateInv, At
<1>13. EngineInv'
  BY <1>2, <1>3, <1>10 DEF EngineInv, At, Running, Absent
<1>14. ASSUME w = Updater PROVE n = 1 /\ queue'[e] = <<>>
  BY <1>2, <1>4, <1>5, <1>8, <1>11, <1>14 DEF QueueInv, n
<1>15. ASSUME NEW v \in Waiter, NEW i \in DOMAIN queue'[inner], SentBy(i, v)'
       PROVE  /\ i \in 1..(n - 1) /\ i + 1 \in DOMAIN queue[inner] /\ SentBy(i + 1, v)
              /\ v # w
  <2>1. /\ i \in 1..(n - 1) /\ i + 1 \in 1..n
        /\ queue'[inner][i] = queue[inner][i + 1]
    BY <1>2, <1>4, <1>5
  <2>2. SentBy(i + 1, v) /\ i + 1 \in DOMAIN queue[inner]
    BY <1>2, <1>4, <1>15, <2>1 DEF SentBy
  <2>3. ASSUME v = w PROVE FALSE
    <3>1. CASE v = Updater
      BY <1>4, <1>14, <2>1, <2>3, <3>1
    <3>2. CASE v \in Client
      <4>1. 1 = i + 1
        BY <1>2, <1>8, <1>11, <2>2, <2>3, <3>2 DEF QueueInv
      <4> QED BY <1>4, <2>1, <4>1
    <3> QED BY <3>1, <3>2 DEF Waiter
  <2> QED BY <2>1, <2>2, <2>3
<1>16. ASSUME Waits(Updater), answer'[Updater] = "ok"
       PROVE  w = Updater /\ a = "ok"
  <2>1. answer[Updater] # "ok"
    BY <1>1, <1>2, <1>16 DEF QueueInv
  <2> QED BY <1>7, <1>16, <2>1, WaitersApart
<1>17. ASSUME Waits(Updater), answer'[Updater] = "none"
       PROVE  answer[Updater] = "none" /\ w # Updater
  BY <1>7, <1>17, WaitersApart
<1>18. ASSUME Waits(Updater), answer[Updater] = "none"
       PROVE  /\ queue[inner][n].op = Op(update.step) /\ queue[inner][n].from = Updater
              /\ At({"updating"}) => queue[inner][n].policy = update.goal
  BY <1>2, <1>18 DEF QueueInv, n
<1>19. QueueInv'
  <2>1. \A d \in Engine : /\ Len(queue'[d]) <= QueueCapacity
                          /\ d # inner \/ engine'[d] = Absent => queue'[d] = <<>>
    <3>1. Len(queue'[e]) <= QueueCapacity
      <4>1. n <= QueueCapacity
        BY DEF QueueInv, n
      <4> QED BY <1>4, <1>5, <4>1, ManagerAssumption
    <3>2. engine'[e] # Absent
      BY <1>3 DEF Absent
    <3> QED BY <1>2, <1>3, <1>5, <3>1, <3>2 DEF QueueInv
  <2>2. \A v \in Waiter, i \in DOMAIN queue'[inner] :
          SentBy(i, v)' => Waits(v)' /\ answer'[v] = "none"
    <3> SUFFICES ASSUME NEW v \in Waiter, NEW i \in DOMAIN queue'[inner], SentBy(i, v)'
                 PROVE  Waits(v)' /\ answer'[v] = "none"
      OBVIOUS
    <3>1. SentBy(i + 1, v) /\ v # w /\ i + 1 \in DOMAIN queue[inner]
      BY <1>15
    <3>2. Waits(v) /\ answer[v] = "none"
      BY <1>2, <3>1 DEF QueueInv
    <3> QED BY <1>7, <3>1, <3>2 DEF Waits, At
  <2>3. \A c \in Client, i, j \in DOMAIN queue'[inner] : SentBy(i, c)' /\ SentBy(j, c)' => i = j
    <3> SUFFICES ASSUME NEW c \in Client, NEW i \in DOMAIN queue'[inner],
                        NEW j \in DOMAIN queue'[inner], SentBy(i, c)', SentBy(j, c)'
                 PROVE  i = j
      OBVIOUS
    <3>1. c \in Waiter
      BY WaitersApart
    <3>2. /\ SentBy(i + 1, c) /\ i + 1 \in DOMAIN queue[inner] /\ i \in 1..(n - 1)
          /\ SentBy(j + 1, c) /\ j + 1 \in DOMAIN queue[inner] /\ j \in 1..(n - 1)
      BY <1>15, <3>1
    <3>3. i + 1 = j + 1
      BY <1>2, <3>2 DEF QueueInv
    <3> QED BY <1>4, <3>2, <3>3
  <2>4. \A i \in DOMAIN queue'[inner] : SentBy(i, Updater)' => i = Len(queue'[inner])
    <3> SUFFICES ASSUME NEW i \in DOMAIN queue'[inner], SentBy(i, Updater)'
                 PROVE  i = Len(queue'[inner])
      OBVIOUS
    <3>1. SentBy(i + 1, Updater) /\ i + 1 \in DOMAIN queue[inner] /\ i \in 1..(n - 1)
      BY <1>15, WaitersApart
    <3>2. i + 1 = n
      BY <1>2, <3>1 DEF QueueInv, n
    <3> QED BY <1>2, <1>4, <1>5, <3>1, <3>2
  <2>5. \A i \in DOMAIN queue'[inner] : queue'[inner][i].op # "stop"
    <3> SUFFICES ASSUME NEW i \in DOMAIN queue'[inner] PROVE queue'[inner][i].op # "stop"
      OBVIOUS
    <3>1. queue'[inner][i] = queue[inner][i + 1] /\ i + 1 \in DOMAIN queue[inner]
      BY <1>2, <1>4, <1>5
    <3> QED BY <1>2, <1>9, <3>1 DEF QueueInv
  <2>6. ASSUME Waits(Updater), answer'[Updater] = "none"
        PROVE  /\ queue'[inner] # <<>>
               /\ queue'[inner][Len(queue'[inner])] = queue[inner][n]
    <3>1. answer[Updater] = "none" /\ w # Updater
      BY <1>17, <2>6
    <3>2. queue[inner][n].from = Updater
      BY <1>18, <2>6, <3>1
    <3>3. n # 1
      BY <1>2, <1>4, <3>1, <3>2
    <3>4. /\ Len(queue'[inner]) = n - 1 /\ n - 1 \in 1..(n - 1) /\ n - 1 + 1 = n
      BY <1>2, <1>4, <1>5, <3>3
    <3>5. queue'[inner][n - 1] = queue[inner][n]
      BY <1>2, <1>4, <1>5, <3>4
    <3>6. queue'[inner] # <<>>
      BY <1>2, <1>4, <1>5, <3>4, EmptySeq
    <3> QED BY <3>4, <3>5, <3>6
  <2>7. Waits(Updater) /\ answer'[Updater] = "ok" => queue'[inner] = <<>>
    BY <1>2, <1>14, <1>16
  <2>8. (Waits(Updater)' <=> Waits(Updater)) /\ update' = update /\ inner' = inner
        /\ Updater \in Waiter
    BY WaitersApart DEF Waits, At
  <2>9. ~At({"stopping"})' /\ ~At({"starting", "restored"})'
        /\ (At({"updating"})' <=> At({"updating"}))
    BY <1>9 DEF At
  <2>10. ASSUME Waits(Updater)', answer'[Updater] = "none"
         PROVE  /\ queue'[inner] # <<>>
                /\ LET command == queue'[inner][Len(queue'[inner])]
                   IN  /\ command.op = Op(update'.step) /\ command.from = Updater
                       /\ At({"updating"})' => command.policy = update'.goal
    <3> HIDE DEF Op, Waits, At
    <3>1. answer[Updater] = "none" /\ Waits(Updater)
      BY <1>17, <2>8, <2>10
    <3> QED BY <1>18, <2>6, <2>8, <2>9, <2>10, <3>1
  <2> HIDE DEF SentBy, Waits, At, Op, ManagerInv, w, n
  <2> QED BY <2>1, <2>2, <2>3, <2>4, <2>5, <2>7, <2>8, <2>9, <2>10 DEF QueueInv
<1>20. ASSUME Waits(Updater), answer'[Updater] = "ok"
       PROVE  /\ a = "ok" /\ op = Op(update.step)
              /\ At({"updating"}) => Head(queue[e]).policy = update.goal
  <2>1. w = Updater /\ a = "ok"
    BY <1>16, <1>20
  <2>2. n = 1
    BY <1>14, <2>1
  <2>3. answer[Updater] = "none"
    BY <1>2, <1>8, <1>11, <2>1, WaitersApart DEF QueueInv
  <2> HIDE DEF Op
  <2> QED BY <1>1, <1>2, <1>4, <1>18, <1>20, <2>1, <2>2, <2>3
<1>21. ASSUME At({"applied", "saving"})
       PROVE  /\ op # "update"
              /\ \A i \in DOMAIN queue'[inner] : queue'[inner][i].op # "update"
  <2>1. \A i \in DOMAIN queue[inner] : queue[inner][i].op # "update"
    BY <1>2, <1>21 DEF PolicyInv
  <2>2. \A i \in DOMAIN queue'[inner] :
          i + 1 \in DOMAIN queue[inner] /\ queue'[inner][i] = queue[inner][i + 1]
    BY <1>2, <1>4, <1>5
  <2> QED BY <1>8, <2>1, <2>2
<1> HIDE DEF Op, Waits, ManagerInv
<1> QED BY <1>1, <1>2, <1>3, <1>4, <1>5, <1>7, <1>9, <1>10, <1>12, <1>13, <1>19, <1>20, <1>21
    DEF At

\* The invariant after a command, from what it did to the engine.
LEMMA ServingKeepsInv ==
  ASSUME ManagerInv, NEW e \in Engine, NEW op \in {"update", "disable", "flush", "add"},
         IsNext(e, op), Pop(e), NEW a \in {"ok", "error"}, Reply(Head(queue[e]).from, a),
         NEW state \in EngineState, engine' = [engine EXCEPT ![e] = state],
         state.state = "running", UNCHANGED managerVars,
         stateFile' \subseteq Net, promised' \subseteq Net,
         state.policy = engine[e].policy
           \/ (op = "update" /\ state.policy = Head(queue[e]).policy),
         op = "update" /\ a = "ok" => state.policy = Head(queue[e]).policy,
         promised \subseteq engine[e].bans => promised' \subseteq state.bans,
         ~state.dirty \/ (op = "flush" /\ a = "ok") =>
           \/ state.bans = stateFile'
           \/ ~engine[e].dirty /\ stateFile' = stateFile /\ promised' \subseteq promised
  PROVE  ManagerInv'
<1>1. /\ e = inner /\ inner # None /\ update.fresh = None /\ Running(e)
      /\ engine' \in [Engine -> EngineState] /\ engine'[inner] = state
      /\ Head(queue[e]) \in Command
      /\ queue' \in [Engine -> Seq(Command)] /\ answer' \in [Waiter -> Answer]
      /\ ~At({"starting", "restored", "stopping"})
      /\ UpdateInv' /\ EngineInv' /\ QueueInv'
      /\ Waits(Updater) /\ answer'[Updater] = "ok" =>
           /\ a = "ok" /\ op = Op(update.step)
           /\ At({"updating"}) => Head(queue[e]).policy = update.goal
      /\ At({"applied", "saving"}) =>
           op # "update" /\ \A i \in DOMAIN queue'[inner] : queue'[inner][i].op # "update"
  BY ServeFacts
<1>2. UNCHANGED <<policy, file, request, update, inner>>
  BY DEF managerVars
<1>3. ManagerTypes'
  BY <1>1, <1>2 DEF ManagerInv, ManagerTypes
<1>4. PolicyInv'
  <2>1. ASSUME At({"updating"}), answer'[Updater] = "ok"
        PROVE  state.policy = update.goal
    <3>1. Waits(Updater)
      BY <2>1 DEF Waits, At
    <3>2. op = "update" /\ a = "ok" /\ Head(queue[e]).policy = update.goal
      BY <1>1, <2>1, <3>1 DEF At, Op
    <3> QED BY <3>2
  <2>2. ASSUME At({"applied", "saving"})
        PROVE  state.policy = engine[inner].policy
    BY <1>1, <2>2
  <2> QED BY <1>1, <1>2, <2>1, <2>2 DEF ManagerInv, PolicyInv, InForce, At
<1>5. PromiseInv'
  <2>1. promised \subseteq engine[e].bans /\ promised' \subseteq state.bans
    BY <1>1 DEF ManagerInv, PromiseInv
  <2>2. Flushing' => op = "flush" /\ a = "ok"
    <3>1. Flushing' => At({"flushing"}) /\ answer'[Updater] = "ok"
      BY <1>1, <1>2 DEF Flushing, At
    <3>2. At({"flushing"}) => Waits(Updater) /\ Op(update.step) = "flush"
      BY DEF Waits, At, Op
    <3> QED BY <1>1, <3>1, <3>2
  <2>3. ~engine[e].dirty => promised \subseteq stateFile
    BY <1>1 DEF ManagerInv, PromiseInv
  <2>4. ~state.dirty \/ Flushing' => promised' \subseteq stateFile'
    BY <2>1, <2>2, <2>3
  <2> QED BY <1>1, <1>2, <2>1, <2>4 DEF PromiseInv
<1> QED BY <1>1, <1>3, <1>4, <1>5 DEF ManagerInv

\* Command::Update.
LEMMA ServeUpdateKeepsInv ==
  ASSUME ManagerInv, NEW e \in Engine, ServeUpdate(e) PROVE ManagerInv'
<1> DEFINE goal == Head(queue[e]).policy
           exempt == engine[e].bans \cap goal.allowed
           from == Head(queue[e]).from
<1>1. /\ IsNext(e, "update") /\ Pop(e) /\ UNCHANGED managerVars
      /\ promised' = promised \ goal.allowed
  BY DEF ServeUpdate
<1>2. ManagerTypes /\ engine[e] \in EngineState /\ engine[e].state = "running"
  BY <1>1 DEF ManagerInv, ManagerTypes, IsNext, Running
<1>3. goal \in Policy
  <2>1. Head(queue[e]) \in Command
    BY <1>1, <1>2, TailOf DEF IsNext, ManagerTypes
  <2> QED BY <1>1, <2>1, CommandTypes DEF IsNext
<1> HIDE DEF goal
<1>4. promised' \subseteq Net /\ promised' \subseteq promised
  BY <1>1, <1>2 DEF ManagerTypes
<1>5. CASE /\ \E saved \in BOOLEAN :
                /\ engine' = [engine EXCEPT ![e].policy = goal,
                                            ![e].bans = @ \ exempt,
                                            ![e].dirty = ~saved]
                /\ stateFile' = IF saved THEN engine[e].bans \ exempt ELSE stateFile
           /\ Reply(from, "ok")
  <2>1. PICK saved \in BOOLEAN :
          /\ engine' = [engine EXCEPT ![e].policy = goal, ![e].bans = @ \ exempt,
                                      ![e].dirty = ~saved]
          /\ stateFile' = IF saved THEN engine[e].bans \ exempt ELSE stateFile
    BY <1>5
  <2> DEFINE state == [engine[e] EXCEPT !.policy = goal, !.bans = @ \ exempt, !.dirty = ~saved]
  <2>2. /\ state \in EngineState /\ state.state = "running" /\ state.policy = goal
        /\ state.bans = engine[e].bans \ exempt /\ state.dirty = ~saved
    BY <1>2, <1>3 DEF EngineState
  <2>3. engine' = [engine EXCEPT ![e] = state]
    BY <1>2, <2>1 DEF ManagerTypes
  <2> HIDE DEF state
  <2>4. stateFile' \subseteq Net
    BY <1>2, <2>1 DEF ManagerTypes, EngineState
  <2>5. promised \subseteq engine[e].bans => promised' \subseteq state.bans
    BY <1>1, <2>2
  <2>6. ~state.dirty => state.bans = stateFile'
    BY <2>1, <2>2
  <2> QED BY <1>1, <1>4, <1>5, <2>2, <2>3, <2>4, <2>5, <2>6, ServingKeepsInv DEF goal
<1>6. CASE /\ \E lifted \in SUBSET exempt :
                engine' = [engine EXCEPT ![e].bans = @ \ lifted]
           /\ Reply(from, "error")
           /\ UNCHANGED stateFile
  <2>1. PICK lifted \in SUBSET exempt : engine' = [engine EXCEPT ![e].bans = @ \ lifted]
    BY <1>6
  <2> DEFINE state == [engine[e] EXCEPT !.bans = @ \ lifted]
  <2>2. /\ state \in EngineState /\ state.state = "running"
        /\ state.policy = engine[e].policy
        /\ state.bans = engine[e].bans \ lifted /\ state.dirty = engine[e].dirty
    BY <1>2 DEF EngineState
  <2>3. engine' = [engine EXCEPT ![e] = state]
    BY <1>2, <2>1 DEF ManagerTypes
  <2> HIDE DEF state
  <2>4. stateFile' \subseteq Net
    BY <1>2, <1>6 DEF ManagerTypes
  <2>5. promised \subseteq engine[e].bans => promised' \subseteq state.bans
    BY <1>1, <2>1, <2>2
  <2> QED BY <1>1, <1>4, <1>6, <2>2, <2>3, <2>4, <2>5, ServingKeepsInv
<1>7. CASE Reply(from, "error") /\ UNCHANGED <<engine, stateFile>>
  <2>1. engine' = [engine EXCEPT ![e].bans = @ \ {}]
    BY <1>2, <1>7 DEF ManagerTypes, EngineState
  <2> QED BY <1>6, <1>7, <2>1
<1> QED BY <1>5, <1>6, <1>7 DEF ServeUpdate, goal

\* The other commands.
LEMMA ServeOthersKeepInv ==
  ASSUME ManagerInv, NEW e \in Engine, ServeDisable(e) \/ ServeFlush(e) \/ ServeAdd(e)
  PROVE  ManagerInv'
<1> DEFINE from == Head(queue[e]).from
<1>1. ManagerTypes /\ engine[e] \in EngineState
  BY DEF ManagerInv, ManagerTypes
<1>2. engine[e].dirty \in BOOLEAN /\ engine[e].bans \subseteq Net
      /\ promised \subseteq Net /\ stateFile \subseteq Net
  BY <1>1 DEF EngineState, ManagerTypes
<1>3. ASSUME NEW op \in {"disable", "add"}, IsNext(e, op), Pop(e), UNCHANGED managerVars,
             NEW a \in {"ok", "error"}, Reply(from, a),
             UNCHANGED <<engine, stateFile, promised>>
      PROVE  ManagerInv'
  <2>1. engine' = [engine EXCEPT ![e] = engine[e]]
    BY <1>1, <1>3 DEF ManagerTypes
  <2>2. engine[e].state = "running"
    BY <1>3 DEF IsNext, Running
  <2> QED BY <1>1, <1>2, <1>3, <2>1, <2>2, ServingKeepsInv
<1>4. CASE ServeDisable(e)
  BY <1>3, <1>4 DEF ServeDisable
<1>5. CASE ServeFlush(e)
  <2>1. /\ IsNext(e, "flush") /\ Pop(e) /\ SavesIfDirty(e)
        /\ Reply(from, IF engine'[e].dirty THEN "error" ELSE "ok")
        /\ UNCHANGED managerVars /\ UNCHANGED promised
        /\ engine[e].state = "running"
    BY <1>5 DEF ServeFlush, IsNext, Running
  <2>2. PICK state \in EngineState :
          /\ engine' = [engine EXCEPT ![e] = state]
          /\ state.state = engine[e].state /\ state.policy = engine[e].policy
          /\ state.bans = engine[e].bans
          /\ \/ ~state.dirty /\ stateFile' = engine[e].bans
             \/ state.dirty = engine[e].dirty /\ stateFile' = stateFile
    BY <1>1, <2>1, SavesIfDirtyFacts
  <2> DEFINE a == IF state.dirty THEN "error" ELSE "ok"
  <2>3. Reply(from, a) /\ a \in {"ok", "error"} /\ (a = "ok" => ~state.dirty)
    BY <1>1, <2>1, <2>2, EngineMoves
  <2> HIDE DEF a
  <2>4. stateFile' \subseteq Net
    BY <1>2, <2>2
  <2>5. ~state.dirty => \/ state.bans = stateFile'
                        \/ ~engine[e].dirty /\ stateFile' = stateFile
    BY <2>2
  <2> QED BY <1>2, <2>1, <2>2, <2>3, <2>4, <2>5, ServingKeepsInv
<1>6. CASE ServeAdd(e)
  <2>1. /\ IsNext(e, "add") /\ Pop(e) /\ UNCHANGED managerVars
        /\ engine[e].state = "running"
    BY <1>6 DEF ServeAdd, IsNext, Running
  <2>2. Head(queue[e]).net \in Net
    <3>1. Head(queue[e]) \in Command
      BY <1>1, <2>1, TailOf DEF IsNext, ManagerTypes
    <3> QED BY <2>1, <3>1, CommandTypes DEF IsNext
  <2> DEFINE bans == engine[e].bans \cup {Head(queue[e]).net}
  <2>3. CASE /\ Saves(e, bans) /\ Reply(from, "ok")
             /\ promised' = IF from = Nobody THEN promised
                            ELSE promised \cup {Head(queue[e]).net}
    <3>1. bans \in SUBSET Net
      BY <1>2, <2>2
    <3>2. PICK state \in EngineState :
            /\ engine' = [engine EXCEPT ![e] = state]
            /\ state.state = engine[e].state /\ state.policy = engine[e].policy
            /\ state.bans = bans
            /\ \/ ~state.dirty /\ stateFile' = bans
               \/ state.dirty /\ stateFile' = stateFile
      BY <1>1, <2>3, <3>1, SavesFacts
    <3>3. stateFile' \subseteq Net /\ promised' \subseteq Net
      BY <1>2, <2>2, <2>3, <3>1, <3>2
    <3>4. promised \subseteq engine[e].bans => promised' \subseteq state.bans
      BY <2>3, <3>2
    <3>5. ~state.dirty => state.bans = stateFile'
      BY <3>2
    <3> HIDE DEF bans
    <3> QED BY <2>1, <2>3, <3>2, <3>3, <3>4, <3>5, ServingKeepsInv
  <2>4. CASE Reply(from, "error") /\ UNCHANGED <<engine, stateFile, promised>>
    BY <1>3, <2>1, <2>4
  <2> QED BY <1>6, <2>3, <2>4 DEF ServeAdd
<1> QED BY <1>4, <1>5, <1>6

\* Command::Stop: the engine that is dropped ends.
LEMMA ServeStopKeepsInv ==
  ASSUME ManagerInv, NEW e \in Engine, ServeStop(e) PROVE ManagerInv'
<1> USE DEF ManagerInv
<1>1. /\ Running(e) /\ queue[e] # <<>> /\ Head(queue[e]).op = "stop"
      /\ engine' = [engine EXCEPT ![e] = Absent]
      /\ queue' = [queue EXCEPT ![e] = <<>>]
      /\ UNCHANGED <<policy, file, request, update, inner, answer>>
  BY DEF ServeStop, IsNext, managerVars
<1>2. e = inner /\ inner # None
  BY <1>1, WaitersApart DEF QueueInv
<1>3. update.step = "stopping" /\ ~Waits(Updater)
  <2>1. queue[e] \in Seq(Command)
    BY DEF ManagerTypes
  <2>2. 1 \in DOMAIN queue[e] /\ queue[e][1].op = "stop"
    BY <1>1, <2>1, TailOf
  <2> QED BY <1>2, <2>2 DEF QueueInv, At, Waits
<1>4. Absent \in EngineState /\ Absent.state = "absent" /\ Absent.dirty = FALSE
  BY DEF Absent, EngineState
<1>5. /\ engine' \in [Engine -> EngineState] /\ engine'[e] = Absent
      /\ \A d \in Engine \ {e} : engine'[d] = engine[d]
  BY <1>1, <1>4, EngineMoves
<1>6. <<>> \in Seq(Command) /\ Len(<<>>) = 0 /\ DOMAIN <<>> = {}
  OBVIOUS
<1>7. /\ queue' \in [Engine -> Seq(Command)] /\ queue'[e] = <<>>
      /\ \A d \in Engine \ {e} : queue'[d] = queue[d]
  BY <1>1, <1>6 DEF ManagerTypes
<1>8. update.fresh # None => update.fresh \in Engine /\ update.fresh # inner
  BY DEF EngineInv, ManagerTypes, Update
<1>9. engine[e].bans \subseteq Net /\ promised \subseteq engine[e].bans
  BY <1>1, <1>2 DEF ManagerTypes, EngineState, PromiseInv
<1>10. /\ stateFile' \subseteq Net /\ promised' \subseteq promised
       /\ promised' \subseteq stateFile'
  <2>1. CASE engine[e].dirty /\ stateFile' = engine[e].bans /\ UNCHANGED promised
    BY <1>9, <2>1
  <2>2. CASE /\ promised' = IF update.fresh = None THEN promised \cap stateFile ELSE promised
             /\ UNCHANGED stateFile
    BY <1>3, <2>2 DEF PromiseInv, Flushing, At, ManagerTypes
  <2>3. CASE ~engine[e].dirty /\ UNCHANGED <<stateFile, promised>>
    BY <1>2, <2>3 DEF PromiseInv, ManagerTypes
  <2> QED BY <2>1, <2>2, <2>3 DEF ServeStop
<1>11. ManagerTypes'
  BY <1>1, <1>5, <1>7, <1>10 DEF ManagerTypes
<1>12. UpdateInv'
  BY <1>1 DEF UpdateInv, At
<1>13. EngineInv'
  BY <1>1, <1>2, <1>3, <1>4, <1>5, <1>8 DEF EngineInv, At, Running
<1>14. QueueInv'
  <2>1. \A d \in Engine : /\ Len(queue'[d]) <= QueueCapacity
                          /\ d # inner \/ engine'[d] = Absent => queue'[d] = <<>>
    <3>1. 0 <= QueueCapacity
      BY ManagerAssumption
    <3> QED BY <1>2, <1>5, <1>6, <1>7, <3>1 DEF QueueInv
  <2>2. \A i : i \notin DOMAIN queue'[inner]
    BY <1>2, <1>6, <1>7
  <2>3. ~Waits(Updater)' /\ ~Running(inner)'
    BY <1>1, <1>2, <1>3, <1>4, <1>5 DEF Waits, At, Running
  <2>4. queue'[inner] = <<>>
    BY <1>2, <1>7
  <2> HIDE DEF Waits, ManagerInv, Running
  <2> QED BY <1>1, <2>1, <2>2, <2>3, <2>4, WaitersApart DEF QueueInv, SentBy, At
<1>15. PolicyInv'
  BY <1>1, <1>3 DEF PolicyInv, At
<1>16. PromiseInv'
  BY <1>1, <1>2, <1>4, <1>5, <1>8, <1>10 DEF PromiseInv, Running
<1> QED BY <1>11, <1>12, <1>13, <1>14, <1>15, <1>16

(* ------------------- start, crash, and the theorems -------------------- *)

\* The process starts, for the first time or after a crash.
Start ==
  /\ policy \in Policy /\ file \in Policy /\ stateFile \subseteq Net
  /\ promised \subseteq stateFile
  /\ request = [c \in Client |-> Idle] /\ update \in {Free, Boot(file)}
  /\ inner = None /\ engine = [e \in Engine |-> Absent]
  /\ queue = [e \in Engine |-> <<>>] /\ answer = [w \in Waiter |-> "none"]

\* A manager that starts has the invariant.
LEMMA StartHasInv ==
  Start => ManagerInv
<1> SUFFICES ASSUME Start PROVE ManagerInv
  OBVIOUS
<1> USE DEF Start
<1>1. Idle \in Request /\ Idle.at = "idle"
  BY DEF Idle, Request
<1>2. Absent \in EngineState /\ Absent.state = "absent"
  BY DEF Absent, EngineState
<1>3. /\ update \in Update /\ update.client = None /\ update.fresh = None
      /\ update.step \in {"free", "starting"}
      /\ update.step = "starting" =>
           update.goal \in Policy /\ update.goal.mode # "off" /\ update.last
  <2>1. CASE update = Free
    BY <2>1 DEF Free, Update, Step
  <2>2. CASE file.mode # "off" /\ update = [Free EXCEPT !.step = "starting", !.goal = file,
                                                        !.last = TRUE]
    <3>1. update = [step |-> "starting", client |-> None, goal |-> file, withdraws |-> {},
                    previous |-> None, last |-> TRUE, fresh |-> None]
      BY <2>2 DEF Free
    <3>2. file.mode # "off" /\ file \in Policy /\ TRUE \in BOOLEAN
      BY <2>2
    <3>3. update \in Update
      BY <3>1, <3>2 DEF Update, Step
    <3>4. /\ update.step = "starting" /\ update.client = None /\ update.fresh = None
          /\ update.goal = file /\ update.last
      BY <3>1
    <3> QED BY <3>2, <3>3, <3>4
  <2>3. \/ update = Free
        \/ file.mode # "off" /\ update = [Free EXCEPT !.step = "starting", !.goal = file,
                                                      !.last = TRUE]
    BY DEF Boot
  <2> QED BY <2>1, <2>2, <2>3
<1>4. \A e \in Engine : Len(queue[e]) <= QueueCapacity /\ queue[e] = <<>>
  BY ManagerAssumption
<1>5. ManagerTypes
  BY <1>1, <1>2, <1>3 DEF ManagerTypes, Answer
<1>6. UpdateInv
  BY <1>1, <1>3 DEF UpdateInv, At, InnerSteps
<1>7. EngineInv
  BY <1>2, <1>3 DEF EngineInv, At
<1>8. QueueInv
  BY <1>3, <1>4 DEF QueueInv, At, Waits
<1>9. PolicyInv
  BY <1>3 DEF PolicyInv, At
<1>10. PromiseInv
  BY <1>3 DEF PromiseInv
<1> QED BY <1>5, <1>6, <1>7, <1>8, <1>9, <1>10 DEF ManagerInv

\* The initial states have the invariant.
LEMMA InitHasInv ==
  Init => ManagerInv
<1> SUFFICES ASSUME Init PROVE ManagerInv
  OBVIOUS
<1>1. policy \in Policy /\ file \in Policy
  BY DEF Init, Policy, Mode
<1> QED BY <1>1, StartHasInv DEF Init, Start

\* A crash keeps the invariant.
LEMMA CrashKeepsInv ==
  ASSUME ManagerInv, Crash PROVE ManagerInv'
<1>1. promised' \subseteq stateFile
  BY DEF Crash, ManagerInv, PromiseInv
<1>2. file \in Policy /\ stateFile \subseteq Net
  BY DEF ManagerInv, ManagerTypes
<1>3. Start'
  BY <1>1, <1>2 DEF Crash, Start, Boot
<1>4. Start' => ManagerInv'
  BY StartHasInv, PTL
<1> QED BY <1>3, <1>4

\* Every step keeps the invariant.
LEMMA StepKeepsInv ==
  ManagerInv /\ [Next]_vars => ManagerInv'
<1> SUFFICES ASSUME ManagerInv, [Next]_vars PROVE ManagerInv'
  OBVIOUS
<1>1. Editor \subseteq Client /\ Banner \subseteq Client
  BY DEF Client
<1>2. CASE UNCHANGED vars
  <2>1. UNCHANGED <<policy, file, request, update, inner, engine, queue, answer,
                    stateFile, promised>>
    BY <1>2 DEF vars, managerVars, engineVars
  <2>2. ManagerTypes' /\ UpdateInv'
    BY <2>1 DEF ManagerInv, ManagerTypes, UpdateInv, At
  <2>3. EngineInv' /\ PolicyInv' /\ PromiseInv'
    BY <2>1 DEF ManagerInv, EngineInv, Running, At, PolicyInv, InForce, PromiseInv, Flushing
  <2>4. QueueInv'
    BY <2>1 DEF ManagerInv, QueueInv, Running, At, SentBy, Waits
  <2> QED BY <2>2, <2>3, <2>4 DEF ManagerInv
<1>3. CASE \E c \in Editor : ReadAndEdit(c) \/ Lock(c)
  BY <1>1, <1>3, HandlersKeepInv, LockKeepsInv
<1>4. CASE Replacing
  BY <1>4, EnterKeepsInv, AnswersKeepInv, UpdateRefusedKeepsInv, GiveUpKeepsInv,
     DisabledKeepsInv, LoadKeepsInv, EndsKeepInv, LaunchKeepsInv, LaunchFailsKeepsInv,
     JoinedKeepsInv, CommitKeepsInv DEF Replacing
<1>5. CASE Abandon
  BY <1>5, EndsKeepInv
<1>6. CASE \E c \in Banner, n \in Net : CheckBan(c, n)
  BY <1>1, <1>6, HandlersKeepInv
<1>7. CASE \E c \in Banner : SendBan(c) \/ EndBan(c)
  BY <1>1, <1>7, SendBanKeepsInv, EndBanKeepsInv
<1>8. CASE \E c \in Client : HangUp(c)
  BY <1>8, HandlersKeepInv
<1>9. CASE \E e \in Engine : Worker(e) \/ Reverify(e) \/ HitScores(e) \/ Persist(e)
  BY <1>9, ServeUpdateKeepsInv, ServeOthersKeepInv, ServeStopKeepsInv, PollsKeepInv
     DEF Worker
<1>10. CASE \E e \in Engine, n \in Net : HitBans(e, n)
  BY <1>10, PollsKeepInv
<1>11. CASE Crash
  BY <1>11, CrashKeepsInv
<1> QED BY <1>2, <1>3, <1>4, <1>5, <1>6, <1>7, <1>8, <1>9, <1>10, <1>11 DEF Next

(***************************************************************************)
(* The invariant of the manager: there are at most two engines, the queue  *)
(* in use ends with what the request that replaces the policy has sent,    *)
(* the engine runs by the policy that is about to be written, and what was *)
(* promised is in the engine and, from the flush on, in the file.          *)
(***************************************************************************)
THEOREM ManagerInvariant ==
  Spec => []ManagerInv
<1>1. Init => ManagerInv
  BY InitHasInv
<1>2. ManagerInv /\ [Next]_vars => ManagerInv'
  BY StepKeepsInv
<1> QED BY <1>1, <1>2, PTL DEF Spec

\* The invariant holds the types.
LEMMA InvGivesTypes ==
  ManagerInv => TypeOK
<1> SUFFICES ASSUME ManagerInv PROVE TypeOK
  OBVIOUS
<1> USE DEF ManagerInv
<1>1. ManagerTypes /\ update \in Update
  BY DEF ManagerTypes
<1>2. ASSUME NEW e \in Engine
      PROVE  queue[e] \in UNION {[1..k -> Command] : k \in 0..QueueCapacity}
  <2>1. queue[e] \in Seq(Command) /\ Len(queue[e]) <= QueueCapacity
    BY DEF ManagerTypes, QueueInv
  <2>2. Len(queue[e]) \in 0..QueueCapacity
    BY <2>1, ManagerAssumption
  <2>3. queue[e] \in [1..Len(queue[e]) -> Command]
    BY <2>1
  <2> QED BY <2>2, <2>3
<1>3. \A e \in Engine : engine[e] \in EngineState
  BY DEF ManagerTypes
<1> QED BY <1>1, <1>2, <1>3 DEF TypeOK, ManagerTypes, Update, EngineState

(***************************************************************************)
(* The state of the manager has the types of firewall.rs, and no queue     *)
(* holds more commands than its capacity.                                  *)
(***************************************************************************)
THEOREM ManagerTypeCorrect ==
  Spec => []TypeOK
<1>1. ManagerInv => TypeOK
  BY InvGivesTypes
<1> QED BY <1>1, ManagerInvariant, PTL

\* The invariant holds the promises.
LEMMA InvKeepsPromises ==
  ManagerInv => PromisedBansKept
<1> SUFFICES ASSUME ManagerInv PROVE PromisedBansKept
  OBVIOUS
<1> USE DEF ManagerInv
<1>1. CASE At({"stopping"}) /\ engine[inner] = Absent
  <2>1. InUse = update.fresh /\ inner # None /\ ~engine[inner].dirty
    BY <1>1 DEF InUse, At, UpdateInv, Absent
  <2> QED BY <1>1, <2>1 DEF PromisedBansKept, PromiseInv
<1>2. CASE ~(At({"stopping"}) /\ engine[inner] = Absent)
  <2>1. InUse = inner /\ (inner # None => Running(inner))
    BY <1>2 DEF InUse, At, EngineInv
  <2> QED BY <2>1 DEF PromisedBansKept, PromiseInv
<1> QED BY <1>1, <1>2

(***************************************************************************)
(* A manual ban that was acknowledged is held by the engine in use, or by  *)
(* the state file when there is none, until a request exempts it or the    *)
(* disk refuses it: through updates that time out and are still carried    *)
(* out, replacements of the engine and crashes.                            *)
(***************************************************************************)
THEOREM PromisesKept ==
  Spec => []PromisedBansKept
<1>1. ManagerInv => PromisedBansKept
  BY InvKeepsPromises
<1> QED BY <1>1, ManagerInvariant, PTL

\* Only a request that is saving writes the file, and it writes what is in force.
LEMMA StepSavesWhatIsInForce ==
  ManagerInv /\ [Next]_vars =>
    (file' # file => IF file'.mode = "off" THEN inner = None
                     ELSE inner # None /\ engine[inner].policy = file')
<1> SUFFICES ASSUME ManagerInv, [Next]_vars, file' # file
             PROVE  InForce(file')
  BY DEF InForce
<1>1. update.step = "saving" /\ file' = policy
  <2>1. CASE Save \/ Abandon
    BY <2>1 DEF Save, Abandon
  <2>2. CASE Replacing /\ ~Save
    BY <2>2 DEF Replacing, Enter, Updated, UpdateRefused, Flushed, GiveUp, Disabled, Load,
                LoadFails, Launch, LaunchFails, Joined, Commit, SaveFails, Settle
  <2>3. CASE \E e \in Engine : Worker(e) \/ Reverify(e) \/ HitScores(e) \/ Persist(e)
    BY <2>3 DEF Worker, ServeUpdate, ServeDisable, ServeFlush, ServeAdd, ServeStop,
                Reverify, HitScores, Persist, managerVars
  <2>4. CASE \E e \in Engine, n \in Net : HitBans(e, n)
    BY <2>4 DEF HitBans, managerVars
  <2>5. CASE \/ \E c \in Editor : ReadAndEdit(c) \/ Lock(c)
             \/ \E c \in Banner, n \in Net : CheckBan(c, n)
             \/ \E c \in Banner : SendBan(c) \/ EndBan(c)
             \/ \E c \in Client : HangUp(c)
    BY <2>5 DEF ReadAndEdit, Lock, CheckBan, SendBan, EndBan, HangUp
  <2>6. CASE Crash \/ UNCHANGED vars
    BY <2>6 DEF Crash, vars, managerVars
  <2> QED BY <2>1, <2>2, <2>3, <2>4, <2>5, <2>6 DEF Next
<1> QED BY <1>1 DEF ManagerInv, PolicyInv, At

(***************************************************************************)
(* A policy is written to disk only when the engine in use runs by it.     *)
(***************************************************************************)
THEOREM PolicyInForce ==
  Spec => SavedPolicyInForce
<1>1. ManagerInv /\ [Next]_vars =>
        [file' # file => IF file'.mode = "off" THEN inner = None
                         ELSE inner # None /\ engine[inner].policy = file']_vars
  BY StepSavesWhatIsInForce
<1> QED BY <1>1, ManagerInvariant, PTL DEF Spec, SavedPolicyInForce

=============================================================================
