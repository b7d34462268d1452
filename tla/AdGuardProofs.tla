--------------------------- MODULE AdGuardProofs ---------------------------
(***************************************************************************)
(* What the two modules about AdGuard promise, AdGuardRewrites for any     *)
(* number of sites, other domains, copies and failures, and FilteringPause *)
(* for any number of clients and timers: each by itself, and both at work  *)
(* side by side.                                                           *)
(*                                                                         *)
(* WantedResolve holds because of what a call to ensure a rewrite does     *)
(* whenever it succeeds: its last look at the list has found a copy, or it *)
(* has added one. Between its deletions and that, the rewrite may be       *)
(* missing, and another task may have called it settled: RewritesInv       *)
(* therefore allows the rewrite to be missing while a call ensures it, and *)
(* asks more of the rest. It speaks of every other domain, wanted or not,  *)
(* and says that only a request which has disabled a site removes its      *)
(* rewrite.                                                                *)
(*                                                                         *)
(* AnswersHold holds because a request takes the timer of the last pause   *)
(* before it calls AdGuard, and because no timer runs whose handle is not  *)
(* in the slot, until requests overlap. PauseInv says so.                  *)
(***************************************************************************)
EXTENDS MCAdGuard, TLAPS

(* ------------------- rewrites: the invariant --------------------------- *)

Ensures(w, d) ==
  Calling(w) /\ task[w].call.op = "ensure" /\ task[w].call.domain = d

\* A rewrite that is settled is there, or about to be: but that of a disabled site.
SettledInv ==
  \A d \in (Others \cup links) \ unsettled :
    copies[d] > 0 \/ \E w \in Tasks : Ensures(w, d)

\* Only the request on a site removes a rewrite, that of the site it has disabled; and
\* a call that deletes has counted what it may delete.
CallsInv ==
  \A w \in Tasks : Calling(w) =>
    /\ task[w].call.op = "remove" => w = "site" /\ task[w].call.domain \in Sites \ links
    /\ task[w].call.step = "delete" => task[w].call.left > 0

RewritesInv == TypeOK /\ SettledInv /\ CallsInv

(* --------------------- pause: the invariant ---------------------------- *)

Asks(c) == request[c] # None

\* Until requests overlap: a request is alone, and answers nothing before its end; a
\* timer's handle is in the slot, or the request that has started it holds it; past its
\* first step a request has taken the handle of every other; and what was answered last
\* holds, with no timer left to change it.
UntangledInv ==
  /\ \A c, d \in Clients : Asks(c) /\ Asks(d) => c = d
  /\ (\E c \in Clients : Asks(c)) => last = None
  /\ \A t \in Timers : timers[t] # None => t = slot \/ \E c \in Clients : Pause!At(c, t)
  /\ \A c \in Clients : Asks(c) /\ ~Pause!At(c, "take") => slot = None
  /\ \A c \in Clients : Pause!At(c, "note") /\ Pause!Wants(c, "disable") => ~filtering
  /\ \A c \in Clients, t \in Timers : Pause!At(c, t) => Pause!Wants(c, "pause")
  /\ last = "disable" => ~filtering /\ slot = None
  /\ last = "enable" => filtering

PauseInv == Pause!TypeOK /\ (last = "tangled" \/ UntangledInv)

(* ------------------------ rewrites: lemmas ----------------------------- *)

\* A task that goes on changes its own state only.
LEMMA TaskGoes ==
  ASSUME TypeOK, NEW w \in Tasks, NEW t \in Task \cup {NoTask}, Set(w, t)
  PROVE  /\ task' \in [Tasks -> Task \cup {NoTask}]
         /\ task'[w] = t
         /\ \A v \in Tasks \ {w} : task'[v] = task[v]
BY DEF TypeOK, Set

\* A task at a call has one, of the right type.
LEMMA CallTypes ==
  ASSUME TypeOK, NEW w \in Tasks, Calling(w)
  PROVE  task[w] \in Task /\ task[w].call \in Call
BY NobodyAssumption DEF TypeOK, Calling, Task

\* A task record with another call is a task.
LEMMA TaskWithCall ==
  ASSUME NEW t \in Task, NEW c \in Call \cup {NoCall}
  PROVE  /\ [t EXCEPT !.call = c] \in Task
         /\ [t EXCEPT !.call = c].call = c
         /\ [t EXCEPT !.call = c] # NoTask
BY NobodyAssumption DEF Task

\* What AdGuard may do on a deletion or an addition changes one domain only.
LEMMA DeletedOne ==
  ASSUME copies \in [Domains -> 0..MaxCopies], NEW d \in Domains, NEW after \in Deleted(d)
  PROVE  after \in [Domains -> 0..MaxCopies] /\ \A e \in Domains \ {d} : after[e] = copies[e]
BY RewritesAssumption DEF Deleted

\* One more copy of a rewrite: there is one, and none is lost.
LEMMA AddedOne ==
  ASSUME copies \in [Domains -> 0..MaxCopies], NEW d \in Domains
  PROVE  /\ Added(d) \in [Domains -> 0..MaxCopies] /\ Added(d)[d] > 0
         /\ \A e \in Domains : Added(d)[e] >= copies[e]
BY RewritesAssumption DEF Added

\* What a call that failed may have done concerns its domain only.
LEMMA EffectsOne ==
  ASSUME TypeOK, NEW w \in Tasks, Calling(w), NEW after \in Effects(w)
  PROVE  /\ after \in [Domains -> 0..MaxCopies]
         /\ \A e \in Domains \ {task[w].call.domain} : after[e] = copies[e]
<1>1. task[w].call.domain \in Domains
  BY CallTypes DEF Call
<1>2. Added(task[w].call.domain) \in [Domains -> 0..MaxCopies]
  BY <1>1, AddedOne DEF TypeOK
<1>3. \A e \in Domains \ {task[w].call.domain} :
        Added(task[w].call.domain)[e] = copies[e]
  BY <1>1 DEF Added, TypeOK
<1>4. \/ after \in Deleted(task[w].call.domain)
      \/ after = copies
      \/ after = Added(task[w].call.domain)
  BY DEF Effects
<1>5. CASE after \in Deleted(task[w].call.domain)
  BY <1>1, <1>5, DeletedOne DEF TypeOK
<1> QED BY <1>2, <1>3, <1>4, <1>5 DEF TypeOK

\* The state of a task that has just begun, with a call or with domains to ensure.
LEMMA IdleTypes ==
  /\ Idle \in Task
  /\ \A c \in Call : [Idle EXCEPT !.call = c] \in Task /\ [Idle EXCEPT !.call = c].call = c
  /\ \A D \in SUBSET Domains :
       /\ [Idle EXCEPT !.ensure = D] \in Task /\ [Idle EXCEPT !.ensure = D].call = NoCall
       /\ [Idle EXCEPT !.stage = "list", !.ensure = D] \in Task
       /\ [Idle EXCEPT !.stage = "list", !.ensure = D].call = NoCall
<1>1. Nothing \in [Domains -> 0..MaxCopies]
  BY RewritesAssumption DEF Nothing
<1> QED BY <1>1 DEF Idle, Task

\* The fields of a call that begins.
LEMMA BegunTypes ==
  ASSUME NEW op \in {"ensure", "remove"}, NEW d \in Domains
  PROVE  /\ Begun(op, d) \in Call
         /\ Begun(op, d).op = op /\ Begun(op, d).domain = d /\ Begun(op, d).step = "read"
BY RewritesAssumption DEF Begun, Call

\* SettledInv survives a step of one task that loses no rewrite, but one that the task
\* ensures from then on, or that is unsettled from then on.
LEMMA SettledKept ==
  ASSUME TypeOK, SettledInv, NEW w \in Tasks, NEW t,
         task'[w] = t, \A v \in Tasks \ {w} : task'[v] = task[v],
         links' \subseteq links \cup unsettled', copies' \in [Domains -> 0..MaxCopies],
         \A d \in Domains \ unsettled' :
           /\ d \notin unsettled \/ copies'[d] > 0
           /\ copies'[d] >= copies[d] \/ copies'[d] > 0 \/ Ensures(w, d)'
           /\ Ensures(w, d) => Ensures(w, d)' \/ copies'[d] > 0
  PROVE  SettledInv'
<1> SUFFICES ASSUME NEW d \in (Others \cup links') \ unsettled', ~(copies'[d] > 0)
             PROVE  \E v \in Tasks : Ensures(v, d)'
  BY DEF SettledInv, Ensures, Calling
<1>1. d \in Domains /\ d \in (Others \cup links) \ unsettled
  BY DEF TypeOK, Domains
<1>2. CASE copies[d] > 0
  <2>1. ~(copies'[d] >= copies[d])
    BY <1>1, <1>2 DEF TypeOK
  <2> QED BY <1>1, <2>1 DEF TypeOK
<1>3. CASE \E v \in Tasks : Ensures(v, d)
  BY <1>1, <1>3 DEF Ensures, Calling
<1> QED BY <1>1, <1>2, <1>3 DEF SettledInv

\* CallsInv survives a step of one task that begins no wrong call.
LEMMA CallsKept ==
  ASSUME CallsInv, NEW w \in Tasks, NEW t,
         task'[w] = t, \A v \in Tasks \ {w} : task'[v] = task[v],
         links' \subseteq links \/ w = "site",
         t # NoTask /\ t.call # NoCall =>
           /\ t.call.op = "remove" => w = "site" /\ t.call.domain \in Sites \ links'
           /\ t.call.step = "delete" => t.call.left > 0
  PROVE  CallsInv'
BY DEF CallsInv, Calling

(* ------------------- rewrites: the steps of a call --------------------- *)

\* A call that goes on to its next step keeps the invariant.
LEMMA GoesKeepsInv ==
  ASSUME RewritesInv, NEW w \in Tasks, Calling(w),
         NEW step \in {"read", "delete", "check", "final", "recheck", "add"},
         NEW left \in 0..MaxCopies, step = "delete" => left > 0, Goes(w, step, left)
  PROVE  RewritesInv'
<1> USE DEF RewritesInv
<1> DEFINE t == [task[w] EXCEPT !.call.step = step, !.call.left = left]
<1>1. task[w] \in Task /\ task[w].call \in Call
  BY CallTypes
<1>2. /\ t \in Task /\ t.call \in Call
      /\ t.call.op = task[w].call.op /\ t.call.domain = task[w].call.domain
      /\ t.call.step = step /\ t.call.left = left
  BY <1>1 DEF Task, Call
<1>3. t # NoTask /\ t.call # NoCall
  BY <1>2, NobodyAssumption
<1>4. /\ task' \in [Tasks -> Task \cup {NoTask}]
      /\ task'[w] = t /\ \A v \in Tasks \ {w} : task'[v] = task[v]
  BY <1>2, TaskGoes DEF Goes
<1> HIDE DEF t
<1>5. UNCHANGED <<copies, files, links, saved, unsettled, cuts>>
  BY DEF Goes
<1>6. TypeOK'
  BY <1>4, <1>5 DEF TypeOK
<1>7. \A d \in Domains : Ensures(w, d) => Ensures(w, d)'
  BY <1>2, <1>3, <1>4 DEF Ensures, Calling
<1>8. \A d \in Domains : copies[d] \in Nat
  BY DEF TypeOK
<1>9. SettledInv'
  BY <1>4, <1>5, <1>6, <1>7, <1>8, SettledKept DEF TypeOK
<1>10. CallsInv'
  BY <1>1, <1>2, <1>3, <1>4, <1>5, CallsKept DEF CallsInv
<1> QED BY <1>6, <1>9, <1>10

\* So does one that succeeds and loses no rewrite, with a copy of its own if it ensures.
LEMMA ReturnsKeepsInv ==
  ASSUME RewritesInv, NEW w \in Tasks, Calling(w), NEW after, Returns(w, after),
         after \in [Domains -> 0..MaxCopies],
         \A d \in Domains : after[d] >= copies[d],
         task[w].call.op = "ensure" => after[task[w].call.domain] > 0
  PROVE  RewritesInv'
<1> USE DEF RewritesInv
<1> DEFINE t == [task[w] EXCEPT !.call = NoCall]
<1>1. task[w] \in Task /\ task[w].call \in Call
  BY CallTypes
<1>2. t \in Task /\ t.call = NoCall
  BY <1>1, TaskWithCall
<1>3. /\ task' \in [Tasks -> Task \cup {NoTask}]
      /\ task'[w] = t /\ \A v \in Tasks \ {w} : task'[v] = task[v]
  BY <1>2, TaskGoes DEF Returns
<1> HIDE DEF t
<1>4. copies' = after /\ UNCHANGED <<files, links, saved, cuts>>
  BY DEF Returns
<1>5. /\ unsettled' \subseteq unsettled
      /\ unsettled \ unsettled' \subseteq {task[w].call.domain}
      /\ unsettled' # unsettled => task[w].call.op = "ensure"
  BY DEF Returns
<1>6. TypeOK'
  BY <1>3, <1>4, <1>5 DEF TypeOK
<1>7. \A d \in Domains : Ensures(w, d) => copies'[d] > 0
  BY <1>4 DEF Ensures
<1>8. \A d \in unsettled \ unsettled' : copies'[d] > 0
  BY <1>4, <1>5
<1>9. SettledInv'
  BY <1>3, <1>4, <1>6, <1>7, <1>8, SettledKept DEF TypeOK
<1>10. CallsInv'
  BY <1>2, <1>3, <1>4, CallsKept
<1> QED BY <1>6, <1>9, <1>10

\* So does a step that ends a task's call, with a failure: its domain is unsettled.
LEMMA FailureKeepsInv ==
  ASSUME RewritesInv, NEW w \in Tasks, Calling(w), Set(w, AfterError(w)),
         copies' \in Effects(w), unsettled' = unsettled \cup {task[w].call.domain},
         cuts' \in 0..MaxCuts, UNCHANGED <<files, links, saved>>
  PROVE  RewritesInv'
<1> USE DEF RewritesInv
<1>1. task[w] \in Task /\ task[w].call \in Call /\ task[w].call.domain \in Domains
  BY CallTypes DEF Call
<1>2. /\ AfterError(w) \in Task \cup {NoTask}
      /\ AfterError(w) # NoTask => AfterError(w).call = NoCall
  BY <1>1 DEF AfterError, Task
<1>3. /\ task' \in [Tasks -> Task \cup {NoTask}]
      /\ task'[w] = AfterError(w) /\ \A v \in Tasks \ {w} : task'[v] = task[v]
  BY <1>2, TaskGoes
<1>4. /\ copies' \in [Domains -> 0..MaxCopies]
      /\ \A d \in Domains \ unsettled' : copies'[d] = copies[d] /\ ~Ensures(w, d)
  BY <1>1, EffectsOne DEF Ensures
<1>5. TypeOK'
  BY <1>1, <1>3, <1>4 DEF TypeOK
<1>6. SettledInv'
  BY <1>3, <1>4, SettledKept DEF TypeOK
<1>7. CallsInv'
  BY <1>2, <1>3, CallsKept
<1> QED BY <1>5, <1>6, <1>7

\* So does every step of a call.
LEMMA CallStepKeepsInv ==
  ASSUME RewritesInv, NEW w \in Tasks, CallStep(w) PROVE RewritesInv'
<1> USE RewritesAssumption DEF RewritesInv, At
<1> DEFINE c == task[w].call
<1>1. \A d \in Domains : copies[d] \in 0..MaxCopies
  BY DEF TypeOK
<1>2. Calling(w) => /\ task[w] \in Task /\ c \in Call /\ c.domain \in Domains
                    /\ c.left \in 0..MaxCopies /\ c.op \in {"ensure", "remove"}
  BY CallTypes DEF Call
<1>3. ASSUME Calling(w), Returns(w, copies), c.op = "ensure" => copies[c.domain] > 0
      PROVE  RewritesInv'
  BY <1>1, <1>3, ReturnsKeepsInv DEF TypeOK
<1>4. ASSUME Calling(w), Cleaned(w) PROVE RewritesInv'
  BY <1>3, <1>4, GoesKeepsInv DEF Cleaned
<1>5. CASE EnsureNext(w)
  <2>1. PICK d \in task[w].ensure :
          Set(w, [task[w] EXCEPT !.ensure = @ \ {d}, !.call = Begun("ensure", d)])
    BY <1>5 DEF EnsureNext
  <2> DEFINE t == [task[w] EXCEPT !.ensure = @ \ {d}, !.call = Begun("ensure", d)]
  <2>2. task[w] \in Task /\ task[w].call = NoCall /\ d \in Domains
    BY <1>5 DEF EnsureNext, TypeOK, Task
  <2>3. /\ Begun("ensure", d) \in Call /\ Begun("ensure", d).op = "ensure"
        /\ Begun("ensure", d).step = "read"
    BY <2>2, BegunTypes
  <2>4. t \in Task /\ t.call = Begun("ensure", d)
    BY <2>2, <2>3 DEF Task
  <2>5. /\ task' \in [Tasks -> Task \cup {NoTask}]
        /\ task'[w] = t /\ \A v \in Tasks \ {w} : task'[v] = task[v]
    BY <2>1, <2>4, TaskGoes
  <2> HIDE DEF t
  <2>6. UNCHANGED <<copies, files, links, saved, unsettled, cuts>>
    BY <1>5 DEF EnsureNext
  <2>7. TypeOK'
    BY <2>5, <2>6 DEF TypeOK
  <2>8. \A e \in Domains : ~Ensures(w, e)
    BY <2>2 DEF Ensures, Calling
  <2>9. SettledInv'
    BY <1>1, <2>5, <2>6, <2>7, <2>8, SettledKept DEF TypeOK
  <2>10. CallsInv'
    BY <2>3, <2>4, <2>5, <2>6, CallsKept
  <2> QED BY <2>7, <2>9, <2>10
<1>6. CASE Read(w)
  BY <1>1, <1>2, <1>3, <1>6, GoesKeepsInv DEF Read
<1>7. CASE RemoveOne(w)
  <2> DEFINE t == [task[w] EXCEPT !.call.step = "check", !.call.left = @ - 1]
  <2>1. Calling(w) /\ c.step = "delete" /\ c.left > 0
    BY <1>7 DEF RemoveOne, CallsInv
  <2>2. /\ t \in Task /\ t.call \in Call
        /\ t.call.op = c.op /\ t.call.domain = c.domain /\ t.call.step = "check"
    <3>1. c.left - 1 \in 0..MaxCopies
      BY <1>2, <2>1
    <3> DEFINE d == [c EXCEPT !.step = "check", !.left = c.left - 1]
    <3>2. c \in Call /\ task[w] \in Task
      BY <1>2, <2>1
    <3>3. t = [task[w] EXCEPT !.call = d]
      BY <3>2 DEF Task, Call
    <3>4. /\ d \in Call
          /\ d.op = c.op /\ d.domain = c.domain /\ d.step = "check"
      <4> HIDE DEF c
      <4> QED BY <3>1, <3>2 DEF Call
    <3> HIDE DEF t, d
    <3> QED BY <3>2, <3>3, <3>4, TaskWithCall
  <2>3. t # NoTask /\ t.call # NoCall
    BY <2>2, NobodyAssumption
  <2>4. /\ task' \in [Tasks -> Task \cup {NoTask}]
        /\ task'[w] = t /\ \A v \in Tasks \ {w} : task'[v] = task[v]
    BY <1>7, <2>2, TaskGoes DEF RemoveOne
  <2> HIDE DEF t
  <2>5. UNCHANGED <<files, links, saved, unsettled, cuts>>
    BY <1>7 DEF RemoveOne
  <2>6. /\ copies' \in [Domains -> 0..MaxCopies]
        /\ \A d \in Domains \ {c.domain} : copies'[d] = copies[d]
    BY <1>2, <1>7, <2>1, DeletedOne DEF RemoveOne, TypeOK
  <2>7. TypeOK'
    BY <2>4, <2>5, <2>6 DEF TypeOK
  <2>8. \A d \in Domains : Ensures(w, d) => Ensures(w, d)'
    BY <2>2, <2>3, <2>4 DEF Ensures, Calling
  <2>9. CallsInv'
    BY <2>1, <2>2, <2>3, <2>4, <2>5, CallsKept DEF CallsInv
  <2>10. c.op = "remove" => c.domain \in Sites \ links
    BY <2>1 DEF CallsInv
  <2>11. c.op = "ensure" => Ensures(w, c.domain)
    BY <2>1 DEF Ensures
  <2>12. SettledInv'
    <3> SUFFICES ASSUME NEW d \in (Others \cup links) \ unsettled, ~(copies'[d] > 0)
                 PROVE  \E v \in Tasks : Ensures(v, d)'
      BY <2>5 DEF SettledInv, Ensures, Calling
    <3>1. d \in Domains
      BY DEF TypeOK, Domains
    <3>2. CASE d = c.domain
      <4>1. c.op = "ensure"
        BY <1>2, <2>1, <2>10, <3>2
      <4> QED BY <2>8, <2>11, <3>1, <3>2, <4>1
    <3>3. CASE d # c.domain
      <4>1. PICK v \in Tasks : Ensures(v, d)
        BY <2>6, <3>1, <3>3 DEF SettledInv
      <4> QED BY <2>4, <2>8, <3>1, <4>1 DEF Ensures, Calling
    <3> QED BY <3>2, <3>3
  <2> QED BY <2>7, <2>9, <2>12
<1>8. CASE CheckRemaining(w)
  BY <1>2, <1>4, <1>8, GoesKeepsInv DEF CheckRemaining
<1>9. CASE Converged(w)
  BY <1>4, <1>9 DEF Converged
<1>10. CASE Recheck(w)
  BY <1>1, <1>2, <1>3, <1>10, GoesKeepsInv DEF Recheck
<1>11. CASE Add(w)
  BY <1>2, <1>11, AddedOne, ReturnsKeepsInv DEF Add, TypeOK
<1>12. CASE CallFails(w)
  <2>1. cuts' \in 0..MaxCuts
    BY <1>12 DEF CallFails, TypeOK
  <2> QED BY <1>12, <2>1, FailureKeepsInv DEF CallFails
<1>13. CASE NotConverged(w)
  <2>1. copies \in Effects(w)
    BY <1>13 DEF NotConverged, Effects
  <2> QED BY <1>13, <2>1, FailureKeepsInv DEF NotConverged, TypeOK
<1>14. CASE End(w)
  <2>1. task[w] \in Task /\ task[w].call = NoCall
    BY <1>14 DEF End, Finished, TypeOK
  <2>2. /\ task' \in [Tasks -> Task \cup {NoTask}]
        /\ task'[w] = NoTask /\ \A v \in Tasks \ {w} : task'[v] = task[v]
    BY <1>14, TaskGoes DEF End
  <2>3. UNCHANGED <<copies, files, links, unsettled, cuts>>
    BY <1>14 DEF End
  <2>4. saved' \subseteq Others
    BY <1>14, <2>1 DEF End, TypeOK, Task
  <2>5. TypeOK'
    BY <2>2, <2>3, <2>4 DEF TypeOK
  <2>6. \A d \in Domains : ~Ensures(w, d)
    BY <2>1 DEF Ensures, Calling
  <2>7. SettledInv'
    BY <1>1, <2>2, <2>3, <2>5, <2>6, SettledKept DEF TypeOK
  <2>8. CallsInv'
    BY <2>2, <2>3, CallsKept
  <2> QED BY <2>5, <2>7, <2>8
<1> QED BY <1>5, <1>6, <1>7, <1>8, <1>9, <1>10, <1>11, <1>12, <1>13, <1>14 DEF CallStep

(* ---------------- rewrites: requests, updates, the start --------------- *)

\* A request that creates a site, or enables or disables one: its domain is unsettled.
LEMMA SiteRequestKeepsInv ==
  ASSUME RewritesInv, NEW s \in Sites, NEW on \in BOOLEAN, NEW told \in BOOLEAN,
         SiteRequest(s, on, told), files' \subseteq Sites, links' \subseteq files'
  PROVE  RewritesInv'
<1> USE DEF RewritesInv
<1> DEFINE call == Begun(IF on THEN "ensure" ELSE "remove", s)
           t == IF told THEN [Idle EXCEPT !.call = call] ELSE NoTask
<1>1. s \in Domains /\ "site" \in Tasks
  BY DEF Domains, Tasks
<1>2. /\ call \in Call /\ call.domain = s /\ call.step = "read"
      /\ call.op = "remove" => ~on
  BY <1>1, BegunTypes
<1> HIDE DEF call
<1>3. t \in Task \cup {NoTask} /\ (t = NoTask \/ t.call = call)
  BY <1>2, IdleTypes
<1> HIDE DEF t
<1>4. task["site"] = NoTask
  BY DEF SiteRequest
<1>5. /\ task' \in [Tasks -> Task \cup {NoTask}]
      /\ task'["site"] = t
      /\ \A v \in Tasks \ {"site"} : task'[v] = task[v]
  <2>1. CASE told
    <3>1. Set("site", t)
      BY <2>1 DEF SiteRequest, t, call
    <3> QED BY <1>1, <1>3, <3>1, TaskGoes
  <2>2. CASE ~told
    BY <1>1, <1>4, <2>2 DEF SiteRequest, TypeOK, t
  <2> QED BY <2>1, <2>2
<1>6. /\ UNCHANGED <<copies, saved, cuts>>
      /\ unsettled' = unsettled \cup {s}
      /\ links' \subseteq links \cup {s}
      /\ ~on => s \notin links'
  BY DEF SiteRequest
<1>7. TypeOK'
  BY <1>1, <1>5, <1>6 DEF TypeOK
<1>8. \A d \in Domains : ~Ensures("site", d) /\ copies[d] \in Nat
  BY <1>4 DEF Ensures, Calling, TypeOK
<1>9. SettledInv'
  BY <1>1, <1>5, <1>6, <1>7, <1>8, SettledKept DEF TypeOK
<1>10. CallsInv'
  BY <1>1, <1>2, <1>3, <1>5, <1>6, CallsKept
<1> QED BY <1>7, <1>9, <1>10

\* A deletion of a file, or someone else's addition.
LEMMA ElsewhereKeepsInv ==
  ASSUME RewritesInv, (\E s \in Sites : Delete(s)) \/ AddElsewhere
  PROVE  RewritesInv'
<1> USE DEF RewritesInv
<1>1. /\ UNCHANGED <<links, task, saved, unsettled, cuts>>
      /\ files' \subseteq files /\ links \subseteq files'
      /\ copies' \in [Domains -> 0..MaxCopies]
      /\ \A d \in Domains : copies'[d] >= copies[d]
  <2>1. CASE \E s \in Sites : Delete(s)
    BY <2>1 DEF Delete, TypeOK
  <2>2. CASE AddElsewhere
    <3>1. PICK d \in Others : copies' = Added(d)
      BY <2>2 DEF AddElsewhere
    <3> QED BY <2>2, <3>1, AddedOne DEF AddElsewhere, TypeOK, Domains
  <2> QED BY <2>1, <2>2
<1>2. TypeOK'
  BY <1>1 DEF TypeOK
<1>3. \A d \in Domains : copies[d] > 0 => copies'[d] > 0
  BY <1>1 DEF TypeOK
<1>4. SettledInv'
  BY <1>1, <1>3 DEF SettledInv, Ensures, Calling, TypeOK, Domains
<1>5. CallsInv'
  BY <1>1 DEF CallsInv, Calling
<1> QED BY <1>2, <1>4, <1>5

\* A step between two calls, which loses no settled rewrite.
LEMMA BetweenCallsKeepsInv ==
  ASSUME RewritesInv, NEW w \in Tasks, NEW t \in Task \cup {NoTask}, Set(w, t),
         Calling(w) => t # NoTask /\ t.call = task[w].call,
         t # NoTask /\ t.call # NoCall => Calling(w) /\ t.call = task[w].call,
         UNCHANGED <<files, links>>, cuts' \in 0..MaxCuts,
         saved' \subseteq Others, unsettled' \subseteq Domains,
         copies' \in [Domains -> 0..MaxCopies],
         \A d \in Domains \ unsettled' :
           copies'[d] >= copies[d] /\ (d \notin unsettled \/ copies'[d] > 0)
  PROVE  RewritesInv'
<1> USE DEF RewritesInv
<1>1. /\ task' \in [Tasks -> Task \cup {NoTask}]
      /\ task'[w] = t /\ \A v \in Tasks \ {w} : task'[v] = task[v]
  BY TaskGoes
<1>2. TypeOK'
  BY <1>1 DEF TypeOK
<1>3. \A d \in Domains : Ensures(w, d) => Ensures(w, d)'
  BY <1>1 DEF Ensures, Calling
<1>4. SettledInv'
  BY <1>1, <1>2, <1>3, SettledKept DEF TypeOK
<1>5. CallsInv'
  BY <1>1, CallsKept DEF CallsInv
<1> QED BY <1>2, <1>4, <1>5

\* The steps of the administrator's update, and of the task started with Router Hub,
\* between their calls.
LEMMA TasksKeepInv ==
  ASSUME RewritesInv,
         \/ \E desired \in SUBSET Others : Update(desired)
         \/ ReadExisting \/ Purge \/ UpdateFails \/ ListSites
  PROVE  RewritesInv'
<1> USE DEF RewritesInv
<1>1. /\ {"admin", "startup"} \subseteq Tasks
      /\ \A d \in Domains : copies[d] \in 0..MaxCopies
      /\ \A w \in Tasks : Calling(w) => task[w].call # NoCall /\ task[w] # NoTask
  BY DEF Tasks, TypeOK, Calling
<1>2. CASE \E desired \in SUBSET Others : Update(desired)
  <2>1. PICK desired \in SUBSET Others : Update(desired)
    BY <1>2
  <2> DEFINE t == [Idle EXCEPT !.stage = "existing", !.managed = ManagedDomains,
                               !.desired = desired]
  <2>2. t \in Task /\ t.call = NoCall
    <3>1. Idle \in Task /\ Idle.call = NoCall
      BY IdleTypes DEF Idle
    <3>2. ManagedDomains \in SUBSET Sites
      BY DEF ManagedDomains, TypeOK
    <3> QED BY <3>1, <3>2 DEF Task
  <2>3. ~Calling("admin") /\ Set("admin", t)
    BY <2>1 DEF Update, Calling
  <2>4. UNCHANGED <<copies, files, links, saved, unsettled, cuts>>
    BY <2>1 DEF Update
  <2> HIDE DEF t
  <2> QED BY <1>1, <2>2, <2>3, <2>4, BetweenCallsKeepsInv DEF TypeOK
<1>3. CASE ReadExisting
  <2> DEFINE old == task["admin"]
             P == [d \in Domains |->
                     IF d \in Domains \ (old.managed \cup old.desired) THEN copies[d] ELSE 0]
             E == {d \in old.desired : copies[d] = 0}
             t == [old EXCEPT !.stage = "last", !.managed = {}, !.purge = P, !.ensure = E]
  <2>1. old \in Task /\ old # NoTask /\ old.desired \subseteq Others
    BY <1>1, <1>3 DEF ReadExisting, TypeOK, Task
  <2>2. P \in [Domains -> 0..MaxCopies]
    BY <1>1, RewritesAssumption
  <2>3. E \subseteq Domains
    BY <2>1 DEF Domains
  <2> HIDE DEF P, E
  <2>4. t \in Task /\ t.call = old.call
    BY <2>1, <2>2, <2>3 DEF Task
  <2>5. Set("admin", t)
    BY <1>3 DEF ReadExisting, P, E
  <2>6. t # NoTask
    BY <2>4, NobodyAssumption
  <2>7. old.call # NoCall => Calling("admin")
    BY <2>1 DEF Calling
  <2>8. /\ UNCHANGED <<copies, files, links, cuts>>
        /\ saved' \subseteq Others /\ unsettled' \subseteq unsettled
        /\ \A d \in unsettled \ unsettled' : copies[d] > 0
    BY <1>3, <2>1 DEF ReadExisting, TypeOK
  <2> HIDE DEF t
  <2> QED BY <1>1, <2>4, <2>5, <2>6, <2>7, <2>8, BetweenCallsKeepsInv DEF TypeOK
<1>4. CASE Purge
  <2> DEFINE old == task["admin"]
  <2>1. PICK d \in Domains :
          /\ old.purge[d] > 0
          /\ copies' \in Deleted(d)
          /\ Set("admin", [old EXCEPT !.purge[d] = @ - 1])
          /\ unsettled' = unsettled \cup {d}
    BY <1>4 DEF Purge
  <2> DEFINE t == [old EXCEPT !.purge[d] = @ - 1]
  <2>2. old \in Task /\ old # NoTask
    BY <1>1, <1>4 DEF Purge, TypeOK
  <2>3. [old.purge EXCEPT ![d] = @ - 1] \in [Domains -> 0..MaxCopies]
    <3>1. old.purge \in [Domains -> 0..MaxCopies]
      BY <2>2 DEF Task
    <3>2. old.purge[d] - 1 \in 0..MaxCopies
      BY <2>1, <3>1, RewritesAssumption
    <3> QED BY <3>1, <3>2
  <2>4. t = [old EXCEPT !.purge = [old.purge EXCEPT ![d] = @ - 1]]
    BY <2>1, <2>2 DEF Task
  <2>5. t \in Task /\ t.call = old.call
    BY <2>2, <2>3, <2>4 DEF Task
  <2>6. t # NoTask
    BY <2>5, NobodyAssumption
  <2>7. old.call # NoCall => Calling("admin")
    BY <2>2 DEF Calling
  <2>8. /\ copies' \in [Domains -> 0..MaxCopies]
        /\ \A e \in Domains \ {d} : copies'[e] = copies[e]
    BY <2>1, DeletedOne DEF TypeOK
  <2>9. UNCHANGED <<files, links, saved, cuts>>
    BY <1>4 DEF Purge
  <2> HIDE DEF t
  <2>10. Set("admin", t)
    BY <2>1 DEF t
  <2> QED BY <1>1, <2>1, <2>5, <2>6, <2>7, <2>8, <2>9, <2>10, BetweenCallsKeepsInv DEF TypeOK
<1>5. CASE UpdateFails
  <2>1. cuts' \in 0..MaxCuts
    BY <1>5, RewritesAssumption DEF UpdateFails, TypeOK
  <2> QED BY <1>1, <1>5, <2>1, BetweenCallsKeepsInv DEF UpdateFails, TypeOK
<1>6. CASE ListSites
  <2> DEFINE t == [Idle EXCEPT !.ensure = links]
  <2>1. links \in SUBSET Domains
    BY DEF TypeOK, Domains
  <2>2. t \in Task /\ t.call = NoCall
    BY <2>1, IdleTypes
  <2>3. ~Calling("startup") /\ Set("startup", t)
    BY <1>6 DEF ListSites, Finished, Calling
  <2>4. UNCHANGED <<copies, files, links, saved, unsettled, cuts>>
    BY <1>6 DEF ListSites
  <2> HIDE DEF t
  <2> QED BY <1>1, <2>2, <2>3, <2>4, BetweenCallsKeepsInv DEF TypeOK
<1> QED BY <1>2, <1>3, <1>4, <1>5, <1>6

\* A restart leaves unsettled what a task was at work on.
LEMMA RewritesRestart ==
  ASSUME RewritesInv, Restart PROVE RewritesInv'
<1> USE DEF RewritesInv
<1>1. PICK w \in Tasks : copies' \in IF Calling(w) THEN Effects(w) ELSE {copies}
  BY DEF Restart
<1>2. /\ copies' \in [Domains -> 0..MaxCopies]
      /\ \A d \in Domains \ unsettled' : copies'[d] = copies[d]
  <2>1. CASE Calling(w)
    <3>1. task[w].call.domain \in Domains
      BY <2>1, CallTypes DEF Call
    <3>2. task[w].call.domain \in unsettled'
      BY <2>1, <3>1 DEF Restart, WorksOn, Calling
    <3> QED BY <1>1, <2>1, <3>2, EffectsOne
  <2>2. CASE ~Calling(w)
    BY <1>1, <2>2 DEF TypeOK
  <2> QED BY <2>1, <2>2
<1>3. \A v \in Tasks : task'[v] \in Task \cup {NoTask}
                       /\ (task'[v] = NoTask \/ task'[v].call = NoCall)
  <2> DEFINE D == {d \in Domains : copies'[d] > 1}
  <2>1. /\ StartupBegins(copies') \in Task
        /\ StartupBegins(copies').call = NoCall
    <3>1. D \in SUBSET Domains
      OBVIOUS
    <3>2. StartupBegins(copies') = [Idle EXCEPT !.stage = "list", !.ensure = D]
      BY DEF StartupBegins
    <3> QED BY <3>1, <3>2, IdleTypes
  <2> QED BY <2>1 DEF Restart
<1>4. TypeOK'
  <2>1. task' \in [Tasks -> Task \cup {NoTask}]
    BY <1>3 DEF Restart
  <2>2. cuts' \in 0..MaxCuts
    BY RewritesAssumption DEF Restart, TypeOK
  <2> QED BY <1>2, <2>1, <2>2 DEF Restart, TypeOK
<1>5. \A d \in Domains \ unsettled' : \A v \in Tasks : ~Ensures(v, d)
  BY DEF Restart, Ensures, WorksOn, Calling
<1>6. SettledInv'
  <2> SUFFICES ASSUME NEW d \in (Others \cup links) \ unsettled' PROVE copies'[d] > 0
    BY DEF SettledInv, Restart
  <2>1. d \in Domains /\ d \notin unsettled
    BY DEF TypeOK, Domains, Restart
  <2> QED BY <1>2, <1>5, <2>1 DEF SettledInv
<1>7. CallsInv'
  BY <1>3 DEF CallsInv, Calling
<1> QED BY <1>4, <1>6, <1>7

(* ------------------ rewrites: the invariant holds ---------------------- *)

\* At the start nothing is settled, and the task that is started is at no call.
LEMMA RewritesInit ==
  Init => RewritesInv
<1> SUFFICES ASSUME Init PROVE RewritesInv
  OBVIOUS
<1> USE DEF Init
<1>1. copies \in [Domains -> 0..MaxCopies]
  BY RewritesAssumption
<1>2. \A v \in Tasks : task[v] \in Task \cup {NoTask}
                       /\ (task[v] = NoTask \/ task[v].call = NoCall)
  <2> DEFINE D == {d \in Domains : copies[d] > 1}
  <2>1. /\ StartupBegins(copies) \in Task
        /\ StartupBegins(copies).call = NoCall
    <3>1. D \in SUBSET Domains
      OBVIOUS
    <3>2. StartupBegins(copies) = [Idle EXCEPT !.stage = "list", !.ensure = D]
      BY DEF StartupBegins
    <3> QED BY <3>1, <3>2, IdleTypes
  <2> QED BY <2>1
<1>3. TypeOK
  <2>1. cuts \in 0..MaxCuts
    BY RewritesAssumption
  <2>2. task \in [Tasks -> Task \cup {NoTask}]
    BY <1>2
  <2> QED BY <1>1, <2>1, <2>2 DEF TypeOK
<1>4. SettledInv
  BY DEF SettledInv, Domains
<1>5. CallsInv
  BY <1>2 DEF CallsInv, Calling
<1> QED BY <1>3, <1>4, <1>5 DEF RewritesInv

\* Every step keeps the invariant.
LEMMA RewritesNext ==
  RewritesInv /\ [Next]_vars => RewritesInv'
<1> SUFFICES ASSUME RewritesInv, [Next]_vars PROVE RewritesInv'
  OBVIOUS
<1>1. ASSUME NEW s \in Sites, NEW told \in BOOLEAN,
             Create(s, told) \/ Enable(s, TRUE, told) \/ Enable(s, FALSE, told)
      PROVE  RewritesInv'
  <2> USE <1>1 DEF RewritesInv, TypeOK
  <2>1. PICK on \in BOOLEAN :
          /\ SiteRequest(s, on, told)
          /\ files' \subseteq Sites /\ links' \subseteq files'
    BY DEF Create, Enable, SiteRequest
  <2> QED BY <2>1, SiteRequestKeepsInv
<1>2. CASE UNCHANGED vars
  BY <1>2 DEF vars, RewritesInv, TypeOK, SettledInv, CallsInv, Ensures, Calling
<1>3. CASE Next
  BY <1>1, <1>3, CallStepKeepsInv, ElsewhereKeepsInv, TasksKeepInv, RewritesRestart DEF Next
<1> QED BY <1>2, <1>3

\* The invariant holds in every reachable state.
THEOREM RewritesInvariant == Spec => []RewritesInv
BY RewritesInit, RewritesNext, PTL DEF Spec

\* It implies what the run checks.
LEMMA RewritesImply ==
  RewritesInv => TypeOK /\ WantedResolve
BY DEF RewritesInv, SettledInv, TypeOK, WantedResolve, Ensures, WorksOn, Calling, Domains

\* Every variable of AdGuardRewrites keeps its type.
THEOREM RewritesTypeCorrect == Spec => []TypeOK
BY RewritesInvariant, RewritesImply, PTL

\* A rewrite that was settled stays in AdGuard's list, that of every enabled site and of
\* every other domain the administrator has saved, whenever no task is at work on it:
\* whatever the tasks have read before they write, and however many copies a deletion
\* takes (ensure_rewrite, remove_excess_rewrites, update_rewrites).
THEOREM WantedAlwaysResolve == Spec => []WantedResolve
BY RewritesInvariant, RewritesImply, PTL

(* ------------------------- pause: lemmas ------------------------------- *)

Requests ==
  {None} \cup [wish : Pause!Wishes, step : {"take", "call", "note"} \cup Timers]

\* A request has a wish and a step.
LEMMA AskTypes ==
  ASSUME Pause!TypeOK, NEW c \in Clients, Asks(c)
  PROVE  /\ request[c] \in Requests \ {None}
         /\ request[c].wish \in Pause!Wishes
         /\ request[c].step \in {"take", "call", "note"} \cup Timers
BY DEF Pause!TypeOK, Asks, Requests

\* A request that goes on keeps its wish, and is there.
LEMMA RequestGoes ==
  ASSUME Pause!TypeOK, NEW c \in Clients, Asks(c),
         NEW step \in {"take", "call", "note"} \cup Timers, Pause!Go(c, step)
  PROVE  /\ request' \in [Clients -> Requests]
         /\ request'[c] # None
         /\ request'[c].step = step /\ request'[c].wish = request[c].wish
         /\ \A d \in Clients \ {c} : request'[d] = request[d]
<1>1. request[c] \in [wish : Pause!Wishes, step : {"take", "call", "note"} \cup Timers]
  BY AskTypes DEF Requests
<1>2. /\ [request[c] EXCEPT !.step = step] \in
             [wish : Pause!Wishes, step : {"take", "call", "note"} \cup Timers]
      /\ [request[c] EXCEPT !.step = step].step = step
      /\ [request[c] EXCEPT !.step = step].wish = request[c].wish
  BY <1>1
<1>3. request \in [Clients -> Requests]
  BY DEF Pause!TypeOK, Requests
<1>4. /\ request'[c] = [request[c] EXCEPT !.step = step]
      /\ \A d \in Clients \ {c} : request'[d] = request[d]
      /\ request' \in [Clients -> Requests]
  BY <1>2, <1>3 DEF Pause!Go, Requests
<1> QED BY <1>2, <1>4, TimersAssumption DEF Pause!Wishes

\* A request that ends is gone.
LEMMA RequestEnds ==
  ASSUME Pause!TypeOK, NEW c \in Clients, request' = [request EXCEPT ![c] = None]
  PROVE  /\ request' \in [Clients -> Requests]
         /\ request'[c] = None
         /\ \A d \in Clients \ {c} : request'[d] = request[d]
BY DEF Pause!TypeOK, Requests

(* -------------------------- pause: the steps --------------------------- *)

\* A request comes: the first since the last answer, or one of several.
LEMMA AskKeepsInv ==
  ASSUME PauseInv, NEW c \in Clients, NEW wish \in Pause!Wishes, Pause!Ask(c, wish)
  PROVE  PauseInv'
<1> USE TimersAssumption DEF PauseInv, Pause!Ask
<1> DEFINE new == [wish |-> wish, step |-> "take"]
<1>1. new \in Requests /\ new # None /\ new.step = "take"
  BY DEF Requests, Pause!Wishes
<1>2. /\ request' \in [Clients -> Requests]
      /\ request'[c] = new
      /\ \A d \in Clients \ {c} : request'[d] = request[d]
  BY <1>1 DEF Pause!TypeOK, Requests
<1> HIDE DEF new
<1>3. Pause!TypeOK'
  BY <1>2 DEF Pause!TypeOK, Requests
<1>4. ASSUME last' # "tangled" PROVE UntangledInv'
  <2>1. UntangledInv /\ last' = None /\ \A d \in Clients : request[d] = None
    BY <1>4
  <2> QED BY <1>1, <1>2, <2>1 DEF UntangledInv, Asks, Pause!At, Pause!Wants
<1> QED BY <1>3, <1>4

\* A request takes and aborts the timer, and calls AdGuard; it starts a timer.
LEMMA RequestKeepsInv ==
  ASSUME PauseInv, NEW c \in Clients,
         Pause!TakeTimer(c) \/ Pause!SetFiltering(c) \/ Pause!StartTimer(c)
  PROVE  PauseInv'
<1> USE TimersAssumption DEF PauseInv
<1>1. Asks(c)
  BY DEF Pause!TakeTimer, Pause!SetFiltering, Pause!StartTimer, Pause!At, Asks
<1>2. CASE Pause!TakeTimer(c)
  <2>1. /\ request' \in [Clients -> Requests]
        /\ request'[c] # None /\ request'[c].step = "call"
        /\ \A d \in Clients \ {c} : request'[d] = request[d]
    BY <1>1, <1>2, RequestGoes DEF Pause!TakeTimer
  <2>2. /\ timers' \in [Timers -> {None, "sleeps", "resumes"}]
        /\ \A t \in Timers : timers'[t] = IF t = slot THEN None ELSE timers[t]
    BY <1>2 DEF Pause!TakeTimer, Pause!Abort, Pause!TypeOK
  <2>3. slot' = None /\ UNCHANGED <<filtering, noted, last, pauseCuts>>
    BY <1>2 DEF Pause!TakeTimer
  <2>4. Pause!TypeOK'
    BY <2>1, <2>2, <2>3 DEF Pause!TypeOK, Requests
  <2>5. ASSUME UntangledInv PROVE UntangledInv'
    <3>1. last = None /\ \A d \in Clients \ {c} : request[d] = None
      BY <1>1, <2>5 DEF UntangledInv, Asks
    <3>2. request[c].step = "take"
      BY <1>2 DEF Pause!TakeTimer, Pause!At
    <3>3. \A t \in Timers : timers'[t] = None
      BY <2>2, <2>5, <3>1, <3>2 DEF UntangledInv, Pause!At
    <3> QED BY <2>1, <2>3, <3>1, <3>3 DEF UntangledInv, Asks, Pause!At
  <2> QED BY <2>3, <2>4, <2>5
<1>3. CASE Pause!SetFiltering(c) /\ ~Pause!Wants(c, "enable")
  <2>1. /\ request' \in [Clients -> Requests]
        /\ request'[c] # None /\ request'[c].step = "note"
        /\ \A d \in Clients \ {c} : request'[d] = request[d]
    BY <1>1, <1>3, RequestGoes DEF Pause!SetFiltering
  <2>2. filtering' = FALSE /\ UNCHANGED <<noted, slot, timers, last, pauseCuts>>
    BY <1>3 DEF Pause!SetFiltering
  <2>3. Pause!TypeOK'
    BY <2>1, <2>2 DEF Pause!TypeOK, Requests
  <2>4. ASSUME UntangledInv PROVE UntangledInv'
    <3>1. last = None /\ \A d \in Clients \ {c} : request[d] = None
      BY <1>1, <2>4 DEF UntangledInv, Asks
    <3>2. request[c].step = "call" /\ slot = None
      BY <1>1, <1>3, <2>4 DEF Pause!SetFiltering, Pause!At, UntangledInv
    <3>3. \A t \in Timers : timers[t] = None
      BY <2>4, <3>1, <3>2 DEF UntangledInv, Pause!At
    <3> QED BY <2>1, <2>2, <3>1, <3>2, <3>3 DEF UntangledInv, Asks, Pause!At
  <2> QED BY <2>2, <2>3, <2>4
<1>4. CASE Pause!SetFiltering(c) /\ Pause!Wants(c, "enable")
  <2>1. /\ request' \in [Clients -> Requests]
        /\ request'[c] = None
        /\ \A d \in Clients \ {c} : request'[d] = request[d]
    BY <1>4, RequestEnds DEF Pause!SetFiltering, Pause!Answer
  <2>2. /\ filtering' = TRUE /\ UNCHANGED <<noted, slot, timers, pauseCuts>>
        /\ last' = IF last = "tangled" THEN last ELSE "enable"
    BY <1>4 DEF Pause!SetFiltering, Pause!Answer, Pause!Wants
  <2>3. Pause!TypeOK'
    BY <2>1, <2>2 DEF Pause!TypeOK, Requests, Pause!Wishes
  <2>4. ASSUME UntangledInv PROVE UntangledInv'
    <3>1. last = None /\ \A d \in Clients \ {c} : request[d] = None
      BY <1>1, <2>4 DEF UntangledInv, Asks
    <3>2. request[c].step = "call"
      BY <1>4 DEF Pause!SetFiltering, Pause!At
    <3>3. \A t \in Timers : timers[t] # None => t = slot
      BY <2>4, <3>1, <3>2 DEF UntangledInv, Pause!At
    <3> QED BY <2>1, <2>2, <3>1, <3>3 DEF UntangledInv, Asks, Pause!At
  <2> QED BY <2>2, <2>3, <2>4
<1>5. CASE Pause!StartTimer(c)
  <2>1. PICK t \in Timers :
          /\ timers[t] = None /\ t # slot
          /\ timers' = [timers EXCEPT ![t] = "sleeps"]
          /\ request' = [request EXCEPT ![c] = [wish |-> "pause", step |-> t]]
    BY <1>5 DEF Pause!StartTimer
  <2>2. [wish |-> "pause", step |-> t] \in Requests \ {None}
    BY DEF Requests, Pause!Wishes
  <2>3. /\ request' \in [Clients -> Requests]
        /\ request'[c] # None /\ request'[c].step = t /\ request'[c].wish = "pause"
        /\ \A d \in Clients \ {c} : request'[d] = request[d]
    BY <2>1, <2>2 DEF Pause!TypeOK, Requests
  <2>4. noted' = TRUE /\ UNCHANGED <<filtering, slot, last, pauseCuts>>
    BY <1>5 DEF Pause!StartTimer
  <2>5. Pause!TypeOK'
    BY <2>1, <2>3, <2>4 DEF Pause!TypeOK, Requests
  <2>6. ASSUME UntangledInv PROVE UntangledInv'
    <3>1. last = None /\ \A d \in Clients \ {c} : request[d] = None
      BY <1>1, <2>6 DEF UntangledInv, Asks
    <3>2. request[c].step = "note" /\ slot = None
      BY <1>1, <1>5, <2>6 DEF Pause!StartTimer, Pause!At, UntangledInv
    <3>3. \A u \in Timers : timers[u] = None
      BY <2>6, <3>1, <3>2 DEF UntangledInv, Pause!At
    <3>4. \A u \in Timers \ {t} : timers'[u] = None
      BY <2>1, <3>3 DEF Pause!TypeOK
    <3> QED BY <2>3, <2>4, <3>1, <3>2, <3>4 DEF UntangledInv, Asks, Pause!At, Pause!Wants
  <2> QED BY <2>4, <2>5, <2>6
<1> QED BY <1>2, <1>3, <1>4, <1>5

\* A request is answered, or cut short: with a timer that nobody can abort any more, it
\* leaves a tangle.
LEMMA AnswerKeepsInv ==
  ASSUME PauseInv, NEW c \in Clients,
         Pause!NoteDisabled(c) \/ Pause!KeepTimer(c) \/ Pause!CutShort(c)
  PROVE  PauseInv'
<1> USE TimersAssumption DEF PauseInv
<1>1. Asks(c)
  BY DEF Pause!NoteDisabled, Pause!KeepTimer, Pause!CutShort, Pause!At, Asks
<1>2. /\ request' \in [Clients -> Requests]
      /\ request'[c] = None
      /\ \A d \in Clients \ {c} : request'[d] = request[d]
  BY RequestEnds DEF Pause!NoteDisabled, Pause!KeepTimer, Pause!CutShort, Pause!Answer
<1>3. request[c].wish \in Pause!Wishes
  BY <1>1, AskTypes
<1>4. timers' = timers
  BY DEF Pause!NoteDisabled, Pause!KeepTimer, Pause!CutShort
<1>5. UntangledInv => /\ last = None /\ \A d \in Clients \ {c} : request[d] = None
                      /\ \A d \in Clients : request'[d] = None
  BY <1>1, <1>2 DEF UntangledInv, Asks
<1>6. CASE Pause!NoteDisabled(c)
  <2>1. /\ noted' = FALSE /\ UNCHANGED <<filtering, slot, pauseCuts>>
        /\ last' = IF last = "tangled" THEN last ELSE "disable"
        /\ request[c].step = "note"
    BY <1>6 DEF Pause!NoteDisabled, Pause!Answer, Pause!At, Pause!Wants
  <2>2. Pause!TypeOK'
    BY <1>2, <1>4, <2>1 DEF Pause!TypeOK, Requests, Pause!Wishes
  <2>3. ASSUME UntangledInv PROVE UntangledInv'
    <3>1. ~filtering /\ slot = None
      BY <1>6, <1>1, <2>1, <2>3 DEF UntangledInv, Pause!NoteDisabled, Pause!At
    <3>2. \A t \in Timers : timers[t] = None
      BY <1>5, <2>1, <2>3, <3>1 DEF UntangledInv, Pause!At
    <3> QED BY <1>4, <1>5, <2>1, <2>3, <3>1, <3>2 DEF UntangledInv, Asks, Pause!At
  <2> QED BY <2>1, <2>2, <2>3
<1>7. CASE Pause!KeepTimer(c)
  <2>1. PICK t \in Timers : Pause!At(c, t) /\ slot' = t
    BY <1>7 DEF Pause!KeepTimer
  <2>2. /\ UNCHANGED <<filtering, noted, pauseCuts>>
        /\ last' = IF last = "tangled" THEN last ELSE request[c].wish
    BY <1>7 DEF Pause!KeepTimer, Pause!Answer
  <2>3. Pause!TypeOK'
    BY <1>2, <1>3, <1>4, <2>1, <2>2 DEF Pause!TypeOK, Requests
  <2>4. ASSUME UntangledInv PROVE UntangledInv'
    <3>1. slot = None /\ request[c].step = t
      BY <1>1, <2>1, <2>4 DEF UntangledInv, Pause!At
    <3>2. \A u \in Timers : timers[u] # None => u = t
      BY <1>5, <2>4, <3>1 DEF UntangledInv, Pause!At
    <3>3. request[c].wish = "pause"
      BY <2>1, <2>4 DEF UntangledInv, Pause!Wants
    <3> QED BY <1>4, <1>5, <2>1, <2>2, <2>4, <3>2, <3>3 DEF UntangledInv, Asks, Pause!At
  <2> QED BY <2>2, <2>3, <2>4
<1>8. CASE Pause!CutShort(c)
  <2>1. UNCHANGED <<noted, slot>> /\ pauseCuts' \in 0..MaxCuts
    BY <1>8, RewritesAssumption DEF Pause!CutShort, Pause!TypeOK
  <2>2. filtering' \in BOOLEAN
    <3>1. filtering' = filtering \/ filtering' = Pause!Wants(c, "enable")
      BY <1>8 DEF Pause!CutShort
    <3>2. Pause!Wants(c, "enable") \in BOOLEAN
      BY DEF Pause!Wants
    <3> QED BY <3>1, <3>2 DEF Pause!TypeOK
  <2>3. last' = last \/ last' = "tangled"
    BY <1>8 DEF Pause!CutShort
  <2>4. Pause!TypeOK'
    BY <1>2, <1>4, <2>1, <2>2, <2>3 DEF Pause!TypeOK, Requests
  <2>5. ASSUME UntangledInv, last' # "tangled" PROVE UntangledInv'
    <3>1. \A t \in Timers : ~Pause!At(c, t)
      BY <1>8, <2>5 DEF Pause!CutShort
    <3>2. \A t \in Timers : timers[t] # None => t = slot
      BY <1>5, <2>5, <3>1 DEF UntangledInv, Pause!At
    <3> QED BY <1>4, <1>5, <2>1, <2>3, <2>5, <3>2 DEF UntangledInv, Asks, Pause!At
  <2> QED BY <2>3, <2>4, <2>5
<1> QED BY <1>6, <1>7, <1>8

\* A timer fires, and turns filtering on or fails: it is not one that a later answer
\* should have ended.
LEMMA TimerKeepsInv ==
  ASSUME PauseInv, NEW t \in Timers,
         Pause!TimerStep(t) \/ Pause!ResumeFails(t)
  PROVE  PauseInv'
<1> USE TimersAssumption DEF PauseInv
<1>1. /\ timers[t] # None
      /\ timers' \in [Timers -> {None, "sleeps", "resumes"}]
      /\ \A u \in Timers : timers'[u] # None => timers[u] # None
  BY DEF Pause!TimerStep, Pause!Fire, Pause!Resume, Pause!ResumeFails, Pause!TypeOK
<1>2. /\ UNCHANGED <<slot, request, last>>
      /\ filtering' = filtering \/ filtering' = TRUE
      /\ noted' = noted \/ noted' = FALSE
  BY DEF Pause!TimerStep, Pause!Fire, Pause!Resume, Pause!ResumeFails
<1>3. Pause!TypeOK'
  <2>1. pauseCuts' \in 0..MaxCuts
    BY RewritesAssumption
       DEF Pause!TimerStep, Pause!Fire, Pause!Resume, Pause!ResumeFails, Pause!TypeOK
  <2>2. filtering' \in BOOLEAN /\ noted' \in BOOLEAN
    BY <1>2 DEF Pause!TypeOK
  <2> QED BY <1>1, <1>2, <2>1, <2>2 DEF Pause!TypeOK
<1>4. ASSUME UntangledInv PROVE UntangledInv'
  <2>1. CASE t = slot
    BY <1>1, <1>2, <1>4, <2>1 DEF UntangledInv, Asks, Pause!At, Pause!Wants
  <2>2. CASE \E c \in Clients : Pause!At(c, t)
    <3>1. PICK c \in Clients : Pause!At(c, t)
      BY <2>2
    <3>2. last = None /\ \A d \in Clients : ~Pause!At(d, "note")
      BY <1>4, <3>1 DEF UntangledInv, Asks, Pause!At
    <3> QED BY <1>1, <1>2, <1>4, <3>2 DEF UntangledInv, Asks, Pause!At, Pause!Wants
  <2> QED BY <1>1, <1>4, <2>1, <2>2 DEF UntangledInv
<1> QED BY <1>2, <1>3, <1>4

\* A restart forgets requests and timers.
LEMMA PauseRestart ==
  ASSUME PauseInv, Pause!Restart PROVE PauseInv'
<1> USE TimersAssumption DEF PauseInv, Pause!Restart
<1>1. pauseCuts' \in 0..MaxCuts
  BY RewritesAssumption DEF Pause!TypeOK
<1>2. Pause!TypeOK'
  BY <1>1 DEF Pause!TypeOK
<1>3. UntangledInv => UntangledInv'
  BY DEF UntangledInv, Asks, Pause!At
<1> QED BY <1>2, <1>3

(* -------------------- pause: the invariant holds ----------------------- *)

\* At the start nothing was asked.
LEMMA PauseInit ==
  Pause!Init => PauseInv
<1> SUFFICES ASSUME Pause!Init PROVE PauseInv
  OBVIOUS
<1> USE TimersAssumption DEF Pause!Init
<1>1. Pause!TypeOK
  <2>1. pauseCuts \in 0..MaxCuts
    BY RewritesAssumption
  <2> QED BY <2>1 DEF Pause!TypeOK
<1>2. UntangledInv
  BY DEF UntangledInv, Asks, Pause!At
<1> QED BY <1>1, <1>2 DEF PauseInv

\* Every step keeps the invariant.
LEMMA PauseNext ==
  PauseInv /\ [Pause!Next]_pauseVars => PauseInv'
<1> SUFFICES ASSUME PauseInv, [Pause!Next]_pauseVars PROVE PauseInv'
  OBVIOUS
<1>1. CASE UNCHANGED pauseVars
  BY <1>1 DEF pauseVars, PauseInv, Pause!TypeOK, UntangledInv, Asks, Pause!At, Pause!Wants
<1>2. CASE Pause!Next
  BY <1>2, AskKeepsInv, RequestKeepsInv, AnswerKeepsInv, TimerKeepsInv, PauseRestart
     DEF Pause!Next, Pause!RequestStep
<1> QED BY <1>1, <1>2

\* It implies what the run checks.
LEMMA PauseImplies ==
  PauseInv => Pause!TypeOK /\ AnswersHold
BY TimersAssumption DEF PauseInv, UntangledInv, AnswersHold, Pause!AnswersHold

\* The invariant holds in every reachable state.
THEOREM PauseInvariant == Pause!Spec => []PauseInv
<1>1. PauseInv /\ [Pause!Next]_(Pause!vars) => PauseInv'
  BY PauseNext DEF Pause!vars, pauseVars
<1> QED BY <1>1, PauseInit, PTL DEF Pause!Spec

\* Every variable of FilteringPause keeps its type, and filtering stays as the last
\* answered request left it, as long as requests come one at a time (set_filtering).
THEOREM AnswersAlwaysHold == Pause!Spec => [](Pause!TypeOK /\ AnswersHold)
BY PauseInvariant, PauseImplies, PTL

(* --------------------------- side by side ------------------------------ *)

\* The two at work in one process, in any order of their steps, as the run has them.
THEOREM AdGuardTypesCorrect == BothSpec => []BothTypeOK
<1> DEFINE I == RewritesInv /\ PauseInv
<1>1. BothInit => I
  BY RewritesInit, PauseInit DEF BothInit
<1>2. I /\ [BothNext]_<<part, vars, pauseVars>> => I'
  <2> SUFFICES ASSUME I, [BothNext]_<<part, vars, pauseVars>> PROVE I'
    OBVIOUS
  <2>1. [Next]_vars /\ [Pause!Next]_pauseVars
    BY DEF BothNext
  <2> QED BY <2>1, RewritesNext, PauseNext
<1>3. I => BothTypeOK
  BY RewritesImply, PauseImplies DEF BothTypeOK
<1> HIDE DEF I
<1> QED BY <1>1, <1>2, <1>3, PTL DEF BothSpec

=============================================================================
