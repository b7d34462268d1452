--------------------------- MODULE AdGuardRewrites ---------------------------
(***************************************************************************)
(* The DNS rewrites Router Hub keeps in AdGuard Home (adguard.rs,          *)
(* api/adguard.rs, main.rs). AdGuard holds a list in which a rewrite may   *)
(* occur more than once; every change is a read of the list followed by    *)
(* additions and deletions of single entries. Three tasks do that: the one *)
(* started with Router Hub, without a lock; the request on a site that     *)
(* holds nginx_lock; and an administrator who saves the list of the other  *)
(* domains.                                                                *)
(*                                                                         *)
(* A domain stands for one rewrite, the domain with its answer. A site's   *)
(* server name is its domain: that is what makes it managed. AdGuard may   *)
(* delete one copy of an entry or all of them: the code expects either.    *)
(***************************************************************************)
EXTENDS Naturals, FiniteSets

CONSTANTS
  Sites, Others,    \* the domains of nginx sites, and others
  NoTask, NoCall,
  MaxCopies,        \* bound: more copies of a rewrite are not told apart
  MaxCuts           \* bound: calls that fail, requests dropped, restarts in a task

Domains == Sites \cup Others
Tasks == {"startup", "site", "admin"}

ASSUME RewritesAssumption ==
  /\ Sites \cap Others = {}
  /\ MaxCopies \in Nat \ {0, 1} /\ MaxCuts \in Nat

VARIABLES
  copies,      \* domain -> how often AdGuard lists its rewrite
  files,       \* the sites that have a file
  links,       \* the enabled sites
  task,        \* what each task is doing
  saved,       \* other domains on the list the administrator last saved
  unsettled,   \* domains nothing is promised of: an ensure has yet to succeed
  cuts

vars == <<copies, files, links, task, saved, unsettled, cuts>>

\* One rewrite at work: the call that comes next, and the deletions it may still do.
Call == [op : {"ensure", "remove"}, domain : Domains,
         step : {"read", "delete", "check", "final", "recheck", "add"},
         left : 0..MaxCopies]

\* A task has entries to delete and domains to ensure; stage is what it reads next.
Task == [stage : {"list", "existing", "last"}, managed : SUBSET Sites,
         desired : SUBSET Others, purge : [Domains -> 0..MaxCopies],
         ensure : SUBSET Domains, call : Call \cup {NoCall}]

ASSUME NobodyAssumption == NoTask \notin Task /\ NoCall \notin Call

Nothing == [d \in Domains |-> 0]
Idle == [stage |-> "last", managed |-> {}, desired |-> {}, purge |-> Nothing,
         ensure |-> {}, call |-> NoCall]

Begun(op, d) == [op |-> op, domain |-> d, step |-> "read", left |-> 0]
Calling(w) == task[w] # NoTask /\ task[w].call # NoCall
At(w, step) == Calling(w) /\ task[w].call.step = step
WorksOn(w, d) == /\ task[w] # NoTask
                 /\ \/ task[w].purge[d] > 0
                    \/ Calling(w) /\ task[w].call.domain = d

Set(w, t) == task' = [task EXCEPT ![w] = t]

(* ------------------------------ the tasks ------------------------------ *)

\* deduplicate_rewrites: what is listed more than once.
StartupBegins(listed) ==
  [Idle EXCEPT !.stage = "list", !.ensure = {d \in Domains : listed[d] > 1}]

\* A request on a site has changed its link. With nginx stopped AdGuard is not told.
SiteRequest(s, on, told) ==
  /\ task["site"] = NoTask
  /\ links' = IF on THEN links \cup {s} ELSE links \ {s}
  /\ unsettled' = unsettled \cup {s}
  /\ IF told THEN Set("site", [Idle EXCEPT !.call = Begun(IF on THEN "ensure" ELSE "remove", s)])
             ELSE UNCHANGED task
  /\ UNCHANGED <<copies, saved, cuts>>

Create(s, told) == /\ s \notin files
                   /\ files' = files \cup {s}
                   /\ SiteRequest(s, TRUE, told)

Enable(s, on, told) == /\ s \in files
                       /\ SiteRequest(s, on, told)
                       /\ UNCHANGED files

\* The file of a site goes once AdGuard has been told: of one request on a disabled site.
Delete(s) ==
  /\ s \in files \ links
  /\ task["site"] = NoTask
  /\ files' = files \ {s}
  /\ UNCHANGED <<copies, links, task, saved, unsettled, cuts>>

\* managed_domains: those of all sites, the disabled ones too.
ManagedDomains == files

\* update_rewrites looks at the sites first, then at AdGuard's list.
Update(desired) ==
  /\ task["admin"] = NoTask
  /\ Set("admin", [Idle EXCEPT !.stage = "existing", !.managed = ManagedDomains, !.desired = desired])
  /\ UNCHANGED <<copies, files, links, saved, unsettled, cuts>>

ReadExisting ==
  LET t == task["admin"]
      unwanted == Domains \ (t.managed \cup t.desired)
  IN /\ t # NoTask /\ t.stage = "existing"
     /\ Set("admin", [t EXCEPT
                        !.stage = "last", !.managed = {},
                        !.purge = [d \in Domains |-> IF d \in unwanted THEN copies[d] ELSE 0],
                        !.ensure = {d \in t.desired : copies[d] = 0}])
     /\ saved' = saved \cap t.desired
     /\ unsettled' = unsettled \ {d \in t.desired : copies[d] > 0}
     /\ UNCHANGED <<copies, files, links, cuts>>

\* AdGuard deletes one copy or every copy, and does not mind when there is none.
Deleted(d) ==
  {[copies EXCEPT ![d] = 0]} \cup {[copies EXCEPT ![d] = IF @ = 0 THEN 0 ELSE @ - 1]}

\* A deletion of update_rewrites. It may hit a site that did not exist when the update
\* looked for sites: nothing is promised of that one any more.
Purge ==
  LET t == task["admin"] IN
  /\ t # NoTask
  /\ \E d \in Domains :
       /\ t.purge[d] > 0
       /\ copies' \in Deleted(d)
       /\ Set("admin", [t EXCEPT !.purge[d] = @ - 1])
       /\ unsettled' = unsettled \cup {d}
  /\ UNCHANGED <<files, links, saved, cuts>>

EnsureNext(w) ==
  LET t == task[w] IN
  /\ t # NoTask /\ t.call = NoCall /\ t.purge = Nothing
  /\ \E d \in t.ensure :
       Set(w, [t EXCEPT !.ensure = @ \ {d}, !.call = Begun("ensure", d)])
  /\ UNCHANGED <<copies, files, links, saved, unsettled, cuts>>

Finished(w) ==
  LET t == task[w] IN
  t # NoTask /\ t.call = NoCall /\ t.purge = Nothing /\ t.ensure = {}

\* The startup task goes on to the enabled sites.
ListSites ==
  /\ Finished("startup")
  /\ task["startup"].stage = "list"
  /\ Set("startup", [Idle EXCEPT !.ensure = links])
  /\ UNCHANGED <<copies, files, links, saved, unsettled, cuts>>

End(w) ==
  /\ Finished(w)
  /\ task[w].stage = "last"
  /\ Set(w, NoTask)
  /\ saved' = IF w = "admin" THEN task[w].desired ELSE saved
  /\ UNCHANGED <<copies, files, links, unsettled, cuts>>

(* --------------- ensure_rewrite and remove_all_rewrites ---------------- *)

\* What a call learns of its rewrite leads to the next one.
Goes(w, step, left) ==
  /\ Set(w, [task[w] EXCEPT !.call.step = step, !.call.left = left])
  /\ UNCHANGED <<copies, files, links, saved, unsettled, cuts>>

Returns(w, after) ==
  LET c == task[w].call IN
  /\ copies' = after
  /\ Set(w, [task[w] EXCEPT !.call = NoCall])
  /\ unsettled' = IF c.op = "ensure" THEN unsettled \ {c.domain} ELSE unsettled
  /\ UNCHANGED <<files, links, saved, cuts>>

Read(w) ==
  /\ At(w, "read")
  /\ LET c == task[w].call
         n == copies[c.domain]
     IN CASE c.op = "ensure" /\ n = 0 -> Goes(w, "add", 0)
          [] c.op = "ensure" /\ n > 1 -> Goes(w, "delete", n - 1)
          [] c.op = "remove" /\ n > 0 -> Goes(w, "delete", n)
          [] OTHER -> Returns(w, copies)

\* Mutation: what the deletions have left is not looked at.
CleanedTrusting(w) == Returns(w, copies)

\* One copy is left, or none: ensure_rewrite looks again, remove_all_rewrites is content.
Cleaned(w) ==
  IF task[w].call.op = "ensure" THEN Goes(w, "recheck", 0) ELSE Returns(w, copies)

Added(d) == [copies EXCEPT ![d] = IF @ = MaxCopies THEN @ ELSE @ + 1]

RemoveOne(w) ==
  /\ At(w, "delete")
  /\ copies' \in Deleted(task[w].call.domain)
  /\ Set(w, [task[w] EXCEPT !.call.step = "check", !.call.left = @ - 1])
  /\ UNCHANGED <<files, links, saved, unsettled, cuts>>

\* Mutation: the deletions are counted off by one.
CheckRemainingOnceMore(w) ==
  /\ At(w, "check")
  /\ LET c == task[w].call
     IN CASE copies[c.domain] <= 1 -> Cleaned(w)
          [] copies[c.domain] > 1 /\ c.left >= 0 -> Goes(w, "delete", c.left)
          [] OTHER -> Goes(w, "final", 0)

CheckRemaining(w) ==
  /\ At(w, "check")
  /\ LET c == task[w].call
     IN CASE copies[c.domain] <= 1 -> Cleaned(w)
          [] copies[c.domain] > 1 /\ c.left > 0 -> Goes(w, "delete", c.left)
          [] OTHER -> Goes(w, "final", 0)

Converged(w) ==
  /\ At(w, "final")
  /\ copies[task[w].call.domain] <= 1
  /\ Cleaned(w)

Recheck(w) ==
  /\ At(w, "recheck")
  /\ IF copies[task[w].call.domain] = 0 THEN Goes(w, "add", 0) ELSE Returns(w, copies)

Add(w) ==
  /\ At(w, "add")
  /\ Returns(w, Added(task[w].call.domain))

(* ----------------------------- failures -------------------------------- *)

\* deduplicate_rewrites gives up and the sites are next; a site that fails is skipped;
\* a request is over.
AfterError(w) ==
  CASE w # "startup" -> NoTask
    [] w = "startup" /\ task[w].stage = "list" -> [task[w] EXCEPT !.call = NoCall, !.ensure = {}]
    [] OTHER -> [task[w] EXCEPT !.call = NoCall]

\* What the call at work may have done when its answer does not arrive.
Effects(w) ==
  LET d == task[w].call.domain IN
  CASE At(w, "delete") -> Deleted(d) \cup {copies}
    [] At(w, "add") -> {copies, Added(d)}
    [] OTHER -> {copies}

\* A call fails, or the client of the request hangs up.
CallFails(w) ==
  /\ Calling(w)
  /\ cuts < MaxCuts
  /\ cuts' = cuts + 1
  /\ copies' \in Effects(w)
  /\ Set(w, AfterError(w))
  /\ unsettled' = unsettled \cup {task[w].call.domain}
  /\ UNCHANGED <<files, links, saved>>

\* "AdGuard rewrite cleanup did not converge."
NotConverged(w) ==
  /\ At(w, "final")
  /\ copies[task[w].call.domain] > 1
  /\ Set(w, AfterError(w))
  /\ unsettled' = unsettled \cup {task[w].call.domain}
  /\ UNCHANGED <<copies, files, links, saved, cuts>>

\* The update is dropped, or fails, between its calls.
UpdateFails ==
  /\ task["admin"] # NoTask /\ ~Calling("admin")
  /\ cuts < MaxCuts
  /\ cuts' = cuts + 1
  /\ Set("admin", NoTask)
  /\ UNCHANGED <<copies, files, links, saved, unsettled>>

\* Router Hub is killed and started again.
Restart ==
  /\ cuts < MaxCuts
  /\ cuts' = cuts + 1
  /\ \E w \in Tasks : copies' \in IF Calling(w) THEN Effects(w) ELSE {copies}
  /\ task' = [w \in Tasks |-> IF w = "startup" THEN StartupBegins(copies') ELSE NoTask]
  /\ unsettled' = unsettled \cup {d \in Domains : \E w \in Tasks : WorksOn(w, d)}
  /\ UNCHANGED <<files, links, saved>>

\* Someone adds a rewrite of another domain in AdGuard's own page.
AddElsewhere ==
  /\ \E d \in Others : copies' = Added(d)
  /\ UNCHANGED <<files, links, task, saved, unsettled, cuts>>

(* ---------------------------- specification ---------------------------- *)

Init ==
  /\ files \in SUBSET Sites
  /\ links \in SUBSET files
  /\ copies \in [Domains -> 0..2]
  /\ task = [w \in Tasks |-> IF w = "startup" THEN StartupBegins(copies) ELSE NoTask]
  /\ saved = {}
  /\ unsettled = Domains
  /\ cuts = 0

CallStep(w) ==
  \/ EnsureNext(w) \/ Read(w) \/ RemoveOne(w) \/ CheckRemaining(w) \/ Converged(w)
  \/ Recheck(w) \/ Add(w) \/ CallFails(w) \/ NotConverged(w) \/ End(w)

Next ==
  \/ \E s \in Sites, told \in BOOLEAN :
       Create(s, told) \/ Enable(s, TRUE, told) \/ Enable(s, FALSE, told)
  \/ \E s \in Sites : Delete(s)
  \/ \E desired \in SUBSET Others : Update(desired)
  \/ ReadExisting \/ Purge \/ UpdateFails
  \/ ListSites
  \/ \E w \in Tasks : CallStep(w)
  \/ Restart \/ AddElsewhere

Spec == Init /\ [][Next]_vars

(* ----------------------------- properties ------------------------------ *)

TypeOK ==
  /\ copies \in [Domains -> 0..MaxCopies]
  /\ links \subseteq files /\ files \subseteq Sites
  /\ task \in [Tasks -> Task \cup {NoTask}]
  /\ saved \subseteq Others /\ unsettled \subseteq Domains
  /\ cuts \in 0..MaxCuts

\* Once an ensure has succeeded, an enabled site's rewrite, and a rewrite of the saved
\* list, is in AdGuard's list whenever no task is at work on it: neither the clean-up
\* of duplicates, with AdGuard deleting one copy or all, nor two tasks that read before
\* either writes can lose it (ensure_rewrite, remove_excess_rewrites; main.rs:191).
WantedResolve ==
  \A d \in (links \cup saved) \ unsettled :
    (\A w \in Tasks : ~WorksOn(w, d)) => copies[d] > 0

=============================================================================
