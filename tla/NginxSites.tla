---------------------------- MODULE NginxSites ----------------------------
(***************************************************************************)
(* The nginx sites (api/nginx.rs, nginx.rs, nginx_sites.rs and the file    *)
(* transaction of nginx_render.rs). A request takes nginx_lock and works   *)
(* through its steps: it saves the input in sites.toml under a roll-back   *)
(* guard, writes the site's file, its upstream rows and its link, has      *)
(* nginx test the tree and load it, and then drops the guard's undo. When  *)
(* a step fails the steps before it are undone by hand, in the handler.    *)
(*                                                                         *)
(* A hang-up drops a request where it awaits something, the process may be *)
(* killed between any two steps. Certificate requests rewrite the names of *)
(* the HTTP forwarder as well, without nginx_lock: that is left out.       *)
(*                                                                         *)
(* A site has one server name at a time, its alias, the same in its text   *)
(* and in the request; its settings go with it. What `nginx -t` answers is *)
(* open. A file and its rendered copies are one value, written at once;    *)
(* the writes of an error path succeed. No two sites share a row.          *)
(***************************************************************************)
EXTENDS Naturals, Sequences, FiniteSets

CONSTANTS
  Domains, Subdomains, Subfolders,   \* the sites, by kind
  Parent,       \* site -> its domain; a domain's is itself
  Folder,       \* subfolder -> the key of its upstream row, its path segment
  Aliases,      \* server names a site may have; its settings or text go with them
  Upstreams, NoUpstream,
  Edits,        \* bound: site -> the aliases and upstreams requests ask for
  Globals,      \* global settings
  Absent,       \* no file, no input
  Stopped,      \* nginx is not running
  NoRequest,
  MaxTorn       \* bound: requests cut off; when it is reached, no other begins

Sites == Domains \cup Subdomains \cup Subfolders

ASSUME SitesAssumption ==
  /\ Parent \in [Sites -> Domains]
  /\ \A s \in Domains : Parent[s] = s
  /\ NoUpstream \notin Upstreams
  /\ Edits \in [Sites -> SUBSET (Aliases \X (Upstreams \cup {NoUpstream}))]
  /\ \A s, t \in Subfolders : Folder[s] = Folder[t] => s = t
  /\ 0 \notin Aliases
  /\ MaxTorn \in Nat

VARIABLES
  disk,        \* the files below inputs_dir and root_dir
  loaded,      \* what nginx serves
  request,     \* the request that holds nginx_lock
  torn         \* requests cut off so far

vars == <<disk, loaded, request, torn>>

Input == [alias : Aliases, upstream : Upstreams \cup {NoUpstream}, enabled : BOOLEAN]
Managed(g, in) == [global |-> g, alias |-> in.alias]
Custom(in) == [global |-> Absent, alias |-> in.alias]
File == [global : Globals \cup {Absent}, alias : Aliases]

ASSUME AbsentAssumption == Absent \notin File \cup Input

Key(s, alias) == IF s \in Subfolders THEN <<Folder[s], 0>> ELSE <<s, alias>>
Family(s) == {t \in Sites : t = s \/ Parent[t] = s}

Disk ==
  [inputs : [Sites -> Input \cup {Absent}],      \* sites.toml
   files : [Sites -> File \cup {Absent}],        \* domains-available
   links : SUBSET Sites,                         \* the enabled links
   rows : SUBSET ({Key(s, a) : s \in Sites, a \in Aliases} \X Upstreams),
   names : SUBSET (Sites \X Aliases),   \* servers.conf
   global : Globals]                             \* nginx.toml

(* ------------------------- changes of the files ------------------------ *)

\* nginx_sites::save. An input that is absent removes the entry, and for a domain
\* those of its children.
Keep(d, s, in) ==
  LET lost == IF in = Absent /\ s \in Domains THEN Family(s) ELSE {s}
  IN [d EXCEPT !.inputs = [t \in Sites |-> IF t = s THEN in
                                           ELSE IF t \in lost THEN Absent ELSE @[t]]]

Write(d, s, file) == [d EXCEPT !.files[s] = file]

\* Mutation: a site without an upstream gets a row all the same.
SyncBlank(d, old, new, upstream) ==
  [d EXCEPT !.rows = {r \in @ : r[1] \notin old \cup new} \cup {<<k, upstream>> : k \in new}]

\* sync_site_upstream: the rows of the old keys and the new are replaced.
Sync(d, old, new, upstream) ==
  [d EXCEPT !.rows = {r \in @ : r[1] \notin old \cup new}
                       \cup {<<k, upstream>> : k \in IF upstream = NoUpstream THEN {} ELSE new}]

Link(d, s, on) == [d EXCEPT !.links = IF on THEN @ \cup {s} ELSE @ \ {s}]

\* The names reconcile_http_forwarder collects.
ForwarderNames(d) ==
  {<<s, d.files[s].alias>> : s \in {t \in d.links \ Subfolders :
                                      Parent[t] \in d.links /\ d.files[t] # Absent}}

Reconcile(d) == [d EXCEPT !.names = ForwarderNames(d)]

\* delete_object: a domain goes with its directory, the links of its children
\* included.
Erase(d, s) ==
  LET gone == IF s \in Domains THEN Family(s) ELSE {s}
  IN [d EXCEPT !.files = [t \in Sites |-> IF t \in gone THEN Absent ELSE @[t]],
               !.links = @ \ gone]

KeysOf(d, s) == IF d.files[s] = Absent THEN {} ELSE {Key(s, d.files[s].alias)}

\* The site's stored upstream, or else the one in its row.
UpstreamOf(d, s) ==
  IF d.inputs[s] # Absent THEN d.inputs[s].upstream
  ELSE LET mine == {r \in d.rows : r[1] \in KeysOf(d, s)}
       IN IF mine = {} THEN NoUpstream ELSE (CHOOSE r \in mine : TRUE)[2]

AliasOf(d, s) == IF d.inputs[s] # Absent THEN d.inputs[s].alias ELSE d.files[s].alias

\* put_settings: the files of the managed sites S, and their rows, from sites.toml.
Render(d, g, S) ==
  LET managed == {s \in S : d.inputs[s] # Absent}
      keys == {Key(s, d.inputs[s].alias) : s \in managed}
  IN [d EXCEPT
       !.files = [s \in Sites |-> IF s \in managed THEN Managed(g, d.inputs[s]) ELSE @[s]],
       !.rows = {r \in @ : r[1] \notin keys}
                  \cup {<<Key(s, d.inputs[s].alias), d.inputs[s].upstream>> :
                          s \in {t \in managed : d.inputs[t].upstream # NoUpstream}}]

\* What nginx makes of the tree: a child's file is included by its domain's.
Served(d) ==
  [s \in {t \in d.links : Parent[t] \in d.links /\ d.files[t] # Absent} |->
     [file |-> d.files[s], upstream |-> {r[2] : r \in {q \in d.rows : q[1] \in KeysOf(d, s)}}]]

(* ------------------------------ requests ------------------------------- *)

Running == loaded # Stopped
Steps == {"save", "write", "sync", "link", "forward", "test", "reload", "adguard",
          "erase", "unmap", "render"}

\* What a request has still to do, and what it needs for that. before is the disk
\* when it took the lock: the previous content and the bytes its guards restore.
Request ==
  [op : {"create", "update", "toggle", "delete", "settings", "lifecycle"},
   site : Sites \cup {Absent}, input : Input \cup {Absent}, file : File \cup {Absent},
   upstream : Upstreams \cup {NoUpstream}, enabled : BOOLEAN, start : BOOLEAN,
   global : Globals, before : Disk, todo : Seq(Steps)]

ASSUME RequestAssumption == NoRequest \notin Request

Plain ==   \* the request every request is a variation of
  [op |-> "lifecycle", site |-> Absent, input |-> Absent, file |-> Absent,
   upstream |-> NoUpstream, enabled |-> FALSE, start |-> FALSE,
   global |-> disk.global, before |-> disk, todo |-> <<>>]

Begin(r) ==
  /\ request = NoRequest
  /\ torn < MaxTorn
  /\ request' = r
  /\ UNCHANGED <<disk, loaded, torn>>

ChangeEnabled == <<"link", "forward", "test", "reload", "adguard">>

\* The file of an edit, and its input when the site is managed.
Edit(op, s, in, custom) ==
  [Plain EXCEPT !.op = op, !.site = s, !.upstream = in.upstream, !.enabled = in.enabled,
                !.input = IF custom THEN Absent ELSE in,
                !.file = IF custom THEN Custom(in) ELSE Managed(disk.global, in)]

\* read_object finds the file.
Exists(s) == disk.files[s] # Absent

Create(s, in, custom) ==
  Begin([Edit("create", s, in, custom) EXCEPT
           !.todo = <<"save", "write", "sync">>
                      \o IF in.enabled THEN ChangeEnabled ELSE <<"forward">>])

\* The content of a managed site can only be rendered; enabled is what the link says.
Update(s, in, custom) ==
  /\ Exists(s)
  /\ custom => disk.inputs[s] = Absent
  /\ in.enabled = (s \in disk.links)
  /\ Begin([Edit("update", s, in, custom) EXCEPT
              !.todo = <<"save", "write", "sync", "forward">>
                         \o IF in.enabled THEN <<"test", "reload">> ELSE <<>>])

\* object_action: enable, disable, stop, and start, which also starts nginx.
Toggle(s, on, start) ==
  /\ Exists(s)
  /\ start => on /\ (s \in Domains \/ Parent[s] \in disk.links)
  /\ LET in == disk.inputs[s] IN
     Begin([Plain EXCEPT !.op = "toggle", !.site = s, !.enabled = on, !.start = start,
              !.input = IF in = Absent THEN Absent ELSE [in EXCEPT !.enabled = on],
              !.todo = (IF in = Absent THEN <<>> ELSE <<"save">>) \o ChangeEnabled])

Delete(s) ==
  /\ Exists(s)
  /\ Begin([Plain EXCEPT !.op = "delete", !.site = s,
              !.todo = (IF s \in disk.links THEN ChangeEnabled ELSE <<>>)
                         \o <<"save", "erase", "unmap", "forward">>])

PutSettings(g) ==
  Begin([Plain EXCEPT !.op = "settings", !.global = g,
           !.todo = <<"render", "test", "reload">>])

\* The handlers reload and start.
Reload == Begin([Plain EXCEPT !.todo = <<"test", "reload">>])
Start == Begin([Plain EXCEPT !.start = TRUE, !.todo = <<"test", "reload">>])

Stop ==
  /\ request = NoRequest /\ Running
  /\ loaded' = Stopped
  /\ UNCHANGED <<disk, request, torn>>

(* ------------------------------- undoing ------------------------------- *)

\* Mutation: the guard is committed too early.
InputsKept(d, r) == d

\* Dropping the guard of sites.toml restores its bytes.
InputsBack(d, r) == [d EXCEPT !.inputs = r.before.inputs]

\* Mutations: the link is left as it is; the forwarder is.
LinkKept(d, r) == d
LinkOnlyBack(d, r) == Link(d, r.site, r.site \in r.before.links)

\* change_enabled: the link as it was, and the forwarder again.
LinkBack(d, r) == Reconcile(Link(d, r.site, r.site \in r.before.links))

NewKeys(r) == {Key(r.site, r.file.alias)}
OldKeys(r) == {Key(r.site, AliasOf(r.before, r.site))}

UndoCreate(d, r, step) ==
  CASE step \in {"save", "write"} -> InputsBack(d, r)
    [] step = "sync" -> InputsBack(Erase(d, r.site), r)
    [] step = "forward" /\ ~r.enabled ->
         InputsBack(Erase(Sync(d, NewKeys(r), {}, NoUpstream), r.site), r)
    [] OTHER ->
         InputsBack(Erase(Reconcile(Sync(LinkBack(d, r), NewKeys(r), {}, NoUpstream)),
                          r.site), r)

\* Mutation: the rows are not restored.
UndoUpdateText(d, r, step) ==
  IF step \in {"save", "write"} THEN InputsBack(d, r)
  ELSE InputsBack(Reconcile(Write(d, r.site, r.before.files[r.site])), r)

UndoUpdate(d, r, step) ==
  LET written == Write(d, r.site, r.before.files[r.site])
      synced == Sync(written, NewKeys(r), OldKeys(r), UpstreamOf(r.before, r.site))
  IN CASE step \in {"save", "write"} -> InputsBack(d, r)
       [] step = "sync" -> InputsBack(written, r)
       [] step = "forward" -> InputsBack(synced, r)
       [] OTHER -> InputsBack(Reconcile(synced), r)

\* The steps of change_enabled that come before a deletion proper.
Disabling(r) == r.op = "toggle" \/ \E i \in DOMAIN r.todo : r.todo[i] = "save"

\* What is left when a step fails. Once a deletion has disabled its site, it only
\* gets its input back.
Undo(d, r, step) ==
  CASE r.op = "create" -> UndoCreate(d, r, step)
    [] r.op = "update" -> UndoUpdate(d, r, step)
    [] r.op = "settings" -> r.before
    [] r.op \in {"toggle", "delete"} /\ step \in {"forward", "test", "reload"}
         /\ Disabling(r) -> InputsBack(LinkBack(d, r), r)
    [] OTHER -> InputsBack(d, r)

\* A dropped request: only its guard acts.
Dropped(d, r) == IF r.op = "settings" THEN r.before ELSE InputsBack(d, r)

(* -------------------------------- steps -------------------------------- *)

At(step) == /\ request # NoRequest
            /\ request.todo # <<>>
            /\ Head(request.todo) = step
Step == Head(request.todo)
Continue == request' = [request EXCEPT !.todo = Tail(@)]
Give == request' = NoRequest

\* A step that changes files and awaits nothing.
Change(step, after) ==
  /\ At(step)
  /\ disk' = after
  /\ Continue
  /\ UNCHANGED <<loaded, torn>>

SaveInputs == Change("save", Keep(disk, request.site, request.input))

\* write_object: a new site must not exist, and its domain must.
Writable(r) ==
  r.op = "create" => /\ disk.files[r.site] = Absent
                     /\ r.site \in Domains \/ disk.files[Parent[r.site]] # Absent

WriteObject ==
  /\ At("write") => Writable(request)
  /\ Change("write", Write(disk, request.site, request.file))

SyncUpstream ==
  LET old == IF request.op = "create" THEN {} ELSE OldKeys(request)
  IN Change("sync", Sync(disk, old, NewKeys(request), request.upstream))

SetEnabled == Change("link", Link(disk, request.site, request.enabled))
ReconcileForwarder == Change("forward", Reconcile(disk))
DeleteObject == Change("erase", Erase(disk, request.site))

\* The rows of all that was deleted, by the names in the deleted files.
RemoveUpstreams ==
  LET r == request
      gone == IF r.site \in Domains THEN Family(r.site) ELSE {r.site}
  IN Change("unmap",
            Sync(disk, UNION {KeysOf(r.before, s) : s \in gone}, {}, NoUpstream))

\* put_settings writes all its files; ReconcileForwarder is not part of it, the
\* names are rendered as they are.
ApplySettings ==
  Change("render", [Render(disk, request.global, Sites) EXCEPT !.global = request.global])

\* A write fails, or the site cannot be created: the steps so far are undone.
GivesUp(step) ==
  /\ disk' = Undo(disk, request, step)
  /\ Give
  /\ UNCHANGED <<loaded>>

\* A deletion past its change_enabled is not undone.
Unrestored(r) ==
  r.op = "delete" /\ ~(Head(r.todo) \in {"link", "forward"} /\ Disabling(r))

WriteFails ==
  /\ request # NoRequest
  /\ request.todo # <<>>
  /\ Step \notin {"test", "reload", "adguard"}
  /\ Unrestored(request) => torn < MaxTorn
  /\ GivesUp(Step)
  /\ torn' = IF Unrestored(request) THEN torn + 1 ELSE torn

Refuse ==
  /\ At("write")
  /\ ~Writable(request)
  /\ GivesUp("write")
  /\ UNCHANGED <<torn>>

TestAccepts ==
  /\ At("test")
  /\ Continue
  /\ UNCHANGED <<disk, loaded, torn>>

TestRejects ==
  /\ At("test")
  /\ GivesUp("test")
  /\ UNCHANGED <<torn>>

\* What is asked of nginx: to reload, to start, or nothing. Starting it twice fails.
Reloads == Running /\ (request.start => request.op = "toggle")
Launches == ~Running /\ request.start

\* Where nginx was not asked AdGuard is not told.
Untold(todo) == IF todo # <<>> /\ Head(todo) = "adguard" THEN Tail(todo) ELSE todo

\* It has loaded the tree, or there was nothing to do.
LoadConfig ==
  /\ At("reload")
  /\ IF Reloads \/ Launches
     THEN /\ loaded' = Served(disk)
          /\ Continue
     ELSE /\ loaded' = loaded
          /\ request' = [request EXCEPT !.todo = Untold(Tail(@))]
  /\ UNCHANGED <<disk, torn>>

\* It refuses, or does not answer in time (late: it loads the tree all the same).
\* An update and a change of the settings then reload what they restored.
LoadFails ==
  /\ At("reload")
  /\ Reloads \/ Launches
  /\ \E late \in BOOLEAN :
       LET now == IF late THEN Served(disk) ELSE loaded
           after == Undo(disk, request, "reload")
           again == request.op \in {"update", "settings"}
       IN /\ late => torn < MaxTorn
          /\ torn' = IF late THEN torn + 1 ELSE torn
          /\ disk' = after
          /\ loaded' \in {now} \cup IF again THEN {Served(after)} ELSE {}
  /\ Give

\* The AdGuard rewrite of the site: its outcome is ignored.
TellAdGuard ==
  /\ At("adguard")
  /\ Continue
  /\ UNCHANGED <<disk, loaded, torn>>

Commit ==
  /\ request # NoRequest
  /\ request.todo = <<>>
  /\ Give
  /\ UNCHANGED <<disk, loaded, torn>>

\* The client hangs up while its request waits for nginx or AdGuard.
HangUp ==
  /\ At("test") \/ At("reload") \/ At("adguard")
  /\ torn < MaxTorn
  /\ torn' = torn + 1
  /\ disk' = Dropped(disk, request)
  /\ loaded' \in {loaded} \cup IF At("reload") /\ (Reloads \/ Launches)
                               THEN {Served(disk)} ELSE {}
  /\ Give

\* A settings save that is killed has replaced some of its files.
HalfApplied ==
  {[Render(disk, request.global, S) EXCEPT !.global = g] :
     S \in SUBSET Sites, g \in {disk.global, request.global}}

\* Router Hub is killed and started again; nginx goes on.
Restart ==
  /\ request # NoRequest => torn < MaxTorn
  /\ torn' = IF request = NoRequest THEN torn ELSE torn + 1
  /\ \E found \in IF At("render") THEN HalfApplied ELSE {disk} :
       disk' = Reconcile(found)
  /\ Give
  /\ UNCHANGED <<loaded>>

(* ---------------------------- specification ---------------------------- *)

Init ==
  /\ \E g \in Globals :
       disk = [inputs |-> [s \in Sites |-> Absent], files |-> [s \in Sites |-> Absent],
               links |-> {}, rows |-> {}, names |-> {}, global |-> g]
  /\ loaded = Stopped
  /\ request = NoRequest
  /\ torn = 0

NewRequest ==
  \/ \E s \in Sites, on, custom \in BOOLEAN : \E edit \in Edits[s] :
       LET in == [alias |-> edit[1], upstream |-> edit[2], enabled |-> on]
       IN Create(s, in, custom) \/ Update(s, in, custom)
  \/ \E s \in Sites, on, start \in BOOLEAN : Toggle(s, on, start)
  \/ \E s \in Sites : Delete(s)
  \/ \E g \in Globals : PutSettings(g)
  \/ Reload
  \/ Start
  \/ Stop

RequestStep ==
  \/ SaveInputs \/ WriteObject \/ SyncUpstream \/ SetEnabled \/ ReconcileForwarder
  \/ DeleteObject \/ RemoveUpstreams \/ ApplySettings
  \/ WriteFails \/ Refuse \/ TestAccepts \/ TestRejects
  \/ LoadConfig \/ LoadFails \/ TellAdGuard \/ Commit \/ HangUp

Next == NewRequest \/ RequestStep \/ Restart

Spec == Init /\ [][Next]_vars

(* ----------------------------- properties ------------------------------ *)

\* The state has its type, and a request only what its handler can have left to do.
TypeOK ==
  /\ disk \in Disk
  /\ loaded # Stopped => DOMAIN loaded \subseteq Sites
  /\ request # NoRequest => /\ request.site \in Sites \cup {Absent}
                            /\ \A i \in DOMAIN request.todo : request.todo[i] \in Steps
                            /\ request.before \in Disk
  /\ torn \in 0..MaxTorn

Entry(d, s) ==
  [input |-> d.inputs[s], file |-> d.files[s], link |-> s \in d.links,
   rows |-> {r \in d.rows : \E a \in Aliases : r[1] = Key(s, a)}]

BlankEntry == [input |-> Absent, file |-> Absent, link |-> FALSE, rows |-> {}]

RowsOf(s, in) == IF in.upstream = NoUpstream THEN {} ELSE {<<Key(s, in.alias), in.upstream>>}

CoherentEntry(s, e, g) ==
  /\ e.file = Absent => e = BlankEntry
  /\ e.file # Absent => \A r \in e.rows : r[1] = Key(s, e.file.alias)
  /\ e.input # Absent => /\ e.file = Managed(g, e.input)
                         /\ e.link = e.input.enabled
                         /\ e.rows = RowsOf(s, e.input)

RenderedEntry(s, e, g) ==
  IF e.input = Absent THEN e
  ELSE [e EXCEPT !.file = Managed(g, e.input),
                 !.rows = {r \in @ : r[1] # Key(s, e.input.alias)} \cup RowsOf(s, e.input)]

ForgottenEntry(e) == [e EXCEPT !.input = Absent]

\* The tree as it was when the request in progress took the lock.
Settled == IF request = NoRequest THEN disk ELSE request.before

Store == INSTANCE SiteStore WITH
  Blank <- BlankEntry,
  Coherent <- CoherentEntry, Rendered <- RenderedEntry, Forgotten <- ForgottenEntry,
  entry <- [s \in Sites |-> Entry(Settled, s)],
  global <- Settled.global

\* Requests on sites are atomic (SiteStore): whatever step fails, be it a write, the
\* test or the reload, the site and all others are as they were, and when none does
\* all of the site changes at once (update_object, create_object, object_action,
\* delete_object, put_settings and their error paths).
RequestsAreAtomic == Store!Spec

\* Between requests, as long as none was cut off, sites.toml, the files, the links and
\* the upstream rows of every site say the same.
SitesAgree ==
  (request = NoRequest /\ torn = 0) =>
    \A s \in Sites : CoherentEntry(s, Entry(disk, s), disk.global)

\* Between requests, as long as none was cut off, a running nginx serves what the
\* files say: a failed request leaves neither its tree loaded nor the restored one
\* unloaded, and a disabled site needs no reload.
ServesWhatIsOnDisk ==
  (request = NoRequest /\ torn = 0 /\ Running) => loaded = Served(disk)

\* Between requests, as long as none was cut off, the HTTP forwarder names the enabled
\* sites and no other: every handler that changes a link, a server name or a file, and
\* every error path that undoes one, reconciles it afterwards.
ForwarderNamesAll ==
  (request = NoRequest /\ torn = 0) =>
    disk.names = ForwarderNames(disk)

=============================================================================
