------------------------- MODULE NginxSitesProofs -------------------------
(***************************************************************************)
(* Proofs about NginxSites: between requests sites.toml, the files, the    *)
(* links, the upstream rows and the names of the HTTP forwarder say the    *)
(* same, and a running nginx serves them, for every tree of sites, set of  *)
(* names and upstreams; and every request is one step of SiteStore.        *)
(*                                                                         *)
(* While a request holds nginx_lock the disk is neither the tree it found  *)
(* nor the one it makes. The invariant says that it is the tree the        *)
(* request found, changed by exactly the steps that are no longer in todo  *)
(* (Course). Then a proof about a failing step is one about Undo: it takes *)
(* the disk back to the tree the request found, provided that one was      *)
(* sound. And a proof about a request that ends is one about the tree it   *)
(* makes: it is sound when the one it found was.                           *)
(***************************************************************************)
EXTENDS NginxSites, SequenceTheorems, TLAPS

(* ------------------------------- the tree ------------------------------ *)

\* What the tree says about one site, field by field.
SiteSound(d, s) ==
  /\ d.files[s] = Absent =>
       /\ d.inputs[s] = Absent
       /\ s \notin d.links
       /\ \A q \in d.rows, a \in Aliases : q[1] # Key(s, a)
  /\ d.files[s] # Absent =>
       /\ d.files[Parent[s]] # Absent
       /\ \A q \in d.rows, a \in Aliases :
            q[1] = Key(s, a) => q[1] = Key(s, d.files[s].alias)
  /\ d.inputs[s] # Absent =>
       /\ d.files[s] = Managed(d.global, d.inputs[s])
       /\ (s \in d.links) = d.inputs[s].enabled
       /\ \A u \in Upstreams :
            <<Key(s, d.inputs[s].alias), u>> \in d.rows <=> u = d.inputs[s].upstream

\* A tree no request is at work on.
Sound(d) ==
  /\ \A s \in Sites : SiteSound(d, s)
  /\ \A p, q \in d.rows : p[1] = q[1] => p = q
  /\ d.names = ForwarderNames(d)

(* ------------------------------ requests ------------------------------- *)

\* The disk after each of a request's steps.
Saved(r) == Keep(r.before, r.site, r.input)
Written(r) == Write(Saved(r), r.site, r.file)
Mapped(r) == Sync(Written(r), IF r.op = "create" THEN {} ELSE OldKeys(r), NewKeys(r), r.upstream)
Linked(r) == Link(Mapped(r), r.site, r.enabled)
Toggled(r) == Link(IF r.input = Absent THEN r.before ELSE Saved(r), r.site, r.enabled)
Unlinked(r) == Reconcile(Link(r.before, r.site, r.enabled))
Gone(r) == IF r.site \in Domains THEN Family(r.site) ELSE {r.site}
Unmap(r, d) == Sync(d, UNION {KeysOf(r.before, s) : s \in Gone(r)}, {}, NoUpstream)
Applied(r) == [Render(r.before, r.global, Sites) EXCEPT !.global = r.global]

\* What the handlers put into a request.
Meant(r) ==
  /\ r \in Request
  /\ r.start => r.op \in {"toggle", "lifecycle"}
  /\ r.op \in {"create", "update"} =>
       /\ r.site \in Sites
       /\ r.file # Absent
       /\ r.input # Absent => /\ r.file = Managed(r.before.global, r.input)
                              /\ r.upstream = r.input.upstream
                              /\ r.enabled = r.input.enabled
  /\ r.op = "update" =>
       /\ r.before.files[r.site] # Absent
       /\ r.enabled = (r.site \in r.before.links)
       /\ r.input = Absent => r.before.inputs[r.site] = Absent
  /\ r.op = "toggle" =>
       /\ r.site \in Sites
       /\ r.before.files[r.site] # Absent
       /\ (r.input = Absent) = (r.before.inputs[r.site] = Absent)
       /\ r.input # Absent => r.input = [r.before.inputs[r.site] EXCEPT !.enabled = r.enabled]
  /\ r.op = "delete" =>
       /\ r.site \in Sites
       /\ r.before.files[r.site] # Absent
       /\ r.input = Absent
       /\ ~r.enabled

\* The object to be created does not exist, and its domain does.
Fresh(r) == /\ r.before.files[r.site] = Absent
            /\ r.site \in Domains \/ r.before.files[Parent[r.site]] # Absent

\* A request that has todo left has made d of the tree; nginx has loaded basis.
Stage(r, todo, d, basis) ==
  /\ r.todo = todo
  /\ disk = d
  /\ torn = 0 /\ Running => loaded = Served(basis)

\* What is left of change_enabled, with what follows it.
Told == <<"adguard">>
Loads == <<"reload", "adguard">>
Tests == <<"test", "reload", "adguard">>
Forwards == <<"forward", "test", "reload", "adguard">>
Links == <<"link", "forward", "test", "reload", "adguard">>
Maps == <<"sync", "link", "forward", "test", "reload", "adguard">>
Writes == <<"write", "sync", "link", "forward", "test", "reload", "adguard">>
Saves == <<"save", "write", "sync", "link", "forward", "test", "reload", "adguard">>
SavesLinks == <<"save", "link", "forward", "test", "reload", "adguard">>

LastLoads == <<"reload">>
LastTests == <<"test", "reload">>
LastForwards == <<"forward", "test", "reload">>
LastMaps == <<"sync", "forward", "test", "reload">>
LastWrites == <<"write", "sync", "forward", "test", "reload">>
LastSaves == <<"save", "write", "sync", "forward", "test", "reload">>
LastRenders == <<"render", "test", "reload">>

NamesOnly == <<"forward">>
MapsOnly == <<"sync", "forward">>
WritesOnly == <<"write", "sync", "forward">>
SavesOnly == <<"save", "write", "sync", "forward">>

Unmaps == <<"unmap", "forward">>
Erases == <<"erase", "unmap", "forward">>
Forgets == <<"save", "erase", "unmap", "forward">>
ToldForgets == <<"adguard", "save", "erase", "unmap", "forward">>
LoadsForgets == <<"reload", "adguard", "save", "erase", "unmap", "forward">>
TestsForgets == <<"test", "reload", "adguard", "save", "erase", "unmap", "forward">>
ForwardsForgets ==
  <<"forward", "test", "reload", "adguard", "save", "erase", "unmap", "forward">>
LinksForgets ==
  <<"link", "forward", "test", "reload", "adguard", "save", "erase", "unmap", "forward">>

CreateCourse(r) ==
  LET B == r.before IN
  /\ r.op = "create"
  /\ \/ /\ r.enabled
        /\ \/ Stage(r, Saves, B, B)
           \/ Stage(r, Writes, Saved(r), B)
           \/ /\ Fresh(r)
              /\ \/ Stage(r, Maps, Written(r), B)
                 \/ Stage(r, Links, Mapped(r), B)
                 \/ Stage(r, Forwards, Linked(r), B)
                 \/ Stage(r, Tests, Reconcile(Linked(r)), B)
                 \/ Stage(r, Loads, Reconcile(Linked(r)), B)
                 \/ Stage(r, Told, Reconcile(Linked(r)), Reconcile(Linked(r)))
                 \/ Stage(r, <<>>, Reconcile(Linked(r)), Reconcile(Linked(r)))
     \/ /\ ~r.enabled
        /\ \/ Stage(r, SavesOnly, B, B)
           \/ Stage(r, WritesOnly, Saved(r), B)
           \/ /\ Fresh(r)
              /\ \/ Stage(r, MapsOnly, Written(r), B)
                 \/ Stage(r, NamesOnly, Mapped(r), B)
                 \/ Stage(r, <<>>, Reconcile(Mapped(r)), B)

UpdateCourse(r) ==
  LET B == r.before IN
  /\ r.op = "update"
  /\ \/ /\ r.enabled
        /\ \/ Stage(r, LastSaves, B, B)
           \/ Stage(r, LastWrites, Saved(r), B)
           \/ Stage(r, LastMaps, Written(r), B)
           \/ Stage(r, LastForwards, Mapped(r), B)
           \/ Stage(r, LastTests, Reconcile(Mapped(r)), B)
           \/ Stage(r, LastLoads, Reconcile(Mapped(r)), B)
           \/ Stage(r, <<>>, Reconcile(Mapped(r)), Reconcile(Mapped(r)))
     \/ /\ ~r.enabled
        /\ \/ Stage(r, SavesOnly, B, B)
           \/ Stage(r, WritesOnly, Saved(r), B)
           \/ Stage(r, MapsOnly, Written(r), B)
           \/ Stage(r, NamesOnly, Mapped(r), B)
           \/ Stage(r, <<>>, Reconcile(Mapped(r)), B)

ToggleCourse(r) ==
  LET B == r.before IN
  /\ r.op = "toggle"
  /\ \/ r.input # Absent /\ Stage(r, SavesLinks, B, B)
     \/ Stage(r, Links, IF r.input = Absent THEN B ELSE Saved(r), B)
     \/ Stage(r, Forwards, Toggled(r), B)
     \/ Stage(r, Tests, Reconcile(Toggled(r)), B)
     \/ Stage(r, Loads, Reconcile(Toggled(r)), B)
     \/ Stage(r, Told, Reconcile(Toggled(r)), Reconcile(Toggled(r)))
     \/ Stage(r, <<>>, Reconcile(Toggled(r)), Reconcile(Toggled(r)))

\* The disk a deletion works on once its site is disabled, and its last steps.
Disabled(r) == IF r.site \in r.before.links THEN Unlinked(r) ELSE r.before
Dropping(r) == Keep(Disabled(r), r.site, r.input)
Erased(r) == Erase(Dropping(r), r.site)
Unmapped(r) == Unmap(r, Erased(r))

DeleteCourse(r) ==
  LET B == r.before IN
  /\ r.op = "delete"
  /\ \/ /\ r.site \in B.links
        /\ \/ Stage(r, LinksForgets, B, B)
           \/ Stage(r, ForwardsForgets, Link(B, r.site, r.enabled), B)
           \/ Stage(r, TestsForgets, Unlinked(r), B)
           \/ Stage(r, LoadsForgets, Unlinked(r), B)
           \/ Stage(r, ToldForgets, Unlinked(r), Unlinked(r))
     \/ Stage(r, Forgets, Disabled(r), Disabled(r))
     \/ Stage(r, Erases, Dropping(r), Disabled(r))
     \/ Stage(r, Unmaps, Erased(r), Disabled(r))
     \/ Stage(r, NamesOnly, Unmapped(r), Disabled(r))
     \/ Stage(r, <<>>, Reconcile(Unmapped(r)), Disabled(r))

SettingsCourse(r) ==
  LET B == r.before IN
  /\ r.op = "settings"
  /\ \/ Stage(r, LastRenders, B, B)
     \/ Stage(r, LastTests, Applied(r), B)
     \/ Stage(r, LastLoads, Applied(r), B)
     \/ Stage(r, <<>>, Applied(r), Applied(r))

LifecycleCourse(r) ==
  LET B == r.before IN
  /\ r.op = "lifecycle"
  /\ \/ Stage(r, LastTests, B, B)
     \/ Stage(r, LastLoads, B, B)
     \/ Stage(r, <<>>, B, B)

Course(r) ==
  \/ CreateCourse(r) \/ UpdateCourse(r) \/ ToggleCourse(r)
  \/ DeleteCourse(r) \/ SettingsCourse(r) \/ LifecycleCourse(r)

(* ---------------------------- the invariant ---------------------------- *)

TypeInv ==
  /\ disk \in Disk
  /\ loaded # Stopped => DOMAIN loaded \subseteq Sites
  /\ torn \in 0..MaxTorn

CourseInv == request # NoRequest => Meant(request) /\ Course(request)

SoundInv == torn = 0 => Sound(Settled)

LoadedInv == request = NoRequest /\ torn = 0 /\ Running => loaded = Served(disk)

SitesInv == TypeInv /\ CourseInv /\ SoundInv /\ LoadedInv

(* ----------------------------- types of a tree ------------------------- *)

Keys == {Key(s, a) : s \in Sites, a \in Aliases}

\* The fields of a tree, and that they are all there is to it.
LEMMA DiskFields ==
  ASSUME NEW d \in Disk
  PROVE  /\ d.inputs \in [Sites -> Input \cup {Absent}]
         /\ d.files \in [Sites -> File \cup {Absent}]
         /\ d.links \subseteq Sites
         /\ d.rows \subseteq Keys \X Upstreams
         /\ d.names \subseteq Sites \X Aliases
         /\ d.global \in Globals
BY DEF Disk, Keys

\* A tree is determined by its six parts.
LEMMA DiskEqual ==
  ASSUME NEW d \in Disk, NEW e \in Disk,
         d.inputs = e.inputs, d.files = e.files, d.links = e.links,
         d.rows = e.rows, d.names = e.names, d.global = e.global
  PROVE  d = e
BY DEF Disk

\* A row belongs to one site.
LEMMA KeyOfOne ==
  ASSUME NEW s \in Sites, NEW t \in Sites, NEW a \in Aliases, NEW b \in Aliases,
         Key(s, a) = Key(t, b)
  PROVE  s = t
BY SitesAssumption DEF Key

\* The fields of what a site was created from.
LEMMA InputFields ==
  ASSUME NEW i \in Input
  PROVE  /\ i # Absent
         /\ i.alias \in Aliases
         /\ i.upstream \in Upstreams \cup {NoUpstream}
         /\ i.enabled \in BOOLEAN
BY AbsentAssumption DEF Input

\* The fields of a site file.
LEMMA FileFields ==
  ASSUME NEW f \in File
  PROVE  f # Absent /\ f.alias \in Aliases /\ f.global \in Globals \cup {Absent}
BY AbsentAssumption DEF File

\* A file rendered from an input is a file that names the input's alias.
LEMMA ManagedIsFile ==
  ASSUME NEW g \in Globals, NEW i \in Input
  PROVE  /\ Managed(g, i) \in File
         /\ Managed(g, i) # Absent
         /\ Managed(g, i).alias = i.alias
<1>1. Managed(g, i) \in File
  BY InputFields DEF Managed, File
<1> QED BY <1>1, FileFields DEF Managed

\* A domain and its children; nobody is in two families.
LEMMA FamilyFacts ==
  ASSUME NEW s \in Sites
  PROVE  /\ s \in Family(s)
         /\ Family(s) \subseteq Sites
         /\ Parent[s] \in Sites
         /\ Parent[s] \in Domains
         /\ Parent[Parent[s]] = Parent[s]
         /\ s \notin Domains => Family(s) = {s}
         /\ \A t \in Sites : Parent[t] \in Family(s) => t \in Family(s)
<1>1. /\ Parent \in [Sites -> Domains]
      /\ \A t \in Domains : Parent[t] = t
  BY SitesAssumption
<1>2. Domains \subseteq Sites
  BY DEF Sites
<1>3. \A t \in Sites : Parent[t] \in Sites /\ Parent[t] \in Domains /\ Parent[Parent[t]] = Parent[t]
  BY <1>1, <1>2
<1>4. s \notin Domains => Family(s) = {s}
  BY <1>3 DEF Family
<1>5. \A t \in Sites : Parent[t] \in Family(s) => t \in Family(s)
  BY <1>3 DEF Family
<1> QED BY <1>3, <1>4, <1>5 DEF Family

(* ------------------------- what each step changes ---------------------- *)

\* Saving or forgetting an input changes nothing else; forgetting a domain's
\* forgets those below it.
LEMMA KeepFields ==
  ASSUME NEW d \in Disk, NEW s \in Sites, NEW in \in Input \cup {Absent}
  PROVE  /\ Keep(d, s, in) \in Disk
         /\ Keep(d, s, in).files = d.files
         /\ Keep(d, s, in).links = d.links
         /\ Keep(d, s, in).rows = d.rows
         /\ Keep(d, s, in).names = d.names
         /\ Keep(d, s, in).global = d.global
         /\ \A t \in Sites :
              Keep(d, s, in).inputs[t] =
                IF t = s THEN in
                ELSE IF in = Absent /\ s \in Domains /\ t \in Family(s) THEN Absent
                ELSE d.inputs[t]
<1> DEFINE lost == IF in = Absent /\ s \in Domains THEN Family(s) ELSE {s}
           inputs == [t \in Sites |-> IF t = s THEN in
                                      ELSE IF t \in lost THEN Absent ELSE d.inputs[t]]
<1>1. Keep(d, s, in) = [d EXCEPT !.inputs = inputs]
  BY DEF Keep
<1>2. inputs \in [Sites -> Input \cup {Absent}]
  BY DiskFields
<1>3. \A t \in Sites :
        inputs[t] = IF t = s THEN in
                    ELSE IF in = Absent /\ s \in Domains /\ t \in Family(s) THEN Absent
                    ELSE d.inputs[t]
  OBVIOUS
<1> HIDE DEF inputs
<1> QED BY <1>1, <1>2, <1>3 DEF Disk

\* Writing one file changes nothing else.
LEMMA WriteFields ==
  ASSUME NEW d \in Disk, NEW s \in Sites, NEW f \in File \cup {Absent}
  PROVE  /\ Write(d, s, f) \in Disk
         /\ Write(d, s, f).inputs = d.inputs
         /\ Write(d, s, f).links = d.links
         /\ Write(d, s, f).rows = d.rows
         /\ Write(d, s, f).names = d.names
         /\ Write(d, s, f).global = d.global
         /\ Write(d, s, f).files = [d.files EXCEPT ![s] = f]
<1> DEFINE files == [d.files EXCEPT ![s] = f]
<1>1. files \in [Sites -> File \cup {Absent}]
  BY DiskFields
<1>2. Write(d, s, f) = [d EXCEPT !.files = files]
  BY DEF Write
<1> HIDE DEF files
<1>3. /\ Write(d, s, f) \in Disk
      /\ Write(d, s, f).inputs = d.inputs
      /\ Write(d, s, f).links = d.links
      /\ Write(d, s, f).rows = d.rows
      /\ Write(d, s, f).names = d.names
      /\ Write(d, s, f).global = d.global
      /\ Write(d, s, f).files = files
  BY <1>1, <1>2 DEF Disk
<1> QED BY <1>3 DEF files

\* The rows that a synchronisation leaves.
NewRows(d, old, new, upstream) ==
  {r \in d.rows : r[1] \notin old \cup new}
     \cup {<<k, upstream>> : k \in IF upstream = NoUpstream THEN {} ELSE new}

\* Moving the rows of a site changes the rows only.
LEMMA SyncFields ==
  ASSUME NEW d \in Disk, NEW old, NEW new \in SUBSET Keys,
         NEW upstream \in Upstreams \cup {NoUpstream}
  PROVE  /\ Sync(d, old, new, upstream) \in Disk
         /\ Sync(d, old, new, upstream).inputs = d.inputs
         /\ Sync(d, old, new, upstream).files = d.files
         /\ Sync(d, old, new, upstream).links = d.links
         /\ Sync(d, old, new, upstream).names = d.names
         /\ Sync(d, old, new, upstream).global = d.global
         /\ Sync(d, old, new, upstream).rows = NewRows(d, old, new, upstream)
<1>1. NewRows(d, old, new, upstream) \subseteq Keys \X Upstreams
  BY DiskFields, SitesAssumption DEF NewRows
<1>2. Sync(d, old, new, upstream) = [d EXCEPT !.rows = NewRows(d, old, new, upstream)]
  BY DEF Sync, NewRows
<1> QED BY <1>1, <1>2 DEF Disk, Keys

\* Enabling or disabling a site changes its link only.
LEMMA LinkFields ==
  ASSUME NEW d \in Disk, NEW s \in Sites, NEW on \in BOOLEAN
  PROVE  /\ Link(d, s, on) \in Disk
         /\ Link(d, s, on).inputs = d.inputs
         /\ Link(d, s, on).files = d.files
         /\ Link(d, s, on).rows = d.rows
         /\ Link(d, s, on).names = d.names
         /\ Link(d, s, on).global = d.global
         /\ Link(d, s, on).links = IF on THEN d.links \cup {s} ELSE d.links \ {s}
BY DEF Link, Disk

\* Reconciling the forwarder changes the names it knows only.
LEMMA NamesFields ==
  ASSUME NEW d \in Disk
  PROVE  /\ ForwarderNames(d) \subseteq Sites \X Aliases
         /\ Reconcile(d) \in Disk
         /\ Reconcile(d).inputs = d.inputs
         /\ Reconcile(d).files = d.files
         /\ Reconcile(d).links = d.links
         /\ Reconcile(d).rows = d.rows
         /\ Reconcile(d).global = d.global
         /\ Reconcile(d).names = ForwarderNames(d)
<1>1. ASSUME NEW t \in d.links, d.files[t] # Absent
      PROVE  t \in Sites /\ d.files[t].alias \in Aliases
  BY <1>1, DiskFields, FileFields
<1>2. ForwarderNames(d) \subseteq Sites \X Aliases
  BY <1>1 DEF ForwarderNames
<1> QED BY <1>2 DEF Reconcile, Disk

\* Erasing a site takes its files and links and those of its family.
LEMMA EraseFields ==
  ASSUME NEW d \in Disk, NEW s \in Sites
  PROVE  /\ Erase(d, s) \in Disk
         /\ Erase(d, s).inputs = d.inputs
         /\ Erase(d, s).rows = d.rows
         /\ Erase(d, s).names = d.names
         /\ Erase(d, s).global = d.global
         /\ Erase(d, s).links = d.links \ Family(s)
         /\ \A t \in Sites :
              Erase(d, s).files[t] = IF t \in Family(s) THEN Absent ELSE d.files[t]
<1> DEFINE gone == IF s \in Domains THEN Family(s) ELSE {s}
           files == [t \in Sites |-> IF t \in gone THEN Absent ELSE d.files[t]]
<1>1. gone = Family(s)
  BY FamilyFacts
<1>2. Erase(d, s) = [d EXCEPT !.files = files, !.links = @ \ gone]
  BY DEF Erase
<1>3. files \in [Sites -> File \cup {Absent}]
  BY DiskFields
<1>4. \A t \in Sites : files[t] = IF t \in Family(s) THEN Absent ELSE d.files[t]
  BY <1>1
<1> HIDE DEF gone, files
<1> DEFINE e == [d EXCEPT !.files = files]
           f == [e EXCEPT !.links = @ \ gone]
<1>5. Erase(d, s) = f
  BY <1>2
<1>6. /\ e \in Disk
      /\ e.inputs = d.inputs
      /\ e.rows = d.rows
      /\ e.names = d.names
      /\ e.global = d.global
      /\ e.links = d.links
      /\ e.files = files
  BY <1>3 DEF Disk
<1> HIDE DEF e
<1>7. /\ f \in Disk
      /\ f.inputs = d.inputs
      /\ f.rows = d.rows
      /\ f.names = d.names
      /\ f.global = d.global
      /\ f.links = d.links \ Family(s)
      /\ f.files = files
  BY <1>1, <1>6 DEF Disk
<1> QED BY <1>4, <1>5, <1>7

\* The managed sites of S, and the files and rows that sites.toml makes of them.
ManagedIn(d, S) == {s \in S : d.inputs[s] # Absent}
RenderedFiles(d, g, S) ==
  [s \in Sites |-> IF s \in ManagedIn(d, S) THEN Managed(g, d.inputs[s]) ELSE d.files[s]]
RenderedRows(d, S) ==
  {<<Key(s, d.inputs[s].alias), d.inputs[s].upstream>> :
     s \in {t \in ManagedIn(d, S) : d.inputs[t].upstream # NoUpstream}}
RowsLeft(d, S) ==
  {r \in d.rows : r[1] \notin {Key(s, d.inputs[s].alias) : s \in ManagedIn(d, S)}}
RenderAll(d, g, S, h) == [Render(d, g, S) EXCEPT !.global = h]

\* Rendering every managed site changes files and rows, and the settings.
LEMMA RenderFields ==
  ASSUME NEW d \in Disk, NEW g \in Globals, NEW S \in SUBSET Sites, NEW h \in Globals
  PROVE  LET e == RenderAll(d, g, S, h)
         IN /\ e \in Disk
            /\ e.inputs = d.inputs
            /\ e.links = d.links
            /\ e.names = d.names
            /\ e.global = h
            /\ e.files = RenderedFiles(d, g, S)
            /\ e.rows = RowsLeft(d, S) \cup RenderedRows(d, S)
<1> DEFINE files == RenderedFiles(d, g, S)
           rows == RowsLeft(d, S) \cup RenderedRows(d, S)
<1>1. \A s \in ManagedIn(d, S) : s \in Sites /\ d.inputs[s] \in Input
  BY DiskFields DEF ManagedIn
<1>2. files \in [Sites -> File \cup {Absent}]
  BY <1>1, ManagedIsFile, DiskFields DEF RenderedFiles
<1>3. \A s \in ManagedIn(d, S) :
        /\ Key(s, d.inputs[s].alias) \in Keys
        /\ d.inputs[s].upstream \in Upstreams \cup {NoUpstream}
  BY <1>1, InputFields DEF Keys
<1>4. rows \subseteq Keys \X Upstreams
  BY <1>3, DiskFields DEF RowsLeft, RenderedRows
<1> DEFINE e1 == [d EXCEPT !.files = files]
           e2 == [e1 EXCEPT !.rows = {r \in @ : r[1] \notin {Key(s, d.inputs[s].alias) :
                                                           s \in ManagedIn(d, S)}}
                                       \cup RenderedRows(d, S)]
           e == [e2 EXCEPT !.global = h]
<1>5. Render(d, g, S) = e2
  BY Zenon DEF Render, ManagedIn, RenderedFiles, RenderedRows
<1> HIDE DEF files
<1>6. /\ e1 \in Disk
      /\ e1.inputs = d.inputs
      /\ e1.links = d.links
      /\ e1.names = d.names
      /\ e1.rows = d.rows
      /\ e1.files = files
  BY <1>2 DEF Disk
<1> HIDE DEF e1
<1>7. e2 = [e1 EXCEPT !.rows = rows]
  BY <1>6 DEF RowsLeft
<1> HIDE DEF rows, e2
<1>8. /\ e2 \in Disk
      /\ e2.inputs = d.inputs
      /\ e2.links = d.links
      /\ e2.names = d.names
      /\ e2.rows = rows
      /\ e2.files = files
  BY <1>4, <1>6, <1>7 DEF Disk, Keys
<1>9. /\ e \in Disk
      /\ e.inputs = d.inputs
      /\ e.links = d.links
      /\ e.names = d.names
      /\ e.global = h
      /\ e.files = files
      /\ e.rows = rows
  BY <1>8 DEF Disk
<1> QED BY <1>5, <1>9 DEF files, rows, RenderAll

\* The keys of a site's rows, and its upstream.
LEMMA KeysTypes ==
  ASSUME NEW d \in Disk, NEW s \in Sites
  PROVE  /\ KeysOf(d, s) \subseteq Keys
         /\ UpstreamOf(d, s) \in Upstreams \cup {NoUpstream}
         /\ d.files[s] # Absent => /\ AliasOf(d, s) \in Aliases
                                   /\ Key(s, AliasOf(d, s)) \in Keys
<1>1. d.files[s] # Absent => d.files[s].alias \in Aliases
  BY DiskFields, FileFields
<1>2. d.inputs[s] # Absent => /\ d.inputs[s].alias \in Aliases
                              /\ d.inputs[s].upstream \in Upstreams \cup {NoUpstream}
  BY DiskFields, InputFields
<1>3. KeysOf(d, s) \subseteq Keys
  BY <1>1 DEF KeysOf, Keys
<1>4. UpstreamOf(d, s) \in Upstreams \cup {NoUpstream}
  <2> DEFINE mine == {r \in d.rows : r[1] \in KeysOf(d, s)}
  <2>1. CASE d.inputs[s] # Absent
    BY <2>1, <1>2 DEF UpstreamOf
  <2>2. CASE d.inputs[s] = Absent /\ mine = {}
    BY <2>2 DEF UpstreamOf
  <2>3. CASE d.inputs[s] = Absent /\ mine # {}
    <3>1. (CHOOSE r \in mine : TRUE) \in mine
      BY <2>3
    <3>2. \A r \in mine : r[2] \in Upstreams
      BY DiskFields
    <3>3. UpstreamOf(d, s) = (CHOOSE r \in mine : TRUE)[2]
      BY <2>3 DEF UpstreamOf
    <3> QED BY <3>1, <3>2, <3>3
  <2> QED BY <2>1, <2>2, <2>3
<1> QED BY <1>1, <1>2, <1>3, <1>4 DEF AliasOf, Keys

\* Taking the inputs back changes the inputs only.
LEMMA InputsBackFields ==
  ASSUME NEW d \in Disk, NEW r, r.before \in Disk
  PROVE  /\ InputsBack(d, r) \in Disk
         /\ InputsBack(d, r).inputs = r.before.inputs
         /\ InputsBack(d, r).files = d.files
         /\ InputsBack(d, r).links = d.links
         /\ InputsBack(d, r).rows = d.rows
         /\ InputsBack(d, r).names = d.names
         /\ InputsBack(d, r).global = d.global
BY DEF InputsBack, Disk

\* Taking the link back changes the link of the site and the names the forwarder
\* knows.
LEMMA LinkBackFields ==
  ASSUME NEW d \in Disk, NEW r, r.before \in Disk, r.site \in Sites
  PROVE  LET linked == Link(d, r.site, r.site \in r.before.links)
         IN /\ linked \in Disk
            /\ LinkBack(d, r) = Reconcile(linked)
            /\ LinkBack(d, r) \in Disk
            /\ LinkBack(d, r).inputs = d.inputs
            /\ LinkBack(d, r).files = d.files
            /\ LinkBack(d, r).rows = d.rows
            /\ LinkBack(d, r).global = d.global
            /\ LinkBack(d, r).links = IF r.site \in r.before.links THEN d.links \cup {r.site}
                                      ELSE d.links \ {r.site}
            /\ LinkBack(d, r).names = ForwarderNames(linked)
<1> DEFINE linked == Link(d, r.site, r.site \in r.before.links)
<1>1. /\ linked \in Disk
      /\ linked.inputs = d.inputs
      /\ linked.files = d.files
      /\ linked.rows = d.rows
      /\ linked.global = d.global
      /\ linked.links = IF r.site \in r.before.links THEN d.links \cup {r.site}
                        ELSE d.links \ {r.site}
  BY DEF Link, Disk
<1>2. LinkBack(d, r) = Reconcile(linked)
  BY DEF LinkBack
<1> HIDE DEF linked
<1>3. /\ LinkBack(d, r) \in Disk
      /\ LinkBack(d, r).inputs = linked.inputs
      /\ LinkBack(d, r).files = linked.files
      /\ LinkBack(d, r).links = linked.links
      /\ LinkBack(d, r).rows = linked.rows
      /\ LinkBack(d, r).global = linked.global
      /\ LinkBack(d, r).names = ForwarderNames(linked)
  BY <1>1, <1>2, NamesFields
<1> QED BY <1>1, <1>2, <1>3 DEF linked

\* The forwarder's names depend on the files and the links.
LEMMA NamesDepend ==
  ASSUME NEW d, NEW e, d.files = e.files, d.links = e.links
  PROVE  ForwarderNames(d) = ForwarderNames(e)
BY DEF ForwarderNames

(* ------------------------------ requests ------------------------------- *)

\* The fields of a request that means something.
LEMMA MeantFields ==
  ASSUME NEW r, Meant(r)
  PROVE  /\ r \in Request
         /\ r.op \in {"create", "update", "toggle", "delete", "settings", "lifecycle"}
         /\ r.input \in Input \cup {Absent}
         /\ r.file \in File \cup {Absent}
         /\ r.upstream \in Upstreams \cup {NoUpstream}
         /\ r.enabled \in BOOLEAN
         /\ r.global \in Globals
         /\ r.before \in Disk
         /\ r.todo \in Seq(Steps)
         /\ r.op \in {"create", "update", "toggle", "delete"} => r.site \in Sites
BY DEF Meant, Request

\* The disks of each request are trees.
LEMMA SavedFields ==
  ASSUME NEW r, Meant(r), r.op \in {"create", "update", "toggle", "delete"}
  PROVE  /\ Saved(r) \in Disk
         /\ Saved(r).files = r.before.files
         /\ Saved(r).links = r.before.links
         /\ Saved(r).rows = r.before.rows
         /\ Saved(r).names = r.before.names
         /\ Saved(r).global = r.before.global
         /\ \A t \in Sites :
              Saved(r).inputs[t] =
                IF t = r.site THEN r.input
                ELSE IF r.input = Absent /\ r.site \in Domains /\ t \in Family(r.site) THEN Absent
                ELSE r.before.inputs[t]
BY MeantFields, KeepFields DEF Saved

\* The keys of the rows that a creation or an update moves.
LEMMA MeantKeys ==
  ASSUME NEW r, Meant(r), r.op \in {"create", "update"}
  PROVE  /\ r.file \in File
         /\ r.file.alias \in Aliases
         /\ NewKeys(r) \subseteq Keys
         /\ r.op = "update" => OldKeys(r) \subseteq Keys
<1>1. r.file \in File /\ r.site \in Sites
  BY MeantFields DEF Meant
<1>2. r.file.alias \in Aliases
  BY <1>1, FileFields
<1>3. r.op = "update" => r.before.files[r.site] # Absent
  BY DEF Meant
<1> QED BY <1>1, <1>2, <1>3, MeantFields, KeysTypes DEF NewKeys, OldKeys, Keys

\* The tree once the file is written.
LEMMA WrittenFields ==
  ASSUME NEW r, Meant(r), r.op \in {"create", "update"}
  PROVE  /\ Written(r) \in Disk
         /\ Written(r).inputs = Saved(r).inputs
         /\ Written(r).files = [r.before.files EXCEPT ![r.site] = r.file]
         /\ Written(r).links = r.before.links
         /\ Written(r).rows = r.before.rows
         /\ Written(r).names = r.before.names
         /\ Written(r).global = r.before.global
BY MeantFields, MeantKeys, SavedFields, WriteFields DEF Written

\* The tree once the rows are moved.
LEMMA MappedFields ==
  ASSUME NEW r, Meant(r), r.op \in {"create", "update"}
  PROVE  LET old == IF r.op = "create" THEN {} ELSE OldKeys(r)
         IN /\ Mapped(r) \in Disk
            /\ Mapped(r).inputs = Saved(r).inputs
            /\ Mapped(r).files = [r.before.files EXCEPT ![r.site] = r.file]
            /\ Mapped(r).links = r.before.links
            /\ Mapped(r).rows = NewRows(r.before, old, NewKeys(r), r.upstream)
            /\ Mapped(r).names = r.before.names
            /\ Mapped(r).global = r.before.global
<1> DEFINE old == IF r.op = "create" THEN {} ELSE OldKeys(r)
<1>1. Mapped(r) = Sync(Written(r), old, NewKeys(r), r.upstream)
  BY DEF Mapped
<1>2. NewRows(Written(r), old, NewKeys(r), r.upstream)
        = NewRows(r.before, old, NewKeys(r), r.upstream)
  BY WrittenFields DEF NewRows
<1> HIDE DEF old
<1>3. /\ Mapped(r) \in Disk
      /\ Mapped(r).inputs = Written(r).inputs
      /\ Mapped(r).files = Written(r).files
      /\ Mapped(r).links = Written(r).links
      /\ Mapped(r).rows = NewRows(Written(r), old, NewKeys(r), r.upstream)
      /\ Mapped(r).names = Written(r).names
      /\ Mapped(r).global = Written(r).global
  <2>1. NewKeys(r) \in SUBSET Keys
    BY MeantKeys
  <2>2. r.upstream \in Upstreams \cup {NoUpstream}
    BY MeantFields
  <2>3. Written(r) \in Disk
    BY WrittenFields
  <2> QED BY <1>1, <2>1, <2>2, <2>3, SyncFields
<1> QED BY <1>2, <1>3, WrittenFields DEF old

\* The tree once the site is enabled or disabled.
LEMMA LinkedFields ==
  ASSUME NEW r, Meant(r), r.op \in {"create", "update"}
  PROVE  /\ Linked(r) \in Disk
         /\ Linked(r).inputs = Mapped(r).inputs
         /\ Linked(r).files = Mapped(r).files
         /\ Linked(r).links = IF r.enabled THEN r.before.links \cup {r.site}
                              ELSE r.before.links \ {r.site}
         /\ Linked(r).rows = Mapped(r).rows
         /\ Linked(r).names = r.before.names
         /\ Linked(r).global = r.before.global
<1>1. Mapped(r) \in Disk /\ r.site \in Sites
  BY MappedFields, MeantFields
<1> DEFINE d == Mapped(r)
<1> HIDE DEF d
<1>2. d \in Disk
  BY <1>1 DEF d
<1>3. Linked(r) = Link(d, r.site, r.enabled)
  BY DEF Linked, d
<1>4. /\ Linked(r) \in Disk
      /\ Linked(r).inputs = d.inputs
      /\ Linked(r).files = d.files
      /\ Linked(r).links = IF r.enabled THEN d.links \cup {r.site} ELSE d.links \ {r.site}
      /\ Linked(r).rows = d.rows
      /\ Linked(r).names = d.names
      /\ Linked(r).global = d.global
  BY <1>1, <1>2, <1>3 DEF Link, Disk
<1> QED BY <1>4, MappedFields DEF d

\* The disk on which an enabled or disabled site is linked.
LEMMA ToggledFields ==
  ASSUME NEW r, Meant(r), r.op = "toggle"
  PROVE  /\ Toggled(r) \in Disk
         /\ Toggled(r).inputs = IF r.input = Absent THEN r.before.inputs ELSE Saved(r).inputs
         /\ Toggled(r).files = r.before.files
         /\ Toggled(r).links = IF r.enabled THEN r.before.links \cup {r.site}
                               ELSE r.before.links \ {r.site}
         /\ Toggled(r).rows = r.before.rows
         /\ Toggled(r).names = r.before.names
         /\ Toggled(r).global = r.before.global
<1> DEFINE d == IF r.input = Absent THEN r.before ELSE Saved(r)
<1>1. /\ d \in Disk
      /\ d.inputs = IF r.input = Absent THEN r.before.inputs ELSE Saved(r).inputs
      /\ d.files = r.before.files
      /\ d.links = r.before.links
      /\ d.rows = r.before.rows
      /\ d.names = r.before.names
      /\ d.global = r.before.global
  BY SavedFields, MeantFields
<1>2. Toggled(r) = Link(d, r.site, r.enabled)
  BY DEF Toggled
<1> HIDE DEF d
<1>3. r.site \in Sites
  BY MeantFields
<1>4. /\ Toggled(r) \in Disk
      /\ Toggled(r).inputs = d.inputs
      /\ Toggled(r).files = d.files
      /\ Toggled(r).links = IF r.enabled THEN d.links \cup {r.site} ELSE d.links \ {r.site}
      /\ Toggled(r).rows = d.rows
      /\ Toggled(r).names = d.names
      /\ Toggled(r).global = d.global
  BY <1>1, <1>2, <1>3 DEF Link, Disk
<1> QED BY <1>1, <1>4

\* A deletion: the tree once the link is gone and the forwarder told.
LEMMA UnlinkedFields ==
  ASSUME NEW r, Meant(r), r.op = "delete"
  PROVE  LET linked == Link(r.before, r.site, r.enabled)
         IN /\ linked \in Disk
            /\ linked.inputs = r.before.inputs
            /\ linked.files = r.before.files
            /\ linked.links = r.before.links \ {r.site}
            /\ linked.rows = r.before.rows
            /\ linked.global = r.before.global
            /\ Unlinked(r) \in Disk
            /\ Unlinked(r).inputs = r.before.inputs
            /\ Unlinked(r).files = r.before.files
            /\ Unlinked(r).links = r.before.links \ {r.site}
            /\ Unlinked(r).rows = r.before.rows
            /\ Unlinked(r).names = ForwarderNames(Unlinked(r))
            /\ Unlinked(r).global = r.before.global
<1> DEFINE linked == Link(r.before, r.site, r.enabled)
<1>1. /\ linked \in Disk
      /\ linked.inputs = r.before.inputs
      /\ linked.files = r.before.files
      /\ linked.links = r.before.links \ {r.site}
      /\ linked.rows = r.before.rows
      /\ linked.global = r.before.global
  <2>1. ~r.enabled
    BY DEF Meant
  <2>2. r.site \in Sites /\ r.before \in Disk
    BY MeantFields
  <2> QED BY <2>1, <2>2 DEF Link, Disk
<1>2. Unlinked(r) = Reconcile(linked)
  BY DEF Unlinked
<1> HIDE DEF linked
<1>3. /\ Unlinked(r) \in Disk
      /\ Unlinked(r).inputs = linked.inputs
      /\ Unlinked(r).files = linked.files
      /\ Unlinked(r).links = linked.links
      /\ Unlinked(r).rows = linked.rows
      /\ Unlinked(r).names = ForwarderNames(linked)
      /\ Unlinked(r).global = linked.global
  BY <1>1, <1>2, NamesFields
<1>4. ForwarderNames(linked) = ForwarderNames(Unlinked(r))
  BY <1>3, NamesDepend
<1> QED BY <1>1, <1>3, <1>4 DEF linked

\* A deletion once its site is disabled.
LEMMA DisabledFields ==
  ASSUME NEW r, Meant(r), r.op = "delete"
  PROVE  /\ Disabled(r) \in Disk
         /\ Disabled(r).inputs = r.before.inputs
         /\ Disabled(r).files = r.before.files
         /\ Disabled(r).links = r.before.links \ {r.site}
         /\ Disabled(r).rows = r.before.rows
         /\ Disabled(r).global = r.before.global
         /\ Dropping(r) \in Disk
         /\ Dropping(r).files = r.before.files
         /\ Dropping(r).links = r.before.links \ {r.site}
         /\ Dropping(r).rows = r.before.rows
         /\ Dropping(r).global = r.before.global
         /\ \A t \in Sites :
              Dropping(r).inputs[t] =
                IF t \in Family(r.site) THEN Absent ELSE r.before.inputs[t]
<1>1. r.site \in Sites /\ r.input = Absent /\ r.before \in Disk
  BY MeantFields DEF Meant
<1>2. /\ Disabled(r) \in Disk
      /\ Disabled(r).inputs = r.before.inputs
      /\ Disabled(r).files = r.before.files
      /\ Disabled(r).links = r.before.links \ {r.site}
      /\ Disabled(r).rows = r.before.rows
      /\ Disabled(r).global = r.before.global
  BY <1>1, UnlinkedFields DEF Disabled
<1>3. /\ Dropping(r) \in Disk
      /\ Dropping(r).files = Disabled(r).files
      /\ Dropping(r).links = Disabled(r).links
      /\ Dropping(r).rows = Disabled(r).rows
      /\ Dropping(r).global = Disabled(r).global
      /\ \A t \in Sites :
           Dropping(r).inputs[t] =
             IF t = r.site THEN r.input
             ELSE IF r.input = Absent /\ r.site \in Domains /\ t \in Family(r.site) THEN Absent
             ELSE Disabled(r).inputs[t]
  BY <1>1, <1>2, KeepFields DEF Dropping
<1>4. /\ r.site \in Family(r.site)
      /\ r.site \notin Domains => Family(r.site) = {r.site}
  BY <1>1, FamilyFacts
<1> QED BY <1>1, <1>2, <1>3, <1>4

\* A deletion: the tree once files and rows of the family are gone.
LEMMA UnmappedFields ==
  ASSUME NEW r, Meant(r), r.op = "delete"
  PROVE  LET gone == UNION {KeysOf(r.before, s) : s \in Family(r.site)}
         IN /\ Erased(r) \in Disk
            /\ Erased(r).inputs = Dropping(r).inputs
            /\ \A t \in Sites :
                 Erased(r).files[t] =
                   IF t \in Family(r.site) THEN Absent ELSE r.before.files[t]
            /\ Erased(r).links = r.before.links \ Family(r.site)
            /\ Erased(r).rows = r.before.rows
            /\ Erased(r).global = r.before.global
            /\ Unmapped(r) \in Disk
            /\ Unmapped(r).inputs = Dropping(r).inputs
            /\ Unmapped(r).files = Erased(r).files
            /\ Unmapped(r).links = r.before.links \ Family(r.site)
            /\ Unmapped(r).rows = {q \in r.before.rows : q[1] \notin gone}
            /\ Unmapped(r).global = r.before.global
<1> DEFINE gone == UNION {KeysOf(r.before, s) : s \in Family(r.site)}
<1>1. r.site \in Sites /\ r.before \in Disk
  BY MeantFields
<1>2. r.site \in Family(r.site) /\ Family(r.site) \subseteq Sites /\ Gone(r) = Family(r.site)
  BY <1>1, FamilyFacts DEF Gone
<1>3. gone \subseteq Keys
  BY <1>1, <1>2, KeysTypes
<1>4. /\ Erased(r) \in Disk
      /\ Erased(r).inputs = Dropping(r).inputs
      /\ \A t \in Sites :
           Erased(r).files[t] = IF t \in Family(r.site) THEN Absent ELSE r.before.files[t]
      /\ Erased(r).links = (r.before.links \ {r.site}) \ Family(r.site)
      /\ Erased(r).rows = r.before.rows
      /\ Erased(r).global = r.before.global
  BY <1>1, DisabledFields, EraseFields DEF Erased
<1>5. Erased(r).links = r.before.links \ Family(r.site)
  BY <1>2, <1>4
<1>6. Unmapped(r) = Sync(Erased(r), gone, {}, NoUpstream)
  BY <1>2 DEF Unmapped, Unmap
<1> HIDE DEF gone
<1>7. /\ Unmapped(r) \in Disk
      /\ Unmapped(r).inputs = Erased(r).inputs
      /\ Unmapped(r).files = Erased(r).files
      /\ Unmapped(r).links = Erased(r).links
      /\ Unmapped(r).rows = NewRows(Erased(r), gone, {}, NoUpstream)
      /\ Unmapped(r).global = Erased(r).global
  BY <1>3, <1>4, <1>6, SyncFields
<1>8. NewRows(Erased(r), gone, {}, NoUpstream) = {q \in r.before.rows : q[1] \notin gone}
  BY <1>4 DEF NewRows
<1> QED BY <1>4, <1>5, <1>7, <1>8 DEF gone

\* New settings make a tree.
LEMMA AppliedIsDisk ==
  ASSUME NEW r, Meant(r)
  PROVE  Applied(r) \in Disk
<1>1. Applied(r) = RenderAll(r.before, r.global, Sites, r.global)
  BY DEF Applied, RenderAll
<1>2. r.before \in Disk /\ r.global \in Globals /\ Sites \in SUBSET Sites
  BY MeantFields
<1> QED BY <1>1, <1>2, RenderFields

\* In the middle of a request the disk is a tree.
LEMMA CourseIsDisk ==
  ASSUME NEW r, Meant(r), Course(r)
  PROVE  disk \in Disk
<1>1. r.before \in Disk
  BY MeantFields
<1>2. CASE CreateCourse(r)
  <2>1. r.op = "create"
    BY <1>2 DEF CreateCourse
  <2>2. /\ Saved(r) \in Disk /\ Written(r) \in Disk /\ Mapped(r) \in Disk
        /\ Linked(r) \in Disk
    BY <2>1, SavedFields, WrittenFields, MappedFields, LinkedFields
  <2>3. Reconcile(Mapped(r)) \in Disk /\ Reconcile(Linked(r)) \in Disk
    BY <2>2, NamesFields
  <2> QED BY <1>1, <1>2, <2>2, <2>3 DEF CreateCourse, Stage
<1>3. CASE UpdateCourse(r)
  <2>1. r.op = "update"
    BY <1>3 DEF UpdateCourse
  <2>2. Saved(r) \in Disk /\ Written(r) \in Disk /\ Mapped(r) \in Disk
    BY <2>1, SavedFields, WrittenFields, MappedFields
  <2>3. Reconcile(Mapped(r)) \in Disk
    BY <2>2, NamesFields
  <2> QED BY <1>1, <1>3, <2>2, <2>3 DEF UpdateCourse, Stage
<1>4. CASE ToggleCourse(r)
  <2>1. r.op = "toggle"
    BY <1>4 DEF ToggleCourse
  <2>2. Saved(r) \in Disk /\ Toggled(r) \in Disk
    BY <2>1, SavedFields, ToggledFields
  <2>3. Reconcile(Toggled(r)) \in Disk
    BY <2>2, NamesFields
  <2> QED BY <1>1, <1>4, <2>2, <2>3 DEF ToggleCourse, Stage
<1>5. CASE DeleteCourse(r)
  <2>1. r.op = "delete"
    BY <1>5 DEF DeleteCourse
  <2>2. /\ Link(r.before, r.site, r.enabled) \in Disk /\ Unlinked(r) \in Disk
        /\ Disabled(r) \in Disk /\ Dropping(r) \in Disk
        /\ Erased(r) \in Disk /\ Unmapped(r) \in Disk
    BY <2>1, UnlinkedFields, DisabledFields, UnmappedFields
  <2>3. Reconcile(Unmapped(r)) \in Disk
    BY <2>2, NamesFields
  <2> QED BY <1>1, <1>5, <2>2, <2>3 DEF DeleteCourse, Stage
<1>6. CASE SettingsCourse(r)
  BY <1>1, <1>6, AppliedIsDisk DEF SettingsCourse, Stage
<1>7. CASE LifecycleCourse(r)
  BY <1>1, <1>7 DEF LifecycleCourse, Stage
<1> QED BY <1>2, <1>3, <1>4, <1>5, <1>6, <1>7 DEF Course

(* ------------------------------- the steps ----------------------------- *)

\* What a step makes of the disk; a test and AdGuard leave it.
After(d, r, step) ==
  CASE step = "save" -> Keep(d, r.site, r.input)
    [] step = "write" -> Write(d, r.site, r.file)
    [] step = "sync" ->
         Sync(d, IF r.op = "create" THEN {} ELSE OldKeys(r), NewKeys(r), r.upstream)
    [] step = "link" -> Link(d, r.site, r.enabled)
    [] step = "forward" -> Reconcile(d)
    [] step = "erase" -> Erase(d, r.site)
    [] step = "unmap" -> Unmap(r, d)
    [] step = "render" -> [Render(d, r.global, Sites) EXCEPT !.global = r.global]
    [] OTHER -> d

\* A step succeeds; nginx is not asked to load anything.
Advance ==
  /\ request # NoRequest /\ request.todo # <<>> /\ Step # "reload"
  /\ Step = "write" => Writable(request)
  /\ disk' = After(disk, request, Step)
  /\ Continue
  /\ UNCHANGED <<loaded, torn>>

\* nginx loads the tree, or has nothing to do.
Load ==
  /\ At("reload")
  /\ \/ loaded' = Served(disk) /\ Continue
     \/ /\ ~Reloads /\ ~Launches
        /\ loaded' = loaded
        /\ request' = [request EXCEPT !.todo = Untold(Tail(@))]
  /\ UNCHANGED <<disk, torn>>

\* A step fails, and the handler undoes the ones before it.
Undone ==
  /\ request # NoRequest /\ request.todo # <<>>
  /\ Step # "adguard"
  /\ Unrestored(request) => Step \in {"test", "reload"}
  /\ disk' = Undo(disk, request, Step)
  /\ \/ loaded' = loaded
     \/ Step = "reload" /\ loaded' = Served(disk')
  /\ torn' = torn
  /\ Give

\* A request is cut off, or a step fails where nothing undoes the ones before it.
Cut ==
  /\ request # NoRequest
  /\ torn < MaxTorn /\ torn' = torn + 1
  /\ \/ disk' = Dropped(disk, request)
     \/ disk' = Undo(disk, request, Step) /\ request.todo # <<>>
  /\ loaded' \in {loaded, Served(disk), Served(disk')}
  /\ Give

\* A step of a request advances it, loads, undoes, cuts it off or ends it.
LEMMA StepKinds ==
  ASSUME RequestStep, CourseInv
  PROVE  Advance \/ Load \/ Undone \/ Cut \/ Commit
<1>1. CASE SaveInputs
  BY <1>1 DEF SaveInputs, Change, At, Advance, After, Step
<1>2. CASE WriteObject
  BY <1>2 DEF WriteObject, Change, At, Advance, After, Step
<1>3. CASE SyncUpstream
  BY <1>3 DEF SyncUpstream, Change, At, Advance, After, Step
<1>4. CASE SetEnabled
  BY <1>4 DEF SetEnabled, Change, At, Advance, After, Step
<1>5. CASE ReconcileForwarder
  BY <1>5 DEF ReconcileForwarder, Change, At, Advance, After, Step
<1>6. CASE DeleteObject
  BY <1>6 DEF DeleteObject, Change, At, Advance, After, Step
<1>7. CASE RemoveUpstreams
  BY <1>7 DEF RemoveUpstreams, Change, At, Advance, After, Step, Unmap, Gone
<1>8. CASE ApplySettings
  BY <1>8 DEF ApplySettings, Change, At, Advance, After, Step
<1>9. CASE WriteFails
  <2>1. CASE Unrestored(request)
    BY <1>9, <2>1 DEF WriteFails, GivesUp, Cut
  <2>2. CASE ~Unrestored(request)
    BY <1>9, <2>2 DEF WriteFails, GivesUp, Undone
  <2> QED BY <2>1, <2>2
<1>10. CASE Refuse
  BY <1>10 DEF Refuse, GivesUp, Undone, Writable, Unrestored, At, Step
<1>11. CASE TestAccepts
  BY <1>11 DEF TestAccepts, At, Advance, After, Step
<1>12. CASE TestRejects
  BY <1>12 DEF TestRejects, GivesUp, Undone, At, Step
<1>13. CASE LoadConfig
  BY <1>13 DEF LoadConfig, Load
<1>14. CASE LoadFails
  <2>1. /\ request # NoRequest /\ request.todo # <<>> /\ Step = "reload" /\ Give
    BY <1>14 DEF LoadFails, At, Step
  <2>2. PICK late \in BOOLEAN :
          /\ late => torn < MaxTorn
          /\ torn' = IF late THEN torn + 1 ELSE torn
          /\ disk' = Undo(disk, request, "reload")
          /\ loaded' \in {IF late THEN Served(disk) ELSE loaded}
               \cup IF request.op \in {"update", "settings"}
                    THEN {Served(Undo(disk, request, "reload"))} ELSE {}
    BY <1>14 DEF LoadFails
  <2>3. CASE late
    <3>1. torn < MaxTorn /\ torn' = torn + 1
      BY <2>2, <2>3
    <3>2. disk' = Undo(disk, request, Step)
      BY <2>1, <2>2
    <3>3. loaded' \in {loaded, Served(disk), Served(disk')}
      BY <2>2, <2>3
    <3> QED BY <2>1, <3>1, <3>2, <3>3 DEF Cut
  <2>4. CASE ~late
    <3>1. torn' = torn
      BY <2>2, <2>4
    <3>2. disk' = Undo(disk, request, Step)
      BY <2>1, <2>2
    <3>3. loaded' = loaded \/ loaded' = Served(disk')
      BY <2>2, <2>4
    <3> QED BY <2>1, <3>1, <3>2, <3>3 DEF Undone
  <2> QED BY <2>3, <2>4
<1>15. CASE TellAdGuard
  BY <1>15 DEF TellAdGuard, At, Advance, After, Step
<1>16. CASE HangUp
  BY <1>16 DEF HangUp, Cut, At
<1> QED
  BY <1>1, <1>2, <1>3, <1>4, <1>5, <1>6, <1>7, <1>8, <1>9, <1>10, <1>11, <1>12, <1>13,
     <1>14, <1>15, <1>16
  DEF RequestStep

\* A list of steps, its first and the others.
Goes(list, step, rest) ==
  list # <<>> /\ Head(list) = step /\ Tail(list) = rest

\* What is left to do of a creation, an update or an enabling, step after step.
LEMMA EnabledLists ==
  /\ Goes(Saves, "save", Writes)
  /\ Goes(SavesLinks, "save", Links)
  /\ Goes(Writes, "write", Maps)
  /\ Goes(Maps, "sync", Links)
  /\ Goes(Links, "link", Forwards)
  /\ Goes(Forwards, "forward", Tests)
  /\ Goes(Tests, "test", Loads)
  /\ Goes(Loads, "reload", Told)
  /\ Goes(Told, "adguard", <<>>)
BY DEF Goes, Saves, SavesLinks, Writes, Maps, Links, Forwards, Tests, Loads, Told

\* What is left to do of a request that ends with the reload.
LEMMA LastLists ==
  /\ Goes(LastSaves, "save", LastWrites)
  /\ Goes(LastWrites, "write", LastMaps)
  /\ Goes(LastMaps, "sync", LastForwards)
  /\ Goes(LastForwards, "forward", LastTests)
  /\ Goes(LastTests, "test", LastLoads)
  /\ Goes(LastLoads, "reload", <<>>)
  /\ Goes(LastRenders, "render", LastTests)
BY DEF Goes, LastSaves, LastWrites, LastMaps, LastForwards, LastTests, LastLoads, LastRenders

\* What is left to do of a creation or an update that leaves nginx alone.
LEMMA OnlyLists ==
  /\ Goes(SavesOnly, "save", WritesOnly)
  /\ Goes(WritesOnly, "write", MapsOnly)
  /\ Goes(MapsOnly, "sync", NamesOnly)
  /\ Goes(NamesOnly, "forward", <<>>)
BY DEF Goes, SavesOnly, WritesOnly, MapsOnly, NamesOnly

\* What is left to do of a deletion.
LEMMA DeleteLists ==
  /\ Goes(LinksForgets, "link", ForwardsForgets)
  /\ Goes(ForwardsForgets, "forward", TestsForgets)
  /\ Goes(TestsForgets, "test", LoadsForgets)
  /\ Goes(LoadsForgets, "reload", ToldForgets)
  /\ Goes(ToldForgets, "adguard", Forgets)
  /\ Goes(Forgets, "save", Erases)
  /\ Goes(Erases, "erase", Unmaps)
  /\ Goes(Unmaps, "unmap", NamesOnly)
BY DEF Goes, LinksForgets, ForwardsForgets, TestsForgets, LoadsForgets, ToldForgets,
       Forgets, Erases, Unmaps, NamesOnly

\* What a request still does once it has gone one step on.
Alike(q, r) ==
  /\ q.op = r.op /\ q.site = r.site /\ q.input = r.input /\ q.file = r.file
  /\ q.upstream = r.upstream /\ q.enabled = r.enabled /\ q.start = r.start
  /\ q.global = r.global /\ q.before = r.before

\* A request with another rest to do is a request like it.
LEMMA GoesOn ==
  ASSUME NEW r, Meant(r), NEW t \in Seq(Steps)
  PROVE  LET q == [r EXCEPT !.todo = t]
         IN q.todo = t /\ Alike(q, r) /\ q \in Request
BY DEF Meant, Request, Alike

\* Requests that differ in their rest only pass through the same trees.
LEMMA AlikeStages ==
  ASSUME NEW q, NEW r, Alike(q, r)
  PROVE  /\ Saved(q) = Saved(r)
         /\ Written(q) = Written(r)
         /\ Mapped(q) = Mapped(r)
         /\ Linked(q) = Linked(r)
         /\ Toggled(q) = Toggled(r)
         /\ Unlinked(q) = Unlinked(r)
         /\ Disabled(q) = Disabled(r)
         /\ Dropping(q) = Dropping(r)
         /\ Erased(q) = Erased(r)
         /\ Unmapped(q) = Unmapped(r)
         /\ Applied(q) = Applied(r)
         /\ Fresh(q) = Fresh(r)
<1>1. Saved(q) = Saved(r)
  BY DEF Alike, Saved
<1>2. Written(q) = Written(r)
  BY <1>1 DEF Alike, Written
<1>3. Mapped(q) = Mapped(r)
  BY <1>2 DEF Alike, Mapped, OldKeys, NewKeys
<1>4. Linked(q) = Linked(r)
  BY <1>3 DEF Alike, Linked
<1>5. Toggled(q) = Toggled(r)
  BY <1>1 DEF Alike, Toggled
<1>6. Unlinked(q) = Unlinked(r)
  BY DEF Alike, Unlinked
<1>7. Disabled(q) = Disabled(r)
  BY <1>6 DEF Alike, Disabled
<1>8. Dropping(q) = Dropping(r)
  BY <1>7 DEF Alike, Dropping
<1>9. Erased(q) = Erased(r)
  BY <1>8 DEF Alike, Erased
<1>10. Unmapped(q) = Unmapped(r)
  BY <1>9 DEF Alike, Unmapped, Unmap, Gone
<1>11. Applied(q) = Applied(r)
  BY DEF Alike, Applied
<1>12. Fresh(q) = Fresh(r)
  BY DEF Alike, Fresh
<1> QED BY <1>1, <1>2, <1>3, <1>4, <1>5, <1>6, <1>7, <1>8, <1>9, <1>10, <1>11, <1>12

\* A request like one that means something means something.
LEMMA AlikeMeant ==
  ASSUME NEW q, NEW r, Alike(q, r), Meant(r), q \in Request
  PROVE  Meant(q)
BY DEF Alike, Meant

\* The rest of what is to do is something to do.
LEMMA TodoRest ==
  ASSUME NEW todo \in Seq(Steps), todo # <<>>
  PROVE  Tail(todo) \in Seq(Steps) /\ Untold(Tail(todo)) \in Seq(Steps)
BY DEF Untold

(* -------------------- a request goes on: its course -------------------- *)

\* A request that advances stays the request it was.
LEMMA RequestGoesOn ==
  ASSUME Meant(request), Advance \/ Load
  PROVE  /\ Alike(request', request)
         /\ Meant(request')
         /\ request' # NoRequest
         /\ Advance => request'.todo = Tail(request.todo)
<1>1. request.todo # <<>> /\ request.todo \in Seq(Steps)
  BY MeantFields DEF Advance, Load, At
<1>2. PICK t \in Seq(Steps) :
        /\ request' = [request EXCEPT !.todo = t]
        /\ Advance => t = Tail(request.todo)
  <2>1. CASE Advance
    BY <1>1, <2>1, TodoRest DEF Advance, Continue
  <2>2. CASE Load /\ ~Advance
    BY <1>1, <2>2, TodoRest DEF Load, Continue
  <2> QED BY <2>1, <2>2
<1>3. request'.todo = t /\ Alike(request', request) /\ request' \in Request
  BY <1>2, GoesOn
<1> QED BY <1>2, <1>3, AlikeMeant, RequestAssumption

\* The stage the request reaches.
NextStage(todo, d, basis) ==
  /\ request'.todo = todo
  /\ disk' = d
  /\ torn' = 0 /\ Running' => loaded' = Served(basis)

\* A step that succeeds leads from one stage to the next.
LEMMA StageAdvances ==
  ASSUME NEW todo, NEW d, NEW basis, NEW step, NEW rest,
         Meant(request), Stage(request, todo, d, basis), Advance, Goes(todo, step, rest)
  PROVE  /\ NextStage(rest, After(d, request, step), basis)
         /\ step = "write" => Writable(request)
         /\ step # "reload"
<1>1. request'.todo = rest
  BY RequestGoesOn DEF Stage, Goes
<1>2. Step = step
  BY DEF Stage, Goes, Step
<1> QED BY <1>1, <1>2 DEF Stage, NextStage, Advance, Running

\* nginx loads the tree, or had nothing to load while it is stopped. When it was asked
\* to start and runs already, the tree it runs with is the one on disk.
LEMMA StageLoads ==
  ASSUME NEW todo, NEW d, NEW basis, NEW step, NEW rest,
         Meant(request), Stage(request, todo, d, basis), Load, Goes(todo, step, rest),
         request.op = "lifecycle" => d = basis
  PROVE  /\ \/ NextStage(rest, d, d)
            \/ NextStage(Untold(rest), d, d)
         /\ step = "reload"
<1>1. request \in Request /\ request.todo \in Seq(Steps) /\ request.todo # <<>>
  BY MeantFields DEF Load, At
<1>2. Tail(request.todo) = rest /\ Head(request.todo) = step
  BY DEF Stage, Goes
<1>3. step = "reload"
  BY <1>2 DEF Load, At
<1>4. disk = d /\ disk' = d /\ torn' = torn
  BY DEF Load, Stage
<1>5. CASE loaded' = Served(disk) /\ Continue
  <2>1. request'.todo = rest
    BY <1>1, <1>2, <1>5, TodoRest, GoesOn DEF Continue
  <2> QED BY <1>3, <1>4, <1>5, <2>1 DEF NextStage
<1>6. CASE /\ ~Reloads /\ ~Launches
           /\ loaded' = loaded
           /\ request' = [request EXCEPT !.todo = Untold(Tail(@))]
  <2>1. request'.todo = Untold(rest)
    BY <1>1, <1>2, <1>6, TodoRest, GoesOn
  <2>2. Running => request.start /\ request.op # "toggle"
    BY <1>6 DEF Reloads
  <2>3. Running => request.op = "lifecycle"
    BY <2>2 DEF Meant
  <2>4. torn = 0 /\ Running => loaded = Served(basis)
    BY DEF Stage
  <2>5. torn' = 0 /\ Running' => loaded' = Served(d)
    BY <1>4, <1>6, <2>3, <2>4 DEF Running
  <2> QED BY <1>3, <1>4, <2>1, <2>5 DEF NextStage
<1> QED BY <1>5, <1>6 DEF Load

\* The tree each step makes of the one before it.
LEMMA AfterIs ==
  ASSUME NEW r
  PROVE  /\ After(r.before, r, "save") = Saved(r)
         /\ After(Saved(r), r, "write") = Written(r)
         /\ After(Written(r), r, "sync") = Mapped(r)
         /\ After(Mapped(r), r, "link") = Linked(r)
         /\ After(IF r.input = Absent THEN r.before ELSE Saved(r), r, "link") = Toggled(r)
         /\ After(r.before, r, "link") = Link(r.before, r.site, r.enabled)
         /\ After(Link(r.before, r.site, r.enabled), r, "forward") = Unlinked(r)
         /\ After(Disabled(r), r, "save") = Dropping(r)
         /\ After(Dropping(r), r, "erase") = Erased(r)
         /\ After(Erased(r), r, "unmap") = Unmapped(r)
         /\ After(r.before, r, "render") = Applied(r)
         /\ \A d : After(d, r, "forward") = Reconcile(d)
         /\ \A d : After(d, r, "test") = d
         /\ \A d : After(d, r, "adguard") = d
BY DEF After, Saved, Written, Mapped, Linked, Toggled, Unlinked, Dropping, Erased, Unmapped,
       Applied

\* What is left when nginx was not asked: AdGuard is not told.
LEMMA UntoldLists ==
  /\ Untold(Told) = <<>>
  /\ Untold(<<>>) = <<>>
  /\ Untold(ToldForgets) = Forgets
BY DEF Untold, Told, ToldForgets, Forgets

\* A creation stays on its course.
LEMMA CreateAdvances ==
  ASSUME Meant(request), CreateCourse(request), Advance \/ Load
  PROVE  CreateCourse(request)'
<1> DEFINE r == request
           B == r.before
<1>1. Alike(request', r)
  BY RequestGoesOn
<1>2. B \in Disk /\ r.op = "create"
  BY MeantFields DEF CreateCourse
<1>3. CASE r.enabled
  <2>1. ASSUME Stage(r, Saves, B, B)
        PROVE  NextStage(Writes, Saved(r), B)
    BY <2>1, StageAdvances, StageLoads, EnabledLists, AfterIs, <1>2
  <2>2. ASSUME Stage(r, Writes, Saved(r), B)
        PROVE  NextStage(Maps, Written(r), B) /\ Fresh(r)
    <3>1. NextStage(Maps, Written(r), B) /\ Writable(r)
      BY <2>2, StageAdvances, StageLoads, EnabledLists, AfterIs, <1>2
    <3>2. disk.files = B.files
      BY <2>2, <1>2, SavedFields DEF Stage
    <3> QED BY <3>1, <3>2, <1>2 DEF Writable, Fresh
  <2>3. ASSUME Stage(r, Maps, Written(r), B)
        PROVE  NextStage(Links, Mapped(r), B)
    BY <2>3, StageAdvances, StageLoads, EnabledLists, AfterIs, <1>2
  <2>4. ASSUME Stage(r, Links, Mapped(r), B)
        PROVE  NextStage(Forwards, Linked(r), B)
    BY <2>4, StageAdvances, StageLoads, EnabledLists, AfterIs, <1>2
  <2>5. ASSUME Stage(r, Forwards, Linked(r), B)
        PROVE  NextStage(Tests, Reconcile(Linked(r)), B)
    BY <2>5, StageAdvances, StageLoads, EnabledLists, AfterIs, <1>2
  <2> DEFINE e == Reconcile(Linked(r))
  <2>e. After(e, r, "test") = e /\ After(e, r, "adguard") = e
    BY AfterIs
  <2> HIDE DEF e
  <2>6. ASSUME Stage(r, Tests, e, B)
        PROVE  NextStage(Loads, e, B)
    BY <2>6, <2>e, StageAdvances, StageLoads, EnabledLists, <1>2
  <2>7. ASSUME Stage(r, Loads, e, B)
        PROVE  NextStage(Told, e, e) \/ NextStage(<<>>, e, e)
    BY <2>7, StageAdvances, StageLoads, EnabledLists, UntoldLists, <1>2
  <2>8. ASSUME Stage(r, Told, e, e)
        PROVE  NextStage(<<>>, e, e)
    BY <2>8, <2>e, StageAdvances, StageLoads, EnabledLists, <1>2
  <2>9. ~Stage(r, <<>>, e, e)
    BY DEF Stage, Advance, Load, At
  <2>10. \/ NextStage(Writes, Saved(r), B)
         \/ /\ Fresh(r)
            /\ \/ NextStage(Maps, Written(r), B)
               \/ NextStage(Links, Mapped(r), B)
               \/ NextStage(Forwards, Linked(r), B)
               \/ NextStage(Tests, Reconcile(Linked(r)), B)
               \/ NextStage(Loads, Reconcile(Linked(r)), B)
               \/ NextStage(Told, Reconcile(Linked(r)), Reconcile(Linked(r)))
               \/ NextStage(<<>>, Reconcile(Linked(r)), Reconcile(Linked(r)))
    BY <1>3, <2>1, <2>2, <2>3, <2>4, <2>5, <2>6, <2>7, <2>8, <2>9 DEF CreateCourse, e
  <2> QED BY <1>1, <1>2, <1>3, <2>10, AlikeStages DEF CreateCourse, Stage, NextStage, Alike
<1>4. CASE ~r.enabled
  <2>1. ASSUME Stage(r, SavesOnly, B, B)
        PROVE  NextStage(WritesOnly, Saved(r), B)
    BY <2>1, StageAdvances, StageLoads, OnlyLists, AfterIs, <1>2
  <2>2. ASSUME Stage(r, WritesOnly, Saved(r), B)
        PROVE  NextStage(MapsOnly, Written(r), B) /\ Fresh(r)
    <3>1. NextStage(MapsOnly, Written(r), B) /\ Writable(r)
      BY <2>2, StageAdvances, StageLoads, OnlyLists, AfterIs, <1>2
    <3>2. disk.files = B.files
      BY <2>2, <1>2, SavedFields DEF Stage
    <3> QED BY <3>1, <3>2, <1>2 DEF Writable, Fresh
  <2>3. ASSUME Stage(r, MapsOnly, Written(r), B)
        PROVE  NextStage(NamesOnly, Mapped(r), B)
    BY <2>3, StageAdvances, StageLoads, OnlyLists, AfterIs, <1>2
  <2>4. ASSUME Stage(r, NamesOnly, Mapped(r), B)
        PROVE  NextStage(<<>>, Reconcile(Mapped(r)), B)
    BY <2>4, StageAdvances, StageLoads, OnlyLists, AfterIs, <1>2
  <2>5. ~Stage(r, <<>>, Reconcile(Mapped(r)), B)
    BY DEF Stage, Advance, Load, At
  <2>6. \/ NextStage(WritesOnly, Saved(r), B)
        \/ /\ Fresh(r)
           /\ \/ NextStage(MapsOnly, Written(r), B)
              \/ NextStage(NamesOnly, Mapped(r), B)
              \/ NextStage(<<>>, Reconcile(Mapped(r)), B)
    BY <1>4, <2>1, <2>2, <2>3, <2>4, <2>5 DEF CreateCourse
  <2> QED BY <1>1, <1>2, <1>4, <2>6, AlikeStages DEF CreateCourse, Stage, NextStage, Alike
<1> QED BY <1>3, <1>4

\* An update stays on its course.
LEMMA UpdateAdvances ==
  ASSUME Meant(request), UpdateCourse(request), Advance \/ Load
  PROVE  UpdateCourse(request)'
<1> DEFINE r == request
           B == r.before
           e == Reconcile(Mapped(r))
<1>1. Alike(request', r)
  BY RequestGoesOn
<1>2. B \in Disk /\ r.op = "update"
  BY MeantFields DEF UpdateCourse
<1>3. After(e, r, "test") = e /\ After(Mapped(r), r, "forward") = e
  BY AfterIs
<1>4. CASE r.enabled
  <2>1. ASSUME Stage(r, LastSaves, B, B)
        PROVE  NextStage(LastWrites, Saved(r), B)
    BY <2>1, StageAdvances, StageLoads, LastLists, AfterIs, <1>2
  <2>2. ASSUME Stage(r, LastWrites, Saved(r), B)
        PROVE  NextStage(LastMaps, Written(r), B)
    BY <2>2, StageAdvances, StageLoads, LastLists, AfterIs, <1>2
  <2>3. ASSUME Stage(r, LastMaps, Written(r), B)
        PROVE  NextStage(LastForwards, Mapped(r), B)
    BY <2>3, StageAdvances, StageLoads, LastLists, AfterIs, <1>2
  <2> HIDE DEF e
  <2>4. ASSUME Stage(r, LastForwards, Mapped(r), B)
        PROVE  NextStage(LastTests, e, B)
    BY <2>4, StageAdvances, StageLoads, LastLists, <1>3, <1>2
  <2>5. ASSUME Stage(r, LastTests, e, B)
        PROVE  NextStage(LastLoads, e, B)
    BY <2>5, StageAdvances, StageLoads, LastLists, <1>3, <1>2
  <2>6. ASSUME Stage(r, LastLoads, e, B)
        PROVE  NextStage(<<>>, e, e)
    BY <2>6, StageAdvances, StageLoads, LastLists, UntoldLists, <1>2
  <2>7. ~Stage(r, <<>>, e, e)
    BY DEF Stage, Advance, Load, At
  <2>8. \/ NextStage(LastWrites, Saved(r), B)
        \/ NextStage(LastMaps, Written(r), B)
        \/ NextStage(LastForwards, Mapped(r), B)
        \/ NextStage(LastTests, Reconcile(Mapped(r)), B)
        \/ NextStage(LastLoads, Reconcile(Mapped(r)), B)
        \/ NextStage(<<>>, Reconcile(Mapped(r)), Reconcile(Mapped(r)))
    BY <1>4, <2>1, <2>2, <2>3, <2>4, <2>5, <2>6, <2>7 DEF UpdateCourse, e
  <2> QED BY <1>1, <1>2, <1>4, <2>8, AlikeStages DEF UpdateCourse, Stage, NextStage, Alike
<1>5. CASE ~r.enabled
  <2>1. ASSUME Stage(r, SavesOnly, B, B)
        PROVE  NextStage(WritesOnly, Saved(r), B)
    BY <2>1, StageAdvances, StageLoads, OnlyLists, AfterIs, <1>2
  <2>2. ASSUME Stage(r, WritesOnly, Saved(r), B)
        PROVE  NextStage(MapsOnly, Written(r), B)
    BY <2>2, StageAdvances, StageLoads, OnlyLists, AfterIs, <1>2
  <2>3. ASSUME Stage(r, MapsOnly, Written(r), B)
        PROVE  NextStage(NamesOnly, Mapped(r), B)
    BY <2>3, StageAdvances, StageLoads, OnlyLists, AfterIs, <1>2
  <2> HIDE DEF e
  <2>4. ASSUME Stage(r, NamesOnly, Mapped(r), B)
        PROVE  NextStage(<<>>, e, B)
    BY <2>4, StageAdvances, StageLoads, OnlyLists, <1>3, <1>2
  <2>5. ~Stage(r, <<>>, e, B)
    BY DEF Stage, Advance, Load, At
  <2>6. \/ NextStage(WritesOnly, Saved(r), B)
        \/ NextStage(MapsOnly, Written(r), B)
        \/ NextStage(NamesOnly, Mapped(r), B)
        \/ NextStage(<<>>, Reconcile(Mapped(r)), B)
    BY <1>5, <2>1, <2>2, <2>3, <2>4, <2>5 DEF UpdateCourse, e
  <2> QED BY <1>1, <1>2, <1>5, <2>6, AlikeStages DEF UpdateCourse, Stage, NextStage, Alike
<1> QED BY <1>4, <1>5

\* Enabling or disabling stays on its course.
LEMMA ToggleAdvances ==
  ASSUME Meant(request), ToggleCourse(request), Advance \/ Load
  PROVE  ToggleCourse(request)'
<1> DEFINE r == request
           B == r.before
           d == IF r.input = Absent THEN B ELSE Saved(r)
           e == Reconcile(Toggled(r))
<1>1. Alike(request', r)
  BY RequestGoesOn
<1>2. B \in Disk /\ r.op = "toggle"
  BY MeantFields DEF ToggleCourse
<1>3. /\ After(d, r, "link") = Toggled(r)
      /\ After(Toggled(r), r, "forward") = e
      /\ After(e, r, "test") = e /\ After(e, r, "adguard") = e
  BY AfterIs
<1>4. ASSUME r.input # Absent, Stage(r, SavesLinks, B, B)
      PROVE  NextStage(Links, d, B)
  BY <1>4, StageAdvances, StageLoads, EnabledLists, AfterIs, <1>2
<1> HIDE DEF d, e
<1>5. ASSUME Stage(r, Links, d, B)
      PROVE  NextStage(Forwards, Toggled(r), B)
  BY <1>5, StageAdvances, StageLoads, EnabledLists, <1>3, <1>2
<1>6. ASSUME Stage(r, Forwards, Toggled(r), B)
      PROVE  NextStage(Tests, e, B)
  BY <1>6, StageAdvances, StageLoads, EnabledLists, <1>3, <1>2
<1>7. ASSUME Stage(r, Tests, e, B)
      PROVE  NextStage(Loads, e, B)
  BY <1>7, StageAdvances, StageLoads, EnabledLists, <1>3, <1>2
<1>8. ASSUME Stage(r, Loads, e, B)
      PROVE  NextStage(Told, e, e) \/ NextStage(<<>>, e, e)
  BY <1>8, StageAdvances, StageLoads, EnabledLists, UntoldLists, <1>2
<1>9. ASSUME Stage(r, Told, e, e)
      PROVE  NextStage(<<>>, e, e)
  BY <1>9, StageAdvances, StageLoads, EnabledLists, <1>3, <1>2
<1>10. ~Stage(r, <<>>, e, e)
  BY DEF Stage, Advance, Load, At
<1>11. \/ NextStage(Links, IF r.input = Absent THEN B ELSE Saved(r), B)
       \/ NextStage(Forwards, Toggled(r), B)
       \/ NextStage(Tests, Reconcile(Toggled(r)), B)
       \/ NextStage(Loads, Reconcile(Toggled(r)), B)
       \/ NextStage(Told, Reconcile(Toggled(r)), Reconcile(Toggled(r)))
       \/ NextStage(<<>>, Reconcile(Toggled(r)), Reconcile(Toggled(r)))
  BY <1>4, <1>5, <1>6, <1>7, <1>8, <1>9, <1>10 DEF ToggleCourse, d, e
<1> QED BY <1>1, <1>2, <1>11, AlikeStages DEF ToggleCourse, Stage, NextStage, Alike

\* A deletion stays on its course.
LEMMA DeleteAdvances ==
  ASSUME Meant(request), DeleteCourse(request), Advance \/ Load
  PROVE  DeleteCourse(request)'
<1> DEFINE r == request
           B == r.before
           d == Link(B, r.site, r.enabled)
           e == Reconcile(Unmapped(r))
<1>1. Alike(request', r)
  BY RequestGoesOn
<1>2. B \in Disk /\ r.op = "delete"
  BY MeantFields DEF DeleteCourse
<1>3. /\ After(B, r, "link") = d
      /\ After(d, r, "forward") = Unlinked(r)
      /\ After(Unlinked(r), r, "test") = Unlinked(r)
      /\ After(Unlinked(r), r, "adguard") = Unlinked(r)
      /\ After(Unmapped(r), r, "forward") = e
  BY AfterIs
<1> HIDE DEF d, e
<1>4. ASSUME r.site \in B.links,
             \/ Stage(r, LinksForgets, B, B)
             \/ Stage(r, ForwardsForgets, d, B)
             \/ Stage(r, TestsForgets, Unlinked(r), B)
             \/ Stage(r, LoadsForgets, Unlinked(r), B)
             \/ Stage(r, ToldForgets, Unlinked(r), Unlinked(r))
      PROVE  \/ NextStage(ForwardsForgets, d, B)
             \/ NextStage(TestsForgets, Unlinked(r), B)
             \/ NextStage(LoadsForgets, Unlinked(r), B)
             \/ NextStage(ToldForgets, Unlinked(r), Unlinked(r))
             \/ NextStage(Forgets, Disabled(r), Disabled(r))
  <2>0. Disabled(r) = Unlinked(r)
    BY <1>4 DEF Disabled
  <2>1. ASSUME Stage(r, LinksForgets, B, B)
        PROVE  NextStage(ForwardsForgets, d, B)
    BY <2>1, StageAdvances, StageLoads, DeleteLists, <1>3, <1>2
  <2>2. ASSUME Stage(r, ForwardsForgets, d, B)
        PROVE  NextStage(TestsForgets, Unlinked(r), B)
    BY <2>2, StageAdvances, StageLoads, DeleteLists, <1>3, <1>2
  <2>3. ASSUME Stage(r, TestsForgets, Unlinked(r), B)
        PROVE  NextStage(LoadsForgets, Unlinked(r), B)
    BY <2>3, StageAdvances, StageLoads, DeleteLists, <1>3, <1>2
  <2>4. ASSUME Stage(r, LoadsForgets, Unlinked(r), B)
        PROVE  NextStage(ToldForgets, Unlinked(r), Unlinked(r)) \/ NextStage(Forgets, Unlinked(r), Unlinked(r))
    BY <2>4, StageAdvances, StageLoads, DeleteLists, UntoldLists, <1>2
  <2>5. ASSUME Stage(r, ToldForgets, Unlinked(r), Unlinked(r))
        PROVE  NextStage(Forgets, Unlinked(r), Unlinked(r))
    BY <2>5, StageAdvances, StageLoads, DeleteLists, <1>3, <1>2
  <2> QED BY <1>4, <2>0, <2>1, <2>2, <2>3, <2>4, <2>5
<1>5. ASSUME Stage(r, Forgets, Disabled(r), Disabled(r))
      PROVE  NextStage(Erases, Dropping(r), Disabled(r))
  BY <1>5, StageAdvances, StageLoads, DeleteLists, AfterIs, <1>2
<1>6. ASSUME Stage(r, Erases, Dropping(r), Disabled(r))
      PROVE  NextStage(Unmaps, Erased(r), Disabled(r))
  BY <1>6, StageAdvances, StageLoads, DeleteLists, AfterIs, <1>2
<1>7. ASSUME Stage(r, Unmaps, Erased(r), Disabled(r))
      PROVE  NextStage(NamesOnly, Unmapped(r), Disabled(r))
  BY <1>7, StageAdvances, StageLoads, DeleteLists, AfterIs, <1>2
<1>8. ASSUME Stage(r, NamesOnly, Unmapped(r), Disabled(r))
      PROVE  NextStage(<<>>, e, Disabled(r))
  BY <1>8, StageAdvances, StageLoads, OnlyLists, <1>3, <1>2
<1>9. ~Stage(r, <<>>, e, Disabled(r))
  BY DEF Stage, Advance, Load, At
<1>10. \/ /\ r.site \in B.links
          /\ \/ NextStage(ForwardsForgets, d, B)
             \/ NextStage(TestsForgets, Unlinked(r), B)
             \/ NextStage(LoadsForgets, Unlinked(r), B)
             \/ NextStage(ToldForgets, Unlinked(r), Unlinked(r))
       \/ NextStage(Forgets, Disabled(r), Disabled(r))
       \/ NextStage(Erases, Dropping(r), Disabled(r))
       \/ NextStage(Unmaps, Erased(r), Disabled(r))
       \/ NextStage(NamesOnly, Unmapped(r), Disabled(r))
       \/ NextStage(<<>>, e, Disabled(r))
  BY <1>4, <1>5, <1>6, <1>7, <1>8, <1>9 DEF DeleteCourse, d, e
<1> QED BY <1>1, <1>2, <1>10, AlikeStages DEF DeleteCourse, Stage, NextStage, Alike, d, e

\* New settings stay on their course.
LEMMA SettingsAdvances ==
  ASSUME Meant(request), SettingsCourse(request), Advance \/ Load
  PROVE  SettingsCourse(request)'
<1> DEFINE r == request
           B == r.before
<1>1. Alike(request', r)
  BY RequestGoesOn
<1>2. B \in Disk /\ r.op = "settings"
  BY MeantFields DEF SettingsCourse
<1>3. After(Applied(r), r, "test") = Applied(r)
  BY AfterIs
<1>4. ASSUME Stage(r, LastRenders, B, B)
      PROVE  NextStage(LastTests, Applied(r), B)
  BY <1>4, StageAdvances, StageLoads, LastLists, AfterIs, <1>2
<1>5. ASSUME Stage(r, LastTests, Applied(r), B)
      PROVE  NextStage(LastLoads, Applied(r), B)
  BY <1>5, StageAdvances, StageLoads, LastLists, <1>3, <1>2
<1>6. ASSUME Stage(r, LastLoads, Applied(r), B)
      PROVE  NextStage(<<>>, Applied(r), Applied(r))
  BY <1>6, StageAdvances, StageLoads, LastLists, UntoldLists, <1>2
<1>7. ~Stage(r, <<>>, Applied(r), Applied(r))
  BY DEF Stage, Advance, Load, At
<1>8. \/ NextStage(LastTests, Applied(r), B)
      \/ NextStage(LastLoads, Applied(r), B)
      \/ NextStage(<<>>, Applied(r), Applied(r))
  BY <1>4, <1>5, <1>6, <1>7 DEF SettingsCourse
<1> QED BY <1>1, <1>2, <1>8, AlikeStages DEF SettingsCourse, Stage, NextStage, Alike

\* A reload or a start stays on its course.
LEMMA LifecycleAdvances ==
  ASSUME Meant(request), LifecycleCourse(request), Advance \/ Load
  PROVE  LifecycleCourse(request)'
<1> DEFINE r == request
           B == r.before
<1>1. Alike(request', r)
  BY RequestGoesOn
<1>2. B \in Disk /\ r.op = "lifecycle"
  BY MeantFields DEF LifecycleCourse
<1>3. After(B, r, "test") = B
  BY AfterIs
<1>4. ASSUME Stage(r, LastTests, B, B)
      PROVE  NextStage(LastLoads, B, B)
  BY <1>4, StageAdvances, StageLoads, LastLists, <1>3, <1>2
<1>5. ASSUME Stage(r, LastLoads, B, B)
      PROVE  NextStage(<<>>, B, B)
  BY <1>5, StageAdvances, StageLoads, LastLists, UntoldLists, <1>2
<1>6. ~Stage(r, <<>>, B, B)
  BY DEF Stage, Advance, Load, At
<1>7. NextStage(LastLoads, B, B) \/ NextStage(<<>>, B, B)
  BY <1>4, <1>5, <1>6 DEF LifecycleCourse
<1> QED BY <1>1, <1>2, <1>7 DEF LifecycleCourse, Stage, NextStage, Alike

\* Every request stays on its course, and remembers the tree it found.
LEMMA CourseAdvances ==
  ASSUME Meant(request), Course(request), Advance \/ Load
  PROVE  /\ request' # NoRequest /\ Meant(request') /\ Course(request)'
         /\ request'.before = request.before
<1>1. Course(request)'
  BY CreateAdvances, UpdateAdvances, ToggleAdvances, DeleteAdvances, SettingsAdvances,
     LifecycleAdvances
  DEF Course
<1> QED BY <1>1, RequestGoesOn DEF Alike

(* --------------------- a step fails: what is undone -------------------- *)

\* The forwarder's names depend on the files of the enabled sites only.
LEMMA NamesOfLinked ==
  ASSUME NEW d, NEW e, d.links = e.links, \A t \in d.links : d.files[t] = e.files[t]
  PROVE  ForwarderNames(d) = ForwarderNames(e)
BY DEF ForwarderNames

\* What does not exist is not linked and has no rows, and neither have its children.
LEMMA FreshFamily ==
  ASSUME NEW d \in Disk, NEW s \in Sites, Sound(d), d.files[s] = Absent
  PROVE  /\ \A t \in Family(s) : d.files[t] = Absent
         /\ d.links \ Family(s) = d.links
         /\ s \notin d.links
         /\ \A q \in d.rows, a \in Aliases : q[1] # Key(s, a)
<1>1. \A t \in Sites : SiteSound(d, t)
  BY DEF Sound
<1>2. \A t \in Family(s) : t \in Sites /\ (t = s \/ Parent[t] = s)
  BY DEF Family
<1>3. \A t \in Family(s) : d.files[t] = Absent
  BY <1>1, <1>2 DEF SiteSound
<1>4. \A t \in Family(s) : t \notin d.links
  BY <1>1, <1>2, <1>3 DEF SiteSound
<1> QED BY <1>1, <1>3, <1>4, FamilyFacts DEF SiteSound

\* Taking back the rows of a new site leaves those there were: none had its keys.
LEMMA CreatedRows ==
  ASSUME NEW r, Meant(r), r.op = "create", Sound(r.before), Fresh(r)
  PROVE  /\ {q \in Mapped(r).rows : q[1] \notin NewKeys(r)} = r.before.rows
         /\ NewRows(Mapped(r), NewKeys(r), {}, NoUpstream) = r.before.rows
<1>1. \A q \in r.before.rows : q[1] \notin NewKeys(r)
  BY MeantFields, MeantKeys, FreshFamily DEF Fresh, NewKeys
<1>2. Mapped(r).rows = NewRows(r.before, {}, NewKeys(r), r.upstream)
  BY MappedFields
<1>3. \A q \in Mapped(r).rows : q[1] \notin NewKeys(r) <=> q \in r.before.rows
  BY <1>1, <1>2 DEF NewRows
<1>4. r.before.rows \subseteq Mapped(r).rows
  BY <1>1, <1>2 DEF NewRows
<1>5. {q \in Mapped(r).rows : q[1] \notin NewKeys(r)} = r.before.rows
  BY <1>3, <1>4
<1> QED BY <1>5 DEF NewRows

\* The other sites' files.
LEMMA FilesElsewhere ==
  ASSUME NEW r, Meant(r), r.op \in {"create", "update"}, NEW t \in Sites
  PROVE  /\ Written(r).files[t] = IF t = r.site THEN r.file ELSE r.before.files[t]
         /\ Mapped(r).files[t] = IF t = r.site THEN r.file ELSE r.before.files[t]
<1> DEFINE files == [r.before.files EXCEPT ![r.site] = r.file]
<1>1. Written(r).files = files /\ Mapped(r).files = files
  BY WrittenFields, MappedFields
<1>2. r.before.files \in [Sites -> File \cup {Absent}] /\ r.site \in Sites
  BY MeantFields, DiskFields
<1>3. files[t] = IF t = r.site THEN r.file ELSE r.before.files[t]
  BY <1>2
<1> HIDE DEF files
<1> QED BY <1>1, <1>3

\* A new site is erased again.
LEMMA CreatedErased ==
  ASSUME NEW r, Meant(r), r.op = "create", Sound(r.before), Fresh(r),
         NEW d \in Disk,
         \A t \in Sites : t # r.site => d.files[t] = r.before.files[t],
         d.links = r.before.links, d.rows = r.before.rows, d.names = r.before.names,
         d.global = r.before.global
  PROVE  InputsBack(Erase(d, r.site), r) = r.before
<1> DEFINE B == r.before
           e == Erase(d, r.site)
           f == InputsBack(e, r)
<1>1. B \in Disk /\ r.site \in Sites /\ B.files[r.site] = Absent
  BY MeantFields DEF Fresh
<1>2. /\ e \in Disk
      /\ e.rows = d.rows
      /\ e.names = d.names
      /\ e.global = d.global
      /\ e.links = d.links \ Family(r.site)
      /\ \A t \in Sites : e.files[t] = IF t \in Family(r.site) THEN Absent ELSE d.files[t]
  BY <1>1, EraseFields
<1>3. /\ \A t \in Family(r.site) : B.files[t] = Absent
      /\ B.links \ Family(r.site) = B.links
      /\ r.site \in Family(r.site)
  BY <1>1, FreshFamily, FamilyFacts
<1>4. e.files = B.files
  <2>1. \A t \in Sites : e.files[t] = B.files[t]
    BY <1>2, <1>3
  <2>2. e.files \in [Sites -> File \cup {Absent}] /\ B.files \in [Sites -> File \cup {Absent}]
    BY <1>1, <1>2, DiskFields
  <2> QED BY <2>1, <2>2
<1> HIDE DEF e
<1>5. /\ f \in Disk
      /\ f.inputs = B.inputs
      /\ f.files = e.files
      /\ f.links = e.links
      /\ f.rows = e.rows
      /\ f.names = e.names
      /\ f.global = e.global
  BY <1>1, <1>2, InputsBackFields
<1> HIDE DEF f
<1>6. f = B
  <2>1. /\ f.inputs = B.inputs /\ f.files = B.files /\ f.links = B.links
        /\ f.rows = B.rows /\ f.names = B.names /\ f.global = B.global
    BY <1>2, <1>3, <1>4, <1>5
  <2>2. f \in Disk
    BY <1>5
  <2> HIDE DEF B
  <2>3. B \in Disk
    BY <1>1
  <2> QED BY <2>1, <2>2, <2>3, DiskEqual
<1> QED BY <1>6 DEF f, e

\* Its link, its rows and its name in the forwarder are taken back first.
LEMMA CreatedUndone ==
  ASSUME NEW r, Meant(r), r.op = "create", Sound(r.before), Fresh(r),
         NEW d \in Disk,
         d.files = Mapped(r).files, d.rows = Mapped(r).rows,
         d.links \ {r.site} = r.before.links, d.global = r.before.global
  PROVE  InputsBack(Erase(Reconcile(Sync(LinkBack(d, r), NewKeys(r), {}, NoUpstream)),
                          r.site), r) = r.before
<1> DEFINE B == r.before
           e == LinkBack(d, r)
           f == Sync(e, NewKeys(r), {}, NoUpstream)
           g == Reconcile(f)
<1>1. B \in Disk /\ r.site \in Sites /\ B.files[r.site] = Absent
  BY MeantFields DEF Fresh
<1>2. r.site \notin B.links
  BY <1>1, FreshFamily
<1>3. /\ e \in Disk
      /\ e.files = d.files
      /\ e.rows = d.rows
      /\ e.global = d.global
      /\ e.links = d.links \ {r.site}
  BY <1>1, <1>2, LinkBackFields
<1> HIDE DEF e
<1>4. /\ f \in Disk
      /\ f.files = e.files
      /\ f.rows = NewRows(e, NewKeys(r), {}, NoUpstream)
      /\ f.global = e.global
      /\ f.links = e.links
  BY <1>3, SyncFields
<1>5. f.rows = B.rows
  <2>1. NewRows(e, NewKeys(r), {}, NoUpstream) = NewRows(Mapped(r), NewKeys(r), {}, NoUpstream)
    BY <1>3 DEF NewRows
  <2> QED BY <1>4, <2>1, CreatedRows
<1> HIDE DEF f
<1>6. /\ g \in Disk
      /\ g.files = f.files
      /\ g.rows = f.rows
      /\ g.global = f.global
      /\ g.links = f.links
      /\ g.names = ForwarderNames(f)
  BY <1>4, NamesFields
<1>7. \A t \in Sites : t # r.site => d.files[t] = B.files[t]
  BY FilesElsewhere
<1>8. ForwarderNames(f) = ForwarderNames(B)
  <2>1. f.links = B.links
    BY <1>3, <1>4
  <2>2. \A t \in B.links : t \in Sites /\ t # r.site
    BY <1>1, <1>2, DiskFields
  <2>3. \A t \in f.links : f.files[t] = B.files[t]
    BY <1>3, <1>4, <1>7, <2>1, <2>2
  <2> QED BY <2>1, <2>3, NamesOfLinked
<1>9. B.names = ForwarderNames(B)
  BY DEF Sound
<1> HIDE DEF g
<1>10. InputsBack(Erase(g, r.site), r) = B
  <2>1. /\ \A t \in Sites : t # r.site => g.files[t] = B.files[t]
        /\ g.links = B.links /\ g.rows = B.rows /\ g.names = B.names
        /\ g.global = B.global
    BY <1>3, <1>4, <1>5, <1>6, <1>7, <1>8, <1>9
  <2> QED BY <1>6, <2>1, CreatedErased
<1> QED BY <1>10 DEF e, f, g

\* A creation that fails before the last step is undone entirely.
LEMMA CreateUndone ==
  ASSUME Meant(request), CreateCourse(request), Sound(request.before),
         request.todo # <<>>, Step # "adguard"
  PROVE  /\ Undo(disk, request, Step) = request.before
         /\ torn = 0 /\ Running => loaded = Served(request.before)
<1> DEFINE r == request
           B == r.before
<1>1. B \in Disk /\ r.op = "create" /\ r.site \in Sites
  BY MeantFields DEF CreateCourse
<1>2. \A step : Undo(disk, r, step) = UndoCreate(disk, r, step)
  BY <1>1 DEF Undo
<1>3. ASSUME NEW d \in Disk, d.files = B.files, d.links = B.links, d.rows = B.rows,
             d.names = B.names, d.global = B.global
      PROVE  InputsBack(d, r) = B
  BY <1>1, <1>3, InputsBackFields, DiskEqual
<1>4. InputsBack(B, r) = B /\ InputsBack(Saved(r), r) = B
  BY <1>1, <1>3, SavedFields
<1>5. ASSUME Fresh(r)
      PROVE  InputsBack(Erase(Written(r), r.site), r) = B
  <2>1. \A t \in Sites : t # r.site => Written(r).files[t] = B.files[t]
    BY <1>1, FilesElsewhere
  <2> DEFINE d == Written(r)
  <2>2. /\ d \in Disk /\ d.links = B.links /\ d.rows = B.rows /\ d.names = B.names
        /\ d.global = B.global
    BY <1>1, WrittenFields
  <2> HIDE DEF d
  <2>3. InputsBack(Erase(d, r.site), r) = B
    BY <1>1, <1>5, <2>1, <2>2, CreatedErased DEF d
  <2> QED BY <2>3 DEF d
<1>6. ASSUME Fresh(r)
      PROVE  InputsBack(Erase(Sync(Mapped(r), NewKeys(r), {}, NoUpstream), r.site), r) = B
  <2> DEFINE f == Sync(Mapped(r), NewKeys(r), {}, NoUpstream)
  <2>a. /\ Mapped(r) \in Disk /\ Mapped(r).links = B.links /\ Mapped(r).names = B.names
        /\ Mapped(r).global = B.global
    BY <1>1, MappedFields
  <2>1. /\ f \in Disk
        /\ f.files = Mapped(r).files
        /\ f.links = Mapped(r).links
        /\ f.rows = NewRows(Mapped(r), NewKeys(r), {}, NoUpstream)
        /\ f.names = Mapped(r).names
        /\ f.global = Mapped(r).global
    BY <2>a, SyncFields
  <2> HIDE DEF f
  <2>2. \A t \in Sites : t # r.site => f.files[t] = B.files[t]
    BY <1>1, <2>1, FilesElsewhere
  <2>3. f.rows = B.rows
    BY <1>1, <1>6, <2>1, CreatedRows
  <2>4. InputsBack(Erase(f, r.site), r) = B
    BY <1>1, <1>6, <2>a, <2>1, <2>2, <2>3, CreatedErased
  <2> QED BY <2>4 DEF f
<1> DEFINE undone(d) ==
      InputsBack(Erase(Reconcile(Sync(LinkBack(d, r), NewKeys(r), {}, NoUpstream)),
                       r.site), r)
<1>7. ASSUME Fresh(r), NEW d, d \in {Mapped(r), Linked(r), Reconcile(Linked(r))}, r.enabled
      PROVE  undone(d) = B
  <2>1. r.site \notin B.links
    BY <1>1, <1>7, FreshFamily DEF Fresh
  <2>2. Mapped(r) \in Disk /\ Mapped(r).links = B.links /\ Mapped(r).global = B.global
    BY <1>1, MappedFields
  <2>3. /\ Linked(r) \in Disk
        /\ Linked(r).files = Mapped(r).files /\ Linked(r).rows = Mapped(r).rows
        /\ Linked(r).links = B.links \cup {r.site} /\ Linked(r).global = B.global
    BY <1>1, <1>7, LinkedFields
  <2>4. LET e == Reconcile(Linked(r))
        IN /\ e \in Disk
           /\ e.files = Mapped(r).files /\ e.rows = Mapped(r).rows
           /\ e.links = B.links \cup {r.site} /\ e.global = B.global
    BY <2>3, NamesFields
  <2>5. /\ d \in Disk
        /\ d.files = Mapped(r).files /\ d.rows = Mapped(r).rows
        /\ d.links \ {r.site} = B.links /\ d.global = B.global
    BY <1>7, <2>1, <2>2, <2>3, <2>4
  <2> QED BY <1>1, <1>7, <2>5, CreatedUndone
<1> HIDE DEF undone
<1>8. \/ Step \in {"save", "write"} /\ disk \in {B, Saved(r)}
      \/ Step = "sync" /\ disk = Written(r) /\ Fresh(r)
      \/ Step = "forward" /\ ~r.enabled /\ disk = Mapped(r) /\ Fresh(r)
      \/ /\ r.enabled /\ Fresh(r)
         /\ Step \in {"link", "forward", "test", "reload"}
         /\ disk \in {Mapped(r), Linked(r), Reconcile(Linked(r))}
  BY EnabledLists, OnlyLists DEF CreateCourse, Stage, Goes, Step
<1>9. torn = 0 /\ Running => loaded = Served(B)
  BY EnabledLists, OnlyLists DEF CreateCourse, Stage, Goes, Step
<1>10. Undo(disk, r, Step) = B
  <2>1. CASE Step \in {"save", "write"} /\ disk \in {B, Saved(r)}
    BY <1>2, <1>4, <2>1 DEF UndoCreate
  <2>2. CASE Step = "sync" /\ disk = Written(r) /\ Fresh(r)
    BY <1>2, <1>5, <2>2 DEF UndoCreate
  <2>3. CASE Step = "forward" /\ ~r.enabled /\ disk = Mapped(r) /\ Fresh(r)
    BY <1>2, <1>6, <2>3 DEF UndoCreate
  <2>4. CASE /\ r.enabled /\ Fresh(r)
             /\ Step \in {"link", "forward", "test", "reload"}
             /\ disk \in {Mapped(r), Linked(r), Reconcile(Linked(r))}
    <3>1. UndoCreate(disk, r, Step) = undone(disk)
      BY <2>4 DEF UndoCreate, undone
    <3> QED BY <1>2, <1>7, <2>4, <3>1
  <2> QED BY <1>8, <2>1, <2>2, <2>3, <2>4
<1> QED BY <1>9, <1>10

\* A site that exists has at most one row: the one its name and upstream make.
LEMMA OwnRow ==
  ASSUME NEW d \in Disk, NEW s \in Sites, Sound(d), d.files[s] # Absent
  PROVE  LET k == Key(s, AliasOf(d, s))
             u == UpstreamOf(d, s)
         IN /\ \A q \in d.rows, a \in Aliases :
                 q[1] = Key(s, a) => q = <<k, u>> /\ u # NoUpstream
            /\ u # NoUpstream => <<k, u>> \in d.rows
            /\ AliasOf(d, s) = d.files[s].alias
<1> DEFINE k == Key(s, AliasOf(d, s))
           u == UpstreamOf(d, s)
<1>1. /\ \A q \in d.rows, a \in Aliases :
           q[1] = Key(s, a) => q[1] = Key(s, d.files[s].alias)
      /\ d.inputs[s] # Absent =>
           /\ d.files[s] = Managed(d.global, d.inputs[s])
           /\ \A v \in Upstreams :
                <<Key(s, d.inputs[s].alias), v>> \in d.rows <=> v = d.inputs[s].upstream
  BY DEF Sound, SiteSound
<1>2. \A q \in d.rows : q = <<q[1], q[2]>> /\ q[2] \in Upstreams
  BY DiskFields
<1>3. \A p, q \in d.rows : p[1] = q[1] => p = q
  BY DEF Sound
<1>4. CASE d.inputs[s] # Absent
  <2>1. d.inputs[s] \in Input /\ d.global \in Globals
    BY <1>4, DiskFields
  <2>2. d.files[s].alias = d.inputs[s].alias
    BY <1>1, <1>4, <2>1, ManagedIsFile
  <2>3. AliasOf(d, s) = d.inputs[s].alias /\ u = d.inputs[s].upstream
    BY <1>4 DEF AliasOf, UpstreamOf
  <2>4. u \in Upstreams \cup {NoUpstream}
    BY <2>1, <2>3, InputFields
  <2>5. NoUpstream \notin Upstreams
    BY SitesAssumption
  <2> HIDE DEF u
  <2>6. ASSUME NEW q \in d.rows, NEW a \in Aliases, q[1] = Key(s, a)
        PROVE  q = <<k, u>> /\ u # NoUpstream
    <3>1. q[1] = k
      BY <1>1, <2>2, <2>3, <2>6
    <3>2. <<k, q[2]>> \in d.rows /\ q[2] \in Upstreams
      BY <1>2, <3>1
    <3>3. q[2] = u
      BY <1>1, <1>4, <2>3, <3>2
    <3> QED BY <1>2, <2>5, <3>1, <3>2, <3>3
  <2>7. u # NoUpstream => <<k, u>> \in d.rows
    BY <1>1, <1>4, <2>3, <2>4
  <2> QED BY <2>2, <2>3, <2>6, <2>7 DEF u
<1>5. CASE d.inputs[s] = Absent
  <2> DEFINE mine == {r \in d.rows : r[1] \in KeysOf(d, s)}
             c == CHOOSE r \in mine : TRUE
  <2>1. AliasOf(d, s) = d.files[s].alias
    BY <1>5 DEF AliasOf
  <2>2. mine = {r \in d.rows : r[1] = k}
    BY <2>1 DEF KeysOf
  <2>3. u = IF mine = {} THEN NoUpstream ELSE c[2]
    BY <1>5 DEF UpstreamOf
  <2>4. mine # {} => c \in mine
    OBVIOUS
  <2>5. NoUpstream \notin Upstreams
    BY SitesAssumption
  <2> HIDE DEF mine, c, u, k
  <2>6. \A q \in mine : q = c /\ q = <<k, u>> /\ u # NoUpstream
    BY <1>2, <1>3, <2>2, <2>3, <2>4, <2>5
  <2>7. \A q \in d.rows, a \in Aliases : q[1] = Key(s, a) => q \in mine
    BY <1>1, <2>1, <2>2 DEF k
  <2>8. u # NoUpstream => <<k, u>> \in d.rows
    BY <2>2, <2>3, <2>4, <2>6
  <2> QED BY <2>1, <2>6, <2>7, <2>8 DEF u, k
<1> QED BY <1>4, <1>5

\* Taking back the rows of an updated site brings back those there were.
LEMMA UpdatedRows ==
  ASSUME NEW r, Meant(r), r.op = "update", Sound(r.before), NEW d, d.rows = Mapped(r).rows
  PROVE  NewRows(d, NewKeys(r), OldKeys(r), UpstreamOf(r.before, r.site)) = r.before.rows
<1> DEFINE B == r.before
           old == OldKeys(r)
           new == NewKeys(r)
           k == Key(r.site, AliasOf(B, r.site))
           u == UpstreamOf(B, r.site)
<1>1. B \in Disk /\ r.site \in Sites /\ B.files[r.site] # Absent
  BY MeantFields DEF Meant
<1>2. /\ \A q \in B.rows, a \in Aliases :
           q[1] = Key(r.site, a) => q = <<k, u>> /\ u # NoUpstream
      /\ u # NoUpstream => <<k, u>> \in B.rows
  BY <1>1, OwnRow
<1>3. old = {k} /\ new = {Key(r.site, r.file.alias)} /\ r.file.alias \in Aliases
  BY MeantKeys DEF OldKeys, NewKeys
<1>4. AliasOf(B, r.site) \in Aliases
  BY <1>1, KeysTypes
<1>5. d.rows = NewRows(B, old, new, r.upstream)
  BY MappedFields
<1> HIDE DEF B, u
<1>6. {q \in d.rows : q[1] \notin new \cup old} = {q \in B.rows : q[1] \notin old \cup new}
  BY <1>5 DEF NewRows
<1>7. \A q \in B.rows : q[1] \in old \cup new <=> q = <<k, u>> /\ u # NoUpstream
  BY <1>2, <1>3, <1>4
<1>8. NewRows(d, new, old, u)
        = {q \in B.rows : q[1] \notin old \cup new}
            \cup (IF u = NoUpstream THEN {} ELSE {<<k, u>>})
  BY <1>3, <1>6 DEF NewRows
<1> HIDE DEF k, old, new
<1>9. NewRows(d, new, old, u) = B.rows
  BY <1>2, <1>7, <1>8
<1> QED BY <1>9 DEF B, old, new, u

\* An update that fails before the last step is undone entirely.
LEMMA UpdateUndone ==
  ASSUME Meant(request), UpdateCourse(request), Sound(request.before),
         request.todo # <<>>, Step # "adguard"
  PROVE  /\ Undo(disk, request, Step) = request.before
         /\ torn = 0 /\ Running => loaded = Served(request.before)
<1> DEFINE r == request
           B == r.before
           old == OldKeys(r)
           new == NewKeys(r)
           u == UpstreamOf(B, r.site)
           written(d) == Write(d, r.site, B.files[r.site])
           synced(d) == Sync(written(d), new, old, u)
<1>1. B \in Disk /\ r.op = "update" /\ r.site \in Sites
  BY MeantFields DEF UpdateCourse
<1>2. \A step : Undo(disk, r, step) = UndoUpdate(disk, r, step)
  BY <1>1 DEF Undo
<1>3. ASSUME NEW d \in Disk, d.files = B.files, d.links = B.links, d.rows = B.rows,
             d.names = B.names, d.global = B.global
      PROVE  InputsBack(d, r) = B
  BY <1>1, <1>3, InputsBackFields, DiskEqual
<1>4. InputsBack(B, r) = B /\ InputsBack(Saved(r), r) = B
  BY <1>1, <1>3, SavedFields
<1>5. B.files[r.site] \in File \cup {Absent}
  BY <1>1, DiskFields
<1>6. ASSUME NEW d \in Disk, \A t \in Sites : t # r.site => d.files[t] = B.files[t]
      PROVE  /\ written(d) \in Disk
             /\ written(d).files = B.files
             /\ written(d).links = d.links
             /\ written(d).rows = d.rows
             /\ written(d).names = d.names
             /\ written(d).global = d.global
  <2> DEFINE f == B.files[r.site]
             e == written(d)
  <2>0. e = Write(d, r.site, f) /\ f \in File \cup {Absent}
    BY <1>5
  <2> HIDE DEF e, f
  <2>1. /\ e \in Disk
        /\ e.files = [d.files EXCEPT ![r.site] = f]
        /\ e.links = d.links
        /\ e.rows = d.rows
        /\ e.names = d.names
        /\ e.global = d.global
    BY <1>1, <2>0, WriteFields
  <2>2. /\ d.files \in [Sites -> File \cup {Absent}]
        /\ B.files \in [Sites -> File \cup {Absent}]
    BY <1>1, DiskFields
  <2>3. [d.files EXCEPT ![r.site] = f] = B.files
    BY <1>1, <1>6, <2>2 DEF f
  <2> QED BY <2>1, <2>3 DEF e
<1>7. InputsBack(written(Written(r)), r) = B
  <2>1. \A t \in Sites : t # r.site => Written(r).files[t] = B.files[t]
    BY <1>1, FilesElsewhere
  <2> DEFINE d == Written(r)
  <2>2. /\ d \in Disk /\ d.links = B.links /\ d.rows = B.rows /\ d.names = B.names
        /\ d.global = B.global
    BY <1>1, WrittenFields
  <2> HIDE DEF d
  <2>3. InputsBack(written(d), r) = B
    <3> HIDE DEF written
    <3> QED BY <1>3, <1>6, <2>1, <2>2 DEF d
  <2> QED BY <2>3 DEF d
<1>8. ASSUME NEW d \in Disk, d.files = Mapped(r).files, d.links = B.links,
             d.rows = Mapped(r).rows, d.global = B.global
      PROVE  /\ synced(d) \in Disk
             /\ synced(d).files = B.files
             /\ synced(d).links = B.links
             /\ synced(d).rows = B.rows
             /\ synced(d).names = d.names
             /\ synced(d).global = B.global
  <2>1. \A t \in Sites : t # r.site => d.files[t] = B.files[t]
    BY <1>1, <1>8, FilesElsewhere
  <2> DEFINE e == written(d)
  <2>2. /\ e \in Disk
        /\ e.files = B.files
        /\ e.links = d.links
        /\ e.rows = d.rows
        /\ e.names = d.names
        /\ e.global = d.global
    BY <1>6, <2>1
  <2>3. NewRows(e, new, old, u) = B.rows
    BY <1>1, <1>8, <2>2, UpdatedRows
  <2>4. old \in SUBSET Keys /\ u \in Upstreams \cup {NoUpstream}
    BY <1>1, MeantKeys, KeysTypes
  <2> HIDE DEF e, old, new, u
  <2> DEFINE f == Sync(e, new, old, u)
  <2>5. /\ f \in Disk
        /\ f.files = e.files
        /\ f.links = e.links
        /\ f.names = e.names
        /\ f.global = e.global
        /\ f.rows = NewRows(e, new, old, u)
    BY <2>2, <2>4, SyncFields
  <2> HIDE DEF f
  <2>6. /\ f \in Disk /\ f.files = B.files /\ f.links = B.links /\ f.rows = B.rows
        /\ f.names = d.names /\ f.global = B.global
    BY <1>8, <2>2, <2>3, <2>5
  <2> QED BY <2>6 DEF f, e
<1> HIDE DEF synced
<1>9. InputsBack(synced(Mapped(r)), r) = B
  <2> DEFINE d == Mapped(r)
  <2>1. /\ d \in Disk /\ d.links = B.links /\ d.names = B.names /\ d.global = B.global
    BY <1>1, MappedFields
  <2> QED BY <1>3, <1>8, <2>1
<1>10. InputsBack(Reconcile(synced(Reconcile(Mapped(r)))), r) = B
  <2> DEFINE d == Reconcile(Mapped(r))
             e == synced(d)
             f == Reconcile(e)
  <2>1. /\ d \in Disk /\ d.files = Mapped(r).files /\ d.links = B.links
        /\ d.rows = Mapped(r).rows /\ d.global = B.global
    BY <1>1, MappedFields, NamesFields
  <2> HIDE DEF d
  <2>2. /\ e \in Disk
        /\ e.files = B.files
        /\ e.links = B.links
        /\ e.rows = B.rows
        /\ e.global = B.global
    BY <1>8, <2>1
  <2> HIDE DEF e
  <2>3. /\ f \in Disk
        /\ f.files = e.files
        /\ f.links = e.links
        /\ f.rows = e.rows
        /\ f.global = e.global
        /\ f.names = ForwarderNames(e)
    BY <2>2, NamesFields
  <2>4. f.names = B.names
    BY <2>2, <2>3, NamesDepend DEF Sound
  <2> HIDE DEF f
  <2>5. InputsBack(f, r) = B
    BY <1>3, <2>2, <2>3, <2>4
  <2> QED BY <2>5 DEF d, e, f
<1>11. \/ Step \in {"save", "write"} /\ disk \in {B, Saved(r)}
       \/ Step = "sync" /\ disk = Written(r)
       \/ Step = "forward" /\ disk = Mapped(r)
       \/ Step \in {"test", "reload"} /\ disk = Reconcile(Mapped(r))
  BY LastLists, OnlyLists DEF UpdateCourse, Stage, Goes, Step
<1>12. torn = 0 /\ Running => loaded = Served(B)
  BY LastLists, OnlyLists DEF UpdateCourse, Stage, Goes, Step
<1>13. Undo(disk, r, Step) = B
  <2>1. CASE Step \in {"save", "write"} /\ disk \in {B, Saved(r)}
    BY <1>2, <1>4, <2>1 DEF UndoUpdate
  <2>2. CASE Step = "sync" /\ disk = Written(r)
    BY <1>2, <1>7, <2>2 DEF UndoUpdate
  <2>3. CASE Step = "forward" /\ disk = Mapped(r)
    BY <1>2, <1>9, <2>3 DEF UndoUpdate, synced
  <2>4. CASE Step \in {"test", "reload"} /\ disk = Reconcile(Mapped(r))
    BY <1>2, <1>10, <2>4 DEF UndoUpdate, synced
  <2> QED BY <1>11, <2>1, <2>2, <2>3, <2>4
<1> QED BY <1>12, <1>13

\* So is enabling or disabling.
LEMMA ToggleUndone ==
  ASSUME Meant(request), ToggleCourse(request), Sound(request.before),
         request.todo # <<>>, Step # "adguard"
  PROVE  /\ Undo(disk, request, Step) = request.before
         /\ torn = 0 /\ Running => loaded = Served(request.before)
<1> DEFINE r == request
           B == r.before
           d1 == IF r.input = Absent THEN B ELSE Saved(r)
<1>1. B \in Disk /\ r.op = "toggle" /\ r.site \in Sites
  BY MeantFields DEF ToggleCourse
<1>2. ASSUME NEW d \in Disk, d.files = B.files, d.links = B.links, d.rows = B.rows,
             d.names = B.names, d.global = B.global
      PROVE  InputsBack(d, r) = B
  BY <1>1, <1>2, InputsBackFields, DiskEqual
<1>3. InputsBack(B, r) = B /\ InputsBack(d1, r) = B
  BY <1>1, <1>2, SavedFields
<1>4. ASSUME NEW d \in Disk, d.files = B.files, d.links \ {r.site} = B.links \ {r.site},
             d.rows = B.rows, d.global = B.global
      PROVE  InputsBack(LinkBack(d, r), r) = B
  <2> DEFINE linked == Link(d, r.site, r.site \in B.links)
             e == LinkBack(d, r)
  <2>1. /\ linked \in Disk
        /\ e = Reconcile(linked)
        /\ e \in Disk
        /\ e.files = d.files
        /\ e.rows = d.rows
        /\ e.global = d.global
        /\ e.links = IF r.site \in B.links THEN d.links \cup {r.site} ELSE d.links \ {r.site}
        /\ e.names = ForwarderNames(linked)
    BY <1>1, LinkBackFields
  <2> HIDE DEF linked, e
  <2>2. e.links = B.links
    BY <1>4, <2>1
  <2>3. linked.files = e.files /\ linked.links = e.links
    BY <2>1, NamesFields
  <2>4. e.names = B.names
    BY <1>4, <2>1, <2>2, <2>3, NamesDepend DEF Sound
  <2>5. InputsBack(e, r) = B
    BY <1>2, <1>4, <2>1, <2>2, <2>4
  <2> QED BY <2>5 DEF e
<1>5. ASSUME NEW d \in {Toggled(r), Reconcile(Toggled(r))}
      PROVE  InputsBack(LinkBack(d, r), r) = B
  <2>1. /\ Toggled(r) \in Disk
        /\ Toggled(r).files = B.files
        /\ Toggled(r).links \ {r.site} = B.links \ {r.site}
        /\ Toggled(r).rows = B.rows
        /\ Toggled(r).global = B.global
    BY <1>1, ToggledFields
  <2> DEFINE e == Reconcile(Toggled(r))
  <2>2. /\ e \in Disk /\ e.files = B.files /\ e.links \ {r.site} = B.links \ {r.site}
        /\ e.rows = B.rows /\ e.global = B.global
    BY <2>1, NamesFields
  <2> QED BY <1>4, <2>1, <2>2
<1>6. \/ Step = "save" /\ disk = B
      \/ Step = "link" /\ disk = d1
      \/ Step \in {"forward", "test", "reload"} /\ disk \in {Toggled(r), Reconcile(Toggled(r))}
  BY EnabledLists DEF ToggleCourse, Stage, Goes, Step
<1>7. torn = 0 /\ Running => loaded = Served(B)
  BY EnabledLists DEF ToggleCourse, Stage, Goes, Step
<1>8. Undo(disk, r, Step) = B
  <2>1. CASE Step = "save" /\ disk = B
    BY <1>1, <1>3, <2>1 DEF Undo
  <2>2. CASE Step = "link" /\ disk = d1
    BY <1>1, <1>3, <2>2 DEF Undo
  <2>3. CASE /\ Step \in {"forward", "test", "reload"}
             /\ disk \in {Toggled(r), Reconcile(Toggled(r))}
    BY <1>1, <1>5, <2>3 DEF Undo, Disabling
  <2> QED BY <1>6, <2>1, <2>2, <2>3
<1> QED BY <1>7, <1>8

\* Only a deletion that goes on after it has disabled its site keeps "save" to do.
LEMMA StillDisabling ==
  /\ \E i \in DOMAIN LinksForgets : LinksForgets[i] = "save"
  /\ \E i \in DOMAIN ForwardsForgets : ForwardsForgets[i] = "save"
  /\ \E i \in DOMAIN TestsForgets : TestsForgets[i] = "save"
  /\ \E i \in DOMAIN LoadsForgets : LoadsForgets[i] = "save"
  /\ ~\E i \in DOMAIN NamesOnly : NamesOnly[i] = "save"
<1>1. LinksForgets[6] = "save" /\ 6 \in DOMAIN LinksForgets
  BY DEF LinksForgets
<1>2. ForwardsForgets[5] = "save" /\ 5 \in DOMAIN ForwardsForgets
  BY DEF ForwardsForgets
<1>3. TestsForgets[4] = "save" /\ 4 \in DOMAIN TestsForgets
  BY DEF TestsForgets
<1>4. LoadsForgets[3] = "save" /\ 3 \in DOMAIN LoadsForgets
  BY DEF LoadsForgets
<1>5. \A i \in DOMAIN NamesOnly : NamesOnly[i] # "save"
  BY DEF NamesOnly
<1> QED BY <1>1, <1>2, <1>3, <1>4, <1>5

\* A deletion is undone as long as the test or the reload fails; what fails after
\* that is not.
LEMMA DeleteUndone ==
  ASSUME Meant(request), DeleteCourse(request), Sound(request.before),
         request.todo # <<>>, Step # "adguard",
         Unrestored(request) => Step \in {"test", "reload"}
  PROVE  /\ Undo(disk, request, Step) = request.before
         /\ torn = 0 /\ Running => loaded = Served(request.before)
<1> DEFINE r == request
           B == r.before
           d == Link(B, r.site, r.enabled)
<1>1. B \in Disk /\ r.op = "delete" /\ r.site \in Sites
  BY MeantFields DEF DeleteCourse
<1>2. /\ r.site \in B.links
      /\ \/ Stage(r, LinksForgets, B, B)
         \/ Stage(r, ForwardsForgets, d, B)
         \/ Stage(r, TestsForgets, Unlinked(r), B)
         \/ Stage(r, LoadsForgets, Unlinked(r), B)
  <2>1. ASSUME NEW e, \/ Stage(r, Forgets, e, Disabled(r))
                      \/ Stage(r, Erases, e, Disabled(r))
                      \/ Stage(r, Unmaps, e, Disabled(r))
        PROVE  FALSE
    <3>1. Step \in {"save", "erase", "unmap"}
      BY <2>1, DeleteLists DEF Stage, Goes, Step
    <3> QED BY <1>1, <3>1 DEF Unrestored, Step
  <2>2. ASSUME NEW e, Stage(r, NamesOnly, e, Disabled(r))
        PROVE  FALSE
    <3>1. Step = "forward" /\ ~Disabling(r)
      BY <1>1, <2>2, OnlyLists, StillDisabling DEF Stage, Goes, Step, Disabling
    <3> QED BY <1>1, <3>1 DEF Unrestored, Step
  <2>3. ~Stage(r, ToldForgets, Unlinked(r), Unlinked(r))
    BY DeleteLists DEF Stage, Goes, Step
  <2>4. ~Stage(r, <<>>, Reconcile(Unmapped(r)), Disabled(r))
    BY DEF Stage
  <2> QED BY <2>1, <2>2, <2>3, <2>4 DEF DeleteCourse
<1>3. Disabling(r)
  BY <1>2, StillDisabling DEF Stage, Disabling
<1>4. torn = 0 /\ Running => loaded = Served(B)
  BY <1>2 DEF Stage
<1>5. \/ Step = "link" /\ disk = B
      \/ Step \in {"forward", "test", "reload"} /\ disk \in {d, Unlinked(r)}
  BY <1>2, DeleteLists DEF Stage, Goes, Step
<1>6. ASSUME NEW e \in Disk, e.inputs = B.inputs, e.files = B.files,
             e.links = B.links \ {r.site}, e.rows = B.rows, e.global = B.global
      PROVE  InputsBack(LinkBack(e, r), r) = B
  <2> DEFINE linked == Link(e, r.site, r.site \in B.links)
             f == LinkBack(e, r)
  <2>1. /\ linked \in Disk
        /\ f = Reconcile(linked)
        /\ f \in Disk
        /\ f.files = e.files
        /\ f.rows = e.rows
        /\ f.global = e.global
        /\ f.links = IF r.site \in B.links THEN e.links \cup {r.site} ELSE e.links \ {r.site}
        /\ f.names = ForwarderNames(linked)
    BY <1>1, LinkBackFields
  <2> HIDE DEF linked, f
  <2>2. f.links = B.links
    BY <1>6, <2>1
  <2>3. linked.files = f.files /\ linked.links = f.links
    BY <2>1, NamesFields
  <2>4. f.names = B.names
    BY <1>6, <2>1, <2>2, <2>3, NamesDepend DEF Sound
  <2>5. InputsBack(f, r) = B
    BY <1>1, <1>6, <2>1, <2>2, <2>4, InputsBackFields, DiskEqual
  <2> QED BY <2>5 DEF f
<1>7. InputsBack(LinkBack(d, r), r) = B /\ InputsBack(LinkBack(Unlinked(r), r), r) = B
  <2>1. /\ d \in Disk /\ d.inputs = B.inputs /\ d.files = B.files
        /\ d.links = B.links \ {r.site} /\ d.rows = B.rows /\ d.global = B.global
    BY <1>1, UnlinkedFields
  <2> DEFINE e == Unlinked(r)
  <2>2. /\ e \in Disk /\ e.inputs = B.inputs /\ e.files = B.files
        /\ e.links = B.links \ {r.site} /\ e.rows = B.rows /\ e.global = B.global
    BY <1>1, UnlinkedFields
  <2> HIDE DEF d, e
  <2>3. InputsBack(LinkBack(d, r), r) = B /\ InputsBack(LinkBack(e, r), r) = B
    BY <1>6, <2>1, <2>2
  <2> QED BY <2>3 DEF d, e
<1>8. InputsBack(B, r) = B
  BY <1>1, InputsBackFields, DiskEqual
<1>9. Undo(disk, r, Step) = B
  <2>1. CASE Step = "link" /\ disk = B
    BY <1>1, <1>8, <2>1 DEF Undo
  <2>2. CASE Step \in {"forward", "test", "reload"} /\ disk \in {d, Unlinked(r)}
    <3>1. Undo(disk, r, Step) = InputsBack(LinkBack(disk, r), r)
      BY <1>1, <1>3, <2>2 DEF Undo
    <3> QED BY <1>7, <2>2, <3>1
  <2> QED BY <1>5, <2>1, <2>2
<1> QED BY <1>4, <1>9

\* New settings that fail are undone; a reload or start has nothing to undo.
LEMMA OthersUndone ==
  ASSUME Meant(request), SettingsCourse(request) \/ LifecycleCourse(request),
         request.todo # <<>>, Step # "adguard"
  PROVE  /\ Undo(disk, request, Step) = request.before
         /\ torn = 0 /\ Running => loaded = Served(request.before)
<1> DEFINE r == request
           B == r.before
<1>1. B \in Disk
  BY MeantFields
<1>2. InputsBack(B, r) = B
  BY <1>1, InputsBackFields, DiskEqual
<1>3. CASE SettingsCourse(r)
  <2>1. torn = 0 /\ Running => loaded = Served(B)
    BY <1>3 DEF SettingsCourse, Stage
  <2> QED BY <1>3, <2>1 DEF Undo, SettingsCourse
<1>4. CASE LifecycleCourse(r)
  <2>1. disk = B /\ (torn = 0 /\ Running => loaded = Served(B))
    BY <1>4 DEF LifecycleCourse, Stage
  <2> QED BY <1>2, <1>4, <2>1 DEF Undo, LifecycleCourse
<1> QED BY <1>3, <1>4

\* A request that fails and restores leaves the tree it found, which nginx still
\* serves.
LEMMA CourseUndone ==
  ASSUME Meant(request), Course(request), Sound(request.before),
         request.todo # <<>>, Step # "adguard",
         Unrestored(request) => Step \in {"test", "reload"}
  PROVE  /\ Undo(disk, request, Step) = request.before
         /\ torn = 0 /\ Running => loaded = Served(request.before)
BY CreateUndone, UpdateUndone, ToggleUndone, DeleteUndone, OthersUndone DEF Course

(* ---------------------- a request ends: its result --------------------- *)

\* The rows of an edited site, and of the others.
LEMMA EditedRows ==
  ASSUME NEW r, Meant(r), r.op \in {"create", "update"}, Sound(r.before),
         r.op = "create" => Fresh(r)
  PROVE  LET nk == Key(r.site, r.file.alias)
             rows == Mapped(r).rows
         IN /\ \A t \in Sites, a \in Aliases : \A q :
                 t # r.site /\ q[1] = Key(t, a) => (q \in rows <=> q \in r.before.rows)
            /\ \A q \in rows, a \in Aliases :
                 q[1] = Key(r.site, a) => q = <<nk, r.upstream>> /\ r.upstream # NoUpstream
            /\ r.upstream # NoUpstream => <<nk, r.upstream>> \in rows
            /\ \A p, q \in rows : p[1] = q[1] => p = q
            /\ nk = Key(r.site, r.file.alias)
<1> DEFINE B == r.before
           nk == Key(r.site, r.file.alias)
           old == IF r.op = "create" THEN {} ELSE OldKeys(r)
           rows == Mapped(r).rows
<1>1. /\ B \in Disk /\ r.site \in Sites /\ r.file.alias \in Aliases
  BY MeantFields, MeantKeys
<1>2. rows = {q \in B.rows : q[1] \notin old \cup {nk}}
               \cup (IF r.upstream = NoUpstream THEN {} ELSE {<<nk, r.upstream>>})
  <2>1. rows = NewRows(B, old, NewKeys(r), r.upstream)
    BY MappedFields
  <2>2. NewKeys(r) = {nk}
    BY DEF NewKeys
  <2> HIDE DEF rows, old, nk, B
  <2> QED BY <2>1, <2>2 DEF NewRows
<1>3. \A k \in old : \E a \in Aliases : k = Key(r.site, a)
  <2>1. CASE r.op = "create"
    BY <2>1
  <2>2. CASE r.op = "update"
    <3>1. AliasOf(B, r.site) \in Aliases
      BY <1>1, <2>2, KeysTypes DEF Meant
    <3> QED BY <2>2, <3>1 DEF OldKeys
  <2> QED BY <2>1, <2>2
<1>4. \A q \in B.rows, a \in Aliases : q[1] = Key(r.site, a) => q[1] \in old
  <2>1. CASE r.op = "create"
    <3>1. \A q \in B.rows, a \in Aliases : q[1] # Key(r.site, a)
      BY <1>1, <2>1, FreshFamily DEF Fresh
    <3> QED BY <3>1
  <2>2. CASE r.op = "update"
    <3>1. B.files[r.site] # Absent
      BY <2>2 DEF Meant
    <3> DEFINE k == Key(r.site, AliasOf(B, r.site))
               u == UpstreamOf(B, r.site)
    <3>2. \A q \in B.rows, a \in Aliases : q[1] = Key(r.site, a) => q = <<k, u>>
      BY <1>1, <3>1, OwnRow
    <3>3. old = {k}
      BY <2>2 DEF OldKeys
    <3> HIDE DEF k, u, old, B
    <3>4. \A q : q = <<k, u>> => q[1] \in old
      BY <3>3
    <3> QED BY <3>2, <3>4
  <2> QED BY <2>1, <2>2
<1>5. ASSUME NEW t \in Sites, NEW a \in Aliases, t # r.site
      PROVE  Key(t, a) \notin old \cup {nk}
  <2>1. \A b \in Aliases : Key(t, a) # Key(r.site, b)
    BY <1>1, <1>5, KeyOfOne
  <2> HIDE DEF old, B
  <2> QED BY <1>1, <1>3, <2>1
<1> HIDE DEF old, rows, B
<1>6. ASSUME NEW t \in Sites, NEW a \in Aliases, NEW q, t # r.site, q[1] = Key(t, a)
      PROVE  q \in rows <=> q \in B.rows
  <2>1. q[1] \notin old \cup {nk}
    BY <1>5, <1>6
  <2>2. q # <<nk, r.upstream>>
    BY <2>1
  <2> HIDE DEF nk
  <2> QED BY <1>2, <2>1, <2>2
<1>7. ASSUME NEW q \in rows, NEW a \in Aliases, q[1] = Key(r.site, a)
      PROVE  q = <<nk, r.upstream>> /\ r.upstream # NoUpstream
  BY <1>2, <1>4, <1>7
<1>8. r.upstream # NoUpstream => <<nk, r.upstream>> \in rows
  BY <1>2
<1>9. ASSUME NEW p \in rows, NEW q \in rows, p[1] = q[1]
      PROVE  p = q
  <2>1. \A x, y \in B.rows : x[1] = y[1] => x = y
    BY DEF Sound, B
  <2> HIDE DEF nk
  <2>2. \A x : x = <<nk, r.upstream>> => x[1] = nk
    OBVIOUS
  <2> QED BY <1>2, <1>9, <2>1, <2>2
<1> HIDE DEF nk
<1>10. /\ \A t \in Sites, a \in Aliases : \A q :
            t # r.site /\ q[1] = Key(t, a) => (q \in rows <=> q \in B.rows)
       /\ \A q \in rows, a \in Aliases :
            q[1] = Key(r.site, a) => q = <<nk, r.upstream>> /\ r.upstream # NoUpstream
       /\ r.upstream # NoUpstream => <<nk, r.upstream>> \in rows
       /\ \A p, q \in rows : p[1] = q[1] => p = q
       /\ nk = Key(r.site, r.file.alias)
  BY <1>6, <1>7, <1>8, <1>9 DEF nk
<1> QED BY <1>10 DEF nk, rows, B

\* A created or updated site leaves a sound tree.
LEMMA EditIsSound ==
  ASSUME NEW r, Meant(r), r.op \in {"create", "update"}, Sound(r.before),
         r.op = "create" => Fresh(r),
         NEW e \in Disk, e.inputs = Saved(r).inputs, e.files = Mapped(r).files,
         e.rows = Mapped(r).rows, e.global = r.before.global,
         e.links \ {r.site} = r.before.links \ {r.site},
         r.site \in e.links <=> r.enabled,
         e.names = ForwarderNames(e)
  PROVE  Sound(e)
<1> DEFINE B == r.before
           s == r.site
           nk == Key(s, r.file.alias)
           rows == Mapped(r).rows
<1>1. B \in Disk /\ s \in Sites /\ r.file # Absent /\ r.file.alias \in Aliases
  BY MeantFields, MeantKeys DEF Meant
<1>2. /\ \A t \in Sites, a \in Aliases : \A q :
           t # s /\ q[1] = Key(t, a) => (q \in rows <=> q \in B.rows)
      /\ \A q \in rows, a \in Aliases :
           q[1] = Key(s, a) => q = <<nk, r.upstream>> /\ r.upstream # NoUpstream
      /\ r.upstream # NoUpstream => <<nk, r.upstream>> \in rows
      /\ \A p, q \in rows : p[1] = q[1] => p = q
  BY EditedRows
<1>3. \A t \in Sites : SiteSound(B, t)
  BY DEF Sound
<1>4. /\ \A t \in Sites : e.files[t] = IF t = s THEN r.file ELSE B.files[t]
      /\ e.inputs[s] = r.input
      /\ \A t \in Sites : t # s => e.inputs[t] \in {B.inputs[t], Absent}
      /\ \A t \in Sites : t # s => (t \in e.links <=> t \in B.links)
      /\ e.rows = rows /\ e.global = B.global
  BY <1>1, FilesElsewhere, SavedFields
<1>5. ASSUME NEW t \in Sites, t # s
      PROVE  SiteSound(e, t)
  <2>1. \A a \in Aliases : \A q : q[1] = Key(t, a) => (q \in rows <=> q \in B.rows)
    BY <1>2, <1>5
  <2>2. Parent[t] \in Sites
    BY FamilyFacts
  <2>3. e.files[t] = B.files[t]
    BY <1>4, <1>5
  <2>a. /\ e.inputs[t] \in {B.inputs[t], Absent}
        /\ t \in e.links <=> t \in B.links
        /\ e.rows = rows /\ e.global = B.global
        /\ e.files[Parent[t]] = Absent => B.files[Parent[t]] = Absent
    BY <1>1, <1>4, <1>5, <2>2
  <2>b. /\ B.files[t] = Absent =>
             /\ B.inputs[t] = Absent
             /\ t \notin B.links
             /\ \A q \in B.rows, a \in Aliases : q[1] # Key(t, a)
        /\ B.files[t] # Absent =>
             /\ B.files[Parent[t]] # Absent
             /\ \A q \in B.rows, a \in Aliases :
                  q[1] = Key(t, a) => q[1] = Key(t, B.files[t].alias)
        /\ B.inputs[t] # Absent =>
             /\ B.files[t] = Managed(B.global, B.inputs[t])
             /\ (t \in B.links) = B.inputs[t].enabled
             /\ \A u \in Upstreams :
                  <<Key(t, B.inputs[t].alias), u>> \in B.rows <=> u = B.inputs[t].upstream
    BY <1>3 DEF SiteSound
  <2> HIDE DEF B, rows, s
  <2>4. e.files[t] = Absent =>
          /\ e.inputs[t] = Absent
          /\ t \notin e.links
          /\ \A q \in e.rows, a \in Aliases : q[1] # Key(t, a)
    BY <2>1, <2>3, <2>a, <2>b
  <2>5. e.files[t] # Absent =>
          /\ e.files[Parent[t]] # Absent
          /\ \A q \in e.rows, a \in Aliases :
               q[1] = Key(t, a) => q[1] = Key(t, e.files[t].alias)
    BY <2>1, <2>3, <2>a, <2>b
  <2>6. ASSUME e.inputs[t] # Absent
        PROVE  /\ e.files[t] = Managed(e.global, e.inputs[t])
               /\ (t \in e.links) = e.inputs[t].enabled
               /\ \A u \in Upstreams :
                    <<Key(t, e.inputs[t].alias), u>> \in e.rows <=> u = e.inputs[t].upstream
    <3>1. e.inputs[t] = B.inputs[t] /\ B.inputs[t] # Absent
      BY <2>a, <2>6
    <3>2. B.inputs[t].alias \in Aliases
      BY <1>1, <3>1, DiskFields, InputFields
    <3>3. \A u : <<Key(t, B.inputs[t].alias), u>> \in rows
                   <=> <<Key(t, B.inputs[t].alias), u>> \in B.rows
      <4> DEFINE k == Key(t, B.inputs[t].alias)
      <4>1. \A u : <<k, u>>[1] = k
        OBVIOUS
      <4>2. \A q : q[1] = k => (q \in rows <=> q \in B.rows)
        BY <2>1, <3>2
      <4> QED BY <4>1, <4>2
    <3> QED BY <2>3, <2>a, <2>b, <3>1, <3>3
  <2> QED BY <2>4, <2>5, <2>6 DEF SiteSound
<1>6. SiteSound(e, s)
  <2>1. e.files[s] = r.file /\ e.files[s] # Absent
    BY <1>1, <1>4
  <2>2. e.files[Parent[s]] # Absent
    <3>1. Parent[s] \in Sites /\ (s \in Domains => Parent[s] = s)
      BY <1>1, FamilyFacts, SitesAssumption
    <3>2. Parent[s] = s \/ B.files[Parent[s]] # Absent
      <4>1. CASE r.op = "create"
        BY <3>1, <4>1 DEF Fresh
      <4>2. CASE r.op = "update"
        BY <1>1, <1>3, <4>2 DEF Meant, SiteSound
      <4> QED BY <4>1, <4>2
    <3> QED BY <1>1, <1>4, <3>1, <3>2
  <2>3. \A q \in e.rows, a \in Aliases : q[1] = Key(s, a) => q[1] = nk
    <3>1. \A q : q = <<nk, r.upstream>> => q[1] = nk
      OBVIOUS
    <3> HIDE DEF nk, rows, B, s
    <3> QED BY <1>2, <1>4, <3>1
  <2>4. ASSUME e.inputs[s] # Absent
        PROVE  /\ e.files[s] = Managed(e.global, e.inputs[s])
               /\ (s \in e.links) = e.inputs[s].enabled
               /\ \A u \in Upstreams :
                    <<Key(s, e.inputs[s].alias), u>> \in e.rows <=> u = e.inputs[s].upstream
    <3>1. /\ r.input \in Input
          /\ r.file = Managed(B.global, r.input)
          /\ r.upstream = r.input.upstream
          /\ r.enabled = r.input.enabled
      BY <1>4, <2>4, MeantFields DEF Meant
    <3>2. r.file.alias = r.input.alias /\ r.enabled \in BOOLEAN
      BY <1>1, <3>1, ManagedIsFile, DiskFields, InputFields
    <3>3. \A u \in Upstreams : <<nk, u>> \in rows <=> u = r.upstream
      <4>1. NoUpstream \notin Upstreams
        BY SitesAssumption
      <4>2. \A u : <<nk, u>> \in rows => u = r.upstream
        <5>1. \A u : <<nk, u>>[1] = nk /\ <<nk, u>>[2] = u
          OBVIOUS
        <5>2. \A u : <<nk, u>> \in rows => <<nk, u>> = <<nk, r.upstream>>
          BY <1>1, <1>2, <5>1
        <5> QED BY <5>1, <5>2
      <4> QED BY <1>2, <4>1, <4>2
    <3>4. (s \in e.links) = r.input.enabled
      BY <3>1, <3>2
    <3> QED BY <1>4, <2>1, <3>1, <3>2, <3>3, <3>4
  <2> QED BY <2>1, <2>2, <2>3, <2>4 DEF SiteSound
<1> HIDE DEF B, s, rows
<1>7. \A t \in Sites : SiteSound(e, t)
  BY <1>5, <1>6
<1> QED BY <1>2, <1>4, <1>7 DEF Sound

\* An enabled or disabled site leaves a sound tree.
LEMMA ToggleIsSound ==
  ASSUME NEW r, Meant(r), r.op = "toggle", Sound(r.before),
         NEW e \in Disk, e.inputs = Toggled(r).inputs, e.files = r.before.files,
         e.rows = r.before.rows, e.global = r.before.global,
         e.links = Toggled(r).links, e.names = ForwarderNames(e)
  PROVE  Sound(e)
<1> DEFINE B == r.before
           s == r.site
<1>1. B \in Disk /\ s \in Sites /\ B.files[s] # Absent /\ r.enabled \in BOOLEAN
  BY MeantFields DEF Meant
<1>2. \A t \in Sites : SiteSound(B, t)
  BY DEF Sound
<1>3. /\ \A t \in Sites : t # s => (t \in e.links <=> t \in B.links)
      /\ s \in e.links <=> r.enabled
  BY <1>1, ToggledFields
<1>4. CASE r.input = Absent
  <2>1. e.inputs = B.inputs /\ B.inputs[s] = Absent
    BY <1>4, ToggledFields DEF Meant
  <2>2. ASSUME NEW t \in Sites
        PROVE  SiteSound(e, t)
    <3>1. SiteSound(B, t)
      BY <1>2
    <3>2. CASE t = s
      BY <1>1, <2>1, <3>1, <3>2 DEF SiteSound
    <3>3. CASE t # s
      BY <1>3, <2>1, <3>1, <3>3 DEF SiteSound
    <3> QED BY <3>2, <3>3
  <2> QED BY <2>2 DEF Sound
<1>5. CASE r.input # Absent
  <2>1. /\ \A t \in Sites : t # s => e.inputs[t] = B.inputs[t]
        /\ e.inputs[s] = r.input
    <3>1. e.inputs = Saved(r).inputs
      BY <1>5, ToggledFields
    <3>2. \A t \in Sites : Saved(r).inputs[t] = IF t = s THEN r.input ELSE B.inputs[t]
      BY <1>5, SavedFields
    <3> QED BY <1>1, <3>1, <3>2
  <2>2. /\ B.inputs[s] \in Input
        /\ B.inputs[s] # Absent
        /\ r.input = [B.inputs[s] EXCEPT !.enabled = r.enabled]
    BY <1>1, <1>5, DiskFields DEF Meant
  <2>3. /\ r.input.alias = B.inputs[s].alias
        /\ r.input.upstream = B.inputs[s].upstream
        /\ r.input.enabled = r.enabled
    BY <2>2 DEF Input
  <2>4. ASSUME NEW t \in Sites
        PROVE  SiteSound(e, t)
    <3>1. SiteSound(B, t)
      BY <1>2
    <3>2. CASE t = s
      <4>1. Managed(e.global, e.inputs[t]) = Managed(B.global, B.inputs[t])
        BY <2>1, <2>3, <3>2 DEF Managed
      <4>2. (t \in e.links) = e.inputs[t].enabled
        BY <1>1, <1>3, <2>1, <2>3, <3>2
      <4>3. e.files[t] # Absent /\ e.files[t] = B.files[t] /\ e.rows = B.rows
        BY <1>1, <3>2
      <4>4. /\ e.inputs[t].alias = B.inputs[t].alias
            /\ e.inputs[t].upstream = B.inputs[t].upstream
            /\ B.inputs[t] # Absent
        BY <2>1, <2>2, <2>3, <3>2
      <4> QED BY <3>1, <4>1, <4>2, <4>3, <4>4 DEF SiteSound
    <3>3. CASE t # s
      BY <1>3, <2>1, <3>1, <3>3 DEF SiteSound
    <3> QED BY <3>2, <3>3
  <2> QED BY <2>4 DEF Sound
<1> QED BY <1>4, <1>5

\* The rows of a family are the ones a deletion removes.
LEMMA GoneRows ==
  ASSUME NEW d \in Disk, NEW s \in Sites, Sound(d)
  PROVE  LET gone == UNION {KeysOf(d, t) : t \in Family(s)}
         IN /\ \A t \in Family(s), a \in Aliases : \A q \in d.rows :
                 q[1] = Key(t, a) => q[1] \in gone
            /\ \A t \in Sites \ Family(s), a \in Aliases : Key(t, a) \notin gone
<1> DEFINE gone == UNION {KeysOf(d, t) : t \in Family(s)}
<1>1. Family(s) \subseteq Sites
  BY FamilyFacts
<1>2. ASSUME NEW t \in Family(s), NEW a \in Aliases, NEW q \in d.rows, q[1] = Key(t, a)
      PROVE  q[1] \in gone
  <2>1. SiteSound(d, t)
    BY <1>1 DEF Sound
  <2>2. d.files[t] # Absent /\ q[1] = Key(t, d.files[t].alias)
    BY <1>2, <2>1 DEF SiteSound
  <2>3. q[1] \in KeysOf(d, t)
    BY <2>2 DEF KeysOf
  <2> QED BY <2>3
<1>3. ASSUME NEW t \in Sites \ Family(s), NEW a \in Aliases
      PROVE  Key(t, a) \notin gone
  <2>1. ASSUME NEW v \in Family(s), Key(t, a) \in KeysOf(d, v)
        PROVE  FALSE
    <3>1. d.files[v] # Absent /\ Key(t, a) = Key(v, d.files[v].alias)
      BY <2>1 DEF KeysOf
    <3>2. d.files[v].alias \in Aliases /\ v \in Sites
      BY <1>1, <3>1, DiskFields, FileFields
    <3>3. t = v
      BY <3>1, <3>2, KeyOfOne
    <3> QED BY <3>3
  <2> QED BY <2>1
<1> QED BY <1>2, <1>3

\* A deletion leaves a sound tree.
LEMMA DeletionIsSound ==
  ASSUME NEW r, Meant(r), r.op = "delete", Sound(r.before),
         NEW e \in Disk, e.inputs = Unmapped(r).inputs, e.files = Unmapped(r).files,
         e.rows = Unmapped(r).rows, e.global = r.before.global,
         e.links = Unmapped(r).links, e.names = ForwarderNames(e)
  PROVE  Sound(e)
<1> DEFINE B == r.before
           F == Family(r.site)
           gone == UNION {KeysOf(B, t) : t \in F}
<1>1. B \in Disk /\ r.site \in Sites
  BY MeantFields
<1>2. /\ \A t \in F, a \in Aliases : \A q \in B.rows : q[1] = Key(t, a) => q[1] \in gone
      /\ \A t \in Sites \ F, a \in Aliases : Key(t, a) \notin gone
  BY <1>1, GoneRows
<1>3. /\ \A t \in Sites : e.inputs[t] = IF t \in F THEN Absent ELSE B.inputs[t]
      /\ \A t \in Sites : e.files[t] = IF t \in F THEN Absent ELSE B.files[t]
      /\ e.links = B.links \ F
      /\ e.rows = {q \in B.rows : q[1] \notin gone}
      /\ e.global = B.global
  <2>1. /\ e.inputs = Dropping(r).inputs
        /\ e.files = Erased(r).files
        /\ e.links = B.links \ F
        /\ e.rows = {q \in B.rows : q[1] \notin gone}
    BY UnmappedFields
  <2>2. \A t \in Sites : Dropping(r).inputs[t] = IF t \in F THEN Absent ELSE B.inputs[t]
    BY DisabledFields
  <2>3. \A t \in Sites : Erased(r).files[t] = IF t \in F THEN Absent ELSE B.files[t]
    BY UnmappedFields
  <2> HIDE DEF F, gone
  <2> QED BY <2>1, <2>2, <2>3
<1>4. /\ \A t \in Sites : Parent[t] \in Sites
      /\ \A t \in Sites : Parent[t] \in F => t \in F
  BY <1>1, FamilyFacts
<1>5. /\ \A t \in Sites : SiteSound(B, t)
      /\ \A p, q \in B.rows : p[1] = q[1] => p = q
  BY DEF Sound
<1> HIDE DEF gone, F, B
<1>6. ASSUME NEW t \in Sites, t \in F
      PROVE  SiteSound(e, t)
  BY <1>2, <1>3, <1>6 DEF SiteSound
<1>7. ASSUME NEW t \in Sites, t \notin F
      PROVE  SiteSound(e, t)
  <2>1. SiteSound(B, t)
    BY <1>5
  <2>2. e.inputs[t] = B.inputs[t] /\ e.files[t] = B.files[t]
    BY <1>3, <1>7
  <2>3. t \in e.links <=> t \in B.links
    BY <1>3, <1>7
  <2>4. e.files[Parent[t]] = B.files[Parent[t]]
    BY <1>3, <1>4, <1>7
  <2>5. \A a \in Aliases : \A q : q[1] = Key(t, a) => (q \in e.rows <=> q \in B.rows)
    BY <1>2, <1>3, <1>7
  <2>6. ASSUME B.inputs[t] # Absent, NEW u \in Upstreams
        PROVE  <<Key(t, B.inputs[t].alias), u>> \in e.rows
                 <=> <<Key(t, B.inputs[t].alias), u>> \in B.rows
    <3> DEFINE k == Key(t, B.inputs[t].alias)
    <3>1. B.inputs[t].alias \in Aliases
      BY <1>1, <2>6, DiskFields, InputFields DEF B
    <3>2. \A q : q[1] = k => (q \in e.rows <=> q \in B.rows)
      BY <2>5, <3>1
    <3>3. <<k, u>>[1] = k
      OBVIOUS
    <3> QED BY <3>2, <3>3
  <2> QED BY <1>3, <2>1, <2>2, <2>3, <2>4, <2>5, <2>6 DEF SiteSound
<1> QED BY <1>3, <1>5, <1>6, <1>7 DEF Sound

\* New global settings change the content of the managed files, and nothing else.
LEMMA SettingsKeepRows ==
  ASSUME NEW r, Meant(r), Sound(r.before)
  PROVE  /\ Applied(r).inputs = r.before.inputs
         /\ Applied(r).links = r.before.links
         /\ Applied(r).names = r.before.names
         /\ Applied(r).global = r.global
         /\ \A s \in Sites :
              Applied(r).files[s] = IF r.before.inputs[s] # Absent
                                    THEN Managed(r.global, r.before.inputs[s])
                                    ELSE r.before.files[s]
         /\ Applied(r).rows = r.before.rows
<1> DEFINE B == r.before
           g == r.global
           e == Applied(r)
           managed == {s \in Sites : B.inputs[s] # Absent}
           keys == {Key(s, B.inputs[s].alias) : s \in managed}
           back == {<<Key(s, B.inputs[s].alias), B.inputs[s].upstream>> :
                      s \in {t \in managed : B.inputs[t].upstream # NoUpstream}}
<1>1. B \in Disk /\ g \in Globals
  BY MeantFields
<1>2. /\ e.inputs = B.inputs
      /\ e.links = B.links
      /\ e.names = B.names
      /\ e.global = g
      /\ e.files = [s \in Sites |-> IF s \in managed THEN Managed(g, B.inputs[s])
                                    ELSE B.files[s]]
      /\ e.rows = {q \in B.rows : q[1] \notin keys} \cup back
  <2>1. e = RenderAll(B, g, Sites, g)
    BY DEF Applied, RenderAll
  <2>2. Sites \in SUBSET Sites
    OBVIOUS
  <2> DEFINE f == RenderAll(B, g, Sites, g)
  <2>3. /\ f.inputs = B.inputs
        /\ f.links = B.links
        /\ f.names = B.names
        /\ f.global = g
        /\ f.files = RenderedFiles(B, g, Sites)
        /\ f.rows = RowsLeft(B, Sites) \cup RenderedRows(B, Sites)
    BY <1>1, <2>2, RenderFields
  <2>4. /\ RenderedFiles(B, g, Sites)
             = [s \in Sites |-> IF s \in managed THEN Managed(g, B.inputs[s]) ELSE B.files[s]]
        /\ RowsLeft(B, Sites) = {q \in B.rows : q[1] \notin keys}
        /\ RenderedRows(B, Sites) = back
    BY DEF RenderedFiles, RowsLeft, RenderedRows, ManagedIn
  <2> QED BY <2>1, <2>3, <2>4
<1> HIDE DEF e
<1>3. \A s \in Sites : SiteSound(B, s)
  BY DEF Sound
<1>4. \A q \in B.rows : q = <<q[1], q[2]>> /\ q[2] \in Upstreams
  BY <1>1, DiskFields
<1>5. \A s \in managed : B.inputs[s].upstream \in Upstreams \cup {NoUpstream}
  BY <1>1, DiskFields, InputFields
<1>6. ASSUME NEW q \in B.rows, q[1] \in keys
      PROVE  q \in back
  <2>1. PICK s \in managed : q[1] = Key(s, B.inputs[s].alias)
    BY <1>6
  <2>2. <<Key(s, B.inputs[s].alias), q[2]>> \in B.rows /\ q[2] \in Upstreams
    BY <1>4, <2>1
  <2>3. q[2] = B.inputs[s].upstream
    BY <1>3, <2>1, <2>2 DEF SiteSound
  <2>4. NoUpstream \notin Upstreams
    BY SitesAssumption
  <2> QED BY <1>4, <2>1, <2>2, <2>3, <2>4
<1>7. ASSUME NEW q \in back
      PROVE  q \in B.rows
  <2>1. PICK s \in managed : /\ B.inputs[s].upstream # NoUpstream
                             /\ q = <<Key(s, B.inputs[s].alias), B.inputs[s].upstream>>
    BY <1>7
  <2>2. B.inputs[s].upstream \in Upstreams
    BY <1>5, <2>1
  <2> QED BY <1>3, <2>1, <2>2 DEF SiteSound
<1>8. e.rows = B.rows
  <2> HIDE DEF keys, back
  <2> QED BY <1>2, <1>6, <1>7
<1>9. \A s \in Sites : e.files[s] = IF B.inputs[s] # Absent THEN Managed(g, B.inputs[s])
                                    ELSE B.files[s]
  BY <1>2
<1> QED BY <1>2, <1>8, <1>9 DEF e

\* New settings leave a sound tree: they render every managed site anew.
LEMMA SettingsAreSound ==
  ASSUME NEW r, Meant(r), Sound(r.before)
  PROVE  Sound(Applied(r))
<1> DEFINE B == r.before
           e == Applied(r)
<1>1. B \in Disk /\ r.global \in Globals
  BY MeantFields
<1>2. /\ e.inputs = B.inputs /\ e.links = B.links /\ e.names = B.names
      /\ e.global = r.global
      /\ \A s \in Sites : e.files[s] = IF B.inputs[s] # Absent
                                       THEN Managed(r.global, B.inputs[s])
                                       ELSE B.files[s]
      /\ e.rows = B.rows
  BY SettingsKeepRows
<1>3. \A s \in Sites : SiteSound(B, s)
  BY DEF Sound
<1>4. ASSUME NEW s \in Sites
      PROVE  /\ e.files[s] = Absent <=> B.files[s] = Absent
             /\ e.files[s] # Absent => e.files[s].alias = B.files[s].alias
             /\ B.inputs[s] # Absent => e.files[s] = Managed(r.global, B.inputs[s])
  <2>1. CASE B.inputs[s] = Absent
    BY <1>2, <2>1
  <2>2. CASE B.inputs[s] # Absent
    <3>1. B.inputs[s] \in Input /\ B.global \in Globals
      BY <1>1, <2>2, DiskFields
    <3>2. B.files[s] = Managed(B.global, B.inputs[s])
      BY <1>3, <2>2 DEF SiteSound
    <3>3. e.files[s] = Managed(r.global, B.inputs[s])
      BY <1>2, <2>2
    <3> QED BY <1>1, <3>1, <3>2, <3>3, ManagedIsFile
  <2> QED BY <2>1, <2>2
<1>5. e \in Disk
  BY AppliedIsDisk
<1> HIDE DEF e, B
<1>6. ASSUME NEW s \in Sites
      PROVE  SiteSound(e, s)
  <2>1. SiteSound(B, s)
    BY <1>3
  <2>2. e.files[Parent[s]] = Absent <=> B.files[Parent[s]] = Absent
    BY <1>4, FamilyFacts
  <2> QED BY <1>2, <1>4, <2>1, <2>2 DEF SiteSound
<1>7. ForwarderNames(e) = ForwarderNames(B)
  <2>1. B.links \subseteq Sites
    BY <1>1, DiskFields DEF B
  <2> DEFINE on == {t \in B.links \ Subfolders : Parent[t] \in B.links /\ B.files[t] # Absent}
  <2>2. ForwarderNames(B) = {<<s, B.files[s].alias>> : s \in on}
    BY DEF ForwarderNames
  <2>3. {t \in e.links \ Subfolders : Parent[t] \in e.links /\ e.files[t] # Absent} = on
    BY <1>2, <1>4, <2>1
  <2>4. ForwarderNames(e) = {<<s, e.files[s].alias>> : s \in on}
    BY <2>3 DEF ForwarderNames
  <2>5. \A s \in on : e.files[s].alias = B.files[s].alias
    BY <1>4, <2>1
  <2> HIDE DEF on
  <2> QED BY <2>2, <2>4, <2>5
<1>8. B.names = ForwarderNames(B) /\ \A p, q \in B.rows : p[1] = q[1] => p = q
  BY DEF Sound, B
<1>9. Sound(e)
  BY <1>2, <1>6, <1>7, <1>8 DEF Sound
<1> QED BY <1>9 DEF e

\* What nginx serves is decided by the enabled sites, their files and their rows.
Shown(d) == {t \in d.links : Parent[t] \in d.links /\ d.files[t] # Absent}
UpstreamsIn(d, s) == {r[2] : r \in {q \in d.rows : q[1] \in KeysOf(d, s)}}

\* What nginx serves depends on the files and rows of the sites that are shown.
LEMMA ServedDepends ==
  ASSUME NEW d, NEW e, Shown(d) = Shown(e),
         \A s \in Shown(d) :
           /\ d.files[s] = e.files[s]
           /\ \A q : q[1] \in KeysOf(d, s) => (q \in d.rows <=> q \in e.rows)
  PROVE  Served(d) = Served(e)
<1> DEFINE On == Shown(d)
<1>1. ASSUME NEW s \in On
      PROVE  UpstreamsIn(d, s) = UpstreamsIn(e, s)
  <2>1. KeysOf(d, s) = KeysOf(e, s)
    BY <1>1 DEF KeysOf
  <2> DEFINE keys == KeysOf(d, s)
  <2>2. \A q : q[1] \in keys => (q \in d.rows <=> q \in e.rows)
    BY <1>1
  <2> HIDE DEF keys
  <2>3. {q \in d.rows : q[1] \in keys} = {q \in e.rows : q[1] \in keys}
    BY <2>2
  <2> QED BY <2>1, <2>3 DEF UpstreamsIn, keys
<1>2. Served(d) = [s \in On |-> [file |-> d.files[s], upstream |-> UpstreamsIn(d, s)]]
  BY DEF Served, Shown, UpstreamsIn
<1>3. Served(e) = [s \in On |-> [file |-> e.files[s], upstream |-> UpstreamsIn(e, s)]]
  <2>1. Served(e) = [s \in Shown(e) |-> [file |-> e.files[s], upstream |-> UpstreamsIn(e, s)]]
    BY DEF Served, Shown, UpstreamsIn
  <2> QED BY <2>1
<1>4. \A s \in On : d.files[s] = e.files[s]
  OBVIOUS
<1> HIDE DEF On
<1> QED BY <1>1, <1>2, <1>3, <1>4

\* Only sites are served.
LEMMA ServedIsOfSites ==
  ASSUME NEW d \in Disk
  PROVE  DOMAIN Served(d) \subseteq Sites
<1>1. d.links \subseteq Sites
  BY DiskFields
<1> QED BY <1>1 DEF Served

\* nginx need not be told of a change of a site that is disabled.
LEMMA QuietEdit ==
  ASSUME NEW r, Meant(r), r.op \in {"create", "update"}, Sound(r.before),
         r.op = "create" => Fresh(r), ~r.enabled
  PROVE  /\ r.site \notin r.before.links
         /\ Served(Reconcile(Mapped(r))) = Served(r.before)
<1> DEFINE B == r.before
           e == Reconcile(Mapped(r))
<1>1. B \in Disk /\ r.site \in Sites
  BY MeantFields
<1>2. r.site \notin B.links
  <2>1. CASE r.op = "create"
    BY <1>1, <2>1, FreshFamily DEF Fresh
  <2>2. CASE r.op = "update"
    BY <2>2 DEF Meant
  <2> QED BY <2>1, <2>2
<1>3. e.files = Mapped(r).files /\ e.links = B.links /\ e.rows = Mapped(r).rows
  <2> DEFINE d == Mapped(r)
  <2>1. d \in Disk /\ d.links = B.links
    BY MappedFields
  <2> HIDE DEF d
  <2>2. e = Reconcile(d)
    BY DEF d
  <2> HIDE DEF e
  <2>3. e.files = d.files /\ e.links = d.links /\ e.rows = d.rows
    BY <2>1, <2>2, NamesFields
  <2> QED BY <2>1, <2>3 DEF d
<1>4. B.links \subseteq Sites /\ \A t \in B.links : B.files[t] # Absent => B.files[t].alias \in Aliases
  BY <1>1, DiskFields, FileFields
<1>5. \A t \in B.links : e.files[t] = B.files[t] /\ t # r.site
  BY <1>2, <1>3, <1>4, FilesElsewhere
<1>6. \A t \in Sites, a \in Aliases : \A q :
        t # r.site /\ q[1] = Key(t, a) => (q \in Mapped(r).rows <=> q \in B.rows)
  BY EditedRows
<1> HIDE DEF e, B
<1>7. Shown(B) = Shown(e)
  BY <1>3, <1>5 DEF Shown
<1>8. ASSUME NEW t \in Shown(B), NEW q, q[1] \in KeysOf(B, t)
      PROVE  q \in B.rows <=> q \in e.rows
  <2>1. t \in B.links /\ t \in Sites /\ B.files[t] # Absent
    BY <1>4 DEF Shown
  <2>2. q[1] = Key(t, B.files[t].alias)
    BY <1>8, <2>1 DEF KeysOf
  <2> QED BY <1>3, <1>4, <1>5, <1>6, <2>1, <2>2
<1>9. \A t \in Shown(B) : B.files[t] = e.files[t]
  BY <1>5 DEF Shown
<1>10. Served(B) = Served(e)
  BY <1>7, <1>8, <1>9, ServedDepends
<1> QED BY <1>2, <1>10 DEF e, B

\* Nor need it be told of the deletion of one.
LEMMA QuietDeletion ==
  ASSUME NEW r, Meant(r), r.op = "delete", Sound(r.before)
  PROVE  Served(Reconcile(Unmapped(r))) = Served(Disabled(r))
<1> DEFINE B == r.before
           F == Family(r.site)
           gone == UNION {KeysOf(B, t) : t \in F}
           d == Disabled(r)
           e == Reconcile(Unmapped(r))
<1>1. B \in Disk /\ r.site \in Sites
  BY MeantFields
<1>2. d.files = B.files /\ d.links = B.links \ {r.site} /\ d.rows = B.rows
  BY DisabledFields
<1>3. /\ \A t \in Sites : e.files[t] = IF t \in F THEN Absent ELSE B.files[t]
      /\ e.links = B.links \ F
      /\ e.rows = {q \in B.rows : q[1] \notin gone}
  <2> DEFINE f == Unmapped(r)
  <2>1. /\ f \in Disk
        /\ f.files = Erased(r).files
        /\ f.links = B.links \ F
        /\ f.rows = {q \in B.rows : q[1] \notin gone}
        /\ \A t \in Sites : Erased(r).files[t] = IF t \in F THEN Absent ELSE B.files[t]
    BY UnmappedFields
  <2> HIDE DEF f, F, gone
  <2>2. e = Reconcile(f)
    BY DEF f
  <2> HIDE DEF e
  <2>3. e.files = f.files /\ e.links = f.links /\ e.rows = f.rows
    BY <2>1, <2>2, NamesFields
  <2> QED BY <2>1, <2>3
<1>4. \A t \in Sites \ F, a \in Aliases : Key(t, a) \notin gone
  BY <1>1, GoneRows
<1>5. /\ r.site \in F
      /\ \A t \in Sites : Parent[t] \in Sites /\ Parent[Parent[t]] = Parent[t]
      /\ \A t \in Sites : Parent[t] \in F => t \in F
      /\ \A t \in F : t = r.site \/ Parent[t] = r.site
  BY <1>1, FamilyFacts DEF Family
<1>6. B.links \subseteq Sites /\ \A t \in B.links : B.files[t] # Absent => B.files[t].alias \in Aliases
  BY <1>1, DiskFields, FileFields
<1> HIDE DEF e, d, B, F, gone
<1>7. ASSUME NEW t \in Shown(d)
      PROVE  t \in B.links /\ t \in Sites /\ t \notin F /\ Parent[t] \notin F /\ Parent[t] \in B.links
  <2>1. t \in B.links /\ t # r.site /\ Parent[t] # r.site /\ Parent[t] \in B.links
    BY <1>2 DEF Shown
  <2>2. t \notin F /\ Parent[t] \notin F
    BY <1>5, <1>6, <2>1
  <2> QED BY <1>6, <2>1, <2>2
<1>8. Shown(d) = Shown(e)
  <2>1. ASSUME NEW t \in Shown(d)
        PROVE  t \in Shown(e)
    BY <1>2, <1>3, <1>7 DEF Shown
  <2>2. ASSUME NEW t \in Shown(e)
        PROVE  t \in Shown(d)
    <3>1. t \in B.links /\ t \notin F /\ Parent[t] \in B.links /\ Parent[t] \notin F
      BY <1>3 DEF Shown
    <3>2. B.files[t] # Absent
      BY <1>3, <1>6, <3>1 DEF Shown
    <3> QED BY <1>2, <1>5, <3>1, <3>2 DEF Shown
  <2> QED BY <2>1, <2>2
<1>9. ASSUME NEW t \in Shown(d), NEW q, q[1] \in KeysOf(d, t)
      PROVE  q \in d.rows <=> q \in e.rows
  <2>1. B.files[t] # Absent /\ t \in B.links /\ t \in Sites \ F
    BY <1>2, <1>7 DEF Shown
  <2>2. q[1] = Key(t, B.files[t].alias)
    BY <1>2, <1>9, <2>1 DEF KeysOf
  <2>3. q[1] \notin gone
    BY <1>4, <1>6, <2>1, <2>2
  <2> QED BY <1>2, <1>3, <2>3
<1>10. \A t \in Shown(d) : d.files[t] = e.files[t]
  BY <1>2, <1>3, <1>7
<1>11. Served(d) = Served(e)
  BY <1>8, <1>9, <1>10, ServedDepends
<1> QED BY <1>11 DEF e, d

\* A creation that went through leaves a sound tree, which nginx serves.
LEMMA CreateEnds ==
  ASSUME Meant(request), CreateCourse(request), Sound(request.before), request.todo = <<>>
  PROVE  /\ Sound(disk)
         /\ torn = 0 /\ Running => loaded = Served(disk)
<1> DEFINE r == request
<1>1. \/ /\ r.enabled /\ Fresh(r) /\ disk = Reconcile(Linked(r))
         /\ torn = 0 /\ Running => loaded = Served(disk)
      \/ /\ ~r.enabled /\ Fresh(r) /\ disk = Reconcile(Mapped(r))
         /\ torn = 0 /\ Running => loaded = Served(r.before)
  BY EnabledLists, OnlyLists DEF CreateCourse, Stage, Goes
<1>2. r.op = "create" /\ r.site \in Sites /\ r.enabled \in BOOLEAN
  BY MeantFields DEF CreateCourse
<1>3. ASSUME NEW d \in Disk, d.inputs = Mapped(r).inputs, d.files = Mapped(r).files,
             d.rows = Mapped(r).rows, d.global = r.before.global, Fresh(r),
             d.links \ {r.site} = r.before.links \ {r.site}, r.site \in d.links <=> r.enabled
      PROVE  Sound(Reconcile(d))
  <2> DEFINE e == Reconcile(d)
  <2>1. /\ e \in Disk /\ e.inputs = d.inputs /\ e.files = d.files /\ e.rows = d.rows
        /\ e.global = d.global /\ e.links = d.links /\ e.names = ForwarderNames(d)
    BY NamesFields
  <2> HIDE DEF e
  <2>2. e.names = ForwarderNames(e)
    BY <2>1, NamesDepend
  <2>3. e.inputs = Saved(r).inputs
    BY <1>2, <1>3, <2>1, MappedFields
  <2>4. Sound(e)
    BY <1>2, <1>3, <2>1, <2>2, <2>3, EditIsSound
  <2> QED BY <2>4 DEF e
<1>4. CASE r.enabled /\ Fresh(r) /\ disk = Reconcile(Linked(r))
  <2> DEFINE d == Linked(r)
  <2>1. /\ d \in Disk /\ d.inputs = Mapped(r).inputs /\ d.files = Mapped(r).files
        /\ d.rows = Mapped(r).rows /\ d.global = r.before.global
        /\ d.links = r.before.links \cup {r.site}
    BY <1>2, <1>4, LinkedFields
  <2> HIDE DEF d
  <2>2. d.links \ {r.site} = r.before.links \ {r.site} /\ r.site \in d.links
    BY <2>1
  <2>3. Sound(Reconcile(d))
    BY <1>3, <1>4, <2>1, <2>2
  <2> QED BY <1>1, <1>4, <2>3 DEF d
<1>5. CASE ~r.enabled /\ Fresh(r) /\ disk = Reconcile(Mapped(r))
  <2> DEFINE d == Mapped(r)
  <2>1. r.site \notin r.before.links /\ Served(Reconcile(d)) = Served(r.before)
    BY <1>2, <1>5, QuietEdit
  <2>2. d \in Disk /\ d.global = r.before.global /\ d.links = r.before.links
    BY <1>2, MappedFields
  <2>3. Sound(Reconcile(d))
    <3> HIDE DEF d
    <3>1. d.inputs = Mapped(r).inputs /\ d.files = Mapped(r).files /\ d.rows = Mapped(r).rows
      BY DEF d
    <3> QED BY <1>3, <1>5, <2>1, <2>2, <3>1
  <2> QED BY <1>1, <1>5, <2>1, <2>3
<1> QED BY <1>1, <1>4, <1>5

\* So does an update.
LEMMA UpdateEnds ==
  ASSUME Meant(request), UpdateCourse(request), Sound(request.before), request.todo = <<>>
  PROVE  /\ Sound(disk)
         /\ torn = 0 /\ Running => loaded = Served(disk)
<1> DEFINE r == request
           d == Mapped(r)
           e == Reconcile(d)
<1>1. \/ /\ r.enabled /\ disk = e
         /\ torn = 0 /\ Running => loaded = Served(disk)
      \/ /\ ~r.enabled /\ disk = e
         /\ torn = 0 /\ Running => loaded = Served(r.before)
  BY LastLists, OnlyLists DEF UpdateCourse, Stage, Goes
<1>2. r.op = "update" /\ r.site \in Sites /\ r.enabled = (r.site \in r.before.links)
  BY MeantFields DEF UpdateCourse, Meant
<1>3. /\ d \in Disk /\ d.global = r.before.global /\ d.links = r.before.links
      /\ d.inputs = Saved(r).inputs
  BY <1>2, MappedFields
<1>4. ~r.enabled => Served(e) = Served(r.before)
  BY <1>2, QuietEdit
<1>5. d.files = Mapped(r).files /\ d.rows = Mapped(r).rows
  OBVIOUS
<1> HIDE DEF d
<1>6. /\ e \in Disk /\ e.inputs = d.inputs /\ e.files = d.files /\ e.rows = d.rows
      /\ e.global = d.global /\ e.links = d.links /\ e.names = ForwarderNames(d)
  BY <1>3, NamesFields
<1> HIDE DEF e
<1>7. e.names = ForwarderNames(e)
  BY <1>6, NamesDepend
<1>8. Sound(e)
  BY <1>2, <1>3, <1>5, <1>6, <1>7, EditIsSound
<1> QED BY <1>1, <1>4, <1>8

\* So does enabling or disabling.
LEMMA ToggleEnds ==
  ASSUME Meant(request), ToggleCourse(request), Sound(request.before), request.todo = <<>>
  PROVE  /\ Sound(disk)
         /\ torn = 0 /\ Running => loaded = Served(disk)
<1> DEFINE r == request
           d == Toggled(r)
           e == Reconcile(d)
<1>1. disk = e /\ (torn = 0 /\ Running => loaded = Served(disk))
  BY EnabledLists DEF ToggleCourse, Stage, Goes
<1>2. r.op = "toggle"
  BY DEF ToggleCourse
<1>3. /\ d \in Disk /\ d.global = r.before.global /\ d.files = r.before.files
      /\ d.rows = r.before.rows
  BY <1>2, ToggledFields
<1>4. d.inputs = Toggled(r).inputs /\ d.links = Toggled(r).links
  OBVIOUS
<1> HIDE DEF d
<1>5. /\ e \in Disk /\ e.inputs = d.inputs /\ e.files = d.files /\ e.rows = d.rows
      /\ e.global = d.global /\ e.links = d.links /\ e.names = ForwarderNames(d)
  BY <1>3, NamesFields
<1> HIDE DEF e
<1>6. e.names = ForwarderNames(e)
  BY <1>5, NamesDepend
<1>7. Sound(e)
  BY <1>2, <1>3, <1>4, <1>5, <1>6, ToggleIsSound
<1> QED BY <1>1, <1>7

\* So does a deletion.
LEMMA DeleteEnds ==
  ASSUME Meant(request), DeleteCourse(request), Sound(request.before), request.todo = <<>>
  PROVE  /\ Sound(disk)
         /\ torn = 0 /\ Running => loaded = Served(disk)
<1> DEFINE r == request
           d == Unmapped(r)
           e == Reconcile(d)
<1>1. disk = e /\ (torn = 0 /\ Running => loaded = Served(Disabled(r)))
  BY DeleteLists, OnlyLists DEF DeleteCourse, Stage, Goes
<1>2. r.op = "delete"
  BY DEF DeleteCourse
<1>3. d \in Disk /\ d.global = r.before.global
  BY <1>2, UnmappedFields
<1>4. Served(e) = Served(Disabled(r))
  BY <1>2, QuietDeletion
<1>5. /\ d.inputs = Unmapped(r).inputs /\ d.files = Unmapped(r).files
      /\ d.rows = Unmapped(r).rows /\ d.links = Unmapped(r).links
  OBVIOUS
<1> HIDE DEF d
<1>6. /\ e \in Disk /\ e.inputs = d.inputs /\ e.files = d.files /\ e.rows = d.rows
      /\ e.global = d.global /\ e.links = d.links /\ e.names = ForwarderNames(d)
  BY <1>3, NamesFields
<1> HIDE DEF e
<1>7. e.names = ForwarderNames(e)
  BY <1>6, NamesDepend
<1>8. Sound(e)
  BY <1>2, <1>3, <1>5, <1>6, <1>7, DeletionIsSound
<1> QED BY <1>1, <1>4, <1>8

\* So do new settings, a reload and a start.
LEMMA OthersEnd ==
  ASSUME Meant(request), SettingsCourse(request) \/ LifecycleCourse(request),
         Sound(request.before), request.todo = <<>>
  PROVE  /\ Sound(disk)
         /\ torn = 0 /\ Running => loaded = Served(disk)
<1>1. CASE SettingsCourse(request)
  <2>1. disk = Applied(request) /\ (torn = 0 /\ Running => loaded = Served(disk))
    BY <1>1, LastLists DEF SettingsCourse, Stage, Goes
  <2> QED BY <2>1, SettingsAreSound
<1>2. CASE LifecycleCourse(request)
  BY <1>2, LastLists DEF LifecycleCourse, Stage, Goes
<1> QED BY <1>1, <1>2

\* A request that has nothing left to do leaves a sound tree, which nginx serves.
LEMMA CourseEnds ==
  ASSUME Meant(request), Course(request), Sound(request.before), request.todo = <<>>
  PROVE  /\ Sound(disk)
         /\ torn = 0 /\ Running => loaded = Served(disk)
BY CreateEnds, UpdateEnds, ToggleEnds, DeleteEnds, OthersEnd DEF Course

(* --------------------------- types of a step --------------------------- *)

\* Whatever is undone, and whenever, a tree is left.
LEMMA UndoIsDisk ==
  ASSUME NEW r, Meant(r), NEW d \in Disk, NEW step
  PROVE  Undo(d, r, step) \in Disk /\ Dropped(d, r) \in Disk
<1>1. /\ r.before \in Disk
      /\ r.op \in {"create", "update", "toggle", "delete"} => r.site \in Sites
  BY MeantFields
<1>2. \A e \in Disk : InputsBack(e, r) \in Disk
  BY <1>1, InputsBackFields
<1>3. ASSUME r.op = "create"
      PROVE  UndoCreate(d, r, step) \in Disk
  <2>1. NewKeys(r) \in SUBSET Keys /\ {} \in SUBSET Keys /\ r.site \in Sites
        /\ NoUpstream \in Upstreams \cup {NoUpstream}
    BY <1>1, <1>3, MeantKeys
  <2>2. \A e \in Disk : Sync(e, NewKeys(r), {}, NoUpstream) \in Disk
    BY <2>1, SyncFields
  <2>3. \A e \in Disk : Erase(e, r.site) \in Disk
    BY <2>1, EraseFields
  <2>4. LinkBack(d, r) \in Disk
    BY <1>1, <2>1, LinkBackFields
  <2>5. \A e \in Disk : Reconcile(e) \in Disk
    BY NamesFields
  <2>6. /\ InputsBack(d, r) \in Disk
        /\ InputsBack(Erase(d, r.site), r) \in Disk
        /\ InputsBack(Erase(Sync(d, NewKeys(r), {}, NoUpstream), r.site), r) \in Disk
    BY <1>2, <2>2, <2>3
  <2>7. InputsBack(Erase(Reconcile(Sync(LinkBack(d, r), NewKeys(r), {}, NoUpstream)), r.site), r)
          \in Disk
    BY <1>2, <2>2, <2>3, <2>4, <2>5
  <2> QED BY <2>6, <2>7 DEF UndoCreate
<1>4. ASSUME r.op = "update"
      PROVE  UndoUpdate(d, r, step) \in Disk
  <2> DEFINE f == r.before.files[r.site]
             u == UpstreamOf(r.before, r.site)
             e == Write(d, r.site, f)
             g == Sync(e, NewKeys(r), OldKeys(r), u)
  <2>1. r.site \in Sites /\ f \in File \cup {Absent} /\ u \in Upstreams \cup {NoUpstream}
    BY <1>1, <1>4, DiskFields, KeysTypes
  <2>2. NewKeys(r) \in SUBSET Keys /\ OldKeys(r) \in SUBSET Keys
    BY <1>4, MeantKeys
  <2>3. e \in Disk
    BY <2>1, WriteFields
  <2>4. g \in Disk
    <3> HIDE DEF e, u
    <3> QED BY <2>1, <2>2, <2>3, SyncFields
  <2>5. Reconcile(g) \in Disk
    BY <2>4, NamesFields
  <2>6. /\ InputsBack(d, r) \in Disk /\ InputsBack(e, r) \in Disk
        /\ InputsBack(g, r) \in Disk /\ InputsBack(Reconcile(g), r) \in Disk
    BY <1>2, <2>3, <2>4, <2>5
  <2> QED BY <2>6 DEF UndoUpdate
<1>5. ASSUME r.op \in {"toggle", "delete"}
      PROVE  InputsBack(LinkBack(d, r), r) \in Disk
  BY <1>1, <1>2, <1>5, LinkBackFields
<1>6. Undo(d, r, step) \in Disk
  BY <1>1, <1>2, <1>3, <1>4, <1>5 DEF Undo
<1> QED BY <1>1, <1>2, <1>6 DEF Dropped

\* What a killed save of the settings leaves is a tree as well.
LEMMA HalfAppliedIsDisk ==
  ASSUME Meant(request), disk \in Disk
  PROVE  HalfApplied \subseteq Disk
<1>1. disk.global \in Globals /\ request.global \in Globals
  BY DiskFields, MeantFields
<1>2. \A S \in SUBSET Sites, g \in Globals : RenderAll(disk, request.global, S, g) \in Disk
  BY <1>1, RenderFields
<1>3. HalfApplied = {RenderAll(disk, request.global, S, g) :
                       S \in SUBSET Sites, g \in {disk.global, request.global}}
  BY DEF HalfApplied, RenderAll
<1> QED BY <1>1, <1>2, <1>3

\* After a restart the disk is a tree.
LEMMA RestartIsDisk ==
  ASSUME TypeInv, CourseInv, Restart
  PROVE  disk' \in Disk
<1>1. disk \in Disk
  BY DEF TypeInv
<1>2. PICK found \in IF At("render") THEN HalfApplied ELSE {disk} : disk' = Reconcile(found)
  BY DEF Restart
<1>3. found \in Disk
  <2>1. CASE At("render")
    BY <1>1, <1>2, <2>1, HalfAppliedIsDisk DEF At, CourseInv
  <2>2. CASE ~At("render")
    BY <1>1, <1>2, <2>2
  <2> QED BY <2>1, <2>2
<1> QED BY <1>2, <1>3, NamesFields

\* A tree no request is at work on is its own reconciliation.
LEMMA SoundIsReconciled ==
  ASSUME NEW d \in Disk, Sound(d)
  PROVE  Reconcile(d) = d
<1> DEFINE e == Reconcile(d)
<1>1. /\ e \in Disk /\ e.inputs = d.inputs /\ e.files = d.files /\ e.links = d.links
      /\ e.rows = d.rows /\ e.global = d.global /\ e.names = ForwarderNames(d)
  BY NamesFields
<1>2. d.names = ForwarderNames(d)
  BY DEF Sound
<1> HIDE DEF e
<1>3. e = d
  BY <1>1, <1>2, DiskEqual
<1> QED BY <1>3 DEF e

(* --------------------------- a request begins -------------------------- *)

\* u has n steps: the k of s, then those of t.
Joins(s, k, t, n, u) ==
  /\ s \in Seq(Steps) /\ t \in Seq(Steps) /\ u \in Seq(Steps)
  /\ Len(s) = k /\ Len(u) = n /\ Len(t) = n - k
  /\ \A i \in 1..n : u[i] = IF i <= k THEN s[i] ELSE t[i - k]

\* A sequence that joins two others is their concatenation.
LEMMA ConcatIs ==
  ASSUME NEW s, NEW t, NEW u, NEW k \in Nat, NEW n \in Nat, Joins(s, k, t, n, u)
  PROVE  s \o t = u
<1> USE DEF Joins
<1>1. /\ s \o t \in Seq(Steps)
      /\ Len(s \o t) = Len(s) + Len(t)
      /\ \A i \in 1..Len(s) + Len(t) :
           (s \o t)[i] = IF i <= Len(s) THEN s[i] ELSE t[i - Len(s)]
  BY ConcatProperties
<1> DEFINE c == s \o t
<1>2. c \in Seq(Steps) /\ Len(c) = Len(u)
  BY <1>1
<1>3. \A i \in 1..Len(c) : c[i] = u[i]
  BY <1>1
<1> HIDE DEF c
<1>4. c = u
  BY <1>2, <1>3, SeqEqual
<1> QED BY <1>4 DEF c

\* What a request has to do when it begins.
LEMMA ListsAtFirst ==
  /\ <<"save", "write", "sync">> \o ChangeEnabled = Saves
  /\ <<"save", "write", "sync">> \o <<"forward">> = SavesOnly
  /\ <<"save", "write", "sync", "forward">> \o <<"test", "reload">> = LastSaves
  /\ <<"save", "write", "sync", "forward">> \o <<>> = SavesOnly
  /\ <<>> \o ChangeEnabled = Links
  /\ <<"save">> \o ChangeEnabled = SavesLinks
  /\ ChangeEnabled \o <<"save", "erase", "unmap", "forward">> = LinksForgets
  /\ <<>> \o <<"save", "erase", "unmap", "forward">> = Forgets
<1> DEFINE three == <<"save", "write", "sync">>
           four == <<"save", "write", "sync", "forward">>
           forget == <<"save", "erase", "unmap", "forward">>
<1>1. three \o ChangeEnabled = Saves
  <2> DEFINE t == ChangeEnabled
  <2>1. three \in Seq(Steps) /\ t \in Seq(Steps) /\ Saves \in Seq(Steps)
    BY DEF ChangeEnabled, Saves, Steps
  <2>2. Len(three) = 3 /\ Len(t) = 5 /\ Len(Saves) = 8
    BY DEF ChangeEnabled, Saves
  <2>3. \A i \in 1..8 : Saves[i] = IF i <= 3 THEN three[i] ELSE t[i - 3]
    BY DEF ChangeEnabled, Saves
  <2>4. Joins(three, 3, t, 8, Saves)
    BY <2>1, <2>2, <2>3 DEF Joins
  <2> HIDE DEF three, t
  <2> QED BY <2>4, ConcatIs DEF t
<1>2. three \o <<"forward">> = SavesOnly
  <2> DEFINE t == <<"forward">>
  <2>1. three \in Seq(Steps) /\ t \in Seq(Steps) /\ SavesOnly \in Seq(Steps)
    BY DEF SavesOnly, Steps
  <2>2. Len(three) = 3 /\ Len(t) = 1 /\ Len(SavesOnly) = 4
    BY DEF SavesOnly
  <2>3. \A i \in 1..4 : SavesOnly[i] = IF i <= 3 THEN three[i] ELSE t[i - 3]
    BY DEF SavesOnly
  <2>4. Joins(three, 3, t, 4, SavesOnly)
    BY <2>1, <2>2, <2>3 DEF Joins
  <2> HIDE DEF three, t
  <2>5. three \o t = SavesOnly
    BY <2>4, ConcatIs
  <2> QED BY <2>5 DEF t
<1>3. four \o <<"test", "reload">> = LastSaves
  <2> DEFINE t == <<"test", "reload">>
  <2>1. four \in Seq(Steps) /\ t \in Seq(Steps) /\ LastSaves \in Seq(Steps)
    BY DEF LastSaves, Steps
  <2>2. Len(four) = 4 /\ Len(t) = 2 /\ Len(LastSaves) = 6
    BY DEF LastSaves
  <2>3. \A i \in 1..6 : LastSaves[i] = IF i <= 4 THEN four[i] ELSE t[i - 4]
    BY DEF LastSaves
  <2>4. Joins(four, 4, t, 6, LastSaves)
    BY <2>1, <2>2, <2>3 DEF Joins
  <2> HIDE DEF four, t
  <2>5. four \o t = LastSaves
    BY <2>4, ConcatIs
  <2> QED BY <2>5 DEF t
<1>4. four \o <<>> = SavesOnly
  BY DEF SavesOnly
<1>5. <<>> \o ChangeEnabled = Links
  BY DEF ChangeEnabled, Links
<1>6. <<"save">> \o ChangeEnabled = SavesLinks
  <2> DEFINE s == <<"save">>
             t == ChangeEnabled
  <2>1. s \in Seq(Steps) /\ t \in Seq(Steps) /\ SavesLinks \in Seq(Steps)
    BY DEF ChangeEnabled, SavesLinks, Steps
  <2>2. Len(s) = 1 /\ Len(t) = 5 /\ Len(SavesLinks) = 6
    BY DEF ChangeEnabled, SavesLinks
  <2>3. \A i \in 1..6 : SavesLinks[i] = IF i <= 1 THEN s[i] ELSE t[i - 1]
    BY DEF ChangeEnabled, SavesLinks
  <2>4. Joins(s, 1, t, 6, SavesLinks)
    BY <2>1, <2>2, <2>3 DEF Joins
  <2> HIDE DEF s, t
  <2>5. s \o t = SavesLinks
    BY <2>4, ConcatIs
  <2> QED BY <2>5 DEF s, t
<1>7. ChangeEnabled \o forget = LinksForgets
  <2> DEFINE s == ChangeEnabled
  <2>1. s \in Seq(Steps) /\ forget \in Seq(Steps) /\ LinksForgets \in Seq(Steps)
    BY DEF ChangeEnabled, LinksForgets, Steps
  <2>2. Len(s) = 5 /\ Len(forget) = 4 /\ Len(LinksForgets) = 9
    BY DEF ChangeEnabled, LinksForgets
  <2>3. \A i \in 1..9 : LinksForgets[i] = IF i <= 5 THEN s[i] ELSE forget[i - 5]
    BY DEF ChangeEnabled, LinksForgets
  <2>4. Joins(s, 5, forget, 9, LinksForgets)
    BY <2>1, <2>2, <2>3 DEF Joins
  <2> HIDE DEF s, forget
  <2>5. s \o forget = LinksForgets
    BY <2>4, ConcatIs
  <2> QED BY <2>5 DEF s
<1>8. <<>> \o forget = Forgets
  BY DEF Forgets
<1> QED BY <1>1, <1>2, <1>3, <1>4, <1>5, <1>6, <1>7, <1>8

\* A request as it is when it takes the lock.
Taken(r) ==
  /\ Meant(r)
  /\ r.before = disk
  /\ \/ r.op = "create" /\ r.todo = IF r.enabled THEN Saves ELSE SavesOnly
     \/ r.op = "update" /\ r.todo = IF r.enabled THEN LastSaves ELSE SavesOnly
     \/ r.op = "toggle" /\ r.todo = IF r.input = Absent THEN Links ELSE SavesLinks
     \/ r.op = "delete" /\ r.todo = IF r.site \in disk.links THEN LinksForgets ELSE Forgets
     \/ r.op = "settings" /\ r.todo = LastRenders
     \/ r.op = "lifecycle" /\ r.todo = LastTests

\* A request that is taken up is on its course, at the tree on disk.
LEMMA TakenBegins ==
  ASSUME NEW r, Taken(r), Begin(r), LoadedInv
  PROVE  Meant(request') /\ Course(request)' /\ request'.before = disk
<1>1. /\ request' = r /\ disk' = disk /\ loaded' = loaded /\ torn' = torn
      /\ request = NoRequest
  BY DEF Begin
<1>2. torn' = 0 /\ Running' => loaded' = Served(disk)
  BY <1>1 DEF LoadedInv, Running
<1>3. Meant(r) /\ r.before = disk /\ r.enabled \in BOOLEAN
  BY MeantFields DEF Taken
<1>4. CASE r.op = "create" /\ r.todo = IF r.enabled THEN Saves ELSE SavesOnly
  <2>1. CreateCourse(request)'
    BY <1>1, <1>2, <1>3, <1>4 DEF CreateCourse, Stage
  <2> QED BY <1>1, <1>3, <2>1 DEF Course
<1>5. CASE r.op = "update" /\ r.todo = IF r.enabled THEN LastSaves ELSE SavesOnly
  <2>1. UpdateCourse(request)'
    BY <1>1, <1>2, <1>3, <1>5 DEF UpdateCourse, Stage
  <2> QED BY <1>1, <1>3, <2>1 DEF Course
<1>6. CASE r.op = "toggle" /\ r.todo = IF r.input = Absent THEN Links ELSE SavesLinks
  <2>1. ToggleCourse(request)'
    BY <1>1, <1>2, <1>3, <1>6 DEF ToggleCourse, Stage
  <2> QED BY <1>1, <1>3, <2>1 DEF Course
<1>7. CASE r.op = "delete" /\ r.todo = IF r.site \in disk.links THEN LinksForgets ELSE Forgets
  <2>1. DeleteCourse(request)'
    BY <1>1, <1>2, <1>3, <1>7 DEF DeleteCourse, Stage, Disabled
  <2> QED BY <1>1, <1>3, <2>1 DEF Course
<1>8. CASE r.op = "settings" /\ r.todo = LastRenders
  <2>1. SettingsCourse(request)'
    BY <1>1, <1>2, <1>3, <1>8 DEF SettingsCourse, Stage
  <2> QED BY <1>1, <1>3, <2>1 DEF Course
<1>9. CASE r.op = "lifecycle" /\ r.todo = LastTests
  <2>1. LifecycleCourse(request)'
    BY <1>1, <1>2, <1>3, <1>9 DEF LifecycleCourse, Stage
  <2> QED BY <1>1, <1>3, <2>1 DEF Course
<1> QED BY <1>4, <1>5, <1>6, <1>7, <1>8, <1>9 DEF Taken

\* The fields of a request that edits no site.
LEMMA PlainFields ==
  ASSUME disk \in Disk
  PROVE  /\ Plain \in Request
         /\ Plain.op = "lifecycle" /\ Plain.before = disk /\ Plain.input = Absent
         /\ ~Plain.start /\ ~Plain.enabled
<1>1. disk.global \in Globals
  BY DiskFields
<1>2. <<>> \in Seq(Steps)
  OBVIOUS
<1> QED BY <1>1, <1>2 DEF Plain, Request

\* The request of an edit.
EditRequest(op, s, in, custom, todo) == [Edit(op, s, in, custom) EXCEPT !.todo = todo]

\* The fields of a request that creates or updates a site.
LEMMA EditFields ==
  ASSUME disk \in Disk, NEW op \in {"create", "update"}, NEW s \in Sites, NEW in \in Input,
         NEW custom \in BOOLEAN, NEW todo \in Seq(Steps)
  PROVE  LET r == EditRequest(op, s, in, custom, todo)
         IN /\ r \in Request
            /\ r.op = op /\ r.site = s /\ r.before = disk /\ r.todo = todo
            /\ r.upstream = in.upstream /\ r.enabled = in.enabled /\ ~r.start
            /\ r.input = IF custom THEN Absent ELSE in
            /\ r.file # Absent
            /\ ~custom => r.file = Managed(disk.global, in)
<1> DEFINE file == IF custom THEN Custom(in) ELSE Managed(disk.global, in)
           input == IF custom THEN Absent ELSE in
           p == Edit(op, s, in, custom)
           r == [p EXCEPT !.todo = todo]
<1>1. disk.global \in Globals /\ in.alias \in Aliases /\ in.enabled \in BOOLEAN
      /\ in.upstream \in Upstreams \cup {NoUpstream} /\ in # Absent
  BY DiskFields, InputFields
<1>2. file \in File /\ file # Absent /\ (~custom => file = Managed(disk.global, in))
  <2>1. Custom(in) \in File
    BY <1>1 DEF Custom, File
  <2>2. Managed(disk.global, in) \in File
    BY <1>1, ManagedIsFile
  <2>3. file \in File
    BY <2>1, <2>2
  <2> QED BY <2>3, FileFields
<1>3. input \in Input \cup {Absent}
  OBVIOUS
<1>4. p = [Plain EXCEPT !.op = op, !.site = s, !.upstream = in.upstream,
                        !.enabled = in.enabled, !.input = input, !.file = file]
  BY DEF Edit
<1> HIDE DEF file, input, p
<1>5. /\ p \in Request
      /\ p.op = op /\ p.site = s /\ p.before = disk
      /\ p.upstream = in.upstream /\ p.enabled = in.enabled /\ ~p.start
      /\ p.input = input /\ p.file = file
  <2>1. Plain \in Request /\ Plain.before = disk /\ ~Plain.start
    BY PlainFields
  <2> QED BY <1>1, <1>2, <1>3, <1>4, <2>1 DEF Request
<1>6. /\ r \in Request
      /\ r.op = op /\ r.site = s /\ r.before = disk /\ r.todo = todo
      /\ r.upstream = in.upstream /\ r.enabled = in.enabled /\ ~r.start
      /\ r.input = input /\ r.file = file
  BY <1>5 DEF Request
<1>7. r = EditRequest(op, s, in, custom, todo)
  BY DEF EditRequest, p
<1> HIDE DEF r
<1> QED BY <1>2, <1>6, <1>7 DEF input

\* The lists requests begin with are things to do.
LEMMA ListsAreTodo ==
  /\ Saves \in Seq(Steps) /\ SavesOnly \in Seq(Steps) /\ LastSaves \in Seq(Steps)
  /\ Links \in Seq(Steps) /\ SavesLinks \in Seq(Steps)
  /\ LinksForgets \in Seq(Steps) /\ Forgets \in Seq(Steps)
  /\ LastRenders \in Seq(Steps) /\ LastTests \in Seq(Steps)
BY DEF Saves, SavesOnly, LastSaves, Links, SavesLinks, LinksForgets, Forgets, LastRenders,
       LastTests, Steps

\* A creation takes up a request.
LEMMA CreateTakes ==
  ASSUME disk \in Disk, NEW s \in Sites, NEW in \in Input, NEW custom \in BOOLEAN,
         Create(s, in, custom)
  PROVE  \E r : Taken(r) /\ Begin(r)
<1> DEFINE todo == IF in.enabled THEN Saves ELSE SavesOnly
           r == EditRequest("create", s, in, custom, todo)
<1>1. Begin(r)
  <2>1. <<"save", "write", "sync">> \o (IF in.enabled THEN ChangeEnabled ELSE <<"forward">>)
          = todo
    BY ListsAtFirst
  <2> QED BY <2>1 DEF Create, EditRequest
<1>2. todo \in Seq(Steps)
  BY ListsAreTodo
<1>3. in.enabled \in BOOLEAN /\ in # Absent
  BY InputFields
<1>4. /\ r \in Request
      /\ r.op = "create" /\ r.site = s /\ r.before = disk /\ r.todo = todo
      /\ r.upstream = in.upstream /\ r.enabled = in.enabled /\ ~r.start
      /\ r.input = IF custom THEN Absent ELSE in
      /\ r.file # Absent
      /\ ~custom => r.file = Managed(disk.global, in)
  BY <1>2, EditFields
<1> HIDE DEF r
<1>5. Meant(r)
  BY <1>3, <1>4 DEF Meant
<1>6. Taken(r)
  BY <1>4, <1>5 DEF Taken
<1> QED BY <1>1, <1>6

\* An update takes up a request.
LEMMA UpdateTakes ==
  ASSUME disk \in Disk, NEW s \in Sites, NEW in \in Input, NEW custom \in BOOLEAN,
         Update(s, in, custom)
  PROVE  \E r : Taken(r) /\ Begin(r)
<1> DEFINE todo == IF in.enabled THEN LastSaves ELSE SavesOnly
           r == EditRequest("update", s, in, custom, todo)
<1>1. Begin(r)
  <2>1. <<"save", "write", "sync", "forward">>
          \o (IF in.enabled THEN <<"test", "reload">> ELSE <<>>) = todo
    BY ListsAtFirst
  <2> QED BY <2>1 DEF Update, EditRequest
<1>2. todo \in Seq(Steps)
  BY ListsAreTodo
<1>3. in.enabled \in BOOLEAN /\ in # Absent
  BY InputFields
<1>4. /\ r \in Request
      /\ r.op = "update" /\ r.site = s /\ r.before = disk /\ r.todo = todo
      /\ r.upstream = in.upstream /\ r.enabled = in.enabled /\ ~r.start
      /\ r.input = IF custom THEN Absent ELSE in
      /\ r.file # Absent
      /\ ~custom => r.file = Managed(disk.global, in)
  BY <1>2, EditFields
<1>5. /\ disk.files[s] # Absent
      /\ custom => disk.inputs[s] = Absent
      /\ in.enabled = (s \in disk.links)
  BY DEF Update, Exists
<1> HIDE DEF r
<1>6. Meant(r)
  BY <1>3, <1>4, <1>5 DEF Meant
<1>7. Taken(r)
  BY <1>4, <1>6 DEF Taken
<1> QED BY <1>1, <1>7

\* Enabling or disabling takes up a request.
LEMMA ToggleTakes ==
  ASSUME disk \in Disk, NEW s \in Sites, NEW on \in BOOLEAN, NEW start \in BOOLEAN,
         Toggle(s, on, start)
  PROVE  \E r : Taken(r) /\ Begin(r)
<1> DEFINE in == disk.inputs[s]
           input == IF in = Absent THEN Absent ELSE [in EXCEPT !.enabled = on]
           todo == IF in = Absent THEN Links ELSE SavesLinks
           r == [Plain EXCEPT !.op = "toggle", !.site = s, !.enabled = on, !.start = start,
                              !.input = input, !.todo = todo]
<1>1. Begin(r) /\ disk.files[s] # Absent
  <2>1. (IF in = Absent THEN <<>> ELSE <<"save">>) \o ChangeEnabled = todo
    BY ListsAtFirst
  <2> QED BY <2>1 DEF Toggle, Exists
<1>2. todo \in Seq(Steps)
  BY ListsAreTodo
<1>3. in \in Input \cup {Absent}
  BY DiskFields
<1>4. input \in Input \cup {Absent} /\ (input = Absent <=> in = Absent)
  <2>1. CASE in = Absent
    BY <2>1
  <2>2. CASE in # Absent
    <3>1. in \in Input
      BY <1>3, <2>2
    <3> HIDE DEF in
    <3>2. [in EXCEPT !.enabled = on] \in Input
      BY <3>1 DEF Input
    <3> QED BY <2>2, <3>2, InputFields
  <2> QED BY <2>1, <2>2
<1>5. input # Absent => input = [in EXCEPT !.enabled = on]
  OBVIOUS
<1>6. Plain \in Request /\ Plain.before = disk
  BY PlainFields
<1> HIDE DEF todo, input
<1>7. /\ r \in Request
      /\ r.op = "toggle" /\ r.site = s /\ r.enabled = on /\ r.start = start
      /\ r.input = input /\ r.todo = todo /\ r.before = disk
  BY <1>2, <1>4, <1>6 DEF Request
<1> HIDE DEF r
<1>8. Meant(r)
  BY <1>1, <1>4, <1>5, <1>7 DEF Meant
<1>9. Taken(r)
  BY <1>4, <1>7, <1>8 DEF Taken, todo
<1> QED BY <1>1, <1>9

\* A deletion takes up a request.
LEMMA DeleteTakes ==
  ASSUME disk \in Disk, NEW s \in Sites, Delete(s)
  PROVE  \E r : Taken(r) /\ Begin(r)
<1> DEFINE todo == IF s \in disk.links THEN LinksForgets ELSE Forgets
           r == [Plain EXCEPT !.op = "delete", !.site = s, !.todo = todo]
<1>1. Begin(r) /\ disk.files[s] # Absent
  <2>1. (IF s \in disk.links THEN ChangeEnabled ELSE <<>>)
          \o <<"save", "erase", "unmap", "forward">> = todo
    BY ListsAtFirst
  <2> QED BY <2>1 DEF Delete, Exists
<1>2. todo \in Seq(Steps)
  BY ListsAreTodo
<1>3. /\ Plain \in Request /\ Plain.before = disk /\ ~Plain.start /\ ~Plain.enabled
      /\ Plain.input = Absent
  BY PlainFields
<1> HIDE DEF todo
<1>4. /\ r \in Request
      /\ r.op = "delete" /\ r.site = s /\ r.todo = todo /\ r.before = disk
      /\ ~r.start /\ ~r.enabled /\ r.input = Absent
  BY <1>2, <1>3 DEF Request
<1> HIDE DEF r
<1>5. Meant(r)
  BY <1>1, <1>4 DEF Meant
<1>6. Taken(r)
  BY <1>4, <1>5 DEF Taken, todo
<1> QED BY <1>1, <1>6

\* So do new settings, a reload and a start.
LEMMA OthersTake ==
  ASSUME disk \in Disk, (\E g \in Globals : PutSettings(g)) \/ Reload \/ Start
  PROVE  \E r : Taken(r) /\ Begin(r)
<1>1. LastRenders \in Seq(Steps) /\ LastTests \in Seq(Steps)
  BY ListsAreTodo
<1>2. /\ Plain \in Request /\ Plain.before = disk /\ ~Plain.start
      /\ Plain.op = "lifecycle"
  BY PlainFields
<1>3. ASSUME NEW g \in Globals, PutSettings(g)
      PROVE  \E r : Taken(r) /\ Begin(r)
  <2> DEFINE r == [Plain EXCEPT !.op = "settings", !.global = g, !.todo = LastRenders]
  <2>1. Begin(r)
    BY <1>3 DEF PutSettings, LastRenders
  <2>2. r \in Request /\ r.op = "settings" /\ r.before = disk /\ r.todo = LastRenders /\ ~r.start
    BY <1>1, <1>2 DEF Request
  <2> HIDE DEF r
  <2>3. Taken(r)
    BY <2>2 DEF Taken, Meant
  <2> QED BY <2>1, <2>3
<1>4. ASSUME Reload
      PROVE  \E r : Taken(r) /\ Begin(r)
  <2> DEFINE r == [Plain EXCEPT !.todo = LastTests]
  <2>1. Begin(r)
    BY <1>4 DEF Reload, LastTests
  <2>2. r \in Request /\ r.op = "lifecycle" /\ r.before = disk /\ r.todo = LastTests
    BY <1>1, <1>2 DEF Request
  <2> HIDE DEF r
  <2>3. Taken(r)
    BY <2>2 DEF Taken, Meant
  <2> QED BY <2>1, <2>3
<1>5. ASSUME Start
      PROVE  \E r : Taken(r) /\ Begin(r)
  <2> DEFINE r == [Plain EXCEPT !.start = TRUE, !.todo = LastTests]
  <2>1. Begin(r)
    BY <1>5 DEF Start, LastTests
  <2>2. r \in Request /\ r.op = "lifecycle" /\ r.before = disk /\ r.todo = LastTests
    BY <1>1, <1>2 DEF Request
  <2> HIDE DEF r
  <2>3. Taken(r)
    BY <2>2 DEF Taken, Meant
  <2> QED BY <2>1, <2>3
<1> QED BY <1>3, <1>4, <1>5

(* ------------------------ the invariant is kept ------------------------ *)

\* The disk is a tree, also in the next state.
LEMMA DiskWhileCourse == Meant(request) /\ Course(request) => disk \in Disk
BY CourseIsDisk

\* The first tree is sound.
LEMMA InitSound == Init => SitesInv
<1> SUFFICES ASSUME Init
             PROVE  SitesInv
  OBVIOUS
<1>1. PICK g \in Globals :
        disk = [inputs |-> [s \in Sites |-> Absent], files |-> [s \in Sites |-> Absent],
                links |-> {}, rows |-> {}, names |-> {}, global |-> g]
  BY DEF Init
<1>2. loaded = Stopped /\ request = NoRequest /\ torn = 0
  BY DEF Init
<1>3. disk \in Disk
  <2>1. [s \in Sites |-> Absent] \in [Sites -> Input \cup {Absent}]
        /\ [s \in Sites |-> Absent] \in [Sites -> File \cup {Absent}]
    OBVIOUS
  <2> QED BY <1>1, <2>1 DEF Disk
<1>4. Sound(disk)
  <2>1. \A s \in Sites : disk.files[s] = Absent /\ disk.inputs[s] = Absent
    BY <1>1
  <2>2. disk.links = {} /\ disk.rows = {} /\ disk.names = {}
    BY <1>1
  <2>3. \A s \in Sites : SiteSound(disk, s)
    BY <2>1, <2>2 DEF SiteSound
  <2>4. ForwarderNames(disk) = {}
    BY <2>2 DEF ForwarderNames
  <2> QED BY <2>2, <2>3, <2>4 DEF Sound
<1>5. TypeInv
  BY <1>2, <1>3, SitesAssumption DEF TypeInv
<1> QED BY <1>2, <1>4, <1>5 DEF SitesInv, CourseInv, SoundInv, LoadedInv, Settled, Running

\* Whatever arrives stops nginx or takes up a request.
LEMMA NewRequestTakes ==
  ASSUME disk \in Disk, NewRequest
  PROVE  Stop \/ \E r : Taken(r) /\ Begin(r)
<1>1. CASE \E s \in Sites, on, custom \in BOOLEAN : \E edit \in Edits[s] :
             LET in == [alias |-> edit[1], upstream |-> edit[2], enabled |-> on]
             IN Create(s, in, custom) \/ Update(s, in, custom)
  <2>0. PICK s \in Sites, on \in BOOLEAN, custom \in BOOLEAN :
               \E edit \in Edits[s] :
                 LET in == [alias |-> edit[1], upstream |-> edit[2], enabled |-> on]
                 IN Create(s, in, custom) \/ Update(s, in, custom)
    BY <1>1
  <2>1. PICK edit \in Edits[s] :
               LET in == [alias |-> edit[1], upstream |-> edit[2], enabled |-> on]
               IN Create(s, in, custom) \/ Update(s, in, custom)
    BY <2>0
  <2>2. edit \in Aliases \X (Upstreams \cup {NoUpstream})
    BY SitesAssumption
  <2> DEFINE in == [alias |-> edit[1], upstream |-> edit[2], enabled |-> on]
  <2>3. in \in Input
    BY <2>2 DEF Input
  <2>4. Create(s, in, custom) \/ Update(s, in, custom)
    BY <2>1
  <2> HIDE DEF in
  <2> QED BY <2>3, <2>4, CreateTakes, UpdateTakes
<1>2. CASE \E s \in Sites, on, start \in BOOLEAN : Toggle(s, on, start)
  BY <1>2, ToggleTakes
<1>3. CASE \E s \in Sites : Delete(s)
  BY <1>3, DeleteTakes
<1>4. CASE (\E g \in Globals : PutSettings(g)) \/ Reload \/ Start
  BY <1>4, OthersTake
<1> QED BY <1>1, <1>2, <1>3, <1>4 DEF NewRequest

\* A request that arrives keeps the invariant.
LEMMA NewRequestKeeps == SitesInv /\ NewRequest => SitesInv'
<1> SUFFICES ASSUME SitesInv, NewRequest
             PROVE  SitesInv'
  OBVIOUS
<1>1. TypeInv /\ CourseInv /\ SoundInv /\ LoadedInv
  BY DEF SitesInv
<1>2. CASE Stop
  <2>1. /\ request = NoRequest /\ request' = NoRequest /\ disk' = disk /\ torn' = torn
        /\ loaded' = Stopped
    BY <1>2 DEF Stop
  <2>2. Settled' = Settled
    BY <2>1 DEF Settled
  <2> QED BY <1>1, <2>1, <2>2
          DEF SitesInv, TypeInv, CourseInv, SoundInv, LoadedInv, Running
<1>3. CASE \E r : Taken(r) /\ Begin(r)
  <2>1. PICK r : Taken(r) /\ Begin(r)
    BY <1>3
  <2>2. Meant(request') /\ Course(request)' /\ request'.before = disk
    BY <1>1, <2>1, TakenBegins
  <2>3. request' # NoRequest
    BY <2>2, MeantFields, RequestAssumption
  <2>4. disk' = disk /\ loaded' = loaded /\ torn' = torn /\ request = NoRequest
    BY <2>1 DEF Begin
  <2>5. Settled' = Settled
    BY <2>2, <2>3, <2>4 DEF Settled
  <2>6. TypeInv' /\ CourseInv' /\ SoundInv' /\ LoadedInv'
    BY <1>1, <2>2, <2>3, <2>4, <2>5 DEF TypeInv, CourseInv, SoundInv, LoadedInv
  <2> QED BY <2>6 DEF SitesInv
<1>4. disk \in Disk
  BY <1>1 DEF TypeInv
<1> QED BY <1>2, <1>3, <1>4, NewRequestTakes

\* A step that succeeds keeps the invariant.
LEMMA ProgressKeeps == SitesInv /\ (Advance \/ Load) => SitesInv'
<1> SUFFICES ASSUME SitesInv, Advance \/ Load
             PROVE  SitesInv'
  OBVIOUS
<1>1. TypeInv /\ CourseInv /\ SoundInv
  BY DEF SitesInv
<1>2. request # NoRequest
  BY DEF Advance, Load, At
<1>3. Meant(request) /\ Course(request)
  BY <1>1, <1>2 DEF CourseInv
<1>4. /\ request' # NoRequest /\ Meant(request') /\ Course(request)'
      /\ request'.before = request.before
  BY <1>3, CourseAdvances
<1>5. disk' \in Disk
  <2>1. (Meant(request) /\ Course(request) => disk \in Disk)'
    BY DiskWhileCourse, PTL
  <2> QED BY <1>4, <2>1
<1>6. torn' = torn /\ (loaded' = loaded \/ loaded' = Served(disk))
  BY DEF Advance, Load
<1>7. TypeInv'
  BY <1>1, <1>5, <1>6, ServedIsOfSites DEF TypeInv
<1>8. Settled' = Settled
  BY <1>2, <1>4 DEF Settled
<1> QED BY <1>1, <1>4, <1>6, <1>7, <1>8 DEF SitesInv, CourseInv, SoundInv, LoadedInv

\* A failure that is undone keeps the invariant.
LEMMA UndoneKeeps == SitesInv /\ Undone => SitesInv'
<1> SUFFICES ASSUME SitesInv, Undone
             PROVE  SitesInv'
  OBVIOUS
<1>1. TypeInv /\ CourseInv /\ SoundInv
  BY DEF SitesInv
<1>2. /\ request # NoRequest /\ request.todo # <<>> /\ Step # "adguard"
      /\ Unrestored(request) => Step \in {"test", "reload"}
      /\ disk' = Undo(disk, request, Step)
      /\ loaded' = loaded \/ loaded' = Served(disk')
      /\ torn' = torn /\ request' = NoRequest
  BY DEF Undone, Give
<1>3. Meant(request) /\ Course(request)
  BY <1>1, <1>2 DEF CourseInv
<1>4. disk \in Disk /\ disk' \in Disk
  BY <1>1, <1>2, <1>3, UndoIsDisk DEF TypeInv
<1>5. TypeInv'
  BY <1>1, <1>2, <1>4, ServedIsOfSites DEF TypeInv
<1>6. ASSUME torn = 0
      PROVE  Sound(disk') /\ (Running' => loaded' = Served(disk'))
  <2>1. Sound(request.before)
    BY <1>1, <1>2, <1>6 DEF SoundInv, Settled
  <2>2. /\ Undo(disk, request, Step) = request.before
        /\ torn = 0 /\ Running => loaded = Served(request.before)
    BY <1>2, <1>3, <2>1, CourseUndone
  <2> QED BY <1>2, <1>6, <2>1, <2>2 DEF Running
<1> QED BY <1>2, <1>5, <1>6 DEF SitesInv, CourseInv, SoundInv, LoadedInv, Settled

\* A request that is cut off keeps the invariant, by counting as torn.
LEMMA CutKeeps == SitesInv /\ Cut => SitesInv'
<1> SUFFICES ASSUME SitesInv, Cut
             PROVE  SitesInv'
  OBVIOUS
<1>1. TypeInv /\ CourseInv
  BY DEF SitesInv
<1>2. /\ request # NoRequest /\ request' = NoRequest
      /\ torn < MaxTorn /\ torn' = torn + 1
      /\ disk' \in {Dropped(disk, request), Undo(disk, request, Step)}
      /\ loaded' \in {loaded, Served(disk), Served(disk')}
  BY DEF Cut, Give
<1>3. Meant(request) /\ disk \in Disk /\ torn \in 0..MaxTorn /\ MaxTorn \in Nat
  BY <1>1, <1>2, SitesAssumption DEF CourseInv, TypeInv
<1>4. disk' \in Disk
  BY <1>2, <1>3, UndoIsDisk
<1>5. torn' \in 0..MaxTorn /\ torn' # 0
  BY <1>2, <1>3
<1>6. TypeInv'
  BY <1>1, <1>2, <1>3, <1>4, <1>5, ServedIsOfSites DEF TypeInv
<1> QED BY <1>2, <1>5, <1>6 DEF SitesInv, CourseInv, SoundInv, LoadedInv

\* The end of a request keeps the invariant.
LEMMA CommitKeeps == SitesInv /\ Commit => SitesInv'
<1> SUFFICES ASSUME SitesInv, Commit
             PROVE  SitesInv'
  OBVIOUS
<1>1. TypeInv /\ CourseInv /\ SoundInv
  BY DEF SitesInv
<1>2. /\ request # NoRequest /\ request.todo = <<>> /\ request' = NoRequest
      /\ disk' = disk /\ loaded' = loaded /\ torn' = torn
  BY DEF Commit, Give
<1>3. Meant(request) /\ Course(request)
  BY <1>1, <1>2 DEF CourseInv
<1>4. ASSUME torn = 0
      PROVE  Sound(disk) /\ (Running => loaded = Served(disk))
  <2>1. Sound(request.before)
    BY <1>1, <1>2, <1>4 DEF SoundInv, Settled
  <2> QED BY <1>2, <1>3, <1>4, <2>1, CourseEnds
<1>5. TypeInv'
  BY <1>1, <1>2 DEF TypeInv
<1> QED BY <1>2, <1>4, <1>5 DEF SitesInv, CourseInv, SoundInv, LoadedInv, Settled, Running

\* A restart keeps the invariant.
LEMMA RestartKeeps == SitesInv /\ Restart => SitesInv'
<1> SUFFICES ASSUME SitesInv, Restart
             PROVE  SitesInv'
  OBVIOUS
<1>1. TypeInv /\ CourseInv /\ SoundInv /\ LoadedInv
  BY DEF SitesInv
<1>2. disk \in Disk /\ disk' \in Disk
  BY <1>1, RestartIsDisk DEF TypeInv
<1>3. request' = NoRequest /\ loaded' = loaded
  BY DEF Restart, Give
<1>4. CASE request = NoRequest
  <2>1. torn' = torn /\ disk' = Reconcile(disk)
    BY <1>4 DEF Restart, At
  <2>2. torn = 0 => Sound(disk) /\ disk' = disk
    BY <1>1, <1>2, <1>4, <2>1, SoundIsReconciled DEF SoundInv, Settled
  <2>3. TypeInv'
    BY <1>1, <1>2, <1>3, <2>1 DEF TypeInv
  <2> QED BY <1>1, <1>3, <1>4, <2>1, <2>2, <2>3
          DEF SitesInv, CourseInv, SoundInv, LoadedInv, Settled, Running
<1>5. CASE request # NoRequest
  <2>1. torn \in 0..MaxTorn /\ torn < MaxTorn /\ torn' = torn + 1 /\ MaxTorn \in Nat
    BY <1>1, <1>5, SitesAssumption DEF Restart, TypeInv
  <2>2. torn' \in 0..MaxTorn /\ torn' # 0
    BY <2>1
  <2>3. TypeInv'
    BY <1>1, <1>2, <1>3, <2>2 DEF TypeInv
  <2> QED BY <1>3, <2>2, <2>3 DEF SitesInv, CourseInv, SoundInv, LoadedInv
<1> QED BY <1>4, <1>5

\* The invariant: whatever the handlers do, whichever of their steps fails, the tree a
\* request found was sound, and the disk is that tree changed by its steps so far.
THEOREM SitesInvariant == Spec => []SitesInv
<1>1. SitesInv /\ [Next]_vars => SitesInv'
  <2> SUFFICES ASSUME SitesInv, [Next]_vars
               PROVE  SitesInv'
    OBVIOUS
  <2>1. CASE NewRequest
    BY <2>1, NewRequestKeeps
  <2>2. CASE RequestStep
    <3>1. Advance \/ Load \/ Undone \/ Cut \/ Commit
      BY <2>2, StepKinds DEF SitesInv
    <3> QED BY <3>1, ProgressKeeps, UndoneKeeps, CutKeeps, CommitKeeps
  <2>3. CASE Restart
    BY <2>3, RestartKeeps
  <2>4. CASE UNCHANGED vars
    BY <2>4 DEF vars, SitesInv, TypeInv, CourseInv, SoundInv, LoadedInv, Settled, Running,
       Course, CreateCourse, UpdateCourse, ToggleCourse, DeleteCourse, SettingsCourse,
       LifecycleCourse, Stage
  <2> QED BY <2>1, <2>2, <2>3, <2>4 DEF Next
<1> QED BY <1>1, InitSound, PTL DEF Spec

(* ------------------------------ the theorems --------------------------- *)

\* The state has its type, and a request only what its handler can have left to do.
THEOREM SitesTypeCorrect == Spec => []TypeOK
<1>1. SitesInv => TypeOK
  <2> SUFFICES ASSUME SitesInv
               PROVE  TypeOK
    OBVIOUS
  <2>1. TypeInv
    BY DEF SitesInv
  <2>2. ASSUME request # NoRequest
        PROVE  /\ request.site \in Sites \cup {Absent}
               /\ \A i \in DOMAIN request.todo : request.todo[i] \in Steps
               /\ request.before \in Disk
    <3>1. request \in Request /\ request.before \in Disk /\ request.todo \in Seq(Steps)
      BY <2>2, MeantFields DEF SitesInv, CourseInv
    <3>2. request.site \in Sites \cup {Absent}
      BY <3>1 DEF Request
    <3> QED BY <3>1, <3>2
  <2> QED BY <2>1, <2>2 DEF TypeOK, TypeInv
<1> QED BY <1>1, SitesInvariant, PTL

\* A sound tree says the same of every site wherever it is asked.
LEMMA SoundIsCoherent ==
  ASSUME NEW d \in Disk, Sound(d), NEW s \in Sites
  PROVE  CoherentEntry(s, Entry(d, s), d.global)
<1> DEFINE e == Entry(d, s)
<1>1. SiteSound(d, s)
  BY DEF Sound
<1>2. /\ e.input = d.inputs[s] /\ e.file = d.files[s] /\ e.link = (s \in d.links)
      /\ e.rows = {q \in d.rows : \E a \in Aliases : q[1] = Key(s, a)}
  BY DEF Entry
<1>3. ASSUME e.file = Absent
      PROVE  e = BlankEntry
  <2>1. /\ d.inputs[s] = Absent /\ d.files[s] = Absent /\ s \notin d.links
        /\ \A q \in d.rows, a \in Aliases : q[1] # Key(s, a)
    BY <1>1, <1>2, <1>3 DEF SiteSound
  <2>2. {q \in d.rows : \E a \in Aliases : q[1] = Key(s, a)} = {}
    BY <2>1
  <2>3. (s \in d.links) = FALSE
    BY <2>1
  <2> DEFINE rows == {q \in d.rows : \E a \in Aliases : q[1] = Key(s, a)}
             link == s \in d.links
  <2>4. e = [input |-> d.inputs[s], file |-> d.files[s], link |-> link, rows |-> rows]
    BY DEF Entry
  <2>5. rows = {} /\ link = FALSE
    BY <2>2, <2>3
  <2> HIDE DEF rows, link, e
  <2> QED BY <2>1, <2>4, <2>5 DEF BlankEntry
<1> HIDE DEF e
<1>4. e.file # Absent => \A q \in e.rows : q[1] = Key(s, e.file.alias)
  BY <1>1, <1>2 DEF SiteSound
<1>5. ASSUME e.input # Absent
      PROVE  /\ e.file = Managed(d.global, e.input)
             /\ e.link = e.input.enabled
             /\ e.rows = RowsOf(s, e.input)
  <2> DEFINE in == d.inputs[s]
             k == Key(s, in.alias)
  <2>1. /\ in \in Input /\ in # Absent
        /\ d.files[s] = Managed(d.global, in)
        /\ (s \in d.links) = in.enabled
        /\ \A u \in Upstreams : <<k, u>> \in d.rows <=> u = in.upstream
    BY <1>1, <1>2, <1>5, DiskFields DEF SiteSound
  <2>2. /\ d.files[s] # Absent /\ d.files[s].alias = in.alias /\ in.alias \in Aliases
        /\ in.upstream \in Upstreams \cup {NoUpstream}
    BY <2>1, DiskFields, ManagedIsFile, InputFields
  <2>3. \A q \in d.rows : q = <<q[1], q[2]>> /\ q[2] \in Upstreams
    BY DiskFields
  <2>4. NoUpstream \notin Upstreams
    BY SitesAssumption
  <2>5. \A q \in e.rows : q[1] = k
    BY <1>2, <1>4, <2>2
  <2>6. e.rows \subseteq d.rows
    BY <1>2
  <2>7. \A u : <<k, u>> \in d.rows => <<k, u>> \in e.rows
    <3>1. \A u : <<k, u>>[1] = k
      OBVIOUS
    <3> HIDE DEF k
    <3>2. k = Key(s, in.alias)
      BY DEF k
    <3> HIDE DEF in
    <3> QED BY <1>2, <2>2, <3>1, <3>2
  <2> HIDE DEF k, in
  <2>8. \A q \in e.rows : q = <<k, in.upstream>> /\ in.upstream \in Upstreams
    <3> SUFFICES ASSUME NEW q \in e.rows
                 PROVE  q = <<k, in.upstream>> /\ in.upstream \in Upstreams
      OBVIOUS
    <3>1. q \in d.rows /\ q = <<k, q[2]>> /\ q[2] \in Upstreams
      BY <2>3, <2>5, <2>6
    <3>2. q[2] = in.upstream
      BY <2>1, <3>1
    <3> QED BY <3>1, <3>2
  <2>9. in.upstream # NoUpstream => <<k, in.upstream>> \in e.rows
    BY <2>1, <2>2, <2>7
  <2>10. e.rows = IF in.upstream = NoUpstream THEN {} ELSE {<<k, in.upstream>>}
    BY <2>4, <2>8, <2>9
  <2> QED BY <1>2, <2>1, <2>10 DEF RowsOf, in, k
<1>6. CoherentEntry(s, e, d.global)
  BY <1>3, <1>4, <1>5 DEF CoherentEntry
<1> QED BY <1>6 DEF e

\* Between requests sites.toml, the files, the links and the upstream rows of every
\* site say the same, whatever failed and was undone, for every tree of sites.
THEOREM SitesAlwaysAgree == Spec => []SitesAgree
<1>1. SitesInv => SitesAgree
  BY SoundIsCoherent DEF SitesInv, TypeInv, SoundInv, Settled, SitesAgree
<1> QED BY <1>1, SitesInvariant, PTL

\* Between requests a running nginx serves what the files say, for every tree of sites.
THEOREM AlwaysServesWhatIsOnDisk == Spec => []ServesWhatIsOnDisk
<1>1. SitesInv => ServesWhatIsOnDisk
  BY DEF SitesInv, LoadedInv, ServesWhatIsOnDisk
<1> QED BY <1>1, SitesInvariant, PTL

\* Between requests the HTTP forwarder names the enabled sites and no other, for every
\* tree of sites and set of server names.
THEOREM ForwarderAlwaysNamesAll == Spec => []ForwarderNamesAll
<1>1. SitesInv => ForwarderNamesAll
  BY DEF SitesInv, SoundInv, Sound, Settled, ForwarderNamesAll
<1> QED BY <1>1, SitesInvariant, PTL

(***************************************************************************)
(* NginxSites implements SiteStore: a request on a site is one step of the *)
(* store, or none.                                                         *)
(*                                                                         *)
(* The store sees the tree as the request that holds nginx_lock found it,  *)
(* so that all steps of a request but the last are none of its. The last   *)
(* one is a step of Save, Remove or Configure if the request succeeds, and *)
(* none if it is undone, because what is undone is what was found. That    *)
(* rests on SitesInv, and on a sound tree. A request that is cut off, or   *)
(* works on the leftovers of one that was, changes at least nothing but    *)
(* its own site and what is below it: Near says so of the disk at every    *)
(* stage of a request, and of whatever is undone.                          *)
(***************************************************************************)

(* ------------------------------- entries ------------------------------- *)

\* The rows of a site.
RowsAt(d, s) == {q \in d.rows : \E a \in Aliases : q[1] = Key(s, a)}

\* What the abstract store holds of a site.
LEMMA EntryFields ==
  ASSUME NEW d, NEW s
  PROVE  /\ Entry(d, s).input = d.inputs[s]
         /\ Entry(d, s).file = d.files[s]
         /\ Entry(d, s).link = (s \in d.links)
         /\ Entry(d, s).rows = RowsAt(d, s)
BY DEF Entry, RowsAt

\* It is the same where input, file, link and rows are.
LEMMA EntryEqual ==
  ASSUME NEW d, NEW e, NEW s,
         d.inputs[s] = e.inputs[s], d.files[s] = e.files[s],
         s \in d.links <=> s \in e.links, RowsAt(d, s) = RowsAt(e, s)
  PROVE  Entry(d, s) = Entry(e, s)
<1>1. (s \in d.links) = (s \in e.links)
  OBVIOUS
<1> QED BY <1>1 DEF Entry, RowsAt

\* Trees that differ in their inputs alone.
LEMMA EntryForgotten ==
  ASSUME NEW d, NEW e, NEW s,
         d.inputs[s] = Absent, d.files[s] = e.files[s],
         s \in d.links <=> s \in e.links, RowsAt(d, s) = RowsAt(e, s)
  PROVE  Entry(d, s) = ForgottenEntry(Entry(e, s))
<1>1. (s \in d.links) = (s \in e.links)
  OBVIOUS
<1> DEFINE link == s \in e.links
           rows == RowsAt(e, s)
<1>2. Entry(d, s) = [input |-> Absent, file |-> e.files[s], link |-> link, rows |-> rows]
  BY <1>1 DEF Entry, RowsAt
<1>3. Entry(e, s) = [input |-> e.inputs[s], file |-> e.files[s], link |-> link, rows |-> rows]
  BY DEF Entry, RowsAt
<1> HIDE DEF link, rows
<1> QED BY <1>2, <1>3 DEF ForgottenEntry

\* The names of the forwarder are no part of an entry.
LEMMA ReconciledEntry ==
  ASSUME NEW d \in Disk, NEW s \in Sites
  PROVE  Entry(Reconcile(d), s) = Entry(d, s) /\ Reconcile(d).global = d.global
<1> DEFINE e == Reconcile(d)
<1>1. /\ e.inputs = d.inputs /\ e.files = d.files /\ e.links = d.links /\ e.rows = d.rows
      /\ e.global = d.global
  BY NamesFields
<1> HIDE DEF e
<1>2. RowsAt(e, s) = RowsAt(d, s)
  BY <1>1 DEF RowsAt
<1>3. Entry(e, s) = Entry(d, s)
  BY <1>1, <1>2, EntryEqual
<1> QED BY <1>1, <1>3 DEF e

(* ------------------------- changes of one family ----------------------- *)

FamilyKeys(s) == {Key(t, a) : t \in Family(s), a \in Aliases}

\* d says of every site outside the family of s what e says.
Beside(d, e, s) ==
  /\ d.global = e.global
  /\ \A t \in Sites \ Family(s) : /\ d.inputs[t] = e.inputs[t]
                                  /\ d.files[t] = e.files[t]
                                  /\ t \in d.links <=> t \in e.links
  /\ \A q : q[1] \notin FamilyKeys(s) => (q \in d.rows <=> q \in e.rows)

\* A tree a request on a site may have made of the one it found.
Near(d, r) == d \in Disk /\ Beside(d, r.before, r.site)

\* Sites beside the family of a site keep their entries.
LEMMA BesideEntries ==
  ASSUME NEW d, NEW e, NEW s \in Sites, Beside(d, e, s), NEW t \in Sites \ Family(s)
  PROVE  Entry(d, t) = Entry(e, t)
<1>1. \A a \in Aliases : Key(t, a) \notin FamilyKeys(s)
  <2> SUFFICES ASSUME NEW a \in Aliases, NEW v \in Family(s), NEW b \in Aliases,
                      Key(t, a) = Key(v, b)
               PROVE  FALSE
    BY DEF FamilyKeys
  <2>1. v \in Sites
    BY FamilyFacts
  <2>2. t = v
    BY <2>1, KeyOfOne
  <2> QED BY <2>2
<1>2. RowsAt(d, t) = RowsAt(e, t)
  BY <1>1 DEF RowsAt, Beside
<1> QED BY <1>2, EntryEqual DEF Beside

\* The rows of a family are at keys of the family.
LEMMA FamilyKeysTypes ==
  ASSUME NEW s \in Sites
  PROVE  /\ FamilyKeys(s) \in SUBSET Keys
         /\ \A a \in Aliases : Key(s, a) \in FamilyKeys(s)
         /\ \A d \in Disk : \A t \in Family(s) : KeysOf(d, t) \subseteq FamilyKeys(s)
<1>1. Family(s) \subseteq Sites /\ s \in Family(s)
  BY FamilyFacts
<1>2. FamilyKeys(s) \in SUBSET Keys
  BY <1>1 DEF FamilyKeys, Keys
<1>3. \A a \in Aliases : Key(s, a) \in FamilyKeys(s)
  BY <1>1 DEF FamilyKeys
<1>4. ASSUME NEW d \in Disk, NEW t \in Family(s), NEW k \in KeysOf(d, t)
      PROVE  k \in FamilyKeys(s)
  <2>1. d.files[t] # Absent /\ k = Key(t, d.files[t].alias)
    BY <1>4 DEF KeysOf
  <2>2. d.files[t].alias \in Aliases
    BY <1>1, <2>1, DiskFields, FileFields
  <2> QED BY <2>1, <2>2 DEF FamilyKeys
<1> QED BY <1>2, <1>3, <1>4

\* Saving an input touches the family of the site only.
LEMMA NearKept ==
  ASSUME NEW r, NEW d, Near(d, r), r.site \in Sites, NEW in \in Input \cup {Absent}
  PROVE  Near(Keep(d, r.site, in), r)
<1> DEFINE e == Keep(d, r.site, in)
<1>1. /\ e \in Disk
      /\ e.files = d.files /\ e.links = d.links /\ e.rows = d.rows /\ e.global = d.global
      /\ \A t \in Sites :
           e.inputs[t] = IF t = r.site THEN in
                         ELSE IF in = Absent /\ r.site \in Domains /\ t \in Family(r.site)
                         THEN Absent ELSE d.inputs[t]
  BY KeepFields DEF Near
<1>2. r.site \in Family(r.site)
  BY FamilyFacts
<1> HIDE DEF e
<1>3. \A t \in Sites \ Family(r.site) : e.inputs[t] = d.inputs[t]
  BY <1>1, <1>2
<1>4. Near(e, r)
  BY <1>1, <1>3 DEF Near, Beside
<1> QED BY <1>4 DEF e

\* Writing its file touches the family only.
LEMMA NearWritten ==
  ASSUME NEW r, NEW d, Near(d, r), r.site \in Sites, NEW f \in File \cup {Absent}
  PROVE  Near(Write(d, r.site, f), r)
<1> DEFINE e == Write(d, r.site, f)
<1>1. /\ e \in Disk
      /\ e.inputs = d.inputs /\ e.links = d.links /\ e.rows = d.rows /\ e.global = d.global
      /\ e.files = [d.files EXCEPT ![r.site] = f]
  BY WriteFields DEF Near
<1>2. r.site \in Family(r.site) /\ d.files \in [Sites -> File \cup {Absent}]
  BY FamilyFacts, DiskFields DEF Near
<1> HIDE DEF e
<1>3. \A t \in Sites \ Family(r.site) : e.files[t] = d.files[t]
  BY <1>1, <1>2
<1>4. Near(e, r)
  BY <1>1, <1>3 DEF Near, Beside
<1> QED BY <1>4 DEF e

\* Moving its rows touches the family only.
LEMMA NearSynced ==
  ASSUME NEW r, NEW d, Near(d, r), r.site \in Sites,
         NEW old \in SUBSET FamilyKeys(r.site), NEW new \in SUBSET FamilyKeys(r.site),
         NEW upstream \in Upstreams \cup {NoUpstream}
  PROVE  Near(Sync(d, old, new, upstream), r)
<1> DEFINE e == Sync(d, old, new, upstream)
<1>1. old \in SUBSET Keys /\ new \in SUBSET Keys
  BY FamilyKeysTypes
<1>2. /\ e \in Disk
      /\ e.inputs = d.inputs /\ e.files = d.files /\ e.links = d.links /\ e.global = d.global
      /\ e.rows = NewRows(d, old, new, upstream)
  BY <1>1, SyncFields DEF Near
<1> HIDE DEF e
<1>3. ASSUME NEW q, q[1] \notin FamilyKeys(r.site)
      PROVE  q \in e.rows <=> q \in d.rows
  <2>1. q[1] \notin old \cup new
    BY <1>3
  <2>2. \A k \in new : q # <<k, upstream>>
    BY <1>3
  <2> QED BY <1>2, <2>1, <2>2 DEF NewRows
<1>4. Near(e, r)
  BY <1>2, <1>3 DEF Near, Beside
<1> QED BY <1>4 DEF e

\* Enabling or disabling it touches the family only.
LEMMA NearLinked ==
  ASSUME NEW r, NEW d, Near(d, r), r.site \in Sites, NEW on \in BOOLEAN
  PROVE  Near(Link(d, r.site, on), r)
<1> DEFINE e == Link(d, r.site, on)
<1> d \in Disk
  BY DEF Near
<1>1. /\ e \in Disk
      /\ e.inputs = d.inputs /\ e.files = d.files /\ e.rows = d.rows /\ e.global = d.global
      /\ e.links = IF on THEN d.links \cup {r.site} ELSE d.links \ {r.site}
  BY DEF Link, Disk
<1>2. r.site \in Family(r.site)
  BY FamilyFacts
<1> HIDE DEF e
<1>3. \A t \in Sites \ Family(r.site) : t \in e.links <=> t \in d.links
  BY <1>1, <1>2
<1>4. Near(e, r)
  BY <1>1, <1>3 DEF Near, Beside
<1> QED BY <1>4 DEF e

\* Telling the forwarder touches no site.
LEMMA NearReconciled ==
  ASSUME NEW r, NEW d, Near(d, r)
  PROVE  Near(Reconcile(d), r)
<1> DEFINE e == Reconcile(d)
<1>1. /\ e \in Disk
      /\ e.inputs = d.inputs /\ e.files = d.files /\ e.links = d.links /\ e.rows = d.rows
      /\ e.global = d.global
  BY NamesFields DEF Near
<1> HIDE DEF e
<1>2. Near(e, r)
  BY <1>1 DEF Near, Beside
<1> QED BY <1>2 DEF e

\* Erasing it touches the family only.
LEMMA NearErased ==
  ASSUME NEW r, NEW d, Near(d, r), r.site \in Sites
  PROVE  Near(Erase(d, r.site), r)
<1> DEFINE e == Erase(d, r.site)
<1>1. /\ e \in Disk
      /\ e.inputs = d.inputs /\ e.rows = d.rows /\ e.global = d.global
      /\ e.links = d.links \ Family(r.site)
      /\ \A t \in Sites : e.files[t] = IF t \in Family(r.site) THEN Absent ELSE d.files[t]
  BY EraseFields DEF Near
<1> HIDE DEF e
<1>2. Near(e, r)
  BY <1>1 DEF Near, Beside
<1> QED BY <1>2 DEF e

\* Taking the inputs back touches the family only.
LEMMA NearRestored ==
  ASSUME NEW r, NEW d, Near(d, r), r.before \in Disk
  PROVE  Near(InputsBack(d, r), r)
<1> DEFINE e == InputsBack(d, r)
<1>1. /\ e \in Disk
      /\ e.inputs = r.before.inputs /\ e.files = d.files /\ e.links = d.links
      /\ e.rows = d.rows /\ e.global = d.global
  BY InputsBackFields DEF Near
<1> HIDE DEF e
<1>2. Near(e, r)
  BY <1>1 DEF Near, Beside
<1> QED BY <1>2 DEF e

(* --------------------- a request on one site, half way ----------------- *)

OnSite(r) == Meant(r) /\ r.op \in {"create", "update", "toggle", "delete"}

\* The fields of a request about one site.
LEMMA OnSiteFields ==
  ASSUME NEW r, OnSite(r)
  PROVE  /\ Meant(r) /\ r.site \in Sites /\ r.before \in Disk
         /\ r.input \in Input \cup {Absent} /\ r.enabled \in BOOLEAN
         /\ Near(r.before, r)
<1>1. /\ Meant(r) /\ r.site \in Sites /\ r.before \in Disk
      /\ r.input \in Input \cup {Absent} /\ r.enabled \in BOOLEAN
  BY MeantFields DEF OnSite
<1> QED BY <1>1 DEF Near, Beside

\* The rows such a request moves are at keys of the family.
LEMMA KeysOfFamily ==
  ASSUME NEW r, OnSite(r)
  PROVE  /\ r.op \in {"create", "update"} =>
              /\ r.file \in File
              /\ NewKeys(r) \in SUBSET FamilyKeys(r.site)
         /\ r.op = "update" => /\ OldKeys(r) \in SUBSET FamilyKeys(r.site)
                               /\ UpstreamOf(r.before, r.site) \in Upstreams \cup {NoUpstream}
         /\ UNION {KeysOf(r.before, s) : s \in Gone(r)} \in SUBSET FamilyKeys(r.site)
<1>1. /\ Meant(r) /\ r.site \in Sites /\ r.before \in Disk
  BY OnSiteFields
<1>2. r.op \in {"create", "update"} => r.file \in File /\ r.file.alias \in Aliases
  BY <1>1, MeantKeys
<1>3. r.op = "update" => /\ AliasOf(r.before, r.site) \in Aliases
                         /\ UpstreamOf(r.before, r.site) \in Upstreams \cup {NoUpstream}
  BY <1>1, KeysTypes DEF Meant
<1>4. \A a \in Aliases : Key(r.site, a) \in FamilyKeys(r.site)
  BY <1>1, FamilyKeysTypes
<1>5. r.op \in {"create", "update"} => NewKeys(r) \in SUBSET FamilyKeys(r.site)
  BY <1>2, <1>4 DEF NewKeys
<1>6. r.op = "update" => OldKeys(r) \in SUBSET FamilyKeys(r.site)
  BY <1>3, <1>4 DEF OldKeys
<1>7. Gone(r) \subseteq Family(r.site)
  BY <1>1, FamilyFacts DEF Gone
<1>8. \A t \in Gone(r) : KeysOf(r.before, t) \subseteq FamilyKeys(r.site)
  BY <1>1, <1>7, FamilyKeysTypes
<1>9. UNION {KeysOf(r.before, s) : s \in Gone(r)} \in SUBSET FamilyKeys(r.site)
  BY <1>8
<1> QED BY <1>2, <1>3, <1>5, <1>6, <1>9

\* Each step of a request changes no more than the family of its site.
LEMMA NearAfter ==
  ASSUME NEW r, OnSite(r), NEW d, Near(d, r)
  PROVE  /\ Near(Keep(d, r.site, r.input), r)
         /\ r.op \in {"create", "update"} =>
              /\ Near(Write(d, r.site, r.file), r)
              /\ Near(Sync(d, IF r.op = "create" THEN {} ELSE OldKeys(r), NewKeys(r),
                           r.upstream), r)
         /\ Near(Link(d, r.site, r.enabled), r)
         /\ Near(Reconcile(d), r)
         /\ Near(Erase(d, r.site), r)
         /\ Near(Unmap(r, d), r)
<1>1. /\ Meant(r) /\ r.site \in Sites /\ r.before \in Disk
      /\ r.input \in Input \cup {Absent} /\ r.enabled \in BOOLEAN
  BY OnSiteFields
<1>2. Near(Keep(d, r.site, r.input), r)
  BY <1>1, NearKept
<1>3. Near(Link(d, r.site, r.enabled), r)
  BY <1>1, NearLinked
<1>4. Near(Reconcile(d), r) /\ Near(Erase(d, r.site), r)
  BY <1>1, NearReconciled, NearErased
<1>5. Near(Unmap(r, d), r)
  <2> DEFINE old == UNION {KeysOf(r.before, s) : s \in Gone(r)}
  <2>1. old \in SUBSET FamilyKeys(r.site) /\ {} \in SUBSET FamilyKeys(r.site)
    BY KeysOfFamily
  <2>2. Unmap(r, d) = Sync(d, old, {}, NoUpstream)
    BY DEF Unmap
  <2> HIDE DEF old
  <2>3. Near(Sync(d, old, {}, NoUpstream), r)
    BY <1>1, <2>1, NearSynced
  <2> QED BY <2>2, <2>3
<1>6. ASSUME r.op \in {"create", "update"}
      PROVE  /\ Near(Write(d, r.site, r.file), r)
             /\ Near(Sync(d, IF r.op = "create" THEN {} ELSE OldKeys(r), NewKeys(r),
                          r.upstream), r)
  <2> DEFINE old == IF r.op = "create" THEN {} ELSE OldKeys(r)
             new == NewKeys(r)
  <2>1. old \in SUBSET FamilyKeys(r.site) /\ new \in SUBSET FamilyKeys(r.site)
    BY <1>6, KeysOfFamily
  <2>2. r.upstream \in Upstreams \cup {NoUpstream} /\ r.file \in File \cup {Absent}
    BY <1>1, MeantFields
  <2> HIDE DEF old, new
  <2>3. Near(Sync(d, old, new, r.upstream), r)
    BY <1>1, <2>1, <2>2, NearSynced
  <2>4. Near(Write(d, r.site, r.file), r)
    BY <1>1, <2>2, NearWritten
  <2> QED BY <2>3, <2>4 DEF old, new
<1> QED BY <1>2, <1>3, <1>4, <1>5, <1>6

\* At every stage of such a request only the family of its site differs.
LEMMA CourseNear ==
  ASSUME OnSite(request), Course(request)
  PROVE  Near(disk, request)
<1> DEFINE r == request
           B == r.before
<1>0. Near(B, r)
  BY OnSiteFields
<1>1. CASE r.op \in {"create", "update"}
  <2>1. Near(Saved(r), r)
    BY <1>0, NearAfter DEF Saved
  <2>2. Near(Written(r), r)
    BY <1>1, <2>1, NearAfter DEF Written
  <2>3. Near(Mapped(r), r)
    BY <1>1, <2>2, NearAfter DEF Mapped
  <2>4. Near(Linked(r), r)
    BY <2>3, NearAfter DEF Linked
  <2>5. Near(Reconcile(Mapped(r)), r) /\ Near(Reconcile(Linked(r)), r)
    BY <2>3, <2>4, NearAfter
  <2>6. CreateCourse(r) \/ UpdateCourse(r)
    BY <1>1 DEF Course, ToggleCourse, DeleteCourse, SettingsCourse, LifecycleCourse
  <2>7. disk \in {B, Saved(r), Written(r), Mapped(r), Linked(r), Reconcile(Mapped(r)),
                  Reconcile(Linked(r))}
    BY <2>6 DEF CreateCourse, UpdateCourse, Stage
  <2> QED BY <1>0, <2>1, <2>2, <2>3, <2>4, <2>5, <2>7
<1>2. CASE r.op = "toggle"
  <2>1. Near(Saved(r), r)
    BY <1>0, NearAfter DEF Saved
  <2>2. Near(Toggled(r), r)
    <3>1. CASE r.input = Absent
      BY <1>0, <3>1, NearAfter DEF Toggled
    <3>2. CASE r.input # Absent
      BY <2>1, <3>2, NearAfter DEF Toggled
    <3> QED BY <3>1, <3>2
  <2>3. Near(Reconcile(Toggled(r)), r)
    BY <2>2, NearAfter
  <2>4. disk \in {B, Saved(r), Toggled(r), Reconcile(Toggled(r))}
    BY <1>2 DEF Course, CreateCourse, UpdateCourse, ToggleCourse, DeleteCourse,
                SettingsCourse, LifecycleCourse, Stage
  <2> QED BY <1>0, <2>1, <2>2, <2>3, <2>4
<1>3. CASE r.op = "delete"
  <2>1. Near(Link(B, r.site, r.enabled), r)
    BY <1>0, NearAfter
  <2>2. Near(Unlinked(r), r)
    BY <2>1, NearAfter DEF Unlinked
  <2>3. Near(Disabled(r), r)
    BY <1>0, <2>2 DEF Disabled
  <2>4. Near(Dropping(r), r)
    BY <2>3, NearAfter DEF Dropping
  <2>5. Near(Erased(r), r)
    BY <2>4, NearAfter DEF Erased
  <2>6. Near(Unmapped(r), r)
    BY <2>5, NearAfter DEF Unmapped
  <2>7. Near(Reconcile(Unmapped(r)), r)
    BY <2>6, NearAfter
  <2>8. disk \in {B, Link(B, r.site, r.enabled), Unlinked(r), Disabled(r), Dropping(r),
                  Erased(r), Unmapped(r), Reconcile(Unmapped(r))}
    BY <1>3 DEF Course, CreateCourse, UpdateCourse, ToggleCourse, DeleteCourse,
                SettingsCourse, LifecycleCourse, Stage
  <2> QED BY <1>0, <2>1, <2>2, <2>3, <2>4, <2>5, <2>6, <2>7, <2>8
<1> QED BY <1>1, <1>2, <1>3 DEF OnSite

\* What is undone, whatever the leftovers it finds, is no more than that either.
LEMMA UndoNear ==
  ASSUME NEW r, OnSite(r), NEW d, Near(d, r), NEW step
  PROVE  Near(Undo(d, r, step), r) /\ Near(Dropped(d, r), r)
<1>1. /\ Meant(r) /\ r.site \in Sites /\ r.before \in Disk
  BY OnSiteFields
<1>2. ASSUME NEW e, Near(e, r)
      PROVE  /\ Near(InputsBack(e, r), r)
             /\ Near(LinkBack(e, r), r)
             /\ Near(Reconcile(e), r)
             /\ Near(Erase(e, r.site), r)
  <2>1. Near(Link(e, r.site, r.site \in r.before.links), r)
    <3> DEFINE on == r.site \in r.before.links
    <3>1. on \in BOOLEAN
      OBVIOUS
    <3> HIDE DEF on
    <3>2. Near(Link(e, r.site, on), r)
      BY <1>1, <1>2, <3>1, NearLinked
    <3> QED BY <3>2 DEF on
  <2>2. Near(LinkBack(e, r), r)
    BY <2>1, NearReconciled DEF LinkBack
  <2> QED BY <1>1, <1>2, <2>2, NearRestored, NearReconciled, NearErased
<1>3. Near(InputsBack(d, r), r) /\ Near(InputsBack(LinkBack(d, r), r), r)
  BY <1>2
<1>4. r.op # "settings"
  BY DEF OnSite
<1>5. CASE r.op = "create"
  <2> DEFINE new == NewKeys(r)
  <2>1. new \in SUBSET FamilyKeys(r.site) /\ {} \in SUBSET FamilyKeys(r.site)
    BY <1>5, KeysOfFamily
  <2> HIDE DEF new
  <2>2. ASSUME NEW e, Near(e, r)
        PROVE  Near(Sync(e, new, {}, NoUpstream), r)
    BY <1>1, <2>1, <2>2, NearSynced
  <2>3. /\ Near(InputsBack(Erase(d, r.site), r), r)
        /\ Near(InputsBack(Erase(Sync(d, new, {}, NoUpstream), r.site), r), r)
    BY <1>2, <2>2
  <2>4. Near(InputsBack(Erase(Reconcile(Sync(LinkBack(d, r), new, {}, NoUpstream)),
                              r.site), r), r)
    <3>1. Near(Sync(LinkBack(d, r), new, {}, NoUpstream), r)
      BY <1>2, <2>2
    <3>2. Near(Reconcile(Sync(LinkBack(d, r), new, {}, NoUpstream)), r)
      BY <1>2, <3>1
    <3> QED BY <1>2, <3>2
  <2>5. Undo(d, r, step) \in
          {InputsBack(d, r), InputsBack(Erase(d, r.site), r),
           InputsBack(Erase(Sync(d, new, {}, NoUpstream), r.site), r),
           InputsBack(Erase(Reconcile(Sync(LinkBack(d, r), new, {}, NoUpstream)),
                            r.site), r)}
    BY <1>5 DEF Undo, UndoCreate, new
  <2> QED BY <1>3, <1>4, <2>3, <2>4, <2>5 DEF Dropped
<1>6. CASE r.op = "update"
  <2> DEFINE new == NewKeys(r)
             old == OldKeys(r)
             up == UpstreamOf(r.before, r.site)
             written == Write(d, r.site, r.before.files[r.site])
             synced == Sync(written, new, old, up)
  <2>1. /\ new \in SUBSET FamilyKeys(r.site) /\ old \in SUBSET FamilyKeys(r.site)
        /\ up \in Upstreams \cup {NoUpstream}
    BY <1>6, KeysOfFamily
  <2>2. r.before.files[r.site] \in File \cup {Absent}
    BY <1>1, DiskFields
  <2>3. Near(written, r)
    BY <1>1, <2>2, NearWritten
  <2>4. Undo(d, r, step) \in {InputsBack(d, r), InputsBack(written, r),
                              InputsBack(synced, r), InputsBack(Reconcile(synced), r)}
    BY <1>6 DEF Undo, UndoUpdate
  <2> HIDE DEF new, old, up, written
  <2>5. Near(synced, r)
    BY <1>1, <2>1, <2>3, NearSynced
  <2> HIDE DEF synced
  <2>6. /\ Near(InputsBack(written, r), r) /\ Near(InputsBack(synced, r), r)
        /\ Near(InputsBack(Reconcile(synced), r), r)
    BY <1>2, <2>3, <2>5
  <2> QED BY <1>3, <1>4, <2>4, <2>6 DEF Dropped
<1>7. CASE r.op \in {"toggle", "delete"}
  <2>1. Undo(d, r, step) \in {InputsBack(LinkBack(d, r), r), InputsBack(d, r)}
    BY <1>7 DEF Undo
  <2> QED BY <1>3, <1>4, <2>1 DEF Dropped
<1> QED BY <1>5, <1>6, <1>7 DEF OnSite

(* -------------------- a change of the global settings ------------------ *)

\* Rendering changes the entries of the rendered sites as Configure does.
LEMMA RenderedEntries ==
  ASSUME NEW d \in Disk, NEW g \in Globals, NEW h \in Globals, NEW S \in SUBSET Sites,
         NEW s \in Sites
  PROVE  Entry(RenderAll(d, g, S, h), s) = IF s \in S THEN RenderedEntry(s, Entry(d, s), g)
                                           ELSE Entry(d, s)
<1> DEFINE e == RenderAll(d, g, S, h)
           in == d.inputs[s]
           keys == {Key(t, d.inputs[t].alias) : t \in ManagedIn(d, S)}
<1>1. /\ e.inputs = d.inputs /\ e.links = d.links
      /\ e.files = RenderedFiles(d, g, S)
      /\ e.rows = RowsLeft(d, S) \cup RenderedRows(d, S)
  BY RenderFields
<1> HIDE DEF e
<1>2. \A t \in ManagedIn(d, S) : t \in Sites /\ d.inputs[t].alias \in Aliases
  BY DiskFields, InputFields DEF ManagedIn
<1>3. e.files[s] = IF s \in ManagedIn(d, S) THEN Managed(g, in) ELSE d.files[s]
  BY <1>1 DEF RenderedFiles
<1>4. CASE s \notin ManagedIn(d, S)
  <2>1. \A a \in Aliases : Key(s, a) \notin keys
    BY <1>2, <1>4, KeyOfOne
  <2>2. \A q \in RenderedRows(d, S) : q[1] \in keys
    BY DEF RenderedRows
  <2>3. \A q : q \in RowsLeft(d, S) <=> q \in d.rows /\ q[1] \notin keys
    BY DEF RowsLeft
  <2> HIDE DEF keys
  <2>4. RowsAt(e, s) = RowsAt(d, s)
    BY <1>1, <2>1, <2>2, <2>3 DEF RowsAt
  <2>5. Entry(e, s) = Entry(d, s)
    BY <1>1, <1>3, <1>4, <2>4, EntryEqual
  <2>6. s \in S => d.inputs[s] = Absent
    BY <1>4 DEF ManagedIn
  <2>7. s \in S => RenderedEntry(s, Entry(d, s), g) = Entry(d, s)
    BY <2>6, EntryFields DEF RenderedEntry
  <2> QED BY <2>5, <2>7 DEF e
<1>5. CASE s \in ManagedIn(d, S)
  <2> DEFINE k == Key(s, in.alias)
             left == {q \in RowsAt(d, s) : q[1] # k}
  <2>1. s \in S /\ in # Absent /\ in \in Input /\ in.alias \in Aliases
    BY <1>2, <1>5, DiskFields DEF ManagedIn
  <2>2. \A a \in Aliases : Key(s, a) \in keys <=> Key(s, a) = k
    <3>1. \A a \in Aliases : Key(s, a) \in keys => Key(s, a) = k
      BY <1>2, KeyOfOne
    <3>2. k \in keys
      BY <1>5
    <3> QED BY <3>1, <3>2
  <2>3. \A q : q \in RowsLeft(d, S) <=> q \in d.rows /\ q[1] \notin keys
    BY DEF RowsLeft
  <2>4. \A q, a : q \in RowsLeft(d, S) /\ a \in Aliases /\ q[1] = Key(s, a)
                    => q \in d.rows /\ q[1] # k
    BY <2>2, <2>3
  <2>5. ASSUME NEW q \in RenderedRows(d, S), NEW a \in Aliases, q[1] = Key(s, a)
        PROVE  q \in RowsOf(s, in)
    <3>1. PICK t \in ManagedIn(d, S) :
                 /\ d.inputs[t].upstream # NoUpstream
                 /\ q = <<Key(t, d.inputs[t].alias), d.inputs[t].upstream>>
      BY DEF RenderedRows
    <3>2. t = s
      BY <1>2, <2>5, <3>1, KeyOfOne
    <3> QED BY <3>1, <3>2 DEF RowsOf
  <2>6. ASSUME NEW q \in RowsOf(s, in)
        PROVE  q \in RenderedRows(d, S) /\ q[1] = k
    BY <1>5 DEF RowsOf, RenderedRows
  <2>7. \A q \in left : q \in RowsLeft(d, S) /\ \E a \in Aliases : q[1] = Key(s, a)
    BY <2>2, <2>3 DEF RowsAt
  <2>8. RowsAt(e, s) \subseteq left \cup RowsOf(s, in)
    <3> SUFFICES ASSUME NEW q \in e.rows, NEW a \in Aliases, q[1] = Key(s, a)
                 PROVE  q \in left \cup RowsOf(s, in)
      BY DEF RowsAt
    <3> HIDE DEF k, in
    <3>1. CASE q \in RowsLeft(d, S)
      BY <2>4, <3>1 DEF RowsAt
    <3>2. CASE q \in RenderedRows(d, S)
      BY <2>5, <3>2
    <3> QED BY <1>1, <3>1, <3>2
  <2>9. left \cup RowsOf(s, in) \subseteq RowsAt(e, s)
    <3>1. \A q \in left : q \in e.rows /\ \E a \in Aliases : q[1] = Key(s, a)
      BY <1>1, <2>7
    <3>2. \A q \in RowsOf(s, in) : q \in e.rows /\ \E a \in Aliases : q[1] = Key(s, a)
      BY <1>1, <2>1, <2>6
    <3> HIDE DEF left
    <3> QED BY <3>1, <3>2 DEF RowsAt
  <2>10. RowsAt(e, s) = left \cup RowsOf(s, in)
    BY <2>8, <2>9
  <2> DEFINE f == Entry(d, s)
  <2>11. f.input = in /\ f.rows = RowsAt(d, s) /\ f.link = (s \in d.links)
    BY EntryFields
  <2>12. Entry(e, s) = [input |-> in, file |-> Managed(g, in), link |-> s \in e.links,
                        rows |-> RowsAt(e, s)]
    BY <1>1, <1>3, <1>5 DEF Entry, RowsAt
  <2>13. RenderedEntry(s, f, g) = [f EXCEPT !.file = Managed(g, in),
                                            !.rows = left \cup RowsOf(s, in)]
    BY <2>1, <2>11, Zenon DEF RenderedEntry
  <2>14. f = [input |-> in, file |-> d.files[s], link |-> s \in d.links,
              rows |-> RowsAt(d, s)]
    BY DEF Entry, RowsAt
  <2> DEFINE file == Managed(g, in)
             rows == left \cup RowsOf(s, in)
             was == d.files[s]
             had == RowsAt(d, s)
             link == s \in d.links
  <2>15. (s \in e.links) = link
    BY <1>1
  <2> HIDE DEF f, file, rows, was, had, link, in
  <2>16. [f EXCEPT !.file = file, !.rows = rows]
           = [input |-> in, file |-> file, link |-> link, rows |-> rows]
    <3> DEFINE E == [input : {in}, file : {was, file}, link : BOOLEAN, rows : {had, rows}]
               made == [f EXCEPT !.file = file, !.rows = rows]
    <3>1. f \in E /\ f.input = in /\ f.link = link
      BY <2>14 DEF was, had, link
    <3>2. made \in E /\ made.input = in /\ made.file = file /\ made.link = link /\ made.rows = rows
      BY <3>1
    <3> HIDE DEF made
    <3>3. made = [input |-> made.input, file |-> made.file, link |-> made.link, rows |-> made.rows]
      BY <3>2
    <3> QED BY <3>2, <3>3 DEF made
  <2> QED BY <2>1, <2>10, <2>12, <2>13, <2>15, <2>16 DEF e, f, file, rows, link
<1> QED BY <1>4, <1>5

\* Rendering sets the settings.
LEMMA RenderedGlobal ==
  ASSUME NEW d \in Disk, NEW g \in Globals, NEW h \in Globals, NEW S \in SUBSET Sites
  PROVE  RenderAll(d, g, S, h).global = h
BY RenderFields

(* ------------------------- steps of the store -------------------------- *)

\* The store stutters when no settled entry changes.
LEMMA StoreStutters ==
  ASSUME \A t \in Sites : Entry(Settled', t) = Entry(Settled, t),
         Settled'.global = Settled.global, torn' = torn
  PROVE  UNCHANGED Store!vars
BY DEF Store!vars

\* A change of one site, with its family forgotten or not, is a Save of the store.
LEMMA StoreSaves ==
  ASSUME NEW s \in Sites, Entry(Settled', s) # BlankEntry,
         torn = 0 => CoherentEntry(s, Entry(Settled', s), Settled.global),
         \/ \A t \in Sites \ {s} : Entry(Settled', t) = Entry(Settled, t)
         \/ /\ Entry(Settled', s) = ForgottenEntry(Entry(Settled', s))
            /\ \A t \in Sites \ Family(s) : Entry(Settled', t) = Entry(Settled, t)
            /\ \A t \in Family(s) \ {s} : Entry(Settled', t) = ForgottenEntry(Entry(Settled, t)),
         Settled'.global = Settled.global, torn' = torn
  PROVE  Store!Save(s)
<1>1. Family(s) \subseteq Sites
  BY FamilyFacts
<1>2. Store!Family(s) = Family(s)
  BY DEF Family, Store!Family
<1> QED BY <1>1, <1>2 DEF Store!Save, Store!OnlyChanges

\* A family that goes is a Remove of the store.
LEMMA StoreRemoves ==
  ASSUME NEW s \in Sites,
         torn = 0 => \A t \in Family(s) : Entry(Settled', t) = BlankEntry,
         \A t \in Sites \ Family(s) : Entry(Settled', t) = Entry(Settled, t),
         Settled'.global = Settled.global, torn' = torn
  PROVE  Store!Remove(s)
<1>1. Family(s) \subseteq Sites
  BY FamilyFacts
<1>2. Store!Family(s) = Family(s)
  BY DEF Family, Store!Family
<1> QED BY <1>1, <1>2 DEF Store!Remove, Store!OnlyChanges

\* Entries that are rendered anew are a Configure of the store.
LEMMA StoreConfigures ==
  ASSUME NEW g \in Globals, Settled'.global = g, torn' = torn,
         \A t \in Sites : Entry(Settled', t) = RenderedEntry(t, Entry(Settled, t), g)
  PROVE  Store!Configure(g)
BY DEF Store!Configure

\* A request on a site that is cut off is a Tear of the store.
LEMMA StoreTearsSite ==
  ASSUME NEW s \in Sites, torn' = torn + 1, Settled'.global = Settled.global,
         \A t \in Sites \ Family(s) : Entry(Settled', t) = Entry(Settled, t)
  PROVE  Store!Tear
<1>1. Store!Family(s) = Family(s)
  BY DEF Family, Store!Family
<1> QED BY <1>1 DEF Store!Tear, Store!OnlyChanges

\* So are settings that are cut off.
LEMMA StoreTearsSettings ==
  ASSUME NEW g \in Globals, torn' = torn + 1, Settled'.global \in {Settled.global, g},
         \A t \in Sites : \/ Entry(Settled', t) = Entry(Settled, t)
                          \/ Entry(Settled', t) = RenderedEntry(t, Entry(Settled, t), g)
  PROVE  Store!Tear
BY DEF Store!Tear

\* The first tree is an empty store.
LEMMA StoreBegins == Init => Store!Init
<1> SUFFICES ASSUME Init PROVE Store!Init
  OBVIOUS
<1>1. PICK g \in Globals :
        disk = [inputs |-> [s \in Sites |-> Absent], files |-> [s \in Sites |-> Absent],
                links |-> {}, rows |-> {}, names |-> {}, global |-> g]
  BY DEF Init
<1>2. Settled = disk /\ torn = 0
  BY DEF Init, Settled
<1>3. disk.global \in Globals
  BY <1>1
<1>4. ASSUME NEW s \in Sites
      PROVE  Entry(disk, s) = BlankEntry
  <2>1. /\ disk.inputs[s] = Absent /\ disk.files[s] = Absent
        /\ (s \in disk.links) = FALSE /\ RowsAt(disk, s) = {}
    BY <1>1 DEF RowsAt
  <2> QED BY <2>1 DEF Entry, RowsAt, BlankEntry
<1> QED BY <1>2, <1>3, <1>4 DEF Store!Init

(* ------------------------- steps of the requests ----------------------- *)

\* A request that goes on is no step of the store.
LEMMA NewRequestStutters ==
  ASSUME SitesInv, NewRequest
  PROVE  UNCHANGED Store!vars
<1>1. disk \in Disk /\ LoadedInv
  BY DEF SitesInv, TypeInv
<1>2. Settled' = Settled /\ torn' = torn
  <2>1. CASE Stop
    BY <2>1 DEF Stop, Settled
  <2>2. CASE \E r : Taken(r) /\ Begin(r)
    <3>1. PICK r : Taken(r) /\ Begin(r)
      BY <2>2
    <3>2. Meant(request') /\ request'.before = disk
      BY <1>1, <3>1, TakenBegins
    <3>3. request' # NoRequest
      BY <3>2, MeantFields, RequestAssumption
    <3> QED BY <3>1, <3>2, <3>3 DEF Begin, Settled
  <2> QED BY <1>1, <2>1, <2>2, NewRequestTakes
<1> QED BY <1>2, StoreStutters

\* A request in the middle is invisible to the store.
LEMMA ProgressStutters ==
  ASSUME SitesInv, Advance \/ Load
  PROVE  UNCHANGED Store!vars
<1>1. request # NoRequest /\ torn' = torn
  BY DEF Advance, Load, At
<1>2. Meant(request) /\ Course(request)
  BY <1>1 DEF SitesInv, CourseInv
<1>3. request' # NoRequest /\ request'.before = request.before
  BY <1>2, CourseAdvances
<1>4. Settled' = Settled
  BY <1>1, <1>3 DEF Settled
<1> QED BY <1>1, <1>4, StoreStutters

\* The other requests, as far as they have come.
LEMMA LifecycleKeeps ==
  ASSUME Meant(request), Course(request), request.op = "lifecycle"
  PROVE  disk = request.before
BY DEF Course, CreateCourse, UpdateCourse, ToggleCourse, DeleteCourse, SettingsCourse,
       LifecycleCourse, Stage

\* Settings are on disk with all the sites they render, or not at all.
LEMMA SettingsOrNot ==
  ASSUME Meant(request), Course(request), request.op = "settings"
  PROVE  disk = request.before \/ disk = Applied(request)
BY DEF Course, CreateCourse, UpdateCourse, ToggleCourse, DeleteCourse, SettingsCourse,
       LifecycleCourse, Stage

\* What they undo is what they found.
LEMMA OthersBack ==
  ASSUME Meant(request), Course(request), request.op \in {"settings", "lifecycle"}
  PROVE  /\ \A step : Undo(disk, request, step) = request.before
         /\ Dropped(disk, request) = request.before
<1> DEFINE r == request
           B == r.before
<1>1. InputsBack(B, r) = B
  BY MeantFields, InputsBackFields, DiskEqual
<1>2. CASE r.op = "settings"
  BY <1>2 DEF Undo, Dropped
<1>3. CASE r.op = "lifecycle"
  <2>1. disk = B
    BY <1>3, LifecycleKeeps
  <2> QED BY <1>1, <1>3, <2>1 DEF Undo, Dropped
<1> QED BY <1>2, <1>3

\* No other request has files to render.
LEMMA RendersSettings ==
  ASSUME Meant(request), Course(request), At("render")
  PROVE  request.op = "settings" /\ disk = request.before
<1>1. request.todo # <<>> /\ Head(request.todo) = "render"
  BY DEF At
<1>2. ~CreateCourse(request)
  BY <1>1, EnabledLists, OnlyLists DEF CreateCourse, Stage, Goes
<1>3. ~UpdateCourse(request)
  BY <1>1, LastLists, OnlyLists DEF UpdateCourse, Stage, Goes
<1>4. ~ToggleCourse(request)
  BY <1>1, EnabledLists DEF ToggleCourse, Stage, Goes
<1>5. ~DeleteCourse(request)
  BY <1>1, DeleteLists, OnlyLists DEF DeleteCourse, Stage, Goes
<1>6. ~LifecycleCourse(request)
  BY <1>1, LastLists DEF LifecycleCourse, Stage, Goes
<1>7. SettingsCourse(request)
  BY <1>2, <1>3, <1>4, <1>5, <1>6 DEF Course
<1> QED BY <1>1, <1>7, LastLists DEF SettingsCourse, Stage, Goes

(* --------------------------- their last steps -------------------------- *)

\* A request on a site that was changed by no more than its steps, at its end.
LEMMA NearEntries ==
  ASSUME OnSite(request), NEW d, Near(d, request)
  PROVE  /\ d.global = request.before.global
         /\ \A t \in Sites \ Family(request.site) : Entry(d, t) = Entry(request.before, t)
<1> DEFINE s == request.site
           B == request.before
<1>1. s \in Sites
  BY OnSiteFields
<1>2. Beside(d, B, s)
  BY DEF Near
<1> HIDE DEF s, B
<1>3. \A t \in Sites \ Family(s) : Entry(d, t) = Entry(B, t)
  BY <1>1, <1>2, BesideEntries
<1>4. d.global = B.global
  BY <1>2 DEF Beside
<1> QED BY <1>3, <1>4 DEF s, B

\* A request that is cut off is a Tear.
LEMMA CutTears ==
  ASSUME SitesInv, Cut
  PROVE  Store!Tear
<1> DEFINE B == request.before
<1>1. /\ request # NoRequest /\ request' = NoRequest /\ torn' = torn + 1
      /\ disk' = Dropped(disk, request) \/ \E step : disk' = Undo(disk, request, step)
  BY DEF Cut, Give
<1>2. Meant(request) /\ Course(request) /\ disk \in Disk
  BY <1>1 DEF SitesInv, CourseInv, TypeInv
<1>3. Settled = B /\ Settled' = disk'
  BY <1>1 DEF Settled
<1>4. CASE OnSite(request)
  <2>1. Near(disk', request)
    BY <1>1, <1>2, <1>4, CourseNear, UndoNear
  <2>2. /\ disk'.global = B.global
        /\ \A t \in Sites \ Family(request.site) : Entry(disk', t) = Entry(B, t)
    BY <1>4, <2>1, NearEntries
  <2>3. request.site \in Sites
    BY <1>4, OnSiteFields
  <2> QED BY <1>1, <1>3, <2>2, <2>3, StoreTearsSite
<1>5. CASE ~OnSite(request)
  <2>1. request.op \in {"settings", "lifecycle"} /\ B \in Disk
    BY <1>2, <1>5, MeantFields DEF OnSite
  <2>2. disk' = B
    BY <1>1, <1>2, <2>1, OthersBack
  <2>3. B.global \in Globals
    BY <2>1, DiskFields
  <2> QED BY <1>1, <1>3, <2>2, <2>3, StoreTearsSettings
<1> QED BY <1>4, <1>5

\* What is undone is no step of the store, unless it finds leftovers.
LEMMA UndoneImplements ==
  ASSUME SitesInv, Undone
  PROVE  UNCHANGED Store!vars \/ \E s \in Sites : Store!Remove(s)
<1> DEFINE B == request.before
<1>1. /\ request # NoRequest /\ request.todo # <<>> /\ Step # "adguard"
      /\ Unrestored(request) => Step \in {"test", "reload"}
      /\ disk' = Undo(disk, request, Step)
      /\ torn' = torn /\ request' = NoRequest
  BY DEF Undone, Give
<1>2. Meant(request) /\ Course(request) /\ SoundInv
  BY <1>1 DEF SitesInv, CourseInv
<1>3. Settled = B /\ Settled' = disk'
  BY <1>1 DEF Settled
<1>4. CASE torn = 0
  <2>1. Sound(B)
    BY <1>2, <1>3, <1>4 DEF SoundInv
  <2>2. disk' = B
    BY <1>1, <1>2, <2>1, CourseUndone
  <2> QED BY <1>1, <1>3, <2>2, StoreStutters
<1>5. CASE torn # 0 /\ OnSite(request)
  <2>1. Near(disk', request)
    BY <1>1, <1>2, <1>5, CourseNear, UndoNear
  <2>2. /\ disk'.global = B.global
        /\ \A t \in Sites \ Family(request.site) : Entry(disk', t) = Entry(B, t)
    BY <1>5, <2>1, NearEntries
  <2>3. request.site \in Sites
    BY <1>5, OnSiteFields
  <2>4. Store!Remove(request.site)
    BY <1>1, <1>3, <1>5, <2>2, <2>3, StoreRemoves
  <2> QED BY <2>3, <2>4
<1>6. CASE ~OnSite(request)
  <2>1. request.op \in {"settings", "lifecycle"}
    BY <1>2, <1>6, MeantFields DEF OnSite
  <2>2. disk' = B
    BY <1>1, <1>2, <2>1, OthersBack
  <2> QED BY <1>1, <1>3, <2>2, StoreStutters
<1> QED BY <1>4, <1>5, <1>6

\* An edit that succeeds saves its site: with an input, nothing else changes;
\* without one, the inputs of a domain's children go as well.
LEMMA EditSaves ==
  ASSUME OnSite(request), request.op \in {"create", "update"}, Course(request),
         request.todo = <<>>, torn = 0, Sound(request.before),
         Settled = request.before, Settled' = disk, torn' = torn
  PROVE  Store!Save(request.site)
<1> DEFINE r == request
           B == r.before
           s == r.site
<1>1. /\ Meant(r) /\ s \in Sites /\ B \in Disk
      /\ r.op \in {"create", "update"}
  BY OnSiteFields
<1>2. CreateCourse(r) \/ UpdateCourse(r)
  BY DEF Course, ToggleCourse, DeleteCourse, SettingsCourse, LifecycleCourse
<1>3. /\ r.op = "create" => Fresh(r)
      /\ disk \in {Reconcile(Linked(r)), Reconcile(Mapped(r))}
  <2>1. CASE CreateCourse(r)
    BY <2>1, EnabledLists, OnlyLists DEF CreateCourse, Stage, Goes
  <2>2. CASE UpdateCourse(r)
    BY <2>2, LastLists, OnlyLists DEF UpdateCourse, Stage, Goes
  <2> QED BY <1>2, <2>1, <2>2
<1>4. /\ disk.inputs = Saved(r).inputs /\ disk.files = Mapped(r).files
      /\ disk.rows = Mapped(r).rows /\ disk.global = B.global
      /\ \A t \in Sites \ {s} : t \in disk.links <=> t \in B.links
  <2>1. /\ Mapped(r) \in Disk /\ Mapped(r).inputs = Saved(r).inputs
        /\ Mapped(r).links = B.links /\ Mapped(r).global = B.global
    BY <1>1, MappedFields
  <2>2. /\ Linked(r) \in Disk /\ Linked(r).inputs = Mapped(r).inputs
        /\ Linked(r).files = Mapped(r).files /\ Linked(r).rows = Mapped(r).rows
        /\ Linked(r).global = B.global
        /\ Linked(r).links = IF r.enabled THEN B.links \cup {s} ELSE B.links \ {s}
    BY <1>1, LinkedFields
  <2>3. ASSUME NEW d \in {Linked(r), Mapped(r)}, disk = Reconcile(d)
        PROVE  /\ disk.inputs = d.inputs /\ disk.files = d.files /\ disk.links = d.links
               /\ disk.rows = d.rows /\ disk.global = d.global
    BY <2>1, <2>2, <2>3, NamesFields
  <2>4. CASE disk = Reconcile(Linked(r))
    BY <2>1, <2>2, <2>3, <2>4
  <2>5. CASE disk = Reconcile(Mapped(r))
    BY <2>1, <2>3, <2>5
  <2> QED BY <1>3, <2>4, <2>5
<1>5. disk \in Disk /\ Sound(disk)
  BY <1>1, CourseIsDisk, CourseEnds
<1>6. CoherentEntry(s, Entry(disk, s), B.global)
  BY <1>1, <1>4, <1>5, SoundIsCoherent
<1>7. \A t \in Sites : disk.files[t] = IF t = s THEN r.file ELSE B.files[t]
  BY <1>1, <1>4, FilesElsewhere
<1>8. Entry(disk, s) # BlankEntry
  <2>1. disk.files[s] # Absent
    BY <1>1, <1>7 DEF Meant
  <2> QED BY <2>1, EntryFields DEF BlankEntry
<1>9. \A t \in Sites :
        disk.inputs[t] = IF t = s THEN r.input
                         ELSE IF r.input = Absent /\ s \in Domains /\ t \in Family(s) THEN Absent
                         ELSE B.inputs[t]
  BY <1>1, <1>4, SavedFields
<1>10. ASSUME NEW t \in Sites \ {s}
       PROVE  /\ RowsAt(disk, t) = RowsAt(B, t)
              /\ disk.files[t] = B.files[t]
              /\ t \in disk.links <=> t \in B.links
  <2>1. \A a \in Aliases : \A q :
          q[1] = Key(t, a) => (q \in Mapped(r).rows <=> q \in B.rows)
    BY <1>1, <1>3, EditedRows
  <2>2. RowsAt(disk, t) = RowsAt(B, t)
    BY <1>4, <2>1 DEF RowsAt
  <2> QED BY <1>4, <1>7, <2>2
<1>11. ASSUME NEW t \in Sites \ {s}, disk.inputs[t] = B.inputs[t]
       PROVE  Entry(disk, t) = Entry(B, t)
  BY <1>10, <1>11, EntryEqual
<1>12. CASE r.input # Absent
  <2>1. \A t \in Sites \ {s} : Entry(disk, t) = Entry(B, t)
    BY <1>9, <1>11, <1>12
  <2> QED BY <1>1, <1>4, <1>6, <1>8, <2>1, StoreSaves
<1>13. CASE r.input = Absent
  <2>1. s \in Family(s) /\ Family(s) \subseteq Sites /\ (s \notin Domains => Family(s) = {s})
    BY <1>1, FamilyFacts
  <2>2. \A t \in Sites \ Family(s) : Entry(disk, t) = Entry(B, t)
    BY <1>9, <1>11, <2>1
  <2>3. \A t \in Family(s) \ {s} : Entry(disk, t) = ForgottenEntry(Entry(B, t))
    <3> SUFFICES ASSUME NEW t \in Family(s) \ {s}
                 PROVE  Entry(disk, t) = ForgottenEntry(Entry(B, t))
      OBVIOUS
    <3>1. t \in Sites \ {s} /\ disk.inputs[t] = Absent
      BY <1>9, <1>13, <2>1
    <3> QED BY <1>10, <3>1, EntryForgotten
  <2>4. Entry(disk, s) = ForgottenEntry(Entry(disk, s))
    <3>1. disk.inputs[s] = Absent
      BY <1>1, <1>9, <1>13
    <3> QED BY <3>1, EntryForgotten
  <2> QED BY <1>1, <1>4, <1>6, <1>8, <2>2, <2>3, <2>4, StoreSaves
<1> QED BY <1>12, <1>13

\* Enabling or disabling that went through is a Save.
LEMMA ToggleSaves ==
  ASSUME OnSite(request), request.op = "toggle", Course(request),
         request.todo = <<>>, torn = 0, Sound(request.before),
         Settled = request.before, Settled' = disk, torn' = torn
  PROVE  Store!Save(request.site)
<1> DEFINE r == request
           B == r.before
           s == r.site
<1>1. Meant(r) /\ s \in Sites /\ B \in Disk
  BY OnSiteFields
<1>2. disk = Reconcile(Toggled(r))
  <2>1. ToggleCourse(r)
    BY DEF Course, CreateCourse, UpdateCourse, DeleteCourse, SettingsCourse, LifecycleCourse
  <2> QED BY <2>1, EnabledLists DEF ToggleCourse, Stage, Goes
<1>3. /\ disk.inputs = IF r.input = Absent THEN B.inputs ELSE Saved(r).inputs
      /\ disk.files = B.files /\ disk.rows = B.rows /\ disk.global = B.global
      /\ disk.links = IF r.enabled THEN B.links \cup {s} ELSE B.links \ {s}
  <2> DEFINE d == Toggled(r)
  <2>1. /\ d \in Disk /\ d.inputs = IF r.input = Absent THEN B.inputs ELSE Saved(r).inputs
        /\ d.files = B.files /\ d.rows = B.rows /\ d.global = B.global
        /\ d.links = IF r.enabled THEN B.links \cup {s} ELSE B.links \ {s}
    BY <1>1, ToggledFields
  <2>2. disk = Reconcile(d)
    BY <1>2
  <2> HIDE DEF d
  <2>3. /\ disk.inputs = d.inputs /\ disk.files = d.files /\ disk.links = d.links
        /\ disk.rows = d.rows /\ disk.global = d.global
    BY <2>1, <2>2, NamesFields
  <2> QED BY <2>1, <2>3
<1>4. disk \in Disk /\ Sound(disk)
  BY <1>1, CourseIsDisk, CourseEnds
<1>5. CoherentEntry(s, Entry(disk, s), B.global)
  BY <1>1, <1>3, <1>4, SoundIsCoherent
<1>6. Entry(disk, s) # BlankEntry
  <2>1. disk.files[s] # Absent
    BY <1>1, <1>3 DEF Meant
  <2> QED BY <2>1, EntryFields DEF BlankEntry
<1>7. ASSUME NEW t \in Sites \ {s}
      PROVE  Entry(disk, t) = Entry(B, t)
  <2>1. r.input # Absent => Saved(r).inputs[t] = B.inputs[t]
    BY <1>1, SavedFields
  <2>2. disk.inputs[t] = B.inputs[t] /\ (t \in disk.links <=> t \in B.links)
    BY <1>3, <2>1
  <2>3. RowsAt(disk, t) = RowsAt(B, t)
    BY <1>3 DEF RowsAt
  <2> QED BY <1>3, <2>2, <2>3, EntryEqual
<1> QED BY <1>1, <1>3, <1>5, <1>6, <1>7, StoreSaves

\* A deletion that succeeds leaves nothing of its site and what is below it.
LEMMA DeletionBlanks ==
  ASSUME OnSite(request), request.op = "delete", Course(request),
         request.todo = <<>>, torn = 0, Sound(request.before)
  PROVE  \A t \in Family(request.site) : Entry(disk, t) = BlankEntry
<1> DEFINE r == request
           B == r.before
           s == r.site
<1>1. Meant(r) /\ s \in Sites /\ B \in Disk
  BY OnSiteFields
<1>2. disk = Reconcile(Unmapped(r))
  <2>1. DeleteCourse(r)
    BY DEF Course, CreateCourse, UpdateCourse, ToggleCourse, SettingsCourse, LifecycleCourse
  <2> QED BY <2>1, DeleteLists, OnlyLists DEF DeleteCourse, Stage, Goes
<1>3. Family(s) \subseteq Sites
  BY <1>1, FamilyFacts
<1>4. \A t \in Family(s) : disk.files[t] = Absent
  BY <1>1, <1>2, <1>3, UnmappedFields, NamesFields
<1>5. disk \in Disk /\ Sound(disk)
  BY <1>1, CourseIsDisk, CourseEnds
<1>6. ASSUME NEW t \in Family(s)
      PROVE  Entry(disk, t) = BlankEntry
  <2>1. CoherentEntry(t, Entry(disk, t), disk.global)
    BY <1>3, <1>5, SoundIsCoherent
  <2>2. Entry(disk, t).file = Absent
    BY <1>4, EntryFields
  <2> QED BY <2>1, <2>2 DEF CoherentEntry
<1> QED BY <1>6

\* Settings that went through are a Configure.
LEMMA SettingsConfigure ==
  ASSUME Meant(request), request.op = "settings", Course(request), request.todo = <<>>,
         Settled = request.before, Settled' = disk, torn' = torn
  PROVE  Store!Configure(request.global) /\ request.global \in Globals
<1> DEFINE r == request
           B == r.before
           g == r.global
<1>1. B \in Disk /\ g \in Globals
  BY MeantFields
<1>2. disk = Applied(r)
  <2>1. SettingsCourse(r)
    BY DEF Course, CreateCourse, UpdateCourse, ToggleCourse, DeleteCourse, LifecycleCourse
  <2> QED BY <2>1, LastLists DEF SettingsCourse, Stage, Goes
<1>3. disk = RenderAll(B, g, Sites, g)
  BY <1>2 DEF Applied, RenderAll
<1>4. disk.global = g
  BY <1>1, <1>3, RenderedGlobal
<1>5. \A t \in Sites : Entry(disk, t) = RenderedEntry(t, Entry(B, t), g)
  BY <1>1, <1>3, RenderedEntries
<1> QED BY <1>1, <1>4, <1>5, StoreConfigures

\* The end of a request is a step of the store.
LEMMA CommitImplements ==
  ASSUME SitesInv, Commit
  PROVE  Store!Next \/ UNCHANGED Store!vars
<1> DEFINE B == request.before
           s == request.site
<1>1. /\ request # NoRequest /\ request.todo = <<>> /\ request' = NoRequest
      /\ disk' = disk /\ torn' = torn
  BY DEF Commit, Give
<1>2. Meant(request) /\ Course(request) /\ SoundInv
  BY <1>1 DEF SitesInv, CourseInv
<1>3. Settled = B /\ Settled' = disk
  BY <1>1 DEF Settled
<1>4. torn = 0 => Sound(B)
  BY <1>2, <1>3 DEF SoundInv
<1>5. ASSUME OnSite(request)
      PROVE  /\ s \in Sites /\ disk.global = B.global
             /\ \A t \in Sites \ Family(s) : Entry(disk, t) = Entry(B, t)
  BY <1>2, <1>5, CourseNear, NearEntries, OnSiteFields
<1>6. CASE OnSite(request) /\ torn = 0 /\ request.op # "delete"
  <2>1. Store!Save(s)
    BY <1>1, <1>2, <1>3, <1>4, <1>6, EditSaves, ToggleSaves DEF OnSite
  <2> QED BY <1>5, <1>6, <2>1 DEF Store!Next
<1>7. CASE OnSite(request) /\ (torn # 0 \/ request.op = "delete")
  <2>1. torn = 0 => \A t \in Family(s) : Entry(disk, t) = BlankEntry
    BY <1>1, <1>2, <1>4, <1>7, DeletionBlanks
  <2>2. Store!Remove(s)
    BY <1>1, <1>3, <1>5, <1>7, <2>1, StoreRemoves
  <2> QED BY <1>5, <1>7, <2>2 DEF Store!Next
<1>8. CASE request.op = "settings"
  <2>1. Store!Configure(request.global) /\ request.global \in Globals
    BY <1>1, <1>2, <1>3, <1>8, SettingsConfigure
  <2> QED BY <2>1 DEF Store!Next
<1>9. CASE request.op = "lifecycle"
  <2>1. disk = B
    BY <1>2, <1>9, LifecycleKeeps
  <2> QED BY <1>1, <1>3, <2>1, StoreStutters
<1> QED BY <1>2, <1>6, <1>7, <1>8, <1>9, MeantFields DEF OnSite

\* A restart tears the request it interrupts, or shows nothing but what there was.
LEMMA RestartImplements ==
  ASSUME SitesInv, Restart
  PROVE  Store!Tear \/ UNCHANGED Store!vars
<1> DEFINE B == request.before
           g == request.global
<1>1. request' = NoRequest /\ Settled' = disk'
  BY DEF Restart, Give, Settled
<1>2. disk \in Disk
  BY DEF SitesInv, TypeInv
<1>3. CASE request = NoRequest
  <2>1. torn' = torn /\ disk' = Reconcile(disk) /\ Settled = disk
    BY <1>3 DEF Restart, At, Settled
  <2>2. \A t \in Sites : Entry(disk', t) = Entry(disk, t)
    BY <1>2, <2>1, ReconciledEntry
  <2>3. disk'.global = disk.global
    BY <1>2, <2>1, NamesFields
  <2> QED BY <1>1, <2>1, <2>2, <2>3, StoreStutters
<1>4. CASE request # NoRequest
  <2>1. torn' = torn + 1 /\ Settled = B
    BY <1>4 DEF Restart, Settled
  <2>2. Meant(request) /\ Course(request)
    BY <1>4 DEF SitesInv, CourseInv
  <2>3. B \in Disk /\ g \in Globals
    BY <2>2, MeantFields
  <2>4. CASE OnSite(request)
    <3>1. ~At("render")
      BY <2>2, <2>4, RendersSettings DEF OnSite
    <3>2. disk' = Reconcile(disk)
      BY <3>1 DEF Restart
    <3>3. Near(disk', request)
      BY <2>2, <2>4, <3>2, CourseNear, NearReconciled
    <3>4. /\ disk'.global = B.global
          /\ \A t \in Sites \ Family(request.site) : Entry(disk', t) = Entry(B, t)
      BY <2>4, <3>3, NearEntries
    <3>5. request.site \in Sites
      BY <2>4, OnSiteFields
    <3> QED BY <1>1, <2>1, <3>4, <3>5, StoreTearsSite
  <2>5. CASE ~OnSite(request)
    <3>1. request.op \in {"settings", "lifecycle"}
      BY <2>2, <2>5, MeantFields DEF OnSite
    <3>2. \E found \in Disk :
            /\ disk' = Reconcile(found)
            /\ \/ found = B
               \/ \E S \in SUBSET Sites, h \in {B.global, g} : found = RenderAll(B, g, S, h)
      <4>1. CASE At("render")
        <5>1. disk = B
          BY <2>2, <4>1, RendersSettings
        <5>2. PICK found \in HalfApplied : disk' = Reconcile(found)
          BY <4>1 DEF Restart
        <5>3. found \in Disk
          BY <1>2, <2>2, HalfAppliedIsDisk
        <5>4. \E S \in SUBSET Sites, h \in {B.global, g} : found = RenderAll(B, g, S, h)
          BY <5>1, <5>2 DEF HalfApplied, RenderAll
        <5> QED BY <5>2, <5>3, <5>4
      <4>2. CASE ~At("render")
        <5>1. disk' = Reconcile(disk)
          BY <4>2 DEF Restart
        <5>2. CASE disk = B
          BY <2>3, <5>1, <5>2
        <5>3. CASE disk = Applied(request)
          <6>1. disk = RenderAll(B, g, Sites, g)
            BY <5>3 DEF Applied, RenderAll
          <6> QED BY <1>2, <5>1, <6>1
        <5> QED BY <2>2, <3>1, <5>2, <5>3, SettingsOrNot, LifecycleKeeps
      <4> QED BY <4>1, <4>2
    <3>3. PICK found \in Disk :
            /\ disk' = Reconcile(found)
            /\ \/ found = B
               \/ \E S \in SUBSET Sites, h \in {B.global, g} : found = RenderAll(B, g, S, h)
      BY <3>2
    <3>4. /\ found.global \in {B.global, g}
          /\ \A t \in Sites : Entry(found, t) \in {Entry(B, t), RenderedEntry(t, Entry(B, t), g)}
      <4>1. CASE found = B
        BY <4>1
      <4>2. CASE \E S \in SUBSET Sites, h \in {B.global, g} : found = RenderAll(B, g, S, h)
        <5>1. PICK S \in SUBSET Sites, h \in {B.global, g} : found = RenderAll(B, g, S, h)
          BY <4>2
        <5>2. h \in Globals
          BY <2>3, DiskFields
        <5>3. found.global = h
          BY <2>3, <5>1, <5>2, RenderedGlobal
        <5>4. \A t \in Sites : Entry(found, t) = IF t \in S THEN RenderedEntry(t, Entry(B, t), g)
                                                 ELSE Entry(B, t)
          BY <2>3, <5>1, <5>2, RenderedEntries
        <5> QED BY <5>3, <5>4
      <4> QED BY <3>3, <4>1, <4>2
    <3>5. /\ disk'.global = found.global
          /\ \A t \in Sites : Entry(disk', t) = Entry(found, t)
      <4>1. \A t \in Sites : Entry(disk', t) = Entry(found, t)
        BY <3>3, ReconciledEntry
      <4>2. disk'.global = found.global
        BY <3>3, NamesFields
      <4> QED BY <4>1, <4>2
    <3> QED BY <1>1, <2>1, <2>3, <3>4, <3>5, StoreTearsSettings
  <2> QED BY <2>4, <2>5
<1> QED BY <1>3, <1>4

(* ------------------------------ the theorem ---------------------------- *)

\* Requests on sites are atomic: seen with the tree each request found, NginxSites is
\* SiteStore, where a site changes all at once, and nothing else does.
THEOREM SitesImplementStore == Spec => RequestsAreAtomic
<1>1. SitesInv /\ [Next]_vars => [Store!Next]_(Store!vars)
  <2> SUFFICES ASSUME SitesInv, [Next]_vars
               PROVE  Store!Next \/ UNCHANGED Store!vars
    OBVIOUS
  <2>1. CASE NewRequest
    BY <2>1, NewRequestStutters
  <2>2. CASE RequestStep
    <3>1. Advance \/ Load \/ Undone \/ Cut \/ Commit
      BY <2>2, StepKinds DEF SitesInv
    <3>2. CASE Advance \/ Load
      BY <3>2, ProgressStutters
    <3>3. CASE Undone
      BY <3>3, UndoneImplements DEF Store!Next
    <3>4. CASE Cut
      BY <3>4, CutTears DEF Store!Next
    <3>5. CASE Commit
      BY <3>5, CommitImplements
    <3> QED BY <3>1, <3>2, <3>3, <3>4, <3>5
  <2>3. CASE Restart
    BY <2>3, RestartImplements DEF Store!Next
  <2>4. CASE UNCHANGED vars
    <3>1. Settled' = Settled /\ torn' = torn
      BY <2>4 DEF vars, Settled
    <3> QED BY <3>1, StoreStutters
  <2> QED BY <2>1, <2>2, <2>3, <2>4 DEF Next
<1> QED BY <1>1, StoreBegins, SitesInvariant, PTL DEF Spec, RequestsAreAtomic, Store!Spec

=============================================================================
