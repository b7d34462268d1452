----------------------- MODULE CertificateDefinitions -----------------------
(***************************************************************************)
(* The certificate definitions (api/certificates.rs, storage.rs): the list *)
(* in memory, certificates.json, and the forwarder on port 80, which names *)
(* the hosts whose HTTP challenges it answers. Requests create, update and *)
(* delete definitions. Each looks at the list, changes it, saves it and    *)
(* rewrites the forwarder, and no lock is held from one of these to the    *)
(* next. A start imports what dehydrated or nginx has files for.           *)
(*                                                                         *)
(* What is lost when two requests overlap shows here: two creations of one *)
(* name both succeed, and the slower of two that rewrite the forwarder     *)
(* brings back what it has read.                                           *)
(*                                                                         *)
(* A definition is its name and the hosts it wants routed: the domains of  *)
(* an HTTP certificate but for wildcards, and none of a DNS certificate.   *)
(* An operation of CertificateOperations only writes dehydrated's files,   *)
(* and reloading nginx changes no file.                                    *)
(***************************************************************************)
EXTENDS Naturals, FiniteSets

CONSTANTS
  Client,     \* requests under way at a time
  Id,         \* bound: definitions at a time
  Definition, \* bound: the definitions requests ask for, and imports find
  None

VARIABLES
  memory,    \* Stores::certificates: id -> definition
  file,      \* certificates.json
  found,     \* name -> the hosts that dehydrated's or nginx's files give, or None
  routed,    \* the hosts of certificates that the forwarder names
  request,   \* client -> what its request does next
  unsaved,   \* history: a save failed or was cut short, and none has succeeded since
  unrouted   \* history: so did rewriting the forwarder, or two requests overlapped in it

vars == <<memory, file, found, routed, request, unsaved, unrouted>>

Name == {d.name : d \in Definition}
Host == UNION {d.routes : d \in Definition}
RoutesOf(n) == {d.routes : d \in {d \in Definition : d.name = n}}

Store == [Id -> Definition \cup {None}]
Request ==
  [at : {"idle", "save", "read"}]
    \cup [at : {"add"}, new : Definition]
    \cup [at : {"replace"}, id : Id, new : Definition]
    \cup [at : {"write"}, routes : SUBSET Host, alone : BOOLEAN]

Defined(store) == {i \in Id : store[i] # None}
Names(store) == {store[i].name : i \in Defined(store)}

\* reconcile_http_forwarder: the HTTP domains of the definitions on disk.
Routes(store) == UNION {store[i].routes : i \in Defined(store)}

Idle(c) == request[c].at = "idle"
Goes(c, next) == request' = [request EXCEPT ![c] = next]
Step(step) == [at |-> step]
End(c) == Goes(c, [at |-> "idle"])

\* An id is a new UUID, never used before.
Fresh == {i \in Id : memory[i] = None /\ file[i] = None
                       /\ \A c \in Client : request[c].at = "replace" => request[c].id # i}

(* ------------------------------- requests ------------------------------ *)

\* create finds no definition of the name.
CheckCreate(c, new) ==
  /\ Idle(c)
  /\ new.name \notin Names(memory)
  /\ Goes(c, [at |-> "add", new |-> new])
  /\ UNCHANGED <<memory, file, found, routed, unsaved, unrouted>>

Add(c) ==
  /\ request[c].at = "add"
  /\ \E i \in Fresh : memory' = [memory EXCEPT ![i] = request[c].new]
  /\ Goes(c, Step("save"))
  /\ UNCHANGED <<file, found, routed, unsaved, unrouted>>

\* update finds no other definition of the name.
CheckUpdate(c, i, new) ==
  /\ Idle(c)
  /\ \A j \in Defined(memory) \ {i} : memory[j].name # new.name
  /\ Goes(c, [at |-> "replace", id |-> i, new |-> new])
  /\ UNCHANGED <<memory, file, found, routed, unsaved, unrouted>>

\* The definition may be gone by now.
Replace(c) ==
  /\ request[c].at = "replace"
  /\ IF memory[request[c].id] # None
     THEN /\ memory' = [memory EXCEPT ![request[c].id] = request[c].new]
          /\ Goes(c, Step("save"))
     ELSE End(c) /\ UNCHANGED memory
  /\ UNCHANGED <<file, found, routed, unsaved, unrouted>>

\* Mutation: a deletion is not saved.
DeleteUnsaved(c, i) ==
  /\ Idle(c)
  /\ memory[i] # None
  /\ memory' = [memory EXCEPT ![i] = None]
  /\ Goes(c, Step("read"))
  /\ UNCHANGED <<file, found, routed, unsaved, unrouted>>

Delete(c, i) ==
  /\ Idle(c)
  /\ memory[i] # None
  /\ memory' = [memory EXCEPT ![i] = None]
  /\ Goes(c, Step("save"))
  /\ UNCHANGED <<file, found, routed, unsaved, unrouted>>

\* save_certificates holds the list for reading until the file is renamed: what it
\* writes is the list of that moment, with the changes of every other request.
Save(c) ==
  /\ request[c].at = "save"
  /\ file' = memory
  /\ unsaved' = FALSE
  /\ Goes(c, Step("read"))
  /\ UNCHANGED <<memory, found, routed, unrouted>>

\* The list keeps what could not be written.
SaveFails(c) ==
  /\ request[c].at = "save"
  /\ unsaved' = TRUE
  /\ End(c)
  /\ UNCHANGED <<memory, file, found, routed, unrouted>>

(* ------------------------------- forwarder ----------------------------- *)

\* A site was changed: that rewrites the forwarder as well.
SiteChanged(c) ==
  /\ Idle(c)
  /\ Goes(c, Step("read"))
  /\ UNCHANGED <<memory, file, found, routed, unsaved, unrouted>>

\* The others that rewrite the forwarder are no longer alone.
Disturbed ==
  [d \in Client |-> IF request[d].at = "write" THEN [request[d] EXCEPT !.alone = FALSE]
                                               ELSE request[d]]

\* reconcile_http_forwarder reads the file, and later replaces the forwarder.
ReadRoutes(c) ==
  /\ request[c].at = "read"
  /\ request' = [Disturbed EXCEPT ![c] =
       [at |-> "write", routes |-> Routes(file),
        alone |-> \A d \in Client : request[d].at # "write"]]
  /\ UNCHANGED <<memory, file, found, routed, unsaved, unrouted>>

WriteRoutes(c) ==
  /\ request[c].at = "write"
  /\ routed' = request[c].routes
  /\ unrouted' = ~request[c].alone
  /\ End(c)
  /\ UNCHANGED <<memory, file, found, unsaved>>

\* Rendering or writing fails, and the transaction rolls back.
RouteFails(c) ==
  /\ request[c].at \in {"read", "write"}
  /\ request' = [Disturbed EXCEPT ![c] = Step("idle")]
  /\ unrouted' = TRUE
  /\ UNCHANGED <<memory, file, found, routed, unsaved>>

\* The client hangs up while its request waits for the list or for the file; a write
\* that has begun takes effect now or not at all.
HangUp(c) ==
  /\ request[c].at \in {"add", "replace", "save"}
  /\ request' = [Disturbed EXCEPT ![c] = Step("idle")]
  /\ IF request[c].at = "save"
     THEN /\ \/ file' = memory /\ unsaved' = FALSE
             \/ unsaved' = TRUE /\ UNCHANGED file
          /\ unrouted' = TRUE
     ELSE UNCHANGED <<file, unsaved, unrouted>>
  /\ UNCHANGED <<memory, found, routed>>

(* ---------------------- dehydrated's files, restart -------------------- *)

\* An operation writes the configuration of a definition, which stays when the
\* definition is deleted or renamed.
Issue(i) ==
  /\ memory[i] # None
  /\ found' = [found EXCEPT ![memory[i].name] = memory[i].routes]
  /\ UNCHANGED <<memory, file, routed, request, unsaved, unrouted>>

\* The administrator puts certificates there, or removes them.
FilesChange(n) ==
  /\ \E routes \in RoutesOf(n) \cup {None} : found' = [found EXCEPT ![n] = routes]
  /\ UNCHANGED <<memory, file, routed, request, unsaved, unrouted>>

\* What is found under a name that has no definition: dehydrated's configuration, or
\* else a certificate in nginx's directory.
Discovered ==
  {[name |-> n, routes |-> found[n]] : n \in {n \in Name \ Names(file) : found[n] # None}}

\* Stores::load keeps the definitions of the file and adds what is discovered.
Loads(store) ==
  LET imported == Defined(store) \ Defined(file)
  IN  /\ \A i \in Defined(file) : store[i] = file[i]
      /\ {store[i] : i \in imported} = Discovered
      /\ Cardinality(imported) = Cardinality(Discovered)

\* The process ends and starts again. It saves what it has imported and rewrites the
\* forwarder, which may fail; without the import saved it does not start.
Restart ==
  /\ \E store \in Store : Loads(store) /\ memory' = store /\ file' = store
  /\ \/ routed' = Routes(file') /\ unrouted' = FALSE
     \/ unrouted' = TRUE /\ UNCHANGED routed
  /\ unsaved' = FALSE
  /\ request' = [c \in Client |-> Step("idle")]
  /\ UNCHANGED found

Init ==
  /\ memory = [i \in Id |-> None] /\ file = memory
  /\ found = [n \in Name |-> None]
  /\ routed = {}
  /\ request = [c \in Client |-> Step("idle")]
  /\ unsaved = FALSE /\ unrouted = FALSE

Next ==
  \/ \E c \in Client, new \in Definition : CheckCreate(c, new)
  \/ \E c \in Client, i \in Id, new \in Definition : CheckUpdate(c, i, new)
  \/ \E c \in Client, i \in Id : Delete(c, i)
  \/ \E c \in Client :
       \/ Add(c) \/ Replace(c) \/ Save(c) \/ SaveFails(c)
       \/ SiteChanged(c) \/ ReadRoutes(c) \/ WriteRoutes(c) \/ RouteFails(c)
       \/ HangUp(c)
  \/ \E i \in Id : Issue(i)
  \/ \E n \in Name : FilesChange(n)
  \/ Restart

Spec == Init /\ [][Next]_vars

(* ------------------------------ properties ----------------------------- *)

TypeOK ==
  /\ {memory, file} \subseteq Store
  /\ \A n \in Name : found[n] \in RoutesOf(n) \cup {None}
  /\ routed \subseteq Host
  /\ request \in [Client -> Request]
  /\ {unsaved, unrouted} \subseteq BOOLEAN

\* However requests, restarts and imports interleave: once no request has still to save,
\* certificates.json holds the list in memory, unless a save failed and none succeeded
\* since; and once none has still to rewrite it, the forwarder answers the challenges of
\* exactly the hosts in that file, unless a request failed or hung up there or two were
\* in it at once (api/certificates.rs:18, "reconcile_http_challenges").
DefinitionsAgree ==
  LET busy(steps) == \E c \in Client : request[c].at \in steps
  IN  /\ ~busy({"save"}) /\ ~unsaved => memory = file
      /\ ~busy({"save", "read", "write"}) /\ ~unrouted => routed = Routes(file)

=============================================================================
