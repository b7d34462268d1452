-------------------- MODULE CertificateDefinitionsProofs --------------------
(***************************************************************************)
(* What CertificateDefinitions promises for any number of requests,        *)
(* definitions, names and hosts.                                           *)
(*                                                                         *)
(* DefinitionsAgree says nothing of a request that is half done, so it is  *)
(* not inductive. What a request on its way to the forwarder knows is in   *)
(* RoutesInv: as long as no other came near it, it will write the hosts of *)
(* the file, unless the file has changed, and then the request that has    *)
(* changed it is still to read it.                                         *)
(***************************************************************************)
EXTENDS CertificateDefinitions, TLAPS

(* --------------------------- the invariant ----------------------------- *)

Busy(steps) == \E c \in Client : request[c].at \in steps

\* The list is saved, or about to be, or could not be.
SavedInv == Busy({"save"}) \/ unsaved \/ memory = file

\* A request that is alone in rewriting the forwarder has read what the file holds, or
\* another is about to read it; and when none is in there, it is done, or has failed.
RoutesInv ==
  /\ \A c \in Client : request[c].at = "write" /\ request[c].alone =>
       /\ \A d \in Client : request[d].at = "write" => c = d
       /\ Busy({"read"}) \/ request[c].routes = Routes(file)
  /\ Busy({"read", "write"}) \/ unrouted \/ routed = Routes(file)

DefinitionsInv ==
  /\ TypeOK
  /\ found = [n \in Name |-> found[n]]
  /\ SavedInv /\ RoutesInv

(* ------------------------- lemmas on its parts ------------------------- *)

\* The hosts of a store are hosts of definitions.
LEMMA RoutesAreHosts ==
  ASSUME NEW store \in Store PROVE Routes(store) \subseteq Host
BY DEF Routes, Defined, Store, Host

\* Which steps requests are at, once one of them has gone on and others were disturbed.
LEMMA DisturbedKeepsSteps ==
  ASSUME TypeOK, NEW c \in Client, NEW next \in Request,
         request' = [Disturbed EXCEPT ![c] = next]
  PROVE  /\ request' \in [Client -> Request]
         /\ request'[c] = next
         /\ \A d \in Client \ {c} : /\ request'[d].at = request[d].at
                                    /\ request[d].at = "write" => request'[d].alone = FALSE
<1>1. \A d \in Client :
        request[d].at = "write" => [request[d] EXCEPT !.alone = FALSE] \in Request
  BY DEF TypeOK, Request
<1>2. Disturbed \in [Client -> Request]
  BY <1>1 DEF Disturbed, TypeOK
<1>3. \A d \in Client : request[d].at = "write" =>
        /\ [request[d] EXCEPT !.alone = FALSE].at = "write"
        /\ [request[d] EXCEPT !.alone = FALSE].alone = FALSE
  BY DEF TypeOK, Request
<1> QED BY <1>2, <1>3 DEF Disturbed

(* ------------------------- the invariant holds ------------------------- *)

\* At the start there are no definitions and no requests.
LEMMA DefinitionsInit ==
  Init => DefinitionsInv
<1> SUFFICES ASSUME Init PROVE DefinitionsInv
  OBVIOUS
<1> USE DEF Init, Step
<1>1. TypeOK
  BY DEF TypeOK, Store, Request
<1>2. SavedInv
  BY DEF SavedInv
<1>3. RoutesInv
  BY DEF RoutesInv, Routes, Defined
<1> QED BY <1>1, <1>2, <1>3 DEF DefinitionsInv

\* A request that looks at the list, or changes it, goes on to a step that is none of the
\* forwarder's writes: RoutesInv holds as the file and the forwarder stay.
LEMMA RoutesInvKept ==
  ASSUME RoutesInv, TypeOK, NEW c \in Client, NEW next \in Request,
         request' = [request EXCEPT ![c] = next],
         next.at # "write", request[c].at \in {"read", "write"} => next.at = "read",
         UNCHANGED <<file, routed, unrouted>>
  PROVE  RoutesInv'
<1>1. request'[c] = next /\ \A d \in Client \ {c} : request'[d] = request[d]
  BY DEF TypeOK
<1>2. Busy({"read"}) => Busy({"read"})'
  BY <1>1 DEF Busy
<1>3. Busy({"read", "write"}) => Busy({"read", "write"})'
  BY <1>1 DEF Busy
<1>4. Routes(file)' = Routes(file)
  BY DEF Routes, Defined
<1> QED BY <1>1, <1>2, <1>3, <1>4 DEF RoutesInv

\* A save puts its request in front of the forwarder.
LEMMA SaveKeepsInv ==
  ASSUME DefinitionsInv, NEW c \in Client, Save(c) PROVE DefinitionsInv'
<1> USE DEF DefinitionsInv, Save
<1>1. Step("read") \in Request /\ Step("read").at = "read"
  BY DEF Step, Request
<1>2. request'[c] = Step("read") /\ \A d \in Client \ {c} : request'[d] = request[d]
  BY DEF Goes, TypeOK
<1>3. TypeOK'
  BY <1>1 DEF TypeOK, Goes
<1>4. SavedInv'
  BY DEF SavedInv
<1>5. RoutesInv'
  <2>1. Busy({"read"})' /\ Busy({"read", "write"})'
    BY <1>1, <1>2 DEF Busy
  <2> QED BY <1>1, <1>2, <2>1 DEF RoutesInv
<1> QED BY <1>3, <1>4, <1>5

\* So does every step of a request before the forwarder.
LEMMA ListKeepsInv ==
  ASSUME DefinitionsInv, NEW c \in Client,
         \/ \E new \in Definition : CheckCreate(c, new)
         \/ \E i \in Id, new \in Definition : CheckUpdate(c, i, new)
         \/ \E i \in Id : Delete(c, i)
         \/ Add(c) \/ Replace(c) \/ SaveFails(c) \/ SiteChanged(c)
  PROVE  DefinitionsInv'
<1> USE DEF DefinitionsInv
<1>1. PICK next \in Request :
        /\ request' = [request EXCEPT ![c] = next]
        /\ next.at # "write"
        /\ request[c].at \notin {"read", "write"}
        /\ memory' = memory \/ next.at = "save"
        /\ request[c].at = "save" => unsaved'
  BY DEF CheckCreate, CheckUpdate, Delete, Add, Replace, SaveFails, SiteChanged, Goes,
     End, Step, Idle, Request
<1>2. request'[c] = next /\ \A d \in Client \ {c} : request'[d] = request[d]
  BY <1>1 DEF TypeOK
<1>3. memory' \in Store
  BY DEF TypeOK, Store, Request, CheckCreate, CheckUpdate, Delete, Add, Replace,
     SaveFails, SiteChanged
<1>4. /\ UNCHANGED <<file, found, routed, unrouted>>
      /\ unsaved' = unsaved \/ unsaved' = TRUE
  BY DEF CheckCreate, CheckUpdate, Delete, Add, Replace, SaveFails, SiteChanged
<1>5. TypeOK'
  BY <1>1, <1>3, <1>4 DEF TypeOK
<1>6. SavedInv'
  <2>1. CASE memory' = memory
    <3>1. Busy({"save"}) => Busy({"save"})' \/ unsaved'
      BY <1>1, <1>2 DEF Busy
    <3> QED BY <1>4, <2>1, <3>1 DEF SavedInv
  <2>2. CASE next.at = "save"
    BY <1>2, <2>2 DEF SavedInv, Busy
  <2> QED BY <1>1, <2>1, <2>2
<1>7. RoutesInv'
  BY <1>1, <1>4, RoutesInvKept
<1> QED BY <1>4, <1>5, <1>6, <1>7

\* A request that reads for the forwarder is alone only if no other has read; one that
\* writes what it has read leaves the forwarder as the file says, if it was alone.
LEMMA ForwarderKeepsInv ==
  ASSUME DefinitionsInv, NEW c \in Client, ReadRoutes(c) \/ WriteRoutes(c) \/ RouteFails(c)
  PROVE  DefinitionsInv'
<1> USE DEF DefinitionsInv
<1>0. UNCHANGED <<memory, file, found, unsaved>> /\ Routes(file)' = Routes(file)
  BY DEF ReadRoutes, WriteRoutes, RouteFails, Routes, Defined
<1>1. CASE ReadRoutes(c)
  <2> DEFINE next == [at |-> "write", routes |-> Routes(file),
                      alone |-> \A d \in Client : request[d].at # "write"]
  <2>1. next \in Request
    <3>1. Routes(file) \in SUBSET Host
      BY RoutesAreHosts DEF TypeOK
    <3> QED BY <3>1 DEF Request
  <2>2. /\ request' \in [Client -> Request] /\ request'[c] = next
        /\ \A d \in Client \ {c} : /\ request'[d].at = request[d].at
                                   /\ request[d].at = "write" => request'[d].alone = FALSE
    BY <1>1, <2>1, DisturbedKeepsSteps DEF ReadRoutes
  <2>3. TypeOK'
    BY <1>0, <1>1, <2>2 DEF TypeOK, ReadRoutes
  <2>4. SavedInv'
    <3>1. Busy({"save"}) => Busy({"save"})'
      BY <1>1, <2>2 DEF Busy, ReadRoutes
    <3> QED BY <1>0, <3>1 DEF SavedInv
  <2>5. RoutesInv'
    <3>1. Busy({"read", "write"})'
      BY <2>2 DEF Busy
    <3> QED BY <1>0, <2>2, <3>1 DEF RoutesInv
  <2> QED BY <1>0, <2>3, <2>4, <2>5
<1>2. CASE WriteRoutes(c)
  <2>1. /\ request' = [request EXCEPT ![c] = Step("idle")] /\ Step("idle") \in Request
        /\ Step("idle").at = "idle"
    BY <1>2 DEF WriteRoutes, End, Goes, Step, Request
  <2>2. request'[c] = Step("idle") /\ \A d \in Client \ {c} : request'[d] = request[d]
    BY <2>1 DEF TypeOK
  <2>3. request[c].routes \subseteq Host /\ request[c].alone \in BOOLEAN
    BY <1>2 DEF WriteRoutes, TypeOK, Request
  <2>4. unrouted' \in BOOLEAN
    BY <1>2, <2>3 DEF WriteRoutes
  <2>5. TypeOK'
    BY <1>0, <1>2, <2>1, <2>3, <2>4 DEF TypeOK, WriteRoutes
  <2>6. SavedInv'
    <3>1. Busy({"save"}) => Busy({"save"})'
      BY <1>2, <2>2 DEF Busy, WriteRoutes
    <3> QED BY <1>0, <3>1 DEF SavedInv
  <2>7. RoutesInv'
    <3>1. Busy({"read"}) => Busy({"read"})' /\ Busy({"read", "write"})'
      BY <1>2, <2>2 DEF Busy, WriteRoutes
    <3>2. request[c].alone => Busy({"read"}) \/ routed' = Routes(file)
      BY <1>2 DEF RoutesInv, WriteRoutes
    <3> QED BY <1>0, <1>2, <2>1, <2>2, <2>3, <3>1, <3>2 DEF RoutesInv, WriteRoutes
  <2> QED BY <1>0, <2>5, <2>6, <2>7
<1>3. CASE RouteFails(c)
  <2>1. Step("idle") \in Request /\ Step("idle").at = "idle"
    BY DEF Step, Request
  <2>2. /\ request' \in [Client -> Request] /\ request'[c] = Step("idle")
        /\ \A d \in Client \ {c} : /\ request'[d].at = request[d].at
                                   /\ request[d].at = "write" => request'[d].alone = FALSE
    BY <1>3, <2>1, DisturbedKeepsSteps DEF RouteFails
  <2>3. TypeOK'
    BY <1>0, <1>3, <2>2 DEF TypeOK, RouteFails
  <2>4. SavedInv'
    <3>1. Busy({"save"}) => Busy({"save"})'
      BY <1>3, <2>2 DEF Busy, RouteFails
    <3> QED BY <1>0, <3>1 DEF SavedInv
  <2>5. RoutesInv'
    BY <1>3, <2>1, <2>2 DEF RoutesInv, RouteFails
  <2> QED BY <1>0, <2>3, <2>4, <2>5
<1> QED BY <1>1, <1>2, <1>3

\* A request whose client hangs up counts as failed, of the save and of the forwarder.
LEMMA HangUpKeepsInv ==
  ASSUME DefinitionsInv, NEW c \in Client, HangUp(c) PROVE DefinitionsInv'
<1> USE DEF DefinitionsInv
<1>1. Step("idle") \in Request /\ Step("idle").at = "idle"
  BY DEF Step, Request
<1>2. /\ request' \in [Client -> Request] /\ request'[c] = Step("idle")
      /\ \A d \in Client \ {c} : /\ request'[d].at = request[d].at
                                 /\ request[d].at = "write" => request'[d].alone = FALSE
  BY <1>1, DisturbedKeepsSteps DEF HangUp
<1>3. /\ UNCHANGED <<memory, found, routed>>
      /\ file' \in {memory, file}
      /\ {unsaved', unrouted'} \subseteq BOOLEAN
  BY DEF HangUp, TypeOK
<1>4. TypeOK'
  BY <1>2, <1>3 DEF TypeOK
<1>5. SavedInv'
  <2>1. CASE request[c].at = "save"
    BY <2>1 DEF HangUp, SavedInv
  <2>2. CASE request[c].at # "save"
    <3>1. Busy({"save"}) => Busy({"save"})'
      BY <1>2, <2>2 DEF Busy
    <3> QED BY <2>2, <3>1 DEF HangUp, SavedInv
  <2> QED BY <2>1, <2>2
<1>6. RoutesInv'
  <2>1. \A d \in Client : request'[d].at = "write" => request'[d].alone = FALSE
    BY <1>1, <1>2
  <2>2. unrouted' \/ (unrouted' = unrouted /\ file' = file)
    BY DEF HangUp
  <2>3. Busy({"read", "write"}) => Busy({"read", "write"})'
    BY <1>2 DEF Busy, HangUp
  <2>4. file' = file => Routes(file)' = Routes(file)
    BY DEF Routes, Defined
  <2> QED BY <1>3, <2>1, <2>2, <2>3, <2>4 DEF RoutesInv
<1> QED BY <1>3, <1>4, <1>5, <1>6

\* What dehydrated's and nginx's files give changes within its type.
LEMMA FilesKeepInv ==
  ASSUME DefinitionsInv,
         (\E i \in Id : Issue(i)) \/ \E n \in Name : FilesChange(n)
  PROVE  DefinitionsInv'
<1> USE DEF DefinitionsInv
<1>1. PICK n \in Name :
        \E routes \in RoutesOf(n) \cup {None} : found' = [found EXCEPT ![n] = routes]
  <2>1. CASE \E i \in Id : Issue(i)
    <3>1. PICK i \in Id : Issue(i)
      BY <2>1
    <3>2. memory[i] \in Definition
      BY <3>1 DEF Issue, TypeOK, Store
    <3> QED BY <3>1, <3>2 DEF Issue, Name, RoutesOf
  <2>2. CASE \E n \in Name : FilesChange(n)
    BY <2>2 DEF FilesChange
  <2> QED BY <2>1, <2>2
<1>2. UNCHANGED <<memory, file, routed, request, unsaved, unrouted>>
  BY DEF Issue, FilesChange
<1>3. /\ found' = [m \in Name |-> found'[m]]
      /\ \A m \in Name : found'[m] \in RoutesOf(m) \cup {None}
  BY <1>1 DEF TypeOK
<1>4. TypeOK'
  BY <1>2, <1>3 DEF TypeOK, RoutesOf
<1>5. SavedInv' /\ RoutesInv'
  BY <1>2 DEF SavedInv, RoutesInv, Busy, Routes, Defined
<1> QED BY <1>3, <1>4, <1>5

\* A start saves the list it has loaded, and rewrites the forwarder or reports that it
\* could not.
LEMMA RestartKeepsInv ==
  ASSUME DefinitionsInv, Restart PROVE DefinitionsInv'
<1> USE DEF DefinitionsInv
<1>1. PICK store \in Store : memory' = store /\ file' = store
  BY DEF Restart
<1>2. Routes(file)' = Routes(file') /\ Routes(file') \subseteq Host
  BY <1>1, RoutesAreHosts DEF Routes, Defined
<1>3. request' \in [Client -> Request] /\ \A c \in Client : request'[c].at = "idle"
  BY DEF Restart, Step, Request
<1>4. TypeOK'
  BY <1>1, <1>2, <1>3 DEF TypeOK, Restart
<1>5. SavedInv' /\ RoutesInv'
  BY <1>1, <1>2, <1>3 DEF SavedInv, RoutesInv, Restart
<1> QED BY <1>4, <1>5 DEF Restart

\* Every step keeps the invariant.
LEMMA DefinitionsNext ==
  DefinitionsInv /\ [Next]_vars => DefinitionsInv'
<1> SUFFICES ASSUME DefinitionsInv, [Next]_vars PROVE DefinitionsInv'
  OBVIOUS
<1>1. CASE UNCHANGED vars
  BY <1>1 DEF vars, DefinitionsInv, TypeOK, SavedInv, RoutesInv, Busy, Routes, Defined
<1>2. CASE Next
  BY <1>2, ListKeepsInv, SaveKeepsInv, ForwarderKeepsInv, HangUpKeepsInv, FilesKeepInv,
     RestartKeepsInv DEF Next
<1> QED BY <1>1, <1>2

\* The invariant holds in every reachable state.
THEOREM DefinitionsInvariant == Spec => []DefinitionsInv
BY DefinitionsInit, DefinitionsNext, PTL DEF Spec

(* ------------------------------ its results ---------------------------- *)

\* Every variable keeps its type.
THEOREM DefinitionsTypeCorrect == Spec => []TypeOK
<1>1. DefinitionsInv => TypeOK
  BY DEF DefinitionsInv
<1> QED BY <1>1, DefinitionsInvariant, PTL

\* List, file and forwarder agree once requests are done with them: however creations,
\* updates and deletions interleave with saves, restarts and imports
\* (api/certificates.rs, Stores::save_certificates, reconcile_http_forwarder).
THEOREM DefinitionsAlwaysAgree == Spec => []DefinitionsAgree
<1>1. DefinitionsInv => DefinitionsAgree
  BY DEF DefinitionsInv, SavedInv, RoutesInv, Busy, DefinitionsAgree
<1> QED BY <1>1, DefinitionsInvariant, PTL

=============================================================================
