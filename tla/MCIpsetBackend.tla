---------------------------- MODULE MCIpsetBackend ----------------------------
(***************************************************************************)
(* Instances for TLC of two modules that share nothing, IpsetBackend and   *)
(* CertificateDefinitions: the behaviours of each are checked with the     *)
(* other at rest.                                                          *)
(***************************************************************************)
EXTENDS IpsetBackend, TLC

CONSTANTS Client, Id, web, mail, host

VARIABLES part, memory, file, found, routed, request, unsaved, unrouted

definitionVars == <<memory, file, found, routed, request, unsaved, unrouted>>

\* The entries belong to one family.
MCFamilyOf == [e \in Entries |-> "inet"]

\* An HTTP certificate, and another that is changed from DNS to HTTP.
MCDefinition ==
  {[name |-> web, routes |-> {host}], [name |-> mail, routes |-> {}],
   [name |-> mail, routes |-> {host}]}

Definitions == INSTANCE CertificateDefinitions WITH Definition <- MCDefinition

BothInit ==
  /\ part \in {"backend", "definitions"}
  /\ Init /\ Definitions!Init
  /\ part = "definitions" =>
       protected = {} /\ observing = [b \in Backends |-> FALSE] /\ rules = [at \in Places |-> <<>>]

BothNext ==
  /\ UNCHANGED part
  /\ \/ part = "backend" /\ Next /\ UNCHANGED definitionVars
     \/ part = "definitions" /\ Definitions!Next /\ UNCHANGED vars

BothSpec == BothInit /\ [][BothNext]_<<part, vars, definitionVars>>

\* The types of both parts.
BothTypeOK == TypeOK /\ Definitions!TypeOK

\* List, file and forwarder agree (api/certificates.rs).
DefinitionsAgree == Definitions!DefinitionsAgree

Symmetry == UNION {Permutations(S) : S \in {Backends, Entries, Client, Id}}

=============================================================================
