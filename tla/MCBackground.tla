----------------------------- MODULE MCBackground -----------------------------
(***************************************************************************)
(* Instances of the two modules about work that goes on in the background, *)
(* the reading of logs and the renewal of certificates. They share         *)
(* nothing: the behaviours of each are checked with the other at rest.     *)
(***************************************************************************)
EXTENDS LogTailer

CONSTANTS
  o1, o2,
  Outside, Idle, MaxDue, MaxCuts

VARIABLES
  part,
  guard, operation, pass, group, left, outside, lock, cuts

operationVars == <<guard, operation, pass, group, left, outside, lock, cuts>>

Operations == INSTANCE CertificateOperations

\* What CertificateOperations assumes of its constants.
ASSUME CertificatesAssumption == Operations!OperationsAssumption

BothInit ==
  /\ part \in {"certificates", "log"}
  /\ Init /\ Operations!Init
  /\ part = "certificates" => active = None

BothNext ==
  /\ UNCHANGED part
  /\ \/ part = "certificates" /\ Operations!Next /\ UNCHANGED vars
     \/ part = "log" /\ Next /\ UNCHANGED operationVars

\* At rest, the certificates have nothing they could do, and the log is not asked to poll:
\* but for that, this is Operations!Fairness and Fairness.
BothFairness ==
  /\ Operations!Fairness
  /\ []<>(part = "log" => poll = None) /\ []<>(part = "log" => poll # None)

BothSpec == BothInit /\ [][BothNext]_<<part, vars, operationVars>> /\ BothFairness

\* The types of both parts; then the properties of CertificateOperations.
BothTypeOK == TypeOK /\ Operations!TypeOK

\* One dehydrated works at a time (state.rs).
WorksAlone == Operations!WorksAlone

\* The lock file is taken from no process of Router Hub (state.rs).
LockNotStolen == Operations!LockNotStolen

\* Operations and passes of the loop end (command.rs, state.rs).
WorkIsBounded == Operations!WorkIsBounded

=============================================================================
