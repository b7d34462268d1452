------------------------------ MODULE MCAdGuard ------------------------------
(***************************************************************************)
(* The rewrites and the filtering pause share nothing but the AdGuard they *)
(* talk to: the behaviours of each are checked with the other at rest.     *)
(***************************************************************************)
EXTENDS AdGuardRewrites

CONSTANTS Clients, Timers, None

VARIABLES part, filtering, noted, slot, timers, request, last, pauseCuts

pauseVars == <<filtering, noted, slot, timers, request, last, pauseCuts>>

Pause == INSTANCE FilteringPause WITH cuts <- pauseCuts

\* None is no timer, no request and no answer, and a timer is no step of a request.
ASSUME TimersAssumption ==
  /\ None \notin Timers \cup {"sleeps", "resumes", "tangled", "enable", "disable", "pause"}
  /\ None \notin [wish : {"enable", "disable", "pause"},
                  step : {"take", "call", "note"} \cup Timers]
  /\ Timers \cap {"take", "call", "note"} = {}

BothInit ==
  /\ part \in {"rewrites", "pause"}
  /\ Init /\ Pause!Init
  /\ IF part = "rewrites" THEN filtering
     ELSE files = {} /\ \A d \in Domains : copies[d] = 0

BothNext ==
  /\ UNCHANGED part
  /\ \/ part = "rewrites" /\ Next /\ UNCHANGED pauseVars
     \/ part = "pause" /\ Pause!Next /\ UNCHANGED vars

BothSpec == BothInit /\ [][BothNext]_<<part, vars, pauseVars>> /\ Pause!Fairness

\* The types of both parts.
BothTypeOK == TypeOK /\ Pause!TypeOK

\* Filtering stays as it was left (api/adguard.rs).
AnswersHold == Pause!AnswersHold

\* A pause ends (api/adguard.rs).
PauseEnds == Pause!PauseEnds

=============================================================================
