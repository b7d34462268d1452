---------------------------- MODULE FilteringPause ---------------------------
(***************************************************************************)
(* Pausing AdGuard's filtering (api/adguard.rs, set_filtering). Router Hub *)
(* turns filtering off and starts a timer that turns it on again. Requests *)
(* run side by side: what they share is the slot for the timer, the note   *)
(* until when filtering is paused, and AdGuard. Both are memory only.      *)
(*                                                                         *)
(* A pause has no length here: a timer may fire at any time. Aborting a    *)
(* timer whose call is on its way, the call has been carried out by then   *)
(* or never is.                                                            *)
(***************************************************************************)
EXTENDS Naturals, FiniteSets

CONSTANTS
  Clients, Timers, None,
  MaxCuts       \* bound: calls that fail, requests dropped, restarts

VARIABLES
  filtering,   \* AdGuard filters
  noted,       \* filtering_paused_until is set
  slot,        \* filtering_timer
  timers,      \* timer -> what its task does
  request,     \* client -> what it asks for and its step
  last,        \* what the last request asked for, once answered; tangled when requests
               \* have overlapped or a timer was not kept
  cuts

vars == <<filtering, noted, slot, timers, request, last, cuts>>

Wishes == {"enable", "disable", "pause"}
At(c, step) == request[c] # None /\ request[c].step = step
Wants(c, wish) == request[c].wish = wish
Go(c, step) == request' = [request EXCEPT ![c].step = step]

\* Mutation: the handle is taken, and dropped.
AbortNothing(t) == timers' = timers

Abort(t) == timers' = IF t = None THEN timers ELSE [timers EXCEPT ![t] = None]

(* ------------------------------- requests ------------------------------ *)

Ask(c, wish) ==
  /\ request[c] = None
  /\ request' = [request EXCEPT ![c] = [wish |-> wish, step |-> "take"]]
  /\ last' = IF last = "tangled" \/ \E d \in Clients : request[d] # None
             THEN "tangled" ELSE None
  /\ UNCHANGED <<filtering, noted, slot, timers, cuts>>

TakeTimer(c) ==
  /\ At(c, "take")
  /\ slot' = None
  /\ Abort(slot)
  /\ Go(c, "call")
  /\ UNCHANGED <<filtering, noted, last, cuts>>

Answer(c) ==
  /\ request' = [request EXCEPT ![c] = None]
  /\ last' = IF last = "tangled" THEN last ELSE request[c].wish

\* AdGuard is told. A request to enable is done then, and leaves the note as it is.
SetFiltering(c) ==
  /\ At(c, "call")
  /\ filtering' = Wants(c, "enable")
  /\ IF Wants(c, "enable") THEN Answer(c) ELSE Go(c, "note") /\ UNCHANGED last
  /\ UNCHANGED <<noted, slot, timers, cuts>>

\* The pause is over for good: disabled.
NoteDisabled(c) ==
  /\ At(c, "note") /\ Wants(c, "disable")
  /\ noted' = FALSE
  /\ Answer(c)
  /\ UNCHANGED <<filtering, slot, timers, cuts>>

\* The note, and the task of the timer; its handle goes to the slot in a step of its own.
StartTimer(c) ==
  /\ At(c, "note") /\ Wants(c, "pause")
  /\ noted' = TRUE
  /\ \E t \in {u \in Timers : timers[u] = None /\ u # slot} :
       /\ timers' = [timers EXCEPT ![t] = "sleeps"]
       /\ request' = [request EXCEPT ![c] = [wish |-> "pause", step |-> t]]
  /\ UNCHANGED <<filtering, slot, last, cuts>>

\* A handle that is in the slot by now is dropped: its timer goes on.
KeepTimer(c) ==
  /\ \E t \in Timers : At(c, t) /\ slot' = t
  /\ Answer(c)
  /\ UNCHANGED <<filtering, noted, timers, cuts>>

(* -------------------------------- timers ------------------------------- *)

\* Mutation: a timer clears its note only.
FireNoteOnly(t) ==
  /\ timers[t] = "sleeps"
  /\ noted' = FALSE
  /\ timers' = [timers EXCEPT ![t] = None]
  /\ UNCHANGED <<filtering, slot, request, last, cuts>>

Fire(t) ==
  /\ timers[t] = "sleeps"
  /\ noted' = FALSE
  /\ timers' = [timers EXCEPT ![t] = "resumes"]
  /\ UNCHANGED <<filtering, slot, request, last, cuts>>

Resume(t) ==
  /\ timers[t] = "resumes"
  /\ filtering' = TRUE
  /\ timers' = [timers EXCEPT ![t] = None]
  /\ UNCHANGED <<noted, slot, request, last, cuts>>

(* ------------------------------- failures ------------------------------ *)

\* AdGuard's answer is an error or does not arrive, or the client hangs up: between the
\* start of its timer and keeping it, too.
CutShort(c) ==
  /\ request[c] # None
  /\ cuts < MaxCuts
  /\ cuts' = cuts + 1
  /\ filtering' \in {filtering} \cup IF At(c, "call") THEN {Wants(c, "enable")} ELSE {}
  /\ request' = [request EXCEPT ![c] = None]
  /\ last' = IF \E t \in Timers : At(c, t) THEN "tangled" ELSE last
  /\ UNCHANGED <<noted, slot, timers>>

\* A timer ignores the error.
ResumeFails(t) ==
  /\ timers[t] = "resumes"
  /\ cuts < MaxCuts
  /\ cuts' = cuts + 1
  /\ timers' = [timers EXCEPT ![t] = None]
  /\ UNCHANGED <<filtering, noted, slot, request, last>>

\* Timers and notes are gone.
Restart ==
  /\ cuts < MaxCuts
  /\ cuts' = cuts + 1
  /\ noted' = FALSE /\ slot' = None
  /\ timers' = [t \in Timers |-> None]
  /\ request' = [c \in Clients |-> None]
  /\ UNCHANGED <<filtering, last>>

(* ---------------------------- specification ---------------------------- *)

Init ==
  /\ filtering \in BOOLEAN /\ noted = FALSE
  /\ slot = None /\ timers = [t \in Timers |-> None]
  /\ request = [c \in Clients |-> None]
  /\ last = None
  /\ cuts = 0

RequestStep(c) ==
  TakeTimer(c) \/ SetFiltering(c) \/ NoteDisabled(c) \/ StartTimer(c) \/ KeepTimer(c)

TimerStep(t) == Fire(t) \/ Resume(t)

Next ==
  \/ \E c \in Clients, wish \in Wishes : Ask(c, wish)
  \/ \E c \in Clients : RequestStep(c) \/ CutShort(c)
  \/ \E t \in Timers : TimerStep(t) \/ ResumeFails(t)
  \/ Restart

\* Handlers and timers go on: every sleep ends, and so does every call, by its own
\* timeout.
Fairness ==
  /\ \A c \in Clients : WF_vars(RequestStep(c))
  /\ \A t \in Timers : WF_vars(TimerStep(t))

Spec == Init /\ [][Next]_vars /\ Fairness

(* ----------------------------- properties ------------------------------ *)

TypeOK ==
  /\ filtering \in BOOLEAN /\ noted \in BOOLEAN
  /\ slot \in Timers \cup {None}
  /\ timers \in [Timers -> {None, "sleeps", "resumes"}]
  /\ request \in [Clients -> {None} \cup [wish : Wishes,
                                          step : {"take", "call", "note"} \cup Timers]]
  /\ last \in Wishes \cup {None, "tangled"}
  /\ cuts \in 0..MaxCuts

\* Filtering stays as the last answered request left it, as long as requests come one
\* at a time: a timer of an earlier pause does not undo it, and neither do a failed
\* call or a restart before it (set_filtering takes and aborts the timer first).
AnswersHold ==
  /\ last = "disable" => ~filtering
  /\ last = "enable" => filtering

Quiet == \A c \in Clients : request[c] = None

\* A pause ends: once no request is at work, however they overlapped before, a noted
\* pause has a timer that turns filtering on, unless another request comes first, or a
\* call failed or was cut off.
PauseEnds ==
  (noted /\ ~filtering /\ Quiet) ~> (filtering \/ ~Quiet \/ cuts > 0)

=============================================================================
