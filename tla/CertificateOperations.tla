----------------------- MODULE CertificateOperations -----------------------
(***************************************************************************)
(* Issuing and renewing certificates (state.rs, api/certificates.rs,       *)
(* command.rs). One operation at a time runs dehydrated as a process group *)
(* of its own, behind certificate_operation_lock, under a timeout.         *)
(* Requests and the renewal loop compete for that guard. dehydrated has a  *)
(* lock file of its own, by which it keeps out the processes Router Hub    *)
(* did not start: those of an earlier run of Router Hub, and the           *)
(* administrator's.                                                        *)
(*                                                                         *)
(* A process is "new" until it has taken the lock file, then "works", and  *)
(* is a "hook" while its hook script runs. A hook whose shell was killed   *)
(* goes on alone ("stray"). Which certificate an operation is for, its     *)
(* files and dehydrated's answer make no difference here.                  *)
(***************************************************************************)
EXTENDS Naturals, FiniteSets

CONSTANTS
  Outside,      \* processes that the administrator may start
  Idle,         \* nobody, no process
  MaxDue,       \* bound: certificates that are due in one pass of the loop
  MaxCuts       \* bound: hang-ups, and restarts during an operation

\* What the module assumes of them; the module that instantiates it states it.
OperationsAssumption ==
  /\ Idle \notin Outside
  /\ Idle \notin {"new", "works", "hook", "stray", "running", "completed", "failed"}
  /\ Idle \notin [step : {"check", "write", "wait", "clean", "clear", "remove"},
                  who : {"request", "loop"}]
  /\ MaxDue \in Nat /\ MaxCuts \in Nat

VARIABLES
  guard,       \* the step of what holds certificate_operation_lock, and for whom
  operation,   \* certificate_operation: the status of the last one
  pass,        \* certificates the renewal loop has still to look at
  group,       \* the process group Router Hub waits for
  left,        \* processes Router Hub started and no longer waits for
  outside,     \* the administrator's processes
  lock,        \* dehydrated's lock file exists
  cuts

vars == <<guard, operation, pass, group, left, outside, lock, cuts>>
processVars == <<group, left, outside, lock>>

Works(p) == p \in {"works", "hook", "stray"}

(* ------------------------------ processes ------------------------------ *)

\* dehydrated creates its lock file or gives up, runs its hook, and removes the file
\* at its end. A stray hook leaves the file alone.
Lives(p, q, l) ==
  \/ p = "new" /\ ~lock /\ q = "works" /\ l = TRUE
  \/ p = "new" /\ lock /\ q = Idle /\ l = lock
  \/ p = "works" /\ q = "hook" /\ l = lock
  \/ p = "hook" /\ q = "works" /\ l = lock
  \/ p = "works" /\ q = Idle /\ l = FALSE
  \/ p = "stray" /\ q = Idle /\ l = lock

GroupLives ==
  /\ \E q \in {Idle, "works", "hook"}, l \in BOOLEAN :
       Lives(group, q, l) /\ group' = q /\ lock' = l
  /\ UNCHANGED <<guard, operation, pass, left, outside, cuts>>

LeftLives ==
  /\ \E p \in left, q \in {Idle, "works", "hook"}, l \in BOOLEAN :
       /\ Lives(p, q, l)
       /\ left' = (left \ {p}) \cup ({q} \ {Idle})
       /\ lock' = l
  /\ UNCHANGED <<guard, operation, pass, group, outside, cuts>>

OutsideLives ==
  /\ \E o \in Outside, q \in {Idle, "works", "hook"}, l \in BOOLEAN :
       /\ Lives(outside[o], q, l)
       /\ outside' = [outside EXCEPT ![o] = q]
       /\ lock' = l
  /\ UNCHANGED <<guard, operation, pass, group, left, cuts>>

OutsideStarts ==
  /\ \E o \in Outside : outside[o] = Idle /\ outside' = [outside EXCEPT ![o] = "new"]
  /\ UNCHANGED <<guard, operation, pass, group, left, lock, cuts>>

(* ----------------------------- operations ------------------------------ *)

\* dehydrated_process_running looks for the executable and for hooks in /proc.
ProcessRunning ==
  group # Idle \/ left # {} \/ \E o \in Outside : outside[o] # Idle

\* Mutation: only the own operation is looked at.
BusyUnlessOutside == operation = "running"

\* dehydrated_lock_status reads the lock file before it looks for processes: what
\* changes in between is found running, or locked.
Busy == operation = "running" \/ ProcessRunning

TakeGuard(step, who) == guard = Idle /\ guard' = [step |-> step, who |-> who]
At(step) == guard # Idle /\ guard.step = step
Go(step) == guard' = [guard EXCEPT !.step = step]
Release == guard' = Idle

\* A request to issue, renew or clear: try_lock, or refused. (Issue and renew look at
\* the lock before it as well, and are refused the sooner.)
Ask ==
  /\ \E step \in {"check", "clear"} : TakeGuard(step, "request")
  /\ UNCHANGED <<operation, pass, cuts>> /\ UNCHANGED processVars

\* A pass of the renewal loop, which a lock file skips.
StartPass ==
  /\ pass = 0
  /\ ~lock
  /\ pass' \in 1..MaxDue
  /\ UNCHANGED <<guard, operation, cuts>> /\ UNCHANGED processVars

\* The loop issues the next certificate, or goes on when the guard is taken.
RenewNext ==
  /\ pass > 0
  /\ guard # Idle => guard.who = "request"
  /\ IF guard = Idle THEN TakeGuard("check", "loop") /\ UNCHANGED pass
                     ELSE pass' = pass - 1 /\ UNCHANGED guard
  /\ UNCHANGED <<operation, cuts>> /\ UNCHANGED processVars

\* The operation is over for whoever asked for it.
Ends ==
  /\ Release
  /\ pass' = IF guard.who = "loop" THEN pass - 1 ELSE pass

\* issue_certificate, under the guard: the definition is gone, or dehydrated runs or
\* is locked, or the operation begins.
Refuse ==
  /\ At("check")
  /\ Ends
  /\ UNCHANGED <<operation, cuts>> /\ UNCHANGED processVars

Accept ==
  /\ At("check")
  /\ ~lock /\ ~Busy
  /\ operation' = "running"
  /\ Go("write")
  /\ UNCHANGED <<pass, cuts>> /\ UNCHANGED processVars

\* The configuration is written and dehydrated is started, or one of them fails.
Spawn ==
  /\ At("write")
  /\ group' = "new"
  /\ Go("wait")
  /\ UNCHANGED <<operation, pass, left, outside, lock, cuts>>

SpawnFails ==
  /\ At("write")
  /\ Go("clean")
  /\ UNCHANGED <<operation, pass, cuts>> /\ UNCHANGED processVars

Exited ==
  /\ At("wait")
  /\ group = Idle
  /\ Go("clean")
  /\ UNCHANGED <<operation, pass, cuts>> /\ UNCHANGED processVars

\* Mutation: only the shell is killed, its hook is not.
TimeoutShellOnly ==
  /\ At("wait")
  /\ group # Idle
  /\ group' = Idle
  /\ left' = left \cup (IF group = "hook" THEN {"stray"} ELSE {})
  /\ Go("clean")
  /\ UNCHANGED <<operation, pass, outside, lock, cuts>>

\* Mutation: there is no timeout.
TimeoutNever == FALSE /\ UNCHANGED vars

\* run_process_group kills the whole group.
Timeout ==
  /\ At("wait")
  /\ group # Idle
  /\ group' = Idle
  /\ Go("clean")
  /\ UNCHANGED <<operation, pass, left, outside, lock, cuts>>

\* The lock file is removed, whoever created it, and the outcome recorded.
Clean ==
  /\ At("clean")
  /\ lock' = FALSE
  /\ operation' \in {"completed", "failed"}
  /\ Ends
  /\ UNCHANGED <<group, left, outside, cuts>>

\* clear_dehydrated_lock checks, and then removes the file.
CheckClear ==
  /\ At("clear")
  /\ IF Busy THEN Release ELSE Go("remove")
  /\ UNCHANGED <<operation, pass, cuts>> /\ UNCHANGED processVars

Remove ==
  /\ At("remove")
  /\ lock' = FALSE
  /\ Release
  /\ UNCHANGED <<operation, pass, group, left, outside, cuts>>

(* --------------------------- hang-ups, crashes ------------------------- *)

\* kill_on_drop ends dehydrated itself. Its hook goes on.
Killed == IF group = "hook" THEN {"stray"} ELSE {}

\* The client of a request hangs up. certificate_operation stays as it is.
HangUp ==
  /\ guard # Idle
  /\ guard.who = "request"
  /\ cuts < MaxCuts
  /\ cuts' = cuts + 1
  /\ left' = left \cup Killed
  /\ group' = Idle
  /\ lock' \in {lock} \cup IF At("clean") \/ At("remove") THEN {FALSE} ELSE {}
  /\ Release
  /\ UNCHANGED <<operation, pass, outside>>

\* Router Hub is killed and started again, and forgets its operation. What it started
\* goes on, or its shell is killed with it.
Restart ==
  /\ guard # Idle => cuts < MaxCuts
  /\ cuts' = IF guard = Idle THEN cuts ELSE cuts + 1
  /\ left' \in {left \cup Killed, left \cup ({group} \ {Idle})}
  /\ group' = Idle
  /\ guard' = Idle
  /\ operation' = Idle
  /\ pass' = 0
  /\ UNCHANGED <<outside, lock>>

(* ---------------------------- specification ---------------------------- *)

Init ==
  /\ guard = Idle /\ operation = Idle /\ pass = 0
  /\ group = Idle /\ left = {} /\ outside = [o \in Outside |-> Idle]
  /\ lock = FALSE
  /\ cuts = 0

\* The steps of Router Hub once the guard is taken.
OperationStep ==
  \/ Refuse \/ Accept \/ Spawn \/ SpawnFails \/ Exited \/ Timeout \/ Clean
  \/ CheckClear \/ Remove

Next ==
  \/ GroupLives \/ LeftLives \/ OutsideLives \/ OutsideStarts
  \/ Ask \/ StartPass \/ RenewNext
  \/ OperationStep
  \/ HangUp \/ Restart

\* A task that can go on does, and a timer that runs fires. Nothing is assumed of
\* dehydrated: it may hang.
Fairness == WF_vars(OperationStep) /\ WF_vars(RenewNext)

Spec == Init /\ [][Next]_vars /\ Fairness

(* ----------------------------- properties ------------------------------ *)

TypeOK ==
  /\ guard \in {Idle} \cup [step : {"check", "write", "wait", "clean", "clear", "remove"},
                            who : {"request", "loop"}]
  /\ operation \in {Idle, "running", "completed", "failed"}
  /\ pass \in 0..MaxDue
  /\ group \in {Idle, "new", "works", "hook"}
  /\ left \subseteq {"new", "works", "hook", "stray"}
  /\ outside \in [Outside -> {Idle, "new", "works", "hook"}]
  /\ lock \in BOOLEAN
  /\ cuts \in 0..MaxCuts

\* When the dehydrated that Router Hub waits for works, no other does, nor a hook that
\* an earlier one left behind: neither a hang-up nor a restart, neither a timeout nor a
\* cleared lock lets two work on the certificates (state.rs:240, "Both the periodic loop
\* and manual API actions must share this guard").
WorksAlone ==
  Works(group) => /\ \A p \in left : ~Works(p)
                  /\ \A o \in Outside : ~Works(outside[o])

\* The lock file is not taken from a process that Router Hub started: when it removes the
\* file, no such process is at work (issue_certificate's cleanup, clear_dehydrated_lock).
LockNotStolen ==
  [][(lock /\ ~lock' /\ guard # guard') =>
        \A p \in left \cup {group} : ~Works(p)]_vars

\* Every operation and every pass of the renewal loop ends, even when dehydrated hangs
\* (docs/configuration.md:81, "certificate background work is bounded").
WorkIsBounded ==
  /\ (guard # Idle) ~> (guard = Idle)
  /\ (pass > 0) ~> (pass = 0)

=============================================================================
