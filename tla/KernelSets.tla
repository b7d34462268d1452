------------------------------ MODULE KernelSets ------------------------------
(***************************************************************************)
(* What the rest of the engine takes the kernel's sets to be (and BanWorker *)
(* says of them): a set changes by one entry, or is replaced as a whole by *)
(* what a reconciliation asked for. "Reconciliation swaps fully prepared   *)
(* staging sets into service" (docs/architecture.md:279).                  *)
(***************************************************************************)
CONSTANTS
  Callers,    \* those who ask, one request at a time
  Families,   \* one set each
  Entries,
  None

VARIABLES
  live,       \* family -> its entries, or None
  request     \* caller -> what it asked for, or None

Kinds == {"replace", "one", "other"}

Request == [kind : Kinds, wanted : [Families -> SUBSET Entries], alone : BOOLEAN]

Init ==
  /\ live = [f \in Families |-> None]
  /\ request = [b \in Callers |-> None]

Ask(b) ==
  /\ request[b] = None /\ request'[b] # None /\ UNCHANGED live
  /\ \E kind \in Kinds, wanted \in [Families -> SUBSET Entries] :
       LET alone == \A o \in Callers : request[o] = None
       IN request' = [o \in Callers |->
            IF o = b THEN [kind |-> kind, wanted |-> wanted, alone |-> alone]
            ELSE IF request[o] = None THEN None ELSE [request[o] EXCEPT !.alone = FALSE]]

Answer(b) ==
  /\ request[b] # None /\ request'[b] = None
  /\ request' = [request EXCEPT ![b] = None]
  /\ UNCHANGED live

\* A change that comes with the last answer is one step with it.
MayAnswer(b) == UNCHANGED request \/ request' = [request EXCEPT ![b] = None]

Create(b, f) ==
  /\ request[b] # None /\ live[f] = None
  /\ live' = [live EXCEPT ![f] = {}]
  /\ MayAnswer(b)

Replace(b, f) ==
  /\ request[b] # None /\ request[b].kind = "replace" /\ live[f] # None
  /\ \E content \in SUBSET Entries :
       /\ request[b].alone => content = request[b].wanted[f]
       /\ live' = [live EXCEPT ![f] = content]
  /\ MayAnswer(b)

ChangeOne(b, f) ==
  /\ request[b] # None /\ request[b].kind = "one" /\ live[f] # None
  /\ \E e \in request[b].wanted[f] :
       live' = [live EXCEPT ![f] = @ \cup {e}] \/ live' = [live EXCEPT ![f] = @ \ {e}]
  /\ MayAnswer(b)

Next ==
  \E b \in Callers :
    \/ Ask(b) \/ Answer(b)
    \/ \E f \in Families : Create(b, f) \/ Replace(b, f) \/ ChangeOne(b, f)

Spec == Init /\ [][Next]_<<live, request>>

=============================================================================
