----------------------------- MODULE IpsetBackend -----------------------------
(***************************************************************************)
(* CommandIpSet (ban_attack/backend.rs): the ipset and iptables commands   *)
(* behind each call of the backend, one command a step. A call is the list *)
(* of the rounds of its loops that are still to run, each the commands for *)
(* one family or one place; a question to the kernel decides which ones    *)
(* come next. Between two commands others change the firewall: the backend *)
(* of an engine that is being replaced, the router that rebuilds its       *)
(* rules, the administrator. A command that times out is killed and may    *)
(* have taken effect; the first error ends the call, as a kill of the      *)
(* process does.                                                           *)
(*                                                                         *)
(* set_exceptions has no caller in the program. The capacity and the type  *)
(* of a set, and entries that overlap, are left out.                       *)
(***************************************************************************)
EXTENDS Naturals, FiniteSets, Sequences, SequencesExt

CONSTANTS
  Backends,     \* one for each engine that is alive
  Families,     \* inet and inet6, each with a set and an iptables command
  Parents,      \* INPUT and FORWARD
  Entries,      \* bans and exceptions
  FamilyOf,     \* entry -> its family
  None

ASSUME BackendAssumption ==
  /\ IsFiniteSet(Families) /\ IsFiniteSet(Parents) /\ IsFiniteSet(Entries)
  /\ FamilyOf \in [Entries -> Families]
  /\ \A content \in SUBSET Entries : content # None

VARIABLES
  live, stage,  \* family -> the entries of the set, or None
  owned,        \* family, parent -> ROUTER_HUB_<parent>: "none", "empty" or "drops"
  rules,        \* family, parent -> the rules of the parent chain: "hook" or "other"
  protected,    \* protect_input, protect_forward, of this process
  observing,    \* backend -> observe_only
  call          \* backend -> the call under way, or None

sets == <<live, stage>>
chains == <<owned, rules>>
settings == <<protected, observing>>
vars == <<sets, chains, settings, call>>

Places == Families \X Parents
Of(wanted, f) == {e \in wanted : FamilyOf[e] = f}

(* ------------------------------- commands ------------------------------- *)

Cmd(op, at) == [op |-> op, at |-> at]

\* A command of ipset, on the set of a family.
SetCmd(op, f) == Cmd(op, <<f, "set">>)

\* command_succeeds, and the commands that follow on yes and on no.
Ask(question, at, yes, no) == [op |-> question, at |-> at, yes |-> yes, no |-> no]

Questions == {"chain?", "rule?", "hook?"}

\* The rounds of a loop: one family, or one place, after the other.
ForEach(S, Do(_)) == [i \in 1..Cardinality(S) |-> Do(SetToSeq(S)[i])]

EnsureSet(f) == <<SetCmd("create", f), SetCmd("list", f)>>

\* Mutation: a hook that is there stays where it is.
EnsureOwnedChainInPlace(at) ==
  <<Ask("chain?", at, <<>>, <<Cmd("-N", at)>>),
    Ask("rule?", at, <<>>, <<Cmd("-I rule", at)>>),
    Ask("hook?", at, <<>>, <<Cmd("-I hook", at)>>)>>

EnsureOwnedChain(at) ==
  <<Ask("chain?", at, <<>>, <<Cmd("-N", at)>>),
    Ask("rule?", at, <<>>, <<Cmd("-I rule", at)>>),
    Ask("hook?", at, <<Cmd("-D hook", at)>>, <<>>),
    Cmd("-I hook", at)>>

RemoveHook(at) == <<Ask("hook?", at, <<Cmd("-D hook", at)>>, <<>>)>>

EnsurePlace(at) == IF at[2] \in protected THEN EnsureOwnedChain(at) ELSE RemoveHook(at)

Ensure == ForEach(Families, EnsureSet) \o ForEach(Places, EnsurePlace)

\* Mutation: the live set is emptied and filled again.
RestoreFamilyInPlace(f) ==
  <<SetCmd("try destroy", f), SetCmd("make", f), SetCmd("swap", f), SetCmd("restore", f),
    SetCmd("swap", f), SetCmd("destroy", f)>>

RestoreFamily(f) ==
  <<SetCmd("try destroy", f), SetCmd("make", f), SetCmd("restore", f),
    SetCmd("swap", f), SetCmd("destroy", f)>>

Disable == ForEach(Places, RemoveHook)

Reconcile == Ensure \o ForEach(Families, RestoreFamily)

Single(op, wanted) == ForEach(wanted, LAMBDA e : <<SetCmd(op, FamilyOf[e])>>)

\* Mutation: observe_only is forgotten where single entries are added.
CallsAddingAlways(b, wanted) ==
  [ensure    |-> IF observing[b] THEN <<>> ELSE Ensure,
   reconcile |-> IF observing[b] THEN Disable ELSE Reconcile,
   disable   |-> Disable,
   add       |-> Single("add", wanted),
   remove    |-> Single("del", wanted)]

\* The calls, and their rounds. observe_only turns a reconciliation into disable, and
\* the others into nothing.
Calls(b, wanted) ==
  [ensure    |-> IF observing[b] THEN <<>> ELSE Ensure,
   reconcile |-> IF observing[b] THEN Disable ELSE Reconcile,
   disable   |-> Disable,
   add       |-> IF observing[b] THEN <<>> ELSE Single("add", wanted),
   remove    |-> IF observing[b] THEN <<>> ELSE Single("del", wanted)]

(* ------------------------- the effect of a command ---------------------- *)

Set(family, f, content) == [family EXCEPT ![f] = content]

\* What it takes for the kernel to accept it.
Accepted(c) ==
  CASE c.op \in {"create", "try destroy"} -> TRUE
    [] c.op \in {"list", "add", "del"}    -> live[c.at[1]] # None
    [] c.op = "make"                      -> stage[c.at[1]] = None
    [] c.op \in {"restore", "destroy"}    -> stage[c.at[1]] # None
    [] c.op = "swap"                      -> stage[c.at[1]] # None /\ live[c.at[1]] # None
    [] c.op = "-N"                        -> owned[c.at] = "none"
    [] c.op = "-I rule"                   -> owned[c.at] # "none" /\ live[c.at[1]] # None
    [] c.op = "-D hook"                   -> Contains(rules[c.at], "hook")
    [] c.op = "-I hook"                   -> owned[c.at] # "none"

OnSets(c, wanted) ==
  /\ live' = CASE c.op = "create" /\ live[c.at[1]] = None -> Set(live, c.at[1], {})
               [] c.op = "swap" -> Set(live, c.at[1], stage[c.at[1]])
               [] c.op = "add"  -> Set(live, c.at[1], live[c.at[1]] \cup wanted)
               [] c.op = "del"  -> Set(live, c.at[1], live[c.at[1]] \ wanted)
               [] OTHER         -> live
  /\ stage' = CASE c.op = "make"    -> Set(stage, c.at[1], {})
                [] c.op = "restore" -> Set(stage, c.at[1], stage[c.at[1]] \cup Of(wanted, c.at[1]))
                [] c.op = "swap"    -> Set(stage, c.at[1], live[c.at[1]])
                [] c.op \in {"destroy", "try destroy"} -> Set(stage, c.at[1], None)
                [] OTHER            -> stage

OnChains(c) ==
  /\ owned' = CASE c.op = "-N"      -> [owned EXCEPT ![c.at] = "empty"]
                [] c.op = "-I rule" -> [owned EXCEPT ![c.at] = "drops"]
                [] OTHER            -> owned
  /\ rules' = CASE c.op = "-D hook" -> [rules EXCEPT ![c.at] = RemoveFirst(@, "hook")]
                [] c.op = "-I hook" -> [rules EXCEPT ![c.at] = Cons("hook", @)]
                [] OTHER            -> rules

TakesEffect(c, wanted) == Accepted(c) /\ OnSets(c, wanted) /\ OnChains(c)

\* `ipset restore` was killed in the middle.
RestoredInPart(c, wanted) ==
  /\ c.op = "restore" /\ stage[c.at[1]] # None
  /\ \E some \in SUBSET Of(wanted, c.at[1]) : stage' = Set(stage, c.at[1], stage[c.at[1]] \cup some)
  /\ UNCHANGED <<live, chains>>

Yes(c) ==
  CASE c.op = "chain?" -> owned[c.at] # "none"
    [] c.op = "rule?"  -> owned[c.at] = "drops"
    [] c.op = "hook?"  -> Contains(rules[c.at], "hook")

(* -------------------------------- calls --------------------------------- *)

Others(b) == {o \in Backends \ {b} : call[o] # None}
Doubled ==
  \E at \in Places : \E i, j \in DOMAIN rules[at] :
    i # j /\ rules[at][i] = "hook" /\ rules[at][j] = "hook"

\* A call that overlaps another is not alone; a call is undisturbed if it is alone,
\* nobody else touches the chains and no answer misleads it.
Disturbed(o) == IF call[o] = None THEN None ELSE [call[o] EXCEPT !.undisturbed = FALSE]
Joined(o) == IF call[o] = None THEN None
             ELSE [call[o] EXCEPT !.undisturbed = FALSE, !.alone = FALSE]

Begin(b, name, wanted) ==
  /\ call[b] = None
  /\ call' = [o \in Backends |->
       IF o # b THEN Joined(o)
       ELSE [name |-> name, wanted |-> wanted, todo |-> Calls(b, wanted)[name],
             alone |-> Others(b) = {}, undisturbed |-> Others(b) = {} /\ ~Doubled]]
  /\ UNCHANGED <<sets, chains, settings>>

Asks(b) ==
  \/ \E name \in {"ensure", "disable"} : Begin(b, name, {})
  \/ \E wanted \in SUBSET Entries : Begin(b, "reconcile", wanted)
  \/ \E e \in Entries, name \in {"add", "remove"} : Begin(b, name, {e})

Running(b) == call[b] # None /\ call[b].todo # <<>>
First(b) == Head(Head(call[b].todo))
Rest(b) == Tail(Head(call[b].todo))

\* The call goes on with the rest of the round, or with the next round.
Onward(rest, rounds) == (IF rest = <<>> THEN <<>> ELSE <<rest>>) \o Tail(rounds)
Go(b, rest) == call' = [call EXCEPT ![b].todo = Onward(rest, @)]

Run(b) ==
  /\ Running(b) /\ First(b).op \notin Questions
  /\ TakesEffect(First(b), call[b].wanted)
  /\ Go(b, Rest(b))
  /\ UNCHANGED settings

Probe(b) ==
  /\ Running(b) /\ First(b).op \in Questions
  /\ Go(b, (IF Yes(First(b)) THEN First(b).yes ELSE First(b).no) \o Rest(b))
  /\ UNCHANGED <<sets, chains, settings>>

\* iptables failed for another reason, as when another one holds its lock. Bound: not
\* while a hook is doubled, as it may be in consequence.
ProbeMisled(b) ==
  /\ Running(b) /\ First(b).op \in Questions /\ Yes(First(b))
  /\ ~Doubled
  /\ call' = [call EXCEPT ![b].todo = Onward(First(b).no \o Rest(b), @),
                          ![b].undisturbed = FALSE]
  /\ UNCHANGED <<sets, chains, settings>>

\* An error: the command was refused, or killed at its deadline with or without effect.
Fail(b) ==
  /\ Running(b)
  /\ \/ First(b).op \notin Questions /\ TakesEffect(First(b), call[b].wanted)
     \/ RestoredInPart(First(b), call[b].wanted)
     \/ UNCHANGED <<sets, chains>>
  /\ call' = [call EXCEPT ![b] = None]
  /\ UNCHANGED settings

\* A restore that was refused removes the staging set; only its time-out does not.
RestoreFails(b) ==
  /\ Running(b) /\ First(b).op = "restore"
  /\ stage' = Set(stage, First(b).at[1], None)
  /\ call' = [call EXCEPT ![b] = None]
  /\ UNCHANGED <<live, chains, settings>>

Return(b) ==
  /\ call[b] # None /\ call[b].todo = <<>>
  /\ call' = [call EXCEPT ![b] = None]
  /\ UNCHANGED <<sets, chains, settings>>

(* ------------------------------- the rest ------------------------------- *)

\* The router rebuilds its rules (Asuswrt does when an interface comes up).
Flush ==
  /\ owned' = [at \in Places |-> "none"] /\ rules' = [at \in Places |-> <<>>]
  /\ call' = [o \in Backends |-> Disturbed(o)]
  /\ UNCHANGED <<sets, settings>>

OtherRule(at) ==
  /\ ~Contains(rules[at], "other")
  /\ rules' = [rules EXCEPT ![at] = Cons("other", @)]
  /\ call' = [o \in Backends |-> Disturbed(o)]
  /\ UNCHANGED <<sets, owned, settings>>

\* An earlier process, with other settings, may have left its hooks.
Init ==
  /\ live = [f \in Families |-> None] /\ stage = [f \in Families |-> None]
  /\ \/ owned = [at \in Places |-> "none"] /\ rules = [at \in Places |-> <<>>]
     \/ owned = [at \in Places |-> "drops"] /\ rules = [at \in Places |-> <<"hook">>]
  /\ protected \in SUBSET Parents /\ observing \in [Backends -> BOOLEAN]
  /\ call = [b \in Backends |-> None]

Next ==
  \/ \E b \in Backends :
       \/ Asks(b) \/ Run(b) \/ Probe(b) \/ ProbeMisled(b)
       \/ Fail(b) \/ RestoreFails(b) \/ Return(b)
  \/ Flush \/ \E at \in Places : OtherRule(at)

Spec == Init /\ [][Next]_vars

(* ------------------------------ properties ------------------------------ *)

Content == (SUBSET Entries) \cup {None}

Command ==
  [op : {"create", "list", "try destroy", "make", "restore", "swap", "destroy", "add", "del"},
   at : Families \X {"set"}]
    \cup [op : {"-N", "-I rule", "-D hook", "-I hook"}, at : Places]

Question == [op : Questions, at : Places, yes : Seq(Command), no : Seq(Command)]

Call ==
  [name : {"ensure", "reconcile", "disable", "add", "remove"}, wanted : SUBSET Entries,
   todo : Seq(Seq(Command \cup Question)), alone : BOOLEAN, undisturbed : BOOLEAN]

ASSUME CallAssumption == None \notin Call

\* The state has its type, a hook leads to a chain that exists, and in observe-only mode
\* nothing is about to run but what removes hooks (docs/architecture.md:215).
TypeOK ==
  /\ live \in [Families -> Content] /\ stage \in [Families -> Content]
  /\ owned \in [Places -> {"none", "empty", "drops"}]
  /\ rules \in [Places -> Seq({"hook", "other"})]
  /\ \A at \in Places : Contains(rules[at], "hook") => owned[at] # "none"
  /\ protected \subseteq Parents /\ observing \in [Backends -> BOOLEAN]
  /\ call \in [Backends -> Call \cup {None}]
  /\ \A b \in Backends : call[b] # None /\ observing[b] =>
       \A i \in DOMAIN call[b].todo : \A j \in DOMAIN call[b].todo[i] :
         call[b].todo[i][j].op \in {"hook?", "-D hook"}

\* Reconciliation never leaves a set half built in service, whatever command fails and
\* whatever an earlier call left behind: the sets behave like KernelSets.
Requests ==
  [b \in Backends |->
     IF call[b] = None THEN None
     ELSE [kind   |-> CASE call[b].name = "reconcile" -> "replace"
                        [] call[b].name \in {"add", "remove"} -> "one"
                        [] OTHER -> "other",
           wanted |-> [f \in Families |-> Of(call[b].wanted, f)],
           alone  |-> call[b].alone]]

Sets == INSTANCE KernelSets WITH Callers <- Backends, request <- Requests

ASSUME RequestAssumption == None \notin Sets!Request

SetsReplacedWhole == Sets!Spec

Hooked(at) == owned[at] = "drops" /\ rules[at] # <<>> /\ Head(rules[at]) = "hook"
Unhooked(at) == ~Contains(rules[at], "hook")

\* A call that was not disturbed and returns without an error has done what it is for:
\* after a reconciliation the sets hold what was asked for, and the protected chains, and
\* no others, look there first; after disable, or in observe-only mode, none does.
CallsHoldWord ==
  \A b \in Backends :
    call[b] # None /\ call[b].todo = <<>> /\ call[b].undisturbed =>
      /\ call[b].name = "reconcile" /\ ~observing[b] =>
           /\ \A f \in Families : live[f] = Of(call[b].wanted, f) /\ stage[f] = None
           /\ \A at \in Places : IF at[2] \in protected THEN Hooked(at) ELSE Unhooked(at)
      /\ call[b].name = "disable" \/ (call[b].name = "reconcile" /\ observing[b]) =>
           \A at \in Places : Unhooked(at)

=============================================================================
