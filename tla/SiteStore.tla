----------------------------- MODULE SiteStore -----------------------------
(***************************************************************************)
(* What changing nginx sites promises (docs/configuration.md, "Failed      *)
(* validation or reload restores the previous inputs and output"): a       *)
(* request changes one site, all of it at once, or nothing at all.         *)
(*                                                                         *)
(* An entry is all that is stored for one site: its input in sites.toml,   *)
(* its file below domains-available, its link and its upstream rows.       *)
(* NginxSites, which goes through the files one by one, implements this.   *)
(* A request that is cut off may leave its own site between two entries:   *)
(* Tear is the one action that may, and torn counts how often it did.      *)
(***************************************************************************)
EXTENDS Naturals

CONSTANTS
  Sites,               \* domains, subdomains and subfolders
  Parent,              \* site -> its domain; a domain's is itself
  Blank,               \* the entry of a site that does not exist
  Globals,             \* the global settings
  Coherent(_, _, _),   \* whether a site's entry fits together, and with the settings
  Rendered(_, _, _),   \* a site's entry rendered anew with other settings
  Forgotten(_)         \* an entry without its input

VARIABLES entry, global, torn
vars == <<entry, global, torn>>

Family(s) == {t \in Sites : t = s \/ Parent[t] = s}
OnlyChanges(S) == \A t \in Sites \ S : entry'[t] = entry[t]

Init ==
  /\ entry = [s \in Sites |-> Blank]
  /\ global \in Globals
  /\ torn = 0

\* A site is created, edited, enabled or disabled, with everything that belongs
\* to it at once. When it is a domain with custom text, its children are no longer
\* managed, and keep all but their inputs.
Save(s) ==
  /\ entry'[s] # Blank
  /\ torn = 0 => Coherent(s, entry'[s], global)
  /\ \/ OnlyChanges({s})
     \/ /\ entry'[s] = Forgotten(entry'[s])
        /\ OnlyChanges(Family(s))
        /\ \A t \in Family(s) \ {s} : entry'[t] = Forgotten(entry[t])
  /\ UNCHANGED <<global, torn>>

\* A site is deleted, a domain with its children.
Remove(s) ==
  /\ torn = 0 => \A t \in Family(s) : entry'[t] = Blank
  /\ OnlyChanges(Family(s))
  /\ UNCHANGED <<global, torn>>

\* The global settings are saved: every managed site is rendered with them.
Configure(g) ==
  /\ global' = g
  /\ entry' = [s \in Sites |-> Rendered(s, entry[s], g)]
  /\ UNCHANGED torn

\* A request on s, or a change of the global settings, is cut off.
Tear ==
  /\ torn' = torn + 1
  /\ \/ \E s \in Sites : OnlyChanges(Family(s)) /\ UNCHANGED global
     \/ \E g \in Globals :
          /\ global' \in {global, g}
          /\ \A s \in Sites : entry'[s] \in {entry[s], Rendered(s, entry[s], g)}

Next ==
  \/ \E s \in Sites : Save(s) \/ Remove(s)
  \/ \E g \in Globals : Configure(g)
  \/ Tear

Spec == Init /\ [][Next]_vars

=============================================================================
