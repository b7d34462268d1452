--------------------------- MODULE MCNginxSites ---------------------------
(***************************************************************************)
(* Instances of NginxSites for TLC: a domain with a child of each kind.    *)
(***************************************************************************)
EXTENDS NginxSites, TLC

CONSTANTS dom, sub, fold, u1, g1, g2

MCParent == [s \in {dom, sub, fold} |-> dom]
MCFolder == [s \in {fold} |-> s]

MCEdits ==
  [s \in {dom, sub, fold} |->
     IF s = fold THEN {<<1, u1>>} ELSE {<<1, u1>>, <<2, NoUpstream>>}]

Symmetry == Permutations({g1, g2})

=============================================================================
