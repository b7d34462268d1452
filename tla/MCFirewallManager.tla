------------------------- MODULE MCFirewallManager -------------------------
(***************************************************************************)
(* Instances of FirewallManager for TLC.                                   *)
(***************************************************************************)
EXTENDS FirewallManager, TLC

CONSTANTS c1, c2, n1, e1, e2

Symmetry == Permutations({e1, e2})

=============================================================================
