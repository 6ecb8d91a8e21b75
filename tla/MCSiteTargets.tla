---------------------------- MODULE MCSiteTargets ----------------------------
(* SiteTargets on a small instance.                                          *)
EXTENDS SiteTargets, TLC

Symmetry == Permutations(Ports) \cup Permutations(Hosts)
=============================================================================
