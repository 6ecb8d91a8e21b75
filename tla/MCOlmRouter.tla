----------------------------- MODULE MCOlmRouter -----------------------------
(* OlmRouter on small widths: 2-bit octets, one in an IPv4 address and two   *)
(* in an IPv6 address; ranges that overlap, a default route, a host route,   *)
(* and a prefix that ends inside an octet.                                   *)
EXTENDS OlmRouter, TLC

SmallCidrs == {[net |-> <<2>>, prefix |-> 0], [net |-> <<2>>, prefix |-> 1],
               [net |-> <<3>>, prefix |-> 2], [net |-> <<2, 2>>, prefix |-> 3]}

Symmetry == Permutations(Endpoints)
=============================================================================
