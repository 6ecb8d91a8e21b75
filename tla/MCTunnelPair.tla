----------------------------- MODULE MCTunnelPair -----------------------------
(* TunnelPair on a small instance, given in MCTunnelPair.cfg.              *)
EXTENDS TunnelPair
===============================================================================
