------------------------------ MODULE MCWsRecv ------------------------------
(* WsRecv on small instances.                                              *)
EXTENDS WsRecv
=============================================================================
