------------------------------- MODULE MCBridge -------------------------------
(* Bridge on a small instance.                                               *)
EXTENDS Bridge
===============================================================================
