------------------------------ MODULE MCForwards ------------------------------
(* Forwards on a small instance.                                             *)
EXTENDS Forwards
===============================================================================
