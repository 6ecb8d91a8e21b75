---------------------------- MODULE MCOlmSession ----------------------------
(* OlmSession on small instances.                                          *)
EXTENDS OlmSession
=============================================================================
