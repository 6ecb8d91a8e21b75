---------------------------- MODULE MCSiteControl ----------------------------
(* SiteControl on a small instance.                                          *)
EXTENDS SiteControl
=============================================================================
