---------------------------- MODULE MCHostLinks ----------------------------
(* One host and one page, with a few changes on each side.                   *)
EXTENDS HostLinks
=============================================================================
