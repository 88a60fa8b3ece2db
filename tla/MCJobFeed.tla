----------------------------- MODULE MCJobFeed -----------------------------
(* One job, one client and a few writes of the record.                       *)
EXTENDS JobFeed, TLC
=============================================================================
