------------------------------ MODULE MCJobRun ------------------------------
(* JobRun with two callers: the creating thread and one that may read or     *)
(* interrupt at any moment and may stop half-way.                            *)
EXTENDS JobRun, TLC

CONSTANTS c1, c2

TwoCallers == {c1, c2}
OneMortal == {c2}
=============================================================================
