--------------------------- MODULE MCJobRecorder ---------------------------
(* One job of a few events and two flush timers.                             *)
EXTENDS JobRecorder
CONSTANTS t1, t2
TwoTimers == {t1, t2}
=============================================================================
