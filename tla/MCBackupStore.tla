--------------------------- MODULE MCBackupStore ---------------------------
EXTENDS BackupStore
CONSTANT p1
(* BackupStore, one operation after the other, on a store that already holds *)
(* three sets of earlier days, the first of them a safety set.               *)
MCStart == <<[day |-> 1, safety |-> TRUE], [day |-> 1, safety |-> FALSE], [day |-> 3, safety |-> FALSE]>>
MCLocal == [daily |-> 1, weekly |-> 1, monthly |-> 0]
MCOffsite == [daily |-> 1, weekly |-> 1, monthly |-> 1]
=============================================================================
