--------------------------- MODULE MCJobAdmission ---------------------------
(* JobAdmission with two threads of one process. *)
EXTENDS JobAdmission, TLC

CONSTANTS t1, t2, p1, k1

TwoThreads == {t1, t2}
OneProcess == {p1}
Together == [c \in TwoThreads |-> p1]
OneKey == {k1}
EndsBadly == {"failed", "needs_choice"}

Symmetry == Permutations(TwoThreads)

=============================================================================
