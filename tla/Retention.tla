----------------------------- MODULE Retention -----------------------------
(***************************************************************************)
(* Which backup sets of a site a retention policy keeps: _plan_for of      *)
(* core/backup_store.py.  A set is a record [day, safety, verified,        *)
(* offsite]; sets are numbered in the order they were taken.               *)
(***************************************************************************)
EXTENDS Integers, FiniteSets

CONSTANTS
    WeekLength, MonthLength,    \* in days
    SafetyDays, SafetyMax       \* how long, and how many, safety sets stay

ASSUME RetentionAssumption ==
    /\ WeekLength \in Nat \ {0} /\ MonthLength \in Nat \ {0}
    /\ SafetyDays \in Nat /\ SafetyMax \in Nat

Policies == [daily : Nat, weekly : Nat, monthly : Nat]

Verified(m) == {i \in DOMAIN m : m[i].verified}
Newer(m, i, j) == m[i].day > m[j].day \/ (m[i].day = m[j].day /\ i > j)

(* The newest verified set, if there is one.                                 *)
LastGood(m) == {i \in Verified(m) : \A j \in Verified(m) \ {i} : Newer(m, i, j)}

(* Safety sets, newest first, for some days and up to a number.              *)
SafetyKept(m, now) ==
    LET safety == {i \in Verified(m) : m[i].safety}
    IN {i \in safety : /\ Cardinality({j \in safety : Newer(m, j, i)}) < SafetyMax
                       /\ now - m[i].day <= SafetyDays}

(* The newest set of each of the newest count days, weeks or months.         *)
(* Defect: a day is looked at by its oldest set.                             *)
SlotsOldest(m, count, length) ==
    LET regular   == {i \in Verified(m) : ~m[i].safety}
        Bucket(i) == m[i].day \div length
    IN {i \in regular :
          /\ \A j \in regular \ {i} : Bucket(j) = Bucket(i) => Newer(m, j, i)
          /\ Cardinality({Bucket(j) : j \in {k \in regular : Bucket(k) > Bucket(i)}}) < count}

Slots(m, count, length) ==
    LET regular   == {i \in Verified(m) : ~m[i].safety}
        Bucket(i) == m[i].day \div length
    IN {i \in regular :
          /\ \A j \in regular \ {i} : Bucket(j) = Bucket(i) => Newer(m, i, j)
          /\ Cardinality({Bucket(j) : j \in {k \in regular : Bucket(k) > Bucket(i)}}) < count}

(* What did not verify stays for people to look at; with little disk left a  *)
(* set that has a copy off-site is kept only when it is the last good one.   *)
Keep(m, policy, now, low) ==
    LET kept == LastGood(m) \cup (DOMAIN m \ Verified(m)) \cup SafetyKept(m, now)
                \cup Slots(m, policy.daily, 1) \cup Slots(m, policy.weekly, WeekLength)
                \cup Slots(m, policy.monthly, MonthLength)
    IN {i \in kept : low /\ m[i].verified /\ m[i].offsite => i \in LastGood(m)}
=============================================================================
