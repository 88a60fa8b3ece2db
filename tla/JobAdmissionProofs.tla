------------------------- MODULE JobAdmissionProofs -------------------------
(***************************************************************************)
(* Within one process, and as long as a spawned worker gets on record      *)
(* within the five seconds a reader grants it, create_job admits one job   *)
(* per project key at a time -- for any number of threads, keys and jobs.  *)
(*                                                                         *)
(* The invariant behind it: the lock lets one scan run at a time; a job    *)
(* that ended never becomes active again; so whatever is active while the  *)
(* scan holder decides was active when its scan read it.                   *)
(***************************************************************************)
EXTENDS JobAdmission, FiniteSetTheorems, TLAPS

SingleProcess == \A c, d \in Callers : ProcOf[c] = ProcOf[d]

\* One thread at a time is inside the lock.
LockInv == \A c, d \in Callers : Holds(c) /\ Holds(d) => c = d

\* Ids above "last" have never been used.
FreshInv ==
  \A j \in Jobs : j > last => /\ rec[j] = "absent"
                              /\ worker[j] = "none"
                              /\ ~recorded[j]
                              /\ young[j]

\* The job a thread is about to spawn: queued, and young enough to be kept.
SpawnInv ==
  \A c \in Callers :
    step[c] \in {"spawn", "record"} => made[c] \in Jobs

QueuedInv ==
  \A c \in Callers :
    step[c] = "spawn" => /\ made[c] <= last
                         /\ rec[made[c]] = "queued"
                         /\ worker[made[c]] = "none"
                         /\ young[made[c]] /\ ~recorded[made[c]]

\* A worker is on record, or its record is young.
StartInv ==
  \A j \in Jobs : /\ worker[j] = "starting" => recorded[j] \/ young[j]
                  /\ worker[j] = "verb" => recorded[j]

\* A job being continued has ended.
FromInv ==
  \A c \in Callers :
    from[c] # 0 => from[c] \in Jobs /\ from[c] <= last /\ rec[from[c]] \notin Active

Scanning == {"list", "admit"}

\* What a scan has read still tells active records from ended ones.
ScanInv ==
  \A c \in Callers : step[c] \in Scanning =>
    /\ step[c] = "admit" => todo[c] = {}
    /\ \A j \in todo[c] : j <= last
    /\ \A j \in Jobs \ todo[c] : rec[j] \in Active => seen[c][j] \in Active
    /\ \A j \in Jobs : seen[c][j] \notin Active \cup {"absent"}
                         => j <= last /\ rec[j] \notin Active

IInv ==
  /\ TypeOK
  /\ LockInv
  /\ FreshInv
  /\ SpawnInv
  /\ QueuedInv
  /\ StartInv
  /\ FromInv
  /\ ScanInv
  /\ WorkingIsActive
  /\ OneActivePerKey

-----------------------------------------------------------------------------
LEMMA JobFacts ==
  /\ \A j \in Jobs : j \in Nat /\ j > 0
  /\ \A n \in 0..MaxJobs : n < MaxJobs => n + 1 \in Jobs
  /\ \A n \in 0..MaxJobs : n \in Nat
  BY AdmissionAssumption DEF Jobs

LEMMA ReadAsFacts ==
  ASSUME TypeOK, StartInv, WorkingIsActive, NEW j \in Jobs
  PROVE  /\ ReadAs(j) \in Shown
         /\ ReadAs(j) \in Active => rec[j] \in Active
         /\ rec[j] \notin Active => ReadAs(j) = rec[j]
         /\ worker[j] \in {"starting", "verb"} => ReadAs(j) \in Active
         /\ ReadAs(j) = "absent" <=> rec[j] = "absent"
         /\ (~recorded[j] /\ young[j]) => ReadAs(j) = rec[j]
BY DEF ReadAs, Lost, Lives, TypeOK, StartInv, WorkingIsActive, Shown, States,
       Active

-----------------------------------------------------------------------------
(* Type correctness. *)

LEMMA InitType == Init => TypeOK
BY AdmissionAssumption DEF Init, TypeOK, NothingSeen, Shown, States, Active

USE DEF recVars, callVars

LEMMA CallType ==
  ASSUME TypeOK, SpawnInv, NEW c \in Callers,
         NEW k \in Keys \cup {NoKey}, NEW n \in 0..MaxJobs, NEW b \in BOOLEAN,
         Call(c, k, n, b)
  PROVE  TypeOK' /\ SpawnInv'
BY DEF Call, Goes, TypeOK, SpawnInv

LEMMA AskType ==
  ASSUME TypeOK, SpawnInv, NEW c \in Callers,
         AskNew(c) \/ AskRetry(c) \/ AskContinue(c)
  PROVE  TypeOK' /\ SpawnInv'
<1>1. \E k \in Keys \cup {NoKey}, n \in 0..MaxJobs, b \in BOOLEAN : Call(c, k, n, b)
  <2>1. 0 \in 0..MaxJobs
    BY AdmissionAssumption
  <2>2. ASSUME NEW j \in Jobs
        PROVE  /\ j \in 0..MaxJobs
               /\ key[j] \in Keys \cup {NoKey}
               /\ Held(c, j) \in BOOLEAN
    BY AdmissionAssumption DEF Jobs, TypeOK, Held
  <2>3. CASE AskNew(c)
    BY <2>1, <2>3, Zenon DEF AskNew
  <2>4. CASE AskRetry(c)
    BY <2>1, <2>2, <2>4, Zenon DEF AskRetry
  <2>5. CASE AskContinue(c)
    BY <2>2, <2>5, Zenon DEF AskContinue
  <2> QED
    BY <2>3, <2>4, <2>5
<1> QED
  BY <1>1, CallType, Zenon

LEMMA ReturnsType ==
  ASSUME TypeOK, SpawnInv, NEW c \in Callers, Returns(c)
  PROVE  /\ step' \in [Callers -> {"idle", "wait", "list", "admit",
                                   "spawn", "record", "answer"}]
         /\ wants' \in [Callers -> Keys \cup {NoKey}]
         /\ from' \in [Callers -> 0..MaxJobs]
         /\ brings' \in [Callers -> BOOLEAN]
         /\ seen' \in [Callers -> [Jobs -> Shown]]
         /\ made' \in [Callers -> 0..MaxJobs]
         /\ SpawnInv'
BY AdmissionAssumption DEF Returns, Goes, NothingSeen, Shown, TypeOK, SpawnInv

LEMMA RecordType ==
  ASSUME TypeOK, SpawnInv, NEW c \in Callers, Record(c)
  PROVE  TypeOK' /\ SpawnInv'
<1>1. recorded' \in [Jobs -> BOOLEAN]
  BY DEF Record, TypeOK
<1>2. CASE from[c] = 0
  <2>1. Returns(c)
    BY <1>2, Zenon DEF Record
  <2>2. UNCHANGED <<last, rec, key, young, worker, todo, secrets>>
    BY Zenon DEF Record
  <2> QED
    BY <1>1, <2>1, <2>2, ReturnsType DEF TypeOK
<1>3. CASE from[c] # 0
  BY <1>1, <1>3, ZenonT(60) DEF Record, Goes, TypeOK, SpawnInv
<1> QED
  BY <1>2, <1>3

LEMMA CallerType ==
  ASSUME TypeOK, SpawnInv, NEW c \in Callers, CallerNext(c)
  PROVE  TypeOK' /\ SpawnInv'
<1> USE AdmissionAssumption, JobFacts
    DEF TypeOK, SpawnInv, Shown, States, Active, Goes, Returns, NothingSeen
<1>2. CASE AskNew(c) \/ AskRetry(c) \/ AskContinue(c)
  BY <1>2, AskType
<1>5. CASE Acquire(c)
  BY <1>5 DEF Acquire, Existing
<1>6. CASE ReadOne(c)
  BY <1>6 DEF ReadOne, ReadAs
<1>8. CASE Prune(c)
  BY <1>8 DEF Prune, Surplus, Finished
<1>9. CASE Refuse(c)
  BY <1>9 DEF Refuse
<1>10. CASE Admit(c)
  BY <1>10 DEF Admit
<1>11. CASE SpawnWorker(c)
  BY <1>11 DEF SpawnWorker
<1>12. CASE Record(c)
  BY <1>12, RecordType
<1>13. CASE Answer(c)
  <2>1. rec' \in [Jobs -> Shown]
    BY <1>13 DEF Answer
  <2> QED
    BY <1>13, <2>1 DEF Answer
<1> QED
  BY <1>2, <1>5, <1>6, <1>8, <1>9, <1>10, <1>11, <1>12, <1>13
     DEF CallerNext

LEMMA JobType ==
  ASSUME TypeOK, SpawnInv, NEW j \in Jobs, JobNext(j)
  PROVE  TypeOK' /\ SpawnInv'
<1> USE AdmissionAssumption DEF TypeOK, SpawnInv, Shown, States, Active
<1>1. CASE Register(j)
  BY <1>1, ZenonT(60) DEF Register
<1>2. CASE Report(j)
  <2>1. rec' \in [Jobs -> Shown]
    BY <1>2, ZenonT(60) DEF Report
  <2>2. worker' \in [Jobs -> {"none", "starting", "verb", "leaving", "ended"}]
    BY <1>2 DEF Report
  <2> QED
    BY <1>2, <2>1, <2>2 DEF Report
<1>3. CASE LateInterrupt(j)
  BY <1>3 DEF LateInterrupt
<1>4. CASE WorkerEnds(j)
  BY <1>4 DEF WorkerEnds
<1>5. CASE Interrupt(j)
  BY <1>5 DEF Interrupt
<1>6. CASE Watch(j)
  BY <1>6 DEF Watch, ReadAs
<1>7. CASE Age(j)
  BY <1>7 DEF Age
<1> QED
  BY <1>1, <1>2, <1>3, <1>4, <1>5, <1>6, <1>7 DEF JobNext

LEMMA StopType ==
  ASSUME TypeOK, SpawnInv, NEW p \in Processes, ProcessStops(p)
  PROVE  TypeOK' /\ SpawnInv'
<1> USE DEF ProcessStops, TypeOK
<1>1. step' \in [Callers -> {"idle", "wait", "list", "admit", "spawn",
                             "record", "answer"}]
  OBVIOUS
<1>2. wants' \in [Callers -> Keys \cup {NoKey}] /\ from' \in [Callers -> 0..MaxJobs]
  BY AdmissionAssumption
<1>3. brings' \in [Callers -> BOOLEAN] /\ todo' \in [Callers -> SUBSET Jobs]
  OBVIOUS
<1>4. seen' \in [Callers -> [Jobs -> Shown]]
  BY DEF NothingSeen, Shown
<1>5. made' \in [Callers -> 0..MaxJobs] /\ secrets' \in [Processes -> SUBSET Jobs]
  BY AdmissionAssumption
<1>6. TypeOK'
  BY <1>1, <1>2, <1>3, <1>4, <1>5
<1>7. SpawnInv'
  BY DEF SpawnInv
<1> QED
  BY <1>6, <1>7

LEMMA TypeKept == TypeOK /\ SpawnInv /\ [Next]_vars => TypeOK' /\ SpawnInv'
<1> SUFFICES ASSUME TypeOK, SpawnInv, [Next]_vars PROVE TypeOK' /\ SpawnInv'
  OBVIOUS
<1>1. CASE UNCHANGED vars
  BY <1>1 DEF vars, TypeOK, SpawnInv
<1> QED
  BY <1>1, CallerType, JobType, StopType DEF Next

LEMMA TypeInvariance == Spec => [](TypeOK /\ SpawnInv)
<1>1. Init => TypeOK /\ SpawnInv
  BY InitType DEF Init, SpawnInv
<1> QED
  BY <1>1, TypeKept, PTL DEF Spec

\* Every variable keeps its type.
THEOREM TypeCorrect == Spec => []TypeOK
  BY TypeInvariance, PTL

-----------------------------------------------------------------------------
(* The invariant of one process with prompt workers. *)

LEMMA InitIInv == Init => IInv
<1> SUFFICES ASSUME Init PROVE IInv
  OBVIOUS
<1>1. TypeOK
  BY InitType
<1> QED
  BY <1>1, AdmissionAssumption
     DEF Init, IInv, LockInv, FreshInv, SpawnInv, QueuedInv, StartInv, FromInv,
         ScanInv, WorkingIsActive, OneActivePerKey, Holds, Locked, Scanning,
         NothingSeen, Active

\* No job comes back to life, and nothing about the callers changes.
Calm ==
  /\ last' = last
  /\ key' = key
  /\ \A j \in Jobs : rec'[j] \in Active => rec[j] \in Active

LEMMA CalmKeeps ==
  ASSUME IInv, Calm
  PROVE  /\ OneActivePerKey'
         /\ from' = from => FromInv'
         /\ (UNCHANGED <<step, todo, seen>>) => ScanInv'
BY DEF IInv, Calm, OneActivePerKey, FromInv, ScanInv, Scanning

LEMMA JobCalm ==
  ASSUME PromptStart, IInv, NEW j \in Jobs, JobNext(j)
  PROVE  Calm /\ WorkingIsActive' /\ StartInv' /\ FreshInv' /\ QueuedInv'
<1> USE DEF IInv, Calm, WorkingIsActive, StartInv, FreshInv, QueuedInv, SpawnInv,
            TypeOK
<1>1. CASE Register(j)
  <2>1. /\ worker[j] = "starting" /\ rec[j] \in Active
        /\ ~(j > last)
    BY <1>1 DEF Register
  <2>2. /\ worker' = [worker EXCEPT ![j] = "verb"]
        /\ rec' = [rec EXCEPT ![j] = "running"]
        /\ recorded' = [recorded EXCEPT ![j] = TRUE]
        /\ UNCHANGED <<last, key, young, callVars>>
    BY <1>1, <2>1 DEF Register, Active
  <2>3. Calm /\ WorkingIsActive'
    BY <2>1, <2>2 DEF Active
  <2>4. StartInv'
    BY <2>1, <2>2
  <2>5. FreshInv'
    BY <2>1, <2>2
  <2>6. QueuedInv'
    BY <2>1, <2>2
  <2> QED
    BY <2>3, <2>4, <2>5, <2>6
<1>2. CASE Report(j)
  BY <1>2, AdmissionAssumption DEF Report, Active
<1>3. CASE LateInterrupt(j)
  BY <1>3 DEF LateInterrupt, Active
<1>4. CASE WorkerEnds(j)
  BY <1>4 DEF WorkerEnds, Lives
<1>5. CASE Interrupt(j)
  BY <1>5 DEF Interrupt, Active
<1>6. CASE Watch(j)
  BY <1>6, ReadAsFacts DEF Watch
<1>7. CASE Age(j)
  <2>1. /\ j <= last /\ young[j] /\ ~recorded[j]
        /\ worker[j] \in {"none", "ended"}
        /\ \A c \in Callers : step[c] = "spawn" => made[c] # j
        /\ young' = [young EXCEPT ![j] = FALSE]
        /\ UNCHANGED <<last, rec, key, recorded, worker, callVars>>
    BY <1>7 DEF Age
  <2>2. Calm /\ WorkingIsActive'
    BY <2>1
  <2>3. StartInv'
    BY <2>1
  <2>4. ~(j > last)
    BY <2>1, JobFacts
  <2>5. FreshInv'
    BY <2>1, <2>4
  <2>6. \A i \in Jobs : i # j => young'[i] = young[i]
    BY <2>1
  <2>7. QueuedInv'
    BY <2>1, <2>6
  <2> QED
    BY <2>2, <2>3, <2>5, <2>7
<1> QED
  BY <1>1, <1>2, <1>3, <1>4, <1>5, <1>6, <1>7 DEF JobNext

LEMMA JobKeeps ==
  ASSUME PromptStart, IInv, NEW j \in Jobs, JobNext(j)
  PROVE  IInv'
<1>1. TypeOK' /\ SpawnInv'
  BY JobType DEF IInv
<1>2. Calm /\ WorkingIsActive' /\ StartInv' /\ FreshInv' /\ QueuedInv'
  BY JobCalm
<1>3. UNCHANGED callVars
  BY DEF JobNext, Register, Report, LateInterrupt, WorkerEnds, Interrupt,
         Watch, Age
<1>4. OneActivePerKey' /\ FromInv' /\ ScanInv'
  BY <1>2, <1>3, CalmKeeps
<1>5. LockInv'
  BY <1>3 DEF IInv, LockInv, Holds
<1> QED
  BY <1>1, <1>2, <1>4, <1>5 DEF IInv

LEMMA StopKeeps ==
  ASSUME IInv, NEW p \in Processes, ProcessStops(p)
  PROVE  IInv'
<1>1. TypeOK' /\ SpawnInv'
  BY StopType DEF IInv
<1>2. Calm /\ WorkingIsActive' /\ StartInv' /\ FreshInv' /\ OneActivePerKey'
  BY DEF ProcessStops, IInv, Calm, WorkingIsActive, StartInv, FreshInv,
         OneActivePerKey
<1>3. LockInv' /\ QueuedInv' /\ FromInv'
  BY DEF ProcessStops, IInv, TypeOK, LockInv, Holds, Locked, QueuedInv, FromInv
<1>4. ScanInv'
  BY DEF ProcessStops, IInv, TypeOK, ScanInv, Scanning
<1> QED
  BY <1>1, <1>2, <1>3, <1>4 DEF IInv

-----------------------------------------------------------------------------
(* The creating threads. *)

\* Calls, the lock, and the steps that write no record.
LEMMA AskKeeps ==
  ASSUME IInv, NEW c \in Callers, AskNew(c) \/ AskRetry(c) \/ AskContinue(c)
  PROVE  IInv'
<1>1. TypeOK' /\ SpawnInv'
  BY AskType DEF IInv
<1>2. /\ step[c] = "idle" /\ step' = [step EXCEPT ![c] = "wait"]
      /\ UNCHANGED <<recVars, worker, todo, seen, made>>
      /\ \E n \in Jobs \cup {0} :
           /\ from' = [from EXCEPT ![c] = n]
           /\ n # 0 => rec[n] \in {"needs_choice", "answered"}
  BY DEF AskNew, AskRetry, AskContinue, Call, Goes
<1>3. Calm /\ WorkingIsActive' /\ StartInv' /\ FreshInv' /\ OneActivePerKey'
  BY <1>2 DEF IInv, Calm, WorkingIsActive, StartInv, FreshInv, OneActivePerKey
<1>4. LockInv' /\ QueuedInv' /\ ScanInv'
  BY <1>2 DEF IInv, TypeOK, LockInv, Holds, Locked, QueuedInv, ScanInv, Scanning
<1>5. FromInv'
  <2>1. PICK n \in Jobs \cup {0} :
          /\ from' = [from EXCEPT ![c] = n]
          /\ n # 0 => rec[n] \in {"needs_choice", "answered"}
    BY <1>2
  <2>2. n # 0 => n <= last /\ rec[n] \notin Active
    BY <2>1, AdmissionAssumption DEF IInv, TypeOK, FreshInv, Active, Jobs
  <2> QED
    BY <1>2, <2>1, <2>2 DEF IInv, TypeOK, FromInv
<1> QED
  BY <1>1, <1>3, <1>4, <1>5 DEF IInv

LEMMA AcquireKeeps ==
  ASSUME SingleProcess, IInv, NEW c \in Callers, Acquire(c)
  PROVE  IInv'
<1>1. TypeOK' /\ SpawnInv'
  BY CallerType DEF IInv, CallerNext
<1>2. Calm /\ WorkingIsActive' /\ StartInv' /\ FreshInv' /\ OneActivePerKey'
      /\ FromInv'
  BY DEF Acquire, IInv, Calm, WorkingIsActive, StartInv, FreshInv,
         OneActivePerKey, FromInv
<1>3. LockInv' /\ QueuedInv'
  BY DEF Acquire, Goes, IInv, TypeOK, LockInv, LockFree, SingleProcess, Holds,
         Locked, QueuedInv
<1>4. ScanInv'
  <2>1. \A j \in Existing : j <= last
    BY AdmissionAssumption DEF Existing, IInv, TypeOK, FreshInv, Jobs
  <2>2. \A j \in Jobs \ Existing : rec[j] \notin Active
    BY DEF Existing, Active
  <2> QED
    BY <2>1, <2>2 DEF Acquire, Goes, IInv, TypeOK, ScanInv, Scanning, NothingSeen
<1> QED
  BY <1>1, <1>2, <1>3, <1>4 DEF IInv

\* Two scans never run at once, so nobody else's scan is disturbed.
LEMMA OnlyScan ==
  ASSUME IInv, NEW c \in Callers, Holds(c), NEW d \in Callers, d # c
  PROVE  step[d] \notin Locked
BY DEF IInv, LockInv, Holds

LEMMA ReadOneKeeps ==
  ASSUME IInv, NEW c \in Callers, ReadOne(c)
  PROVE  IInv'
<1>1. TypeOK' /\ SpawnInv'
  BY CallerType DEF IInv, CallerNext
<1> DEFINE j == CHOOSE i \in todo[c] :
                  /\ todo' = [todo EXCEPT ![c] = @ \ {i}]
                  /\ seen' = [seen EXCEPT ![c][i] = ReadAs(i)]
                  /\ rec' = [rec EXCEPT ![i] = ReadAs(i)]
<1>2. /\ j \in todo[c] /\ j \in Jobs
      /\ todo' = [todo EXCEPT ![c] = @ \ {j}]
      /\ seen' = [seen EXCEPT ![c][j] = ReadAs(j)]
      /\ rec' = [rec EXCEPT ![j] = ReadAs(j)]
  BY DEF ReadOne, IInv, TypeOK
<1> HIDE DEF j
<1>3. UNCHANGED <<last, key, recorded, young, worker, step, from, made>>
      /\ step[c] = "list"
  BY DEF ReadOne
<1>4. Calm /\ WorkingIsActive' /\ StartInv' /\ FreshInv' /\ QueuedInv' /\ LockInv'
  BY <1>2, <1>3, ReadAsFacts
     DEF IInv, TypeOK, Calm, WorkingIsActive, StartInv, FreshInv, QueuedInv,
         SpawnInv, LockInv, Holds
<1>5. OneActivePerKey' /\ FromInv'
  BY <1>3, <1>4, CalmKeeps
<1>6. ScanInv'
  <2>1. ASSUME NEW d \in Callers, d # c
        PROVE  step[d] \notin Scanning
    BY <1>3, <2>1, OnlyScan DEF Holds, Locked, Scanning
  <2>2. /\ \A i \in todo'[c] : i <= last
        /\ \A i \in Jobs \ todo'[c] : rec'[i] \in Active => seen'[c][i] \in Active
        /\ \A i \in Jobs : seen'[c][i] \notin Active \cup {"absent"}
                             => i <= last /\ rec'[i] \notin Active
    BY <1>2, <1>3, ReadAsFacts DEF IInv, TypeOK, ScanInv, Scanning
  <2> QED
    BY <1>3, <2>1, <2>2 DEF ScanInv, Scanning
<1> QED
  BY <1>1, <1>4, <1>5, <1>6 DEF IInv

LEMMA PruneKeeps ==
  ASSUME IInv, NEW c \in Callers, Prune(c)
  PROVE  IInv'
<1>1. TypeOK' /\ SpawnInv'
  BY CallerType DEF IInv, CallerNext
<1>2. \A j \in Surplus(c) : j \in Jobs /\ j <= last /\ rec[j] \notin Active
  BY DEF Prune, Surplus, Finished, IInv, ScanInv, Scanning
<1>3. UNCHANGED <<last, key, recorded, young, worker, from, made, todo, seen>>
      /\ step[c] = "list" /\ todo[c] = {} /\ step' = [step EXCEPT ![c] = "admit"]
      /\ rec' = [j \in Jobs |-> IF j \in Surplus(c) THEN "absent" ELSE rec[j]]
  BY DEF Prune, Goes
<1>4. Calm /\ WorkingIsActive' /\ StartInv' /\ FreshInv'
  BY <1>2, <1>3
     DEF IInv, TypeOK, Calm, WorkingIsActive, StartInv, FreshInv, Active
<1>5. OneActivePerKey' /\ FromInv'
  BY <1>3, <1>4, CalmKeeps
<1>6. LockInv' /\ QueuedInv'
  BY <1>2, <1>3 DEF IInv, TypeOK, LockInv, Holds, Locked, QueuedInv, SpawnInv,
                    Active
<1>7. ScanInv'
  BY <1>2, <1>3 DEF IInv, TypeOK, ScanInv, Scanning, Active
<1> QED
  BY <1>1, <1>4, <1>5, <1>6, <1>7 DEF IInv

LEMMA RefuseKeeps ==
  ASSUME IInv, NEW c \in Callers, Refuse(c)
  PROVE  IInv'
<1>1. TypeOK' /\ SpawnInv'
  BY CallerType DEF IInv, CallerNext
<1>2. Calm /\ WorkingIsActive' /\ StartInv' /\ FreshInv' /\ OneActivePerKey'
  BY DEF Refuse, IInv, Calm, WorkingIsActive, StartInv, FreshInv, OneActivePerKey
<1>3. LockInv' /\ QueuedInv' /\ FromInv' /\ ScanInv'
  BY DEF Refuse, Returns, Goes, IInv, TypeOK, LockInv, Holds, Locked, QueuedInv,
         FromInv, ScanInv, Scanning
<1> QED
  BY <1>1, <1>2, <1>3 DEF IInv

\* The heart of the argument: what is active on the same key was active when
\* the scan read it, so the thread would have been refused.
LEMMA AdmitKeeps ==
  ASSUME IInv, NEW c \in Callers, Admit(c)
  PROVE  IInv'
<1>1. TypeOK' /\ SpawnInv'
  BY CallerType DEF IInv, CallerNext
<1> DEFINE n == last + 1
<1>2. n \in Jobs /\ n > last
  BY JobFacts DEF Admit, IInv, TypeOK
<1>3. \A j \in Jobs : j > n => j > last
  BY <1>2, JobFacts DEF IInv, TypeOK
<1>4. \A j \in Jobs : j <= last => j <= n
  BY <1>2, JobFacts DEF IInv, TypeOK
<1>5. rec[n] = "absent" /\ worker[n] = "none" /\ ~recorded[n] /\ young[n]
  BY <1>2 DEF IInv, FreshInv
<1>6. /\ last' = n
      /\ rec' = [rec EXCEPT ![n] = "queued"]
      /\ key' = [key EXCEPT ![n] = wants[c]]
      /\ made' = [made EXCEPT ![c] = n]
      /\ step[c] = "admit" /\ step' = [step EXCEPT ![c] = "spawn"]
      /\ UNCHANGED <<recorded, young, worker, from, todo>>
      /\ ~Busy(c)
  BY DEF Admit, Goes
<1> HIDE DEF n
<1>7. OneActivePerKey'
  <2>1. \A j \in Jobs : rec[j] \in Active => key[j] # wants[c]
    BY <1>6 DEF Busy, IInv, ScanInv, Scanning
  <2>2. \A j \in Jobs : j # n => rec'[j] = rec[j] /\ key'[j] = key[j]
    BY <1>6 DEF IInv, TypeOK
  <2>3. key'[n] = wants[c]
    BY <1>2, <1>6 DEF IInv, TypeOK
  <2> QED
    BY <2>1, <2>2, <2>3 DEF IInv, OneActivePerKey
<1>8. WorkingIsActive' /\ StartInv' /\ FreshInv'
  <2>1. WorkingIsActive'
    BY <1>2, <1>5, <1>6 DEF IInv, TypeOK, WorkingIsActive, Active
  <2>2. StartInv'
    BY <1>6 DEF IInv, StartInv
  <2>3. \A j \in Jobs : j > n => j # n
    BY <1>2, JobFacts
  <2>4. FreshInv'
    BY <1>2, <1>3, <1>6, <2>3 DEF IInv, TypeOK, FreshInv
  <2> QED
    BY <2>1, <2>2, <2>4
<1>9. LockInv' /\ FromInv'
  BY <1>2, <1>4, <1>6 DEF IInv, TypeOK, LockInv, Holds, Locked, FromInv
<1>10. ScanInv'
  <2>1. ASSUME NEW d \in Callers, d # c
        PROVE  step[d] \notin Scanning
    BY <1>6, <2>1, OnlyScan DEF Holds, Locked, Scanning
  <2> QED
    BY <1>6, <2>1 DEF IInv, TypeOK, ScanInv, Scanning
<1>11. QueuedInv'
  <2>1. ASSUME NEW d \in Callers, d # c
        PROVE  step[d] # "spawn"
    BY <1>6, <2>1, OnlyScan DEF Holds, Locked
  <2>2. n <= n
    BY <1>2, JobFacts
  <2> QED
    BY <1>2, <1>5, <1>6, <2>1, <2>2 DEF IInv, TypeOK, QueuedInv
<1> QED
  BY <1>1, <1>7, <1>8, <1>9, <1>10, <1>11 DEF IInv

LEMMA SpawnKeeps ==
  ASSUME IInv, NEW c \in Callers, SpawnWorker(c)
  PROVE  IInv'
<1>1. TypeOK' /\ SpawnInv'
  BY CallerType DEF IInv, CallerNext
<1> DEFINE n == made[c]
<1>2. /\ n \in Jobs /\ n <= last /\ ~(n > last)
      /\ rec[n] = "queued" /\ young[n]
  BY JobFacts DEF SpawnWorker, IInv, TypeOK, SpawnInv, QueuedInv
<1>3. /\ step[c] = "spawn" /\ step' = [step EXCEPT ![c] = "record"]
      /\ worker' = [worker EXCEPT ![n] = "starting"]
      /\ UNCHANGED <<recVars, from, todo, seen, made>>
  BY DEF SpawnWorker, Goes
<1> HIDE DEF n
<1>4. OneActivePerKey' /\ FromInv'
  BY <1>3 DEF IInv, OneActivePerKey, FromInv
<1>5. WorkingIsActive' /\ StartInv' /\ FreshInv'
  BY <1>2, <1>3 DEF IInv, TypeOK, WorkingIsActive, StartInv, FreshInv, Active
<1>6. LockInv' /\ ScanInv'
  BY <1>3 DEF IInv, TypeOK, LockInv, Holds, Locked, ScanInv, Scanning
<1>7. QueuedInv'
  <2>1. ASSUME NEW d \in Callers
        PROVE  step'[d] # "spawn"
    BY <1>3, <2>1, OnlyScan DEF Holds, Locked, IInv, TypeOK
  <2> QED
    BY <2>1 DEF QueuedInv
<1> QED
  BY <1>1, <1>4, <1>5, <1>6, <1>7 DEF IInv

LEMMA RecordKeeps ==
  ASSUME IInv, NEW c \in Callers, Record(c)
  PROVE  IInv'
<1>1. TypeOK' /\ SpawnInv'
  BY RecordType DEF IInv
<1>2. /\ step[c] = "record"
      /\ \/ step' = [step EXCEPT ![c] = "idle"] /\ from' = [from EXCEPT ![c] = 0]
         \/ step' = [step EXCEPT ![c] = "answer"] /\ from' = from
      /\ UNCHANGED <<last, rec, key, young, worker, todo>>
      /\ \/ recorded' = recorded
         \/ /\ recorded' = [recorded EXCEPT ![made[c]] = TRUE]
            /\ rec[made[c]] \in Active \cup {"answered"}
      /\ \A d \in Callers : d # c => seen'[d] = seen[d] /\ made'[d] = made[d]
  BY DEF Record, Returns, Goes, IInv, TypeOK
<1>3. OneActivePerKey' /\ WorkingIsActive'
  BY <1>2 DEF IInv, OneActivePerKey, WorkingIsActive
<1>4. made[c] \in Jobs
  BY <1>2 DEF IInv, SpawnInv
<1>5. \A j \in Jobs : recorded[j] => recorded'[j]
  BY <1>2, ZenonT(60) DEF IInv, TypeOK
<1>6. StartInv'
  BY <1>2, <1>5 DEF IInv, StartInv
<1>7. FreshInv'
  <2>1. recorded' = recorded \/ rec[made[c]] # "absent"
    BY <1>2 DEF Active
  <2> QED
    BY <1>2, <2>1, SMTT(60) DEF IInv, TypeOK, FreshInv
<1>8. FromInv'
  BY <1>2, ZenonT(60) DEF IInv, TypeOK, FromInv
<1>9. ASSUME NEW d \in Callers
      PROVE  step'[d] \notin Locked
  BY <1>2, <1>9, OnlyScan, SMTT(60) DEF Holds, Locked, IInv, TypeOK
<1>10. LockInv'
  BY <1>9 DEF LockInv, Holds
<1>11. QueuedInv' /\ ScanInv'
  BY <1>9 DEF QueuedInv, ScanInv, Locked, Scanning
<1> QED
  BY <1>1, <1>3, <1>6, <1>7, <1>8, <1>10, <1>11 DEF IInv

LEMMA AnswerKeeps ==
  ASSUME IInv, NEW c \in Callers, Answer(c)
  PROVE  IInv'
<1>1. TypeOK' /\ SpawnInv'
  BY CallerType DEF IInv, CallerNext
<1>2. /\ step[c] = "answer" /\ step' = [step EXCEPT ![c] = "idle"]
      /\ from' = [from EXCEPT ![c] = 0]
      /\ UNCHANGED <<last, key, recorded, young, worker, todo>>
      /\ \/ rec' = rec
         \/ rec[from[c]] # "absent" /\ rec' = [rec EXCEPT ![from[c]] = "answered"]
      /\ \A d \in Callers : d # c => seen'[d] = seen[d] /\ made'[d] = made[d]
  BY DEF Answer, Returns, Goes, IInv, TypeOK
<1>3. /\ \A j \in Jobs : rec'[j] \in Active <=> rec[j] \in Active
      /\ \A j \in Jobs : rec'[j] # rec[j] => rec[j] \notin Active
      /\ \A j \in Jobs : rec[j] = "absent" => rec'[j] = "absent"
  <2>1. CASE rec' = rec
    BY <2>1
  <2>2. CASE rec[from[c]] # "absent" /\ rec' = [rec EXCEPT ![from[c]] = "answered"]
    <3>1. \A j \in Jobs : j = from[c] => rec'[j] = "answered"
      BY <2>2 DEF IInv, TypeOK
    <3>2. \A j \in Jobs : j # from[c] => rec'[j] = rec[j]
      BY <2>2 DEF IInv, TypeOK
    <3>3. \A j \in Jobs : j = from[c] => rec[j] \notin Active
      BY JobFacts DEF IInv, FromInv
    <3> QED
      BY <2>2, <3>1, <3>2, <3>3 DEF Active
  <2> QED
    BY <1>2, <2>1, <2>2
<1>4. Calm /\ WorkingIsActive' /\ StartInv' /\ FreshInv'
  BY <1>2, <1>3
     DEF IInv, Calm, WorkingIsActive, StartInv, FreshInv
<1>5. OneActivePerKey'
  BY <1>4, CalmKeeps
<1>6. FromInv' /\ LockInv'
  BY <1>2, <1>3 DEF IInv, TypeOK, FromInv, LockInv, Holds, Locked
<1>7. QueuedInv'
  BY <1>2, <1>3 DEF IInv, TypeOK, QueuedInv, SpawnInv, Active
<1>8. ScanInv'
  BY <1>2, <1>3 DEF IInv, TypeOK, ScanInv, Scanning
<1> QED
  BY <1>1, <1>4, <1>5, <1>6, <1>7, <1>8 DEF IInv

LEMMA NextKeeps ==
  ASSUME SingleProcess, PromptStart, IInv, [Next]_vars
  PROVE  IInv'
<1>1. ASSUME NEW c \in Callers, CallerNext(c)
      PROVE  IInv'
  BY <1>1, AskKeeps, AcquireKeeps, ReadOneKeeps, PruneKeeps,
     RefuseKeeps, AdmitKeeps, SpawnKeeps, RecordKeeps, AnswerKeeps DEF CallerNext
<1>2. CASE UNCHANGED vars
  BY <1>2 DEF vars, IInv, TypeOK, LockInv, Holds, FreshInv, SpawnInv, QueuedInv,
     StartInv, FromInv, ScanInv, WorkingIsActive, OneActivePerKey
<1> QED
  BY <1>1, <1>2, JobKeeps, StopKeeps DEF Next

-----------------------------------------------------------------------------
\* In one process whose workers start promptly, a project key never has two
\* active jobs, whatever its threads, its readers, the workers and a restart
\* of the process do.
THEOREM OneJobPerInstance ==
  ASSUME SingleProcess, PromptStart
  PROVE  Spec => []OneActivePerKey
<1>1. IInv => OneActivePerKey
  BY DEF IInv
<1>2. IInv /\ [Next]_vars => IInv'
  BY NextKeeps
<1> QED
  BY <1>1, <1>2, InitIInv, PTL DEF Spec

\* Under the same conditions no reader and no prune takes the record of a
\* worker that may still touch its instance out of the active states.
THEOREM WorkersStayOnRecord ==
  ASSUME SingleProcess, PromptStart
  PROVE  Spec => []WorkingIsActive
<1>1. IInv => WorkingIsActive
  BY DEF IInv
<1>2. IInv /\ [Next]_vars => IInv'
  BY NextKeeps
<1> QED
  BY <1>1, <1>2, InitIInv, PTL DEF Spec

-----------------------------------------------------------------------------
(* The passwords.  One process, its workers as slow as they like: the record *)
(* of a job is taken away by the prune of the lock's holder alone, so what a *)
(* thread is about to spawn, and keeps passwords for, still has its record.  *)

MadeInv == \A c \in Callers : step[c] = "spawn" => rec[made[c]] # "absent"

\* A process none of whose threads create jobs holds none.
IdleSecrets == \A p \in Processes : (\A c \in Callers : ProcOf[c] # p) => secrets[p] = {}

SInv == TypeOK /\ SpawnInv /\ LockInv /\ MadeInv /\ IdleSecrets /\ SecretsForgotten

NoneForgotten == \A j \in Jobs : rec[j] # "absent" => rec'[j] # "absent"

LEMMA OnlyPruneForgets ==
  ASSUME TypeOK, SpawnInv, [Next]_vars
  PROVE  NoneForgotten \/ \E c \in Callers : Prune(c)
<1> USE DEF NoneForgotten, TypeOK
<1>1. ASSUME NEW c \in Callers, CallerNext(c)
      PROVE  NoneForgotten \/ Prune(c)
  <2>1. CASE ReadOne(c)
    BY <2>1 DEF ReadOne, ReadAs
  <2>2. CASE Admit(c)
    BY <2>2, JobFacts DEF Admit
  <2>3. CASE Answer(c)
    BY <2>3 DEF Answer
  <2>4. CASE UNCHANGED rec
    BY <2>4
  <2> QED
    BY <1>1, <2>1, <2>2, <2>3, <2>4
       DEF CallerNext, AskNew, AskRetry, AskContinue, Call, Acquire, Refuse, SpawnWorker, Record
<1>2. ASSUME NEW j \in Jobs, JobNext(j)
      PROVE  NoneForgotten
  <2>1. CASE Register(j)
    BY <2>1 DEF Register
  <2>2. CASE Report(j)
    BY <2>2, AdmissionAssumption DEF Report
  <2>3. CASE LateInterrupt(j) \/ Interrupt(j)
    BY <2>3 DEF LateInterrupt, Interrupt
  <2>4. CASE Watch(j)
    BY <2>4 DEF Watch, ReadAs
  <2>5. CASE WorkerEnds(j) \/ Age(j)
    BY <2>5 DEF WorkerEnds, Age
  <2> QED
    BY <1>2, <2>1, <2>2, <2>3, <2>4, <2>5 DEF JobNext
<1>3. CASE \E p \in Processes : ProcessStops(p)
  BY <1>3 DEF ProcessStops
<1>4. CASE UNCHANGED vars
  BY <1>4 DEF vars
<1> QED
  BY <1>1, <1>2, <1>3, <1>4 DEF Next

\* A thread enters the lock only when nobody of its process is inside.
LEMMA LockKept ==
  ASSUME SingleProcess, TypeOK, LockInv, [Next]_vars
  PROVE  LockInv'
<1> USE DEF TypeOK, LockInv, Holds, Locked
<1>1. ASSUME NEW c \in Callers, CallerNext(c)
      PROVE  LockInv'
  <2>1. PICK s : step' = [step EXCEPT ![c] = s] /\ (s \in Locked => Holds(c) \/ LockFree(c))
    <3>1. CASE AskNew(c) \/ AskRetry(c) \/ AskContinue(c)
      BY <3>1 DEF AskNew, AskRetry, AskContinue, Call, Goes
    <3>2. CASE Acquire(c)
      BY <3>2 DEF Acquire, Goes
    <3>3. CASE ReadOne(c)
      <4>1. step' = [step EXCEPT ![c] = "list"] /\ step[c] = "list"
        BY <3>3 DEF ReadOne
      <4> QED
        BY <4>1
    <3>4. CASE Prune(c) \/ Refuse(c) \/ Admit(c) \/ SpawnWorker(c) \/ Record(c) \/ Answer(c)
      BY <3>4 DEF Prune, Refuse, Admit, SpawnWorker, Record, Answer, Returns, Goes
    <3> QED
      BY <1>1, <3>1, <3>2, <3>3, <3>4 DEF CallerNext
  <2>2. CASE s \notin Locked
    BY <2>1, <2>2
  <2>3. CASE s \in Locked /\ Holds(c)
    BY <2>1, <2>3
  <2>4. CASE s \in Locked /\ LockFree(c)
    BY <2>1, <2>4 DEF LockFree, SingleProcess
  <2> QED
    BY <2>1, <2>2, <2>3, <2>4
<1>2. CASE \E j \in Jobs : JobNext(j)
  BY <1>2 DEF JobNext, Register, Report, LateInterrupt, WorkerEnds, Interrupt, Watch, Age
<1>3. CASE \E p \in Processes : ProcessStops(p)
  BY <1>3 DEF ProcessStops
<1>4. CASE UNCHANGED vars
  BY <1>4 DEF vars
<1> QED
  BY <1>1, <1>2, <1>3, <1>4 DEF Next

\* Nobody but a thread that spawns adds passwords.
LEMMA SecretsShrink ==
  ASSUME TypeOK, [Next]_vars, NEW p \in Processes
  PROVE  secrets'[p] \subseteq secrets[p] \/ \E c \in Callers : SpawnWorker(c)
<1> USE DEF TypeOK
<1>1. ASSUME NEW c \in Callers, CallerNext(c)
      PROVE  secrets'[p] \subseteq secrets[p] \/ SpawnWorker(c)
  <2>1. CASE ReadOne(c)
    BY <2>1 DEF ReadOne
  <2>2. CASE Prune(c)
    BY <2>2 DEF Prune
  <2>3. CASE UNCHANGED secrets
    BY <2>3
  <2> QED
    BY <1>1, <2>1, <2>2, <2>3
       DEF CallerNext, AskNew, AskRetry, AskContinue, Call, Acquire, Refuse, Admit, Record, Answer
<1>2. CASE \E j \in Jobs : JobNext(j)
  <2>1. CASE UNCHANGED secrets
    BY <2>1
  <2>2. CASE \E j \in Jobs : Watch(j)
    <3>1. PICK j \in Jobs, q \in Processes :
            secrets' = IF rec[j] = "succeeded" THEN [secrets EXCEPT ![q] = @ \ {j}] ELSE secrets
      BY <2>2 DEF Watch
    <3> QED
      BY <3>1
  <2> QED
    BY <1>2, <2>1, <2>2 DEF JobNext, Register, Report, LateInterrupt, WorkerEnds, Interrupt, Age
<1>3. CASE \E q \in Processes : ProcessStops(q)
  BY <1>3 DEF ProcessStops
<1>4. CASE UNCHANGED vars
  BY <1>4 DEF vars
<1> QED
  BY <1>1, <1>2, <1>3, <1>4 DEF Next

LEMMA SecretsKept ==
  ASSUME SingleProcess, SInv, [Next]_vars
  PROVE  SInv'
<1> USE DEF SInv
<1>1. TypeOK' /\ SpawnInv' /\ LockInv'
  BY TypeKept, LockKept
<1>2. CASE \E c \in Callers : SpawnWorker(c)
  <2>1. PICK c \in Callers : SpawnWorker(c)
    BY <1>2
  <2>2. /\ step[c] = "spawn" /\ step' = [step EXCEPT ![c] = "record"] /\ made' = made /\ rec' = rec
        /\ made[c] \in Jobs /\ rec[made[c]] # "absent"
        /\ secrets' = IF brings[c] THEN [secrets EXCEPT ![ProcOf[c]] = @ \cup {made[c]}] ELSE secrets
    BY <2>1 DEF SpawnWorker, Goes, SpawnInv, MadeInv
  <2>3. MadeInv'
    BY <2>2 DEF MadeInv, TypeOK
  <2>4. SecretsForgotten' /\ IdleSecrets'
    BY <2>2, AdmissionAssumption, ZenonT(60) DEF SecretsForgotten, IdleSecrets, Existing, TypeOK
  <2> QED
    BY <1>1, <2>3, <2>4
<1>3. CASE ~\E c \in Callers : SpawnWorker(c)
  <2>1. \A p \in Processes : secrets'[p] \subseteq secrets[p]
    BY <1>3, SecretsShrink
  <2>2. IdleSecrets'
    BY <2>1 DEF IdleSecrets
  <2>3. CASE \E c \in Callers : Prune(c)
    <3>1. PICK c \in Callers : Prune(c)
      BY <2>3
    <3>2. /\ step[c] = "list" /\ step' = [step EXCEPT ![c] = "admit"] /\ made' = made
          /\ rec' = [j \in Jobs |-> IF j \in Surplus(c) THEN "absent" ELSE rec[j]]
          /\ secrets' = [secrets EXCEPT ![ProcOf[c]] = @ \ Surplus(c)]
      BY <3>1 DEF Prune, Goes
    <3>3. \A d \in Callers : step'[d] # "spawn"
      BY <3>2 DEF LockInv, Holds, Locked, TypeOK
    <3>4. SecretsForgotten'
      BY <3>2, AdmissionAssumption, ZenonT(60) DEF SecretsForgotten, IdleSecrets, Existing, TypeOK, SingleProcess
    <3> QED
      BY <1>1, <2>2, <3>3, <3>4 DEF MadeInv
  <2>4. CASE NoneForgotten
    <3>1. SecretsForgotten'
      BY <2>1, <2>4 DEF SecretsForgotten, Existing, NoneForgotten
    <3>2. \A c \in Callers : step'[c] = "spawn" => rec'[made'[c]] # "absent"
      <4> SUFFICES ASSUME NEW c \in Callers, step'[c] = "spawn" PROVE rec'[made'[c]] # "absent"
        OBVIOUS
      <4>1. CASE Admit(c)
        BY <4>1, JobFacts DEF Admit, TypeOK
      <4>2. CASE step[c] = "spawn" /\ made'[c] = made[c]
        BY <2>4, <4>2 DEF MadeInv, SpawnInv, NoneForgotten
      <4>3. Admit(c) \/ (step[c] = "spawn" /\ made'[c] = made[c])
        <5>1. ASSUME NEW d \in Callers, CallerNext(d)
              PROVE  Admit(c) \/ (step[c] = "spawn" /\ made'[c] = made[c])
          BY <5>1 DEF CallerNext, AskNew, AskRetry, AskContinue, Call, Acquire, ReadOne, Prune, Refuse, Admit,
                      SpawnWorker, Record, Answer, Returns, Goes, TypeOK
        <5>2. CASE \E j \in Jobs : JobNext(j)
          BY <5>2 DEF JobNext, Register, Report, LateInterrupt, WorkerEnds, Interrupt, Watch, Age
        <5>3. CASE \E p \in Processes : ProcessStops(p)
          BY <5>3 DEF ProcessStops
        <5> QED
          BY <5>1, <5>2, <5>3 DEF Next, vars
      <4> QED
        BY <4>1, <4>2, <4>3
    <3> QED
      BY <1>1, <2>2, <3>1, <3>2 DEF MadeInv
  <2> QED
    BY <2>3, <2>4, OnlyPruneForgets
<1> QED
  BY <1>2, <1>3

(* In one process no password outlives the record it was typed for, however  *)
(* many threads create, retry and continue jobs, and however slowly workers  *)
(* start (_RETRY_SECRETS, _prune_finished_jobs).                             *)
THEOREM PasswordsForgotten ==
  ASSUME SingleProcess
  PROVE  Spec => []SecretsForgotten
<1>1. Init => SInv
  BY InitType DEF Init, SInv, SpawnInv, LockInv, Holds, Locked, MadeInv, IdleSecrets, SecretsForgotten
<1>2. SInv /\ [Next]_vars => SInv'
  BY SecretsKept
<1>3. SInv => SecretsForgotten
  BY DEF SInv
<1> QED
  BY <1>1, <1>2, <1>3, PTL DEF Spec

-----------------------------------------------------------------------------
(* Every job's life, and the history.  On top of IInv: a record a scan read  *)
(* as ended is still there, a worker in its verb has a running or            *)
(* interrupting record, and a job that is being continued waits for its      *)
(* answer, has it, or was interrupted late.                                  *)

SeenInv ==
  \A c \in Callers : step[c] = "list" =>
    \A j \in Jobs : seen[c][j] \notin Active \cup {"absent"} => rec[j] # "absent"

VerbInv ==
  \A j \in Jobs : /\ worker[j] = "verb" => rec[j] \in {"running", "interrupting"}
                  /\ worker[j] = "leaving" => recorded[j]

Answerable == {"needs_choice", "answered", "interrupted", "absent"}

AnswerInv == \A c \in Callers : from[c] # 0 => rec[from[c]] \in Answerable

LInv == IInv /\ SeenInv /\ VerbInv /\ AnswerInv

\* A reader leaves a record on which a worker is, or which has ended.
LEMMA ReadAsKeeps ==
  ASSUME LInv, NEW j \in Jobs
  PROVE  /\ worker[j] = "verb" => ReadAs(j) = rec[j]
         /\ rec[j] \in Answerable => ReadAs(j) = rec[j]
BY DEF LInv, IInv, ReadAs, Lost, Lives, StartInv, Answerable, Active

LEMMA VerbKept ==
  ASSUME LInv, [Next]_vars
  PROVE  VerbInv'
<1> USE DEF LInv, IInv, TypeOK, VerbInv
<1>1. CASE UNCHANGED <<rec, worker, recorded>>
  BY <1>1
<1>2. ASSUME NEW c \in Callers, CallerNext(c)
      PROVE  VerbInv'
  <2>1. CASE ReadOne(c)
    BY <2>1, ReadAsKeeps DEF ReadOne
  <2>2. CASE Prune(c)
    <3>1. \A j \in Surplus(c) : rec[j] \notin Active
      BY <2>2 DEF Prune, Surplus, Finished, ScanInv, Scanning
    <3> QED
      BY <2>2, <3>1 DEF Prune, Active
  <2>3. CASE Admit(c)
    <3>1. last + 1 \in Jobs /\ worker[last + 1] = "none"
      BY <2>3, JobFacts DEF Admit, FreshInv
    <3> QED
      BY <2>3, <3>1 DEF Admit
  <2>4. CASE SpawnWorker(c)
    BY <2>4 DEF SpawnWorker, SpawnInv
  <2>5. CASE Record(c)
    <3>1. UNCHANGED <<rec, worker>> /\ \A j \in Jobs : recorded[j] => recorded'[j]
      BY <2>5 DEF Record
    <3> QED
      BY <3>1
  <2>6. CASE Answer(c)
    <3>1. UNCHANGED <<worker, recorded>> /\ \A j \in Jobs : rec'[j] # rec[j] => j = from[c] /\ from[c] # 0
      BY <2>6, JobFacts DEF Answer
    <3>2. \A j \in Jobs : rec'[j] # rec[j] => rec[j] \in Answerable
      BY <3>1 DEF AnswerInv
    <3> QED
      BY <3>1, <3>2 DEF Answerable
  <2> QED
    BY <1>1, <1>2, <2>1, <2>2, <2>3, <2>4, <2>5, <2>6
       DEF CallerNext, AskNew, AskRetry, AskContinue, Call, Acquire, Refuse
<1>3. ASSUME NEW j \in Jobs, JobNext(j)
      PROVE  VerbInv'
  <2>1. CASE Register(j)
    BY <2>1 DEF Register
  <2>2. CASE Report(j)
    <3>1. worker' = [worker EXCEPT ![j] = "leaving"] /\ recorded' = recorded /\ recorded[j]
          /\ \A i \in Jobs : i # j => rec'[i] = rec[i]
      BY <2>2 DEF Report, StartInv
    <3> QED
      BY <3>1
  <2>3. CASE LateInterrupt(j) \/ Interrupt(j)
    BY <2>3, SMTT(60) DEF LateInterrupt, Interrupt
  <2>4. CASE WorkerEnds(j)
    BY <2>4 DEF WorkerEnds
  <2>5. CASE Watch(j)
    BY <2>5, ReadAsKeeps DEF Watch
  <2> QED
    BY <1>1, <1>3, <2>1, <2>2, <2>3, <2>4, <2>5 DEF JobNext, Age
<1> QED
  BY <1>1, <1>2, <1>3 DEF Next, vars, ProcessStops

LEMMA AnswerKept ==
  ASSUME LInv, [Next]_vars
  PROVE  AnswerInv'
<1> USE DEF LInv, IInv, TypeOK, AnswerInv
<1> DEFINE Stay == \A j \in Jobs : rec[j] \in Answerable => rec'[j] \in Answerable
<1>1. CASE Stay /\ UNCHANGED from
  BY <1>1 DEF FromInv
<1>2. ASSUME NEW c \in Callers, CallerNext(c)
      PROVE  AnswerInv'
  <2>1. CASE AskNew(c) \/ AskRetry(c) \/ AskContinue(c)
    <3>1. UNCHANGED rec /\ \E n \in Jobs \cup {0} : /\ from' = [from EXCEPT ![c] = n]
                                                    /\ n # 0 => rec[n] \in Answerable
      BY <2>1 DEF AskNew, AskRetry, AskContinue, Call, Answerable
    <3> QED
      BY <3>1
  <2>2. CASE ReadOne(c)
    <3>1. Stay /\ UNCHANGED from
      BY <2>2, ReadAsKeeps DEF ReadOne
    <3> QED
      BY <1>1, <3>1
  <2>3. CASE Prune(c)
    <3>1. Stay /\ UNCHANGED from
      BY <2>3 DEF Prune, Answerable
    <3> QED
      BY <1>1, <3>1
  <2>4. CASE Admit(c)
    <3>1. last + 1 \in Jobs /\ \A d \in Callers : from[d] # 0 => from[d] # last + 1 /\ from[d] \in Jobs
      BY <2>4, JobFacts DEF Admit, FromInv
    <3> QED
      BY <2>4, <3>1 DEF Admit
  <2>5. CASE Refuse(c) \/ Answer(c) \/ Record(c)
    <3>1. \A d \in Callers : from'[d] \in {from[d], 0}
      BY <2>5 DEF Refuse, Answer, Record, Returns
    <3>2. Stay
      BY <2>5 DEF Refuse, Answer, Record, Answerable
    <3> QED
      BY <3>1, <3>2 DEF FromInv
  <2>6. CASE Acquire(c) \/ SpawnWorker(c)
    BY <1>1, <2>6 DEF Acquire, SpawnWorker
  <2> QED
    BY <1>2, <2>1, <2>2, <2>3, <2>4, <2>5, <2>6 DEF CallerNext
<1>3. ASSUME NEW j \in Jobs, JobNext(j)
      PROVE  AnswerInv'
  <2>1. UNCHANGED from
    BY <1>3 DEF JobNext, Register, Report, LateInterrupt, WorkerEnds, Interrupt, Watch, Age
  <2>2. CASE Register(j) \/ Report(j)
    <3>1. rec[j] \in Active /\ \A i \in Jobs : i # j => rec'[i] = rec[i]
      BY <2>2 DEF Register, Report, WorkingIsActive
    <3> QED
      BY <1>1, <2>1, <3>1 DEF Answerable, Active
  <2>3. CASE LateInterrupt(j) \/ Interrupt(j)
    BY <1>1, <2>1, <2>3 DEF LateInterrupt, Interrupt, Answerable
  <2>4. CASE Watch(j)
    BY <1>1, <2>1, <2>4, ReadAsKeeps DEF Watch
  <2>5. CASE WorkerEnds(j) \/ Age(j)
    BY <1>1, <2>1, <2>5 DEF WorkerEnds, Age
  <2> QED
    BY <1>3, <2>2, <2>3, <2>4, <2>5 DEF JobNext
<1>4. CASE \E p \in Processes : ProcessStops(p)
  BY <1>4 DEF ProcessStops
<1>5. CASE UNCHANGED vars
  BY <1>1, <1>5 DEF vars
<1> QED
  BY <1>2, <1>3, <1>4, <1>5 DEF Next

LEMMA SeenKept ==
  ASSUME LInv, [Next]_vars
  PROVE  SeenInv'
<1> USE DEF LInv, IInv, TypeOK, SeenInv
<1>1. CASE \E c \in Callers : Prune(c)
  <2>1. PICK c \in Callers : Prune(c)
    BY <1>1
  <2>2. step[c] = "list" /\ step' = [step EXCEPT ![c] = "admit"]
    BY <2>1 DEF Prune, Goes
  <2>3. \A d \in Callers : step'[d] # "list"
    BY <2>2, OnlyScan DEF Holds, Locked
  <2> QED
    BY <2>3
<1>2. CASE NoneForgotten
  <2>1. ASSUME NEW c \in Callers, CallerNext(c)
        PROVE  SeenInv'
    <3>1. CASE Acquire(c)
      BY <2>1, <3>1, <1>2 DEF Acquire, Goes, NothingSeen, NoneForgotten
    <3>2. CASE ReadOne(c)
      <4>1. PICK j \in todo[c] : /\ seen' = [seen EXCEPT ![c][j] = ReadAs(j)]
                                 /\ rec' = [rec EXCEPT ![j] = ReadAs(j)]
        BY <3>2 DEF ReadOne
      <4>2. step' = step /\ step[c] = "list" /\ j \in Jobs
        BY <3>2, <4>1 DEF ReadOne
      <4>3. \A d \in Callers, i \in Jobs : (d # c \/ i # j) => seen'[d][i] = seen[d][i]
        BY <4>1
      <4>4. seen'[c][j] = ReadAs(j) /\ rec'[j] = ReadAs(j)
        BY <4>1, <4>2
      <4> QED
        BY <1>2, <4>2, <4>3, <4>4, ZenonT(60) DEF NoneForgotten
    <3>3. CASE AskNew(c) \/ AskRetry(c) \/ AskContinue(c) \/ Refuse(c) \/ Admit(c) \/ SpawnWorker(c) \/ Record(c) \/ Answer(c)
      <4>1. \A d \in Callers : step'[d] = "list" => step[d] = "list" /\ seen'[d] = seen[d]
        BY <3>3 DEF AskNew, AskRetry, AskContinue, Call, Refuse, Admit, SpawnWorker, Record, Answer, Returns, Goes
      <4> QED
        BY <1>2, <4>1 DEF NoneForgotten
    <3> QED
      BY <1>1, <2>1, <3>1, <3>2, <3>3 DEF CallerNext
  <2>2. CASE UNCHANGED <<step, seen>>
    BY <1>2, <2>2 DEF NoneForgotten
  <2>3. CASE \E p \in Processes : ProcessStops(p)
    BY <1>2, <2>3 DEF ProcessStops, NoneForgotten
  <2>4. CASE \E j \in Jobs : JobNext(j)
    BY <2>2, <2>4 DEF JobNext, Register, Report, LateInterrupt, WorkerEnds, Interrupt, Watch, Age
  <2> QED
    BY <2>1, <2>2, <2>3, <2>4 DEF Next, vars
<1> QED
  BY <1>1, <1>2, OnlyPruneForgets

LEMMA LKeeps ==
  ASSUME SingleProcess, PromptStart, LInv, [Next]_vars
  PROVE  LInv'
BY NextKeeps, VerbKept, AnswerKept, SeenKept DEF LInv

LEMMA InitLInv == Init => LInv
BY InitIInv DEF LInv, Init, SeenInv, VerbInv, AnswerInv

-----------------------------------------------------------------------------
(* One job's life.  Each step of the directory is a step of every job's      *)
(* JobLifecycle, or leaves what that shows of the job alone.                 *)

Same(j) == rec'[j] = rec[j] /\ worker'[j] = worker[j] /\ last' = last

Lived(j) == Life(j)!Next \/ UNCHANGED Life(j)!vars

LEMMA SameLife == ASSUME NEW j \in Jobs, Same(j) PROVE Lived(j)
BY DEF Same, Lived, Life!vars, ShownState, WorkerShown

\* Whoever reads a record leaves it, or declares its job lost.
LEMMA ReadLife ==
  ASSUME LInv, NEW j \in Jobs, rec'[j] = ReadAs(j), UNCHANGED <<worker, last>>
  PROVE  Lived(j)
<1>1. CASE ~Lost(j)
  BY <1>1, SameLife DEF Same, ReadAs
<1>2. CASE Lost(j)
  <2>1. rec[j] \in Active /\ worker[j] \in {"none", "starting", "ended"}
    BY <1>2 DEF LInv, IInv, TypeOK, Lost, Lives, StartInv, VerbInv
  <2>2. rec'[j] = "unknown"
    BY <1>2 DEF ReadAs
  <2>3. Life(j)!DeclareLost
    BY <2>1, <2>2 DEF Life!DeclareLost, Life!Active, Active, ShownState, WorkerShown
  <2> QED
    BY <2>3 DEF Lived, Life!Next
<1> QED
  BY <1>1, <1>2

LEMMA CallerLife ==
  ASSUME LInv, NEW c \in Callers, CallerNext(c), NEW j \in Jobs
  PROVE  Lived(j)
<1> USE DEF LInv, IInv, TypeOK
<1>1. CASE ReadOne(c)
  <2>1. PICK i \in todo[c] : rec' = [rec EXCEPT ![i] = ReadAs(i)]
    BY <1>1 DEF ReadOne
  <2>2. UNCHANGED <<worker, last>>
    BY <1>1 DEF ReadOne
  <2>3. CASE i = j
    BY <2>1, <2>2, <2>3, ReadLife
  <2>4. CASE i # j
    BY <2>1, <2>2, <2>4, SameLife DEF Same
  <2> QED
    BY <2>3, <2>4
<1>2. CASE Prune(c)
  <2>1. UNCHANGED <<worker, last>> /\ rec'[j] = IF j \in Surplus(c) THEN "absent" ELSE rec[j]
    BY <1>2 DEF Prune
  <2>2. CASE j \in Surplus(c)
    <3>1. j <= last /\ rec[j] \notin Active \cup {"absent"}
      BY <1>2, <2>2 DEF Prune, Surplus, Finished, ScanInv, Scanning, SeenInv
    <3>2. Life(j)!Forget
      BY <2>1, <2>2, <3>1 DEF Life!Forget, Life!Ended, Life!Outcomes, ShownState, WorkerShown, Shown, States, Active
    <3> QED
      BY <3>2 DEF Lived, Life!Next
  <2>3. CASE j \notin Surplus(c)
    BY <2>1, <2>3, SameLife DEF Same
  <2> QED
    BY <2>2, <2>3
<1>3. CASE Admit(c)
  <2>1. /\ last + 1 \in Jobs /\ last' = last + 1 /\ worker' = worker
        /\ rec' = [rec EXCEPT ![last + 1] = "queued"] /\ rec[last + 1] = "absent"
    BY <1>3, JobFacts DEF Admit, FreshInv
  <2>2. CASE j = last + 1
    <3>1. ~(j <= last)
      BY <2>2, JobFacts
    <3> QED
      BY <2>1, <2>2, <3>1 DEF Lived, Life!vars, ShownState, WorkerShown
  <2>3. CASE j # last + 1
    <3>1. j <= last <=> j <= last + 1
      BY <2>3, AdmissionAssumption DEF Jobs
    <3> QED
      BY <2>1, <2>3, <3>1 DEF Lived, Life!vars, ShownState, WorkerShown
  <2> QED
    BY <2>2, <2>3
<1>4. CASE SpawnWorker(c)
  <2>1. /\ made[c] \in Jobs /\ worker[made[c]] = "none" /\ UNCHANGED <<rec, last>>
        /\ worker' = [worker EXCEPT ![made[c]] = "starting"]
    BY <1>4 DEF SpawnWorker, SpawnInv, QueuedInv
  <2>2. CASE j = made[c]
    <3>1. Life(j)!Spawn
      BY <2>1, <2>2 DEF Life!Spawn, ShownState, WorkerShown
    <3> QED
      BY <3>1 DEF Lived, Life!Next
  <2>3. CASE j # made[c]
    BY <2>1, <2>3, SameLife DEF Same
  <2> QED
    BY <2>2, <2>3
<1>5. CASE Answer(c)
  <2>1. UNCHANGED <<worker, last>>
    BY <1>5 DEF Answer
  <2>2. CASE rec'[j] = rec[j]
    BY <2>1, <2>2, SameLife DEF Same
  <2>3. CASE rec'[j] # rec[j]
    <3>1. j = from[c] /\ rec'[j] = "answered" /\ rec[j] # "absent" /\ from[c] # 0
      BY <1>5, <2>3, JobFacts DEF Answer
    <3>2. rec[j] \in {"needs_choice", "answered", "interrupted"}
      BY <3>1 DEF AnswerInv, Answerable
    <3>3. Life(j)!Answer
      BY <2>1, <3>1, <3>2 DEF Life!Answer, ShownState, WorkerShown
    <3> QED
      BY <3>3 DEF Lived, Life!Next
  <2> QED
    BY <2>2, <2>3
<1>6. CASE UNCHANGED <<rec, worker, last>>
  BY <1>6, SameLife DEF Same
<1> QED
  BY <1>1, <1>2, <1>3, <1>4, <1>5, <1>6
     DEF CallerNext, AskNew, AskRetry, AskContinue, Call, Acquire, Refuse, Record

LEMMA JobLife ==
  ASSUME LInv, NEW i \in Jobs, JobNext(i), NEW j \in Jobs
  PROVE  Lived(j)
<1> USE DEF LInv, IInv, TypeOK
<1>1. last' = last
  BY DEF JobNext, Register, Report, LateInterrupt, WorkerEnds, Interrupt, Watch, Age
<1>2. CASE i # j
  <2>1. rec'[j] = rec[j] /\ worker'[j] = worker[j]
    BY <1>2 DEF JobNext, Register, Report, LateInterrupt, WorkerEnds, Interrupt, Watch, Age
  <2> QED
    BY <1>1, <2>1, SameLife DEF Same
<1>3. CASE i = j
  <2>1. CASE Register(j)
    <3>1. worker[j] = "starting" /\ rec[j] \in Active /\ rec'[j] = "running" /\ worker'[j] = "verb"
      BY <2>1 DEF Register, WorkingIsActive, Active
    <3>2. Life(j)!Register
      BY <3>1 DEF Life!Register, Life!Active, Active, ShownState, WorkerShown
    <3> QED
      BY <3>2 DEF Lived, Life!Next
  <2>2. CASE Report(j)
    <3>1. worker[j] = "verb" /\ worker'[j] = "leaving" /\ rec[j] \in {"running", "interrupting"}
      BY <2>2 DEF Report, VerbInv
    <3>2. PICK o \in Life(j)!Outcomes \cup {"interrupted"} : rec'[j] = o
      BY <2>2, <3>1, AdmissionAssumption DEF Report, Life!Outcomes
    <3>3. rec'[j] # "absent"
      BY <3>2 DEF Life!Outcomes
    <3>4. Life(j)!Report(o)
      BY <3>1, <3>2, <3>3 DEF Life!Report, ShownState, WorkerShown
    <3> QED
      BY <3>4 DEF Lived, Life!Next
  <2>3. CASE LateInterrupt(j)
    <3>1. Life(j)!LateInterrupt
      BY <2>3 DEF LateInterrupt, Life!LateInterrupt, Life!Outcomes, ShownState, WorkerShown
    <3> QED
      BY <3>1 DEF Lived, Life!Next
  <2>4. CASE WorkerEnds(j)
    <3>1. Life(j)!Die
      BY <2>4 DEF WorkerEnds, Lives, Life!Die, ShownState, WorkerShown
    <3> QED
      BY <3>1 DEF Lived, Life!Next
  <2>5. CASE Interrupt(j)
    <3>1. Life(j)!AskInterrupt
      BY <2>5 DEF Interrupt, Lives, Life!AskInterrupt, ShownState, WorkerShown
    <3> QED
      BY <3>1 DEF Lived, Life!Next
  <2>6. CASE Watch(j)
    BY <1>1, <2>6, ReadLife DEF Watch
  <2>7. CASE Age(j)
    BY <2>7, SameLife DEF Age, Same
  <2> QED
    BY <1>3, <2>1, <2>2, <2>3, <2>4, <2>5, <2>6, <2>7 DEF JobNext
<1> QED
  BY <1>2, <1>3

(* In one process whose workers start promptly every job lives the life      *)
(* JobLifecycle describes from its creation to the day it is pruned: nothing *)
(* readers, prunes, retries, answers and restarts do to the directory skips  *)
(* a state, revives an ended job or loses one that its worker still owns.    *)
THEOREM EveryJobLives ==
  ASSUME SingleProcess, PromptStart
  PROVE  Spec => LivesKept
<1>1. Init => \A j \in Jobs : Life(j)!Init
  BY AdmissionAssumption DEF Init, Life!Init, ShownState, WorkerShown, NothingSeen, Jobs
<1>2. LInv /\ [Next]_vars => LInv'
  BY LKeeps
<1>3. LInv /\ [Next]_vars => [\A j \in Jobs : [Life(j)!Next]_(Life(j)!vars)]_vars
  <2> SUFFICES ASSUME LInv, [Next]_vars, NEW j \in Jobs PROVE Lived(j)
    BY DEF Lived
  <2>1. CASE \E p \in Processes : ProcessStops(p)
    BY <2>1, SameLife DEF ProcessStops, Same
  <2>2. CASE UNCHANGED vars
    BY <2>2, SameLife DEF vars, Same
  <2> QED
    BY <2>1, <2>2, CallerLife, JobLife DEF Next
<1> QED
  BY <1>1, <1>2, <1>3, InitLInv, PTL DEF Spec, LivesKept

-----------------------------------------------------------------------------
LEMMA JobsFinite == ASSUME NEW S \in SUBSET Jobs PROVE IsFiniteSet(S)
<1>1. IsFiniteSet(1..MaxJobs)
  BY AdmissionAssumption, FS_Interval
<1> QED
  BY <1>1, FS_Subset DEF Jobs

(* In one process whose workers start promptly a record disappears only when *)
(* at least Retention newer jobs are finished at that very moment: what the  *)
(* prune counted was read one record at a time, and none of it has changed   *)
(* back meanwhile (_prune_finished_jobs).                                    *)
THEOREM NewestKept ==
  ASSUME SingleProcess, PromptStart
  PROVE  Spec => HistoryKept
<1> DEFINE Newer(j) == {i \in Jobs : i > j /\ rec[i] \notin Active \cup {"absent"}}
           Fair == \A j \in Jobs : (rec[j] # "absent" /\ rec'[j] = "absent") => Cardinality(Newer(j)) >= Retention
<1>1. LInv /\ [Next]_vars => Fair
  <2> SUFFICES ASSUME LInv, [Next]_vars PROVE Fair
    OBVIOUS
  <2>1. CASE NoneForgotten
    BY <2>1 DEF NoneForgotten
  <2>2. CASE \E c \in Callers : Prune(c)
    <3>1. PICK c \in Callers : Prune(c)
      BY <2>2
    <3> SUFFICES ASSUME NEW j \in Jobs, rec[j] # "absent", rec'[j] = "absent"
                 PROVE  Cardinality(Newer(j)) >= Retention
      OBVIOUS
    <3> DEFINE Counted == {i \in Finished(c) : i > j}
    <3>2. j \in Surplus(c) /\ Cardinality(Counted) >= Retention
      BY <3>1 DEF Prune, Surplus
    <3>3. Counted \subseteq Newer(j)
      BY <3>1 DEF Prune, Finished, LInv, IInv, ScanInv, Scanning, SeenInv
    <3>4. IsFiniteSet(Newer(j)) /\ IsFiniteSet(Counted)
      BY JobsFinite, <3>3
    <3> HIDE DEF Counted, Newer
    <3>5. Cardinality(Counted) <= Cardinality(Newer(j)) /\ Cardinality(Counted) \in Nat /\ Cardinality(Newer(j)) \in Nat
      BY <3>3, <3>4, FS_Subset, FS_CardinalityType
    <3> QED
      BY <3>2, <3>5, AdmissionAssumption
  <2> QED
    BY <2>1, <2>2, OnlyPruneForgets DEF LInv, IInv
<1>2. LInv /\ [Next]_vars => LInv'
  BY LKeeps
<1> QED
  BY <1>1, <1>2, InitLInv, PTL DEF Spec, HistoryKept

=============================================================================
