---------------------------- MODULE JobAdmission ----------------------------
(***************************************************************************)
(* How jobs are admitted (create_job, retry_job, continue_job in jobs.py): *)
(* many threads of several processes share one directory of job records.   *)
(* Each process has its own _CREATE_LOCK; under it a creator reads every   *)
(* record, prunes the history, refuses when the instance already has an    *)
(* active job, and otherwise writes a record and spawns its worker.        *)
(*                                                                         *)
(* Reading one record is one action (its unlocked look and its locked      *)
(* decision are taken apart in JobRun); the scan over all records is not   *)
(* atomic, and what it read may be stale when it is used.                  *)
(***************************************************************************)
EXTENDS Naturals, FiniteSets

CONSTANTS
  MaxJobs,     \* bound: how many jobs are ever created
  Keys,        \* project keys: an instance, a published name, a bare verb
  Callers,     \* threads that create jobs
  Processes,   \* the processes they run in: UI daemons, scheduler, CLI
  ProcOf,      \* the process of each thread
  Retention,   \* FINISHED_RETENTION
  Endings,     \* the outcomes verbs have
  Passwords,   \* some calls carry passwords
  PromptStart  \* a spawned worker is on record within five seconds

ASSUME AdmissionAssumption ==
  /\ MaxJobs \in Nat
  /\ ProcOf \in [Callers -> Processes]
  /\ Retention \in Nat
  /\ Endings \subseteq {"succeeded", "failed", "needs_choice"}
  /\ Passwords \in BOOLEAN
  /\ PromptStart \in BOOLEAN

Jobs == 1..MaxJobs

VARIABLES
  last,      \* ids handed out so far; a higher id was created later
  rec,       \* each job's state on disk
  key,       \* each job's project_key
  recorded,  \* the record names the worker's process
  young,     \* the record is less than five seconds old
  worker,    \* where each job's worker is
  step,      \* where each creating thread is
  wants,     \* the project key its call asks for
  from,      \* the job it continues, or 0
  brings,    \* its call carries passwords
  todo,      \* records its scan has yet to read
  seen,      \* what its scan read
  made,      \* the job it created, or 0
  secrets    \* _RETRY_SECRETS: jobs whose passwords each process holds

recVars  == <<last, rec, key, recorded, young>>
callVars == <<step, wants, from, brings, todo, seen, made>>
vars     == <<recVars, worker, callVars, secrets>>

-----------------------------------------------------------------------------
Active == {"queued", "running", "interrupting"}

States == Active \cup {"succeeded", "failed", "needs_choice", "answered",
                       "interrupted", "unknown"}

\* "absent": no record yet, or it was pruned away.
Shown == States \cup {"absent"}

NoKey == "none"

TypeOK ==
  /\ last \in 0..MaxJobs
  /\ rec \in [Jobs -> Shown]
  /\ key \in [Jobs -> Keys \cup {NoKey}]
  /\ recorded \in [Jobs -> BOOLEAN]
  /\ young \in [Jobs -> BOOLEAN]
  /\ worker \in [Jobs -> {"none", "starting", "verb", "leaving", "ended"}]
  /\ step \in [Callers -> {"idle", "wait", "list", "admit", "spawn", "record",
                           "answer"}]
  /\ wants \in [Callers -> Keys \cup {NoKey}]
  /\ from \in [Callers -> 0..MaxJobs]
  /\ brings \in [Callers -> BOOLEAN]
  /\ todo \in [Callers -> SUBSET Jobs]
  /\ seen \in [Callers -> [Jobs -> Shown]]
  /\ made \in [Callers -> 0..MaxJobs]
  /\ secrets \in [Processes -> SUBSET Jobs]

NothingSeen == [j \in Jobs |-> "absent"]

Init ==
  /\ last = 0
  /\ rec = NothingSeen
  /\ key = [j \in Jobs |-> NoKey]
  /\ recorded = [j \in Jobs |-> FALSE]
  /\ young = [j \in Jobs |-> TRUE]
  /\ worker = [j \in Jobs |-> "none"]
  /\ step = [c \in Callers |-> "idle"]
  /\ wants = [c \in Callers |-> NoKey]
  /\ from = [c \in Callers |-> 0]
  /\ brings = [c \in Callers |-> FALSE]
  /\ todo = [c \in Callers |-> {}]
  /\ seen = [c \in Callers |-> NothingSeen]
  /\ made = [c \in Callers |-> 0]
  /\ secrets = [p \in Processes |-> {}]

-----------------------------------------------------------------------------
(* What reading a record does to it (read_job's _refresh_unknown). *)

\* A worker that has not ended, for whoever knows its pid.
Lives(j) == worker[j] \in {"starting", "verb", "leaving"}

\* Defect: a record that names no process yet counts as lost at once.
LostAgeless(j) == rec[j] \in Active /\ ~(recorded[j] /\ Lives(j))

Lost(j) ==
  /\ rec[j] \in Active
  /\ ~(recorded[j] /\ Lives(j))
  /\ recorded[j] \/ ~young[j]

\* Defect: the error's type is written where the state belongs.
ReadAsErrorType(j) == IF Lost(j) THEN "process_vanished" ELSE rec[j]

ReadAs(j) == IF Lost(j) THEN "unknown" ELSE rec[j]

Existing == {j \in Jobs : rec[j] # "absent"}

-----------------------------------------------------------------------------
(* The creating threads. *)

\* The lock of a process is held from "list" to "record".
Locked == {"list", "admit", "spawn", "record"}

Holds(c) == step[c] \in Locked

\* Defect: every call makes a lock of its own.
LockFreeAlways(c) == TRUE

LockFree(c) == \A d \in Callers : ProcOf[d] = ProcOf[c] => ~Holds(d)

Goes(c, to) == step' = [step EXCEPT ![c] = to]

\* The call returns or raises; nothing of it is left in the thread.
Returns(c) ==
  /\ Goes(c, "idle")
  /\ wants' = [wants EXCEPT ![c] = NoKey]
  /\ from' = [from EXCEPT ![c] = 0]
  /\ brings' = [brings EXCEPT ![c] = FALSE]
  /\ seen' = [seen EXCEPT ![c] = NothingSeen]
  /\ made' = [made EXCEPT ![c] = 0]

Call(c, k, source, withSecrets) ==
  /\ step[c] = "idle"
  /\ Goes(c, "wait")
  /\ wants' = [wants EXCEPT ![c] = k]
  /\ from' = [from EXCEPT ![c] = source]
  /\ brings' = [brings EXCEPT ![c] = withSecrets]
  /\ UNCHANGED <<recVars, worker, todo, seen, made, secrets>>

\* A page, the scheduler or the CLI asks for a new job.
AskNew(c) ==
  \E k \in Keys, typed \in BOOLEAN :
    (typed => Passwords) /\ Call(c, k, 0, typed)

Held(c, j) == j \in secrets[ProcOf[c]]

\* retry_job: the same work again, with the passwords still held for it.
AskRetry(c) ==
  \E j \in Jobs : rec[j] = "failed" /\ Call(c, key[j], 0, Held(c, j))

\* continue_job: the answered decision of a waiting job.
AskContinue(c) ==
  \E j \in Jobs : /\ rec[j] \in {"needs_choice", "answered"}
                  /\ Call(c, key[j], j, Held(c, j))

\* Enter the lock and list the directory.
Acquire(c) ==
  /\ step[c] = "wait"
  /\ LockFree(c)
  /\ Goes(c, "list")
  /\ todo' = [todo EXCEPT ![c] = Existing]
  /\ seen' = [seen EXCEPT ![c] = NothingSeen]
  /\ UNCHANGED <<recVars, worker, wants, from, brings, made, secrets>>

\* list_jobs reads the records one after the other; a record that vanished
\* meanwhile is skipped, one whose worker vanished becomes unknown, and the
\* passwords of one that succeeded are dropped.
ReadOne(c) ==
  /\ step[c] = "list"
  /\ \E j \in todo[c] :
       /\ todo' = [todo EXCEPT ![c] = @ \ {j}]
       /\ seen' = [seen EXCEPT ![c][j] = ReadAs(j)]
       /\ rec' = [rec EXCEPT ![j] = ReadAs(j)]
       /\ secrets' = IF rec[j] = "succeeded"
                     THEN [secrets EXCEPT ![ProcOf[c]] = @ \ {j}]
                     ELSE secrets
  /\ UNCHANGED <<last, key, recorded, young, worker, step, wants, from, brings,
                 made>>

\* The finished jobs the scan saw, past the newest Retention.
Finished(c) == {j \in Jobs : seen[c][j] \notin Active \cup {"absent"}}

\* Defect: the list is pruned from the wrong end.
SurplusNewest(c) ==
  {j \in Finished(c) :
     Cardinality({i \in Finished(c) : i < j}) >= Retention}

Surplus(c) ==
  {j \in Finished(c) :
     Cardinality({i \in Finished(c) : i > j}) >= Retention}

\* Defect: the record goes, the passwords stay.
PruneKeepsSecrets(c) ==
  /\ step[c] = "list"
  /\ todo[c] = {}
  /\ rec' = [j \in Jobs |-> IF j \in Surplus(c) THEN "absent" ELSE rec[j]]
  /\ Goes(c, "admit")
  /\ UNCHANGED <<last, key, recorded, young, worker, wants, from, brings, todo,
                 seen, made, secrets>>

\* Every record is read: the surplus goes.
Prune(c) ==
  /\ step[c] = "list"
  /\ todo[c] = {}
  /\ rec' = [j \in Jobs |-> IF j \in Surplus(c) THEN "absent" ELSE rec[j]]
  /\ secrets' = [secrets EXCEPT ![ProcOf[c]] = @ \ Surplus(c)]
  /\ Goes(c, "admit")
  /\ UNCHANGED <<last, key, recorded, young, worker, wants, from, brings, todo,
                 seen, made>>

\* Some job the scan read as active already works on the same key.
Busy(c) == \E j \in Jobs : seen[c][j] \in Active /\ key[j] = wants[c]

\* job.project_busy: the lock is left and nothing was created.
Refuse(c) ==
  /\ step[c] = "admit"
  /\ Busy(c)
  /\ Returns(c)
  /\ UNCHANGED <<recVars, worker, todo, secrets>>

\* The spec and the queued state are written.
Admit(c) ==
  /\ step[c] = "admit"
  /\ ~Busy(c)
  /\ last < MaxJobs
  /\ last' = last + 1
  /\ rec' = [rec EXCEPT ![last + 1] = "queued"]
  /\ key' = [key EXCEPT ![last + 1] = wants[c]]
  /\ made' = [made EXCEPT ![c] = last + 1]
  /\ seen' = [seen EXCEPT ![c] = NothingSeen]
  /\ Goes(c, "spawn")
  /\ UNCHANGED <<recorded, young, worker, wants, from, brings, todo, secrets>>

\* Popen, and the passwords are kept for a later retry.
SpawnWorker(c) ==
  /\ step[c] = "spawn"
  /\ worker' = [worker EXCEPT ![made[c]] = "starting"]
  /\ secrets' = IF brings[c]
                THEN [secrets EXCEPT ![ProcOf[c]] = @ \cup {made[c]}]
                ELSE secrets
  /\ Goes(c, "record")
  /\ UNCHANGED <<recVars, wants, from, brings, todo, seen, made>>

\* The pid is added unless the job is already over; the lock is left.
Record(c) ==
  /\ step[c] = "record"
  /\ recorded' = IF rec[made[c]] \in Active \cup {"answered"}
                 THEN [recorded EXCEPT ![made[c]] = TRUE]
                 ELSE recorded
  /\ IF from[c] = 0
     THEN Returns(c)
     ELSE Goes(c, "answer") /\ UNCHANGED <<wants, from, brings, seen, made>>
  /\ UNCHANGED <<last, rec, key, young, worker, todo, secrets>>

\* The waiting job is marked answered if it still has a record; otherwise the
\* call fails although its follow-up runs.
Answer(c) ==
  /\ step[c] = "answer"
  /\ rec' = IF rec[from[c]] = "absent" THEN rec
            ELSE [rec EXCEPT ![from[c]] = "answered"]
  /\ Returns(c)
  /\ UNCHANGED <<last, key, recorded, young, worker, todo, secrets>>

-----------------------------------------------------------------------------
(* The workers, the clock, the readers and the ends of processes. *)

\* run_job's first write; without a record the worker cannot go on.
Register(j) ==
  /\ worker[j] = "starting"
  /\ IF rec[j] = "absent"
     THEN /\ worker' = [worker EXCEPT ![j] = "ended"]
          /\ UNCHANGED <<rec, recorded>>
     ELSE /\ worker' = [worker EXCEPT ![j] = "verb"]
          /\ rec' = [rec EXCEPT ![j] = "running"]
          /\ recorded' = [recorded EXCEPT ![j] = TRUE]
  /\ UNCHANGED <<last, key, young, callVars, secrets>>

\* The last write of run_job.
Report(j) ==
  /\ worker[j] = "verb"
  /\ worker' = [worker EXCEPT ![j] = "leaving"]
  /\ IF rec[j] = "absent"
     THEN rec' = rec
     ELSE \E outcome \in Endings \cup {"interrupted"} :
            rec' = [rec EXCEPT ![j] = outcome]
  /\ UNCHANGED <<last, key, recorded, young, callVars, secrets>>

\* A signal after the outcome was written, before the worker is gone.
LateInterrupt(j) ==
  /\ worker[j] = "leaving"
  /\ rec[j] \in {"succeeded", "failed", "needs_choice", "answered"}
  /\ rec' = [rec EXCEPT ![j] = "interrupted"]
  /\ UNCHANGED <<last, key, recorded, young, worker, callVars, secrets>>

WorkerEnds(j) ==
  /\ Lives(j)
  /\ worker' = [worker EXCEPT ![j] = "ended"]
  /\ UNCHANGED <<recVars, callVars, secrets>>

\* Defect: a job that waits for a decision can be interrupted.
InterruptWaiting(j) ==
  /\ rec[j] \in {"queued", "running", "needs_choice"}
  /\ recorded[j] /\ Lives(j)
  /\ rec' = [rec EXCEPT ![j] = "interrupting"]
  /\ UNCHANGED <<last, key, recorded, young, worker, callVars, secrets>>

\* interrupt_job's critical section.
Interrupt(j) ==
  /\ rec[j] \in {"queued", "running"}
  /\ recorded[j] /\ Lives(j)
  /\ rec' = [rec EXCEPT ![j] = "interrupting"]
  /\ UNCHANGED <<last, key, recorded, young, worker, callVars, secrets>>

\* A page, the stream or the scheduler reads the record; the process that
\* reads drops the passwords of a job that succeeded.
Watch(j) ==
  /\ rec[j] # "absent"
  /\ rec' = [rec EXCEPT ![j] = ReadAs(j)]
  /\ \E p \in Processes :
       secrets' = IF rec[j] = "succeeded"
                  THEN [secrets EXCEPT ![p] = @ \ {j}] ELSE secrets
  /\ UNCHANGED <<last, key, recorded, young, worker, callVars>>

\* Five seconds pass before the record of an active job names a process (nobody
\* asks for the age of any other).  Under PromptStart they never pass while the
\* worker is being started.
Age(j) ==
  /\ j <= last
  /\ rec[j] \in Active
  /\ young[j] /\ ~recorded[j]
  /\ PromptStart =>
       /\ worker[j] \in {"none", "ended"}
       /\ \A c \in Callers : step[c] = "spawn" => made[c] # j
  /\ young' = [young EXCEPT ![j] = FALSE]
  /\ UNCHANGED <<last, rec, key, recorded, worker, callVars, secrets>>

\* A process that creates jobs stops: its threads, its lock and the passwords
\* it held are gone; the workers it spawned go on.
ProcessStops(p) ==
  /\ step' = [c \in Callers |-> IF ProcOf[c] = p THEN "idle" ELSE step[c]]
  /\ wants' = [c \in Callers |-> IF ProcOf[c] = p THEN NoKey ELSE wants[c]]
  /\ from' = [c \in Callers |-> IF ProcOf[c] = p THEN 0 ELSE from[c]]
  /\ brings' = [c \in Callers |-> IF ProcOf[c] = p THEN FALSE ELSE brings[c]]
  /\ seen' = [c \in Callers |-> IF ProcOf[c] = p THEN NothingSeen ELSE seen[c]]
  /\ todo' = [c \in Callers |-> IF ProcOf[c] = p THEN {} ELSE todo[c]]
  /\ made' = [c \in Callers |-> IF ProcOf[c] = p THEN 0 ELSE made[c]]
  /\ secrets' = [secrets EXCEPT ![p] = {}]
  /\ UNCHANGED <<recVars, worker>>

-----------------------------------------------------------------------------
CallerNext(c) ==
  \/ AskNew(c) \/ AskRetry(c) \/ AskContinue(c)
  \/ Acquire(c) \/ ReadOne(c) \/ Prune(c)
  \/ Refuse(c) \/ Admit(c) \/ SpawnWorker(c) \/ Record(c) \/ Answer(c)

JobNext(j) ==
  \/ Register(j) \/ Report(j) \/ LateInterrupt(j) \/ WorkerEnds(j)
  \/ Interrupt(j) \/ Watch(j) \/ Age(j)

Next ==
  \/ \E c \in Callers : CallerNext(c)
  \/ \E j \in Jobs : JobNext(j)
  \/ \E p \in Processes : ProcessStops(p)

Spec == Init /\ [][Next]_vars

-----------------------------------------------------------------------------
\* create_job admits one job per project key at a time: while one is queued,
\* running or cleaning up, no thread gets a second one past the conflict
\* check, however the scans, prunes, workers and process ends interleave.
OneActivePerKey ==
  \A i, j \in Jobs :
    rec[i] \in Active /\ rec[j] \in Active /\ key[i] = key[j] => i = j

\* A worker that may still touch the instance has a record that keeps others
\* out: neither a reader nor the prune of another create takes it away.
WorkingIsActive ==
  \A j \in Jobs : worker[j] \in {"starting", "verb"} => rec[j] \in Active

\* The history keeps the newest: a record disappears only when at least
\* Retention newer jobs are finished at that moment.
HistoryKept ==
  [][\A j \in Jobs :
       (rec[j] # "absent" /\ rec'[j] = "absent") =>
         Cardinality({i \in Jobs : i > j /\ rec[i] \notin Active \cup {"absent"}})
           >= Retention]_vars

\* Passwords are forgotten with the job they were typed for: no process holds
\* some for a job whose record was pruned.
SecretsForgotten ==
  \A p \in Processes : secrets[p] \subseteq Existing

\* Every job lives the life JobLifecycle describes, from its creation to the
\* day it is pruned.
ShownState(j) ==
  IF rec[j] # "absent" THEN rec[j]
  ELSE IF j <= last THEN "forgotten" ELSE "queued"

WorkerShown(j) ==
  IF worker[j] \in {"verb", "leaving"} THEN "registered" ELSE worker[j]

Life(j) == INSTANCE JobLifecycle WITH state <- ShownState(j),
                                      worker <- WorkerShown(j)

LivesKept ==
  /\ \A j \in Jobs : Life(j)!Init
  /\ [][\A j \in Jobs : [Life(j)!Next]_(Life(j)!vars)]_vars

=============================================================================
