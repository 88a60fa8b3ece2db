------------------------------- MODULE JobRun -------------------------------
(***************************************************************************)
(* One durable job from admission to its last state (jobs.py): the thread  *)
(* that creates it, the detached worker process that runs it, the callers  *)
(* that read or interrupt its record, and the signals between them.        *)
(*                                                                         *)
(* Every read-modify-write of state.json runs under the job's file lock,   *)
(* so one such critical section is one action here; what a caller read     *)
(* before taking the lock is kept in its own variables and may be stale    *)
(* by the time it is used.                                                 *)
(***************************************************************************)
CONSTANTS
  Callers,        \* threads that call into the jobs API, in any process
  Creator,        \* the caller whose create_job started this job
  Reaps,          \* the creating process collects its exited children
  Mortal          \* callers whose process can stop in the middle of a call

ASSUME CallersAssumption ==
  /\ Creator \in Callers
  /\ Reaps \in BOOLEAN
  /\ Mortal \subseteq Callers

VARIABLES
  state,      \* the record's state
  recorded,   \* the record names the worker's pid and start time
  young,      \* the record is less than five seconds old
  parentUp,   \* the process that spawned the worker still runs
  worker,     \* where the worker process is
  result,     \* the outcome the worker's verb returned, before it is written
  handler,    \* what the worker does on SIGTERM: "die" or "unwind"
  signalled,  \* a SIGTERM is pending on the worker
  at,         \* where each caller is in its call
  interrupts, \* whether the caller's current call is interrupt_job
  view        \* the active record the caller read named a process

jobVars    == <<state, recorded, young>>
workerVars == <<worker, result, handler, signalled>>
callVars   == <<at, interrupts, view>>
vars       == <<jobVars, parentUp, workerVars, callVars>>

-----------------------------------------------------------------------------
Active == {"queued", "running", "interrupting"}
Outcomes == {"succeeded", "failed", "needs_choice"}
Terminal == Outcomes \cup {"interrupted", "unknown"}
States == Active \cup Terminal

Interruptible == {"queued", "running"}

\* In order: not spawned, importing, handlers installed, registered, in the
\* verb, verb returned, outcome written, verb raised, unwinding after a
\* signal, leaving, exited but not yet collected, gone.
Phases == {"none", "boot", "armed", "marked", "verb", "report", "written",
           "error", "unwind", "leave", "zombie", "gone"}

Alive == Phases \ {"none", "zombie", "gone"}

\* The part of run_job inside its try block: a KeyboardInterrupt raised here
\* reaches the handler that records "interrupted".
Guarded == {"verb", "report", "written"}

Registered == Alive \ {"boot", "armed"}

Steps == {"idle", "spawn", "look", "record", "read", "probe", "decide",
          "arm", "kill"}

TypeOK ==
  /\ state \in States
  /\ recorded \in BOOLEAN
  /\ young \in BOOLEAN
  /\ parentUp \in BOOLEAN
  /\ worker \in Phases
  /\ result \in Outcomes \cup {"none"}
  /\ handler \in {"die", "unwind"}
  /\ signalled \in BOOLEAN
  /\ at \in [Callers -> Steps]
  /\ interrupts \in [Callers -> BOOLEAN]
  /\ view \in [Callers -> BOOLEAN]

\* The record as create_job writes it, just before it spawns the worker.
Init ==
  /\ state = "queued"
  /\ recorded = FALSE
  /\ young = TRUE
  /\ parentUp = TRUE
  /\ worker = "none"
  /\ result = "none"
  /\ handler = "die"
  /\ signalled = FALSE
  /\ at = [c \in Callers |-> IF c = Creator THEN "spawn" ELSE "idle"]
  /\ interrupts = [c \in Callers |-> FALSE]
  /\ view = [c \in Callers |-> FALSE]

-----------------------------------------------------------------------------
(* The process table. *)

\* _process_is_job on a record that does (or does not) name the worker.  A
\* dead child nobody has waited for still answers the liveness probe.
ProcessIsJob(named) == named /\ worker \in Alive \cup {"zombie"}

\* Where an exiting worker ends up.
Corpse == IF parentUp THEN "zombie" ELSE "gone"

\* watch_loop's reap_children; only the UI daemon runs that loop.
Reap ==
  /\ Reaps /\ parentUp
  /\ worker = "zombie"
  /\ worker' = "gone"
  /\ UNCHANGED <<jobVars, parentUp, result, handler, signalled, callVars>>

\* The spawning process stops; init inherits and collects its children.
ParentStops ==
  /\ parentUp
  /\ parentUp' = FALSE
  /\ worker' = IF worker = "zombie" THEN "gone" ELSE worker
  /\ at' = [at EXCEPT ![Creator] = "idle"]
  /\ interrupts' = [interrupts EXCEPT ![Creator] = FALSE]
  /\ view' = [view EXCEPT ![Creator] = FALSE]
  /\ UNCHANGED <<jobVars, result, handler, signalled>>

\* Five seconds pass since created_epoch.
Age ==
  /\ young
  /\ young' = FALSE
  /\ UNCHANGED <<state, recorded, parentUp, workerVars, callVars>>

\* A service manager or an operator terminates the worker.
OutsideTerm ==
  /\ worker \in Alive
  /\ signalled' = TRUE
  /\ UNCHANGED <<jobVars, parentUp, worker, result, handler, callVars>>

\* SIGKILL, out of memory, a crashed interpreter.
Crash ==
  /\ worker \in Alive
  /\ worker' = Corpse
  /\ signalled' = FALSE
  /\ UNCHANGED <<jobVars, parentUp, result, handler, callVars>>

-----------------------------------------------------------------------------
(* The creating thread: the end of _create_job. *)

Go(c, step) == at' = [at EXCEPT ![c] = step]

Spawn ==
  /\ at[Creator] = "spawn"
  /\ worker = "none"
  /\ worker' = "boot"
  /\ Go(Creator, "look")
  /\ UNCHANGED <<jobVars, parentUp, result, handler, signalled, interrupts, view>>

\* The unlocked look at the record that decides whether to add the pid.
LookBeforeRecord ==
  /\ at[Creator] = "look"
  /\ Go(Creator, IF state \in Terminal THEN "read" ELSE "record")
  /\ UNCHANGED <<jobVars, parentUp, workerVars, interrupts, view>>

RecordProcess ==
  /\ at[Creator] = "record"
  /\ recorded' = TRUE
  /\ Go(Creator, "read")
  /\ UNCHANGED <<state, young, parentUp, workerVars, interrupts, view>>

-----------------------------------------------------------------------------
(* The worker process: run_job and its signal handlers. *)

WorkerMoves(from, to) ==
  /\ worker = from
  /\ worker' = to
  /\ UNCHANGED <<young, parentUp, signalled, callVars>>

\* run_job's last reads of the spec and environment follow; until the try
\* block an unwind has nobody to catch it.
InstallHandlers ==
  /\ WorkerMoves("boot", "armed")
  /\ handler' = "unwind"
  /\ UNCHANGED <<state, recorded, result>>

\* The unconditional merge of "running": it does not look at what is there.
MarkRunning ==
  /\ WorkerMoves("armed", "marked")
  /\ state' = "running"
  /\ recorded' = TRUE
  /\ UNCHANGED <<result, handler>>

EnterVerb ==
  /\ WorkerMoves("marked", "verb")
  /\ UNCHANGED <<state, recorded, result, handler>>

\* _dispatch returned an envelope, turned into an outcome by _result_ok.
VerbReturns ==
  /\ WorkerMoves("verb", "report")
  /\ result' \in Outcomes
  /\ UNCHANGED <<state, recorded, handler>>

WriteOutcome ==
  /\ WorkerMoves("report", "written")
  /\ state' = result
  /\ result' = "none"
  /\ UNCHANGED <<recorded, handler>>

\* The rest of the try block after the outcome is on disk: the self-update
\* check, the return value.
LeaveTry ==
  /\ WorkerMoves("written", "leave")
  /\ UNCHANGED <<state, recorded, result, handler>>

VerbRaises ==
  /\ WorkerMoves("verb", "error")
  /\ UNCHANGED <<state, recorded, result, handler>>

\* Defect: the error path writes the outcome of a verb that returned none.
WriteErrorFromResult ==
  /\ WorkerMoves("error", "leave")
  /\ state' = result
  /\ UNCHANGED <<recorded, result, handler>>

WriteError ==
  /\ WorkerMoves("error", "leave")
  /\ state' = "failed"
  /\ UNCHANGED <<recorded, result, handler>>

WriteInterrupted ==
  /\ WorkerMoves("unwind", "leave")
  /\ state' = "interrupted"
  /\ UNCHANGED <<recorded, result, handler>>

Exit ==
  /\ WorkerMoves("leave", Corpse)
  /\ UNCHANGED <<state, recorded, result, handler>>

\* Defect: a broad except in the verb swallows the KeyboardInterrupt.
TakeSignalSwallowed ==
  /\ signalled /\ worker \in Alive
  /\ signalled' = FALSE
  /\ handler' = "die"
  /\ worker' = IF handler = "unwind" /\ worker \in Guarded THEN "verb"
               ELSE Corpse
  /\ UNCHANGED <<jobVars, parentUp, result, callVars>>

\* _unwind restores the default disposition and raises; outside the try
\* block, and for any later signal, the process just ends.
TakeSignal ==
  /\ signalled /\ worker \in Alive
  /\ signalled' = FALSE
  /\ handler' = "die"
  /\ worker' = IF handler = "unwind" /\ worker \in Guarded THEN "unwind"
               ELSE Corpse
  /\ UNCHANGED <<jobVars, parentUp, result, callVars>>

-----------------------------------------------------------------------------
(* Callers: read_job (through list_jobs, the stream, a page) and           *)
(* interrupt_job.  Both begin with _refresh_unknown.                       *)

Begin(c, interrupting) ==
  /\ at[c] = "idle"
  /\ Go(c, "read")
  /\ interrupts' = [interrupts EXCEPT ![c] = interrupting]
  /\ UNCHANGED <<jobVars, parentUp, workerVars, view>>

\* Where a caller goes when its refresh is over.
AfterRefresh(c) == IF interrupts[c] THEN "arm" ELSE "idle"

ReadState(c) ==
  /\ at[c] = "read"
  /\ view' = [view EXCEPT ![c] = recorded /\ state \in Active]
  /\ Go(c, IF state \in Active THEN "probe" ELSE AfterRefresh(c))
  /\ UNCHANGED <<jobVars, parentUp, workerVars, interrupts>>

\* Defect: a record that names no process is left alone at any age.
ProbeAgeless(c) ==
  /\ at[c] = "probe"
  /\ Go(c, IF ProcessIsJob(view[c]) \/ ~view[c] THEN AfterRefresh(c)
           ELSE "decide")
  /\ view' = [view EXCEPT ![c] = FALSE]
  /\ UNCHANGED <<jobVars, parentUp, workerVars, interrupts>>

\* Is the process of the record as read still there, and if the record named
\* none, is it young enough to be left alone?
Probe(c) ==
  /\ at[c] = "probe"
  /\ LET excused == ProcessIsJob(view[c]) \/ (~view[c] /\ young)
     IN  Go(c, IF excused THEN AfterRefresh(c) ELSE "decide")
  /\ view' = [view EXCEPT ![c] = FALSE]
  /\ UNCHANGED <<jobVars, parentUp, workerVars, interrupts>>

\* Defect: the lock is taken but the record is not read again under it.
DecideOnOldView(c) ==
  /\ at[c] = "decide"
  /\ state' = "unknown"
  /\ Go(c, AfterRefresh(c))
  /\ UNCHANGED <<recorded, young, parentUp, workerVars, interrupts, view>>

\* Defect: the record is read again, but its process is not looked for again.
DecideWithoutProcess(c) ==
  /\ at[c] = "decide"
  /\ state' = IF state \in Active THEN "unknown" ELSE state
  /\ Go(c, AfterRefresh(c))
  /\ UNCHANGED <<recorded, young, parentUp, workerVars, interrupts, view>>

\* Under the lock the record is read again before it is called lost.
Decide(c) ==
  /\ at[c] = "decide"
  /\ state' = IF state \in Active /\ ~ProcessIsJob(recorded)
              THEN "unknown" ELSE state
  /\ Go(c, AfterRefresh(c))
  /\ UNCHANGED <<recorded, young, parentUp, workerVars, interrupts, view>>

\* Defect: an interrupt is recorded whatever the job's state has become.
ArmAnyState(c) ==
  /\ at[c] = "arm"
  /\ LET armed == ProcessIsJob(recorded)
     IN  /\ state' = IF armed THEN "interrupting" ELSE state
         /\ Go(c, IF armed THEN "kill" ELSE "read")
  /\ interrupts' = [interrupts EXCEPT ![c] = FALSE]
  /\ UNCHANGED <<recorded, young, parentUp, workerVars, view>>

\* interrupt_job's critical section.  Whether or not it armed, the call ends
\* with read_job.
Arm(c) ==
  /\ at[c] = "arm"
  /\ LET armed == state \in Interruptible /\ ProcessIsJob(recorded)
     IN  /\ state' = IF armed THEN "interrupting" ELSE state
         /\ Go(c, IF armed THEN "kill" ELSE "read")
  /\ interrupts' = [interrupts EXCEPT ![c] = FALSE]
  /\ UNCHANGED <<recorded, young, parentUp, workerVars, view>>

\* killpg, after the lock is released.  A dead group is tolerated.
Kill(c) ==
  /\ at[c] = "kill"
  /\ signalled' = (signalled \/ worker \in Alive)
  /\ Go(c, "read")
  /\ UNCHANGED <<jobVars, parentUp, worker, result, handler, interrupts, view>>

\* The calling process stops in mid-call (the creator's own end is
\* ParentStops).
CallerDies(c) ==
  /\ c \in Mortal \ {Creator}
  /\ at[c] # "idle"
  /\ Go(c, "idle")
  /\ interrupts' = [interrupts EXCEPT ![c] = FALSE]
  /\ view' = [view EXCEPT ![c] = FALSE]
  /\ UNCHANGED <<jobVars, parentUp, workerVars>>

-----------------------------------------------------------------------------
Refresh(c) == ReadState(c) \/ Probe(c) \/ Decide(c)

CallerNext(c) ==
  \/ \E interrupting \in BOOLEAN : Begin(c, interrupting)
  \/ Refresh(c) \/ Arm(c) \/ Kill(c) \/ CallerDies(c)

CreatorNext == Spawn \/ LookBeforeRecord \/ RecordProcess

WorkerNext ==
  \/ InstallHandlers \/ MarkRunning \/ EnterVerb \/ VerbReturns \/ VerbRaises
  \/ WriteOutcome \/ LeaveTry \/ WriteError \/ WriteInterrupted \/ Exit
  \/ TakeSignal

SystemNext == Reap \/ ParentStops \/ Age \/ OutsideTerm \/ Crash

Next ==
  \/ CreatorNext \/ WorkerNext \/ SystemNext
  \/ \E c \in Callers : CallerNext(c)

Spec == Init /\ [][Next]_vars

(* The kernel delivers a pending signal and the worker's own short steps   *)
(* run; the verb itself may run for ever (nothing in the code bounds it).  *)
(* A call that began goes on, and the record keeps being read: watch_loop  *)
(* re-reads every active job four times a second while a page is open, and *)
(* every create_job and scheduler pass lists all of them.                  *)
Fairness ==
  /\ WF_vars(InstallHandlers) /\ WF_vars(MarkRunning) /\ WF_vars(EnterVerb)
  /\ WF_vars(WriteOutcome) /\ WF_vars(LeaveTry) /\ WF_vars(WriteError)
  /\ WF_vars(WriteInterrupted) /\ WF_vars(Exit) /\ WF_vars(TakeSignal)
  /\ WF_vars(CreatorNext) /\ WF_vars(Reap) /\ WF_vars(Age)
  /\ \A c \in Callers :
       /\ WF_vars(Begin(c, FALSE)) /\ WF_vars(Refresh(c))
       /\ WF_vars(Arm(c)) /\ WF_vars(Kill(c))

FairSpec == Spec /\ Fairness

-----------------------------------------------------------------------------
(* The promise of JobLifecycle, with the worker's twelve phases folded. *)

WorkerSummary ==
  CASE worker = "none"              -> "none"
    [] worker \in {"boot", "armed"} -> "starting"
    [] worker \in Registered        -> "registered"
    [] OTHER                        -> "ended"

Lifecycle == INSTANCE JobLifecycle WITH worker <- WorkerSummary

\* Every step of the creator, the worker and the callers changes the record
\* in a way the lifecycle allows, whatever order they run in.
LifecycleKept == Lifecycle!Spec

\* A reader never replaces an outcome the worker recorded: once the verb's
\* outcome is on disk, only the worker itself may still change it, and only
\* to "interrupted" because a signal reached it before it left its try block
\* (the re-read under the lock in _refresh_unknown and interrupt_job).
OutcomeOnlyInterrupted ==
  [][(state \in Outcomes /\ state' # state) =>
        (state' = "interrupted" /\ worker = "unwind")]_vars

\* A job is never called lost while a worker that registered itself is
\* running: its instance would be handed to another job under it.
RegisteredNeverLost == state = "unknown" => worker \notin Registered

\* A worker that ended without a word does not hold its instance for ever:
\* its job leaves the active states (reap_children and _refresh_unknown).
VanishedIsNoticed ==
  (worker \in {"zombie", "gone"} /\ state \in Active) ~> (state \notin Active)

\* A signal that was sent ends the job even when its verb never would: it
\* finds the worker in some phase that ends, and whatever the worker, the
\* creator and the readers do about it, the record leaves the active states.
InterruptEnds == signalled ~> (state \notin Active)

=============================================================================
