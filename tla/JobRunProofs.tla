---------------------------- MODULE JobRunProofs ----------------------------
(***************************************************************************)
(* What holds of one job's record for every set of callers, whether or not *)
(* the creating process reaps its children and whether or not callers die. *)
(* The argument is one inductive invariant: each phase of the worker fixes *)
(* which states its record can be in.                                      *)
(***************************************************************************)
EXTENDS JobRun, TLAPS

\* What the record can say while the worker is in each phase.
PhaseInv ==
  /\ worker = "report" => result \in Outcomes
  /\ worker \in Registered => recorded
  /\ worker \in {"none", "boot", "armed"} => state \in Active \cup {"unknown"}
  /\ worker \in {"marked", "verb", "report", "error"}
       => state \in {"running", "interrupting"}
  /\ worker = "unwind" => state \in {"running", "interrupting"} \cup Outcomes
  /\ worker = "written" => state \in Outcomes
  /\ worker = "leave" => state \in Outcomes \cup {"interrupted"}

IInv == TypeOK /\ PhaseInv

USE DEF Active, Outcomes, Terminal, States, Interruptible, Phases, Alive,
        Guarded, Registered, Steps

LEMMA InitIInv == Init => IInv
  BY CallersAssumption DEF Init, IInv, TypeOK, PhaseInv

LEMMA CreatorKeeps == IInv /\ CreatorNext => IInv'
<1> SUFFICES ASSUME IInv, CreatorNext PROVE IInv'
  OBVIOUS
<1> USE DEF IInv, TypeOK, PhaseInv, jobVars, workerVars, callVars, Go
<1>1. CASE Spawn
  BY <1>1, ZenonT(60) DEF Spawn
<1>2. CASE LookBeforeRecord
  <2>1. TypeOK'
    <3>1. at' \in [Callers -> Steps]
      BY <1>2 DEF LookBeforeRecord
    <3> QED
      BY <1>2, <3>1 DEF LookBeforeRecord
  <2>2. PhaseInv'
    BY <1>2 DEF LookBeforeRecord
  <2> QED
    BY <2>1, <2>2
<1>3. CASE RecordProcess
  <2>1. TypeOK'
    <3>1. recorded' \in BOOLEAN
      BY <1>3, Zenon DEF RecordProcess
    <3>2. at' \in [Callers -> Steps]
      BY <1>3 DEF RecordProcess
    <3> QED
      BY <1>3, <3>1, <3>2 DEF RecordProcess
  <2>2. PhaseInv'
    BY <1>3 DEF RecordProcess
  <2> QED
    BY <2>1, <2>2
<1> QED
  BY <1>1, <1>2, <1>3 DEF CreatorNext

LEMMA SystemKeeps == IInv /\ SystemNext => IInv'
<1> SUFFICES ASSUME IInv, SystemNext PROVE IInv'
  OBVIOUS
<1> USE DEF IInv, TypeOK, PhaseInv, jobVars, workerVars, callVars
<1>1. CASE Reap
  BY <1>1 DEF Reap
<1>2. CASE ParentStops
  <2>1. TypeOK'
    BY <1>2, ZenonT(60) DEF ParentStops
  <2>2. PhaseInv'
    BY <1>2 DEF ParentStops
  <2> QED
    BY <2>1, <2>2
<1>3. CASE Age
  <2>1. TypeOK'
    <3>1. young' \in BOOLEAN
      BY <1>3, Zenon DEF Age
    <3> QED
      BY <1>3, <3>1 DEF Age
  <2>2. PhaseInv'
    BY <1>3 DEF Age
  <2> QED
    BY <2>1, <2>2
<1>4. CASE OutsideTerm
  BY <1>4 DEF OutsideTerm
<1>5. CASE Crash
  BY <1>5, ZenonT(60) DEF Crash, Corpse
<1> QED
  BY <1>1, <1>2, <1>3, <1>4, <1>5 DEF SystemNext

LEMMA WorkerKeeps == IInv /\ WorkerNext => IInv'
<1> SUFFICES ASSUME IInv, WorkerNext PROVE IInv'
  OBVIOUS
<1> USE DEF IInv, TypeOK, PhaseInv, jobVars, workerVars, callVars, WorkerMoves
<1>1. CASE InstallHandlers
  BY <1>1 DEF InstallHandlers
<1>2. CASE MarkRunning
  BY <1>2 DEF MarkRunning
<1>3. CASE EnterVerb
  BY <1>3 DEF EnterVerb
<1>4. CASE VerbReturns
  BY <1>4 DEF VerbReturns
<1>5. CASE VerbRaises
  BY <1>5 DEF VerbRaises
<1>6. CASE WriteOutcome
  BY <1>6 DEF WriteOutcome
<1>7. CASE LeaveTry
  BY <1>7 DEF LeaveTry
<1>8. CASE WriteError
  BY <1>8 DEF WriteError
<1>9. CASE WriteInterrupted
  BY <1>9 DEF WriteInterrupted
<1>10. CASE Exit
  BY <1>10 DEF Exit, Corpse
<1>11. CASE TakeSignal
  <2>1. TypeOK'
    <3>1. signalled' \in BOOLEAN
      BY <1>11, Zenon DEF TakeSignal
    <3>2. worker' \in Phases
      BY <1>11 DEF TakeSignal, Corpse
    <3> QED
      BY <1>11, <3>1, <3>2 DEF TakeSignal
  <2>2. PhaseInv'
    BY <1>11 DEF TakeSignal, Corpse
  <2> QED
    BY <2>1, <2>2
<1> QED
  BY <1>1, <1>2, <1>3, <1>4, <1>5, <1>6, <1>7, <1>8, <1>9, <1>10, <1>11
     DEF WorkerNext

LEMMA CallerKeeps ==
  ASSUME NEW c \in Callers, IInv, CallerNext(c)
  PROVE  IInv'
<1> USE DEF IInv, TypeOK, PhaseInv, jobVars, workerVars, callVars, Go,
            AfterRefresh
<1>1. CASE \E interrupting \in BOOLEAN : Begin(c, interrupting)
  BY <1>1 DEF Begin
<1>2. CASE ReadState(c)
  BY <1>2 DEF ReadState
<1>3. CASE Probe(c)
  BY <1>3 DEF Probe
<1>4. CASE Decide(c)
  BY <1>4 DEF Decide, ProcessIsJob
<1>5. CASE Arm(c)
  BY <1>5 DEF Arm, ProcessIsJob
<1>6. CASE Kill(c)
  BY <1>6 DEF Kill
<1>7. CASE CallerDies(c)
  BY <1>7 DEF CallerDies
<1> QED
  BY <1>1, <1>2, <1>3, <1>4, <1>5, <1>6, <1>7 DEF CallerNext, Refresh

LEMMA NextKeeps == IInv /\ [Next]_vars => IInv'
<1> SUFFICES ASSUME IInv, [Next]_vars PROVE IInv'
  OBVIOUS
<1>1. CASE UNCHANGED vars
  BY <1>1 DEF IInv, TypeOK, PhaseInv, vars, jobVars, workerVars, callVars
<1> QED
  BY <1>1, CreatorKeeps, SystemKeeps, WorkerKeeps, CallerKeeps DEF Next

LEMMA Invariance == Spec => []IInv
  BY InitIInv, NextKeeps, PTL DEF Spec

-----------------------------------------------------------------------------
\* Every variable keeps its type, for every set of callers.
THEOREM TypeCorrect == Spec => []TypeOK
<1>1. IInv => TypeOK
  BY DEF IInv
<1> QED
  BY <1>1, Invariance, PTL

\* A job is never called lost while its registered worker runs: the record
\* names the worker from registration on, and the check under the lock finds
\* it there.
THEOREM NeverLostWhileRunning == Spec => []RegisteredNeverLost
<1>1. IInv => RegisteredNeverLost
  BY DEF IInv, PhaseInv, RegisteredNeverLost
<1> QED
  BY <1>1, Invariance, PTL

-----------------------------------------------------------------------------
(* An outcome, once written, is only ever replaced by the worker itself.   *)

LEMMA OutcomeStep ==
  ASSUME IInv, [Next]_vars, state \in Outcomes, state' # state
  PROVE  state' = "interrupted" /\ worker = "unwind"
<1> USE DEF IInv, TypeOK, PhaseInv, jobVars, workerVars, callVars
<1>1. CASE CreatorNext
  BY <1>1 DEF CreatorNext, Spawn, LookBeforeRecord, RecordProcess
<1>2. CASE SystemNext
  BY <1>2 DEF SystemNext, Reap, ParentStops, Age, OutsideTerm, Crash
<1>3. CASE WorkerNext
  BY <1>3 DEF WorkerNext, WorkerMoves, InstallHandlers, MarkRunning, EnterVerb,
       VerbReturns, VerbRaises, WriteOutcome, LeaveTry, WriteError,
       WriteInterrupted, Exit, TakeSignal
<1>4. ASSUME NEW c \in Callers, CallerNext(c)
      PROVE  FALSE
  BY <1>4 DEF CallerNext, Begin, Refresh, ReadState, Probe, Decide, Arm, Kill,
       CallerDies
<1>5. CASE UNCHANGED vars
  BY <1>5 DEF vars
<1> QED
  BY <1>1, <1>2, <1>3, <1>4, <1>5 DEF Next

\* No reader and no interrupt ever replaces the outcome of a verb: what may
\* follow it is "interrupted", written by the worker that a signal reached
\* before it left its try block.
THEOREM OutcomeKept == Spec => OutcomeOnlyInterrupted
<1>1. IInv /\ [Next]_vars
        => [(state \in Outcomes /\ state' # state)
              => (state' = "interrupted" /\ worker = "unwind")]_vars
  BY OutcomeStep
<1> QED
  BY <1>1, Invariance, PTL DEF Spec, OutcomeOnlyInterrupted

-----------------------------------------------------------------------------
(* JobRun implements JobLifecycle. *)

LEMMA InitRefines == Init => Lifecycle!Init
  BY DEF Init, Lifecycle!Init, WorkerSummary

LEMMA WorkerRefines ==
  ASSUME IInv, WorkerNext
  PROVE  [Lifecycle!Next]_(Lifecycle!vars)
<1> USE DEF IInv, TypeOK, PhaseInv, WorkerMoves, WorkerSummary, Lifecycle!vars,
            Lifecycle!Next, Lifecycle!Active, Lifecycle!Outcomes
<1>1. CASE InstallHandlers
  BY <1>1 DEF InstallHandlers
<1>2. CASE MarkRunning
  BY <1>2 DEF MarkRunning, Lifecycle!Register
<1>3. CASE EnterVerb \/ VerbReturns \/ VerbRaises \/ LeaveTry
  BY <1>3 DEF EnterVerb, VerbReturns, VerbRaises, LeaveTry
<1>4. CASE WriteOutcome
  BY <1>4 DEF WriteOutcome, Lifecycle!Report
<1>5. CASE WriteError
  BY <1>5 DEF WriteError, Lifecycle!Report
<1>6. CASE WriteInterrupted
  BY <1>6 DEF WriteInterrupted, Lifecycle!Report, Lifecycle!LateInterrupt
<1>7. CASE Exit
  BY <1>7 DEF Exit, Corpse, Lifecycle!Die
<1>8. CASE TakeSignal
  BY <1>8 DEF TakeSignal, Corpse, Lifecycle!Die, jobVars
<1> QED
  BY <1>1, <1>2, <1>3, <1>4, <1>5, <1>6, <1>7, <1>8 DEF WorkerNext

LEMMA OthersRefine ==
  ASSUME IInv, CreatorNext \/ SystemNext \/ UNCHANGED vars
  PROVE  [Lifecycle!Next]_(Lifecycle!vars)
<1> USE DEF IInv, TypeOK, PhaseInv, WorkerSummary, Lifecycle!vars, jobVars,
            workerVars, Lifecycle!Next, Lifecycle!Active
<1>1. CASE Spawn
  BY <1>1 DEF Spawn, Lifecycle!Spawn
<1>2. CASE LookBeforeRecord \/ RecordProcess \/ Age \/ OutsideTerm
  BY <1>2 DEF LookBeforeRecord, RecordProcess, Age, OutsideTerm
<1>3. CASE Reap \/ ParentStops
  BY <1>3 DEF Reap, ParentStops
<1>4. CASE Crash
  BY <1>4 DEF Crash, Corpse, Lifecycle!Die
<1>5. CASE UNCHANGED vars
  BY <1>5 DEF vars
<1> QED
  BY <1>1, <1>2, <1>3, <1>4, <1>5 DEF CreatorNext, SystemNext

LEMMA CallerRefines ==
  ASSUME IInv, NEW c \in Callers, CallerNext(c)
  PROVE  [Lifecycle!Next]_(Lifecycle!vars)
<1> USE DEF IInv, TypeOK, PhaseInv, WorkerSummary, Lifecycle!vars, jobVars,
            workerVars, Lifecycle!Next, Lifecycle!Active
<1>1. CASE Decide(c)
  BY <1>1 DEF Decide, ProcessIsJob, Lifecycle!DeclareLost
<1>2. CASE Arm(c)
  BY <1>2 DEF Arm, ProcessIsJob, Lifecycle!AskInterrupt
<1>3. CASE \/ \E interrupting \in BOOLEAN : Begin(c, interrupting)
           \/ ReadState(c) \/ Probe(c) \/ Kill(c) \/ CallerDies(c)
  BY <1>3 DEF Begin, ReadState, Probe, Kill, CallerDies
<1> QED
  BY <1>1, <1>2, <1>3 DEF CallerNext, Refresh

\* However the creator, the worker, the callers and the signals interleave,
\* the record changes only as the lifecycle allows.
THEOREM RunRefinesLifecycle == Spec => LifecycleKept
<1>1. IInv /\ [Next]_vars => [Lifecycle!Next]_(Lifecycle!vars)
  BY WorkerRefines, OthersRefine, CallerRefines DEF Next
<1> QED
  BY <1>1, InitRefines, Invariance, PTL
     DEF Spec, LifecycleKept, Lifecycle!Spec

=============================================================================
