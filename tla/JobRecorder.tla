---------------------------- MODULE JobRecorder ----------------------------
(***************************************************************************)
(* One job's record on disk while it is written: the worker's _Recorder    *)
(* with its flush timers, state.json under its lock, events.jsonl, and the *)
(* daemon's own writes (jobs.py).                                          *)
(*                                                                         *)
(* Every write of state.json takes the lock, reads the file, lays its      *)
(* changes over it and replaces the file.  An event is numbered, appended  *)
(* and counted in three steps; a timer thread may count in between.  How   *)
(* the worker starts, takes signals and dies is JobRun's subject: here it  *)
(* begins at job_started, and a signal may end the verb at any time.       *)
(***************************************************************************)
EXTENDS Integers, Sequences, FiniteSets

CONSTANTS
    Timers,         \* the flush timers that may be alive at once
    Coarse,         \* whether two writes may fall into one tick of the file's clock
    None,
    MaxEvents       \* bound: events of the job

ASSUME RecorderAssumption ==
    /\ MaxEvents \in Nat /\ Coarse \in BOOLEAN
    /\ {"main", "daemon", None} \cap Timers = {} /\ None \notin {"main", "daemon"}

VARIABLES
    state, mtime,   \* state.json: [state, event_count, updated_at], and its file's time
    lock,           \* the holder of state.lock
    thread,         \* what each writer is about to merge: [at, changes, base]
    seq,            \* _Recorder.seq
    lines,          \* whole lines of events.jsonl
    pending,        \* _Recorder._pending
    worker,         \* the worker's main thread: what it does next
    outcome         \* how the worker's verb ended

vars == <<state, mtime, lock, thread, seq, lines, pending, worker, outcome>>

alive == worker # "gone"
Files == INSTANCE JobRecord
Active == Files!Active
Ends == Files!Ends

Writers == Timers \cup {"main", "daemon"}
Calm == [at |-> "idle", changes |-> <<>>, base |-> None]
Waiting(changes) == [at |-> "lock", changes |-> changes, base |-> None]
Idle(t) == thread[t].at = "idle"

-----------------------------------------------------------------------------
(* _merge_state                                                              *)

(* What a writer lays over the record it finds.  An interrupt is recorded    *)
(* only for a running job with a live worker; the others do not look.        *)
Changes(t) ==
    LET wanted == thread[t].changes
    IN IF "state" \in DOMAIN wanted /\ wanted.state = "interrupting"
             /\ (state.state # "running" \/ worker = "gone")
       THEN <<>> ELSE wanted

Over(changes, base) == [f \in DOMAIN base |-> IF f \in DOMAIN changes THEN changes[f] ELSE base[f]]

(* Defect: the record is read and written without the lock.                  *)
TakeLockShared(t) ==
    /\ thread[t].at = "lock"
    /\ thread' = [thread EXCEPT ![t] = [at |-> "write", changes |-> Changes(t), base |-> state]]
    /\ lock' = t
    /\ UNCHANGED <<state, mtime, seq, lines, pending, worker, outcome>>

TakeLock(t) ==
    /\ thread[t].at = "lock" /\ lock = None
    /\ thread' = [thread EXCEPT ![t] = [at |-> "write", changes |-> Changes(t), base |-> state]]
    /\ lock' = t
    /\ UNCHANGED <<state, mtime, seq, lines, pending, worker, outcome>>

Write(json) ==
    /\ state' = [json EXCEPT !.updated_at = state.updated_at + 1]
    /\ mtime' \in (IF Coarse THEN {mtime} ELSE {}) \cup {state'.updated_at}

Merge(t) ==
    /\ thread[t].at = "write"
    /\ IF thread[t].changes = <<>> THEN UNCHANGED <<state, mtime>>
       ELSE Write(Over(thread[t].changes, thread[t].base))
    /\ thread' = [thread EXCEPT ![t] = Calm]
    /\ lock' = None
    /\ UNCHANGED <<seq, lines, pending, worker, outcome>>

-----------------------------------------------------------------------------
(* _Recorder                                                                 *)

MainIdle == Idle("main") /\ worker # "gone"

(* The verb reports, or ends; what ends the job is a last event.             *)
Emit ==
    /\ worker = "verb" /\ MainIdle /\ seq < MaxEvents - 1
    /\ seq' = seq + 1 /\ worker' = "append"
    /\ UNCHANGED <<state, mtime, lock, thread, lines, pending, outcome>>

Finish(end) ==
    /\ worker = "verb" /\ MainIdle /\ seq < MaxEvents
    /\ seq' = seq + 1 /\ worker' = "append" /\ outcome' = end
    /\ UNCHANGED <<state, mtime, lock, thread, lines, pending>>

(* flush: a pending timer is cancelled if it has not begun, and the count    *)
(* read here is written once the lock is held.                               *)
Flush(t, threads) ==
    /\ thread' = [threads EXCEPT ![t] = Waiting([event_count |-> seq])]
    /\ pending' = None

Disarmed == IF pending # None /\ thread[pending].at = "armed" THEN [thread EXCEPT ![pending] = Calm] ELSE thread

(* An event is flushed when half a second has passed, else a timer does it;  *)
(* a lifecycle event (the last one here) is always flushed.                  *)
WriteEvent ==
    /\ worker = "append" /\ MainIdle
    /\ lines' = seq
    /\ worker' = IF outcome = None THEN "verb" ELSE "record"
    /\ \/ Flush("main", Disarmed)
       \/ /\ outcome = None /\ pending = None
          /\ \E t \in Timers : Idle(t) /\ thread' = [thread EXCEPT ![t] = [Calm EXCEPT !.at = "armed"]] /\ pending' = t
       \/ outcome = None /\ pending # None /\ UNCHANGED <<thread, pending>>
    /\ UNCHANGED <<state, mtime, lock, seq, outcome>>

Fire(t) ==
    /\ thread[t].at = "armed"
    /\ Flush(t, Disarmed)
    /\ UNCHANGED <<state, mtime, lock, seq, lines, worker, outcome>>

(* The outcome is merged after its event was counted; then the worker exits, *)
(* and its timers with it.                                                   *)
RecordOutcome ==
    /\ worker = "record" /\ MainIdle
    /\ thread' = [thread EXCEPT !["main"] = Waiting([state |-> outcome])]
    /\ worker' = "exit"
    /\ UNCHANGED <<state, mtime, lock, seq, lines, pending, outcome>>

Die ==
    /\ worker' = "gone"
    /\ thread' = [t \in Writers |-> IF t = "daemon" THEN thread[t] ELSE Calm]
    /\ lock' = IF lock = "daemon" THEN lock ELSE None
    /\ pending' = None
    /\ UNCHANGED <<state, mtime, seq, lines, outcome>>

Exit == worker = "exit" /\ MainIdle /\ Die
Crash == worker # "gone" /\ Die

-----------------------------------------------------------------------------
(* The daemon's writes                                                       *)

AskInterrupt ==
    /\ Idle("daemon") /\ state.state = "running" /\ worker # "gone"
    /\ thread' = [thread EXCEPT !["daemon"] = Waiting([state |-> "interrupting"])]
    /\ UNCHANGED <<state, mtime, lock, seq, lines, pending, worker, outcome>>

(* continue_job: the decision is taken, and the follow-up job named.         *)
AnswerChoice ==
    /\ Idle("daemon") /\ state.state = "needs_choice"
    /\ thread' = [thread EXCEPT !["daemon"] = Waiting([state |-> "answered"])]
    /\ UNCHANGED <<state, mtime, lock, seq, lines, pending, worker, outcome>>

(* Whoever reads the record of a dead worker first says so, under the lock.  *)
RefreshUnknown ==
    /\ Files!Vanished /\ lock = None
    /\ Write([state EXCEPT !.state = "unknown"])
    /\ UNCHANGED <<lock, thread, seq, lines, pending, worker, outcome>>

-----------------------------------------------------------------------------
Init ==
    /\ state = [state |-> "running", event_count |-> 0, updated_at |-> 0] /\ mtime = 0
    /\ lock = None /\ thread = [t \in Writers |-> Calm]
    /\ seq = 0 /\ lines = 0 /\ pending = None /\ worker = "verb" /\ outcome = None

Next ==
    \/ \E t \in Writers : TakeLock(t) \/ Merge(t)
    \/ \E t \in Timers : Fire(t)
    \/ Emit \/ (\E end \in Ends : Finish(end)) \/ WriteEvent \/ RecordOutcome \/ Exit \/ Crash
    \/ AskInterrupt \/ AnswerChoice \/ RefreshUnknown

Spec == Init /\ [][Next]_vars

-----------------------------------------------------------------------------

TypeOK ==
    /\ state.state \in {"running", "interrupting"} \cup Files!Finished
    /\ seq \in 0..MaxEvents /\ lines \in {seq, seq - 1} /\ state.event_count \in 0..seq
    /\ lock \in Writers \cup {None} /\ pending \in Timers \cup {None}
    /\ \A t \in Writers :
          /\ thread[t].at \in {"idle", "lock", "write"} \cup (IF t \in Timers THEN {"armed"} ELSE {})
          /\ (thread[t].at = "write") = (lock = t)
    /\ worker \in {"verb", "append", "record", "exit", "gone"} /\ outcome \in Ends \cup {None}

(* Whatever the timers, the worker and the daemon write over each other, the *)
(* record only moves on: no flush that began before an outcome was recorded, *)
(* and no answer or interrupt that raced it, brings an older state back      *)
(* (_state_lock).                                                            *)
RecordKept == Files!RecordSpec
=============================================================================
