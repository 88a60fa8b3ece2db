-------------------------- MODULE JobRecorderProofs --------------------------
(***************************************************************************)
(* The recorder keeps what JobRecord promises, for any number of flush     *)
(* timers and events and whether or not the file's clock is coarse.        *)
(*                                                                         *)
(* What makes it so is the lock: whoever is about to write has read the    *)
(* file as it still is.  The rest says what each writer may be about to    *)
(* write, and that the outcome is the main thread's last word.             *)
(***************************************************************************)
EXTENDS JobRecorder, TLAPS

-----------------------------------------------------------------------------
Json == [state : {"running", "interrupting"} \cup Files!Finished, event_count : Nat, updated_at : Nat]
Counts == [event_count : 0..seq]
Calls == {[state |-> "interrupting"], [state |-> "answered"]}
Busy(t) == thread[t].at \in {"lock", "write"}

\* The holder of the lock writes over the record it read.
LockInv ==
  /\ lock \in Writers \cup {None}
  /\ \A t \in Writers : (thread[t].at = "write") = (lock = t)
  /\ \A t \in Writers : thread[t].at = "write" => thread[t].base = state

\* What each writer is about to lay over it.
ThreadInv ==
  /\ \A t \in Writers : thread[t].at \in {"idle", "lock", "write"} \cup (IF t \in Timers THEN {"armed"} ELSE {})
  /\ \A t \in Timers : Busy(t) => thread[t].changes \in Counts
  /\ Busy("main") => IF worker = "exit" THEN thread["main"].changes = [state |-> outcome]
                     ELSE thread["main"].changes \in Counts
  /\ thread["daemon"].at = "lock" => thread["daemon"].changes \in Calls
  /\ thread["daemon"].at = "write" => thread["daemon"].changes \in Calls \cup {<<>>}
  /\ worker = "gone" => \A t \in Writers \ {"daemon"} : Idle(t)

\* Until its outcome is merged a job is running or interrupting.
StateInv ==
  /\ worker \in {"verb", "append", "record"} => state.state \in {"running", "interrupting"}
  /\ worker = "exit" /\ ~Idle("main") => state.state \in {"running", "interrupting"}
  /\ Busy("daemon") /\ thread["daemon"].changes = [state |-> "answered"] => state.state = "needs_choice"
  /\ thread["daemon"].at = "write" /\ thread["daemon"].changes = [state |-> "interrupting"] => state.state = "running"

\* The log is at most the event behind that is being appended.
CountInv ==
  /\ seq \in 0..MaxEvents /\ lines \in Nat
  /\ worker = "append" => lines = seq - 1
  /\ worker = "gone" => lines \in {seq, seq - 1}
  /\ worker \notin {"append", "gone"} => lines = seq
  /\ worker \in {"record", "exit"} => outcome \in Ends
  /\ state.event_count <= seq

Shape ==
  /\ state \in Json /\ DOMAIN thread = Writers /\ pending \in Timers \cup {None}
  /\ worker \in {"verb", "append", "record", "exit", "gone"} /\ outcome \in Ends \cup {None}

IInv == Shape /\ LockInv /\ ThreadInv /\ StateInv /\ CountInv

-----------------------------------------------------------------------------
USE DEF Writers, Idle, Busy, Files!Finished, Files!Ends, Files!Outcomes, Ends, Json, Counts, Calls

LEMMA InitIInv == Init => IInv
<1> SUFFICES ASSUME Init PROVE IInv
  OBVIOUS
<1> USE RecorderAssumption DEF Init, Calm
<1>1. Shape
  BY DEF Shape
<1>2. LockInv
  BY DEF LockInv
<1>3. ThreadInv /\ StateInv
  BY DEF ThreadInv, StateInv
<1>4. CountInv
  BY DEF CountInv
<1> QED
  BY <1>1, <1>2, <1>3, <1>4 DEF IInv

\* Only what the daemon wants depends on what the record says by then.
LEMMA TakenAsIs ==
  ASSUME IInv, NEW t \in Writers \ {"daemon"}, thread[t].at = "lock"
  PROVE  Changes(t) = thread[t].changes
<1> USE RecorderAssumption DEF IInv, ThreadInv
<1>1. CASE thread[t].changes \in Counts
  <2>1. DOMAIN thread[t].changes = {"event_count"}
    BY <1>1
  <2> QED
    BY <2>1 DEF Changes
<1>2. CASE worker = "exit" /\ thread[t].changes = [state |-> outcome]
  BY <1>2 DEF Changes, CountInv
<1> QED
  BY <1>1, <1>2

LEMMA TakeLockKeeps == ASSUME IInv, NEW t \in Writers, TakeLock(t) PROVE IInv'
<1> USE RecorderAssumption DEF TakeLock, IInv
<1>1. Shape'
  BY DEF Shape
<1>2. LockInv'
  BY DEF Shape, LockInv
<1>3. ThreadInv'
  <2>1. /\ thread'[t].at = "write" /\ thread'[t].changes = Changes(t)
        /\ \A u \in Writers \ {t} : thread'[u] = thread[u]
    BY DEF Shape
  <2>2. CASE t = "daemon"
    BY <2>1, <2>2 DEF Shape, ThreadInv, Changes
  <2>3. CASE t # "daemon"
    BY <2>1, <2>3, TakenAsIs DEF Shape, ThreadInv
  <2> QED
    BY <2>2, <2>3
<1>4. StateInv'
  BY DEF Shape, LockInv, ThreadInv, StateInv, Changes
<1>5. CountInv'
  BY DEF CountInv
<1> QED
  BY <1>1, <1>2, <1>3, <1>4, <1>5

\* Laying one field over a record is setting that field.
LEMMA OverCount ==
  ASSUME NEW base \in Json, NEW n \in Nat
  PROVE  Over([event_count |-> n], base) = [base EXCEPT !.event_count = n]
<1>1. DOMAIN base = {"state", "event_count", "updated_at"} /\ DOMAIN [event_count |-> n] = {"event_count"}
  OBVIOUS
<1> QED
  BY <1>1 DEF Over

LEMMA OverState ==
  ASSUME NEW base \in Json, NEW s \in {"interrupting", "answered"} \cup Ends
  PROVE  Over([state |-> s], base) = [base EXCEPT !.state = s]
<1>1. DOMAIN base = {"state", "event_count", "updated_at"} /\ DOMAIN [state |-> s] = {"state"}
  OBVIOUS
<1> QED
  BY <1>1 DEF Over

\* What a merge does to the record: nothing, a count, or one of the three turns.
Counted == \E n \in 0..seq : Write([state EXCEPT !.event_count = n])
Turned(to) == Write([state EXCEPT !.state = to])

LEMMA MergeWrites ==
  ASSUME IInv, NEW t \in Writers, Merge(t)
  PROVE  \/ UNCHANGED <<state, mtime>>
         \/ worker # "gone" /\ Counted
         \/ /\ t = "main" /\ worker = "exit" /\ outcome \in Ends
            /\ state.state \in {"running", "interrupting"} /\ Turned(outcome)
         \/ t = "daemon" /\ state.state = "running" /\ Turned("interrupting")
         \/ t = "daemon" /\ state.state = "needs_choice" /\ Turned("answered")
<1> USE RecorderAssumption DEF IInv
<1>1. thread[t].at = "write" /\ thread[t].base = state /\ state \in Json /\ seq \in Nat
  BY DEF Merge, LockInv, Shape, CountInv
<1>2. CASE thread[t].changes = <<>>
  BY <1>2 DEF Merge
<1>3. CASE thread[t].changes # <<>>
  <2>1. Write(Over(thread[t].changes, state))
    BY <1>1, <1>3 DEF Merge
  <2>2. CASE thread[t].changes \in Counts /\ worker # "gone"
    <3>1. PICK n \in 0..seq : thread[t].changes = [event_count |-> n]
      BY <2>2
    <3>2. Over(thread[t].changes, state) = [state EXCEPT !.event_count = n]
      BY <1>1, <3>1, OverCount
    <3> QED
      BY <2>1, <2>2, <3>2 DEF Counted
  <2>3. CASE t = "main" /\ worker = "exit"
    <3>1. thread[t].changes = [state |-> outcome] /\ outcome \in Ends /\ state.state \in {"running", "interrupting"}
      BY <1>1, <2>3 DEF ThreadInv, StateInv, CountInv
    <3>2. Over(thread[t].changes, state) = [state EXCEPT !.state = outcome]
      BY <1>1, <3>1, OverState
    <3> QED
      BY <2>1, <2>3, <3>1, <3>2 DEF Turned
  <2>4. CASE t = "daemon"
    <3>1. PICK s \in {"interrupting", "answered"} : thread[t].changes = [state |-> s]
      BY <1>1, <1>3, <2>4 DEF ThreadInv
    <3>2. Over(thread[t].changes, state) = [state EXCEPT !.state = s]
      BY <1>1, <3>1, OverState, ZenonT(60)
    <3>3. state.state = IF s = "interrupting" THEN "running" ELSE "needs_choice"
      BY <1>1, <2>4, <3>1 DEF StateInv
    <3> QED
      BY <2>1, <2>4, <3>2, <3>3 DEF Turned
  <2>5. t # "daemon" => worker # "gone" /\ ((t = "main" /\ worker = "exit") \/ thread[t].changes \in Counts)
    BY <1>1 DEF ThreadInv
  <2> QED
    BY <2>2, <2>3, <2>4, <2>5
<1> QED
  BY <1>2, <1>3

LEMMA MergeKeeps == ASSUME IInv, NEW t \in Writers, Merge(t) PROVE IInv'
<1> USE RecorderAssumption DEF Merge, IInv, Calm
<1>1. thread'[t] = Calm /\ \A u \in Writers \ {t} : thread'[u] = thread[u] /\ thread[u].at # "write"
  BY DEF Shape, LockInv
<1>2. state' \in Json /\ state'.event_count <= seq
  <2> DEFINE next(json) == [json EXCEPT !.updated_at = state.updated_at + 1]
  <2>1. \A json \in Json : json.event_count <= seq => next(json) \in Json /\ next(json).event_count <= seq
    BY DEF Shape
  <2>2. \A n \in 0..seq : [state EXCEPT !.event_count = n] \in Json /\ [state EXCEPT !.event_count = n].event_count <= seq
    BY DEF Shape, CountInv
  <2>3. \A s \in {"interrupting", "answered"} \cup Ends :
           [state EXCEPT !.state = s] \in Json /\ [state EXCEPT !.state = s].event_count <= seq
    BY DEF Shape, CountInv
  <2> HIDE DEF next
  <2>4. CASE UNCHANGED state
    BY <2>4 DEF Shape, CountInv
  <2>5. CASE Counted
    BY <2>1, <2>2, <2>5 DEF Counted, Write, next
  <2>6. CASE \E s \in {"interrupting", "answered"} \cup Ends : Turned(s)
    BY <2>1, <2>3, <2>6 DEF Turned, Write, next
  <2> QED
    BY <2>4, <2>5, <2>6, MergeWrites
<1>3. Shape'
  BY <1>2 DEF Shape
<1>4. LockInv'
  BY <1>1 DEF LockInv
<1>5. ThreadInv'
  BY <1>1 DEF ThreadInv
<1>6. StateInv'
  <2>1. CASE state'.state = state.state
    BY <1>1, <2>1 DEF StateInv
  <2>2. CASE t = "main" /\ worker = "exit" /\ outcome \in Ends /\ state.state \in {"running", "interrupting"}
    BY <1>1, <2>2 DEF StateInv, ThreadInv
  <2>3. CASE t = "daemon" /\ state.state = "running" /\ state'.state = "interrupting"
    BY <1>1, <2>3 DEF StateInv, ThreadInv
  <2>4. CASE t = "daemon" /\ state.state = "needs_choice"
    BY <1>1, <2>4 DEF StateInv, ThreadInv
  <2> QED
    BY <2>1, <2>2, <2>3, <2>4, MergeWrites, ZenonT(60) DEF Shape, Write, Counted, Turned
<1>7. CountInv'
  BY <1>2 DEF CountInv
<1> QED
  BY <1>3, <1>4, <1>5, <1>6, <1>7

\* The verb's steps: the main thread is idle and the record as it was.
LEMMA VerbKeeps ==
  ASSUME IInv, Emit \/ \E end \in Ends : Finish(end)
  PROVE  IInv'
<1> USE RecorderAssumption DEF Emit, Finish, MainIdle, IInv
<1>1. Shape' /\ LockInv'
  BY DEF Shape, LockInv
<1>2. ThreadInv' /\ StateInv'
  BY DEF ThreadInv, StateInv, CountInv
<1>3. CountInv'
  BY DEF CountInv, Shape
<1> QED
  BY <1>1, <1>2, <1>3

\* Cancelling the pending timer leaves every other thread alone.
LEMMA DisarmedThreads ==
  ASSUME IInv
  PROVE  /\ DOMAIN Disarmed = Writers
         /\ \A u \in Writers : Disarmed[u] = thread[u] \/ (u \in Timers /\ thread[u].at = "armed" /\ Disarmed[u] = Calm)
<1> USE RecorderAssumption DEF IInv
<1>1. CASE pending # None /\ thread[pending].at = "armed"
  BY <1>1 DEF Shape, Disarmed
<1>2. CASE ~(pending # None /\ thread[pending].at = "armed")
  BY <1>2 DEF Shape, Disarmed
<1> QED
  BY <1>1, <1>2

\* Lining up a count for an idle thread, or for the timer that has just fired.
LEMMA FlushKeeps ==
  ASSUME IInv, NEW t \in Writers \ {"daemon"}, Flush(t, Disarmed),
         thread[t].at \in {"idle", "armed"}, worker # "gone",
         IF t = "main" THEN worker = "append" /\ worker' \in {"verb", "record"} ELSE worker' = worker,
         UNCHANGED <<state, lock, seq, outcome>>
  PROVE  LockInv' /\ ThreadInv' /\ DOMAIN thread' = Writers
<1> USE RecorderAssumption DEF IInv
<1>1. /\ DOMAIN thread' = Writers /\ thread'[t] = [at |-> "lock", changes |-> [event_count |-> seq], base |-> None]
      /\ \A u \in Writers \ {t} : thread'[u] = thread[u] \/ (u \in Timers /\ thread[u].at = "armed" /\ thread'[u] = Calm)
  BY DisarmedThreads DEF Flush, Waiting
<1>2. [event_count |-> seq] \in Counts
  BY DEF CountInv
<1>3. LockInv'
  BY <1>1 DEF LockInv, Calm
<1>4. ThreadInv'
  BY <1>1, <1>2 DEF ThreadInv, Calm
<1> QED
  BY <1>1, <1>3, <1>4

LEMMA WriteEventKeeps == ASSUME IInv, WriteEvent PROVE IInv'
<1> USE RecorderAssumption DEF IInv, MainIdle
<1>1. worker = "append" /\ Idle("main") /\ state.state \in {"running", "interrupting"} /\ seq' = seq /\ lines = seq - 1
  BY DEF WriteEvent, StateInv, CountInv
<1>2. worker' = (IF outcome = None THEN "verb" ELSE "record") /\ lines' = seq /\ UNCHANGED <<state, lock, seq, outcome>>
  BY DEF WriteEvent
<1>3. CountInv'
  BY <1>1, <1>2 DEF CountInv, Shape
<1>4. CASE Flush("main", Disarmed)
  <2>1. LockInv' /\ ThreadInv' /\ DOMAIN thread' = Writers
    BY <1>1, <1>2, <1>4, FlushKeeps
  <2>2. Shape'
    BY <1>2, <1>4, <2>1 DEF Shape, Flush
  <2>3. thread'["daemon"] = thread["daemon"]
    BY <1>4, DisarmedThreads DEF Flush
  <2>4. StateInv'
    BY <1>1, <1>2, <2>3 DEF StateInv
  <2> QED
    BY <1>3, <2>1, <2>2, <2>4
<1>5. CASE \E t \in Timers : Idle(t) /\ thread' = [thread EXCEPT ![t] = [Calm EXCEPT !.at = "armed"]] /\ pending' = t
  <2>1. PICK t \in Timers : Idle(t) /\ thread' = [thread EXCEPT ![t] = [Calm EXCEPT !.at = "armed"]] /\ pending' = t
    BY <1>5
  <2>2. thread'[t].at = "armed" /\ DOMAIN thread' = Writers /\ \A u \in Writers \ {t} : thread'[u] = thread[u]
    BY <2>1 DEF Shape, Calm
  <2>3. Shape' /\ LockInv'
    BY <1>2, <2>1, <2>2 DEF Shape, LockInv
  <2>4. ThreadInv'
    BY <1>1, <1>2, <2>1, <2>2 DEF ThreadInv
  <2>5. StateInv'
    BY <1>1, <1>2, <2>2 DEF StateInv
  <2> QED
    BY <1>3, <2>3, <2>4, <2>5
<1>6. CASE UNCHANGED <<thread, pending>>
  BY <1>1, <1>2, <1>3, <1>6 DEF Shape, LockInv, ThreadInv, StateInv
<1> QED
  BY <1>4, <1>5, <1>6 DEF WriteEvent

LEMMA FireKeeps == ASSUME IInv, NEW t \in Timers, Fire(t) PROVE IInv'
<1> USE RecorderAssumption DEF IInv
<1>1. worker # "gone" /\ UNCHANGED <<state, lock, seq, lines, worker, outcome>>
  BY DEF Fire, ThreadInv
<1>2. LockInv' /\ ThreadInv' /\ DOMAIN thread' = Writers
  BY <1>1, FlushKeeps DEF Fire
<1>3. \A u \in {"main", "daemon"} : thread'[u] = thread[u]
  BY DisarmedThreads DEF Fire, Flush
<1>4. Shape' /\ CountInv'
  BY <1>1, <1>2 DEF Shape, CountInv, Fire, Flush
<1>5. StateInv'
  BY <1>1, <1>3 DEF StateInv
<1> QED
  BY <1>2, <1>4, <1>5

\* The outcome and the daemon's wishes are lined up for the lock.
LEMMA WaitKeeps ==
  ASSUME IInv, RecordOutcome \/ AskInterrupt \/ AnswerChoice
  PROVE  IInv'
<1> USE RecorderAssumption DEF IInv, Waiting, MainIdle
<1>1. CASE RecordOutcome
  <2>1. /\ thread'["main"].at = "lock" /\ thread'["main"].changes = [state |-> outcome]
        /\ DOMAIN thread' = Writers /\ \A u \in Writers \ {"main"} : thread'[u] = thread[u]
    BY <1>1 DEF RecordOutcome, Shape
  <2>2. worker = "record" /\ worker' = "exit" /\ Idle("main") /\ UNCHANGED <<state, mtime, lock, seq, lines, pending, outcome>>
    BY <1>1 DEF RecordOutcome
  <2>3. Shape' /\ CountInv'
    BY <2>1, <2>2 DEF Shape, CountInv
  <2>4. LockInv' /\ ThreadInv' /\ StateInv'
    BY <2>1, <2>2 DEF LockInv, ThreadInv, StateInv
  <2> QED
    BY <2>3, <2>4
<1>2. CASE AskInterrupt \/ AnswerChoice
  <2>1. /\ thread'["daemon"].at = "lock" /\ thread'["daemon"].changes \in Calls
        /\ (thread'["daemon"].changes = [state |-> "answered"]) => state.state = "needs_choice"
        /\ DOMAIN thread' = Writers /\ \A u \in Writers \ {"daemon"} : thread'[u] = thread[u]
    <3>1. [state |-> "interrupting"] # [state |-> "answered"]
      <4>1. [state |-> "interrupting"].state # [state |-> "answered"].state
        OBVIOUS
      <4> QED
        BY <4>1
    <3> QED
      BY <1>2, <3>1 DEF AskInterrupt, AnswerChoice, Shape
  <2>2. Idle("daemon") /\ UNCHANGED <<state, mtime, lock, seq, lines, pending, worker, outcome>>
    BY <1>2 DEF AskInterrupt, AnswerChoice
  <2>3. Shape' /\ CountInv'
    BY <2>1, <2>2 DEF Shape, CountInv
  <2>4. LockInv' /\ ThreadInv' /\ StateInv'
    BY <2>1, <2>2 DEF LockInv, ThreadInv, StateInv
  <2> QED
    BY <2>3, <2>4
<1> QED
  BY <1>1, <1>2

\* The worker takes its threads, and a lock one of them held, with it.
LEMMA DieKeeps ==
  ASSUME IInv, Die, worker # "gone"
  PROVE  IInv'
<1> USE RecorderAssumption DEF IInv, Die
<1>1. thread'["daemon"] = thread["daemon"] /\ \A u \in Writers \ {"daemon"} : thread'[u] = Calm
  OBVIOUS
<1>2. Shape' /\ CountInv'
  BY DEF Shape, CountInv
<1>3. LockInv'
  BY <1>1 DEF LockInv, Calm
<1>4. ThreadInv' /\ StateInv'
  BY <1>1 DEF ThreadInv, StateInv, Calm
<1> QED
  BY <1>2, <1>3, <1>4

\* A dead worker's record is nobody's to write meanwhile but the daemon's.
LEMMA RefreshKeeps == ASSUME IInv, RefreshUnknown PROVE IInv'
<1> USE RecorderAssumption DEF IInv, RefreshUnknown
<1>1. /\ worker = "gone" /\ state.state \in Files!Active /\ lock = None
      /\ UNCHANGED <<lock, thread, seq, lines, pending, worker, outcome>>
  BY DEF Files!Vanished, alive
<1>2. state' \in Json /\ state'.state = "unknown" /\ state'.event_count = state.event_count
  <2>1. [state EXCEPT !.state = "unknown"] \in Json /\ state.updated_at + 1 \in Nat
    BY DEF Shape
  <2>2. state' = [[state EXCEPT !.state = "unknown"] EXCEPT !.updated_at = state.updated_at + 1]
    BY DEF Write
  <2> QED
    BY <2>1, <2>2 DEF Shape
<1>3. Shape' /\ LockInv' /\ CountInv'
  BY <1>1, <1>2 DEF Shape, LockInv, CountInv
<1>4. ThreadInv'
  BY <1>1 DEF ThreadInv
<1>5. StateInv'
  BY <1>1, <1>2 DEF StateInv, LockInv, Files!Active
<1> QED
  BY <1>3, <1>4, <1>5

LEMMA StepKeeps == IInv /\ [Next]_vars => IInv'
<1> SUFFICES ASSUME IInv, [Next]_vars PROVE IInv'
  OBVIOUS
<1>1. CASE \E t \in Writers : TakeLock(t) \/ Merge(t)
  BY <1>1, TakeLockKeeps, MergeKeeps
<1>2. CASE \E t \in Timers : Fire(t)
  BY <1>2, FireKeeps
<1>3. CASE Emit \/ (\E end \in Ends : Finish(end)) \/ WriteEvent
  BY <1>3, VerbKeeps, WriteEventKeeps
<1>4. CASE RecordOutcome \/ AskInterrupt \/ AnswerChoice
  BY <1>4, WaitKeeps
<1>5. CASE Exit \/ Crash
  BY <1>5, DieKeeps DEF Exit, Crash, MainIdle
<1>6. CASE RefreshUnknown
  BY <1>6, RefreshKeeps
<1>7. CASE UNCHANGED vars
  BY <1>7 DEF vars, IInv, Shape, LockInv, ThreadInv, StateInv, CountInv
<1> QED
  BY <1>1, <1>2, <1>3, <1>4, <1>5, <1>6, <1>7 DEF Next

-----------------------------------------------------------------------------
(* Whatever the timers, the worker and the daemon do, the record and the log *)
(* have their types, the log is at most one event behind the last number,    *)
(* the count is never ahead of it, and whoever writes state.json holds its   *)
(* lock.                                                                     *)
THEOREM TypeCorrect == Spec => []TypeOK
<1>1. IInv => TypeOK
  <2> SUFFICES ASSUME IInv PROVE TypeOK
    OBVIOUS
  <2> USE RecorderAssumption DEF IInv
  <2>1. state.event_count \in 0..seq /\ lines \in {seq, seq - 1}
    BY DEF Shape, CountInv
  <2> QED
    BY <2>1 DEF Shape, LockInv, ThreadInv, CountInv, TypeOK
<1> QED
  BY <1>1, InitIInv, StepKeeps, PTL DEF Spec

\* What a reader of the files may see happen in one step.
Kept == Files!RecordNext \/ UNCHANGED Files!record

LEMMA SameFiles ==
  ASSUME UNCHANGED <<state, mtime, lines, worker>>
  PROVE  Kept
BY DEF Kept, Files!record, alive

LEMMA MergeKept == ASSUME IInv, NEW t \in Writers, Merge(t) PROVE Kept
<1> USE RecorderAssumption DEF IInv
<1>1. UNCHANGED <<lines, worker, alive>>
  BY DEF Merge, alive
<1>2. CASE UNCHANGED <<state, mtime>>
  BY <1>1, <1>2, SameFiles
<1>3. CASE worker # "gone" /\ Counted
  <2>1. PICK n \in 0..seq : Write([state EXCEPT !.event_count = n])
    BY <1>3 DEF Counted
  <2>2. n \in 0..(IF lines < MaxEvents THEN lines + 1 ELSE lines) /\ n \in 0..MaxEvents
    BY <1>3 DEF CountInv, Shape
  <2>3. Files!Count(n)
    BY <1>1, <1>3, <2>1, <2>2 DEF Files!Count, Files!Written, Write, alive
  <2> QED
    BY <2>2, <2>3 DEF Kept, Files!RecordNext, Files!Writing
<1>4. CASE worker = "exit" /\ outcome \in Ends /\ state.state \in {"running", "interrupting"} /\ Turned(outcome)
  <2>1. Files!End(outcome)
    BY <1>1, <1>4 DEF Files!End, Files!Turn, Files!Written, Files!Active, Turned, Write, alive
  <2> QED
    BY <1>4, <2>1 DEF Kept, Files!RecordNext, Files!Writing
<1>5. CASE state.state = "running" /\ Turned("interrupting")
  BY <1>1, <1>5 DEF Kept, Files!RecordNext, Files!Writing, Files!Interrupting, Files!Turn, Files!Written, Turned, Write
<1>6. CASE state.state = "needs_choice" /\ Turned("answered")
  BY <1>1, <1>6 DEF Kept, Files!RecordNext, Files!Writing, Files!Answered, Files!Turn, Files!Written, Turned, Write
<1> QED
  BY <1>2, <1>3, <1>4, <1>5, <1>6, MergeWrites

LEMMA StepKept == IInv /\ [Next]_vars => Kept
<1> SUFFICES ASSUME IInv, [Next]_vars PROVE Kept
  OBVIOUS
<1> USE RecorderAssumption
<1>1. CASE \E t \in Writers : Merge(t)
  BY <1>1, MergeKept
<1>2. CASE WriteEvent
  <2>1. lines' = lines + 1 /\ lines < MaxEvents /\ worker # "gone" /\ worker' # "gone" /\ UNCHANGED <<state, mtime>>
    BY <1>2 DEF WriteEvent, IInv, CountInv
  <2>2. Files!AddLine
    BY <2>1 DEF Files!AddLine, alive
  <2> QED
    BY <2>2 DEF Kept, Files!RecordNext, Files!Writing
<1>3. CASE Emit \/ (\E end \in Ends : Finish(end)) \/ RecordOutcome
  <2>1. UNCHANGED <<state, mtime, lines>> /\ worker # "gone" /\ worker' # "gone"
    BY <1>3 DEF Emit, Finish, RecordOutcome
  <2> QED
    BY <2>1 DEF Kept, Files!record, alive
<1>4. CASE Exit \/ Crash
  <2>1. UNCHANGED <<state, mtime, lines>> /\ worker # "gone" /\ worker' = "gone"
    BY <1>4 DEF Exit, Crash, Die, MainIdle
  <2>2. Files!Die
    BY <2>1 DEF Files!Die, alive
  <2> QED
    BY <2>2 DEF Kept, Files!RecordNext, Files!Writing
<1>5. CASE RefreshUnknown
  <2>1. Files!Vanish
    BY <1>5 DEF RefreshUnknown, Files!Vanish, Files!Turn, Files!Written, Write, alive
  <2> QED
    BY <2>1 DEF Kept, Files!RecordNext
<1>6. CASE (\E t \in Writers : TakeLock(t)) \/ (\E t \in Timers : Fire(t)) \/ AskInterrupt \/ AnswerChoice \/ UNCHANGED vars
  BY <1>6, SameFiles DEF TakeLock, Fire, AskInterrupt, AnswerChoice, vars
<1> QED
  BY <1>1, <1>2, <1>3, <1>4, <1>5, <1>6 DEF Next

(* Whatever the timers, the worker and the daemon write over each other,     *)
(* every step of the recorder is one JobRecord allows or none at all: the    *)
(* record only moves on, an outcome is not overwritten by a flush, an answer *)
(* or an interrupt that raced it, and the log only grows (_state_lock,       *)
(* _merge_state).                                                            *)
THEOREM RecorderKeepsRecord == Spec => RecordKept
<1>1. Init => Files!RecordInit
  BY DEF Init, Files!RecordInit, alive
<1>2. IInv /\ [Next]_vars => [Files!RecordNext]_(Files!record)
  BY StepKept DEF Kept
<1> QED
  BY <1>1, <1>2, InitIInv, StepKeeps, PTL DEF Spec, RecordKept, Files!RecordSpec
=============================================================================
