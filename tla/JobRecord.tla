----------------------------- MODULE JobRecord -----------------------------
(***************************************************************************)
(* What a job's files promise whoever reads them (jobs.py): state.json     *)
(* only moves on, and the log only grows.  The count of events in          *)
(* state.json is a hint: a flush may write an older count over a newer     *)
(* one, or count an event that is not in the file yet.  JobRecorder is     *)
(* shown to keep this, and JobFeed relies on it.                           *)
(***************************************************************************)
EXTENDS Integers

CONSTANTS
    Coarse,         \* whether two writes may fall into one tick of the file's clock
    MaxEvents       \* bound: events of the job

ASSUME RecordAssumption == MaxEvents \in Nat /\ Coarse \in BOOLEAN

VARIABLES
    state,          \* state.json: [state, event_count, updated_at],
    mtime,          \* and the file's time
    lines,          \* whole lines of events.jsonl
    alive           \* whether the worker lives

record == <<state, mtime, lines, alive>>

Active == {"queued", "running", "interrupting"}
Outcomes == {"succeeded", "failed", "needs_choice"}
Ends == Outcomes \cup {"interrupted"}
Finished == Ends \cup {"unknown", "answered"}

(* Every write has a moment of its own; the file's clock may not show it.    *)
Written(json) ==
    /\ state' = [json EXCEPT !.updated_at = state.updated_at + 1]
    /\ mtime' \in (IF Coarse THEN {mtime} ELSE {}) \cup {state'.updated_at}
Turn(to) == Written([state EXCEPT !.state = to])

AddLine ==
    /\ alive /\ lines < MaxEvents /\ lines' = lines + 1
    /\ UNCHANGED <<state, mtime, alive>>

Count(n) ==
    /\ alive /\ n \in 0..(IF lines < MaxEvents THEN lines + 1 ELSE lines)
    /\ Written([state EXCEPT !.event_count = n])
    /\ UNCHANGED <<lines, alive>>

Interrupting == state.state = "running" /\ Turn("interrupting") /\ UNCHANGED <<lines, alive>>
End(outcome) == alive /\ state.state \in Active /\ Turn(outcome) /\ UNCHANGED <<lines, alive>>
Answered == state.state = "needs_choice" /\ Turn("answered") /\ UNCHANGED <<lines, alive>>

(* Whoever reads the record of a dead worker first says so.                  *)
Vanished == ~alive /\ state.state \in Active
Vanish == Vanished /\ Turn("unknown") /\ UNCHANGED <<lines, alive>>

Die == alive /\ alive' = FALSE /\ UNCHANGED <<state, mtime, lines>>

RecordInit ==
    /\ state = [state |-> "running", event_count |-> 0, updated_at |-> 0] /\ mtime = 0
    /\ lines = 0 /\ alive = TRUE

Writing ==
    \/ AddLine \/ (\E n \in 0..MaxEvents : Count(n)) \/ (\E e \in Ends : End(e))
    \/ Interrupting \/ Answered \/ Die
RecordNext == Writing \/ Vanish
RecordSpec == RecordInit /\ [][RecordNext]_record
=============================================================================
