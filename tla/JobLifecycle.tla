---------------------------- MODULE JobLifecycle ----------------------------
(***************************************************************************)
(* What the durable record of one background job promises to everybody who *)
(* reads it (the Jobs page, the CLI, the scheduler, the next create_job):  *)
(* which state may follow which, and what each change says about the       *)
(* worker process.  JobRun shows that the code of jobs.py keeps this       *)
(* promise step by step; JobAdmission keeps it for every job it admits.    *)
(***************************************************************************)

VARIABLES state,    \* the "state" field of the job's state.json
          worker    \* none | starting | registered | ended

vars == <<state, worker>>

\* ACTIVE_STATES: the job still owns its instance.
Active == {"queued", "running", "interrupting"}

\* What a worker that reached the end of its verb can leave behind.
Outcomes == {"succeeded", "failed", "needs_choice"}

\* No longer active; only these may be pruned away.
Ended == Outcomes \cup {"interrupted", "unknown", "answered"}

States == Active \cup Ended \cup {"forgotten"}

TypeOK ==
  /\ state \in States
  /\ worker \in {"none", "starting", "registered", "ended"}

Init ==
  /\ state = "queued"
  /\ worker = "none"

Spawn ==
  /\ worker = "none"
  /\ worker' = "starting"
  /\ UNCHANGED state

\* The worker announces itself.  Its write is unconditional, so it also
\* replaces an interrupt request or a premature "unknown".
Register ==
  /\ worker = "starting"
  /\ state \in Active \cup {"unknown"}
  /\ state' = "running"
  /\ worker' = "registered"

AskInterrupt ==
  /\ worker # "none"
  /\ state \in {"queued", "running"}
  /\ state' = "interrupting"
  /\ UNCHANGED worker

Report(outcome) ==
  /\ worker = "registered"
  /\ state \in {"running", "interrupting"}
  /\ state' = outcome
  /\ UNCHANGED worker

\* A signal that lands after the outcome was written turns it into
\* "interrupted"; nobody but the job's own live worker can do that.
LateInterrupt ==
  /\ worker = "registered"
  /\ state \in Outcomes \cup {"answered"}
  /\ state' = "interrupted"
  /\ UNCHANGED worker

Die ==
  /\ worker \in {"starting", "registered"}
  /\ worker' = "ended"
  /\ UNCHANGED state

\* A reader declares the job lost.  Never while its registered worker lives.
DeclareLost ==
  /\ worker # "registered"
  /\ state \in Active
  /\ state' = "unknown"
  /\ UNCHANGED worker

\* A follow-up job took over a job that was waiting for a decision.
Answer ==
  /\ state \in {"needs_choice", "answered", "interrupted"}
  /\ state' = "answered"
  /\ UNCHANGED worker

\* The record is pruned: nothing about the job is left on disk.
Forget ==
  /\ state \in Ended
  /\ state' = "forgotten"
  /\ UNCHANGED worker

Next ==
  \/ Answer \/ Forget
  \/ Spawn \/ Register \/ AskInterrupt \/ LateInterrupt \/ Die \/ DeclareLost
  \/ \E outcome \in Outcomes \cup {"interrupted"} : Report(outcome)

Spec == Init /\ [][Next]_vars

=============================================================================
