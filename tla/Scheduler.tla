------------------------------ MODULE Scheduler ------------------------------
(***************************************************************************)
(* The scheduled jobs of core/schedules.py: schedulers (the UI daemon's    *)
(* thread, the machine-wide service) pass over one store of schedules once *)
(* a minute and start jobs on one instance, while people edit the store,   *)
(* the instance comes and goes, and jobs run for as long as they like.     *)
(*                                                                         *)
(* A pass looks at the instance and the finished jobs first, then takes    *)
(* the store's lock, works on a copy of the store, one schedule after the  *)
(* other, and saves that copy at its very end.  A job it starts is running *)
(* from the moment it is started, whatever becomes of the pass.            *)
(***************************************************************************)
EXTENDS Naturals, FiniteSets

CONSTANTS
  Schedules,   \* the schedules of the store
  Schedulers,  \* the processes that run the loop
  Kind,        \* "cron", "once", "after_job" or "on_start" for each schedule
  SlotsOf,     \* the minutes a schedule's cron (or its "at") names
  Steps,       \* how many steps a recipe has; 0 for a plain schedule
  Skips,       \* schedules with missed = "skip"
  StartsFirst, \* schedules with start_if_stopped
  Rare,        \* schedules whose next slot may be more than 366 days away
  BadSteps,    \* <<schedule, step>> pairs create_job may refuse as invalid
  May,         \* what else happens: see Disturbances
  Prompt,      \* every scheduler makes its pass in every minute
  Horizon,     \* bound: the last minute
  MaxJobs,     \* bound: jobs ever created; past it the instance counts as busy
  MaxAsked,    \* bound: jobs people ask for
  MaxBoots,    \* bound: how often the instance comes up
  MaxLost      \* bound: passes that do not reach their end

Disturbances == {"crash", "error", "guard", "stop", "edit", "run_now", "other"}

Minutes == 0..Horizon

ASSUME SchedulerAssumption ==
  /\ Horizon \in Nat /\ MaxJobs \in Nat /\ MaxAsked \in Nat /\ MaxBoots \in Nat
  /\ MaxLost \in Nat
  /\ Schedules \cap {"nobody", "people"} = {}
  /\ Kind \in [Schedules -> {"cron", "once", "after_job", "on_start"}]
  /\ SlotsOf \in [Schedules -> SUBSET (1..Horizon)]
  /\ Steps \in [Schedules -> Nat]
  /\ Skips \subseteq Schedules /\ StartsFirst \subseteq Schedules
  /\ Rare \subseteq Schedules
  /\ May \subseteq Disturbances
  /\ Prompt \in BOOLEAN

VARIABLES
  minute,   \* the clock
  up,       \* the instance runs
  boots,    \* how often it came up
  guard,    \* what the fire-time guards say: "open", "waits" or "refuses"
  last,     \* job ids handed out so far
  job,      \* the job records
  store,    \* the schedules on disk
  known,    \* the store's "running": was the instance running?
  at,       \* where each scheduler is in its pass
  ticked,   \* it made its pass this minute
  sample,   \* what it looked at before it took the lock
  seen,     \* the finished jobs its previous pass saw
  draft,    \* the lock holder's copy of the schedules
  left,     \* schedules the lock holder has yet to look at
  lost      \* passes that held the lock and never saved (history)

world == <<minute, up, boots, guard>>
vars  == <<world, last, job, store, known, at, ticked, sample, seen, draft, left, lost>>

-----------------------------------------------------------------------------
Jobs == 1..MaxJobs
NoJob == [by |-> "nobody", what |-> "none", slot |-> 0, step |-> 0, state |-> "none"]

\* "first": a slot's or an event's job (a recipe's step 0), "next": a later
\* step, "start": the start before it, "manual": run_now, "other": not ours.
Job == [by    : Schedules \cup {"nobody", "people"},
        what  : {"none", "first", "next", "start", "manual", "other"},
        slot  : 0..(Horizon + 1),
        step  : Nat,
        state : {"none", "active", "succeeded", "failed"}]

\* 0 stands for "no job" and for "no recorded slot".
Row == [enabled   : BOOLEAN,
        due       : 0..(Horizon + 1),
        dueFrom   : Minutes,
        lastJob   : 0..MaxJobs,
        lastState : {"none", "active", "succeeded", "failed", "skipped", "missed"},
        pending   : BOOLEAN,
        awaits    : BOOLEAN,
        recipe    : 0..MaxJobs,
        step      : Nat,
        consumed  : SUBSET Jobs]

NewRow == [enabled |-> TRUE, due |-> 0, dueFrom |-> 0, lastJob |-> 0,
           lastState |-> "none", pending |-> FALSE, awaits |-> FALSE,
           recipe |-> 0, step |-> 0, consumed |-> {}]

\* A process that has made no pass yet has seen nothing, not even an empty set.
Cold == {0}
NoSample == [now |-> 0, up |-> FALSE, finished |-> {}, fresh |-> {}]

TypeOK ==
  /\ minute \in Minutes /\ up \in BOOLEAN /\ boots \in 0..MaxBoots
  /\ guard \in {"open", "waits", "refuses"}
  /\ last \in 0..MaxJobs
  /\ job \in [Jobs -> Job]
  /\ store \in [Schedules -> Row]
  /\ known \in {"unset", "up", "down"}
  /\ at \in [Schedulers -> {"rest", "sampled", "fire", "outcome"}]
  /\ ticked \in [Schedulers -> BOOLEAN]
  /\ sample \in [Schedulers -> [now : Minutes, up : BOOLEAN,
                                finished : SUBSET Jobs, fresh : SUBSET Jobs]]
  /\ seen \in [Schedulers -> SUBSET (0..MaxJobs)]
  /\ draft \in [Schedules -> Row]
  /\ left \subseteq Schedules
  /\ lost \in 0..MaxLost

Init ==
  /\ minute = 0 /\ up \in BOOLEAN /\ boots = 0 /\ guard = "open"
  /\ last = 0 /\ job = [j \in Jobs |-> NoJob]
  /\ store = [s \in Schedules |-> NewRow]
  /\ known = "unset"
  /\ at = [p \in Schedulers |-> "rest"]
  /\ ticked = [p \in Schedulers |-> FALSE]
  /\ sample = [p \in Schedulers |-> NoSample]
  /\ seen = [p \in Schedulers |-> Cold]
  /\ draft = store
  /\ left = {}
  /\ lost = 0

-----------------------------------------------------------------------------
(* Slots. *)

Timed(s) == Kind[s] \in {"cron", "once"}

\* Defect: the slot of this very minute is next again.
NextSlotFrom(s, m) ==
  LET later == {x \in SlotsOf[s] : x >= m}
  IN  IF later = {} THEN Horizon + 1
      ELSE CHOOSE x \in later : \A y \in later : x <= y

\* compute_next: the first slot after m; Horizon + 1 is a slot nobody lives to
\* see.
NextSlot(s, m) ==
  LET later == {x \in SlotsOf[s] : x > m}
  IN  IF later = {} THEN Horizon + 1
      ELSE CHOOSE x \in later : \A y \in later : x <= y

\* _next_due.
NextDue(s, r) == IF r.due # 0 THEN r.due ELSE NextSlot(s, r.dueFrom)

\* Defect: the slot stays as it is, so the next pass meets it again.
AdvanceNot(s, r, now) == IF Kind[s] = "once" THEN [r EXCEPT !.enabled = FALSE] ELSE r

\* Defect: the slot is written down one minute late.
AdvanceLate(s, r, now) ==
  IF Kind[s] = "cron" THEN [r EXCEPT !.due = NextSlot(s, now) + 1]
  ELSE [r EXCEPT !.enabled = FALSE]

\* _advance: wait for the slot after now; a one-off retires.  A slot further
\* away than next_cron looks is recorded as none at all.
Advance(s, r, now) ==
  CASE Kind[s] = "once" -> [r EXCEPT !.enabled = FALSE, !.due = 0]
    [] Kind[s] = "cron" ->
         LET next == NextSlot(s, now)
         IN  [r EXCEPT !.due = IF s \in Rare /\ next > Horizon THEN 0 ELSE next]
    [] OTHER -> r

\* _rearm: forget the slot and the event waited for.
Rearm(r) == [r EXCEPT !.dueFrom = minute, !.due = 0, !.pending = FALSE]

-----------------------------------------------------------------------------
(* Jobs. *)

Ids == 1..last

\* The finished jobs an after_job trigger could name; what a pass makes of the
\* others is nothing.
Finished == {j \in Ids : job[j].what = "other" /\ job[j].state = "succeeded"}
Free == last < MaxJobs /\ \A j \in Ids : job[j].state # "active"

\* create_job admits one job on a free instance.
Create(s, what, slot, step) ==
  /\ Free
  /\ last' = last + 1
  /\ job' = [job EXCEPT ![last + 1] =
               [by |-> s, what |-> what, slot |-> slot, step |-> step,
                state |-> "active"]]

NoNewJob == UNCHANGED <<last, job>>

\* Defect: the event stays pending after its job has started.
RanStillPending(r, pending) ==
  [r EXCEPT !.lastJob = last + 1, !.lastState = "active"]

\* The row after _fire started a job or was refused for good.
Ran(r, pending) ==
  [r EXCEPT !.lastJob = last + 1, !.lastState = "active", !.pending = pending]
Refused(r) ==
  [r EXCEPT !.lastJob = 0, !.lastState = "failed", !.pending = FALSE]

-----------------------------------------------------------------------------
(* A pass: first what it looks at, then the lock. *)

Inside == {"fire", "outcome"}
Unlocked == \A p \in Schedulers : at[p] \notin Inside

GoesTo(p, phase) == at' = [at EXCEPT ![p] = phase]

\* tick_once: the running instances, the newly finished jobs, the time.  A
\* process that has just begun takes the jobs that finished in the last minute
\* and a half, whichever those are.
Sample(p) ==
  /\ at[p] = "rest"
  /\ ~ticked[p] \/ minute = Horizon
  /\ \E fresh \in IF seen[p] = Cold THEN SUBSET Finished ELSE {Finished \ seen[p]} :
       sample' = [sample EXCEPT ![p] = [now |-> minute, up |-> up,
                                        finished |-> Finished, fresh |-> fresh]]
  /\ GoesTo(p, "sampled")
  /\ UNCHANGED <<world, last, job, store, known, ticked, seen, draft, left, lost>>

Lock(p) ==
  /\ at[p] = "sampled"
  /\ Unlocked
  /\ GoesTo(p, "fire")
  /\ draft' = store
  /\ left' = Schedules
  /\ UNCHANGED <<world, last, job, store, known, ticked, sample, seen, lost>>

-----------------------------------------------------------------------------
(* The first loop of tick: what is due is fired, skipped or held. *)

\* Defect: a scheduler forgets what the other one's triggers consumed.
HitsUnconsumed(p, s, r) ==
  IF Kind[s] # "after_job" THEN {} ELSE sample[p].fresh

\* _event_fires for after_job: the succeeded jobs it has not consumed yet.
Hits(p, s, r) ==
  IF Kind[s] # "after_job" THEN {} ELSE sample[p].fresh \ r.consumed

\* Defect: a running instance is taken for one that has just started.
StartedWhenUp(p) == sample[p].up

\* Started since the last pass any scheduler saved.
Started(p) == known = "down" /\ sample[p].up

\* The row once the pass has looked for its event.
Noticed(p, s) ==
  LET r    == draft[s]
      hits == Hits(p, s, r)
  IN  IF hits # {} \/ (Kind[s] = "on_start" /\ Started(p))
      THEN [r EXCEPT !.pending = TRUE, !.consumed = @ \cup hits]
      ELSE r

Walking(r) == r.recipe # 0

Ready(p, s) ==
  LET r == draft[s]
  IN  /\ r.enabled /\ ~Walking(r)
      /\ IF Timed(s) THEN NextDue(s, r) <= sample[p].now ELSE Noticed(p, s).pending

\* Two minutes: how late a slot may be before missed = "skip" drops it.
Grace == 2

Late(p, s) ==
  /\ Timed(s) /\ s \in Skips
  /\ sample[p].now > NextDue(s, draft[s]) + Grace

\* Give the slot or the event up.
Skip(s, r, why, now) == [Advance(s, r, now) EXCEPT !.lastState =
                           IF Timed(s) THEN why ELSE @, !.pending = FALSE]

Considers(p, s) ==
  /\ at[p] = "fire"
  /\ s \in left
  /\ left' = left \ {s}
  /\ UNCHANGED <<world, store, known, at, ticked, sample, seen, lost>>

Writes(s, r) == draft' = [draft EXCEPT ![s] = r]

PassBy(p, s) ==
  /\ Considers(p, s)
  /\ ~Ready(p, s)
  /\ UNCHANGED draft /\ NoNewJob

DropMissed(p, s) ==
  /\ Considers(p, s)
  /\ Ready(p, s) /\ Late(p, s)
  /\ Writes(s, Skip(s, draft[s], "missed", sample[p].now))
  /\ NoNewJob

\* Quiet hours, a maintenance window or low resources hold the slot.
Hold(p, s) ==
  /\ Considers(p, s)
  /\ Ready(p, s) /\ ~Late(p, s)
  /\ guard = "waits"
  /\ Writes(s, Noticed(p, s))
  /\ NoNewJob

\* No consent, or an owner who may not ask for this any more.
Decline(p, s) ==
  /\ Considers(p, s)
  /\ Ready(p, s) /\ ~Late(p, s)
  /\ guard = "refuses"
  /\ Writes(s, Skip(s, Noticed(p, s), "skipped", sample[p].now))
  /\ NoNewJob

\* The instance is stopped: start it first, once.
StartFirst(p, s) ==
  /\ Considers(p, s)
  /\ Ready(p, s) /\ ~Late(p, s)
  /\ guard = "open" /\ ~sample[p].up
  /\ s \in StartsFirst /\ ~draft[s].awaits
  /\ IF Free
     THEN /\ Create(s, "start", 0, 0)
          /\ Writes(s, [Ran(Noticed(p, s), Noticed(p, s).pending) EXCEPT !.awaits = TRUE])
     ELSE Writes(s, Noticed(p, s)) /\ NoNewJob

\* Stopped, and not to be started, or the start did not help.
SkipStopped(p, s) ==
  /\ Considers(p, s)
  /\ Ready(p, s) /\ ~Late(p, s)
  /\ guard = "open" /\ ~sample[p].up
  /\ s \notin StartsFirst \/ draft[s].awaits
  /\ Writes(s, [Skip(s, Noticed(p, s), "skipped", sample[p].now) EXCEPT !.awaits = FALSE])
  /\ NoNewJob

\* Nothing keeps the job from being asked for.
Starts(p, s) ==
  /\ Considers(p, s)
  /\ Ready(p, s) /\ ~Late(p, s)
  /\ guard = "open" /\ sample[p].up

\* The row with its event, and no start to wait for any more.
Arrived(p, s) == [Noticed(p, s) EXCEPT !.awaits = FALSE]

\* create_job refuses for another reason than a busy instance: given up.
FireRefused(p, s) ==
  /\ Starts(p, s)
  /\ <<s, 0>> \in BadSteps
  /\ Writes(s, Advance(s, Refused(Arrived(p, s)), sample[p].now))
  /\ NoNewJob

\* job.project_busy: the slot or the event waits for the next pass.
FireBusy(p, s) ==
  /\ Starts(p, s)
  /\ ~Free
  /\ Writes(s, Arrived(p, s))
  /\ NoNewJob

\* The job itself, or the first step of the recipe: _fire and what follows it.
Fire(p, s) ==
  /\ Starts(p, s)
  /\ LET r == Arrived(p, s)
     IN  /\ Create(s, "first", IF Timed(s) THEN NextDue(s, r) ELSE 0, 0)
         /\ Writes(s, [Advance(s, Ran(r, FALSE), sample[p].now) EXCEPT
                         !.recipe = IF Steps[s] > 0 THEN last + 1 ELSE 0,
                         !.step = 0])

AllConsidered(p) ==
  /\ at[p] = "fire"
  /\ left = {}
  /\ GoesTo(p, "outcome")
  /\ left' = Schedules
  /\ UNCHANGED <<world, last, job, store, known, ticked, sample, seen, draft, lost>>

-----------------------------------------------------------------------------
(* The second loop: outcomes and recipes, read from the job records. *)

\* The job a row waits for, or 0.
Watched(r) ==
  IF Walking(r) THEN r.recipe
  ELSE IF r.lastState = "active" THEN r.lastJob ELSE 0

\* Defect: a failed job is not an end.
EndedWell(r) == Watched(r) # 0 /\ job[Watched(r)].state = "succeeded"

Ended(r) == Watched(r) # 0 /\ job[Watched(r)].state # "active"

\* The row with the outcome of its last run.
Settled(r) ==
  IF r.lastJob = Watched(r) THEN [r EXCEPT !.lastState = job[Watched(r)].state] ELSE r

NoRecipe(r) == [r EXCEPT !.recipe = 0, !.step = 0]

\* Defect: a recipe goes on after a step that failed.
RecipeOverAtEnd(s, r) == r.step + 1 >= Steps[s]

\* Nothing of the recipe is left to do.
RecipeOver(s, r) ==
  job[r.recipe].state # "succeeded" \/ r.step + 1 >= Steps[s]

Reviews(p, s) ==
  /\ at[p] = "outcome"
  /\ s \in left
  /\ left' = left \ {s}
  /\ UNCHANGED <<world, store, known, at, ticked, sample, seen, lost>>

NothingEnded(p, s) ==
  /\ Reviews(p, s)
  /\ ~Ended(draft[s])
  /\ UNCHANGED draft /\ NoNewJob

Settle(p, s) ==
  /\ Reviews(p, s)
  /\ Ended(draft[s]) /\ ~Walking(draft[s])
  /\ Writes(s, Settled(draft[s]))
  /\ NoNewJob

EndRecipe(p, s) ==
  LET r == draft[s]
  IN  /\ Reviews(p, s)
      /\ Ended(r) /\ Walking(r) /\ RecipeOver(s, r)
      /\ Writes(s, NoRecipe([r EXCEPT !.lastJob = r.recipe,
                                      !.lastState = job[r.recipe].state]))
      /\ NoNewJob

StepDue(p, s) ==
  /\ Reviews(p, s)
  /\ Ended(draft[s]) /\ Walking(draft[s]) /\ ~RecipeOver(s, draft[s])

HoldStep(p, s) ==
  /\ StepDue(p, s)
  /\ guard = "waits"
  /\ Writes(s, Settled(draft[s]))
  /\ NoNewJob

GiveUpStep(p, s) ==
  /\ StepDue(p, s)
  /\ guard = "refuses" \/ (guard = "open" /\ ~sample[p].up)
  /\ Writes(s, NoRecipe([draft[s] EXCEPT !.lastState = "skipped"]))
  /\ NoNewJob

\* Nothing keeps the next step from being asked for.
StepStarts(p, s) == StepDue(p, s) /\ guard = "open" /\ sample[p].up

\* Refused, but the recipe stays where it is.
NextStepRefused(p, s) ==
  /\ StepStarts(p, s)
  /\ <<s, draft[s].step + 1>> \in BadSteps
  /\ Writes(s, Advance(s, Refused(Settled(draft[s])), sample[p].now))
  /\ NoNewJob

NextStepBusy(p, s) ==
  /\ StepStarts(p, s)
  /\ ~Free
  /\ Writes(s, Settled(draft[s]))
  /\ NoNewJob

NextStep(p, s) ==
  /\ StepStarts(p, s)
  /\ LET r    == Settled(draft[s])
         step == r.step + 1
     IN  /\ Create(s, "next", 0, step)
         /\ Writes(s, [Ran(r, FALSE) EXCEPT !.recipe = last + 1, !.step = step])

\* The one write of the pass, and the end of tick_once.
Save(p) ==
  /\ at[p] = "outcome"
  /\ left = {}
  /\ store' = draft
  /\ known' = IF sample[p].up THEN "up" ELSE "down"
  /\ seen' = [seen EXCEPT ![p] = sample[p].finished]
  /\ sample' = [sample EXCEPT ![p] = NoSample]
  /\ ticked' = [ticked EXCEPT ![p] = TRUE]
  /\ GoesTo(p, "rest")
  /\ UNCHANGED <<world, last, job, draft, left, lost>>

-----------------------------------------------------------------------------
(* A pass that does not reach its end. *)

Dropped(p) ==
  /\ draft' = IF at[p] \in Inside THEN store ELSE draft
  /\ left' = IF at[p] \in Inside THEN {} ELSE left
  /\ sample' = [sample EXCEPT ![p] = NoSample]
  /\ lost' = IF at[p] \in Inside THEN lost + 1 ELSE lost
  /\ lost < MaxLost
  /\ GoesTo(p, "rest")
  /\ UNCHANGED <<world, last, job, store, known>>

\* The process stops and is started again.
Crash(p) ==
  /\ "crash" \in May
  /\ Dropped(p)
  /\ seen' = [seen EXCEPT ![p] = Cold]
  /\ UNCHANGED ticked

\* An error other than a CwcliError leaves tick: the loop warns and sleeps.
TickError(p) ==
  /\ "error" \in May
  /\ at[p] \in Inside
  /\ Dropped(p)
  /\ ticked' = [ticked EXCEPT ![p] = TRUE]
  /\ UNCHANGED seen

-----------------------------------------------------------------------------
(* People: edits of the store and run_now, each under the lock. *)

Edits(s, r) ==
  /\ Unlocked
  /\ store' = [store EXCEPT ![s] = r]
  /\ draft' = store'
  /\ UNCHANGED <<world, known, at, ticked, sample, seen, left, lost>>

Disable(s) ==
  /\ "edit" \in May
  /\ store[s].enabled
  /\ Edits(s, [store[s] EXCEPT !.enabled = FALSE])
  /\ NoNewJob

Enable(s) ==
  /\ "edit" \in May
  /\ ~store[s].enabled
  /\ Edits(s, [Rearm(store[s]) EXCEPT !.enabled = TRUE])
  /\ NoNewJob

\* save with another timetable (here one of the same slots): armed afresh.
Edit(s) ==
  /\ "edit" \in May
  /\ store[s].enabled
  /\ Edits(s, Rearm(store[s]))
  /\ NoNewJob

Asked == Cardinality({j \in Ids : job[j].what \in {"manual", "other"}})

\* run_now: guards aside; a busy instance refuses it and nothing else changes.
RunNow(s) ==
  /\ "run_now" \in May
  /\ Asked < MaxAsked
  /\ Create(s, "manual", 0, 0)
  /\ Edits(s, [Ran(store[s], FALSE) EXCEPT
                  !.recipe = IF Steps[s] > 0 THEN last + 1 ELSE 0,
                  !.step = 0])

RunNowRefused(s) ==
  /\ "run_now" \in May
  /\ <<s, 0>> \in BadSteps
  /\ Edits(s, Refused(store[s]))
  /\ NoNewJob

-----------------------------------------------------------------------------
(* The rest of the world. *)

MinutePasses ==
  /\ minute < Horizon
  /\ Prompt => \A p \in Schedulers : ticked[p]
  /\ minute' = minute + 1
  /\ ticked' = [p \in Schedulers |-> FALSE]
  /\ UNCHANGED <<up, boots, guard, last, job, store, known, at, sample, seen,
                 draft, left, lost>>

ComesUp ==
  /\ ~up /\ boots < MaxBoots
  /\ up' = TRUE
  /\ boots' = boots + 1
  /\ UNCHANGED <<minute, guard, last, job, store, known, at, ticked, sample, seen,
                 draft, left, lost>>

GoesDown ==
  /\ "stop" \in May
  /\ up
  /\ up' = FALSE
  /\ UNCHANGED <<minute, boots, guard, last, job, store, known, at, ticked, sample,
                 seen, draft, left, lost>>

GuardChanges ==
  /\ "guard" \in May
  /\ guard' \in {"open", "waits", "refuses"} \ {guard}
  /\ UNCHANGED <<minute, up, boots, last, job, store, known, at, ticked, sample,
                 seen, draft, left, lost>>

\* Somebody else's job on the instance, the kind after_job schedules wait for.
OtherJob ==
  /\ "other" \in May
  /\ Asked < MaxAsked
  /\ Create("people", "other", 0, 0)
  /\ UNCHANGED <<world, store, known, at, ticked, sample, seen, draft, left, lost>>

\* A job ends; a start succeeds when the instance is up.
JobEnds(j) ==
  /\ job[j].state = "active"
  /\ \E outcome \in {"succeeded", "failed"} :
       /\ (job[j].what = "start" /\ outcome = "succeeded") => up
       /\ job' = [job EXCEPT ![j].state = outcome]
  /\ UNCHANGED <<world, last, store, known, at, ticked, sample, seen, draft, left, lost>>

-----------------------------------------------------------------------------
FireLoop(p) ==
  \E s \in Schedules :
    \/ PassBy(p, s) \/ DropMissed(p, s) \/ Hold(p, s) \/ Decline(p, s)
    \/ StartFirst(p, s) \/ SkipStopped(p, s)
    \/ FireRefused(p, s) \/ FireBusy(p, s) \/ Fire(p, s)

OutcomeLoop(p) ==
  \E s \in Schedules :
    \/ NothingEnded(p, s) \/ Settle(p, s) \/ EndRecipe(p, s)
    \/ HoldStep(p, s) \/ GiveUpStep(p, s)
    \/ NextStepRefused(p, s) \/ NextStepBusy(p, s) \/ NextStep(p, s)

Works(p) ==
  \/ Sample(p) \/ Lock(p) \/ FireLoop(p) \/ AllConsidered(p)
  \/ OutcomeLoop(p) \/ Save(p)

People == \E s \in Schedules : Disable(s) \/ Enable(s) \/ Edit(s)
                             \/ RunNow(s) \/ RunNowRefused(s)

World ==
  \/ MinutePasses \/ ComesUp \/ GoesDown \/ GuardChanges \/ OtherJob
  \/ \E j \in Jobs : JobEnds(j)

Next ==
  \/ \E p \in Schedulers : Works(p) \/ Crash(p) \/ TickError(p)
  \/ People
  \/ World

Spec == Init /\ [][Next]_vars

\* Each scheduler keeps making its passes, the clock moves, jobs end.
FairSpec ==
  /\ Spec
  /\ \A p \in Schedulers : WF_vars(Works(p))
  /\ WF_vars(MinutePasses)
  /\ \A j \in Jobs : WF_vars(JobEnds(j))

-----------------------------------------------------------------------------
Firsts(s) == {j \in Ids : job[j].by = s /\ job[j].what = "first"}

\* "A slot never fires twice": however the passes of several schedulers, edits
\* and run_now interleave, one slot has at most one job, and one more for each
\* pass that started jobs and was lost before its save.
RefiresBounded ==
  \A s \in Schedules : Timed(s) =>
    \A m \in 0..Horizon :
      Cardinality({j \in Firsts(s) : job[j].slot = m}) <= 1 + lost

\* An after_job schedule starts at most one job for each job it waits for,
\* whichever schedulers were offered it and when, and one more for each pass
\* that was lost.
AfterJobOnce ==
  \A s \in Schedules : Kind[s] = "after_job" =>
    Cardinality(Firsts(s)) <= Cardinality(Finished) + lost

\* An on_start schedule starts at most one job each time the instance comes up,
\* and one more for each pass that was lost.
OnStartOnce ==
  \A s \in Schedules :
    Kind[s] = "on_start" => Cardinality(Firsts(s)) <= boots + lost

\* A recipe's later step starts only after the step before it succeeded, and
\* nothing of the schedule starts between the two, unless a pass was lost.
RecipeInOrder ==
  \A s \in Schedules : \A j \in Ids : job[j].by = s /\ job[j].what = "next" =>
    \E i \in Ids : /\ i < j /\ job[i].by = s
                   /\ job[i].what \in {"first", "manual", "next"}
                   /\ job[i].state = "succeeded"
                   /\ job[j].step = job[i].step + 1
                   /\ \A k \in (i + 1)..(j - 1) : job[k].by = s => lost > 0

\* A recipe comes to its end, and lets the schedule run again.
RecipeEnds ==
  \A s \in Schedules : Walking(store[s]) ~> ~Walking(store[s])

\* An event that met a busy instance is served once it is free.
PendingServed ==
  \A s \in Schedules : store[s].pending ~> ~store[s].pending

\* Every slot that has come is dealt with: a job, a skip, or a disabled schedule.
SlotServed ==
  \A s \in Schedules, m \in 1..Horizon :
    (store[s].enabled /\ Timed(s) /\ NextDue(s, store[s]) = m /\ minute >= m)
      ~> (~store[s].enabled \/ NextDue(s, store[s]) # m)

=============================================================================
