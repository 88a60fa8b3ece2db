---------------------------- MODULE MCScheduler ----------------------------
(* Scheduler with one or two schedulers and up to two schedules. *)
EXTENDS Scheduler, TLC

CONSTANTS ui, service, nightly, other

Both == {ui, service}
Alone == {ui}

One == {nightly}
Two == {nightly, other}

\* A recipe of two steps in the first minute, and a one-off that starts the
\* instance when it has to.
RecipeAndOnce == (nightly :> "cron") @@ (other :> "once")
RecipeAndOnceSteps == (nightly :> 2) @@ (other :> 0)

NoSlots == [s \in Schedules |-> {}]
NoSteps == [s \in Schedules |-> 0]

AfterJobs == [s \in Schedules |-> "after_job"]
Crons == [s \in Schedules |-> "cron"]
OnStarts == [s \in Schedules |-> "on_start"]
FirstMinute == [s \in Schedules |-> {1}]
TwoMinutes == [s \in Schedules |-> 1..2]
TwoSteps == [s \in Schedules |-> 2]

Nobody == {}
Nothing == {}
JustOther == {other}
AnyStep == {<<nightly, 0>>, <<nightly, 1>>}

OthersAndCrashes == {"other", "crash"}
OnlyStops == {"stop"}
EditsAndCrashes == {"edit", "crash"}
StopsGuardsRunsErrors == {"stop", "guard", "run_now", "error"}

Symmetry == Permutations(Both)

=============================================================================
