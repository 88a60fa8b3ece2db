--------------------------- MODULE SchedulerProofs ---------------------------
(***************************************************************************)
(* A slot fires once, a recipe's steps run in order, and an event that a   *)
(* schedule waits for starts one job, for any number of schedules, jobs    *)
(* and minutes; where passes are lost, one job more for each.              *)
(*                                                                         *)
(* The invariants behind it speak of the row that counts, the draft's:     *)
(* between passes draft and store agree, and a lost pass makes them agree  *)
(* again.  A slot that the row still waits for has jobs of lost passes     *)
(* only; a row that walks a recipe names the last job of it; a row that    *)
(* has not used up an event has started nothing for it but in lost passes. *)
(***************************************************************************)
EXTENDS Scheduler, WellFoundedInduction, FiniteSetTheorems, TLAPS

-----------------------------------------------------------------------------
(* The timetable. *)

\* A set of naturals that is not empty has a least element.
LEMMA LeastElement ==
  ASSUME NEW S \in SUBSET Nat, S # {}
  PROVE  \E x \in S : \A y \in S : x <= y
<1> DEFINE Less == OpToRel(<, Nat)
<1>1. \A x, y \in Nat : y < x => <<y, x>> \in Less
  BY DEF OpToRel
<1>2. IsWellFoundedOn(Less, Nat)
  BY NatLessThanWellFounded, Zenon
<1> HIDE DEF Less
<1>3. \E x \in S : \A y \in S : ~(<<y, x>> \in Less)
  BY <1>2, WFMin
<1>4. PICK x \in S : \A y \in S : ~(<<y, x>> \in Less)
  BY <1>3
<1>5. x \in Nat /\ \A y \in S : y \in Nat
  OBVIOUS
<1>6. \A y \in S : ~(y < x)
  BY <1>1, <1>4, <1>5, Zenon
<1>7. \A y \in S : x <= y
  BY <1>5, <1>6
<1> QED
  BY <1>7

\* The next slot after m is a slot or the one nobody lives to see, and it is
\* after m.
LEMMA NextSlotFacts ==
  ASSUME NEW s \in Schedules, NEW m \in Minutes
  PROVE  NextSlot(s, m) \in 1..(Horizon + 1) /\ NextSlot(s, m) > m
<1> DEFINE later == {x \in SlotsOf[s] : x > m}
<1>1. later \in SUBSET (1..Horizon) /\ Horizon \in Nat /\ m \in 0..Horizon
  BY SchedulerAssumption DEF Minutes
<1>2. CASE later = {}
  BY <1>1, <1>2 DEF NextSlot
<1>3. CASE later # {}
  <2>1. later \in SUBSET Nat
    BY <1>1
  <2>2. \E x \in later : \A y \in later : x <= y
    BY <1>3, <2>1, LeastElement
  <2>3. NextSlot(s, m) = CHOOSE x \in later : \A y \in later : x <= y
    BY <1>3 DEF NextSlot
  <2>4. NextSlot(s, m) \in later
    BY <2>2, <2>3
  <2> QED
    BY <1>1, <2>4
<1> QED
  BY <1>2, <1>3

LEMMA NextDueType ==
  ASSUME NEW s \in Schedules, NEW r \in Row
  PROVE  NextDue(s, r) \in 0..(Horizon + 1)
<1>1. NextSlot(s, r.dueFrom) \in 1..(Horizon + 1)
  BY NextSlotFacts DEF Row
<1> QED
  BY <1>1, SchedulerAssumption DEF NextDue, Row

-----------------------------------------------------------------------------
(* Type correctness. *)

LEMMA Widths == Horizon \in Nat /\ MaxJobs \in Nat /\ MaxBoots \in Nat
                /\ MaxLost \in Nat /\ Jobs \subseteq Nat /\ 0 \notin Jobs
  BY SchedulerAssumption DEF Jobs

Outcome == {"none", "active", "succeeded", "failed", "skipped", "missed"}

LEMMA AdvanceType ==
  ASSUME NEW s \in Schedules, NEW r \in Row, NEW now \in Minutes
  PROVE  Advance(s, r, now) \in Row
<1>1. NextSlot(s, now) \in 0..(Horizon + 1) /\ 0 \in 0..(Horizon + 1)
  BY NextSlotFacts, Widths
<1> DEFINE d == IF s \in Rare /\ NextSlot(s, now) > Horizon THEN 0 ELSE NextSlot(s, now)
<1>2. d \in 0..(Horizon + 1)
  BY <1>1
<1>3. CASE Kind[s] = "once"
  <2>1. [r EXCEPT !.enabled = FALSE, !.due = 0] \in Row
    BY <1>1 DEF Row
  <2> QED
    BY <1>3, <2>1 DEF Advance
<1>4. CASE Kind[s] = "cron"
  <2>1. Advance(s, r, now) = [r EXCEPT !.due = d]
    BY <1>4 DEF Advance
  <2> HIDE DEF d
  <2> QED
    BY <1>2, <2>1 DEF Row
<1>5. CASE Kind[s] \notin {"once", "cron"}
  BY <1>5 DEF Advance
<1> QED
  BY <1>3, <1>4, <1>5

LEMMA RowTypes ==
  ASSUME TypeOK, NEW r \in Row
  PROVE  /\ Refused(r) \in Row
         /\ Rearm(r) \in Row
         /\ NoRecipe(r) \in Row
         /\ \A b \in BOOLEAN : last < MaxJobs => Ran(r, b) \in Row
         /\ Watched(r) \in 0..MaxJobs
         /\ Watched(r) # 0 => Settled(r) \in Row /\ job[Watched(r)] \in Job
<1>1. 0 \in 0..MaxJobs /\ 0 \in 0..(Horizon + 1) /\ 0 \in Nat
  BY Widths
<1>2. Refused(r) \in Row
  BY <1>1 DEF Refused, Row
<1>3. NoRecipe(r) \in Row
  BY <1>1 DEF NoRecipe, Row
<1>4. Rearm(r) \in Row
  <2>1. minute \in Minutes
    BY DEF TypeOK
  <2> QED
    BY <1>1, <2>1 DEF Rearm, Row
<1>5. ASSUME NEW b \in BOOLEAN, last < MaxJobs PROVE Ran(r, b) \in Row
  <2> DEFINE n == last + 1
  <2>1. n \in 0..MaxJobs
    BY <1>5, Widths DEF TypeOK
  <2>2. Ran(r, b) = [r EXCEPT !.lastJob = n, !.lastState = "active", !.pending = b]
    BY DEF Ran
  <2> HIDE DEF n
  <2> QED
    BY <2>1, <2>2, ZenonT(60) DEF Row
<1>6. Watched(r) \in 0..MaxJobs
  BY <1>1 DEF Watched, Walking, Row
<1>7. ASSUME Watched(r) # 0 PROVE job[Watched(r)] \in Job
  <2>1. Watched(r) \in Jobs
    BY <1>6, <1>7, Widths DEF Jobs
  <2> QED
    BY <2>1 DEF TypeOK
<1>8. ASSUME Watched(r) # 0 PROVE Settled(r) \in Row
  <2>1. job[Watched(r)].state \in Outcome
    BY <1>7, <1>8 DEF Job, Outcome
  <2> QED
    BY <2>1 DEF Settled, Row, Outcome
<1> QED
  BY <1>2, <1>3, <1>4, <1>5, <1>6, <1>7, <1>8

LEMMA DraftTypes ==
  ASSUME TypeOK, NEW p \in Schedulers, NEW s \in Schedules
  PROVE  /\ draft[s] \in Row /\ store[s] \in Row
         /\ sample[p].now \in Minutes
         /\ Noticed(p, s) \in Row
         /\ Arrived(p, s) \in Row
         /\ Timed(s) => Noticed(p, s) = draft[s]
<1>1. draft[s] \in Row /\ store[s] \in Row
  BY DEF TypeOK
<1>2. sample[p].now \in Minutes /\ sample[p].fresh \subseteq Jobs
  BY DEF TypeOK
<1>3. Hits(p, s, draft[s]) \subseteq Jobs
  BY <1>2 DEF Hits
<1>4. Noticed(p, s) \in Row
  BY <1>1, <1>3 DEF Noticed, Row
<1>5. Arrived(p, s) \in Row
  BY <1>4 DEF Arrived, Row
<1>6. Timed(s) => Noticed(p, s) = draft[s]
  BY DEF Timed, Noticed, Hits
<1> QED
  BY <1>1, <1>2, <1>4, <1>5, <1>6

LEMMA CreateType ==
  ASSUME TypeOK, NEW by \in Schedules \cup {"nobody", "people"},
         NEW what \in {"first", "next", "start", "manual", "other"},
         NEW slot \in 0..(Horizon + 1), NEW step \in Nat,
         Create(by, what, slot, step)
  PROVE  last' \in 0..MaxJobs /\ job' \in [Jobs -> Job] /\ last < MaxJobs
<1>1. last < MaxJobs /\ last' = last + 1 /\ last' \in 0..MaxJobs /\ last + 1 \in Jobs
  BY Widths DEF Create, Free, TypeOK, Jobs
<1>2. [by |-> by, what |-> what, slot |-> slot, step |-> step,
       state |-> "active"] \in Job
  BY DEF Job
<1> QED
  BY <1>1, <1>2 DEF Create, TypeOK

\* A step of either loop writes one row and may start one job.
LEMMA LoopType ==
  ASSUME TypeOK, NEW p \in Schedulers, NEW s \in Schedules,
         Considers(p, s) \/ Reviews(p, s),
         NEW q \in Row, Writes(s, q) \/ UNCHANGED draft,
         last' \in 0..MaxJobs, job' \in [Jobs -> Job]
  PROVE  TypeOK'
<1>1. draft' \in [Schedules -> Row]
  BY DEF Writes, TypeOK
<1>2. left' \subseteq Schedules /\ UNCHANGED <<world, store, known, at, ticked,
                                               sample, seen, lost>>
  BY DEF Considers, Reviews, TypeOK
<1> QED
  BY <1>1, <1>2 DEF TypeOK, world

LEMMA SkipType ==
  ASSUME NEW s \in Schedules, NEW r \in Row, NEW now \in Minutes,
         NEW why \in {"skipped", "missed"}
  PROVE  Skip(s, r, why, now) \in Row
<1>1. Advance(s, r, now) \in Row
  BY AdvanceType
<1> QED
  BY <1>1 DEF Skip, Row

LEMMA FireLoopType ==
  ASSUME TypeOK, NEW p \in Schedulers, FireLoop(p)
  PROVE  TypeOK'
<1>1. PICK s \in Schedules :
        \/ PassBy(p, s) \/ DropMissed(p, s) \/ Hold(p, s) \/ Decline(p, s)
        \/ StartFirst(p, s) \/ SkipStopped(p, s)
        \/ FireRefused(p, s) \/ FireBusy(p, s) \/ Fire(p, s)
  BY DEF FireLoop
<1> DEFINE now == sample[p].now
<1>2. /\ draft[s] \in Row /\ Noticed(p, s) \in Row /\ Arrived(p, s) \in Row
      /\ now \in Minutes
  BY DraftTypes
<1>3. last \in 0..MaxJobs /\ job \in [Jobs -> Job]
  BY DEF TypeOK
<1> HIDE DEF now
<1>4. CASE PassBy(p, s)
  BY <1>2, <1>3, <1>4, LoopType DEF PassBy, NoNewJob
<1>5. CASE DropMissed(p, s)
  <2>1. Skip(s, draft[s], "missed", now) \in Row
    BY <1>2, SkipType
  <2> QED
    BY <1>3, <1>5, <2>1, LoopType DEF DropMissed, NoNewJob, now
<1>6. CASE Hold(p, s)
  BY <1>2, <1>3, <1>6, LoopType DEF Hold, NoNewJob
<1>7. CASE Decline(p, s)
  <2>1. Skip(s, Noticed(p, s), "skipped", now) \in Row
    BY <1>2, SkipType
  <2> QED
    BY <1>3, <1>7, <2>1, LoopType DEF Decline, NoNewJob, now
<1>8. CASE StartFirst(p, s)
  <2>1. CASE Free
    <3>1. Create(s, "start", 0, 0)
      BY <1>8, <2>1 DEF StartFirst
    <3>2. last' \in 0..MaxJobs /\ job' \in [Jobs -> Job] /\ last < MaxJobs
      BY <3>1, CreateType, Widths
    <3>3. Ran(Noticed(p, s), Noticed(p, s).pending) \in Row
      BY <1>2, <3>2, RowTypes DEF Row
    <3>4. [Ran(Noticed(p, s), Noticed(p, s).pending) EXCEPT !.awaits = TRUE] \in Row
      BY <3>3 DEF Row
    <3> QED
      BY <1>8, <2>1, <3>2, <3>4, LoopType DEF StartFirst
  <2>2. CASE ~Free
    BY <1>2, <1>3, <1>8, <2>2, LoopType DEF StartFirst, NoNewJob
  <2> QED
    BY <2>1, <2>2
<1>9. CASE SkipStopped(p, s)
  <2>1. Skip(s, Noticed(p, s), "skipped", now) \in Row
    BY <1>2, SkipType
  <2>2. [Skip(s, Noticed(p, s), "skipped", now) EXCEPT !.awaits = FALSE] \in Row
    BY <2>1 DEF Row
  <2> QED
    BY <1>3, <1>9, <2>2, LoopType DEF SkipStopped, NoNewJob, now
<1>10. CASE FireRefused(p, s)
  <2>1. Advance(s, Refused(Arrived(p, s)), now) \in Row
    BY <1>2, RowTypes, AdvanceType
  <2> QED
    BY <1>3, <1>10, <2>1, LoopType DEF FireRefused, Starts, NoNewJob, now
<1>11. CASE FireBusy(p, s)
  BY <1>2, <1>3, <1>11, LoopType DEF FireBusy, Starts, NoNewJob
<1>12. CASE Fire(p, s)
  <2> DEFINE slot == IF Timed(s) THEN NextDue(s, Arrived(p, s)) ELSE 0
             q == [Advance(s, Ran(Arrived(p, s), FALSE), now) EXCEPT
                     !.recipe = IF Steps[s] > 0 THEN last + 1 ELSE 0, !.step = 0]
  <2>1. slot \in 0..(Horizon + 1)
    BY <1>2, NextDueType, Widths
  <2>2. Create(s, "first", slot, 0)
    BY <1>12 DEF Fire
  <2>3. last' \in 0..MaxJobs /\ job' \in [Jobs -> Job] /\ last < MaxJobs
    BY <2>1, <2>2, CreateType
  <2>4. Advance(s, Ran(Arrived(p, s), FALSE), now) \in Row
    BY <1>2, <2>3, RowTypes, AdvanceType
  <2>5. q \in Row
    <3> DEFINE r == Advance(s, Ran(Arrived(p, s), FALSE), now)
               n == IF Steps[s] > 0 THEN last + 1 ELSE 0
    <3>1. n \in 0..MaxJobs /\ 0 \in Nat
      BY <1>3, <2>3, Widths
    <3>2. q = [r EXCEPT !.recipe = n, !.step = 0]
      OBVIOUS
    <3>3. r \in Row
      BY <2>4
    <3> HIDE DEF n, r, q
    <3> QED
      BY <3>1, <3>2, <3>3 DEF Row
  <2>6. Writes(s, q)
    BY <1>12 DEF Fire, now
  <2> QED
    BY <1>12, <2>3, <2>5, <2>6, LoopType DEF Fire, Starts
<1> QED
  BY <1>1, <1>4, <1>5, <1>6, <1>7, <1>8, <1>9, <1>10, <1>11, <1>12

LEMMA OutcomeLoopType ==
  ASSUME TypeOK, NEW p \in Schedulers, OutcomeLoop(p)
  PROVE  TypeOK'
<1>1. PICK s \in Schedules :
        \/ NothingEnded(p, s) \/ Settle(p, s) \/ EndRecipe(p, s)
        \/ HoldStep(p, s) \/ GiveUpStep(p, s)
        \/ NextStepRefused(p, s) \/ NextStepBusy(p, s) \/ NextStep(p, s)
  BY DEF OutcomeLoop
<1> DEFINE r == draft[s]
           now == sample[p].now
<1>2. r \in Row /\ now \in Minutes /\ r.step + 1 \in Nat
  BY DraftTypes DEF Row
<1>3. last \in 0..MaxJobs /\ job \in [Jobs -> Job]
  BY DEF TypeOK
<1>4. Ended(r) => Settled(r) \in Row
  BY <1>2, RowTypes DEF Ended
<1> HIDE DEF r, now
<1>5. CASE NothingEnded(p, s)
  BY <1>2, <1>3, <1>5, LoopType DEF NothingEnded, NoNewJob
<1>6. CASE Settle(p, s)
  BY <1>3, <1>4, <1>6, LoopType DEF Settle, NoNewJob, r
<1>7. CASE EndRecipe(p, s)
  <2> DEFINE q == [r EXCEPT !.lastJob = r.recipe, !.lastState = job[r.recipe].state]
  <2>1. Watched(r) = r.recipe /\ Watched(r) # 0
    BY <1>7 DEF EndRecipe, Ended, Walking, Watched, r
  <2>2. r.recipe \in 0..MaxJobs /\ job[r.recipe].state \in Outcome
    BY <1>2, <2>1, RowTypes DEF Job, Outcome
  <2>3. q \in Row
    BY <1>2, <2>2 DEF Row, Outcome
  <2>4. NoRecipe(q) \in Row
    BY <2>3, RowTypes
  <2>5. Writes(s, NoRecipe(q)) /\ Reviews(p, s) /\ NoNewJob
    BY <1>7 DEF EndRecipe, r
  <2> QED
    BY <1>3, <2>4, <2>5, LoopType DEF NoNewJob
<1>8. CASE HoldStep(p, s)
  BY <1>3, <1>4, <1>8, LoopType DEF HoldStep, StepDue, NoNewJob, r
<1>9. CASE GiveUpStep(p, s)
  <2>1. [r EXCEPT !.lastState = "skipped"] \in Row
    BY <1>2 DEF Row
  <2>2. NoRecipe([r EXCEPT !.lastState = "skipped"]) \in Row
    BY <2>1, RowTypes
  <2> QED
    BY <1>3, <1>9, <2>2, LoopType DEF GiveUpStep, StepDue, NoNewJob, r
<1>10. CASE NextStepRefused(p, s)
  <2>1. Settled(r) \in Row
    BY <1>4, <1>10 DEF NextStepRefused, StepStarts, StepDue, r
  <2>2. Advance(s, Refused(Settled(r)), now) \in Row
    BY <1>2, <2>1, RowTypes, AdvanceType
  <2> QED
    BY <1>3, <1>10, <2>2, LoopType
       DEF NextStepRefused, StepStarts, StepDue, NoNewJob, r, now
<1>11. CASE NextStepBusy(p, s)
  BY <1>3, <1>4, <1>11, LoopType DEF NextStepBusy, StepStarts, StepDue, NoNewJob, r
<1>12. CASE NextStep(p, s)
  <2> DEFINE step == Settled(r).step + 1
             n == last + 1
             q == [Ran(Settled(r), FALSE) EXCEPT !.recipe = n, !.step = step]
  <2>1. Settled(r) \in Row
    BY <1>4, <1>12 DEF NextStep, StepStarts, StepDue, r
  <2>2. step \in Nat
    BY <2>1 DEF Row
  <2>3. Create(s, "next", 0, step) /\ Writes(s, q) /\ Reviews(p, s)
    BY <1>12 DEF NextStep, StepStarts, StepDue, r
  <2> HIDE DEF step
  <2>4. last' \in 0..MaxJobs /\ job' \in [Jobs -> Job] /\ last < MaxJobs
    <3>1. 0 \in 0..(Horizon + 1) /\ s \in Schedules \cup {"nobody", "people"}
      BY Widths
    <3> HIDE DEF q
    <3> QED
      BY <2>2, <2>3, <3>1, CreateType
  <2>5. n \in 0..MaxJobs
    BY <1>3, <2>4, Widths
  <2>6. Ran(Settled(r), FALSE) \in Row
    BY <2>1, <2>4, RowTypes
  <2> HIDE DEF n
  <2>7. q \in Row
    BY <2>2, <2>5, <2>6 DEF Row
  <2> HIDE DEF q
  <2> QED
    BY <2>3, <2>4, <2>7, LoopType
<1> QED
  BY <1>1, <1>5, <1>6, <1>7, <1>8, <1>9, <1>10, <1>11, <1>12

\* The steps around the two loops.
LEMMA PassType ==
  ASSUME TypeOK, NEW p \in Schedulers,
         Sample(p) \/ Lock(p) \/ AllConsidered(p) \/ Save(p) \/ Crash(p) \/ TickError(p)
  PROVE  TypeOK'
<1> DEFINE Look == [now : Minutes, up : BOOLEAN, finished : SUBSET Jobs,
                    fresh : SUBSET Jobs]
<1>1. Finished \subseteq Jobs
  BY Widths DEF Finished, Ids, Jobs, TypeOK
<1>2. NoSample \in Look
  BY Widths DEF NoSample, Minutes
<1>3. CASE Sample(p)
  <2>1. PICK fresh \in IF seen[p] = Cold THEN SUBSET Finished
                                        ELSE {Finished \ seen[p]} :
          sample' = [sample EXCEPT ![p] = [now |-> minute, up |-> up,
                                           finished |-> Finished, fresh |-> fresh]]
    BY <1>3 DEF Sample
  <2>2. [now |-> minute, up |-> up, finished |-> Finished, fresh |-> fresh] \in Look
    BY <1>1 DEF TypeOK
  <2>3. sample' \in [Schedulers -> Look]
    BY <2>1, <2>2 DEF TypeOK
  <2> QED
    BY <1>3, <2>3 DEF Sample, GoesTo, TypeOK, world
<1>4. CASE Lock(p)
  BY <1>4 DEF Lock, GoesTo, TypeOK, world
<1>5. CASE AllConsidered(p)
  BY <1>5 DEF AllConsidered, GoesTo, TypeOK, world
<1>6. CASE Save(p)
  <2>1. sample' \in [Schedulers -> Look]
    BY <1>2, <1>6 DEF Save, TypeOK
  <2>2. seen' \in [Schedulers -> SUBSET (0..MaxJobs)]
    <3>1. sample[p].finished \subseteq 0..MaxJobs
      BY Widths DEF TypeOK, Jobs
    <3> QED
      BY <1>6, <3>1 DEF Save, TypeOK
  <2> QED
    BY <1>6, <2>1, <2>2 DEF Save, GoesTo, TypeOK, world
<1>7. ASSUME Dropped(p), seen' \in [Schedulers -> SUBSET (0..MaxJobs)],
             ticked' \in [Schedulers -> BOOLEAN]
      PROVE  TypeOK'
  <2>1. sample' \in [Schedulers -> Look]
    BY <1>2, <1>7 DEF Dropped, TypeOK
  <2>2. lost' \in 0..MaxLost
    BY <1>7, Widths DEF Dropped, TypeOK
  <2> QED
    BY <1>7, <2>1, <2>2 DEF Dropped, GoesTo, TypeOK, world
<1>8. CASE Crash(p)
  <2>1. Cold \in SUBSET (0..MaxJobs)
    BY Widths DEF Cold
  <2> QED
    BY <1>7, <1>8, <2>1 DEF Crash, TypeOK
<1>9. CASE TickError(p)
  BY <1>7, <1>9 DEF TickError, TypeOK
<1> QED
  BY <1>3, <1>4, <1>5, <1>6, <1>8, <1>9

LEMMA PeopleType ==
  ASSUME TypeOK, People
  PROVE  TypeOK'
<1>1. PICK s \in Schedules : Disable(s) \/ Enable(s) \/ Edit(s)
                             \/ RunNow(s) \/ RunNowRefused(s)
  BY DEF People
<1>2. store[s] \in Row /\ last \in 0..MaxJobs /\ job \in [Jobs -> Job]
  BY DEF TypeOK
<1>3. ASSUME NEW q \in Row, Edits(s, q),
             last' \in 0..MaxJobs, job' \in [Jobs -> Job]
      PROVE  TypeOK'
  BY <1>3 DEF Edits, TypeOK, world
<1>4. CASE Disable(s)
  <2>1. [store[s] EXCEPT !.enabled = FALSE] \in Row
    BY <1>2 DEF Row
  <2> QED
    BY <1>2, <1>3, <1>4, <2>1 DEF Disable, NoNewJob
<1>5. CASE Enable(s)
  <2>1. Rearm(store[s]) \in Row
    BY <1>2, RowTypes
  <2>2. [Rearm(store[s]) EXCEPT !.enabled = TRUE] \in Row
    BY <2>1 DEF Row
  <2> QED
    BY <1>2, <1>3, <1>5, <2>2 DEF Enable, NoNewJob
<1>6. CASE Edit(s)
  <2>1. Rearm(store[s]) \in Row
    BY <1>2, RowTypes
  <2> QED
    BY <1>2, <1>3, <1>6, <2>1 DEF Edit, NoNewJob
<1>7. CASE RunNow(s)
  <2> DEFINE n == IF Steps[s] > 0 THEN last + 1 ELSE 0
             q == [Ran(store[s], FALSE) EXCEPT !.recipe = n, !.step = 0]
  <2>1. Create(s, "manual", 0, 0) /\ Edits(s, q)
    BY <1>7 DEF RunNow
  <2> HIDE DEF q
  <2>2. 0 \in 0..(Horizon + 1) /\ 0 \in Nat /\ s \in Schedules \cup {"nobody", "people"}
    BY Widths
  <2>3. last' \in 0..MaxJobs /\ job' \in [Jobs -> Job] /\ last < MaxJobs
    BY <2>1, <2>2, CreateType
  <2>4. Ran(store[s], FALSE) \in Row
    BY <1>2, <2>3, RowTypes
  <2>5. n \in 0..MaxJobs
    BY <1>2, <2>3, Widths
  <2> HIDE DEF n
  <2>6. q \in Row
    BY <2>2, <2>4, <2>5 DEF q, Row
  <2> QED
    BY <1>3, <2>1, <2>3, <2>6
<1>8. CASE RunNowRefused(s)
  <2>1. Refused(store[s]) \in Row
    BY <1>2, RowTypes
  <2> QED
    BY <1>2, <1>3, <1>8, <2>1 DEF RunNowRefused, NoNewJob
<1> QED
  BY <1>1, <1>4, <1>5, <1>6, <1>7, <1>8

LEMMA WorldType ==
  ASSUME TypeOK, World
  PROVE  TypeOK'
<1>1. CASE MinutePasses
  <2>1. minute' \in Minutes
    BY <1>1, Widths DEF MinutePasses, TypeOK, Minutes
  <2> QED
    BY <1>1, <2>1 DEF MinutePasses, TypeOK
<1>2. CASE ComesUp
  <2>1. boots' \in 0..MaxBoots
    BY <1>2, Widths DEF ComesUp, TypeOK
  <2> QED
    BY <1>2, <2>1 DEF ComesUp, TypeOK
<1>3. CASE GoesDown
  BY <1>3 DEF GoesDown, TypeOK
<1>4. CASE GuardChanges
  BY <1>4 DEF GuardChanges, TypeOK
<1>5. CASE OtherJob
  <2>1. 0 \in 0..(Horizon + 1) /\ 0 \in Nat
    BY Widths
  <2>2. Create("people", "other", 0, 0)
    BY <1>5 DEF OtherJob
  <2>3. last' \in 0..MaxJobs /\ job' \in [Jobs -> Job]
    BY <2>1, <2>2, CreateType
  <2> QED
    BY <1>5, <2>3 DEF OtherJob, TypeOK, world
<1>6. CASE \E j \in Jobs : JobEnds(j)
  <2>1. PICK j \in Jobs : JobEnds(j)
    BY <1>6
  <2>2. PICK outcome \in {"succeeded", "failed"} :
          job' = [job EXCEPT ![j].state = outcome]
    BY <2>1 DEF JobEnds
  <2>3. job \in [Jobs -> Job] /\ job[j] \in Job
    BY DEF TypeOK
  <2>4. [job[j] EXCEPT !.state = outcome] \in Job
    BY <2>3 DEF Job
  <2>5. job' \in [Jobs -> Job]
    BY <2>2, <2>3, <2>4
  <2> QED
    BY <2>1, <2>5 DEF JobEnds, TypeOK, world
<1> QED
  BY <1>1, <1>2, <1>3, <1>4, <1>5, <1>6 DEF World

LEMMA InitType == Init => TypeOK
<1> SUFFICES ASSUME Init PROVE TypeOK
  OBVIOUS
<1>1. NewRow \in Row
  BY Widths DEF NewRow, Row, Minutes
<1>2. NoJob \in Job
  BY Widths DEF NoJob, Job
<1>3. NoSample \in [now : Minutes, up : BOOLEAN, finished : SUBSET Jobs,
                    fresh : SUBSET Jobs]
  BY Widths DEF NoSample, Minutes
<1>4. Cold \in SUBSET (0..MaxJobs)
  BY Widths DEF Cold
<1> QED
  BY <1>1, <1>2, <1>3, <1>4, Widths DEF Init, TypeOK, Minutes

LEMMA NextType == TypeOK /\ [Next]_vars => TypeOK'
<1> SUFFICES ASSUME TypeOK, [Next]_vars PROVE TypeOK'
  OBVIOUS
<1>1. CASE UNCHANGED vars
  BY <1>1 DEF TypeOK, vars, world
<1>2. CASE \E p \in Schedulers : Works(p) \/ Crash(p) \/ TickError(p)
  BY <1>2, PassType, FireLoopType, OutcomeLoopType DEF Works
<1>3. CASE People
  BY <1>3, PeopleType
<1>4. CASE World
  BY <1>4, WorldType
<1> QED
  BY <1>1, <1>2, <1>3, <1>4 DEF Next

\* Every variable keeps its type, whatever the schedulers, people and jobs do:
\* a row's job, recipe and slot are always ones that exist.
THEOREM TypeCorrect == Spec => []TypeOK
<1> QED
  BY InitType, NextType, PTL DEF Spec

-----------------------------------------------------------------------------
(* Slots fire once. *)

Timetabled == {s \in Schedules : Timed(s)}

SlotJobs(s, m) == {j \in Firsts(s) : job[j].slot = m}
Count(s, m) == Cardinality(SlotJobs(s, m))

\* The store's lock excludes.
Mutex == \A p, q \in Schedulers : at[p] \in Inside /\ at[q] \in Inside => p = q

\* Nobody holds a copy that differs from the store, except the lock's holder.
Agree == Unlocked => draft = store

\* A pass never acts on a time still to come.
Looked == \A p \in Schedulers : sample[p].now <= minute

\* No slot to come has a job.
Past == \A s \in Timetabled, m \in Minutes : minute < m => SlotJobs(s, m) = {}

\* A slot the row still waits for has jobs of lost passes only.
Ahead == \A s \in Timetabled : draft[s].enabled =>
           \A m \in Minutes : NextDue(s, draft[s]) <= m => Count(s, m) <= lost

Bounded == \A s \in Timetabled, m \in Minutes : Count(s, m) <= 1 + lost

SlotInv == Mutex /\ Agree /\ Looked /\ Past /\ Ahead /\ Bounded

\* The step starts no job for a slot.
NoFirst == \A s \in Timetabled : \A m \in Minutes : SlotJobs(s, m)' = SlotJobs(s, m)

\* The row is off, or waits no shorter than before, or for a slot to come.
Steady(s) ==
  draft'[s].enabled =>
    \/ draft[s].enabled /\ NextDue(s, draft[s]) <= NextDue(s, draft'[s])
    \/ minute < NextDue(s, draft'[s])

LEMMA CountType ==
  ASSUME TypeOK, NEW s \in Schedules, NEW m \in Minutes
  PROVE  IsFiniteSet(SlotJobs(s, m)) /\ Count(s, m) \in Nat
<1>1. last \in Nat /\ SlotJobs(s, m) \subseteq 1..last
  BY Widths DEF TypeOK, SlotJobs, Firsts, Ids
<1>2. IsFiniteSet(1..last)
  BY <1>1, FS_Interval
<1>3. IsFiniteSet(SlotJobs(s, m))
  BY <1>1, <1>2, FS_Subset
<1> QED
  BY <1>3, FS_CardinalityType DEF Count

\* What keeps the three facts about slots through a step that fires none.
LEMMA QuietStep ==
  ASSUME TypeOK, TypeOK', SlotInv, NoFirst, minute <= minute', lost' = lost,
         \A s \in Timetabled : Steady(s)
  PROVE  Past' /\ Ahead' /\ Bounded'
<1>1. minute \in Nat /\ minute' \in Nat /\ Minutes \subseteq Nat /\ lost \in Nat
  BY Widths DEF TypeOK, Minutes
<1>2. Timetabled \subseteq Schedules
  BY DEF Timetabled
<1>3. \A s \in Timetabled, m \in Minutes : Count(s, m)' = Count(s, m)
  BY <1>2 DEF NoFirst, Count
<1>4. Past'
  BY <1>1, <1>2 DEF SlotInv, Past, NoFirst
<1>5. Bounded'
  BY <1>3 DEF SlotInv, Bounded
<1>6. ASSUME NEW s \in Timetabled, draft'[s].enabled,
             NEW m \in Minutes, NextDue(s, draft'[s]) <= m
      PROVE  Count(s, m) <= lost
  <2>1. s \in Schedules /\ m \in Nat
    BY <1>1, <1>2
  <2>2. draft[s] \in Row /\ draft'[s] \in Row
    BY <2>1 DEF TypeOK
  <2>3. NextDue(s, draft[s]) \in Nat /\ NextDue(s, draft'[s]) \in Nat
    BY <2>1, <2>2, NextDueType, Widths
  <2>4. CASE draft[s].enabled /\ NextDue(s, draft[s]) <= NextDue(s, draft'[s])
    <3>1. NextDue(s, draft[s]) <= m
      BY <1>6, <2>1, <2>3, <2>4
    <3> QED
      BY <2>4, <3>1 DEF SlotInv, Ahead
  <2>5. CASE minute < NextDue(s, draft'[s])
    <3>1. minute < m
      BY <1>1, <1>6, <2>1, <2>3, <2>5
    <3>2. SlotJobs(s, m) = {}
      BY <3>1 DEF SlotInv, Past
    <3>3. Count(s, m) = 0
      BY <3>2, FS_EmptySet DEF Count
    <3> QED
      BY <1>1, <3>3
  <2> QED
    BY <1>6, <2>4, <2>5 DEF Steady
<1>7. Ahead'
  BY <1>3, <1>6 DEF Ahead
<1> QED
  BY <1>4, <1>5, <1>7

\* Every job that is started but a slot's own leaves the slots' jobs alone.
LEMMA OtherCreate ==
  ASSUME TypeOK, NEW by, NEW what, what # "first", NEW slot, NEW step,
         Create(by, what, slot, step)
  PROVE  NoFirst
<1> DEFINE n == last + 1
<1>1. last \in Nat /\ n \in Jobs /\ job \in [Jobs -> Job] /\ last' = n
  BY Widths DEF Create, Free, TypeOK, Jobs
<1>2. /\ job'[n].what # "first"
      /\ \A j \in 1..last : job'[j] = job[j]
  BY <1>1 DEF Create, Jobs, TypeOK
<1>3. 1..last' = (1..last) \cup {n}
  BY <1>1
<1> QED
  BY <1>2, <1>3 DEF NoFirst, SlotJobs, Firsts, Ids

LEMMA NoCreate ==
  ASSUME NoNewJob
  PROVE  NoFirst
  BY DEF NoNewJob, NoFirst, SlotJobs, Firsts, Ids

LEMMA FirstCreate ==
  ASSUME TypeOK, NEW s \in Schedules, NEW slot \in Minutes,
         Create(s, "first", slot, 0)
  PROVE  \A t \in Schedules, m \in Minutes :
           SlotJobs(t, m)' = IF t = s /\ m = slot THEN SlotJobs(t, m) \cup {last + 1}
                                                  ELSE SlotJobs(t, m)
<1> DEFINE n == last + 1
<1>1. last \in Nat /\ n \in Jobs /\ job \in [Jobs -> Job] /\ last' = n
  BY Widths DEF Create, Free, TypeOK, Jobs
<1>2. /\ job'[n].by = s /\ job'[n].what = "first" /\ job'[n].slot = slot
      /\ \A j \in 1..last : job'[j] = job[j]
  BY <1>1 DEF Create, Jobs, TypeOK
<1>3. 1..last' = (1..last) \cup {n}
  BY <1>1
<1> HIDE DEF n
<1>4. ASSUME NEW t \in Schedules, NEW m \in Minutes
      PROVE  SlotJobs(t, m)' = SlotJobs(t, m) \cup
                                 (IF t = s /\ m = slot THEN {n} ELSE {})
  BY <1>2, <1>3 DEF SlotJobs, Firsts, Ids
<1> QED
  BY <1>4 DEF n

-----------------------------------------------------------------------------
(* A slot that is dealt with is behind the row. *)

\* The row waits for the same slot, or does not wait.
Kept(r, q) == q.enabled = r.enabled /\ q.due = r.due /\ q.dueFrom = r.dueFrom

LEMMA KeptNextDue ==
  ASSUME NEW s, NEW r, NEW q, Kept(r, q)
  PROVE  NextDue(s, q) = NextDue(s, r)
  BY DEF Kept, NextDue

LEMMA AdvanceFacts ==
  ASSUME Rare = {}, NEW s \in Timetabled, NEW r \in Row, NEW now \in Minutes
  PROVE  LET q == Advance(s, r, now)
         IN  q.enabled => q.enabled = r.enabled /\ NextDue(s, q) > now
<1>1. s \in Schedules /\ Kind[s] \in {"cron", "once"}
  BY DEF Timetabled, Timed
<1>2. NextSlot(s, now) \in 1..(Horizon + 1) /\ NextSlot(s, now) > now
  BY <1>1, NextSlotFacts
<1>3. CASE Kind[s] = "once"
  BY <1>3 DEF Advance, Row
<1>4. CASE Kind[s] = "cron"
  <2>1. Advance(s, r, now) = [r EXCEPT !.due = NextSlot(s, now)]
    BY <1>4 DEF Advance
  <2>2. NextSlot(s, now) # 0
    BY <1>2, Widths
  <2> QED
    BY <1>2, <2>1, <2>2 DEF NextDue, Row
<1> QED
  BY <1>1, <1>3, <1>4

\* A pass's own step: one row, and no slot's job.  What it does to the row is to
\* keep its slot or to leave a slot behind that is not after now.
LEMMA LoopQuiet ==
  ASSUME TypeOK, TypeOK', SlotInv, NoFirst,
         NEW p \in Schedulers, NEW s \in Schedules,
         Considers(p, s) \/ Reviews(p, s),
         NEW q, Writes(s, q) \/ (q = draft[s] /\ UNCHANGED draft),
         \/ Kept(draft[s], q)
         \/ s \in Timetabled /\ (q.enabled => /\ draft[s].enabled
                                              /\ NextDue(s, draft[s]) <= sample[p].now
                                              /\ NextDue(s, q) > sample[p].now)
         \/ s \notin Timetabled
  PROVE  SlotInv'
<1>1. at[p] \in Inside /\ UNCHANGED <<minute, store, at, sample, lost>>
  BY DEF Considers, Reviews, world, Inside
<1>2. draft'[s] = q /\ \A t \in Schedules : t # s => draft'[t] = draft[t]
  BY DEF Writes, TypeOK
<1>3. Mutex' /\ Agree' /\ Looked'
  BY <1>1 DEF SlotInv, Mutex, Agree, Looked, Unlocked
<1>4. ASSUME NEW t \in Timetabled PROVE Steady(t)
  <2>1. t \in Schedules
    BY DEF Timetabled
  <2>2. draft[t] \in Row /\ draft'[t] \in Row /\ sample[p].now \in Nat
    BY <2>1, Widths DEF TypeOK, Minutes
  <2>3. NextDue(t, draft[t]) \in Nat /\ NextDue(t, draft'[t]) \in Nat
    BY <2>1, <2>2, NextDueType, Widths
  <2>4. CASE t # s
    BY <1>2, <2>1, <2>3, <2>4 DEF Steady
  <2>5. CASE t = s /\ Kept(draft[s], q)
    BY <1>2, <2>3, <2>5, KeptNextDue DEF Steady, Kept
  <2>6. CASE t = s /\ ~Kept(draft[s], q)
    BY <1>2, <2>2, <2>3, <2>6 DEF Steady
  <2> QED
    BY <2>4, <2>5, <2>6
<1>5. minute <= minute' /\ lost' = lost
  BY <1>1, Widths DEF TypeOK, Minutes
<1>6. Past' /\ Ahead' /\ Bounded'
  BY <1>4, <1>5, QuietStep
<1> QED
  BY <1>3, <1>6 DEF SlotInv

LEMMA SkipFacts ==
  ASSUME Rare = {}, NEW s \in Timetabled, NEW r \in Row, NEW now \in Minutes,
         NEW why \in {"skipped", "missed"}
  PROVE  LET q == Skip(s, r, why, now)
         IN  q.enabled => q.enabled = r.enabled /\ NextDue(s, q) > now
<1> DEFINE a == Advance(s, r, now)
<1>1. s \in Schedules
  BY DEF Timetabled
<1>2. a \in Row /\ (a.enabled => a.enabled = r.enabled /\ NextDue(s, a) > now)
  BY <1>1, AdvanceFacts, AdvanceType
<1>3. Skip(s, r, why, now) \in Row /\ Kept(a, Skip(s, r, why, now))
  BY <1>1, <1>2, SkipType, ZenonT(60) DEF Skip, Kept, Row
<1> HIDE DEF a
<1> QED
  BY <1>2, <1>3, KeptNextDue DEF Kept

\* What the first loop makes of a row when it fires no slot.
LEMMA FireLoopQuiet ==
  ASSUME Rare = {}, TypeOK, TypeOK', SlotInv,
         NEW p \in Schedulers, NEW s \in Schedules,
         \/ PassBy(p, s) \/ DropMissed(p, s) \/ Hold(p, s) \/ Decline(p, s)
         \/ StartFirst(p, s) \/ SkipStopped(p, s)
         \/ FireRefused(p, s) \/ FireBusy(p, s)
  PROVE  SlotInv'
<1> DEFINE r == draft[s]
           now == sample[p].now
           Passed(q) == q.enabled => /\ r.enabled
                                     /\ NextDue(s, r) <= now
                                     /\ NextDue(s, q) > now
<1>1. /\ r \in Row /\ Noticed(p, s) \in Row /\ Arrived(p, s) \in Row
      /\ now \in Minutes
  BY DraftTypes
<1>2. s \in Timetabled => /\ Noticed(p, s) = r
                          /\ Ready(p, s) => r.enabled /\ NextDue(s, r) <= now
                          /\ Kept(r, Arrived(p, s))
  BY <1>1, DraftTypes DEF Timetabled, Ready, Kept, Arrived, Row
<1> HIDE DEF r, now
<1>3. ASSUME NEW q, Considers(p, s), NoFirst,
             Writes(s, q) \/ (q = r /\ UNCHANGED draft),
             s \in Timetabled => Kept(r, q) \/ Passed(q)
      PROVE  SlotInv'
  BY <1>3, LoopQuiet DEF r, now
<1>4. CASE PassBy(p, s)
  BY <1>3, <1>4, NoCreate DEF PassBy, Kept
<1>5. CASE DropMissed(p, s)
  <2>1. s \in Timetabled => Passed(Skip(s, r, "missed", now))
    BY <1>1, <1>2, <1>5, SkipFacts DEF DropMissed
  <2> HIDE DEF Passed
  <2> QED
    BY <1>3, <1>5, <2>1, NoCreate DEF DropMissed, r, now
<1>6. CASE Hold(p, s)
  <2>1. s \in Timetabled => Kept(r, Noticed(p, s))
    BY <1>2 DEF Kept
  <2> QED
    BY <1>3, <1>6, <2>1, NoCreate DEF Hold
<1>7. CASE Decline(p, s)
  <2>1. s \in Timetabled => Passed(Skip(s, Noticed(p, s), "skipped", now))
    BY <1>1, <1>2, <1>7, SkipFacts DEF Decline
  <2> HIDE DEF Passed
  <2> QED
    BY <1>3, <1>7, <2>1, NoCreate DEF Decline, now
<1>8. CASE StartFirst(p, s)
  <2>1. CASE Free
    <3> DEFINE q == [Ran(Noticed(p, s), Noticed(p, s).pending) EXCEPT !.awaits = TRUE]
    <3>1. Create(s, "start", 0, 0) /\ Writes(s, q) /\ Considers(p, s)
      BY <1>8, <2>1 DEF StartFirst
    <3>2. s \in Timetabled => Kept(r, q)
      BY <1>1, <1>2 DEF Kept, Ran, Row
    <3> HIDE DEF q
    <3> QED
      BY <1>3, <3>1, <3>2, OtherCreate
  <2>2. CASE ~Free
    <3>1. s \in Timetabled => Kept(r, Noticed(p, s))
      BY <1>2 DEF Kept
    <3> QED
      BY <1>3, <1>8, <2>2, <3>1, NoCreate DEF StartFirst
  <2> QED
    BY <2>1, <2>2
<1>9. CASE SkipStopped(p, s)
  <2> DEFINE k == Skip(s, Noticed(p, s), "skipped", now)
             q == [k EXCEPT !.awaits = FALSE]
  <2>1. s \in Timetabled => Passed(k)
    BY <1>1, <1>2, <1>9, SkipFacts DEF SkipStopped
  <2>2. k \in Row
    BY <1>1, SkipType
  <2>3. Writes(s, q) /\ Considers(p, s) /\ NoNewJob
    BY <1>9 DEF SkipStopped, now
  <2> HIDE DEF k
  <2>4. Kept(k, q)
    BY <2>2 DEF Kept, Row
  <2> HIDE DEF q
  <2>5. s \in Timetabled => Passed(q)
    BY <2>1, <2>4, KeptNextDue DEF Kept
  <2> HIDE DEF Passed
  <2> QED
    BY <1>3, <2>3, <2>5, NoCreate
<1>10. CASE FireRefused(p, s)
  <2> DEFINE k == Refused(Arrived(p, s))
             q == Advance(s, k, now)
  <2>1. k \in Row /\ k.enabled = Arrived(p, s).enabled
    BY <1>1, RowTypes, ZenonT(60) DEF Refused, Row
  <2>2. Writes(s, q) /\ Considers(p, s) /\ Ready(p, s) /\ NoNewJob
    BY <1>10 DEF FireRefused, Starts, now
  <2> HIDE DEF k
  <2>3. s \in Timetabled => Passed(q)
    BY <1>1, <1>2, <2>1, <2>2, AdvanceFacts DEF Kept
  <2> HIDE DEF q, Passed
  <2> QED
    BY <1>3, <2>2, <2>3, NoCreate
<1>11. CASE FireBusy(p, s)
  BY <1>2, <1>3, <1>11, NoCreate DEF FireBusy, Starts
<1> QED
  BY <1>4, <1>5, <1>6, <1>7, <1>8, <1>9, <1>10, <1>11

\* The step that matters: the slot gets its one job and falls behind the row.
LEMMA FireKeeps ==
  ASSUME Rare = {}, TypeOK, TypeOK', SlotInv,
         NEW p \in Schedulers, NEW s \in Schedules, Fire(p, s)
  PROVE  SlotInv'
<1> DEFINE r == draft[s]
           now == sample[p].now
           q == draft'[s]
           slot == IF Timed(s) THEN NextDue(s, Arrived(p, s)) ELSE 0
<1>1. r \in Row /\ Arrived(p, s) \in Row /\ now \in Minutes /\ q \in Row
  BY DraftTypes DEF TypeOK
<1>2. Considers(p, s) /\ Ready(p, s) /\ Create(s, "first", slot, 0)
  BY DEF Fire, Starts
<1>3. at[p] = "fire" /\ UNCHANGED <<minute, store, at, sample, lost>>
  BY <1>2 DEF Considers, world
<1>4. \A t \in Schedules : t # s => draft'[t] = draft[t]
  BY DEF Fire, Writes, TypeOK
<1>5. Mutex' /\ Agree' /\ Looked'
  BY <1>3 DEF SlotInv, Mutex, Agree, Looked, Unlocked, Inside
<1>6. lost \in Nat /\ minute \in Minutes /\ Minutes \subseteq Nat /\ 0 \in Minutes
      /\ now <= minute /\ Timetabled \subseteq Schedules
  BY Widths DEF TypeOK, SlotInv, Looked, Minutes, Timetabled
<1>7. CASE s \notin Timetabled
  <2>1. slot = 0
    BY <1>7 DEF Timetabled
  <2>2. \A t \in Schedules, m \in Minutes :
          SlotJobs(t, m)' = IF t = s /\ m = slot THEN SlotJobs(t, m) \cup {last + 1}
                                                 ELSE SlotJobs(t, m)
    <3> HIDE DEF slot
    <3> QED
      BY <1>2, <1>6, <2>1, FirstCreate
  <2>3. NoFirst
    BY <1>6, <1>7, <2>2 DEF NoFirst
  <2>4. Writes(s, q)
    BY DEF Fire, Writes, TypeOK
  <2> HIDE DEF q
  <2> QED
    BY <1>2, <1>7, <2>3, <2>4, LoopQuiet
<1>8. CASE s \in Timetabled
  <2>1. slot = NextDue(s, r) /\ r.enabled /\ slot <= now
    <3>1. Kept(r, Arrived(p, s))
      BY <1>1, <1>8, DraftTypes DEF Timetabled, Kept, Arrived, Row
    <3> QED
      BY <1>2, <1>8, <3>1, KeptNextDue DEF Timetabled, Ready
  <2>2. slot \in 0..(Horizon + 1)
    BY <1>1, <2>1, NextDueType
  <2>3. slot \in Minutes
    BY <1>1, <2>1, <2>2, Widths DEF Minutes
  <2>4. q.enabled => NextDue(s, q) > now
    <3> DEFINE k == Ran(Arrived(p, s), FALSE)
               a == Advance(s, k, now)
    <3>1. last < MaxJobs
      BY <1>2 DEF Create, Free
    <3>2. k \in Row
      BY <1>1, <3>1, RowTypes
    <3>3. a \in Row /\ (a.enabled => NextDue(s, a) > now)
      BY <1>1, <1>8, <3>2, AdvanceType, AdvanceFacts
    <3>4. q = [a EXCEPT !.recipe = IF Steps[s] > 0 THEN last + 1 ELSE 0, !.step = 0]
      BY DEF Fire, Writes, TypeOK
    <3> HIDE DEF k, a, q
    <3>5. Kept(a, q)
      BY <3>3, <3>4 DEF Kept, Row
    <3> QED
      BY <3>3, <3>5, KeptNextDue DEF Kept
  <2>5. PICK m0 \in Minutes : m0 = slot
    BY <2>3
  <2> HIDE DEF slot, q, r, now
  <2>6. \A t \in Schedules, m \in Minutes :
          SlotJobs(t, m)' = IF t = s /\ m = m0 THEN SlotJobs(t, m) \cup {last + 1}
                                                 ELSE SlotJobs(t, m)
    BY <1>2, <2>5, FirstCreate
  <2>7. \A t \in Timetabled, m \in Minutes :
          <<t, m>> # <<s, m0>> => Count(t, m)' = Count(t, m)
    BY <1>6, <2>6 DEF Count
  <2>8. Count(s, m0)' \in {Count(s, m0), Count(s, m0) + 1} /\ Count(s, m0) \in Nat
    <3>1. IsFiniteSet(SlotJobs(s, m0)) /\ Count(s, m0) \in Nat
      BY <1>6, <1>8, CountType
    <3>2. SlotJobs(s, m0)' = SlotJobs(s, m0) \cup {last + 1}
      BY <1>6, <1>8, <2>6
    <3>3. Cardinality(SlotJobs(s, m0) \cup {last + 1})
            \in {Count(s, m0), Count(s, m0) + 1}
      BY <3>1, FS_AddElement DEF Count
    <3> QED
      BY <3>1, <3>2, <3>3 DEF Count
  <2>9. Count(s, m0) <= lost
    BY <1>1, <1>6, <1>8, <2>1, <2>5 DEF SlotInv, Ahead, r, Minutes
  <2>10. Past'
    <3>1. ASSUME NEW t \in Timetabled, NEW m \in Minutes, minute < m
          PROVE  SlotJobs(t, m)' = {}
      <4>1. m # m0
        BY <1>1, <1>6, <2>1, <2>5, <3>1
      <4> QED
        BY <1>6, <2>6, <3>1, <4>1 DEF SlotInv, Past
    <3> QED
      BY <1>3, <3>1 DEF Past
  <2>11. Bounded'
    <3>1. ASSUME NEW t \in Timetabled, NEW m \in Minutes
          PROVE  Count(t, m)' <= 1 + lost
      <4>1. CASE <<t, m>> = <<s, m0>>
        <5>1. Count(s, m0)' <= 1 + lost
          BY <1>6, <2>8, <2>9
        <5> QED
          BY <4>1, <5>1
      <4>2. CASE <<t, m>> # <<s, m0>>
        BY <2>7, <4>2 DEF SlotInv, Bounded
      <4> QED
        BY <4>1, <4>2
    <3> QED
      BY <1>3, <3>1 DEF Bounded
  <2>12. Ahead'
    <3>1. ASSUME NEW t \in Timetabled, draft'[t].enabled,
                 NEW m \in Minutes, NextDue(t, draft'[t]) <= m
          PROVE  Count(t, m)' <= lost
      <4>1. CASE t = s
        <5>1. NextDue(s, q) \in Nat /\ NextDue(s, q) > now
          BY <1>1, <2>4, <3>1, <4>1, NextDueType, Widths DEF q
        <5>2. m0 < m /\ NextDue(s, r) <= m
          BY <1>1, <1>6, <2>1, <2>5, <3>1, <4>1, <5>1 DEF q
        <5> QED
          BY <1>6, <2>1, <2>7, <4>1, <5>2 DEF SlotInv, Ahead, r
      <4>2. CASE t # s
        <5>1. draft'[t] = draft[t]
          BY <1>4, <1>6, <4>2
        <5> QED
          BY <2>7, <3>1, <4>2, <5>1 DEF SlotInv, Ahead
      <4> QED
        BY <4>1, <4>2
    <3> QED
      BY <1>3, <3>1 DEF Ahead
  <2> QED
    BY <1>5, <2>10, <2>11, <2>12 DEF SlotInv
<1> QED
  BY <1>7, <1>8

\* No later step of a recipe is ever refused as invalid.
StepsStand == \A s \in Schedules, n \in Nat : n > 0 => <<s, n>> \notin BadSteps

\* The second loop leaves every slot as it is.
LEMMA OutcomeLoopKeeps ==
  ASSUME StepsStand, TypeOK, TypeOK', SlotInv, NEW p \in Schedulers, OutcomeLoop(p)
  PROVE  SlotInv'
<1>1. PICK s \in Schedules :
        \/ NothingEnded(p, s) \/ Settle(p, s) \/ EndRecipe(p, s)
        \/ HoldStep(p, s) \/ GiveUpStep(p, s)
        \/ NextStepRefused(p, s) \/ NextStepBusy(p, s) \/ NextStep(p, s)
  BY DEF OutcomeLoop
<1> DEFINE r == draft[s]
<1>2. r \in Row
  BY DraftTypes
<1>3. Kept(r, Settled(r))
  BY <1>2 DEF Settled, Kept, Row
<1> HIDE DEF r
<1>4. ASSUME NEW q, Reviews(p, s), NoFirst, Kept(r, q),
             Writes(s, q) \/ (q = r /\ UNCHANGED draft)
      PROVE  SlotInv'
  BY <1>4, LoopQuiet DEF r
<1>5. CASE NothingEnded(p, s)
  BY <1>4, <1>5, NoCreate DEF NothingEnded, Kept
<1>6. CASE Settle(p, s)
  BY <1>3, <1>4, <1>6, NoCreate DEF Settle, r
<1>7. CASE EndRecipe(p, s)
  <2> DEFINE q == NoRecipe([r EXCEPT !.lastJob = r.recipe,
                                     !.lastState = job[r.recipe].state])
  <2>1. Writes(s, q) /\ Reviews(p, s) /\ NoNewJob
    BY <1>7 DEF EndRecipe, r
  <2>2. Kept(r, q)
    BY <1>2 DEF NoRecipe, Kept, Row
  <2> HIDE DEF q
  <2> QED
    BY <1>4, <2>1, <2>2, NoCreate
<1>8. CASE HoldStep(p, s)
  BY <1>3, <1>4, <1>8, NoCreate DEF HoldStep, StepDue, r
<1>9. CASE GiveUpStep(p, s)
  <2> DEFINE q == NoRecipe([r EXCEPT !.lastState = "skipped"])
  <2>1. Writes(s, q) /\ Reviews(p, s) /\ NoNewJob
    BY <1>9 DEF GiveUpStep, StepDue, r
  <2>2. Kept(r, q)
    BY <1>2 DEF NoRecipe, Kept, Row
  <2> HIDE DEF q
  <2> QED
    BY <1>4, <2>1, <2>2, NoCreate
<1>10. CASE NextStepRefused(p, s)
  <2>1. r.step \in Nat /\ <<s, r.step + 1>> \in BadSteps
    BY <1>2, <1>10 DEF NextStepRefused, Row, r
  <2> QED
    BY <2>1 DEF StepsStand
<1>11. CASE NextStepBusy(p, s)
  BY <1>3, <1>4, <1>11, NoCreate DEF NextStepBusy, StepStarts, StepDue, r
<1>12. CASE NextStep(p, s)
  <2> DEFINE step == Settled(r).step + 1
             q == [Ran(Settled(r), FALSE) EXCEPT !.recipe = last + 1, !.step = step]
  <2>1. Create(s, "next", 0, step) /\ Writes(s, q) /\ Reviews(p, s)
    BY <1>12 DEF NextStep, StepStarts, StepDue, r
  <2>2. Settled(r) \in Row
    BY <1>2, <1>12, RowTypes DEF NextStep, StepStarts, StepDue, Ended, r
  <2>3. Kept(r, q)
    BY <1>3, <2>2 DEF Ran, Kept, Row
  <2> HIDE DEF q, step
  <2> QED
    BY <1>4, <2>1, <2>3, OtherCreate
<1> QED
  BY <1>1, <1>5, <1>6, <1>7, <1>8, <1>9, <1>10, <1>11, <1>12

\* Nothing the three facts speak of changes but, perhaps, the clock.
LEMMA RestQuiet ==
  ASSUME TypeOK, TypeOK', SlotInv, NoFirst, minute <= minute',
         UNCHANGED <<draft, lost>>
  PROVE  Past' /\ Ahead' /\ Bounded'
<1>1. ASSUME NEW s \in Timetabled PROVE Steady(s)
  <2>1. s \in Schedules /\ draft[s] \in Row /\ draft'[s] = draft[s]
    BY DEF Timetabled, TypeOK
  <2>2. NextDue(s, draft[s]) \in Nat
    BY <2>1, NextDueType, Widths
  <2> QED
    BY <2>1, <2>2 DEF Steady
<1> QED
  BY <1>1, QuietStep

\* A pass that is lost gives its slots back, and the bound gives way by one.
LEMMA DroppedKeeps ==
  ASSUME TypeOK, TypeOK', SlotInv, NEW p \in Schedulers, Dropped(p)
  PROVE  SlotInv'
<1>1. UNCHANGED <<minute, last, job, store>> /\ GoesTo(p, "rest")
  BY DEF Dropped, world
<1>2. at'[p] = "rest" /\ \A q \in Schedulers : q # p => at'[q] = at[q]
  BY <1>1 DEF GoesTo, TypeOK
<1>3. Mutex'
  BY <1>2 DEF SlotInv, Mutex, Inside
<1>4. NoFirst /\ minute <= minute' /\ minute \in Nat /\ lost \in Nat
  BY <1>1, NoCreate, Widths DEF NoNewJob, TypeOK, Minutes
<1>5. Looked'
  <2>1. sample' = [sample EXCEPT ![p] = NoSample] /\ NoSample.now = 0
    BY DEF Dropped, NoSample
  <2> QED
    BY <1>1, <1>4, <2>1 DEF SlotInv, Looked, TypeOK
<1>6. CASE at[p] \in Inside
  <2>1. draft' = store /\ lost' = lost + 1
    BY <1>6 DEF Dropped
  <2>2. Agree'
    BY <1>1, <2>1 DEF Agree
  <2>3. Past'
    BY <1>1, <1>4 DEF SlotInv, Past, NoFirst
  <2>4. \A s \in Timetabled, m \in Minutes :
          Count(s, m)' = Count(s, m) /\ Count(s, m) \in Nat /\ Count(s, m) <= lost'
    BY <1>4, <2>1, CountType DEF SlotInv, Bounded, NoFirst, Count, Timetabled
  <2>5. Bounded' /\ Ahead'
    BY <1>4, <2>1, <2>4 DEF Bounded, Ahead
  <2> QED
    BY <1>3, <1>5, <2>2, <2>3, <2>5 DEF SlotInv
<1>7. CASE at[p] \notin Inside
  <2>1. UNCHANGED <<draft, lost>>
    BY <1>7 DEF Dropped
  <2>2. Agree'
    BY <1>1, <1>2, <1>7, <2>1 DEF SlotInv, Agree, Unlocked
  <2>3. Past' /\ Ahead' /\ Bounded'
    BY <1>4, <2>1, RestQuiet
  <2> QED
    BY <1>3, <1>5, <2>2, <2>3 DEF SlotInv
<1> QED
  BY <1>6, <1>7

\* The steps of a pass around its two loops.
LEMMA PassKeeps ==
  ASSUME TypeOK, TypeOK', SlotInv, NEW p \in Schedulers,
         Sample(p) \/ Lock(p) \/ AllConsidered(p) \/ Save(p) \/ Crash(p) \/ TickError(p)
  PROVE  SlotInv'
<1>1. CASE Crash(p) \/ TickError(p)
  BY <1>1, DroppedKeeps DEF Crash, TickError
<1>2. CASE Sample(p) \/ Lock(p) \/ AllConsidered(p) \/ Save(p)
  <2>1. UNCHANGED <<minute, last, job, lost>>
    BY <1>2 DEF Sample, Lock, AllConsidered, Save, world
  <2>2. NoFirst /\ minute <= minute' /\ minute \in Nat
    BY <2>1, NoCreate, Widths DEF NoNewJob, TypeOK, Minutes
  <2>3. \A q \in Schedulers : q # p => at'[q] = at[q]
    BY <1>2 DEF Sample, Lock, AllConsidered, Save, GoesTo, TypeOK
  <2>4. Mutex'
    BY <1>2, <2>3, SMTT(60) DEF Sample, Lock, AllConsidered, Save, GoesTo, TypeOK, SlotInv,
                      Mutex, Unlocked, Inside
  <2>5. Looked'
    <3>1. sample'[p].now <= minute
      BY <1>2, <2>2 DEF Sample, Lock, AllConsidered, Save, NoSample, TypeOK, SlotInv,
                        Looked
    <3>2. \A q \in Schedulers : q # p => sample'[q] = sample[q]
      BY <1>2 DEF Sample, Lock, AllConsidered, Save, TypeOK
    <3> QED
      BY <2>1, <3>1, <3>2 DEF SlotInv, Looked
  <2>6. UNCHANGED draft /\ Agree'
    <3>1. CASE Sample(p)
      BY <3>1 DEF Sample, GoesTo, TypeOK, SlotInv, Agree, Unlocked, Inside
    <3>2. CASE Lock(p)
      BY <3>2 DEF Lock, SlotInv, Agree
    <3>3. CASE AllConsidered(p)
      BY <3>3 DEF AllConsidered, GoesTo, TypeOK, Agree, Unlocked, Inside
    <3>4. CASE Save(p)
      BY <3>4 DEF Save, Agree
    <3> QED
      BY <1>2, <3>1, <3>2, <3>3, <3>4
  <2>7. Past' /\ Ahead' /\ Bounded'
    BY <2>1, <2>2, <2>6, RestQuiet
  <2> QED
    BY <2>4, <2>5, <2>6, <2>7 DEF SlotInv
<1> QED
  BY <1>1, <1>2

\* Whoever edits the store, or asks for a run, leaves a slot that had its job
\* behind: a row that is armed afresh waits for a slot to come.
LEMMA PeopleKeeps ==
  ASSUME TypeOK, TypeOK', SlotInv, People
  PROVE  SlotInv'
<1>1. PICK s \in Schedules : Disable(s) \/ Enable(s) \/ Edit(s)
                             \/ RunNow(s) \/ RunNowRefused(s)
  BY DEF People
<1>2. store[s] \in Row /\ minute \in Minutes /\ minute \in Nat
  BY Widths DEF TypeOK, Minutes
<1>3. ASSUME NEW q, Edits(s, q), NoFirst,
             \/ ~q.enabled
             \/ Kept(store[s], q)
             \/ s \in Timetabled => minute < NextDue(s, q)
      PROVE  SlotInv'
  <2>1. UNCHANGED <<minute, at, sample, lost>> /\ Unlocked /\ draft' = store'
    BY <1>3 DEF Edits, world
  <2>2. draft = store
    BY <2>1 DEF SlotInv, Agree
  <2>3. draft'[s] = q /\ \A t \in Schedules : t # s => draft'[t] = draft[t]
    BY <1>3, <2>1, <2>2 DEF Edits, TypeOK
  <2>4. Mutex' /\ Agree' /\ Looked'
    BY <2>1 DEF SlotInv, Mutex, Agree, Looked
  <2>5. ASSUME NEW t \in Timetabled PROVE Steady(t)
    <3>1. t \in Schedules /\ draft[t] \in Row
      BY DEF Timetabled, TypeOK
    <3>2. NextDue(t, draft[t]) \in Nat
      BY <3>1, NextDueType, Widths
    <3>3. CASE t # s
      BY <2>3, <3>1, <3>2, <3>3 DEF Steady
    <3>4. CASE t = s
      <4>1. draft'[t] = q /\ draft[t] = store[s]
        BY <2>2, <2>3, <3>4
      <4>2. CASE ~q.enabled
        BY <4>1, <4>2 DEF Steady
      <4>3. CASE Kept(store[s], q)
        <5>1. NextDue(t, q) = NextDue(t, draft[t]) /\ q.enabled = draft[t].enabled
          BY <4>1, <4>3, KeptNextDue DEF Kept
        <5> QED
          BY <3>2, <4>1, <5>1 DEF Steady
      <4>4. CASE minute < NextDue(s, q)
        BY <3>4, <4>1, <4>4 DEF Steady
      <4> QED
        BY <1>3, <3>4, <4>2, <4>3, <4>4
    <3> QED
      BY <3>3, <3>4
  <2>6. minute <= minute' /\ lost' = lost
    BY <1>2, <2>1
  <2>7. Past' /\ Ahead' /\ Bounded'
    BY <1>3, <2>5, <2>6, QuietStep
  <2> QED
    BY <2>4, <2>7 DEF SlotInv
<1>4. ASSUME NEW q, Kept(Rearm(store[s]), q)
            \/ q = [Rearm(store[s]) EXCEPT !.enabled = TRUE]
      PROVE  NextDue(s, q) > minute
  <2>1. q.due = 0 /\ q.dueFrom = minute
    BY <1>2, <1>4 DEF Rearm, Kept, Row
  <2>2. NextSlot(s, minute) > minute
    BY <1>2, NextSlotFacts
  <2> QED
    BY <2>1, <2>2 DEF NextDue
<1>5. CASE Disable(s)
  <2>1. ~[store[s] EXCEPT !.enabled = FALSE].enabled
    BY <1>2 DEF Row
  <2> QED
    BY <1>3, <1>5, <2>1, NoCreate DEF Disable
<1>6. CASE Enable(s)
  <2> DEFINE q == [Rearm(store[s]) EXCEPT !.enabled = TRUE]
  <2>1. Edits(s, q) /\ NoNewJob
    BY <1>6 DEF Enable
  <2>2. minute < NextDue(s, q)
    BY <1>2, <1>4
  <2> HIDE DEF q
  <2> QED
    BY <1>3, <2>1, <2>2, NoCreate
<1>7. CASE Edit(s)
  <2> DEFINE q == Rearm(store[s])
  <2>1. Edits(s, q) /\ NoNewJob
    BY <1>7 DEF Edit
  <2>2. minute < NextDue(s, q)
    BY <1>2, <1>4 DEF Kept
  <2> HIDE DEF q
  <2> QED
    BY <1>3, <2>1, <2>2, NoCreate
<1>8. CASE RunNow(s)
  <2> DEFINE q == [Ran(store[s], FALSE) EXCEPT
                     !.recipe = IF Steps[s] > 0 THEN last + 1 ELSE 0, !.step = 0]
  <2>1. Edits(s, q) /\ Create(s, "manual", 0, 0)
    BY <1>8 DEF RunNow
  <2>2. Kept(store[s], q)
    BY <1>2 DEF Kept, Ran, Row
  <2> HIDE DEF q
  <2> QED
    BY <1>3, <2>1, <2>2, OtherCreate
<1>9. CASE RunNowRefused(s)
  <2>1. Kept(store[s], Refused(store[s]))
    BY <1>2 DEF Kept, Refused, Row
  <2> QED
    BY <1>3, <1>9, <2>1, NoCreate DEF RunNowRefused
<1> QED
  BY <1>1, <1>5, <1>6, <1>7, <1>8, <1>9

LEMMA WorldKeeps ==
  ASSUME TypeOK, TypeOK', SlotInv, World
  PROVE  SlotInv'
<1>1. UNCHANGED <<store, at, sample, draft, lost>>
  BY DEF World, MinutePasses, ComesUp, GoesDown, GuardChanges, OtherJob, JobEnds
<1>2. minute \in Nat /\ minute <= minute'
  BY Widths DEF World, MinutePasses, ComesUp, GoesDown, GuardChanges, OtherJob,
                JobEnds, world, TypeOK, Minutes
<1>3. NoFirst
  <2>1. CASE MinutePasses \/ ComesUp \/ GoesDown \/ GuardChanges
    BY <2>1, NoCreate DEF MinutePasses, ComesUp, GoesDown, GuardChanges, NoNewJob
  <2>2. CASE OtherJob
    <3>1. Create("people", "other", 0, 0)
      BY <2>2 DEF OtherJob
    <3> QED
      BY <3>1, OtherCreate
  <2>3. CASE \E j \in Jobs : JobEnds(j)
    <3>1. PICK j \in Jobs : JobEnds(j)
      BY <2>3
    <3>2. PICK outcome \in {"succeeded", "failed"} :
            job' = [job EXCEPT ![j].state = outcome]
      BY <3>1 DEF JobEnds
    <3>3. last' = last /\ \A i \in Jobs : job[i] \in Job
      BY <3>1 DEF JobEnds, TypeOK
    <3>4. \A i \in Jobs : /\ job'[i].by = job[i].by /\ job'[i].what = job[i].what
                          /\ job'[i].slot = job[i].slot
      BY <3>2, <3>3 DEF TypeOK, Job
    <3>5. 1..last \subseteq Jobs
      BY Widths DEF TypeOK, Jobs
    <3> QED
      BY <3>3, <3>4, <3>5 DEF NoFirst, SlotJobs, Firsts, Ids
  <2> QED
    BY <2>1, <2>2, <2>3 DEF World
<1>4. Past' /\ Ahead' /\ Bounded'
  BY <1>1, <1>2, <1>3, RestQuiet
<1>5. Mutex' /\ Agree'
  BY <1>1 DEF SlotInv, Mutex, Agree, Unlocked
<1>6. Looked'
  <2>1. \A p \in Schedulers : sample[p].now \in Nat
    BY Widths DEF TypeOK, Minutes
  <2>2. minute' \in Nat
    BY Widths DEF TypeOK, Minutes
  <2> QED
    BY <1>1, <1>2, <2>1, <2>2 DEF SlotInv, Looked
<1> QED
  BY <1>4, <1>5, <1>6 DEF SlotInv

LEMMA InitSlotInv == Init => SlotInv
<1> SUFFICES ASSUME Init PROVE SlotInv
  OBVIOUS
<1>1. \A s \in Schedules, m \in Minutes : SlotJobs(s, m) = {}
  BY DEF Init, SlotJobs, Firsts, Ids
<1>2. \A s \in Timetabled, m \in Minutes :
        SlotJobs(s, m) = {} /\ Count(s, m) = 0 /\ lost = 0
  BY <1>1, FS_EmptySet DEF Init, Count, Timetabled
<1>3. Mutex /\ Agree /\ Looked
  BY DEF Init, Mutex, Agree, Looked, Inside, NoSample
<1> QED
  BY <1>2, <1>3 DEF SlotInv, Past, Ahead, Bounded

LEMMA NextKeeps ==
  ASSUME Rare = {}, StepsStand, TypeOK, TypeOK', SlotInv, [Next]_vars
  PROVE  SlotInv'
<1>1. CASE UNCHANGED vars
  <2>1. UNCHANGED <<minute, last, job, store, at, sample, draft, lost>>
    BY <1>1 DEF vars, world
  <2>2. NoFirst /\ minute <= minute'
    BY <2>1, NoCreate, Widths DEF NoNewJob, TypeOK, Minutes
  <2>3. Past' /\ Ahead' /\ Bounded'
    BY <2>1, <2>2, RestQuiet
  <2> QED
    BY <2>1, <2>3 DEF SlotInv, Mutex, Agree, Looked, Unlocked
<1>2. ASSUME NEW p \in Schedulers, FireLoop(p) PROVE SlotInv'
  BY <1>2, FireLoopQuiet, FireKeeps DEF FireLoop
<1>3. ASSUME NEW p \in Schedulers, Works(p) \/ Crash(p) \/ TickError(p)
      PROVE  SlotInv'
  BY <1>2, <1>3, PassKeeps, OutcomeLoopKeeps DEF Works
<1>4. CASE People
  BY <1>4, PeopleKeeps
<1>5. CASE World
  BY <1>5, WorldKeeps
<1> QED
  BY <1>1, <1>3, <1>4, <1>5 DEF Next

LEMMA SlotInvariance ==
  ASSUME Rare = {}, StepsStand
  PROVE  Spec => [](TypeOK /\ SlotInv)
<1>1. Init => TypeOK /\ SlotInv
  BY InitType, InitSlotInv
<1>2. TypeOK /\ SlotInv /\ [Next]_vars => (TypeOK /\ SlotInv)'
  BY NextType, NextKeeps
<1> QED
  BY <1>1, <1>2, PTL DEF Spec

\* A slot has at most one job, and one more for each pass that was lost, however
\* many schedulers pass over the store and whatever people do to it meanwhile:
\* provided that every timetable has a slot within reach (Rare = {}), and that
\* no later step of a recipe is refused (StepsStand).
THEOREM SlotsFireOnce ==
  ASSUME Rare = {}, StepsStand
  PROVE  Spec => []RefiresBounded
<1>1. SlotInv => RefiresBounded
  BY DEF SlotInv, Bounded, Timetabled, Count, SlotJobs, RefiresBounded, Minutes
<1> QED
  BY <1>1, SlotInvariance, PTL

-----------------------------------------------------------------------------
(* What every step of a pass and every edit does to one row, and which job   *)
(* it starts: all that events and recipes depend on.                         *)

\* The row's event, and its place in its recipe, are as they were.
SameEvent(r, q) == q.consumed = r.consumed /\ (q.pending => r.pending)
SameWalk(r, q) == q.recipe = r.recipe /\ q.step = r.step

\* A run begins: with a recipe, at its first step.
Begins(q) == q.recipe \in {0, last + 1} /\ q.step = 0

\* The first loop looks for the schedule's event and may start a job for it.
FireEffect(p, s, q) ==
  \/ q = draft[s] /\ NoNewJob
  \/ /\ ~Walking(draft[s]) /\ SameEvent(Noticed(p, s), q) /\ SameWalk(draft[s], q)
     /\ NoNewJob \/ Create(s, "start", 0, 0)
  \/ /\ ~Walking(draft[s]) /\ SameEvent(Noticed(p, s), q) /\ ~q.pending /\ Begins(q)
     /\ ~Timed(s) => Noticed(p, s).pending
     /\ \E slot \in 0..(Horizon + 1) : Create(s, "first", slot, 0)

\* The second loop settles an outcome, or takes the recipe one step further.
OutcomeEffect(s, q) ==
  /\ SameEvent(draft[s], q)
  /\ \/ (SameWalk(draft[s], q) \/ q.recipe = 0) /\ NoNewJob
     \/ /\ Walking(draft[s]) /\ job[draft[s].recipe].state = "succeeded"
        /\ q.recipe = last + 1 /\ q.step = draft[s].step + 1
        /\ Create(s, "next", 0, q.step)

\* An edit, or a run somebody asks for.
EditEffect(s, q) ==
  /\ SameEvent(store[s], q)
  /\ \/ SameWalk(store[s], q) /\ NoNewJob
     \/ Begins(q) /\ Create(s, "manual", 0, 0)

-----------------------------------------------------------------------------
(* An event starts one job.                                                  *)

One(b) == IF b THEN 1 ELSE 0
Fired(s) == Cardinality(Firsts(s))

\* Who holds the lock has not looked at the rows that are left.
LeftInv == \A p \in Schedulers, s \in Schedules : at[p] = "fire" /\ s \in left => draft[s] = store[s]

\* What was offered, or is consumed, has finished.
ConsumedInv ==
  /\ \A p \in Schedulers : sample[p].fresh \subseteq Finished
  /\ \A s \in Schedules : draft[s].consumed \subseteq Finished /\ store[s].consumed \subseteq Finished

Waits(s) == Kind[s] = "after_job"

\* Each job started, and the one that is pending, has used up a finished job of
\* its own.  A lost pass gives back what it used up for one job.
DraftEvents == \A s \in Schedules : Waits(s) =>
  Fired(s) + One(draft[s].pending) <= Cardinality(draft[s].consumed) + lost
StoreEvents == \A s \in Schedules : Waits(s) =>
  Fired(s) + One(store[s].pending) <= Cardinality(store[s].consumed) + lost + 1

EventInv == Mutex /\ Agree /\ LeftInv /\ ConsumedInv /\ DraftEvents /\ StoreEvents

OneScheduler == \E p : Schedulers = {p}

\* The coming up that a pass, or the next one, may still take for an event.
Credit(p, s) ==
  IF at[p] = "rest" THEN known = "down" /\ up
  ELSE IF ~sample[p].up THEN up
  ELSE known = "down" /\ (at[p] = "sampled" \/ (at[p] = "fire" /\ s \in left))

DraftStarts == \A p \in Schedulers, s \in Schedules : Kind[s] = "on_start" =>
  Fired(s) + One(draft[s].pending) + One(Credit(p, s)) <= boots + lost
StoreStarts == \A p \in Schedulers, s \in Schedules : Kind[s] = "on_start" /\ at[p] \in Inside =>
  Fired(s) + One(store[s].pending) + One(known = "down" /\ up) <= boots + lost + 1

StartInv == Mutex /\ Agree /\ LeftInv /\ DraftStarts /\ StoreStarts

-----------------------------------------------------------------------------
(* Recipes go forward in order.                                              *)

\* The recipe's latest job is the one the row names.
WalksOn(s, r) == Walking(r) =>
  /\ r.recipe \in Ids /\ job[r.recipe].by = s /\ job[r.recipe].step = r.step
  /\ job[r.recipe].what \in {"first", "manual", "next"}

\* Nothing of the schedule started since, unless a pass was lost.
Latest(s, r) == Walking(r) => \A k \in (r.recipe + 1)..last : job[k].by = s => lost > 0

WalkInv ==
  /\ \A s \in Schedules : WalksOn(s, draft[s]) /\ WalksOn(s, store[s]) /\ Latest(s, draft[s])
  /\ RecipeInOrder

-----------------------------------------------------------------------------
(* The effects.                                                              *)

LEMMA AdvanceEvent ==
  ASSUME NEW s \in Schedules, NEW r \in Row, NEW now \in Minutes
  PROVE  /\ SameEvent(r, Advance(s, r, now)) /\ SameWalk(r, Advance(s, r, now))
         /\ Advance(s, r, now).pending = r.pending
         /\ \A why : SameEvent(r, Skip(s, r, why, now)) /\ SameWalk(r, Skip(s, r, why, now))
<1> DEFINE a == Advance(s, r, now)
<1>1. a \in Row /\ a.consumed = r.consumed /\ a.pending = r.pending /\ a.recipe = r.recipe /\ a.step = r.step
  <2>1. CASE Kind[s] = "once"
    BY <2>1, AdvanceType DEF Advance, Row
  <2>2. CASE Kind[s] = "cron"
    BY <2>2, AdvanceType DEF Advance, Row
  <2>3. CASE Kind[s] \notin {"once", "cron"}
    BY <2>3 DEF Advance
  <2> QED
    BY <2>1, <2>2, <2>3
<1> HIDE DEF a
<1>2. ASSUME NEW why
      PROVE  LET k == Skip(s, r, why, now)
             IN  k.consumed = a.consumed /\ k.pending = FALSE /\ k.recipe = a.recipe /\ k.step = a.step
  <2>1. Skip(s, r, why, now) = [a EXCEPT !.lastState = IF Timed(s) THEN why ELSE @, !.pending = FALSE]
    BY DEF Skip, a
  <2> QED
    BY <1>1, <2>1 DEF Row
<1> QED
  BY <1>1, <1>2 DEF SameEvent, SameWalk, a

LEMMA NoticedWalk ==
  ASSUME TypeOK, NEW p \in Schedulers, NEW s \in Schedules
  PROVE  /\ SameWalk(draft[s], Noticed(p, s)) /\ SameWalk(draft[s], Arrived(p, s))
         /\ Arrived(p, s).consumed = Noticed(p, s).consumed /\ Arrived(p, s).pending = Noticed(p, s).pending
BY DraftTypes, ZenonT(60) DEF Noticed, Arrived, Row, SameWalk

LEMMA FireLoopEffect ==
  ASSUME TypeOK, NEW p \in Schedulers, NEW s \in Schedules,
         \/ PassBy(p, s) \/ DropMissed(p, s) \/ Hold(p, s) \/ Decline(p, s)
         \/ StartFirst(p, s) \/ SkipStopped(p, s)
         \/ FireRefused(p, s) \/ FireBusy(p, s) \/ Fire(p, s)
  PROVE  Considers(p, s) /\ \E q : FireEffect(p, s, q) /\ draft' = [draft EXCEPT ![s] = q]
<1> DEFINE r == draft[s]
           n == Noticed(p, s)
           a == Arrived(p, s)
           now == sample[p].now
<1>1. r \in Row /\ n \in Row /\ a \in Row /\ now \in Minutes /\ (Timed(s) => n = r)
  BY DraftTypes
<1>2. SameWalk(r, n) /\ SameWalk(r, a) /\ a.consumed = n.consumed /\ a.pending = n.pending
  BY NoticedWalk
<1>3. Ready(p, s) => ~Walking(r) /\ (~Timed(s) => n.pending)
  BY DEF Ready
<1> HIDE DEF r, n, a, now
<1>4. ASSUME NEW q, Considers(p, s), Ready(p, s), SameEvent(n, q), SameWalk(r, q), Writes(s, q),
             NoNewJob \/ Create(s, "start", 0, 0)
      PROVE  Considers(p, s) /\ \E x : FireEffect(p, s, x) /\ draft' = [draft EXCEPT ![s] = x]
  BY <1>3, <1>4 DEF FireEffect, Writes, r, n
<1>5. CASE PassBy(p, s)
  <2>1. draft' = [draft EXCEPT ![s] = draft[s]]
    BY <1>5 DEF PassBy, TypeOK
  <2> QED
    BY <1>5, <2>1 DEF PassBy, FireEffect
<1>6. CASE DropMissed(p, s)
  <2>1. n = r
    BY <1>1, <1>6 DEF DropMissed, Late
  <2>2. SameEvent(n, Skip(s, r, "missed", now)) /\ SameWalk(r, Skip(s, r, "missed", now))
    BY <1>1, <2>1, AdvanceEvent
  <2> QED
    BY <1>4, <1>6, <2>2 DEF DropMissed, r, now
<1>7. CASE Hold(p, s)
  BY <1>2, <1>4, <1>7 DEF Hold, SameEvent, n
<1>8. CASE Decline(p, s)
  <2>1. SameEvent(n, Skip(s, n, "skipped", now)) /\ SameWalk(n, Skip(s, n, "skipped", now))
    BY <1>1, AdvanceEvent
  <2> QED
    BY <1>2, <1>4, <1>8, <2>1 DEF Decline, SameWalk, n, now
<1>9. CASE StartFirst(p, s)
  <2> DEFINE q == [Ran(n, n.pending) EXCEPT !.awaits = TRUE]
  <2>1. SameEvent(n, q) /\ SameWalk(n, q)
    BY <1>1 DEF SameEvent, SameWalk, Ran, Row
  <2>2. Considers(p, s) /\ Ready(p, s) /\ \/ Create(s, "start", 0, 0) /\ Writes(s, q)
                                          \/ NoNewJob /\ Writes(s, n)
    BY <1>9 DEF StartFirst, n
  <2> HIDE DEF q
  <2> QED
    BY <1>2, <1>4, <2>1, <2>2 DEF SameWalk, SameEvent
<1>10. CASE SkipStopped(p, s)
  <2> DEFINE k == Skip(s, n, "skipped", now)
             q == [k EXCEPT !.awaits = FALSE]
  <2>1. SameEvent(n, k) /\ SameWalk(n, k) /\ k \in Row
    BY <1>1, AdvanceEvent, SkipType
  <2>2. Writes(s, q) /\ Considers(p, s) /\ Ready(p, s) /\ NoNewJob
    BY <1>10 DEF SkipStopped, n, now
  <2> HIDE DEF k
  <2>3. SameEvent(n, q) /\ SameWalk(n, q)
    BY <2>1 DEF SameEvent, SameWalk, Row
  <2> HIDE DEF q
  <2> QED
    BY <1>2, <1>4, <2>2, <2>3 DEF SameWalk
<1>11. CASE FireRefused(p, s)
  <2> DEFINE k == Refused(a)
  <2>1. k \in Row /\ SameEvent(a, k) /\ SameWalk(a, k)
    BY <1>1, RowTypes, ZenonT(60) DEF Refused, Row, SameEvent, SameWalk
  <2>2. Considers(p, s) /\ Ready(p, s) /\ Writes(s, Advance(s, k, now)) /\ NoNewJob
    BY <1>11 DEF FireRefused, Starts, a, now
  <2> HIDE DEF k
  <2>3. SameEvent(k, Advance(s, k, now)) /\ SameWalk(k, Advance(s, k, now))
    BY <1>1, <2>1, AdvanceEvent
  <2> QED
    BY <1>2, <1>4, <2>1, <2>2, <2>3 DEF SameWalk, SameEvent
<1>12. CASE FireBusy(p, s)
  BY <1>2, <1>4, <1>12 DEF FireBusy, Starts, SameEvent, a
<1>13. CASE Fire(p, s)
  <2> DEFINE k == Ran(a, FALSE)
             v == Advance(s, k, now)
             slot == IF Timed(s) THEN NextDue(s, a) ELSE 0
             q == [v EXCEPT !.recipe = IF Steps[s] > 0 THEN last + 1 ELSE 0, !.step = 0]
  <2>1. Considers(p, s) /\ Ready(p, s) /\ Create(s, "first", slot, 0) /\ Writes(s, q)
    BY <1>13 DEF Fire, Starts, a, now
  <2>2. k \in Row /\ k.consumed = a.consumed /\ ~k.pending
    BY <1>1, <2>1, RowTypes DEF Ran, Row, Create, Free
  <2>3. slot \in 0..(Horizon + 1)
    BY <1>1, NextDueType, Widths
  <2> HIDE DEF k, slot
  <2>4. v.consumed = k.consumed /\ ~v.pending /\ v \in Row
    BY <1>1, <2>2, AdvanceEvent, AdvanceType DEF SameEvent
  <2> HIDE DEF v
  <2>5. q.consumed = v.consumed /\ q.pending = v.pending /\ Begins(q)
    BY <2>4 DEF Begins, Row
  <2> HIDE DEF q
  <2>6. FireEffect(p, s, q)
    BY <1>2, <1>3, <2>1, <2>2, <2>3, <2>4, <2>5 DEF FireEffect, SameEvent, n, r
  <2> QED
    BY <2>1, <2>6 DEF Writes
<1> QED
  BY <1>5, <1>6, <1>7, <1>8, <1>9, <1>10, <1>11, <1>12, <1>13

LEMMA OutcomeLoopEffect ==
  ASSUME TypeOK, NEW p \in Schedulers, OutcomeLoop(p)
  PROVE  \E s \in Schedules : \E q : Reviews(p, s) /\ OutcomeEffect(s, q) /\ draft' = [draft EXCEPT ![s] = q]
<1>1. PICK s \in Schedules :
        \/ NothingEnded(p, s) \/ Settle(p, s) \/ EndRecipe(p, s)
        \/ HoldStep(p, s) \/ GiveUpStep(p, s)
        \/ NextStepRefused(p, s) \/ NextStepBusy(p, s) \/ NextStep(p, s)
  BY DEF OutcomeLoop
<1> DEFINE r == draft[s]
           t == Settled(r)
<1>2. r \in Row /\ sample[p].now \in Minutes
  BY DraftTypes
<1>3. Ended(r) => t \in Row /\ SameEvent(r, t) /\ SameWalk(r, t)
  <2>1. Ended(r) => t \in Row
    BY <1>2, RowTypes DEF Ended
  <2> QED
    BY <1>2, <2>1 DEF Settled, SameEvent, SameWalk, Row
<1> HIDE DEF r, t
<1>4. ASSUME NEW q, Reviews(p, s), SameEvent(r, q), SameWalk(r, q) \/ q.recipe = 0, Writes(s, q), NoNewJob
      PROVE  \E x \in Schedules : \E y : Reviews(p, x) /\ OutcomeEffect(x, y) /\ draft' = [draft EXCEPT ![x] = y]
  <2>1. OutcomeEffect(s, q) /\ draft' = [draft EXCEPT ![s] = q]
    BY <1>4 DEF OutcomeEffect, Writes, r
  <2> QED
    BY <1>4, <2>1
<1>5. CASE NothingEnded(p, s)
  <2>1. draft' = [draft EXCEPT ![s] = r]
    BY <1>5 DEF NothingEnded, TypeOK, r
  <2>2. SameEvent(r, r) /\ SameWalk(r, r)
    BY DEF SameEvent, SameWalk
  <2> QED
    BY <1>4, <1>5, <2>1, <2>2 DEF NothingEnded, Writes
<1>6. CASE Settle(p, s)
  BY <1>3, <1>4, <1>6 DEF Settle, r, t
<1>7. CASE EndRecipe(p, s)
  <2> DEFINE q == NoRecipe([r EXCEPT !.lastJob = r.recipe, !.lastState = job[r.recipe].state])
  <2>1. Writes(s, q) /\ Reviews(p, s) /\ NoNewJob
    BY <1>7 DEF EndRecipe, r
  <2>2. SameEvent(r, q) /\ q.recipe = 0
    BY <1>2 DEF NoRecipe, SameEvent, Row
  <2> HIDE DEF q
  <2> QED
    BY <1>4, <2>1, <2>2
<1>8. CASE HoldStep(p, s)
  BY <1>3, <1>4, <1>8 DEF HoldStep, StepDue, r, t
<1>9. CASE GiveUpStep(p, s)
  <2> DEFINE q == NoRecipe([r EXCEPT !.lastState = "skipped"])
  <2>1. Writes(s, q) /\ Reviews(p, s) /\ NoNewJob
    BY <1>9 DEF GiveUpStep, StepDue, r
  <2>2. SameEvent(r, q) /\ q.recipe = 0
    BY <1>2 DEF NoRecipe, SameEvent, Row
  <2> HIDE DEF q
  <2> QED
    BY <1>4, <2>1, <2>2
<1>10. CASE NextStepRefused(p, s)
  <2> DEFINE k == Refused(t)
             q == Advance(s, k, sample[p].now)
  <2>1. Reviews(p, s) /\ Ended(r) /\ Writes(s, q) /\ NoNewJob
    BY <1>10 DEF NextStepRefused, StepStarts, StepDue, r, t
  <2>2. k \in Row /\ SameEvent(t, k) /\ SameWalk(t, k)
    BY <1>3, <2>1, RowTypes DEF Refused, Row, SameEvent, SameWalk
  <2> HIDE DEF k
  <2>3. SameEvent(k, q) /\ SameWalk(k, q)
    BY <1>2, <2>2, AdvanceEvent
  <2> HIDE DEF q
  <2> QED
    BY <1>3, <1>4, <2>1, <2>2, <2>3 DEF SameEvent, SameWalk
<1>11. CASE NextStepBusy(p, s)
  BY <1>3, <1>4, <1>11 DEF NextStepBusy, StepStarts, StepDue, r, t
<1>12. CASE NextStep(p, s)
  <2> DEFINE step == t.step + 1
             q == [Ran(t, FALSE) EXCEPT !.recipe = last + 1, !.step = step]
  <2>1. /\ Create(s, "next", 0, step) /\ Writes(s, q) /\ Reviews(p, s)
        /\ Ended(r) /\ Walking(r) /\ job[r.recipe].state = "succeeded"
    BY <1>12 DEF NextStep, StepStarts, StepDue, RecipeOver, r, t
  <2>2. t \in Row /\ SameEvent(r, t) /\ step = r.step + 1
    BY <1>3, <2>1 DEF SameWalk
  <2> HIDE DEF step
  <2>3. q.consumed = t.consumed /\ ~q.pending /\ q.recipe = last + 1 /\ q.step = step
    BY <2>2 DEF Ran, Row
  <2> HIDE DEF q
  <2>4. OutcomeEffect(s, q) /\ draft' = [draft EXCEPT ![s] = q]
    BY <2>1, <2>2, <2>3 DEF OutcomeEffect, SameEvent, Writes, r
  <2> QED
    BY <2>1, <2>4
<1> QED
  BY <1>1, <1>5, <1>6, <1>7, <1>8, <1>9, <1>10, <1>11, <1>12

LEMMA PeopleEffect ==
  ASSUME TypeOK, People
  PROVE  \E s \in Schedules : \E q : Edits(s, q) /\ EditEffect(s, q)
<1>1. PICK s \in Schedules : Disable(s) \/ Enable(s) \/ Edit(s) \/ RunNow(s) \/ RunNowRefused(s)
  BY DEF People
<1>2. store[s] \in Row
  BY DEF TypeOK
<1>3. CASE Disable(s)
  <2>1. EditEffect(s, [store[s] EXCEPT !.enabled = FALSE])
    BY <1>2, <1>3 DEF Disable, EditEffect, SameEvent, SameWalk, Row
  <2> QED
    BY <1>3, <2>1 DEF Disable
<1>4. CASE Enable(s)
  <2>1. EditEffect(s, [Rearm(store[s]) EXCEPT !.enabled = TRUE])
    BY <1>2, <1>4 DEF Enable, Rearm, EditEffect, SameEvent, SameWalk, Row
  <2> QED
    BY <1>4, <2>1 DEF Enable
<1>5. CASE Edit(s)
  <2>1. EditEffect(s, Rearm(store[s]))
    BY <1>2, <1>5 DEF Edit, Rearm, EditEffect, SameEvent, SameWalk, Row
  <2> QED
    BY <1>5, <2>1 DEF Edit
<1>6. CASE RunNow(s)
  <2> DEFINE q == [Ran(store[s], FALSE) EXCEPT !.recipe = IF Steps[s] > 0 THEN last + 1 ELSE 0, !.step = 0]
  <2>1. Edits(s, q) /\ Create(s, "manual", 0, 0)
    BY <1>6 DEF RunNow
  <2>2. SameEvent(store[s], q) /\ Begins(q)
    BY <1>2 DEF Ran, SameEvent, Begins, Row
  <2> HIDE DEF q
  <2> QED
    BY <2>1, <2>2 DEF EditEffect
<1>7. CASE RunNowRefused(s)
  <2>1. EditEffect(s, Refused(store[s]))
    BY <1>2, <1>7 DEF RunNowRefused, Refused, EditEffect, SameEvent, SameWalk, Row
  <2> QED
    BY <1>7, <2>1 DEF RunNowRefused
<1> QED
  BY <1>1, <1>3, <1>4, <1>5, <1>6, <1>7

-----------------------------------------------------------------------------
(* Jobs on record stay what they were asked for, and a success stays one.    *)

Firm ==
  /\ last' \in {last, last + 1} /\ lost <= lost'
  /\ \A j \in Ids : /\ job'[j].by = job[j].by /\ job'[j].what = job[j].what
                    /\ job'[j].step = job[j].step
                    /\ job[j].state = "succeeded" => job'[j].state = "succeeded"

LEMMA CreateFacts ==
  ASSUME TypeOK, NEW by, NEW what, NEW slot, NEW step, Create(by, what, slot, step)
  PROVE  /\ last \in Nat /\ last' = last + 1 /\ Ids' = Ids \cup {last + 1} /\ last + 1 \notin Ids
         /\ job'[last + 1].by = by /\ job'[last + 1].what = what /\ job'[last + 1].step = step
         /\ job'[last + 1].state = "active"
         /\ \A j \in Ids : job'[j] = job[j]
<1>1. last \in Nat /\ last + 1 \in Jobs /\ last' = last + 1
  BY Widths DEF Create, Free, TypeOK, Jobs
<1>2. job'[last + 1] = [by |-> by, what |-> what, slot |-> slot, step |-> step, state |-> "active"]
  BY <1>1 DEF Create, TypeOK
<1>3. Ids' = Ids \cup {last + 1} /\ last + 1 \notin Ids
  BY <1>1 DEF Ids
<1>4. \A j \in Ids : job'[j] = job[j]
  BY <1>1, <1>3, Widths DEF Create, TypeOK, Ids, Jobs
<1> QED
  BY <1>1, <1>2, <1>3, <1>4

LEMMA CreateFirm ==
  ASSUME TypeOK, NEW by, NEW what, NEW slot, NEW step, Create(by, what, slot, step), lost' = lost
  PROVE  Firm
BY CreateFacts, Widths DEF Firm, TypeOK

LEMMA QuietFirm ==
  ASSUME TypeOK, NoNewJob, lost <= lost'
  PROVE  Firm
BY Widths DEF Firm, NoNewJob, TypeOK

LEMMA EndsFirm ==
  ASSUME TypeOK, NEW e \in Jobs, JobEnds(e)
  PROVE  Firm /\ Ids' = Ids
<1>1. job[e].state = "active" /\ last' = last /\ lost' = lost
  BY DEF JobEnds
<1>2. PICK outcome \in {"succeeded", "failed"} : job' = [job EXCEPT ![e].state = outcome]
  BY DEF JobEnds
<1>3. \A j \in Jobs : /\ job'[j].by = job[j].by /\ job'[j].what = job[j].what /\ job'[j].step = job[j].step
                      /\ job[j].state = "succeeded" => job'[j].state = "succeeded"
  BY <1>1, <1>2 DEF TypeOK, Job
<1>4. Ids \subseteq Jobs
  BY Widths DEF TypeOK, Ids, Jobs
<1> QED
  BY <1>1, <1>3, <1>4, Widths DEF Firm, Ids, TypeOK

\* The steps of the world: a job ends, somebody else's begins, or no job at all.
LEMMA WorldEffect ==
  ASSUME TypeOK, World
  PROVE  /\ UNCHANGED <<store, known, at, sample, draft, left, lost>>
         /\ NoNewJob \/ Create("people", "other", 0, 0) \/ \E j \in Jobs : JobEnds(j)
BY DEF World, MinutePasses, ComesUp, GoesDown, GuardChanges, OtherJob, JobEnds, NoNewJob

\* The steps of a pass around its loops start nothing.
LEMMA AroundEffect ==
  ASSUME TypeOK, NEW p \in Schedulers, Sample(p) \/ Lock(p) \/ AllConsidered(p) \/ Save(p) \/ Crash(p) \/ TickError(p)
  PROVE  /\ NoNewJob /\ UNCHANGED world
         /\ \A q \in Schedulers : q # p => at'[q] = at[q] /\ sample'[q] = sample[q]
         /\ \/ Sample(p) /\ UNCHANGED <<store, draft, known, left, lost>>
            \/ Lock(p) /\ draft' = store /\ UNCHANGED <<store, known, sample, lost>>
            \/ AllConsidered(p) /\ UNCHANGED <<store, draft, known, sample, lost>>
            \/ Save(p) /\ store' = draft /\ UNCHANGED <<draft, left, lost>>
            \/ Dropped(p) /\ lost' \in Nat /\ lost <= lost' /\ UNCHANGED <<store, known>>
<1>1. lost \in Nat
  BY Widths DEF TypeOK
<1>2. CASE Crash(p) \/ TickError(p)
  BY <1>1, <1>2 DEF Crash, TickError, Dropped, NoNewJob, GoesTo, TypeOK
<1>3. CASE Sample(p) \/ Lock(p) \/ AllConsidered(p) \/ Save(p)
  BY <1>3 DEF Sample, Lock, AllConsidered, Save, NoNewJob, GoesTo, TypeOK
<1> QED
  BY <1>2, <1>3

-----------------------------------------------------------------------------
(* Recipes.                                                                  *)

WalkEffect(s, r, q) ==
  \/ (SameWalk(r, q) \/ q.recipe = 0) /\ NoNewJob
  \/ SameWalk(r, q) /\ ~Walking(r) /\ Create(s, "start", 0, 0)
  \/ Begins(q) /\ \E what \in {"first", "manual"}, slot \in 0..(Horizon + 1) : Create(s, what, slot, 0)
  \/ /\ Walking(r) /\ job[r.recipe].state = "succeeded"
     /\ q.recipe = last + 1 /\ q.step = r.step + 1
     /\ Create(s, "next", 0, q.step)

LEMMA WalksStay ==
  ASSUME TypeOK, Firm, NEW s, NEW r, WalksOn(s, r)
  PROVE  WalksOn(s, r)'
<1>1. last \in Nat /\ Ids \subseteq Ids'
  BY Widths DEF TypeOK, Firm, Ids
<1> QED
  BY <1>1 DEF Firm, WalksOn, Walking

Ordered(s, j) ==
  \E i \in Ids : /\ i < j /\ job[i].by = s
                 /\ job[i].what \in {"first", "manual", "next"}
                 /\ job[i].state = "succeeded"
                 /\ job[j].step = job[i].step + 1
                 /\ \A k \in (i + 1)..(j - 1) : job[k].by = s => lost > 0

LEMMA OrderedStays ==
  ASSUME TypeOK, TypeOK', Firm, NEW s, NEW j \in Ids, Ordered(s, j)
  PROVE  Ordered(s, j)'
<1>1. PICK i \in Ids : /\ i < j /\ job[i].by = s
                       /\ job[i].what \in {"first", "manual", "next"}
                       /\ job[i].state = "succeeded"
                       /\ job[j].step = job[i].step + 1
                       /\ \A k \in (i + 1)..(j - 1) : job[k].by = s => lost > 0
  BY DEF Ordered
<1>2. last \in Nat /\ lost \in Nat /\ lost' \in Nat /\ Ids \subseteq Ids'
  BY Widths DEF TypeOK, Firm, Ids
<1>3. \A k \in (i + 1)..(j - 1) : k \in Ids
  BY <1>2 DEF Ids
<1>4. \A k \in (i + 1)..(j - 1) : job'[k].by = s => lost' > 0
  BY <1>1, <1>2, <1>3 DEF Firm
<1> QED
  BY <1>1, <1>2, <1>4 DEF Firm, Ordered

LEMMA OrderStays ==
  ASSUME TypeOK, TypeOK', Firm, RecipeInOrder,
         \A j \in Ids' \ Ids, s \in Schedules : job'[j].by = s /\ job'[j].what = "next" => Ordered(s, j)'
  PROVE  RecipeInOrder'
<1>1. ASSUME NEW s \in Schedules, NEW j \in Ids', job'[j].by = s, job'[j].what = "next"
      PROVE  Ordered(s, j)'
  <2>1. CASE j \in Ids
    BY <1>1, <2>1, OrderedStays DEF RecipeInOrder, Ordered, Firm
  <2>2. CASE j \notin Ids
    BY <1>1, <2>2
  <2> QED
    BY <2>1, <2>2
<1> QED
  BY <1>1 DEF RecipeInOrder, Ordered

\* Steps that start no job of a schedule.
LEMMA ForeignWalk ==
  ASSUME TypeOK, TypeOK', WalkInv, NoNewJob \/ Create("people", "other", 0, 0) \/ \E j \in Jobs : JobEnds(j),
         UNCHANGED <<store, lost>>, draft' = draft
  PROVE  WalkInv'
<1>1. Firm
  BY CreateFirm, QuietFirm, EndsFirm, Widths DEF TypeOK
<1>2. \A j \in Ids' \ Ids, s \in Schedules : job'[j].by # s
  <2>1. CASE NoNewJob
    BY <2>1 DEF NoNewJob, Ids
  <2>2. CASE Create("people", "other", 0, 0)
    <3>1. Ids' = Ids \cup {last + 1} /\ job'[last + 1].by = "people"
      BY <2>2, CreateFacts
    <3> QED
      BY <3>1, SchedulerAssumption
  <2>3. CASE \E j \in Jobs : JobEnds(j)
    BY <2>3, EndsFirm
  <2> QED
    BY <2>1, <2>2, <2>3
<1>3. RecipeInOrder'
  BY <1>1, <1>2, OrderStays DEF WalkInv
<1>4. ASSUME NEW s \in Schedules PROVE Latest(s, draft[s])'
  <2> SUFFICES ASSUME Walking(draft[s]), NEW k \in (draft[s].recipe + 1)..last', job'[k].by = s PROVE lost > 0
    BY DEF Latest, Walking
  <2>1. draft[s].recipe \in Ids
    BY DEF WalkInv, WalksOn
  <2>2. last \in Nat /\ last' \in Nat
    BY Widths DEF TypeOK
  <2>3. k \in Ids'
    BY <2>1, <2>2 DEF Ids
  <2>4. k \in Ids
    BY <1>2, <2>3
  <2>5. k \in (draft[s].recipe + 1)..last /\ job[k].by = s
    BY <1>1, <2>1, <2>2, <2>4 DEF Firm, Ids
  <2> QED
    BY <2>5 DEF WalkInv, Latest
<1>5. ASSUME NEW s \in Schedules PROVE WalksOn(s, draft[s])' /\ WalksOn(s, store[s])'
  <2>1. WalksOn(s, draft[s]) /\ WalksOn(s, store[s])
    BY DEF WalkInv
  <2> QED
    BY <1>1, <2>1, WalksStay DEF WalksOn, Walking
<1> QED
  BY <1>3, <1>4, <1>5 DEF WalkInv

\* One row's step, whichever of the loops or people make it.
LEMMA RowWalk ==
  ASSUME TypeOK, TypeOK', WalkInv, NEW s \in Schedules, NEW q, WalkEffect(s, draft[s], q),
         draft' = [draft EXCEPT ![s] = q], store' \in {store, draft'}, lost' = lost
  PROVE  WalkInv'
<1> DEFINE r == draft[s]
<1>1. last \in Nat /\ lost \in Nat /\ draft'[s] = q /\ \A t \in Schedules : t # s => draft'[t] = draft[t]
  BY Widths DEF TypeOK
<1>2. NoNewJob \/ \E what, slot, step : Create(s, what, slot, step)
  BY DEF WalkEffect
<1>3. Firm
  BY <1>1, <1>2, CreateFirm, QuietFirm
<1>4. \A j \in Ids' \ Ids : j = last + 1 /\ last' = last + 1 /\ job'[j].by = s
  BY <1>2, CreateFacts DEF NoNewJob, Ids
<1>5. WalksOn(s, r) /\ Latest(s, r)
  BY DEF WalkInv
<1>6. WalksOn(s, q)' /\ Latest(s, q)'
  <2>1. CASE SameWalk(r, q) /\ NoNewJob
    BY <1>5, <2>1 DEF SameWalk, NoNewJob, WalksOn, Latest, Walking, Ids
  <2>2. CASE q.recipe = 0
    BY <2>2 DEF WalksOn, Latest, Walking
  <2>3. CASE SameWalk(r, q) /\ ~Walking(r)
    BY <2>3 DEF SameWalk, WalksOn, Latest, Walking
  <2>4. CASE q.recipe = last + 1
    <3>1. PICK what \in {"first", "manual", "next"} : \E slot : Create(s, what, slot, q.step)
      BY <1>5, <2>4, <1>1 DEF WalkEffect, Begins, NoNewJob, SameWalk, WalksOn, Walking, Ids
    <3>2. PICK slot : Create(s, what, slot, q.step)
      BY <3>1
    <3>3. /\ last' = last + 1 /\ last + 1 \in Ids' /\ job'[last + 1].by = s
          /\ job'[last + 1].what = what /\ job'[last + 1].step = q.step
      BY <3>2, CreateFacts
    <3> QED
      BY <1>1, <2>4, <3>3 DEF WalksOn, Latest, Walking
  <2> QED
    BY <2>1, <2>2, <2>3, <2>4 DEF WalkEffect, Begins
<1>7. RecipeInOrder'
  <2>1. ASSUME NEW j \in Ids' \ Ids, NEW t \in Schedules, job'[j].by = t, job'[j].what = "next"
        PROVE  Ordered(t, j)'
    <3>1. t = s /\ j = last + 1 /\ last' = last + 1
      BY <1>4, <2>1
    <3>2. /\ Walking(r) /\ job[r.recipe].state = "succeeded"
          /\ q.step = r.step + 1 /\ Create(s, "next", 0, q.step)
      <4>1. job'[last + 1].what = "next"
        BY <2>1, <3>1
      <4>2. ~NoNewJob
        BY <1>1, <3>1 DEF NoNewJob
      <4>3. ~(Create(s, "start", 0, 0)) /\ \A what \in {"first", "manual"} : \A slot : ~Create(s, what, slot, 0)
        BY <4>1, CreateFacts
      <4> QED
        BY <4>2, <4>3 DEF WalkEffect
    <3>3. /\ r.recipe \in Ids /\ job[r.recipe].by = s /\ job[r.recipe].step = r.step
          /\ job[r.recipe].what \in {"first", "manual", "next"}
          /\ \A k \in (r.recipe + 1)..last : job[k].by = s => lost > 0
      BY <1>5, <3>2 DEF WalksOn, Latest
    <3>4. /\ job'[last + 1].step = r.step + 1 /\ \A i \in Ids : job'[i] = job[i]
          /\ Ids' = Ids \cup {last + 1}
      BY <3>2, CreateFacts
    <3>5. \A k \in (r.recipe + 1)..last : k \in Ids
      BY <1>1, <3>3 DEF Ids
    <3>6. r.recipe < last + 1 /\ (last + 1) - 1 = last
      BY <1>1, <3>3 DEF Ids
    <3> HIDE DEF r
    <3>7. \A k \in (r.recipe + 1)..last : job'[k].by = s => lost' > 0
      BY <1>1, <3>3, <3>4, <3>5
    <3> DEFINE i == r.recipe
    <3>8. /\ i \in Ids' /\ i < j /\ job'[i].by = s /\ job'[i].what \in {"first", "manual", "next"}
          /\ job'[i].state = "succeeded" /\ job'[j].step = job'[i].step + 1
      BY <3>1, <3>2, <3>3, <3>4, <3>6
    <3>9. \A k \in (i + 1)..(j - 1) : job'[k].by = t => lost' > 0
      BY <3>1, <3>6, <3>7
    <3> HIDE DEF i
    <3> QED
      BY <3>1, <3>8, <3>9 DEF Ordered
  <2> QED
    BY <1>3, <2>1, OrderStays DEF WalkInv
<1>8. ASSUME NEW t \in Schedules, t # s PROVE Latest(t, draft[t])'
  <2> SUFFICES ASSUME Walking(draft[t]), NEW k \in (draft[t].recipe + 1)..last', job'[k].by = t PROVE lost > 0
    BY <1>1, <1>8 DEF Latest, Walking
  <2>1. draft[t].recipe \in Ids
    BY DEF WalkInv, WalksOn
  <2>2. last' \in Nat
    BY Widths DEF TypeOK
  <2>3. k \in Ids'
    BY <1>1, <2>1, <2>2 DEF Ids
  <2>4. k \in Ids
    BY <1>4, <1>8, <2>3
  <2>5. k \in (draft[t].recipe + 1)..last /\ job[k].by = t
    BY <1>1, <1>3, <2>1, <2>2, <2>4 DEF Firm, Ids
  <2> QED
    BY <2>5 DEF WalkInv, Latest
<1>9. \A t \in Schedules : WalksOn(t, draft[t])' /\ WalksOn(t, store[t])'
  <2>1. ASSUME NEW t \in Schedules PROVE (t # s => WalksOn(t, draft[t])') /\ (store' = store => WalksOn(t, store[t])')
    <3>1. WalksOn(t, draft[t]) /\ WalksOn(t, store[t])
      BY DEF WalkInv
    <3> QED
      BY <1>1, <1>3, <3>1, WalksStay DEF WalksOn, Walking
  <2>2. WalksOn(s, draft[s])'
    BY <1>1, <1>6 DEF WalksOn, Walking
  <2>3. CASE store' = store
    BY <2>1, <2>2, <2>3 DEF WalksOn, Walking
  <2>4. CASE store' = draft'
    BY <2>1, <2>2, <2>4 DEF WalksOn, Walking
  <2> QED
    BY <2>3, <2>4
<1>10. Latest(s, draft[s])'
  BY <1>1, <1>6 DEF Latest, Walking
<1> QED
  BY <1>7, <1>8, <1>9, <1>10 DEF WalkInv

\* A pass that is lost hands the rows back, and from then on anything goes.
LEMMA AroundWalk ==
  ASSUME TypeOK, TypeOK', Agree, WalkInv, NEW p \in Schedulers,
         Sample(p) \/ Lock(p) \/ AllConsidered(p) \/ Save(p) \/ Crash(p) \/ TickError(p)
  PROVE  WalkInv'
<1>1. NoNewJob /\ Ids' = Ids /\ lost \in Nat /\ lost' \in Nat /\ lost <= lost'
  BY AroundEffect, Widths DEF NoNewJob, Ids, TypeOK
<1>2. Firm
  BY <1>1, QuietFirm
<1>3. RecipeInOrder'
  BY <1>1, <1>2, OrderStays DEF WalkInv
<1>4. store' \in {store, draft} /\ (draft' = draft \/ draft' = store)
  BY AroundEffect DEF Dropped
<1>5. \A s \in Schedules : WalksOn(s, draft[s])' /\ WalksOn(s, store[s])'
  <2>1. \A s \in Schedules : WalksOn(s, draft[s]) /\ WalksOn(s, store[s])
    BY DEF WalkInv
  <2> QED
    BY <1>1, <1>4, <2>1 DEF NoNewJob, WalksOn, Walking
<1>6. ASSUME NEW s \in Schedules PROVE Latest(s, draft[s])'
  <2>1. CASE lost' > 0
    BY <2>1 DEF Latest
  <2>2. CASE lost' = 0
    <3>1. draft' = draft
      <4>1. lost' # lost + 1
        BY <1>1, <2>2
      <4>2. CASE Dropped(p)
        BY <4>1, <4>2 DEF Dropped
      <4>3. CASE Lock(p)
        BY <4>3 DEF Lock, Agree
      <4> QED
        BY <4>2, <4>3, AroundEffect
    <3> QED
      BY <1>1, <2>2, <3>1 DEF WalkInv, Latest, Walking, NoNewJob
  <2> QED
    BY <1>1, <2>1, <2>2
<1> QED
  BY <1>3, <1>5, <1>6 DEF WalkInv

\* The store's lock excludes, and between passes the copy is the store.
LEMMA LockKept ==
  ASSUME TypeOK, TypeOK', Mutex, Agree, [Next]_vars
  PROVE  Mutex' /\ Agree'
<1> USE DEF Mutex, Agree, Unlocked, Inside
<1>1. ASSUME NEW p \in Schedulers, FireLoop(p) \/ OutcomeLoop(p)
      PROVE  Mutex' /\ Agree'
  <2>1. at[p] \in Inside /\ UNCHANGED <<at, store>>
    <3>1. \E s \in Schedules : Considers(p, s) \/ Reviews(p, s)
      BY <1>1, FireLoopEffect, OutcomeLoopEffect DEF FireLoop
    <3> QED
      BY <3>1 DEF Considers, Reviews
  <2> QED
    BY <2>1
<1>2. ASSUME NEW p \in Schedulers, Sample(p) \/ Lock(p) \/ AllConsidered(p) \/ Save(p) \/ Crash(p) \/ TickError(p)
      PROVE  Mutex' /\ Agree'
  <2>1. \A q \in Schedulers : q # p => at'[q] = at[q]
    BY <1>2, AroundEffect
  <2>2. CASE Sample(p)
    BY <2>1, <2>2 DEF Sample, GoesTo, TypeOK
  <2>3. CASE Lock(p)
    BY <2>1, <2>3 DEF Lock, GoesTo, TypeOK
  <2>4. CASE AllConsidered(p)
    BY <2>1, <2>4 DEF AllConsidered, GoesTo, TypeOK
  <2>5. CASE Save(p)
    BY <2>1, <2>5 DEF Save, GoesTo, TypeOK
  <2>6. CASE Dropped(p)
    BY <2>1, <2>6 DEF Dropped, GoesTo, TypeOK
  <2> QED
    BY <1>2, <2>2, <2>3, <2>4, <2>5, <2>6 DEF Crash, TickError
<1>3. CASE People
  BY <1>3, PeopleEffect DEF Edits
<1>4. CASE World
  BY <1>4, WorldEffect
<1>5. CASE UNCHANGED vars
  BY <1>5 DEF vars
<1> QED
  BY <1>1, <1>2, <1>3, <1>4, <1>5 DEF Next, Works

LEMMA WalkKept ==
  ASSUME TypeOK, TypeOK', Mutex, Agree, WalkInv, [Next]_vars
  PROVE  WalkInv'
<1>1. ASSUME NEW p \in Schedulers, FireLoop(p)
      PROVE  WalkInv'
  <2>1. PICK s \in Schedules : Considers(p, s) /\ \E q : FireEffect(p, s, q) /\ draft' = [draft EXCEPT ![s] = q]
    BY <1>1, FireLoopEffect DEF FireLoop
  <2>2. PICK q : FireEffect(p, s, q) /\ draft' = [draft EXCEPT ![s] = q]
    BY <2>1
  <2>3. WalkEffect(s, draft[s], q)
    BY <2>2 DEF FireEffect, WalkEffect, SameWalk
  <2> QED
    BY <2>1, <2>2, <2>3, RowWalk DEF Considers
<1>2. ASSUME NEW p \in Schedulers, OutcomeLoop(p)
      PROVE  WalkInv'
  <2>1. PICK s \in Schedules : \E q : Reviews(p, s) /\ OutcomeEffect(s, q) /\ draft' = [draft EXCEPT ![s] = q]
    BY <1>2, OutcomeLoopEffect
  <2>2. PICK q : Reviews(p, s) /\ OutcomeEffect(s, q) /\ draft' = [draft EXCEPT ![s] = q]
    BY <2>1
  <2>3. WalkEffect(s, draft[s], q)
    BY <2>2 DEF OutcomeEffect, WalkEffect
  <2> QED
    BY <2>2, <2>3, RowWalk DEF Reviews
<1>3. ASSUME NEW p \in Schedulers, Works(p) \/ Crash(p) \/ TickError(p)
      PROVE  WalkInv'
  BY <1>1, <1>2, <1>3, AroundWalk DEF Works
<1>4. CASE People
  <2>1. PICK s \in Schedules : \E q : Edits(s, q) /\ EditEffect(s, q)
    BY <1>4, PeopleEffect
  <2>2. PICK q : Edits(s, q) /\ EditEffect(s, q)
    BY <2>1
  <2>3. draft = store /\ draft' = [draft EXCEPT ![s] = q] /\ store' = draft' /\ lost' = lost
    BY <2>2 DEF Edits, Agree
  <2>4. WalkEffect(s, draft[s], q)
    <3>1. CASE SameWalk(store[s], q) /\ NoNewJob
      BY <2>3, <3>1 DEF WalkEffect
    <3>2. CASE Begins(q) /\ Create(s, "manual", 0, 0)
      BY <3>2, Widths DEF WalkEffect
    <3> QED
      BY <2>2, <3>1, <3>2 DEF EditEffect
  <2> QED
    BY <2>3, <2>4, RowWalk
<1>5. CASE World
  BY <1>5, WorldEffect, ForeignWalk
<1>6. CASE UNCHANGED vars
  BY <1>6, ForeignWalk DEF vars, NoNewJob
<1> QED
  BY <1>3, <1>4, <1>5, <1>6 DEF Next

LEMMA InitLocks == Init => Mutex /\ Agree
BY DEF Init, Mutex, Agree, Inside

LEMMA LockInvariance == Spec => [](TypeOK /\ Mutex /\ Agree)
<1>1. TypeOK /\ Mutex /\ Agree /\ [Next]_vars => (TypeOK /\ Mutex /\ Agree)'
  BY NextType, LockKept
<1> QED
  BY <1>1, InitType, InitLocks, PTL DEF Spec

(* A recipe's later step starts only after the step before it succeeded, and *)
(* nothing of the schedule starts between the two unless a pass was lost:    *)
(* for any number of schedulers and schedules, recipes of any length, and    *)
(* whatever edits, run_now, refusals, stops and crashes do meanwhile.        *)
THEOREM RecipesInOrder == Spec => []RecipeInOrder
<1>1. Init => WalkInv
  <2> SUFFICES ASSUME Init PROVE WalkInv
    OBVIOUS
  <2>1. \A s \in Schedules : draft[s] = NewRow /\ store[s] = NewRow /\ NewRow.recipe = 0
    BY DEF Init, NewRow
  <2>2. Ids = {}
    BY DEF Init, Ids
  <2> QED
    BY <2>1, <2>2 DEF WalkInv, WalksOn, Latest, Walking, RecipeInOrder
<1>2. TypeOK /\ TypeOK' /\ Mutex /\ Agree /\ WalkInv /\ [Next]_vars => WalkInv'
  BY WalkKept
<1>3. WalkInv => RecipeInOrder
  BY DEF WalkInv
<1> QED
  BY <1>1, <1>2, <1>3, LockInvariance, PTL DEF Spec
-----------------------------------------------------------------------------
(* How many jobs the events of a schedule started.                           *)

LEMMA OneType == \A b : One(b) \in {0, 1}
BY DEF One

LEMMA FirstsFinite ==
  ASSUME TypeOK, NEW s
  PROVE  IsFiniteSet(Firsts(s)) /\ Fired(s) \in Nat /\ IsFiniteSet(Finished)
<1>1. last \in Nat /\ Firsts(s) \subseteq 1..last /\ Finished \subseteq 1..last
  BY Widths DEF TypeOK, Firsts, Finished, Ids
<1>2. IsFiniteSet(1..last)
  BY <1>1, FS_Interval
<1> QED
  BY <1>1, <1>2, FS_Subset, FS_CardinalityType DEF Fired

LEMMA QuietFirsts ==
  ASSUME TypeOK, NEW s,
         NoNewJob \/ (\E j \in Jobs : JobEnds(j))
           \/ \E by, what, slot, step : what # "first" /\ Create(by, what, slot, step)
  PROVE  Fired(s)' = Fired(s)
<1>1. CASE NoNewJob
  BY <1>1 DEF NoNewJob, Fired, Firsts, Ids
<1>2. CASE \E j \in Jobs : JobEnds(j)
  <2>1. PICK e \in Jobs : JobEnds(e)
    BY <1>2
  <2>2. PICK outcome \in {"succeeded", "failed"} : job' = [job EXCEPT ![e].state = outcome]
    BY <2>1 DEF JobEnds
  <2>3. last' = last /\ \A j \in Jobs : job'[j].by = job[j].by /\ job'[j].what = job[j].what
    BY <2>1, <2>2 DEF TypeOK, Job, JobEnds
  <2>4. 1..last \subseteq Jobs
    BY Widths DEF TypeOK, Jobs
  <2> QED
    BY <2>3, <2>4 DEF Fired, Firsts, Ids
<1>3. CASE \E by, what, slot, step : what # "first" /\ Create(by, what, slot, step)
  <2>1. PICK by, what, slot, step : what # "first" /\ Create(by, what, slot, step)
    BY <1>3
  <2>2. Ids' = Ids \cup {last + 1} /\ job'[last + 1].what # "first" /\ \A j \in Ids : job'[j] = job[j]
    BY <2>1, CreateFacts
  <2>3. Firsts(s)' = Firsts(s)
    BY <2>2 DEF Firsts
  <2> QED
    BY <2>3 DEF Fired
<1> QED
  BY <1>1, <1>2, <1>3

LEMMA OneMoreFirst ==
  ASSUME TypeOK, NEW s \in Schedules, NEW slot, Create(s, "first", slot, 0)
  PROVE  Fired(s)' = Fired(s) + 1 /\ \A t : t # s => Fired(t)' = Fired(t)
<1>1. /\ Ids' = Ids \cup {last + 1} /\ last + 1 \notin Ids
      /\ job'[last + 1].by = s /\ job'[last + 1].what = "first" /\ \A j \in Ids : job'[j] = job[j]
  BY CreateFacts
<1>2. Firsts(s)' = Firsts(s) \cup {last + 1} /\ last + 1 \notin Firsts(s)
  BY <1>1 DEF Firsts
<1>3. \A t : t # s => Firsts(t)' = Firsts(t)
  BY <1>1 DEF Firsts
<1>4. IsFiniteSet(Firsts(s))
  BY FirstsFinite
<1>5. Cardinality(Firsts(s)') = Cardinality(Firsts(s)) + 1
  BY <1>2, <1>4, FS_AddElement
<1> QED
  BY <1>3, <1>5 DEF Fired

LEMMA FinishedStays ==
  ASSUME TypeOK, Firm
  PROVE  Finished \subseteq Finished'
<1>1. last \in Nat /\ Ids \subseteq Ids'
  BY Widths DEF TypeOK, Firm, Ids
<1> QED
  BY <1>1 DEF Finished, Firm

\* Looking for an event sets at most one start down, for at least one finished
\* job that was not used up before.
LEMMA NoticedEvent ==
  ASSUME TypeOK, ConsumedInv, NEW p \in Schedulers, NEW s \in Schedules
  PROVE  LET r == draft[s]
             n == Noticed(p, s)
         IN  /\ n.consumed \subseteq Finished
             /\ Waits(s) => One(n.pending) + Cardinality(r.consumed) <= Cardinality(n.consumed) + One(r.pending)
             /\ Cardinality(n.consumed) \in Nat /\ Cardinality(r.consumed) \in Nat
<1> DEFINE r == draft[s]
           n == Noticed(p, s)
           hits == Hits(p, s, r)
<1>1. r \in Row /\ n \in Row
  BY DraftTypes
<1>2. hits \subseteq Finished /\ hits \cap r.consumed = {} /\ r.consumed \subseteq Finished
  BY DEF Hits, ConsumedInv
<1>3. IsFiniteSet(hits) /\ IsFiniteSet(r.consumed)
  BY <1>2, FirstsFinite, FS_Subset
<1>4. n = IF hits # {} \/ (Kind[s] = "on_start" /\ Started(p))
          THEN [r EXCEPT !.pending = TRUE, !.consumed = r.consumed \cup hits] ELSE r
  BY DEF Noticed
<1>5. Cardinality(hits) \in Nat /\ Cardinality(r.consumed) \in Nat
  BY <1>3, FS_CardinalityType
<1> HIDE DEF hits, r, n
<1>6. CASE n = r
  BY <1>2, <1>5, <1>6, OneType DEF r, n
<1>7. CASE n # r
  <2>1. n.pending = TRUE /\ n.consumed = r.consumed \cup hits
    BY <1>1, <1>4, <1>7 DEF Row
  <2>2. Cardinality(n.consumed) = Cardinality(r.consumed) + Cardinality(hits)
    <3>1. Cardinality(r.consumed \cup hits) = Cardinality(r.consumed) + Cardinality(hits) - Cardinality(r.consumed \cap hits)
      BY <1>3, FS_Union
    <3>2. Cardinality(r.consumed \cap hits) = 0
      BY <1>2, FS_EmptySet
    <3> QED
      BY <1>5, <2>1, <3>1, <3>2
  <2>3. Waits(s) => hits # {}
    BY <1>4, <1>7 DEF Waits
  <2>4. Waits(s) => Cardinality(hits) > 0
    BY <1>3, <1>5, <2>3, FS_EmptySet
  <2>5. One(n.pending) = 1
    BY <2>1 DEF One
  <2> QED
    BY <1>2, <1>5, <2>1, <2>2, <2>4, <2>5, OneType DEF r, n
<1> QED
  BY <1>6, <1>7
LEMMA RowEvents ==
  ASSUME TypeOK, TypeOK', ConsumedInv, DraftEvents, StoreEvents, Firm,
         UNCHANGED <<sample, lost>>, NEW s \in Schedules, NEW q,
         draft' = [draft EXCEPT ![s] = q], store' \in {store, draft'},
         q.consumed \subseteq Finished,
         \A t \in Schedules : t # s => Fired(t)' = Fired(t),
         Waits(s) => /\ Fired(s)' + One(q.pending) <= Cardinality(q.consumed) + lost
                     /\ Fired(s)' + One(store[s].pending) <= Cardinality(store[s].consumed) + lost + 1
  PROVE  ConsumedInv' /\ DraftEvents' /\ StoreEvents'
<1>1. draft'[s] = q /\ \A t \in Schedules : t # s => draft'[t] = draft[t]
  BY DEF TypeOK
<1>2. \A t \in Schedules : draft'[t].consumed \subseteq Finished /\ store[t].consumed \subseteq Finished
  BY <1>1 DEF ConsumedInv
<1>3. Finished \subseteq Finished'
  BY FinishedStays
<1>4. ConsumedInv'
  <2>1. CASE store' = store
    BY <1>2, <1>3, <2>1 DEF ConsumedInv
  <2>2. CASE store' = draft'
    BY <1>2, <1>3, <2>2 DEF ConsumedInv
  <2> QED
    BY <2>1, <2>2
<1>5. DraftEvents'
  BY <1>1 DEF DraftEvents, Waits, One
<1>6. StoreEvents'
  <2>1. CASE store' = store
    BY <2>1 DEF StoreEvents, Waits, One
  <2>2. CASE store' = draft'
    <3>1. ASSUME NEW t \in Schedules, Waits(t)
          PROVE  Fired(t)' + One(draft'[t].pending) <= Cardinality(draft'[t].consumed) + lost
      BY <1>5, <3>1 DEF DraftEvents, Waits, One
    <3>2. ASSUME NEW t \in Schedules
          PROVE  Fired(t)' \in Nat /\ Cardinality(draft'[t].consumed) \in Nat /\ lost \in Nat
      <4>1. IsFiniteSet(draft'[t].consumed)
        BY <1>2, FirstsFinite, FS_Subset
      <4>2. Fired(t) \in Nat /\ Fired(t)' \in Nat
        <5>1. last' \in Nat /\ Firsts(t)' \subseteq 1..last'
          BY Widths DEF TypeOK, Firsts, Ids
        <5>2. IsFiniteSet(1..last')
          BY <5>1, FS_Interval
        <5>3. IsFiniteSet(Firsts(t)')
          BY <5>1, <5>2, FS_Subset
        <5> QED
          BY <5>3, FirstsFinite, FS_CardinalityType DEF Fired
      <4> QED
        BY <4>1, <4>2, FS_CardinalityType, Widths DEF TypeOK
    <3> QED
      BY <2>2, <3>1, <3>2, OneType DEF StoreEvents, Waits, One
  <2> QED
    BY <2>1, <2>2
<1> QED
  BY <1>4, <1>5, <1>6

LEMMA FireEvents ==
  ASSUME TypeOK, TypeOK', EventInv, NEW p \in Schedulers, FireLoop(p)
  PROVE  ConsumedInv' /\ DraftEvents' /\ StoreEvents' /\ LeftInv'
<1>1. PICK s \in Schedules : Considers(p, s) /\ \E q : FireEffect(p, s, q) /\ draft' = [draft EXCEPT ![s] = q]
  BY FireLoopEffect DEF FireLoop
<1>2. PICK q : FireEffect(p, s, q) /\ draft' = [draft EXCEPT ![s] = q]
  BY <1>1
<1> DEFINE r == draft[s]
           n == Noticed(p, s)
<1>3. store[s] = r /\ UNCHANGED <<sample, lost, store, at>> /\ left' = left \ {s}
  BY <1>1 DEF Considers, EventInv, LeftInv
<1>4. LeftInv'
  BY <1>2, <1>3 DEF EventInv, LeftInv, TypeOK
<1>5. /\ n.consumed \subseteq Finished /\ r.consumed \subseteq Finished
      /\ Waits(s) => One(n.pending) + Cardinality(r.consumed) <= Cardinality(n.consumed) + One(r.pending)
      /\ Cardinality(n.consumed) \in Nat /\ Cardinality(r.consumed) \in Nat
  BY NoticedEvent DEF EventInv, ConsumedInv
<1>6. Fired(s) \in Nat /\ lost \in Nat
  BY FirstsFinite, Widths DEF TypeOK
<1>7. Waits(s) => Fired(s) + One(r.pending) <= Cardinality(r.consumed) + lost
  BY DEF EventInv, DraftEvents
<1>8. n.pending \in BOOLEAN /\ q.pending \in BOOLEAN
  <2>1. draft'[s] = q
    BY <1>2 DEF TypeOK
  <2>2. q \in Row /\ n \in Row
    BY <2>1, DraftTypes DEF TypeOK
  <2> QED
    BY <2>2 DEF Row
<1> HIDE DEF r, n
<1>9. CASE q = r /\ NoNewJob
  <2>1. Firm /\ \A t \in Schedules : Fired(t)' = Fired(t)
    BY <1>3, <1>6, <1>9, QuietFirm, QuietFirsts
  <2>2. Waits(s) => Fired(s)' + One(r.pending) <= Cardinality(r.consumed) + lost + 1
    BY <1>5, <1>6, <1>7, <2>1, OneType
  <2> QED
    BY <1>2, <1>3, <1>4, <1>5, <1>7, <1>9, <2>1, <2>2, RowEvents DEF EventInv
<1>10. CASE SameEvent(n, q) /\ (NoNewJob \/ Create(s, "start", 0, 0))
  <2>1. Firm /\ \A t \in Schedules : Fired(t)' = Fired(t)
    BY <1>3, <1>6, <1>10, QuietFirm, CreateFirm, QuietFirsts
  <2>2. q.consumed = n.consumed /\ One(q.pending) <= One(n.pending)
    BY <1>8, <1>10 DEF SameEvent, One
  <2>3. Waits(s) => Fired(s)' + One(q.pending) <= Cardinality(q.consumed) + lost
    BY <1>5, <1>6, <1>7, <2>1, <2>2, OneType
  <2>4. Waits(s) => Fired(s)' + One(r.pending) <= Cardinality(r.consumed) + lost + 1
    BY <1>5, <1>6, <1>7, <2>1, OneType
  <2> QED
    BY <1>2, <1>3, <1>4, <1>5, <2>1, <2>2, <2>3, <2>4, RowEvents DEF EventInv
<1>11. CASE /\ SameEvent(n, q) /\ ~q.pending /\ (~Timed(s) => n.pending)
            /\ \E slot \in 0..(Horizon + 1) : Create(s, "first", slot, 0)
  <2>1. Firm /\ Fired(s)' = Fired(s) + 1 /\ \A t \in Schedules : t # s => Fired(t)' = Fired(t)
    BY <1>3, <1>11, CreateFirm, OneMoreFirst
  <2>2. q.consumed = n.consumed /\ One(q.pending) = 0 /\ (Waits(s) => One(n.pending) = 1)
    BY <1>11 DEF SameEvent, One, Waits, Timed
  <2>3. Waits(s) => Fired(s)' + One(q.pending) <= Cardinality(q.consumed) + lost
    BY <1>5, <1>6, <1>7, <2>1, <2>2, OneType
  <2>4. Waits(s) => Fired(s)' + One(r.pending) <= Cardinality(r.consumed) + lost + 1
    BY <1>5, <1>6, <1>7, <2>1, OneType
  <2> QED
    BY <1>2, <1>3, <1>4, <1>5, <2>1, <2>2, <2>3, <2>4, RowEvents DEF EventInv
<1> QED
  BY <1>2, <1>9, <1>10, <1>11 DEF FireEffect, r, n

LEMMA OutcomeEvents ==
  ASSUME TypeOK, TypeOK', EventInv, NEW p \in Schedulers, OutcomeLoop(p)
  PROVE  ConsumedInv' /\ DraftEvents' /\ StoreEvents' /\ LeftInv'
<1>1. PICK s \in Schedules : \E q : Reviews(p, s) /\ OutcomeEffect(s, q) /\ draft' = [draft EXCEPT ![s] = q]
  BY OutcomeLoopEffect
<1>2. PICK q : Reviews(p, s) /\ OutcomeEffect(s, q) /\ draft' = [draft EXCEPT ![s] = q]
  BY <1>1
<1>3. UNCHANGED <<sample, lost, store, at>> /\ left' = left \ {s}
  BY <1>2 DEF Reviews
<1>4. LeftInv'
  BY <1>2, <1>3 DEF EventInv, LeftInv, TypeOK
<1>5. Firm /\ \A t \in Schedules : Fired(t)' = Fired(t)
  <2>1. NoNewJob \/ Create(s, "next", 0, q.step)
    BY <1>2 DEF OutcomeEffect
  <2> QED
    BY <1>3, <2>1, QuietFirm, CreateFirm, QuietFirsts, Widths DEF TypeOK
<1>6. Fired(s) \in Nat /\ lost \in Nat
  BY FirstsFinite, Widths DEF TypeOK
<1>7. q.pending \in BOOLEAN /\ draft[s].pending \in BOOLEAN
  <2>1. draft'[s] = q
    BY <1>2 DEF TypeOK
  <2>2. q \in Row /\ draft[s] \in Row
    BY <2>1 DEF TypeOK
  <2> QED
    BY <2>2 DEF Row
<1>8. q.consumed = draft[s].consumed /\ One(q.pending) <= One(draft[s].pending)
  BY <1>2, <1>7 DEF OutcomeEffect, SameEvent, One
<1>9. q.consumed \subseteq Finished
  BY <1>8 DEF EventInv, ConsumedInv
<1>10. Cardinality(q.consumed) \in Nat
  BY <1>9, FirstsFinite, FS_Subset, FS_CardinalityType
<1>11. Waits(s) => /\ Fired(s)' + One(q.pending) <= Cardinality(q.consumed) + lost
                   /\ Fired(s)' + One(store[s].pending) <= Cardinality(store[s].consumed) + lost + 1
  BY <1>5, <1>6, <1>8, <1>10, OneType DEF EventInv, DraftEvents, StoreEvents
<1> QED
  BY <1>2, <1>3, <1>4, <1>5, <1>9, <1>11, RowEvents DEF EventInv

LEMMA AroundEvents ==
  ASSUME TypeOK, TypeOK', EventInv, NEW p \in Schedulers,
         Sample(p) \/ Lock(p) \/ AllConsidered(p) \/ Save(p) \/ Crash(p) \/ TickError(p)
  PROVE  ConsumedInv' /\ DraftEvents' /\ StoreEvents' /\ LeftInv'
<1>1. /\ NoNewJob /\ UNCHANGED world /\ Finished' = Finished
      /\ \A q \in Schedulers : q # p => at'[q] = at[q] /\ sample'[q] = sample[q]
  BY AroundEffect DEF NoNewJob, Finished, Ids
<1>2. \A s \in Schedules : Fired(s)' = Fired(s) /\ Fired(s) \in Nat
  BY <1>1, QuietFirsts, FirstsFinite
<1>3. \A s \in Schedules : Cardinality(draft[s].consumed) \in Nat /\ Cardinality(store[s].consumed) \in Nat
  <2>1. \A s \in Schedules : draft[s].consumed \subseteq Finished /\ store[s].consumed \subseteq Finished
    BY DEF EventInv, ConsumedInv
  <2> QED
    BY <2>1, FirstsFinite, FS_Subset, FS_CardinalityType
<1>4. lost \in Nat /\ store' \in {store, draft} /\ draft' \in {store, draft}
  BY AroundEffect, Widths DEF Dropped, TypeOK
<1>5. \A s \in Schedules : draft'[s].consumed \subseteq Finished /\ store'[s].consumed \subseteq Finished
  <2>1. \A s \in Schedules : draft[s].consumed \subseteq Finished /\ store[s].consumed \subseteq Finished
    BY DEF EventInv, ConsumedInv
  <2> QED
    BY <1>4, <2>1
<1>6. CASE Sample(p)
  <2>1. UNCHANGED <<store, draft, left, lost>> /\ at'[p] = "sampled" /\ sample'[p].fresh \subseteq Finished
    <3>1. PICK fresh \in IF seen[p] = Cold THEN SUBSET Finished ELSE {Finished \ seen[p]} :
            sample' = [sample EXCEPT ![p] = [now |-> minute, up |-> up, finished |-> Finished, fresh |-> fresh]]
      BY <1>6 DEF Sample
    <3>2. fresh \subseteq Finished
      OBVIOUS
    <3> QED
      BY <1>6, <3>1, <3>2 DEF Sample, GoesTo, TypeOK
  <2>2. DraftEvents' /\ StoreEvents'
    BY <1>2, <2>1 DEF EventInv, DraftEvents, StoreEvents, Waits, One
  <2>3. LeftInv'
    BY <1>1, <2>1 DEF EventInv, LeftInv
  <2>4. ConsumedInv'
    BY <1>1, <1>5, <2>1 DEF EventInv, ConsumedInv
  <2> QED
    BY <2>2, <2>3, <2>4
<1>7. CASE Lock(p) \/ AllConsidered(p)
  <2>1. UNCHANGED <<store, lost, sample>> /\ draft' = draft
    BY <1>7 DEF Lock, AllConsidered, EventInv, Agree
  <2>2. DraftEvents' /\ StoreEvents'
    BY <1>2, <2>1 DEF EventInv, DraftEvents, StoreEvents, Waits, One
  <2>3. LeftInv'
    <3>1. CASE Lock(p)
      BY <2>1, <3>1 DEF Lock, LeftInv
    <3>2. CASE AllConsidered(p)
      BY <1>1, <3>2 DEF AllConsidered, LeftInv, EventInv, Mutex, Inside, GoesTo, TypeOK
    <3> QED
      BY <1>7, <3>1, <3>2
  <2>4. ConsumedInv'
    BY <1>1, <1>5, <2>1 DEF EventInv, ConsumedInv
  <2> QED
    BY <2>2, <2>3, <2>4
<1>8. CASE Save(p)
  <2>1. store' = draft /\ UNCHANGED <<draft, left, lost>> /\ sample'[p].fresh = {}
    BY <1>8 DEF Save, NoSample, TypeOK
  <2>2. DraftEvents'
    BY <1>2, <2>1 DEF EventInv, DraftEvents, Waits, One
  <2>3. StoreEvents'
    <3>1. \A s \in Schedules : Waits(s) => Fired(s) + One(draft[s].pending) <= Cardinality(draft[s].consumed) + lost + 1
      BY <1>2, <1>3, <1>4, OneType DEF EventInv, DraftEvents
    <3> QED
      BY <1>2, <2>1, <3>1 DEF StoreEvents, Waits, One
  <2>4. LeftInv' /\ ConsumedInv'
    BY <1>1, <1>5, <2>1 DEF EventInv, ConsumedInv, LeftInv
  <2> QED
    BY <2>2, <2>3, <2>4
<1>9. CASE Dropped(p)
  <2>1. store' = store /\ sample'[p].fresh = {} /\ at'[p] = "rest"
    BY <1>9 DEF Dropped, NoSample, TypeOK, GoesTo
  <2>2. ConsumedInv'
    BY <1>1, <1>5, <2>1 DEF EventInv, ConsumedInv
  <2>3. CASE at[p] \in Inside
    <3>1. draft' = store /\ lost' = lost + 1
      BY <1>9, <2>3 DEF Dropped
    <3>2. LeftInv'
      BY <2>1, <3>1 DEF LeftInv
    <3>3. ASSUME NEW s \in Schedules, Waits(s)
          PROVE  /\ Fired(s) + One(store[s].pending) <= Cardinality(store[s].consumed) + (lost + 1)
                 /\ Fired(s) + One(store[s].pending) <= Cardinality(store[s].consumed) + (lost + 1) + 1
      BY <1>2, <1>3, <1>4, <3>3, OneType DEF EventInv, StoreEvents
    <3>4. DraftEvents' /\ StoreEvents'
      BY <1>2, <2>1, <3>1, <3>3 DEF DraftEvents, StoreEvents, Waits, One
    <3> QED
      BY <2>2, <3>2, <3>4
  <2>4. CASE at[p] \notin Inside
    <3>1. UNCHANGED <<draft, lost, left>>
      BY <1>9, <2>4 DEF Dropped
    <3>2. LeftInv'
      BY <1>1, <2>1, <3>1 DEF EventInv, LeftInv
    <3>3. DraftEvents' /\ StoreEvents'
      BY <1>2, <2>1, <3>1 DEF EventInv, DraftEvents, StoreEvents, Waits, One
    <3> QED
      BY <2>2, <3>2, <3>3
  <2> QED
    BY <2>3, <2>4
<1> QED
  BY <1>6, <1>7, <1>8, <1>9 DEF Crash, TickError

LEMMA PeopleEvents ==
  ASSUME TypeOK, TypeOK', EventInv, People
  PROVE  ConsumedInv' /\ DraftEvents' /\ StoreEvents' /\ LeftInv'
<1>1. PICK s \in Schedules : \E q : Edits(s, q) /\ EditEffect(s, q)
  BY PeopleEffect
<1>2. PICK q : Edits(s, q) /\ EditEffect(s, q)
  BY <1>1
<1>3. draft = store /\ draft' = [draft EXCEPT ![s] = q] /\ store' = draft' /\ UNCHANGED <<lost, sample>>
  BY <1>2 DEF Edits, EventInv, Agree
<1>4. LeftInv'
  BY <1>3 DEF LeftInv
<1>5. Firm /\ \A t \in Schedules : Fired(t)' = Fired(t)
  <2>1. NoNewJob \/ Create(s, "manual", 0, 0)
    BY <1>2 DEF EditEffect
  <2> QED
    BY <1>3, <2>1, QuietFirm, CreateFirm, QuietFirsts, Widths DEF TypeOK
<1>6. Fired(s) \in Nat /\ lost \in Nat
  BY FirstsFinite, Widths DEF TypeOK
<1>7. q.pending \in BOOLEAN /\ draft[s].pending \in BOOLEAN
  <2>1. draft'[s] = q
    BY <1>3 DEF TypeOK
  <2>2. q \in Row /\ draft[s] \in Row
    BY <2>1 DEF TypeOK
  <2> QED
    BY <2>2 DEF Row
<1>8. q.consumed = draft[s].consumed /\ One(q.pending) <= One(draft[s].pending)
  BY <1>2, <1>3, <1>7 DEF EditEffect, SameEvent, One
<1>9. q.consumed \subseteq Finished
  BY <1>8 DEF EventInv, ConsumedInv
<1>10. Cardinality(q.consumed) \in Nat
  BY <1>9, FirstsFinite, FS_Subset, FS_CardinalityType
<1>11. Waits(s) => /\ Fired(s)' + One(q.pending) <= Cardinality(q.consumed) + lost
                   /\ Fired(s)' + One(store[s].pending) <= Cardinality(store[s].consumed) + lost + 1
  BY <1>5, <1>6, <1>8, <1>10, OneType DEF EventInv, DraftEvents, StoreEvents
<1> QED
  BY <1>3, <1>4, <1>5, <1>9, <1>11, RowEvents DEF EventInv

LEMMA WorldEvents ==
  ASSUME TypeOK, TypeOK', EventInv, World \/ UNCHANGED vars
  PROVE  ConsumedInv' /\ DraftEvents' /\ StoreEvents' /\ LeftInv'
<1>1. /\ UNCHANGED <<store, at, sample, draft, left, lost>>
      /\ NoNewJob \/ Create("people", "other", 0, 0) \/ \E j \in Jobs : JobEnds(j)
  BY WorldEffect DEF vars, NoNewJob
<1>2. Firm /\ \A s \in Schedules : Fired(s)' = Fired(s)
  BY <1>1, QuietFirm, CreateFirm, EndsFirm, QuietFirsts, Widths DEF TypeOK
<1>3. Finished \subseteq Finished'
  BY <1>2, FinishedStays
<1>4. ConsumedInv'
  BY <1>1, <1>3 DEF EventInv, ConsumedInv
<1> QED
  BY <1>1, <1>2, <1>4 DEF EventInv, LeftInv, DraftEvents, StoreEvents, Waits, One

LEMMA EventInvariance == Spec => []EventInv
<1>1. Init => EventInv
  <2> SUFFICES ASSUME Init PROVE EventInv
    OBVIOUS
  <2>1. \A s : Firsts(s) = {}
    BY DEF Init, Firsts, Ids
  <2>2. \A s : Fired(s) = 0 /\ lost = 0 /\ Cardinality({}) = 0
    BY <2>1, FS_EmptySet DEF Init, Fired
  <2>3. \A s \in Schedules : draft[s] = NewRow /\ store[s] = NewRow
    BY DEF Init
  <2>4. ConsumedInv
    BY <2>3 DEF Init, ConsumedInv, NewRow, NoSample
  <2>5. DraftEvents /\ StoreEvents
    BY <2>2, <2>3 DEF DraftEvents, StoreEvents, NewRow, One
  <2>6. LeftInv
    BY DEF Init, LeftInv
  <2> QED
    BY <2>4, <2>5, <2>6, InitLocks DEF EventInv
<1>2. TypeOK /\ TypeOK' /\ EventInv /\ [Next]_vars => EventInv'
  <2> SUFFICES ASSUME TypeOK, TypeOK', EventInv, [Next]_vars PROVE EventInv'
    OBVIOUS
  <2>1. ConsumedInv' /\ DraftEvents' /\ StoreEvents' /\ LeftInv'
    BY FireEvents, OutcomeEvents, AroundEvents, PeopleEvents, WorldEvents DEF Next, Works
  <2> QED
    BY <2>1, LockKept DEF EventInv
<1> QED
  BY <1>1, <1>2, TypeCorrect, PTL DEF Spec

(* An after_job schedule starts at most one job for each job it waits for,   *)
(* and one more for each pass that was lost, for any number of schedulers:   *)
(* a pass offers a finished job again after a crash, and the row remembers   *)
(* that it was used up.                                                      *)
THEOREM AfterJobsOnce == Spec => []AfterJobOnce
<1>1. TypeOK /\ EventInv => AfterJobOnce
  <2> SUFFICES ASSUME TypeOK, EventInv, NEW s \in Schedules, Kind[s] = "after_job"
               PROVE  Cardinality(Firsts(s)) <= Cardinality(Finished) + lost
    BY DEF AfterJobOnce
  <2>1. draft[s].consumed \subseteq Finished /\ IsFiniteSet(Finished) /\ Fired(s) \in Nat
    BY FirstsFinite DEF EventInv, ConsumedInv
  <2>2. /\ Cardinality(draft[s].consumed) <= Cardinality(Finished)
        /\ Cardinality(draft[s].consumed) \in Nat /\ Cardinality(Finished) \in Nat
    BY <2>1, FS_Subset, FS_CardinalityType
  <2>3. Fired(s) + One(draft[s].pending) <= Cardinality(draft[s].consumed) + lost /\ lost \in Nat
    BY Widths DEF EventInv, DraftEvents, Waits, TypeOK
  <2> QED
    BY <2>1, <2>2, <2>3, OneType DEF Fired
<1> QED
  BY <1>1, EventInvariance, TypeCorrect, PTL

-----------------------------------------------------------------------------
(* Coming up starts one job.                                                 *)

\* The only scheduler's view of a coming up, told apart by where it is.
LEMMA CreditFacts ==
  ASSUME TypeOK, NEW p \in Schedulers, NEW s
  PROVE  /\ at[p] = "rest" => (Credit(p, s) <=> known = "down" /\ up)
         /\ at[p] = "sampled" => (Credit(p, s) <=> IF sample[p].up THEN known = "down" ELSE up)
         /\ at[p] = "fire" => (Credit(p, s) <=> IF sample[p].up THEN known = "down" /\ s \in left ELSE up)
         /\ at[p] = "outcome" => (Credit(p, s) <=> ~sample[p].up /\ up)
         /\ Credit(p, s) \in BOOLEAN
<1>1. at[p] \in {"rest", "sampled", "fire", "outcome"} /\ sample[p].up \in BOOLEAN /\ up \in BOOLEAN
  BY DEF TypeOK
<1>2. CASE at[p] = "rest"
  BY <1>1, <1>2 DEF Credit
<1>3. CASE at[p] # "rest"
  BY <1>1, <1>3 DEF Credit
<1> QED
  BY <1>2, <1>3

\* A row whose event count does not grow, in a pass whose credit does not.
StartsKept(p, s) ==
  /\ Fired(s)' + One(draft'[s].pending) + One(Credit(p, s)') <= boots' + lost'
  /\ at'[p] \in Inside =>
       Fired(s)' + One(store'[s].pending) + One(known' = "down" /\ up') <= boots' + lost' + 1

LEMMA StartNumbers ==
  ASSUME TypeOK, NEW p \in Schedulers, NEW s \in Schedules
  PROVE  /\ Fired(s) \in Nat /\ boots \in Nat /\ lost \in Nat
         /\ draft[s].pending \in BOOLEAN /\ store[s].pending \in BOOLEAN
         /\ up \in BOOLEAN /\ sample[p].up \in BOOLEAN
BY FirstsFinite, Widths DEF TypeOK, Row

LEMMA FireStarts ==
  ASSUME TypeOK, TypeOK', StartInv, NEW p \in Schedulers, Schedulers = {p}, FireLoop(p),
         NEW t \in Schedules, Kind[t] = "on_start"
  PROVE  StartsKept(p, t)
<1>1. PICK s \in Schedules : Considers(p, s) /\ \E q : FireEffect(p, s, q) /\ draft' = [draft EXCEPT ![s] = q]
  BY FireLoopEffect DEF FireLoop
<1>2. PICK q : FireEffect(p, s, q) /\ draft' = [draft EXCEPT ![s] = q]
  BY <1>1
<1>3. /\ store[s] = draft[s] /\ UNCHANGED <<known, up, boots, sample, lost, store, at>> /\ at[p] = "fire"
      /\ left' = left \ {s} /\ s \in left
  BY <1>1 DEF Considers, StartInv, LeftInv, world
<1>4. /\ Fired(t) + One(draft[t].pending) + One(Credit(p, t)) <= boots + lost
      /\ Fired(t) + One(store[t].pending) + One(known = "down" /\ up) <= boots + lost + 1
  BY <1>3 DEF StartInv, DraftStarts, StoreStarts, Inside
<1>5. /\ Fired(t) \in Nat /\ boots \in Nat /\ lost \in Nat
      /\ draft[t].pending \in BOOLEAN /\ store[t].pending \in BOOLEAN
      /\ up \in BOOLEAN /\ sample[p].up \in BOOLEAN
  BY StartNumbers
<1>6. /\ Credit(p, t) <=> IF sample[p].up THEN known = "down" /\ t \in left ELSE up
      /\ Credit(p, t)' <=> IF sample[p].up THEN known = "down" /\ t \in left' ELSE up
  BY <1>3, CreditFacts DEF Credit
<1>7. CASE t # s
  <2>1. Fired(t)' = Fired(t)
    BY <1>2, <1>7, QuietFirsts, OneMoreFirst DEF FireEffect
  <2>2. draft'[t] = draft[t] /\ (Credit(p, t)' <=> Credit(p, t))
    BY <1>2, <1>3, <1>6, <1>7 DEF TypeOK
  <2> QED
    BY <1>3, <1>4, <2>1, <2>2 DEF StartsKept, One
<1>8. CASE t = s
  <2> DEFINE r == draft[t]
             n == Noticed(p, t)
  <2>1. draft'[t] = q /\ q.pending \in BOOLEAN
    BY <1>2, <1>8 DEF TypeOK, Row
  <2>2. ~Timed(t) /\ Hits(p, t, r) = {}
    BY DEF Timed, Hits
  <2>3. n = IF Started(p) THEN [r EXCEPT !.pending = TRUE, !.consumed = @ \cup {}] ELSE r
    BY <2>2 DEF Noticed
  <2>4. r \in Row
    BY DEF TypeOK
  <2>5. IF Started(p) THEN n.pending = TRUE ELSE n = r
    BY <2>3, <2>4 DEF Row
  <2>6. Started(p) <=> known = "down" /\ sample[p].up
    BY DEF Started
  <2>7. Credit(p, t)' <=> ~sample[p].up /\ up
    BY <1>3, <1>6, <1>8
  <2> HIDE DEF r, n
  <2>8. One(n.pending) + One(Credit(p, t)') <= One(r.pending) + One(Credit(p, t))
    <3>1. CASE Started(p)
      BY <1>3, <1>5, <1>6, <1>8, <2>5, <2>6, <2>7, <3>1 DEF One
    <3>2. CASE ~Started(p)
      BY <1>3, <1>5, <1>6, <1>8, <2>5, <2>6, <2>7, <3>2 DEF One, r
    <3> QED
      BY <3>1, <3>2
  <2>9. Fired(t) + One(n.pending) + One(Credit(p, t)') <= boots + lost
    BY <1>4, <1>5, <2>8, OneType DEF r
  <2>10. One(known = "down" /\ up) <= One(Credit(p, t))
    BY <1>3, <1>5, <1>6, <1>8 DEF One
  <2>11. Fired(t) + 1 + One(store[t].pending) + One(known = "down" /\ up) <= boots + lost + 1
    BY <1>3, <1>4, <1>5, <1>8, <2>10, OneType
  <2>12. CASE q = r /\ NoNewJob
    <3>1. Fired(t)' = Fired(t) /\ Fired(t) + One(q.pending) + One(Credit(p, t)') <= boots + lost
      <4>1. One(Credit(p, t)') <= One(Credit(p, t))
        BY <1>3, <1>5, <1>6, <1>8, <2>7 DEF One
      <4> QED
        BY <1>4, <1>5, <2>12, <4>1, QuietFirsts, OneType DEF r
    <3> QED
      BY <1>3, <1>4, <2>1, <3>1 DEF StartsKept, One
  <2>13. CASE SameEvent(n, q) /\ (NoNewJob \/ Create(t, "start", 0, 0))
    <3>1. Fired(t)' = Fired(t) /\ One(q.pending) <= One(n.pending)
      <4>1. n.pending \in BOOLEAN
        BY DraftTypes DEF Row, n
      <4> QED
        BY <2>1, <2>13, <4>1, QuietFirsts DEF SameEvent, One
    <3>2. Fired(t) + One(q.pending) + One(Credit(p, t)') <= boots + lost
      BY <1>5, <2>9, <3>1, OneType
    <3> QED
      BY <1>3, <1>4, <2>1, <3>1, <3>2 DEF StartsKept, One
  <2>14. CASE /\ SameEvent(n, q) /\ ~q.pending /\ n.pending
              /\ \E slot \in 0..(Horizon + 1) : Create(t, "first", slot, 0)
    <3>1. Fired(t)' = Fired(t) + 1 /\ One(q.pending) = 0 /\ One(n.pending) = 1
      BY <2>14, OneMoreFirst DEF One
    <3>2. Fired(t) + 1 + One(q.pending) + One(Credit(p, t)') <= boots + lost
      BY <1>5, <2>9, <3>1, OneType
    <3> QED
      BY <1>3, <2>1, <2>11, <3>1, <3>2 DEF StartsKept, One
  <2> QED
    BY <1>2, <1>8, <2>2, <2>12, <2>13, <2>14 DEF FireEffect, r, n
<1> QED
  BY <1>7, <1>8

LEMMA OtherStarts ==
  ASSUME TypeOK, TypeOK', StartInv, NEW p \in Schedulers, Schedulers = {p},
         OutcomeLoop(p) \/ People,
         NEW t \in Schedules, Kind[t] = "on_start"
  PROVE  StartsKept(p, t)
<1>1. /\ Fired(t) \in Nat /\ boots \in Nat /\ lost \in Nat
      /\ draft[t].pending \in BOOLEAN /\ store[t].pending \in BOOLEAN
      /\ up \in BOOLEAN /\ sample[p].up \in BOOLEAN
  BY StartNumbers
<1>2. /\ Fired(t) + One(draft[t].pending) + One(Credit(p, t)) <= boots + lost
      /\ at[p] \in Inside => Fired(t) + One(store[t].pending) + One(known = "down" /\ up) <= boots + lost + 1
  BY DEF StartInv, DraftStarts, StoreStarts
<1>3. draft'[t].pending \in BOOLEAN
  BY DEF TypeOK, Row
<1>4. ASSUME Fired(t)' = Fired(t), draft'[t].pending => draft[t].pending, UNCHANGED <<known, up, boots, sample, lost, at>>,
             at[p] = "fire" => left' = left, at[p] \in Inside => store' = store
      PROVE  StartsKept(p, t)
  <2>1. Credit(p, t)' <=> Credit(p, t)
    <3>1. at[p] \in {"rest", "sampled", "fire", "outcome"}
      BY DEF TypeOK
    <3> QED
      BY <1>4, <3>1 DEF Credit
  <2>2. One(draft'[t].pending) <= One(draft[t].pending) /\ One(Credit(p, t)') = One(Credit(p, t))
    BY <1>1, <1>3, <1>4, <2>1 DEF One
  <2>3. Fired(t)' + One(draft'[t].pending) + One(Credit(p, t)') <= boots' + lost'
    BY <1>1, <1>2, <1>4, <2>2, OneType
  <2> QED
    BY <1>2, <1>4, <2>3 DEF StartsKept
<1>5. CASE OutcomeLoop(p)
  <2>1. PICK s \in Schedules : \E q : Reviews(p, s) /\ OutcomeEffect(s, q) /\ draft' = [draft EXCEPT ![s] = q]
    BY <1>5, OutcomeLoopEffect
  <2>2. PICK q : Reviews(p, s) /\ OutcomeEffect(s, q) /\ draft' = [draft EXCEPT ![s] = q]
    BY <2>1
  <2>3. at[p] = "outcome" /\ UNCHANGED <<known, up, boots, sample, lost, store, at>>
    BY <2>2 DEF Reviews, world
  <2>4. draft'[t].pending => draft[t].pending
    BY <2>2 DEF OutcomeEffect, SameEvent, TypeOK
  <2>5. Fired(t)' = Fired(t)
    BY <2>2, QuietFirsts DEF OutcomeEffect
  <2> QED
    BY <1>4, <2>3, <2>4, <2>5
<1>6. CASE People
  <2>1. PICK s \in Schedules : \E q : Edits(s, q) /\ EditEffect(s, q)
    BY <1>6, PeopleEffect
  <2>2. PICK q : Edits(s, q) /\ EditEffect(s, q)
    BY <2>1
  <2>3. at[p] \notin Inside /\ draft = store /\ UNCHANGED <<known, up, boots, sample, lost, left, at>>
    BY <2>2 DEF Edits, world, StartInv, Agree, Unlocked
  <2>4. draft'[t].pending => draft[t].pending
    BY <2>2, <2>3 DEF Edits, EditEffect, SameEvent, TypeOK
  <2>5. Fired(t)' = Fired(t)
    BY <2>2, QuietFirsts DEF EditEffect
  <2> QED
    BY <1>4, <2>3, <2>4, <2>5
<1> QED
  BY <1>5, <1>6

LEMMA AroundStarts ==
  ASSUME TypeOK, TypeOK', StartInv, NEW p \in Schedulers, Schedulers = {p},
         Sample(p) \/ Lock(p) \/ AllConsidered(p) \/ Save(p) \/ Crash(p) \/ TickError(p),
         NEW t \in Schedules, Kind[t] = "on_start"
  PROVE  StartsKept(p, t)
<1>1. /\ Fired(t) \in Nat /\ boots \in Nat /\ lost \in Nat
      /\ draft[t].pending \in BOOLEAN /\ store[t].pending \in BOOLEAN
      /\ up \in BOOLEAN /\ sample[p].up \in BOOLEAN
  BY StartNumbers
<1>2. /\ Fired(t) + One(draft[t].pending) + One(Credit(p, t)) <= boots + lost
      /\ at[p] \in Inside => Fired(t) + One(store[t].pending) + One(known = "down" /\ up) <= boots + lost + 1
  BY DEF StartInv, DraftStarts, StoreStarts
<1>3. NoNewJob /\ UNCHANGED <<up, boots>>
  BY AroundEffect DEF world
<1>4. Fired(t)' = Fired(t)
  BY <1>3, QuietFirsts
<1>5. at[p] \notin Inside => draft = store
  BY DEF StartInv, Agree, Unlocked
<1>6. CASE Sample(p)
  <2>1. /\ at[p] = "rest" /\ at'[p] = "sampled" /\ UNCHANGED <<store, draft, known, lost>>
        /\ sample'[p].up = up
    BY <1>6 DEF Sample, GoesTo, TypeOK
  <2>2. Credit(p, t)' => Credit(p, t)
    BY <1>1, <1>3, <2>1 DEF Credit
  <2>3. One(Credit(p, t)') <= One(Credit(p, t))
    BY <2>2 DEF One
  <2>4. Fired(t)' + One(draft'[t].pending) + One(Credit(p, t)') <= boots' + lost'
    BY <1>1, <1>2, <1>3, <1>4, <2>1, <2>3, OneType
  <2> QED
    BY <2>1, <2>4 DEF StartsKept, Inside
<1>7. CASE Lock(p)
  <2>1. /\ at[p] = "sampled" /\ at'[p] = "fire" /\ UNCHANGED <<store, known, sample, lost>> /\ draft' = store
        /\ left' = Schedules
    BY <1>7 DEF Lock, GoesTo, TypeOK
  <2>2. Credit(p, t)' <=> Credit(p, t)
    BY <1>3, <2>1 DEF Credit
  <2>3. (known = "down" /\ up) => Credit(p, t)
    BY <2>1 DEF Credit
  <2>4. draft = store
    BY <1>5, <2>1 DEF Inside
  <2>5. One(Credit(p, t)') = One(Credit(p, t)) /\ One(known = "down" /\ up) <= One(Credit(p, t))
    BY <2>2, <2>3 DEF One
  <2>6. Fired(t)' + One(draft'[t].pending) + One(Credit(p, t)') <= boots' + lost'
    BY <1>1, <1>2, <1>3, <1>4, <2>1, <2>4, <2>5, OneType
  <2>7. Fired(t) + One(store[t].pending) + One(known = "down" /\ up) <= boots + lost + 1
    BY <1>1, <1>2, <2>4, <2>5, OneType
  <2>8. Fired(t)' + One(store'[t].pending) + One(known' = "down" /\ up') <= boots' + lost' + 1
    BY <1>3, <1>4, <2>1, <2>7
  <2> QED
    BY <2>6, <2>8 DEF StartsKept
<1>8. CASE AllConsidered(p)
  <2>1. /\ at[p] = "fire" /\ at'[p] = "outcome" /\ UNCHANGED <<store, known, sample, lost, draft>>
        /\ left = {}
    BY <1>8 DEF AllConsidered, GoesTo, TypeOK
  <2>2. Credit(p, t)' => Credit(p, t)
    BY <1>3, <2>1 DEF Credit
  <2>3. One(Credit(p, t)') <= One(Credit(p, t))
    BY <2>2 DEF One
  <2>4. Fired(t)' + One(draft'[t].pending) + One(Credit(p, t)') <= boots' + lost'
    BY <1>1, <1>2, <1>3, <1>4, <2>1, <2>3, OneType
  <2>5. Fired(t)' + One(store'[t].pending) + One(known' = "down" /\ up') <= boots' + lost' + 1
    BY <1>2, <1>3, <1>4, <2>1 DEF Inside
  <2> QED
    BY <2>4, <2>5 DEF StartsKept
<1>9. CASE Save(p)
  <2>1. /\ at[p] = "outcome" /\ at'[p] = "rest" /\ UNCHANGED <<draft, lost>>
        /\ known' = IF sample[p].up THEN "up" ELSE "down"
    BY <1>9 DEF Save, GoesTo, TypeOK
  <2>2. Credit(p, t)' => Credit(p, t)
    BY <1>1, <1>3, <2>1 DEF Credit
  <2>3. One(Credit(p, t)') <= One(Credit(p, t))
    BY <2>2 DEF One
  <2>4. Fired(t)' + One(draft'[t].pending) + One(Credit(p, t)') <= boots' + lost'
    BY <1>1, <1>2, <1>3, <1>4, <2>1, <2>3, OneType
  <2> QED
    BY <2>1, <2>4 DEF StartsKept, Inside
<1>10. CASE Dropped(p)
  <2>1. at'[p] = "rest" /\ UNCHANGED <<store, known>> /\ at[p] \in {"rest", "sampled", "fire", "outcome"}
    BY <1>10 DEF Dropped, GoesTo, TypeOK
  <2>2. Credit(p, t)' <=> known = "down" /\ up
    BY <1>3, <2>1 DEF Credit
  <2>3. CASE at[p] \in Inside
    <3>1. draft' = store /\ lost' = lost + 1
      BY <1>10, <2>3 DEF Dropped
    <3>2. Fired(t) + One(store[t].pending) + One(known = "down" /\ up) <= boots + (lost + 1)
      BY <1>1, <1>2, <2>3, OneType
    <3>3. One(Credit(p, t)') = One(known = "down" /\ up)
      BY <2>2 DEF One
    <3>4. Fired(t)' + One(draft'[t].pending) + One(Credit(p, t)') <= boots' + lost'
      BY <1>3, <1>4, <3>1, <3>2, <3>3
    <3> QED
      BY <2>1, <3>4 DEF StartsKept, Inside
  <2>4. CASE at[p] \notin Inside
    <3>1. UNCHANGED <<draft, lost>>
      BY <1>10, <2>4 DEF Dropped
    <3>2. Credit(p, t)' => Credit(p, t)
      BY <2>1, <2>2, <2>4 DEF Credit, Inside
    <3>3. One(Credit(p, t)') <= One(Credit(p, t))
      BY <3>2 DEF One
    <3>4. Fired(t)' + One(draft'[t].pending) + One(Credit(p, t)') <= boots' + lost'
      BY <1>1, <1>2, <1>3, <1>4, <3>1, <3>3, OneType
    <3> QED
      BY <2>1, <3>4 DEF StartsKept, Inside
  <2> QED
    BY <2>3, <2>4
<1> QED
  BY <1>6, <1>7, <1>8, <1>9, <1>10 DEF Crash, TickError

LEMMA WorldStarts ==
  ASSUME TypeOK, TypeOK', StartInv, NEW p \in Schedulers, World \/ UNCHANGED vars,
         NEW t \in Schedules, Kind[t] = "on_start"
  PROVE  StartsKept(p, t)
<1>1. /\ Fired(t) \in Nat /\ boots \in Nat /\ lost \in Nat
      /\ draft[t].pending \in BOOLEAN /\ store[t].pending \in BOOLEAN
      /\ up \in BOOLEAN /\ sample[p].up \in BOOLEAN
  BY StartNumbers
<1>2. /\ Fired(t) + One(draft[t].pending) + One(Credit(p, t)) <= boots + lost
      /\ at[p] \in Inside => Fired(t) + One(store[t].pending) + One(known = "down" /\ up) <= boots + lost + 1
  BY DEF StartInv, DraftStarts, StoreStarts
<1>3. /\ UNCHANGED <<store, known, at, sample, draft, left, lost>>
      /\ NoNewJob \/ Create("people", "other", 0, 0) \/ \E j \in Jobs : JobEnds(j)
  BY WorldEffect DEF vars, NoNewJob
<1>4. Fired(t)' = Fired(t)
  BY <1>3, QuietFirsts
<1>5. \/ boots' = boots /\ (up' => up)
      \/ boots' = boots + 1
  BY DEF World, MinutePasses, ComesUp, GoesDown, GuardChanges, OtherJob, JobEnds, vars, world
<1>6. CASE boots' = boots + 1
  BY <1>1, <1>2, <1>3, <1>4, <1>6, OneType DEF StartsKept, One
<1>7. CASE boots' = boots /\ (up' => up)
  <2>1. at[p] \in {"rest", "sampled", "fire", "outcome"}
    BY DEF TypeOK
  <2>2. Credit(p, t)' => Credit(p, t)
    BY <1>3, <1>7, <2>1 DEF Credit
  <2>3. One(Credit(p, t)') <= One(Credit(p, t)) /\ One(known = "down" /\ up') <= One(known = "down" /\ up)
    BY <1>7, <2>2 DEF One
  <2>4. Fired(t)' + One(draft'[t].pending) + One(Credit(p, t)') <= boots' + lost'
    BY <1>1, <1>2, <1>3, <1>4, <1>7, <2>3, OneType
  <2>5. at'[p] \in Inside => Fired(t)' + One(store'[t].pending) + One(known' = "down" /\ up') <= boots' + lost' + 1
    BY <1>1, <1>2, <1>3, <1>4, <1>7, <2>3, OneType
  <2> QED
    BY <2>4, <2>5 DEF StartsKept
<1> QED
  BY <1>5, <1>6, <1>7

(* With one scheduler, an on_start schedule starts at most one job each time *)
(* the instance comes up, and one more for each pass that was lost.  Two     *)
(* schedulers may both have seen the instance up before either of them saved *)
(* that it was.                                                              *)
THEOREM OnStartsOnce ==
  ASSUME OneScheduler
  PROVE  Spec => []OnStartOnce
<1>1. PICK p : Schedulers = {p}
  BY DEF OneScheduler
<1>2. p \in Schedulers
  BY <1>1
<1>3. Init => StartInv
  <2> SUFFICES ASSUME Init PROVE StartInv
    OBVIOUS
  <2>1. \A s : Fired(s) = 0 /\ lost = 0 /\ boots = 0
    <3>1. \A s : Firsts(s) = {}
      BY DEF Init, Firsts, Ids
    <3> QED
      BY <3>1, FS_EmptySet DEF Init, Fired
  <2>2. \A s \in Schedules : ~draft[s].pending
    BY DEF Init, NewRow
  <2>3. \A s : ~Credit(p, s) /\ at[p] = "rest"
    BY <1>2 DEF Init, Credit
  <2>4. DraftStarts /\ StoreStarts
    BY <1>1, <2>1, <2>2, <2>3 DEF DraftStarts, StoreStarts, One, Inside
  <2>5. LeftInv
    BY DEF Init, LeftInv
  <2> QED
    BY <2>4, <2>5, InitLocks DEF StartInv
<1>4. TypeOK /\ TypeOK' /\ EventInv' /\ StartInv /\ [Next]_vars => StartInv'
  <2> SUFFICES ASSUME TypeOK, TypeOK', EventInv', StartInv, [Next]_vars PROVE StartInv'
    OBVIOUS
  <2>1. \A s \in Schedules : Kind[s] = "on_start" => StartsKept(p, s)
    BY <1>1, <1>2, FireStarts, OtherStarts, AroundStarts, WorldStarts DEF Next, Works
  <2>2. DraftStarts' /\ StoreStarts'
    BY <1>1, <2>1 DEF DraftStarts, StoreStarts, StartsKept, One
  <2> QED
    BY <2>2 DEF StartInv, EventInv
<1>5. TypeOK /\ StartInv => OnStartOnce
  <2> SUFFICES ASSUME TypeOK, StartInv, NEW s \in Schedules, Kind[s] = "on_start"
               PROVE  Cardinality(Firsts(s)) <= boots + lost
    BY DEF OnStartOnce
  <2>1. Fired(s) + One(draft[s].pending) + One(Credit(p, s)) <= boots + lost
    BY <1>2 DEF StartInv, DraftStarts
  <2> QED
    BY <1>2, <2>1, StartNumbers, OneType DEF Fired
<1> QED
  BY <1>3, <1>4, <1>5, EventInvariance, TypeCorrect, PTL DEF Spec

=============================================================================
