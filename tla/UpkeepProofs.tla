---------------------------- MODULE UpkeepProofs ----------------------------
(***************************************************************************)
(* Upkeep, proved for every number of workers, watchers, sites and apps:   *)
(* the types, that a worker opens a site only when its own migrate ended,  *)
(* that a closed site is explained at every moment, and that an update     *)
(* which had the bench for itself reports success only when it is one.     *)
(***************************************************************************)
EXTENDS Upkeep, TLAPS

(* The record, the history or an update that was told to leave maintenance   *)
(* alone accounts for a site that is, or is about to be, closed.             *)
Named(s) ==
    \/ s \in unnamed
    \/ record[s] # NoOp
    \/ \E o \in Workers : s \in op[o].sites /\ op[o].skip

(* What a worker's own fields say in each phase.                             *)
Starting(w) == /\ w.phase = "idle" => w = Fresh
               /\ w.phase \in {"probe", "unlock", "pull", "discover"} =>
                     w.sites = {} /\ w.mine = {}

Gating(w) == w.phase \in {"record", "turnOn"} =>
    /\ ~w.skip
    /\ w.left \cup w.mine \subseteq w.sites
    /\ w.left \cap w.mine = {}

Migrating(w) == w.phase \in {"migrate", "stream"} =>
    w.plan # {} /\ w.plan \subseteq w.sites /\ w.left \subseteq w.plan

Being(w) == /\ w.phase = "turnOn" => w.cur \in w.left
            /\ w.phase = "stream" => w.cur \in w.plan
            /\ w.phase \in {"reread", "again"} => w.cur \in Sites

Aborting(w) ==
    /\ w.aborted => w.bad \/ (w.phase \in {"report", "done", "killed"} /\ w.sites = {})
    /\ w.phase \in {"end", "reread", "again"} => w.aborted

Shape(w) == Starting(w) /\ Gating(w) /\ Migrating(w) /\ Being(w) /\ Aborting(w)

(* Where a migrate that o started may still run.                             *)
Accounted(o, w) == \A s \in Sites : migrate[o][s] # "none" =>
    \/ s \in w.lost \/ w.told \/ w.blind
    \/ w.phase \in {"end", "done", "killed"}
    \/ w.phase = "stream" /\ w.cur = s /\ exit[o] = "none"

(* The sites a worker has closed, or may close without a look at the record. *)
Claims(w, s) ==
    \/ w.phase = "turnOn" /\ w.cur = s
    \/ w.phase \in {"record", "turnOn"} /\ s \in w.mine
    \/ w.phase \in {"migrate", "stream"} /\ s \in w.left

Covered(o, w) == \A s \in Sites : migrate[o][s] # "none" \/ Claims(w, s) => Named(s)

Explained == \A s \in Sites : own[s] = "on" => s \in byHand \/ Named(s)

(* A worker that still counts as alone is.                                   *)
Alone == \A o, p \in Workers : Active(o) /\ op[o].alone /\ Active(p) => p = o

(* Nothing known will close s again.                                         *)
Opened(s) == /\ own[s] = "on" => s \in byHand \cup unnamed
             /\ Running(s) # {} => s \in unnamed

Promising(w) == w.phase \notin Ended /\ w.alone /\ w.kind = "update" /\ ~w.bad

(* Every site found is in what the phase works on,                           *)
Gated(w) ==
    /\ w.phase \in {"record", "turnOn"} => w.sites \subseteq w.left \cup w.mine
    /\ w.phase \in {"migrate", "stream"} => w.sites \subseteq w.plan
    /\ w.phase \in {"migrate", "stream", "locks"} => w.skip \/ w.sites \subseteq w.mine
    /\ w.phase = "disable" => ~w.skip

(* those behind the present one are migrated,                                *)
Migrated(o, w, s) ==
    /\ w.phase = "migrate" /\ s \notin w.left => s \notin behind
    /\ w.phase = "stream" /\ s \notin w.left => s \notin behind \/ (s = w.cur /\ exit[o] # "ok")
    /\ w.phase \in {"locks", "disable", "report"} => s \notin behind

(* and, later, open or known to be stuck.                                    *)
Reopened(w, s) ==
    w.phase = "report" \/ (w.phase = "disable" /\ s \notin w.left)
        => w.skip \/ s \in w.stuck \/ Opened(s)

Kept(o, w) == Promising(w) =>
    Gated(w) /\ \A s \in w.sites : Migrated(o, w, s) /\ Reopened(w, s)

Sound(o, w) == Shape(w) /\ Accounted(o, w) /\ Covered(o, w) /\ Kept(o, w)

(* The types of all but the workers' own fields.                             *)
WorldTypes ==
    /\ own \in [Sites -> {"unset", "off", "on"}] /\ common \in BOOLEAN
    /\ record \in [Sites -> Workers \cup {NoOp}]
    /\ lock \in [Sites -> Workers \cup {NoOp}]
    /\ migrate \in [Workers -> [Sites -> {"none", "starting", "working"}]]
    /\ exit \in [Workers -> {"none", "ok", "failed"}]
    /\ behind \subseteq Sites
    /\ watch \in [Watchers -> WatcherRecords]
    /\ byHand \subseteq Sites /\ unnamed \subseteq Sites /\ faults \in 0..MaxFaults

IInv ==
    /\ WorldTypes
    /\ op \in [Workers -> WorkerRecords]
    /\ \A o \in Workers : Sound(o, op[o])
    /\ Explained
    /\ Alone

-----------------------------------------------------------------------------
(* The types.                                                                *)

(* First picks a member.                                                     *)
LEMMA FirstIn ==
    ASSUME NEW set, set # {}
    PROVE  First(set) \in set
BY DEF First

(* A fresh worker and an idle watcher have their types.                      *)
LEMMA FreshType == Fresh \in WorkerRecords /\ Idle \in WatcherRecords
BY DEF Fresh, WorkerRecords, Phases, Idle, WatcherRecords

(* Only one worker's fields change.                                          *)
Moves(o, x) == op' = [op EXCEPT ![o] = x]

(* A worker's fields after a step before the sites are known, and after a    *)
(* later one.                                                                *)
Early(w, phase, good, failed, sites, pre, left, plan, aborted, bad) ==
    [kind |-> w.kind, phase |-> phase, apps |-> w.apps, good |-> good, only |-> w.only,
     skip |-> w.skip, failed |-> failed, sites |-> sites, left |-> left, cur |-> w.cur,
     mine |-> w.mine, plan |-> plan, pre |-> pre, aborted |-> aborted, lost |-> w.lost,
     bad |-> bad, stuck |-> w.stuck, told |-> w.told, blind |-> w.blind, ok |-> w.ok,
     alone |-> w.alone]

Later(w, phase, left, cur, mine, plan, aborted, bad, lost, stuck) ==
    [kind |-> w.kind, phase |-> phase, apps |-> w.apps, good |-> w.good, only |-> w.only,
     skip |-> w.skip, failed |-> w.failed, sites |-> w.sites, left |-> left, cur |-> cur,
     mine |-> mine, plan |-> plan, pre |-> w.pre, aborted |-> aborted, lost |-> lost,
     bad |-> bad, stuck |-> stuck, told |-> w.told, blind |-> w.blind, ok |-> w.ok,
     alone |-> w.alone]

LEMMA EarlyType ==
    ASSUME NEW w \in WorkerRecords, NEW phase \in Phases, NEW good \in SUBSET Apps,
           NEW failed \in SUBSET Apps, NEW sites \in SUBSET Sites, NEW pre \in SUBSET Sites,
           NEW left \in SUBSET Sites, NEW plan \in SUBSET Sites, NEW aborted \in BOOLEAN,
           NEW bad \in BOOLEAN
    PROVE  Early(w, phase, good, failed, sites, pre, left, plan, aborted, bad) \in WorkerRecords
BY DEF Early, WorkerRecords

LEMMA LaterType ==
    ASSUME NEW w \in WorkerRecords, NEW phase \in Phases, NEW left \in SUBSET Sites,
           NEW cur \in Sites \cup {NoOp}, NEW mine \in SUBSET Sites, NEW plan \in SUBSET Sites,
           NEW aborted \in BOOLEAN, NEW bad \in BOOLEAN, NEW lost \in SUBSET Sites,
           NEW stuck \in SUBSET Sites
    PROVE  Later(w, phase, left, cur, mine, plan, aborted, bad, lost, stuck) \in WorkerRecords
BY DEF Later, WorkerRecords

(* A step of one worker keeps the invariant when it leaves the worker sound, *)
(* and every other worker that has, or may come to have, a site closed finds *)
(* the site named as before.                                                 *)
LEMMA WorkerStep ==
    ASSUME IInv, NEW o \in Workers, NEW x \in WorkerRecords, Active(o), Moves(o, x),
           WorldTypes', Sound(o, x)', Explained', x.phase \in Ended \/ x.alone = op[o].alone,
           \A p \in Workers \ {o} : migrate'[p] = migrate[p] /\ exit'[p] = exit[p],
           \A p \in Workers \ {o}, s \in Sites :
               (migrate[p][s] # "none" \/ Claims(op[p], s)) /\ Named(s) => Named(s)'
    PROVE  IInv'
<1>1. op' \in [Workers -> WorkerRecords] /\ op'[o] = x
      /\ \A p \in Workers \ {o} : op'[p] = op[p]
  BY DEF IInv, Moves
<1>2. Alone'
  BY <1>1 DEF IInv, Alone, Active
<1>3. ASSUME NEW p \in Workers \ {o} PROVE Sound(p, op[p])'
  <2>1. Sound(p, op[p]) /\ op'[p] = op[p] /\ migrate'[p] = migrate[p] /\ exit'[p] = exit[p]
    BY <1>1 DEF IInv
  <2>2. ~Promising(op[p])
    BY DEF IInv, Alone, Promising, Active
  <2>3. Shape(op[p])' /\ Accounted(p, op[p])' /\ Kept(p, op[p])'
    BY <2>1, <2>2 DEF Sound, Shape, Starting, Gating, Migrating, Being, Aborting, Accounted,
       Kept, Promising
  <2>4. Covered(p, op[p])'
    BY <2>1 DEF Sound, Covered, Claims
  <2>q. QED
    BY <2>3, <2>4 DEF Sound
<1>q. QED
  BY <1>1, <1>2, <1>3 DEF IInv

(* The same for a step that changes nothing else that matters here.          *)
LEMMA OwnStep ==
    ASSUME IInv, NEW o \in Workers, NEW x \in WorkerRecords, Active(o), Moves(o, x),
           UNCHANGED <<own, common, record, unnamed, migrate, exit, watch, byHand>>,
           lock' \in [Sites -> Workers \cup {NoOp}], faults' \in 0..MaxFaults,
           behind' = behind \/ (behind' \subseteq Sites /\ x.sites = {}),
           Sound(o, x), x.phase \in Ended \/ x.alone = op[o].alone, x.skip = op[o].skip,
           op[o].skip => op[o].sites \subseteq x.sites
    PROVE  IInv'
<1>1. op' \in [Workers -> WorkerRecords] /\ op'[o] = x
      /\ \A p \in Workers \ {o} : op'[p] = op[p]
  BY DEF IInv, Moves
<1>2. \A s \in Sites : Named(s) => Named(s)'
  BY <1>1 DEF Named
<1>3. Explained' /\ WorldTypes'
  BY <1>2 DEF IInv, Explained, WorldTypes
<1>4. Sound(o, x)'
  BY <1>2 DEF Sound, Shape, Starting, Gating, Migrating, Being, Aborting, Accounted, Covered,
     Claims, Kept, Promising, Gated, Migrated, Reopened, Opened, Running
<1>q. QED
  BY <1>2, <1>3, <1>4, WorkerStep

LEMMA FieldTypes ==
    ASSUME NEW w \in WorkerRecords
    PROVE  /\ w.phase \in Phases /\ w.good \in SUBSET Apps /\ w.failed \in SUBSET Apps
           /\ w.sites \in SUBSET Sites /\ w.left \in SUBSET Sites /\ w.mine \in SUBSET Sites
           /\ w.plan \in SUBSET Sites /\ w.pre \in SUBSET Sites /\ w.lost \in SUBSET Sites
           /\ w.stuck \in SUBSET Sites /\ w.cur \in Sites \cup {NoOp}
           /\ w.aborted \in BOOLEAN /\ w.bad \in BOOLEAN /\ w.skip \in BOOLEAN
           /\ w.told \in BOOLEAN /\ w.blind \in BOOLEAN
           /\ w.apps \in SUBSET Apps /\ w.only \in SUBSET Sites
           /\ w.kind \in {"none", "migrate", "update"} /\ w.alone \in BOOLEAN
BY DEF WorkerRecords

(* What a step leaves of the number of faults.                               *)
LEMMA FaultType ==
    ASSUME UpkeepAssumption, faults \in 0..MaxFaults, Fine \/ Fault
    PROVE  faults' \in 0..MaxFaults
BY DEF UpkeepAssumption, Fine, Fault
-----------------------------------------------------------------------------
(* Before the sites are known.                                               *)

(* A worker that has not closed anything is sound in any such phase.         *)
LEMMA EarlySound ==
    ASSUME NEW o \in Workers, NEW w, NEW x, Sound(o, w),
           w.phase \in {"probe", "unlock", "pull", "discover"},
           x.phase \in {"probe", "unlock", "pull", "discover", "report"},
           x.sites = w.sites, x.mine = w.mine, x.lost = w.lost, x.told = w.told,
           x.blind = w.blind, x.aborted = w.aborted, w.bad => x.bad
    PROVE  Sound(o, x)
<1>1. w.sites = {} /\ w.mine = {} /\ Aborting(w)
  BY DEF Sound, Shape, Starting
<1>2. Shape(x)
  BY <1>1 DEF Shape, Starting, Gating, Migrating, Being, Aborting
<1>3. Accounted(o, x) /\ Covered(o, x)
  BY DEF Sound, Accounted, Covered, Claims
<1>4. Kept(o, x)
  BY <1>1 DEF Kept, Gated
<1>q. QED
  BY <1>2, <1>3, <1>4 DEF Sound

LEMMA ProbeLockStep ==
    ASSUME UpkeepAssumption, IInv, NEW o \in Workers, NEW s \in Sites, ProbeLock(o, s)
    PROVE  IInv'
<1>1. PICK w \in WorkerRecords : w = op[o]
  BY DEF IInv
<1>2. w.phase = "probe"
  BY <1>1 DEF ProbeLock
<1>3. /\ UNCHANGED <<own, common, record, unnamed, lock, migrate, exit, behind, watch, byHand>>
      /\ faults' \in 0..MaxFaults /\ Active(o) /\ Sound(o, w)
  BY <1>1, <1>2, FaultType DEF ProbeLock, KeepFlags, KeepBench, KeepOthers, Active, Ended, IInv,
     WorldTypes
<1>4. ASSUME NEW x \in WorkerRecords, Moves(o, x), NEW phase, NEW left, NEW plan, NEW bad,
             x = Early(w, phase, w.good, w.failed, w.sites, w.pre, left, plan, w.aborted, bad),
             phase \in {"probe", "unlock", "report"}, w.bad => bad
      PROVE  IInv'
  <2>1. Sound(o, x)
    BY <1>2, <1>3, <1>4, EarlySound DEF Early
  <2>q. QED
    BY <1>1, <1>3, <1>4, <2>1, OwnStep, SMTT(60) DEF Early, IInv, WorldTypes
<1>5. CASE op' = [op EXCEPT ![o] = [w EXCEPT !.phase = "report", !.bad = TRUE]]
  <2>1. PICK x : x = [w EXCEPT !.phase = "report", !.bad = TRUE]
    OBVIOUS
  <2>2. x = Early(w, "report", w.good, w.failed, w.sites, w.pre, w.left, w.plan, w.aborted, TRUE)
    BY <2>1 DEF Early, WorkerRecords
  <2>3. x \in WorkerRecords
    BY <1>2, <2>2, FieldTypes, EarlyType DEF Phases
  <2>q. QED
    BY <1>2, <1>4, <1>5, <2>1, <2>2, <2>3 DEF Moves
<1>6. CASE op' = [op EXCEPT ![o] = [w EXCEPT !.left = w.left \ {s}, !.plan = w.plan \cup {s},
                                    !.phase = IF w.left = {s} THEN "unlock" ELSE w.phase]]
  <2>1. PICK x, phase : /\ phase = IF w.left = {s} THEN "unlock" ELSE w.phase
                        /\ x = [w EXCEPT !.left = w.left \ {s}, !.plan = w.plan \cup {s},
                                         !.phase = phase]
    OBVIOUS
  <2>2. x = Early(w, phase, w.good, w.failed, w.sites, w.pre, w.left \ {s}, w.plan \cup {s},
                  w.aborted, w.bad)
    BY <2>1, ZenonT(60) DEF Early, WorkerRecords
  <2>3. x \in WorkerRecords
    BY <1>2, <2>1, <2>2, FieldTypes, EarlyType DEF Phases
  <2>4. Moves(o, x)
    BY <1>6, <2>1 DEF Moves
  <2>5. phase \in {"probe", "unlock", "report"}
    BY <1>2, <2>1
  <2>q. QED
    BY <1>4, <2>2, <2>3, <2>4, <2>5
<1>7. CASE op' = [op EXCEPT ![o] = [w EXCEPT !.left = w.left \ {s},
                                    !.phase = IF w.left = {s} THEN "unlock" ELSE w.phase]]
  <2>1. PICK x, phase : /\ phase = IF w.left = {s} THEN "unlock" ELSE w.phase
                        /\ x = [w EXCEPT !.left = w.left \ {s}, !.phase = phase]
    OBVIOUS
  <2>2. x = Early(w, phase, w.good, w.failed, w.sites, w.pre, w.left \ {s}, w.plan,
                  w.aborted, w.bad)
    BY <2>1 DEF Early, WorkerRecords
  <2>3. x \in WorkerRecords
    BY <1>2, <2>1, <2>2, FieldTypes, EarlyType DEF Phases
  <2>4. Moves(o, x)
    BY <1>7, <2>1 DEF Moves
  <2>5. phase \in {"probe", "unlock", "report"}
    BY <1>2, <2>1
  <2>q. QED
    BY <1>4, <2>2, <2>3, <2>4, <2>5
<1>q. QED
  BY <1>1, <1>5, <1>6, <1>7, ZenonT(60) DEF ProbeLock, IInv

LEMMA ClearLocksStep ==
    ASSUME UpkeepAssumption, IInv, NEW o \in Workers, ClearLocks(o)
    PROVE  IInv'
<1>1. PICK w \in WorkerRecords : w = op[o]
  BY DEF IInv
<1>2. PICK x : x = [w EXCEPT !.phase = "pull", !.plan = {}]
  OBVIOUS
<1>3. x = Early(w, "pull", w.good, w.failed, w.sites, w.pre, w.left, {}, w.aborted, w.bad)
  BY <1>2 DEF Early, WorkerRecords
<1>4. w.phase = "unlock" /\ Moves(o, x)
  BY <1>1, <1>2 DEF ClearLocks, Moves, IInv
<1>5. x \in WorkerRecords
  BY <1>3, FieldTypes, EarlyType DEF Phases
<1>6. Sound(o, w) /\ Active(o)
  BY <1>1, <1>4 DEF IInv, Active, Ended
<1>7. Sound(o, x)
  BY <1>3, <1>4, <1>6, EarlySound DEF Early
<1>8. lock' \in [Sites -> Workers \cup {NoOp}]
  BY DEF ClearLocks, IInv, WorldTypes
<1>9. faults' \in 0..MaxFaults
  BY FaultType, SMTT(60) DEF ClearLocks, IInv, WorldTypes
<1>q. QED
  BY <1>1, <1>3, <1>4, <1>5, <1>6, <1>7, <1>8, <1>9, OwnStep DEF ClearLocks, KeepFlags,
     KeepOthers, Early
LEMMA PullStep ==
    ASSUME UpkeepAssumption, IInv, NEW o \in Workers, NEW a \in Apps,
           NEW outcome \in {"ok", "failed", "unknown"}, Pull(o, a, outcome)
    PROVE  IInv'
<1>1. PICK w \in WorkerRecords : w = op[o]
  BY DEF IInv
<1>2. PICK good, failed, bad :
          /\ good = IF outcome = "ok" THEN w.good \cup {a} ELSE w.good
          /\ failed = IF outcome = "ok" THEN w.failed ELSE w.failed \cup {a}
          /\ bad = (w.bad \/ outcome # "ok")
  OBVIOUS
<1>3. PICK x : x = [w EXCEPT !.good = good, !.failed = failed, !.bad = bad]
  OBVIOUS
<1>4. x = Early(w, w.phase, good, failed, w.sites, w.pre, w.left, w.plan, w.aborted, bad)
  BY <1>3 DEF Early, WorkerRecords
<1>5. bad \in BOOLEAN /\ (w.bad => bad)
  BY <1>2
<1>6. w.phase = "pull" /\ w.phase \in Phases
  BY <1>1, FieldTypes DEF Pull
<1>7. good \in SUBSET Apps /\ failed \in SUBSET Apps
  BY <1>2, FieldTypes
<1>8. x \in WorkerRecords
  BY <1>4, <1>5, <1>6, <1>7, FieldTypes, EarlyType
<1>9. Moves(o, x)
  BY <1>1, <1>2, <1>3 DEF Pull, Moves, IInv
<1>10. Sound(o, w) /\ Active(o)
  BY <1>1, <1>6 DEF IInv, Active, Ended
<1>11. Sound(o, x)
  BY <1>4, <1>5, <1>6, <1>10, EarlySound DEF Early
<1>12. w.sites = {}
  BY <1>6, <1>10 DEF Sound, Shape, Starting
<1>13. behind' \subseteq Sites
  <2>1. InstalledOn[a] \in SUBSET Sites /\ behind \in SUBSET Sites
    BY DEF UpkeepAssumption, IInv, WorldTypes
  <2>q. QED
    BY <2>1 DEF Pull
<1>14. faults' \in 0..MaxFaults
  BY FaultType DEF Pull, IInv, WorldTypes
<1>15. lock' \in [Sites -> Workers \cup {NoOp}]
  BY DEF Pull, IInv, WorldTypes
<1>q. QED
  BY <1>1, <1>4, <1>8, <1>9, <1>10, <1>11, <1>12, <1>13, <1>14, <1>15, OwnStep
  DEF Pull, KeepFlags, KeepOthers, Early

LEMMA RequirementsStep ==
    ASSUME UpkeepAssumption, IInv, NEW o \in Workers, NEW outcome \in {"ok", "failed"},
           Requirements(o, outcome)
    PROVE  IInv'
<1>1. PICK w \in WorkerRecords : w = op[o]
  BY DEF IInv
<1>2. PICK good, bad : /\ good = IF outcome = "ok" THEN w.good ELSE {}
                       /\ bad = (w.bad \/ outcome # "ok")
  OBVIOUS
<1>3. PICK x : x = [w EXCEPT !.phase = "discover", !.good = good, !.bad = bad]
  OBVIOUS
<1>4. x = Early(w, "discover", good, w.failed, w.sites, w.pre, w.left, w.plan, w.aborted, bad)
  BY <1>3 DEF Early, WorkerRecords
<1>5. bad \in BOOLEAN /\ (w.bad => bad) /\ w.phase = "pull"
  BY <1>1, <1>2 DEF Requirements, PullsDone
<1>6. good \in SUBSET Apps
  BY <1>2, FieldTypes
<1>7. x \in WorkerRecords
  BY <1>4, <1>5, <1>6, FieldTypes, EarlyType DEF Phases
<1>8. Moves(o, x)
  BY <1>1, <1>2, <1>3 DEF Requirements, Moves, IInv
<1>9. Sound(o, w) /\ Active(o)
  BY <1>1, <1>5 DEF IInv, Active, Ended
<1>10. Sound(o, x)
  BY <1>4, <1>5, <1>9, EarlySound DEF Early
<1>11. faults' \in 0..MaxFaults
  BY FaultType DEF Requirements, IInv, WorldTypes
<1>12. lock' \in [Sites -> Workers \cup {NoOp}]
  BY DEF Requirements, KeepBench, IInv, WorldTypes
<1>q. QED
  BY <1>1, <1>4, <1>7, <1>8, <1>9, <1>10, <1>11, <1>12, OwnStep
  DEF Requirements, KeepFlags, KeepBench, KeepOthers, Early
(* What one look at an app's sites may find is sites.                        *)
LEMMA LooksType ==
    ASSUME UpkeepAssumption, NEW a \in Apps, NEW look \in Looks(a)
    PROVE  look.found \subseteq Sites /\ look.unread \subseteq Sites
<1>1. Cached[a] \in SUBSET Sites /\ InstalledOn[a] \in SUBSET Sites
  BY DEF UpkeepAssumption
<1>q. QED
  BY <1>1 DEF Looks

LEMMA DiscoverStep ==
    ASSUME UpkeepAssumption, IInv, NEW o \in Workers, Discover(o)
    PROVE  IInv'
<1>1. PICK w \in WorkerRecords : w = op[o]
  BY DEF IInv
<1>2. PICK looks, all, unread, sites :
          /\ \A a \in w.good : looks[a] \in Looks(a)
          /\ all = UNION {looks[a].found : a \in w.good}
          /\ sites = Narrow(o, all)
          /\ op' = [op EXCEPT ![o] = Found(w, all, unread, sites)]
  <2> DEFINE found(looks) == UNION {looks[a].found : a \in w.good}
             missed(looks) == Narrow(o, UNION {looks[a].unread : a \in w.good})
  <2>1. PICK looks \in [w.good -> UNION {Looks(a) : a \in w.good}] :
          /\ \A a \in w.good : looks[a] \in Looks(a)
          /\ op' = [op EXCEPT ![o] = Found(w, found(looks), missed(looks), Narrow(o, found(looks)))]
    BY <1>1, Zenon DEF Discover
  <2>q. QED
    BY <2>1, Zenon
<1>3. PICK pre, bad, aborted, plan, phase :
          /\ pre = {s \in sites : Down(s)}
          /\ bad = (w.bad \/ unread # {})
          /\ aborted = (w.only # {} /\ all # {} /\ sites \cup unread = {})
          /\ plan = IF w.skip THEN sites ELSE {}
          /\ phase = IF sites = {} THEN "report" ELSE IF w.skip THEN "migrate" ELSE "record"
  OBVIOUS
<1>4. PICK x : x = [w EXCEPT !.sites = sites, !.left = sites, !.pre = pre, !.bad = bad,
                             !.aborted = aborted, !.plan = plan, !.phase = phase]
  OBVIOUS
<1>5. x = Early(w, phase, w.good, w.failed, sites, pre, sites, plan, aborted, bad)
  BY <1>4 DEF Early, WorkerRecords
<1>6. sites \in SUBSET Sites
  <2>1. \A a \in w.good : looks[a].found \subseteq Sites
    <3>1. w.good \subseteq Apps
      BY FieldTypes
    <3>q. QED
      BY <1>2, <3>1, LooksType
  <2>2. all \subseteq Sites
    BY <1>2, <2>1
  <2>q. QED
    BY <1>2, <2>2 DEF Narrow
<1>7. pre \in SUBSET Sites /\ plan \in SUBSET Sites /\ phase \in Phases
  BY <1>3, <1>6 DEF Phases
<1>8. bad \in BOOLEAN /\ aborted \in BOOLEAN /\ (w.bad => bad) /\ (aborted => sites = {})
  BY <1>3
<1>9. x \in WorkerRecords
  BY <1>5, <1>6, <1>7, <1>8, FieldTypes, EarlyType
<1>10. w.phase = "discover"
  BY <1>1 DEF Discover
<1>11. Moves(o, x)
  <2>1. x = Found(w, all, unread, sites)
    BY <1>1, <1>3, <1>4 DEF Found
  <2>q. QED
    BY <1>2, <2>1 DEF Moves
<1>12. Sound(o, w) /\ Active(o)
  BY <1>1, <1>10 DEF IInv, Active, Ended
<1>13. w.sites = {} /\ w.mine = {}
  BY <1>10, <1>12 DEF Sound, Shape, Starting
<1>14. /\ op'[o] = x /\ \A p \in Workers \ {o} : op'[p] = op[p]
       /\ x.skip = w.skip /\ x.alone = w.alone /\ x.sites = sites /\ x.left = sites
       /\ x.mine = {} /\ x.plan = plan /\ x.aborted = aborted /\ x.bad = bad /\ x.phase = phase
       /\ x.lost = w.lost /\ x.told = w.told /\ x.blind = w.blind
  BY <1>5, <1>11, <1>13 DEF Moves, Early, IInv
<1>15. UNCHANGED <<own, common, record, unnamed, lock, migrate, exit, behind, watch, byHand>>
  BY DEF Discover, KeepFlags, KeepBench, KeepOthers
<1>16. \A s \in Sites : Named(s) => Named(s)'
  BY <1>1, <1>13, <1>14, <1>15 DEF Named
<1>17. Shape(x)
  BY <1>3, <1>6, <1>8, <1>14 DEF Shape, Starting, Gating, Migrating, Being, Aborting
<1>18. Accounted(o, x)' /\ Covered(o, x)'
  <2>1. Accounted(o, x)'
    BY <1>10, <1>12, <1>14, <1>15 DEF Sound, Accounted
  <2>2. ASSUME NEW s \in Sites, Claims(x, s) PROVE Named(s)'
    BY <1>3, <1>14, <2>2 DEF Claims, Named
  <2>q. QED
    BY <1>12, <1>15, <1>16, <2>1, <2>2 DEF Sound, Covered
<1>19. Kept(o, x)'
  BY <1>3, <1>14 DEF Kept, Gated, Migrated, Reopened
<1>20. Explained' /\ WorldTypes'
  <2>1. faults' \in 0..MaxFaults
    BY FaultType DEF Discover, IInv, WorldTypes
  <2>q. QED
    BY <1>15, <1>16, <2>1 DEF IInv, Explained, WorldTypes
<1>q. QED
  BY <1>1, <1>9, <1>11, <1>12, <1>14, <1>15, <1>16, <1>17, <1>18, <1>19, <1>20, WorkerStep
  DEF Sound
-----------------------------------------------------------------------------
(* The end of a worker.                                                      *)

(* What is left of a worker has its type, claims nothing and explains as     *)
(* much as before.                                                           *)
Retires(o, w, x) ==
    /\ x \in WorkerRecords /\ Sound(o, x) /\ x.phase \in {"done", "killed"}
    /\ x.skip = w.skip /\ (w.skip => x.sites = w.sites)

LEMMA GoneSound ==
    ASSUME NEW o \in Workers, NEW w \in WorkerRecords, NEW phase, NEW good \in BOOLEAN,
           phase = "done" \/ phase = "killed", NEW x, x = Gone(w, phase, good), Sound(o, w)
    PROVE  Retires(o, w, x)
<1>1. PICK sites :
      /\ x = [kind |-> w.kind, phase |-> phase, apps |-> {}, good |-> {}, only |-> {},
              skip |-> w.skip, failed |-> {}, sites |-> sites, left |-> {}, cur |-> NoOp,
              mine |-> {}, plan |-> {}, pre |-> {}, aborted |-> FALSE, lost |-> {},
              bad |-> FALSE, stuck |-> w.stuck, told |-> w.told, blind |-> FALSE, ok |-> good,
              alone |-> TRUE]
      /\ sites = IF w.skip THEN w.sites ELSE {}
  BY ZenonT(60) DEF Gone, Fresh
<1>2. sites \in SUBSET Sites
  BY <1>1, FieldTypes
<1>3. x \in WorkerRecords
  <2>1. /\ w.kind \in {"none", "migrate", "update"} /\ w.skip \in BOOLEAN
        /\ w.stuck \in SUBSET Sites /\ w.told \in BOOLEAN /\ phase \in Phases
    BY FieldTypes DEF Phases
  <2>q. QED
    BY <1>1, <1>2, <2>1 DEF WorkerRecords
<1>4. x.phase = phase /\ x.aborted = FALSE
  BY <1>1
<1>5. Shape(x)
  BY <1>4 DEF Shape, Starting, Gating, Migrating, Being, Aborting
<1>6. Accounted(o, x) /\ Covered(o, x) /\ Kept(o, x)
  BY <1>4 DEF Sound, Accounted, Covered, Claims, Kept, Promising, Ended
<1>q. QED
  BY <1>1, <1>3, <1>4, <1>5, <1>6 DEF Sound, Retires

LEMMA ReportStep ==
    ASSUME UpkeepAssumption, IInv, NEW o \in Workers, Report(o)
    PROVE  IInv'
<1>1. PICK w \in WorkerRecords : w = op[o]
  BY DEF IInv
<1>2. PICK x, good : good = ~(w.bad \/ w.aborted \/ w.stuck # {}) /\ x = Gone(w, "done", good)
  OBVIOUS
<1>3. Moves(o, x) /\ w.phase = "report"
  BY <1>1, <1>2 DEF Report, Moves
<1>4. good \in BOOLEAN
  BY <1>2
<1>5. Sound(o, w) /\ Active(o)
  BY <1>1, <1>3 DEF IInv, Active, Ended
<1>6. Retires(o, w, x)
  <2>1. "done" = "done" \/ "done" = "killed"
    OBVIOUS
  <2>q. QED
    BY <1>2, <1>4, <1>5, <2>1, GoneSound
<1>7. /\ UNCHANGED <<own, common, record, unnamed, lock, migrate, exit, behind, watch, byHand>>
      /\ faults' \in 0..MaxFaults /\ lock' \in [Sites -> Workers \cup {NoOp}]
  BY FaultType DEF Report, KeepFlags, KeepBench, KeepOthers, IInv, WorldTypes
<1>q. QED
  BY <1>1, <1>3, <1>5, <1>6, <1>7, OwnStep DEF Ended, Retires

LEMMA KillStep ==
    ASSUME UpkeepAssumption, IInv, NEW o \in Workers, Kill(o)
    PROVE  IInv'
<1>1. PICK w \in WorkerRecords : w = op[o]
  BY DEF IInv
<1>2. PICK x : x = Gone(w, "killed", FALSE)
  OBVIOUS
<1>3. Moves(o, x) /\ Active(o) /\ Sound(o, w)
  BY <1>1, <1>2 DEF Kill, Moves, IInv
<1>4. Retires(o, w, x)
  <2>1. "killed" = "done" \/ "killed" = "killed"
    OBVIOUS
  <2>q. QED
    BY <1>2, <1>3, <2>1, GoneSound
<1>5. /\ UNCHANGED <<own, common, record, unnamed, lock, migrate, exit, behind, watch, byHand>>
      /\ faults' \in 0..MaxFaults /\ lock' \in [Sites -> Workers \cup {NoOp}]
  BY FaultType DEF Kill, KeepFlags, KeepBench, KeepOthers, IInv, WorldTypes
<1>q. QED
  BY <1>1, <1>3, <1>4, <1>5, OwnStep DEF Ended, Retires

LEMMA EndMigrateStep ==
    ASSUME UpkeepAssumption, IInv, NEW o \in Workers, EndMigrate(o)
    PROVE  IInv'
<1>1. PICK w \in WorkerRecords : w = op[o]
  BY DEF IInv
<1>2. w.phase = "end" /\ Active(o) /\ Sound(o, w)
  BY <1>1 DEF EndMigrate, Active, Ended, IInv
<1>3. w.bad
  BY <1>2 DEF Sound, Shape, Aborting
<1>4. PICK phase : phase = IF w.left = {} THEN "report" ELSE "disable"
  OBVIOUS
<1>5. /\ UNCHANGED <<own, common, record, unnamed, lock, migrate, exit, behind, watch, byHand>>
      /\ faults' \in 0..MaxFaults /\ lock' \in [Sites -> Workers \cup {NoOp}]
  BY FaultType DEF EndMigrate, KeepFlags, KeepBench, KeepOthers, IInv, WorldTypes
<1>6. ASSUME NEW x \in WorkerRecords, Moves(o, x), x.phase = phase, x.skip = w.skip,
             x.sites = w.sites, x.alone = w.alone, x.bad = w.bad, x.aborted = w.aborted,
             x.told \/ x.blind \/ \A s \in Sites : migrate[o][s] = "none"
      PROVE  IInv'
  <2>1. Shape(x)
    BY <1>3, <1>4, <1>6 DEF Shape, Starting, Gating, Migrating, Being, Aborting
  <2>2. Accounted(o, x) /\ Covered(o, x) /\ Kept(o, x)
    BY <1>2, <1>3, <1>4, <1>6 DEF Sound, Accounted, Covered, Claims, Kept, Promising
  <2>q. QED
    BY <1>1, <1>2, <1>5, <1>6, <2>1, <2>2, OwnStep DEF Sound
<1>7. CASE op' = [op EXCEPT ![o] = [w EXCEPT !.phase = phase]]
           /\ \A s \in Sites : migrate[o][s] = "none"
  <2>1. PICK x : x = [w EXCEPT !.phase = phase]
    OBVIOUS
  <2>2. /\ x \in WorkerRecords /\ x.phase = phase /\ x.skip = w.skip /\ x.sites = w.sites
        /\ x.alone = w.alone /\ x.bad = w.bad /\ x.aborted = w.aborted
    BY <1>4, <2>1 DEF WorkerRecords, Phases
  <2>q. QED
    BY <1>6, <1>7, <2>1, <2>2 DEF Moves
<1>8. CASE op' = [op EXCEPT ![o] = [w EXCEPT !.phase = phase, !.told = TRUE]]
  <2>1. PICK x : x = [w EXCEPT !.phase = phase, !.told = TRUE]
    OBVIOUS
  <2>2. /\ x.phase = phase /\ x.skip = w.skip /\ x.sites = w.sites
        /\ x.alone = w.alone /\ x.bad = w.bad /\ x.aborted = w.aborted /\ x.told
    BY <2>1 DEF WorkerRecords
  <2>3. PICK y : y = [w EXCEPT !.phase = phase]
    OBVIOUS
  <2>4. y \in WorkerRecords
    BY <1>4, <2>3 DEF WorkerRecords, Phases
  <2>5. x = [y EXCEPT !.told = TRUE]
    BY <2>1, <2>3
  <2>6. x \in WorkerRecords
    BY <2>4, <2>5, ZenonT(60) DEF WorkerRecords
  <2>q. QED
    BY <1>6, <1>8, <2>1, <2>2, <2>6 DEF Moves
<1>9. CASE op' = [op EXCEPT ![o] = [w EXCEPT !.phase = phase, !.blind = TRUE]]
  <2>1. PICK x : x = [w EXCEPT !.phase = phase, !.blind = TRUE]
    OBVIOUS
  <2>2. /\ x.phase = phase /\ x.skip = w.skip /\ x.sites = w.sites
        /\ x.alone = w.alone /\ x.bad = w.bad /\ x.aborted = w.aborted /\ x.blind
    BY <2>1 DEF WorkerRecords
  <2>3. PICK y : y = [w EXCEPT !.phase = phase]
    OBVIOUS
  <2>4. y \in WorkerRecords
    BY <1>4, <2>3 DEF WorkerRecords, Phases
  <2>5. x = [y EXCEPT !.blind = TRUE]
    BY <2>1, <2>3
  <2>6. x \in WorkerRecords
    BY <2>4, <2>5, ZenonT(60) DEF WorkerRecords
  <2>q. QED
    BY <1>6, <1>9, <2>1, <2>2, <2>6 DEF Moves
<1>q. QED
  BY <1>1, <1>4, <1>7, <1>8, <1>9 DEF EndMigrate, IInv
LEMMA RemoveLocksStep ==
    ASSUME UpkeepAssumption, IInv, NEW o \in Workers, NEW s \in Sites, RemoveLocks(o, s)
    PROVE  IInv'
<1>1. PICK w \in WorkerRecords : w = op[o]
  BY DEF IInv
<1>2. PICK left, rest, phase, x :
          /\ left = w.left \ {s}
          /\ rest = IF left = {} THEN ToDisable(w) ELSE left
          /\ phase = IF left # {} THEN "locks" ELSE IF rest = {} THEN "report" ELSE "disable"
          /\ x = [w EXCEPT !.left = rest, !.phase = phase]
  OBVIOUS
<1>3. /\ w.phase = "locks" /\ Active(o) /\ Sound(o, w)
      /\ w.mine \in SUBSET Sites /\ w.plan \in SUBSET Sites /\ w.left \in SUBSET Sites
  BY <1>1, FieldTypes DEF RemoveLocks, Active, Ended, IInv
<1>4. /\ ToDisable(w) \in SUBSET Sites
      /\ ~w.skip => ToDisable(w) = w.mine
      /\ w.skip /\ ~w.aborted => ToDisable(w) = {}
  BY <1>3 DEF ToDisable
<1>5. rest \in SUBSET Sites /\ phase \in Phases
  BY <1>2, <1>3, <1>4 DEF Phases
<1>6. x = Later(w, phase, rest, w.cur, w.mine, w.plan, w.aborted, w.bad, w.lost, w.stuck)
  BY <1>2, ZenonT(60) DEF Later, WorkerRecords
<1>7. x \in WorkerRecords
  BY <1>5, <1>6, FieldTypes, LaterType
<1>8. Moves(o, x)
  <2>1. PICK y : y = [w EXCEPT !.left = w.left \ {s}]
    OBVIOUS
  <2>2. op' = [op EXCEPT ![o] =
                 IF y.left = {} THEN [y EXCEPT !.phase = IF ToDisable(y) = {} THEN "report"
                                                         ELSE "disable",
                                               !.left = ToDisable(y)]
                 ELSE y]
    BY <1>1, <2>1 DEF RemoveLocks
  <2>3. y.left = left /\ ToDisable(y) = ToDisable(w)
    BY <1>2, <2>1 DEF ToDisable, WorkerRecords
  <2>4. CASE left = {}
    <3>1. x = [y EXCEPT !.phase = phase, !.left = rest]
      BY <1>2, <2>1 DEF WorkerRecords
    <3>q. QED
      BY <1>2, <2>2, <2>3, <2>4, <3>1 DEF Moves
  <2>5. CASE left # {}
    <3>1. x = y
      BY <1>2, <1>3, <2>1, <2>5, ZenonT(60) DEF WorkerRecords
    <3>q. QED
      BY <2>2, <2>3, <2>5, <3>1 DEF Moves
  <2>q. QED
    BY <2>4, <2>5
<1>9. /\ x.phase = phase /\ x.left = rest /\ x.skip = w.skip /\ x.sites = w.sites
      /\ x.mine = w.mine /\ x.alone = w.alone /\ x.bad = w.bad /\ x.aborted = w.aborted
      /\ x.lost = w.lost /\ x.told = w.told /\ x.blind = w.blind /\ x.kind = w.kind
      /\ x.stuck = w.stuck
  BY <1>6 DEF Later
<1>10. /\ phase \in {"locks", "report", "disable"}
       /\ phase = "report" => ToDisable(w) = {}
       /\ phase = "disable" => rest = ToDisable(w) /\ rest # {}
  BY <1>2
<1>11. w.aborted => w.bad
  BY <1>3 DEF Sound, Shape, Aborting
<1>12. Shape(x)
  BY <1>9, <1>10, <1>11 DEF Shape, Starting, Gating, Migrating, Being, Aborting
<1>13. Accounted(o, x) /\ Covered(o, x)
  BY <1>3, <1>9, <1>10 DEF Sound, Accounted, Covered, Claims
<1>14. Kept(o, x)
  <2>1. SUFFICES ASSUME Promising(x)
                 PROVE  Gated(x) /\ \A t \in x.sites : Migrated(o, x, t) /\ Reopened(x, t)
    BY DEF Kept
  <2>2. /\ Promising(w) /\ ~w.aborted /\ (w.skip \/ w.sites \subseteq w.mine)
        /\ \A t \in w.sites : t \notin behind
    BY <1>3, <1>9, <1>11, <2>1 DEF Sound, Kept, Promising, Gated, Migrated, Ended
  <2>3. Gated(x)
    BY <1>4, <1>9, <1>10, <2>2 DEF Gated
  <2>4. ASSUME NEW t \in x.sites PROVE Migrated(o, x, t) /\ Reopened(x, t)
    BY <1>4, <1>9, <1>10, <2>2 DEF Migrated, Reopened
  <2>q. QED
    BY <2>3, <2>4
<1>15. /\ UNCHANGED <<own, common, record, unnamed, migrate, exit, behind, watch, byHand>>
       /\ faults' \in 0..MaxFaults /\ lock' \in [Sites -> Workers \cup {NoOp}]
  BY FaultType DEF RemoveLocks, KeepFlags, KeepBench, KeepOthers, IInv, WorldTypes
<1>q. QED
  BY <1>1, <1>3, <1>7, <1>8, <1>9, <1>12, <1>13, <1>14, <1>15, OwnStep DEF Sound

(* The next site of a clean-up: the fields of a worker that goes on to it.   *)
LEMMA NextSiteIs ==
    ASSUME NEW w \in WorkerRecords, NEW x, x = NextSite(w)
    PROVE  \E phase \in {"report", "disable"}, left \in SUBSET Sites :
              /\ x = Later(w, phase, left, w.cur, w.mine, w.plan, w.aborted, w.bad, w.lost,
                           w.stuck)
              /\ left = w.left \ {w.cur} /\ (phase = "report" => left = {})
<1>1. PICK left, phase : /\ left = w.left \ {w.cur}
                         /\ phase = IF left = {} THEN "report" ELSE "disable"
  OBVIOUS
<1>2. PICK y : y = [w EXCEPT !.left = left]
  OBVIOUS
<1>3. y.left = left
  BY <1>2 DEF WorkerRecords
<1>4. x = [y EXCEPT !.phase = phase]
  BY <1>1, <1>2, <1>3 DEF NextSite
<1>5. x = [w EXCEPT !.left = left, !.phase = phase]
  BY <1>2, <1>4
<1>6. x = Later(w, phase, left, w.cur, w.mine, w.plan, w.aborted, w.bad, w.lost, w.stuck)
  BY ZenonT(60), <1>5 DEF Later, WorkerRecords
<1>q. QED
  BY <1>1, <1>6, FieldTypes

(* A clean-up after an interrupt is sound whatever it does with its sites.   *)
LEMMA CleaningSound ==
    ASSUME NEW o \in Workers, NEW w, NEW x, Sound(o, w),
           w.phase \in {"disable", "reread", "again"},
           w.aborted \/ w.bad, x.aborted = w.aborted, x.bad = w.bad,
           x.phase \in {"disable", "reread", "again", "report"},
           x.phase \in {"reread", "again"} => x.cur \in Sites /\ x.aborted,
           x.lost = w.lost, x.told = w.told, x.blind = w.blind
    PROVE  Sound(o, x)
<1>1. w.bad
  BY DEF Sound, Shape, Aborting
<1>2. Shape(x)
  BY <1>1 DEF Shape, Starting, Gating, Migrating, Being, Aborting
<1>3. Accounted(o, x) /\ Covered(o, x) /\ Kept(o, x)
  BY <1>1 DEF Sound, Accounted, Covered, Claims, Kept, Promising
<1>q. QED
  BY <1>2, <1>3 DEF Sound

LEMMA RereadStep ==
    ASSUME UpkeepAssumption, IInv, NEW o \in Workers, Reread(o)
    PROVE  IInv'
<1>1. PICK w \in WorkerRecords : w = op[o]
  BY DEF IInv
<1>2. /\ w.phase = "reread" /\ Active(o) /\ Sound(o, w)
  BY <1>1 DEF Reread, Active, Ended, IInv
<1>3. w.cur \in Sites /\ w.aborted
  BY <1>2 DEF Sound, Shape, Being, Aborting
<1>4. /\ UNCHANGED <<own, common, record, unnamed, lock, migrate, exit, behind, watch, byHand>>
      /\ faults' \in 0..MaxFaults /\ lock' \in [Sites -> Workers \cup {NoOp}]
  BY FaultType DEF Reread, KeepFlags, KeepBench, KeepOthers, IInv, WorldTypes
<1>5. ASSUME NEW phase \in {"disable", "again", "report"}, NEW left \in SUBSET Sites,
             NEW stuck \in SUBSET Sites, NEW x, Moves(o, x),
             x = Later(w, phase, left, w.cur, w.mine, w.plan, w.aborted, w.bad, w.lost, stuck)
      PROVE  IInv'
  <2>1. x \in WorkerRecords
    BY <1>5, FieldTypes, LaterType DEF Phases
  <2>2. /\ x.phase = phase /\ x.cur = w.cur /\ x.aborted = w.aborted /\ x.bad = w.bad
        /\ x.lost = w.lost /\ x.told = w.told /\ x.blind = w.blind /\ x.skip = w.skip
        /\ x.sites = w.sites /\ x.alone = w.alone
    BY <1>5 DEF Later
  <2>3. Sound(o, x)
    BY <1>2, <1>3, <2>2, CleaningSound
  <2>q. QED
    BY <1>1, <1>2, <1>4, <1>5, <2>1, <2>2, <2>3, OwnStep
<1>6. PICK y, stuck : stuck = w.stuck \ {w.cur} /\ y = [w EXCEPT !.stuck = stuck]
  OBVIOUS
<1>7. stuck \in SUBSET Sites
  BY <1>6, FieldTypes
<1>8. /\ y \in WorkerRecords /\ y.cur = w.cur /\ y.left = w.left
      /\ y = Later(w, w.phase, w.left, w.cur, w.mine, w.plan, w.aborted, w.bad, w.lost, stuck)
  <2>1. y = Later(w, w.phase, w.left, w.cur, w.mine, w.plan, w.aborted, w.bad, w.lost, stuck)
    BY <1>6 DEF Later, WorkerRecords
  <2>2. y \in WorkerRecords
    BY <1>7, <2>1, FieldTypes, LaterType
  <2>q. QED
    BY <2>1, <2>2 DEF Later
<1>9. \/ op' = [op EXCEPT ![o] = [y EXCEPT !.phase = "again"]]
      \/ op' = [op EXCEPT ![o] = NextSite(y)]
      \/ op' = [op EXCEPT ![o] = NextSite(w)]
  BY <1>1, <1>6 DEF Reread
<1>10. CASE op' = [op EXCEPT ![o] = [y EXCEPT !.phase = "again"]]
  <2>1. PICK x : x = [y EXCEPT !.phase = "again"]
    OBVIOUS
  <2>2. x = Later(w, "again", w.left, w.cur, w.mine, w.plan, w.aborted, w.bad, w.lost, stuck)
    BY <1>8, <2>1 DEF Later
  <2>q. QED
    BY <1>5, <1>7, <1>10, <2>1, <2>2, FieldTypes DEF Moves
<1>11. CASE op' = [op EXCEPT ![o] = NextSite(y)]
  <2>1. PICK x : x = NextSite(y)
    OBVIOUS
  <2>2. PICK phase \in {"report", "disable"}, left \in SUBSET Sites :
           x = Later(y, phase, left, y.cur, y.mine, y.plan, y.aborted, y.bad, y.lost, y.stuck)
    BY <1>8, <2>1, NextSiteIs
  <2>3. x = Later(w, phase, left, w.cur, w.mine, w.plan, w.aborted, w.bad, w.lost, stuck)
    BY <1>8, <2>2 DEF Later
  <2>q. QED
    BY <1>5, <1>7, <1>11, <2>1, <2>3 DEF Moves
<1>12. CASE op' = [op EXCEPT ![o] = NextSite(w)]
  <2>1. PICK x : x = NextSite(w)
    OBVIOUS
  <2>2. PICK phase \in {"report", "disable"}, left \in SUBSET Sites :
           x = Later(w, phase, left, w.cur, w.mine, w.plan, w.aborted, w.bad, w.lost, w.stuck)
    BY <2>1, NextSiteIs
  <2>q. QED
    BY <1>5, <1>12, <2>1, <2>2, FieldTypes DEF Moves
<1>q. QED
  BY <1>9, <1>10, <1>11, <1>12
-----------------------------------------------------------------------------
(* The migrates, as their worker sees them.                                  *)

(* An exception in the try block: a migrate that may run is ended first.     *)
LEMMA UnwindIs ==
    ASSUME NEW w \in WorkerRecords, NEW x, x = Unwind(w)
    PROVE  \E phase \in {"end", "report", "disable"}, left \in SUBSET Sites :
              /\ x = Later(w, phase, left, w.cur, w.mine, w.plan, TRUE, TRUE, w.lost, w.stuck)
              /\ w.plan # {} \/ w.kind = "migrate" => phase = "end"
<1>1. PICK y : y = [w EXCEPT !.aborted = TRUE, !.bad = TRUE]
  OBVIOUS
<1>2. y = Later(w, w.phase, w.left, w.cur, w.mine, w.plan, TRUE, TRUE, w.lost, w.stuck)
  BY <1>1 DEF Later, WorkerRecords
<1>3. /\ y.plan = w.plan /\ y.kind = w.kind /\ y.skip = w.skip /\ y.mine = w.mine
      /\ y.aborted = TRUE /\ y.pre = w.pre
  BY <1>2 DEF Later
<1>4. PICK left, phase : /\ left = ToDisable(y)
                         /\ phase = IF y.plan # {} \/ y.kind = "migrate" THEN "end"
                                    ELSE IF left = {} THEN "report" ELSE "disable"
  OBVIOUS
<1>5. left \in SUBSET Sites
  BY <1>3, <1>4, FieldTypes DEF ToDisable
<1>6. x = [y EXCEPT !.phase = phase, !.left = left]
  BY <1>1, <1>4 DEF Unwind
<1>7. x = Later(w, phase, left, w.cur, w.mine, w.plan, TRUE, TRUE, w.lost, w.stuck)
  <2>1. x = [w EXCEPT !.aborted = TRUE, !.bad = TRUE, !.phase = phase, !.left = left]
    BY <1>1, <1>6
  <2>q. QED
    BY ZenonT(60), <2>1 DEF Later, WorkerRecords
<1>q. QED
  BY <1>3, <1>4, <1>5, <1>7

LEMMA UnwindSound ==
    ASSUME NEW o \in Workers, NEW w \in WorkerRecords, NEW x, x = Unwind(w), Sound(o, w),
           w.phase \in {"pull", "discover", "record", "turnOn", "migrate", "stream", "locks"}
    PROVE  /\ x \in WorkerRecords /\ Sound(o, x)
           /\ x.phase \in {"end", "report", "disable"} /\ x.bad
           /\ x.alone = w.alone /\ x.skip = w.skip /\ x.sites = w.sites
<1>1. PICK phase \in {"end", "report", "disable"}, left \in SUBSET Sites :
         /\ x = Later(w, phase, left, w.cur, w.mine, w.plan, TRUE, TRUE, w.lost, w.stuck)
         /\ w.plan # {} \/ w.kind = "migrate" => phase = "end"
  BY UnwindIs
<1>2. x \in WorkerRecords
  <2>1. PICK true \in BOOLEAN : true = TRUE
    OBVIOUS
  <2>2. /\ phase \in Phases /\ w.mine \in SUBSET Sites /\ w.plan \in SUBSET Sites
        /\ w.lost \in SUBSET Sites /\ w.stuck \in SUBSET Sites /\ w.cur \in Sites \cup {NoOp}
    BY FieldTypes DEF Phases
  <2>3. x = Later(w, phase, left, w.cur, w.mine, w.plan, true, true, w.lost, w.stuck)
    BY <1>1, <2>1
  <2>q. QED
    BY <2>2, <2>3, LaterType
<1>3. /\ x.phase = phase /\ x.aborted = TRUE /\ x.bad = TRUE /\ x.lost = w.lost
      /\ x.told = w.told /\ x.blind = w.blind /\ x.alone = w.alone /\ x.skip = w.skip
      /\ x.sites = w.sites
  BY <1>1 DEF Later
<1>4. w.phase = "stream" => phase = "end"
  BY <1>1 DEF Sound, Shape, Migrating
<1>5. Shape(x)
  BY <1>3 DEF Shape, Starting, Gating, Migrating, Being, Aborting
<1>6. Accounted(o, x) /\ Covered(o, x) /\ Kept(o, x)
  BY <1>3, <1>4 DEF Sound, Accounted, Covered, Claims, Kept, Promising
<1>q. QED
  BY <1>2, <1>3, <1>5, <1>6 DEF Sound

(* A worker that is past its migrates, or gave up, stays sound when only the *)
(* world changes.                                                            *)
LEMMA StaysSound ==
    ASSUME NEW o \in Workers, NEW x, Sound(o, x), x.bad,
           x.phase \notin {"record", "turnOn", "migrate", "stream"},
           migrate'[o] = migrate[o],
           \A s \in Sites : migrate[o][s] # "none" /\ Named(s) => Named(s)'
    PROVE  Sound(o, x)'
<1>1. Shape(x)' /\ Kept(o, x)'
  BY DEF Sound, Shape, Starting, Gating, Migrating, Being, Aborting, Kept, Promising
<1>2. Accounted(o, x)' /\ Covered(o, x)'
  BY DEF Sound, Accounted, Covered, Claims
<1>q. QED
  BY <1>1, <1>2 DEF Sound

LEMMA InterruptStep ==
    ASSUME UpkeepAssumption, IInv, NEW o \in Workers, Interrupt(o)
    PROVE  IInv'
<1>1. PICK w \in WorkerRecords : w = op[o]
  BY DEF IInv
<1>2. PICK x : x = Unwind(w)
  OBVIOUS
<1>3. /\ w.phase \in {"pull", "discover", "record", "turnOn", "migrate", "stream", "locks"}
      /\ Active(o) /\ Sound(o, w) /\ Moves(o, x)
  BY <1>1, <1>2 DEF Interrupt, InTry, Active, Ended, IInv, Moves
<1>4. /\ x \in WorkerRecords /\ Sound(o, x)
      /\ x.phase \in {"end", "report", "disable"} /\ x.bad
      /\ x.alone = w.alone /\ x.skip = w.skip /\ x.sites = w.sites
  BY <1>2, <1>3, UnwindSound
<1>5. /\ UNCHANGED <<common, record, unnamed, lock, migrate, exit, behind, watch, byHand>>
      /\ \/ own' = own
         \/ w.phase = "turnOn" /\ own' = [own EXCEPT ![w.cur] = "on"]
  BY <1>1 DEF Interrupt, KeepFlags, KeepBench, KeepOthers
<1>6. op'[o] = x /\ \A p \in Workers \ {o} : op'[p] = op[p]
  BY <1>3 DEF Moves, IInv
<1>7. \A s \in Sites : Named(s) => Named(s)'
  BY <1>1, <1>4, <1>5, <1>6 DEF Named
<1>8. Sound(o, x)'
  BY <1>4, <1>5, <1>7, StaysSound
<1>9. w.phase = "turnOn" => w.cur \in Sites /\ Named(w.cur)
  BY <1>3, FieldTypes DEF Sound, Shape, Being, Covered, Claims
<1>10. Explained'
  BY <1>5, <1>7, <1>9 DEF Explained, IInv, WorldTypes
<1>11. WorldTypes'
  <2>1. faults' \in 0..MaxFaults
    BY FaultType DEF Interrupt, IInv, WorldTypes
  <2>2. own' \in [Sites -> {"unset", "off", "on"}]
    BY <1>5 DEF IInv, WorldTypes
  <2>q. QED
    BY <1>5, <2>1, <2>2 DEF IInv, WorldTypes
<1>q. QED
  BY <1>1, <1>3, <1>4, <1>5, <1>7, <1>8, <1>10, <1>11, WorkerStep

(* The next phase after a migrate whose end or loss is known.                *)
LEMMA AfterMigrateIs ==
    ASSUME NEW w \in WorkerRecords, NEW x, x = AfterMigrate(w)
    PROVE  /\ x = Later(w, x.phase, x.left, w.cur, w.mine, w.plan, w.aborted, w.bad, w.lost,
                        w.stuck)
           /\ x.phase \in {"migrate", "locks", "disable"} /\ x.left \in SUBSET Sites
           /\ x.phase = "migrate" => x.left = w.left
           /\ x.phase # "migrate" => w.left = {}
           /\ x.phase = "disable" => w.kind # "update"
<1>1. PICK phase, left :
          /\ phase = IF w.left # {} THEN "migrate" ELSE IF w.kind = "update" THEN "locks"
                     ELSE "disable"
          /\ left = IF w.left # {} THEN w.left ELSE IF w.kind = "update" THEN w.plan
                    ELSE w.mine
  OBVIOUS
<1>2. CASE w.left # {}
  <2>1. x = [w EXCEPT !.phase = phase]
    BY <1>1, <1>2 DEF AfterMigrate
  <2>2. x = Later(w, phase, left, w.cur, w.mine, w.plan, w.aborted, w.bad, w.lost, w.stuck)
    BY <1>1, <1>2, <2>1 DEF Later, WorkerRecords
  <2>3. x.phase = phase /\ x.left = left
    BY <2>2 DEF Later
  <2>q. QED
    BY <1>1, <1>2, <2>2, <2>3, FieldTypes
<1>3. CASE w.left = {}
  <2>1. x = [w EXCEPT !.phase = phase, !.left = left]
    BY <1>1, <1>3 DEF AfterMigrate
  <2>2. x = Later(w, phase, left, w.cur, w.mine, w.plan, w.aborted, w.bad, w.lost, w.stuck)
    BY ZenonT(60), <2>1 DEF Later, WorkerRecords
  <2>3. x.phase = phase /\ x.left = left
    BY <2>2 DEF Later
  <2>q. QED
    BY <1>1, <1>3, <2>2, <2>3, FieldTypes
<1>q. QED
  BY <1>2, <1>3

(* The fields of a worker that knows how its migrate ended, or that it       *)
(* cannot know.                                                              *)
Hears(w, bad, lost) == [w EXCEPT !.lost = lost, !.bad = bad, !.cur = NoOp]

LEMMA AfterStreamIs ==
    ASSUME NEW w \in WorkerRecords, NEW bad \in BOOLEAN, NEW lost \in SUBSET Sites, NEW y, NEW x,
           y = Hears(w, bad, lost), x = AfterMigrate(y)
    PROVE  /\ x \in WorkerRecords
           /\ x.mine = w.mine /\ x.plan = w.plan /\ x.aborted = w.aborted /\ x.bad = bad
           /\ x.lost = lost /\ x.told = w.told /\ x.blind = w.blind /\ x.skip = w.skip
           /\ x.sites = w.sites /\ x.alone = w.alone /\ x.kind = w.kind
           /\ x.phase \in {"migrate", "locks", "disable"}
           /\ x.phase = "migrate" => x.left = w.left
           /\ x.phase # "migrate" => w.left = {}
           /\ x.phase = "disable" => w.kind # "update"
<1>1. y = Later(w, w.phase, w.left, NoOp, w.mine, w.plan, w.aborted, bad, lost, w.stuck)
  BY DEF Hears, Later, WorkerRecords
<1>2. y \in WorkerRecords
  BY <1>1, FieldTypes, LaterType
<1>3. /\ x = Later(y, x.phase, x.left, y.cur, y.mine, y.plan, y.aborted, y.bad, y.lost, y.stuck)
      /\ x.phase \in {"migrate", "locks", "disable"} /\ x.left \in SUBSET Sites
      /\ x.phase = "migrate" => x.left = y.left
      /\ x.phase # "migrate" => y.left = {}
      /\ x.phase = "disable" => y.kind # "update"
  BY <1>2, AfterMigrateIs
<1>4. /\ y.left = w.left /\ y.cur = NoOp /\ y.mine = w.mine /\ y.plan = w.plan
      /\ y.aborted = w.aborted /\ y.bad = bad /\ y.lost = lost /\ y.stuck = w.stuck
      /\ y.told = w.told /\ y.blind = w.blind /\ y.skip = w.skip /\ y.sites = w.sites
      /\ y.alone = w.alone /\ y.kind = w.kind
  BY <1>1 DEF Later
<1>5. x \in WorkerRecords
  <2>1. /\ x.phase \in Phases /\ y.mine \in SUBSET Sites /\ y.plan \in SUBSET Sites
        /\ y.lost \in SUBSET Sites /\ y.stuck \in SUBSET Sites /\ y.cur \in Sites \cup {NoOp}
        /\ y.aborted \in BOOLEAN /\ y.bad \in BOOLEAN
    BY <1>2, <1>3, FieldTypes DEF Phases
  <2>q. QED
    BY <1>2, <1>3, <2>1, LaterType
<1>6. /\ x.mine = y.mine /\ x.plan = y.plan
      /\ x.aborted = y.aborted /\ x.bad = y.bad /\ x.lost = y.lost /\ x.told = y.told
      /\ x.blind = y.blind /\ x.skip = y.skip /\ x.sites = y.sites /\ x.alone = y.alone
      /\ x.kind = y.kind
  BY <1>3 DEF Later
<1>q. QED
  BY <1>3, <1>4, <1>5, <1>6

(* No worker hears the end of a migrate twice.                               *)
Read(o) == exit' = [exit EXCEPT ![o] = "none"]

LEMMA AfterStreamStep ==
    ASSUME UpkeepAssumption, IInv, NEW o \in Workers, NEW w \in WorkerRecords, w = op[o],
           w.phase = "stream", NEW bad \in BOOLEAN, NEW lost \in SUBSET Sites, NEW y, NEW x,
           y = Hears(w, bad, lost), x = AfterMigrate(y), Moves(o, x),
           w.bad => bad, bad \/ exit[o] = "ok", w.lost \subseteq lost,
           exit[o] # "none" \/ w.cur \in lost,
           UNCHANGED <<own, common, record, unnamed, lock, migrate, behind, watch, byHand>>,
           Read(o), faults' \in 0..MaxFaults
    PROVE  IInv'
<1>6. x \in WorkerRecords
  BY AfterStreamIs
<1>7. /\ x.mine = w.mine /\ x.plan = w.plan /\ x.aborted = w.aborted /\ x.bad = bad
      /\ x.lost = lost /\ x.told = w.told /\ x.blind = w.blind /\ x.skip = w.skip
      /\ x.sites = w.sites /\ x.alone = w.alone /\ x.kind = w.kind
  BY AfterStreamIs
<1>8. /\ x.phase \in {"migrate", "locks", "disable"}
      /\ x.phase = "migrate" => x.left = w.left
      /\ x.phase # "migrate" => w.left = {}
      /\ x.phase = "disable" => w.kind # "update"
  BY AfterStreamIs
<1>9. Sound(o, w) /\ Active(o)
  BY DEF IInv, Active, Ended
<1>10. op'[o] = x /\ \A p \in Workers \ {o} : op'[p] = op[p]
  BY DEF Moves, IInv
<1>11. \A s \in Sites : Named(s) => Named(s)'
  BY <1>7, <1>10 DEF Named
<1>12. Shape(x)
  <2>1. Migrating(w) /\ (w.aborted => w.bad)
    BY <1>9 DEF Sound, Shape, Aborting
  <2>q. QED
    BY <1>7, <1>8, <2>1 DEF Shape, Starting, Gating, Migrating, Being, Aborting
<1>13. Accounted(o, x)'
  BY <1>7, <1>9 DEF Sound, Accounted
<1>14. Covered(o, x)'
  BY <1>7, <1>8, <1>9, <1>11 DEF Sound, Covered, Claims
<1>15. Kept(o, x)'
  <2>1. SUFFICES ASSUME Promising(x)
                 PROVE  Gated(x)' /\ \A t \in x.sites : Migrated(o, x, t)' /\ Reopened(x, t)'
    BY DEF Kept, Promising
  <2>2. /\ Gated(w) /\ w.kind = "update" /\ exit[o] = "ok"
        /\ \A t \in w.sites : Migrated(o, w, t)
    BY <1>7, <1>9, <2>1 DEF Sound, Kept, Promising, Ended
  <2>3. Gated(x)'
    BY <1>7, <1>8, <2>2 DEF Gated
  <2>4. ASSUME NEW t \in x.sites PROVE Migrated(o, x, t)' /\ Reopened(x, t)'
    BY <1>7, <1>8, <2>2 DEF Migrated, Reopened
  <2>q. QED
    BY <2>3, <2>4
<1>16. Explained' /\ WorldTypes'
  <2>1. exit' \in [Workers -> {"none", "ok", "failed"}]
    BY DEF IInv, WorldTypes, Read
  <2>q. QED
    BY <1>11, <2>1 DEF IInv, WorldTypes, Explained
<1>17. \A p \in Workers \ {o} : migrate'[p] = migrate[p] /\ exit'[p] = exit[p]
  BY DEF IInv, WorldTypes, Read
<1>q. QED
  BY <1>6, <1>7, <1>9, <1>11, <1>12, <1>13, <1>14, <1>15, <1>16, <1>17, WorkerStep
  DEF Sound, Shape, Starting, Gating, Migrating, Being, Aborting
LEMMA ReadExitStep ==
    ASSUME UpkeepAssumption, IInv, NEW o \in Workers, ReadExit(o)
    PROVE  IInv'
<1>1. PICK w \in WorkerRecords : w = op[o]
  BY DEF IInv
<1>2. PICK bad : bad = (w.bad \/ exit[o] # "ok")
  OBVIOUS
<1>3. bad \in BOOLEAN /\ (w.bad => bad) /\ (bad \/ exit[o] = "ok")
  BY <1>2
<1>4. PICK y, x : y = Hears(w, bad, w.lost) /\ x = AfterMigrate(y)
  OBVIOUS
<1>5. w.phase = "stream" /\ exit[o] # "none" /\ w.lost \in SUBSET Sites
  BY <1>1, FieldTypes DEF ReadExit
<1>6. Moves(o, x)
  <2>1. op' = [op EXCEPT ![o] = AfterMigrate([w EXCEPT !.bad = bad, !.cur = NoOp])]
    BY <1>1, <1>2 DEF ReadExit
  <2>2. PICK z : z = [w EXCEPT !.bad = bad, !.cur = NoOp]
    OBVIOUS
  <2>3. y = z
    <3>1. y = Later(w, w.phase, w.left, NoOp, w.mine, w.plan, w.aborted, bad, w.lost, w.stuck)
      BY <1>4 DEF Hears, Later, WorkerRecords
    <3>2. z = Later(w, w.phase, w.left, NoOp, w.mine, w.plan, w.aborted, bad, w.lost, w.stuck)
      BY <2>2 DEF Later, WorkerRecords
    <3>q. QED
      BY <3>1, <3>2
  <2>q. QED
    BY <1>4, <2>1, <2>2, <2>3 DEF Moves
<1>7. /\ UNCHANGED <<own, common, record, unnamed, lock, migrate, behind, watch, byHand>>
      /\ Read(o) /\ faults' \in 0..MaxFaults
  BY FaultType DEF Read, ReadExit, KeepFlags, KeepOthers, IInv, WorldTypes
<1>q. QED
  BY SMTT(60), <1>1, <1>3, <1>4, <1>5, <1>6, <1>7, AfterStreamStep

LEMMA LoseStreamStep ==
    ASSUME UpkeepAssumption, IInv, NEW o \in Workers, LoseStream(o)
    PROVE  IInv'
<1>1. PICK w \in WorkerRecords : w = op[o]
  BY DEF IInv
<1>2. /\ UNCHANGED <<own, common, record, unnamed, lock, migrate, behind, watch, byHand>>
      /\ exit' = [exit EXCEPT ![o] = "none"] /\ faults' \in 0..MaxFaults
  BY FaultType DEF LoseStream, KeepFlags, KeepOthers, IInv, WorldTypes
<1>3. w.phase = "stream" /\ w.lost \in SUBSET Sites /\ Active(o) /\ Sound(o, w)
  BY <1>1, FieldTypes DEF LoseStream, Active, Ended, IInv
<1>4. w.cur \in Sites
  BY <1>3, FieldTypes DEF Sound, Shape, Being
<1>5. CASE w.kind = "migrate"
  <2>1. PICK x : x = Unwind(w)
    OBVIOUS
  <2>2. /\ x \in WorkerRecords /\ Sound(o, x)
        /\ x.phase \in {"end", "report", "disable"} /\ x.bad
        /\ x.alone = w.alone /\ x.skip = w.skip /\ x.sites = w.sites
    BY <1>3, <2>1, UnwindSound
  <2>3. Moves(o, x)
    BY <1>1, <1>5, <2>1 DEF LoseStream, Moves
  <2>4. op'[o] = x /\ \A p \in Workers \ {o} : op'[p] = op[p]
    BY <2>3 DEF Moves, IInv
  <2>5. \A s \in Sites : Named(s) => Named(s)'
    BY <1>1, <1>2, <2>2, <2>4 DEF Named
  <2>6. Sound(o, x)'
    BY <1>2, <2>2, <2>5, StaysSound
  <2>7. Explained' /\ WorldTypes'
    <3>1. exit' \in [Workers -> {"none", "ok", "failed"}]
      BY <1>2 DEF IInv, WorldTypes
    <3>q. QED
      BY <1>2, <2>5, <3>1 DEF IInv, WorldTypes, Explained
  <2>8. \A p \in Workers \ {o} : migrate'[p] = migrate[p] /\ exit'[p] = exit[p]
    BY <1>2 DEF IInv, WorldTypes
  <2>q. QED
    BY <1>1, <1>3, <2>2, <2>3, <2>5, <2>6, <2>7, <2>8, WorkerStep
<1>6. CASE w.kind # "migrate"
  <2>1. PICK bad \in BOOLEAN : bad = TRUE
    OBVIOUS
  <2>2. PICK lost, y, x : /\ lost = w.lost \cup {w.cur}
                          /\ y = Hears(w, bad, lost) /\ x = AfterMigrate(y)
    OBVIOUS
  <2>3. /\ lost \in SUBSET Sites /\ w.lost \subseteq lost /\ bad \in BOOLEAN
        /\ (w.bad => bad) /\ (bad \/ exit[o] = "ok") /\ (exit[o] # "none" \/ w.cur \in lost)
    BY <1>3, <1>4, <2>1, <2>2
  <2>4. Moves(o, x)
    BY <1>1, <1>6, <2>1, <2>2 DEF LoseStream, Moves, Hears
  <2>5. Read(o)
    BY <1>2 DEF Read
  <2>q. QED
    BY <1>1, <1>2, <1>3, <2>2, <2>3, <2>4, <2>5, AfterStreamStep, SMTT(60)
<1>q. QED
  BY <1>5, <1>6

LEMMA ExecMigrateStep ==
    ASSUME UpkeepAssumption, IInv, NEW o \in Workers, NEW s \in Sites, ExecMigrate(o, s)
    PROVE  IInv'
<1>1. PICK w \in WorkerRecords : w = op[o]
  BY DEF IInv
<1>2. PICK x : x = [w EXCEPT !.phase = "stream", !.cur = s, !.left = w.left \ {s}]
  OBVIOUS
<1>3. x = Later(w, "stream", w.left \ {s}, s, w.mine, w.plan, w.aborted, w.bad, w.lost, w.stuck)
  BY <1>2 DEF Later, WorkerRecords
<1>4. w.phase = "migrate" /\ w.left # {} /\ s \in w.left
  BY <1>1, FirstIn DEF ExecMigrate
<1>5. x \in WorkerRecords
  BY <1>3, FieldTypes, LaterType DEF Phases
<1>6. Moves(o, x)
  BY <1>1, <1>2 DEF ExecMigrate, Moves, IInv
<1>7. /\ UNCHANGED <<own, common, record, unnamed, lock, behind, watch, byHand>>
      /\ faults' \in 0..MaxFaults
      /\ migrate' = [migrate EXCEPT ![o][s] = "starting"]
      /\ exit' = [exit EXCEPT ![o] = "none"]
  BY FaultType DEF ExecMigrate, KeepFlags, KeepOthers, IInv, WorldTypes
<1>8. /\ x.phase = "stream" /\ x.left = w.left \ {s} /\ x.cur = s /\ x.mine = w.mine
      /\ x.plan = w.plan /\ x.aborted = w.aborted /\ x.bad = w.bad /\ x.lost = w.lost
      /\ x.told = w.told /\ x.blind = w.blind /\ x.skip = w.skip /\ x.sites = w.sites
      /\ x.alone = w.alone /\ x.kind = w.kind
  BY <1>3 DEF Later
<1>9. Sound(o, w) /\ Active(o)
  BY <1>1, <1>4 DEF IInv, Active, Ended
<1>10. /\ exit'[o] = "none" /\ migrate'[o][s] = "starting"
       /\ \A t \in Sites \ {s} : migrate'[o][t] = migrate[o][t]
       /\ \A p \in Workers \ {o} : migrate'[p] = migrate[p] /\ exit'[p] = exit[p]
       /\ migrate' \in [Workers -> [Sites -> {"none", "starting", "working"}]]
       /\ exit' \in [Workers -> {"none", "ok", "failed"}]
  BY <1>7 DEF IInv, WorldTypes
<1>11. op'[o] = x /\ \A p \in Workers \ {o} : op'[p] = op[p]
  BY <1>6 DEF Moves, IInv
<1>12. \A t \in Sites : Named(t) => Named(t)'
  BY <1>1, <1>7, <1>8, <1>11 DEF Named
<1>13. Shape(x)
  <2>1. Migrating(w) /\ (w.aborted => w.bad)
    BY <1>4, <1>9 DEF Sound, Shape, Aborting
  <2>q. QED
    BY <1>4, <1>8, <2>1 DEF Shape, Starting, Gating, Migrating, Being, Aborting
<1>14. Accounted(o, x)'
  BY <1>4, <1>8, <1>9, <1>10 DEF Sound, Accounted
<1>15. Covered(o, x)'
  BY <1>4, <1>8, <1>9, <1>10, <1>12 DEF Sound, Covered, Claims
<1>16. Kept(o, x)'
  <2>1. SUFFICES ASSUME Promising(x)
                 PROVE  Gated(x)' /\ \A t \in x.sites : Migrated(o, x, t)' /\ Reopened(x, t)'
    BY DEF Kept, Promising
  <2>2. Gated(w) /\ \A t \in w.sites : Migrated(o, w, t)
    BY <1>4, <1>8, <1>9, <2>1 DEF Sound, Kept, Promising, Ended
  <2>3. Gated(x)'
    BY <1>4, <1>8, <2>2 DEF Gated
  <2>4. ASSUME NEW t \in x.sites PROVE Migrated(o, x, t)' /\ Reopened(x, t)'
    BY <1>4, <1>7, <1>8, <1>10, <2>2 DEF Migrated, Reopened
  <2>q. QED
    BY <2>3, <2>4
<1>17. Explained' /\ WorldTypes'
  BY <1>7, <1>10, <1>12 DEF IInv, WorldTypes, Explained
<1>q. QED
  BY <1>1, <1>5, <1>6, <1>8, <1>9, <1>10, <1>12, <1>13, <1>14, <1>15, <1>16, <1>17, WorkerStep
  DEF Sound, Shape, Starting, Gating, Migrating, Being, Aborting
-----------------------------------------------------------------------------
(* Closing and opening.                                                      *)

(* A record goes only when its site stays named for all who may close it.    *)
LEMMA ForgetNames ==
    ASSUME UpkeepAssumption, IInv, NEW o, NEW s \in Sites, Forget(o, s),
           \A p \in Workers : op[p].skip => op'[p].skip /\ op[p].sites \subseteq op'[p].sites
    PROVE  /\ \A t \in Sites \ {s} : Named(t) => Named(t)'
           /\ own'[s] = "on" => s \in unnamed'
           /\ \A p \in Workers : migrate[p][s] # "none" => s \in unnamed'
           /\ \A p \in Workers \ {o} : Claims(op[p], s) => s \in unnamed'
           /\ unnamed \subseteq unnamed' /\ unnamed' \in SUBSET Sites
           /\ record' \in [Sites -> Workers \cup {NoOp}]
<1>1. record' = [record EXCEPT ![s] = NoOp] /\ record \in [Sites -> Workers \cup {NoOp}]
      /\ unnamed \in SUBSET Sites
  BY DEF Forget, IInv, WorldTypes
<1>2. /\ unnamed' = unnamed \/ unnamed' = unnamed \cup {s}
      /\ own'[s] = "on" \/ Endangered(o, s) => s \in unnamed'
  BY DEF Forget
<1>3. \A t \in Sites \ {s} : Named(t) => Named(t)'
  BY <1>1, <1>2 DEF Named
<1>4. ASSUME NEW p \in Workers, migrate[p][s] # "none" PROVE s \in unnamed'
  BY <1>2, <1>4 DEF Endangered, Running
<1>5. ASSUME NEW p \in Workers \ {o}, Claims(op[p], s) PROVE s \in unnamed'
  <2>1. Shape(op[p]) /\ op[p] \in WorkerRecords
    BY DEF IInv, Sound
  <2>2. s \in op[p].sites /\ Active(p)
    BY <1>5, <2>1 DEF Shape, Gating, Migrating, Being, Claims, Active, Ended
  <2>q. QED
    BY <1>2, <2>2 DEF Endangered
<1>q. QED
  BY <1>1, <1>2, <1>3, <1>4, <1>5

(* A step of a worker that takes a site out of maintenance, or drops a       *)
(* record, or does neither.                                                  *)
LEMMA OpenStep ==
    ASSUME UpkeepAssumption, IInv, NEW o \in Workers, NEW x \in WorkerRecords, Active(o),
           Moves(o, x), NEW s \in Sites,
           \/ TurnOff(o, s)
           \/ own' = own /\ Forget(o, s)
           \/ UNCHANGED <<own, record, unnamed>>,
           UNCHANGED <<common, lock, migrate, exit, behind, watch, byHand>>,
           faults' \in 0..MaxFaults, Sound(o, x)', x.alone = op[o].alone,
           x.skip = op[o].skip, x.sites = op[o].sites
    PROVE  IInv'
<1>1. op'[o] = x /\ \A p \in Workers \ {o} : op'[p] = op[p]
  BY DEF Moves, IInv
<1>2. \A p \in Workers : op[p].skip => op'[p].skip /\ op[p].sites \subseteq op'[p].sites
  BY <1>1
<1>3. CASE UNCHANGED <<own, record, unnamed>>
  <2>1. \A t \in Sites : Named(t) => Named(t)'
    BY <1>1, <1>3 DEF Named
  <2>2. Explained' /\ WorldTypes'
    BY <1>3, <2>1 DEF Explained, IInv, WorldTypes
  <2>q. QED
    BY <2>1, <2>2, WorkerStep
<1>4. CASE Forget(o, s) /\ (own' = own \/ own' = [own EXCEPT ![s] = "off"])
  <2>1. /\ \A t \in Sites \ {s} : Named(t) => Named(t)'
        /\ own'[s] = "on" => s \in unnamed'
        /\ \A p \in Workers : migrate[p][s] # "none" => s \in unnamed'
        /\ \A p \in Workers \ {o} : Claims(op[p], s) => s \in unnamed'
        /\ unnamed \subseteq unnamed' /\ unnamed' \in SUBSET Sites
        /\ record' \in [Sites -> Workers \cup {NoOp}]
    BY <1>2, <1>4, ForgetNames
  <2>2. own' \in [Sites -> {"unset", "off", "on"}] /\ \A t \in Sites \ {s} : own'[t] = own[t]
    BY <1>4, ZenonT(60) DEF IInv, WorldTypes
  <2>3. WorldTypes'
    BY <2>1, <2>2 DEF IInv, WorldTypes
  <2>4. ASSUME NEW t \in Sites, own'[t] = "on" PROVE t \in byHand' \/ Named(t)'
    BY <2>1, <2>2, <2>4 DEF IInv, Explained, Named
  <2>5. Explained'
    BY <2>4 DEF Explained
  <2>6. ASSUME NEW p \in Workers \ {o}, NEW t \in Sites,
               migrate[p][t] # "none" \/ Claims(op[p], t), Named(t)
        PROVE  Named(t)'
    <3>1. CASE t = s
      <4>1. s \in unnamed'
        BY <2>1, <2>6, <3>1
      <4>q. QED
        BY <3>1, <4>1 DEF Named
    <3>2. CASE t # s
      BY <2>1, <2>6, <3>2
    <3>q. QED
      BY <3>1, <3>2
  <2>q. QED
    BY <2>3, <2>5, <2>6, WorkerStep
<1>q. QED
  BY <1>3, <1>4 DEF TurnOff

LEMMA WriteRecordStep ==
    ASSUME UpkeepAssumption, IInv, NEW o \in Workers, NEW s \in Sites, WriteRecord(o, s)
    PROVE  IInv'
<1>1. PICK w \in WorkerRecords : w = op[o]
  BY DEF IInv
<1>2. PICK x : x = [w EXCEPT !.phase = "turnOn", !.cur = s]
  OBVIOUS
<1>3. x = Later(w, "turnOn", w.left, s, w.mine, w.plan, w.aborted, w.bad, w.lost, w.stuck)
  BY <1>2 DEF Later, WorkerRecords
<1>4. w.phase = "record" /\ w.left # {} /\ s \in w.left
  BY <1>1, FirstIn DEF WriteRecord
<1>5. x \in WorkerRecords
  BY <1>3, FieldTypes, LaterType DEF Phases
<1>6. Moves(o, x)
  BY <1>1, <1>2 DEF WriteRecord, Moves, IInv
<1>7. /\ UNCHANGED <<own, common, lock, migrate, exit, behind, watch, byHand>>
      /\ faults' \in 0..MaxFaults
      /\ \/ record' = [record EXCEPT ![s] = o] /\ unnamed' = unnamed
         \/ record' = record /\ unnamed' = unnamed \cup {s}
  BY FaultType DEF WriteRecord, KeepBench, KeepOthers, IInv, WorldTypes
<1>8. /\ x.phase = "turnOn" /\ x.left = w.left /\ x.cur = s /\ x.mine = w.mine
      /\ x.plan = w.plan /\ x.aborted = w.aborted /\ x.bad = w.bad /\ x.lost = w.lost
      /\ x.told = w.told /\ x.blind = w.blind /\ x.skip = w.skip /\ x.sites = w.sites
      /\ x.alone = w.alone /\ x.kind = w.kind
  BY <1>3 DEF Later
<1>9. Sound(o, w) /\ Active(o)
  BY <1>1, <1>4 DEF IInv, Active, Ended
<1>10. op'[o] = x /\ \A p \in Workers \ {o} : op'[p] = op[p]
  BY <1>6 DEF Moves, IInv
<1>11. /\ record' \in [Sites -> Workers \cup {NoOp}] /\ unnamed' \in SUBSET Sites
       /\ \A t \in Sites : Named(t) \/ t = s => Named(t)'
  <2>1. o # NoOp /\ record \in [Sites -> Workers \cup {NoOp}] /\ unnamed \in SUBSET Sites
    BY DEF UpkeepAssumption, IInv, WorldTypes
  <2>q. QED
    BY <1>1, <1>7, <1>8, <1>10, <2>1 DEF Named
<1>12. Shape(x)
  <2>1. Gating(w) /\ (w.aborted => w.bad)
    BY <1>4, <1>9 DEF Sound, Shape, Aborting
  <2>q. QED
    BY <1>4, <1>8, <2>1 DEF Shape, Starting, Gating, Migrating, Being, Aborting
<1>13. Accounted(o, x)' /\ Covered(o, x)'
  BY <1>4, <1>7, <1>8, <1>9, <1>11 DEF Sound, Accounted, Covered, Claims
<1>14. Kept(o, x)'
  BY <1>4, <1>8, <1>9 DEF Sound, Kept, Promising, Gated, Migrated, Reopened, Ended
<1>15. Explained' /\ WorldTypes'
  BY <1>7, <1>11 DEF IInv, WorldTypes, Explained
<1>q. QED
  BY <1>1, <1>5, <1>6, <1>7, <1>8, <1>9, <1>11, <1>12, <1>13, <1>14, <1>15, WorkerStep
  DEF Sound, Shape, Starting, Gating, Migrating, Being, Aborting
(* The next phase of a worker at the gate.                                   *)
LEMMA AfterEnableIs ==
    ASSUME NEW w \in WorkerRecords, NEW x, x = AfterEnable(w)
    PROVE  /\ x = Later(w, x.phase, x.left, w.cur, w.mine, x.plan, w.aborted, w.bad, w.lost,
                        w.stuck)
           /\ x.left \in SUBSET Sites /\ x.plan \in SUBSET Sites
           /\ \/ w.left # {} /\ x.phase = "record" /\ x.left = w.left
              \/ w.left = {} /\ w.mine = {} /\ x.phase = "report"
              \/ /\ w.left = {} /\ w.mine # {} /\ x.phase = "migrate"
                 /\ x.left = w.mine /\ x.plan = w.mine
<1>1. CASE w.left # {}
  <2>1. x = [w EXCEPT !.phase = "record"]
    BY <1>1 DEF AfterEnable
  <2>2. x = Later(w, "record", w.left, w.cur, w.mine, w.plan, w.aborted, w.bad, w.lost, w.stuck)
    BY <2>1 DEF Later, WorkerRecords
  <2>3. x.phase = "record" /\ x.left = w.left /\ x.plan = w.plan
    BY <2>2 DEF Later
  <2>q. QED
    BY <1>1, <2>2, <2>3, FieldTypes
<1>2. CASE w.left = {}
  <2>1. PICK phase : phase = IF w.mine = {} THEN "report" ELSE "migrate"
    OBVIOUS
  <2>2. x = [w EXCEPT !.phase = phase, !.left = w.mine, !.plan = w.mine]
    BY <1>2, <2>1 DEF AfterEnable
  <2>3. x = Later(w, phase, w.mine, w.cur, w.mine, w.mine, w.aborted, w.bad, w.lost, w.stuck)
    BY ZenonT(60), <2>2 DEF Later, WorkerRecords
  <2>4. x.phase = phase /\ x.left = w.mine /\ x.plan = w.mine
    BY <2>3 DEF Later
  <2>q. QED
    BY <1>2, <2>1, <2>3, <2>4, FieldTypes
<1>q. QED
  BY <1>1, <1>2

(* The fields of a worker that heard whether bench closed its site.          *)
Heard(w, x, left, mine, bad) ==
    /\ x \in WorkerRecords
    /\ x.mine = mine /\ x.aborted = w.aborted /\ x.bad = bad /\ x.lost = w.lost
    /\ x.told = w.told /\ x.blind = w.blind /\ x.skip = w.skip /\ x.sites = w.sites
    /\ x.alone = w.alone /\ x.kind = w.kind
    /\ \/ left # {} /\ x.phase = "record" /\ x.left = left
       \/ left = {} /\ mine = {} /\ x.phase = "report"
       \/ left = {} /\ mine # {} /\ x.phase = "migrate" /\ x.left = mine /\ x.plan = mine

LEMMA TurnOnIs ==
    ASSUME NEW w \in WorkerRecords, NEW left \in SUBSET Sites, NEW mine \in SUBSET Sites,
           NEW bad \in BOOLEAN, NEW y, NEW x,
           y = Later(w, w.phase, left, w.cur, mine, w.plan, w.aborted, bad, w.lost, w.stuck),
           x = AfterEnable(y)
    PROVE  Heard(w, x, left, mine, bad)
<1>1. y \in WorkerRecords
  BY FieldTypes, LaterType
<1>2. /\ x = Later(y, x.phase, x.left, y.cur, y.mine, x.plan, y.aborted, y.bad, y.lost, y.stuck)
      /\ x.left \in SUBSET Sites /\ x.plan \in SUBSET Sites
      /\ \/ y.left # {} /\ x.phase = "record" /\ x.left = y.left
         \/ y.left = {} /\ y.mine = {} /\ x.phase = "report"
         \/ /\ y.left = {} /\ y.mine # {} /\ x.phase = "migrate"
            /\ x.left = y.mine /\ x.plan = y.mine
  BY <1>1, AfterEnableIs
<1>3. /\ y.left = left /\ y.mine = mine /\ y.aborted = w.aborted /\ y.bad = bad
      /\ y.lost = w.lost /\ y.told = w.told /\ y.blind = w.blind /\ y.skip = w.skip
      /\ y.sites = w.sites /\ y.alone = w.alone /\ y.kind = w.kind
  BY DEF Later
<1>4. x \in WorkerRecords
  <2>1. /\ x.phase \in Phases /\ y.mine \in SUBSET Sites /\ y.lost \in SUBSET Sites
        /\ y.stuck \in SUBSET Sites /\ y.cur \in Sites \cup {NoOp}
        /\ y.aborted \in BOOLEAN /\ y.bad \in BOOLEAN
    BY <1>1, <1>2, FieldTypes DEF Phases
  <2>q. QED
    BY <1>1, <1>2, <2>1, LaterType
<1>5. /\ x.mine = y.mine /\ x.aborted = y.aborted /\ x.bad = y.bad /\ x.lost = y.lost
      /\ x.told = y.told /\ x.blind = y.blind /\ x.skip = y.skip /\ x.sites = y.sites
      /\ x.alone = y.alone /\ x.kind = y.kind
  BY <1>2 DEF Later
<1>q. QED
  BY <1>2, <1>3, <1>4, <1>5 DEF Heard

LEMMA TurnOnStep ==
    ASSUME UpkeepAssumption, IInv, NEW o \in Workers, TurnOn(o)
    PROVE  IInv'
<1>1. PICK w \in WorkerRecords : w = op[o]
  BY DEF IInv
<1>2. PICK s, left : s = w.cur /\ left = w.left \ {s}
  OBVIOUS
<1>3. w.phase = "turnOn" /\ Active(o) /\ Sound(o, w)
  BY <1>1 DEF TurnOn, Active, Ended, IInv
<1>4. /\ s \in w.left /\ s \in Sites /\ left \in SUBSET Sites /\ ~w.skip
      /\ w.left \cup w.mine \subseteq w.sites /\ w.left \cap w.mine = {}
      /\ (w.aborted => w.bad) /\ Named(s)
  BY <1>2, <1>3, FieldTypes DEF Sound, Shape, Being, Gating, Aborting, Covered, Claims
<1>5. /\ UNCHANGED <<common, lock, migrate, exit, behind, watch, byHand>>
      /\ faults' \in 0..MaxFaults
  BY FaultType DEF TurnOn, KeepBench, KeepOthers, IInv, WorldTypes
<1>6. CASE /\ own' = [own EXCEPT ![s] = "on"] /\ UNCHANGED <<record, unnamed>>
           /\ op' = [op EXCEPT ![o] =
                 AfterEnable([[w EXCEPT !.left = left] EXCEPT !.mine = @ \cup {s}])]
  <2>1. PICK mine, y, x : /\ mine = w.mine \cup {s}
                          /\ y = [w EXCEPT !.left = left, !.mine = mine]
                          /\ x = AfterEnable(y)
    OBVIOUS
  <2>2. Moves(o, x)
    <3>1. [w EXCEPT !.left = left].mine = w.mine
      BY DEF WorkerRecords
    <3>q. QED
      BY <1>6, <2>1, <3>1 DEF Moves
  <2>3. y = Later(w, w.phase, left, w.cur, mine, w.plan, w.aborted, w.bad, w.lost, w.stuck)
    BY <2>1, ZenonT(60) DEF Later, WorkerRecords
  <2>4. mine \in SUBSET Sites /\ w.bad \in BOOLEAN
    BY <1>4, <2>1, FieldTypes
  <2>5. /\ x \in WorkerRecords
        /\ x.mine = mine /\ x.aborted = w.aborted /\ x.bad = w.bad /\ x.lost = w.lost
        /\ x.told = w.told /\ x.blind = w.blind /\ x.skip = w.skip /\ x.sites = w.sites
        /\ x.alone = w.alone /\ x.kind = w.kind
        /\ \/ left # {} /\ x.phase = "record" /\ x.left = left
           \/ left = {} /\ mine = {} /\ x.phase = "report"
           \/ /\ left = {} /\ mine # {} /\ x.phase = "migrate"
              /\ x.left = mine /\ x.plan = mine
    <3>1. PICK bad : bad = w.bad /\ bad \in BOOLEAN
      BY <2>4
    <3>2. y = Later(w, w.phase, left, w.cur, mine, w.plan, w.aborted, bad, w.lost, w.stuck)
      BY <2>3, <3>1
    <3>3. Heard(w, x, left, mine, bad)
      <4>1. left \in SUBSET Sites /\ mine \in SUBSET Sites /\ x = AfterEnable(y)
        BY <1>4, <2>1, <2>4
      <4>q. QED
        BY <3>1, <3>2, <4>1, TurnOnIs
    <3>q. QED
      BY <3>1, <3>3 DEF Heard
  <2>6. op'[o] = x /\ \A p \in Workers \ {o} : op'[p] = op[p]
    BY <2>2 DEF Moves, IInv
  <2>7. \A t \in Sites : Named(t) => Named(t)'
    BY <1>1, <1>6, <2>5, <2>6, ZenonT(60) DEF Named
  <2>8. Shape(x)
    BY <1>2, <1>4, <2>1, <2>5 DEF Shape, Starting, Gating, Migrating, Being, Aborting
  <2>9. Accounted(o, x)' /\ Covered(o, x)'
    BY <1>3, <1>4, <1>5, <2>1, <2>5, <2>7 DEF Sound, Accounted, Covered, Claims
  <2>10. Kept(o, x)'
    <3>1. SUFFICES ASSUME Promising(x)
                   PROVE  Gated(x)' /\ \A t \in x.sites : Migrated(o, x, t)' /\ Reopened(x, t)'
      BY DEF Kept, Promising
    <3>2. w.sites \subseteq w.left \cup w.mine
      BY <1>3, <2>5, <3>1 DEF Sound, Kept, Promising, Gated, Ended
    <3>3. w.sites \subseteq left \cup mine
      BY <1>2, <2>1, <3>2
    <3>q. QED
      BY <2>5, <3>3 DEF Gated, Migrated, Reopened
  <2>11. Explained' /\ WorldTypes'
    BY <1>4, <1>5, <1>6, <2>7 DEF IInv, WorldTypes, Explained
  <2>q. QED
    BY <1>1, <1>3, <1>5, <2>2, <2>5, <2>7, <2>8, <2>9, <2>10, <2>11, WorkerStep
    DEF Sound, Shape, Starting, Gating, Migrating, Being, Aborting
<1>7. CASE /\ UNCHANGED own /\ Forget(o, s)
           /\ op' = [op EXCEPT ![o] =
                 AfterEnable([[w EXCEPT !.left = left] EXCEPT !.bad = TRUE])]
  <2>1. PICK bad, y, x : /\ bad = TRUE /\ bad \in BOOLEAN
                         /\ y = [w EXCEPT !.left = left, !.bad = bad]
                         /\ x = AfterEnable(y)
    OBVIOUS
  <2>2. Moves(o, x)
    BY <1>7, <2>1 DEF Moves
  <2>3. y = Later(w, w.phase, left, w.cur, w.mine, w.plan, w.aborted, bad, w.lost, w.stuck)
    BY <2>1, ZenonT(60) DEF Later, WorkerRecords
  <2>4. w.mine \in SUBSET Sites
    BY FieldTypes
  <2>5. /\ x \in WorkerRecords
        /\ x.mine = w.mine /\ x.aborted = w.aborted /\ x.bad = bad /\ x.lost = w.lost
        /\ x.told = w.told /\ x.blind = w.blind /\ x.skip = w.skip /\ x.sites = w.sites
        /\ x.alone = w.alone /\ x.kind = w.kind
        /\ \/ left # {} /\ x.phase = "record" /\ x.left = left
           \/ left = {} /\ w.mine = {} /\ x.phase = "report"
           \/ /\ left = {} /\ w.mine # {} /\ x.phase = "migrate"
              /\ x.left = w.mine /\ x.plan = w.mine
    <3>1. Heard(w, x, left, w.mine, bad)
      BY <1>4, <2>1, <2>3, <2>4, TurnOnIs
    <3>q. QED
      BY <3>1 DEF Heard
  <2>6. op'[o] = x /\ \A p \in Workers \ {o} : op'[p] = op[p]
    BY <2>2 DEF Moves, IInv
  <2>7. \A p \in Workers : op[p].skip => op'[p].skip /\ op[p].sites \subseteq op'[p].sites
    BY <1>1, <2>5, <2>6
  <2>8. /\ \A t \in Sites \ {s} : Named(t) => Named(t)'
        /\ \A p \in Workers : migrate[p][s] # "none" => s \in unnamed'
    BY <1>4, <1>7, <2>7, ForgetNames
  <2>9. Shape(x)
    BY ZenonT(60), <1>2, <1>4, <2>1, <2>5 DEF Shape, Starting, Gating, Migrating, Being, Aborting
  <2>10. Accounted(o, x)'
    BY <1>3, <1>5, <2>5 DEF Sound, Accounted
  <2>11. ASSUME NEW t \in Sites, migrate[o][t] # "none" \/ Claims(x, t) PROVE Named(t)'
    <3>1. CASE t = s
      <4>1. ~Claims(x, s)
        BY <1>2, <1>4, <2>5 DEF Claims
      <4>q. QED
        BY <2>8, <2>11, <3>1, <4>1 DEF Named
    <3>2. CASE t # s
      <4>1. Claims(x, t) => Claims(w, t)
        BY <1>3, <2>5 DEF Claims
      <4>2. Named(t)
        BY <1>3, <2>11, <4>1 DEF Sound, Covered
      <4>q. QED
        BY <2>8, <3>2, <4>2
    <3>q. QED
      BY <3>1, <3>2
  <2>12. Covered(o, x)' /\ Kept(o, x)'
    BY <1>5, <2>1, <2>5, <2>11 DEF Covered, Claims, Kept, Promising
  <2>q. QED
    BY <1>1, <1>3, <1>4, <1>5, <1>7, <2>2, <2>5, <2>9, <2>10, <2>12, OpenStep
    DEF Sound, Shape, Starting, Gating, Migrating, Being, Aborting
<1>q. QED
  BY <1>1, <1>2, <1>6, <1>7 DEF TurnOn
(* The fields of a worker that is done with one site of its clean-up.        *)
Cleaned(w, x, s, stuck) ==
    /\ x \in WorkerRecords
    /\ x.aborted = w.aborted /\ x.bad = w.bad /\ x.lost = w.lost /\ x.told = w.told
    /\ x.blind = w.blind /\ x.skip = w.skip /\ x.sites = w.sites /\ x.alone = w.alone
    /\ x.kind = w.kind /\ x.stuck = stuck /\ x.left = w.left \ {s}
    /\ x.phase \in {"report", "disable"} /\ (x.phase = "report" => x.left = {})

Cleaning(w, s, stuck) ==
    Later(w, w.phase, w.left, s, w.mine, w.plan, w.aborted, w.bad, w.lost, stuck)

LEMMA CleanedIs ==
    ASSUME NEW w \in WorkerRecords, NEW s \in Sites, NEW stuck \in SUBSET Sites, NEW y, NEW x,
           y = Cleaning(w, s, stuck), x = NextSite(y)
    PROVE  Cleaned(w, x, s, stuck)
<1>1. y \in WorkerRecords
  BY FieldTypes, LaterType DEF Cleaning
<1>2. PICK phase \in {"report", "disable"}, left \in SUBSET Sites :
          /\ x = Later(y, phase, left, y.cur, y.mine, y.plan, y.aborted, y.bad, y.lost, y.stuck)
          /\ left = y.left \ {y.cur} /\ (phase = "report" => left = {})
  BY <1>1, NextSiteIs
<1>3. /\ y.left = w.left /\ y.cur = s /\ y.aborted = w.aborted /\ y.bad = w.bad
      /\ y.lost = w.lost /\ y.stuck = stuck /\ y.told = w.told /\ y.blind = w.blind
      /\ y.skip = w.skip /\ y.sites = w.sites /\ y.alone = w.alone /\ y.kind = w.kind
  BY DEF Cleaning, Later
<1>4. x \in WorkerRecords
  <2>1. /\ phase \in Phases /\ y.mine \in SUBSET Sites /\ y.plan \in SUBSET Sites
        /\ y.lost \in SUBSET Sites /\ y.stuck \in SUBSET Sites /\ y.cur \in Sites \cup {NoOp}
        /\ y.aborted \in BOOLEAN /\ y.bad \in BOOLEAN
    BY <1>1, FieldTypes DEF Phases
  <2>q. QED
    BY <1>1, <1>2, <2>1, LaterType
<1>5. /\ x.phase = phase /\ x.left = left /\ x.aborted = y.aborted /\ x.bad = y.bad
      /\ x.lost = y.lost /\ x.told = y.told /\ x.blind = y.blind /\ x.skip = y.skip
      /\ x.sites = y.sites /\ x.alone = y.alone /\ x.kind = y.kind /\ x.stuck = y.stuck
  BY <1>2 DEF Later
<1>q. QED
  BY <1>2, <1>3, <1>4, <1>5 DEF Cleaned

LEMMA CleanedSound ==
    ASSUME NEW o \in Workers, NEW w, NEW x, NEW s, NEW stuck, Sound(o, w), w.phase = "disable",
           ~w.aborted, Cleaned(w, x, s, stuck), w.stuck \subseteq stuck,
           migrate' = migrate, behind' = behind,
           \A t \in Sites : migrate[o][t] # "none" /\ Named(t) => Named(t)',
           \A t \in Sites : Opened(t) => Opened(t)',
           s \in stuck \/ Opened(s)', w.sites \subseteq Sites
    PROVE  Sound(o, x)'
<1>1. /\ x.aborted = w.aborted /\ x.bad = w.bad /\ x.lost = w.lost /\ x.told = w.told
      /\ x.blind = w.blind /\ x.skip = w.skip /\ x.sites = w.sites /\ x.alone = w.alone
      /\ x.kind = w.kind /\ x.stuck = stuck /\ x.left = w.left \ {s}
      /\ x.phase \in {"report", "disable"} /\ (x.phase = "report" => x.left = {})
  BY DEF Cleaned
<1>2. Shape(x)'
  BY <1>1 DEF Shape, Starting, Gating, Migrating, Being, Aborting
<1>3. Accounted(o, x)' /\ Covered(o, x)'
  BY <1>1 DEF Sound, Accounted, Covered, Claims
<1>4. Kept(o, x)'
  <2>1. SUFFICES ASSUME Promising(x)
                 PROVE  Gated(x)' /\ \A t \in x.sites : Migrated(o, x, t)' /\ Reopened(x, t)'
    BY DEF Kept, Promising
  <2>2. Gated(w) /\ \A t \in w.sites : Migrated(o, w, t) /\ Reopened(w, t)
    BY <1>1, <2>1 DEF Sound, Kept, Promising, Ended
  <2>3. Gated(x)'
    BY <1>1, <2>2 DEF Gated
  <2>4. ASSUME NEW t \in x.sites PROVE Migrated(o, x, t)'
    BY <1>1, <2>2 DEF Migrated
  <2>5. ASSUME NEW t \in x.sites PROVE x.skip \/ t \in x.stuck \/ Opened(t)' \/ t \in x.left
    BY <1>1, <2>2 DEF Reopened
  <2>6. x.phase = "report" => x.left = {}
    BY <1>1
  <2>q. QED
    BY <2>3, <2>4, <2>5, <2>6 DEF Reopened
<1>q. QED
  BY <1>2, <1>3, <1>4 DEF Sound
(* What opening a site leaves named and open.                                *)
LEMMA OpenNames ==
    ASSUME UpkeepAssumption, IInv, NEW o \in Workers, NEW x \in WorkerRecords, Moves(o, x),
           NEW s \in Sites, TurnOff(o, s) \/ UNCHANGED <<own, record, unnamed>>,
           x.skip = op[o].skip, x.sites = op[o].sites
    PROVE  \A t \in Sites : migrate[o][t] # "none" /\ Named(t) => Named(t)'
<1>1. op'[o] = x /\ \A p \in Workers \ {o} : op'[p] = op[p]
  BY DEF Moves, IInv
<1>2. CASE UNCHANGED <<own, record, unnamed>>
  BY <1>1, <1>2 DEF Named
<1>3. CASE Forget(o, s)
  <2>1. \A p \in Workers : op[p].skip => op'[p].skip /\ op[p].sites \subseteq op'[p].sites
    BY <1>1
  <2>2. /\ \A t \in Sites \ {s} : Named(t) => Named(t)'
        /\ \A p \in Workers : migrate[p][s] # "none" => s \in unnamed'
    BY <1>3, <2>1, ForgetNames
  <2>q. QED
    BY <2>2 DEF Named
<1>q. QED
  BY <1>2, <1>3 DEF TurnOff

LEMMA OpenOpens ==
    ASSUME UpkeepAssumption, IInv, NEW o \in Workers, NEW x \in WorkerRecords, Moves(o, x),
           NEW s \in Sites, TurnOff(o, s) \/ UNCHANGED <<own, record, unnamed>>,
           x.skip = op[o].skip, x.sites = op[o].sites, UNCHANGED <<migrate, byHand>>
    PROVE  /\ \A t \in Sites : Opened(t) => Opened(t)'
           /\ TurnOff(o, s) => Opened(s)'
<1>1. op'[o] = x /\ \A p \in Workers \ {o} : op'[p] = op[p]
  BY DEF Moves, IInv
<1>2. CASE UNCHANGED <<own, record, unnamed>> /\ ~TurnOff(o, s)
  BY <1>2 DEF Opened, Running
<1>3. CASE TurnOff(o, s)
  <2>1. \A p \in Workers : op[p].skip => op'[p].skip /\ op[p].sites \subseteq op'[p].sites
    BY <1>1
  <2>2. /\ \A p \in Workers : migrate[p][s] # "none" => s \in unnamed'
        /\ unnamed \subseteq unnamed'
    BY <1>3, <2>1, ForgetNames DEF TurnOff
  <2>3. own'[s] = "off" /\ \A t \in Sites \ {s} : own'[t] = own[t]
    BY <1>3 DEF TurnOff, IInv, WorldTypes
  <2>4. Opened(s)'
    BY <2>2, <2>3 DEF Opened, Running
  <2>5. ASSUME NEW t \in Sites \ {s}, Opened(t) PROVE Opened(t)'
    BY <2>2, <2>3, <2>5 DEF Opened, Running
  <2>q. QED
    BY <2>4, <2>5
<1>q. QED
  BY <1>2, <1>3

LEMMA DisableStep ==
    ASSUME UpkeepAssumption, IInv, NEW o \in Workers, NEW s \in Sites, Disable(o, s)
    PROVE  IInv'
<1>1. PICK w \in WorkerRecords : w = op[o]
  BY DEF IInv
<1>2. /\ w.phase = "disable" /\ Active(o) /\ Sound(o, w) /\ w.stuck \in SUBSET Sites
      /\ w.sites \subseteq Sites
  BY <1>1, FieldTypes DEF Disable, Active, Ended, IInv
<1>3. /\ UNCHANGED <<common, lock, migrate, exit, behind, watch, byHand>>
      /\ faults' \in 0..MaxFaults
  BY SMTT(60), FaultType DEF Disable, KeepBench, KeepOthers, IInv, WorldTypes
<1>4. PICK stuck \in SUBSET Sites :
          /\ \/ TurnOff(o, s) /\ stuck = w.stuck
             \/ UNCHANGED <<own, record, unnamed>> /\ stuck = w.stuck \cup {s}
          /\ op' = [op EXCEPT ![o] =
                IF w.aborted THEN [w EXCEPT !.stuck = stuck, !.cur = s, !.phase = "reread"]
                ELSE NextSite([w EXCEPT !.stuck = stuck, !.cur = s])]
  <2>1. CASE TurnOff(o, s) /\ op' = [op EXCEPT ![o] =
                IF w.aborted THEN [w EXCEPT !.phase = "reread", !.cur = s]
                ELSE NextSite([w EXCEPT !.cur = s])]
    <3>1. PICK y, z : y = [w EXCEPT !.cur = s] /\ z = [w EXCEPT !.phase = "reread", !.cur = s]
      OBVIOUS
    <3>2. y = [w EXCEPT !.stuck = w.stuck, !.cur = s]
      BY <3>1 DEF WorkerRecords
    <3>3. z = [w EXCEPT !.stuck = w.stuck, !.cur = s, !.phase = "reread"]
      BY <3>1 DEF WorkerRecords
    <3>q. QED
      BY <1>2, <2>1, <3>1, <3>2, <3>3
  <2>2. CASE UNCHANGED <<own, record, unnamed>> /\ op' = [op EXCEPT ![o] =
                IF w.aborted THEN [Stuck(o, s) EXCEPT !.phase = "reread"]
                ELSE NextSite(Stuck(o, s))]
    <3>1. Stuck(o, s) = [w EXCEPT !.stuck = w.stuck \cup {s}, !.cur = s]
      BY <1>1 DEF Stuck
    <3>2. w.stuck \cup {s} \in SUBSET Sites
      BY <1>2
    <3>q. QED
      BY <2>2, <3>1, <3>2
  <2>q. QED
    BY <1>1, <2>1, <2>2, ZenonT(60) DEF Disable
<1>5. CASE w.aborted
  <2>1. PICK x : x = [w EXCEPT !.stuck = stuck, !.cur = s, !.phase = "reread"]
    OBVIOUS
  <2>2. x = Later(w, "reread", w.left, s, w.mine, w.plan, w.aborted, w.bad, w.lost, stuck)
    BY <2>1 DEF Later, WorkerRecords
  <2>3. x \in WorkerRecords
    BY <2>2, FieldTypes, LaterType DEF Phases
  <2>4. Moves(o, x)
    BY <1>4, <1>5, <2>1 DEF Moves
  <2>5. /\ x.phase = "reread" /\ x.cur = s /\ x.aborted = w.aborted /\ x.bad = w.bad
        /\ x.lost = w.lost /\ x.told = w.told /\ x.blind = w.blind /\ x.skip = w.skip
        /\ x.sites = w.sites /\ x.alone = w.alone
    BY <2>2 DEF Later
  <2>6. Sound(o, x)
    BY <1>2, <1>5, <2>5, CleaningSound
  <2>7. w.bad
    BY <1>2, <1>5 DEF Sound, Shape, Aborting
  <2>8. \A t \in Sites : migrate[o][t] # "none" /\ Named(t) => Named(t)'
    BY <1>1, <1>4, <2>3, <2>4, <2>5, OpenNames
  <2>9. Sound(o, x)'
    BY <1>3, <2>5, <2>6, <2>7, <2>8, StaysSound
  <2>q. QED
    BY <1>1, <1>2, <1>3, <1>4, <2>3, <2>4, <2>5, <2>9, OpenStep
<1>6. CASE ~w.aborted
  <2>1. PICK y, x : y = [w EXCEPT !.stuck = stuck, !.cur = s] /\ x = NextSite(y)
    OBVIOUS
  <2>2. y = Cleaning(w, s, stuck)
    BY <2>1 DEF Cleaning, Later, WorkerRecords
  <2>3. Cleaned(w, x, s, stuck)
    BY <2>1, <2>2, CleanedIs
  <2>4. Moves(o, x)
    BY <1>4, <1>6, <2>1 DEF Moves
  <2>5. x \in WorkerRecords /\ x.skip = w.skip /\ x.sites = w.sites /\ x.alone = w.alone
    BY <2>3 DEF Cleaned
  <2>6. \A t \in Sites : migrate[o][t] # "none" /\ Named(t) => Named(t)'
    BY <1>1, <1>4, <2>4, <2>5, OpenNames
  <2>7. /\ \A t \in Sites : Opened(t) => Opened(t)'
        /\ s \in stuck \/ Opened(s)'
    BY <1>1, <1>3, <1>4, <2>4, <2>5, OpenOpens
  <2>8. Sound(o, x)'
    BY <1>2, <1>3, <1>4, <1>6, <2>3, <2>6, <2>7, CleanedSound
  <2>q. QED
    BY <1>1, <1>2, <1>3, <1>4, <2>4, <2>5, <2>8, OpenStep
<1>q. QED
  BY <1>5, <1>6

LEMMA DisableAgainStep ==
    ASSUME UpkeepAssumption, IInv, NEW o \in Workers, DisableAgain(o)
    PROVE  IInv'
<1>1. PICK w \in WorkerRecords : w = op[o]
  BY DEF IInv
<1>2. /\ w.phase = "again" /\ Active(o) /\ Sound(o, w) /\ w.stuck \in SUBSET Sites
  BY <1>1, FieldTypes DEF DisableAgain, Active, Ended, IInv
<1>3. w.cur \in Sites /\ w.aborted /\ w.bad
  BY <1>2 DEF Sound, Shape, Being, Aborting
<1>4. PICK s \in Sites : s = w.cur
  BY <1>3
<1>5. /\ UNCHANGED <<common, lock, migrate, exit, behind, watch, byHand>>
      /\ faults' \in 0..MaxFaults
  BY FaultType DEF DisableAgain, KeepBench, KeepOthers, IInv, WorldTypes
<1>6. PICK stuck \in SUBSET Sites :
          /\ TurnOff(o, s) \/ UNCHANGED <<own, record, unnamed>>
          /\ op' = [op EXCEPT ![o] = NextSite([w EXCEPT !.stuck = stuck, !.cur = s])]
  <2>1. [w EXCEPT !.stuck = w.stuck, !.cur = s] = w
    BY <1>4 DEF WorkerRecords
  <2>2. Stuck(o, s) = [w EXCEPT !.stuck = w.stuck \cup {s}, !.cur = s]
    BY <1>1 DEF Stuck
  <2>3. w.stuck \cup {s} \in SUBSET Sites
    BY <1>2
  <2>q. QED
    BY ZenonT(60), <1>1, <1>2, <1>4, <2>1, <2>2, <2>3 DEF DisableAgain
<1>7. PICK y, x : y = [w EXCEPT !.stuck = stuck, !.cur = s] /\ x = NextSite(y)
  OBVIOUS
<1>8. y = Cleaning(w, s, stuck)
  BY <1>7 DEF Cleaning, Later, WorkerRecords
<1>9. Cleaned(w, x, s, stuck)
  BY <1>7, <1>8, CleanedIs
<1>10. Moves(o, x)
  BY <1>6, <1>7 DEF Moves
<1>11. /\ x \in WorkerRecords /\ x.skip = w.skip /\ x.sites = w.sites /\ x.alone = w.alone
       /\ x.aborted = w.aborted /\ x.bad = w.bad /\ x.lost = w.lost /\ x.told = w.told
       /\ x.blind = w.blind /\ x.phase \in {"report", "disable"}
  BY <1>9 DEF Cleaned
<1>12. Sound(o, x)
  BY <1>2, <1>3, <1>11, CleaningSound
<1>13. \A t \in Sites : migrate[o][t] # "none" /\ Named(t) => Named(t)'
  BY <1>1, <1>6, <1>10, <1>11, OpenNames
<1>14. Sound(o, x)'
  BY <1>3, <1>5, <1>11, <1>12, <1>13, StaysSound
<1>q. QED
  BY <1>1, <1>2, <1>5, <1>6, <1>10, <1>11, <1>14, OpenStep
-----------------------------------------------------------------------------
(* Beginnings.                                                               *)

(* The fields of a worker that begins.                                       *)
Begins(w) ==
    /\ w \in WorkerRecords /\ w.phase \in {"record", "report", "probe", "pull"}
    /\ w.mine = {} /\ w.aborted = FALSE
    /\ w.phase = "record" => ~w.skip /\ w.left = w.sites
    /\ w.phase # "record" => w.sites = {}

(* All but the flag that says whether a worker is alone.                     *)
Same(w, x) ==
    /\ x \in WorkerRecords
    /\ x.phase = w.phase /\ x.kind = w.kind /\ x.skip = w.skip /\ x.sites = w.sites
    /\ x.left = w.left /\ x.cur = w.cur /\ x.mine = w.mine /\ x.plan = w.plan
    /\ x.aborted = w.aborted /\ x.lost = w.lost /\ x.bad = w.bad /\ x.stuck = w.stuck
    /\ x.told = w.told /\ x.blind = w.blind

LEMMA SameIs ==
    ASSUME NEW w \in WorkerRecords, NEW alone \in BOOLEAN, NEW x, x = [w EXCEPT !.alone = alone]
    PROVE  Same(w, x) /\ x.alone = alone
<1>1. x \in WorkerRecords
  BY DEF WorkerRecords
<1>q. QED
  BY <1>1, SMTT(60) DEF WorkerRecords, Same

LEMMA BeginStep ==
    ASSUME UpkeepAssumption, IInv, NEW o \in Workers, op[o].phase = "idle", NEW w, Begins(w),
           Begin(o, w), faults' \in 0..MaxFaults, KeepFlags, KeepBench, KeepOthers
    PROVE  IInv'
<1>1. op[o] = Fresh /\ Accounted(o, op[o])
  BY DEF IInv, Sound, Shape, Starting
<1>2. \A s \in Sites : migrate[o][s] = "none"
  BY <1>1 DEF Accounted, Fresh
<1>3. PICK alone \in BOOLEAN : alone = (Overlaps(o) = {})
  OBVIOUS
<1>4. PICK x : x = [w EXCEPT !.alone = alone]
  OBVIOUS
<1>5. Same(w, x) /\ x.alone = alone /\ w \in WorkerRecords
  BY <1>4, SameIs DEF Begins
<1>6. op'[o] = x
  BY <1>3, <1>4 DEF Begin
<1>7. ASSUME NEW p \in Workers \ {o}
      PROVE  Same(op[p], op'[p]) /\ (Active(p) => ~op'[p].alone)
             /\ (~Active(p) => op'[p] = op[p])
  <2>1. op[p] \in WorkerRecords
    BY DEF IInv
  <2>2. CASE Active(p)
    <3>1. PICK false \in BOOLEAN : false = FALSE
      OBVIOUS
    <3>2. PICK z : z = [op[p] EXCEPT !.alone = false]
      OBVIOUS
    <3>3. op'[p] = z
      BY <2>2, <3>1, <3>2 DEF Begin
    <3>4. Same(op[p], z) /\ z.alone = false
      BY <2>1, <3>2, SameIs
    <3>q. QED
      BY <2>2, <3>1, <3>3, <3>4
  <2>3. CASE ~Active(p)
    <3>1. op'[p] = op[p]
      BY <2>3 DEF Begin
    <3>q. QED
      BY <2>1, <2>3, <3>1 DEF Same
  <2>q. QED
    BY <2>2, <2>3
<1>8. op' \in [Workers -> WorkerRecords]
  <2>1. \A p \in Workers : op'[p] \in WorkerRecords
    BY <1>5, <1>6, <1>7 DEF Same
  <2>2. op' = [p \in Workers |-> op'[p]]
    BY Zenon DEF Begin
  <2>q. QED
    BY <2>1, <2>2
<1>9. \A s \in Sites : Named(s) => Named(s)'
  <2>1. ~(\E s \in Sites : s \in op[o].sites)
    BY <1>1 DEF Fresh
  <2>2. \A p \in Workers \ {o} : op'[p].skip = op[p].skip /\ op'[p].sites = op[p].sites
    BY <1>7 DEF Same
  <2>q. QED
    BY <2>1, <2>2 DEF Named, KeepFlags
<1>10. Explained' /\ WorldTypes'
  BY <1>9 DEF IInv, Explained, WorldTypes, KeepFlags, KeepBench, KeepOthers
<1>11. ASSUME NEW p \in Workers \ {o} PROVE Sound(p, op[p])'
  <2>1. Sound(p, op[p]) /\ Same(op[p], op'[p]) /\ (Active(p) => ~op'[p].alone)
        /\ (~Active(p) => op'[p] = op[p])
    BY <1>7 DEF IInv
  <2>2. Shape(op[p])'
    BY <2>1 DEF Sound, Shape, Starting, Gating, Migrating, Being, Aborting, Same, Active, Ended
  <2>3. Accounted(p, op[p])' /\ Covered(p, op[p])'
    BY <1>9, <2>1 DEF Sound, Accounted, Covered, Claims, Same, KeepBench
  <2>4. Kept(p, op[p])'
    BY <2>1 DEF Kept, Promising, Same, Active
  <2>q. QED
    BY <2>2, <2>3, <2>4 DEF Sound
<1>12. Sound(o, x)'
  <2>1. Shape(x)
    BY <1>5 DEF Begins, Same, Shape, Starting, Gating, Migrating, Being, Aborting
  <2>2. Accounted(o, x)' /\ Covered(o, x)'
    BY <1>2, <1>5 DEF Begins, Same, Accounted, Covered, Claims, KeepBench
  <2>3. Kept(o, x)'
    BY <1>5 DEF Begins, Same, Kept, Gated, Migrated, Reopened
  <2>q. QED
    BY <2>1, <2>2, <2>3 DEF Sound, Shape, Starting, Gating, Migrating, Being, Aborting
<1>13. Alone'
  <2>1. ASSUME NEW p \in Workers, NEW q \in Workers, Active(p)', op'[p].alone, Active(q)'
        PROVE  q = p
    <3>1. \A r \in Workers \ {o} : Active(r)' => Active(r) /\ ~op'[r].alone
      BY <1>7 DEF Same, Active
    <3>2. p = o
      BY <2>1, <3>1
    <3>3. Overlaps(o) = {}
      BY <1>3, <1>5, <1>6, <2>1, <3>2
    <3>q. QED
      BY <2>1, <3>1, <3>2, <3>3 DEF Overlaps
  <2>q. QED
    BY <2>1 DEF Alone
<1>q. QED
  BY <1>6, <1>8, <1>10, <1>11, <1>12, <1>13 DEF IInv

LEMMA StartMigrateStep ==
    ASSUME UpkeepAssumption, IInv, NEW o \in Workers, NEW s \in Sites, StartMigrate(o, s)
    PROVE  IInv'
<1>1. op[o].phase = "idle" /\ KeepFlags /\ KeepBench /\ KeepOthers /\ faults' \in 0..MaxFaults
  BY FaultType DEF StartMigrate, IInv, WorldTypes
<1>2. PICK v : v = [Fresh EXCEPT !.kind = "migrate", !.phase = "record", !.sites = {s},
                                 !.left = {s}]
  OBVIOUS
<1>3. PICK w : w = [Fresh EXCEPT !.kind = "migrate", !.phase = "report", !.bad = TRUE]
  OBVIOUS
<1>4. Begins(v)
  <2>1. v = [kind |-> "migrate", phase |-> "record", apps |-> {}, good |-> {}, only |-> {},
             skip |-> FALSE, failed |-> {}, sites |-> {s}, left |-> {s}, cur |-> NoOp,
             mine |-> {}, plan |-> {}, pre |-> {}, aborted |-> FALSE, lost |-> {},
             bad |-> FALSE, stuck |-> {}, told |-> FALSE, blind |-> FALSE, ok |-> FALSE,
             alone |-> TRUE]
    BY <1>2, ZenonT(60) DEF Fresh
  <2>2. v \in WorkerRecords
    BY <2>1 DEF WorkerRecords, Phases
  <2>q. QED
    BY <2>1, <2>2 DEF Begins
<1>5. Begins(w)
  <2>1. w = [kind |-> "migrate", phase |-> "report", apps |-> {}, good |-> {}, only |-> {},
             skip |-> FALSE, failed |-> {}, sites |-> {}, left |-> {}, cur |-> NoOp,
             mine |-> {}, plan |-> {}, pre |-> {}, aborted |-> FALSE, lost |-> {},
             bad |-> TRUE, stuck |-> {}, told |-> FALSE, blind |-> FALSE, ok |-> FALSE,
             alone |-> TRUE]
    BY <1>3, ZenonT(60) DEF Fresh
  <2>2. w \in WorkerRecords
    BY <2>1 DEF WorkerRecords, Phases
  <2>q. QED
    BY <2>1, <2>2 DEF Begins
<1>6. Begin(o, v) \/ Begin(o, w)
  BY <1>2, <1>3 DEF StartMigrate
<1>q. QED
  BY <1>1, <1>4, <1>5, <1>6, BeginStep

LEMMA StartUpdateStep ==
    ASSUME UpkeepAssumption, IInv, NEW o \in Workers, NEW r \in Requests, StartUpdate(o, r)
    PROVE  IInv'
<1>1. op[o].phase = "idle" /\ KeepFlags /\ KeepBench /\ KeepOthers /\ faults' \in 0..MaxFaults
  BY FaultType DEF StartUpdate, IInv, WorldTypes
<1>2. PICK phase : phase = IF r.apps \cap CoreApps # {} THEN "probe" ELSE "pull"
  OBVIOUS
<1>3. PICK w : w = [Fresh EXCEPT !.kind = "update", !.apps = r.apps, !.only = r.only,
                                 !.skip = r.skip, !.left = Sites, !.phase = phase]
  OBVIOUS
<1>4. Begins(w)
  <2>1. w = [kind |-> "update", phase |-> phase, apps |-> r.apps, good |-> {}, only |-> r.only,
             skip |-> r.skip, failed |-> {}, sites |-> {}, left |-> Sites, cur |-> NoOp,
             mine |-> {}, plan |-> {}, pre |-> {}, aborted |-> FALSE, lost |-> {},
             bad |-> FALSE, stuck |-> {}, told |-> FALSE, blind |-> FALSE, ok |-> FALSE,
             alone |-> TRUE]
    BY <1>3, ZenonT(60) DEF Fresh
  <2>2. /\ r.apps \in SUBSET Apps /\ r.only \in SUBSET Sites /\ r.skip \in BOOLEAN
        /\ phase \in {"probe", "pull"}
    BY <1>2 DEF UpkeepAssumption
  <2>3. w \in WorkerRecords
    BY <2>1, <2>2 DEF WorkerRecords, Phases
  <2>q. QED
    BY <2>1, <2>2, <2>3 DEF Begins
<1>5. Begin(o, w)
  BY <1>2, <1>3 DEF StartUpdate
<1>q. QED
  BY <1>1, <1>4, <1>5, BeginStep
-----------------------------------------------------------------------------
(* The container.                                                            *)

(* A step of a migrate: what it closes is named already, and a worker hears  *)
(* of success only when its site is no longer behind.                        *)
LEMMA ContainerStep ==
    ASSUME IInv, NEW o \in Workers, NEW s \in Sites, migrate[o][s] # "none", WorldTypes',
           UNCHANGED <<record, unnamed, op, byHand>>,
           \A t \in Sites \ {s} : own'[t] = own[t],
           \A p \in Workers, t \in Sites : migrate'[p][t] # "none" => migrate[p][t] # "none",
           behind' \subseteq behind,
           \A p \in Workers : exit'[p] = exit[p] \/
               /\ p = o /\ op[o].cur = s /\ migrate'[o][s] = "none"
               /\ exit'[o] = "ok" => s \notin behind'
    PROVE  IInv'
<1>1. \A t \in Sites : Named(t)' <=> Named(t)
  BY DEF Named
<1>2. Named(s)
  BY DEF IInv, Sound, Covered
<1>3. Explained'
  BY <1>1, <1>2 DEF IInv, Explained
<1>4. Alone'
  BY DEF IInv, Alone, Active
<1>5. ASSUME NEW t \in Sites, Opened(t) PROVE Opened(t)'
  BY <1>5 DEF Opened, Running
<1>6. ASSUME NEW p \in Workers PROVE Sound(p, op[p])'
  <2>1. Sound(p, op[p]) /\ op'[p] = op[p] /\ op[p] \in WorkerRecords
    BY DEF IInv
  <2>2. Shape(op[p])'
    BY <2>1 DEF Sound, Shape, Starting, Gating, Migrating, Being, Aborting
  <2>3. Accounted(p, op[p])'
    <3>1. ASSUME NEW t \in Sites, migrate'[p][t] # "none", exit'[p] # exit[p]
          PROVE  ~(op[p].phase = "stream" /\ op[p].cur = t /\ exit[p] = "none")
      BY <3>1
    <3>q. QED
      BY <2>1, <3>1 DEF Sound, Accounted
  <2>4. Covered(p, op[p])'
    BY <1>1, <2>1 DEF Sound, Covered, Claims
  <2>5. Kept(p, op[p])'
    <3>1. SUFFICES ASSUME Promising(op[p])
                   PROVE  Gated(op[p])' /\ \A t \in op[p].sites :
                              Migrated(p, op[p], t)' /\ Reopened(op[p], t)'
      BY <2>1 DEF Kept, Promising
    <3>2. Gated(op[p]) /\ \A t \in op[p].sites : Migrated(p, op[p], t) /\ Reopened(op[p], t)
      BY <2>1, <3>1 DEF Sound, Kept
    <3>3. Gated(op[p])'
      BY <2>1, <3>2 DEF Gated
    <3>4. ASSUME NEW t \in op[p].sites PROVE Migrated(p, op[p], t)'
      BY <2>1, <3>2 DEF Migrated
    <3>5. ASSUME NEW t \in op[p].sites PROVE Reopened(op[p], t)'
      BY <1>5, <2>1, <3>2, FieldTypes DEF Reopened
    <3>q. QED
      BY <2>1, <3>3, <3>4, <3>5
  <2>q. QED
    BY <2>2, <2>3, <2>4, <2>5 DEF Sound
<1>q. QED
  BY <1>3, <1>4, <1>6 DEF IInv

LEMMA TakeLockStep ==
    ASSUME UpkeepAssumption, IInv, NEW o \in Workers, NEW s \in Sites, TakeLock(o, s)
    PROVE  IInv'
<1>1. /\ migrate[o][s] # "none" /\ faults' \in 0..MaxFaults
      /\ UNCHANGED <<common, record, behind, op, unnamed, watch, byHand>>
  BY FaultType DEF TakeLock, KeepOthers, IInv, WorldTypes
<1>2. /\ lock' \in [Sites -> Workers \cup {NoOp}]
      /\ exit' \in [Workers -> {"none", "ok", "failed"}]
      /\ own' \in [Sites -> {"unset", "off", "on"}]
      /\ \A t \in Sites \ {s} : own'[t] = own[t]
  <2>1. lock' = [lock EXCEPT ![s] = o] \/ lock' = lock
    BY DEF TakeLock
  <2>2. PICK how \in {"none", "ok", "failed"} : exit' = exit \/ exit' = [exit EXCEPT ![o] = how]
    BY DEF TakeLock, IInv, WorldTypes
  <2>3. PICK flag \in {"unset", "off", "on"} : own' = own \/ own' = [own EXCEPT ![s] = flag]
    BY DEF TakeLock, IInv, WorldTypes
  <2>4. /\ lock \in [Sites -> Workers \cup {NoOp}]
        /\ exit \in [Workers -> {"none", "ok", "failed"}]
        /\ own \in [Sites -> {"unset", "off", "on"}]
    BY DEF IInv, WorldTypes
  <2>5. lock' \in [Sites -> Workers \cup {NoOp}]
    BY <2>1, <2>4
  <2>6. exit' \in [Workers -> {"none", "ok", "failed"}]
    BY <2>2, <2>4
  <2>7. own' \in [Sites -> {"unset", "off", "on"}] /\ \A t \in Sites \ {s} : own'[t] = own[t]
    BY <2>3, <2>4
  <2>q. QED
    BY <2>5, <2>6, <2>7
<1>3. PICK state \in {"none", "working"} :
          /\ migrate' = [migrate EXCEPT ![o][s] = state]
          /\ exit' = exit \/ (state = "none"
                /\ exit' = [exit EXCEPT ![o] = IF op[o].cur = s THEN "failed" ELSE @])
  BY DEF TakeLock
<1>4. /\ migrate' \in [Workers -> [Sites -> {"none", "starting", "working"}]]
      /\ \A p \in Workers, t \in Sites : migrate'[p][t] # "none" => migrate[p][t] # "none"
      /\ state = "none" => migrate'[o][s] = "none"
  BY <1>1, <1>3 DEF IInv, WorldTypes
<1>5. \A p \in Workers : exit'[p] = exit[p] \/
          (p = o /\ op[o].cur = s /\ migrate'[o][s] = "none" /\ exit'[o] = "failed")
  BY <1>3, <1>4 DEF IInv, WorldTypes
<1>6. WorldTypes'
  BY <1>1, <1>2, <1>4 DEF IInv, WorldTypes
<1>q. QED
  BY <1>1, <1>2, <1>4, <1>5, <1>6, ContainerStep

(* A migrate that ends.                                                      *)
LEMMA EndsStep ==
    ASSUME UpkeepAssumption, IInv, NEW o \in Workers, NEW s \in Sites,
           NEW how \in {"ok", "failed"}, migrate[o][s] # "none",
           migrate' = [migrate EXCEPT ![o][s] = "none"],
           exit' = [exit EXCEPT ![o] = IF op[o].cur = s THEN how ELSE @],
           behind' \subseteq behind, how = "ok" => s \notin behind', Release(o, s),
           own' \in [Sites -> {"unset", "off", "on"}], \A t \in Sites \ {s} : own'[t] = own[t],
           UNCHANGED <<common, record, op, unnamed, watch, byHand>>, Fine \/ Fault
    PROVE  IInv'
<1>1. faults' \in 0..MaxFaults /\ lock' \in [Sites -> Workers \cup {NoOp}]
  BY FaultType DEF Release, IInv, WorldTypes
<1>2. /\ migrate' \in [Workers -> [Sites -> {"none", "starting", "working"}]]
      /\ \A p \in Workers, t \in Sites : migrate'[p][t] # "none" => migrate[p][t] # "none"
      /\ migrate'[o][s] = "none"
  BY DEF IInv, WorldTypes
<1>3. /\ exit' \in [Workers -> {"none", "ok", "failed"}]
      /\ \A p \in Workers : exit'[p] = exit[p] \/ (p = o /\ op[o].cur = s /\ exit'[o] = how)
  BY DEF IInv, WorldTypes
<1>4. WorldTypes'
  BY <1>1, <1>2, <1>3 DEF IInv, WorldTypes
<1>q. QED
  BY <1>2, <1>3, <1>4, ContainerStep

LEMMA FinishMigrateStep ==
    ASSUME UpkeepAssumption, IInv, NEW o \in Workers, NEW s \in Sites, NEW good \in BOOLEAN,
           FinishMigrate(o, s, good)
    PROVE  IInv'
<1>1. PICK how \in {"ok", "failed"} : how = IF good THEN "ok" ELSE "failed"
  OBVIOUS
<1>2. /\ migrate' = [migrate EXCEPT ![o][s] = "none"] /\ migrate[o][s] # "none"
      /\ exit' = [exit EXCEPT ![o] = IF op[o].cur = s THEN how ELSE @]
  BY <1>1 DEF FinishMigrate
<1>3. behind' \subseteq behind /\ (how = "ok" => s \notin behind')
  BY <1>1 DEF FinishMigrate
<1>4. /\ own' \in [Sites -> {"unset", "off", "on"}] /\ \A t \in Sites \ {s} : own'[t] = own[t]
  BY DEF FinishMigrate, IInv, WorldTypes
<1>5. /\ UNCHANGED <<common, record, op, unnamed, watch, byHand>> /\ (Fine \/ Fault)
      /\ Release(o, s)
  BY DEF FinishMigrate, KeepOthers
<1>q. QED
  BY <1>2, <1>3, <1>4, <1>5, EndsStep

LEMMA DieMigrateStep ==
    ASSUME UpkeepAssumption, IInv, NEW o \in Workers, NEW s \in Sites, DieMigrate(o, s)
    PROVE  IInv'
<1>1. /\ own' \in [Sites -> {"unset", "off", "on"}] /\ \A t \in Sites \ {s} : own'[t] = own[t]
      /\ behind' \subseteq behind
  BY DEF DieMigrate, IInv, WorldTypes
<1>q. QED
  BY <1>1, EndsStep DEF DieMigrate, KeepOthers
-----------------------------------------------------------------------------
(* Watchers and people.                                                      *)

(* A step of anyone else: no site is closed by it but by hand, and what a    *)
(* worker may still close stays named.                                       *)
LEMMA OthersStep ==
    ASSUME IInv, WorldTypes', Explained', UNCHANGED <<op, migrate, exit, behind>>,
           byHand \subseteq byHand', unnamed \subseteq unnamed',
           \A t \in Sites : own'[t] = "on" => own[t] = "on" \/ t \in byHand',
           \A p \in Workers, t \in Sites :
               (migrate[p][t] # "none" \/ Claims(op[p], t)) /\ Named(t) => Named(t)'
    PROVE  IInv'
<1>1. Alone'
  BY DEF IInv, Alone, Active
<1>2. ASSUME NEW t \in Sites, Opened(t) PROVE Opened(t)'
  BY <1>2 DEF Opened, Running
<1>3. ASSUME NEW p \in Workers PROVE Sound(p, op[p])'
  <2>1. Sound(p, op[p]) /\ op'[p] = op[p] /\ op[p] \in WorkerRecords
    BY DEF IInv
  <2>2. Shape(op[p])' /\ Accounted(p, op[p])'
    BY <2>1 DEF Sound, Shape, Starting, Gating, Migrating, Being, Aborting, Accounted
  <2>3. Covered(p, op[p])'
    BY <2>1 DEF Sound, Covered, Claims
  <2>4. Kept(p, op[p])'
    <3>1. SUFFICES ASSUME Promising(op[p])
                   PROVE  Gated(op[p])' /\ \A t \in op[p].sites :
                              Migrated(p, op[p], t)' /\ Reopened(op[p], t)'
      BY <2>1 DEF Kept, Promising
    <3>2. Gated(op[p]) /\ \A t \in op[p].sites : Migrated(p, op[p], t) /\ Reopened(op[p], t)
      BY <2>1, <3>1 DEF Sound, Kept
    <3>3. Gated(op[p])'
      BY <2>1, <3>2 DEF Gated
    <3>4. ASSUME NEW t \in op[p].sites PROVE Migrated(p, op[p], t)'
      BY <2>1, <3>2 DEF Migrated
    <3>5. ASSUME NEW t \in op[p].sites PROVE Reopened(op[p], t)'
      BY <1>2, <2>1, <3>2, FieldTypes DEF Reopened
    <3>q. QED
      BY <2>1, <3>3, <3>4, <3>5
  <2>q. QED
    BY <2>2, <2>3, <2>4 DEF Sound
<1>q. QED
  BY <1>1, <1>3 DEF IInv

(* A watcher that touches no flag and no record.                             *)
LEMMA LooksOnStep ==
    ASSUME UpkeepAssumption, IInv, NEW w \in Watchers, NEW x \in WatcherRecords,
           watch' = [watch EXCEPT ![w] = x], common' \in BOOLEAN, Fine \/ Fault,
           UNCHANGED <<own, record, unnamed, op, byHand>>, KeepBench
    PROVE  IInv'
<1>1. \A t \in Sites : Named(t)' <=> Named(t)
  BY DEF Named
<1>2. Explained'
  BY <1>1 DEF IInv, Explained
<1>3. WorldTypes'
  BY FaultType DEF IInv, WorldTypes, KeepBench
<1>q. QED
  BY <1>1, <1>2, <1>3, OthersStep DEF KeepBench

(* A watcher that removes the record of a site, which it may have opened.    *)
LEMMA ForgetsStep ==
    ASSUME UpkeepAssumption, IInv, NEW w \in Watchers, NEW x \in WatcherRecords, NEW s \in Sites,
           watch' = [watch EXCEPT ![w] = x], own' = own \/ own' = [own EXCEPT ![s] = "off"],
           Forget(NoOp, s), UNCHANGED <<common, op, byHand>>, KeepBench, Fine \/ Fault
    PROVE  IInv'
<1>1. \A p \in Workers : op[p].skip => op'[p].skip /\ op[p].sites \subseteq op'[p].sites
  OBVIOUS
<1>2. /\ \A t \in Sites \ {s} : Named(t) => Named(t)'
      /\ own'[s] = "on" => s \in unnamed'
      /\ \A p \in Workers : migrate[p][s] # "none" => s \in unnamed'
      /\ \A p \in Workers \ {NoOp} : Claims(op[p], s) => s \in unnamed'
      /\ unnamed \subseteq unnamed' /\ unnamed' \in SUBSET Sites
      /\ record' \in [Sites -> Workers \cup {NoOp}]
  BY <1>1, ForgetNames
<1>3. /\ own' \in [Sites -> {"unset", "off", "on"}]
      /\ \A t \in Sites : own'[t] = "on" => own[t] = "on"
  BY DEF IInv, WorldTypes
<1>4. WorldTypes'
  BY <1>2, <1>3, FaultType DEF IInv, WorldTypes, KeepBench
<1>5. ASSUME NEW t \in Sites, own'[t] = "on" PROVE t \in byHand' \/ Named(t)'
  BY <1>2, <1>3, <1>5 DEF IInv, Explained, Named
<1>6. ASSUME NEW p \in Workers, NEW t \in Sites, migrate[p][t] # "none" \/ Claims(op[p], t),
             Named(t)
      PROVE  Named(t)'
  <2>1. CASE t = s
    <3>1. s \in unnamed'
      BY <1>2, <1>6, <2>1 DEF UpkeepAssumption
    <3>q. QED
      BY <2>1, <3>1 DEF Named
  <2>2. CASE t # s
    BY <1>2, <1>6, <2>2
  <2>q. QED
    BY <2>1, <2>2
<1>7. Explained'
  BY <1>5 DEF Explained
<1>q. QED
  BY <1>2, <1>3, <1>4, <1>6, <1>7, OthersStep DEF KeepBench

(* What a watcher's fields are after a step.                                 *)
Watched(phase, stale, left, todo, free, bench, busy) ==
    [phase |-> phase, stale |-> stale, left |-> left, todo |-> todo, free |-> free,
     bench |-> bench, busy |-> busy]

LEMMA WatchedType ==
    ASSUME NEW phase \in {"idle", "forget", "bench", "sites", "done"}, NEW stale \in SUBSET Sites,
           NEW left \in SUBSET Sites, NEW todo \in SUBSET Sites, NEW free \in SUBSET Sites,
           NEW bench \in BOOLEAN, NEW busy \in BOOLEAN
    PROVE  Watched(phase, stale, left, todo, free, bench, busy) \in WatcherRecords
BY DEF Watched, WatcherRecords

LEMMA SettleType ==
    ASSUME NEW x \in WatcherRecords
    PROVE  Settle(x) \in WatcherRecords
BY DEF Settle, Idle, WatcherRecords

(* What a watcher starts from, and what a step that keeps the flags keeps.   *)
LEMMA WatchFrom ==
    ASSUME IInv, NEW w \in Watchers
    PROVE  watch[w] \in WatcherRecords /\ (KeepFlags => common' \in BOOLEAN)
BY DEF IInv, WorldTypes, KeepFlags

LEMMA LookStep ==
    ASSUME UpkeepAssumption, IInv, NEW w \in Watchers, NEW only \in Scopes, Look(w, only)
    PROVE  IInv'
<1>1. PICK stale \in SUBSET Sites, left \in SUBSET Sites, todo \in SUBSET Sites,
           free \in SUBSET Sites, bench \in BOOLEAN, busy \in BOOLEAN :
          watch' = [watch EXCEPT ![w] = Watched("forget", stale, left, todo, free, bench, busy)]
  <2>1. PICK scope \in SUBSET Sites : scope = {s \in Sites : Down(s) \/ own[s] = "on"}
    OBVIOUS
  <2>2. PICK chosen \in SUBSET Sites : chosen = IF only = {} THEN scope ELSE scope \cap only
    OBVIOUS
  <2>3. PICK bench \in BOOLEAN : bench = (only = {} /\ common)
    BY DEF IInv, WorldTypes
  <2>4. PICK busy \in BOOLEAN : busy = (\/ \E s \in scope : OwnerRuns(s)
                                        \/ \E s \in Sites : Running(s) # {}
                                        \/ only # {} /\ \E s \in chosen : own[s] # "on")
    OBVIOUS
  <2>5. watch' = [watch EXCEPT ![w] =
            Watched("forget", {s \in Sites : ~Down(s) /\ HasKilledOwner(s)}, scope,
                    {s \in chosen : own[s] = "on"}, IF only = {} THEN chosen ELSE {},
                    bench, busy)]
    BY <2>1, <2>2, <2>3, <2>4 DEF Look, Watched
  <2>q. QED
    BY <2>5, ZenonT(60)
<1>2. Watched("forget", stale, left, todo, free, bench, busy) \in WatcherRecords
  BY WatchedType
<1>q. QED
  BY <1>1, <1>2, LooksOnStep, WatchFrom DEF Look, KeepFlags

LEMMA ForgetStaleStep ==
    ASSUME UpkeepAssumption, IInv, NEW w \in Watchers, NEW s \in Sites, ForgetStale(w, s)
    PROVE  IInv'
<1>0. PICK v \in WatcherRecords : v = watch[w]
  BY WatchFrom
<1>1. PICK x : x = [v EXCEPT !.stale = v.stale \ {s}]
  OBVIOUS
<1>2. x \in WatcherRecords
  BY <1>1, <1>0 DEF WatcherRecords
<1>3. watch' = [watch EXCEPT ![w] = x]
  BY <1>0, <1>1 DEF ForgetStale
<1>q. QED
  BY <1>2, <1>3, ForgetsStep DEF ForgetStale

LEMMA ProbeForClearStep ==
    ASSUME UpkeepAssumption, IInv, NEW w \in Watchers, NEW s \in Sites, ProbeForClear(w, s)
    PROVE  IInv'
<1>0. PICK v \in WatcherRecords : v = watch[w]
  BY WatchFrom
<1>1. PICK held \in BOOLEAN :
          watch' = [watch EXCEPT ![w].left = @ \ {s}, ![w].busy = @ \/ held]
  BY DEF ProbeForClear
<1>2. PICK busy \in BOOLEAN : busy = (watch[w].busy \/ held)
  OBVIOUS
<1>3. PICK x : x = [v EXCEPT !.left = v.left \ {s}, !.busy = busy]
  OBVIOUS
<1>4. x \in WatcherRecords
  BY <1>3, <1>0 DEF WatcherRecords
<1>5. watch' = [watch EXCEPT ![w] = x]
  BY <1>0, <1>1, <1>2, <1>3 DEF IInv, WorldTypes
<1>q. QED
  BY <1>4, <1>5, LooksOnStep, WatchFrom DEF ProbeForClear, KeepFlags

LEMMA DecideStep ==
    ASSUME UpkeepAssumption, IInv, NEW w \in Watchers, NEW clears \in BOOLEAN, Decide(w, clears)
    PROVE  IInv'
<1>0. PICK v \in WatcherRecords : v = watch[w]
  BY WatchFrom
<1>1. PICK y : y = [v EXCEPT
                      !.phase = IF v.bench THEN "bench" ELSE "sites",
                      !.free = IF v.bench THEN v.free ELSE {}]
  OBVIOUS
<1>2. PICK z : z = [Idle EXCEPT !.phase = "done"]
  OBVIOUS
<1>3. y \in WatcherRecords
  BY <1>1, <1>0, ZenonT(60) DEF WatcherRecords
<1>4. z \in WatcherRecords
  BY <1>2 DEF WatcherRecords, Idle
<1>5. PICK x \in {y, z} : watch' = [watch EXCEPT ![w] = x]
  <2>1. watch' = [watch EXCEPT ![w] =
            IF clears /\ ~watch[w].busy /\ (watch[w].bench \/ watch[w].todo # {})
            THEN [watch[w] EXCEPT !.phase = IF watch[w].bench THEN "bench" ELSE "sites",
                                  !.free = IF watch[w].bench THEN watch[w].free ELSE {}]
            ELSE [Idle EXCEPT !.phase = "done"]]
    BY DEF Decide
  <2>q. QED
    BY <1>0, <1>1, <1>2, <2>1
<1>q. QED
  BY <1>3, <1>4, <1>5, LooksOnStep, WatchFrom DEF Decide, KeepFlags

LEMMA ClearBenchStep ==
    ASSUME UpkeepAssumption, IInv, NEW w \in Watchers, ClearBench(w)
    PROVE  IInv'
<1>0. PICK v \in WatcherRecords : v = watch[w]
  BY WatchFrom
<1>1. PICK y : y = [v EXCEPT !.phase = "sites"]
  OBVIOUS
<1>2. PICK z : z = [v EXCEPT !.phase = "sites", !.free = {}]
  OBVIOUS
<1>3. y \in WatcherRecords /\ z \in WatcherRecords
  BY <1>1, <1>2, <1>0 DEF WatcherRecords
<1>4. PICK x \in {Settle(y), Settle(z)} : watch' = [watch EXCEPT ![w] = x]
  BY <1>0, <1>1, <1>2 DEF ClearBench
<1>5. x \in WatcherRecords
  BY <1>3, <1>4, SettleType
<1>6. common' \in BOOLEAN /\ (Fine \/ Fault)
  BY DEF ClearBench, IInv, WorldTypes
<1>q. QED
  BY <1>4, <1>5, <1>6, LooksOnStep DEF ClearBench

LEMMA ClearSiteStep ==
    ASSUME UpkeepAssumption, IInv, NEW w \in Watchers, NEW s \in Sites, ClearSite(w, s)
    PROVE  IInv'
<1>0. PICK v \in WatcherRecords : v = watch[w]
  BY WatchFrom
<1>1. PICK y : y = [v EXCEPT !.todo = v.todo \ {s}, !.free = v.free \ {s}]
  OBVIOUS
<1>2. PICK z : z = [v EXCEPT !.todo = v.todo \ {s}]
  OBVIOUS
<1>3. y \in WatcherRecords /\ z \in WatcherRecords
  BY <1>1, <1>2, <1>0 DEF WatcherRecords
<1>4. Settle(y) \in WatcherRecords /\ Settle(z) \in WatcherRecords
  BY <1>3, SettleType
<1>5. UNCHANGED <<common, op, byHand>> /\ KeepBench
  BY DEF ClearSite
<1>6. CASE TurnOff(NoOp, s) /\ Fine /\ watch' = [watch EXCEPT ![w] = Settle(y)]
  BY <1>4, <1>5, <1>6, ForgetsStep DEF TurnOff
<1>7. CASE UNCHANGED <<own, record, unnamed>> /\ Fault
           /\ watch' = [watch EXCEPT ![w] = Settle(z)]
  <2>1. common' \in BOOLEAN
    BY <1>5 DEF IInv, WorldTypes
  <2>q. QED
    BY <1>4, <1>5, <1>7, <2>1, LooksOnStep
<1>8. \/ /\ TurnOff(NoOp, s) /\ Fine
         /\ watch' = [watch EXCEPT ![w] =
                Settle([watch[w] EXCEPT !.todo = watch[w].todo \ {s}, !.free = watch[w].free \ {s}])]
      \/ /\ UNCHANGED <<own, record, unnamed>> /\ Fault
         /\ watch' = [watch EXCEPT ![w] = Settle([watch[w] EXCEPT !.todo = watch[w].todo \ {s}])]
  BY DEF ClearSite
<1>q. QED
  BY <1>0, <1>1, <1>2, <1>6, <1>7, <1>8

LEMMA ForgetFreedStep ==
    ASSUME UpkeepAssumption, IInv, NEW w \in Watchers, NEW s \in Sites, ForgetFreed(w, s)
    PROVE  IInv'
<1>0. PICK v \in WatcherRecords : v = watch[w]
  BY WatchFrom
<1>1. PICK y : y = [v EXCEPT !.free = v.free \ {s}]
  OBVIOUS
<1>2. y \in WatcherRecords
  BY <1>1, <1>0 DEF WatcherRecords
<1>3. Settle(y) \in WatcherRecords
  BY <1>2, SettleType
<1>4. watch' = [watch EXCEPT ![w] = Settle([watch[w] EXCEPT !.free = watch[w].free \ {s}])]
  BY DEF ForgetFreed
<1>5. watch' = [watch EXCEPT ![w] = Settle(y)]
  BY <1>0, <1>1, <1>4
<1>q. QED
  BY <1>3, <1>5, ForgetsStep DEF ForgetFreed

LEMMA ByHandStep ==
    ASSUME UpkeepAssumption, IInv, NEW s \in Outside, ByHand(s)
    PROVE  IInv'
<1>1. s \in Sites /\ UNCHANGED <<record, unnamed, op, watch>> /\ KeepBench /\ Fault
  BY DEF UpkeepAssumption, ByHand
<1>2. byHand' = byHand \cup {s}
  BY DEF ByHand
<1>3. /\ own' \in [Sites -> {"unset", "off", "on"}] /\ common' \in BOOLEAN
      /\ \A t \in Sites \ {s} : own'[t] = own[t]
  BY <1>1 DEF ByHand, IInv, WorldTypes
<1>4. \A t \in Sites : Named(t)' <=> Named(t)
  BY <1>1 DEF Named
<1>5. Explained'
  BY <1>2, <1>3, <1>4 DEF IInv, Explained
<1>6. WorldTypes'
  BY <1>1, <1>2, <1>3, FaultType DEF IInv, WorldTypes, KeepBench
<1>q. QED
  BY <1>1, <1>2, <1>3, <1>4, <1>5, <1>6, OthersStep DEF KeepBench
-----------------------------------------------------------------------------
(* All steps.                                                                *)

LEMMA WorkKeeps ==
    ASSUME UpkeepAssumption, IInv, NEW o \in Workers, Work(o) \/ CleanUp(o)
    PROVE  IInv'
<1>1. ASSUME NEW s \in Sites, \/ StartMigrate(o, s) \/ ProbeLock(o, s) \/ WriteRecord(o, s)
                              \/ ExecMigrate(o, s) \/ RemoveLocks(o, s)
      PROVE  IInv'
  BY <1>1, StartMigrateStep, ProbeLockStep, WriteRecordStep, ExecMigrateStep, RemoveLocksStep
<1>2. ASSUME NEW r \in Requests, StartUpdate(o, r) PROVE IInv'
  BY <1>2, StartUpdateStep
<1>3. ASSUME NEW a \in Apps, NEW outcome \in {"ok", "failed", "unknown"}, Pull(o, a, outcome)
      PROVE  IInv'
  BY <1>3, PullStep
<1>4. ASSUME NEW outcome \in {"ok", "failed"}, Requirements(o, outcome) PROVE IInv'
  BY <1>4, RequirementsStep
<1>5. CASE ClearLocks(o) \/ Discover(o) \/ TurnOn(o) \/ ReadExit(o) \/ LoseStream(o)
  BY <1>5, ClearLocksStep, DiscoverStep, TurnOnStep, ReadExitStep, LoseStreamStep
<1>6. CASE Interrupt(o) \/ Kill(o)
  BY <1>6, InterruptStep, KillStep
<1>7. CASE EndMigrate(o) \/ Reread(o) \/ DisableAgain(o) \/ Report(o)
  BY <1>7, EndMigrateStep, RereadStep, DisableAgainStep, ReportStep
<1>8. ASSUME NEW s \in Sites, Disable(o, s) PROVE IInv'
  BY <1>8, DisableStep
<1>q. QED
  BY <1>1, <1>2, <1>3, <1>4, <1>5, <1>6, <1>7, <1>8 DEF Work, CleanUp

LEMMA InContainerKeeps ==
    ASSUME UpkeepAssumption, IInv, NEW o \in Workers, NEW s \in Sites, InContainer(o, s)
    PROVE  IInv'
<1>1. ASSUME NEW good \in BOOLEAN, FinishMigrate(o, s, good) PROVE IInv'
  BY <1>1, FinishMigrateStep
<1>q. QED
  BY <1>1, TakeLockStep, DieMigrateStep DEF InContainer

LEMMA WatchingKeeps ==
    ASSUME UpkeepAssumption, IInv, NEW w \in Watchers, Watching(w)
    PROVE  IInv'
<1>1. ASSUME NEW only \in Scopes, Look(w, only) PROVE IInv'
  BY <1>1, LookStep
<1>2. ASSUME NEW s \in Sites, \/ ForgetStale(w, s) \/ ProbeForClear(w, s)
                              \/ ClearSite(w, s) \/ ForgetFreed(w, s)
      PROVE  IInv'
  BY <1>2, ForgetStaleStep, ProbeForClearStep, ClearSiteStep, ForgetFreedStep
<1>3. ASSUME NEW clears \in BOOLEAN, Decide(w, clears) PROVE IInv'
  BY <1>3, DecideStep
<1>q. QED
  BY <1>1, <1>2, <1>3, ClearBenchStep DEF Watching

LEMMA StutterKeeps ==
    ASSUME IInv, UNCHANGED vars
    PROVE  IInv'
<1>1. \A t \in Sites : Named(t)' <=> Named(t)
  BY DEF Named, vars
<1>2. WorldTypes' /\ Explained'
  BY <1>1 DEF IInv, WorldTypes, Explained, vars
<1>q. QED
  BY <1>1, <1>2, OthersStep DEF vars

LEMMA NextKeeps ==
    ASSUME UpkeepAssumption, IInv, [Next]_vars
    PROVE  IInv'
<1>1. ASSUME NEW o \in Workers, Work(o) \/ CleanUp(o) PROVE IInv'
  BY <1>1, WorkKeeps
<1>2. ASSUME NEW o \in Workers, NEW s \in Sites, InContainer(o, s) PROVE IInv'
  BY <1>2, InContainerKeeps
<1>3. ASSUME NEW w \in Watchers, Watching(w) PROVE IInv'
  BY <1>3, WatchingKeeps
<1>4. ASSUME NEW s \in Outside, ByHand(s) PROVE IInv'
  BY <1>4, ByHandStep
<1>5. CASE UNCHANGED vars
  BY <1>5, StutterKeeps
<1>q. QED
  BY <1>1, <1>2, <1>3, <1>4, <1>5 DEF Next

LEMMA InitHolds ==
    ASSUME UpkeepAssumption, Init
    PROVE  IInv
<1>1. op = [o \in Workers |-> Fresh] /\ watch = [w \in Watchers |-> Idle]
  BY DEF Init
<1>2. op \in [Workers -> WorkerRecords] /\ watch \in [Watchers -> WatcherRecords]
  BY <1>1, FreshType
<1>3. WorldTypes
  <2>1. /\ own \in [Sites -> {"unset", "off", "on"}] /\ common \in BOOLEAN
        /\ record \in [Sites -> Workers \cup {NoOp}] /\ lock \in [Sites -> Workers \cup {NoOp}]
        /\ byHand \subseteq Sites /\ unnamed \subseteq Sites /\ behind \subseteq Sites
    BY DEF Init
  <2>2. /\ migrate \in [Workers -> [Sites -> {"none", "starting", "working"}]]
        /\ exit \in [Workers -> {"none", "ok", "failed"}]
    BY DEF Init
  <2>3. faults \in 0..MaxFaults
    BY DEF Init, UpkeepAssumption
  <2>q. QED
    BY <1>2, <2>1, <2>2, <2>3 DEF WorldTypes
<1>4. ASSUME NEW o \in Workers PROVE Sound(o, op[o])
  <2>1. op[o] = Fresh /\ Fresh.phase = "idle" /\ Fresh.aborted = FALSE
    BY <1>1 DEF Fresh
  <2>2. \A s \in Sites : migrate[o][s] = "none"
    BY DEF Init
  <2>3. Shape(Fresh)
    BY <2>1 DEF Shape, Starting, Gating, Migrating, Being, Aborting, Fresh
  <2>4. Accounted(o, Fresh) /\ Covered(o, Fresh)
    BY <2>1, <2>2 DEF Accounted, Covered, Claims
  <2>5. Kept(o, Fresh)
    BY <2>1 DEF Kept, Promising, Ended
  <2>q. QED
    BY <2>1, <2>3, <2>4, <2>5 DEF Sound
<1>5. Explained
  BY DEF Init, Explained
<1>6. Alone
  BY <1>1 DEF Alone, Active, Ended, Fresh
<1>q. QED
  BY <1>2, <1>3, <1>4, <1>5, <1>6 DEF IInv

(* The inductive invariant: every worker's fields, the migrates it started,  *)
(* the sites it may still close and what it may yet report, in every phase.  *)
THEOREM Inductive == Spec => []IInv
<1>1. Init => IInv
  BY UpkeepAssumption, InitHolds
<1>2. IInv /\ [Next]_vars => IInv'
  BY UpkeepAssumption, NextKeeps
<1>q. QED
  BY <1>1, <1>2, PTL DEF Spec

(* Every variable keeps its type, whatever workers, watchers, migrates and   *)
(* people do.                                                                *)
THEOREM TypeCorrect == Spec => []TypeOK
<1>1. IInv => TypeOK
  BY DEF IInv, WorldTypes, TypeOK
<1>q. QED
  BY <1>1, Inductive, PTL

(* A worker takes a site out of maintenance only when its own migrates have  *)
(* ended, or when it knows, or could not see, that one did not: the order of *)
(* update's finally block and of end_migrate_on_interrupt.                   *)
THEOREM OwnMigratesEnded == Spec => []OwnMigrateEnded
<1>1. IInv => OwnMigrateEnded
  BY DEF IInv, Sound, Accounted, OwnMigrateEnded
<1>q. QED
  BY <1>1, Inductive, PTL

(* At every moment a closed site was closed by people, has a record that     *)
(* names a worker, belongs to an update that leaves maintenance alone, or    *)
(* lost its record while it was, or could be, closed.                        *)
THEOREM LeftoversNamed == Spec => []LeftoverNamed
<1>1. IInv => LeftoverNamed
  BY DEF IInv, Explained, Named, LeftoverNamed
<1>q. QED
  BY <1>1, Inductive, PTL

-----------------------------------------------------------------------------
(* Reports.                                                                  *)

(* A worker that is about to report is left alone by every other one.        *)
LEMMA OthersWork ==
    ASSUME IInv, NEW o \in Workers, NEW p \in Workers \ {o}, Work(p) \/ CleanUp(p)
    PROVE  op'[o].phase = op[o].phase
<1>1. op \in [Workers -> WorkerRecords] /\ op[o] \in WorkerRecords
  BY DEF IInv
<1>2. ASSUME NEW w, Begin(p, w) PROVE op'[o].phase = op[o].phase
  <2>1. PICK x : x = [op[o] EXCEPT !.alone = FALSE]
    OBVIOUS
  <2>2. x.phase = op[o].phase
    BY <1>1, <2>1 DEF WorkerRecords
  <2>3. op'[o] = x \/ op'[o] = op[o]
    BY <1>2, <2>1 DEF Begin
  <2>q. QED
    BY <2>2, <2>3
<1>3. ASSUME NEW s \in Sites, StartMigrate(p, s) PROVE op'[o].phase = op[o].phase
  BY <1>2, <1>3 DEF StartMigrate
<1>4. ASSUME NEW r \in Requests, StartUpdate(p, r) PROVE op'[o].phase = op[o].phase
  BY <1>2, <1>4 DEF StartUpdate
<1>5. ASSUME NEW s \in Sites, \/ ProbeLock(p, s) \/ WriteRecord(p, s)
                              \/ ExecMigrate(p, s) \/ RemoveLocks(p, s)
      PROVE  op'[o] = op[o]
  BY <1>1, <1>5 DEF ProbeLock, WriteRecord, ExecMigrate, RemoveLocks
<1>6. ASSUME NEW a \in Apps, NEW outcome \in {"ok", "failed", "unknown"}, Pull(p, a, outcome)
      PROVE  op'[o] = op[o]
  BY <1>1, <1>6 DEF Pull
<1>7. ASSUME NEW outcome \in {"ok", "failed"}, Requirements(p, outcome) PROVE op'[o] = op[o]
  BY <1>1, <1>7 DEF Requirements
<1>8. CASE ClearLocks(p) \/ TurnOn(p) \/ ReadExit(p) \/ LoseStream(p) \/ Interrupt(p) \/ Kill(p)
  BY <1>1, <1>8 DEF ClearLocks, TurnOn, ReadExit, LoseStream, Interrupt, Kill
<1>9. CASE Discover(p)
  BY <1>1, <1>9 DEF Discover
<1>10. CASE EndMigrate(p) \/ Reread(p) \/ DisableAgain(p) \/ Report(p)
  BY <1>1, <1>10 DEF EndMigrate, Reread, DisableAgain, Report
<1>11. ASSUME NEW s \in Sites, Disable(p, s) PROVE op'[o] = op[o]
  BY <1>1, <1>11 DEF Disable
<1>q. QED
  BY <1>3, <1>4, <1>5, <1>6, <1>7, <1>8, <1>9, <1>10, <1>11 DEF Work, CleanUp

(* The step that makes a report is Report.                                   *)
LEMMA OnlyReports ==
    ASSUME IInv, NEW o \in Workers, [Next]_vars, op[o].phase = "report", op'[o].phase = "done"
    PROVE  Report(o)
<1>1. CASE Work(o)
  <2>1. CASE Kill(o)
    BY <2>1 DEF Kill, Gone, IInv
  <2>2. ~InTry(o) /\ ~PullsDone(o)
    BY DEF InTry, PullsDone
  <2>q. QED
    BY <1>1, <2>1, <2>2 DEF Work, StartMigrate, ProbeLock, WriteRecord, ExecMigrate,
       RemoveLocks, StartUpdate, Pull, Requirements, ClearLocks, Discover, TurnOn, ReadExit,
       LoseStream, Interrupt
<1>2. CASE CleanUp(o)
  BY <1>2 DEF CleanUp, EndMigrate, Reread, DisableAgain, Disable
<1>3. ASSUME NEW p \in Workers \ {o}, Work(p) \/ CleanUp(p) PROVE FALSE
  BY <1>3, OthersWork
<1>4. UNCHANGED op => FALSE
  OBVIOUS
<1>5. ASSUME NEW p \in Workers, NEW s \in Sites, InContainer(p, s) PROVE UNCHANGED op
  BY SMTT(60), <1>5 DEF InContainer, TakeLock, DieMigrate, FinishMigrate
<1>6. ASSUME NEW w \in Watchers, Watching(w) PROVE UNCHANGED op
  BY <1>6, ZenonT(60) DEF Watching, Look, ForgetStale, ProbeForClear, ClearSite, ForgetFreed, Decide,
     ClearBench
<1>7. ASSUME NEW s \in Outside, ByHand(s) PROVE UNCHANGED op
  BY <1>7 DEF ByHand
<1>q. QED
  BY <1>1, <1>2, <1>3, <1>4, <1>5, <1>6, <1>7 DEF Next, vars

(* An update that had the bench for itself and reports success leaves every  *)
(* site it found migrated to the code, and open unless it was told to leave  *)
(* maintenance alone, people closed the site or its record had gone.         *)
THEOREM ReportsHonest == Spec => ReportHonest
<1>1. ASSUME IInv, [Next]_vars, NEW o \in Workers, Succeeds(o), op[o].alone,
             op[o].kind = "update", NEW s \in op[o].sites
      PROVE  s \notin behind /\ (own[s] = "on" => op[o].skip \/ s \in byHand \cup unnamed)
  <2>1. PICK w \in WorkerRecords : w = op[o]
    BY <1>1 DEF IInv
  <2>2. w.phase = "report" /\ Sound(o, w) /\ w.alone /\ w.kind = "update"
    BY <1>1, <2>1 DEF IInv, Succeeds
  <2>3. Report(o)
    BY <1>1, OnlyReports DEF Succeeds
  <2>4. ~w.bad /\ w.stuck = {}
    <3>1. op'[o].ok <=> ~(op[o].bad \/ op[o].aborted \/ op[o].stuck # {})
      BY <1>1, <2>3 DEF Report, Gone, Fresh, IInv
    <3>q. QED
      BY <1>1, <2>1, <3>1 DEF Succeeds
  <2>5. Promising(w)
    BY <2>2, <2>4 DEF Promising, Ended
  <2>6. Migrated(o, w, s) /\ Reopened(w, s)
    BY <2>1, <2>2, <2>5 DEF Sound, Kept
  <2>q. QED
    BY <2>1, <2>2, <2>4, <2>6 DEF Migrated, Reopened, Opened
<1>2. IInv /\ [Next]_vars =>
          [\A o \in Workers : Succeeds(o) /\ op[o].alone /\ op[o].kind = "update" =>
             \A s \in op[o].sites :
                 /\ s \notin behind
                 /\ own[s] = "on" => op[o].skip \/ s \in byHand \cup unnamed]_vars
  BY <1>1
<1>q. QED
  BY <1>2, Inductive, PTL DEF Spec, ReportHonest

=============================================================================
