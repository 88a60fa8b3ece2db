------------------------------- MODULE Upkeep -------------------------------
(***************************************************************************)
(* Migrations and updates of the sites of one bench, and the maintenance   *)
(* mode around them: core/bench_ops.py, core/update.py,                    *)
(* core/maintenance.py and core/unlock.py.                                 *)
(*                                                                         *)
(* Workers are cwcli processes that migrate one site or update apps;       *)
(* watchers are cwcli processes that look at the bench (cwcli status) and  *)
(* may take a site out of maintenance.  Each lives once.  A bench migrate  *)
(* is a process of its own inside the container: it outlives the worker    *)
(* that started it, and a worker may lose its output without learning its  *)
(* end.  Every exec is one action; what a process learned from one is its  *)
(* own until it uses it.                                                   *)
(***************************************************************************)
EXTENDS Naturals, FiniteSets

CONSTANTS
    Workers, Watchers,
    NoOp,               \* nobody: an absent record, a free lock
    Sites, Apps,
    CoreApps,           \* frappe and erpnext: reset, and every site unlocked first
    InstalledOn,        \* the sites that have an app
    Cached,             \* the sites the cache names for an app
    Requests,           \* the updates people ask for: [apps, only, skip]
    Outside,            \* the sites people close themselves
    Scopes,             \* what people ask to be cleared: {} for the bench, or one site
    SelfManaged,        \* Frappe 15 and later: bench migrate sets the flag itself
    AtOnce,             \* how many workers people start on one bench at a time
    MaxFaults           \* how often anything goes wrong, or people step in

ASSUME UpkeepAssumption ==
    /\ NoOp \notin Workers
    /\ CoreApps \subseteq Apps
    /\ InstalledOn \in [Apps -> SUBSET Sites]
    /\ Cached \in [Apps -> SUBSET Sites]
    /\ Requests \subseteq [apps : SUBSET Apps, only : SUBSET Sites, skip : BOOLEAN]
    /\ Outside \subseteq Sites /\ Scopes \subseteq SUBSET Sites /\ SelfManaged \in BOOLEAN
    /\ AtOnce \in Nat /\ MaxFaults \in Nat

VARIABLES
    own,       \* maintenance_mode in each site's own site_config.json
    common,    \* maintenance_mode in common_site_config.json
    record,    \* logs/.cwcli-maintenance/<site>.json: the worker it names
    lock,      \* who holds the flock on locks/bench_migrate.lock, if seen
    migrate,   \* the in-container process a worker started for a site
    exit,      \* how the migrate a worker waits for ended
    behind,    \* sites whose database is older than the code
    op,        \* the workers
    watch,     \* the watchers
    byHand,    \* sites people closed themselves
    unnamed,   \* sites whose record was not written, or went while they were,
               \* or might become, closed
    faults     \* how often anything went wrong so far

vars == <<own, common, record, lock, migrate, exit, behind, op, watch, byHand, unnamed,
          faults>>

Phases == {"idle", "probe", "unlock", "pull", "requirements", "discover",
           "record", "turnOn", "migrate", "stream", "locks", "end",
           "disable", "reread", "again", "report", "done", "killed"}

Fresh == [kind |-> "none", phase |-> "idle", apps |-> {}, good |-> {}, only |-> {},
          skip |-> FALSE, failed |-> {}, sites |-> {}, left |-> {}, cur |-> NoOp,
          mine |-> {}, plan |-> {}, pre |-> {}, aborted |-> FALSE, lost |-> {},
          bad |-> FALSE, stuck |-> {}, told |-> FALSE, blind |-> FALSE, ok |-> FALSE,
          alone |-> TRUE]

Idle == [phase |-> "idle", stale |-> {}, left |-> {}, todo |-> {}, free |-> {},
         bench |-> FALSE, busy |-> FALSE]

Ended == {"idle", "done", "killed"}
Active(o) == op[o].phase \notin Ended

(* What Frappe serves: the site's own value, or else the bench's.            *)
Down(s) == own[s] = "on" \/ (own[s] = "unset" /\ common)

Running(s) == {o \in Workers : migrate[o][s] # "none"}

(* Something other than o's next step may still close s: a migrate, or a     *)
(* worker that has s among its sites.                                        *)
Endangered(o, s) ==
    Running(s) # {} \/ \E p \in Workers \ {o} : Active(p) /\ s \in op[p].sites

(* rm of the record, whoever wrote it.                                       *)
Forget(o, s) ==
    /\ record' = [record EXCEPT ![s] = NoOp]
    /\ unnamed' = IF own'[s] = "on" \/ Endangered(o, s) THEN unnamed \cup {s} ELSE unnamed

(* Defect: the value is removed instead of written.                          *)
TurnOffNull(o, s) == own' = [own EXCEPT ![s] = "null"] /\ Forget(o, s)

(* bench set-maintenance-mode off, when bench accepts it, and the record.    *)
TurnOff(o, s) == own' = [own EXCEPT ![s] = "off"] /\ Forget(o, s)

KeepFlags == UNCHANGED <<own, common, record, unnamed>>
KeepBench == UNCHANGED <<lock, migrate, exit, behind>>
KeepOthers == UNCHANGED <<watch, byHand>>

(* Every loop over sites and apps goes through them in one order.            *)
First(set) == CHOOSE x \in set : TRUE

(* A step that goes as it should, and one that does not.                     *)
Fine == UNCHANGED faults
Fault == faults < MaxFaults /\ faults' = faults + 1

-----------------------------------------------------------------------------
(* Beginnings.                                                               *)

Overlaps(o) == {p \in Workers \ {o} : Active(p)}

Begin(o, w) ==
    /\ Cardinality(Overlaps(o)) < AtOnce
    /\ op' = [p \in Workers |->
              IF p = o THEN [w EXCEPT !.alone = Overlaps(o) = {}]
              ELSE IF Active(p) THEN [op[p] EXCEPT !.alone = FALSE] ELSE op[p]]

(* migrate_site: a held lock refuses before maintenance is touched.          *)
StartMigrate(o, s) ==
    /\ op[o].phase = "idle"
    /\ \/ /\ lock[s] = NoOp /\ Fine
          /\ Begin(o, [Fresh EXCEPT !.kind = "migrate", !.phase = "record",
                                    !.sites = {s}, !.left = {s}])
       \/ /\ IF lock[s] = NoOp THEN Fault ELSE Fine
          /\ Begin(o, [Fresh EXCEPT !.kind = "migrate", !.phase = "report", !.bad = TRUE])
    /\ KeepFlags /\ KeepBench /\ KeepOthers

(* update: a core app unlocks every site before its try block begins.        *)
StartUpdate(o, r) ==
    /\ op[o].phase = "idle" /\ r.apps # {}
    /\ Begin(o, [Fresh EXCEPT !.kind = "update", !.apps = r.apps, !.only = r.only,
                              !.skip = r.skip, !.left = Sites,
                              !.phase = IF r.apps \cap CoreApps # {} THEN "probe" ELSE "pull"])
    /\ KeepFlags /\ KeepBench /\ KeepOthers /\ Fine

(* The migrate lock of one site: held refuses, unknown keeps its locks.      *)
ProbeLock(o, s) ==
    /\ op[o].phase = "probe" /\ op[o].left # {} /\ s = First(op[o].left)
    /\ \/ /\ lock[s] # NoOp /\ Fine
          /\ op' = [op EXCEPT ![o].phase = "report", ![o].bad = TRUE]
       \/ /\ lock[s] = NoOp /\ Fine
          /\ op' = [op EXCEPT ![o].left = @ \ {s}, ![o].plan = @ \cup {s},
                              ![o].phase = IF op[o].left = {s} THEN "unlock" ELSE @]
       \/ /\ Fault
          /\ op' = [op EXCEPT ![o].left = @ \ {s},
                              ![o].phase = IF op[o].left = {s} THEN "unlock" ELSE @]
    /\ KeepFlags /\ KeepBench /\ KeepOthers

ClearLocks(o) ==
    /\ op[o].phase = "unlock"
    /\ \/ lock' = [s \in Sites |-> IF s \in op[o].plan THEN NoOp ELSE lock[s]] /\ Fine
       \/ UNCHANGED lock /\ Fault
    /\ op' = [op EXCEPT ![o].phase = "pull", ![o].plan = {}]
    /\ KeepFlags /\ UNCHANGED <<migrate, exit, behind>> /\ KeepOthers

-----------------------------------------------------------------------------
(* Pull, requirements, discovery.                                            *)

PullsDone(o) == op[o].phase = "pull" /\ op[o].apps = op[o].good \cup op[o].failed

(* One app: git pull, or fetch and reset for a core app or a forced          *)
(* conflict.  A lost stream leaves the outcome to the container.             *)
Pull(o, a, outcome) ==
    /\ op[o].phase = "pull" /\ ~PullsDone(o)
    /\ a = First(op[o].apps \ (op[o].good \cup op[o].failed))
    /\ op' = [op EXCEPT ![o].good = IF outcome = "ok" THEN @ \cup {a} ELSE @,
                        ![o].failed = IF outcome = "ok" THEN @ ELSE @ \cup {a},
                        ![o].bad = @ \/ outcome # "ok"]
    /\ \/ outcome # "failed" /\ behind' = behind \cup InstalledOn[a]
       \/ outcome # "ok" /\ UNCHANGED behind
    /\ IF outcome = "ok" THEN Fine ELSE Fault
    /\ KeepFlags /\ UNCHANGED <<lock, migrate, exit>> /\ KeepOthers

(* bench setup requirements runs if any app came; unless it succeeds (or is  *)
(* skipped) no app counts and no site will be migrated.                      *)
Requirements(o, outcome) ==
    /\ PullsDone(o)
    /\ op' = [op EXCEPT ![o].phase = "discover",
                        ![o].good = IF outcome = "ok" THEN @ ELSE {},
                        ![o].bad = @ \/ outcome # "ok"]
    /\ IF outcome = "ok" THEN Fine ELSE op[o].good # {} /\ Fault
    /\ KeepFlags /\ KeepBench /\ KeepOthers

(* _sites_with_app for one app: the cache when it names any site, else a     *)
(* live read, in which single sites may be unreadable, or the whole bench.   *)
Looks(a) ==
    IF Cached[a] # {} THEN {[found |-> Cached[a], unread |-> {}]}
    ELSE {[found |-> InstalledOn[a] \ u, unread |-> u] : u \in SUBSET Sites}
         \cup {[found |-> {}, unread |-> {}]}

Expected(a) == [found |-> IF Cached[a] # {} THEN Cached[a] ELSE InstalledOn[a], unread |-> {}]

Narrow(o, found) == IF op[o].only = {} THEN found ELSE found \cap op[o].only

(* What the update works on from here; sites that are already down stay so   *)
(* when a skipped maintenance is interrupted.                                *)
Found(w, all, unread, sites) ==
    [w EXCEPT !.sites = sites, !.left = sites,
              !.pre = {s \in sites : Down(s)},
              !.bad = @ \/ unread # {},
              !.aborted = w.only # {} /\ all # {} /\ sites \cup unread = {},
              !.plan = IF w.skip THEN sites ELSE {},
              !.phase = IF sites = {} THEN "report" ELSE IF w.skip THEN "migrate" ELSE "record"]

Discover(o) ==
    /\ op[o].phase = "discover"
    /\ \E looks \in [op[o].good -> UNION {Looks(a) : a \in op[o].good}] :
        LET all    == UNION {looks[a].found : a \in op[o].good}
            unread == Narrow(o, UNION {looks[a].unread : a \in op[o].good})
            sites  == Narrow(o, all)
        IN /\ \A a \in op[o].good : looks[a] \in Looks(a)
           /\ IF \A a \in op[o].good : looks[a] = Expected(a) THEN Fine ELSE Fault
           /\ op' = [op EXCEPT ![o] = Found(op[o], all, unread, sites)]
    /\ KeepFlags /\ KeepBench /\ KeepOthers

-----------------------------------------------------------------------------
(* Maintenance on, site by site: the record first, then the flag.  A record *)
(* that cannot be written does not stop it.                                  *)

(* Defect: the update does not give its name to the record.                  *)
WriteNoRecord(o, s) ==
    /\ op[o].phase = "record" /\ op[o].left # {} /\ s = First(op[o].left)
    /\ op' = [op EXCEPT ![o].phase = "turnOn", ![o].cur = s]
    /\ KeepFlags /\ KeepBench /\ KeepOthers /\ Fine

WriteRecord(o, s) ==
    /\ op[o].phase = "record" /\ op[o].left # {} /\ s = First(op[o].left)
    /\ \/ record' = [record EXCEPT ![s] = o] /\ UNCHANGED unnamed /\ Fine
       \/ UNCHANGED record /\ unnamed' = unnamed \cup {s} /\ Fault
    /\ op' = [op EXCEPT ![o].phase = "turnOn", ![o].cur = s]
    /\ UNCHANGED <<own, common>> /\ KeepBench /\ KeepOthers

(* The gate: the sites bench accepted are the ones that will be migrated.    *)
AfterEnable(w) ==
    IF w.left # {} THEN [w EXCEPT !.phase = "record"]
    ELSE [w EXCEPT !.phase = IF w.mine = {} THEN "report" ELSE "migrate",
                   !.left = w.mine, !.plan = w.mine]

TurnOn(o) ==
    LET s == op[o].cur
        w == [op[o] EXCEPT !.left = @ \ {s}]
    IN /\ op[o].phase = "turnOn"
       /\ \/ /\ own' = [own EXCEPT ![s] = "on"]
             /\ op' = [op EXCEPT ![o] = AfterEnable([w EXCEPT !.mine = @ \cup {s}])]
             /\ UNCHANGED <<record, unnamed>> /\ Fine
          \/ /\ UNCHANGED own /\ Fault
             /\ op' = [op EXCEPT ![o] = AfterEnable([w EXCEPT !.bad = TRUE])]
             /\ Forget(o, s)
       /\ UNCHANGED common /\ KeepBench /\ KeepOthers

-----------------------------------------------------------------------------
(* The migrates.                                                             *)

ExecMigrate(o, s) ==
    /\ op[o].phase = "migrate" /\ op[o].left # {} /\ s = First(op[o].left)
    /\ migrate' = [migrate EXCEPT ![o][s] = "starting"]
    /\ exit' = [exit EXCEPT ![o] = "none"]
    /\ op' = [op EXCEPT ![o].phase = "stream", ![o].cur = s, ![o].left = @ \ {s}]
    /\ KeepFlags /\ UNCHANGED <<lock, behind>> /\ KeepOthers /\ Fine

(* After the last site an update builds, clears caches and then locks.       *)
AfterMigrate(w) ==
    IF w.left # {} THEN [w EXCEPT !.phase = "migrate"]
    ELSE IF w.kind = "update" THEN [w EXCEPT !.phase = "locks", !.left = w.plan]
    ELSE [w EXCEPT !.phase = "disable", !.left = w.mine]

ReadExit(o) ==
    /\ op[o].phase = "stream" /\ exit[o] # "none"
    /\ op' = [op EXCEPT ![o] = AfterMigrate([op[o] EXCEPT !.bad = @ \/ exit[o] # "ok", !.cur = NoOp])]
    /\ exit' = [exit EXCEPT ![o] = "none"]
    /\ KeepFlags /\ UNCHANGED <<lock, migrate, behind>> /\ KeepOthers /\ Fine

(* The try block of a worker, and where an exception in it leads.            *)
InTry(o) == op[o].phase \in
    IF op[o].kind = "migrate" THEN {"migrate", "stream"}
    ELSE {"pull", "discover", "record", "turnOn", "migrate", "stream", "locks"}

ToDisable(w) == IF ~w.skip THEN w.mine
                ELSE IF w.aborted THEN w.plan \ w.pre ELSE {}

(* Defect: maintenance is cleared without ending the migrate.                *)
UnwindAtOnce(w) ==
    LET x == [w EXCEPT !.aborted = TRUE, !.bad = TRUE]
    IN [x EXCEPT !.phase = IF ToDisable(x) = {} THEN "report" ELSE "disable",
                 !.left = ToDisable(x)]

Unwind(w) ==
    LET x == [w EXCEPT !.aborted = TRUE, !.bad = TRUE]
        migrating == x.plan # {} \/ x.kind = "migrate"
    IN [x EXCEPT !.phase = IF migrating THEN "end"
                           ELSE IF ToDisable(x) = {} THEN "report" ELSE "disable",
                 !.left = ToDisable(x)]

(* Defect: a migrate whose output ended is taken for a good one.             *)
LoseStreamGood(o) ==
    /\ op[o].phase = "stream"
    /\ op' = [op EXCEPT ![o] =
                 IF op[o].kind = "migrate" THEN Unwind(op[o])
                 ELSE AfterMigrate([op[o] EXCEPT !.lost = @ \cup {op[o].cur}, !.cur = NoOp])]
    /\ exit' = [exit EXCEPT ![o] = "none"]
    /\ KeepFlags /\ UNCHANGED <<lock, migrate, behind>> /\ KeepOthers /\ Fault

(* The stream is lost: an update goes on with the next site, migrate_site    *)
(* unwinds.                                                                  *)
LoseStream(o) ==
    /\ op[o].phase = "stream"
    /\ op' = [op EXCEPT ![o] =
                 IF op[o].kind = "migrate" THEN Unwind(op[o])
                 ELSE AfterMigrate([op[o] EXCEPT !.lost = @ \cup {op[o].cur}, !.bad = TRUE, !.cur = NoOp])]
    /\ exit' = [exit EXCEPT ![o] = "none"]
    /\ KeepFlags /\ UNCHANGED <<lock, migrate, behind>> /\ KeepOthers /\ Fault

Interrupt(o) ==
    /\ InTry(o)
    /\ op' = [op EXCEPT ![o] = Unwind(op[o])]
    /\ \/ KeepFlags
       \/ /\ op[o].phase = "turnOn"       \* bench did it, the worker never heard
          /\ own' = [own EXCEPT ![op[o].cur] = "on"]
          /\ UNCHANGED <<common, record, unnamed>>
    /\ KeepBench /\ KeepOthers /\ Fault

(* rm -rf of the locks of each site the fan-out meant to migrate.            *)
RemoveLocks(o, s) ==
    LET w == [op[o] EXCEPT !.left = @ \ {s}]
        d == [w EXCEPT !.phase = IF ToDisable(w) = {} THEN "report" ELSE "disable",
                       !.left = ToDisable(w)]
    IN /\ op[o].phase = "locks" /\ op[o].left # {} /\ s = First(op[o].left)
       /\ \/ lock' = [lock EXCEPT ![s] = NoOp] /\ Fine
          \/ UNCHANGED lock /\ Fault
       /\ op' = [op EXCEPT ![o] = IF w.left = {} THEN d ELSE w]
       /\ KeepFlags /\ UNCHANGED <<migrate, exit, behind>> /\ KeepOthers

-----------------------------------------------------------------------------
(* The bench migrate itself, as the code describes it: it takes the site's   *)
(* lock or fails at once; from Frappe 15 on it sets the flag while it works. *)

TakeLock(o, s) ==
    /\ migrate[o][s] = "starting"
    /\ \/ /\ lock[s] = NoOp
          /\ lock' = [lock EXCEPT ![s] = o]
          /\ migrate' = [migrate EXCEPT ![o][s] = "working"]
          /\ own' = [own EXCEPT ![s] = IF SelfManaged THEN "on" ELSE @]
          /\ UNCHANGED exit
       \/ /\ lock[s] # NoOp
          /\ migrate' = [migrate EXCEPT ![o][s] = "none"]
          /\ exit' = [exit EXCEPT ![o] = IF op[o].cur = s THEN "failed" ELSE @]
          /\ UNCHANGED <<lock, own>>
    /\ UNCHANGED <<common, record, behind, op, unnamed>> /\ KeepOthers /\ Fine

Release(o, s) == lock' = [lock EXCEPT ![s] = IF @ = o THEN NoOp ELSE @]

FinishMigrate(o, s, good) ==
    /\ migrate[o][s] = "working"
    /\ IF good THEN Fine ELSE Fault
    /\ migrate' = [migrate EXCEPT ![o][s] = "none"]
    /\ exit' = [exit EXCEPT ![o] = IF op[o].cur = s THEN (IF good THEN "ok" ELSE "failed") ELSE @]
    /\ behind' = IF good THEN behind \ {s} ELSE behind
    /\ own' = [own EXCEPT ![s] = IF SelfManaged THEN "off" ELSE @]
    /\ Release(o, s)
    /\ UNCHANGED <<common, record, op, unnamed>> /\ KeepOthers

(* It is killed, by its worker's signals, for memory or with its container,  *)
(* and leaves the flag as it is.                                             *)
DieMigrate(o, s) ==
    /\ migrate[o][s] # "none"
    /\ migrate' = [migrate EXCEPT ![o][s] = "none"]
    /\ exit' = [exit EXCEPT ![o] = IF op[o].cur = s THEN "failed" ELSE @]
    /\ Release(o, s)
    /\ UNCHANGED <<own, common, record, behind, op, unnamed>> /\ KeepOthers /\ Fault

-----------------------------------------------------------------------------
(* Cleaning up.                                                              *)

(* end_migrate_on_interrupt: TERM, wait, KILL, wait.  "Gone" is also what a  *)
(* container that cannot be looked into answers; otherwise the user is told. *)
EndMigrate(o) ==
    LET gone == \A s \in Sites : migrate[o][s] = "none"
        next == IF op[o].left = {} THEN "report" ELSE "disable"
    IN /\ op[o].phase = "end"
       /\ \/ /\ gone /\ Fine
             /\ op' = [op EXCEPT ![o].phase = next]
          \/ /\ ~gone /\ Fault
             /\ op' = [op EXCEPT ![o].phase = next, ![o].told = TRUE]
          \/ /\ ~gone /\ Fault
             /\ op' = [op EXCEPT ![o].phase = next, ![o].blind = TRUE]
       /\ KeepFlags /\ KeepBench /\ KeepOthers

NextSite(w) ==
    LET x == [w EXCEPT !.left = @ \ {w.cur}]
    IN [x EXCEPT !.phase = IF x.left = {} THEN "report" ELSE "disable"]

Stuck(o, s) == [op[o] EXCEPT !.stuck = @ \cup {s}, !.cur = s]

(* clear_maintenance: off; after an interrupt look again, and off again.     *)
Disable(o, s) ==
    /\ op[o].phase = "disable" /\ op[o].left # {} /\ s = First(op[o].left)
    /\ \/ /\ TurnOff(o, s) /\ Fine
          /\ op' = [op EXCEPT ![o] = IF op[o].aborted THEN [op[o] EXCEPT !.phase = "reread", !.cur = s]
                                     ELSE NextSite([op[o] EXCEPT !.cur = s])]
       \/ /\ op' = [op EXCEPT ![o] = IF op[o].aborted THEN [Stuck(o, s) EXCEPT !.phase = "reread"]
                                     ELSE NextSite(Stuck(o, s))]
          /\ UNCHANGED <<own, record, unnamed>> /\ Fault
    /\ UNCHANGED common /\ KeepBench /\ KeepOthers

(* What cannot be read back is what the write reported.                      *)
Reread(o) ==
    LET w == [op[o] EXCEPT !.stuck = @ \ {op[o].cur}]
    IN /\ op[o].phase = "reread"
       /\ \/ /\ op' = [op EXCEPT ![o] = IF Down(w.cur) THEN [w EXCEPT !.phase = "again"]
                                        ELSE NextSite(w)]
             /\ Fine
          \/ op' = [op EXCEPT ![o] = NextSite(op[o])] /\ Fault
       /\ KeepFlags /\ KeepBench /\ KeepOthers

(* The second write and the last look at it.                                 *)
DisableAgain(o) ==
    LET s == op[o].cur
    IN /\ op[o].phase = "again"
       /\ \/ TurnOff(o, s) /\ Fine /\ op' = [op EXCEPT ![o] = NextSite(op[o])]
          \/ /\ op' = [op EXCEPT ![o] = NextSite(IF Down(s) THEN Stuck(o, s) ELSE op[o])]
             /\ UNCHANGED <<own, record, unnamed>> /\ Fault
       /\ UNCHANGED common /\ KeepBench /\ KeepOthers

(* What is left of a worker: what it told the user.                          *)
Gone(w, phase, good) ==
    [Fresh EXCEPT !.kind = w.kind, !.phase = phase, !.skip = w.skip, !.stuck = w.stuck,
                  !.told = w.told, !.ok = good,
                  !.sites = IF w.skip THEN w.sites ELSE {}]

(* _build_report, or the exception that goes on.                             *)
Report(o) ==
    /\ op[o].phase = "report"
    /\ op' = [op EXCEPT ![o] = Gone(@, "done", ~(@.bad \/ @.aborted \/ @.stuck # {}))]
    /\ KeepFlags /\ KeepBench /\ KeepOthers /\ Fine

(* SIGKILL, or a second Ctrl+C during the clean-up.                          *)
Kill(o) ==
    /\ Active(o)
    /\ op' = [op EXCEPT ![o] = Gone(@, "killed", FALSE)]
    /\ KeepFlags /\ KeepBench /\ KeepOthers /\ Fault

-----------------------------------------------------------------------------
(* Watchers: inspect and clear.                                              *)

OwnerRuns(s) == record[s] # NoOp /\ Active(record[s])
HasKilledOwner(s) == record[s] # NoOp /\ ~Active(record[s])

(* inspect reads everything in one exec: flags, records, processes; plan     *)
(* names the writes that would free the bench, or the one site.              *)
Look(w, only) ==
    LET scope  == {s \in Sites : Down(s) \/ own[s] = "on"}
        chosen == IF only = {} THEN scope ELSE scope \cap only
    IN /\ watch[w].phase = "idle"
       /\ watch' = [watch EXCEPT ![w] =
            [phase |-> "forget", left |-> scope,
             stale |-> {s \in Sites : ~Down(s) /\ HasKilledOwner(s)},
             todo |-> {s \in chosen : own[s] = "on"},
             free |-> IF only = {} THEN chosen ELSE {},
             bench |-> only = {} /\ common,
             busy |-> \/ \E s \in scope : OwnerRuns(s)
                      \/ \E s \in Sites : Running(s) # {}
                      \/ only # {} /\ \E s \in chosen : own[s] # "on"]]
       /\ KeepFlags /\ KeepBench /\ UNCHANGED <<op, byHand>> /\ Fine

(* _forget_stale_owners removes what the look found, record by record.       *)
ForgetStale(w, s) ==
    /\ watch[w].phase = "forget" /\ watch[w].stale # {} /\ s = First(watch[w].stale)
    /\ UNCHANGED own /\ Forget(NoOp, s)
    /\ watch' = [watch EXCEPT ![w].stale = @ \ {s}]
    /\ UNCHANGED <<common, op, byHand>> /\ KeepBench /\ Fine

(* _lock_reasons, once per site in maintenance.                              *)
ProbeForClear(w, s) ==
    /\ watch[w].phase = "forget" /\ watch[w].stale = {} /\ watch[w].left # {} /\ s = First(watch[w].left)
    /\ \E held \in BOOLEAN :
          /\ watch' = [watch EXCEPT ![w].left = @ \ {s}, ![w].busy = @ \/ held]
          /\ IF held = (lock[s] # NoOp) THEN Fine ELSE held /\ Fault
    /\ KeepFlags /\ KeepBench /\ UNCHANGED <<op, byHand>>

(* cwcli status ends here; a clear goes on unless something is in the way.   *)
Decide(w, clears) ==
    /\ watch[w].phase = "forget" /\ watch[w].stale = {} /\ watch[w].left = {}
    /\ watch' = [watch EXCEPT ![w] =
          IF clears /\ ~@.busy /\ (@.bench \/ @.todo # {})
          THEN [watch[w] EXCEPT !.phase = IF watch[w].bench THEN "bench" ELSE "sites",
                                !.free = IF watch[w].bench THEN @ ELSE {}]
          ELSE [Idle EXCEPT !.phase = "done"]]
    /\ KeepFlags /\ KeepBench /\ UNCHANGED <<op, byHand>> /\ Fine

Settle(x) == IF x.todo = {} /\ x.free = {} THEN [Idle EXCEPT !.phase = "done"] ELSE x

(* The bench-wide flag first; bench may refuse.                              *)
ClearBench(w) ==
    /\ watch[w].phase = "bench"
    /\ \/ /\ common' = FALSE /\ Fine
          /\ watch' = [watch EXCEPT ![w] = Settle([watch[w] EXCEPT !.phase = "sites"])]
       \/ /\ watch' = [watch EXCEPT ![w] = Settle([watch[w] EXCEPT !.phase = "sites", !.free = {}])]
          /\ UNCHANGED common /\ Fault
    /\ UNCHANGED <<own, record, unnamed, op, byHand>> /\ KeepBench

ClearSite(w, s) ==
    /\ watch[w].phase = "sites" /\ watch[w].todo # {} /\ s = First(watch[w].todo)
    /\ \/ /\ TurnOff(NoOp, s) /\ Fine
          /\ watch' = [watch EXCEPT ![w] = Settle([watch[w] EXCEPT !.todo = @ \ {s}, !.free = @ \ {s}])]
       \/ /\ watch' = [watch EXCEPT ![w] = Settle([watch[w] EXCEPT !.todo = @ \ {s}])]
          /\ UNCHANGED <<own, record, unnamed>> /\ Fault
    /\ UNCHANGED <<common, op, byHand>> /\ KeepBench

(* A bench-wide clear also drops the records of the other sites it freed.    *)
ForgetFreed(w, s) ==
    /\ watch[w].phase = "sites" /\ watch[w].todo = {} /\ watch[w].free # {} /\ s = First(watch[w].free)
    /\ UNCHANGED own /\ Forget(NoOp, s)
    /\ watch' = [watch EXCEPT ![w] = Settle([watch[w] EXCEPT !.free = @ \ {s}])]
    /\ UNCHANGED <<common, op, byHand>> /\ KeepBench /\ Fine

-----------------------------------------------------------------------------
(* People: bench set-maintenance-mode, or a bench update of their own.       *)
ByHand(s) ==
    /\ Fault
    /\ byHand' = byHand \cup {s}
    /\ \/ own' = [own EXCEPT ![s] = "on"] /\ UNCHANGED common
       \/ common' = TRUE /\ UNCHANGED own
    /\ UNCHANGED <<record, unnamed, op, watch>> /\ KeepBench

Init ==
    /\ own = [s \in Sites |-> "unset"] /\ common = FALSE
    /\ record = [s \in Sites |-> NoOp] /\ lock = [s \in Sites |-> NoOp]
    /\ migrate = [o \in Workers |-> [s \in Sites |-> "none"]]
    /\ exit = [o \in Workers |-> "none"]
    /\ behind = {}
    /\ op = [o \in Workers |-> Fresh]
    /\ watch = [w \in Watchers |-> Idle]
    /\ byHand = {} /\ unnamed = {} /\ faults = 0

CleanUp(o) ==
    \/ EndMigrate(o) \/ Reread(o) \/ DisableAgain(o) \/ Report(o)
    \/ \E s \in Sites : Disable(o, s)

Work(o) ==
    \/ \E s \in Sites : \/ StartMigrate(o, s) \/ ProbeLock(o, s) \/ WriteRecord(o, s)
                        \/ ExecMigrate(o, s) \/ RemoveLocks(o, s)
    \/ \E r \in Requests : StartUpdate(o, r)
    \/ \E a \in Apps, outcome \in {"ok", "failed", "unknown"} : Pull(o, a, outcome)
    \/ \E outcome \in {"ok", "failed"} : Requirements(o, outcome)
    \/ ClearLocks(o) \/ Discover(o) \/ TurnOn(o) \/ ReadExit(o) \/ LoseStream(o)
    \/ Interrupt(o) \/ Kill(o)

InContainer(o, s) ==
    TakeLock(o, s) \/ DieMigrate(o, s) \/ \E good \in BOOLEAN : FinishMigrate(o, s, good)

Watching(w) ==
    \/ \E only \in Scopes : Look(w, only)
    \/ \E s \in Sites : \/ ForgetStale(w, s) \/ ProbeForClear(w, s)
                        \/ ClearSite(w, s) \/ ForgetFreed(w, s)
    \/ \E clears \in BOOLEAN : Decide(w, clears)
    \/ ClearBench(w)

Next ==
    \/ \E o \in Workers : Work(o) \/ CleanUp(o) \/ \E s \in Sites : InContainer(o, s)
    \/ \E w \in Watchers : Watching(w)
    \/ \E s \in Outside : ByHand(s)

Spec == Init /\ [][Next]_vars

-----------------------------------------------------------------------------
WorkerRecords ==
    [kind : {"none", "migrate", "update"}, phase : Phases, apps : SUBSET Apps,
     good : SUBSET Apps, only : SUBSET Sites, skip : BOOLEAN, failed : SUBSET Apps,
     sites : SUBSET Sites, left : SUBSET Sites, cur : Sites \cup {NoOp},
     mine : SUBSET Sites, plan : SUBSET Sites, pre : SUBSET Sites, aborted : BOOLEAN,
     lost : SUBSET Sites, bad : BOOLEAN, stuck : SUBSET Sites, told : BOOLEAN,
     blind : BOOLEAN, ok : BOOLEAN, alone : BOOLEAN]

WatcherRecords ==
    [phase : {"idle", "forget", "bench", "sites", "done"}, stale : SUBSET Sites,
     left : SUBSET Sites, todo : SUBSET Sites, free : SUBSET Sites,
     bench : BOOLEAN, busy : BOOLEAN]

(* Every variable has its type.                                              *)
TypeOK ==
    /\ own \in [Sites -> {"unset", "off", "on"}] /\ common \in BOOLEAN
    /\ record \in [Sites -> Workers \cup {NoOp}]
    /\ lock \in [Sites -> Workers \cup {NoOp}]
    /\ migrate \in [Workers -> [Sites -> {"none", "starting", "working"}]]
    /\ exit \in [Workers -> {"none", "ok", "failed"}]
    /\ behind \subseteq Sites
    /\ op \in [Workers -> WorkerRecords]
    /\ watch \in [Watchers -> WatcherRecords]
    /\ byHand \subseteq Sites /\ unnamed \subseteq Sites /\ faults \in 0..MaxFaults

(* A worker takes a site out of maintenance only when its own migrates have  *)
(* ended, except those whose output it lost, or after it told the user that  *)
(* it could not end them, or when it could not look.                         *)
OwnMigrateEnded ==
    \A o \in Workers, s \in Sites :
        op[o].phase \in {"disable", "reread", "again"} /\ migrate[o][s] # "none"
            => s \in op[o].lost \/ op[o].told \/ op[o].blind

(* A closed site is explained at every moment: people closed it, its record  *)
(* names a worker, an update that was told to leave maintenance alone has it *)
(* among its sites, or its record could not be written, or went while        *)
(* something had closed the site or still could.                             *)
LeftoverNamed ==
    \A s \in Sites : own[s] = "on" =>
        \/ s \in byHand \/ s \in unnamed \/ record[s] # NoOp
        \/ \E o \in Workers : s \in op[o].sites /\ op[o].skip

(* An update that had the bench for itself and reports success leaves every  *)
(* site it found migrated to the code and open.                              *)
Succeeds(o) == op[o].phase = "report" /\ op'[o].phase = "done" /\ op'[o].ok

ReportHonest ==
    [][\A o \in Workers : Succeeds(o) /\ op[o].alone /\ op[o].kind = "update" =>
         \A s \in op[o].sites :
             /\ s \notin behind
             /\ own[s] = "on" => op[o].skip \/ s \in byHand \cup unnamed]_vars
=============================================================================
