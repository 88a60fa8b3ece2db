# Formal models of caffeinated-whale-cli

`cwcli` manages Frappe benches in Docker instances: it creates, starts, stops,
updates, backs up, restores, publishes and removes them, from a terminal, from a
web UI served by a local daemon, and on a timetable. This directory holds TLA+
models of the parts of it whose correctness depends on the order in which
things happen, the TLC runs that check them and TLAPS proofs of what matters
most. Paths below are relative to `src/caffeinated_whale_cli/` in the
repository unless they start with another directory of it.

## 1. The system

| Part | Code | State | Operations |
|---|---|---|---|
| Durable jobs | `jobs.py` | one directory per job: `spec.json`, `state.json`, `events.jsonl`, lock file; per process: the creation lock, the spawned children, the passwords held for retries | create, retry, continue, interrupt, read, list, prune; the worker process `run_job`; `watch_loop` |
| HTTP/SSE daemon | `commands/serve.py`, `commands/ui.py` | sessions, SSE clients, its threads | routes over the core, the scheduler loop, the watch loop, the fleet's loops |
| Scheduler | `core/schedules.py`, `commands/schedule.py` | one JSON store of schedules, recipes, consumed events; per process: the finished jobs seen | `tick`, `run_now`, save, enable, delete, settings |
| Maintenance and bench operations | `core/maintenance.py`, `core/bench_ops.py` | the sites' maintenance flag and its record | enter, leave, migrate, build |
| Updates | `core/update*.py`, `core/updates.py` | app checkouts, backups, migrations | preflight, update, rollback |
| Apps | `core/apps.py`, `core/app_*.py`, `core/advisories.py` | app checkouts, installed apps | install, uninstall, checkout |
| Backups | `core/backup*.py`, `core/s3.py`, `core/restore.py`, `core/transfer.py` | backup sets, retention, daily schedule | back up, upload, prune, drill, restore, move |
| Removal | `core/rm*.py`, `core/unlock.py` | containers, volumes, sites | gated removal |
| Supervision | `core/supervision.py`, `core/start.py`, `core/stop.py`, `core/restart.py` | supervised processes of a bench | start, stop, restart, scale |
| Publishing | `core/publish.py`, `core/cloudflare.py`, `core/npm.py` | publish records, proxy hosts, DNS | publish, unpublish, move |
| Accounts and directory | `core/accounts.py`, `core/integrations.py`, `core/directory.py` | accounts, roles, sessions | sign in, confirm roles |
| Hosts and fleet | `core/hosts.py`, `core/remote_access.py`, `core/fleet.py`, `bridge.py` | hosts, grants, the fleet's picture | probe, connect, relay |
| Credential bridge | `core/credbridge.py`, `utils/cred_daemon.py` | one daemon per user, a socket | serve credentials |
| Auto-inspect and cache | `utils/auto_inspect.py`, `utils/db_utils.py` | cached rows, one background process | refresh |
| Creation | `core/init.py`, `core/new_*.py`, `utils/port_utils.py` | compose projects, ports | init, new bench, new site |
| Self-update | `core/self_update.py` | the installed package | update, replace the daemon |

How they meet: everything that changes an instance from the web UI or the
timetable is a *job*. The scheduler, the pages and the jobs themselves (their
follow-ups) call `create_job`; a worker process runs the verb with the core's
functions; whoever reads a record may change it (`_refresh_unknown`). The
scheduler reads job records to follow recipes and events. Processes share files
under the cwcli home and nothing else: a file lock per job record, a file lock
for the schedule store, a thread lock per process for admission.

What is hard to test here: several processes on one directory of records;
signals that race writes; a worker that vanishes without a word; five-second and
one-minute timeouts that race slow hosts; passes that start things first and
record them last; recipes that live across many passes, edits and restarts. The
hazards are listed with their lines in `PROJECT.json`, each with the properties
that would catch it.

What makes each part correct, in a sentence: a job's record tells the truth
about its worker and only moves along its life cycle; one active job per
instance; history and passwords go when they should and never earlier; a slot
or an event fires once; recipes run in order and end; maintenance mode ends
with the operation that began it; retention never removes the last good backup;
a removal asks first and says what it left; a published name points to one
place; a session never outlives its rights.

## 2. Modules

| Module | Models | Runs |
|---|---|---|
| `JobLifecycle` | the abstract promise of one job record: which state may follow which and what each change says about the worker | used as a property by the next two |
| `JobRun` | one job from its admission to its end: creator, worker, signals, readers, interrupts, zombies, crashes | `MCJobRun` |
| `JobAdmission` | many jobs: threads of several processes that create, retry and continue, the scan, the prune, held passwords | `MCJobAdmission` |
| `JobRecord` | the abstract promise of one job's files to whoever reads them | property of `JobRecorder`, environment of `JobFeed` |
| `JobRecorder` | one job's record while its worker, its flush timers and the daemon write it | `MCJobRecorder` |
| `JobFeed` | how the record reaches a page: watch loop, hub, stream, list | `MCJobFeed` |
| `Scheduler` | the schedule store and the passes of several schedulers over it | `MCScheduler*` |
| `Upkeep` | migrations, updates and maintenance mode of one bench | `MCUpkeep` |
| `Retention` | which backup sets a policy keeps, as operators | extended by the next |
| `BackupStore` | the backup sets of one site: capture, check, drill, off-site copy, delete, prune, fetch | `MCBackupStore` |
| `Publish` | one public name: DNS records, proxy host, certificate and their record | `MCPublish` |
| `HostLinks` | one remote host on a hub: store, manager, link, and the page that is told | `MCHostLinks` |
| `JobRunProofs`, `JobAdmissionProofs`, `JobRecorderProofs`, `SchedulerProofs`, `UpkeepProofs`, `BackupStoreProofs`, `PublishProofs`, `HostLinksProofs` | theorems about the module each is named for | `tlapm` |
| `MC*` | the small instances TLC checks | |

Operators named in a comment "Defect: ..." are plausible bugs of the
definition they stand next to. No specification uses them; each is put in the
place of that definition once, to show that a property notices.

### 2.1 JobLifecycle

Two variables: `state`, the field of `state.json`, and `worker`
(none, starting, registered, ended). Its actions are the changes a reader may
rely on: only a job that is queued or running can be asked to stop
(`AskInterrupt`), only the job's own registered worker reports an outcome or
replaces it by interrupted (`Report`, `LateInterrupt`), a job is declared lost
only while no registered worker runs (`DeclareLost`), only ended jobs are
answered or forgotten. `Register` is as lenient as the code: the worker's first
merge overwrites whatever is there.

### 2.2 JobRun

One job. The critical sections under the record's file lock are one action
each; what a caller read before it took the lock is a variable of that caller
and may be stale.

- The creator: `Spawn`, `LookBeforeRecord` (the unlocked look that decides
  whether to add the pid), `RecordProcess` (`_create_job`).
- The worker's phases follow `run_job`: boot, armed (handlers installed),
  marked (running merged), verb, report, written, error, unwind, leave. A
  pending SIGTERM is taken in any phase (`TakeSignal`): inside the try block it
  leads to `WriteInterrupted`, anywhere else, and the second time, it ends the
  process (`utils/signals.py`).
- A worker that ended is a zombie until its parent reaps it or ends. A zombie
  answers `_process_is_job`.
- Callers run `_refresh_unknown` as read, probe, decide, and `interrupt_job` as
  arm and kill after it. The processes of the callers in `Mortal` may stop
  anywhere in between.

### 2.3 JobAdmission

Each thread of `Callers` runs in a process `ProcOf[c]` whose creation lock it
holds from listing the records (`Acquire`, `ReadOne`, `Prune`) to recording the
pid. Reading a record is one
action (JobRun takes it apart), the scan over all records is not: `seen` is
what it read, one record at a time. `Prune`, `Busy`, `Surplus` use `seen`, as
the code does. `secrets` is `_RETRY_SECRETS` of each process. `young` stands
for the five seconds a record may go without a pid; `PromptStart` says that
they do not pass while the worker is being started, which is what a host that
is not overloaded gives.

`LivesKept` states that every job of the directory, with its own slice of the
state, lives the life of `JobLifecycle`.

### 2.4 Scheduler

Schedulers (`ui`, `service`) make passes over one store: `Sample` is
`tick_once` before it calls `tick` (running instances, finished jobs, the
time), `Lock` takes the store lock and copies the store to `draft`. Then one
action per schedule for the first loop (`PassBy`, `DropMissed`, `Hold`,
`Decline`, `StartFirst`, `SkipStopped`, `Fire` and its `FireBusy` and
`FireRefused`), one per schedule for the second (`NothingEnded`, `Settle`,
`EndRecipe`, `HoldStep`, `GiveUpStep`, `NextStep`, `NextStepBusy`,
`NextStepRefused`), and `Save`. Jobs started on the way are in `job` at once; the store learns of
them in `Save` only. `Crash` and `TickError` end a pass early; the history variable `lost` counts the passes that held the lock
and never saved. People enable,
disable, edit and run schedules between passes; the instance goes up and down,
the guards change, jobs end, other people's jobs come.

Time is `minute`; a schedule's timetable is the set of minutes its cron names
(`SlotsOf`), so `NextSlot` is `compute_next` without the calendar. A pass is
due once in a minute. `guard` is the verdict of consent, quiet hours, windows,
resources and owner: open, waits (hold the slot) or refuses (give it up). Only
finished jobs that an `after_job` trigger could name are kept in what a pass
samples; the others change nothing.

Each row of the store keeps what `schedules.json` keeps: `due` (the recorded
slot; 0 for none), `dueFrom`, the last job and its state, a pending event,
whether a start is awaited, the recipe's current job and step, consumed jobs.
A one-off's slot is the one element of its `SlotsOf`.

### 2.5 JobRecord, JobRecorder and JobFeed

`JobRecord` is what a reader of a job's directory may rely on: the state in
`state.json` only moves on, the log only grows, and the count of events in
`state.json` is a hint. `JobRecorder` takes the writers apart. `_merge_state` is
two actions, `TakeLock` (the lock is taken, the file read) and `Merge` (the
changes are laid over what was read and the file replaced), for the verb's
thread, each flush timer and the daemon. `_Recorder._record` is three: `Emit`
numbers the event, `WriteEvent` appends it and flushes, arms a timer or leaves
it to the one that is armed; `Fire` is the timer's thread. `Exit` and `Crash`
end all threads of the worker and free its lock. `RecordKept` is
`JobRecord`'s specification with the recorder's own variables and `alive` read
off the worker's phase.

`JobFeed` extends `JobRecord`: the record changes as that module allows
(`Recording`), and what `JobRecorder` does is one way of changing it.
`watch_loop` takes the file's time, then reads, then publishes: three actions.
`Connect` subscribes a client, `Snapshot` reads what it is sent first, frames
wait in the hub's queue until `Deliver`, `Break` loses stream and queue. The
page's list takes each record it is sent (`applyJob`).

### 2.6 Upkeep

Workers migrate one site (`bench_ops.migrate_site`) or update apps
(`core/update.py`): probe the migrate lock, clear the locks of core apps, pull
the apps one by one, install requirements, discover the sites, and then for each
site record, close, migrate, read the end, open. The phases of a worker are the
points between two execs. A migrate is a process of its own in the container
(`migrate`, `lock`): a worker can lose its output (`LoseStream`), be interrupted
(`Interrupt`, after which `EndMigrate`, `Disable`, `Reread` and `DisableAgain`
clean up) or killed (`Kill`), and the migrate goes on. Watchers are the status
command and its `--clear`: they forget stale records and open sites by what they
read before. `own` and `common` are the two files Frappe reads, with the site's
own value first.

The sites of a loop are gone through in one order (`First`). History variables
guard no action: `byHand` (sites that people closed) and `unnamed` (sites whose
record could not be written, or was removed while they were closed or something
could still close them) name why a site may be closed without a record; `blind`
is a worker that could not see whether its migrate ended, `alone` one that had
the bench for itself.

### 2.7 Retention and BackupStore

`Retention` is `_plan_for` as operators over a function from set numbers to
manifests: `LastGood`, `SafetyKept`, `Slots` (daily, weekly, monthly), `Keep`.

In `BackupStore` each operation is the sequence of its file or store accesses.
A capture: list the run's artifacts in the bench, copy them out, check them,
remove them from the bench, write the manifest, and, when the policy says so,
the off-site copy. A check, a drill and an off-site copy read the manifest
when they begin (`held`) and write it when they end. Deletion is `Guard` (count
the good sets), `RemoveSome`, `RemoveRest`. A prune takes a plan and deletes set
by set; a prune of the copies lists the bucket. What is in a set's directory is
one of `none`, `torn` (no usable database), `short` (without some files),
`whole`, `rotten` (a byte changed since). `Kill` ends an operation anywhere; a
`Fault` is a failed copy or upload, a changed byte or a kill.

### 2.8 Publish

One name. `publish_site` is the steps of its four parts: `ListRecords` (all
records once), `Decide` per record type, `Write`, `Surplus`, then `Proxy`,
`FindCertificate` and `Attach`, `Put` (the record in `publications.json`) and
`Verify`. `unpublish_site` is `DropHost`, `DropCert`, `DropDns`, `Close`. A call
is done, refused, or done without an answer. People change records, hosts and
certificates by hand (`HandRecord`, `HandHost`, `HandCertificate`) at any time;
`Change` alters the settings or removes a site. Jobs of one name exclude each
other, as `JobAdmission` shows for their project key in one process.

### 2.9 HostLinks

One host. Its link's thread goes `wait`, `probe`, `open`, `stream`, `frame`
(`HostLink.step`, `_stream_once`); a status that moved is told in a step of its own
(`_set` holds the link's lock, `_state_changed` the manager's). `resync` is
`ReadStore` and `Apply`, with the manager's lock (`Free`) held from one to the
other; each link the manager ever made keeps its place in `link`, so that one
that was stopped goes on to finish what it does. `check` and `request` are
`StartCheck` or `StartRequest`, `Answered`, `Judge`, `TellVerdict` and `Cancel`.
A page's stream is `Connect`, `View` (the states) and `Snapshot` (each host's
data); frames published in between wait in its queue. `shown` is what the page
makes of snapshot and frames (`webui/src/data/fleet.js`, `hosts.js`): the host's
state, what was last heard of its instances and whether it is shown as live.

What the remote host tells is one number, `fact`. A refused hub key, a daemon
that is down and another protocol count as unreachable.
`link[l].blind` and `missed` are history variables for the two exceptions that
`PageTrueInTheEnd` names.

## 3. What the runs show

### Passing runs

| Run | Instance | Shows |
|---|---|---|
| `job_run` | the creator and one more caller, one of which may stop half-way, in a process that reaps; crashes and outside signals | types; a registered worker's job is never lost; the life cycle; outcomes are never replaced by a reader; a vanished worker is noticed; an interrupt that was sent ends the job |
| `job_admission` | two threads of one process, three jobs on one key, history of one, passwords | one active job per key; working jobs stay on record; history; passwords go with the record; life cycles |
| `job_recorder` | one job of up to five events, two flush timers, the worker, which may be killed, and the daemon | types (the holder of the lock is the only one about to write); the recorder implements `JobRecord` |
| `job_feed` | three writes of a record, a client whose stream breaks twice | a client whose stream lasts comes to list the job as it is on disk |
| `scheduler` | two schedulers, a two-step recipe due in two minutes, edits, one pass lost to a crash | a slot fires once, and a lost pass costs at most one job more; steps in order |
| `scheduler_events` | two schedulers, a job waited for that a fresh process may be offered again, a busy instance, one pass lost to a crash | one job for it and one more for a lost pass, and it is served |
| `scheduler_on_start` | one scheduler, a recipe with steps that may be refused, manual runs, two starts, one pass lost to an error, guards that change | one job for each start, and one more for the lost pass; steps in order |
| `scheduler_live` | one scheduler, a recipe and a one-off that may be missed, an instance that may stop | recipes end, slots are served |
| `upkeep` | two workers in turn on two sites and two apps, a status command that may clear, people who close a site, two faults anywhere | a worker opens a site only when its own migrate ended or it said so; a closed site is explained at every moment; an update that reports success left the sites it found migrated and open |
| `backups` | three sets of earlier days, up to five in all over four days, four operations, one fault | no run of `bench backup` is lost; a set noted as copied can be fetched; a good set goes only while another stays; repeated prunes keep what the policy promises of the whole history |
| `publish` | one name, two benches, two addresses, three jobs, one fault, two changes by people | what cwcli made stays on record until removed; what others made stays; a job that ends well leads the name to its bench |
| `host_links` | one host, one page, any three events among changes of the store here and elsewhere, of the integration, of the remote host and its key, lost streams, checks, requests and new visits | a page never shows a host that was let go or the data of an earlier one; it ends with what is true |

### Disagreements between the code and what is said of it

The models contain these. No run is kept for them; the passing runs are
stated, or their constants chosen, so that they allow them. Each was seen in a
trace; where a constant brings it about, it is named.

Jobs:

- `cwcli schedule daemon` starts jobs as children and never reaps them
  (`commands/schedule.py:258`; only `watch_loop` calls `reap_children`). With
  `Reaps = FALSE`, `VanishedIsNoticed` fails: a dead worker stays a zombie, the
  zombie answers the liveness probe, and its job stays active, although
  README.md:2288 of the repository says that it becomes `unknown`.
- `_CREATE_LOCK` (`jobs.py:157`) is a lock of one process. With two processes in
  `ProcOf`, `OneActivePerKey` fails: both scan, both start a job on one instance
  (README.md:2577 has "one job per instance at a time", and README.md:2579 two
  processes).
- With `PromptStart = FALSE` it fails too: a worker that needs more than five
  seconds to be on record is declared lost (`jobs.py:340`) and registers itself
  next to its successor.
- A signal delivered after the worker wrote its outcome, inside the same `try`
  (`jobs.py:2124`), replaces the outcome by interrupted. `LateInterrupt` is
  therefore a step of `JobLifecycle`, and `OutcomeOnlyInterrupted` excludes
  every other replacement.
- `interrupt_job` records interrupting before it sends the signal
  (`jobs.py:741`). When its process stops in between, nobody sends one:
  interrupting is not interruptible. `InterruptEnds` starts from the signal.
- Passwords held by one process stay when another process prunes the record
  (`jobs.py:411`). `SecretsForgotten` is checked in one process.
- A flush reads the count before it holds the lock (`jobs.py:866`): a timer's
  late flush writes an older `event_count` over a newer one, and a quiet stretch,
  or the finished job, keeps a count that is too low (`jobs.py:856` says that the
  last event must not stay unflushed). `JobRecord!Count` allows any count.
- With `Coarse = TRUE` (two writes in one tick of the file system's clock)
  `ListedInTheEnd` fails: the watch loop takes a finished record it remembers for
  the changed one (`jobs.py:2322`).

Scheduler:

- An error between a start and the one save of the pass makes the store forget
  the start (`core/schedules.py:987`): the slot fires again a minute later,
  although README.md:2579 says "a slot never fires twice". `RefiresBounded`
  counts these passes.
- A slot more than 366 days away is not recorded (`core/schedules.py:682`); the
  next pass finds the old slot due again, every minute. `Rare` names such
  timetables.
- A pass that looked at the instances before a start and gets the lock after
  another scheduler fired for it writes the instance back as stopped
  (`commands/schedule.py:196`), and the start fires twice. `scheduler_on_start`
  has one scheduler.
- A recipe step that `create_job` refuses as invalid is tried again every
  minute for ever (`core/schedules.py:972`; the first step is given up).
  `scheduler_live` has no refused steps.
- A refused later step also records the next slot, counted from the time its
  pass took before it waited for the lock (`core/schedules.py:803`). A slot after
  that time that another scheduler served meanwhile becomes due again.
  `SlotsFireOnce` therefore assumes that no later step is refused.
- A slot held for more than two minutes by quiet hours or a busy instance is
  dropped as "missed while the machine was off" (`core/schedules.py:867`).
- A disabled schedule's recipe goes on with its next step
  (`core/schedules.py:929`).
- A slot is given up as "the instance did not start" while its start job may
  still be running (`core/schedules.py:889`).
- A pass finds a recipe walking and passes an event by for good
  (`core/schedules.py:852`).

Updates:

- `_sites_with_app` says of a site whose apps could not be read that the code has
  moved under a site that will not be migrated, "which is a failure of the run, not
  a footnote" (`core/update.py:463`). When the whole bench cannot be read
  (`core/update.py:480`) it returns no sites and names none: the app was pulled, no
  site is migrated and the report is ok. `ReportHonest` speaks of the sites an
  update found.

Backups:

- With `Parallel = TRUE` two deletions that both counted the good sets remove
  both (`GoodSurvives`), a deletion that races a fetch loses a set
  (`NothingLost`), and a drill writes the manifest it read over one that an
  off-site prune changed meanwhile (`OffsiteTrue`). One operation on a site at a
  time is what the job admission gives in one process.
- `verify_set` checks the artifacts that the manifest lists
  (`core/backup_store.py:415`), not those that `bench backup` wrote: a set copied
  without its files counts as verified, although `core/docker.py:314` says that a
  backup missing any part is not trusted.
- A removal that was killed half-way may leave the manifest, and the set still
  counts as a good one.
- The local note of a copy is written before the bucket's manifest
  (`core/backup_store.py:992`): a failure in between leaves a note for a copy that
  cannot be listed or fetched.
- A fetch killed half-way leaves a directory that blocks later fetches of that
  set; a capture killed between the cleanup and the manifest leaves a set that no
  list shows.
- A plan made before a check turned one of its sets unverified removes it all the
  same.

Publishing:

- A certificate that was created and could not be attached is recorded nowhere
  (`core/publish.py:838`): Unpublish never removes it.
- A proxy host made by hand under the same proxy user is taken over and later
  deleted, though the docstring says that only an object named in the record is
  ever changed or deleted.
- A DNS record whose creation was not answered is later taken for someone
  else's and left behind by Unpublish; a host whose update was not answered
  counts as changed by hand and is forgotten.

Hosts:

- `resync` reads the store and then its time (`core/hosts.py:1498`, `:1501`). What
  another process writes in between (`cwcli remote` on a command line) is not
  seen, then or by the watch thread, until the next change. `missed` is this case.
- A check's verdict that lands while the link opens its stream finds no stream to
  end (`core/hosts.py:1764`): the host stays marked as the verdict said, with a live
  stream, although the docstring says that the loop re-probes and settles. `blind`
  is this case.
- A host whose key was refused is not dialled again, so a frame that its stream
  still delivers after that verdict stays on the page as live. `Truth` allows it.

### Bounds

- `JobRun` has no bound: its state is finite. Two callers give every race of the
  code two sides (the creator's late pid record, a reader that decides late, an
  interrupter); the theorems hold for any number.
- `JobAdmission`: `MaxJobs` three, `Retention` one. A conflict needs two jobs
  on a key, a prune needs one job beyond the history, a continued job needs the
  one it continues; three cover their combinations. Two threads, since the
  lock makes the third wait.
- `Scheduler`: `Horizon` minutes (slots are at one and later, a late slot needs
  three more, as in `scheduler_live`), `MaxJobs` jobs in all, `MaxAsked` that people ask for,
  `MaxBoots` starts of the instance, `MaxLost` lost passes. When `MaxJobs` is
  reached the instance counts as busy, so the bound is one of the code's own
  cases; in the liveness runs it is never reached for good. In `scheduler_events` two
  minutes are enough: each scheduler is offered the event before, in and after the
  pass that uses it up, and a busy instance is free a minute later. It needs
  no restart of a scheduler: one that makes its first pass late is in the same
  state as one that begins again.

- `JobRecorder`: `MaxEvents` five and two timers: a timer that fires late and a
  second one armed meanwhile, next to the verb's own flush and the daemon.
- `JobFeed`: `MaxWrites` three (a record can pass interrupting, an outcome and an
  answer), `MaxBreaks` two, `MaxQueue` two frames. A full queue holds the watch
  loop up, which delays it and loses nothing; the code's queue has no limit.
- `Upkeep`: two sites and two apps give every split into migrated, failed and
  left; `AtOnce` one (people start the second worker when the first has ended;
  its migrates may still run); `MaxFaults` two, so that one failure meets
  another.
- `BackupStore`: `MaxSets` five with three there at the beginning, `MaxDay` four
  with weeks of two days and months of four, so that a prune crosses both;
  `MaxOps` four operations, `MaxFaults` one; `ByName` the sets that people name.
- `HostLinks`: `MaxTurns` three things that happen from outside, of any kind, so
  that each kind meets each other one, twice; up to four links follow from them. `MaxQueue`
  three frames: a full queue holds the publisher up, where the code's has no limit.
- `Publish`: `MaxOps` three jobs (publish, move or change, unpublish), `MaxFaults`
  one, `MaxHands` two.

Deadlock is checked in the runs of `JobRun`, `JobAdmission` and `Scheduler`, where
nothing stops for good. The other runs come to rest when their jobs are done
and their bounds used up; their liveness is stated where there is some.

### Symmetry and fairness

The two threads of one process (`job_admission`), the two schedulers of
`scheduler`, the workers of `upkeep` and the benches and addresses of `publish`
are permuted: their properties are safety properties and the instance treats
them alike. `MCUpkeep` does not permute sites and apps, which differ, and
`JobRecorder`'s timers are not permuted in its run, whose property is temporal.

`JobRun!FairSpec`: the worker's own short steps, the delivery of a pending
signal, the creator's steps, reaping and the clock are weakly fair; so are the
steps of a call that began and the reads themselves (`watch_loop` re-reads each
active job four times a second while a page is open, every create and every
pass lists all of them). The verb is not fair: nothing in the code bounds it.
`Scheduler!FairSpec`: each scheduler's next step (the loops survive any
error), the clock, and the ends of jobs. The instance, the guards and people
are not fair: they may do nothing. A guard that waits for ever would hold a
slot for ever, so `scheduler_live` keeps the guards open.
`JobFeed!FairSpec`: the watch loop (a thread that ends with the daemon), the
reader that finds a dead worker's record, and the thread of a stream that is
connected. Writes, the end of the worker, connecting and breaking are not fair.
`HostLinks!FairSpec`: each link's thread (strongly: it is held up while others
have the manager's lock, and gets it in the end), the watch thread that resyncs,
a check that began, a snapshot that was asked for. People, the way and the remote
host are not fair.

## 4. What is proved

`JobRunProofs` (for every set of callers, reaping or not, whichever of them may
stop):

- `TypeCorrect`.
- `NeverLostWhileRunning`: `[]RegisteredNeverLost`. Not inductive as it stands;
  the invariant adds that a registered worker's record names its process, that
  a caller about to decide looks again under the lock, and what each worker
  phase says of the record.
- `OutcomeKept`: `[][..]` of `OutcomeOnlyInterrupted`, from the same invariant.
- `RunRefinesLifecycle`: `Spec => Lifecycle!Spec`, one lemma per group of
  actions that maps each step to a lifecycle step or a stutter.

`JobAdmissionProofs` (for any number of jobs, keys and threads; types also for any
number of processes): `TypeCorrect`; and, in one process (`SingleProcess`) whose
workers are on record in time (`PromptStart`), `OneJobPerInstance`,
`WorkersStayOnRecord`, `NewestKept` (`[]` of `HistoryKept`) and `EveryJobLives`
(`LivesKept`: each job, created, read, pruned, retried, answered, is a behaviour of
`JobLifecycle`). `PasswordsForgotten` needs one process only. Without these
assumptions the code breaks the properties, as section 3 describes. The inductive
invariant says what a scan knows: a record it has read and found not active cannot
become active again while the lock is held, a record it has not read yet is in
`todo`, the job being admitted is the newest, and a worker that has not ended has
an active record. `NewestKept` adds that what the scan counted as finished is
finished; `EveryJobLives` what the worker and the asker know of the record they
are about to write.

`JobRecorderProofs` (for any number of timers and events, clock coarse or not):
`TypeCorrect` and `RecorderKeepsRecord`, the refinement `Spec => RecordKept`.
What carries it: whoever holds the lock has read the file as it still is, and each
writer's pending changes are of its own kind (a flush touches the count alone, an
outcome is the main thread's last word).

`SchedulerProofs` (for any number of schedulers, schedules, minutes, jobs, starts
and lost passes, every disturbance allowed): `TypeCorrect`; `SlotsFireOnce`
(`[]RefiresBounded`), with the assumptions that no timetable is `Rare` and that no
later step of a recipe is refused (`StepsStand`); `RecipesInOrder`; `AfterJobsOnce`;
and, for one scheduler, `OnStartsOnce`. Section 3 describes what happens
without the assumptions. The bounds are attained: a lost pass costs one job. The
inductive invariants all speak of the row that counts, the draft's (`Mutex`, `Agree`,
`Looked`: one scheduler inside, nobody else's copy differs from the store):

- `SlotInv`. `Past`: no slot to come has a job; it is what makes an edit safe,
  which arms the row for the first slot after now. `Ahead`: a slot the row still
  waits for has jobs of lost passes only; `Fire` gives one such slot its job and
  leaves it behind. `Bounded`: a slot has at most one job more than there are lost
  passes; a lost pass puts the store's row back, and `Bounded` becomes `Ahead`.
- `WalkInv`: a row that walks a recipe names the job the recipe has come to, and
  the schedule's newest job, unless a pass was lost since.
- `EventInv` and `StartInv`: the jobs a row has started for events are covered by
  those it has consumed (the starts it has noticed) and the lost passes.

`StepsStand` is needed by `NextStepRefused` alone. That `NextSlot` lies after the
minute it starts from rests on `LeastElement`, from the library's theorems on
well-founded relations.

`UpkeepProofs` (for any number of workers, watchers, sites, apps and faults,
whoever starts next to whom): `TypeCorrect`, `OwnMigratesEnded`, `LeftoversNamed` and
`ReportsHonest`. None is inductive. The invariant says of every worker, in every
phase:

- `Shape`: which sets of sites it works on and how they lie in each other;
- `Accounted`: where a migrate it started may still run;
- `Covered`: a site it may still close is named, by the record, by an update that
  leaves maintenance alone, or by `unnamed`. A record is removed by anyone at any
  time; `Forget` marks the site when somebody may still close it;
- `Kept`: of an update that is alone and has met no failure, that the sites it has
  passed are migrated and, later, open or known to be stuck.

`BackupStoreProofs` (for any number of sets, days, processes and any policy, one
operation after another, `~Parallel`): `TypeCorrect`, `BackupsKept`
(`[]NothingLost`), `CopiesTrue` (`[]OffsiteTrue`), `GoodOneSurvives`
(`GoodSurvives`). With `Parallel` the code breaks the last three, as section 3
describes. The invariant says what the operation under way knows in each phase: a
capture's run is still in the bench and untouched, a manifest that is held is the
one on disk, a removal that passed its guard leaves another good set.

`PublishProofs` (for any number of benches, addresses, jobs, failures and changes by
people): `TypeCorrect`, `MadeIsNamed` (`[]NamedUntilRemoved`), `OthersLeftAlone`
(`ForeignUntouched`) and `PublishLeads` (`DoneTrue`). The invariant keeps the books
part by part: whether the job's record, or the publication when no job runs, names
each object as it is, what the job remembers of what it listed, and how far its
steps have led the name.

`HostLinksProofs` (for any number of changes and any length of the stream's queue):
`TypeCorrect` and `NoGhosts` (`[]NoGhost`). The queue is the difficulty: `After`
applies its frames one after another. `AfterOneMore` shows that a frame more is
applied last, by taking the least place at which two courses would differ. With it
the invariant can say of the waiting frames what they will do to any page
(`Fit`: each field they leave alone or set to what holds of the host the manager
knows now), and `Carried` says it of the frames a step publishes; a resync that
forgets its host publishes `Removed` first, after which nothing of before counts.
`Budget` counts links: each dial is paid for by a change of the store or of the
integration, so that `Apply` finds a free one. The one assumption that is not a
bound, `NoneAssumption`, says that the absence of a record is no record.

Proofs use SMT, Zenon and, for temporal steps, PTL. Assumptions are the ones the
modules name, and those above.

Model-checked only: liveness (out of the prover's reach); `RetentionExact` of
`BackupStore`, which compares what a prune leaves with the ranks of all sets ever
filed, through any number of earlier prunes; and `JobFeed`, whose one property is
liveness.

## 5. What is not modelled

- Jobs: Windows paths (interrupt request files), refusals of `_validate_spec` and
  `_retry_refusal` (they change nothing); the events a job page fetches, holds
  and merges (three sources of the same log; a model of them with the recorder
  and the stream was too large to check), a half-written last line, removal of a
  record while it is watched; a needs-choice job that is answered twice; how a
  signal unwinds through a flush (`JobRun` takes the worker's signals apart, with
  each merge as one step).
- Scheduler: deletion of schedules, several instances in one store, the caps of
  twenty on history and consumed jobs, the calendar. An edit of a schedule takes
  its time when it gets the lock (the code takes it a moment before). A pass
  whose job record was pruned meanwhile reads it as ended either way.
- Upkeep: rollback and preflight of updates (reads, and one restore), the build
  after an update, `unlock` of other locks than the migrate's.
- Backups: encryption (a set is whole or not), the contents of a drill, S3's own
  consistency, the daily schedule's mark of the last run.
- Publishing: see the note of the component in `PROJECT.json`.
- Hosts: several hosts (they share the manager's lock and nothing else), the
  backoff's times, the focus of a stream, the bridge process and the grants on the
  remote machine, the local fleet's event and probe loops.
- Other parts: see "components" in `PROJECT.json`, each with its reason. Most of
  the repository's lines are there: pages, command-line rendering, routes that
  pass a request on, catalogues of apps and advisories, and sequences of Docker
  calls whose order carries no promise.

## 6. Plan

1. Jobs: `JobLifecycle`, `JobRun`, `JobAdmission`, `JobRecord`, `JobRecorder`,
   `JobFeed` (done and, but for liveness, proved).
2. `Scheduler` (done, its safety proved).
3. `Upkeep`, `BackupStore`, `Publish`, `HostLinks` (done, their safety proved but for
   `RetentionExact`).
4. Not begun: `Calendar` (`parse_cron`, `next_cron`, windows over midnight and
   daylight-saving changes), `Supervision`, `Removal`, `Creation` (ports),
   `CredBridge`, `AutoInspect`, `Sessions`, the local fleet.
