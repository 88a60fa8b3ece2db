---------------------------- MODULE BackupStore ----------------------------
(***************************************************************************)
(* The backup sets of one site: core/backup_store.py and its callers in    *)
(* jobs.py and core/backup_drill.py.                                       *)
(*                                                                         *)
(* A run of bench backup leaves artifacts in the bench; capture copies     *)
(* them out, checks them, removes them from the bench and writes the       *)
(* manifest.  Sets are checked again, copied off-site, drilled, deleted,   *)
(* pruned and fetched back.  An operation is a sequence of file or store   *)
(* accesses; it reads a manifest when it begins (held) and writes it when  *)
(* it ends.  A process may be killed between any two accesses.             *)
(***************************************************************************)
EXTENDS Retention, Sequences

CONSTANTS
    Procs,
    MaxSets, MaxDay,        \* bounds: runs of bench backup, days
    Start,                  \* what the site has: a sequence of [day, safety]
    Local, Offsite,         \* the two retention policies
    CopyOnBackup,           \* a verified capture goes off-site
    Parallel,               \* operations of several processes at a time
    ByName,                 \* the sets that people name
    MaxOps,                 \* a bound: operations that begin
    MaxFaults               \* a bound: how often anything goes wrong

Ids == 1..MaxSets

ASSUME BackupStoreAssumption ==
    /\ MaxSets \in Nat /\ MaxDay \in Nat \ {0} /\ MaxOps \in Nat /\ MaxFaults \in Nat
    /\ Start \in Seq([day : 1..MaxDay, safety : BOOLEAN]) /\ Len(Start) <= MaxSets
    /\ Local \in Policies /\ Offsite \in Policies
    /\ CopyOnBackup \in BOOLEAN /\ Parallel \in BOOLEAN /\ ByName \subseteq Ids

VARIABLES
    today,
    runs,       \* how often bench backup ran
    bench,      \* the runs whose artifacts are in the bench
    disk,       \* the artifacts in each set's directory
    manifest,   \* each set's set.json, or NoManifest
    remote,     \* the off-site copy of each: its artifacts and its set.json
    proc,       \* the processes
    ledger,     \* the manifest each set had last, removed or not
    removed,    \* sets that people or retention removed
    cut,        \* sets on which an operation was cut short
    plain,      \* retention with disk to spare decided about every set
    ops, faults

files == <<disk, manifest, ledger, removed>>
vars == <<today, runs, bench, files, remote, proc, cut, plain, ops, faults>>

(* What is in a directory: nothing at all, no usable database, a database    *)
(* without some of the rest, everything, everything with a changed byte.     *)
Contents == {"none", "torn", "short", "whole", "rotten"}

(* parts: the artifacts that the manifest lists.                             *)
NoManifest == [verified |-> FALSE, parts |-> "none", safety |-> FALSE, day |-> 0, offsite |-> FALSE]
Manifests == [verified : BOOLEAN, parts : {"torn", "short", "whole"}, safety : BOOLEAN,
              day : 1..MaxDay, offsite : BOOLEAN]

(* Every artifact that a manifest lists is among the contents.               *)
Usable(contents, m) == contents \in {m.parts, "whole", "rotten"}

(* find_set and list_sets: the directories that have a manifest.             *)
Filed == {i \in Ids : manifest[i] # NoManifest}
Listing == [i \in Filed |-> manifest[i]]
Uncopied == [parts |-> "none", manifest |-> NoManifest]
RemoteFiled == {i \in Ids : remote[i].manifest # NoManifest}
RemoteListing == [i \in RemoteFiled |-> remote[i].manifest]

Idle == [op |-> "none", phase |-> "idle", id |-> 0, held |-> NoManifest, doomed |-> {},
         day |-> 0, low |-> FALSE]

Newest(set) == CHOOSE i \in set : \A j \in set : i >= j

Fine == UNCHANGED faults
Fault == faults < MaxFaults /\ faults' = faults + 1
Goes(well) == IF well THEN Fine ELSE Fault

Files(d, m, r) ==
    /\ disk' = d /\ manifest' = m /\ removed' = r
    /\ ledger' = [i \in Ids |-> IF m[i] = NoManifest THEN ledger[i] ELSE m[i]]
KeepBench == UNCHANGED <<runs, bench>>
Steady == UNCHANGED <<today, ops>>
NoCut == UNCHANGED cut

Become(p, r) == proc' = [proc EXCEPT ![p] = r]
Goto(p, phase) == Become(p, [proc[p] EXCEPT !.phase = phase])
End(p) == Become(p, Idle)
Then(p, phase) == proc[p].phase = phase /\ Steady

(* An operation begins; jobs of one instance run one at a time, commands     *)
(* typed in a terminal do not wait for them.                                 *)
Begin(p, r) ==
    /\ proc[p] = Idle /\ ops < MaxOps
    /\ Parallel \/ \A q \in Procs : proc[q] = Idle
    /\ ops' = ops + 1 /\ UNCHANGED today /\ NoCut /\ Fine
    /\ Become(p, r)

(* _write_manifest: into a directory that may be gone.                       *)
Write(i, m) == Files(disk, IF disk[i] = "none" THEN manifest ELSE [manifest EXCEPT ![i] = m], removed)

-----------------------------------------------------------------------------
(* capture                                                                   *)

StartCapture(p, safety) ==
    /\ runs < MaxSets
    /\ Begin(p, [Idle EXCEPT !.op = "capture", !.phase = "list", !.held.safety = safety])
    /\ runs' = runs + 1 /\ bench' = bench \cup {runs + 1}
    /\ UNCHANGED <<files, remote, plain>>

(* The newest artifacts of the bench are taken for this run's.               *)
ListRun(p) ==
    /\ Then(p, "list")
    /\ IF bench = {} THEN End(p)
       ELSE Become(p, [proc[p] EXCEPT !.phase = "copyOut", !.id = Newest(bench)])
    /\ KeepBench /\ UNCHANGED <<files, remote, plain>> /\ NoCut /\ Fine

(* Each artifact streams into the set's directory or fails to.               *)
CopyOut(p) ==
    /\ Then(p, "copyOut")
    /\ \E copied \in {"torn", "short", "whole"} :
         LET i   == proc[p].id
             got == IF i \in bench THEN copied ELSE "torn"
         IN /\ Goes(copied = "whole")
            /\ Files(IF i \in bench \/ disk[i] = "none" THEN [disk EXCEPT ![i] = got] ELSE disk,
                     manifest, removed)
            /\ Become(p, [proc[p] EXCEPT !.phase = "check", !.held.parts = got])
    /\ KeepBench /\ UNCHANGED <<remote, plain>> /\ NoCut

(* Defect: the artifacts are removed whether the set is sound or not.       *)
CheckCopyLate(p) ==
    /\ Then(p, "check")
    /\ Become(p, [proc[p] EXCEPT !.phase = "cleanup",
                     !.held.verified = proc[p].held.parts = "whole" /\ disk[proc[p].id] = "whole"])
    /\ KeepBench /\ UNCHANGED <<files, remote, plain>> /\ NoCut /\ Fine

CheckCopy(p) ==
    LET verified == proc[p].held.parts = "whole" /\ disk[proc[p].id] = "whole"
    IN /\ Then(p, "check")
       /\ Become(p, [proc[p] EXCEPT !.phase = IF verified THEN "cleanup" ELSE "file",
                                    !.held.verified = verified])
       /\ KeepBench /\ UNCHANGED <<files, remote, plain>> /\ NoCut /\ Fine

Cleanup(p) ==
    /\ Then(p, "cleanup")
    /\ \E done \in BOOLEAN :
         Goes(done) /\ bench' = IF done THEN bench \ {proc[p].id} ELSE bench
    /\ Goto(p, "file")
    /\ UNCHANGED <<runs, files, remote, plain>> /\ NoCut

(* The manifest carries the time it is written.                              *)
FileSet(p) ==
    LET m == [proc[p].held EXCEPT !.day = today]
    IN /\ Then(p, "file")
       /\ Write(proc[p].id, m)
       /\ IF m.verified /\ CopyOnBackup
          THEN Become(p, [Idle EXCEPT !.op = "copy", !.phase = "upload", !.id = proc[p].id, !.held = m])
          ELSE End(p)
       /\ KeepBench /\ UNCHANGED <<remote, plain>> /\ NoCut /\ Fine

-----------------------------------------------------------------------------
(* Operations on one set, by name: they hold the manifest they found.        *)

FirstPhase == [verify |-> "checking", copy |-> "upload", drill |-> "drilling", delete |-> "guard"]

StartNamed(p, op, i) ==
    /\ i \in Filed \cap ByName
    /\ Begin(p, [Idle EXCEPT !.op = op, !.phase = FirstPhase[op], !.id = i, !.held = manifest[i]])
    /\ plain' = (plain /\ op # "delete")
    /\ KeepBench /\ UNCHANGED <<files, remote>>

(* verify_set: the artifacts that the manifest lists, each against its       *)
(* checksum; among them a database.                                          *)
CheckSet(p) ==
    LET sound == CASE proc[p].held.parts = "whole" -> {"whole"}
                   [] proc[p].held.parts = "short" -> {"whole", "short"}
                   [] OTHER -> {}
    IN /\ Then(p, "checking")
       /\ Become(p, [proc[p] EXCEPT !.phase = "verdict", !.held.verified = disk[proc[p].id] \in sound])
       /\ plain' = (plain /\ proc[p].held.verified = (disk[proc[p].id] \in sound))
       /\ KeepBench /\ UNCHANGED <<files, remote>> /\ NoCut /\ Fine

(* A drill restores the set elsewhere, then writes its verdict on the set.   *)
WriteVerdict(p) ==
    /\ proc[p].phase \in {"verdict", "drilling"} /\ Steady
    /\ Write(proc[p].id, proc[p].held)
    /\ End(p)
    /\ KeepBench /\ UNCHANGED <<remote, plain>> /\ NoCut /\ Fine

(* offsite_copy: the listed artifacts, then the two manifests.               *)
Upload(p) ==
    /\ Then(p, "upload")
    /\ \E done \in BOOLEAN :
         LET sent == disk[proc[p].id]
         IN /\ Goes(done)
            /\ IF done /\ Usable(sent, proc[p].held)
               THEN /\ Goto(p, "note") /\ NoCut
                    /\ remote' = [remote EXCEPT ![proc[p].id].parts = sent]
               ELSE /\ End(p) /\ cut' = cut \cup {proc[p].id}
                    /\ UNCHANGED remote
    /\ KeepBench /\ UNCHANGED <<files, plain>>

NoteCopy(p) ==
    LET m == [proc[p].held EXCEPT !.offsite = TRUE]
    IN /\ Then(p, "note")
       /\ Write(proc[p].id, m)
       /\ IF disk[proc[p].id] = "none" THEN End(p)
          ELSE Become(p, [proc[p] EXCEPT !.phase = "seal", !.held = m])
       /\ KeepBench /\ UNCHANGED <<remote, plain>> /\ NoCut /\ Fine

SealCopy(p) ==
    /\ Then(p, "seal")
    /\ \E done \in BOOLEAN :
         /\ Goes(done)
         /\ IF done
            THEN remote' = [remote EXCEPT ![proc[p].id].manifest = proc[p].held] /\ NoCut
            ELSE cut' = cut \cup {proc[p].id} /\ UNCHANGED remote
    /\ End(p)
    /\ KeepBench /\ UNCHANGED <<files, plain>>

-----------------------------------------------------------------------------
(* Removal                                                                   *)

(* A prune plans once; with little disk left it leans on the off-site copies.*)
StartPrune(p, low) ==
    /\ Begin(p, [Idle EXCEPT !.op = "prune", !.phase = "next", !.day = today, !.low = low,
                    !.doomed = Filed \ Keep(Listing, Local, today, low)])
    /\ KeepBench /\ UNCHANGED <<files, remote, plain>>

(* The next doomed set, as it is found now.                                  *)
NextDoomed(p) ==
    /\ Then(p, "next")
    /\ IF proc[p].doomed = {} THEN End(p) /\ plain' = (plain /\ ~proc[p].low)
       ELSE LET i == Newest(proc[p].doomed)
            IN /\ Become(p, [proc[p] EXCEPT !.id = i, !.doomed = @ \ {i},
                                !.phase = IF i \in Filed THEN "guard" ELSE "next",
                                !.held = manifest[i]])
               /\ UNCHANGED plain
    /\ KeepBench /\ UNCHANGED <<files, remote>> /\ NoCut /\ Fine

(* delete_set refuses the site's last good set.                              *)
(* Defect: it counts the verified sets without the one in hand.              *)
GuardEmpty(p) ==
    /\ Then(p, "guard")
    /\ IF proc[p].held.verified /\ Verified(Listing) = {}
       THEN IF proc[p].op = "prune" THEN Goto(p, "next") ELSE End(p)
       ELSE Goto(p, "remove")
    /\ KeepBench /\ UNCHANGED <<files, remote, plain>> /\ NoCut /\ Fine

Guard(p) ==
    /\ Then(p, "guard")
    /\ IF proc[p].held.verified /\ Verified(Listing) = {proc[p].id}
       THEN IF proc[p].op = "prune" THEN Goto(p, "next") ELSE End(p)
       ELSE Goto(p, "remove")
    /\ KeepBench /\ UNCHANGED <<files, remote, plain>> /\ NoCut /\ Fine

(* rmtree removes the files in any order; a directory that is gone ends it.  *)
RemoveSome(p) ==
    LET i == proc[p].id
    IN /\ Then(p, "remove")
       /\ IF disk[i] = "none" THEN End(p) /\ UNCHANGED files
          ELSE /\ Goto(p, "rest")
               /\ \/ Files(disk, [manifest EXCEPT ![i] = NoManifest], removed \cup {i})
                  \/ Files([disk EXCEPT ![i] = "torn"], manifest, removed \cup {i})
       /\ KeepBench /\ UNCHANGED <<remote, plain>> /\ NoCut /\ Fine

(* Defect: a manifest is written into the directory that went.               *)
RemoveRestNoted(p) ==
    /\ Then(p, "rest")
    /\ Files([disk EXCEPT ![proc[p].id] = "none"], [manifest EXCEPT ![proc[p].id] = proc[p].held], removed)
    /\ IF proc[p].op = "prune" THEN Goto(p, "next") ELSE End(p)
    /\ KeepBench /\ UNCHANGED <<remote, plain>> /\ NoCut /\ Fine

RemoveRest(p) ==
    LET i == proc[p].id
    IN /\ Then(p, "rest")
       /\ Files([disk EXCEPT ![i] = "none"], [manifest EXCEPT ![i] = NoManifest], removed)
       /\ IF proc[p].op = "prune" THEN Goto(p, "next") ELSE End(p)
       /\ KeepBench /\ UNCHANGED <<remote, plain>> /\ NoCut /\ Fine

StartOffsitePrune(p) ==
    /\ Begin(p, [Idle EXCEPT !.op = "offsitePrune", !.phase = "nextCopy",
                    !.doomed = RemoteFiled \ Keep(RemoteListing, Offsite, today, FALSE)])
    /\ KeepBench /\ UNCHANGED <<files, remote, plain>>

(* The target deletes object by object; a failure ends the prune.            *)
RemoveCopy(p) ==
    /\ Then(p, "nextCopy")
    /\ IF proc[p].doomed = {} THEN End(p) /\ NoCut /\ Fine /\ UNCHANGED remote
       ELSE LET i == Newest(proc[p].doomed)
            IN \E left \in {Uncopied, [remote[i] EXCEPT !.parts = "none"],
                            [remote[i] EXCEPT !.manifest = NoManifest]} :
                 LET done == left = Uncopied
                 IN /\ Goes(done)
                    /\ remote' = [remote EXCEPT ![i] = left]
                    /\ cut' = IF done THEN cut ELSE cut \cup {i}
                    /\ IF done THEN Become(p, [proc[p] EXCEPT !.phase = "clear", !.id = i, !.doomed = @ \ {i}])
                       ELSE End(p)
    /\ KeepBench /\ UNCHANGED <<files, plain>>

(* Defect: the set keeps its note.                                           *)
ClearNoteNever(p) ==
    /\ Then(p, "clear") /\ Goto(p, "nextCopy")
    /\ KeepBench /\ UNCHANGED <<files, remote, plain>> /\ NoCut /\ Fine

ClearNote(p) ==
    LET i == proc[p].id
    IN /\ Then(p, "clear")
       /\ IF i \in Filed /\ manifest[i].offsite
          THEN Write(i, [manifest[i] EXCEPT !.offsite = FALSE]) ELSE UNCHANGED files
       /\ Goto(p, "nextCopy")
       /\ KeepBench /\ UNCHANGED <<remote, plain>> /\ NoCut /\ Fine

-----------------------------------------------------------------------------
(* offsite_fetch, into a directory that must not exist; verified on arrival. *)

StartFetch(p, i) ==
    /\ i \in RemoteFiled \cap ByName /\ disk[i] = "none"
    /\ Begin(p, [Idle EXCEPT !.op = "fetch", !.phase = "download", !.id = i, !.held = remote[i].manifest])
    /\ plain' = FALSE
    /\ KeepBench /\ UNCHANGED <<files, remote>>

Download(p) ==
    LET i == proc[p].id
    IN /\ Then(p, "download")
       /\ \E done \in BOOLEAN :
            /\ Goes(done)
            /\ IF done /\ Usable(remote[i].parts, proc[p].held)
               THEN /\ Files([disk EXCEPT ![i] = remote[i].parts], manifest, removed)
                    /\ Goto(p, "arrived")
               ELSE End(p) /\ UNCHANGED files
       /\ KeepBench /\ UNCHANGED <<remote, plain>> /\ NoCut

FileFetched(p) ==
    LET i == proc[p].id
    IN /\ Then(p, "arrived")
       /\ Files(disk, [manifest EXCEPT ![i] = proc[p].held], removed \ {i})
       /\ Goto(p, "checking")
       /\ KeepBench /\ UNCHANGED <<remote, plain>> /\ NoCut /\ Fine

-----------------------------------------------------------------------------
(* The world                                                                 *)

Kill(p) ==
    /\ proc[p] # Idle /\ Fault /\ Steady
    /\ cut' = cut \cup ({proc[p].id} \cap Ids)
    /\ End(p)
    /\ KeepBench /\ UNCHANGED <<files, remote, plain>>

Rot(i) ==
    /\ disk[i] = "whole" /\ Fault
    /\ Files([disk EXCEPT ![i] = "rotten"], manifest, removed)
    /\ KeepBench /\ UNCHANGED <<remote, proc, plain>> /\ NoCut /\ Steady

NewDay ==
    /\ today < MaxDay /\ today' = today + 1
    /\ KeepBench /\ UNCHANGED <<files, remote, proc, plain, ops>> /\ NoCut /\ Fine

-----------------------------------------------------------------------------
Had(i) == [verified |-> TRUE, parts |-> "whole", safety |-> Start[i].safety,
           day |-> Start[i].day, offsite |-> TRUE]
Taken == DOMAIN Start
FirstDay == IF Start = <<>> THEN 1 ELSE Start[Len(Start)].day

Init ==
    /\ today = FirstDay /\ runs = Len(Start) /\ bench = {}
    /\ disk = [i \in Ids |-> IF i \in Taken THEN "whole" ELSE "none"]
    /\ manifest = [i \in Ids |-> IF i \in Taken THEN Had(i) ELSE NoManifest]
    /\ remote = [i \in Ids |-> [parts |-> disk[i], manifest |-> manifest[i]]]
    /\ ledger = manifest /\ removed = {} /\ cut = {} /\ plain = TRUE
    /\ proc = [p \in Procs |-> Idle]
    /\ ops = 0 /\ faults = 0

Capture(p) == (\E safety \in BOOLEAN : StartCapture(p, safety))
              \/ ListRun(p) \/ CopyOut(p) \/ CheckCopy(p) \/ Cleanup(p) \/ FileSet(p)
Named(p) == (\E op \in DOMAIN FirstPhase, i \in ByName : StartNamed(p, op, i))
            \/ CheckSet(p) \/ WriteVerdict(p) \/ Upload(p) \/ NoteCopy(p) \/ SealCopy(p)
Remove(p) == (\E low \in BOOLEAN : StartPrune(p, low)) \/ NextDoomed(p) \/ Guard(p)
             \/ RemoveSome(p) \/ RemoveRest(p)
             \/ StartOffsitePrune(p) \/ RemoveCopy(p) \/ ClearNote(p)
Fetch(p) == (\E i \in ByName : StartFetch(p, i)) \/ Download(p) \/ FileFetched(p)

Next ==
    \/ \E p \in Procs : Capture(p) \/ Named(p) \/ Remove(p) \/ Fetch(p) \/ Kill(p)
    \/ \E i \in Ids : Rot(i)
    \/ NewDay

Spec == Init /\ [][Next]_vars

-----------------------------------------------------------------------------
Phases == {"idle", "list", "copyOut", "check", "cleanup", "file", "checking", "verdict", "drilling",
           "upload", "note", "seal", "next", "guard", "remove", "rest", "nextCopy", "clear",
           "download", "arrived"}

(* The types of the variables; a manifest needs a directory to lie in.       *)
TypeOK ==
    /\ today \in 1..MaxDay /\ runs \in 0..MaxSets /\ bench \subseteq 1..runs
    /\ disk \in [Ids -> Contents]
    /\ manifest \in [Ids -> Manifests \cup {NoManifest}]
    /\ \A i \in Filed : disk[i] # "none" /\ i <= runs
    /\ remote \in [Ids -> [parts : Contents, manifest : Manifests \cup {NoManifest}]]
    /\ \A p \in Procs : proc[p].phase \in Phases /\ proc[p].doomed \subseteq Ids /\ proc[p].id \in Ids \cup {0}
    /\ removed \subseteq Ids /\ cut \subseteq Ids /\ plain \in BOOLEAN
    /\ ops \in 0..MaxOps /\ faults \in 0..MaxFaults

(* What every run of bench backup produced is in the bench or complete in    *)
(* the store, where it has a manifest, until someone removes it: no order of *)
(* copy, check, cleanup and manifest and no failure between them loses a     *)
(* backup.  Only a killed capture leaves one without its manifest.           *)
NothingLost ==
    \A i \in 1..runs :
        \/ i \in bench \cup removed
        \/ /\ disk[i] \in {"whole", "rotten"}
           /\ i \in Filed \cup cut \/ \E p \in Procs : proc[p].id = i /\ proc[p].phase = "file"

(* A verified set goes only while another verified one stays listed: the     *)
(* guard of delete_set and the plan of prune between them.  A removal that   *)
(* was killed half-way may leave a manifest, and that counts as a set.       *)
GoodSurvives ==
    [][\A i \in Filed : i \in removed' \ removed /\ manifest[i].verified =>
          \E j \in Filed \ {i} : manifest'[j].verified /\ j \notin removed' \ cut]_vars

(* A set that is noted as copied off-site is there, artifacts and manifest,  *)
(* and can be fetched, except while an operation works on it or after one    *)
(* was cut short: what a prune with little disk left relies on.              *)
OffsiteTrue ==
    \A i \in Filed \ cut :
        manifest[i].offsite =>
            \/ Usable(remote[i].parts, manifest[i]) /\ i \in RemoteFiled
            \/ \E p \in Procs : proc[p].id = i /\ proc[p].phase \in {"seal", "clear"}

(* The promise of retention over the whole history: of each of the newest    *)
(* count days, weeks or months that have a set, the newest one.              *)
Promised(h, count, length) ==
    LET regular == {i \in DOMAIN h : h[i].verified /\ ~h[i].safety}
        Of(b)   == {i \in regular : h[i].day \div length = b}
        buckets == {h[i].day \div length : i \in regular}
    IN {Newest(Of(b)) : b \in {b \in buckets : Cardinality({c \in buckets : c > b}) < count}}

(* Pruning what earlier prunes left loses nothing of that promise: when a    *)
(* prune has ended, the regular sets in the store are those that the policy  *)
(* keeps of every set ever filed, and the newest one.                        *)
RetentionExact ==
    [][\A p \in Procs :
          LET ever == {i \in Ids : ledger[i] # NoManifest /\ (i \in Filed \/ i \in removed)}
              h    == [i \in ever |-> ledger[i]]
              here == {i \in Filed : manifest[i].verified /\ ~manifest[i].safety}
          IN proc[p].phase = "next" /\ proc'[p] = Idle /\ proc[p].doomed = {} /\ plain' /\ cut' = {} =>
               here \ LastGood(h) = (Promised(h, Local.daily, 1) \cup Promised(h, Local.weekly, WeekLength)
                        \cup Promised(h, Local.monthly, MonthLength)) \ LastGood(h)]_vars
=============================================================================
