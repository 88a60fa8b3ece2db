------------------------- MODULE BackupStoreProofs -------------------------
(***************************************************************************)
(* No backup is lost, a copy that is noted is there, and a good set goes   *)
(* only while another stays: for any number of sets, days, processes and   *)
(* policies, as long as one operation ends before the next begins.         *)
(*                                                                         *)
(* The invariant behind it says what the operation under way knows in each *)
(* of its phases: one that captures has a run that nobody has touched yet, *)
(* one that holds a manifest holds the one on disk.                        *)
(***************************************************************************)
EXTENDS BackupStore, WellFoundedInduction, SequenceTheorems, TLAPS

\* Jobs of one instance wait for each other, and nobody types a command meanwhile.
OneAtATime == ~Parallel

-----------------------------------------------------------------------------
(* The invariant.                                                            *)

Held == [verified : BOOLEAN, parts : {"none", "torn", "short", "whole"}, safety : BOOLEAN,
         day : 0..MaxDay, offsite : BOOLEAN]
Operations == {"none", "capture", "copy", "verify", "drill", "delete", "prune", "offsitePrune", "fetch"}
Processes == [op : Operations, phase : Phases, id : 0..MaxSets, held : Held, doomed : SUBSET Ids,
              day : 0..MaxDay, low : BOOLEAN]

StoreTypes ==
  /\ today \in 1..MaxDay /\ runs \in 0..MaxSets /\ bench \subseteq 1..runs
  /\ disk \in [Ids -> Contents]
  /\ manifest \in [Ids -> Manifests \cup {NoManifest}]
  /\ remote \in [Ids -> [parts : Contents, manifest : Manifests \cup {NoManifest}]]
  /\ removed \subseteq 1..runs /\ cut \subseteq Ids

\* A manifest lies in a directory, and is that of a run.
InPlace == \A i \in Filed : disk[i] # "none" /\ i <= runs

\* What is not complete is still in the bench.
Complete ==
  /\ \A i \in Filed : manifest[i].parts # "whole" => i \in bench
  /\ \A i \in RemoteFiled : i <= runs /\ (remote[i].manifest.parts # "whole" => i \in bench)

\* Nobody has filed, copied or removed the run.
Fresh(i) == manifest[i] = NoManifest /\ remote[i].manifest = NoManifest /\ i \notin removed
Sound(contents) == contents \in {"whole", "rotten"}

Captures == {"copyOut", "check", "cleanup", "file"}
Holds == {"checking", "verdict", "drilling", "upload", "note", "seal", "guard", "remove"}

\* What an operation knows of the run that it captures.
KnowsRun(r) ==
  LET i == r.id
  IN /\ r.phase = "list" => runs \in bench /\ Fresh(runs)
     /\ r.phase \in {"list"} \cup Captures => ~r.held.offsite
     /\ r.phase \in Captures => i = runs /\ i \in Ids /\ Fresh(i)
     /\ r.phase \in {"copyOut", "check", "cleanup"} => i \in bench
     /\ r.phase \in {"check", "cleanup", "file"} => disk[i] # "none" /\ r.held.parts # "none"
     /\ r.phase = "cleanup" => r.held.parts = "whole" /\ Sound(disk[i])
     /\ r.phase = "file" => i \in bench \/ (r.held.parts = "whole" /\ Sound(disk[i]))

\* What one knows of the set that it works on.
KnowsSet(r) ==
  LET i == r.id
  IN /\ r.phase \in Holds =>
          /\ i \in Filed /\ r.held \in Manifests
          /\ manifest[i].parts = r.held.parts /\ manifest[i].offsite = r.held.offsite
          /\ r.phase # "verdict" => manifest[i] = r.held
          /\ r.phase = "remove" /\ r.held.verified => \E j \in Filed \ {i} : manifest[j].verified
     /\ r.phase \in {"note", "seal"} => Usable(remote[i].parts, r.held)
     /\ r.phase = "rest" => i \in removed /\ i \in Ids
     /\ r.phase = "clear" => i \in Ids

\* What a fetch knows of the copy that it fetches.
KnowsCopy(r) ==
  LET i == r.id
  IN /\ r.phase \in {"download", "arrived"} =>
          /\ i \in Ids /\ i \notin Filed /\ i \in RemoteFiled /\ i \in bench \cup removed
          /\ r.held = remote[i].manifest
     /\ r.phase = "arrived" => Usable(remote[i].parts, r.held) /\ Usable(disk[i], r.held)

\* A manifest that is left of a removed set is a removal's that is under way or was cut short.
Left(r) == \A i \in Filed \cap removed : i \in cut \/ (r.phase = "rest" /\ r.id = i)

\* NothingLost and OffsiteTrue, as far as r makes the exceptions.
Kept(r) ==
  \A i \in 1..runs :
    \/ i \in bench \cup removed
    \/ Sound(disk[i]) /\ (i \in Filed \cup cut \/ (r.id = i /\ r.phase = "file"))
Copied(r) ==
  \A i \in Filed \ cut : manifest[i].offsite =>
    \/ Usable(remote[i].parts, manifest[i]) /\ i \in RemoteFiled
    \/ r.id = i /\ r.phase \in {"seal", "clear"}

State(r) ==
  /\ StoreTypes /\ InPlace /\ Complete
  /\ r \in Processes /\ KnowsRun(r) /\ KnowsSet(r) /\ KnowsCopy(r)
  /\ Left(r) /\ Kept(r) /\ Copied(r)

\* The operation under way: nobody else has one.
Others(p) == \A q \in Procs \ {p} : proc[q] = Idle
Active(r) == \/ r = Idle /\ \A q \in Procs : proc[q] = Idle
             \/ \E p \in Procs : proc[p] = r /\ Others(p)

IInv ==
  /\ TypeOK /\ proc \in [Procs -> Processes]
  /\ \E r \in {Idle} \cup {proc[p] : p \in Procs} : Active(r) /\ State(r)
-----------------------------------------------------------------------------
(* Lemmas about the operators.                                               *)

LEMMA Widths == MaxSets \in Nat /\ MaxDay \in Nat /\ 1 \in 1..MaxDay /\ MaxOps \in Nat /\ MaxFaults \in Nat
BY BackupStoreAssumption

\* A set of sets that is not empty has a newest one.
LEMMA NewestFacts ==
  ASSUME NEW S \in SUBSET Ids, S # {}
  PROVE  Newest(S) \in S /\ \A j \in S : Newest(S) >= j
<1> DEFINE Less == OpToRel(<, Nat)
           Rest == {MaxSets - i : i \in S}
<1>1. \A x, y \in Nat : y < x => <<y, x>> \in Less
  BY DEF OpToRel
<1>2. IsWellFoundedOn(Less, Nat)
  BY NatLessThanWellFounded, Zenon
<1>3. Rest \in SUBSET Nat /\ Rest # {} /\ \A i \in S : i \in 0..MaxSets
  <2>1. MaxSets \in Nat /\ \A i \in S : i \in 1..MaxSets
    BY Widths DEF Ids
  <2>2. \A i \in S : i \in 0..MaxSets /\ MaxSets - i \in Nat
    BY <2>1
  <2>3. PICK i \in S : TRUE
    OBVIOUS
  <2> QED
    BY <2>2, <2>3
<1> HIDE DEF Less
<1>4. PICK x \in Rest : \A y \in Rest : ~(<<y, x>> \in Less)
  BY <1>2, <1>3, WFMin
<1>5. \A y \in Rest : ~(y < x)
  BY <1>1, <1>3, <1>4, Zenon
<1>6. PICK n \in S : x = MaxSets - n
  BY <1>4
<1>7. \A j \in S : n >= j
  BY <1>3, <1>5, <1>6, Widths
<1> QED
  BY <1>6, <1>7 DEF Newest

LEMMA NoManifestType == NoManifest \notin Manifests /\ NoManifest \in Held /\ Manifests \subseteq Held
BY Widths DEF NoManifest, Manifests, Held

LEMMA IdleFacts ==
  /\ Idle \in Processes /\ Idle.phase = "idle" /\ Idle.id = 0 /\ Idle.held = NoManifest /\ Idle.doomed = {}
BY NoManifestType, Widths DEF Idle, Processes, Operations, Phases

LEMMA FiledFacts ==
  ASSUME StoreTypes, NEW i \in Filed
  PROVE  i \in Ids /\ manifest[i] \in Manifests
BY DEF Filed, StoreTypes

\* Nothing in the store or the bench changes, and the operation does not leave
\* a phase that makes an exception.
LEMMA QuietState ==
  ASSUME NEW r, NEW q, State(r), UNCHANGED <<runs, bench, disk, manifest, remote, removed>>,
         cut \subseteq cut', cut' \subseteq Ids, today' \in 1..MaxDay,
         q \in Processes, KnowsRun(q), KnowsSet(q), KnowsCopy(q),
         r.phase \in {"rest", "file", "seal", "clear"} =>
           (q.id = r.id /\ q.phase = r.phase) \/ (r.id \in Ids => r.id \in cut')
  PROVE  State(q)'
<1> USE DEF State
<1>1. StoreTypes' /\ InPlace' /\ Complete'
  BY DEF StoreTypes, InPlace, Complete, Filed, RemoteFiled
<1>2. KnowsRun(q)'
  BY DEF KnowsRun, Fresh
<1>3. KnowsSet(q)'
  BY DEF KnowsSet, Filed
<1>4. KnowsCopy(q)'
  BY DEF KnowsCopy, Filed, RemoteFiled
<1>5. Left(q)'
  BY DEF Left, Filed
<1>6. Kept(q)'
  <2>1. \A i \in 1..runs : i \in Ids
    BY Widths DEF StoreTypes, Ids
  <2> QED
    BY <2>1 DEF Kept, Filed
<1>7. Copied(q)'
  BY DEF Copied, Filed, RemoteFiled
<1> QED
  BY <1>1, <1>2, <1>3, <1>4, <1>5, <1>6, <1>7

\* Phases that know nothing.
LEMMA KnowsNothing ==
  ASSUME NEW q, q.phase \in {"idle", "next", "nextCopy"}
  PROVE  KnowsRun(q) /\ KnowsSet(q) /\ KnowsCopy(q)
BY DEF KnowsRun, KnowsSet, KnowsCopy, Captures, Holds

-----------------------------------------------------------------------------
(* Captures.                                                                 *)

\* Each of the operation's steps takes one state of it to another.
Steps(p, r) == \E q \in Processes : proc' = [proc EXCEPT ![p] = q] /\ State(q)'

LEMMA StartCaptureKeeps ==
  ASSUME NEW p, NEW r, State(r), r = Idle, NEW safety \in BOOLEAN, StartCapture(p, safety)
  PROVE  Steps(p, r)
<1> DEFINE q == [Idle EXCEPT !.op = "capture", !.phase = "list", !.held.safety = safety]
<1>1. /\ proc' = [proc EXCEPT ![p] = q] /\ UNCHANGED <<today, cut, disk, manifest, remote, removed>>
      /\ runs < MaxSets /\ runs' = runs + 1 /\ bench' = bench \cup {runs + 1}
  BY DEF StartCapture, Begin, Become, NoCut, files
<1>2. q.phase = "list" /\ q.held.offsite = FALSE /\ q.id = 0 /\ q \in Processes
  <2>1. ASSUME NEW z \in Processes
        PROVE  LET x == [z EXCEPT !.op = "capture", !.phase = "list", !.held.safety = safety]
               IN  x.phase = "list" /\ x.held.offsite = z.held.offsite /\ x.id = z.id /\ x \in Processes
    BY ZenonT(60) DEF Processes, Operations, Phases, Held
  <2>2. NoManifest.offsite = FALSE
    BY DEF NoManifest
  <2> QED
    BY <2>1, <2>2, IdleFacts
<1>3. r.phase = "idle"
  BY DEF Idle
<1> HIDE DEF q
<1>4. runs \in Nat /\ runs + 1 \in Ids /\ bench \subseteq 1..runs /\ removed \subseteq 1..runs
  BY <1>1, Widths DEF State, StoreTypes, Ids
<1>5. StoreTypes'
  BY <1>1, <1>4, Widths DEF State, StoreTypes, Ids
<1>6. InPlace' /\ Complete'
  BY <1>1, <1>4 DEF State, InPlace, Complete, Filed, RemoteFiled, Ids
<1>7. KnowsRun(q)' /\ KnowsSet(q)' /\ KnowsCopy(q)'
  <2>1. runs + 1 \notin Filed /\ runs + 1 \notin RemoteFiled /\ runs + 1 \notin removed
    BY <1>4 DEF State, InPlace, Complete
  <2>2. manifest[runs + 1] = NoManifest /\ remote[runs + 1].manifest = NoManifest
    BY <1>4, <2>1 DEF Filed, RemoteFiled
  <2> QED
    BY <1>1, <1>2, <1>4, <2>1, <2>2 DEF KnowsRun, KnowsSet, KnowsCopy, Captures, Holds, Fresh
<1>8. Left(q)' /\ Copied(q)'
  BY <1>1, <1>2, <1>3 DEF State, Left, Copied, Filed, RemoteFiled
<1>9. Kept(q)'
  <2>1. \A i \in 1..runs' : i \in 1..runs \/ i \in bench'
    BY <1>1, <1>4
  <2> QED
    BY <1>1, <1>3, <2>1 DEF State, Kept, Filed
<1> QED
  BY <1>1, <1>2, <1>5, <1>6, <1>7, <1>8, <1>9 DEF State, Steps

LEMMA ListRunKeeps ==
  ASSUME NEW p \in Procs, NEW r, State(r), r = proc[p], ListRun(p)
  PROVE  Steps(p, r)
<1>1. /\ r.phase = "list" /\ UNCHANGED <<today, cut, runs, bench, disk, manifest, remote, removed>>
      /\ runs \in bench /\ Fresh(runs) /\ ~r.held.offsite /\ bench \subseteq 1..runs /\ runs \in 0..MaxSets
      /\ today \in 1..MaxDay /\ cut \subseteq Ids /\ r \in Processes
  BY DEF ListRun, Then, Steady, KeepBench, NoCut, files, State, KnowsRun, StoreTypes
<1>2. bench \in SUBSET Ids /\ bench # {}
  BY <1>1, Widths DEF Ids
<1>3. PICK n \in bench : n = Newest(bench) /\ n >= runs
  BY <1>1, <1>2, NewestFacts
<1>4. n = runs /\ runs \in Ids
  <2>1. runs \in Nat /\ n \in 1..runs
    BY <1>1, Widths
  <2> QED
    BY <1>1, <1>2, <1>3, <2>1
<1> DEFINE q == [r EXCEPT !.phase = "copyOut", !.id = n]
<1>5. proc' = [proc EXCEPT ![p] = q]
  BY <1>2, <1>3 DEF ListRun, Become
<1>6. q.phase = "copyOut" /\ q.id = runs /\ q.held = r.held /\ q \in Processes
  BY <1>1, <1>4, ZenonT(60) DEF Processes, Phases, Ids
<1> HIDE DEF q
<1>7. KnowsRun(q) /\ KnowsSet(q) /\ KnowsCopy(q)
  BY <1>1, <1>4, <1>6 DEF KnowsRun, KnowsSet, KnowsCopy, Captures, Holds
<1>8. State(q)'
  BY <1>1, <1>6, <1>7, QuietState
<1> QED
  BY <1>5, <1>6, <1>8 DEF Steps

LEMMA CopyOutKeeps ==
  ASSUME NEW p \in Procs, NEW r, State(r), r = proc[p], CopyOut(p)
  PROVE  Steps(p, r)
<1> DEFINE i == r.id
<1>1. /\ r.phase = "copyOut" /\ UNCHANGED <<today, cut, runs, bench, manifest, remote, removed>>
      /\ i = runs /\ i \in Ids /\ i \in bench /\ Fresh(i) /\ ~r.held.offsite /\ r \in Processes
  BY DEF CopyOut, Then, Steady, KeepBench, NoCut, Files, State, KnowsRun, Captures
<1>2. PICK copied \in {"torn", "short", "whole"} :
        /\ disk' = [disk EXCEPT ![i] = copied]
        /\ proc' = [proc EXCEPT ![p] = [r EXCEPT !.phase = "check", !.held.parts = copied]]
  BY <1>1 DEF CopyOut, Files, Become
<1> DEFINE q == [r EXCEPT !.phase = "check", !.held.parts = copied]
<1>3. /\ q.phase = "check" /\ q.id = i /\ q.held.parts = copied /\ q.held.offsite = r.held.offsite
      /\ q \in Processes
  BY <1>1, ZenonT(60) DEF Processes, Phases, Held
<1> HIDE DEF q
<1>4. StoreTypes' /\ disk'[i] = copied /\ \A j \in Ids : j # i => disk'[j] = disk[j]
  BY <1>1, <1>2 DEF State, StoreTypes, Contents
<1>5. InPlace' /\ Complete' /\ Left(q)' /\ Copied(q)'
  BY <1>1, <1>3, <1>4 DEF State, InPlace, Complete, Left, Copied, Filed, RemoteFiled
<1>6. KnowsRun(q)' /\ KnowsSet(q)' /\ KnowsCopy(q)'
  BY <1>1, <1>3, <1>4 DEF KnowsRun, KnowsSet, KnowsCopy, Captures, Holds, Fresh
<1>7. Kept(q)'
  <2>1. \A j \in 1..runs : j \in Ids
    BY Widths DEF State, StoreTypes, Ids
  <2> QED
    BY <1>1, <1>4, <2>1 DEF State, Kept, Filed
<1> QED
  BY <1>2, <1>3, <1>4, <1>5, <1>6, <1>7 DEF State, Steps, q

LEMMA CheckCopyKeeps ==
  ASSUME NEW p \in Procs, NEW r, State(r), r = proc[p], CheckCopy(p)
  PROVE  Steps(p, r)
<1> PICK verified \in BOOLEAN : verified = (r.held.parts = "whole" /\ disk[r.id] = "whole")
  OBVIOUS
<1> DEFINE q == [r EXCEPT !.phase = IF verified THEN "cleanup" ELSE "file", !.held.verified = verified]
<1>1. /\ r.phase = "check" /\ UNCHANGED <<today, cut, runs, bench, disk, manifest, remote, removed>>
      /\ proc' = [proc EXCEPT ![p] = q]
      /\ KnowsRun(r) /\ r \in Processes /\ today \in 1..MaxDay /\ cut \subseteq Ids
  BY DEF CheckCopy, Then, Steady, KeepBench, NoCut, files, Become, State, StoreTypes
<1>3. /\ q.phase = IF verified THEN "cleanup" ELSE "file"
      /\ q.id = r.id /\ q.held.parts = r.held.parts /\ q.held.offsite = r.held.offsite
      /\ q \in Processes
  BY <1>1, ZenonT(60) DEF Processes, Phases, Held
<1> HIDE DEF q
<1>4. KnowsRun(q) /\ KnowsSet(q) /\ KnowsCopy(q)
  BY <1>1, <1>3 DEF KnowsRun, KnowsSet, KnowsCopy, Captures, Holds, Sound
<1>5. State(q)'
  BY <1>1, <1>3, <1>4, QuietState
<1> QED
  BY <1>1, <1>3, <1>5 DEF Steps

LEMMA CleanupKeeps ==
  ASSUME NEW p \in Procs, NEW r, State(r), r = proc[p], Cleanup(p)
  PROVE  Steps(p, r)
<1> DEFINE i == r.id
           q == [r EXCEPT !.phase = "file"]
<1>1. /\ r.phase = "cleanup" /\ UNCHANGED <<today, cut, runs, disk, manifest, remote, removed>>
      /\ bench' \in {bench, bench \ {i}} /\ proc' = [proc EXCEPT ![p] = q]
      /\ KnowsRun(r) /\ r \in Processes
  BY DEF Cleanup, Then, Steady, NoCut, files, Goto, Become, State
<1>2. q.phase = "file" /\ q.id = i /\ q.held = r.held /\ q \in Processes
  BY <1>1 DEF Processes, Phases
<1>3. /\ i = runs /\ i \in Ids /\ Fresh(i) /\ ~r.held.offsite /\ disk[i] # "none"
      /\ r.held.parts = "whole" /\ Sound(disk[i])
  BY <1>1 DEF KnowsRun, Captures
<1> HIDE DEF q
<1>4. StoreTypes' /\ InPlace' /\ Left(q)' /\ Copied(q)'
  BY <1>1, <1>2 DEF State, StoreTypes, InPlace, Left, Copied, Filed, RemoteFiled
<1>5. Complete'
  BY <1>1, <1>3 DEF State, Complete, Filed, RemoteFiled, Fresh
<1>6. KnowsRun(q)' /\ KnowsSet(q)' /\ KnowsCopy(q)'
  BY <1>1, <1>2, <1>3 DEF KnowsRun, KnowsSet, KnowsCopy, Captures, Holds, Fresh
<1>7. Kept(q)'
  BY <1>1, <1>2, <1>3 DEF State, Kept, Filed
<1> QED
  BY <1>1, <1>2, <1>4, <1>5, <1>6, <1>7 DEF State, Steps

\* A manifest is written, and nothing else changes.
LEMMA WriteState ==
  ASSUME NEW r, NEW q, NEW i \in Ids, NEW m \in Manifests, State(r),
         UNCHANGED <<today, runs, bench, disk, remote, removed, cut>>, manifest' = [manifest EXCEPT ![i] = m],
         i <= runs, disk[i] # "none", m.parts # "whole" => i \in bench, i \in removed => i \in cut,
         m.offsite /\ i \notin cut => \/ Usable(remote[i].parts, m) /\ i \in RemoteFiled
                                      \/ q.id = i /\ q.phase \in {"seal", "clear"},
         r.phase # "rest", r.phase \in {"file", "seal", "clear"} => r.id = i,
         q \in Processes, KnowsRun(q)', KnowsSet(q)', KnowsCopy(q)'
  PROVE  State(q)'
<1>1. StoreTypes'
  BY DEF State, StoreTypes
<1>2. manifest'[i] = m /\ m # NoManifest /\ \A j \in Ids : j # i => manifest'[j] = manifest[j]
  BY NoManifestType DEF State, StoreTypes
<1>3. Filed' = Filed \cup {i} /\ RemoteFiled' = RemoteFiled
  BY <1>2 DEF Filed, RemoteFiled
<1>4. InPlace' /\ Complete'
  BY <1>2, <1>3 DEF State, InPlace, Complete, Filed, RemoteFiled
<1>5. Left(q)' /\ Copied(q)'
  BY <1>2, <1>3 DEF State, Left, Copied, Filed
<1>6. Kept(q)'
  BY <1>3 DEF State, Kept
<1> QED
  BY <1>1, <1>4, <1>5, <1>6 DEF State

LEMMA FileSetKeeps ==
  ASSUME NEW p \in Procs, NEW r, State(r), r = proc[p], FileSet(p)
  PROVE  Steps(p, r)
<1> DEFINE i == r.id
<1>1. PICK m : m = [r.held EXCEPT !.day = today]
  OBVIOUS
<1>2. /\ r.phase = "file" /\ UNCHANGED <<today, cut, runs, bench, remote>> /\ Write(i, m)
      /\ KnowsRun(r) /\ r \in Processes /\ today \in 1..MaxDay /\ removed \subseteq 1..runs
  BY <1>1 DEF FileSet, Then, Steady, KeepBench, NoCut, State, StoreTypes
<1>3. /\ i = runs /\ i \in Ids /\ Fresh(i) /\ ~r.held.offsite /\ disk[i] # "none" /\ r.held.parts # "none"
      /\ i \in bench \/ (r.held.parts = "whole" /\ Sound(disk[i]))
  BY <1>2 DEF KnowsRun, Captures
<1>4. /\ m \in Manifests /\ m.offsite = FALSE /\ m.parts = r.held.parts
      /\ m.verified = r.held.verified
  BY <1>1, <1>2, <1>3 DEF Processes, Held, Manifests
<1>5. UNCHANGED <<disk, removed>> /\ manifest' = [manifest EXCEPT ![i] = m]
  BY <1>2, <1>3 DEF Write, Files
<1>6. \E q \in Processes : /\ proc' = [proc EXCEPT ![p] = q] /\ q.id \in {0, i}
                           /\ \/ q.phase = "idle"
                              \/ q.phase = "upload" /\ q.id = i /\ q.held = m
  <2> DEFINE q == [Idle EXCEPT !.op = "copy", !.phase = "upload", !.id = i, !.held = m]
  <2>1. proc' = [proc EXCEPT ![p] = Idle] \/ proc' = [proc EXCEPT ![p] = q]
    BY <1>1 DEF FileSet, Become, End
  <2>2. /\ q.phase = "upload" /\ q.id = i /\ q.held = m
        /\ q \in Processes
    <3>1. Idle \in Processes /\ m \in Held /\ i \in 0..MaxSets
      BY <1>3, <1>4, IdleFacts, NoManifestType DEF Ids
    <3> QED
      BY <3>1, ZenonT(60) DEF Processes, Operations, Phases
  <2> QED
    BY <2>1, <2>2, IdleFacts
<1>7. PICK q \in Processes : /\ proc' = [proc EXCEPT ![p] = q] /\ q.id \in {0, i}
                             /\ \/ q.phase = "idle"
                                \/ q.phase = "upload" /\ q.id = i /\ q.held = m
  BY <1>6
<1>8. manifest'[i] = m /\ m # NoManifest
  BY <1>3, <1>4, <1>5, NoManifestType DEF State, StoreTypes
<1>9. KnowsRun(q)' /\ KnowsSet(q)' /\ KnowsCopy(q)'
  BY <1>3, <1>4, <1>7, <1>8 DEF KnowsRun, KnowsSet, KnowsCopy, Captures, Holds, Filed
<1>10. i <= runs
  BY <1>2, <1>3 DEF Ids
<1>11. State(q)'
  BY <1>2, <1>3, <1>4, <1>5, <1>7, <1>9, <1>10, WriteState DEF Fresh
<1> QED
  BY <1>7, <1>11 DEF Steps

-----------------------------------------------------------------------------
(* Operations on one set.                                                    *)

LEMMA StartNamedKeeps ==
  ASSUME NEW p \in Procs, NEW r, State(r), r = Idle, NEW op \in DOMAIN FirstPhase, NEW i \in ByName, StartNamed(p, op, i)
  PROVE  Steps(p, r)
<1>1. PICK m : m = manifest[i]
  OBVIOUS
<1>2. /\ i \in Filed /\ i \in Ids /\ m \in Manifests /\ today \in 1..MaxDay /\ cut \subseteq Ids
      /\ UNCHANGED <<today, cut, runs, bench, disk, manifest, remote, removed>>
  BY <1>1, FiledFacts DEF StartNamed, Begin, NoCut, KeepBench, files, State, StoreTypes
<1>3. PICK f \in {"checking", "upload", "drilling", "guard"} : f = FirstPhase[op] /\ op \in Operations
  BY DEF FirstPhase, Operations
<1> DEFINE q == [Idle EXCEPT !.op = op, !.phase = f, !.id = i, !.held = m]
<1>4. proc' = [proc EXCEPT ![p] = q]
  BY <1>1, <1>3 DEF StartNamed, Begin, Become
<1>5. q.phase = f /\ q.id = i /\ q.held = m /\ q \in Processes
  <2>1. Idle \in Processes /\ m \in Held /\ i \in 0..MaxSets /\ f \in Phases
    BY <1>2, IdleFacts, NoManifestType DEF Ids, Phases
  <2> QED
    BY <1>3, <2>1 DEF Processes
<1> HIDE DEF q
<1>6. KnowsRun(q) /\ KnowsSet(q) /\ KnowsCopy(q)
  BY <1>1, <1>2, <1>5 DEF KnowsRun, KnowsSet, KnowsCopy, Captures, Holds
<1>7. State(q)'
  BY <1>2, <1>5, <1>6, QuietState, IdleFacts
<1> QED
  BY <1>4, <1>5, <1>7 DEF Steps

LEMMA CheckSetKeeps ==
  ASSUME NEW p \in Procs, NEW r, State(r), r = proc[p], CheckSet(p)
  PROVE  Steps(p, r)
<1> PICK sound : sound = CASE r.held.parts = "whole" -> {"whole"}
                           [] r.held.parts = "short" -> {"whole", "short"}
                           [] OTHER -> {}
  OBVIOUS
<1> PICK v \in BOOLEAN : v = (disk[r.id] \in sound)
  <2>1. CASE disk[r.id] \in sound
    BY <2>1, TRUE = (disk[r.id] \in sound)
  <2>2. CASE disk[r.id] \notin sound
    BY <2>2, FALSE = (disk[r.id] \in sound)
  <2> QED
    BY <2>1, <2>2
<1>1. proc' = [proc EXCEPT ![p] = [r EXCEPT !.phase = "verdict", !.held.verified = v]]
  BY DEF CheckSet, Become
<1>2. /\ r.phase = "checking" /\ UNCHANGED <<today, cut, runs, bench, disk, manifest, remote, removed>>
      /\ KnowsSet(r) /\ r \in Processes /\ today \in 1..MaxDay /\ cut \subseteq Ids
  BY DEF CheckSet, Then, Steady, KeepBench, NoCut, files, State, StoreTypes
<1> DEFINE q == [r EXCEPT !.phase = "verdict", !.held.verified = v]
<1>3. r.id \in Filed /\ r.held \in Manifests /\ manifest[r.id] = r.held
  BY <1>2, SMTT(60) DEF KnowsSet, Holds
<1>4. /\ q.phase = "verdict" /\ q.id = r.id /\ q.held.parts = r.held.parts /\ q.held.offsite = r.held.offsite
      /\ q.held \in Manifests /\ q \in Processes
  BY <1>2, <1>3, ZenonT(60) DEF Processes, Phases, Held, Manifests
<1> HIDE DEF q
<1>5. KnowsRun(q) /\ KnowsSet(q) /\ KnowsCopy(q)
  BY <1>3, <1>4 DEF KnowsRun, KnowsSet, KnowsCopy, Captures, Holds
<1>6. State(q)'
  BY <1>2, <1>4, <1>5, QuietState
<1> QED
  BY <1>1, <1>4, <1>6 DEF Steps, q

LEMMA WriteVerdictKeeps ==
  ASSUME NEW p \in Procs, NEW r, State(r), r = proc[p], WriteVerdict(p)
  PROVE  Steps(p, r)
<1> DEFINE i == r.id
<1>1. /\ r.phase \in {"verdict", "drilling"} /\ UNCHANGED <<today, cut, runs, bench, remote>>
      /\ Write(i, r.held) /\ proc' = [proc EXCEPT ![p] = Idle]
  BY DEF WriteVerdict, Steady, KeepBench, NoCut, End, Become
<1>2. /\ i \in Filed /\ i \in Ids /\ r.held \in Manifests /\ disk[i] # "none" /\ i <= runs
      /\ manifest[i].parts = r.held.parts /\ manifest[i].offsite = r.held.offsite
  BY <1>1 DEF State, InPlace, KnowsSet, Holds, Filed
<1>3. UNCHANGED <<disk, removed>> /\ manifest' = [manifest EXCEPT ![i] = r.held]
  BY <1>1, <1>2 DEF Write, Files
<1>4. /\ r.held.parts # "whole" => i \in bench
      /\ i \in removed => i \in cut
      /\ r.held.offsite /\ i \notin cut => Usable(remote[i].parts, r.held) /\ i \in RemoteFiled
  BY <1>1, <1>2 DEF State, Complete, Left, Copied, Usable
<1>5. KnowsRun(Idle)' /\ KnowsSet(Idle)' /\ KnowsCopy(Idle)'
  BY IdleFacts DEF KnowsRun, KnowsSet, KnowsCopy, Captures, Holds
<1>6. State(Idle)'
  BY <1>1, <1>2, <1>3, <1>4, <1>5, WriteState, IdleFacts
<1> QED
  BY <1>1, <1>6, IdleFacts DEF Steps

LEMMA UploadKeeps ==
  ASSUME NEW p \in Procs, NEW r, State(r), r = proc[p], Upload(p)
  PROVE  Steps(p, r)
<1> DEFINE i == r.id
<1>1. r.phase = "upload" /\ UNCHANGED <<today, runs, bench, disk, manifest, removed>> /\ today \in 1..MaxDay
  BY DEF Upload, Then, Steady, KeepBench, files, State, StoreTypes
<1>2. i \in Filed /\ i \in Ids /\ r.held \in Manifests /\ manifest[i] = r.held /\ r \in Processes /\ cut \subseteq Ids
  BY <1>1 DEF State, KnowsSet, Holds, Filed, StoreTypes
<1>3. CASE /\ UNCHANGED cut /\ Usable(disk[i], r.held)
           /\ proc' = [proc EXCEPT ![p] = [r EXCEPT !.phase = "note"]]
           /\ remote' = [remote EXCEPT ![i].parts = disk[i]]
  <2> DEFINE q == [r EXCEPT !.phase = "note"]
  <2>1. q.phase = "note" /\ q.id = i /\ q.held = r.held /\ q \in Processes
    BY <1>2 DEF Processes, Phases
  <2> HIDE DEF q
  <2>2. /\ remote'[i].parts = disk[i] /\ remote'[i].manifest = remote[i].manifest
        /\ \A j \in Ids : j # i => remote'[j] = remote[j]
        /\ remote' \in [Ids -> [parts : Contents, manifest : Manifests \cup {NoManifest}]]
    BY <1>2, <1>3 DEF State, StoreTypes
  <2>3. RemoteFiled' = RemoteFiled /\ Filed' = Filed
    BY <1>1, <2>2, SMTT(60) DEF RemoteFiled, Filed
  <2>4. StoreTypes'
    BY <1>1, <1>3, <2>2 DEF State, StoreTypes
  <2>5. InPlace' /\ Complete'
    BY <1>1, <2>2, <2>3 DEF State, InPlace, Complete, RemoteFiled
  <2>6. Left(q)' /\ Kept(q)'
    BY <1>1, <1>3, <2>3 DEF State, Left, Kept
  <2>7. Copied(q)'
    BY <1>1, <1>2, <1>3, <2>2, <2>3 DEF State, Copied, Filed
  <2>8. KnowsRun(q)' /\ KnowsSet(q)' /\ KnowsCopy(q)'
    BY <1>1, <1>2, <1>3, <2>1, <2>2, <2>3 DEF KnowsRun, KnowsSet, KnowsCopy, Captures, Holds
  <2> QED
    BY <1>3, <2>1, <2>4, <2>5, <2>6, <2>7, <2>8 DEF State, Steps, q
<1>4. CASE proc' = [proc EXCEPT ![p] = Idle] /\ cut' = cut \cup {i} /\ UNCHANGED remote
  <2>1. State(Idle)'
    BY <1>1, <1>2, <1>4, QuietState, KnowsNothing, IdleFacts
  <2> QED
    BY <1>4, <2>1, IdleFacts DEF Steps
<1> QED
  BY <1>3, <1>4 DEF Upload, NoCut, Goto, End, Become

LEMMA NoteCopyKeeps ==
  ASSUME NEW p \in Procs, NEW r, State(r), r = proc[p], NoteCopy(p)
  PROVE  Steps(p, r)
<1> DEFINE i == r.id
           m == [r.held EXCEPT !.offsite = TRUE]
           q == [r EXCEPT !.phase = "seal", !.held = m]
<1>1. /\ r.phase = "note" /\ UNCHANGED <<today, cut, runs, bench, remote>> /\ Write(i, m)
      /\ disk[i] # "none" => proc' = [proc EXCEPT ![p] = q]
  BY DEF NoteCopy, Then, Steady, KeepBench, NoCut, Become
<1>2. /\ i \in Filed /\ i \in Ids /\ r.held \in Manifests /\ manifest[i] = r.held /\ r \in Processes
      /\ disk[i] # "none" /\ i <= runs /\ Usable(remote[i].parts, r.held)
  BY <1>1 DEF State, KnowsSet, Holds, Filed, InPlace
<1>3. m \in Manifests /\ m.parts = r.held.parts /\ m.offsite = TRUE
  BY <1>2 DEF Manifests
<1>4. UNCHANGED <<disk, removed>> /\ manifest' = [manifest EXCEPT ![i] = m]
  BY <1>1, <1>2 DEF Write, Files
<1> HIDE DEF m
<1>5. q.phase = "seal" /\ q.id = i /\ q.held = m /\ q \in Processes
  BY <1>2, <1>3, NoManifestType DEF Processes, Phases
<1> HIDE DEF q
<1>6. manifest'[i] = m /\ m # NoManifest
  BY <1>2, <1>3, <1>4, NoManifestType DEF State, StoreTypes
<1>7. KnowsRun(q)' /\ KnowsSet(q)' /\ KnowsCopy(q)'
  BY <1>1, <1>2, <1>3, <1>5, <1>6 DEF KnowsRun, KnowsSet, KnowsCopy, Captures, Holds, Filed, Usable
<1>8. (m.parts # "whole" => i \in bench) /\ (i \in removed => i \in cut)
  BY <1>1, <1>2, <1>3 DEF State, Complete, Left
<1>9. State(q)'
  BY <1>1, <1>2, <1>3, <1>4, <1>5, <1>7, <1>8, WriteState
<1> QED
  BY <1>1, <1>2, <1>5, <1>9 DEF Steps

LEMMA SealCopyKeeps ==
  ASSUME NEW p \in Procs, NEW r, State(r), r = proc[p], SealCopy(p)
  PROVE  Steps(p, r)
<1> DEFINE i == r.id
<1>1. /\ r.phase = "seal" /\ UNCHANGED <<today, runs, bench, disk, manifest, removed>>
      /\ proc' = [proc EXCEPT ![p] = Idle] /\ today \in 1..MaxDay
  BY DEF SealCopy, Then, Steady, KeepBench, files, State, StoreTypes, End, Become
<1>2. /\ i \in Filed /\ i \in Ids /\ r.held \in Manifests /\ manifest[i] = r.held /\ cut \subseteq Ids
      /\ i <= runs /\ Usable(remote[i].parts, r.held)
  BY <1>1 DEF State, KnowsSet, Holds, Filed, InPlace, StoreTypes
<1>3. CASE cut' = cut \cup {i} /\ UNCHANGED remote
  <2>1. State(Idle)'
    BY <1>1, <1>2, <1>3, QuietState, KnowsNothing, IdleFacts
  <2> QED
    BY <1>1, <2>1, IdleFacts DEF Steps
<1>4. CASE UNCHANGED cut /\ remote' = [remote EXCEPT ![i].manifest = r.held]
  <2>1. /\ remote'[i].manifest = r.held /\ remote'[i].parts = remote[i].parts
        /\ \A j \in Ids : j # i => remote'[j] = remote[j]
        /\ remote' \in [Ids -> [parts : Contents, manifest : Manifests \cup {NoManifest}]]
    BY <1>2, <1>4 DEF State, StoreTypes
  <2>2. RemoteFiled' = RemoteFiled \cup {i} /\ Filed' = Filed
    BY <1>1, <1>2, <2>1, NoManifestType DEF RemoteFiled, Filed
  <2>3. StoreTypes'
    BY <1>1, <1>4, <2>1 DEF State, StoreTypes
  <2>4. InPlace' /\ Complete'
    BY <1>1, <1>2, <2>1, <2>2 DEF State, InPlace, Complete, RemoteFiled
  <2>5. Left(Idle)' /\ Kept(Idle)'
    BY <1>1, <1>4, <2>2 DEF State, Left, Kept
  <2>6. Copied(Idle)'
    BY <1>1, <1>2, <1>4, <2>1, <2>2 DEF State, Copied, Filed
  <2>7. KnowsRun(Idle)' /\ KnowsSet(Idle)' /\ KnowsCopy(Idle)'
    BY IdleFacts DEF KnowsRun, KnowsSet, KnowsCopy, Captures, Holds
  <2> QED
    BY <1>1, <2>3, <2>4, <2>5, <2>6, <2>7, IdleFacts DEF State, Steps
<1> QED
  BY <1>3, <1>4 DEF SealCopy, NoCut

-----------------------------------------------------------------------------
(* Removal.                                                                  *)

\* A step that changes only which phase the operation is in, to one that knows nothing.
LEMMA QuietStep ==
  ASSUME NEW p, NEW r, NEW q \in Processes, State(r), proc' = [proc EXCEPT ![p] = q],
         UNCHANGED <<today, runs, bench, disk, manifest, remote, removed, cut>>,
         r.phase \notin {"rest", "file", "seal", "clear"},
         KnowsRun(q), KnowsSet(q), KnowsCopy(q)
  PROVE  Steps(p, r)
<1>1. today \in 1..MaxDay /\ cut \subseteq Ids
  BY DEF State, StoreTypes
<1>2. State(q)'
  BY <1>1, QuietState
<1> QED
  BY <1>2 DEF Steps

LEMMA QuietEnd ==
  ASSUME NEW p, NEW r, State(r), proc' = [proc EXCEPT ![p] = Idle],
         UNCHANGED <<today, runs, bench, disk, manifest, remote, removed, cut>>,
         r.phase \notin {"rest", "file", "seal", "clear"}
  PROVE  Steps(p, r)
<1>1. KnowsRun(Idle) /\ KnowsSet(Idle) /\ KnowsCopy(Idle) /\ Idle \in Processes
  BY KnowsNothing, IdleFacts
<1> HIDE DEF Idle
<1> QED
  BY <1>1, QuietStep

LEMMA StartPruneKeeps ==
  ASSUME NEW p \in Procs, NEW r, State(r), r = Idle, NEW low \in BOOLEAN, StartPrune(p, low)
  PROVE  Steps(p, r)
<1>1. PICK d \in 1..MaxDay, D \in SUBSET Ids : d = today /\ D = Filed \ Keep(Listing, Local, today, low)
  BY DEF State, StoreTypes, Filed
<1> DEFINE q == [Idle EXCEPT !.op = "prune", !.phase = "next", !.day = d, !.low = low, !.doomed = D]
<1>2. /\ proc' = [proc EXCEPT ![p] = q]
      /\ UNCHANGED <<today, cut, runs, bench, disk, manifest, remote, removed>>
  BY <1>1 DEF StartPrune, Begin, Become, NoCut, KeepBench, files
<1>3. q.phase = "next" /\ q \in Processes
  <2>1. ASSUME NEW z \in Processes
        PROVE  LET x == [z EXCEPT !.op = "prune", !.phase = "next", !.day = d, !.low = low, !.doomed = D]
               IN  x.phase = "next" /\ x \in Processes
    <3>1. d \in 0..MaxDay
      BY Widths
    <3>2. [z EXCEPT !.low = low] \in Processes
      BY DEF Processes
    <3>3. ASSUME NEW y \in Processes
          PROVE  LET x == [y EXCEPT !.op = "prune", !.phase = "next", !.day = d, !.doomed = D]
                 IN  x.phase = "next" /\ x \in Processes
      BY <3>1, ZenonT(60) DEF Processes, Operations, Phases
    <3> QED
      BY <3>2, <3>3 DEF Processes
  <2> QED
    BY <2>1, IdleFacts
<1> HIDE DEF q
<1>4. KnowsRun(q) /\ KnowsSet(q) /\ KnowsCopy(q)
  BY <1>3, KnowsNothing
<1> QED
  BY <1>2, <1>3, <1>4, QuietStep, IdleFacts

LEMMA StartOffsitePruneKeeps ==
  ASSUME NEW p \in Procs, NEW r, State(r), r = Idle, StartOffsitePrune(p)
  PROVE  Steps(p, r)
<1>1. PICK D \in SUBSET Ids : D = RemoteFiled \ Keep(RemoteListing, Offsite, today, FALSE)
  BY DEF RemoteFiled
<1> DEFINE q == [Idle EXCEPT !.op = "offsitePrune", !.phase = "nextCopy", !.doomed = D]
<1>2. /\ proc' = [proc EXCEPT ![p] = q]
      /\ UNCHANGED <<today, cut, runs, bench, disk, manifest, remote, removed>>
  BY <1>1 DEF StartOffsitePrune, Begin, Become, NoCut, KeepBench, files
<1>3. q.phase = "nextCopy" /\ q \in Processes
  <2>1. ASSUME NEW z \in Processes
        PROVE  LET x == [z EXCEPT !.op = "offsitePrune", !.phase = "nextCopy", !.doomed = D]
               IN  x.phase = "nextCopy" /\ x \in Processes
    BY DEF Processes, Operations, Phases
  <2> QED
    BY <2>1, IdleFacts
<1> HIDE DEF q
<1>4. KnowsRun(q) /\ KnowsSet(q) /\ KnowsCopy(q)
  BY <1>3, KnowsNothing
<1> QED
  BY <1>2, <1>3, <1>4, QuietStep, IdleFacts

LEMMA NextDoomedKeeps ==
  ASSUME NEW p \in Procs, NEW r, State(r), r = proc[p], NextDoomed(p)
  PROVE  Steps(p, r)
<1>1. /\ r.phase = "next" /\ r \in Processes /\ StoreTypes
      /\ UNCHANGED <<today, cut, runs, bench, disk, manifest, remote, removed>>
  BY DEF NextDoomed, Then, Steady, KeepBench, NoCut, files, State
<1>2. CASE r.doomed = {}
  <2>1. proc' = [proc EXCEPT ![p] = Idle]
    BY <1>2 DEF NextDoomed, End, Become
  <2> QED
    BY <1>1, <2>1, QuietEnd
<1>3. CASE r.doomed # {}
  <2>1. r.doomed \in SUBSET Ids
    BY <1>1 DEF Processes
  <2>2. PICK i \in r.doomed : i = Newest(r.doomed)
    BY <1>3, <2>1, NewestFacts
  <2>3. PICK m : m = manifest[i]
    OBVIOUS
  <2>4. PICK f \in {"guard", "next"} : f = IF i \in Filed THEN "guard" ELSE "next"
    OBVIOUS
  <2> DEFINE q == [r EXCEPT !.id = i, !.doomed = @ \ {i}, !.phase = f, !.held = m]
  <2>5. proc' = [proc EXCEPT ![p] = q]
    BY <1>3, <2>2, <2>3, <2>4 DEF NextDoomed, Become
  <2>6. i \in Ids /\ m \in Held /\ (f = "guard" => i \in Filed /\ m \in Manifests)
    BY <1>1, <2>1, <2>2, <2>3, <2>4, FiledFacts, NoManifestType DEF StoreTypes
  <2>7. q.phase = f /\ q.id = i /\ q.held = m /\ q \in Processes
    <3>1. i \in 0..MaxSets
      BY <2>6, Widths DEF Ids
    <3> QED
      BY <1>1, <2>6, <3>1, ZenonT(60) DEF Processes, Phases
  <2> HIDE DEF q
  <2>8. KnowsRun(q) /\ KnowsSet(q) /\ KnowsCopy(q)
    BY <2>3, <2>6, <2>7 DEF KnowsRun, KnowsSet, KnowsCopy, Captures, Holds
  <2> QED
    BY <1>1, <2>5, <2>7, <2>8, QuietStep
<1> QED
  BY <1>2, <1>3

LEMMA GuardKeeps ==
  ASSUME NEW p \in Procs, NEW r, State(r), r = proc[p], Guard(p)
  PROVE  Steps(p, r)
<1>1. /\ r.phase = "guard" /\ r \in Processes
      /\ UNCHANGED <<today, cut, runs, bench, disk, manifest, remote, removed>>
  BY DEF Guard, Then, Steady, KeepBench, NoCut, files, State
<1>2. r.id \in Filed /\ r.held \in Manifests /\ manifest[r.id] = r.held
  BY <1>1 DEF State, KnowsSet, Holds
<1>3. ASSUME NEW f \in {"next", "remove"}, proc' = [proc EXCEPT ![p] = [r EXCEPT !.phase = f]],
             f = "remove" => ~(r.held.verified /\ Verified(Listing) = {r.id})
      PROVE  Steps(p, r)
  <2> DEFINE q == [r EXCEPT !.phase = f]
  <2>1. q.phase = f /\ q.id = r.id /\ q.held = r.held /\ q \in Processes
    BY <1>1 DEF Processes, Phases
  <2>2. f = "remove" /\ r.held.verified => \E j \in Filed \ {r.id} : manifest[j].verified
    BY <1>2, <1>3 DEF Verified, Listing
  <2>3. proc' = [proc EXCEPT ![p] = q]
    BY <1>3
  <2> HIDE DEF q
  <2>4. KnowsRun(q) /\ KnowsSet(q) /\ KnowsCopy(q)
    BY <1>2, <2>1, <2>2 DEF KnowsRun, KnowsSet, KnowsCopy, Captures, Holds
  <2> QED
    BY <1>1, <2>1, <2>3, <2>4, QuietStep
<1>4. CASE proc' = [proc EXCEPT ![p] = Idle]
  BY <1>1, <1>4, QuietEnd
<1>5. \/ proc' = [proc EXCEPT ![p] = [r EXCEPT !.phase = "next"]]
      \/ proc' = [proc EXCEPT ![p] = Idle]
      \/ /\ proc' = [proc EXCEPT ![p] = [r EXCEPT !.phase = "remove"]]
         /\ ~(r.held.verified /\ Verified(Listing) = {r.id})
  BY DEF Guard, Goto, End, Become
<1> QED
  BY <1>3, <1>4, <1>5

LEMMA RemoveSomeKeeps ==
  ASSUME NEW p \in Procs, NEW r, State(r), r = proc[p], RemoveSome(p)
  PROVE  Steps(p, r)
<1> DEFINE i == r.id
           q == [r EXCEPT !.phase = "rest"]
<1>1. r.phase = "remove" /\ r \in Processes /\ UNCHANGED <<today, cut, runs, bench, remote>>
  BY DEF RemoveSome, Then, Steady, KeepBench, NoCut, State
<1>2. i \in Filed /\ i \in Ids /\ disk[i] # "none" /\ i <= runs /\ i \in 1..runs
  BY <1>1, Widths DEF State, KnowsSet, Holds, Filed, InPlace, StoreTypes, Ids
<1>3. /\ proc' = [proc EXCEPT ![p] = q] /\ removed' = removed \cup {i}
      /\ \/ disk' = disk /\ manifest' = [manifest EXCEPT ![i] = NoManifest]
         \/ disk' = [disk EXCEPT ![i] = "torn"] /\ manifest' = manifest
  BY <1>2 DEF RemoveSome, Files, Goto, Become
<1>4. q.phase = "rest" /\ q.id = i /\ q \in Processes
  BY <1>1 DEF Processes, Phases
<1> HIDE DEF q
<1>5. /\ \A j \in Ids : j # i => disk'[j] = disk[j]
      /\ disk'[i] # "none" /\ disk' \in [Ids -> Contents]
  BY <1>2, <1>3 DEF State, StoreTypes, Contents
<1>6. /\ \A j \in Ids : j # i => manifest'[j] = manifest[j]
      /\ manifest'[i] \in {manifest[i], NoManifest}
      /\ manifest' \in [Ids -> Manifests \cup {NoManifest}]
  BY <1>2, <1>3 DEF State, StoreTypes
<1>7. /\ Filed' \subseteq Filed /\ \A j \in Filed : j # i => j \in Filed'
      /\ \A j \in Filed' : manifest'[j] = manifest[j]
      /\ RemoteFiled' = RemoteFiled
  BY <1>1, <1>2, <1>6 DEF Filed, RemoteFiled
<1>8. StoreTypes'
  BY <1>1, <1>2, <1>3, <1>5, <1>6 DEF State, StoreTypes
<1>9. InPlace' /\ Complete'
  <2>1. \A j \in Filed' : disk'[j] # "none"
    BY <1>5, <1>7 DEF State, InPlace, Filed
  <2> QED
    BY <1>1, <1>7, <2>1 DEF State, InPlace, Complete
<1>10. KnowsRun(q)' /\ KnowsSet(q)' /\ KnowsCopy(q)'
  BY <1>2, <1>3, <1>4 DEF KnowsRun, KnowsSet, KnowsCopy, Captures, Holds
<1>11. Left(q)'
  BY <1>1, <1>3, <1>4, <1>7 DEF State, Left
<1>12. Kept(q)'
  <2>1. \A j \in 1..runs : j \in Ids
    BY Widths DEF State, StoreTypes, Ids
  <2> QED
    BY <1>1, <1>3, <1>5, <1>7, <2>1 DEF State, Kept
<1>13. Copied(q)'
  BY <1>1, <1>7 DEF State, Copied
<1> QED
  BY <1>3, <1>4, <1>8, <1>9, <1>10, <1>11, <1>12, <1>13 DEF State, Steps

LEMMA RemoveRestKeeps ==
  ASSUME NEW p \in Procs, NEW r, State(r), r = proc[p], RemoveRest(p)
  PROVE  Steps(p, r)
<1> DEFINE i == r.id
<1>1. /\ r.phase = "rest" /\ r \in Processes /\ UNCHANGED <<today, cut, runs, bench, remote, removed>>
      /\ disk' = [disk EXCEPT ![i] = "none"] /\ manifest' = [manifest EXCEPT ![i] = NoManifest]
  BY DEF RemoveRest, Then, Steady, KeepBench, NoCut, Files, State
<1>2. i \in removed /\ i \in Ids
  BY <1>1 DEF State, KnowsSet
<1>3. \E q \in Processes : proc' = [proc EXCEPT ![p] = q] /\ q.phase \in {"next", "idle"}
  <2>1. [r EXCEPT !.phase = "next"] \in Processes /\ [r EXCEPT !.phase = "next"].phase = "next"
    BY <1>1 DEF Processes, Phases
  <2> QED
    BY <2>1, IdleFacts DEF RemoveRest, Goto, End, Become
<1>4. PICK q \in Processes : proc' = [proc EXCEPT ![p] = q] /\ q.phase \in {"next", "idle"}
  BY <1>3
<1>5. /\ Filed' = Filed \ {i} /\ RemoteFiled' = RemoteFiled
      /\ \A j \in Ids : j # i => manifest'[j] = manifest[j] /\ disk'[j] = disk[j]
  BY <1>1, <1>2 DEF State, StoreTypes, Filed, RemoteFiled
<1>6. StoreTypes'
  BY <1>1, <1>2 DEF State, StoreTypes, Contents
<1>7. InPlace' /\ Complete'
  BY <1>1, <1>5 DEF State, InPlace, Complete, Filed
<1>8. KnowsRun(q)' /\ KnowsSet(q)' /\ KnowsCopy(q)'
  BY <1>4 DEF KnowsRun, KnowsSet, KnowsCopy, Captures, Holds
<1>9. Left(q)'
  BY <1>1, <1>5 DEF State, Left
<1>10. Kept(q)'
  <2>1. \A j \in 1..runs : j \in Ids
    BY Widths DEF State, StoreTypes, Ids
  <2> QED
    BY <1>1, <1>2, <1>5, <2>1 DEF State, Kept
<1>11. Copied(q)'
  BY <1>1, <1>5, SMTT(60) DEF State, Copied, Filed
<1> QED
  BY <1>4, <1>6, <1>7, <1>8, <1>9, <1>10, <1>11 DEF State, Steps

LEMMA RemoveCopyKeeps ==
  ASSUME NEW p \in Procs, NEW r, State(r), r = proc[p], RemoveCopy(p)
  PROVE  Steps(p, r)
<1>1. /\ r.phase = "nextCopy" /\ r \in Processes /\ StoreTypes
      /\ UNCHANGED <<today, runs, bench, disk, manifest, removed>>
  BY DEF RemoveCopy, Then, Steady, KeepBench, files, State
<1>2. CASE r.doomed = {}
  <2>1. proc' = [proc EXCEPT ![p] = Idle] /\ UNCHANGED <<remote, cut>>
    BY <1>2 DEF RemoveCopy, End, Become, NoCut
  <2> QED
    BY <1>1, <2>1, QuietEnd
<1>3. CASE r.doomed # {}
  <2>1. r.doomed \in SUBSET Ids
    BY <1>1 DEF Processes
  <2>2. PICK i \in r.doomed : i = Newest(r.doomed)
    BY <1>3, <2>1, NewestFacts
  <2>3. i \in Ids
    BY <2>1, SMTT(60)
  <2> DEFINE c == [r EXCEPT !.phase = "clear", !.id = i, !.doomed = @ \ {i}]
  <2>4. PICK left \in {Uncopied, [remote[i] EXCEPT !.parts = "none"], [remote[i] EXCEPT !.manifest = NoManifest]} :
          /\ remote' = [remote EXCEPT ![i] = left]
          /\ \/ cut' = cut /\ proc' = [proc EXCEPT ![p] = c]
             \/ cut' = cut \cup {i} /\ proc' = [proc EXCEPT ![p] = Idle]
    BY <1>3, <2>2 DEF RemoveCopy, End, Become
  <2>5. c.phase = "clear" /\ c.id = i /\ c \in Processes
    <3>1. i \in 0..MaxSets
      BY <2>3, Widths DEF Ids
    <3> QED
      BY <1>1, <3>1, ZenonT(60) DEF Processes, Phases
  <2> HIDE DEF c
  <2>6. PICK q \in Processes :
          /\ proc' = [proc EXCEPT ![p] = q]
          /\ \/ cut' = cut /\ q.phase = "clear" /\ q.id = i
             \/ cut' = cut \cup {i} /\ q.phase = "idle"
    BY <2>4, <2>5, IdleFacts
  <2>7. /\ left \in [parts : Contents, manifest : Manifests \cup {NoManifest}]
        /\ left.manifest \in {remote[i].manifest, NoManifest}
    <3>1. remote[i] \in [parts : Contents, manifest : Manifests \cup {NoManifest}]
      BY <1>1, <2>3 DEF StoreTypes
    <3> HIDE DEF NoManifest
    <3> QED
      BY <2>4, <3>1 DEF Uncopied, Contents
  <2>8. /\ \A j \in Ids : j # i => remote'[j] = remote[j]
        /\ remote'[i].manifest \in {remote[i].manifest, NoManifest}
        /\ remote' \in [Ids -> [parts : Contents, manifest : Manifests \cup {NoManifest}]]
    BY <1>1, <2>3, <2>4, <2>7 DEF StoreTypes
  <2>9. /\ Filed' = Filed /\ RemoteFiled' \subseteq RemoteFiled
        /\ \A j \in Filed : j # i /\ j \in RemoteFiled => j \in RemoteFiled'
        /\ \A j \in RemoteFiled' : remote'[j].manifest = remote[j].manifest
    BY <1>1, <2>3, <2>8 DEF Filed, RemoteFiled
  <2>10. StoreTypes'
    BY <1>1, <2>3, <2>6, <2>8 DEF StoreTypes
  <2>11. InPlace' /\ Complete'
    BY <1>1, <2>9 DEF State, InPlace, Complete
  <2>12. KnowsRun(q)' /\ KnowsSet(q)' /\ KnowsCopy(q)'
    BY <2>3, <2>6 DEF KnowsRun, KnowsSet, KnowsCopy, Captures, Holds
  <2>13. Left(q)' /\ Kept(q)'
    BY <1>1, <2>6, <2>9 DEF State, Left, Kept
  <2>14. Copied(q)'
    BY <1>1, <2>6, <2>8, <2>9 DEF State, Copied, Filed
  <2> QED
    BY <2>6, <2>10, <2>11, <2>12, <2>13, <2>14 DEF State, Steps
<1> QED
  BY <1>2, <1>3

LEMMA ClearNoteKeeps ==
  ASSUME NEW p \in Procs, NEW r, State(r), r = proc[p], ClearNote(p)
  PROVE  Steps(p, r)
<1> DEFINE i == r.id
           q == [r EXCEPT !.phase = "nextCopy"]
<1>1. /\ r.phase = "clear" /\ r \in Processes /\ UNCHANGED <<today, runs, bench, remote, cut>>
      /\ proc' = [proc EXCEPT ![p] = q] /\ i \in Ids
  BY DEF ClearNote, Then, Steady, KeepBench, NoCut, Goto, Become, State, KnowsSet
<1>2. q.phase = "nextCopy" /\ q \in Processes
  BY <1>1 DEF Processes, Phases
<1> HIDE DEF q
<1>3. KnowsRun(q)' /\ KnowsSet(q)' /\ KnowsCopy(q)'
  BY <1>2 DEF KnowsRun, KnowsSet, KnowsCopy, Captures, Holds
<1>4. CASE i \in Filed /\ manifest[i].offsite
  <2> DEFINE m == [manifest[i] EXCEPT !.offsite = FALSE]
  <2>1. Write(i, m)
    BY <1>4 DEF ClearNote
  <2>2. manifest[i] \in Manifests /\ disk[i] # "none" /\ i <= runs
    BY <1>4, FiledFacts DEF State, InPlace
  <2>3. m \in Manifests /\ m.parts = manifest[i].parts /\ m.offsite = FALSE
    BY <2>2 DEF Manifests
  <2>4. UNCHANGED <<disk, removed>> /\ manifest' = [manifest EXCEPT ![i] = m]
    BY <2>1, <2>2 DEF Write, Files
  <2> HIDE DEF m
  <2>5. (m.parts # "whole" => i \in bench) /\ (i \in removed => i \in cut)
    BY <1>1, <1>4, <2>3 DEF State, Complete, Left
  <2>6. State(q)'
    BY <1>1, <1>2, <1>3, <2>2, <2>3, <2>4, <2>5, WriteState
  <2> QED
    BY <1>1, <1>2, <2>6 DEF Steps
<1>5. CASE ~(i \in Filed /\ manifest[i].offsite)
  <2>1. UNCHANGED <<disk, manifest, removed>>
    BY <1>5 DEF ClearNote, files
  <2>2. StoreTypes' /\ InPlace' /\ Complete'
    BY <1>1, <2>1 DEF State, StoreTypes, InPlace, Complete, Filed, RemoteFiled
  <2>3. Left(q)' /\ Kept(q)'
    BY <1>1, <2>1 DEF State, Left, Kept, Filed
  <2>4. Copied(q)'
    BY <1>1, <1>5, <2>1 DEF State, Copied, Filed, RemoteFiled
  <2> QED
    BY <1>1, <1>2, <1>3, <2>2, <2>3, <2>4 DEF State, Steps
<1> QED
  BY <1>4, <1>5

-----------------------------------------------------------------------------
(* Fetches, and the world.                                                   *)

LEMMA StartFetchKeeps ==
  ASSUME NEW p \in Procs, NEW r, State(r), r = Idle, NEW i \in ByName, StartFetch(p, i)
  PROVE  Steps(p, r)
<1>1. PICK m : m = remote[i].manifest
  OBVIOUS
<1> DEFINE q == [Idle EXCEPT !.op = "fetch", !.phase = "download", !.id = i, !.held = m]
<1>2. /\ i \in RemoteFiled /\ i \in Ids /\ m \in Manifests /\ disk[i] = "none"
      /\ proc' = [proc EXCEPT ![p] = q]
      /\ UNCHANGED <<today, cut, runs, bench, disk, manifest, remote, removed>>
  BY <1>1 DEF StartFetch, Begin, Become, NoCut, KeepBench, files, State, StoreTypes, RemoteFiled
<1>3. q.phase = "download" /\ q.id = i /\ q.held = m /\ q \in Processes
  <2>1. Idle \in Processes /\ m \in Held /\ i \in 0..MaxSets
    BY <1>2, IdleFacts, NoManifestType, Widths DEF Ids
  <2> QED
    BY <2>1 DEF Processes, Operations, Phases
<1> HIDE DEF q
<1>4. i \notin Filed /\ i \in bench \cup removed
  <2>1. i \in 1..runs
    BY <1>2, Widths DEF State, Complete, StoreTypes, Ids
  <2> QED
    BY <1>2, <2>1 DEF State, InPlace, Kept, Sound
<1>5. KnowsRun(q) /\ KnowsSet(q) /\ KnowsCopy(q)
  BY <1>1, <1>2, <1>3, <1>4 DEF KnowsRun, KnowsSet, KnowsCopy, Captures, Holds
<1> QED
  BY <1>2, <1>3, <1>5, QuietStep, IdleFacts

LEMMA DownloadKeeps ==
  ASSUME NEW p \in Procs, NEW r, State(r), r = proc[p], Download(p)
  PROVE  Steps(p, r)
<1> DEFINE i == r.id
           q == [r EXCEPT !.phase = "arrived"]
<1>1. r.phase = "download" /\ r \in Processes /\ UNCHANGED <<today, cut, runs, bench, manifest, remote, removed>>
  BY DEF Download, Then, Steady, KeepBench, NoCut, Files, files, State
<1>2. /\ i \in Ids /\ i \notin Filed /\ i \in RemoteFiled /\ i \in bench \cup removed
      /\ r.held = remote[i].manifest
  BY <1>1 DEF State, KnowsCopy
<1>3. CASE proc' = [proc EXCEPT ![p] = Idle] /\ UNCHANGED disk
  BY <1>1, <1>3, QuietEnd
<1>4. CASE /\ proc' = [proc EXCEPT ![p] = q] /\ Usable(remote[i].parts, r.held)
           /\ disk' = [disk EXCEPT ![i] = remote[i].parts]
  <2>1. q.phase = "arrived" /\ q.id = i /\ q.held = r.held /\ q \in Processes
    BY <1>1 DEF Processes, Phases
  <2> HIDE DEF q
  <2>2. /\ disk'[i] = remote[i].parts /\ \A j \in Ids : j # i => disk'[j] = disk[j]
        /\ disk' \in [Ids -> Contents]
    BY <1>2, <1>4 DEF State, StoreTypes
  <2>3. Filed' = Filed /\ RemoteFiled' = RemoteFiled
    BY <1>1 DEF Filed, RemoteFiled
  <2>4. StoreTypes' /\ InPlace' /\ Complete'
    BY <1>1, <1>2, <2>2, <2>3 DEF State, StoreTypes, InPlace, Complete, Filed
  <2>5. Left(q)' /\ Copied(q)'
    BY <1>1, <2>3 DEF State, Left, Copied
  <2>6. Kept(q)'
    <3>1. \A j \in 1..runs : j \in Ids
      BY Widths DEF State, StoreTypes, Ids
    <3> QED
      BY <1>1, <1>2, <2>2, <2>3, <3>1, SMTT(60) DEF State, Kept
  <2>7. KnowsRun(q)' /\ KnowsSet(q)' /\ KnowsCopy(q)'
    BY <1>1, <1>2, <1>4, <2>1, <2>2, <2>3 DEF KnowsRun, KnowsSet, KnowsCopy, Captures, Holds
  <2> QED
    BY <1>4, <2>1, <2>4, <2>5, <2>6, <2>7 DEF State, Steps
<1> QED
  BY <1>3, <1>4 DEF Download, Files, files, Goto, End, Become

LEMMA FileFetchedKeeps ==
  ASSUME NEW p \in Procs, NEW r, State(r), r = proc[p], FileFetched(p)
  PROVE  Steps(p, r)
<1> DEFINE i == r.id
           q == [r EXCEPT !.phase = "checking"]
<1>1. /\ r.phase = "arrived" /\ r \in Processes /\ UNCHANGED <<today, cut, runs, bench, disk, remote>>
      /\ manifest' = [manifest EXCEPT ![i] = r.held] /\ removed' = removed \ {i}
      /\ proc' = [proc EXCEPT ![p] = q]
  BY DEF FileFetched, Then, Steady, KeepBench, NoCut, Files, Goto, Become, State
<1>2. /\ i \in Ids /\ i \notin Filed /\ i \in RemoteFiled /\ i <= runs
      /\ r.held = remote[i].manifest /\ r.held \in Manifests
      /\ Usable(remote[i].parts, r.held) /\ Usable(disk[i], r.held)
      /\ r.held.parts # "whole" => i \in bench
  BY <1>1 DEF State, StoreTypes, KnowsCopy, RemoteFiled, Complete
<1>3. q.phase = "checking" /\ q.id = i /\ q.held = r.held /\ q \in Processes
  BY <1>1, SMTT(60) DEF Processes, Phases
<1> HIDE DEF q
<1>4. r.held # NoManifest /\ r.held.parts # "none"
  BY <1>2, NoManifestType, SMTT(60) DEF Manifests
<1>5. /\ manifest'[i] = r.held /\ \A j \in Ids : j # i => manifest'[j] = manifest[j]
      /\ manifest' \in [Ids -> Manifests \cup {NoManifest}]
  BY <1>1, <1>2, SMTT(60) DEF State, StoreTypes
<1>6. Filed' = Filed \cup {i} /\ RemoteFiled' = RemoteFiled
  BY <1>1, <1>2, <1>4, <1>5 DEF Filed, RemoteFiled
<1>7. StoreTypes'
  BY <1>1, <1>5 DEF State, StoreTypes
<1>8. InPlace' /\ Complete'
  BY <1>1, <1>2, <1>4, <1>5, <1>6, SMTT(60) DEF State, InPlace, Complete, Usable, Filed
<1>9. Left(q)' /\ Copied(q)'
  BY <1>1, <1>2, <1>5, <1>6 DEF State, Left, Copied, Filed
<1>10. Kept(q)'
  BY <1>1, <1>2, <1>6, SMTT(60) DEF State, Kept, Usable, Sound
<1>11. KnowsRun(q)' /\ KnowsSet(q)' /\ KnowsCopy(q)'
  BY <1>2, <1>3, <1>5, <1>6 DEF KnowsRun, KnowsSet, KnowsCopy, Captures, Holds
<1> QED
  BY <1>1, <1>3, <1>7, <1>8, <1>9, <1>10, <1>11 DEF State, Steps

LEMMA KillKeeps ==
  ASSUME NEW p \in Procs, NEW r, State(r), r = proc[p], Kill(p)
  PROVE  Steps(p, r)
<1>1. /\ UNCHANGED <<today, runs, bench, disk, manifest, remote, removed>>
      /\ cut' = cut \cup ({r.id} \cap Ids) /\ cut \subseteq Ids /\ today \in 1..MaxDay
      /\ proc' = [proc EXCEPT ![p] = Idle]
  BY DEF Kill, Steady, KeepBench, files, End, Become, State, StoreTypes
<1>2. KnowsRun(Idle) /\ KnowsSet(Idle) /\ KnowsCopy(Idle)
  BY KnowsNothing, IdleFacts
<1>3. State(Idle)'
  BY <1>1, <1>2, QuietState, IdleFacts
<1> QED
  BY <1>1, <1>3, IdleFacts DEF Steps

LEMMA RotKeeps ==
  ASSUME NEW r, State(r), NEW i \in Ids, Rot(i)
  PROVE  State(r)'
<1>1. /\ UNCHANGED <<today, cut, runs, bench, manifest, remote, removed>>
      /\ disk[i] = "whole" /\ disk' = [disk EXCEPT ![i] = "rotten"]
  BY DEF Rot, Files, KeepBench, NoCut, Steady
<1>2. /\ disk'[i] = "rotten" /\ \A j \in Ids : j # i => disk'[j] = disk[j]
      /\ disk' \in [Ids -> Contents]
  BY <1>1 DEF State, StoreTypes, Contents
<1>3. Filed' = Filed /\ RemoteFiled' = RemoteFiled
  BY <1>1 DEF Filed, RemoteFiled
<1>4. StoreTypes' /\ InPlace' /\ Complete'
  BY <1>1, <1>2, <1>3 DEF State, StoreTypes, InPlace, Complete, Filed
<1>5. Left(r)' /\ Copied(r)'
  BY <1>1, <1>3 DEF State, Left, Copied
<1>6. Kept(r)'
  <2>1. \A j \in 1..runs : j \in Ids
    BY Widths DEF State, StoreTypes, Ids
  <2> QED
    BY <1>1, <1>2, <1>3, <2>1 DEF State, Kept, Sound
<1>7. KnowsRun(r)'
  BY <1>1, <1>2 DEF State, KnowsRun, Fresh, Sound
<1>8. KnowsSet(r)'
  BY <1>1, <1>3 DEF State, KnowsSet
<1>9. KnowsCopy(r)'
  BY <1>1, <1>2, <1>3 DEF State, KnowsCopy, Usable
<1> QED
  BY <1>4, <1>5, <1>6, <1>7, <1>8, <1>9 DEF State

LEMMA NewDayKeeps ==
  ASSUME NEW r, State(r), NewDay
  PROVE  State(r)'
<1>1. /\ UNCHANGED <<cut, runs, bench, disk, manifest, remote, removed>> /\ cut \subseteq Ids
      /\ today' \in 1..MaxDay /\ r \in Processes /\ KnowsRun(r) /\ KnowsSet(r) /\ KnowsCopy(r)
  BY Widths DEF NewDay, KeepBench, NoCut, files, State, StoreTypes
<1> QED
  BY <1>1, QuietState

-----------------------------------------------------------------------------
(* The steps together.                                                       *)

Procedures == proc \in [Procs -> Processes]
Counters == plain \in BOOLEAN /\ ops \in 0..MaxOps /\ faults \in 0..MaxFaults

LEMMA InitHolds == Init => IInv
<1> SUFFICES ASSUME Init PROVE IInv
  OBVIOUS
<1>1. /\ Taken = 1..Len(Start) /\ Len(Start) \in Nat /\ Len(Start) <= MaxSets
      /\ \A i \in Taken : Start[i] \in [day : 1..MaxDay, safety : BOOLEAN]
  <2>1. PICK S : S = [day : 1..MaxDay, safety : BOOLEAN]
    OBVIOUS
  <2>2. Start \in Seq(S) /\ Len(Start) <= MaxSets
    BY <2>1, BackupStoreAssumption
  <2>3. Len(Start) \in Nat /\ DOMAIN Start = 1..Len(Start) /\ \A i \in 1..Len(Start) : Start[i] \in S
    BY <2>2, LenProperties
  <2> QED
    BY <2>1, <2>2, <2>3 DEF Taken
<1>2. Taken \subseteq Ids /\ FirstDay \in 1..MaxDay
  <2>1. CASE Start = <<>>
    BY <1>1, <2>1, Widths DEF FirstDay, Ids
  <2>2. CASE Start # <<>>
    <3>1. Len(Start) \in Taken
      BY <1>1, <2>2, BackupStoreAssumption
    <3> QED
      BY <1>1, <2>2, <3>1, Widths DEF FirstDay, Ids
  <2> QED
    BY <2>1, <2>2
<1>3. \A i \in Taken : Had(i) \in Manifests /\ Had(i).parts = "whole" /\ Had(i) # NoManifest
  <2> SUFFICES ASSUME NEW i \in Taken
               PROVE  Had(i) \in Manifests /\ Had(i).parts = "whole" /\ Had(i) # NoManifest
    OBVIOUS
  <2>1. PICK d \in 1..MaxDay, b \in BOOLEAN : Start[i].day = d /\ Start[i].safety = b
    BY <1>1
  <2>2. Had(i) = [verified |-> TRUE, parts |-> "whole", safety |-> b, day |-> d, offsite |-> TRUE]
    BY <2>1 DEF Had
  <2>3. Had(i) \in Manifests /\ Had(i).parts = "whole"
    BY <2>2 DEF Manifests
  <2> QED
    BY <2>3, NoManifestType
<1>4. /\ \A i \in Taken : disk[i] = "whole" /\ manifest[i] = Had(i)
      /\ \A i \in Ids \ Taken : disk[i] = "none" /\ manifest[i] = NoManifest
      /\ \A i \in Ids : remote[i].parts = disk[i] /\ remote[i].manifest = manifest[i]
      /\ disk \in [Ids -> Contents] /\ manifest \in [Ids -> Manifests \cup {NoManifest}]
      /\ remote \in [Ids -> [parts : Contents, manifest : Manifests \cup {NoManifest}]]
  BY <1>2, <1>3 DEF Init, Contents
<1>5. Filed = Taken /\ RemoteFiled = Taken
  BY <1>2, <1>3, <1>4 DEF Filed, RemoteFiled
<1>6. /\ today = FirstDay /\ runs = Len(Start) /\ bench = {} /\ removed = {} /\ cut = {}
      /\ plain = TRUE /\ ops = 0 /\ faults = 0 /\ proc = [p \in Procs |-> Idle]
  BY DEF Init
<1>7. StoreTypes /\ InPlace
  BY <1>1, <1>2, <1>4, <1>5, <1>6 DEF StoreTypes, InPlace
<1>8. Complete /\ Left(Idle) /\ Kept(Idle) /\ Copied(Idle)
  <2>1. Complete
    <3>1. \A i \in Taken : i <= runs /\ manifest[i].parts = "whole" /\ remote[i].manifest = manifest[i]
      BY <1>1, <1>2, <1>3, <1>4, <1>6
    <3> QED
      BY <1>5, <3>1 DEF Complete
  <2>2. Left(Idle)
    BY <1>6 DEF Left
  <2>3. Kept(Idle)
    BY <1>1, <1>2, <1>4, <1>5, <1>6 DEF Kept, Sound
  <2>4. Copied(Idle)
    BY <1>2, <1>3, <1>4, <1>5 DEF Copied, Usable
  <2> QED
    BY <2>1, <2>2, <2>3, <2>4
<1>9. State(Idle)
  BY <1>7, <1>8, IdleFacts, KnowsNothing DEF State
<1>10. Active(Idle)
  BY <1>6 DEF Active
<1>11. Counters
  BY <1>6, Widths DEF Counters
<1>12. Procedures
  BY <1>6, IdleFacts DEF Procedures
<1>13. TypeOK
  <2>1. removed \subseteq Ids
    BY <1>6
  <2>2. \A p \in Procs : proc[p].phase \in Phases /\ proc[p].doomed \subseteq Ids /\ proc[p].id \in Ids \cup {0}
    BY <1>6, IdleFacts DEF Phases
  <2> QED
    BY <1>7, <1>11, <2>1, <2>2, Zenon DEF TypeOK, StoreTypes, InPlace, Counters
<1> QED
  BY <1>9, <1>10, <1>12, <1>13 DEF IInv, Procedures

\* The operation that takes a step is the one under way.
LEMMA Alone ==
  ASSUME NEW p \in Procs, NEW r, Active(r), proc[p].phase # "idle" \/ proc[p] # Idle
  PROVE  r = proc[p] /\ Others(p)
<1>1. proc[p] # Idle
  BY IdleFacts
<1> QED
  BY <1>1 DEF Active, Others

\* One that begins is alone.
LEMMA Begins ==
  ASSUME OneAtATime, NEW p \in Procs, NEW z, Begin(p, z), NEW r, Active(r)
  PROVE  r = Idle /\ Others(p)
<1>1. \A q \in Procs : proc[q] = Idle
  BY DEF Begin, OneAtATime
<1> QED
  BY <1>1 DEF Active, Others

LEMMA CaptureSteps ==
  ASSUME OneAtATime, NEW p \in Procs, NEW r, Active(r), State(r), Capture(p)
  PROVE  Others(p) /\ Steps(p, r)
<1>1. ASSUME NEW safety \in BOOLEAN, StartCapture(p, safety)
      PROVE  Others(p) /\ Steps(p, r)
  <2>1. r = Idle /\ Others(p)
    BY <1>1, Begins DEF StartCapture
  <2> QED
    BY <1>1, <2>1, StartCaptureKeeps
<1>2. ASSUME proc[p].phase # "idle"
      PROVE  r = proc[p] /\ Others(p)
  BY <1>2, Alone
<1>3. CASE ListRun(p)
  BY <1>2, <1>3, ListRunKeeps, ZenonT(60) DEF ListRun, Then
<1>4. CASE CopyOut(p)
  BY <1>2, <1>4, CopyOutKeeps, ZenonT(60) DEF CopyOut, Then
<1>5. CASE CheckCopy(p)
  <2>1. proc[p].phase = "check"
    BY <1>5 DEF CheckCopy, Then
  <2> QED
    BY <1>2, <1>5, <2>1, CheckCopyKeeps
<1>6. CASE Cleanup(p)
  BY <1>2, <1>6, CleanupKeeps DEF Cleanup, Then
<1>7. CASE FileSet(p)
  <2>1. proc[p].phase = "file"
    BY <1>7 DEF FileSet, Then
  <2> QED
    BY <1>2, <1>7, <2>1, FileSetKeeps
<1> QED
  BY <1>1, <1>3, <1>4, <1>5, <1>6, <1>7 DEF Capture

LEMMA NamedSteps ==
  ASSUME OneAtATime, NEW p \in Procs, NEW r, Active(r), State(r), Named(p)
  PROVE  Others(p) /\ Steps(p, r)
<1>1. ASSUME NEW op \in DOMAIN FirstPhase, NEW i \in ByName, StartNamed(p, op, i)
      PROVE  Others(p) /\ Steps(p, r)
  <2>1. r = Idle /\ Others(p)
    BY <1>1, Begins DEF StartNamed
  <2> QED
    BY <1>1, <2>1, StartNamedKeeps
<1>2. ASSUME proc[p].phase # "idle"
      PROVE  r = proc[p] /\ Others(p)
  BY <1>2, Alone
<1>3. CASE CheckSet(p)
  <2>1. proc[p].phase = "checking"
    BY <1>3 DEF CheckSet, Then
  <2> QED
    BY <1>2, <1>3, <2>1, CheckSetKeeps
<1>4. CASE WriteVerdict(p)
  BY <1>2, <1>4, WriteVerdictKeeps DEF WriteVerdict
<1>5. CASE Upload(p)
  BY <1>2, <1>5, UploadKeeps DEF Upload, Then
<1>6. CASE NoteCopy(p)
  <2>1. proc[p].phase = "note"
    BY <1>6 DEF NoteCopy, Then
  <2> QED
    BY <1>2, <1>6, <2>1, NoteCopyKeeps
<1>7. CASE SealCopy(p)
  BY <1>2, <1>7, SealCopyKeeps DEF SealCopy, Then
<1> QED
  BY <1>1, <1>3, <1>4, <1>5, <1>6, <1>7 DEF Named

LEMMA RemoveSteps ==
  ASSUME OneAtATime, NEW p \in Procs, NEW r, Active(r), State(r), Remove(p)
  PROVE  Others(p) /\ Steps(p, r)
<1>1. ASSUME NEW low \in BOOLEAN, StartPrune(p, low)
      PROVE  Others(p) /\ Steps(p, r)
  <2>1. r = Idle /\ Others(p)
    BY <1>1, Begins DEF StartPrune
  <2> QED
    BY <1>1, <2>1, StartPruneKeeps
<1>2. CASE StartOffsitePrune(p)
  <2>1. r = Idle /\ Others(p)
    BY <1>2, Begins, SMTT(60) DEF StartOffsitePrune
  <2> QED
    BY <1>2, <2>1, StartOffsitePruneKeeps
<1>3. ASSUME proc[p].phase # "idle"
      PROVE  r = proc[p] /\ Others(p)
  BY <1>3, Alone
<1>4. CASE NextDoomed(p)
  BY <1>3, <1>4, NextDoomedKeeps DEF NextDoomed, Then
<1>5. CASE Guard(p)
  BY <1>3, <1>5, GuardKeeps DEF Guard, Then
<1>6. CASE RemoveSome(p)
  <2>1. proc[p].phase = "remove"
    BY <1>6 DEF RemoveSome, Then
  <2> QED
    BY <1>3, <1>6, <2>1, RemoveSomeKeeps
<1>7. CASE RemoveRest(p)
  <2>1. proc[p].phase = "rest"
    BY <1>7, SMTT(60) DEF RemoveRest, Then
  <2> QED
    BY <1>3, <1>7, <2>1, RemoveRestKeeps
<1>8. CASE RemoveCopy(p)
  BY <1>3, <1>8, RemoveCopyKeeps, ZenonT(60) DEF RemoveCopy, Then
<1>9. CASE ClearNote(p)
  <2>1. proc[p].phase = "clear"
    BY <1>9 DEF ClearNote, Then
  <2> QED
    BY <1>3, <1>9, <2>1, ClearNoteKeeps
<1> QED
  BY <1>1, <1>2, <1>4, <1>5, <1>6, <1>7, <1>8, <1>9 DEF Remove

LEMMA FetchSteps ==
  ASSUME OneAtATime, NEW p \in Procs, NEW r, Active(r), State(r), Fetch(p)
  PROVE  Others(p) /\ Steps(p, r)
<1>1. ASSUME NEW i \in ByName, StartFetch(p, i)
      PROVE  Others(p) /\ Steps(p, r)
  <2>1. r = Idle /\ Others(p)
    BY <1>1, Begins DEF StartFetch
  <2> QED
    BY <1>1, <2>1, StartFetchKeeps
<1>2. ASSUME proc[p].phase # "idle"
      PROVE  r = proc[p] /\ Others(p)
  BY <1>2, Alone
<1>3. CASE Download(p)
  <2>1. proc[p].phase = "download"
    BY <1>3 DEF Download, Then
  <2> QED
    BY <1>2, <1>3, <2>1, DownloadKeeps
<1>4. CASE FileFetched(p)
  <2>1. proc[p].phase = "arrived"
    BY <1>4 DEF FileFetched, Then
  <2> QED
    BY <1>2, <1>4, <2>1, FileFetchedKeeps
<1> QED
  BY <1>1, <1>3, <1>4 DEF Fetch

\* Whoever takes a step, the store is again in the state of the operation under way.
LEMMA AfterStep ==
  ASSUME Procedures, NEW p \in Procs, Others(p), NEW r, Steps(p, r)
  PROVE  Procedures' /\ \E q \in {Idle} \cup {proc'[x] : x \in Procs} : Active(q)' /\ State(q)'
<1>1. PICK q \in Processes : proc' = [proc EXCEPT ![p] = q] /\ State(q)'
  BY DEF Steps
<1>2. proc'[p] = q /\ \A x \in Procs \ {p} : proc'[x] = Idle
  BY <1>1 DEF Procedures, Others
<1>3. Procedures'
  BY <1>1 DEF Procedures
<1>4. Active(q)'
  BY <1>2 DEF Active, Others
<1> QED
  BY <1>1, <1>2, <1>3, <1>4

LEMMA CounterSteps ==
  ASSUME Counters, [Next]_vars
  PROVE  Counters'
<1>1. faults' \in 0..MaxFaults
  <2>1. Fine => faults' = faults
    BY DEF Fine
  <2>2. Fault => faults' \in 0..MaxFaults
    BY Widths DEF Fault, Counters
  <2>3. \A well \in BOOLEAN : Goes(well) => faults' \in 0..MaxFaults
    BY <2>1, <2>2 DEF Goes, Counters
  <2>4. ASSUME NEW p \in Procs, Capture(p) PROVE faults' \in 0..MaxFaults
    <3>1. Fine \/ CopyOut(p) \/ Cleanup(p)
      BY <2>4 DEF Capture, StartCapture, Begin, ListRun, CheckCopy, FileSet
    <3>2. CopyOut(p) => \E well \in BOOLEAN : Goes(well)
      <4>1. ASSUME NEW copied, Goes(copied = "whole") PROVE \E well \in BOOLEAN : Goes(well)
        BY <4>1 DEF Goes
      <4> QED
        BY <4>1 DEF CopyOut
    <3>3. Cleanup(p) => \E well \in BOOLEAN : Goes(well)
      BY DEF Cleanup
    <3> QED
      BY <2>1, <2>3, <3>1, <3>2, <3>3, SMTT(60) DEF Counters
  <2>5. ASSUME NEW p \in Procs, Named(p) PROVE faults' \in 0..MaxFaults
    <3>1. Fine \/ \E well \in BOOLEAN : Goes(well)
      BY <2>5 DEF Named, StartNamed, Begin, CheckSet, WriteVerdict, Upload, NoteCopy, SealCopy
    <3> QED
      BY <2>1, <2>3, <3>1 DEF Counters
  <2>6. ASSUME NEW p \in Procs, Remove(p) PROVE faults' \in 0..MaxFaults
    <3>1. Fine \/ RemoveCopy(p)
      BY <2>6 DEF Remove, StartPrune, StartOffsitePrune, Begin, NextDoomed, Guard, RemoveSome, RemoveRest, ClearNote
    <3>2. RemoveCopy(p) => Fine \/ \E left : Goes(left = Uncopied)
      BY DEF RemoveCopy
    <3>3. ASSUME NEW left, Goes(left = Uncopied) PROVE Fine \/ Fault
      BY <3>3 DEF Goes
    <3> QED
      BY <2>1, <2>2, <3>1, <3>2, <3>3, SMTT(60) DEF Counters
  <2>7. ASSUME NEW p \in Procs, Fetch(p) PROVE faults' \in 0..MaxFaults
    <3>1. Fine \/ \E well \in BOOLEAN : Goes(well)
      BY <2>7 DEF Fetch, StartFetch, Begin, Download, FileFetched
    <3> QED
      BY <2>1, <2>3, <3>1 DEF Counters
  <2>8. ASSUME (\E p \in Procs : Kill(p)) \/ (\E i \in Ids : Rot(i)) \/ NewDay PROVE Fault \/ Fine
    BY <2>8 DEF Kill, Rot, NewDay
  <2>9. UNCHANGED vars => faults' = faults
    BY DEF vars
  <2> QED
    BY <2>1, <2>2, <2>4, <2>5, <2>6, <2>7, <2>8, <2>9 DEF Next, Counters
<1>2. ops' \in 0..MaxOps
  <2>1. ASSUME NEW p, NEW z, Begin(p, z) PROVE ops' \in 0..MaxOps
    BY <2>1, Widths DEF Begin, Counters
  <2>2. ASSUME NEW p \in Procs, Capture(p) \/ Fetch(p) PROVE ops' \in 0..MaxOps
    BY <2>1, <2>2, ZenonT(60) DEF Capture, StartCapture, ListRun, CopyOut, CheckCopy, Cleanup, FileSet,
                      Fetch, StartFetch, Download, FileFetched, Then, Steady, Counters
  <2>3. ASSUME NEW p \in Procs, Named(p) PROVE ops' \in 0..MaxOps
    BY <2>1, <2>3, ZenonT(60) DEF Named, StartNamed, CheckSet, WriteVerdict, Upload, NoteCopy, SealCopy, Then, Steady, Counters
  <2>4. ASSUME NEW p \in Procs, Remove(p) PROVE ops' \in 0..MaxOps
    BY <2>1, <2>4, ZenonT(60) DEF Remove, StartPrune, NextDoomed, Guard, RemoveSome, RemoveRest, StartOffsitePrune,
                      RemoveCopy, ClearNote, Then, Steady, Counters
  <2>5. ASSUME (\E p \in Procs : Kill(p)) \/ (\E i \in Ids : Rot(i)) \/ NewDay \/ UNCHANGED vars PROVE ops' = ops
    BY <2>5 DEF Kill, Rot, NewDay, Steady, vars
  <2> QED
    BY <2>2, <2>3, <2>4, <2>5 DEF Next, Counters
<1>3. plain' \in BOOLEAN
  <2>1. plain \in BOOLEAN
    BY DEF Counters
  <2>2. ASSUME NEW x PROVE (plain /\ x) \in BOOLEAN
    OBVIOUS
  <2>3. plain' = plain \/ plain' = FALSE \/ \E x : plain' = (plain /\ x)
    <3>1. ASSUME NEW p \in Procs, Capture(p) \/ Fetch(p) PROVE plain' = plain \/ plain' = FALSE
      BY <3>1, Zenon DEF Capture, StartCapture, ListRun, CopyOut, CheckCopy, Cleanup, FileSet,
                  Fetch, StartFetch, Download, FileFetched
    <3>2. ASSUME NEW p \in Procs, Named(p) PROVE plain' = plain \/ \E x : plain' = (plain /\ x)
      <4>1. ASSUME NEW op, NEW i, StartNamed(p, op, i) PROVE plain' = (plain /\ op # "delete")
        BY <4>1 DEF StartNamed
      <4>2. ASSUME CheckSet(p) PROVE \E x : plain' = (plain /\ x)
        BY <4>2, Zenon DEF CheckSet
      <4>3. ASSUME WriteVerdict(p) \/ Upload(p) \/ NoteCopy(p) \/ SealCopy(p) PROVE plain' = plain
        BY <4>3, Zenon DEF WriteVerdict, Upload, NoteCopy, SealCopy
      <4> QED
        BY <3>2, <4>1, <4>2, <4>3, Zenon DEF Named
    <3>3. ASSUME NEW p \in Procs, Remove(p) PROVE plain' = plain \/ \E x : plain' = (plain /\ x)
      <4>1. ASSUME NextDoomed(p) PROVE plain' = plain \/ \E x : plain' = (plain /\ x)
        BY <4>1, Zenon DEF NextDoomed
      <4>2. ASSUME Remove(p), ~NextDoomed(p) PROVE plain' = plain
        BY <4>2, Zenon DEF Remove, StartPrune, Guard, RemoveSome, RemoveRest, StartOffsitePrune, RemoveCopy, ClearNote
      <4> QED
        BY <3>3, <4>1, <4>2, Zenon
    <3>4. ASSUME (\E p \in Procs : Kill(p)) \/ (\E i \in Ids : Rot(i)) \/ NewDay \/ UNCHANGED vars
          PROVE  plain' = plain
      BY <3>4, Zenon DEF Kill, Rot, NewDay, vars
    <3> QED
      BY <3>1, <3>2, <3>3, <3>4, Zenon DEF Next
  <2> QED
    BY <2>1, <2>2, <2>3, Zenon
<1> QED
  BY <1>1, <1>2, <1>3, Zenon DEF Counters

\* Every step preserves the invariant.
LEMMA StepHolds ==
  ASSUME OneAtATime, IInv, [Next]_vars
  PROVE  IInv'
<1>1. PICK r \in {Idle} \cup {proc[p] : p \in Procs} : Active(r) /\ State(r)
  BY DEF IInv
<1>2. Procedures /\ Counters
  BY DEF IInv, Procedures, Counters, TypeOK
<1>3. Procedures' /\ \E q \in {Idle} \cup {proc'[x] : x \in Procs} : Active(q)' /\ State(q)'
  <2>1. ASSUME NEW p \in Procs, Capture(p) \/ Named(p) \/ Remove(p) \/ Fetch(p) \/ Kill(p)
        PROVE  Others(p) /\ Steps(p, r)
    <3>1. Kill(p) => r = proc[p] /\ Others(p)
      BY <1>1, Alone DEF Kill
    <3> QED
      BY <1>1, <2>1, <3>1, CaptureSteps, NamedSteps, RemoveSteps, FetchSteps, KillKeeps
  <2>2. CASE \E p \in Procs : Capture(p) \/ Named(p) \/ Remove(p) \/ Fetch(p) \/ Kill(p)
    BY <1>2, <2>1, <2>2, AfterStep
  <2>3. ASSUME UNCHANGED proc, State(r)'
        PROVE  Procedures' /\ \E q \in {Idle} \cup {proc'[x] : x \in Procs} : Active(q)' /\ State(q)'
    BY <1>1, <1>2, <2>3 DEF Procedures, Active, Others
  <2>4. CASE \E i \in Ids : Rot(i)
    BY <1>1, <2>3, <2>4, RotKeeps DEF Rot
  <2>5. CASE NewDay
    BY <1>1, <2>3, <2>5, NewDayKeeps DEF NewDay
  <2>6. CASE UNCHANGED vars
    <3>1. today \in 1..MaxDay /\ cut \subseteq Ids /\ r \in Processes /\ KnowsRun(r) /\ KnowsSet(r) /\ KnowsCopy(r)
      BY <1>1 DEF State, StoreTypes
    <3>2. State(r)'
      BY <1>1, <2>6, <3>1, QuietState DEF vars, files
    <3> QED
      BY <2>3, <2>6, <3>2 DEF vars
  <2> QED
    BY <2>2, <2>4, <2>5, <2>6 DEF Next
<1>4. Counters'
  BY <1>2, CounterSteps
<1>5. TypeOK'
  <2>1. StoreTypes' /\ InPlace'
    BY <1>3 DEF State
  <2>2. (removed \subseteq Ids)'
    BY <2>1, Widths DEF StoreTypes, Ids
  <2>3. (\A p \in Procs : proc[p].phase \in Phases /\ proc[p].doomed \subseteq Ids /\ proc[p].id \in Ids \cup {0})'
    <3>1. 0..MaxSets = Ids \cup {0}
      BY Widths DEF Ids
    <3> QED
      BY <1>3, <3>1 DEF Procedures, Processes
  <2> QED
    BY <1>4, <2>1, <2>2, <2>3, Zenon DEF TypeOK, StoreTypes, InPlace, Counters
<1> QED
  BY <1>3, <1>5 DEF IInv, Procedures

-----------------------------------------------------------------------------
(* The theorems.                                                             *)

\* While operations wait for each other, what the steps read and write has the
\* types of TypeOK: a manifest lies in a directory, whatever was cut short.
THEOREM TypeCorrect ==
  ASSUME OneAtATime
  PROVE  Spec => []TypeOK
<1>1. IInv /\ [Next]_vars => IInv'
  BY StepHolds
<1>2. IInv => TypeOK
  BY DEF IInv
<1> QED
  BY InitHolds, <1>1, <1>2, PTL DEF Spec

\* What every run of bench backup produced is in the bench or complete in the
\* store until someone removes it: capture copies, checks and removes in an
\* order that survives a failure or a kill between any two of its steps.
THEOREM BackupsKept ==
  ASSUME OneAtATime
  PROVE  Spec => []NothingLost
<1>1. IInv /\ [Next]_vars => IInv'
  BY StepHolds
<1>2. IInv => NothingLost
  BY IdleFacts DEF IInv, State, Kept, Sound, NothingLost
<1> QED
  BY InitHolds, <1>1, <1>2, PTL DEF Spec

\* A set that is noted as copied off-site is there and can be fetched, unless an
\* operation works on it or one was cut short: offsite_copy notes the copy before
\* it seals it, and a prune of the copies takes the note back.
THEOREM CopiesTrue ==
  ASSUME OneAtATime
  PROVE  Spec => []OffsiteTrue
<1>1. IInv /\ [Next]_vars => IInv'
  BY StepHolds
<1>2. IInv => OffsiteTrue
  BY IdleFacts DEF IInv, State, Copied, OffsiteTrue
<1> QED
  BY InitHolds, <1>1, <1>2, PTL DEF Spec

\* Only the removal of a set counts it as removed.
LEMMA RemovedBy ==
  ASSUME [Next]_vars, ~(removed' \subseteq removed)
  PROVE  \E p \in Procs : RemoveSome(p)
<1>1. ASSUME NEW p \in Procs, Capture(p) PROVE removed' = removed
  BY <1>1, ZenonT(60) DEF Capture, StartCapture, ListRun, CopyOut, CheckCopy, Cleanup, FileSet, Write, Files, files
<1>2. ASSUME NEW p \in Procs, Named(p) PROVE removed' = removed
  BY <1>2, ZenonT(60) DEF Named, StartNamed, CheckSet, WriteVerdict, Upload, NoteCopy, SealCopy, Write, Files, files
<1>3. ASSUME NEW p \in Procs, Remove(p), ~RemoveSome(p) PROVE removed' = removed
  BY <1>3, ZenonT(60) DEF Remove, StartPrune, NextDoomed, Guard, RemoveRest, StartOffsitePrune, RemoveCopy, ClearNote,
              Write, Files, files
<1>4. ASSUME NEW p \in Procs, Fetch(p) PROVE removed' \subseteq removed
  BY <1>4 DEF Fetch, StartFetch, Download, FileFetched, Files, files
<1>5. ASSUME (\E p \in Procs : Kill(p)) \/ (\E i \in Ids : Rot(i)) \/ NewDay \/ UNCHANGED vars
      PROVE  removed' = removed
  BY <1>5 DEF Kill, Rot, NewDay, Files, files, vars
<1> QED
  BY <1>1, <1>2, <1>3, <1>4, <1>5, SMTT(60) DEF Next

\* A verified set goes only while another verified one stays listed, which no
\* removal has begun to take: the guard of delete_set looks at the store as it
\* is when the set is about to go.
THEOREM GoodOneSurvives ==
  ASSUME OneAtATime
  PROVE  Spec => GoodSurvives
<1> DEFINE Survives == \A i \in Filed : i \in removed' \ removed /\ manifest[i].verified =>
                          \E j \in Filed \ {i} : manifest'[j].verified /\ j \notin removed' \ cut
<1>1. IInv /\ [Next]_vars => IInv'
  BY StepHolds
<1>2. ASSUME IInv, [Next]_vars PROVE Survives
  <2> SUFFICES ASSUME NEW i \in Filed, i \in removed' \ removed, manifest[i].verified
               PROVE  \E j \in Filed \ {i} : manifest'[j].verified /\ j \notin removed' \ cut
    OBVIOUS
  <2>1. PICK p \in Procs : RemoveSome(p)
    BY <1>2, RemovedBy
  <2>2. PICK r : Active(r) /\ State(r)
    BY <1>2 DEF IInv
  <2>3. proc[p].phase = "remove"
    BY <2>1 DEF RemoveSome, Then
  <2>4. r = proc[p]
    BY <2>2, <2>3, Alone
  <2>5. /\ r.id \in Filed /\ manifest[r.id] = r.held
        /\ r.held.verified => \E j \in Filed \ {r.id} : manifest[j].verified
    BY <2>2, <2>3, <2>4 DEF State, KnowsSet, Holds
  <2>6. /\ removed' = removed \cup {r.id}
        /\ manifest' = manifest \/ manifest' = [manifest EXCEPT ![r.id] = NoManifest]
    BY <2>1, <2>2, <2>4, <2>5 DEF RemoveSome, Files, State, InPlace, files
  <2>7. i = r.id
    BY <2>6
  <2>8. PICK j \in Filed \ {i} : manifest[j].verified
    BY <2>5, <2>7
  <2>9. manifest'[j] = manifest[j]
    BY <2>2, <2>6, <2>7, <2>8 DEF State, StoreTypes, Filed
  <2>10. j \in removed => j \in cut
    BY <2>2, <2>3, <2>4, <2>8 DEF State, Left
  <2> QED
    BY <2>6, <2>7, <2>8, <2>9, <2>10
<1>3. IInv /\ [Next]_vars => [Survives]_vars
  BY <1>2
<1> QED
  BY InitHolds, <1>1, <1>3, PTL DEF Spec, GoodSurvives

=============================================================================
