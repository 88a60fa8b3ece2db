----------------------------- MODULE HostLinks -----------------------------
(***************************************************************************)
(* One remote host on a hub: the store of hosts, the manager that keeps a  *)
(* link's thread for it, the link's probes and its held stream             *)
(* (core/hosts.py), and the page that is told of them over the hub's own   *)
(* stream (commands/serve.py, webui/src/data/fleet.js and hosts.js).       *)
(*                                                                         *)
(* A link's status changes under the link's lock and is told under the     *)
(* manager's: two steps, between which anyone may come.  A stopped link    *)
(* finishes what it does.  A probe's answer and its record by the link's   *)
(* own thread are one step; those of a check are not.                      *)
(***************************************************************************)
EXTENDS Integers, Sequences

CONSTANTS
    None,
    MaxTurns,       \* bound: what people, other processes, the way and the remote host do
    MaxQueue        \* bound: frames that wait for a snapshot

ASSUME HostsAssumption ==
    MaxTurns \in Nat /\ MaxQueue \in Nat \ 0..2

Links == 1..MaxTurns + 1

VARIABLES
    store,          \* hosts.json: the host's record [added, key], or None
    writes,         \* how often it was written: its mtime
    transport,      \* whether the SSH integration is on
    remote,         \* the remote host: [up, key, fact]
    link,           \* the HostLinks there were
    hub,            \* the manager: [link, off, data, mtime]
    sync,           \* a resync under way, with the records it read
    owed,           \* a change of this process whose resync has not begun
    check,          \* an Admin's check or a request on its way
    client,         \* the page's stream: [at, view, queue]
    shown,          \* what the page shows: [state, data, live]
    missed,         \* another process wrote the store while a resync read it
    turns           \* how many of those things happened

manager == <<hub, sync, owed, missed>>
settings == <<store, writes, transport>>
page == <<client, shown>>
vars == <<settings, remote, link, manager, check, page, turns>>

Readable(state) == state = "connected"
Unlinked == [rec |-> None, at |-> "gone", status |-> "connecting", tell |-> FALSE, grace |-> FALSE,
             woken |-> FALSE, stopped |-> FALSE, cut |-> FALSE, heard |-> None, blind |-> FALSE]
NewLink(rec) == [Unlinked EXCEPT !.rec = rec, !.at = "wait"]
NoHost == [state |-> None, data |-> None, live |-> FALSE]
Busy == [at |-> "idle", kind |-> None, link |-> 0, verdict |-> None, tell |-> FALSE]

Turn == turns < MaxTurns /\ turns' = turns + 1

(* What a probe of the host would find: is it up, and has it the pinned key. *)
Answer(rec) ==
    IF ~remote.up THEN "unreachable" ELSE IF rec.key # remote.key THEN "host_key_changed" ELSE "connected"

-----------------------------------------------------------------------------
(* What the page is told                                                     *)

LinkFrame(state) == [kind |-> "link", state |-> state, data |-> None, live |-> FALSE]
DataFrame(data, live) == [kind |-> "data", state |-> None, data |-> data, live |-> live]
Removed == [kind |-> "removed", state |-> None, data |-> None, live |-> FALSE]

Applied(page_, frame) ==
    CASE frame.kind = "link" -> [page_ EXCEPT !.state = frame.state]
      [] frame.kind = "data" -> [page_ EXCEPT !.data = frame.data, !.live = frame.live]
      [] frame.kind = "removed" -> NoHost

(* The page when the frames have come, one after another.                    *)
After(page_, frames) ==
    LET seen[i \in 0..Len(frames)] == IF i = 0 THEN page_ ELSE Applied(seen[i - 1], frames[i])
    IN seen[Len(frames)]

(* Frames wait while the stream's snapshot is taken.                         *)
Room(n) == client.at \in {"asked", "viewed"} => Len(client.queue) + n <= MaxQueue
Publish(frames) ==
    /\ Room(Len(frames))
    /\ shown' = IF client.at = "live" THEN After(shown, frames) ELSE shown
    /\ client' = IF client.at \in {"asked", "viewed"} THEN [client EXCEPT !.queue = @ \o frames] ELSE client

(* Defect: what was last known stays on the page as it was shown.            *)
ToldState(state, data) == <<LinkFrame(state)>>

(* A host's state, and while it is not readable what was last known of it.   *)
Told(state, data) ==
    <<LinkFrame(state)>> \o IF Readable(state) THEN <<>> ELSE <<DataFrame(data, FALSE)>>

Free == sync.at = "idle"        \* the manager's lock

(* Defect: a link that was stopped is heard as well.                         *)
TellAlways(l) == Free /\ Publish(Told(link[l].status, hub.data))

Tell(l) == Free /\ IF hub.link = l THEN Publish(Told(link[l].status, hub.data)) ELSE UNCHANGED page

-----------------------------------------------------------------------------
(* A link's thread                                                           *)

Steps(l, at) == link[l].at = at /\ ~link[l].tell
LinkStep(l, new) ==
    /\ link' = [link EXCEPT ![l] = new]
    /\ UNCHANGED <<settings, remote, manager, check>>
Quietly == UNCHANGED <<page, turns>>

(* _set: the change is told when anything moved.                             *)
Set(k, state) == [k EXCEPT !.status = state, !.tell = k.tell \/ k.status # state]

TellOwn(l) ==
    /\ link[l].tell /\ Tell(l)
    /\ LinkStep(l, [link[l] EXCEPT !.tell = FALSE]) /\ UNCHANGED turns

(* A host whose key changed is not dialled until an Admin asks for it.       *)
Begin(l) ==
    LET k == link[l]
    IN /\ Steps(l, "wait") /\ ~k.stopped
       /\ k.status = "host_key_changed" => k.woken
       /\ LinkStep(l, [(IF k.grace THEN k ELSE Set(k, "connecting")) EXCEPT !.at = "probe", !.woken = FALSE])
       /\ Quietly

Probe(l) ==
    LET verdict == Answer(link[l].rec)
    IN /\ Steps(l, "probe")
       /\ LinkStep(l, [Set(link[l], verdict) EXCEPT !.grace = FALSE, !.blind = FALSE,
                          !.at = IF Readable(verdict) THEN "open" ELSE "wait"])
       /\ Quietly

(* A stream that cannot be opened counts as one that was dropped.            *)
Open(l) ==
    /\ Steps(l, "open")
    /\ LinkStep(l, IF Readable(Answer(link[l].rec))
                   THEN [link[l] EXCEPT !.at = "stream", !.cut = FALSE, !.heard = None]
                   ELSE [link[l] EXCEPT !.at = "wait", !.grace = ~link[l].stopped])
    /\ Quietly

(* The remote's snapshot and deltas: each brings what is true there by then. *)
Hear(l) ==
    /\ Steps(l, "stream") /\ remote.up /\ ~link[l].cut /\ ~link[l].stopped
    /\ link[l].heard # remote.fact
    /\ LinkStep(l, [link[l] EXCEPT !.at = "frame", !.heard = remote.fact])
    /\ Quietly

Frame(l) ==
    LET data == [added |-> link[l].rec.added, fact |-> link[l].heard]
    IN /\ Steps(l, "frame") /\ Free
       /\ link' = [link EXCEPT ![l].at = "stream"]
       /\ IF hub.link = l THEN hub' = [hub EXCEPT !.data = data] /\ Publish(<<DataFrame(data, TRUE)>>)
          ELSE UNCHANGED <<hub, page>>
       /\ UNCHANGED <<settings, remote, sync, owed, missed, check, turns>>

StreamEnds(l) ==
    /\ Steps(l, "stream") /\ (link[l].cut \/ link[l].stopped \/ ~remote.up)
    /\ LinkStep(l, [link[l] EXCEPT !.at = "wait", !.grace = ~link[l].stopped])
    /\ Quietly

Drop(l) ==
    /\ link[l].at = "stream" /\ ~link[l].cut /\ Turn
    /\ LinkStep(l, [link[l] EXCEPT !.cut = TRUE]) /\ UNCHANGED page

Ends(l) == Steps(l, "wait") /\ link[l].stopped /\ LinkStep(l, [link[l] EXCEPT !.at = "gone"]) /\ Quietly

Cancelled(k) == IF k.at \in {"stream", "frame"} THEN [k EXCEPT !.cut = TRUE] ELSE k

(* Defect: the stream is ended, but the thread goes on.                      *)
StreamStopped(k) == Cancelled(k)

Stopped(k) == Cancelled([k EXCEPT !.stopped = TRUE])

-----------------------------------------------------------------------------
(* resync                                                                    *)

(* The thread that looks at the store's time, or the one that changed it.    *)
ReadStore ==
    /\ Free /\ (owed \/ hub.mtime # writes) /\ Room(3)
    /\ sync' = [at |-> "apply", rec |-> store] /\ owed' = FALSE /\ missed' = FALSE
    /\ UNCHANGED <<settings, remote, link, hub, check, page, turns>>

(* What the manager runs the host with, or lists it as without a link.       *)
Known == IF hub.link # 0 THEN link[hub.link].rec ELSE hub.off
Forgets(rec) ==
    IF rec = None THEN Known # None \/ hub.data # None ELSE Known # None /\ Known.added # rec.added

Apply ==
    LET rec   == sync.rec
        keeps == hub.link # 0 /\ rec = Known /\ transport
        dials == ~keeps /\ rec # None /\ transport
        off   == IF rec # None /\ ~transport THEN rec ELSE None
        data  == IF Forgets(rec) THEN None ELSE hub.data
        new   == CHOOSE l \in Links : link[l].rec = None
        ended == [l \in Links |-> IF l = hub.link /\ ~keeps THEN Stopped(link[l]) ELSE link[l]]
    IN /\ sync.at = "apply"
       /\ Publish((IF Forgets(rec) THEN <<Removed>> ELSE <<>>) \o (IF off # None THEN Told("off", data) ELSE <<>>))
       /\ link' = IF dials THEN [ended EXCEPT ![new] = NewLink(rec)] ELSE ended
       /\ hub' = [link |-> IF keeps THEN hub.link ELSE IF dials THEN new ELSE 0,
                  off |-> off, data |-> data, mtime |-> writes]
       /\ sync' = [at |-> "idle", rec |-> None]
       /\ UNCHANGED <<settings, remote, owed, missed, check, turns>>

-----------------------------------------------------------------------------
(* HostManager.check and HostManager.request                                 *)

CheckStep(new) == check' = new /\ UNCHANGED <<settings, remote, manager>>

(* A connected host is probed out of band; another is woken for a probe.     *)
StartCheck ==
    /\ check.at = "idle" /\ Free /\ hub.link # 0 /\ Turn
    /\ LET l == hub.link
       IN IF Readable(link[l].status)
          THEN CheckStep([Busy EXCEPT !.at = "probe", !.kind = "check", !.link = l]) /\ UNCHANGED link
          ELSE /\ link' = [link EXCEPT ![l] = Cancelled([link[l] EXCEPT !.grace = FALSE, !.woken = TRUE])]
               /\ CheckStep(check)
    /\ UNCHANGED page

StartRequest ==
    /\ check.at = "idle" /\ Free /\ hub.link # 0 /\ Readable(link[hub.link].status)
    /\ Turn
    /\ CheckStep([Busy EXCEPT !.at = "probe", !.kind = "request", !.link = hub.link])
    /\ UNCHANGED <<link, page>>

(* Only a refusal of the host's key makes a request change the link.         *)
Answered ==
    LET verdict == Answer(link[check.link].rec)
    IN /\ check.at = "probe"
       /\ CheckStep(IF check.kind = "check" \/ verdict = "host_key_changed"
                    THEN [check EXCEPT !.at = "set", !.verdict = verdict] ELSE Busy)
       /\ UNCHANGED <<link, page, turns>>

Judge ==
    LET k == link[check.link]
    IN /\ check.at = "set"
       /\ link' = [link EXCEPT ![check.link].status = check.verdict]
       /\ CheckStep([check EXCEPT !.at = "tell", !.tell = k.status # check.verdict])
       /\ UNCHANGED <<page, turns>>

TellVerdict ==
    /\ check.at = "tell"
    /\ IF check.tell THEN Tell(check.link) ELSE UNCHANGED page
    /\ CheckStep(IF check.kind = "check" /\ ~Readable(check.verdict) THEN [check EXCEPT !.at = "cancel"] ELSE Busy)
    /\ UNCHANGED <<link, turns>>

(* The stream that the verdict contradicts is ended, if it is there yet.     *)
Cancel ==
    LET k == link[check.link]
    IN /\ check.at = "cancel"
       /\ link' = [link EXCEPT ![check.link] = [Cancelled(k) EXCEPT !.blind = (k.at = "open")]]
       /\ CheckStep(Busy)
       /\ UNCHANGED <<page, turns>>

-----------------------------------------------------------------------------
(* The page's stream                                                         *)

PageStep == UNCHANGED <<settings, remote, link, manager, check>>

Connect ==
    /\ client.at = "live" /\ Turn
    /\ client' = [at |-> "asked", view |-> None, queue |-> <<>>]
    /\ PageStep /\ UNCHANGED shown

(* snapshot: the views first, then each host's last known data.              *)
View ==
    /\ client.at = "asked" /\ Free
    /\ client' = [client EXCEPT !.at = "viewed",
                     !.view = IF hub.link # 0 THEN link[hub.link].status ELSE IF hub.off # None THEN "off" ELSE None]
    /\ PageStep /\ UNCHANGED <<shown, turns>>

Snapshot ==
    /\ client.at = "viewed" /\ Free
    /\ LET first == IF client.view = None THEN NoHost
                    ELSE [state |-> client.view, data |-> hub.data, live |-> Readable(client.view)]
       IN shown' = After(first, client.queue)
    /\ client' = [at |-> "live", view |-> None, queue |-> <<>>]
    /\ PageStep /\ UNCHANGED turns

-----------------------------------------------------------------------------
(* People, other processes and the remote host                               *)

(* A command line in another process does not call this daemon's resync.     *)
WriteStore(rec, here) ==
    /\ Turn
    /\ store' = rec /\ writes' = writes + 1
    /\ owed' = (owed \/ here) /\ missed' = (missed \/ (~here /\ sync.at = "apply"))
    /\ UNCHANGED <<transport, remote, link, hub, sync, check, page>>

AddHost(here) == store = None /\ WriteStore([added |-> writes + 1, key |-> remote.key], here)
RemoveHost(here) == store # None /\ WriteStore(None, here)
RepinHost(here) == store # None /\ store.key # remote.key /\ WriteStore([store EXCEPT !.key = remote.key], here)

Toggle ==
    /\ Turn
    /\ transport' = ~transport /\ owed' = TRUE
    /\ UNCHANGED <<store, writes, remote, link, hub, sync, missed, check, page>>

Happens(new) == Turn /\ remote' = new /\ UNCHANGED <<settings, manager, check, page>>
Changes == Happens([remote EXCEPT !.fact = @ + 1]) /\ UNCHANGED link
GoesOrComes == Happens([remote EXCEPT !.up = ~@]) /\ UNCHANGED link
(* Another machine answers, or the same one set up anew.                     *)
NewKey == Happens([remote EXCEPT !.key = @ + 1]) /\ link' = [l \in Links |-> Cancelled(link[l])]

-----------------------------------------------------------------------------
Init ==
    /\ store = [added |-> 0, key |-> 0] /\ writes = 0 /\ transport = TRUE
    /\ remote = [up |-> TRUE, key |-> 0, fact |-> 0]
    /\ link = [l \in Links |-> IF l = 1 THEN NewLink(store) ELSE Unlinked]
    /\ hub = [link |-> 1, off |-> None, data |-> None, mtime |-> 0]
    /\ sync = [at |-> "idle", rec |-> None] /\ owed = FALSE /\ missed = FALSE
    /\ check = Busy
    /\ client = [at |-> "asked", view |-> None, queue |-> <<>>] /\ shown = NoHost
    /\ turns = 0

Run(l) == TellOwn(l) \/ Begin(l) \/ Probe(l) \/ Open(l) \/ Hear(l) \/ Frame(l) \/ StreamEnds(l) \/ Ends(l)
Resync == ReadStore \/ Apply
Checking == Answered \/ Judge \/ TellVerdict \/ Cancel
Seeing == View \/ Snapshot
Next ==
    \/ \E l \in Links : Run(l) \/ Drop(l)
    \/ Resync \/ Checking \/ StartCheck \/ StartRequest
    \/ Connect \/ Seeing
    \/ \E here \in BOOLEAN : AddHost(here) \/ RemoveHost(here) \/ RepinHost(here)
    \/ Toggle \/ Changes \/ GoesOrComes \/ NewKey

Spec == Init /\ [][Next]_vars

(* The threads of the daemon run on.  People and the remote host may not.    *)
Fairness ==
    /\ \A l \in Links : SF_vars(Run(l))
    /\ WF_vars(Resync) /\ WF_vars(Checking) /\ WF_vars(Seeing)
FairSpec == Spec /\ Fairness

-----------------------------------------------------------------------------
States == {"connecting", "connected", "unreachable", "host_key_changed"}
Records == [added : 0..MaxTurns, key : 0..MaxTurns]
Facts == [added : 0..MaxTurns, fact : 0..MaxTurns]
Points == {"wait", "probe", "open", "stream", "frame", "gone"}

ASSUME NoneAssumption == None \notin Records

(* The types of the variables; one link runs, and it is the manager's.       *)
TypeOK ==
    /\ store \in Records \cup {None} /\ writes \in 0..MaxTurns
    /\ hub.link \in 0..MaxTurns + 1 /\ hub.off \in Records \cup {None}
    /\ hub.data \in Facts \cup {None} /\ hub.mtime \in 0..writes
    /\ hub.link # 0 => hub.off = None /\ link[hub.link].rec # None
    /\ \A l \in Links :
          /\ link[l].rec \in Records \cup {None} /\ link[l].at \in Points /\ link[l].status \in States
          /\ link[l].rec # None => link[l].stopped = (l # hub.link)
    /\ check.at \in {"idle", "probe", "set", "tell", "cancel"}
    /\ client.at \in {"asked", "viewed", "live"} /\ Len(client.queue) <= MaxQueue
    /\ shown.state \in States \cup {"off", None} /\ shown.data \in Facts \cup {None}

(* A page never shows a host that the manager has let go, nor under a host   *)
(* what was known of an earlier one of the same name: what a stopped link    *)
(* still finishes stays unheard (_current_link, resync's added_at).          *)
NoGhost ==
    client.at = "live" =>
        /\ shown.state # None => Known # None
        /\ shown.data # None => Known # None /\ shown.data.added = Known.added

(* When people and the remote host rest, a page whose stream lasts comes to  *)
(* show what is true, and goes on to: no host that left the store; a host    *)
(* that answers with its pinned key as connected, with what is true there    *)
(* now; another one as such, or as being dialled, with nothing shown as live *)
(* but what a stream still brought when the host's key had been refused.     *)
(* Not so after a write that another process made while the store was read,  *)
(* nor after a check whose verdict met a stream that was just being opened.  *)
Truth ==
    IF store = None THEN shown = NoHost
    ELSE IF ~transport THEN shown.state = "off"
    ELSE IF Readable(Answer(store))
    THEN shown = [state |-> "connected", data |-> [added |-> store.added, fact |-> remote.fact], live |-> TRUE]
    ELSE /\ shown.state \in {Answer(store), "connecting", "host_key_changed"}
         /\ shown.live => shown.state = "host_key_changed"
Excused == missed \/ (hub.link # 0 /\ link[hub.link].blind)
PageTrueInTheEnd == <>[](client.at = "live" => Excused \/ Truth)
=============================================================================
