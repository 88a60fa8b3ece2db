------------------------------ MODULE JobFeed ------------------------------
(***************************************************************************)
(* How a job's record reaches a page: watch_loop and its memory (jobs.py), *)
(* the SSE hub and a stream with its snapshot (commands/serve.py), and the *)
(* list of jobs at the stream's other end (webui/src/data/jobs.js).  The   *)
(* record changes as JobRecord allows; the stream keeps its order and may  *)
(* break.                                                                  *)
(***************************************************************************)
EXTENDS JobRecord, Sequences

CONSTANTS
    None,
    MaxWrites,      \* bound: writes of state.json
    MaxBreaks,      \* bound: streams lost
    MaxQueue        \* bound: frames a slow client may have before it

ASSUME FeedAssumption ==
    MaxWrites \in Nat /\ MaxBreaks \in Nat /\ MaxQueue \in Nat

VARIABLES
    seen,           \* watch_loop's memory of the job: [mtime, record]
    watch,          \* watch_loop's turn: [at, mtime, record]
    stream,         \* the client's stream: "off", "on" (subscribed), "live"
    queue,          \* the hub's queue of that client
    listed,         \* the record as the stream last showed it
    breaks

watching == <<seen, watch>>
streaming == <<stream, queue, listed, breaks>>
vars == <<record, watching, streaming>>

Now == [state |-> state.state, updated_at |-> state.updated_at]
Readable == ~Vanished       \* read_job refreshes a vanished job before it answers

-----------------------------------------------------------------------------
(* watch_loop                                                                *)

Known == seen # None /\ seen.mtime = mtime /\ seen.record.state \notin Active

WatchStat ==
    /\ watch.at = "wait" /\ stream # "off" /\ ~Known
    /\ watch' = [watch EXCEPT !.at = "read", !.mtime = mtime]
    /\ UNCHANGED <<record, seen, streaming>>

WatchRead ==
    /\ watch.at = "read" /\ Readable
    /\ watch' = [watch EXCEPT !.at = "tell", !.record = Now]
    /\ UNCHANGED <<record, seen, streaming>>

Tell ==
    /\ Len(queue) < MaxQueue
    /\ queue' = IF stream # "off" /\ (seen = None \/ seen.record # watch.record)
                THEN Append(queue, watch.record) ELSE queue
    /\ watch' = [at |-> "wait", mtime |-> None, record |-> None]
    /\ UNCHANGED <<record, stream, listed, breaks>>

(* Defect: the file's time is taken after its content.                       *)
WatchTellStat ==
    /\ watch.at = "tell"
    /\ seen' = [mtime |-> mtime, record |-> watch.record]
    /\ Tell

WatchTell ==
    /\ watch.at = "tell"
    /\ seen' = [mtime |-> IF watch.record.state \in Active THEN None ELSE watch.mtime, record |-> watch.record]
    /\ Tell

-----------------------------------------------------------------------------
(* The stream                                                                *)

(* The client is subscribed before the snapshot is read.                     *)
Connect ==
    /\ stream = "off"
    /\ stream' = "on"
    /\ UNCHANGED <<record, watching, queue, listed, breaks>>

Snapshot ==
    /\ stream = "on" /\ Readable
    /\ stream' = "live" /\ listed' = Now
    /\ UNCHANGED <<record, watching, queue, breaks>>

Deliver ==
    /\ stream = "live" /\ queue # <<>>
    /\ queue' = Tail(queue) /\ listed' = Head(queue)
    /\ UNCHANGED <<record, watching, stream, breaks>>

Break ==
    /\ stream # "off" /\ breaks < MaxBreaks /\ breaks' = breaks + 1
    /\ stream' = "off" /\ queue' = <<>>
    /\ UNCHANGED <<record, watching, listed>>

(* read_job on behalf of whoever reads.                                      *)
Refresh ==
    /\ watch.at = "read" \/ stream = "on"
    /\ Vanish
    /\ UNCHANGED <<watching, streaming>>

-----------------------------------------------------------------------------
Init ==
    /\ RecordInit
    /\ seen = None /\ watch = [at |-> "wait", mtime |-> None, record |-> None]
    /\ stream = "off" /\ queue = <<>> /\ listed = None /\ breaks = 0

Watcher == WatchStat \/ WatchRead \/ WatchTell
Streaming == Connect \/ Snapshot \/ Deliver \/ Break
Recording == Writing /\ state'.updated_at <= MaxWrites /\ UNCHANGED <<watching, streaming>>

Next == Recording \/ Refresh \/ Watcher \/ Streaming
Spec == Init /\ [][Next]_vars

(* The watcher's thread and the stream's run on.  Nothing is asked of the    *)
(* worker.                                                                   *)
Fairness ==
    /\ WF_vars(Watcher) /\ WF_vars(Refresh) /\ WF_vars(Snapshot) /\ WF_vars(Deliver)
FairSpec == Spec /\ Fairness

-----------------------------------------------------------------------------
(* A client whose stream lasts comes to list the job as it is on disk, for   *)
(* good: no change falls between the snapshot and the frames, or between the *)
(* file's time and its content (watch_loop, _stream_events).                 *)
ListedInTheEnd == <>[](stream = "live" => listed = Now)
=============================================================================
