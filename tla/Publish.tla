------------------------------ MODULE Publish ------------------------------
(***************************************************************************)
(* One public name: core/publish.py with the DNS and proxy integrations it *)
(* calls (core/cloudflare.py, core/npm.py).                                *)
(*                                                                         *)
(* publish_site writes the DNS records, the proxy host and the             *)
(* certificate one after the other and records each step; unpublish_site   *)
(* removes what is recorded.  Jobs of one name run one at a time.  Every   *)
(* call may be refused or take effect without an answer; the worker may be *)
(* killed; people change the same objects by hand.  A read that is         *)
(* directly followed by its write is one step.                             *)
(***************************************************************************)
EXTENDS Integers, Sequences, FiniteSets

CONSTANTS
    Benches,            \* where the site may live
    Addresses,          \* what its records may point at
    Elsewhere,          \* what people point things at by hand
    None,
    MaxOps, MaxFaults, MaxHands     \* bounds: jobs, failures, changes by people

ASSUME PublishAssumption ==
    /\ MaxOps \in Nat /\ MaxFaults \in Nat /\ MaxHands \in Nat
    /\ Elsewhere \notin Benches \cup Addresses /\ None \notin Addresses \cup Benches \cup {Elsewhere}

VARIABLES
    dns,            \* the live record of each type: [id, to, by]
    host,           \* the live proxy host: [id, to, by, cert]
    cert,           \* the live certificate: [id, by]
    publication,    \* the name's record in publications.json
    op,             \* the job under way
    want,           \* the addresses in the settings; None: no such record
    on,             \* the integrations that are on
    gone,           \* benches where the site no longer exists
    loose,          \* objects that cwcli let go: no answer, killed, left and reported
    fresh,          \* objects that people changed while a job was under way
    made,           \* how many objects there ever were
    ops, faults, hands

world == <<dns, host, cert>>
vars == <<world, publication, op, want, on, gone, loose, fresh, made, ops, faults, hands>>

Types == {"A", "AAAA"}
Wants == [A : Addresses, AAAA : Addresses \cup {None}]

Blank == [dns |-> [t \in Types |-> None], host |-> None, cert |-> None]
Idle == [phase |-> "idle", rec |-> None, want |-> None, on |-> {}, failed |-> FALSE, next |-> "idle",
         seen |-> None, out |-> None, todo |-> <<>>, kept |-> FALSE]

Noted(note, live) == note # None /\ live # None /\ note.owned /\ note.id = live.id

Outcomes == {"ok", "refused", "lost"}
Goes(outcome) == IF outcome = "ok" THEN UNCHANGED faults ELSE faults < MaxFaults /\ faults' = faults + 1
Happens(outcome) == outcome # "refused"
Loses(outcome, id) == loose' = IF outcome = "lost" THEN loose \cup {id} ELSE loose

Steady == UNCHANGED <<want, on, gone, fresh, ops, hands>>
Step(phase) == op.phase = phase /\ Steady /\ UNCHANGED publication
Fail == [op EXCEPT !.failed = TRUE, !.phase = "put"]
Becomes(r) == op' = r

-----------------------------------------------------------------------------
(* publish_site                                                              *)

(* A publication of another bench is repointed by a Move, or taken over by   *)
(* an Admin when its site is gone.                                           *)
StartPublish(bench, move, admin) ==
    /\ op = Idle /\ ops < MaxOps /\ ops' = ops + 1
    /\ on # {} /\ bench \notin gone
    /\ publication # None =>
          publication.owner = bench \/ move \/ (admin /\ publication.owner \in gone)
    /\ op' = [Idle EXCEPT !.phase = IF "dns" \in on THEN "records" ELSE "proxy", !.want = want, !.on = on,
                !.rec = [parts |-> IF publication = None THEN Blank ELSE publication.parts, owner |-> bench]]
    /\ fresh' = {}
    /\ UNCHANGED <<world, publication, want, on, gone, loose, made, faults, hands>>

Wanted == IF op.want["AAAA"] = None THEN <<"A">> ELSE <<"A", "AAAA">>
ListRecords ==
    /\ Step("records")
    /\ \E outcome \in {"ok", "refused"} :
         /\ Goes(outcome)
         /\ Becomes(IF outcome = "ok"
                    THEN [op EXCEPT !.phase = "write", !.seen = dns, !.todo = Wanted, !.out = Blank.dns]
                    ELSE [Fail EXCEPT !.next = "proxy"])
    /\ UNCHANGED <<world, loose, made>>

(* What one wanted record needs, by what the list showed.                    *)
(* Defect: a record that was changed by hand is updated like any other.      *)
DecideAnyMine(t) ==
    LET live == op.seen[t]
        mine == Noted(op.rec.parts.dns[t], live)
    IN CASE live = None -> "create"
         [] mine /\ live.to = op.want[t] -> "keep"
         [] mine /\ live.to # op.want[t] -> "update"
         [] live # None /\ ~mine -> IF live.to = op.want[t] THEN "adopt" ELSE "conflict"

(* Defect: a record of cwcli's is kept whatever it points at.                *)
DecideKeep(t) ==
    LET live == op.seen[t]
        mine == Noted(op.rec.parts.dns[t], live)
    IN CASE live = None -> "create"
         [] mine -> "keep"
         [] live # None /\ ~mine -> IF live.to = op.want[t] THEN "adopt" ELSE "conflict"

Decide(t) ==
    LET live == op.seen[t]
        note == op.rec.parts.dns[t]
        mine == Noted(note, live)
    IN CASE live = None -> "create"
         [] mine /\ live.to = op.want[t] -> "keep"
         [] mine /\ live.to # op.want[t] -> IF live.to = note.to THEN "update" ELSE "conflict"
         [] live # None /\ ~mine -> IF live.to = op.want[t] THEN "adopt" ELSE "conflict"

Record(id, t) == [id |-> id, to |-> op.want[t], by |-> "cwcli"]
Note(id, t, owned) == [id |-> id, to |-> op.want[t], owned |-> owned]

(* What is written is remembered at once, so that a later failure of the     *)
(* step keeps it named.                                                      *)
(* Defect: only the records of a step that succeeds are.                     *)
RememberLate(t, note) == op.rec

Remember(t, note) == [op.rec EXCEPT !.parts.dns[t] = note]

(* A record to keep or adopt needs no call; one that is taken ends the step. *)
Settle ==
    LET t == Head(op.todo)
        note == Note(op.seen[t].id, t, Decide(t) = "keep")
    IN /\ Step("write") /\ op.todo # <<>> /\ Decide(t) \in {"keep", "adopt", "conflict"}
       /\ Becomes(CASE Decide(t) = "keep" -> [op EXCEPT !.todo = Tail(@), !.out[t] = note, !.rec = Remember(t, note)]
                    [] Decide(t) = "adopt" -> [op EXCEPT !.todo = Tail(@), !.out[t] = note]
                    [] OTHER -> [Fail EXCEPT !.next = "proxy"])
       /\ UNCHANGED <<world, loose, made, faults>>

Write ==
    LET t   == Head(op.todo)
        new == Decide(t) = "create"
        id  == IF new THEN made + 1 ELSE op.seen[t].id
        there == IF new THEN dns[t] = None ELSE dns[t] # None /\ dns[t].id = id
    IN /\ Step("write") /\ op.todo # <<>> /\ Decide(t) \in {"create", "update"}
       /\ \E outcome \in IF there THEN Outcomes ELSE {"refused"} :
            /\ IF there THEN Goes(outcome) ELSE UNCHANGED faults
            /\ dns' = IF Happens(outcome) THEN [dns EXCEPT ![t] = Record(id, t)] ELSE dns
            /\ made' = IF new /\ Happens(outcome) THEN made + 1 ELSE made
            /\ Loses(outcome, id)
            /\ Becomes(IF outcome = "ok"
                       THEN [op EXCEPT !.todo = Tail(@), !.out[t] = Note(id, t, TRUE),
                                       !.rec = Remember(t, Note(id, t, TRUE))]
                       ELSE [Fail EXCEPT !.next = "proxy"])
       /\ UNCHANGED <<host, cert>>

(* A record of cwcli's that is no longer wanted goes while it is unchanged,  *)
(* and stays named otherwise.                                                *)
Surplus ==
    LET note == op.rec.parts.dns["AAAA"]
        live == op.seen["AAAA"]
        mine == op.want["AAAA"] = None /\ Noted(note, live)
        doomed == mine /\ live.to = note.to
        out  == [op.out EXCEPT !["AAAA"] = IF mine /\ ~doomed THEN note ELSE @]
        done == [op EXCEPT !.rec.parts.dns = out, !.phase = "put", !.next = "proxy"]
    IN /\ Step("write") /\ op.todo = <<>>
       /\ \E outcome \in IF doomed THEN Outcomes ELSE {"ok"} :
            /\ Goes(outcome)
            /\ dns' = IF doomed /\ Happens(outcome) THEN [dns EXCEPT !["AAAA"] = None] ELSE dns
            /\ Becomes(IF outcome = "ok" THEN done ELSE [Fail EXCEPT !.next = "proxy"])
       /\ UNCHANGED <<host, cert, loose, made>>

(* The host of the name, found by its number or by the name; another user's  *)
(* host or a recorded one that was changed is left.                          *)
Proxy ==
    LET note  == op.rec.parts.host
        mine  == Noted(note, host)
        taken == host # None /\ IF mine THEN host.to \notin {note.to, op.rec.owner} ELSE host.by = "other"
        id    == IF host = None THEN made + 1 ELSE host.id
        same  == host # None /\ host.to = op.rec.owner
        new   == [id |-> id, to |-> op.rec.owner, by |-> "cwcli", cert |-> IF host = None THEN None ELSE host.cert]
    IN /\ Step("proxy")
       /\ \E outcome \in IF taken THEN {"refused"} ELSE IF same THEN {"ok", "refused"} ELSE Outcomes :
            /\ IF taken THEN UNCHANGED faults ELSE Goes(outcome)
            /\ host' = IF Happens(outcome) THEN new ELSE host
            /\ made' = IF host = None /\ Happens(outcome) THEN made + 1 ELSE made
            /\ Loses(outcome, id)
            /\ Becomes(IF outcome = "ok"
                       THEN [op EXCEPT !.rec.parts.host = [id |-> id, to |-> op.rec.owner, owned |-> TRUE],
                                       !.phase = "put", !.next = "certificate"]
                       ELSE [Fail EXCEPT !.next = "certificate"])
       /\ UNCHANGED <<dns, cert>>

(* The recorded certificate, else one for the name, else a new one.          *)
FindCertificate ==
    LET note == op.rec.parts.cert
        kept == cert # None /\ note # None /\ note.id = cert.id
        id   == IF cert = None THEN made + 1 ELSE cert.id
        owned == CASE kept -> note.owned [] cert = None -> TRUE [] OTHER -> cert.by # "other"
    IN /\ Step("certificate")
       /\ \E outcome \in IF cert = None THEN Outcomes ELSE {"ok", "refused"} :
            /\ Goes(outcome)
            /\ cert' = IF cert = None /\ Happens(outcome) THEN [id |-> id, by |-> "cwcli"] ELSE cert
            /\ made' = IF cert = None /\ Happens(outcome) THEN made + 1 ELSE made
            /\ Loses(outcome, id)
            /\ Becomes(IF outcome = "ok"
                       THEN [op EXCEPT !.phase = "attach", !.out = [id |-> id, owned |-> owned]]
                       ELSE [Fail EXCEPT !.next = "verify"])
       /\ UNCHANGED <<dns, host>>

(* The certificate is recorded once the host uses it, so one that could not  *)
(* be attached is named by nothing.                                          *)
(* Defect: a certificate is recorded without whose it is.                    *)
AttachNull ==
    /\ Step("attach") /\ Noted(op.rec.parts.host, host)
    /\ host' = [host EXCEPT !.cert = op.out.id]
    /\ Becomes([op EXCEPT !.rec.parts.cert = [id |-> op.out.id, owned |-> None], !.phase = "put", !.next = "verify"])
    /\ UNCHANGED <<dns, cert, loose, made, faults>>

Attach ==
    LET id    == op.out.id
        there == Noted(op.rec.parts.host, host)
        same  == there /\ host.cert = id
    IN /\ Step("attach")
       /\ \E outcome \in IF ~there THEN {"refused"} ELSE IF same THEN {"ok", "refused"} ELSE Outcomes :
            /\ IF there THEN Goes(outcome) ELSE UNCHANGED faults
            /\ host' = IF there /\ Happens(outcome) THEN [host EXCEPT !.cert = id] ELSE host
            /\ loose' = IF outcome = "ok" \/ (op.rec.parts.cert # None /\ op.rec.parts.cert.id = id)
                        THEN loose ELSE loose \cup {id}
            /\ Becomes(IF outcome = "ok" THEN [op EXCEPT !.rec.parts.cert = op.out, !.phase = "put", !.next = "verify"]
                       ELSE [Fail EXCEPT !.next = "verify"])
       /\ UNCHANGED <<dns, cert, made>>

(* _put after each step; a failed one is the last, and so is the check.      *)
Put ==
    /\ op.phase = "put" /\ Steady
    /\ publication' = op.rec
    /\ op' = IF op.failed THEN Idle
             ELSE [op EXCEPT !.phase = IF op.next = "proxy" /\ "proxy" \notin op.on THEN "verify" ELSE op.next]
    /\ UNCHANGED <<world, loose, made, faults>>

Verify ==
    /\ Step("verify")
    /\ \E outcome \in {"ok", "refused"} : Goes(outcome)
    /\ op' = Idle
    /\ UNCHANGED <<world, loose, made>>

-----------------------------------------------------------------------------
(* unpublish_site: the host, the certificate, the records; what is changed   *)
(* is left and reported, what cannot be removed now stays recorded.          *)

StartUnpublish ==
    /\ op = Idle /\ ops < MaxOps /\ ops' = ops + 1
    /\ publication # None
    /\ op' = [Idle EXCEPT !.phase = "dropHost", !.rec = publication, !.on = on]
    /\ fresh' = {}
    /\ UNCHANGED <<world, publication, want, on, gone, loose, made, faults, hands>>

DropHost ==
    LET note   == op.rec.parts.host
        live   == Noted(note, host)
        doomed == live /\ host.to = note.to
        off    == note # None /\ "proxy" \notin op.on
    IN /\ Step("dropHost")
       /\ \E outcome \in IF off THEN {"refused"} ELSE IF doomed THEN Outcomes ELSE {"ok"} :
            /\ IF off THEN UNCHANGED faults ELSE Goes(outcome)
            /\ host' = IF doomed /\ Happens(outcome) THEN None ELSE host
            /\ Becomes(IF outcome = "ok"
                       THEN [op EXCEPT !.rec.parts.host = None, !.phase = "dropCert", !.kept = live /\ ~doomed]
                       ELSE [op EXCEPT !.failed = TRUE, !.phase = "dropDns"])
       /\ UNCHANGED <<dns, cert, loose, made>>

DropCert ==
    LET note   == op.rec.parts.cert
        live   == note # None /\ note.owned /\ cert # None /\ cert.id = note.id
        used   == op.kept \/ (host # None /\ cert # None /\ host.cert = cert.id)
        doomed == live /\ ~used
        off    == note # None /\ note.owned /\ "proxy" \notin op.on
    IN /\ Step("dropCert")
       /\ \E outcome \in IF off THEN {"refused"} ELSE IF doomed THEN Outcomes ELSE {"ok"} :
            /\ IF off THEN UNCHANGED faults ELSE Goes(outcome)
            /\ cert' = IF doomed /\ Happens(outcome) THEN None ELSE cert
            /\ loose' = IF live /\ used THEN loose \cup {cert.id} ELSE loose
            /\ Becomes([op EXCEPT !.phase = "dropDns", !.failed = outcome # "ok",
                                  !.rec.parts.cert = IF outcome = "ok" /\ note # None /\ note.owned THEN None ELSE @])
       /\ UNCHANGED <<dns, host, made>>

(* Each record that is still as it was written; the first refusal ends the   *)
(* step, and all of them stay recorded.                                      *)
DropDns ==
    LET mine   == {t \in Types : op.rec.parts.dns[t] # None /\ op.rec.parts.dns[t].owned}
        doomed == {t \in mine : Noted(op.rec.parts.dns[t], dns[t]) /\ dns[t].to = op.rec.parts.dns[t].to}
        off    == mine # {} /\ "dns" \notin op.on
    IN /\ Step("dropDns")
       /\ \E cleared \in SUBSET doomed, done \in BOOLEAN :
            /\ IF off THEN cleared = {} /\ ~done ELSE done => cleared = doomed
            /\ IF done \/ off THEN UNCHANGED faults ELSE mine # {} /\ Goes("refused")
            /\ dns' = [t \in Types |-> IF t \in cleared THEN None ELSE dns[t]]
            /\ Becomes([op EXCEPT !.phase = "close", !.failed = @ \/ ~done,
                                  !.rec.parts.dns = IF done /\ mine # {} THEN Blank.dns ELSE @])
       /\ UNCHANGED <<host, cert, loose, made>>

Close ==
    /\ op.phase = "close" /\ Steady
    /\ publication' = IF op.failed THEN op.rec ELSE None
    /\ op' = Idle
    /\ UNCHANGED <<world, loose, made, faults>>

-----------------------------------------------------------------------------
(* The worker may be killed: what it wrote since the last record is loose.   *)
Object(what, id, to) == [what |-> what, id |-> id, to |-> to]
NamedIn(rec) ==
    IF rec = None THEN {}
    ELSE {Object(t, rec.parts.dns[t].id, rec.parts.dns[t].to) :
             t \in {t \in Types : rec.parts.dns[t] # None /\ rec.parts.dns[t].owned}}
         \cup (IF rec.parts.host # None /\ rec.parts.host.owned
               THEN {Object("host", rec.parts.host.id, rec.parts.host.to)} ELSE {})
         \cup (IF rec.parts.cert # None /\ rec.parts.cert.owned THEN {Object("cert", rec.parts.cert.id, None)} ELSE {})
Ours ==
    {Object(t, dns[t].id, dns[t].to) : t \in {t \in Types : dns[t] # None /\ dns[t].by = "cwcli"}}
    \cup (IF host = None \/ host.by # "cwcli" THEN {} ELSE {Object("host", host.id, host.to)})
    \cup (IF cert = None \/ cert.by # "cwcli" THEN {} ELSE {Object("cert", cert.id, None)})

Kill ==
    /\ op # Idle /\ faults < MaxFaults /\ faults' = faults + 1
    /\ loose' = loose \cup {o.id : o \in Ours \ NamedIn(publication)}
    /\ op' = Idle
    /\ UNCHANGED <<world, publication, made>> /\ Steady

(* People: at the same provider, with the same or another user of the proxy. *)
ByHand(what) ==
    /\ hands < MaxHands /\ hands' = hands + 1
    /\ fresh' = IF op = Idle THEN fresh ELSE fresh \cup {what}
    /\ UNCHANGED <<publication, op, want, on, gone, loose, ops, faults>>
Count(live) == IF live = None THEN made + 1 ELSE made

HandRecord(t) ==
    /\ ByHand(t)
    /\ \E new \in {None} \cup {[id |-> IF dns[t] = None THEN made + 1 ELSE dns[t].id, to |-> to, by |-> "hand"] :
                               to \in IF dns[t] = None THEN {Elsewhere} \cup Addresses ELSE {Elsewhere}} :
         new # dns[t] /\ dns' = [dns EXCEPT ![t] = new]
    /\ made' = Count(dns[t]) /\ UNCHANGED <<host, cert>>

HandHost ==
    /\ ByHand("host")
    /\ IF host = None
       THEN \E by \in {"hand", "other"} : host' = [id |-> made + 1, to |-> Elsewhere, by |-> by, cert |-> None]
       ELSE host' \in {None, [host EXCEPT !.to = Elsewhere, !.by = IF @ = "other" THEN @ ELSE "hand"]} /\ host' # host
    /\ made' = Count(host) /\ UNCHANGED <<dns, cert>>

HandCertificate ==
    /\ ByHand("cert")
    /\ IF cert = None THEN \E by \in {"hand", "other"} : cert' = [id |-> made + 1, by |-> by]
       ELSE cert' = None
    /\ made' = Count(cert) /\ UNCHANGED <<dns, host>>

(* Settings, integrations and sites change between jobs.                     *)
Change ==
    /\ op = Idle /\ hands < MaxHands /\ hands' = hands + 1
    /\ \/ want' \in Wants /\ want' # want /\ UNCHANGED <<on, gone>>
       \/ on' \in SUBSET {"dns", "proxy"} /\ on' # on /\ UNCHANGED <<want, gone>>
       \/ \E b \in Benches \ gone : gone' = gone \cup {b} /\ UNCHANGED <<want, on>>
    /\ UNCHANGED <<world, publication, op, loose, fresh, made, ops, faults>>

-----------------------------------------------------------------------------
Init ==
    /\ dns = Blank.dns /\ host = None /\ cert = None
    /\ publication = None /\ op = Idle
    /\ want \in {w \in Wants : w["AAAA"] # None} /\ on = {"dns", "proxy"} /\ gone = {}
    /\ loose = {} /\ fresh = {} /\ made = 0
    /\ ops = 0 /\ faults = 0 /\ hands = 0

PublishSite == (\E b \in Benches, move, admin \in BOOLEAN : StartPublish(b, move, admin))
               \/ ListRecords \/ Settle \/ Write \/ Surplus \/ Proxy \/ FindCertificate \/ Attach \/ Put \/ Verify
UnpublishSite == StartUnpublish \/ DropHost \/ DropCert \/ DropDns \/ Close
People == (\E t \in Types : HandRecord(t)) \/ HandHost \/ HandCertificate \/ Change

Next == PublishSite \/ UnpublishSite \/ Kill \/ People
Spec == Init /\ [][Next]_vars

-----------------------------------------------------------------------------
Spots == Addresses \cup Benches \cup {Elsewhere}
Makers == {"cwcli", "hand", "other"}
Made == 1..made
Notes(ids, to) == [id : ids, to : to, owned : BOOLEAN] \cup {None}
Certificates(ids) == [id : ids, owned : BOOLEAN] \cup {None}
Records(ids) ==
    [owner : Benches,
     parts : [dns : [Types -> Notes(ids, Addresses)], host : Notes(ids, Benches), cert : Certificates(ids)]]
Publications == Records(Made) \cup {None}

ASSUME NoneAssumption ==
    /\ None \notin [id : Nat, to : Spots, owned : BOOLEAN] \cup [id : Nat, owned : BOOLEAN] \cup Records(Nat)
    /\ None \notin [id : Nat, to : Spots, by : Makers] \cup [id : Nat, by : Makers]
    /\ None \notin [id : Nat, to : Spots, by : Makers, cert : Nat \cup {None}]

(* The types of the variables; nothing is recorded that never existed.       *)
TypeOK ==
    /\ dns \in [Types -> [id : Made, to : Spots, by : Makers] \cup {None}]
    /\ host \in [id : Made, to : Spots, by : Makers, cert : Made \cup {None}] \cup {None}
    /\ cert \in [id : Made, by : Makers] \cup {None}
    /\ made \in Nat /\ publication \in Publications /\ op.rec \in Publications
    /\ want \in Wants /\ on \subseteq {"dns", "proxy"} /\ gone \subseteq Benches
    /\ loose \subseteq Made /\ fresh \subseteq Types \cup {"host", "cert"}
    /\ ops \in 0..MaxOps /\ faults \in 0..MaxFaults /\ hands \in 0..MaxHands

(* Everything that cwcli made at the provider or the proxy is recorded as it *)
(* is, through failed steps, retries, moves, changed settings, integrations  *)
(* that go off and partial removals, so that Unpublish finds it.  What was   *)
(* let go: a call without an answer, a killed worker, a certificate that     *)
(* could not be attached or is in use.                                       *)
NamedUntilRemoved ==
    \A o \in Ours :
        \/ o.id \in loose
        \/ o \in NamedIn(publication) \cup NamedIn(op.rec)
        \/ op.phase = "attach" /\ o.what = "cert" /\ op.out.id = o.id

(* A job neither changes nor removes what people made or changed, unless     *)
(* they do so while it runs; of the proxy, what another user made, and hosts *)
(* that it has recorded.                                                     *)
ForeignUntouched ==
    [][hands' = hands =>
        /\ \A t \in Types \ fresh : dns[t] # None /\ dns[t].by = "hand" => dns'[t] = dns[t]
        /\ host # None /\ host' # host /\ "host" \notin fresh =>
              host.by = "cwcli" \/ (host.by = "hand" /\ ~Noted(op.rec.parts.host, host))
        /\ cert # None /\ cert.by = "other" => cert' = cert]_vars

(* When a publish job ends well the name leads to its bench: the records     *)
(* point at the addresses it was asked for, none of cwcli's is left over,    *)
(* and the host forwards to that bench with the certificate, whatever was    *)
(* there before.                                                             *)
DoneTrue ==
    [][op.phase = "verify" /\ op' = Idle /\ faults' = faults =>
        /\ "dns" \in op.on =>
              \A t \in Types \ fresh :
                  IF op.want[t] # None THEN dns[t] # None /\ dns[t].to = op.want[t]
                  ELSE dns[t] = None \/ dns[t].by = "hand" \/ dns[t].id \in loose
        /\ "proxy" \in op.on /\ "host" \notin fresh =>
              /\ host # None /\ host.to = op.rec.owner
              /\ "cert" \in fresh \/ (cert # None /\ host.cert = cert.id)]_vars
=============================================================================
