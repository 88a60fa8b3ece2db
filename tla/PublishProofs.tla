--------------------------- MODULE PublishProofs ---------------------------
(***************************************************************************)
(* What cwcli made for a name stays named until it is removed, what others *)
(* made stays as they left it, and a publish that ends well leads the name *)
(* to its bench: for any number of benches, addresses, jobs, failures and  *)
(* changes by people.                                                      *)
(*                                                                         *)
(* The invariant behind it keeps the books part by part: of each object,   *)
(* whether the record of the job under way (or the publication, when there *)
(* is none) names it as it is, what the job remembers of the objects it    *)
(* has seen, and how far its steps have led.                               *)
(***************************************************************************)
EXTENDS Publish, TLAPS

Phases == {"idle", "records", "write", "put", "proxy", "certificate", "attach", "verify",
           "dropHost", "dropCert", "dropDns", "close"}
Publishing == {"records", "write", "put", "proxy", "certificate", "attach", "verify"}
Todos == {<<>>, <<"A">>, <<"AAAA">>, <<"A", "AAAA">>}

LiveRecords(ids) == [id : ids, to : Spots, by : {"cwcli", "hand"}] \cup {None}
Hosts(ids) == [id : ids, to : Spots, by : Makers, cert : ids \cup {None}] \cup {None}
LiveCertificates(ids) == [id : ids, by : Makers] \cup {None}
Operations(ids) ==
  [phase : Phases, rec : Records(ids) \cup {None}, want : Wants \cup {None}, on : SUBSET {"dns", "proxy"},
   failed : BOOLEAN, next : {"idle", "proxy", "certificate", "verify"},
   seen : [Types -> LiveRecords(ids)] \cup {None},
   out : [Types -> Notes(ids, Addresses)] \cup Certificates(ids), todo : Todos, kept : BOOLEAN]

WorldTypes ==
  /\ made \in Nat
  /\ dns \in [Types -> LiveRecords(Made)] /\ host \in Hosts(Made) /\ cert \in LiveCertificates(Made)
  /\ publication \in Publications /\ op \in Operations(Made)
  /\ loose \subseteq Made

\* What each phase has in hand.
Pending(t) == op.todo = <<"A", "AAAA">> \/ op.todo = <<t>>
Settled(t) == op.want[t] # None /\ ~Pending(t)
Shape ==
  /\ op.phase = "idle" => op = Idle
  /\ op.phase # "idle" => op.rec # None
  /\ op.phase \in Publishing => op.want \in Wants
  /\ op.phase = "write" =>
       /\ op.seen \in [Types -> LiveRecords(Made)] /\ op.out \in [Types -> Notes(Made, Addresses)]
       /\ \A t \in Types : Pending(t) => op.want[t] # None
  /\ op.phase = "attach" => op.out \in Certificates(Made) /\ op.out # None
  /\ op.phase = "put" => op.next # "idle"
  /\ op.phase = "verify" => publication = op.rec

\* The books: whatever cwcli made is named as it is, or was let go.
Parts(rec) == IF rec = None THEN Blank ELSE rec.parts
NamedAs(note, live) ==
  live # None /\ live.by = "cwcli" =>
    live.id \in loose \/ (note # None /\ note.owned /\ note.id = live.id /\ note.to = live.to)
NamedCert(note) ==
  cert # None /\ cert.by = "cwcli" =>
    \/ cert.id \in loose
    \/ note # None /\ note.owned /\ note.id = cert.id
    \/ op.phase = "attach" /\ op.out.id = cert.id
Book(parts) ==
  /\ \A t \in Types : NamedAs(parts.dns[t], dns[t])
  /\ NamedAs(parts.host, host)
  /\ NamedCert(parts.cert)
Booked == Book(Parts(IF op.phase = "idle" THEN publication ELSE op.rec))

\* What people changed of cwcli's leads elsewhere, and other users' is never noted.
Foreign(parts) ==
  /\ \A t \in Types : Noted(parts.dns[t], dns[t]) /\ dns[t].by = "hand" => dns[t].to = Elsewhere
  /\ Noted(parts.host, host) => host.by # "other" /\ (host.by = "hand" => host.to = Elsewhere)
  /\ parts.cert # None /\ parts.cert.owned /\ cert # None /\ parts.cert.id = cert.id => cert.by # "other"

\* While the records are written: those not reached are as listed, unless people changed them.
Listed ==
  op.phase = "write" =>
    \A t \in Types :
      IF Settled(t)
      THEN /\ t \notin fresh => dns[t] # None /\ dns[t].to = op.want[t]
           /\ NamedAs(op.out[t], dns[t])
           /\ op.out[t] # None /\ op.out[t].owned => op.out[t] = op.rec.parts.dns[t]
      ELSE /\ t \notin fresh \/ (dns[t] # None /\ dns[t].by = "cwcli") => dns[t] = op.seen[t]
           /\ op.out[t] = None

\* Between finding a certificate and attaching it.
Found ==
  op.phase = "attach" =>
    /\ cert # None /\ cert.by = "cwcli" => cert.id = op.out.id /\ (op.out.owned \/ cert.id \in loose)
    /\ op.rec.parts.cert # None /\ op.rec.parts.cert.id = op.out.id => op.rec.parts.cert.owned = op.out.owned
    /\ op.out.owned /\ cert # None /\ cert.id = op.out.id => cert.by # "other"
    /\ "cert" \notin fresh => cert # None /\ cert.id = op.out.id

\* How far a publish has led.
DnsDone ==
  "dns" \in op.on =>
    \A t \in Types \ fresh :
      IF op.want[t] # None THEN dns[t] # None /\ dns[t].to = op.want[t]
      ELSE dns[t] = None \/ dns[t].by = "hand" \/ dns[t].id \in loose
HostDone == "host" \in fresh \/ (host # None /\ host.by = "cwcli" /\ host.to = op.rec.owner)
CertDone == {"cert", "host"} \cap fresh # {} \/ (cert # None /\ host # None /\ host.cert = cert.id)
Well == op.phase = "put" /\ ~op.failed
Led ==
  /\ op.phase \in {"proxy", "certificate", "attach", "verify"} \/ Well => DnsDone
  /\ \/ op.phase \in {"certificate", "attach"} \/ (op.phase = "verify" /\ "proxy" \in op.on)
     \/ (Well /\ op.next \in {"certificate", "verify"})
     => HostDone
  /\ (op.phase = "verify" /\ "proxy" \in op.on) \/ (Well /\ op.next = "verify") => CertDone

\* What an unpublish has already struck off.
Struck ==
  LET parts == op.rec.parts
      off   == op.phase \in {"dropDns", "close"} /\ ~op.failed
  IN /\ op.phase = "dropCert" \/ off => parts.host = None
     /\ off => parts.cert = None \/ ~parts.cert.owned
     /\ off /\ op.phase = "close" => \A t \in Types : parts.dns[t] = None \/ ~parts.dns[t].owned

\* The rest of TypeOK.
Bounds ==
  /\ want \in Wants /\ on \subseteq {"dns", "proxy"} /\ gone \subseteq Benches
  /\ fresh \subseteq Types \cup {"host", "cert"}
  /\ ops \in 0..MaxOps /\ faults \in 0..MaxFaults /\ hands \in 0..MaxHands

State ==
  /\ WorldTypes /\ Shape
  /\ Booked /\ Foreign(Parts(publication)) /\ Foreign(Parts(op.rec))
  /\ Listed /\ Found /\ Led /\ Struck

IInv == Bounds /\ State

-----------------------------------------------------------------------------
(* Lemmas about the data.                                                    *)

LEMMA NoNote ==
  ASSUME NEW i \in Nat, NEW owned \in BOOLEAN
  PROVE  [id |-> i, owned |-> owned] # None /\ \A to \in Spots : [id |-> i, to |-> to, owned |-> owned] # None
BY NoneAssumption

LEMMA NoLive ==
  ASSUME NEW i \in Nat, NEW by \in Makers
  PROVE  /\ [id |-> i, by |-> by] # None /\ \A to \in Spots : [id |-> i, to |-> to, by |-> by] # None
         /\ \A to \in Spots, c \in Nat \cup {None} : [id |-> i, to |-> to, by |-> by, cert |-> c] # None
BY NoneAssumption

LEMMA NoRecord == None \notin Records(Nat)
BY NoneAssumption

\* More numbers, more of everything.
LEMMA Wider ==
  ASSUME NEW a, NEW b, a \subseteq b
  PROVE  /\ LiveRecords(a) \subseteq LiveRecords(b) /\ Hosts(a) \subseteq Hosts(b)
         /\ LiveCertificates(a) \subseteq LiveCertificates(b)
         /\ Notes(a, Addresses) \subseteq Notes(b, Addresses) /\ Certificates(a) \subseteq Certificates(b)
         /\ Records(a) \subseteq Records(b) /\ Operations(a) \subseteq Operations(b)
<1>1. /\ LiveRecords(a) \subseteq LiveRecords(b) /\ Hosts(a) \subseteq Hosts(b)
      /\ LiveCertificates(a) \subseteq LiveCertificates(b)
  BY DEF LiveRecords, Hosts, LiveCertificates
<1>2. \A to : Notes(a, to) \subseteq Notes(b, to)
  BY DEF Notes
<1>3. Certificates(a) \subseteq Certificates(b)
  BY DEF Certificates
<1>4. Records(a) \subseteq Records(b)
  BY <1>2, <1>3 DEF Records
<1>5. [Types -> LiveRecords(a)] \subseteq [Types -> LiveRecords(b)]
  BY <1>1
<1>6. [Types -> Notes(a, Addresses)] \subseteq [Types -> Notes(b, Addresses)]
  BY <1>2
<1>7. Operations(a) \subseteq Operations(b)
  BY <1>3, <1>4, <1>5, <1>6 DEF Operations
<1> QED
  BY <1>1, <1>2, <1>3, <1>4, <1>7

LEMMA Recorded ==
  ASSUME NEW ids, ids \subseteq Nat, NEW r \in Records(ids)
  PROVE  r # None
<1>1. Records(ids) \subseteq Records(Nat)
  BY Wider
<1> QED
  BY <1>1, NoRecord

LEMMA Grows ==
  ASSUME WorldTypes, made' \in {made, made + 1}
  PROVE  Made \subseteq Made' /\ made' \in Nat /\ made + 1 \notin Made /\ Made \subseteq Nat
BY DEF WorldTypes, Made

LEMMA BlankFacts ==
  /\ \A t \in Types : Blank.dns[t] = None
  /\ Blank.host = None /\ Blank.cert = None
  /\ \A ids : /\ Blank.dns \in [Types -> Notes(ids, Addresses)]
              /\ Blank \in [dns : [Types -> Notes(ids, Addresses)], host : Notes(ids, Benches), cert : Certificates(ids)]
BY DEF Blank, Notes, Certificates

LEMMA IdleFacts ==
  /\ Idle.phase = "idle" /\ Idle.rec = None
  /\ \A ids : Idle \in Operations(ids)
BY DEF Idle, Operations, Phases, Certificates, Todos

\* What _dns_decide says of a record, by what the list showed.
LEMMA Decisions ==
  ASSUME NEW t \in Types
  PROVE  LET live == op.seen[t]
             note == op.rec.parts.dns[t]
         IN  /\ Decide(t) \in {"create", "keep", "update", "adopt", "conflict"}
             /\ Decide(t) = "create" => live = None
             /\ Decide(t) = "keep" => live # None /\ Noted(note, live) /\ live.to = op.want[t]
             /\ Decide(t) = "update" => live # None /\ Noted(note, live) /\ live.to = note.to
             /\ Decide(t) = "adopt" => live # None /\ ~Noted(note, live) /\ live.to = op.want[t]
<1> DEFINE live == op.seen[t]
           note == op.rec.parts.dns[t]
<1>1. CASE live = None
  BY <1>1 DEF Decide, Noted
<1>2. CASE live # None /\ Noted(note, live)
  BY <1>2 DEF Decide
<1>3. CASE live # None /\ ~Noted(note, live)
  BY <1>3 DEF Decide
<1> QED
  BY <1>1, <1>2, <1>3

-----------------------------------------------------------------------------
(* What every step leaves within bounds.                                     *)

LEMMA BoundSteps ==
  ASSUME Bounds, [Next]_vars
  PROVE  Bounds'
<1> USE PublishAssumption DEF Bounds
<1>1. \A o : Goes(o) => faults' \in 0..MaxFaults
  BY DEF Goes
<1>2. ASSUME NEW b \in Benches, NEW m \in BOOLEAN, NEW a \in BOOLEAN, StartPublish(b, m, a)
      PROVE  Bounds'
  BY <1>2 DEF StartPublish
<1>3. CASE StartUnpublish
  BY <1>3 DEF StartUnpublish
<1>4. ASSUME Steady, faults' \in 0..MaxFaults
      PROVE  Bounds'
  BY <1>4 DEF Steady
<1>5. CASE ListRecords \/ Settle \/ Put \/ Close \/ Verify
  BY <1>1, <1>4, <1>5, Zenon DEF ListRecords, Settle, Put, Close, Verify, Step
<1>6. CASE Write \/ Surplus \/ Proxy
  BY <1>1, <1>4, <1>6, Zenon DEF Write, Surplus, Proxy, Step
<1>7. CASE FindCertificate \/ Attach
  BY <1>1, <1>4, <1>7, Zenon DEF FindCertificate, Attach, Step
<1>8. CASE DropHost \/ DropCert \/ DropDns
  BY <1>1, <1>4, <1>8, Zenon DEF DropHost, DropCert, DropDns, Step
<1>9. CASE Kill
  BY <1>4, <1>9 DEF Kill
<1>10. ASSUME NEW what \in Types \cup {"host", "cert"}, ByHand(what)
       PROVE  Bounds'
  BY <1>10 DEF ByHand
<1>11. CASE (\E t \in Types : HandRecord(t)) \/ HandHost \/ HandCertificate
  BY <1>10, <1>11 DEF HandRecord, HandHost, HandCertificate
<1>12. CASE Change
  <2>1. hands' \in 0..MaxHands /\ UNCHANGED <<fresh, ops, faults>>
    BY <1>12 DEF Change
  <2>2. want' \in Wants /\ on' \subseteq {"dns", "proxy"} /\ gone' \subseteq Benches
    BY <1>12, Zenon DEF Change
  <2> QED
    BY <2>1, <2>2
<1>13. CASE UNCHANGED vars
  BY <1>13 DEF vars
<1> QED
  BY <1>2, <1>3, <1>5, <1>6, <1>7, <1>8, <1>9, <1>11, <1>12, <1>13 DEF Next, PublishSite, UnpublishSite, People

-----------------------------------------------------------------------------
(* Publishing.                                                               *)

\* A step that fails ends in the last record of its publish, which the books must fit.
LEMMA Fails ==
  ASSUME State, op.phase \in Publishing, NEW n \in {"proxy", "certificate", "verify"},
         op' = [Fail EXCEPT !.next = n], publication' = publication,
         WorldTypes' \/ (op' \in Operations(Made) /\ UNCHANGED <<world, made>> /\ loose' \subseteq Made),
         Book(op.rec.parts)', Foreign(Parts(publication))', Foreign(Parts(op.rec))'
  PROVE  State'
<1>1. op \in Operations(Made) /\ op.rec # None /\ op.phase # "idle"
  BY DEF State, WorldTypes, Shape, Publishing
<1>2. op'.phase = "put" /\ op'.failed /\ op'.rec = op.rec /\ op'.next = n /\ op'.want = op.want
  BY <1>1 DEF Fail, Operations
<1>3. WorldTypes'
  BY DEF State, WorldTypes, world, Made, Publications
<1>4. Shape'
  BY <1>1, <1>2 DEF State, Shape, Publishing
<1>5. Booked'
  BY <1>1, <1>2 DEF Booked, Parts
<1> QED
  BY <1>2, <1>3, <1>4, <1>5 DEF State, Listed, Found, Led, Struck, Well

LEMMA FailType ==
  ASSUME NEW ids, op \in Operations(ids), NEW n \in {"proxy", "certificate", "verify"}
  PROVE  [Fail EXCEPT !.next = n] \in Operations(ids)
BY DEF Fail, Operations, Phases

\* One that was refused has changed nothing but that.
LEMMA Refused ==
  ASSUME State, op.phase \in Publishing, op.phase # "attach", NEW n \in {"proxy", "certificate", "verify"},
         op' = [Fail EXCEPT !.next = n], UNCHANGED <<world, publication, loose, made>>
  PROVE  State'
<1>1. op \in Operations(Made) /\ op.rec # None /\ op.phase # "idle" /\ loose \subseteq Made
  BY DEF State, WorldTypes, Shape, Publishing
<1>2. op' \in Operations(Made)
  BY <1>1, FailType
<1>3. op'.phase = "put" /\ op'.rec = op.rec
  BY <1>1 DEF Fail, Operations
<1>4. Book(op.rec.parts)'
  BY <1>1, <1>3 DEF State, Booked, Parts, Book, NamedAs, NamedCert, world
<1>5. Foreign(Parts(publication))' /\ Foreign(Parts(op.rec))'
  BY <1>3 DEF State, Foreign, Noted, Parts, world
<1> QED
  BY <1>1, <1>2, <1>4, <1>5, Fails

LEMMA StartPublishKeeps ==
  ASSUME IInv, NEW b \in Benches, NEW move \in BOOLEAN, NEW admin \in BOOLEAN, StartPublish(b, move, admin)
  PROVE  State'
<1>1. op = Idle /\ UNCHANGED <<dns, host, cert, publication, loose, made>> /\ fresh' = {}
  BY DEF StartPublish, world
<1>2. want \in Wants /\ on \subseteq {"dns", "proxy"} /\ on # {} /\ State
  BY DEF IInv, Bounds, StartPublish
<1>3. PICK r : r = [parts |-> Parts(publication), owner |-> b]
  OBVIOUS
<1>4. PICK w \in Wants, o \in SUBSET {"dns", "proxy"} : w = want /\ o = on
  BY <1>2
<1>5. PICK f \in {"records", "proxy"} : f = IF "dns" \in o THEN "records" ELSE "proxy"
  OBVIOUS
<1> DEFINE q == [Idle EXCEPT !.phase = f, !.want = w, !.on = o, !.rec = r]
<1>6. op' = q
  BY <1>3, <1>4, <1>5 DEF StartPublish, Parts
<1>7. r \in Records(Made) /\ r # None /\ r.parts = Parts(publication)
  <2>1. Parts(publication) \in [dns : [Types -> Notes(Made, Addresses)], host : Notes(Made, Benches),
                                cert : Certificates(Made)]
    BY <1>2, BlankFacts DEF Parts, State, WorldTypes, Publications, Records
  <2>2. r \in Records(Made)
    BY <1>3, <2>1 DEF Records
  <2>3. Records(Made) \subseteq Records(Nat)
    <3>1. Made \subseteq Nat
      BY <1>2 DEF State, WorldTypes, Made
    <3> QED
      BY <3>1, Wider
  <2> QED
    BY <1>3, <2>2, <2>3, NoRecord
<1>8. q.phase = f /\ q.want = w /\ q.on = o /\ q.rec = r /\ q \in Operations(Made)
  BY <1>7, IdleFacts, ZenonT(60) DEF Operations, Phases
<1> HIDE DEF q
<1>9. WorldTypes'
  BY <1>1, <1>2, <1>6, <1>8 DEF State, WorldTypes, Made, Publications
<1>10. Shape'
  BY <1>6, <1>7, <1>8 DEF Shape
<1>11. Booked' /\ Foreign(Parts(publication))' /\ Foreign(Parts(op.rec))'
  BY <1>1, <1>2, <1>6, <1>7, <1>8, IdleFacts DEF State, Booked, Book, NamedAs, NamedCert, Foreign, Noted, Parts
<1>12. Listed' /\ Found' /\ Led' /\ Struck'
  BY <1>5, <1>6, <1>8 DEF Listed, Found, Led, Well, Struck, DnsDone
<1> QED
  BY <1>9, <1>10, <1>11, <1>12 DEF State

LEMMA ListRecordsKeeps ==
  ASSUME IInv, ListRecords
  PROVE  State'
<1>1. op.phase = "records" /\ UNCHANGED <<dns, host, cert, publication, loose, made, fresh>>
  BY DEF ListRecords, Step, Steady, world
<1>2. State /\ op \in Operations(Made) /\ op.want \in Wants /\ op.rec # None
  BY <1>1 DEF IInv, State, WorldTypes, Shape, Publishing
<1>3. CASE op' = [Fail EXCEPT !.next = "proxy"]
  BY <1>1, <1>2, <1>3, Refused DEF Publishing, world
<1>4. CASE op' = [op EXCEPT !.phase = "write", !.seen = dns, !.todo = Wanted, !.out = Blank.dns]
  <2>1. PICK w \in Todos : w = Wanted /\ ((w = <<"A">> /\ op.want["AAAA"] = None) \/ (w = <<"A", "AAAA">> /\ op.want["AAAA"] # None))
    BY DEF Wanted, Todos
  <2>2. PICK d \in [Types -> LiveRecords(Made)] : d = dns
    BY <1>2 DEF State, WorldTypes
  <2>3. PICK e \in [Types -> Notes(Made, Addresses)] : e = Blank.dns
    BY BlankFacts
  <2> DEFINE q == [op EXCEPT !.phase = "write", !.seen = d, !.todo = w, !.out = e]
  <2>4. op' = q
    BY <1>4, <2>1, <2>2, <2>3
  <2>5. /\ q.phase = "write" /\ q.seen = d /\ q.todo = w /\ q.out = e /\ q.rec = op.rec /\ q.want = op.want
        /\ q \in Operations(Made)
    BY <1>2 DEF Operations, Phases
  <2> HIDE DEF q
  <2>6. WorldTypes'
    BY <1>1, <1>2, <2>4, <2>5 DEF State, WorldTypes, Made, Publications
  <2>7. op.want["A"] # None
    BY <1>2, PublishAssumption DEF Wants
  <2>8. \A t \in Types : Pending(t)' => op'.want[t] # None
    BY <2>1, <2>4, <2>5, <2>7 DEF Pending, Types
  <2>9. Shape'
    BY <1>1, <1>2, <2>4, <2>5, <2>8 DEF Shape, Made
  <2>10. Booked' /\ Foreign(Parts(publication))' /\ Foreign(Parts(op.rec))'
    BY <1>1, <1>2, <2>4, <2>5 DEF State, Booked, Book, NamedAs, NamedCert, Foreign, Noted, Parts
  <2>11. \A t \in Types : ~Settled(t)'
    BY <2>1, <2>4, <2>5 DEF Settled, Pending, Types
  <2>12. Listed'
    BY <1>1, <2>2, <2>3, <2>4, <2>5, <2>11, BlankFacts DEF Listed
  <2> QED
    BY <2>4, <2>5, <2>6, <2>9, <2>10, <2>12 DEF State, Found, Led, Well, Struck
<1> QED
  BY <1>3, <1>4 DEF ListRecords, Becomes

LEMMA TodoFacts ==
  ASSUME op.todo \in Todos, op.todo # <<>>
  PROVE  /\ Head(op.todo) \in Types /\ Tail(op.todo) \in Todos /\ Pending(Head(op.todo))
         /\ \A u \in Types : (Tail(op.todo) = <<"A", "AAAA">> \/ Tail(op.todo) = <<u>>)
                                <=> Pending(u) /\ u # Head(op.todo)
<1>1. CASE op.todo = <<"A">>
  BY <1>1 DEF Todos, Pending, Types
<1>2. CASE op.todo = <<"AAAA">>
  BY <1>2 DEF Todos, Pending, Types
<1>3. CASE op.todo = <<"A", "AAAA">>
  <2>1. Head(op.todo) = "A" /\ Tail(op.todo) = <<"AAAA">>
    BY <1>3
  <2>2. Tail(op.todo) # <<"A", "AAAA">> /\ op.todo # <<"A">> /\ op.todo # <<"AAAA">>
    BY <1>3, <2>1
  <2> QED
    BY <1>3, <2>1, <2>2 DEF Todos, Pending, Types
<1> QED
  BY <1>1, <1>2, <1>3 DEF Todos

\* The record of a type is settled: kept, adopted or written.
Advanced(t, n, r) == [op EXCEPT !.todo = Tail(@), !.out[t] = n, !.rec = r]

LEMMA Advances ==
  ASSUME NEW ids, op \in Operations(ids), op.todo # <<>>, op.out \in [Types -> Notes(ids, Addresses)],
         NEW t \in Types, NEW n \in Notes(ids, Addresses), NEW r \in Records(ids), op' = Advanced(t, n, r)
  PROVE  /\ op' \in Operations(ids) /\ op'.phase = op.phase /\ op'.todo = Tail(op.todo) /\ op'.rec = r
         /\ op'.out \in [Types -> Notes(ids, Addresses)]
         /\ op'.out[t] = n /\ \A u \in Types \ {t} : op'.out[u] = op.out[u]
         /\ op'.want = op.want /\ op'.seen = op.seen
<1>1. PICK rest \in Todos : rest = Tail(op.todo)
  BY TodoFacts DEF Operations
<1>2. PICK o \in [Types -> Notes(ids, Addresses)] : o = [op.out EXCEPT ![t] = n]
  OBVIOUS
<1>3. o[t] = n /\ \A u \in Types \ {t} : o[u] = op.out[u]
  BY <1>2
<1>4. op' = [op EXCEPT !.todo = rest, !.out = o, !.rec = r]
  BY <1>1, <1>2 DEF Operations, Advanced
<1>5. op' = [phase |-> op.phase, rec |-> r, want |-> op.want, on |-> op.on, failed |-> op.failed, next |-> op.next,
             seen |-> op.seen, out |-> o, todo |-> rest, kept |-> op.kept]
  BY <1>4 DEF Operations
<1>6. op' \in Operations(ids)
  BY <1>5 DEF Operations
<1> QED
  BY <1>1, <1>3, <1>5, <1>6

LEMMA Settles ==
  ASSUME State, op.phase = "write", op.todo # <<>>, NEW t \in Types, t = Head(op.todo),
         UNCHANGED <<host, cert, publication, fresh>>, made' \in {made, made + 1},
         dns' \in [Types -> LiveRecords(Made')], \A u \in Types \ {t} : dns'[u] = dns[u],
         loose \subseteq loose', loose' \subseteq Made',
         NEW n \in Notes(Made', Addresses), n # None, NEW r \in Records(Made'), r # None,
         r.parts.host = op.rec.parts.host, r.parts.cert = op.rec.parts.cert,
         \A u \in Types \ {t} : r.parts.dns[u] = op.rec.parts.dns[u], n.owned => r.parts.dns[t] = n,
         op' = Advanced(t, n, r),
         t \notin fresh => dns'[t] # None /\ dns'[t].to = op.want[t],
         NamedAs(n, dns[t])', NamedAs(r.parts.dns[t], dns[t])',
         Noted(r.parts.dns[t], dns'[t]) /\ dns'[t].by = "hand" => dns'[t].to = Elsewhere,
         Noted(Parts(publication).dns[t], dns'[t]) /\ dns'[t].by = "hand" => dns'[t].to = Elsewhere
  PROVE  State'
<1> DEFINE rest == Tail(op.todo)
<1>1. /\ op \in Operations(Made) /\ op.want \in Wants /\ op.rec # None /\ WorldTypes
      /\ op.out \in [Types -> Notes(Made, Addresses)] /\ op.seen \in [Types -> LiveRecords(Made)]
  BY DEF State, WorldTypes, Shape, Publishing
<1>2. Made \subseteq Made' /\ made' \in Nat
  BY <1>1, Grows, SMTT(60)
<1>3. op \in Operations(Made') /\ op.out \in [Types -> Notes(Made', Addresses)] /\ op.seen \in [Types -> LiveRecords(Made')]
  <2>1. LiveRecords(Made) \subseteq LiveRecords(Made') /\ Notes(Made, Addresses) \subseteq Notes(Made', Addresses)
    BY <1>2, Wider, SMTT(60)
  <2>2. op \in Operations(Made')
    BY <1>1, <1>2, Wider, SMTT(60)
  <2> QED
    BY <1>1, <2>1, <2>2, SMTT(60)
<1>4. /\ rest \in Todos /\ Pending(t)
      /\ \A u \in Types : (rest = <<"A", "AAAA">> \/ rest = <<u>>) <=> Pending(u) /\ u # t
  BY <1>1, TodoFacts, SMTT(60) DEF Operations
<1> HIDE DEF rest
<1>5. /\ op' \in Operations(Made') /\ op'.phase = op.phase /\ op'.todo = Tail(op.todo) /\ op'.rec = r
      /\ op'.out \in [Types -> Notes(Made', Addresses)]
      /\ op'.out[t] = n /\ \A u \in Types \ {t} : op'.out[u] = op.out[u]
      /\ op'.want = op.want /\ op'.seen = op.seen
  BY <1>3, Advances, SMTT(60)
<1>6. op'.phase = "write" /\ op'.todo = rest /\ op'.rec # None
  BY <1>5, SMTT(60) DEF rest
<1>7. WorldTypes'
  <2>1. host \in Hosts(Made') /\ cert \in LiveCertificates(Made') /\ publication \in Records(Made') \cup {None}
    BY <1>1, <1>2, Wider, SMTT(60) DEF WorldTypes, Publications
  <2> QED
    BY <1>1, <1>2, <1>5, <1>6, <2>1, SMTT(60) DEF WorldTypes, Publications
<1>8. \A u \in Types : Pending(u)' <=> Pending(u) /\ u # t
  BY <1>4, <1>5, <1>6 DEF Pending
<1>9. Shape'
  BY <1>1, <1>3, <1>5, <1>6, <1>8 DEF State, Shape
<1>10. Booked'
  <2>1. Book(op.rec.parts)
    BY <1>1, SMTT(60) DEF State, Booked, Parts
  <2>2. ASSUME NEW u \in Types PROVE NamedAs(r.parts.dns[u], dns[u])'
    <3>1. CASE u = t
      BY <3>1, SMTT(60)
    <3>2. CASE u # t
      <4>1. NamedAs(r.parts.dns[u], dns[u])
        BY <2>1, <3>2, SMTT(60) DEF Book
      <4> QED
        BY <3>2, <4>1, SMTT(60) DEF NamedAs
    <3> QED
      BY <3>1, <3>2, SMTT(60)
  <2>3. NamedAs(r.parts.host, host)'
    <3>1. NamedAs(r.parts.host, host)
      BY <2>1, SMTT(60) DEF Book
    <3> QED
      BY <3>1, SMTT(60) DEF NamedAs
  <2>4. NamedCert(r.parts.cert)'
    <3>1. NamedCert(r.parts.cert)
      BY <2>1 DEF Book
    <3> QED
      BY <1>6, <3>1, SMTT(60) DEF NamedCert
  <2>5. Book(r.parts)'
    BY <2>2, <2>3, <2>4, Zenon DEF Book
  <2>6. Parts(op.rec)' = r.parts
    BY <1>5, <1>6, ZenonT(60) DEF Parts
  <2> QED
    BY <1>6, <2>5, <2>6, SMTT(60) DEF Booked
<1>11. Foreign(Parts(publication))'
  BY SMTT(60) DEF State, Foreign, Noted, Parts
<1>12. Foreign(Parts(op.rec))'
  <2>1. Foreign(op.rec.parts) /\ Parts(op.rec)' = r.parts
    BY <1>1, <1>5, <1>6, SMTT(60) DEF State, Parts
  <2>2. ASSUME NEW u \in Types, Noted(r.parts.dns[u], dns'[u]), dns'[u].by = "hand" PROVE dns'[u].to = Elsewhere
    <3>1. CASE u = t
      BY <2>2, <3>1
    <3>2. CASE u # t
      <4>1. r.parts.dns[u] = op.rec.parts.dns[u] /\ dns'[u] = dns[u]
        BY <3>2, SMTT(60)
      <4> QED
        BY <2>1, <2>2, <4>1, Zenon DEF Foreign
    <3> QED
      BY <3>1, <3>2, SMTT(60)
  <2>3. Foreign(r.parts)'
    BY <2>1, <2>2, SMTT(60) DEF Foreign, Noted
  <2> QED
    BY <2>1, <2>3, SMTT(60)
<1>13. op.want[t] # None
  BY <1>4, SMTT(60) DEF State, Shape
<1>14. \A u \in Types : u # t => (Settled(u)' <=> Settled(u))
  BY <1>5, <1>6, <1>8, SMTT(60) DEF Settled
<1>15. Settled(t)'
  BY <1>5, <1>6, <1>8, <1>13, SMTT(40) DEF Settled
<1>16. Listed'
  <2> SUFFICES ASSUME NEW u \in Types
               PROVE  (IF Settled(u)
                       THEN /\ u \notin fresh => dns[u] # None /\ dns[u].to = op.want[u]
                            /\ NamedAs(op.out[u], dns[u])
                            /\ op.out[u] # None /\ op.out[u].owned => op.out[u] = op.rec.parts.dns[u]
                       ELSE /\ u \notin fresh \/ (dns[u] # None /\ dns[u].by = "cwcli") => dns[u] = op.seen[u]
                            /\ op.out[u] = None)'
    BY SMTT(60) DEF Listed
  <2>1. CASE u = t
    BY <1>5, <1>15, <2>1, SMTT(60) DEF NamedAs
  <2>2. CASE u # t
    BY <1>5, <1>14, <2>2 DEF State, Listed, NamedAs
  <2> QED
    BY <2>1, <2>2, SMTT(40)
<1> QED
  BY <1>5, <1>6, <1>7, <1>9, <1>10, <1>11, <1>12, <1>16, ZenonT(30) DEF State, Found, Led, Well, Struck

LEMMA SettleKeeps ==
  ASSUME IInv, Settle
  PROVE  State'
<1>1. /\ op.phase = "write" /\ UNCHANGED <<dns, host, cert, publication, loose, made, fresh>> /\ op.todo # <<>>
      /\ State
  BY DEF Settle, Step, Steady, world, IInv
<1>2. /\ op \in Operations(Made) /\ op.want \in Wants /\ op.rec \in Records(Made) /\ op.rec # None /\ WorldTypes
      /\ op.seen \in [Types -> LiveRecords(Made)]
  BY <1>1 DEF State, WorldTypes, Shape, Publishing, Operations
<1>3. PICK t \in Types : t = Head(op.todo) /\ Pending(t)
  BY <1>1, <1>2, TodoFacts DEF Operations
<1>4. op.want[t] \in Addresses /\ ~Settled(t)
  BY <1>1, <1>2, <1>3 DEF State, Shape, Wants, Types, Settled
<1>5. PICK live : live = op.seen[t] /\ (live = None \/ live \in LiveRecords(Made))
  BY <1>2
<1>6. PICK keep \in BOOLEAN : keep <=> Decide(t) = "keep"
  OBVIOUS
<1>7. PICK n : n = [id |-> live.id, to |-> op.want[t], owned |-> keep]
  OBVIOUS
<1>8. Note(op.seen[t].id, t, Decide(t) = "keep") = n
  BY <1>5, <1>6, <1>7, Zenon DEF Note
<1>9. Made \subseteq Nat /\ Made' = Made /\ loose \subseteq Made /\ dns \in [Types -> LiveRecords(Made)]
  BY <1>1, <1>2 DEF WorldTypes, Made
<1>10. /\ t \notin fresh \/ (dns[t] # None /\ dns[t].by = "cwcli") => dns[t] = live
       /\ NamedAs(op.rec.parts.dns[t], dns[t])
       /\ Noted(op.rec.parts.dns[t], dns[t]) /\ dns[t].by = "hand" => dns[t].to = Elsewhere
       /\ Noted(Parts(publication).dns[t], dns[t]) /\ dns[t].by = "hand" => dns[t].to = Elsewhere
  BY <1>1, <1>2, <1>4, <1>5 DEF State, Listed, Booked, Book, Parts, Foreign
<1>11. ASSUME live # None, live.to = op.want[t]
       PROVE  /\ n \in Notes(Made, Addresses) /\ n # None /\ n.id = live.id /\ n.to = live.to /\ n.owned = keep
              /\ live.id \in Made
  <2>1. live.id \in Made /\ live.id \in Nat /\ op.want[t] \in Spots
    BY <1>4, <1>5, <1>9, <1>11, ZenonT(60) DEF LiveRecords, Spots
  <2>2. n # None
    BY <1>6, <1>7, <2>1, NoNote
  <2> QED
    BY <1>4, <1>7, <1>11, <2>1, <2>2 DEF Notes
<1>12. CASE Decide(t) = "keep"
  <2>1. live # None /\ Noted(op.rec.parts.dns[t], live) /\ live.to = op.want[t] /\ keep = TRUE
    BY <1>5, <1>6, <1>12, Decisions
  <2>2. PICK r : r = [op.rec EXCEPT !.parts.dns[t] = n]
    OBVIOUS
  <2> HIDE DEF Noted
  <2>8. n \in Notes(Made, Addresses)
    BY <1>11, <2>1
  <2>3. /\ r \in Records(Made) /\ r.parts.host = op.rec.parts.host /\ r.parts.cert = op.rec.parts.cert
        /\ r.parts.dns[t] = n /\ \A u \in Types \ {t} : r.parts.dns[u] = op.rec.parts.dns[u]
    <3>1. op.rec \in Records(Made)
      BY <1>2
    <3> QED
      BY <2>2, <2>8, <3>1, SMTT(60) DEF Records
  <2>4. op' = Advanced(t, n, r)
    BY <1>3, <1>8, <1>12, <2>2 DEF Settle, Becomes, Remember, Advanced
  <2>5. r # None
    BY <1>9, <2>3, Recorded
  <2>6. NamedAs(n, dns[t])' /\ (t \notin fresh => dns'[t] # None /\ dns'[t].to = op.want[t])
    BY <1>1, <1>10, <1>11, <2>1, ZenonT(60) DEF NamedAs
  <2>7. Noted(n, dns[t]) /\ dns[t].by = "hand" => dns[t].to = Elsewhere
    BY <1>10, <1>11, <2>1 DEF Noted
  <2> QED
    BY <1>1, <1>3, <1>9, <1>10, <1>11, <2>1, <2>3, <2>4, <2>5, <2>6, <2>7, Settles, ZenonT(60)
<1>13. CASE Decide(t) = "adopt"
  <2>1. live # None /\ ~Noted(op.rec.parts.dns[t], live) /\ live.to = op.want[t] /\ keep = FALSE
    BY <1>5, <1>6, <1>13, Decisions
  <2>2. op' = [op EXCEPT !.todo = Tail(@), !.out[t] = n]
    BY <1>3, <1>8, <1>13 DEF Settle, Becomes
  <2>6. PICK r : r = op.rec
    OBVIOUS
  <2>3. op' = Advanced(t, n, r)
    BY <1>2, <2>2, <2>6 DEF Operations, Advanced
  <2>4. NamedAs(n, dns[t])' /\ (t \notin fresh => dns'[t] # None /\ dns'[t].to = op.want[t])
    BY <1>1, <1>10, <2>1 DEF NamedAs, Noted
  <2>5. NamedAs(r.parts.dns[t], dns[t])'
    BY <1>1, <1>10, <2>6 DEF NamedAs
  <2> QED
    BY <1>1, <1>2, <1>3, <1>9, <1>10, <1>11, <2>1, <2>3, <2>4, <2>5, <2>6, Settles, ZenonT(60)
<1>14. CASE Decide(t) = "conflict"
  <2>1. op' = [Fail EXCEPT !.next = "proxy"]
    BY <1>3, <1>14, SMTT(60) DEF Settle, Becomes
  <2> QED
    BY <1>1, <2>1, Refused DEF Publishing, world
<1> QED
  BY <1>3, <1>12, <1>13, <1>14 DEF Settle

LEMMA WriteKeeps ==
  ASSUME IInv, Write
  PROVE  State'
<1>1. op.phase = "write" /\ UNCHANGED <<host, cert, publication, fresh>> /\ op.todo # <<>> /\ State
  BY DEF Write, Step, Steady, IInv
<1>2. /\ op \in Operations(Made) /\ op.want \in Wants /\ op.rec \in Records(Made) /\ op.rec # None /\ WorldTypes
      /\ op.seen \in [Types -> LiveRecords(Made)]
  BY <1>1 DEF State, WorldTypes, Shape, Publishing, Operations
<1>3. PICK t \in Types : t = Head(op.todo) /\ Pending(t)
  BY <1>1, <1>2, TodoFacts DEF Operations
<1>4. op.want[t] \in Addresses
  BY <1>1, <1>2, <1>3 DEF State, Shape, Wants, Types
<1>5. PICK id : id = IF Decide(t) = "create" THEN made + 1 ELSE op.seen[t].id
  OBVIOUS
<1>6. CASE /\ UNCHANGED <<dns, made, loose>> /\ op' = [Fail EXCEPT !.next = "proxy"]
  BY <1>1, <1>6, Refused DEF Publishing, world
<1>7. ASSUME NEW outcome \in {"ok", "lost"}, dns' = [dns EXCEPT ![t] = Record(id, t)], Loses(outcome, id),
             made' = IF Decide(t) = "create" THEN made + 1 ELSE made,
             outcome = "ok" => op' = [op EXCEPT !.todo = Tail(@), !.out[t] = Note(id, t, TRUE),
                                                !.rec = Remember(t, Note(id, t, TRUE))],
             outcome = "lost" => op' = [Fail EXCEPT !.next = "proxy"]
      PROVE  State'
  <2>1. Made \subseteq Made' /\ made' \in Nat /\ made' \in {made, made + 1} /\ id \in Made' /\ id \in Nat
    <3>1. CASE Decide(t) = "create"
      BY <1>2, <1>5, <1>7, <3>1 DEF WorldTypes, Made
    <3>2. CASE Decide(t) # "create"
      <4>1. Decide(t) = "update"
        BY <1>3, <3>2 DEF Write
      <4>2. op.seen[t] # None
        BY <4>1, Decisions
      <4> QED
        BY <1>2, <1>5, <1>7, <3>2, <4>2, SMTT(60) DEF WorldTypes, Made, LiveRecords
    <3> QED
      BY <3>1, <3>2
  <2>2. PICK rec : rec = Record(id, t)
    OBVIOUS
  <2>7. /\ rec \in LiveRecords(Made') /\ rec # None /\ rec.by = "cwcli"
        /\ rec.id = id /\ rec.to = op.want[t]
    <3>1. op.want[t] \in Spots /\ "cwcli" \in Makers
      BY <1>4 DEF Spots, Makers
    <3>2. rec # None
      BY <2>1, <2>2, <3>1, NoLive DEF Record
    <3>3. rec = [id |-> id, to |-> op.want[t], by |-> "cwcli"]
      BY <2>2 DEF Record
    <3> QED
      BY <2>1, <3>1, <3>2, <3>3 DEF LiveRecords
  <2>3. /\ dns'[t] = rec /\ \A u \in Types \ {t} : dns'[u] = dns[u]
        /\ dns' \in [Types -> LiveRecords(Made')]
    <3>1. dns \in [Types -> LiveRecords(Made')]
      <4>1. LiveRecords(Made) \subseteq LiveRecords(Made')
        BY <2>1, Wider
      <4> QED
        BY <1>2, <4>1 DEF WorldTypes
    <3> QED
      BY <1>7, <2>2, <2>7, <3>1
  <2>4. loose \subseteq loose' /\ loose' \subseteq Made' /\ (outcome = "lost" => id \in loose')
    BY <1>2, <1>7, <2>1 DEF Loses, WorldTypes
  <2>5. CASE outcome = "ok"
    <3>1. PICK n : n = Note(id, t, TRUE)
      OBVIOUS
    <3>8. n \in Notes(Made', Addresses) /\ n # None /\ n.id = id /\ n.to = op.want[t] /\ n.owned
      <4>1. op.want[t] \in Spots
        BY <1>4 DEF Spots
      <4>2. n = [id |-> id, to |-> op.want[t], owned |-> TRUE]
        BY <3>1 DEF Note
      <4>3. n # None
        BY <2>1, <4>1, <4>2, NoNote, TRUE \in BOOLEAN
      <4> QED
        BY <1>4, <2>1, <4>2, <4>3 DEF Notes
    <3>2. PICK r : r = [op.rec EXCEPT !.parts.dns[t] = n]
      OBVIOUS
    <3>3. op.rec \in Records(Made')
      BY <1>2, <2>1, Wider
    <3>4. /\ r \in Records(Made') /\ r.parts.host = op.rec.parts.host /\ r.parts.cert = op.rec.parts.cert
          /\ r.parts.dns[t] = n /\ \A u \in Types \ {t} : r.parts.dns[u] = op.rec.parts.dns[u]
      BY <3>2, <3>3, <3>8 DEF Records
    <3>5. op' = Advanced(t, n, r)
      BY <1>7, <2>5, <3>1, <3>2 DEF Remember, Advanced
    <3>6. r # None
      <4>1. Made' \subseteq Nat
        BY <2>1 DEF Made
      <4> QED
        BY <3>4, <4>1, Recorded
    <3>7. NamedAs(n, dns[t])'
      BY <2>2, <2>3, <2>7, <3>8 DEF NamedAs
    <3> QED
      BY <1>1, <1>3, <2>1, <2>3, <2>4, <2>7, <3>4, <3>5, <3>6, <3>7, <3>8, Settles
  <2>6. CASE outcome = "lost"
    <3>1. op' \in Operations(Made')
      <4>1. op \in Operations(Made')
        BY <1>2, <2>1, Wider
      <4> QED
        BY <1>7, <2>6, <4>1, FailType
    <3>2. op'.phase = "put" /\ op'.rec = op.rec
      BY <1>2, <1>7, <2>6, ZenonT(60) DEF Fail, Operations
    <3>3. WorldTypes'
      <4>1. host \in Hosts(Made') /\ cert \in LiveCertificates(Made') /\ publication \in Records(Made') \cup {None}
        BY <1>2, <2>1, Wider DEF WorldTypes, Publications
      <4> QED
        BY <1>1, <2>1, <2>3, <2>4, <3>1, <4>1 DEF WorldTypes, Publications
    <3>4. Book(op.rec.parts)
      BY <1>1, <1>2 DEF State, Booked, Parts
    <3>5. Book(op.rec.parts)'
      <4>1. ASSUME NEW u \in Types PROVE NamedAs(op.rec.parts.dns[u], dns[u])'
        <5>1. CASE u = t
          BY <2>3, <2>4, <2>6, <2>7, <3>2, <5>1 DEF NamedAs
        <5>2. CASE u # t
          BY <2>3, <2>4, <3>2, <3>4, <5>2 DEF Book, NamedAs
        <5> QED
          BY <5>1, <5>2
      <4>2. NamedAs(op.rec.parts.host, host)' /\ NamedCert(op.rec.parts.cert)'
        BY <1>1, <2>4, <3>2, <3>4, SMTT(60) DEF Book, NamedAs, NamedCert
      <4> QED
        BY <4>1, <4>2 DEF Book
    <3>6. Foreign(Parts(publication))' /\ Foreign(Parts(op.rec))'
      BY <1>1, <2>3, <2>7, <3>2, SMTT(60) DEF State, Foreign, Noted, Parts
    <3> QED
      BY <1>1, <1>7, <2>6, <3>3, <3>5, <3>6, Fails DEF Publishing
  <2> QED
    BY <2>5, <2>6
<1> QED
  BY <1>3, <1>5, <1>6, <1>7, SMTT(60) DEF Write, Becomes, Happens, Loses, Outcomes

LEMMA SurplusKeeps ==
  ASSUME IInv, Surplus
  PROVE  State'
<1>1. op.phase = "write" /\ UNCHANGED <<host, cert, publication, fresh, loose, made>> /\ op.todo = <<>> /\ State
  BY DEF Surplus, Step, Steady, IInv
<1>2. /\ op \in Operations(Made) /\ op.want \in Wants /\ op.rec \in Records(Made) /\ op.rec # None /\ WorldTypes
      /\ op.seen \in [Types -> LiveRecords(Made)] /\ op.out \in [Types -> Notes(Made, Addresses)]
      /\ dns \in [Types -> LiveRecords(Made)] /\ Made' = Made /\ Made \subseteq Nat
  BY <1>1 DEF State, WorldTypes, Shape, Publishing, Operations, Made
<1>3. \A t \in Types : Settled(t) <=> op.want[t] # None
  BY <1>1 DEF Settled, Pending
<1>4. op.want["A"] # None
  BY <1>2, PublishAssumption DEF Wants
<1>5. PICK note, live : note = op.rec.parts.dns["AAAA"] /\ live = op.seen["AAAA"]
  OBVIOUS
<1>6. PICK mine \in BOOLEAN : mine <=> op.want["AAAA"] = None /\ Noted(note, live)
  <2>1. CASE op.want["AAAA"] = None /\ Noted(note, live)
    BY <2>1
  <2>2. CASE ~(op.want["AAAA"] = None /\ Noted(note, live))
    BY <2>2
  <2> QED
    BY <2>1, <2>2
<1>7. PICK doomed \in BOOLEAN : doomed <=> mine /\ live.to = note.to
  <2>1. CASE mine /\ live.to = note.to
    BY <2>1
  <2>2. CASE ~(mine /\ live.to = note.to)
    BY <2>2
  <2> QED
    BY <2>1, <2>2
<1>8. PICK out : out = [op.out EXCEPT !["AAAA"] = IF mine /\ ~doomed THEN note ELSE @]
  OBVIOUS
<1> DEFINE done == [op EXCEPT !.rec.parts.dns = out, !.phase = "put", !.next = "proxy"]
<1>9. \/ UNCHANGED dns /\ op' = [Fail EXCEPT !.next = "proxy"]
      \/ doomed /\ dns' = [dns EXCEPT !["AAAA"] = None] /\ op' = [Fail EXCEPT !.next = "proxy"]
      \/ dns' = (IF doomed THEN [dns EXCEPT !["AAAA"] = None] ELSE dns) /\ op' = done
  <2>1. PICK outcome \in IF doomed THEN Outcomes ELSE {"ok"} :
          /\ dns' = IF doomed /\ Happens(outcome) THEN [dns EXCEPT !["AAAA"] = None] ELSE dns
          /\ op' = IF outcome = "ok" THEN done ELSE [Fail EXCEPT !.next = "proxy"]
    <3>1. doomed <=> op.want["AAAA"] = None /\ Noted(note, live) /\ live.to = note.to
      BY <1>6, <1>7
    <3>2. mine /\ ~doomed <=> (op.want["AAAA"] = None /\ Noted(note, live)) /\ ~(op.want["AAAA"] = None /\ Noted(note, live) /\ live.to = note.to)
      BY <1>6, <3>1
    <3> HIDE DEF Noted
    <3> QED
      BY <1>5, <1>8, <3>1, <3>2 DEF Surplus, Becomes
  <2> QED
    BY <2>1 DEF Happens, Outcomes
<1> HIDE DEF done
<1>10. /\ dns["AAAA"] # None /\ dns["AAAA"].by = "cwcli" /\ op.want["AAAA"] = None => dns["AAAA"] = live
       /\ "AAAA" \notin fresh /\ op.want["AAAA"] = None => dns["AAAA"] = live
       /\ op.want["AAAA"] = None => op.out["AAAA"] = None
       /\ NamedAs(note, dns["AAAA"])
       /\ Noted(note, dns["AAAA"]) /\ dns["AAAA"].by = "hand" => dns["AAAA"].to = Elsewhere
  BY <1>1, <1>2, <1>3, <1>5 DEF State, Listed, Booked, Book, Parts, Foreign, Types
<1>11. \A t \in Types : op.want[t] # None =>
          /\ t \notin fresh => dns[t] # None /\ dns[t].to = op.want[t]
          /\ NamedAs(op.out[t], dns[t])
          /\ op.out[t] # None /\ op.out[t].owned => op.out[t] = op.rec.parts.dns[t]
  BY <1>1, <1>3 DEF State, Listed
<1>12. Book(op.rec.parts) /\ Foreign(op.rec.parts) /\ Foreign(Parts(publication))
  BY <1>1, <1>2 DEF State, Booked, Parts
<1>13. ASSUME doomed, dns' = [dns EXCEPT !["AAAA"] = None]
       PROVE  dns'["AAAA"] = None /\ dns'["A"] = dns["A"] /\ dns' \in [Types -> LiveRecords(Made)]
  BY <1>2, <1>13, SMTT(60) DEF LiveRecords, Types
<1>14. Foreign(Parts(publication))'
  BY <1>1, <1>9, <1>12, <1>13 DEF Foreign, Noted, Parts, Types
<1>15. CASE UNCHANGED dns /\ op' = [Fail EXCEPT !.next = "proxy"]
  BY <1>1, <1>15, Refused DEF Publishing, world
<1>16. CASE doomed /\ dns' = [dns EXCEPT !["AAAA"] = None] /\ op' = [Fail EXCEPT !.next = "proxy"]
  <2>1. op' \in Operations(Made) /\ op'.phase = "put" /\ op'.rec = op.rec
    <3>1. op' \in Operations(Made)
      BY <1>2, <1>16, FailType
    <3> QED
      BY <1>2, <1>16, <3>1 DEF Fail, Operations
  <2>2. WorldTypes'
    BY <1>1, <1>2, <1>13, <1>16, <2>1, SMTT(60) DEF WorldTypes, Publications
  <2>3. Book(op.rec.parts)'
    BY <1>1, <1>12, <1>13, <1>16, <2>1, SMTT(60) DEF Book, NamedAs, NamedCert, Types
  <2>4. Foreign(Parts(op.rec))'
    <3>1. Parts(op.rec)' = op.rec.parts
      BY <1>2, <2>1 DEF Parts
    <3> QED
      BY <1>1, <1>12, <1>13, <1>16, <3>1 DEF Foreign, Noted, Types
  <2> QED
    BY <1>1, <1>14, <1>16, <2>2, <2>3, <2>4, Fails DEF Publishing
<1>17. CASE dns' = (IF doomed THEN [dns EXCEPT !["AAAA"] = None] ELSE dns) /\ op' = done
  <2>1. /\ out \in [Types -> Notes(Made, Addresses)] /\ out["A"] = op.out["A"]
        /\ out["AAAA"] = IF mine /\ ~doomed THEN note ELSE op.out["AAAA"]
    <3>1. op.rec.parts.dns \in [Types -> Notes(Made, Addresses)]
      BY <1>2 DEF Records
    <3> QED
      BY <1>2, <1>5, <1>8, <3>1 DEF Types
  <2>2. PICK r : r = [op.rec EXCEPT !.parts.dns = out]
    OBVIOUS
  <2>3. op' = [op EXCEPT !.rec = r, !.phase = "put", !.next = "proxy"]
    BY <1>2, <1>17, <2>2 DEF done, Operations
  <2>4. /\ r \in Records(Made) /\ r.owner = op.rec.owner /\ r.parts.dns = out
        /\ r.parts.host = op.rec.parts.host /\ r.parts.cert = op.rec.parts.cert
    <3>1. op.rec \in Records(Made)
      BY <1>2
    <3> QED
      BY <2>1, <2>2, <3>1 DEF Records
  <2>5. /\ op'.rec = r /\ op'.phase = "put" /\ op'.next = "proxy" /\ op'.want = op.want /\ op'.on = op.on
        /\ op' \in Operations(Made)
    BY <1>2, <2>3, <2>4 DEF Operations, Phases
  <2>6. r # None
    BY <1>2, <2>4, Recorded
  <2>7. dns' \in [Types -> LiveRecords(Made)] /\ dns'["A"] = dns["A"]
        /\ dns'["AAAA"] = IF doomed THEN None ELSE dns["AAAA"]
    BY <1>2, <1>13, <1>17
  <2>8. WorldTypes'
    BY <1>1, <1>2, <2>5, <2>7 DEF WorldTypes, Publications
  <2>9. Shape'
    BY <1>2, <2>5, <2>6 DEF Shape
  <2>10. NamedAs(out["AAAA"], dns["AAAA"])'
    <3>1. CASE op.want["AAAA"] # None
      BY <1>1, <1>6, <1>7, <1>11, <2>1, <2>7, <3>1 DEF NamedAs, Types
    <3>2. CASE op.want["AAAA"] = None /\ mine /\ ~doomed
      BY <1>1, <1>10, <2>1, <2>7, <3>2 DEF NamedAs
    <3>3. CASE doomed
      BY <2>7, <3>3 DEF NamedAs
    <3>4. CASE op.want["AAAA"] = None /\ ~mine
      BY <1>1, <1>6, <1>7, <1>10, <2>7, <3>4 DEF NamedAs, Noted
    <3> QED
      BY <1>6, <1>7, <3>1, <3>2, <3>3, <3>4
  <2>11. NamedAs(out["A"], dns["A"])'
    BY <1>1, <1>4, <1>11, <2>1, <2>7 DEF NamedAs, Types
  <2>12. Booked'
    <3>1. NamedAs(r.parts.host, host)' /\ NamedCert(r.parts.cert)'
      BY <1>1, <1>12, <2>4, <2>5 DEF Book, NamedAs, NamedCert
    <3>2. Book(r.parts)'
      BY <2>4, <2>10, <2>11, <3>1 DEF Book, Types
    <3> QED
      BY <2>5, <2>6, <3>2 DEF Booked, Parts
  <2>13. Foreign(Parts(op.rec))'
    <3>1. Noted(out["A"], dns["A"]) /\ dns["A"].by = "hand" => dns["A"].to = Elsewhere
      BY <1>4, <1>11, <1>12, <2>1, SMTT(60) DEF Foreign, Noted, Types
    <3>2. Noted(out["AAAA"], dns["AAAA"]) /\ dns["AAAA"].by = "hand" => dns["AAAA"].to = Elsewhere
      BY <1>5, <1>6, <1>10, <1>11, <1>12, <2>1, SMTT(60) DEF Foreign, Noted, Types
    <3>3. Foreign(r.parts)'
      BY <1>1, <1>12, <2>4, <2>7, <3>1, <3>2 DEF Foreign, Noted, Types
    <3> QED
      BY <2>5, <2>6, <3>3, SMTT(60) DEF Parts
  <2>14. DnsDone'
    <3>1. "A" \notin fresh => dns'["A"] # None /\ dns'["A"].to = op.want["A"]
      BY <1>4, <1>11, <2>7 DEF Types
    <3>2. ASSUME "AAAA" \notin fresh, op.want["AAAA"] # None
          PROVE  dns'["AAAA"] # None /\ dns'["AAAA"].to = op.want["AAAA"]
      BY <1>6, <1>7, <1>11, <2>7, <3>2 DEF Types
    <3>3. ASSUME "AAAA" \notin fresh, op.want["AAAA"] = None
          PROVE  dns'["AAAA"] = None \/ dns'["AAAA"].by = "hand" \/ dns'["AAAA"].id \in loose
      <4>1. CASE doomed
        BY <2>7, <4>1
      <4>2. CASE ~doomed /\ dns["AAAA"] # None /\ dns["AAAA"].by = "cwcli"
        BY <1>6, <1>7, <1>10, <2>7, <3>3, <4>2 DEF NamedAs, Noted
      <4>3. dns["AAAA"] = None \/ dns["AAAA"].by \in {"cwcli", "hand"}
        BY <1>2 DEF LiveRecords, Types
      <4> QED
        BY <2>7, <4>1, <4>2, <4>3
    <3> QED
      BY <1>1, <1>4, <2>5, <3>1, <3>2, <3>3 DEF DnsDone, Types
  <2> QED
    BY <1>14, <2>5, <2>8, <2>9, <2>12, <2>13, <2>14 DEF State, Listed, Found, Led, Well, Struck
<1> QED
  BY <1>9, <1>15, <1>16, <1>17
LEMMA ProxyKeeps ==
  ASSUME IInv, Proxy
  PROVE  State'
<1>1. op.phase = "proxy" /\ UNCHANGED <<dns, cert, publication, fresh>> /\ State
  BY DEF Proxy, Step, Steady, IInv
<1>2. /\ op \in Operations(Made) /\ op.want \in Wants /\ op.rec \in Records(Made) /\ op.rec # None /\ WorldTypes
      /\ op.rec.owner \in Benches /\ host \in Hosts(Made) /\ Made \subseteq Nat
  BY <1>1 DEF State, WorldTypes, Shape, Publishing, Operations, Records, Made
<1>3. Book(op.rec.parts) /\ Foreign(op.rec.parts) /\ Foreign(Parts(publication)) /\ DnsDone
  BY <1>1, <1>2 DEF State, Booked, Parts, Led
<1>4. PICK id : id = IF host = None THEN made + 1 ELSE host.id
  OBVIOUS
<1>5. PICK new : new = [id |-> id, to |-> op.rec.owner, by |-> "cwcli", cert |-> IF host = None THEN None ELSE host.cert]
  OBVIOUS
<1>6. CASE UNCHANGED <<host, made, loose>> /\ op' = [Fail EXCEPT !.next = "certificate"]
  BY <1>1, <1>6, Refused DEF Publishing, world
<1>7. ASSUME host' = new, made' = (IF host = None THEN made + 1 ELSE made), loose \subseteq loose',
             loose' \subseteq loose \cup {id}
      PROVE  /\ Made \subseteq Made' /\ id \in Made' /\ made' \in Nat /\ Made' \subseteq Nat /\ loose' \subseteq Made'
             /\ new \in Hosts(Made') /\ new # None /\ new.id = id /\ new.by = "cwcli" /\ new.to = op.rec.owner
             /\ Foreign(Parts(publication))'
             /\ cert \in LiveCertificates(Made') /\ dns \in [Types -> LiveRecords(Made')] /\ op \in Operations(Made')
             /\ publication \in Records(Made') \cup {None} /\ op.rec \in Records(Made')
  <2>1. made \in Nat /\ made' \in {made, made + 1}
    BY <1>2, <1>7 DEF WorldTypes
  <2>2. Made \subseteq Made' /\ made' \in Nat /\ Made' \subseteq Nat
    BY <2>1 DEF Made
  <2>3. id \in Made'
    BY <1>2, <1>4, <1>7, <2>1, <2>2 DEF Made, Hosts
  <2>4. loose' \subseteq Made'
    BY <1>2, <1>7, <2>2, <2>3 DEF WorldTypes
  <2>5. PICK c \in Made' \cup {None} : c = IF host = None THEN None ELSE host.cert
    BY <1>2, <2>2 DEF Hosts
  <2>6. op.rec.owner \in Spots /\ "cwcli" \in Makers
    BY <1>2 DEF Spots, Makers
  <2>7. new = [id |-> id, to |-> op.rec.owner, by |-> "cwcli", cert |-> c]
    BY <1>5, <2>5
  <2>8. new # None
    <3>1. id \in Nat /\ c \in Nat \cup {None}
      BY <2>2, <2>3
    <3> QED
      BY <2>6, <2>7, <3>1, NoLive
  <2>9. new \in Hosts(Made') /\ new.id = id /\ new.by = "cwcli" /\ new.to = op.rec.owner
    BY <2>3, <2>6, <2>7 DEF Hosts
  <2>10. Foreign(Parts(publication))'
    BY <1>1, <1>3, <1>7, <2>9 DEF Foreign, Noted, Parts
  <2>11. LiveRecords(Made) \subseteq LiveRecords(Made')
    BY <2>2, Wider
  <2>12. /\ cert \in LiveCertificates(Made') /\ dns \in [Types -> LiveRecords(Made')] /\ op \in Operations(Made')
         /\ publication \in Records(Made') \cup {None} /\ op.rec \in Records(Made')
    BY <1>2, <2>2, <2>11, Wider DEF WorldTypes, Publications
  <2> QED
    BY <2>2, <2>3, <2>4, <2>8, <2>9, <2>10, <2>12
<1>8. ASSUME host' = new, made' = (IF host = None THEN made + 1 ELSE made), loose' = loose,
             op' = [op EXCEPT !.rec.parts.host = [id |-> id, to |-> op.rec.owner, owned |-> TRUE],
                              !.phase = "put", !.next = "certificate"]
      PROVE  State'
  <2>1. PICK n : n = [id |-> id, to |-> op.rec.owner, owned |-> TRUE]
    OBVIOUS
  <2>2. n \in Notes(Made', Benches) /\ n # None /\ n.id = id /\ n.to = op.rec.owner /\ n.owned
    <3>1. op.rec.owner \in Spots /\ id \in Nat
      BY <1>2, <1>7, <1>8 DEF Spots
    <3>2. n # None
      BY <2>1, <3>1, NoNote, TRUE \in BOOLEAN
    <3> QED
      BY <1>2, <1>7, <1>8, <2>1, <3>2 DEF Notes
  <2>3. PICK r : r = [op.rec EXCEPT !.parts.host = n]
    OBVIOUS
  <2>4. /\ r \in Records(Made') /\ r.owner = op.rec.owner /\ r.parts.host = n
        /\ r.parts.dns = op.rec.parts.dns /\ r.parts.cert = op.rec.parts.cert
    <3>1. op.rec \in Records(Made')
      BY <1>7, <1>8
    <3>2. n \in Notes(Made', Benches)
      BY <2>2
    <3> QED
      BY <2>3, <3>1, <3>2 DEF Records
  <2>5. op' = [op EXCEPT !.rec = r, !.phase = "put", !.next = "certificate"]
    BY <1>2, <1>8, <2>1, <2>3 DEF Operations
  <2>6. /\ op'.rec = r /\ op'.phase = "put" /\ op'.next = "certificate" /\ op'.want = op.want /\ op'.on = op.on
        /\ op' \in Operations(Made')
    <3>1. op \in Operations(Made') /\ r \in Records(Made')
      BY <1>7, <1>8, <2>4
    <3> QED
      BY <2>5, <3>1 DEF Operations, Phases
  <2>7. r # None
    BY <1>7, <1>8, <2>4, Recorded
  <2>8. WorldTypes'
    BY <1>1, <1>7, <1>8, <2>6 DEF WorldTypes, Publications
  <2>9. Shape'
    BY <1>2, <2>6, <2>7 DEF Shape
  <2>10. Book(r.parts)'
    <3>1. \A t \in Types : NamedAs(r.parts.dns[t], dns[t])'
      BY <1>1, <1>3, <1>8, <2>4 DEF Book, NamedAs
    <3>2. NamedAs(r.parts.host, host)'
      BY <1>7, <1>8, <2>2, <2>4 DEF NamedAs
    <3>3. NamedCert(r.parts.cert)'
      BY <1>1, <1>3, <1>8, <2>4, <2>6 DEF Book, NamedCert
    <3> QED
      BY <3>1, <3>2, <3>3, SMTT(60) DEF Book
  <2>11. Booked'
    BY <2>6, <2>7, <2>10, SMTT(60) DEF Booked, Parts
  <2>12. Foreign(r.parts)'
    BY <1>1, <1>3, <1>7, <1>8, <2>4 DEF Foreign, Noted
  <2>13. Foreign(Parts(op.rec))'
    BY <2>6, <2>7, <2>12 DEF Parts
  <2>14. DnsDone' /\ HostDone'
    BY <1>1, <1>3, <1>7, <1>8, <2>4, <2>6, ZenonT(60) DEF DnsDone, HostDone
  <2> QED
    BY <1>7, <1>8, <2>6, <2>8, <2>9, <2>11, <2>13, <2>14 DEF State, Listed, Found, Led, Well, Struck
<1>9. ASSUME host' = new, made' = (IF host = None THEN made + 1 ELSE made), loose' = loose \cup {id},
             op' = [Fail EXCEPT !.next = "certificate"]
      PROVE  State'
  <2>1. op' \in Operations(Made') /\ op'.phase = "put" /\ op'.rec = op.rec
    <3>1. op' \in Operations(Made')
      BY <1>7, <1>9, FailType
    <3> QED
      BY <1>2, <1>9, <3>1 DEF Fail, Operations
  <2>2. WorldTypes'
    BY <1>1, <1>7, <1>9, <2>1 DEF WorldTypes, Publications
  <2>3. Book(op.rec.parts)'
    <3>1. \A t \in Types : NamedAs(op.rec.parts.dns[t], dns[t])'
      BY <1>1, <1>3, <1>9, <2>1 DEF Book, NamedAs
    <3>2. NamedAs(op.rec.parts.host, host)'
      BY <1>7, <1>9, <2>1 DEF NamedAs
    <3>3. NamedCert(op.rec.parts.cert)'
      BY <1>1, <1>3, <1>9, <2>1 DEF Book, NamedCert
    <3> QED
      BY <3>1, <3>2, <3>3 DEF Book
  <2>4. Foreign(Parts(op.rec))'
    <3>1. Parts(op.rec)' = op.rec.parts
      BY <1>2, <2>1 DEF Parts
    <3> QED
      BY <1>1, <1>3, <1>7, <1>9, <3>1 DEF Foreign, Noted
  <2> QED
    BY <1>1, <1>7, <1>9, <2>2, <2>3, <2>4, Fails DEF Publishing
<1> QED
  BY <1>4, <1>5, <1>6, <1>8, <1>9 DEF Proxy, Becomes, Happens, Loses, Outcomes
LEMMA FindCertificateKeeps ==
  ASSUME IInv, FindCertificate
  PROVE  State'
<1>1. op.phase = "certificate" /\ UNCHANGED <<dns, host, publication, fresh>> /\ State
  BY DEF FindCertificate, Step, Steady, IInv
<1>2. /\ op \in Operations(Made) /\ op.want \in Wants /\ op.rec \in Records(Made) /\ op.rec # None /\ WorldTypes
      /\ cert \in LiveCertificates(Made) /\ Made \subseteq Nat /\ op.rec.parts.cert \in Certificates(Made)
  BY <1>1 DEF State, WorldTypes, Shape, Publishing, Operations, Records, Made
<1>3. Book(op.rec.parts) /\ Foreign(op.rec.parts) /\ Foreign(Parts(publication)) /\ DnsDone /\ HostDone
  BY <1>1, <1>2 DEF State, Booked, Parts, Led
<1>4. PICK id : id = IF cert = None THEN made + 1 ELSE cert.id
  OBVIOUS
<1>5. PICK note : note = op.rec.parts.cert
  OBVIOUS
<1> DEFINE owns == CASE cert # None /\ note # None /\ note.id = cert.id -> note.owned
                     [] cert = None -> TRUE
                     [] OTHER -> cert.by # "other"
<1>6. PICK owned \in BOOLEAN : owned = owns
  <2>1. CASE cert # None /\ note # None /\ note.id = cert.id
    <3>1. note.owned \in BOOLEAN
      BY <1>2, <1>5, <2>1 DEF Certificates
    <3> QED
      BY <2>1, <3>1
  <2>2. CASE ~(cert # None /\ note # None /\ note.id = cert.id) /\ cert = None
    BY <2>2
  <2>3. CASE ~(cert # None /\ note # None /\ note.id = cert.id) /\ cert # None
    BY <2>3
  <2> QED
    BY <2>1, <2>2, <2>3
<1>7. /\ cert # None /\ note # None /\ note.id = cert.id => owned = note.owned
      /\ cert = None => owned
      /\ cert # None /\ ~(note # None /\ note.id = cert.id) => (owned <=> cert.by # "other")
  BY <1>6
<1> DEFINE there == IF cert = None THEN [id |-> id, by |-> "cwcli"] ELSE cert
<1>8. \/ UNCHANGED <<cert, made, loose>> /\ op' = [Fail EXCEPT !.next = "verify"]
      \/ /\ cert' = there /\ made' = (IF cert = None THEN made + 1 ELSE made)
         /\ \/ loose' = loose /\ op' = [op EXCEPT !.phase = "attach", !.out = [id |-> id, owned |-> owned]]
            \/ loose' = loose \cup {id} /\ op' = [Fail EXCEPT !.next = "verify"]
  BY <1>4, <1>5, <1>6, Zenon DEF FindCertificate, Becomes, Happens, Loses, Outcomes
<1> HIDE DEF owns
<1>9. CASE UNCHANGED <<cert, made, loose>> /\ op' = [Fail EXCEPT !.next = "verify"]
  BY <1>1, <1>9, Refused DEF Publishing, world
<1>10. PICK new : new = there
  OBVIOUS
<1>11. ASSUME cert' = there, made' = (IF cert = None THEN made + 1 ELSE made), loose \subseteq loose',
              loose' \subseteq loose \cup {id}
       PROVE  /\ Made \subseteq Made' /\ id \in Made' /\ made' \in Nat /\ Made' \subseteq Nat /\ loose' \subseteq Made'
              /\ cert' = new /\ new \in LiveCertificates(Made') /\ new # None /\ new.id = id
              /\ cert # None => new = cert
              /\ cert = None => id \notin Made /\ new.by = "cwcli"
              /\ Foreign(Parts(publication))' /\ Foreign(op.rec.parts)
              /\ host \in Hosts(Made') /\ dns \in [Types -> LiveRecords(Made')] /\ op \in Operations(Made')
              /\ publication \in Records(Made') \cup {None} /\ op.rec \in Records(Made')
  <2>1. made \in Nat /\ made' \in {made, made + 1}
    BY <1>2, <1>11 DEF WorldTypes
  <2>2. Made \subseteq Made' /\ made' \in Nat /\ Made' \subseteq Nat
    BY <2>1 DEF Made
  <2>3. id \in Made' /\ (cert = None => id \notin Made)
    BY <1>2, <1>4, <1>11, <2>1, <2>2 DEF Made, LiveCertificates
  <2>4. loose' \subseteq Made'
    BY <1>2, <1>11, <2>2, <2>3 DEF WorldTypes
  <2>5. new \in LiveCertificates(Made') /\ new # None /\ new.id = id /\ (cert = None => new.by = "cwcli")
    <3>1. CASE cert = None
      <4>1. new = [id |-> id, by |-> "cwcli"] /\ "cwcli" \in Makers
        BY <1>10, <3>1 DEF Makers
      <4>2. new # None
        BY <2>2, <2>3, <4>1, NoLive
      <4> QED
        BY <2>3, <4>1, <4>2 DEF LiveCertificates
    <3>2. CASE cert # None
      BY <1>2, <1>4, <1>10, <2>2, <3>2, Wider
    <3> QED
      BY <3>1, <3>2
  <2>6. (cert # None => new = cert) /\ cert' = new
    BY <1>10, <1>11
  <2>7. Foreign(Parts(publication))'
    BY <1>1, <1>3, <2>5, <2>6 DEF Foreign, Noted, Parts
  <2>8. LiveRecords(Made) \subseteq LiveRecords(Made')
    BY <2>2, Wider
  <2>9. /\ host \in Hosts(Made') /\ dns \in [Types -> LiveRecords(Made')] /\ op \in Operations(Made')
        /\ publication \in Records(Made') \cup {None} /\ op.rec \in Records(Made')
    BY <1>2, <2>2, <2>8, Wider DEF WorldTypes, Publications
  <2> QED
    BY <1>3, <2>2, <2>3, <2>4, <2>5, <2>6, <2>7, <2>9
<1> HIDE DEF there
<1>12. ASSUME cert' = there, made' = (IF cert = None THEN made + 1 ELSE made), loose' = loose,
              op' = [op EXCEPT !.phase = "attach", !.out = [id |-> id, owned |-> owned]]
       PROVE  State'
  <2>1. PICK n : n = [id |-> id, owned |-> owned]
    OBVIOUS
  <2>2. n \in Certificates(Made') /\ n # None /\ n.id = id /\ n.owned = owned
    <3>1. n # None
      BY <1>11, <1>12, <2>1, NoNote
    <3> QED
      BY <1>11, <1>12, <2>1, <3>1 DEF Certificates
  <2>3. op' = [op EXCEPT !.phase = "attach", !.out = n]
    BY <1>12, <2>1
  <2>4. /\ op'.rec = op.rec /\ op'.phase = "attach" /\ op'.out = n /\ op'.want = op.want /\ op'.on = op.on
        /\ op' \in Operations(Made')
    <3>1. op \in Operations(Made')
      BY <1>11, <1>12
    <3> QED
      BY <2>2, <2>3, <3>1 DEF Operations, Phases
  <2>5. WorldTypes'
    BY <1>1, <1>11, <1>12, <2>4 DEF WorldTypes, Publications
  <2>6. Shape'
    BY <1>2, <2>2, <2>4 DEF Shape
  <2>7. Book(op.rec.parts)'
    <3>1. \A t \in Types : NamedAs(op.rec.parts.dns[t], dns[t])'
      BY <1>1, <1>3, <1>12, <2>4, SMTT(60) DEF Book, NamedAs
    <3>2. NamedAs(op.rec.parts.host, host)'
      BY <1>1, <1>3, <1>12, <2>4 DEF Book, NamedAs
    <3>3. NamedCert(op.rec.parts.cert)'
      BY <1>11, <1>12, <2>2, <2>4 DEF NamedCert
    <3> QED
      BY <3>1, <3>2, <3>3, SMTT(60) DEF Book
  <2>8. Booked' /\ Parts(op.rec)' = op.rec.parts
    BY <1>2, <2>4, <2>7, SMTT(60) DEF Booked, Parts
  <2>9. Foreign(Parts(op.rec))'
    <3>1. op.rec.parts.cert # None => op.rec.parts.cert.id \in Made
      BY <1>2 DEF Certificates
    <3> QED
      BY <1>1, <1>3, <1>11, <1>12, <2>8, <3>1 DEF Foreign, Noted
  <2>10. Found'
    <3>1. note # None => note.id \in Made
      BY <1>2, <1>5 DEF Certificates
    <3>2. cert # None /\ cert.by = "cwcli" => cert.id \in loose \/ (note # None /\ note.owned /\ note.id = cert.id)
      BY <1>1, <1>3, <1>5 DEF Book, NamedCert
    <3>3. note # None /\ note.owned /\ cert # None /\ note.id = cert.id => cert.by # "other"
      BY <1>3, <1>5 DEF Foreign
    <3>4. new.by = "cwcli" => owned \/ new.id \in loose
      <4>1. CASE cert = None
        BY <1>7, <4>1
      <4>2. CASE cert # None
        BY <1>7, <1>11, <1>12, <3>2, <4>2
      <4> QED
        BY <4>1, <4>2
    <3>5. note # None /\ note.id = id => note.owned = owned
      <4>1. CASE cert = None
        BY <1>11, <1>12, <3>1, <4>1
      <4>2. CASE cert # None
        BY <1>4, <1>7, <4>2
      <4> QED
        BY <4>1, <4>2
    <3>6. owned => new.by # "other"
      <4>1. CASE cert = None
        BY <1>11, <1>12, <4>1
      <4>2. CASE cert # None
        BY <1>7, <1>11, <1>12, <3>3, <4>2
      <4> QED
        BY <4>1, <4>2
    <3> QED
      BY <1>1, <1>5, <1>11, <1>12, <2>2, <2>4, <3>4, <3>5, <3>6 DEF Found
  <2>11. DnsDone' /\ HostDone'
    BY <1>1, <1>3, <1>12, <2>4 DEF DnsDone, HostDone
  <2> QED
    BY <1>11, <1>12, <2>4, <2>5, <2>6, <2>8, <2>9, <2>10, <2>11 DEF State, Listed, Led, Well, Struck
<1>13. ASSUME cert' = there, made' = (IF cert = None THEN made + 1 ELSE made), loose' = loose \cup {id},
              op' = [Fail EXCEPT !.next = "verify"]
       PROVE  State'
  <2>1. op' \in Operations(Made') /\ op'.phase = "put" /\ op'.rec = op.rec
    <3>1. op' \in Operations(Made')
      BY <1>11, <1>13, FailType
    <3> QED
      BY <1>2, <1>13, <3>1 DEF Fail, Operations
  <2>2. WorldTypes'
    BY <1>1, <1>11, <1>13, <2>1, SMTT(60) DEF WorldTypes, Publications
  <2>3. Book(op.rec.parts)'
    <3>1. \A t \in Types : NamedAs(op.rec.parts.dns[t], dns[t])'
      BY <1>1, <1>3, <1>13, <2>1, SMTT(60) DEF Book, NamedAs
    <3>2. NamedAs(op.rec.parts.host, host)'
      BY <1>1, <1>3, <1>13, <2>1 DEF Book, NamedAs
    <3>3. NamedCert(op.rec.parts.cert)'
      BY <1>11, <1>13, SMTT(60) DEF NamedCert
    <3> QED
      BY <3>1, <3>2, <3>3 DEF Book
  <2>4. Foreign(Parts(op.rec))'
    <3>1. Parts(op.rec)' = op.rec.parts
      BY <1>2, <2>1 DEF Parts
    <3> QED
      BY <1>1, <1>3, <1>11, <1>13, <3>1 DEF Foreign, Noted
  <2> QED
    BY <1>1, <1>11, <1>13, <2>2, <2>3, <2>4, Fails DEF Publishing
<1> QED
  BY <1>8, <1>9, <1>12, <1>13
LEMMA AttachKeeps ==
  ASSUME IInv, Attach
  PROVE  State'
<1>1. op.phase = "attach" /\ UNCHANGED <<dns, cert, made, publication, fresh>> /\ State
  BY DEF Attach, Step, Steady, IInv
<1>2. /\ op \in Operations(Made) /\ op.want \in Wants /\ op.rec \in Records(Made) /\ op.rec # None /\ WorldTypes
      /\ host \in Hosts(Made) /\ Made' = Made /\ Made \subseteq Nat
      /\ op.out \in Certificates(Made) /\ op.out # None
  BY <1>1 DEF State, WorldTypes, Shape, Publishing, Operations, Records, Made
<1>3. Book(op.rec.parts) /\ Foreign(op.rec.parts) /\ Foreign(Parts(publication)) /\ DnsDone /\ HostDone /\ Found
  BY <1>1, <1>2 DEF State, Booked, Parts, Led
<1>4. PICK out : out = op.out
  OBVIOUS
<1>5. out \in Certificates(Made) /\ out # None /\ out.id \in Made /\ out.owned \in BOOLEAN
  BY <1>2, <1>4 DEF Certificates
<1>6. \/ host' = host
      \/ Noted(op.rec.parts.host, host) /\ host' = [host EXCEPT !.cert = out.id]
  BY <1>4, Zenon DEF Attach
<1>7. \/ /\ loose' = loose /\ Noted(op.rec.parts.host, host) /\ host' = [host EXCEPT !.cert = out.id]
         /\ op' = [op EXCEPT !.rec.parts.cert = op.out, !.phase = "put", !.next = "verify"]
      \/ /\ loose' = IF op.rec.parts.cert # None /\ op.rec.parts.cert.id = out.id THEN loose ELSE loose \cup {out.id}
         /\ op' = [Fail EXCEPT !.next = "verify"]
  BY <1>4, Zenon DEF Attach, Becomes, Happens, Outcomes
<1>8. /\ host' \in Hosts(Made) /\ (host' # None <=> host # None)
      /\ host # None => host'.id = host.id /\ host'.by = host.by /\ host'.to = host.to
      /\ host' # host => host'.cert = out.id
  <2>1. CASE host' = host
    BY <1>2, <2>1
  <2>2. CASE Noted(op.rec.parts.host, host) /\ host' = [host EXCEPT !.cert = out.id]
    <3>1. host \in [id : Made, to : Spots, by : Makers, cert : Made \cup {None}]
      BY <1>2, <2>2 DEF Hosts, Noted
    <3>2. host' = [id |-> host.id, to |-> host.to, by |-> host.by, cert |-> out.id]
      BY <2>2, <3>1
    <3>3. host' # None
      <4>1. host.id \in Nat /\ host.to \in Spots /\ host.by \in Makers /\ out.id \in Nat \cup {None}
        BY <1>2, <1>5, <3>1
      <4> QED
        BY <3>2, <4>1, NoLive
    <3> QED
      BY <1>5, <2>2, <3>1, <3>2, <3>3 DEF Hosts, Noted
  <2> QED
    BY <1>6, <2>1, <2>2
<1>9. Foreign(Parts(publication))'
  BY <1>1, <1>3, <1>8 DEF Foreign, Noted, Parts
<1>10. /\ cert # None /\ cert.by = "cwcli" => cert.id = out.id /\ (out.owned \/ cert.id \in loose)
       /\ op.rec.parts.cert # None /\ op.rec.parts.cert.id = out.id => op.rec.parts.cert.owned = out.owned
       /\ out.owned /\ cert # None /\ cert.id = out.id => cert.by # "other"
       /\ "cert" \notin fresh => cert # None /\ cert.id = out.id
  BY <1>1, <1>3, <1>4 DEF Found
<1>11. CASE /\ loose' = loose /\ Noted(op.rec.parts.host, host) /\ host' = [host EXCEPT !.cert = out.id]
            /\ op' = [op EXCEPT !.rec.parts.cert = op.out, !.phase = "put", !.next = "verify"]
  <2>1. PICK r : r = [op.rec EXCEPT !.parts.cert = out]
    OBVIOUS
  <2>2. /\ r \in Records(Made) /\ r.owner = op.rec.owner /\ r.parts.dns = op.rec.parts.dns
        /\ r.parts.host = op.rec.parts.host /\ r.parts.cert = out
    <3>1. op.rec \in Records(Made) /\ out \in Certificates(Made)
      BY <1>2, <1>5
    <3> QED
      BY <2>1, <3>1 DEF Records
  <2>3. op' = [op EXCEPT !.rec = r, !.phase = "put", !.next = "verify"]
    BY <1>2, <1>4, <1>11, <2>1 DEF Operations
  <2>4. /\ op'.rec = r /\ op'.phase = "put" /\ op'.next = "verify" /\ op'.want = op.want /\ op'.on = op.on
        /\ op' \in Operations(Made)
    BY <1>2, <2>2, <2>3 DEF Operations, Phases
  <2>5. r # None
    BY <1>2, <2>2, Recorded
  <2>6. WorldTypes'
    BY <1>1, <1>2, <1>8, <1>11, <2>4 DEF WorldTypes, Publications
  <2>7. Shape'
    BY <1>2, <2>4, <2>5, SMTT(60) DEF Shape
  <2>8. Book(r.parts)'
    <3>1. \A t \in Types : NamedAs(r.parts.dns[t], dns[t])'
      BY <1>1, <1>3, <1>11, <2>2, SMTT(60) DEF Book, NamedAs
    <3>2. NamedAs(r.parts.host, host)'
      BY <1>3, <1>8, <1>11, <2>2 DEF Book, NamedAs
    <3>3. NamedCert(r.parts.cert)'
      BY <1>1, <1>5, <1>10, <1>11, <2>2 DEF NamedCert
    <3> QED
      BY <3>1, <3>2, <3>3 DEF Book
  <2>9. Booked' /\ Parts(op.rec)' = r.parts
    BY <2>4, <2>5, <2>8, SMTT(60) DEF Booked, Parts
  <2>10. Foreign(r.parts)'
    BY <1>1, <1>3, <1>8, <1>10, <2>2 DEF Foreign, Noted
  <2>11. Foreign(Parts(op.rec))'
    BY <2>9, <2>10
  <2>12. DnsDone' /\ HostDone'
    BY <1>1, <1>3, <1>8, <1>11, <2>2, <2>4 DEF DnsDone, HostDone
  <2>13. CertDone'
    <3>1. host' # None /\ host'.cert = out.id
      BY <1>2, <1>8, <1>11 DEF Noted, Hosts
    <3> QED
      BY <1>1, <1>10, <3>1 DEF CertDone
  <2> QED
    BY <1>9, <2>4, <2>6, <2>7, <2>9, <2>11, <2>12, <2>13 DEF State, Listed, Found, Led, Well, Struck
<1>12. CASE /\ loose' = IF op.rec.parts.cert # None /\ op.rec.parts.cert.id = out.id THEN loose ELSE loose \cup {out.id}
            /\ op' = [Fail EXCEPT !.next = "verify"]
  <2>1. op' \in Operations(Made) /\ op'.phase = "put" /\ op'.rec = op.rec
    <3>1. op' \in Operations(Made)
      BY <1>2, <1>12, FailType
    <3> QED
      BY <1>2, <1>12, <3>1 DEF Fail, Operations
  <2>2. loose \subseteq loose' /\ loose' \subseteq Made
    BY <1>2, <1>5, <1>12 DEF WorldTypes
  <2>3. WorldTypes'
    BY <1>1, <1>2, <1>8, <2>1, <2>2, SMTT(60) DEF WorldTypes, Publications
  <2>4. Book(op.rec.parts)'
    <3>1. \A t \in Types : NamedAs(op.rec.parts.dns[t], dns[t])'
      BY <1>1, <1>3, <2>1, <2>2 DEF Book, NamedAs
    <3>2. NamedAs(op.rec.parts.host, host)'
      BY <1>3, <1>8, <2>1, <2>2 DEF Book, NamedAs
    <3>3. NamedCert(op.rec.parts.cert)'
      <4> SUFFICES ASSUME cert # None, cert.by = "cwcli", cert.id \notin loose'
                   PROVE  op.rec.parts.cert # None /\ op.rec.parts.cert.owned /\ op.rec.parts.cert.id = cert.id
        BY <1>1, <2>1 DEF NamedCert
      <4>1. cert.id = out.id /\ (out.owned \/ cert.id \in loose)
        BY <1>10
      <4>2. op.rec.parts.cert # None /\ op.rec.parts.cert.id = out.id
        BY <1>12, <4>1
      <4> QED
        BY <1>10, <2>2, <4>1, <4>2
    <3> QED
      BY <3>1, <3>2, <3>3 DEF Book
  <2>5. Foreign(Parts(op.rec))'
    <3>1. Parts(op.rec)' = op.rec.parts
      BY <1>2, <2>1 DEF Parts
    <3> QED
      BY <1>1, <1>3, <1>8, <3>1 DEF Foreign, Noted
  <2> QED
    BY <1>1, <1>9, <1>12, <2>3, <2>4, <2>5, Fails DEF Publishing
<1> QED
  BY <1>7, <1>11, <1>12

\* A job that is over leaves its record behind.
LEMMA Over ==
  ASSUME State, op' = Idle, UNCHANGED <<world, made>>, loose' \subseteq Made,
         publication' \in Publications, Book(Parts(publication))', Foreign(Parts(publication))'
  PROVE  State'
<1>1. WorldTypes'
  BY IdleFacts DEF State, WorldTypes, Made, Publications, world
<1>2. Shape' /\ Booked' /\ Foreign(Parts(op.rec))'
  <2>1. op'.phase = "idle" /\ op'.rec = None
    BY IdleFacts
  <2>2. Parts(op.rec)' = Blank
    BY <2>1 DEF Parts
  <2> QED
    BY <2>1, <2>2, BlankFacts DEF Shape, Publishing, Booked, Foreign, Noted
<1>3. Listed' /\ Found' /\ Led' /\ Struck'
  BY IdleFacts DEF Listed, Found, Led, Well, Struck
<1> QED
  BY <1>1, <1>2, <1>3 DEF State

LEMMA PutKeeps ==
  ASSUME IInv, Put
  PROVE  State'
<1>1. op.phase = "put" /\ UNCHANGED <<dns, host, cert, made, loose, fresh>> /\ State /\ publication' = op.rec
  BY DEF Put, Steady, IInv, world
<1>2. /\ op \in Operations(Made) /\ op.rec \in Records(Made) /\ op.rec # None /\ op.want \in Wants /\ WorldTypes
      /\ op.next \in {"proxy", "certificate", "verify"} /\ Made' = Made
  BY <1>1 DEF State, WorldTypes, Shape, Publishing, Operations, Made
<1>3. Book(op.rec.parts) /\ Foreign(op.rec.parts)
  BY <1>1, <1>2 DEF State, Booked, Parts
<1>4. Parts(publication)' = op.rec.parts
  BY <1>1, <1>2 DEF Parts
<1>5. CASE op' = Idle
  <2>1. Book(Parts(publication))'
    BY <1>1, <1>3, <1>4 DEF Book, NamedAs, NamedCert
  <2>2. Foreign(Parts(publication))'
    BY <1>1, <1>3, <1>4 DEF Foreign, Noted
  <2> QED
    BY <1>1, <1>2, <1>5, <2>1, <2>2, Over, SMTT(60) DEF WorldTypes, Publications, world
<1>6. CASE ~op.failed /\ op' = [op EXCEPT !.phase = IF op.next = "proxy" /\ "proxy" \notin op.on THEN "verify" ELSE op.next]
  <2>1. PICK f : f = IF op.next = "proxy" /\ "proxy" \notin op.on THEN "verify" ELSE op.next
    OBVIOUS
  <2>2. f \in {"proxy", "certificate", "verify"}
    BY <1>2, <2>1
  <2>3. op' = [op EXCEPT !.phase = f]
    BY <1>6, <2>1
  <2>4. /\ op'.phase = f /\ op'.rec = op.rec /\ op'.want = op.want /\ op'.on = op.on /\ op' \in Operations(Made)
    BY <1>2, <2>2, <2>3 DEF Operations, Phases
  <2>5. WorldTypes'
    BY <1>1, <1>2, <2>4 DEF WorldTypes, Publications
  <2>6. Shape'
    BY <1>1, <1>2, <2>2, <2>4, SMTT(60) DEF Shape
  <2>7. Book(op.rec.parts)' /\ Parts(op.rec)' = op.rec.parts
    BY <1>1, <1>2, <1>3, <2>4 DEF Book, NamedAs, NamedCert, Parts
  <2>8. Booked' /\ Foreign(Parts(op.rec))' /\ Foreign(Parts(publication))'
    <3>1. Foreign(op.rec.parts)'
      BY <1>1, <1>3, <2>4 DEF Foreign, Noted
    <3>2. Booked'
      BY <2>2, <2>4, <2>7 DEF Booked, Parts
    <3> QED
      BY <1>4, <2>4, <2>7, <3>1, <3>2
  <2>9. /\ DnsDone'
        /\ f = "certificate" \/ (f = "verify" /\ "proxy" \in op.on) => HostDone'
        /\ f = "verify" /\ "proxy" \in op.on => CertDone'
    <3>1. /\ DnsDone /\ (op.next \in {"certificate", "verify"} => HostDone)
          /\ op.next = "verify" => CertDone
      BY <1>1, <1>6 DEF State, Led, Well
    <3> QED
      BY <1>1, <2>1, <2>4, <3>1 DEF DnsDone, HostDone, CertDone
  <2> QED
    BY <2>2, <2>4, <2>5, <2>6, <2>8, <2>9 DEF State, Listed, Found, Led, Well, Struck
<1> QED
  BY <1>5, <1>6 DEF Put

LEMMA VerifyKeeps ==
  ASSUME IInv, Verify
  PROVE  State'
<1>1. op.phase = "verify" /\ UNCHANGED <<dns, host, cert, made, loose, publication>> /\ State /\ op' = Idle
  BY DEF Verify, Step, IInv, world
<1>2. op.rec = publication /\ Book(Parts(op.rec)) /\ Foreign(Parts(op.rec))
  BY <1>1 DEF State, Shape, Booked
<1>3. Book(Parts(publication))' /\ Foreign(Parts(publication))'
  BY <1>1, <1>2 DEF Book, NamedAs, NamedCert, Foreign, Noted, Parts
<1> QED
  BY <1>1, <1>3, Over DEF State, WorldTypes, Publications, Made, world
-----------------------------------------------------------------------------
(* Unpublishing.                                                             *)

LEMMA StartUnpublishKeeps ==
  ASSUME IInv, StartUnpublish
  PROVE  State'
<1>1. op = Idle /\ UNCHANGED <<dns, host, cert, publication, loose, made>> /\ publication # None
  BY DEF StartUnpublish, world
<1>2. State /\ on \subseteq {"dns", "proxy"} /\ publication \in Records(Made) /\ Made' = Made
  BY <1>1 DEF IInv, Bounds, State, WorldTypes, Publications, Made
<1>3. PICK o \in SUBSET {"dns", "proxy"}, r \in Records(Made) : o = on /\ r = publication
  BY <1>2
<1> DEFINE q == [Idle EXCEPT !.phase = "dropHost", !.rec = r, !.on = o]
<1>4. op' = q
  BY <1>3 DEF StartUnpublish
<1>5. q.phase = "dropHost" /\ q.rec = r /\ q \in Operations(Made)
  BY IdleFacts, ZenonT(60) DEF Operations, Phases
<1> HIDE DEF q
<1>6. WorldTypes'
  BY <1>1, <1>2, <1>4, <1>5 DEF State, WorldTypes, Publications
<1>7. Shape'
  BY <1>1, <1>3, <1>4, <1>5 DEF Shape, Publishing
<1>8. Booked' /\ Foreign(Parts(publication))' /\ Foreign(Parts(op.rec))'
  BY <1>1, <1>2, <1>3, <1>4, <1>5, IdleFacts DEF State, Booked, Book, NamedAs, NamedCert, Foreign, Noted, Parts
<1> QED
  BY <1>4, <1>5, <1>6, <1>7, <1>8 DEF State, Listed, Found, Led, Well, Struck

\* A step of an unpublish: fewer objects, and a record that still names those that stay.
LEMMA Drops ==
  ASSUME State, op.phase \in {"dropHost", "dropCert", "dropDns"}, UNCHANGED <<publication, made, fresh>>,
         NEW r \in Records(Made), op' \in Operations(Made), op'.rec = r, op'.phase \in {"dropCert", "dropDns", "close"},
         loose \subseteq loose', loose' \subseteq Made,
         dns' \in [Types -> LiveRecords(Made)], \A t \in Types : dns'[t] \in {None, dns[t]},
         host' \in {None, host}, cert' \in {None, cert},
         Book(r.parts)', Struck',
         \A t \in Types : r.parts.dns[t] \in {None, op.rec.parts.dns[t]},
         r.parts.host \in {None, op.rec.parts.host}, r.parts.cert \in {None, op.rec.parts.cert}
  PROVE  State'
<1>1. op.rec # None /\ WorldTypes /\ Made' = Made /\ Made \subseteq Nat /\ r # None
  <2>1. op.rec # None /\ WorldTypes /\ Made' = Made /\ Made \subseteq Nat
    BY DEF State, WorldTypes, Shape, Made
  <2> QED
    BY <2>1, Recorded
<1>2. WorldTypes'
  BY <1>1 DEF WorldTypes, Publications, Hosts, LiveCertificates
<1>3. Shape'
  BY <1>1 DEF Shape, Publishing
<1>4. Booked'
  BY <1>1, SMTT(60) DEF Booked, Parts
<1>5. Foreign(Parts(publication))'
  <2>1. Foreign(Parts(publication))
    BY DEF State
  <2> QED
    BY <2>1 DEF Foreign, Noted, Parts
<1>6. Foreign(Parts(op.rec))'
  <2>1. Foreign(op.rec.parts) /\ Parts(op.rec)' = r.parts
    BY <1>1, SMTT(60) DEF State, Parts
  <2>2. Foreign(r.parts)'
    BY <2>1, SMTT(60) DEF Foreign, Noted
  <2> QED
    BY <2>1, <2>2
<1> QED
  BY <1>2, <1>3, <1>4, <1>5, <1>6 DEF State, Listed, Found, Led, Well

LEMMA DropHostKeeps ==
  ASSUME IInv, DropHost
  PROVE  State'
<1>1. op.phase = "dropHost" /\ UNCHANGED <<dns, cert, made, loose, publication, fresh>> /\ State
  BY DEF DropHost, Step, Steady, IInv
<1>2. /\ op \in Operations(Made) /\ op.rec \in Records(Made) /\ op.rec # None /\ WorldTypes
      /\ dns \in [Types -> LiveRecords(Made)] /\ loose \subseteq Made
  BY <1>1 DEF State, WorldTypes, Shape, Publishing, Operations
<1>3. Book(op.rec.parts)
  BY <1>1, <1>2 DEF State, Booked, Parts
<1>4. PICK note : note = op.rec.parts.host
  OBVIOUS
<1>5. PICK kept \in BOOLEAN : kept = (Noted(note, host) /\ ~(Noted(note, host) /\ host.to = note.to))
  BY DEF Noted
<1>6. \/ /\ host' = IF Noted(note, host) /\ host.to = note.to THEN None ELSE host
         /\ op' = [op EXCEPT !.rec.parts.host = None, !.phase = "dropCert", !.kept = kept]
      \/ host' \in {None, host} /\ op' = [op EXCEPT !.failed = TRUE, !.phase = "dropDns"]
  BY <1>4, <1>5, Zenon DEF DropHost, Becomes, Happens, Outcomes
<1>7. CASE /\ host' = IF Noted(note, host) /\ host.to = note.to THEN None ELSE host
           /\ op' = [op EXCEPT !.rec.parts.host = None, !.phase = "dropCert", !.kept = kept]
  <2>1. PICK r : r = [op.rec EXCEPT !.parts.host = None]
    OBVIOUS
  <2>2. /\ r \in Records(Made) /\ r.parts.dns = op.rec.parts.dns /\ r.parts.cert = op.rec.parts.cert
        /\ r.parts.host = None
    <3>1. op.rec \in Records(Made) /\ None \in Notes(Made, Benches)
      BY <1>2 DEF Notes
    <3> QED
      BY <2>1, <3>1 DEF Records
  <2>3. op' = [op EXCEPT !.rec = r, !.phase = "dropCert", !.kept = kept]
    BY <1>2, <1>7, <2>1 DEF Operations
  <2>4. op'.rec = r /\ op'.phase = "dropCert" /\ op' \in Operations(Made)
    BY <1>2, <2>2, <2>3, ZenonT(60) DEF Operations, Phases
  <2>5. Book(r.parts)'
    <3>1. \A t \in Types : NamedAs(r.parts.dns[t], dns[t])'
      BY <1>1, <1>3, <2>2 DEF Book, NamedAs
    <3>2. NamedAs(r.parts.host, host)'
      BY <1>1, <1>3, <1>4, <1>7, <2>2 DEF Book, NamedAs, Noted
    <3>3. NamedCert(r.parts.cert)'
      BY <1>1, <1>3, <2>2 DEF Book, NamedCert
    <3> QED
      BY <3>1, <3>2, <3>3 DEF Book
  <2>6. Struck'
    BY <2>2, <2>4 DEF Struck
  <2> QED
    BY <1>1, <1>2, <1>7, <2>2, <2>4, <2>5, <2>6, Drops
<1>8. CASE host' \in {None, host} /\ op' = [op EXCEPT !.failed = TRUE, !.phase = "dropDns"]
  <2>1. op'.rec = op.rec /\ op'.phase = "dropDns" /\ op'.failed /\ op' \in Operations(Made)
    BY <1>2, <1>8 DEF Operations, Phases
  <2>2. Book(op.rec.parts)'
    <3>1. NamedAs(op.rec.parts.host, host)'
      BY <1>1, <1>3, <1>8, <2>1 DEF Book, NamedAs
    <3> QED
      BY <1>1, <1>3, <2>1, <3>1 DEF Book, NamedAs, NamedCert
  <2>3. Struck'
    BY <2>1 DEF Struck
  <2>4. PICK r \in Records(Made) : r = op.rec
    BY <1>2
  <2>5. Book(r.parts)'
    BY <2>1, <2>2, <2>4, SMTT(60)
  <2> QED
    BY <1>1, <1>2, <1>8, <2>1, <2>3, <2>4, <2>5, Drops
<1> QED
  BY <1>6, <1>7, <1>8

LEMMA DropCertKeeps ==
  ASSUME IInv, DropCert
  PROVE  State'
<1>1. op.phase = "dropCert" /\ UNCHANGED <<dns, host, made, publication, fresh>> /\ State
  BY DEF DropCert, Step, Steady, IInv
<1>2. /\ op \in Operations(Made) /\ op.rec \in Records(Made) /\ op.rec # None /\ WorldTypes
      /\ dns \in [Types -> LiveRecords(Made)] /\ loose \subseteq Made /\ cert \in LiveCertificates(Made)
      /\ op.rec.parts.host = None /\ op.rec.parts.cert \in Certificates(Made)
  BY <1>1 DEF State, WorldTypes, Shape, Publishing, Operations, Records, Struck
<1>3. Book(op.rec.parts)
  BY <1>1, <1>2 DEF State, Booked, Parts
<1>4. PICK note : note = op.rec.parts.cert
  OBVIOUS
<1> DEFINE live == note # None /\ note.owned /\ cert # None /\ cert.id = note.id
           used == op.kept \/ (host # None /\ cert # None /\ host.cert = cert.id)
<1>5. PICK outcome \in Outcomes :
        /\ cert' = IF live /\ ~used /\ outcome # "refused" THEN None ELSE cert
        /\ loose' = IF live /\ used THEN loose \cup {cert.id} ELSE loose
        /\ op' = [op EXCEPT !.phase = "dropDns", !.failed = outcome # "ok",
                            !.rec.parts.cert = IF outcome = "ok" /\ note # None /\ note.owned THEN None ELSE @]
  BY <1>4, Zenon DEF DropCert, Becomes, Happens, Outcomes
<1>6. PICK failed \in BOOLEAN : failed = (outcome # "ok")
  OBVIOUS
<1>7. PICK c : c = IF outcome = "ok" /\ note # None /\ note.owned THEN None ELSE note
  OBVIOUS
<1>8. PICK r : r = [op.rec EXCEPT !.parts.cert = c]
  OBVIOUS
<1>9. /\ r \in Records(Made) /\ r.parts.dns = op.rec.parts.dns /\ r.parts.host = op.rec.parts.host
      /\ r.parts.cert = c
  <2>1. op.rec \in Records(Made) /\ c \in Certificates(Made)
    BY <1>2, <1>4, <1>7 DEF Certificates
  <2> QED
    BY <1>8, <2>1 DEF Records
<1>10. op' = [op EXCEPT !.phase = "dropDns", !.failed = failed, !.rec = r]
  <2>1. [op.rec EXCEPT !.parts.cert = IF outcome = "ok" /\ note # None /\ note.owned THEN None ELSE @] = r
    BY <1>2, <1>4, <1>7, <1>8 DEF Records
  <2> QED
    BY <1>2, <1>5, <1>6, <2>1 DEF Operations
<1>11. op'.rec = r /\ op'.phase = "dropDns" /\ op'.failed = failed /\ op' \in Operations(Made)
  <2>1. op \in Operations(Made) /\ r \in Records(Made)
    BY <1>2, <1>9
  <2> QED
    BY <1>10, <2>1, ZenonT(60) DEF Operations, Phases
<1>12. loose \subseteq loose' /\ loose' \subseteq Made /\ cert' \in {None, cert}
  BY <1>2, <1>5 DEF LiveCertificates
<1>13. Book(r.parts)'
  <2>1. \A t \in Types : NamedAs(r.parts.dns[t], dns[t])'
    BY <1>1, <1>3, <1>9, <1>12 DEF Book, NamedAs
  <2>2. NamedAs(r.parts.host, host)'
    BY <1>1, <1>3, <1>9, <1>12 DEF Book, NamedAs
  <2>3. NamedCert(r.parts.cert)'
    <3>1. cert # None /\ cert.by = "cwcli" => cert.id \in loose \/ live
      BY <1>1, <1>3, <1>4 DEF Book, NamedCert
    <3>2. CASE live /\ used
      BY <1>5, <3>2 DEF NamedCert
    <3>3. CASE live /\ ~used
      BY <1>5, <1>7, <1>9, <3>3 DEF NamedCert
    <3>4. CASE ~live
      BY <1>5, <3>1, <3>4 DEF NamedCert
    <3> QED
      BY <3>2, <3>3, <3>4
  <2> QED
    BY <2>1, <2>2, <2>3 DEF Book
<1>14. Struck'
  <2>1. ~failed => c = None \/ ~c.owned
    BY <1>6, <1>7
  <2> QED
    BY <1>2, <1>9, <1>11, <2>1 DEF Struck
<1> HIDE DEF live, used
<1> QED
  BY <1>1, <1>2, <1>7, <1>4, <1>9, <1>11, <1>12, <1>13, <1>14, Drops

LEMMA DropDnsKeeps ==
  ASSUME IInv, DropDns
  PROVE  State'
<1>1. op.phase = "dropDns" /\ UNCHANGED <<host, cert, made, loose, publication, fresh>> /\ State
  BY DEF DropDns, Step, Steady, IInv
<1>2. /\ op \in Operations(Made) /\ op.rec \in Records(Made) /\ op.rec # None /\ WorldTypes
      /\ dns \in [Types -> LiveRecords(Made)] /\ loose \subseteq Made
      /\ op.rec.parts.dns \in [Types -> Notes(Made, Addresses)]
  BY <1>1 DEF State, WorldTypes, Shape, Publishing, Operations, Records
<1>3. Book(op.rec.parts)
  BY <1>1, <1>2 DEF State, Booked, Parts
<1>4. PICK mine : mine = {t \in Types : op.rec.parts.dns[t] # None /\ op.rec.parts.dns[t].owned}
  OBVIOUS
<1>5. PICK doomed : doomed = {t \in mine : Noted(op.rec.parts.dns[t], dns[t]) /\ dns[t].to = op.rec.parts.dns[t].to}
  OBVIOUS
<1>6. PICK cleared \in SUBSET doomed, done \in BOOLEAN :
        /\ done => cleared = doomed
        /\ dns' = [t \in Types |-> IF t \in cleared THEN None ELSE dns[t]]
        /\ op' = [op EXCEPT !.phase = "close", !.failed = @ \/ ~done,
                            !.rec.parts.dns = IF done /\ mine # {} THEN Blank.dns ELSE @]
  BY <1>4, <1>5, Zenon DEF DropDns, Becomes
<1>7. PICK d : d = IF done /\ mine # {} THEN Blank.dns ELSE op.rec.parts.dns
  OBVIOUS
<1>8. d \in [Types -> Notes(Made, Addresses)] /\ \A t \in Types : d[t] \in {None, op.rec.parts.dns[t]}
  BY <1>2, <1>7, BlankFacts
<1>9. PICK failed \in BOOLEAN : failed <=> op.failed \/ ~done
  <2>1. op.failed \in BOOLEAN
    BY <1>2 DEF Operations
  <2> QED
    BY <2>1
<1>10. PICK r : r = [op.rec EXCEPT !.parts.dns = d]
  OBVIOUS
<1>11. /\ r \in Records(Made) /\ r.parts.dns = d /\ r.parts.host = op.rec.parts.host
       /\ r.parts.cert = op.rec.parts.cert
  <2>1. op.rec \in Records(Made)
    BY <1>2
  <2> QED
    BY <1>8, <1>10, <2>1 DEF Records
<1>12. op' = [op EXCEPT !.phase = "close", !.failed = failed, !.rec = r]
  <2>1. [op.rec EXCEPT !.parts.dns = IF done /\ mine # {} THEN Blank.dns ELSE @] = r
    BY <1>2, <1>7, <1>10 DEF Records
  <2>2. (op.failed \/ ~done) = failed
    BY <1>9
  <2> QED
    BY <1>2, <1>6, <2>1, <2>2 DEF Operations
<1>13. op'.rec = r /\ op'.phase = "close" /\ op'.failed = failed /\ op' \in Operations(Made)
  BY <1>2, <1>11, <1>12, ZenonT(60) DEF Operations, Phases
<1>14. dns' \in [Types -> LiveRecords(Made)] /\ \A t \in Types : dns'[t] = IF t \in cleared THEN None ELSE dns[t]
  BY <1>2, <1>6 DEF LiveRecords
<1>15. Book(r.parts)'
  <2>1. ASSUME NEW t \in Types PROVE NamedAs(r.parts.dns[t], dns[t])'
    <3>1. NamedAs(op.rec.parts.dns[t], dns[t])
      BY <1>3 DEF Book
    <3>2. CASE t \in cleared
      BY <1>14, <3>2, SMTT(60) DEF NamedAs
    <3>3. CASE t \notin cleared /\ done /\ mine # {}
      BY <1>1, <1>4, <1>5, <1>6, <1>14, <3>1, <3>3 DEF NamedAs, Noted
    <3>4. CASE t \notin cleared /\ ~(done /\ mine # {})
      BY <1>1, <1>7, <1>11, <1>14, <3>1, <3>4 DEF NamedAs
    <3> QED
      BY <3>2, <3>3, <3>4
  <2>2. NamedAs(r.parts.host, host)' /\ NamedCert(r.parts.cert)'
    BY <1>1, <1>3, <1>11 DEF Book, NamedAs, NamedCert
  <2> QED
    BY <2>1, <2>2 DEF Book
<1>16. Struck'
  <2>1. ~failed => ~op.failed /\ done
    BY <1>9
  <2>2. ~op.failed => op.rec.parts.host = None /\ (op.rec.parts.cert = None \/ ~op.rec.parts.cert.owned)
    BY <1>1 DEF State, Struck
  <2>3. ~failed => \A t \in Types : d[t] = None \/ ~d[t].owned
    BY <1>4, <1>7, <2>1, BlankFacts
  <2> QED
    BY <1>11, <1>13, <2>1, <2>2, <2>3 DEF Struck
<1> QED
  BY <1>1, <1>2, <1>8, <1>11, <1>13, <1>14, <1>15, <1>16, Drops, SMTT(60)

LEMMA CloseKeeps ==
  ASSUME IInv, Close
  PROVE  State'
<1>1. /\ op.phase = "close" /\ UNCHANGED <<dns, host, cert, made, loose>> /\ State /\ op' = Idle
      /\ publication' = IF op.failed THEN op.rec ELSE None
  BY DEF Close, IInv, world
<1>2. /\ op \in Operations(Made) /\ op.rec \in Records(Made) /\ op.rec # None /\ WorldTypes /\ Made' = Made
  BY <1>1 DEF State, WorldTypes, Shape, Publishing, Operations, Made
<1>3. Book(op.rec.parts) /\ Foreign(op.rec.parts)
  BY <1>1, <1>2 DEF State, Booked, Parts
<1>4. CASE op.failed
  <2>1. Parts(publication)' = op.rec.parts
    BY <1>1, <1>2, <1>4, SMTT(60) DEF Parts
  <2>2. Book(Parts(publication))' /\ Foreign(Parts(publication))'
    BY <1>1, <1>3, <2>1 DEF Book, NamedAs, NamedCert, Foreign, Noted
  <2> QED
    BY <1>1, <1>2, <1>4, <2>2, Over DEF WorldTypes, Publications, world
<1>5. CASE ~op.failed
  <2>1. Parts(publication)' = Blank
    BY <1>1, <1>5 DEF Parts
  <2>2. /\ op.rec.parts.host = None /\ (op.rec.parts.cert = None \/ ~op.rec.parts.cert.owned)
        /\ \A t \in Types : op.rec.parts.dns[t] = None \/ ~op.rec.parts.dns[t].owned
    BY <1>1, <1>5 DEF State, Struck
  <2>3. Book(Blank)'
    BY <1>1, <1>3, <2>2, BlankFacts DEF Book, NamedAs, NamedCert
  <2>4. Foreign(Blank)'
    BY BlankFacts DEF Foreign, Noted
  <2> QED
    BY <1>1, <1>2, <1>5, <2>1, <2>3, <2>4, Over DEF WorldTypes, Publications, world
<1> QED
  BY <1>4, <1>5
-----------------------------------------------------------------------------
(* A killed worker and people.                                               *)

LEMMA KillKeeps ==
  ASSUME IInv, Kill
  PROVE  State'
<1>1. /\ UNCHANGED <<dns, host, cert, made, publication>> /\ State /\ op' = Idle
      /\ loose' = loose \cup {o.id : o \in Ours \ NamedIn(publication)}
  BY DEF Kill, IInv, world
<1>2. /\ WorldTypes /\ dns \in [Types -> LiveRecords(Made)] /\ host \in Hosts(Made)
      /\ cert \in LiveCertificates(Made) /\ Made' = Made
  BY <1>1 DEF State, WorldTypes, Made
<1>3. PICK parts : parts = Parts(publication)
  OBVIOUS
<1>4. \A o \in Ours : o.id \in Made
  BY <1>2 DEF Ours, Object, LiveRecords, Hosts, LiveCertificates
<1>5. loose' \subseteq Made
  BY <1>1, <1>2, <1>4 DEF WorldTypes
<1>6. \A o \in Ours : o.id \in loose' \/ o \in NamedIn(publication)
  BY <1>1
<1>7. ASSUME NEW t \in Types PROVE NamedAs(parts.dns[t], dns[t])'
  <2> SUFFICES ASSUME dns[t] # None, dns[t].by = "cwcli", dns[t].id \notin loose'
               PROVE  parts.dns[t] # None /\ parts.dns[t].owned /\ parts.dns[t].id = dns[t].id
                      /\ parts.dns[t].to = dns[t].to
    BY <1>1 DEF NamedAs
  <2>1. PICK o : o = Object(t, dns[t].id, dns[t].to)
    OBVIOUS
  <2>2. o \in Ours /\ o.what = t /\ o.id = dns[t].id /\ o.to = dns[t].to
    BY <2>1 DEF Ours, Object
  <2>3. o \in NamedIn(publication)
    BY <1>6, <2>2
  <2> QED
    BY <1>3, <2>2, <2>3 DEF NamedIn, Object, Types, Parts
<1>8. NamedAs(parts.host, host)'
  <2> SUFFICES ASSUME host # None, host.by = "cwcli", host.id \notin loose'
               PROVE  parts.host # None /\ parts.host.owned /\ parts.host.id = host.id /\ parts.host.to = host.to
    BY <1>1 DEF NamedAs
  <2>1. PICK o : o = Object("host", host.id, host.to)
    OBVIOUS
  <2>2. o \in Ours /\ o.what = "host" /\ o.id = host.id /\ o.to = host.to
    BY <2>1 DEF Ours, Object
  <2>3. o \in NamedIn(publication)
    BY <1>6, <2>2
  <2> QED
    BY <1>3, <2>2, <2>3 DEF NamedIn, Object, Types, Parts
<1>9. NamedCert(parts.cert)'
  <2> SUFFICES ASSUME cert # None, cert.by = "cwcli", cert.id \notin loose'
               PROVE  parts.cert # None /\ parts.cert.owned /\ parts.cert.id = cert.id
    BY <1>1 DEF NamedCert
  <2>1. PICK o : o = Object("cert", cert.id, None)
    OBVIOUS
  <2>2. o \in Ours /\ o.what = "cert" /\ o.id = cert.id
    BY <2>1 DEF Ours, Object
  <2>3. o \in NamedIn(publication)
    BY <1>6, <2>2
  <2> QED
    BY <1>3, <2>2, <2>3 DEF NamedIn, Object, Types, Parts
<1>10. Book(Parts(publication))'
  <2>1. Parts(publication)' = parts
    BY <1>1, <1>3 DEF Parts
  <2> QED
    BY <1>7, <1>8, <1>9, <2>1 DEF Book
<1>11. Foreign(Parts(publication))'
  <2>1. Foreign(Parts(publication))
    BY <1>1 DEF State
  <2> QED
    BY <1>1, <2>1 DEF Foreign, Noted, Parts
<1> QED
  BY <1>1, <1>2, <1>5, <1>10, <1>11, Over DEF WorldTypes, Publications, world

\* What people do leaves every record as it is, and a new object has a number that none has.
LEMMA Hands ==
  ASSUME State, made' \in {made, made + 1}, UNCHANGED <<publication, op, loose>>
  PROVE  /\ Made \subseteq Made' /\ made' \in Nat /\ made + 1 \notin Made /\ Made \subseteq Nat
         /\ dns \in [Types -> LiveRecords(Made)] /\ host \in Hosts(Made) /\ cert \in LiveCertificates(Made)
         /\ dns \in [Types -> LiveRecords(Made')] /\ host \in Hosts(Made') /\ cert \in LiveCertificates(Made')
         /\ publication' \in Records(Made') \cup {None} /\ op' \in Operations(Made') /\ loose' \subseteq Made'
         /\ Shape' /\ Struck'
         /\ op.phase # "idle" => op # Idle
         /\ \A parts \in {Parts(publication), Parts(op.rec)} :
               /\ \A t \in Types : parts.dns[t] # None => parts.dns[t].id \in Made
               /\ parts.host # None => parts.host.id \in Made
               /\ parts.cert # None => parts.cert.id \in Made
<1>1. Made \subseteq Made' /\ made' \in Nat /\ made + 1 \notin Made /\ Made \subseteq Nat /\ WorldTypes
  BY Grows DEF State
<1>2. LiveRecords(Made) \subseteq LiveRecords(Made') /\ Notes(Made, Addresses) \subseteq Notes(Made', Addresses)
      /\ Certificates(Made) \subseteq Certificates(Made')
  BY <1>1, Wider
<1>3. /\ dns \in [Types -> LiveRecords(Made)] /\ host \in Hosts(Made) /\ cert \in LiveCertificates(Made)
      /\ dns \in [Types -> LiveRecords(Made')] /\ host \in Hosts(Made') /\ cert \in LiveCertificates(Made')
  BY <1>1, <1>2, Wider DEF WorldTypes
<1>4. publication' \in Records(Made') \cup {None} /\ op' \in Operations(Made') /\ loose' \subseteq Made'
  BY <1>1, Wider DEF WorldTypes, Publications
<1>5. Shape'
  <2>1. [Types -> LiveRecords(Made)] \subseteq [Types -> LiveRecords(Made')]
        /\ [Types -> Notes(Made, Addresses)] \subseteq [Types -> Notes(Made', Addresses)]
    BY <1>2
  <2> QED
    BY <1>2, <2>1 DEF State, Shape, Pending
<1>6. Struck'
  BY DEF State, Struck
<1>7. op.phase # "idle" => op # Idle
  BY IdleFacts
<1>8. ASSUME NEW parts \in {Parts(publication), Parts(op.rec)}
      PROVE  /\ \A t \in Types : parts.dns[t] # None => parts.dns[t].id \in Made
             /\ parts.host # None => parts.host.id \in Made
             /\ parts.cert # None => parts.cert.id \in Made
  <2>1. publication \in Records(Made) \cup {None} /\ op.rec \in Records(Made) \cup {None}
    BY <1>1 DEF WorldTypes, Publications, Operations
  <2>2. parts \in [dns : [Types -> Notes(Made, Addresses)], host : Notes(Made, Benches), cert : Certificates(Made)]
    BY <2>1, BlankFacts DEF Parts, Records
  <2> QED
    BY <2>2 DEF Notes, Certificates
<1> QED
  BY <1>1, <1>3, <1>4, <1>5, <1>6, <1>7, <1>8

LEMMA HandRecordKeeps ==
  ASSUME IInv, NEW t \in Types, HandRecord(t)
  PROVE  State'
<1>1. UNCHANGED <<publication, op, loose, host, cert>> /\ State /\ made' \in {made, made + 1}
      /\ (op # Idle => fresh' = fresh \cup {t})
  BY DEF HandRecord, ByHand, Count, IInv
<1>2. Made \subseteq Made' /\ made + 1 \notin Made /\ dns \in [Types -> LiveRecords(Made)]
  BY <1>1, Hands
<1>3. PICK new : /\ dns' = [dns EXCEPT ![t] = new]
                 /\ new = None \/ \E to \in Spots :
                                    /\ new = [id |-> IF dns[t] = None THEN made + 1 ELSE dns[t].id, to |-> to, by |-> "hand"]
                                    /\ dns[t] # None => to = Elsewhere
  BY DEF HandRecord, Spots
<1>4. /\ new \in LiveRecords(Made') /\ (new # None => new.by = "hand")
      /\ new # None => new.id = (IF dns[t] = None THEN made + 1 ELSE dns[t].id)
      /\ new # None /\ dns[t] # None => new.to = Elsewhere
  <2>1. CASE new = None
    BY <2>1 DEF LiveRecords
  <2>2. ASSUME NEW to \in Spots, dns[t] # None => to = Elsewhere,
               new = [id |-> IF dns[t] = None THEN made + 1 ELSE dns[t].id, to |-> to, by |-> "hand"]
        PROVE  /\ new \in LiveRecords(Made') /\ new.by = "hand"
               /\ new.id = (IF dns[t] = None THEN made + 1 ELSE dns[t].id)
               /\ dns[t] # None => new.to = Elsewhere
    <3>1. (IF dns[t] = None THEN made + 1 ELSE dns[t].id) \in Made'
      <4>1. CASE dns[t] = None
        <5>1. made' = made + 1 /\ made \in Nat
          BY <1>1, <4>1 DEF HandRecord, Count, State, WorldTypes
        <5> QED
          BY <4>1, <5>1 DEF Made
      <4>2. CASE dns[t] # None
        BY <1>2, <4>2 DEF LiveRecords
      <4> QED
        BY <4>1, <4>2
    <3> QED
      BY <2>2, <3>1 DEF LiveRecords
  <2> QED
    BY <1>3, <2>1, <2>2
<1>5. dns' \in [Types -> LiveRecords(Made')] /\ dns'[t] = new /\ \A u \in Types \ {t} : dns'[u] = dns[u]
  <2>1. dns \in [Types -> LiveRecords(Made')]
    BY <1>1, Hands
  <2> QED
    BY <1>3, <1>4, <2>1
<1>6. WorldTypes'
  BY <1>1, <1>5, Hands DEF WorldTypes, Publications
<1>7. ASSUME NEW parts, Book(parts) PROVE Book(parts)'
  <2>1. NamedAs(parts.host, host)' /\ NamedCert(parts.cert)'
    BY <1>1, <1>7 DEF Book, NamedAs, NamedCert
  <2>2. ASSUME NEW u \in Types PROVE NamedAs(parts.dns[u], dns[u])'
    <3>1. CASE u = t
      BY <1>4, <1>5, <3>1 DEF NamedAs
    <3>2. CASE u # t
      BY <1>1, <1>5, <1>7, <3>2 DEF Book, NamedAs
    <3> QED
      BY <3>1, <3>2
  <2> QED
    BY <2>1, <2>2 DEF Book
<1>8. ASSUME NEW parts \in {Parts(publication), Parts(op.rec)}, Foreign(parts) PROVE Foreign(parts)'
  <2>1. ASSUME NEW u \in Types, Noted(parts.dns[u], dns'[u]), dns'[u].by = "hand" PROVE dns'[u].to = Elsewhere
    <3>1. parts.dns[u] # None => parts.dns[u].id \in Made
      BY <1>1, Hands
    <3>2. CASE u = t
      BY <1>2, <1>4, <1>5, <2>1, <3>1, <3>2 DEF Noted
    <3>3. CASE u # t
      BY <1>5, <1>8, <2>1, <3>3 DEF Foreign
    <3> QED
      BY <3>2, <3>3
  <2> QED
    BY <1>1, <1>8, <2>1 DEF Foreign, Noted
<1>9. Booked' /\ Foreign(Parts(publication))' /\ Foreign(Parts(op.rec))'
  BY <1>1, <1>7, <1>8 DEF State, Booked, Parts
<1>10. Listed'
  <2> SUFFICES ASSUME op.phase = "write", NEW u \in Types
               PROVE  IF Settled(u)
                      THEN /\ u \notin fresh' => dns'[u] # None /\ dns'[u].to = op.want[u]
                           /\ NamedAs(op.out[u], dns[u])'
                           /\ op.out[u] # None /\ op.out[u].owned => op.out[u] = op.rec.parts.dns[u]
                      ELSE /\ u \notin fresh' \/ (dns'[u] # None /\ dns'[u].by = "cwcli") => dns'[u] = op.seen[u]
                           /\ op.out[u] = None
    BY <1>1 DEF Listed, Settled, Pending
  <2>1. fresh' = fresh \cup {t}
    BY <1>1, Hands
  <2>2. CASE u = t
    BY <1>1, <1>4, <1>5, <2>1, <2>2 DEF State, Listed, NamedAs
  <2>3. CASE u # t
    <3>1. dns'[u] = dns[u]
      BY <1>5, <2>3
    <3> QED
      BY <1>1, <2>1, <3>1 DEF State, Listed, NamedAs
  <2> QED
    BY <2>2, <2>3
<1>11. op.phase # "idle" => fresh' = fresh \cup {t}
  BY <1>1, Hands
<1>12. Found'
  BY <1>1, <1>11 DEF State, Found
<1>13. /\ op.phase # "idle" /\ DnsDone => DnsDone'
       /\ op.phase # "idle" /\ HostDone => HostDone'
       /\ op.phase # "idle" /\ CertDone => CertDone'
  BY <1>1, <1>5, <1>11 DEF DnsDone, HostDone, CertDone
<1>14. Led'
  BY <1>1, <1>13 DEF State, Led, Well
<1> QED
  BY <1>1, <1>6, <1>9, <1>10, <1>12, <1>14, Hands DEF State

LEMMA HandHostKeeps ==
  ASSUME IInv, HandHost
  PROVE  State'
<1>1. UNCHANGED <<publication, op, loose, dns, cert>> /\ State /\ made' \in {made, made + 1}
      /\ (op # Idle => fresh' = fresh \cup {"host"})
  BY DEF HandHost, ByHand, Count, IInv
<1>2. Made \subseteq Made' /\ made + 1 \notin Made /\ host \in Hosts(Made) /\ host \in Hosts(Made')
  BY <1>1, Hands
<1>3. /\ host' \in Hosts(Made') /\ (host' # None => host'.by # "cwcli")
      /\ host' # None => host'.id = (IF host = None THEN made + 1 ELSE host.id)
      /\ host' # None /\ host # None => host'.to = Elsewhere /\ (host'.by = "other" => host.by = "other")
  <2>1. CASE host = None
    <3>1. PICK by \in {"hand", "other"} : host' = [id |-> made + 1, to |-> Elsewhere, by |-> by, cert |-> None]
      BY <2>1 DEF HandHost
    <3>2. made + 1 \in Made'
      <4>1. made' = made + 1 /\ made \in Nat
        BY <1>1, <2>1 DEF HandHost, Count, State, WorldTypes
      <4> QED
        BY <4>1 DEF Made
    <3> QED
      BY <2>1, <3>1, <3>2 DEF Hosts, Spots, Makers
  <2>2. CASE host # None
    <3>1. host \in [id : Made', to : Spots, by : Makers, cert : Made' \cup {None}]
      BY <1>2, <2>2 DEF Hosts
    <3>2. host' \in {None, [host EXCEPT !.to = Elsewhere, !.by = IF @ = "other" THEN @ ELSE "hand"]}
      BY <2>2 DEF HandHost
    <3>3. CASE host' = None
      BY <3>3 DEF Hosts
    <3>4. CASE host' # None
      <4>1. host' = [id |-> host.id, to |-> Elsewhere, by |-> IF host.by = "other" THEN "other" ELSE "hand",
                     cert |-> host.cert]
        BY <3>1, <3>2, <3>4
      <4> QED
        BY <2>2, <3>1, <4>1 DEF Hosts, Spots, Makers
    <3> QED
      BY <3>3, <3>4
  <2> QED
    BY <2>1, <2>2
<1>4. WorldTypes'
  BY <1>1, <1>3, Hands DEF WorldTypes, Publications
<1>5. ASSUME NEW parts, Book(parts) PROVE Book(parts)'
  <2>1. NamedAs(parts.host, host)'
    BY <1>3 DEF NamedAs
  <2> QED
    BY <1>1, <1>5, <2>1 DEF Book, NamedAs, NamedCert
<1>6. ASSUME NEW parts \in {Parts(publication), Parts(op.rec)}, Foreign(parts) PROVE Foreign(parts)'
  <2>1. parts.host # None => parts.host.id \in Made
    BY <1>1, Hands
  <2>2. ASSUME Noted(parts.host, host') PROVE host'.by # "other" /\ (host'.by = "hand" => host'.to = Elsewhere)
    <3>1. host # None /\ Noted(parts.host, host)
      BY <1>2, <1>3, <2>1, <2>2 DEF Noted
    <3> QED
      BY <1>3, <1>6, <2>2, <3>1 DEF Foreign, Noted
  <2> QED
    BY <1>1, <1>6, <2>2 DEF Foreign, Noted
<1>7. Booked' /\ Foreign(Parts(publication))' /\ Foreign(Parts(op.rec))'
  BY <1>1, <1>5, <1>6 DEF State, Booked, Parts
<1>8. op.phase # "idle" => fresh' = fresh \cup {"host"}
  BY <1>1, Hands
<1>9. Listed'
  BY <1>1, <1>8 DEF State, Listed, Settled, Pending, NamedAs
<1>10. Found'
  BY <1>1, <1>8 DEF State, Found
<1>11. /\ op.phase # "idle" /\ DnsDone => DnsDone'
       /\ op.phase # "idle" => HostDone' /\ CertDone'
  BY <1>1, <1>8 DEF DnsDone, HostDone, CertDone
<1>12. Led'
  BY <1>1, <1>11 DEF State, Led, Well
<1> QED
  BY <1>1, <1>4, <1>7, <1>9, <1>10, <1>12, Hands DEF State

LEMMA HandCertificateKeeps ==
  ASSUME IInv, HandCertificate
  PROVE  State'
<1>1. UNCHANGED <<publication, op, loose, dns, host>> /\ State /\ made' \in {made, made + 1}
      /\ (op # Idle => fresh' = fresh \cup {"cert"})
  BY DEF HandCertificate, ByHand, Count, IInv
<1>2. Made \subseteq Made' /\ made + 1 \notin Made
  BY <1>1, Hands
<1>3. /\ cert' \in LiveCertificates(Made') /\ (cert' # None => cert'.by # "cwcli" /\ cert'.id \notin Made)
  <2>1. CASE cert = None
    <3>1. PICK by \in {"hand", "other"} : cert' = [id |-> made + 1, by |-> by]
      BY <2>1 DEF HandCertificate
    <3>2. made + 1 \in Made'
      <4>1. made' = made + 1 /\ made \in Nat
        BY <1>1, <2>1 DEF HandCertificate, Count, State, WorldTypes
      <4> QED
        BY <4>1 DEF Made
    <3> QED
      BY <1>2, <3>1, <3>2 DEF LiveCertificates, Makers
  <2>2. CASE cert # None
    BY <2>2 DEF HandCertificate, LiveCertificates
  <2> QED
    BY <2>1, <2>2
<1>4. WorldTypes'
  BY <1>1, <1>3, Hands DEF WorldTypes, Publications
<1>5. ASSUME NEW parts, Book(parts) PROVE Book(parts)'
  BY <1>1, <1>3, <1>5 DEF Book, NamedAs, NamedCert
<1>6. ASSUME NEW parts \in {Parts(publication), Parts(op.rec)}, Foreign(parts) PROVE Foreign(parts)'
  <2>1. parts.cert # None => parts.cert.id \in Made
    BY <1>1, Hands
  <2> QED
    BY <1>1, <1>3, <1>6, <2>1 DEF Foreign, Noted
<1>7. Booked' /\ Foreign(Parts(publication))' /\ Foreign(Parts(op.rec))'
  BY <1>1, <1>5, <1>6 DEF State, Booked, Parts
<1>8. op.phase # "idle" => fresh' = fresh \cup {"cert"}
  BY <1>1, Hands
<1>9. Listed'
  BY <1>1, <1>8 DEF State, Listed, Settled, Pending, NamedAs
<1>10. Found'
  <2>1. op.phase = "attach" => op.out.id \in Made
    BY <1>1 DEF State, Shape, Certificates
  <2> QED
    BY <1>1, <1>3, <1>8, <2>1 DEF State, Found
<1>11. /\ op.phase # "idle" /\ DnsDone => DnsDone'
       /\ op.phase # "idle" /\ HostDone => HostDone'
       /\ op.phase # "idle" => CertDone'
  BY <1>1, <1>8 DEF DnsDone, HostDone, CertDone
<1>12. Led'
  BY <1>1, <1>11 DEF State, Led, Well
<1> QED
  BY <1>1, <1>4, <1>7, <1>9, <1>10, <1>12, Hands DEF State

\* Settings, integrations and sites are no part of the books.
LEMMA Same ==
  ASSUME State, UNCHANGED <<world, publication, op, loose, fresh, made>>
  PROVE  State'
<1> USE DEF world
<1>1. WorldTypes'
  BY DEF State, WorldTypes, Publications, Made
<1>2. Shape' /\ Struck'
  BY SMTT(60) DEF State, Shape, Pending, Struck, Made
<1>3. Booked' /\ Foreign(Parts(publication))' /\ Foreign(Parts(op.rec))'
  BY DEF State, Booked, Book, NamedAs, NamedCert, Foreign, Noted, Parts
<1>4. Listed'
  BY DEF State, Listed, Settled, Pending, NamedAs
<1>5. Found'
  BY DEF State, Found
<1>6. Led'
  BY DEF State, Led, Well, DnsDone, HostDone, CertDone
<1> QED
  BY <1>1, <1>2, <1>3, <1>4, <1>5, <1>6 DEF State
-----------------------------------------------------------------------------
(* The invariant holds.                                                      *)

LEMMA Starts ==
  ASSUME Init
  PROVE  IInv
<1>1. /\ dns = Blank.dns /\ host = None /\ cert = None /\ publication = None /\ op = Idle /\ loose = {} /\ made = 0
      /\ want \in Wants /\ on = {"dns", "proxy"} /\ gone = {} /\ fresh = {} /\ ops = 0 /\ faults = 0 /\ hands = 0
  BY DEF Init
<1>2. \A t \in Types : dns[t] = None
  BY <1>1, BlankFacts
<1>3. Bounds
  BY <1>1, PublishAssumption DEF Bounds
<1>4. op.phase = "idle" /\ op.rec = None /\ op \in Operations(Made)
  BY <1>1, IdleFacts
<1>5. WorldTypes
  <2>1. dns \in [Types -> LiveRecords(Made)]
    BY <1>1 DEF Blank, LiveRecords
  <2> QED
    BY <1>1, <1>4, <2>1 DEF WorldTypes, Hosts, LiveCertificates, Publications
<1>6. Shape
  BY <1>1, <1>4 DEF Shape, Publishing
<1>7. Booked /\ Foreign(Parts(publication)) /\ Foreign(Parts(op.rec))
  BY <1>1, <1>2, <1>4, BlankFacts DEF Booked, Book, NamedAs, NamedCert, Foreign, Noted, Parts
<1> QED
  BY <1>3, <1>4, <1>5, <1>6, <1>7 DEF IInv, State, Listed, Found, Led, Well, Struck

LEMMA Keeps ==
  ASSUME IInv, [Next]_vars
  PROVE  IInv'
<1>1. Bounds'
  BY BoundSteps DEF IInv
<1>2. State'
  <2>1. CASE PublishSite
    <3>1. ASSUME NEW b \in Benches, NEW m \in BOOLEAN, NEW a \in BOOLEAN, StartPublish(b, m, a)
          PROVE  State'
      BY <3>1, StartPublishKeeps
    <3> QED
      BY <2>1, <3>1, ListRecordsKeeps, SettleKeeps, WriteKeeps, SurplusKeeps, ProxyKeeps, FindCertificateKeeps,
         AttachKeeps, PutKeeps, VerifyKeeps
         DEF PublishSite
  <2>2. CASE UnpublishSite
    BY <2>2, StartUnpublishKeeps, DropHostKeeps, DropCertKeeps, DropDnsKeeps, CloseKeeps DEF UnpublishSite
  <2>3. CASE Kill
    BY <2>3, KillKeeps
  <2>4. CASE People
    <3>1. CASE Change
      BY <3>1, Same DEF Change, IInv
    <3> QED
      BY <2>4, <3>1, HandRecordKeeps, HandHostKeeps, HandCertificateKeeps DEF People
  <2>5. CASE UNCHANGED vars
    BY <2>5, Same DEF vars, IInv
  <2> QED
    BY <2>1, <2>2, <2>3, <2>4, <2>5 DEF Next
<1> QED
  BY <1>1, <1>2 DEF IInv

LEMMA Invariant == Spec => []IInv
<1>1. Init => IInv
  BY Starts
<1>2. IInv /\ [Next]_vars => IInv'
  BY Keeps
<1> QED
  BY <1>1, <1>2, PTL DEF Spec

-----------------------------------------------------------------------------
(* What follows from it.                                                     *)

\* The variables of a publish or unpublish job, the live objects and the
\* records keep their types, and no number is recorded that was never given.
THEOREM TypeCorrect == Spec => []TypeOK
<1>1. ASSUME IInv PROVE TypeOK
  <2>1. WorldTypes /\ Bounds
    BY <1>1 DEF IInv, State
  <2>2. dns \in [Types -> [id : Made, to : Spots, by : Makers] \cup {None}]
    BY <2>1 DEF WorldTypes, LiveRecords, Makers
  <2>3. /\ host \in [id : Made, to : Spots, by : Makers, cert : Made \cup {None}] \cup {None}
        /\ cert \in [id : Made, by : Makers] \cup {None}
    BY <2>1 DEF WorldTypes, Hosts, LiveCertificates
  <2>4. made \in Nat /\ publication \in Publications /\ op.rec \in Publications /\ loose \subseteq Made
    BY <2>1 DEF WorldTypes, Operations, Publications
  <2> QED
    BY <2>1, <2>2, <2>3, <2>4 DEF TypeOK, Bounds
<1> QED
  BY <1>1, Invariant, PTL

\* Whatever cwcli made for the name is named by its record, or by the record
\* of the job under way, exactly as it is, unless cwcli had to let it go:
\* through failed steps, retries, moves, kills and partial removals.
THEOREM MadeIsNamed == Spec => []NamedUntilRemoved
<1>1. ASSUME IInv PROVE NamedUntilRemoved
  <2>1. PICK rec : rec = (IF op.phase = "idle" THEN publication ELSE op.rec)
    OBVIOUS
  <2>2. Book(Parts(rec)) /\ rec \in {publication, op.rec}
    BY <1>1, <2>1 DEF IInv, State, Booked
  <2>3. ASSUME NEW o \in NamedIn(rec) PROVE o \in NamedIn(publication) \cup NamedIn(op.rec)
    BY <2>2, SMTT(60)
  <2>4. ASSUME NEW t \in Types, dns[t] # None, dns[t].by = "cwcli"
        PROVE  dns[t].id \in loose \/ Object(t, dns[t].id, dns[t].to) \in NamedIn(rec)
    <3>1. NamedAs(Parts(rec).dns[t], dns[t])
      BY <2>2, SMTT(60) DEF Book
    <3> QED
      BY <2>4, <3>1, BlankFacts DEF NamedAs, NamedIn, Parts, Object
  <2>5. ASSUME host # None, host.by = "cwcli"
        PROVE  host.id \in loose \/ Object("host", host.id, host.to) \in NamedIn(rec)
    <3>1. NamedAs(Parts(rec).host, host)
      BY <2>2, SMTT(60) DEF Book
    <3> QED
      BY <2>5, <3>1, BlankFacts DEF NamedAs, NamedIn, Parts, Object
  <2>6. ASSUME cert # None, cert.by = "cwcli"
        PROVE  \/ cert.id \in loose \/ Object("cert", cert.id, None) \in NamedIn(rec)
               \/ op.phase = "attach" /\ op.out.id = cert.id
    <3>1. NamedCert(Parts(rec).cert)
      BY <2>2 DEF Book
    <3> QED
      BY <2>6, <3>1, BlankFacts DEF NamedCert, NamedIn, Parts, Object
  <2>7. ASSUME NEW o \in Ours
        PROVE  \/ o.id \in loose
               \/ o \in NamedIn(publication) \cup NamedIn(op.rec)
               \/ op.phase = "attach" /\ o.what = "cert" /\ op.out.id = o.id
    <3>1. CASE \E t \in Types : dns[t] # None /\ dns[t].by = "cwcli" /\ o = Object(t, dns[t].id, dns[t].to)
      <4>1. PICK t \in Types : dns[t] # None /\ dns[t].by = "cwcli" /\ o = Object(t, dns[t].id, dns[t].to)
        BY <3>1
      <4>2. o.id = dns[t].id
        BY <4>1 DEF Object
      <4> QED
        BY <2>3, <2>4, <4>1, <4>2
    <3>2. CASE host # None /\ host.by = "cwcli" /\ o = Object("host", host.id, host.to)
      <4>1. o.id = host.id
        BY <3>2 DEF Object
      <4> QED
        BY <2>3, <2>5, <3>2, <4>1
    <3>3. CASE cert # None /\ cert.by = "cwcli" /\ o = Object("cert", cert.id, None)
      <4>1. o.id = cert.id /\ o.what = "cert"
        BY <3>3 DEF Object
      <4> QED
        BY <2>3, <2>6, <3>3, <4>1
    <3> QED
      BY <3>1, <3>2, <3>3 DEF Ours
  <2> QED
    BY <2>7 DEF NamedUntilRemoved
<1> QED
  BY <1>1, Invariant, PTL

\* A job overwrites or removes no record that people made or changed before it
\* began, no certificate of another user and no host of theirs; of hosts that
\* people made it takes only one that it did not know.
THEOREM OthersLeftAlone == Spec => ForeignUntouched
<1> DEFINE Untouched ==
      /\ \A t \in Types \ fresh : dns[t] # None /\ dns[t].by = "hand" => dns'[t] = dns[t]
      /\ host # None /\ host' # host /\ "host" \notin fresh =>
            host.by = "cwcli" \/ (host.by = "hand" /\ ~Noted(op.rec.parts.host, host))
      /\ cert # None /\ cert.by = "other" => cert' = cert
<1>1. ASSUME IInv, Next, hands' = hands PROVE Untouched
  <2>1. ASSUME UNCHANGED world PROVE Untouched
    BY <2>1 DEF world
  <2>2. ASSUME op.phase # "idle"
        PROVE  /\ op.rec \in Records(Made) /\ Foreign(op.rec.parts)
               /\ \A t \in Types : op.rec.parts.dns[t] \in Notes(Made, Addresses)
               /\ op.rec.parts.host \in Notes(Made, Benches) /\ op.rec.owner \in Benches
               /\ dns \in [Types -> LiveRecords(Made)]
               /\ host # None => host.by \in Makers
    <3>1. op.rec \in Records(Made) /\ Foreign(op.rec.parts)
      BY <1>1, <2>2 DEF IInv, State, WorldTypes, Shape, Operations, Parts
    <3> QED
      BY <1>1, <3>1 DEF IInv, State, WorldTypes, Hosts, Records
  <2>3. Elsewhere \notin Addresses /\ Elsewhere \notin Benches
    BY PublishAssumption
  <2>4. CASE Write
    <3>1. op.phase = "write" /\ UNCHANGED <<host, cert>> /\ op.todo \in Todos /\ op.todo # <<>>
      BY <1>1, <2>4 DEF Write, Step, IInv, State, WorldTypes, Operations
    <3>2. PICK t \in Types : t = Head(op.todo) /\ Pending(t)
      BY <3>1, TodoFacts
    <3>3. /\ Decide(t) \in {"create", "update"}
          /\ \/ dns' = dns
             \/ Decide(t) = "create" /\ dns[t] = None /\ dns' = [dns EXCEPT ![t] = Record(made + 1, t)]
             \/ Decide(t) = "update" /\ dns' = [dns EXCEPT ![t] = Record(op.seen[t].id, t)]
      BY <2>4, <3>2, Zenon DEF Write, Happens
    <3>4. ASSUME t \notin fresh, dns[t] # None, dns[t].by = "hand", Decide(t) = "update" PROVE FALSE
      <4>1. dns[t] = op.seen[t]
        BY <1>1, <3>1, <3>2, <3>4 DEF IInv, State, Listed, Settled
      <4>2. Noted(op.rec.parts.dns[t], dns[t]) /\ dns[t].to = op.rec.parts.dns[t].to
        BY <3>4, <4>1, Decisions
      <4>3. dns[t].to = Elsewhere
        BY <2>2, <3>1, <3>4, <4>2 DEF Foreign
      <4> QED
        BY <2>2, <2>3, <3>1, <4>2, <4>3 DEF Notes, Noted
    <3>5. \A u \in Types \ fresh : dns[u] # None /\ dns[u].by = "hand" => dns'[u] = dns[u]
      BY <2>2, <3>1, <3>3, <3>4
    <3> QED
      BY <3>1, <3>5, SMTT(60)
  <2>5. CASE Surplus
    <3>1. op.phase = "write" /\ UNCHANGED <<host, cert>> /\ op.todo = <<>>
      BY <2>5 DEF Surplus, Step
    <3>2. PICK note, live : note = op.rec.parts.dns["AAAA"] /\ live = op.seen["AAAA"]
      OBVIOUS
    <3>3. \/ dns' = dns
          \/ /\ op.want["AAAA"] = None /\ Noted(note, live) /\ live.to = note.to
             /\ dns' = [dns EXCEPT !["AAAA"] = None]
      BY <2>5, <3>2, Zenon DEF Surplus
    <3>4. ASSUME "AAAA" \notin fresh, dns["AAAA"] # None, dns["AAAA"].by = "hand",
                 op.want["AAAA"] = None, Noted(note, live), live.to = note.to
          PROVE  FALSE
      <4>1. dns["AAAA"] = live
        BY <1>1, <3>1, <3>2, <3>4, SMTT(60) DEF IInv, State, Listed, Settled, Types
      <4>2. dns["AAAA"].to = Elsewhere
        BY <2>2, <3>1, <3>2, <3>4, <4>1 DEF Foreign, Types
      <4>3. note \in Notes(Made, Addresses)
        BY <2>2, <3>1, <3>2 DEF Types
      <4> QED
        BY <2>3, <3>4, <4>1, <4>2, <4>3 DEF Notes, Noted
    <3>5. \A u \in Types \ fresh : dns[u] # None /\ dns[u].by = "hand" => dns'[u] = dns[u]
      BY <2>2, <3>1, <3>3, <3>4
    <3> QED
      BY <3>1, <3>5, SMTT(60)
  <2>6. CASE Proxy
    <3>1. op.phase = "proxy" /\ UNCHANGED <<dns, cert>>
      BY <2>6 DEF Proxy, Step
    <3>2. PICK note : note = op.rec.parts.host
      OBVIOUS
    <3>3. host' = host \/ host = None \/ ~IF Noted(note, host) THEN host.to \notin {note.to, op.rec.owner} ELSE host.by = "other"
      BY <2>6, <3>2, Zenon DEF Proxy, Happens
    <3>4. ASSUME host # None, host' # host PROVE host.by = "cwcli" \/ (host.by = "hand" /\ ~Noted(note, host))
      <4>1. CASE Noted(note, host)
        <5>1. host.to \in Benches
          BY <2>2, <3>1, <3>2, <3>3, <3>4, <4>1 DEF Notes, Noted
        <5> QED
          BY <2>2, <2>3, <3>1, <3>2, <3>4, <4>1, <5>1 DEF Foreign, Makers
      <4>2. CASE ~Noted(note, host)
        BY <2>2, <3>1, <3>3, <3>4, <4>2 DEF Makers
      <4> QED
        BY <4>1, <4>2
    <3> QED
      BY <3>1, <3>2, <3>4
  <2>7. CASE FindCertificate
    <3>1. UNCHANGED <<dns, host>> /\ (cert # None => cert' = cert)
      BY <2>7, Zenon DEF FindCertificate
    <3> QED
      BY <3>1
  <2>8. CASE Attach
    <3>1. op.phase = "attach" /\ UNCHANGED <<dns, cert>>
      BY <2>8 DEF Attach, Step
    <3>2. HostDone
      BY <1>1, <3>1 DEF IInv, State, Led
    <3> QED
      BY <3>1, <3>2 DEF HostDone
  <2>9. CASE DropHost
    <3>1. op.phase = "dropHost" /\ UNCHANGED <<dns, cert>>
      BY <2>9 DEF DropHost, Step
    <3>2. PICK note : note = op.rec.parts.host
      OBVIOUS
    <3>3. host' = host \/ (Noted(note, host) /\ host.to = note.to)
      BY <2>9, <3>2, Zenon DEF DropHost
    <3>4. ASSUME host # None, host' # host PROVE host.by = "cwcli"
      BY <2>2, <2>3, <3>1, <3>2, <3>3, <3>4 DEF Notes, Noted, Foreign, Makers
    <3> QED
      BY <3>1, <3>4
  <2>10. CASE DropCert
    <3>1. op.phase = "dropCert" /\ UNCHANGED <<dns, host>>
      BY <2>10 DEF DropCert, Step
    <3>2. PICK note : note = op.rec.parts.cert
      OBVIOUS
    <3>3. cert' = cert \/ (note # None /\ note.owned /\ cert # None /\ cert.id = note.id)
      BY <2>10, <3>2, ZenonT(60) DEF DropCert
    <3> QED
      BY <2>2, <3>1, <3>2, <3>3, SMTT(60) DEF Foreign
  <2>11. CASE DropDns
    <3>1. op.phase = "dropDns" /\ UNCHANGED <<host, cert>>
      BY <2>11 DEF DropDns, Step
    <3>2. PICK doomed : doomed = {t \in Types : Noted(op.rec.parts.dns[t], dns[t])
                                               /\ dns[t].to = op.rec.parts.dns[t].to}
      OBVIOUS
    <3>3. PICK cleared \in SUBSET doomed : dns' = [t \in Types |-> IF t \in cleared THEN None ELSE dns[t]]
      <4>1. {t \in {t \in Types : op.rec.parts.dns[t] # None /\ op.rec.parts.dns[t].owned} :
               Noted(op.rec.parts.dns[t], dns[t]) /\ dns[t].to = op.rec.parts.dns[t].to} \subseteq doomed
        BY <3>2
      <4> QED
        BY <2>11, <4>1 DEF DropDns
    <3>4. ASSUME NEW t \in Types, dns[t] # None, dns[t].by = "hand" PROVE t \notin cleared
      <4> SUFFICES ASSUME t \in cleared PROVE FALSE
        OBVIOUS
      <4>1. Noted(op.rec.parts.dns[t], dns[t]) /\ dns[t].to = op.rec.parts.dns[t].to
        BY <3>2
      <4>2. dns[t].to = Elsewhere
        BY <2>2, <3>1, <3>4, <4>1 DEF Foreign
      <4> QED
        BY <2>2, <2>3, <3>1, <4>1, <4>2 DEF Notes, Noted
    <3> QED
      BY <3>1, <3>3, <3>4
  <2>12. CASE (\E b \in Benches, m, a \in BOOLEAN : StartPublish(b, m, a)) \/ StartUnpublish
    BY <2>1, <2>12 DEF StartPublish, StartUnpublish
  <2>13. CASE ListRecords \/ Settle \/ Put \/ Verify \/ Close \/ Kill
    BY <2>1, <2>13 DEF ListRecords, Settle, Put, Verify, Close, Kill
  <2>14. CASE People
    <3>1. hands \in Int
      BY <1>1, PublishAssumption DEF IInv, Bounds
    <3> QED
      BY <1>1, <2>14, <3>1 DEF People, HandRecord, HandHost, HandCertificate, Change, ByHand
  <2> QED
    BY <1>1, <2>4, <2>5, <2>6, <2>7, <2>8, <2>9, <2>10, <2>11, <2>12, <2>13, <2>14 DEF Next, PublishSite, UnpublishSite
<1>2. IInv /\ [Next]_vars => [hands' = hands => Untouched]_vars
  BY <1>1
<1> QED
  BY <1>2, Invariant, PTL DEF Spec, ForeignUntouched

\* A publish that ends without a failed step has led the name to its bench:
\* every record at the address that was asked for, none of cwcli's left over,
\* the host at the bench and with its certificate, but for what people changed
\* while the job ran.
THEOREM PublishLeads == Spec => DoneTrue
<1> DEFINE Done ==
      /\ "dns" \in op.on =>
            \A t \in Types \ fresh :
                IF op.want[t] # None THEN dns[t] # None /\ dns[t].to = op.want[t]
                ELSE dns[t] = None \/ dns[t].by = "hand" \/ dns[t].id \in loose
      /\ "proxy" \in op.on /\ "host" \notin fresh =>
            /\ host # None /\ host.to = op.rec.owner
            /\ "cert" \in fresh \/ (cert # None /\ host.cert = cert.id)
<1>1. ASSUME IInv, op.phase = "verify" PROVE Done
  <2>1. DnsDone /\ ("proxy" \in op.on => HostDone /\ CertDone)
    BY <1>1 DEF IInv, State, Led
  <2> QED
    BY <2>1 DEF DnsDone, HostDone, CertDone
<1>2. IInv /\ [Next]_vars => [op.phase = "verify" /\ op' = Idle /\ faults' = faults => Done]_vars
  BY <1>1
<1> QED
  BY <1>2, Invariant, PTL DEF Spec, DoneTrue

=============================================================================
