--------------------------- MODULE HostLinksProofs ---------------------------
(***************************************************************************)
(* A page never shows a host that the manager has let go, nor what was     *)
(* known of an earlier one of its name, for any number of changes and any  *)
(* length of the stream's queue.                                           *)
(*                                                                         *)
(* The invariant speaks of the frames that wait for a snapshot by what     *)
(* they will do to the page that is taken: each of a page's fields they    *)
(* leave as the snapshot has it, or they set it to something that holds of *)
(* the host the manager knows now.  A manager that forgets its host, or    *)
(* takes another for it, first says so: whatever came before no longer     *)
(* counts.  Links are counted: each is dialled for a change of the store   *)
(* or of the integration, so that one is free when a resync needs it.      *)
(***************************************************************************)
EXTENDS HostLinks, FiniteSetTheorems, SequenceTheorems, WellFoundedInduction, TLAPS

AnyStates == States \cup {"off", None}
AnyData == Facts \cup {None}
AnyRecord == Records \cup {None}
Pages == [state : AnyStates, data : AnyData, live : BOOLEAN]
Frames == [kind : {"link", "data", "removed"}, state : AnyStates, data : AnyData, live : BOOLEAN]

-----------------------------------------------------------------------------
(* What frames do to a page.                                                 *)

\* What a page may show of a host whose record is k, or of none.
OkState(k, s) == s # None => k # None
OkData(k, d) == d # None => k # None /\ d.added = k.added

\* Frames leave a field as the page has it, or set it to what may be shown.
KeepsState(q) == \A b \in Pages : After(b, q).state = b.state
KeepsData(q) == \A b \in Pages : After(b, q).data = b.data
SetsState(k, q) == \E s \in AnyStates : OkState(k, s) /\ \A b \in Pages : After(b, q).state = s
SetsData(k, q) == \E d \in AnyData : OkData(k, d) /\ \A b \in Pages : After(b, q).data = d
Fit(k, q) ==
  /\ \A b \in Pages : After(b, q) \in Pages
  /\ KeepsState(q) \/ SetsState(k, q)
  /\ KeepsData(q) \/ SetsData(k, q)

\* The frames take a page of k to one of j, whatever came before them.
Carried(k, j, frames) ==
  \A q \in Seq(Frames) : Fit(k, q) =>
     /\ Fit(j, q \o frames)
     /\ SetsState(k, q) => SetsState(j, q \o frames)
     /\ SetsData(k, q) => SetsData(j, q \o frames)
     /\ \A s : OkState(k, s) => OkState(j, s) \/ SetsState(j, q \o frames)
     /\ \A d : OkData(k, d) => OkData(j, d) \/ SetsData(j, q \o frames)

-----------------------------------------------------------------------------
(* The inductive invariant.                                                  *)

LinkRecords ==
  [rec : AnyRecord, at : Points, status : States, tell : BOOLEAN, grace : BOOLEAN, woken : BOOLEAN,
   stopped : BOOLEAN, cut : BOOLEAN, heard : 0..MaxTurns \cup {None}, blind : BOOLEAN]

Outside ==
  /\ turns \in 0..MaxTurns /\ writes \in 0..turns
  /\ store \in AnyRecord /\ transport \in BOOLEAN
  /\ remote \in [up : BOOLEAN, key : 0..turns, fact : 0..turns]
Manager ==
  /\ hub \in [link : 0..MaxTurns + 1, off : AnyRecord, data : AnyData, mtime : 0..writes]
  /\ sync \in [at : {"idle", "apply"}, rec : AnyRecord] /\ owed \in BOOLEAN /\ missed \in BOOLEAN
Checks ==
  /\ check \in [at : {"idle", "probe", "set", "tell", "cancel"}, kind : {None, "check", "request"},
                link : 0..MaxTurns + 1, verdict : States \cup {None}, tell : BOOLEAN]
  /\ check.at # "idle" => check.link # 0
  /\ check.at = "set" => check.verdict \in States
Client ==
  /\ client \in [at : {"asked", "viewed", "live"}, view : AnyStates, queue : Seq(Frames)]
  /\ Len(client.queue) <= MaxQueue
  /\ shown \in Pages
Shapes == Outside /\ Manager /\ Checks /\ Client /\ link \in [Links -> LinkRecords]

\* The manager's link is the one that nobody stopped; a frame has been heard.
Wired ==
  /\ hub.link # 0 => hub.off = None /\ link[hub.link].rec # None
  /\ \A l \in Links : link[l].rec # None => link[l].stopped = (l # hub.link)
  /\ \A l \in Links : link[l].at = "frame" => link[l].heard \in 0..MaxTurns

LastKnown == OkData(Known, hub.data)

Paged ==
  /\ Fit(Known, client.queue)
  /\ client.at = "viewed" => OkState(Known, client.view) \/ SetsState(Known, client.queue)
  /\ client.at = "live" => client.queue = <<>> /\ OkState(Known, shown.state) /\ OkData(Known, shown.data)

\* The links that were dialled, one that a resync is about to dial, and one for
\* what the store holds by now.
Cost(b) == IF b THEN 1 ELSE 0
Used == {l \in Links : link[l].rec # None}
Unheld(rec) == ~transport \/ hub.link = 0 \/ Known # rec
Pending == sync.at = "apply" /\ sync.rec # None /\ Unheld(sync.rec)
Coming == store # None /\ IF sync.at = "apply" THEN sync.rec # store ELSE Unheld(store)
Budget == Cardinality(Used) + Cost(Pending) + Cost(Coming) <= turns + 1

IInv == Shapes /\ Wired /\ LastKnown /\ Paged /\ Budget

-----------------------------------------------------------------------------
(* A page and its frames.                                                    *)

\* A set of naturals that is not empty has a least element.
LEMMA LeastElement ==
  ASSUME NEW S \in SUBSET Nat, S # {}
  PROVE  \E x \in S : \A y \in S : x <= y
<1> DEFINE Less == OpToRel(<, Nat)
<1>1. \A x, y \in Nat : y < x => <<y, x>> \in Less
  BY DEF OpToRel
<1>2. IsWellFoundedOn(Less, Nat)
  BY NatLessThanWellFounded, Zenon
<1> HIDE DEF Less
<1>3. \E x \in S : \A y \in S : ~(<<y, x>> \in Less)
  BY <1>2, WFMin
<1>4. PICK x \in S : \A y \in S : ~(<<y, x>> \in Less)
  BY <1>3
<1>5. x \in Nat /\ \A y \in S : y \in Nat
  OBVIOUS
<1>6. \A y \in S : ~(y < x)
  BY <1>1, <1>4, <1>5, Zenon
<1> QED
  BY <1>4, <1>5, <1>6

\* The pages that a page goes through while its frames come.
Course(p, q, f) == f = [i \in 0..Len(q) |-> IF i = 0 THEN p ELSE Applied(f[i - 1], q[i])]

\* There is such a course: if there was none of some length, there would be a
\* least such length.
LEMMA CourseExists ==
  ASSUME NEW p, NEW q \in Seq(Frames)
  PROVE  \E f : Course(p, q, f)
<1> DEFINE Upto(n, f) == f = [i \in 0..n |-> IF i = 0 THEN p ELSE Applied(f[i - 1], q[i])]
           Bad == {n \in 0..Len(q) : ~ \E f : Upto(n, f)}
<1>1. Len(q) \in Nat
  OBVIOUS
<1>2. SUFFICES Bad = {}
  BY <1>1 DEF Course
<1>3. SUFFICES ASSUME Bad # {} PROVE FALSE
  OBVIOUS
<1>4. PICK n \in Bad : \A m \in Bad : n <= m
  <2>1. Bad \in SUBSET Nat
    BY <1>1
  <2> HIDE DEF Bad
  <2> QED
    BY <1>3, <2>1, LeastElement
<1>5. n # 0
  <2>1. Upto(0, [i \in 0..0 |-> p])
    OBVIOUS
  <2> QED
    BY <2>1, <1>4
<1>6. n - 1 \in 0..Len(q) /\ n - 1 \notin Bad /\ n \in 0..Len(q)
  <2>1. n \in 0..Len(q)
    BY <1>4
  <2> HIDE DEF Bad
  <2> QED
    BY <1>1, <1>4, <1>5, <2>1
<1>7. PICK g : Upto(n - 1, g)
  BY <1>6
<1> DEFINE h == [i \in 0..n |-> IF i = n THEN Applied(g[n - 1], q[n]) ELSE g[i]]
<1>8. \A i \in 0..(n - 1) : g[i] = IF i = 0 THEN p ELSE Applied(g[i - 1], q[i])
  BY <1>7
<1>9. \A i \in 0..n : h[i] = IF i = 0 THEN p ELSE Applied(h[i - 1], q[i])
  <2> SUFFICES ASSUME NEW i \in 0..n PROVE h[i] = IF i = 0 THEN p ELSE Applied(h[i - 1], q[i])
    OBVIOUS
  <2>1. CASE i = n
    <3>1. h[i] = Applied(g[i - 1], q[i]) /\ h[i - 1] = g[i - 1]
      BY <1>5, <1>6, <2>1
    <3> QED
      BY <1>5, <2>1, <3>1
  <2>2. CASE i = 0
    BY <1>5, <1>6, <1>8, <2>2
  <2>3. CASE i # n /\ i # 0
    <3>1. h[i] = g[i] /\ h[i - 1] = g[i - 1] /\ i \in 0..(n - 1)
      BY <1>6, <2>3
    <3> QED
      BY <1>8, <2>3, <3>1
  <2> QED
    BY <2>1, <2>2, <2>3
<1> HIDE DEF h
<1>10. h = [i \in 0..n |-> h[i]]
  BY DEF h
<1>11. Upto(n, h)
  BY <1>9, <1>10
<1> QED
  BY <1>4, <1>11

\* After is the end of such a course.
LEMMA AfterIs ==
  ASSUME NEW p, NEW q \in Seq(Frames)
  PROVE  \E f : Course(p, q, f) /\ After(p, q) = f[Len(q)]
<1> DEFINE f == CHOOSE g : g = [i \in 0..Len(q) |-> IF i = 0 THEN p ELSE Applied(g[i - 1], q[i])]
<1>1. Course(p, q, f)
  BY CourseExists, SMTT(60) DEF Course
<1>2. After(p, q) = f[Len(q)]
  BY DEF After
<1> QED
  BY <1>1, <1>2

LEMMA AfterNothing ==
  ASSUME NEW p
  PROVE  After(p, <<>>) = p
<1>1. <<>> \in Seq(Frames) /\ Len(<<>>) = 0
  OBVIOUS
<1>2. PICK f : Course(p, <<>>, f) /\ After(p, <<>>) = f[0]
  BY <1>1, AfterIs
<1> QED
  BY <1>1, <1>2 DEF Course

\* Courses agree where their frames do: else there would be a first page on
\* which they differ.  One frame more is applied last.
LEMMA AfterOneMore ==
  ASSUME NEW p, NEW q \in Seq(Frames), NEW f \in Frames
  PROVE  After(p, q \o <<f>>) = Applied(After(p, q), f)
<1> DEFINE r == q \o <<f>>
           n == Len(q)
<1>1. /\ n \in Nat /\ r \in Seq(Frames) /\ Len(r) = n + 1 /\ r[n + 1] = f
      /\ \A i \in 1..n : r[i] = q[i]
  OBVIOUS
<1>2. PICK g : Course(p, q, g) /\ After(p, q) = g[n]
  BY AfterIs
<1>3. PICK h : Course(p, r, h) /\ After(p, r) = h[n + 1]
  BY <1>1, AfterIs
<1> HIDE DEF r, n
<1>4. \A i \in 0..n : g[i] = IF i = 0 THEN p ELSE Applied(g[i - 1], q[i])
  BY <1>2 DEF Course, n
<1>5. \A i \in 0..(n + 1) : h[i] = IF i = 0 THEN p ELSE Applied(h[i - 1], r[i])
  BY <1>1, <1>3 DEF Course
<1> DEFINE Bad == {i \in 0..n : g[i] # h[i]}
<1>6. Bad = {}
  <2> SUFFICES ASSUME Bad # {} PROVE FALSE
    OBVIOUS
  <2>1. PICK i \in Bad : \A m \in Bad : i <= m
    <3>1. Bad \in SUBSET Nat
      BY <1>1
    <3> HIDE DEF Bad
    <3> QED
      BY <3>1, LeastElement
  <2>2. i # 0
    BY <1>1, <1>4, <1>5, <2>1
  <2>3. i - 1 \in 0..n /\ i - 1 \notin Bad /\ i \in 1..n
    BY <1>1, <2>1, <2>2
  <2>4. g[i - 1] = h[i - 1] /\ r[i] = q[i]
    BY <1>1, <2>3
  <2>5. g[i] = h[i]
    BY <1>1, <1>4, <1>5, <2>2, <2>3, <2>4
  <2> QED
    BY <2>1, <2>5
<1>7. g[n] = h[n]
  BY <1>1, <1>6
<1>8. h[n + 1] = Applied(h[n], f)
  BY <1>1, <1>5
<1> QED
  BY <1>2, <1>3, <1>7, <1>8 DEF r

-----------------------------------------------------------------------------
(* What publishing does to the frames that wait.                             *)

\* One frame changes a page's fields only as its kind says.
LEMMA AppliedFacts ==
  ASSUME NEW p \in Pages, NEW f \in Frames
  PROVE  /\ Applied(p, f) \in Pages
         /\ f.kind = "link" => Applied(p, f).state = f.state /\ Applied(p, f).data = p.data
         /\ f.kind = "data" => Applied(p, f).state = p.state /\ Applied(p, f).data = f.data
         /\ f.kind = "removed" => Applied(p, f) = NoHost
<1>1. CASE f.kind = "link"
  BY <1>1 DEF Applied, Pages, Frames
<1>2. CASE f.kind = "data"
  BY <1>2 DEF Applied, Pages, Frames
<1>3. CASE f.kind = "removed"
  <2>1. Applied(p, f) = NoHost
    BY <1>3 DEF Applied
  <2> QED
    BY <1>3, <2>1 DEF NoHost, Pages, AnyStates, AnyData
<1> QED
  BY <1>1, <1>2, <1>3 DEF Frames

LEMMA FitNothing ==
  ASSUME NEW k
  PROVE  Fit(k, <<>>)
BY AfterNothing DEF Fit, KeepsState, KeepsData

\* A page that is already shown, or taken, gets what the frames bring.
LEMMA FitPage ==
  ASSUME NEW k, NEW q, Fit(k, q), NEW p \in Pages,
         OkState(k, p.state) \/ SetsState(k, q),
         OkData(k, p.data) \/ SetsData(k, q)
  PROVE  /\ After(p, q) \in Pages
         /\ OkState(k, After(p, q).state)
         /\ OkData(k, After(p, q).data)
<1>1. After(p, q) \in Pages
  BY DEF Fit
<1>2. OkState(k, After(p, q).state)
  <2>1. CASE SetsState(k, q)
    BY <2>1 DEF SetsState
  <2>2. CASE KeepsState(q) /\ ~SetsState(k, q)
    BY <2>2 DEF KeepsState
  <2> QED
    BY <2>1, <2>2 DEF Fit
<1>3. OkData(k, After(p, q).data)
  <2>1. CASE SetsData(k, q)
    BY <2>1 DEF SetsData
  <2>2. CASE KeepsData(q) /\ ~SetsData(k, q)
    BY <2>2 DEF KeepsData
  <2> QED
    BY <2>1, <2>2 DEF Fit
<1> QED
  BY <1>1, <1>2, <1>3

\* What frames do to a field when one more comes.
LEMMA OneMore ==
  ASSUME NEW q \in Seq(Frames), NEW f \in Frames, NEW b \in Pages, After(b, q) \in Pages
  PROVE  /\ After(b, q \o <<f>>) \in Pages
         /\ f.kind = "link" => /\ After(b, q \o <<f>>).state = f.state
                               /\ After(b, q \o <<f>>).data = After(b, q).data
         /\ f.kind = "data" => /\ After(b, q \o <<f>>).state = After(b, q).state
                               /\ After(b, q \o <<f>>).data = f.data
         /\ f.kind = "removed" => /\ After(b, q \o <<f>>).state = None
                                  /\ After(b, q \o <<f>>).data = None
<1>1. After(b, q \o <<f>>) = Applied(After(b, q), f)
  BY AfterOneMore
<1> QED
  BY <1>1, AppliedFacts DEF NoHost

\* A frame that says of the host what may be said of it.
LEMMA CarriedFrame ==
  ASSUME NEW k, NEW f \in Frames,
         \/ f.kind = "link" /\ OkState(k, f.state)
         \/ f.kind = "data" /\ OkData(k, f.data)
  PROVE  Carried(k, k, <<f>>)
<1> SUFFICES ASSUME NEW q \in Seq(Frames), Fit(k, q)
             PROVE  /\ Fit(k, q \o <<f>>)
                    /\ SetsState(k, q) => SetsState(k, q \o <<f>>)
                    /\ SetsData(k, q) => SetsData(k, q \o <<f>>)
  BY DEF Carried
<1> DEFINE r == q \o <<f>>
<1>1. \A b \in Pages : After(b, q) \in Pages
  BY DEF Fit
<1>2. f.state \in AnyStates /\ f.data \in AnyData
  BY DEF Frames
<1>3. \A b \in Pages :
         /\ After(b, r) \in Pages
         /\ f.kind = "link" => After(b, r).state = f.state /\ After(b, r).data = After(b, q).data
         /\ f.kind = "data" => After(b, r).state = After(b, q).state /\ After(b, r).data = f.data
  BY <1>1, OneMore
<1> HIDE DEF r
<1>4. CASE f.kind = "link" /\ OkState(k, f.state)
  <2>1. SetsState(k, r)
    BY <1>2, <1>3, <1>4 DEF SetsState
  <2>2. KeepsData(q) => KeepsData(r)
    BY <1>3, <1>4 DEF KeepsData
  <2>3. SetsData(k, q) => SetsData(k, r)
    BY <1>3, <1>4 DEF SetsData
  <2> QED
    BY <1>3, <2>1, <2>2, <2>3 DEF Fit, r
<1>5. CASE f.kind = "data" /\ OkData(k, f.data)
  <2>1. SetsData(k, r)
    BY <1>2, <1>3, <1>5 DEF SetsData
  <2>2. KeepsState(q) => KeepsState(r)
    BY <1>3, <1>5 DEF KeepsState
  <2>3. SetsState(k, q) => SetsState(k, r)
    BY <1>3, <1>5 DEF SetsState
  <2> QED
    BY <1>3, <2>1, <2>2, <2>3 DEF Fit, r
<1> QED
  BY <1>4, <1>5

\* When the manager says that a host is gone, nothing of before counts.
LEMMA CarriedRemoved ==
  ASSUME NEW k, NEW j
  PROVE  Carried(k, j, <<Removed>>)
<1>1. Removed \in Frames /\ Removed.kind = "removed"
  BY DEF Removed, Frames, AnyStates, AnyData
<1>2. SUFFICES ASSUME NEW q \in Seq(Frames), Fit(k, q)
               PROVE  /\ Fit(j, q \o <<Removed>>)
                      /\ SetsState(j, q \o <<Removed>>)
                      /\ SetsData(j, q \o <<Removed>>)
  BY DEF Carried
<1>3. \A b \in Pages : After(b, q) \in Pages
  BY <1>2 DEF Fit
<1>4. \A b \in Pages :
         /\ After(b, q \o <<Removed>>) \in Pages
         /\ After(b, q \o <<Removed>>).state = None
         /\ After(b, q \o <<Removed>>).data = None
  BY <1>1, <1>3, OneMore
<1>5. SetsState(j, q \o <<Removed>>)
  BY <1>4 DEF SetsState, OkState, AnyStates
<1>6. SetsData(j, q \o <<Removed>>)
  BY <1>4 DEF SetsData, OkData, AnyData
<1> QED
  BY <1>4, <1>5, <1>6 DEF Fit

\* Nothing needs to be said when what may be said of the host may be said still.
LEMMA CarriedNothing ==
  ASSUME NEW k, NEW j,
         \A s : OkState(k, s) => OkState(j, s),
         \A d : OkData(k, d) => OkData(j, d)
  PROVE  Carried(k, j, <<>>)
<1> SUFFICES ASSUME NEW q \in Seq(Frames), Fit(k, q)
             PROVE  /\ Fit(j, q)
                    /\ SetsState(k, q) => SetsState(j, q)
                    /\ SetsData(k, q) => SetsData(j, q)
  <2>1. \A q \in Seq(Frames) : q \o <<>> = q
    BY ConcatEmptySeq
  <2> QED
    BY <2>1 DEF Carried
<1>1. SetsState(k, q) => SetsState(j, q)
  BY DEF SetsState
<1>2. SetsData(k, q) => SetsData(j, q)
  BY DEF SetsData
<1> QED
  BY <1>1, <1>2 DEF Fit

LEMMA CarriedThen ==
  ASSUME NEW k, NEW j, NEW i, NEW f \in Seq(Frames), NEW g \in Seq(Frames),
         Carried(k, j, f), Carried(j, i, g)
  PROVE  Carried(k, i, f \o g)
<1> SUFFICES ASSUME NEW q \in Seq(Frames), Fit(k, q)
             PROVE  /\ Fit(i, q \o (f \o g))
                    /\ SetsState(k, q) => SetsState(i, q \o (f \o g))
                    /\ SetsData(k, q) => SetsData(i, q \o (f \o g))
                    /\ \A s : OkState(k, s) => OkState(i, s) \/ SetsState(i, q \o (f \o g))
                    /\ \A d : OkData(k, d) => OkData(i, d) \/ SetsData(i, q \o (f \o g))
  BY DEF Carried
<1>1. PICK r \in Seq(Frames) : r = q \o f
  <2>1. q \o f \in Seq(Frames)
    BY ConcatProperties
  <2> QED
    BY <2>1, Zenon
<1>2. r \o g = q \o (f \o g)
  BY <1>1, ConcatAssociative, SMTT(60)
<1>3. /\ Fit(j, r)
      /\ SetsState(k, q) => SetsState(j, r)
      /\ SetsData(k, q) => SetsData(j, r)
      /\ \A s : OkState(k, s) => OkState(j, s) \/ SetsState(j, r)
      /\ \A d : OkData(k, d) => OkData(j, d) \/ SetsData(j, r)
  BY <1>1 DEF Carried
<1>4. /\ Fit(i, r \o g)
      /\ SetsState(j, r) => SetsState(i, r \o g)
      /\ SetsData(j, r) => SetsData(i, r \o g)
      /\ \A s : OkState(j, s) => OkState(i, s) \/ SetsState(i, r \o g)
      /\ \A d : OkData(j, d) => OkData(i, d) \/ SetsData(i, r \o g)
  BY <1>3 DEF Carried
<1> QED
  BY <1>2, <1>3, <1>4

\* A host's state, and what was last known of it.
LEMMA CarriedTold ==
  ASSUME NEW k, NEW s \in AnyStates, NEW d \in AnyData, OkState(k, s), OkData(k, d)
  PROVE  Told(s, d) \in Seq(Frames) /\ Carried(k, k, Told(s, d))
<1> DEFINE rest == IF Readable(s) THEN <<>> ELSE <<DataFrame(d, FALSE)>>
<1>1. LinkFrame(s) \in Frames /\ LinkFrame(s).kind = "link" /\ LinkFrame(s).state = s
  BY DEF LinkFrame, Frames, AnyData
<1>2. DataFrame(d, FALSE) \in Frames /\ DataFrame(d, FALSE).kind = "data" /\ DataFrame(d, FALSE).data = d
  BY DEF DataFrame, Frames, AnyStates
<1>3. Carried(k, k, <<LinkFrame(s)>>)
  BY <1>1, CarriedFrame
<1>4. rest \in Seq(Frames) /\ Carried(k, k, rest)
  <2>1. CASE Readable(s)
    <3>1. rest = <<>> /\ Carried(k, k, <<>>)
      BY <2>1, CarriedNothing
    <3>2. <<>> \in Seq(Frames)
      OBVIOUS
    <3> HIDE DEF rest
    <3> QED
      BY <3>1, <3>2, Zenon
  <2>2. CASE ~Readable(s)
    <3>1. rest = <<DataFrame(d, FALSE)>> /\ Carried(k, k, <<DataFrame(d, FALSE)>>)
      BY <1>2, <2>2, CarriedFrame
    <3>2. <<DataFrame(d, FALSE)>> \in Seq(Frames)
      <4>1. \A f \in Frames : <<f>> \in Seq(Frames)
        OBVIOUS
      <4> QED
        BY <1>2, <4>1, Zenon
    <3> HIDE DEF rest
    <3> QED
      BY <3>1, <3>2, Zenon
  <2> QED
    BY <2>1, <2>2
<1>5. Told(s, d) = <<LinkFrame(s)>> \o rest
  BY DEF Told
<1>6. <<LinkFrame(s)>> \in Seq(Frames)
  BY <1>1
<1> HIDE DEF rest
<1>7. <<LinkFrame(s)>> \o rest \in Seq(Frames)
  BY <1>4, <1>6
<1> QED
  BY <1>3, <1>4, <1>5, <1>6, <1>7, CarriedThen

-----------------------------------------------------------------------------
(* What a step leaves as it is.                                              *)

\* No link changes hands, and none is stopped.
Alike ==
  /\ link' \in [Links -> LinkRecords]
  /\ \A l \in Links : /\ link'[l].rec = link[l].rec /\ link'[l].stopped = link[l].stopped
                      /\ link'[l].at = "frame" => link'[l].heard \in 0..MaxTurns
SameHub == hub'.link = hub.link /\ hub'.off = hub.off

LEMMA HubLink ==
  ASSUME Shapes, hub.link # 0
  PROVE  hub.link \in Links
BY HostsAssumption DEF Shapes, Manager, Links

LEMMA KnownStays ==
  ASSUME IInv, Alike, SameHub
  PROVE  Wired' /\ Known' = Known /\ Used' = Used
<1>1. Shapes /\ Wired
  BY DEF IInv
<1>2. Known' = Known
  <2>1. CASE hub.link = 0
    BY <2>1 DEF Known, SameHub
  <2>2. CASE hub.link # 0
    BY <1>1, <2>2, HubLink DEF Known, SameHub, Alike
  <2> QED
    BY <2>1, <2>2
<1>3. Used' = Used
  BY DEF Used, Alike
<1>4. Wired'
  <2>1. (hub.link # 0 => hub.off = None /\ link[hub.link].rec # None)'
    <3>1. CASE hub.link = 0
      BY <3>1 DEF SameHub
    <3>2. CASE hub.link # 0
      BY <1>1, <3>2, HubLink DEF Wired, SameHub, Alike
    <3> QED
      BY <3>1, <3>2
  <2>2. (\A l \in Links : link[l].rec # None => link[l].stopped = (l # hub.link))'
    BY <1>1, Zenon DEF Wired, SameHub, Alike
  <2>3. (\A l \in Links : link[l].at = "frame" => link[l].heard \in 0..MaxTurns)'
    BY DEF Alike
  <2> QED
    BY <2>1, <2>2, <2>3, Zenon DEF Wired
<1> QED
  BY <1>2, <1>3, <1>4

LEMMA UsedCounts ==
  IsFiniteSet(Used) /\ Cardinality(Used) \in Nat /\ Cardinality(Used) <= MaxTurns + 1
<1>1. IsFiniteSet(Links) /\ Cardinality(Links) = MaxTurns + 1
  BY HostsAssumption, FS_Interval DEF Links
<1>2. Used \subseteq Links
  BY DEF Used
<1> QED
  BY <1>1, <1>2, FS_Subset, FS_CardinalityType

\* The budget lasts while neither the store nor the resync moves.
LEMMA BudgetStays ==
  ASSUME IInv, SameHub, Known' = Known, Used' = Used, Outside',
         UNCHANGED <<store, transport, sync>>, turns' >= turns
  PROVE  Budget'
<1>1. Pending' = Pending /\ Coming' = Coming
  BY DEF Pending, Coming, Unheld, SameHub
<1>2. Cardinality(Used) \in Nat /\ turns \in Nat /\ turns' \in Nat
  BY UsedCounts DEF IInv, Shapes, Outside
<1>3. Cardinality(Used) + Cost(Pending) + Cost(Coming) <= turns + 1
  BY DEF IInv, Budget
<1>4. Cost(Pending)' = Cost(Pending) /\ Cost(Coming)' = Cost(Coming)
  BY <1>1 DEF Cost
<1>5. Cardinality(Used)' = Cardinality(Used)
  OBVIOUS
<1>6. Cost(Pending) \in Nat /\ Cost(Coming) \in Nat
  BY DEF Cost
<1> QED
  BY <1>2, <1>3, <1>4, <1>5, <1>6 DEF Budget

LEMMA Steady ==
  ASSUME IInv, Alike, SameHub, OkData(Known, hub'.data),
         Outside', Manager', Checks', Known' = Known => Client' /\ Paged',
         UNCHANGED <<store, transport, sync>>, turns' >= turns
  PROVE  IInv'
<1>1. Wired' /\ Known' = Known /\ Used' = Used
  BY KnownStays
<1>2. Budget'
  BY <1>1, BudgetStays
<1>3. LastKnown'
  BY <1>1 DEF LastKnown
<1>4. Shapes'
  BY <1>1 DEF Shapes, Alike
<1> QED
  BY <1>1, <1>2, <1>3, <1>4 DEF IInv

\* The page, and the frames that wait for it, when nothing is published.
LEMMA PageRests ==
  ASSUME IInv, UNCHANGED page, Known' = Known
  PROVE  Client' /\ Paged'
<1>1. Client /\ Paged /\ client' = client /\ shown' = shown
  BY DEF IInv, Shapes, page
<1>2. Client'
  BY <1>1 DEF Client
<1>3. Paged'
  BY <1>1 DEF Paged
<1> QED
  BY <1>2, <1>3

\* And when something is.
LEMMA PagePublishes ==
  ASSUME IInv, NEW frames \in Seq(Frames), Publish(frames), Carried(Known, Known', frames)
  PROVE  Client' /\ Paged'
<1>1. /\ client \in [at : {"asked", "viewed", "live"}, view : AnyStates, queue : Seq(Frames)]
      /\ Len(client.queue) <= MaxQueue /\ shown \in Pages /\ Fit(Known, client.queue)
  BY DEF IInv, Shapes, Client, Paged
<1>2. CASE client.at = "live"
  <2>1. client.queue = <<>> /\ OkState(Known, shown.state) /\ OkData(Known, shown.data)
    BY <1>2 DEF IInv, Paged
  <2>2. client' = client /\ shown' = After(shown, frames)
    BY <1>2 DEF Publish
  <2>3. /\ Fit(Known', <<>> \o frames)
        /\ OkState(Known', shown.state) \/ SetsState(Known', <<>> \o frames)
        /\ OkData(Known', shown.data) \/ SetsData(Known', <<>> \o frames)
    <3>1. <<>> \in Seq(Frames) /\ Fit(Known, <<>>)
      BY FitNothing
    <3> QED
      BY <2>1, <3>1 DEF Carried
  <2>4. <<>> \o frames = frames
    BY ConcatEmptySeq
  <2>5. /\ shown' \in Pages
        /\ OkState(Known', shown'.state)
        /\ OkData(Known', shown'.data)
    BY <1>1, <2>2, <2>3, <2>4, FitPage
  <2>6. Fit(Known', <<>>)
    BY FitNothing
  <2>7. Client'
    BY <1>1, <2>2, <2>5 DEF Client
  <2>8. Paged'
    BY <1>2, <2>1, <2>2, <2>5, <2>6 DEF Paged
  <2> QED
    BY <2>7, <2>8
<1>3. CASE client.at \in {"asked", "viewed"}
  <2>1. /\ client' = [client EXCEPT !.queue = @ \o frames] /\ shown' = shown
        /\ Len(client.queue) + Len(frames) <= MaxQueue
    BY <1>3 DEF Publish, Room
  <2>2. PICK q \in Seq(Frames) : q = client.queue
    BY <1>1
  <2>3. q \o frames \in Seq(Frames) /\ Len(q \o frames) = Len(q) + Len(frames)
    BY ConcatProperties
  <2>4. client'.queue = q \o frames /\ client'.at = client.at /\ client'.view = client.view
    BY <1>1, <2>1, <2>2
  <2>5. Client'
    BY <1>1, <2>1, <2>2, <2>3 DEF Client
  <2>6. /\ Fit(Known', q \o frames)
        /\ SetsState(Known, q) => SetsState(Known', q \o frames)
        /\ \A s : OkState(Known, s) => OkState(Known', s) \/ SetsState(Known', q \o frames)
    BY <1>1, <2>2 DEF Carried
  <2>7. client.at = "viewed" => OkState(Known, client.view) \/ SetsState(Known, q)
    BY <2>2 DEF IInv, Paged
  <2>8. client.at = "viewed" => OkState(Known', client.view) \/ SetsState(Known', q \o frames)
    BY <2>6, <2>7
  <2>9. Paged'
    BY <1>3, <2>4, <2>6, <2>8 DEF Paged
  <2> QED
    BY <2>5, <2>9
<1> QED
  BY <1>1, <1>2, <1>3

-----------------------------------------------------------------------------
(* A link's thread.                                                          *)

\* What a thread may write of its own link.
Own(l, new) ==
  /\ new \in LinkRecords /\ new.rec = link[l].rec /\ new.stopped = link[l].stopped
  /\ new.at = "frame" => new.heard \in 0..MaxTurns

LEMMA OwnAlike ==
  ASSUME IInv, NEW l \in Links, NEW new, Own(l, new), link' = [link EXCEPT ![l] = new]
  PROVE  Alike
<1>1. link \in [Links -> LinkRecords] /\ \A k \in Links : link[k].at = "frame" => link[k].heard \in 0..MaxTurns
  BY DEF IInv, Shapes, Wired
<1>2. link' \in [Links -> LinkRecords] /\ link'[l] = new /\ \A k \in Links : k # l => link'[k] = link[k]
  BY <1>1 DEF Own
<1> QED
  BY <1>1, <1>2 DEF Alike, Own

\* The rest of the daemon when only a link moves.
LEMMA LinkMoves ==
  ASSUME IInv, Alike, UNCHANGED <<settings, remote, manager, check>>,
         turns' \in turns..MaxTurns, Known' = Known => Client' /\ Paged'
  PROVE  IInv'
<1>1. Outside /\ Manager /\ Checks /\ OkData(Known, hub.data)
  BY DEF IInv, Shapes, LastKnown
<1>2. Outside'
  BY <1>1 DEF Outside, settings
<1>3. Manager' /\ SameHub
  BY <1>1 DEF Manager, SameHub, manager, settings
<1>4. Checks'
  BY <1>1 DEF Checks
<1>5. UNCHANGED <<store, transport, sync>> /\ turns' >= turns /\ hub' = hub
  BY <1>1 DEF Outside, manager, settings
<1> QED
  BY <1>1, <1>2, <1>3, <1>4, <1>5, Steady

LEMMA LinkStepHolds ==
  ASSUME IInv, NEW l \in Links, NEW new, LinkStep(l, new), Own(l, new),
         turns' \in turns..MaxTurns, Known' = Known => Client' /\ Paged'
  PROVE  IInv'
<1>1. Alike
  BY OwnAlike DEF LinkStep
<1> QED
  BY <1>1, LinkMoves DEF LinkStep

LEMMA QuietHolds ==
  ASSUME IInv, NEW l \in Links, NEW new, LinkStep(l, new), Own(l, new), Quietly
  PROVE  IInv'
<1>1. turns' \in turns..MaxTurns
  BY HostsAssumption DEF Quietly, IInv, Shapes, Outside
<1>2. Known' = Known => Client' /\ Paged'
  BY PageRests DEF Quietly
<1> QED
  BY <1>1, <1>2, LinkStepHolds

\* What the manager tells of its link holds of the host it knows.
LEMMA TellHolds ==
  ASSUME IInv, NEW l \in Links, Tell(l), Known' = Known
  PROVE  Client' /\ Paged'
<1>1. CASE hub.link # l
  BY <1>1, PageRests DEF Tell
<1>2. CASE hub.link = l
  <2>1. Publish(Told(link[l].status, hub.data))
    BY <1>2 DEF Tell
  <2>2. /\ link[l].status \in AnyStates /\ hub.data \in AnyData
        /\ Known = link[l].rec /\ link[l].rec # None /\ OkData(Known, hub.data)
    BY <1>2 DEF IInv, Shapes, Manager, LinkRecords, AnyStates, Links, Known, Wired, LastKnown
  <2>3. OkState(Known, link[l].status)
    BY <2>2 DEF OkState
  <2>4. PICK frames \in Seq(Frames) : frames = Told(link[l].status, hub.data) /\ Carried(Known, Known, frames)
    BY <2>2, <2>3, CarriedTold, Zenon
  <2>5. Publish(frames) /\ Carried(Known, Known', frames)
    BY <2>1, <2>4, Zenon
  <2> QED
    BY <2>5, PagePublishes
<1> QED
  BY <1>1, <1>2

LEMMA LinkShape ==
  ASSUME IInv, NEW l \in Links
  PROVE  /\ link[l] \in LinkRecords /\ remote.fact \in 0..MaxTurns /\ Answer(link[l].rec) \in States
         /\ link[l].at = "frame" => link[l].heard \in 0..MaxTurns
<1>1. link[l] \in LinkRecords /\ (link[l].at = "frame" => link[l].heard \in 0..MaxTurns)
  BY DEF IInv, Shapes, Wired
<1>2. remote.fact \in 0..MaxTurns
  BY HostsAssumption DEF IInv, Shapes, Outside
<1>3. Answer(link[l].rec) \in States
  BY DEF Answer, States
<1> QED
  BY <1>1, <1>2, <1>3

LEMMA TellOwnHolds ==
  ASSUME IInv, NEW l \in Links, TellOwn(l)
  PROVE  IInv'
<1>1. Own(l, [link[l] EXCEPT !.tell = FALSE])
  BY LinkShape DEF Own, LinkRecords
<1>2. turns' \in turns..MaxTurns
  BY HostsAssumption DEF TellOwn, IInv, Shapes, Outside
<1>3. Known' = Known => Client' /\ Paged'
  BY TellHolds DEF TellOwn
<1>4. LinkStep(l, [link[l] EXCEPT !.tell = FALSE])
  BY DEF TellOwn
<1> QED
  BY <1>1, <1>2, <1>3, <1>4, LinkStepHolds

LEMMA BeginHolds ==
  ASSUME IInv, NEW l \in Links, Begin(l)
  PROVE  IInv'
<1> DEFINE k == IF link[l].grace THEN link[l] ELSE Set(link[l], "connecting")
           new == [k EXCEPT !.at = "probe", !.woken = FALSE]
<1>1. k \in LinkRecords /\ k.rec = link[l].rec /\ k.stopped = link[l].stopped
  BY LinkShape, ZenonT(60) DEF Set, LinkRecords, States
<1>2. Own(l, new)
  <2> HIDE DEF k
  <2> QED
    BY <1>1 DEF Own, LinkRecords, Points
<1>3. LinkStep(l, new) /\ Quietly
  BY DEF Begin
<1> HIDE DEF new
<1> QED
  BY <1>2, <1>3, QuietHolds

LEMMA ProbeHolds ==
  ASSUME IInv, NEW l \in Links, Probe(l)
  PROVE  IInv'
<1> DEFINE verdict == Answer(link[l].rec)
           k == Set(link[l], verdict)
           new == [k EXCEPT !.grace = FALSE, !.blind = FALSE, !.at = IF Readable(verdict) THEN "open" ELSE "wait"]
<1>1. k \in LinkRecords /\ k.rec = link[l].rec /\ k.stopped = link[l].stopped
  BY LinkShape, ZenonT(60) DEF Set, LinkRecords
<1>2. Own(l, new)
  <2> HIDE DEF k
  <2> QED
    BY <1>1, ZenonT(60) DEF Own, LinkRecords, Points
<1>3. LinkStep(l, new) /\ Quietly
  BY DEF Probe
<1> HIDE DEF new
<1> QED
  BY <1>2, <1>3, QuietHolds

LEMMA OpenHolds ==
  ASSUME IInv, NEW l \in Links, Open(l)
  PROVE  IInv'
<1> DEFINE new == IF Readable(Answer(link[l].rec))
                  THEN [link[l] EXCEPT !.at = "stream", !.cut = FALSE, !.heard = None]
                  ELSE [link[l] EXCEPT !.at = "wait", !.grace = ~link[l].stopped]
<1>1. Own(l, new)
  BY LinkShape, ZenonT(60) DEF Own, LinkRecords, Points
<1>2. LinkStep(l, new) /\ Quietly
  BY DEF Open
<1> HIDE DEF new
<1> QED
  BY <1>1, <1>2, QuietHolds

LEMMA HearHolds ==
  ASSUME IInv, NEW l \in Links, Hear(l)
  PROVE  IInv'
<1> DEFINE new == [link[l] EXCEPT !.at = "frame", !.heard = remote.fact]
<1>1. Own(l, new)
  BY LinkShape, ZenonT(60) DEF Own, LinkRecords, Points
<1>2. LinkStep(l, new) /\ Quietly
  BY DEF Hear
<1> HIDE DEF new
<1> QED
  BY <1>1, <1>2, QuietHolds

LEMMA StreamEndsHolds ==
  ASSUME IInv, NEW l \in Links, StreamEnds(l)
  PROVE  IInv'
<1> DEFINE new == [link[l] EXCEPT !.at = "wait", !.grace = ~link[l].stopped]
<1>1. Own(l, new)
  BY LinkShape, ZenonT(60) DEF Own, LinkRecords, Points
<1>2. LinkStep(l, new) /\ Quietly
  BY DEF StreamEnds
<1> HIDE DEF new
<1> QED
  BY <1>1, <1>2, QuietHolds

LEMMA EndsHolds ==
  ASSUME IInv, NEW l \in Links, Ends(l)
  PROVE  IInv'
<1> DEFINE new == [link[l] EXCEPT !.at = "gone"]
<1>1. Own(l, new)
  BY LinkShape DEF Own, LinkRecords, Points
<1>2. LinkStep(l, new) /\ Quietly
  BY DEF Ends
<1> HIDE DEF new
<1> QED
  BY <1>1, <1>2, QuietHolds

LEMMA DropHolds ==
  ASSUME IInv, NEW l \in Links, Drop(l)
  PROVE  IInv'
<1> DEFINE new == [link[l] EXCEPT !.cut = TRUE]
<1>1. Own(l, new)
  BY LinkShape DEF Own, LinkRecords
<1>2. LinkStep(l, new) /\ UNCHANGED page /\ Turn
  BY DEF Drop
<1> HIDE DEF new
<1>3. turns' \in turns..MaxTurns
  BY <1>2, HostsAssumption DEF Turn, IInv, Shapes, Outside
<1>4. Known' = Known => Client' /\ Paged'
  BY <1>2, PageRests
<1> QED
  BY <1>1, <1>2, <1>3, <1>4, LinkStepHolds

\* A frame is of the host as the link was told of it; the manager hears only its
\* own link.
LEMMA FrameHolds ==
  ASSUME IInv, NEW l \in Links, Frame(l)
  PROVE  IInv'
<1> DEFINE new == [link[l] EXCEPT !.at = "stream"]
           data == [added |-> link[l].rec.added, fact |-> link[l].heard]
<1>1. Own(l, new) /\ link' = [link EXCEPT ![l] = new]
  BY LinkShape DEF Own, LinkRecords, Points, Frame
<1>2. Alike
  <2> HIDE DEF new
  <2> QED
    BY <1>1, OwnAlike
<1>3. turns' \in turns..MaxTurns
  BY HostsAssumption DEF Frame, IInv, Shapes, Outside
<1>4. CASE hub.link # l
  <2>1. UNCHANGED <<settings, remote, manager, check, page>>
    BY <1>4 DEF Frame, manager
  <2>2. Known' = Known => Client' /\ Paged'
    BY <2>1, PageRests
  <2> QED
    BY <1>2, <1>3, <2>1, <2>2, LinkMoves
<1>5. CASE hub.link = l
  <2>1. /\ link[l].rec \in Records /\ Known = link[l].rec /\ Known # None
        /\ link[l].heard \in 0..MaxTurns
    BY <1>5, LinkShape DEF IInv, Wired, LinkRecords, AnyRecord, Known, Links, Frame, Steps
  <2>2. data \in AnyData /\ OkData(Known, data)
    BY <2>1 DEF AnyData, Facts, Records, OkData
  <2>3. hub' = [hub EXCEPT !.data = data] /\ Publish(<<DataFrame(data, TRUE)>>)
    BY <1>5 DEF Frame
  <2>4. UNCHANGED <<settings, remote, sync, owed, missed, check, turns>>
    BY DEF Frame
  <2> HIDE DEF data
  <2>5. Outside' /\ Checks'
    BY <2>4 DEF IInv, Shapes, Outside, Checks, settings
  <2>6. Manager' /\ SameHub /\ hub'.data = data
    BY <2>2, <2>3, <2>4 DEF IInv, Shapes, Manager, SameHub, settings
  <2>7. Known' = Known => Client' /\ Paged'
    <3>1. PICK f \in Frames : f = DataFrame(data, TRUE) /\ f.kind = "data" /\ f.data = data
      <4>1. /\ DataFrame(data, TRUE) \in Frames
            /\ DataFrame(data, TRUE).kind = "data" /\ DataFrame(data, TRUE).data = data
        BY <2>2 DEF DataFrame, Frames, AnyStates
      <4> QED
        BY <4>1, Zenon
    <3>2. Carried(Known, Known, <<f>>)
      BY <2>2, <3>1, CarriedFrame
    <3>3. <<f>> \in Seq(Frames)
      OBVIOUS
    <3>4. Publish(<<f>>) /\ Carried(Known, Known', <<f>>)
      BY <1>2, <2>3, <2>6, <3>1, <3>2, KnownStays, Zenon
    <3> QED
      BY <3>3, <3>4, PagePublishes
  <2>8. UNCHANGED <<store, transport, sync>> /\ turns' >= turns
    BY <2>4 DEF settings, IInv, Shapes, Outside
  <2> QED
    BY <1>2, <2>2, <2>5, <2>6, <2>7, <2>8, Steady
<1> QED
  BY <1>4, <1>5

-----------------------------------------------------------------------------
(* Checks and forwarded requests.                                            *)

LEMMA CheckMoves ==
  ASSUME IInv, Alike, Checks', UNCHANGED <<settings, remote, manager>>,
         turns' \in turns..MaxTurns, Known' = Known => Client' /\ Paged'
  PROVE  IInv'
<1>1. Outside /\ Manager /\ OkData(Known, hub.data)
  BY DEF IInv, Shapes, LastKnown
<1>2. Outside'
  BY <1>1 DEF Outside, settings
<1>3. Manager' /\ SameHub
  BY <1>1 DEF Manager, SameHub, manager, settings
<1>4. UNCHANGED <<store, transport, sync>> /\ turns' >= turns /\ hub' = hub
  BY <1>1 DEF Outside, manager, settings
<1> QED
  BY <1>1, <1>2, <1>3, <1>4, Steady

\* The links as they are.
LEMMA LinksRest ==
  ASSUME IInv, UNCHANGED link
  PROVE  Alike
BY DEF Alike, IInv, Shapes, Wired

LEMMA TurnFacts ==
  ASSUME IInv, Turn \/ UNCHANGED turns
  PROVE  turns' \in turns..MaxTurns /\ turns' \in 0..MaxTurns
BY HostsAssumption DEF Turn, IInv, Shapes, Outside

LEMMA CancelledFacts ==
  ASSUME NEW k \in LinkRecords
  PROVE  /\ Cancelled(k) \in LinkRecords /\ Cancelled(k).rec = k.rec /\ Cancelled(k).stopped = k.stopped
         /\ Cancelled(k).at = k.at /\ Cancelled(k).heard = k.heard
BY DEF Cancelled, LinkRecords

LEMMA StartCheckHolds ==
  ASSUME IInv, StartCheck
  PROVE  IInv'
<1>1. hub.link \in Links /\ hub.link \in 0..MaxTurns + 1 /\ hub.link # 0
  BY HubLink DEF StartCheck, IInv, Shapes, Manager
<1>2. turns' \in turns..MaxTurns /\ (Known' = Known => Client' /\ Paged')
  BY TurnFacts, PageRests DEF StartCheck
<1>3. UNCHANGED <<settings, remote, manager>>
  BY DEF StartCheck, CheckStep
<1>4. CASE Readable(link[hub.link].status)
  <2>1. check' = [Busy EXCEPT !.at = "probe", !.kind = "check", !.link = hub.link] /\ UNCHANGED link
    BY <1>4 DEF StartCheck, CheckStep
  <2>2. Checks'
    BY <1>1, <2>1 DEF Checks, Busy
  <2> QED
    BY <1>2, <1>3, <2>1, <2>2, LinksRest, CheckMoves
<1>5. CASE ~Readable(link[hub.link].status)
  <2> DEFINE new == Cancelled([link[hub.link] EXCEPT !.grace = FALSE, !.woken = TRUE])
  <2>1. check' = check /\ link' = [link EXCEPT ![hub.link] = new]
    BY <1>5 DEF StartCheck, CheckStep
  <2>2. Own(hub.link, new)
    <3>1. PICK k \in LinkRecords : /\ k = [link[hub.link] EXCEPT !.grace = FALSE, !.woken = TRUE]
                                   /\ k.rec = link[hub.link].rec /\ k.stopped = link[hub.link].stopped
                                   /\ k.at = "frame" => k.heard \in 0..MaxTurns
      <4> DEFINE k == [link[hub.link] EXCEPT !.grace = FALSE, !.woken = TRUE]
      <4>1. /\ k \in LinkRecords /\ k.rec = link[hub.link].rec /\ k.stopped = link[hub.link].stopped
            /\ k.at = "frame" => k.heard \in 0..MaxTurns
        BY <1>1, LinkShape, ZenonT(60) DEF LinkRecords
      <4> QED
        BY <4>1, Zenon
    <3> QED
      BY <3>1, CancelledFacts DEF Own
  <2> HIDE DEF new
  <2>3. Checks'
    BY <2>1 DEF IInv, Shapes, Checks
  <2> QED
    BY <1>1, <1>2, <1>3, <2>1, <2>2, <2>3, OwnAlike, CheckMoves
<1> QED
  BY <1>4, <1>5

LEMMA StartRequestHolds ==
  ASSUME IInv, StartRequest
  PROVE  IInv'
<1>1. hub.link \in 0..MaxTurns + 1 /\ hub.link # 0
  BY DEF StartRequest, IInv, Shapes, Manager
<1>2. turns' \in turns..MaxTurns /\ (Known' = Known => Client' /\ Paged')
  BY TurnFacts, PageRests DEF StartRequest
<1>3. UNCHANGED <<settings, remote, manager, link>>
  BY DEF StartRequest, CheckStep
<1>4. check' = [Busy EXCEPT !.at = "probe", !.kind = "request", !.link = hub.link]
  BY DEF StartRequest, CheckStep
<1>5. Checks'
  BY <1>1, <1>4 DEF Checks, Busy
<1> QED
  BY <1>2, <1>3, <1>5, LinksRest, CheckMoves

LEMMA AnsweredHolds ==
  ASSUME IInv, Answered
  PROVE  IInv'
<1> DEFINE verdict == Answer(link[check.link].rec)
<1>1. /\ check' = IF check.kind = "check" \/ verdict = "host_key_changed"
                  THEN [check EXCEPT !.at = "set", !.verdict = verdict] ELSE Busy
      /\ check.at = "probe" /\ UNCHANGED <<settings, remote, manager, link, page, turns>>
  BY DEF Answered, CheckStep
<1>2. verdict \in States
  BY DEF Answer, States
<1> HIDE DEF verdict
<1>3. Checks'
  <2>1. CASE check.kind = "check" \/ verdict = "host_key_changed"
    BY <1>1, <1>2, <2>1 DEF IInv, Shapes, Checks
  <2>2. CASE ~(check.kind = "check" \/ verdict = "host_key_changed")
    <3>1. check' = Busy
      BY <1>1, <2>2
    <3> QED
      BY <3>1, HostsAssumption DEF Checks, Busy
  <2> QED
    BY <2>1, <2>2
<1>4. turns' \in turns..MaxTurns /\ (Known' = Known => Client' /\ Paged')
  BY <1>1, TurnFacts, PageRests
<1> QED
  BY <1>1, <1>3, <1>4, LinksRest, CheckMoves

LEMMA CheckLink ==
  ASSUME IInv, check.at # "idle"
  PROVE  check.link \in Links
BY HostsAssumption DEF IInv, Shapes, Checks, Links

LEMMA JudgeHolds ==
  ASSUME IInv, Judge
  PROVE  IInv'
<1> DEFINE l == check.link
           new == [link[l] EXCEPT !.status = check.verdict]
<1>1. /\ check.at = "set" /\ link' = [link EXCEPT ![l] = new]
      /\ check' = [check EXCEPT !.at = "tell", !.tell = link[l].status # check.verdict]
      /\ UNCHANGED <<settings, remote, manager, page, turns>>
  BY DEF Judge, CheckStep
<1>2. l \in Links /\ check.verdict \in States
  BY <1>1, CheckLink DEF IInv, Shapes, Checks
<1>3. Own(l, new)
  BY <1>2, LinkShape DEF Own, LinkRecords
<1>4. Checks'
  BY <1>1 DEF IInv, Shapes, Checks
<1> HIDE DEF l, new
<1>5. turns' \in turns..MaxTurns /\ (Known' = Known => Client' /\ Paged')
  BY <1>1, TurnFacts, PageRests
<1> QED
  BY <1>1, <1>2, <1>3, <1>4, <1>5, OwnAlike, CheckMoves

LEMMA TellVerdictHolds ==
  ASSUME IInv, TellVerdict
  PROVE  IInv'
<1>1. /\ check.at = "tell" /\ UNCHANGED <<settings, remote, manager, link, turns>>
      /\ check' = IF check.kind = "check" /\ ~Readable(check.verdict) THEN [check EXCEPT !.at = "cancel"] ELSE Busy
  BY DEF TellVerdict, CheckStep
<1>2. Checks'
  BY <1>1, HostsAssumption DEF IInv, Shapes, Checks, Busy
<1>3. Known' = Known => Client' /\ Paged'
  <2>1. CASE check.tell
    BY <1>1, <2>1, CheckLink, TellHolds DEF TellVerdict
  <2>2. CASE ~check.tell
    BY <2>2, PageRests DEF TellVerdict
  <2> QED
    BY <2>1, <2>2
<1>4. turns' \in turns..MaxTurns
  BY <1>1, TurnFacts
<1> QED
  BY <1>1, <1>2, <1>3, <1>4, LinksRest, CheckMoves

LEMMA CancelHolds ==
  ASSUME IInv, Cancel
  PROVE  IInv'
<1> DEFINE l == check.link
           new == [Cancelled(link[l]) EXCEPT !.blind = (link[l].at = "open")]
<1>1. /\ check.at = "cancel" /\ link' = [link EXCEPT ![l] = new] /\ check' = Busy
      /\ UNCHANGED <<settings, remote, manager, page, turns>>
  BY DEF Cancel, CheckStep
<1>2. l \in Links
  BY <1>1, CheckLink
<1>3. Own(l, new)
  <2>1. PICK k \in LinkRecords : k = Cancelled(link[l]) /\ k.rec = link[l].rec /\ k.stopped = link[l].stopped
                                 /\ (k.at = "frame" => k.heard \in 0..MaxTurns)
    <3> DEFINE k == Cancelled(link[l])
    <3>1. /\ k \in LinkRecords /\ k.rec = link[l].rec /\ k.stopped = link[l].stopped
          /\ k.at = "frame" => k.heard \in 0..MaxTurns
      BY <1>2, LinkShape, CancelledFacts
    <3> QED
      BY <3>1, Zenon
  <2> QED
    BY <2>1 DEF Own, LinkRecords
<1>4. Checks'
  BY <1>1, HostsAssumption DEF Checks, Busy
<1> HIDE DEF l, new
<1>5. turns' \in turns..MaxTurns /\ (Known' = Known => Client' /\ Paged')
  BY <1>1, TurnFacts, PageRests
<1> QED
  BY <1>1, <1>2, <1>3, <1>4, <1>5, OwnAlike, CheckMoves

-----------------------------------------------------------------------------
(* The page's stream.                                                        *)

LEMMA SeenHolds ==
  ASSUME IInv, PageStep, Turn \/ UNCHANGED turns, Known' = Known => Client' /\ Paged'
  PROVE  IInv'
<1>1. UNCHANGED <<settings, remote, link, manager, check>>
  BY DEF PageStep
<1>2. turns' \in turns..MaxTurns
  BY TurnFacts
<1> QED
  BY <1>1, <1>2, LinksRest, LinkMoves

LEMMA ConnectHolds ==
  ASSUME IInv, Connect
  PROVE  IInv'
<1>1. client' = [at |-> "asked", view |-> None, queue |-> <<>>] /\ shown' = shown /\ PageStep /\ Turn
  BY DEF Connect
<1>2. Client'
  BY <1>1, HostsAssumption DEF IInv, Shapes, Client, AnyStates
<1>3. Paged'
  BY <1>1, FitNothing DEF Paged
<1> QED
  BY <1>1, <1>2, <1>3, SeenHolds

\* The state that a snapshot takes is one of the host the manager knows.
LEMMA ViewHolds ==
  ASSUME IInv, View
  PROVE  IInv'
<1> DEFINE view == IF hub.link # 0 THEN link[hub.link].status ELSE IF hub.off # None THEN "off" ELSE None
<1>1. client' = [client EXCEPT !.at = "viewed", !.view = view] /\ PageStep /\ UNCHANGED <<shown, turns>>
  BY DEF View
<1>2. view \in AnyStates /\ OkState(Known, view)
  <2>1. CASE hub.link # 0
    <3>1. hub.link \in Links
      BY <2>1, HubLink DEF IInv
    <3> QED
      BY <2>1, <3>1, LinkShape DEF IInv, Wired, Known, OkState, AnyStates, LinkRecords
  <2>2. CASE hub.link = 0
    BY <2>2 DEF Known, OkState, AnyStates
  <2> QED
    BY <2>1, <2>2
<1> HIDE DEF view
<1>3. Client'
  BY <1>1, <1>2 DEF IInv, Shapes, Client
<1>4. client'.queue = client.queue /\ client'.at = "viewed" /\ client'.view = view
  BY <1>1 DEF IInv, Shapes, Client
<1>5. Known' = Known => Paged'
  BY <1>2, <1>4 DEF IInv, Paged
<1> QED
  BY <1>1, <1>3, <1>5, SeenHolds

LEMMA SnapshotHolds ==
  ASSUME IInv, Snapshot
  PROVE  IInv'
<1> DEFINE first == IF client.view = None THEN NoHost
                    ELSE [state |-> client.view, data |-> hub.data, live |-> Readable(client.view)]
<1>1. /\ client.at = "viewed" /\ shown' = After(first, client.queue)
      /\ client' = [at |-> "live", view |-> None, queue |-> <<>>] /\ PageStep /\ UNCHANGED turns
  BY DEF Snapshot
<1>2. /\ client.view \in AnyStates /\ hub.data \in AnyData /\ OkData(Known, hub.data) /\ Fit(Known, client.queue)
      /\ OkState(Known, client.view) \/ SetsState(Known, client.queue)
  BY <1>1 DEF IInv, Shapes, Client, Manager, LastKnown, Paged
<1>3. /\ first \in Pages /\ OkData(Known, first.data)
      /\ OkState(Known, first.state) \/ SetsState(Known, client.queue)
  <2>1. CASE client.view = None
    BY <2>1 DEF NoHost, Pages, AnyStates, AnyData, OkData, OkState
  <2>2. CASE client.view # None
    BY <1>2, <2>2 DEF Pages, Readable
  <2> QED
    BY <2>1, <2>2
<1> HIDE DEF first
<1>4. shown' \in Pages /\ OkState(Known, shown'.state) /\ OkData(Known, shown'.data)
  BY <1>1, <1>2, <1>3, FitPage
<1>5. Client'
  BY <1>1, <1>4, HostsAssumption DEF Client, AnyStates
<1>6. Known' = Known => Paged'
  BY <1>1, <1>4, FitNothing DEF Paged
<1> QED
  BY <1>1, <1>5, <1>6, SeenHolds

-----------------------------------------------------------------------------
(* People, other processes and the remote host.                              *)

LEMMA CostFacts ==
  \A b \in BOOLEAN : Cost(b) \in {0, 1} /\ (b <=> Cost(b) = 1)
BY DEF Cost

\* Whoever changes the store or the integration pays for the links it costs.
LEMMA SettingsMove ==
  ASSUME IInv, UNCHANGED <<remote, link, hub, sync, check, page>>, Outside', writes' >= writes,
         owed' \in BOOLEAN, missed' \in BOOLEAN, turns' = turns + 1,
         Pending' = Pending \/ Coming' = Coming
  PROVE  IInv'
<1>1. Alike /\ SameHub /\ hub' = hub
  BY LinksRest DEF SameHub
<1>2. Wired' /\ Known' = Known /\ Used' = Used
  BY <1>1, KnownStays
<1>3. Client' /\ Paged'
  BY <1>2, PageRests
<1>4. writes \in Nat /\ writes' \in Nat /\ turns \in Nat
  BY DEF IInv, Shapes, Outside
<1>5. Manager'
  BY <1>4 DEF IInv, Shapes, Manager
<1>6. Checks'
  BY DEF IInv, Shapes, Checks
<1>7. LastKnown'
  BY <1>1, <1>2 DEF IInv, LastKnown
<1>8. Budget'
  <2>1. Cardinality(Used) + Cost(Pending) + Cost(Coming) <= turns + 1
    BY DEF IInv, Budget
  <2>2. /\ Cost(Pending) \in {0, 1} /\ Cost(Coming) \in {0, 1}
        /\ Cost(Pending') \in {0, 1} /\ Cost(Coming') \in {0, 1}
    BY CostFacts DEF Pending, Coming
  <2>3. Cost(Pending') = Cost(Pending) \/ Cost(Coming') = Cost(Coming)
    OBVIOUS
  <2>4. Cardinality(Used') + Cost(Pending') + Cost(Coming') <= turns' + 1
    BY <1>2, <1>4, <2>1, <2>2, <2>3, UsedCounts
  <2> QED
    BY <2>4 DEF Budget
<1> QED
  BY <1>1, <1>2, <1>3, <1>5, <1>6, <1>7, <1>8 DEF IInv, Shapes, Alike

LEMMA WriteStoreHolds ==
  ASSUME IInv, NEW rec \in AnyRecord, NEW here \in BOOLEAN, WriteStore(rec, here)
  PROVE  IInv'
<1>1. /\ store' = rec /\ writes' = writes + 1 /\ turns' = turns + 1 /\ turns < MaxTurns
      /\ owed' = (owed \/ here) /\ missed' = (missed \/ (~here /\ sync.at = "apply"))
      /\ UNCHANGED <<transport, remote, link, hub, sync, check, page>>
  BY DEF WriteStore, Turn
<1>2. Outside' /\ writes' >= writes
  BY <1>1, HostsAssumption DEF IInv, Shapes, Outside
<1>3. owed' \in BOOLEAN /\ missed' \in BOOLEAN
  BY <1>1 DEF IInv, Shapes, Manager
<1>4. Known' = Known
  BY <1>1 DEF Known
<1>5. Pending' = Pending
  BY <1>1, <1>4 DEF Pending, Unheld
<1> QED
  BY <1>1, <1>2, <1>3, <1>5, SettingsMove

LEMMA PeopleHold ==
  ASSUME IInv, NEW here \in BOOLEAN, AddHost(here) \/ RemoveHost(here) \/ RepinHost(here)
  PROVE  IInv'
<1>1. /\ writes \in Nat /\ writes <= turns /\ turns \in Nat /\ remote.key \in 0..turns
      /\ store \in AnyRecord
  BY DEF IInv, Shapes, Outside
<1>2. CASE AddHost(here)
  <2> DEFINE rec == [added |-> writes + 1, key |-> remote.key]
  <2>1. WriteStore(rec, here) /\ turns < MaxTurns
    BY <1>2 DEF AddHost, WriteStore, Turn
  <2>2. rec \in AnyRecord
    BY <1>1, <2>1, HostsAssumption DEF AnyRecord, Records
  <2> HIDE DEF rec
  <2> QED
    BY <2>1, <2>2, WriteStoreHolds
<1>3. CASE RemoveHost(here)
  BY <1>3, WriteStoreHolds DEF RemoveHost, AnyRecord
<1>4. CASE RepinHost(here)
  <2> DEFINE rec == [store EXCEPT !.key = remote.key]
  <2>1. WriteStore(rec, here) /\ turns < MaxTurns /\ store # None
    BY <1>4 DEF RepinHost, WriteStore, Turn
  <2>2. rec \in AnyRecord
    BY <1>1, <2>1, HostsAssumption DEF AnyRecord, Records
  <2> HIDE DEF rec
  <2> QED
    BY <2>1, <2>2, WriteStoreHolds
<1> QED
  BY <1>2, <1>3, <1>4

LEMMA ToggleHolds ==
  ASSUME IInv, Toggle
  PROVE  IInv'
<1>1. /\ transport' = ~transport /\ owed' = TRUE /\ turns' = turns + 1 /\ turns < MaxTurns
      /\ UNCHANGED <<store, writes, remote, link, hub, sync, missed, check, page>>
  BY DEF Toggle, Turn
<1>2. Outside' /\ writes' >= writes
  BY <1>1, HostsAssumption DEF IInv, Shapes, Outside
<1>3. owed' \in BOOLEAN /\ missed' \in BOOLEAN
  BY <1>1 DEF IInv, Shapes, Manager
<1>4. Pending' = Pending \/ Coming' = Coming
  <2>1. CASE sync.at = "apply"
    BY <1>1, <2>1 DEF Coming
  <2>2. CASE sync.at # "apply"
    BY <1>1, <2>2 DEF Pending
  <2> QED
    BY <2>1, <2>2
<1> QED
  BY <1>1, <1>2, <1>3, <1>4, SettingsMove

LEMMA RemoteHolds ==
  ASSUME IInv, Changes \/ GoesOrComes \/ NewKey
  PROVE  IInv'
<1>1. /\ turns' = turns + 1 /\ turns < MaxTurns /\ UNCHANGED <<settings, manager, check, page>>
      /\ \/ remote' = [remote EXCEPT !.fact = @ + 1]
         \/ remote' = [remote EXCEPT !.up = ~@]
         \/ remote' = [remote EXCEPT !.key = @ + 1]
  BY DEF Changes, GoesOrComes, NewKey, Happens, Turn
<1>2. Outside' /\ turns' >= turns
  <2>1. /\ turns \in Nat /\ turns' \in 0..MaxTurns /\ writes \in 0..turns
        /\ remote \in [up : BOOLEAN, key : 0..turns, fact : 0..turns]
    BY <1>1, HostsAssumption DEF IInv, Shapes, Outside
  <2>2. writes' \in 0..turns' /\ store' \in AnyRecord /\ transport' \in BOOLEAN
    BY <1>1, <2>1 DEF IInv, Shapes, Outside, settings
  <2>3. remote' \in [up : BOOLEAN, key : 0..turns', fact : 0..turns']
    <3>1. CASE remote' = [remote EXCEPT !.fact = @ + 1]
      BY <1>1, <2>1, <3>1
    <3>2. CASE remote' = [remote EXCEPT !.up = ~@]
      <4>1. /\ remote'.up = ~remote.up /\ remote'.key = remote.key /\ remote'.fact = remote.fact
            /\ remote' = [up |-> remote'.up, key |-> remote'.key, fact |-> remote'.fact]
        BY <2>1, <3>2
      <4>2. remote'.up \in BOOLEAN
        BY <4>1, Zenon
      <4>3. remote.key \in 0..turns' /\ remote.fact \in 0..turns'
        BY <1>1, <2>1
      <4> QED
        BY <4>1, <4>2, <4>3, Zenon
    <3>3. CASE remote' = [remote EXCEPT !.key = @ + 1]
      BY <1>1, <2>1, <3>3
    <3> QED
      BY <1>1, <3>1, <3>2, <3>3
  <2> QED
    BY <1>1, <2>1, <2>2, <2>3 DEF Outside
<1>3. Manager' /\ SameHub /\ hub' = hub
  BY <1>1 DEF IInv, Shapes, Manager, SameHub, manager, settings
<1>4. Checks'
  BY <1>1 DEF IInv, Shapes, Checks
<1>5. Alike
  <2>1. CASE link' = link
    BY <2>1, LinksRest
  <2>2. CASE link' = [l \in Links |-> Cancelled(link[l])]
    BY <2>2, LinkShape, CancelledFacts DEF Alike
  <2> QED
    BY <2>1, <2>2 DEF Changes, GoesOrComes, NewKey
<1>6. OkData(Known, hub.data)
  BY DEF IInv, LastKnown
<1> QED
  BY <1>1, <1>2, <1>3, <1>4, <1>5, <1>6, PageRests, Steady DEF settings, manager

-----------------------------------------------------------------------------
(* resync.                                                                   *)

\* What the store holds by now becomes what a resync is about to dial.
LEMMA ReadStoreHolds ==
  ASSUME IInv, ReadStore
  PROVE  IInv'
<1>1. /\ sync.at = "idle" /\ sync' = [at |-> "apply", rec |-> store] /\ owed' = FALSE /\ missed' = FALSE
      /\ UNCHANGED <<settings, remote, link, hub, check, page, turns>>
  BY DEF ReadStore, Free
<1>2. Alike /\ SameHub /\ hub' = hub
  BY <1>1, LinksRest DEF SameHub
<1>3. Wired' /\ Known' = Known /\ Used' = Used
  BY <1>2, KnownStays
<1>4. Client' /\ Paged'
  BY <1>1, <1>3, PageRests
<1>5. Outside'
  BY <1>1 DEF IInv, Shapes, Outside, settings
<1>6. Manager'
  BY <1>1 DEF IInv, Shapes, Manager, Outside, settings
<1>7. Checks' /\ LastKnown'
  BY <1>1, <1>2, <1>3 DEF IInv, Shapes, Checks, LastKnown
<1>8. Budget'
  <2>1. Pending' = Coming
    BY <1>1, <1>3 DEF Pending, Coming, Unheld, settings
  <2>2. Coming' = FALSE /\ Pending = FALSE
    BY <1>1 DEF Coming, Pending, settings
  <2>3. Cardinality(Used) + Cost(Pending) + Cost(Coming) <= turns + 1
    BY DEF IInv, Budget
  <2>4. Cost(FALSE) = 0 /\ Cost(Coming) \in {0, 1}
    BY CostFacts DEF Coming
  <2>5. Cost(Pending') = Cost(Coming) /\ Cost(Coming') = 0 /\ Cost(Pending) = 0
    BY <2>1, <2>2, <2>4, Zenon
  <2>6. turns \in Nat /\ turns' = turns /\ Cardinality(Used') = Cardinality(Used)
    BY <1>1, <1>3 DEF IInv, Shapes, Outside
  <2>7. Cardinality(Used') + Cost(Pending') + Cost(Coming') <= turns' + 1
    BY <2>3, <2>4, <2>5, <2>6, UsedCounts
  <2> QED
    BY <2>7 DEF Budget
<1> QED
  BY <1>2, <1>3, <1>4, <1>5, <1>6, <1>7, <1>8 DEF IInv, Shapes, Alike

\* A link that was dialled stands in the budget, so one is free for the next.
LEMMA FreeLink ==
  ASSUME IInv, Pending
  PROVE  \E l \in Links : link[l].rec = None
<1>1. Cost(Pending) = 1 /\ Cost(Coming) \in {0, 1}
  BY CostFacts DEF Pending, Coming
<1>2. Cardinality(Used) + 1 <= turns + 1 /\ turns \in Nat /\ turns <= MaxTurns
  <2>1. Cardinality(Used) + Cost(Pending) + Cost(Coming) <= turns + 1 /\ turns \in 0..MaxTurns
    BY DEF IInv, Budget, Shapes, Outside
  <2>2. PICK n, c : n = Cardinality(Used) /\ c = Cost(Coming)
    BY Zenon
  <2>3. n + 1 + c <= turns + 1 /\ n \in Nat /\ c \in {0, 1}
    BY <1>1, <2>1, <2>2, UsedCounts, Zenon
  <2> QED
    BY <2>1, <2>2, <2>3, HostsAssumption
<1>3. Cardinality(Links) = MaxTurns + 1
  BY HostsAssumption, FS_Interval DEF Links
<1>4. Used # Links
  BY <1>2, <1>3, UsedCounts, HostsAssumption
<1> QED
  BY <1>4 DEF Used

\* Before a manager forgets its host, or takes another for it, it says so.
LEMMA CarriedResync ==
  ASSUME IInv, NEW rec \in AnyRecord, NEW off \in AnyRecord, NEW data, NEW frames,
         off # None => off = rec,
         data = IF Forgets(rec) THEN None ELSE hub.data,
         frames = (IF Forgets(rec) THEN <<Removed>> ELSE <<>>) \o (IF off # None THEN Told("off", data) ELSE <<>>)
  PROVE  frames \in Seq(Frames) /\ Carried(Known, rec, frames) /\ data \in AnyData /\ OkData(rec, data)
<1> DEFINE f == IF Forgets(rec) THEN <<Removed>> ELSE <<>>
           g == IF off # None THEN Told("off", data) ELSE <<>>
<1>1. hub.data \in AnyData /\ OkData(Known, hub.data)
  BY DEF IInv, Shapes, Manager, LastKnown
<1>2. data \in AnyData
  BY <1>1 DEF AnyData
<1>3. OkData(rec, data)
  <2>1. CASE Forgets(rec)
    BY <2>1 DEF OkData
  <2>2. CASE ~Forgets(rec)
    BY <1>1, <2>2 DEF OkData, Forgets
  <2> QED
    BY <2>1, <2>2
<1>4. f \in Seq(Frames) /\ Carried(Known, rec, f)
  <2>1. CASE Forgets(rec)
    <3>1. f = <<Removed>> /\ Carried(Known, rec, <<Removed>>)
      BY <2>1, CarriedRemoved
    <3>2. <<Removed>> \in Seq(Frames)
      BY DEF Removed, Frames, AnyStates, AnyData
    <3> HIDE DEF f
    <3> QED
      BY <3>1, <3>2, Zenon
  <2>2. CASE ~Forgets(rec)
    <3>1. \A s : OkState(Known, s) => OkState(rec, s)
      BY <2>2 DEF OkState, Forgets
    <3>2. \A d : OkData(Known, d) => OkData(rec, d)
      BY <2>2 DEF OkData, Forgets
    <3>3. f = <<>> /\ Carried(Known, rec, <<>>)
      BY <2>2, <3>1, <3>2, CarriedNothing
    <3>4. <<>> \in Seq(Frames)
      OBVIOUS
    <3> HIDE DEF f
    <3> QED
      BY <3>3, <3>4, Zenon
  <2> QED
    BY <2>1, <2>2
<1>5. g \in Seq(Frames) /\ Carried(rec, rec, g)
  <2>1. CASE off # None
    <3>1. OkState(rec, "off") /\ "off" \in AnyStates
      BY <2>1 DEF OkState, AnyStates
    <3>2. Told("off", data) \in Seq(Frames) /\ Carried(rec, rec, Told("off", data))
      BY <1>2, <1>3, <3>1, CarriedTold
    <3> QED
      BY <2>1, <3>2
  <2>2. CASE off = None
    <3>1. g = <<>> /\ Carried(rec, rec, <<>>)
      BY <2>2, CarriedNothing
    <3>2. <<>> \in Seq(Frames)
      OBVIOUS
    <3> HIDE DEF g
    <3> QED
      BY <3>1, <3>2, Zenon
  <2> QED
    BY <2>1, <2>2
<1>6. frames = f \o g
  OBVIOUS
<1> HIDE DEF f, g
<1>7. Carried(Known, rec, f \o g) /\ f \o g \in Seq(Frames)
  BY <1>4, <1>5, CarriedThen, ConcatProperties
<1> QED
  BY <1>2, <1>3, <1>6, <1>7, Zenon

LEMMA ApplyHolds ==
  ASSUME IInv, Apply
  PROVE  IInv'
<1> DEFINE rec   == sync.rec
           keeps == hub.link # 0 /\ rec = Known /\ transport
           dials == ~keeps /\ rec # None /\ transport
           off   == IF rec # None /\ ~transport THEN rec ELSE None
           data  == IF Forgets(rec) THEN None ELSE hub.data
           new   == CHOOSE l \in Links : link[l].rec = None
           ended == [l \in Links |-> IF l = hub.link /\ ~keeps THEN Stopped(link[l]) ELSE link[l]]
           frames == (IF Forgets(rec) THEN <<Removed>> ELSE <<>>) \o (IF off # None THEN Told("off", data) ELSE <<>>)
<1>1. /\ sync.at = "apply" /\ Publish(frames)
      /\ link' = IF dials THEN [ended EXCEPT ![new] = NewLink(rec)] ELSE ended
      /\ hub' = [link |-> IF keeps THEN hub.link ELSE IF dials THEN new ELSE 0,
                 off |-> off, data |-> data, mtime |-> writes]
      /\ sync' = [at |-> "idle", rec |-> None]
      /\ UNCHANGED <<settings, remote, owed, missed, check, turns>>
  BY DEF Apply
<1>2. /\ rec \in AnyRecord /\ off \in AnyRecord /\ transport \in BOOLEAN /\ (off # None => off = rec)
      /\ link \in [Links -> LinkRecords] /\ Wired /\ hub.link \in 0..MaxTurns + 1
  BY DEF IInv, Shapes, Outside, Manager, AnyRecord
<1>3. frames \in Seq(Frames) /\ Carried(Known, rec, frames) /\ data \in AnyData /\ OkData(rec, data)
  <2>1. /\ off # None => off = rec
        /\ data = IF Forgets(rec) THEN None ELSE hub.data
        /\ frames = (IF Forgets(rec) THEN <<Removed>> ELSE <<>>) \o (IF off # None THEN Told("off", data) ELSE <<>>)
    OBVIOUS
  <2> HIDE DEF rec, off, data, frames
  <2> QED
    BY <1>2, <2>1, CarriedResync
<1> HIDE DEF frames, data
<1>4. dials => Pending
  BY <1>1 DEF Pending, Unheld
<1>5. dials => new \in Links /\ link[new].rec = None
  <2>1. dials => \E l \in Links : link[l].rec = None
    BY <1>4, FreeLink
  <2> HIDE DEF dials
  <2> QED
    BY <2>1
<1>6. hub.link # 0 => hub.link \in Links /\ link[hub.link].rec # None
  BY <1>2, HubLink DEF IInv, Wired
<1>7. \A l \in Links :
         /\ ended[l] \in LinkRecords /\ ended[l].rec = link[l].rec
         /\ ended[l].stopped = (link[l].stopped \/ (l = hub.link /\ ~keeps))
         /\ ended[l].at = "frame" => ended[l].heard \in 0..MaxTurns
  <2> SUFFICES ASSUME NEW l \in Links
               PROVE  /\ ended[l] \in LinkRecords /\ ended[l].rec = link[l].rec
                      /\ ended[l].stopped = (link[l].stopped \/ (l = hub.link /\ ~keeps))
                      /\ ended[l].at = "frame" => ended[l].heard \in 0..MaxTurns
    OBVIOUS
  <2>1. link[l] \in LinkRecords /\ (link[l].at = "frame" => link[l].heard \in 0..MaxTurns)
    BY LinkShape
  <2>2. CASE l = hub.link /\ ~keeps
    <3>1. ended[l] = Cancelled([link[l] EXCEPT !.stopped = TRUE])
      BY <2>2 DEF Stopped
    <3>2. PICK k \in LinkRecords : /\ k = [link[l] EXCEPT !.stopped = TRUE] /\ k.rec = link[l].rec /\ k.stopped = TRUE
                                   /\ k.at = "frame" => k.heard \in 0..MaxTurns
      <4> DEFINE k == [link[l] EXCEPT !.stopped = TRUE]
      <4>1. /\ k \in LinkRecords /\ k.rec = link[l].rec /\ k.stopped = TRUE
            /\ k.at = "frame" => k.heard \in 0..MaxTurns
        BY <2>1 DEF LinkRecords
      <4> QED
        BY <4>1, Zenon
    <3> HIDE DEF keeps, ended
    <3> QED
      BY <2>2, <3>1, <3>2, CancelledFacts, ZenonT(60)
  <2>3. CASE ~(l = hub.link /\ ~keeps)
    <3>1. ended[l] = link[l]
      BY <2>3
    <3> HIDE DEF keeps, ended
    <3>2. ended[l].stopped = (link[l].stopped \/ (l = hub.link /\ ~keeps))
      BY <2>1, <2>3, <3>1 DEF LinkRecords
    <3> QED
      BY <2>1, <3>1, <3>2
  <2> QED
    BY <2>2, <2>3
<1>8. /\ NewLink(rec) \in LinkRecords /\ NewLink(rec).rec = rec /\ NewLink(rec).stopped = FALSE
      /\ NewLink(rec).at = "wait"
  BY <1>2 DEF NewLink, Unlinked, LinkRecords, AnyRecord, Points, States
<1>9. link' \in [Links -> LinkRecords]
  <2>1. ended \in [Links -> LinkRecords]
    BY <1>7
  <2> HIDE DEF ended, dials, new
  <2> QED
    BY <1>1, <1>5, <1>8, <2>1
<1>10. \A l \in Links : IF dials /\ l = new THEN link'[l] = NewLink(rec) ELSE link'[l] = ended[l]
  <2>1. ended \in [Links -> LinkRecords]
    BY <1>7
  <2> HIDE DEF ended, dials, new
  <2> QED
    BY <1>1, <1>5, <2>1
<1>11. /\ hub'.link = (IF keeps THEN hub.link ELSE IF dials THEN new ELSE 0)
       /\ hub'.off = off /\ hub'.data = data /\ hub'.mtime = writes
  BY <1>1
<1> HIDE DEF new, ended
<1>12. Wired'
  <2>1. (hub.link # 0 => hub.off = None /\ link[hub.link].rec # None)'
    <3>1. CASE keeps
      BY <1>6, <1>7, <1>10, <1>11, <3>1
    <3>2. CASE dials
      BY <1>5, <1>8, <1>10, <1>11, <3>2
    <3>3. CASE ~keeps /\ ~dials
      BY <1>11, <3>3
    <3> QED
      BY <3>1, <3>2, <3>3
  <2>2. ASSUME NEW l \in Links, link'[l].rec # None
        PROVE  link'[l].stopped = (l # hub'.link)
    <3>1. link[l].rec # None => link[l].stopped = (l # hub.link)
      BY <1>2 DEF Wired
    <3>2. CASE dials /\ l = new
      BY <1>8, <1>10, <1>11, <3>2
    <3>3. CASE ~(dials /\ l = new)
      <4>1. link[l].rec # None /\ link'[l].stopped = (link[l].stopped \/ (l = hub.link /\ ~keeps))
        BY <1>7, <1>10, <2>2, <3>3
      <4>2. CASE keeps
        BY <1>11, <3>1, <4>1, <4>2
      <4>3. CASE ~keeps
        <5>1. l # hub'.link
          BY <1>5, <1>11, <3>3, <4>1, <4>3, HostsAssumption DEF Links
        <5>2. link'[l].stopped
          BY <3>1, <4>1, <4>3
        <5>3. link'[l].stopped \in BOOLEAN
          BY <1>9 DEF LinkRecords
        <5> QED
          BY <5>1, <5>2, <5>3
      <4> QED
        BY <4>2, <4>3
    <3> QED
      BY <3>2, <3>3
  <2>3. \A l \in Links : link'[l].at = "frame" => link'[l].heard \in 0..MaxTurns
    BY <1>7, <1>8, <1>10
  <2> QED
    BY <2>1, <2>2, <2>3 DEF Wired
<1>13. Known' = rec
  <2>1. CASE keeps
    BY <1>6, <1>7, <1>10, <1>11, <2>1 DEF Known
  <2>2. CASE dials
    <3>1. hub'.link = new /\ new # 0 /\ link'[new].rec = rec
      BY <1>5, <1>8, <1>10, <1>11, <2>2, HostsAssumption DEF Links
    <3> HIDE DEF dials, rec
    <3> QED
      BY <3>1 DEF Known
  <2>3. CASE ~keeps /\ ~dials
    BY <1>11, <2>3 DEF Known
  <2> QED
    BY <2>1, <2>2, <2>3
<1>14. Client' /\ Paged'
  BY <1>1, <1>3, <1>13, PagePublishes
<1>15. LastKnown'
  BY <1>3, <1>11, <1>13 DEF LastKnown
<1>16. Outside' /\ Checks'
  BY <1>1 DEF IInv, Shapes, Outside, Checks, settings
<1>17. Manager'
  <2>1. hub'.link \in 0..MaxTurns + 1
    BY <1>2, <1>5, <1>11, HostsAssumption DEF Links
  <2>2. writes' = writes /\ writes \in Nat
    BY <1>1 DEF IInv, Shapes, Outside, settings
  <2>3. hub' = [link |-> hub'.link, off |-> off, data |-> data, mtime |-> writes]
    BY <1>1
  <2> HIDE DEF rec, off, keeps, dials
  <2>4. hub' \in [link : 0..MaxTurns + 1, off : AnyRecord, data : AnyData, mtime : 0..writes']
    BY <1>2, <1>3, <2>1, <2>2, <2>3
  <2>5. sync' \in [at : {"idle", "apply"}, rec : AnyRecord]
    BY <1>1 DEF AnyRecord
  <2> QED
    BY <1>1, <2>4, <2>5 DEF Manager, IInv, Shapes
<1>18. Budget'
  <2>1. Used' = IF dials THEN Used \cup {new} ELSE Used
    <3>1. \A l \in Links : link'[l].rec # None <=> (dials /\ l = new) \/ link[l].rec # None
      BY <1>7, <1>8, <1>10
    <3> HIDE DEF dials
    <3> QED
      BY <1>5, <3>1 DEF Used
  <2>2. Cardinality(Used') = Cardinality(Used) + Cost(dials)
    <3>1. dials => new \notin Used
      BY <1>5 DEF Used
    <3> HIDE DEF dials
    <3> QED
      BY <2>1, <3>1, UsedCounts, FS_AddElement DEF Cost
  <2>3. Cost(dials) + Cost(Coming') <= Cost(Pending) + Cost(Coming)
    <3>1. Coming = (store # None /\ rec # store)
      BY <1>1 DEF Coming
    <3>2. Coming' = (store # None /\ (~transport \/ hub'.link = 0 \/ rec # store))
      BY <1>1, <1>13 DEF Coming, Unheld, settings
    <3>3. /\ Coming \in BOOLEAN /\ Coming' \in BOOLEAN /\ Pending \in BOOLEAN /\ dials \in BOOLEAN
          /\ Cost(dials) \in {0, 1} /\ Cost(Coming') \in {0, 1} /\ Cost(Pending) \in {0, 1} /\ Cost(Coming) \in {0, 1}
      BY CostFacts DEF Coming, Pending
    <3>4. CASE keeps
      <4>1. Coming' = Coming /\ dials = FALSE
        BY <1>6, <1>11, <3>1, <3>2, <3>4
      <4>2. Cost(Coming') = Cost(Coming) /\ Cost(dials) = 0
        BY <4>1, CostFacts
      <4> QED
        BY <3>3, <4>2
    <3>5. CASE dials
      <4>1. Coming' = Coming /\ Pending
        BY <1>4, <1>5, <1>11, <3>1, <3>2, <3>5, HostsAssumption DEF Links
      <4>2. Cost(Coming') = Cost(Coming) /\ Cost(Pending) = 1
        BY <4>1, CostFacts
      <4> QED
        BY <3>3, <4>2
    <3>6. CASE ~keeps /\ ~dials
      <4>1. Cost(dials) = 0
        BY <3>3, <3>6, CostFacts
      <4>2. CASE rec = None
        <5>1. Coming' => Coming
          BY <3>1, <3>2, <4>2
        <5>2. Cost(Coming') <= Cost(Coming)
          BY <3>3, <5>1 DEF Cost
        <5> QED
          BY <3>3, <4>1, <5>2
      <4>3. CASE rec # None
        <5>1. Pending
          BY <1>1, <1>2, <3>6, <4>3 DEF Pending, Unheld
        <5>2. Cost(Pending) = 1
          BY <5>1 DEF Cost
        <5> QED
          BY <3>3, <4>1, <5>2
      <4> QED
        BY <4>2, <4>3
    <3> QED
      BY <3>4, <3>5, <3>6
  <2>4. Pending' = FALSE
    BY <1>1 DEF Pending
  <2>5. Cost(Pending') = 0
    BY <2>4 DEF Cost
  <2>6. Cardinality(Used) + Cost(Pending) + Cost(Coming) <= turns + 1 /\ turns' = turns /\ turns \in Nat
    BY <1>1 DEF IInv, Budget, Shapes, Outside
  <2>7. Cost(dials) \in Int /\ Cost(Coming') \in Int /\ Cost(Pending) \in Int /\ Cost(Coming) \in Int
    BY DEF Cost
  <2> HIDE DEF dials
  <2>8. Cardinality(Used') + Cost(Pending') + Cost(Coming') <= turns' + 1
    BY <2>2, <2>3, <2>5, <2>6, <2>7, UsedCounts
  <2> QED
    BY <2>8 DEF Budget
<1> QED
  BY <1>9, <1>12, <1>14, <1>15, <1>16, <1>17, <1>18 DEF IInv, Shapes

-----------------------------------------------------------------------------
(* The theorems.                                                             *)

LEMMA InitHolds == Init => IInv
<1> SUFFICES ASSUME Init PROVE IInv
  OBVIOUS
<1>1. /\ store = [added |-> 0, key |-> 0] /\ writes = 0 /\ transport = TRUE /\ turns = 0
      /\ remote = [up |-> TRUE, key |-> 0, fact |-> 0]
      /\ hub = [link |-> 1, off |-> None, data |-> None, mtime |-> 0]
      /\ sync = [at |-> "idle", rec |-> None] /\ owed = FALSE /\ missed = FALSE /\ check = Busy
      /\ client = [at |-> "asked", view |-> None, queue |-> <<>>] /\ shown = NoHost
  BY DEF Init
<1>2. store \in Records /\ store # None /\ 1 \in Links
  BY <1>1, HostsAssumption, NoneAssumption DEF Records, Links
<1>3. \A l \in Links : /\ link[l] \in LinkRecords /\ link[l].at # "frame"
                       /\ link[l].rec = IF l = 1 THEN store ELSE None
                       /\ link[l].stopped = FALSE
  BY <1>2 DEF Init, NewLink, Unlinked, LinkRecords, AnyRecord, Points, States
<1>4. link \in [Links -> LinkRecords]
  <2>1. link = [l \in Links |-> link[l]]
    BY DEF Init
  <2> QED
    BY <1>3, <2>1
<1>5. Outside /\ Manager /\ Checks
  <2>1. Outside
    BY <1>1, <1>2, HostsAssumption DEF Outside, AnyRecord
  <2>2. Manager
    <3>1. 1 \in 0..MaxTurns + 1 /\ 0 \in 0..writes /\ None \in AnyRecord /\ None \in AnyData
      BY <1>1, HostsAssumption DEF AnyRecord, AnyData
    <3>2. hub \in [link : 0..MaxTurns + 1, off : AnyRecord, data : AnyData, mtime : 0..writes]
      BY <1>1, <3>1
    <3>3. sync \in [at : {"idle", "apply"}, rec : AnyRecord]
      BY <1>1, <3>1
    <3> QED
      BY <1>1, <3>2, <3>3 DEF Manager
  <2>3. Checks
    BY <1>1, HostsAssumption DEF Checks, Busy
  <2> QED
    BY <2>1, <2>2, <2>3
<1>6. Client
  BY <1>1, HostsAssumption DEF Client, AnyStates, AnyData, NoHost, Pages
<1>7. Wired
  BY <1>1, <1>2, <1>3 DEF Wired
<1>8. Known = store
  BY <1>1, <1>2, <1>3 DEF Known
<1>9. LastKnown
  BY <1>1 DEF LastKnown, OkData
<1>10. Paged
  BY <1>1, FitNothing DEF Paged
<1>11. Budget
  <2>1. Used = {1}
    BY <1>2, <1>3 DEF Used
  <2>2. Cardinality(Used) = 1
    BY <2>1, FS_Singleton
  <2>3. Pending = FALSE /\ Coming = FALSE
    BY <1>1, <1>8 DEF Pending, Coming, Unheld
  <2>4. Cost(Pending) = 0 /\ Cost(Coming) = 0
    BY <2>3 DEF Cost
  <2> QED
    BY <1>1, <2>2, <2>4 DEF Budget
<1> QED
  BY <1>4, <1>5, <1>6, <1>7, <1>9, <1>10, <1>11 DEF IInv, Shapes

LEMMA StutterHolds ==
  ASSUME IInv, UNCHANGED vars
  PROVE  IInv'
<1>1. /\ UNCHANGED <<settings, remote, link, hub, sync, owed, missed, check, page, turns>>
      /\ UNCHANGED manager
  BY DEF vars, manager
<1>2. turns' \in turns..MaxTurns
  BY <1>1, TurnFacts
<1> QED
  BY <1>1, <1>2, LinksRest, PageRests, LinkMoves

LEMMA StepHolds == IInv /\ [Next]_vars => IInv'
<1> SUFFICES ASSUME IInv, [Next]_vars PROVE IInv'
  OBVIOUS
<1>1. ASSUME NEW l \in Links, Run(l) \/ Drop(l) PROVE IInv'
  BY <1>1, TellOwnHolds, BeginHolds, ProbeHolds, OpenHolds, HearHolds, FrameHolds, StreamEndsHolds, EndsHolds,
     DropHolds DEF Run
<1>2. CASE Resync
  BY <1>2, ReadStoreHolds, ApplyHolds DEF Resync
<1>3. CASE Checking \/ StartCheck \/ StartRequest
  BY <1>3, AnsweredHolds, JudgeHolds, TellVerdictHolds, CancelHolds, StartCheckHolds, StartRequestHolds DEF Checking
<1>4. CASE Connect \/ Seeing
  BY <1>4, ConnectHolds, ViewHolds, SnapshotHolds DEF Seeing
<1>5. ASSUME NEW here \in BOOLEAN, AddHost(here) \/ RemoveHost(here) \/ RepinHost(here) PROVE IInv'
  BY <1>5, PeopleHold
<1>6. CASE Toggle
  BY <1>6, ToggleHolds
<1>7. CASE Changes \/ GoesOrComes \/ NewKey
  BY <1>7, RemoteHolds
<1>8. CASE UNCHANGED vars
  BY <1>8, StutterHolds
<1> QED
  BY <1>1, <1>2, <1>3, <1>4, <1>5, <1>6, <1>7, <1>8 DEF Next

LEMMA Inductive == Spec => []IInv
BY InitHolds, StepHolds, PTL DEF Spec

\* What the store, the manager, its links, the checks and the page hold has the
\* types of TypeOK: the manager's link is there whenever it names one, and no
\* link but that one has not been stopped, whatever resyncs raced with.
THEOREM TypeCorrect == Spec => []TypeOK
<1>1. IInv => TypeOK
  <2> SUFFICES ASSUME IInv PROVE TypeOK
    OBVIOUS
  <2>1. store \in Records \cup {None} /\ writes \in 0..MaxTurns
    BY HostsAssumption DEF IInv, Shapes, Outside, AnyRecord
  <2>2. /\ hub.link \in 0..MaxTurns + 1 /\ hub.off \in Records \cup {None}
        /\ hub.data \in Facts \cup {None} /\ hub.mtime \in 0..writes
    BY DEF IInv, Shapes, Manager, AnyRecord, AnyData
  <2>3. /\ hub.link # 0 => hub.off = None /\ link[hub.link].rec # None
        /\ \A l \in Links : link[l].rec # None => link[l].stopped = (l # hub.link)
    BY DEF IInv, Wired
  <2>4. \A l \in Links : link[l].rec \in Records \cup {None} /\ link[l].at \in Points /\ link[l].status \in States
    BY DEF IInv, Shapes, LinkRecords, AnyRecord
  <2>5. check.at \in {"idle", "probe", "set", "tell", "cancel"}
    BY DEF IInv, Shapes, Checks
  <2>6. /\ client.at \in {"asked", "viewed", "live"} /\ Len(client.queue) <= MaxQueue
        /\ shown.state \in States \cup {"off", None} /\ shown.data \in Facts \cup {None}
    BY DEF IInv, Shapes, Client, Pages, AnyStates, AnyData
  <2> QED
    BY <2>1, <2>2, <2>3, <2>4, <2>5, <2>6, Zenon DEF TypeOK
<1> QED
  BY Inductive, <1>1, PTL

\* No page shows a host that the manager has let go, nor under a host what was
\* known of an earlier one of its name: not when a stopped link finishes a probe
\* or a frame, not when either comes between a snapshot's states and its data,
\* and not when checks, resyncs and other processes' writes come in between.
THEOREM NoGhosts == Spec => []NoGhost
<1>1. IInv => NoGhost
  BY DEF IInv, Paged, OkState, OkData, NoGhost
<1> QED
  BY Inductive, <1>1, PTL
=============================================================================
