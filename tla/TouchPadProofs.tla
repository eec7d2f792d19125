---------------------------- MODULE TouchPadProofs ----------------------------
(***************************************************************************)
(* Proofs about the touches of pads that are lent and taken back, for any  *)
(* sessions, pads and other devices, any number of reports and requests.   *)
(***************************************************************************)
EXTENDS TouchPad, SequenceTheorems, TLAPS

Elements(s) == {s[i] : i \in DOMAIN s}

(***************************************************************************)
(* The invariants.                                                         *)
(***************************************************************************)
Requests == [cmd : {"start", "stop"}, session : Sessions, dhId : DhIds]

\* What stands in a queue of a pad is of that pad; a source that has devices is there.
TInv ==
    /\ TypeOK
    /\ handler \in Requests \cup {NoRequest} /\ toSink \in Seq(Requests)
    /\ asked # {} => holder \in Sessions
    /\ reports \in Nat /\ touch \in [Pads -> Nat]
    /\ \A p \in Pads : \A r \in Elements(kernel[p]) \cup Elements(fragments[p]) : r.pad = p
    /\ \A r \in Elements(collector.read) : r.pad = collector.pad
    /\ collector # Idle => collector.read # << >>

\* The handler is about to share the pad.
Starting(p) == handler.cmd = "start" /\ handler.dhId = p

\* A request waits until what was read is recorded or sent, and the collector until a
\* request is through; a pad that is shared has nothing kept.
InTurns ==
    /\ eventQueue # << >> => Len(eventQueue) = 1
    /\ collector # Idle => eventQueue = << >> /\ handler = NoRequest
    /\ collector.checked => collector.pad \notin sharedDHIds
    /\ \A p \in Pads : p \in sharedDHIds \/ Starting(p) => fragments[p] = << >>

\* The reports on their way, in the order in which they pass the places.
Sent(s) == Elements(toSource[s])
Posted  == UNION {Elements(eventQueue[i]) : i \in DOMAIN eventQueue}
Kept    == UNION {Elements(fragments[p]) : p \in Pads}
Read    == Elements(collector.read)
Held    == UNION {Elements(kernel[p]) : p \in Pads}

Before(S, T) == \A a \in S, b \in T : a.pad = b.pad => a.n < b.n

QueuesAscend ==
    /\ \A s \in Sessions : Ascending(toSource[s])
    /\ \A i \in DOMAIN eventQueue : Ascending(eventQueue[i])
    /\ \A p \in Pads : Ascending(fragments[p]) /\ Ascending(kernel[p])
    /\ Ascending(collector.read)

PlacesAscend ==
    /\ \A s \in Sessions : Before(Sent(s), Posted \cup Kept \cup Read \cup Held)
    /\ Before(Posted, Kept \cup Read \cup Held)
    /\ Before(Kept, Read \cup Held)
    /\ Before(Read, Held)
    /\ \A s \in Sessions : \A r \in Sent(s) : r.n <= reports
    /\ \A r \in Posted \cup Kept \cup Read \cup Held : r.n <= reports

\* The reports of a pad which are not yet recorded or sent, and the touch that the next
\* report of the user belongs to.
Stream(p) == (IF collector.pad = p THEN collector.read ELSE << >>) \o kernel[p]
Coming(p) == IF p \in finger THEN touch[p] ELSE touch[p] + 1
After(r)  == IF r.kind = "up" THEN r.touch + 1 ELSE r.touch

\* A source may see it.
Foreign(p, t) == << p, t >> \in lentTouches \cup clickedBefore

\* The touch that the next report to be recorded or sent belongs to.
Now(p) == IF Stream(p) = << >> THEN Coming(p) ELSE Stream(p)[1].touch

\* After the end of a touch comes the begin of the next one, or a click.
TouchesFollow(p) ==
    LET q == Stream(p)
    IN  /\ \A i \in 1 .. Len(q) - 1 :
              /\ q[i + 1].touch = After(q[i])
              /\ q[i].kind = "up" => q[i + 1].kind = "down" \/ Foreign(p, q[i + 1].touch)
        /\ q # << >> => /\ Coming(p) = After(q[Len(q)])
                        /\ q[Len(q)].kind = "up" => p \notin finger

\* What is kept is of one touch, that of the next report, and begins with its begin, if
\* no source may see the touch.
KeptFromBegin(p) ==
    /\ \A r \in Elements(fragments[p]) : r.touch = Now(p)
    /\ \A r \in Elements(fragments[p]) \cup Elements(Stream(p)) : r.kind = "down" => r.touch <= touch[p]
    /\ \/ Foreign(p, Now(p))
       \/ fragments[p] # << >> /\ fragments[p][1].kind = "down"
       \/ /\ fragments[p] = << >>
          /\ IF Stream(p) = << >> THEN p \notin finger ELSE Stream(p)[1].kind = "down"

\* Of a pad that is shared a source may see everything; what is sent it may see.
SharedIsForeign(p) ==
    p \in sharedDHIds => /\ \A r \in Elements(Stream(p)) : Foreign(p, r.touch)
                         /\ p \in finger => Foreign(p, touch[p])
SentIsForeign ==
    /\ \A s \in Sessions : \A r \in Sent(s) : Foreign(r.pad, r.touch)
    /\ \A r \in Posted : Foreign(r.pad, r.touch)

OrderInv == QueuesAscend /\ PlacesAscend
TouchInv == SentIsForeign /\ \A p \in Pads : TouchesFollow(p) /\ KeptFromBegin(p) /\ SharedIsForeign(p)

\* The pad at the source, when there is one session.
Is(r, p, kind) == r.pad = p /\ r.kind = kind

\* The pad p is touched before the i-th report of q, after whose last it is or not: the
\* next begin or end of a touch is an end.
OnBefore(q, p, i, on) ==
    \/ \E k \in DOMAIN q : /\ k >= i /\ Is(q[k], p, "up")
                           /\ \A j \in DOMAIN q : i <= j /\ j < k => ~Is(q[j], p, "down")
    \/ on /\ \A j \in DOMAIN q : j >= i => ~Is(q[j], p, "down")

\* Begins and ends of touches alternate.
Alternates(q, p, on) ==
    \A i \in DOMAIN q : /\ Is(q[i], p, "down") => OnBefore(q, p, i + 1, on)
                        /\ Is(q[i], p, "up") => ~OnBefore(q, p, i + 1, on)

\* From the finger back to the source: the pad is touched before the stream, before what
\* is kept, before what is under way to the source.
Channel(s) == toSource[s] \o (IF eventQueue = << >> THEN << >> ELSE Head(eventQueue))
On(p)      == OnBefore(Stream(p), p, 1, p \in finger)
Out(p)     == OnBefore(fragments[p], p, 1, On(p))

AtSource(s, p) ==
    /\ Alternates(Channel(s), p, Out(p))
    /\ p \in touched[s] <=> OnBefore(Channel(s), p, 1, Out(p))

PadFollows(s, p) ==
    /\ Alternates(Stream(p), p, p \in finger)
    /\ Alternates(fragments[p], p, On(p)) /\ \A r \in Elements(fragments[p]) : r.kind # "up"
    /\ AtSource(s, p)

\* The session is known as soon as anything was shared, and its switch on as long.
Known(s) ==
    /\ lastSessionId \in {0, s}
    /\ lastSessionId = 0 => /\ Channel(s) = << >> /\ touched[s] = {}
                            /\ sharedDHIds = {} /\ handler.cmd # "start"
    /\ sharedDHIds # {} \/ handler.cmd = "start" => openSession = s
    /\ eventQueue # << >> => handler = NoRequest /\ openSession = s

SourceInv(s) == Known(s) /\ \A p \in Pads : PadFollows(s, p)

(***************************************************************************)
(* Queues: what is in one, and in which order.                             *)
(***************************************************************************)
LEMMA OfSeq ==
    ASSUME NEW S, NEW s \in Seq(S)
    PROVE  /\ DOMAIN s = 1 .. Len(s) /\ Len(s) \in Nat /\ Elements(s) \subseteq S
           /\ s # << >> <=> Len(s) > 0
           /\ s = << >> => Elements(s) = {}
<1>1. DOMAIN s = 1 .. Len(s) /\ Len(s) \in Nat /\ \A i \in 1 .. Len(s) : s[i] \in S
  BY LenProperties, ElementOfSeq
<1>2. s # << >> <=> Len(s) > 0
  BY <1>1, EmptySeq
<1>3. s = << >> => DOMAIN s = {}
  BY <1>1, <1>2
<1> QED
  BY <1>1, <1>2, <1>3 DEF Elements

LEMMA OfTail ==
    ASSUME NEW S, NEW s \in Seq(S), s # << >>
    PROVE  /\ Head(s) = s[1] /\ Head(s) \in S /\ Head(s) \in Elements(s)
           /\ Tail(s) \in Seq(S) /\ Len(Tail(s)) = Len(s) - 1
           /\ \A i \in 1 .. Len(Tail(s)) : Tail(s)[i] = s[i + 1]
           /\ Elements(s) = {Head(s)} \cup Elements(Tail(s))
           /\ Ascending(s) => /\ Ascending(Tail(s))
                              /\ Before({Head(s)}, Elements(Tail(s)))
<1>1. /\ DOMAIN s = 1 .. Len(s) /\ Len(s) \in Nat /\ Tail(s) \in Seq(S) /\ Head(s) \in S
      /\ Len(Tail(s)) = Len(s) - 1 /\ \A i \in 1 .. Len(Tail(s)) : Tail(s)[i] = s[i + 1]
      /\ DOMAIN Tail(s) = 1 .. Len(Tail(s)) /\ Len(s) # 0 /\ Head(s) = s[1]
  BY HeadTailProperties, LenProperties, EmptySeq
<1>2. \A i \in DOMAIN Tail(s) : i + 1 \in DOMAIN s /\ Tail(s)[i] = s[i + 1] /\ 1 < i + 1 /\ 1 \in DOMAIN s
  BY <1>1
<1>3. \A i \in DOMAIN s : i = 1 \/ (i - 1 \in DOMAIN Tail(s) /\ s[i] = Tail(s)[i - 1])
  BY <1>1
<1>4. Elements(s) = {Head(s)} \cup Elements(Tail(s))
  <2>1. ASSUME NEW i \in DOMAIN s PROVE s[i] = Head(s) \/ s[i] \in Elements(Tail(s))
    <3>1. i - 1 \in DOMAIN Tail(s) /\ s[i] = Tail(s)[i - 1] => s[i] \in Elements(Tail(s))
      BY Zenon DEF Elements
    <3> QED
      BY <1>1, <1>3, <3>1
  <2>2. {Head(s)} \cup Elements(Tail(s)) \subseteq Elements(s)
    BY <1>1, <1>2 DEF Elements
  <2>3. Elements(s) \subseteq {Head(s)} \cup Elements(Tail(s))
    BY <2>1, Zenon DEF Elements
  <2> QED
    BY <2>2, <2>3
<1>5. ASSUME Ascending(s) PROVE Ascending(Tail(s)) /\ Before({Head(s)}, Elements(Tail(s)))
  <2>1. \A i, j \in DOMAIN Tail(s) : i < j => i + 1 < j + 1
    BY <1>1
  <2>2. Ascending(Tail(s))
    BY <1>2, <1>5, <2>1 DEF Ascending
  <2>3. \A i \in DOMAIN Tail(s) : Head(s).pad = Tail(s)[i].pad => Head(s).n < Tail(s)[i].n
    BY <1>1, <1>2, <1>5 DEF Ascending
  <2> QED
    BY <2>2, <2>3 DEF Before, Elements
<1> QED
  BY <1>1, <1>4, <1>5

\* Where an element of it comes from.
FromOne(c, a, b, i) ==
    \/ i \in DOMAIN a /\ c[i] = a[i]
    \/ i > Len(a) /\ i - Len(a) \in DOMAIN b /\ c[i] = b[i - Len(a)]

\* The places of a sequence c that is a followed by b.
Joins(c, a, b) ==
    /\ DOMAIN c = 1 .. Len(a) + Len(b)
    /\ \A i \in DOMAIN a : i \in DOMAIN c /\ c[i] = a[i]
    /\ \A i \in DOMAIN b : Len(a) + i \in DOMAIN c /\ c[Len(a) + i] = b[i]
    /\ \A i \in DOMAIN c : FromOne(c, a, b, i)

LEMMA ConcatAt ==
    ASSUME NEW S, NEW a \in Seq(S), NEW b \in Seq(S)
    PROVE  Joins(a \o b, a, b)
<1> DEFINE c == a \o b
<1>1. /\ DOMAIN a = 1 .. Len(a) /\ DOMAIN b = 1 .. Len(b) /\ Len(a) \in Nat /\ Len(b) \in Nat
      /\ c \in Seq(S) /\ Len(c) = Len(a) + Len(b)
      /\ \A i \in 1 .. Len(a) + Len(b) : c[i] = IF i <= Len(a) THEN a[i] ELSE b[i - Len(a)]
  BY ConcatProperties, LenProperties
<1>2. DOMAIN c = 1 .. Len(a) + Len(b)
  BY <1>1, LenProperties
<1> HIDE DEF c
<1>3. \A i \in DOMAIN a : i \in DOMAIN c /\ c[i] = a[i]
  BY <1>1, <1>2
<1>4. ASSUME NEW i \in DOMAIN b PROVE Len(a) + i \in DOMAIN c /\ c[Len(a) + i] = b[i]
  <2>1. Len(a) + i \in 1 .. Len(a) + Len(b) /\ ~(Len(a) + i <= Len(a)) /\ (Len(a) + i) - Len(a) = i
    BY <1>1
  <2> QED
    BY <1>1, <1>2, <2>1
<1>5. ASSUME NEW i \in DOMAIN c
      PROVE  FromOne(c, a, b, i)
  <2>1. i \in 1 .. Len(a) + Len(b) /\ c[i] = IF i <= Len(a) THEN a[i] ELSE b[i - Len(a)]
    BY <1>1, <1>2
  <2>2. CASE i <= Len(a)
    BY <1>1, <2>1, <2>2 DEF FromOne
  <2>3. CASE ~(i <= Len(a))
    <3>1. i > Len(a) /\ i - Len(a) \in 1 .. Len(b)
      BY <1>1, <2>1, <2>3
    <3> QED
      BY <1>1, <2>1, <2>3, <3>1 DEF FromOne
  <2> QED
    BY <2>2, <2>3
<1> QED
  <2>1. Joins(c, a, b)
    BY <1>2, <1>3, <1>4, <1>5 DEF Joins
  <2> QED
    BY <2>1 DEF c

LEMMA Concatenated ==
    ASSUME NEW S, NEW a \in Seq(S), NEW b \in Seq(S)
    PROVE  /\ a \o b \in Seq(S) /\ Len(a \o b) = Len(a) + Len(b)
           /\ Elements(a \o b) = Elements(a) \cup Elements(b)
<1> DEFINE c == a \o b
<1>1. c \in Seq(S) /\ Len(c) = Len(a) + Len(b)
  BY ConcatProperties
<1>2. Joins(c, a, b)
  BY ConcatAt
<1> HIDE DEF c
<1>3. Elements(c) \subseteq Elements(a) \cup Elements(b)
  BY <1>2 DEF Elements, Joins, FromOne
<1>4. Elements(a) \subseteq Elements(c)
  BY <1>2, Zenon DEF Elements, Joins
<1>5. Elements(b) \subseteq Elements(c)
  <2>1. ASSUME NEW i \in DOMAIN b PROVE b[i] \in Elements(c)
    <3>1. Len(a) + i \in DOMAIN c /\ c[Len(a) + i] = b[i]
      BY <1>2, Zenon DEF Joins
    <3> QED
      BY <3>1, Zenon DEF Elements
  <2> QED
    BY <2>1, Zenon DEF Elements
<1>6. Elements(c) = Elements(a) \cup Elements(b)
  BY <1>3, <1>4, <1>5
<1> QED
  BY <1>1, <1>6 DEF c

LEMMA ConcatAscends ==
    ASSUME NEW S, NEW a \in Seq(S), NEW b \in Seq(S), Ascending(a), Ascending(b),
           Before(Elements(a), Elements(b))
    PROVE  Ascending(a \o b)
<1> DEFINE c == a \o b
<1>0. Joins(c, a, b)
  BY ConcatAt
<1> HIDE DEF c
<1>1. /\ DOMAIN c = 1 .. Len(a) + Len(b)
      /\ \A i \in DOMAIN c : FromOne(c, a, b, i)
  BY <1>0 DEF Joins
<1>2. DOMAIN a = 1 .. Len(a) /\ Len(a) \in Nat /\ Len(b) \in Nat
  BY LenProperties
<1> SUFFICES ASSUME NEW i \in DOMAIN c, NEW j \in DOMAIN c, i < j, c[i].pad = c[j].pad
             PROVE  c[i].n < c[j].n
  BY DEF Ascending, c
<1>3. CASE i \in DOMAIN a /\ c[i] = a[i] /\ j \in DOMAIN a /\ c[j] = a[j]
  BY <1>3 DEF Ascending
<1>4. CASE i \in DOMAIN a /\ c[i] = a[i] /\ j - Len(a) \in DOMAIN b /\ c[j] = b[j - Len(a)]
  <2>1. a[i] \in Elements(a) /\ b[j - Len(a)] \in Elements(b)
    BY <1>4 DEF Elements
  <2> QED
    BY <1>4, <2>1 DEF Before
<1>5. CASE i > Len(a) /\ i - Len(a) \in DOMAIN b /\ c[i] = b[i - Len(a)]
  <2>1. j > Len(a) /\ j \notin DOMAIN a
    BY <1>1, <1>2, <1>5
  <2>2. j - Len(a) \in DOMAIN b /\ c[j] = b[j - Len(a)]
    BY <1>1, <2>1 DEF FromOne
  <2>3. i - Len(a) < j - Len(a)
    BY <1>1, <1>2
  <2> QED
    BY <1>5, <2>2, <2>3 DEF Ascending
<1> QED
  BY <1>1, <1>3, <1>4, <1>5 DEF FromOne

LEMMA Appended ==
    ASSUME NEW S, NEW s \in Seq(S), NEW e \in S
    PROVE  /\ Append(s, e) \in Seq(S) /\ Len(Append(s, e)) = Len(s) + 1
           /\ Append(s, e)[Len(s) + 1] = e
           /\ Elements(Append(s, e)) = Elements(s) \cup {e}
<1> DEFINE t == Append(s, e)
<1>1. /\ DOMAIN s = 1 .. Len(s) /\ Len(s) \in Nat /\ t \in Seq(S)
      /\ Len(t) = Len(s) + 1 /\ \A i \in 1 .. Len(s) : t[i] = s[i]
      /\ t[Len(s) + 1] = e
  BY AppendProperties, LenProperties
<1>2. DOMAIN t = 1 .. Len(s) + 1
  BY <1>1, OfSeq
<1> HIDE DEF t
<1>3. \A i \in DOMAIN t : (i \in DOMAIN s /\ t[i] = s[i]) \/ (i = Len(s) + 1 /\ t[i] = e)
  BY <1>1, <1>2
<1>4. Elements(t) = Elements(s) \cup {e}
  <2>1. Elements(t) \subseteq Elements(s) \cup {e}
    BY <1>3 DEF Elements
  <2>2. Elements(s) \subseteq Elements(t) /\ e \in Elements(t)
    BY <1>1, <1>2 DEF Elements
  <2> QED
    BY <2>1, <2>2
<1>5. t = Append(s, e)
  BY DEF t
<1> QED
  BY <1>1, <1>4, <1>5

LEMMA AppendAscends ==
    ASSUME NEW S, NEW s \in Seq(S), NEW e \in S, Ascending(s), Before(Elements(s), {e})
    PROVE  Ascending(Append(s, e))
<1> DEFINE t == Append(s, e)
<1>1. /\ DOMAIN s = 1 .. Len(s) /\ Len(s) \in Nat
      /\ \A i \in 1 .. Len(s) : t[i] = s[i]
      /\ t[Len(s) + 1] = e
  BY AppendProperties, LenProperties
<1>2. DOMAIN t = 1 .. Len(s) + 1
  BY <1>1, Appended, LenProperties
<1> HIDE DEF t
<1>3. \A i \in DOMAIN t : (i \in DOMAIN s /\ t[i] = s[i]) \/ (i = Len(s) + 1 /\ t[i] = e)
  BY <1>1, <1>2
<1>4. Ascending(t)
  <2> SUFFICES ASSUME NEW i \in DOMAIN t, NEW j \in DOMAIN t, i < j, t[i].pad = t[j].pad
               PROVE  t[i].n < t[j].n
    BY DEF Ascending
  <2>1. i \in DOMAIN s /\ t[i] = s[i] /\ s[i] \in Elements(s)
    BY <1>1, <1>2 DEF Elements
  <2>2. CASE j \in DOMAIN s /\ t[j] = s[j]
    BY <2>1, <2>2 DEF Ascending
  <2>3. CASE t[j] = e
    BY <2>1, <2>3 DEF Before
  <2> QED
    BY <1>3, <2>2, <2>3
<1> QED
  BY <1>4 DEF t

LEMMA OfNothing ==
    /\ Elements(<< >>) = {} /\ Ascending(<< >>)
    /\ \A S : << >> \in Seq(S) /\ \A s \in Seq(S) : s \o << >> = s /\ << >> \o s = s
<1>1. DOMAIN << >> = {} /\ \A S : << >> \in Seq(S)
  OBVIOUS
<1>2. \A S : \A s \in Seq(S) : s \o << >> = s /\ << >> \o s = s
  BY ConcatEmptySeq
<1> QED
  BY <1>1, <1>2 DEF Elements, Ascending

\* A queue of one batch is what the batch is.
LEMMA OneBatch ==
    ASSUME NEW S, NEW q \in Seq(Seq(S)), Len(q) = 1
    PROVE  FlattenSeq(q) = q[1] /\ q[1] \in Seq(S) /\ q # << >> /\ Tail(q) = << >> /\ Head(q) = q[1]
<1>1. q[1] \in Seq(S) /\ q # << >>
  BY OfSeq, ElementOfSeq
<1>2. Tail(q) \in Seq(Seq(S)) /\ Len(Tail(q)) = 0 /\ Head(q) = q[1]
  BY <1>1, OfTail
<1>3. Tail(q) = << >>
  BY <1>2, EmptySeq
<1> DEFINE Good(f) == f = [i \in 1 .. 1 |-> IF i = 1 THEN q[i] ELSE f[i - 1] \o q[i]]
           g == [i \in 1 .. 1 |-> q[1]]
<1>4. Good(g)
  OBVIOUS
<1>5. Good(CHOOSE f : Good(f))
  BY <1>4
<1>6. \A f : Good(f) => f[1] = q[1]
  OBVIOUS
<1>7. FlattenSeq(q) = (CHOOSE f : Good(f))[1]
  BY DEF FlattenSeq
<1> HIDE DEF Good
<1>8. (CHOOSE f : Good(f))[1] = q[1]
  BY <1>5, <1>6
<1> QED
  BY <1>1, <1>2, <1>3, <1>7, <1>8

(***************************************************************************)
(* What the user does is one thing: a report comes to the stream of a pad. *)
(***************************************************************************)
Grows == lentTouches \subseteq lentTouches' /\ clickedBefore \subseteq clickedBefore'

\* The report is of the touch that was to come, and the next one follows it.
Follows(p, r) ==
    /\ r.touch = Coming(p) /\ Coming(p)' = After(r)
    /\ r.kind = "up" => p \notin finger'
    /\ p \notin finger => r.kind = "down" \/ Foreign(p, r.touch)'
    /\ r.kind = "down" => r.touch <= touch'[p]
    /\ touch[p] <= touch'[p]

Reported(p, r) ==
    /\ r \in Reports /\ r.pad = p /\ r.n = reports + 1 /\ reports' = reports + 1
    /\ kernel' = [kernel EXCEPT ![p] = Append(kernel[p], r)]
    /\ finger' \subseteq Pads /\ touch' \in [Pads -> Nat]
    /\ \A q \in Pads : q # p => touch'[q] = touch[q] /\ (q \in finger' <=> q \in finger)
    /\ Grows
    /\ UNCHANGED << collector, sharedDHIds, stateVars, openSession, handler, eventQueue,
                    sourceVars, toSource, touched >>

\* A report about a pad that is shared is of a touch that a source may see.
StaysForeign(p, r) ==
    p \in sharedDHIds /\ (p \in finger => Foreign(p, touch[p])) =>
        Foreign(p, r.touch)' /\ (p \in finger' => Foreign(p, touch[p])')

\* It tells whether the finger comes or goes.
Lands(p, r) ==
    /\ r.kind = "down" => p \notin finger /\ p \in finger'
    /\ r.kind = "up" => p \in finger /\ p \notin finger'
    /\ r.kind \notin {"down", "up"} => (p \in finger' <=> p \in finger)

Writes(p, r) == Reported(p, r) /\ Follows(p, r) /\ StaysForeign(p, r) /\ Lands(p, r)

LEMMA UserWrites ==
    ASSUME TInv, NEW p \in Pads, Touch(p) \/ Move(p) \/ Lift(p) \/ Click(p)
    PROVE  \E r : Writes(p, r)
<1> DEFINE R(kind, t) == [pad |-> p, kind |-> kind, touch |-> t, n |-> reports']
<1>1. reports \in Nat /\ touch \in [Pads -> Nat] /\ touch[p] \in Nat /\ finger \subseteq Pads
      /\ kernel \in [Pads -> Seq(Reports)]
  BY DEF TInv, TypeOK
<1>2. ASSUME NEW kind \in Kinds, NEW t \in Nat, Report(p, kind, t)
      PROVE  /\ R(kind, t) \in Reports /\ R(kind, t).n = reports + 1 /\ reports' = reports + 1
             /\ kernel' = [kernel EXCEPT ![p] = Append(kernel[p], R(kind, t))]
             /\ UNCHANGED << collector, sharedDHIds, stateVars, openSession, handler, eventQueue,
                             sourceVars, toSource, touched >>
  BY <1>1, <1>2 DEF Report, Reports
<1>3. touch[p] + 1 \in Nat /\ touch[p] <= touch[p] + 1
  BY <1>1
<1>4. CASE Touch(p)
  <2>1. /\ p \notin finger /\ finger' = finger \cup {p} /\ Report(p, "down", touch[p] + 1)
        /\ touch' = [touch EXCEPT ![p] = touch[p] + 1] /\ UNCHANGED clickedBefore
        /\ lentTouches' = IF p \in sharedDHIds
                          THEN lentTouches \cup {<< p, touch[p] + 1 >>} ELSE lentTouches
    BY <1>4 DEF Touch
  <2>2. PICK r : r = R("down", touch[p] + 1)
    OBVIOUS
  <2>3. "down" \in Kinds /\ r.kind = "down" /\ r.pad = p /\ r.touch = touch[p] + 1
    BY <2>2 DEF Kinds
  <2>4. Reported(p, r)
    BY <1>1, <1>2, <1>3, <2>1, <2>2, <2>3 DEF Reported, Grows
  <2>5. touch'[p] = touch[p] + 1 /\ p \in finger'
    BY <1>1, <2>1
  <2>6. Follows(p, r)
    BY <1>1, <2>1, <2>3, <2>5 DEF Follows, Coming, After
  <2>7. StaysForeign(p, r)
    BY <2>1, <2>3, <2>5 DEF StaysForeign, Foreign
  <2>8. Lands(p, r)
    BY <2>1, <2>3, <2>5 DEF Lands
  <2> QED
    BY <2>4, <2>6, <2>7, <2>8 DEF Writes
<1>5. CASE Move(p)
  <2>1. PICK kind \in {"position", "other"} : Report(p, kind, touch[p])
    BY <1>5 DEF Move
  <2>2. p \in finger /\ UNCHANGED << finger, touch, clickedBefore, lentTouches >>
    BY <1>5 DEF Move
  <2>3. PICK r : r = R(kind, touch[p])
    OBVIOUS
  <2>4. kind \in Kinds /\ r.kind = kind /\ r.pad = p /\ r.touch = touch[p] /\ kind # "down" /\ kind # "up"
    BY <2>3 DEF Kinds
  <2>5. Reported(p, r)
    BY <1>1, <1>2, <2>1, <2>2, <2>3, <2>4 DEF Reported, Grows
  <2>6. Follows(p, r)
    BY <1>1, <2>2, <2>4 DEF Follows, Coming, After
  <2>7. StaysForeign(p, r)
    BY <2>2, <2>4 DEF StaysForeign, Foreign
  <2>8. Lands(p, r)
    BY <2>2, <2>4 DEF Lands
  <2> QED
    BY <2>5, <2>6, <2>7, <2>8 DEF Writes
<1>6. CASE Lift(p)
  <2>1. /\ p \in finger /\ finger' = finger \ {p} /\ Report(p, "up", touch[p])
        /\ UNCHANGED << touch, clickedBefore, lentTouches >>
    BY <1>6 DEF Lift
  <2>2. PICK r : r = R("up", touch[p])
    OBVIOUS
  <2>3. "up" \in Kinds /\ r.kind = "up" /\ r.pad = p /\ r.touch = touch[p]
    BY <2>2 DEF Kinds
  <2>4. Reported(p, r)
    BY <1>1, <1>2, <2>1, <2>2, <2>3 DEF Reported, Grows
  <2>5. Follows(p, r)
    BY <1>1, <2>1, <2>3 DEF Follows, Coming, After
  <2>6. StaysForeign(p, r)
    BY <2>1, <2>3 DEF StaysForeign, Foreign
  <2>7. Lands(p, r)
    BY <2>1, <2>3 DEF Lands
  <2> QED
    BY <2>4, <2>5, <2>6, <2>7 DEF Writes
<1>7. CASE Click(p)
  <2>1. /\ p \notin finger /\ Report(p, "other", touch[p] + 1)
        /\ clickedBefore' = clickedBefore \cup {<< p, touch[p] + 1 >>}
        /\ UNCHANGED << finger, touch, lentTouches >>
    BY <1>7 DEF Click
  <2>2. PICK r : r = R("other", touch[p] + 1)
    OBVIOUS
  <2>3. "other" \in Kinds /\ r.kind = "other" /\ r.pad = p /\ r.touch = touch[p] + 1
    BY <2>2 DEF Kinds
  <2>4. Reported(p, r)
    BY <1>1, <1>2, <1>3, <2>1, <2>2, <2>3 DEF Reported, Grows
  <2>5. Foreign(p, r.touch)'
    BY <2>1, <2>3 DEF Foreign
  <2>6. Follows(p, r)
    BY <1>1, <2>1, <2>3, <2>5 DEF Follows, Coming, After
  <2>7. StaysForeign(p, r)
    BY <2>1, <2>5 DEF StaysForeign
  <2>8. Lands(p, r)
    BY <2>1, <2>3 DEF Lands
  <2> QED
    BY <2>4, <2>6, <2>7, <2>8 DEF Writes
<1> QED
  BY <1>4, <1>5, <1>6, <1>7

(***************************************************************************)
(* Types.                                                                  *)
(***************************************************************************)
Own == /\ \A p \in Pads : \A r \in Elements(kernel[p]) \cup Elements(fragments[p]) : r.pad = p
       /\ \A r \in Elements(collector.read) : r.pad = collector.pad

LEMMA Typed ==
    ASSUME TInv
    PROVE  /\ kernel \in [Pads -> Seq(Reports)] /\ fragments \in [Pads -> Seq(Reports)]
           /\ collector.read \in Seq(Reports) /\ eventQueue \in Seq(Seq(Reports))
           /\ toSource \in [Sessions -> Seq(Reports)]
           /\ collector # Idle => /\ collector.pad \in Pads /\ collector.read # << >>
                                  /\ collector.checked \in BOOLEAN
           /\ collector = Idle => /\ collector.read = << >> /\ collector.pad = "none"
                                  /\ collector.checked = FALSE
<1>1. << >> \in Seq(Reports)
  OBVIOUS
<1>2. collector \in [pad : Pads, read : Seq(Reports), checked : BOOLEAN] \cup {Idle}
  BY DEF TInv, TypeOK
<1>3. Idle.read = << >> /\ Idle.pad = "none" /\ Idle.checked = FALSE
  BY DEF Idle
<1>4. collector.read \in Seq(Reports)
  BY <1>1, <1>2, <1>3
<1> QED
  BY <1>2, <1>3, <1>4 DEF TInv, TypeOK

LEMMA WritesTyped == ASSUME TInv, NEW p \in Pads, NEW r, Reported(p, r) PROVE TInv'
<1>1. /\ r \in Reports /\ r.pad = p /\ reports' = reports + 1 /\ reports \in Nat
      /\ kernel' = [kernel EXCEPT ![p] = Append(kernel[p], r)]
      /\ finger' \subseteq Pads /\ touch' \in [Pads -> Nat]
      /\ UNCHANGED << collector, sharedDHIds, fragments, lastSessionId, openSession, handler, eventQueue,
                      toSink, holder, asked, toSource, touched >>
  BY DEF Reported, stateVars, sourceVars, TInv
<1>2. kernel[p] \in Seq(Reports)
  BY Typed
<1>3. Append(kernel[p], r) \in Seq(Reports) /\ Elements(Append(kernel[p], r)) = Elements(kernel[p]) \cup {r}
  BY <1>1, <1>2, Appended
<1>4. kernel' \in [Pads -> Seq(Reports)]
  BY <1>1, <1>3, Typed
<1>5. \A q \in Pads : kernel'[q] = IF q = p THEN Append(kernel[p], r) ELSE kernel[q]
  BY <1>1, Typed
<1>6. TypeOK'
  BY <1>1, <1>4 DEF TInv, TypeOK
<1>7. Own'
  BY <1>1, <1>3, <1>5 DEF TInv, Own
<1> QED
  BY <1>1, <1>6, <1>7 DEF TInv, Own

LEMMA ReadTyped == ASSUME TInv, NEW p \in Pads, ReadEvents(p) PROVE TInv'
<1>1. /\ kernel[p] # << >>
      /\ collector' = [pad |-> p, read |-> kernel[p], checked |-> FALSE]
      /\ kernel' = [kernel EXCEPT ![p] = << >>]
      /\ UNCHANGED << finger, reports, touch, sharedDHIds, fragments, lastSessionId, openSession, handler,
                      eventQueue, toSink, holder, asked, toSource, touched >>
  BY DEF ReadEvents, stateVars, sourceVars
<1>2. kernel[p] \in Seq(Reports) /\ << >> \in Seq(Reports)
  BY Typed
<1>3. kernel' \in [Pads -> Seq(Reports)] /\ \A q \in Pads : kernel'[q] = IF q = p THEN << >> ELSE kernel[q]
  BY <1>1, <1>2, Typed
<1>4. collector' \in [pad : Pads, read : Seq(Reports), checked : BOOLEAN]
  BY <1>1, <1>2
<1>5. TypeOK'
  BY <1>1, <1>3, <1>4 DEF TInv, TypeOK
<1>6. Own'
  BY <1>1, <1>3, OfNothing DEF TInv, Own
<1>7. collector'.read # << >>
  BY <1>1
<1> QED
  BY <1>1, <1>5, <1>6, <1>7 DEF TInv, Own

LEMMA CheckTyped == ASSUME TInv, CheckShared PROVE TInv'
<1>1. /\ collector # Idle
      /\ UNCHANGED << finger, kernel, reports, touch, sharedDHIds, fragments, lastSessionId, openSession,
                      handler, toSink, holder, asked, toSource, touched >>
  BY DEF CheckShared, stateVars, sourceVars, userVars
<1>2. \/ eventQueue' = Append(eventQueue, collector.read) /\ collector' = Idle
      \/ collector' = [collector EXCEPT !.checked = TRUE] /\ UNCHANGED eventQueue
  BY DEF CheckShared
<1>3. eventQueue' \in Seq(Seq(Reports))
  <2>1. eventQueue \in Seq(Seq(Reports)) /\ collector.read \in Seq(Reports)
    BY Typed
  <2>2. Append(eventQueue, collector.read) \in Seq(Seq(Reports))
    BY <2>1, Appended
  <2> QED
    BY <1>2, <2>1, <2>2
<1>4. collector \in [pad : Pads, read : Seq(Reports), checked : BOOLEAN]
  BY <1>1 DEF TInv, TypeOK
<1>5. CASE collector' = Idle
  <2>1. TypeOK'
    BY <1>1, <1>3, <1>5 DEF TInv, TypeOK
  <2>2. Idle.read = << >>
    BY DEF Idle
  <2> QED
    BY <1>1, <1>5, <2>1, <2>2, OfNothing DEF TInv
<1>6. CASE collector' = [collector EXCEPT !.checked = TRUE]
  <2>1. collector' \in [pad : Pads, read : Seq(Reports), checked : BOOLEAN]
        /\ collector'.read = collector.read /\ collector'.pad = collector.pad
    BY <1>4, <1>6
  <2>2. TypeOK'
    BY <1>1, <1>3, <2>1 DEF TInv, TypeOK
  <2> QED
    BY <1>1, <2>1, <2>2 DEF TInv
<1> QED
  BY <1>2, <1>5, <1>6

\* What is replayed or sent back goes to the end of one channel.
LEMMA Sends ==
    ASSUME TInv, NEW s, NEW q \in Seq(Reports), SendKeyStateNodeMsgBatch(s, q)
    PROVE  /\ toSource' \in [Sessions -> Seq(Reports)]
           /\ \A t \in Sessions : toSource'[t] = IF t = s THEN toSource[t] \o q ELSE toSource[t]
<1>1. \A t \in Sessions : toSource[t] \in Seq(Reports)
  BY Typed
<1>2. \A t \in Sessions : toSource[t] \o q \in Seq(Reports)
  BY <1>1, Concatenated
<1>3. \A t \in Sessions : toSource[t] \o << >> = toSource[t]
  BY <1>1, OfNothing
<1>4. toSource' = [t \in Sessions |-> toSource[t] \o IF t = s THEN q ELSE << >>]
  BY DEF SendKeyStateNodeMsgBatch
<1>5. \A t \in Sessions : toSource'[t] = IF t = s THEN toSource[t] \o q ELSE toSource[t]
  BY <1>3, <1>4
<1>6. toSource' = [t \in Sessions |-> IF t = s THEN toSource[t] \o q ELSE toSource[t]]
  BY <1>3, <1>4
<1> QED
  BY <1>1, <1>2, <1>5, <1>6

\* DealSynEvent for the first report that was read.
RecordsReport(p, r, k) ==
    /\ p = collector.pad /\ p \in Pads /\ r = Head(collector.read) /\ r \in Reports /\ r.pad = p
    /\ k = Append(fragments[p], r) /\ k \in Seq(Reports)
    /\ collector # Idle /\ collector.checked /\ collector.read # << >>
    /\ collector'.read = Tail(collector.read)
    /\ collector'.read = << >> => collector' = Idle
    /\ collector'.read # << >> => /\ collector'.pad = p /\ collector'.checked
                                  /\ collector' \in [pad : Pads, read : Seq(Reports), checked : BOOLEAN]
    /\ \/ /\ r.kind = "up" /\ fragments' = [fragments EXCEPT ![p] = << >>]
          /\ \/ k[1].kind = "down" /\ UNCHANGED toSource
             \/ k[1].kind # "down" /\ SendKeyStateNodeMsgBatch(lastSessionId, k)
       \/ r.kind # "up" /\ fragments' = [fragments EXCEPT ![p] = k] /\ UNCHANGED toSource
       \/ r.kind # "up" /\ r.kind # "down" /\ UNCHANGED << fragments, toSource >>
    /\ UNCHANGED << userVars, sharedDHIds, lastSessionId, openSession, handler, eventQueue,
                    sourceVars, touched, lentTouches >>

LEMMA Records ==
    ASSUME TInv, RecordDeviceChangeStates
    PROVE  \E p, r, k : RecordsReport(p, r, k)
<1> DEFINE r == Head(collector.read)
           p == collector.pad
           k == Append(fragments[r.pad], r)
<1>1. /\ collector.checked /\ collector.read # << >> /\ DealSynEvent(r)
      /\ collector' = IF Tail(collector.read) = << >> THEN Idle
                      ELSE [collector EXCEPT !.read = Tail(collector.read)]
      /\ UNCHANGED << userVars, sharedDHIds, lastSessionId, openSession, handler, eventQueue,
                      sourceVars, touched, lentTouches >>
  BY DEF RecordDeviceChangeStates
<1>2. collector # Idle /\ p \in Pads /\ collector.read \in Seq(Reports)
      /\ collector \in [pad : Pads, read : Seq(Reports), checked : BOOLEAN]
  BY <1>1, Typed DEF TInv, TypeOK
<1>3. r \in Reports /\ r \in Elements(collector.read) /\ Tail(collector.read) \in Seq(Reports)
  BY <1>1, <1>2, OfTail
<1>4. r.pad = p /\ fragments[p] \in Seq(Reports)
  BY <1>2, <1>3, Typed DEF TInv
<1>5. k = Append(fragments[p], r)
  BY <1>4
<1>6. /\ k \in Seq(Reports) /\ Len(k) = Len(fragments[p]) + 1 /\ k[Len(fragments[p]) + 1] = r
  BY <1>3, <1>4, <1>5, Appended
<1>7. Last(k) = r
  BY <1>6 DEF Last
<1>8. /\ collector'.read = Tail(collector.read)
      /\ collector'.read = << >> => collector' = Idle
      /\ collector'.read # << >> => /\ collector'.pad = p /\ collector'.checked
                                    /\ collector' \in [pad : Pads, read : Seq(Reports), checked : BOOLEAN]
  <2>1. CASE Tail(collector.read) = << >>
    BY <1>1, <2>1 DEF Idle
  <2>2. CASE Tail(collector.read) # << >>
    BY <1>1, <1>2, <1>3, <2>2
  <2> QED
    BY <2>1, <2>2
<1>9. r.kind \in Kinds
  BY <1>3 DEF Reports
<1>10. CASE r.kind = "up"
  <2>1. /\ fragments' = [fragments EXCEPT ![r.pad] = << >>]
        /\ IF IsWholeTouchFragments(k) THEN UNCHANGED toSource
           ELSE SendKeyStateNodeMsgBatch(lastSessionId, k)
    BY <1>1, <1>10 DEF DealSynEvent
  <2>2. IsWholeTouchFragments(k) <=> k[1].kind = "down"
    BY <1>7, <1>10 DEF IsWholeTouchFragments
  <2>3. RecordsReport(p, r, k)
    BY <1>1, <1>2, <1>3, <1>4, <1>5, <1>6, <1>8, <1>10, <2>1, <2>2 DEF RecordsReport
  <2> QED
    BY <2>3
<1>11. CASE r.kind = "position"
  <2>1. UNCHANGED << fragments, toSource >>
    BY <1>1, <1>11 DEF DealSynEvent
  <2>2. RecordsReport(p, r, k)
    BY <1>1, <1>2, <1>3, <1>4, <1>5, <1>6, <1>8, <1>11, <2>1 DEF RecordsReport
  <2> QED
    BY <2>2
<1>12. CASE r.kind # "up" /\ r.kind # "position"
  <2>1. fragments' = [fragments EXCEPT ![r.pad] = k] /\ UNCHANGED toSource
    BY <1>1, <1>12 DEF DealSynEvent
  <2>2. RecordsReport(p, r, k)
    BY <1>1, <1>2, <1>3, <1>4, <1>5, <1>6, <1>8, <1>12, <2>1 DEF RecordsReport
  <2> QED
    BY <2>2
<1> QED
  BY <1>10, <1>11, <1>12

LEMMA RecordTyped == ASSUME TInv, NEW p, NEW r, NEW k, RecordsReport(p, r, k) PROVE TInv'
<1>1. /\ p \in Pads /\ p = collector.pad /\ r.pad = p /\ r \in Reports /\ k = Append(fragments[p], r)
      /\ k \in Seq(Reports) /\ collector'.read = Tail(collector.read) /\ collector.read # << >>
      /\ UNCHANGED << finger, kernel, reports, touch, sharedDHIds, lastSessionId, openSession,
                      handler, eventQueue, toSink, holder, asked, touched >>
  BY DEF RecordsReport, userVars, sourceVars
<1>2. fragments[p] \in Seq(Reports) /\ fragments \in [Pads -> Seq(Reports)] /\ << >> \in Seq(Reports)
      /\ collector.read \in Seq(Reports)
  BY <1>1, Typed
<1>3. Elements(k) = Elements(fragments[p]) \cup {r}
  BY <1>1, <1>2, Appended
<1>4. /\ fragments' \in [Pads -> Seq(Reports)]
      /\ \A q \in Pads : fragments'[q] = fragments[q] \/ (q = p /\ fragments'[q] \in {<< >>, k})
  <2>1. \/ fragments' = [fragments EXCEPT ![p] = << >>]
        \/ fragments' = [fragments EXCEPT ![p] = k]
        \/ fragments' = fragments
    BY DEF RecordsReport
  <2> QED
    BY <1>1, <1>2, <2>1
<1>5. toSource' \in [Sessions -> Seq(Reports)]
  BY <1>1, Sends, Typed DEF RecordsReport
<1>6. collector' \in [pad : Pads, read : Seq(Reports), checked : BOOLEAN] \cup {Idle}
      /\ (collector' # Idle => collector'.read # << >> /\ collector'.pad = p)
  BY DEF RecordsReport
<1>7. TypeOK'
  BY <1>1, <1>4, <1>5, <1>6 DEF TInv, TypeOK
<1>8. \A e \in Elements(collector'.read) : e.pad = collector'.pad
  <2>1. collector' = Idle => Elements(collector'.read) = {}
    BY OfNothing DEF Idle
  <2>2. Elements(Tail(collector.read)) \subseteq Elements(collector.read)
    BY <1>1, <1>2, OfTail
  <2> QED
    BY <1>1, <1>6, <2>1, <2>2 DEF TInv
<1>9. \A q \in Pads : \A e \in Elements(kernel'[q]) \cup Elements(fragments'[q]) : e.pad = q
  BY <1>1, <1>3, <1>4, OfNothing DEF TInv
<1> QED
  BY <1>1, <1>6, <1>7, <1>8, <1>9 DEF TInv

(***************************************************************************)
(* Requests.                                                               *)
(***************************************************************************)
LEMMA Takes ==
    ASSUME TInv, NEW cmd, Take(cmd)
    PROVE  /\ handler = NoRequest /\ handler' = Head(toSink) /\ Head(toSink) \in Requests
           /\ Head(toSink).cmd = cmd /\ toSink' \in Seq(Requests) /\ HandlerMayGo
BY HeadTailProperties DEF Take, TInv

LEMMA Handling == ASSUME TInv PROVE handler # NoRequest => handler \in Requests
BY DEF TInv

LEMMA RequestIs ==
    ASSUME NEW h \in Requests
    PROVE  h.session \in Sessions /\ h.dhId \in DhIds /\ h.cmd \in {"start", "stop"} /\ h # NoRequest
BY DEF Requests, NoRequest

LEMMA StartTyped == ASSUME TInv, StartRecordDhIds PROVE TInv'
<1> DEFINE h == Head(toSink)
<1>1. /\ h \in Requests /\ handler' = h /\ toSink' \in Seq(Requests)
      /\ openSession' = h.session /\ lastSessionId' = h.session
      /\ UNCHANGED << finger, kernel, reports, touch, collector, sharedDHIds, eventQueue, holder, asked, touched >>
  BY Takes DEF StartRecordDhIds, userVars
<1>2. h.session \in Sessions /\ h.dhId \in DhIds
  BY <1>1, RequestIs
<1>3. << >> \in Seq(Reports) /\ fragments \in [Pads -> Seq(Reports)] /\ toSource \in [Sessions -> Seq(Reports)]
  BY Typed
<1>4. /\ fragments' \in [Pads -> Seq(Reports)] /\ toSource' \in [Sessions -> Seq(Reports)]
      /\ \A q \in Pads : fragments'[q] = fragments[q] \/ fragments'[q] = << >>
  <2>1. CASE h.dhId \in Pads
    <3>1. /\ SendKeyStateNodeMsgBatch(h.session, fragments[h.dhId])
          /\ fragments' = [fragments EXCEPT ![h.dhId] = << >>]
      BY <2>1 DEF StartRecordDhIds
    <3>2. fragments[h.dhId] \in Seq(Reports)
      BY <1>3, <2>1
    <3> QED
      BY <1>3, <3>1, <3>2, Sends
  <2>2. CASE h.dhId \notin Pads
    BY <1>3, <2>2 DEF StartRecordDhIds
  <2> QED
    BY <2>1, <2>2
<1> HIDE DEF h
<1>5. TypeOK'
  BY <1>1, <1>2, <1>4 DEF TInv, TypeOK
<1>6. \A q \in Pads : \A e \in Elements(kernel'[q]) \cup Elements(fragments'[q]) : e.pad = q
  BY <1>1, <1>4, OfNothing DEF TInv
<1> QED
  BY <1>1, <1>5, <1>6 DEF TInv

LEMMA RequestsTyped ==
    ASSUME TInv, StartSetSharing \/ StopSetSharing \/ StopRecordDhIds
    PROVE  TInv'
<1>1. UNCHANGED << finger, kernel, reports, touch, collector, fragments, eventQueue, holder, asked,
                   toSource, touched >>
  BY DEF StartSetSharing, StopSetSharing, StopRecordDhIds, userVars, stateVars
<1>2. /\ handler' \in Requests \cup {NoRequest} /\ toSink' \in Seq(Requests)
      /\ sharedDHIds' \subseteq DhIds /\ {lastSessionId', openSession'} \subseteq Sessions \cup {0}
  <2>1. CASE StartSetSharing
    <3>1. handler.cmd = "start"
      BY <2>1 DEF StartSetSharing
    <3>2. handler \in Requests
      BY <3>1, Handling DEF NoRequest
    <3> QED
      BY <2>1, <3>2, RequestIs DEF StartSetSharing, Done, stateVars, TInv, TypeOK
  <2>2. CASE StopSetSharing
    BY <2>2, Takes DEF StopSetSharing, stateVars, TInv, TypeOK
  <2>3. CASE StopRecordDhIds
    <3>1. handler.cmd = "stop"
      BY <2>3 DEF StopRecordDhIds
    <3>2. handler \in Requests
      BY <3>1, Handling DEF NoRequest
    <3> QED
      BY <2>3, <3>2, RequestIs DEF StopRecordDhIds, Done, TInv, TypeOK
  <2> QED
    BY <2>1, <2>2, <2>3
<1>3. TypeOK'
  BY <1>1, <1>2 DEF TInv, TypeOK
<1> QED
  BY <1>1, <1>2, <1>3 DEF TInv

LEMMA AskTyped ==
    ASSUME TInv, NEW d \in DhIds, (\E s \in Sessions : StartRemoteInput(s, d)) \/ StopRemoteInput(d)
    PROVE  TInv'
<1>1. \E s \in Sessions : holder' = s
  BY DEF StartRemoteInput, StopRemoteInput, TInv
<1>2. /\ UNCHANGED << finger, kernel, reports, touch, collector, sharedDHIds, fragments, lastSessionId,
                      openSession, handler, eventQueue, toSource, touched >>
      /\ asked' \subseteq DhIds
  BY DEF StartRemoteInput, StopRemoteInput, Ask, userVars, stateVars, TInv, TypeOK
<1>3. \E cmd \in {"start", "stop"}, s \in Sessions :
         toSink' = Append(toSink, [cmd |-> cmd, session |-> s, dhId |-> d])
  BY DEF StartRemoteInput, StopRemoteInput, Ask, TInv
<1>4. toSink' \in Seq(Requests)
  <2>1. PICK cmd \in {"start", "stop"}, s \in Sessions :
                toSink' = Append(toSink, [cmd |-> cmd, session |-> s, dhId |-> d])
    BY <1>3
  <2>2. [cmd |-> cmd, session |-> s, dhId |-> d] \in Requests
    BY DEF Requests
  <2> QED
    BY <2>1, <2>2, AppendProperties DEF TInv
<1>5. TypeOK'
  BY <1>1, <1>2 DEF TInv, TypeOK
<1> QED
  BY <1>1, <1>2, <1>4, <1>5 DEF TInv

LEMMA SendTyped == ASSUME TInv, SendEvents PROVE TInv'
<1>1. UNCHANGED << finger, kernel, reports, touch, collector, sharedDHIds, fragments, lastSessionId,
                   openSession, handler, toSink, holder, asked, touched >>
  BY DEF SendEvents, userVars, stateVars, sourceVars
<1>2. eventQueue # << >> /\ eventQueue \in Seq(Seq(Reports)) /\ eventQueue' = Tail(eventQueue)
      /\ toSource' = [s \in Sessions |->
                        IF s = openSession THEN toSource[s] \o Head(eventQueue) ELSE toSource[s]]
  BY Typed DEF SendEvents
<1>3. eventQueue' \in Seq(Seq(Reports)) /\ Head(eventQueue) \in Seq(Reports)
  BY <1>2, OfTail
<1>4. \A s \in Sessions : toSource[s] \in Seq(Reports) /\ toSource[s] \o Head(eventQueue) \in Seq(Reports)
  BY <1>3, Concatenated, Typed
<1>5. toSource' \in [Sessions -> Seq(Reports)]
  BY <1>2, <1>4
<1>6. TypeOK'
  BY <1>1, <1>3, <1>5 DEF TInv, TypeOK
<1> QED
  BY <1>1, <1>6 DEF TInv

LEMMA InjectTyped == ASSUME TInv, NEW s \in Sessions, InjectInputEvent(s) PROVE TInv'
<1>1. UNCHANGED << finger, kernel, reports, touch, collector, sharedDHIds, fragments, lastSessionId,
                   openSession, handler, eventQueue, toSink, holder, asked >>
  BY DEF InjectInputEvent, userVars, stateVars, sourceVars
<1>2. toSource[s] # << >> /\ toSource' = [toSource EXCEPT ![s] = Tail(toSource[s])]
  BY DEF InjectInputEvent
<1>3. Tail(toSource[s]) \in Seq(Reports) /\ Head(toSource[s]) \in Reports
  BY <1>2, OfTail, Typed
<1>4. toSource' \in [Sessions -> Seq(Reports)]
  BY <1>2, <1>3, Typed
<1>5. touched' \in [Sessions -> SUBSET Pads]
  <2>1. Head(toSource[s]).pad \in Pads
    BY <1>3 DEF Reports
  <2> QED
    BY <2>1 DEF InjectInputEvent, TInv, TypeOK
<1>6. TypeOK'
  BY <1>1, <1>4, <1>5 DEF TInv, TypeOK
<1> QED
  BY <1>1, <1>6 DEF TInv

LEMMA InitTyped == Init => TInv
<1> SUFFICES ASSUME Init PROVE TInv
  OBVIOUS
<1>1. \A S : << >> \in Seq(S)
  OBVIOUS
<1>2. TypeOK
  BY <1>1 DEF Init, TypeOK
<1>3. Own
  BY OfNothing DEF Init, Own, Idle
<1> QED
  BY <1>1, <1>2, <1>3 DEF Init, TInv, Own

LEMMA NextTyped == TInv /\ [Next]_vars => TInv'
<1> SUFFICES ASSUME TInv, [Next]_vars PROVE TInv'
  OBVIOUS
<1>1. ASSUME NEW p \in Pads, Touch(p) \/ Move(p) \/ Lift(p) \/ Click(p) PROVE TInv'
  BY <1>1, UserWrites, WritesTyped DEF Writes
<1>2. ASSUME NEW p \in Pads, ReadEvents(p) PROVE TInv'
  BY <1>2, ReadTyped
<1>3. CASE CheckShared \/ RecordDeviceChangeStates
  BY <1>3, CheckTyped, Records, RecordTyped
<1>4. CASE StartRecordDhIds \/ StartSetSharing \/ StopSetSharing \/ StopRecordDhIds
  BY <1>4, StartTyped, RequestsTyped
<1>5. ASSUME NEW d \in DhIds, (\E s \in Sessions : StartRemoteInput(s, d)) \/ StopRemoteInput(d) PROVE TInv'
  BY <1>5, AskTyped
<1>6. CASE SendEvents
  BY <1>6, SendTyped
<1>7. ASSUME NEW s \in Sessions, InjectInputEvent(s) PROVE TInv'
  BY <1>7, InjectTyped
<1>8. CASE UNCHANGED vars
  BY <1>8 DEF vars, userVars, stateVars, sourceVars, TInv, TypeOK
<1> QED
  BY <1>1, <1>2, <1>3, <1>4, <1>5, <1>6, <1>7, <1>8 DEF Next

(***************************************************************************)
(* The collector, the handler and the sender take turns.                   *)
(***************************************************************************)
LEMMA Waits ==
    ASSUME Overlap = FALSE
    PROVE  /\ HandlerMayGo => collector = Idle /\ eventQueue = << >>
           /\ CollectorMayGo => handler = NoRequest /\ eventQueue = << >>
BY DEF HandlerMayGo, CollectorMayGo

LEMMA NextTurns ==
    ASSUME Overlap = FALSE, TInv, InTurns, [Next]_vars
    PROVE  InTurns'
<1>0. /\ collector # Idle => eventQueue = << >> /\ handler = NoRequest
      /\ collector.checked => collector.pad \notin sharedDHIds /\ collector # Idle
      /\ eventQueue # << >> => Len(eventQueue) = 1
      /\ \A p \in Pads : p \in sharedDHIds \/ Starting(p) => fragments[p] = << >>
      /\ NoRequest.cmd = "none" /\ Idle.checked = FALSE /\ Len(<< >>) = 0
  BY Typed DEF InTurns, NoRequest, Idle
<1>1. ASSUME UNCHANGED << eventQueue, collector, handler, sharedDHIds, fragments >> PROVE InTurns'
  BY <1>0, <1>1 DEF InTurns, Starting
<1>2. ASSUME NEW p \in Pads, Touch(p) \/ Move(p) \/ Lift(p) \/ Click(p) PROVE InTurns'
  <2>1. PICK r : Reported(p, r)
    BY <1>2, UserWrites DEF Writes
  <2> QED
    BY <1>1, <2>1 DEF Reported, stateVars
<1>3. ASSUME NEW p \in Pads, ReadEvents(p) PROVE InTurns'
  <2>1. /\ handler = NoRequest /\ eventQueue = << >>
        /\ collector'.checked = FALSE /\ UNCHANGED << sharedDHIds, fragments, handler, eventQueue >>
    BY <1>3, Waits DEF ReadEvents, stateVars
  <2> QED
    BY <1>0, <2>1 DEF InTurns, Starting
<1>4. CASE CheckShared
  <2>1. /\ collector # Idle /\ eventQueue = << >> /\ handler = NoRequest
        /\ UNCHANGED << sharedDHIds, fragments, handler >>
    BY <1>0, <1>4 DEF CheckShared, stateVars
  <2>2. CASE collector.pad \in sharedDHIds
    <3>1. eventQueue' = Append(eventQueue, collector.read) /\ collector' = Idle
      BY <1>4, <2>2 DEF CheckShared
    <3>2. Len(eventQueue') = 1
      BY <1>0, <2>1, <3>1, AppendProperties, Typed
    <3> QED
      BY <1>0, <2>1, <3>1, <3>2 DEF InTurns, Starting
  <2>3. CASE collector.pad \notin sharedDHIds
    <3>1. collector'.pad = collector.pad /\ UNCHANGED eventQueue
      BY <1>4, <2>1, <2>3 DEF CheckShared, TInv, TypeOK
    <3> QED
      BY <1>0, <2>1, <2>3, <3>1 DEF InTurns, Starting
  <2> QED
    BY <2>2, <2>3
<1>5. CASE RecordDeviceChangeStates
  <2>1. PICK p, r, k : RecordsReport(p, r, k)
    BY <1>5, Records
  <2>2. /\ p \in Pads /\ p = collector.pad /\ collector.checked /\ collector # Idle
        /\ collector' = Idle \/ collector'.pad = p
        /\ UNCHANGED << sharedDHIds, handler, eventQueue >>
    BY <2>1 DEF RecordsReport
  <2>3. \A q \in Pads : q # p => fragments'[q] = fragments[q]
    <3>1. \/ fragments' = [fragments EXCEPT ![p] = << >>]
          \/ fragments' = [fragments EXCEPT ![p] = k]
          \/ fragments' = fragments
      BY <2>1 DEF RecordsReport
    <3> QED
      BY <3>1, Typed
  <2>4. ~ Starting(p) /\ p \notin sharedDHIds
    BY <1>0, <2>2 DEF Starting
  <2> QED
    BY <1>0, <2>2, <2>3, <2>4 DEF InTurns, Starting
<1>6. CASE StartRecordDhIds
  <2>1. /\ collector = Idle /\ eventQueue = << >> /\ handler' = Head(toSink)
        /\ UNCHANGED << collector, sharedDHIds, eventQueue >>
    BY <1>6, Takes, Waits DEF StartRecordDhIds
  <2>2. ASSUME NEW p \in Pads PROVE /\ handler'.dhId = p => fragments'[p] = << >>
                                    /\ fragments[p] = << >> => fragments'[p] = << >>
    <3>1. CASE handler'.dhId \in Pads
      <4>1. fragments' = [fragments EXCEPT ![handler'.dhId] = << >>]
        BY <1>6, <2>1, <3>1 DEF StartRecordDhIds
      <4> QED
        BY <4>1, Typed
    <3>2. CASE handler'.dhId \notin Pads
      BY <1>6, <2>1, <3>2 DEF StartRecordDhIds
    <3> QED
      BY <3>1, <3>2
  <2> QED
    BY <1>0, <2>1, <2>2 DEF InTurns, Starting
<1>7. CASE StartSetSharing
  <2>1. /\ handler.cmd = "start" /\ handler' = NoRequest /\ collector = Idle
        /\ sharedDHIds' = sharedDHIds \cup {handler.dhId}
        /\ UNCHANGED << collector, eventQueue, fragments >>
    BY <1>0, <1>7 DEF StartSetSharing, Done, stateVars
  <2> QED
    BY <1>0, <2>1 DEF InTurns, Starting
<1>8. CASE StopSetSharing
  <2>1. /\ handler'.cmd = "stop" /\ collector = Idle /\ eventQueue = << >>
        /\ sharedDHIds' \subseteq sharedDHIds
        /\ UNCHANGED << collector, eventQueue, fragments >>
    BY <1>8, Takes, Waits DEF StopSetSharing, stateVars
  <2> QED
    BY <1>0, <2>1 DEF InTurns, Starting
<1>9. CASE StopRecordDhIds
  <2>1. /\ handler' = NoRequest /\ UNCHANGED << collector, eventQueue, fragments, sharedDHIds >>
    BY <1>9 DEF StopRecordDhIds, Done
  <2> QED
    BY <1>0, <2>1 DEF InTurns, Starting
<1>10. CASE SendEvents
  <2>1. eventQueue' = << >> /\ UNCHANGED << collector, handler, sharedDHIds, fragments >>
    BY <1>0, <1>10, OneBatch, Typed DEF SendEvents, stateVars
  <2> QED
    BY <1>0, <2>1 DEF InTurns, Starting
<1>11. ASSUME NEW d \in DhIds, (\E s \in Sessions : StartRemoteInput(s, d)) \/ StopRemoteInput(d) PROVE InTurns'
  BY <1>1, <1>11 DEF StartRemoteInput, StopRemoteInput, Ask, stateVars
<1>12. ASSUME NEW s \in Sessions, InjectInputEvent(s) PROVE InTurns'
  BY <1>1, <1>12 DEF InjectInputEvent, stateVars
<1>13. CASE UNCHANGED vars
  BY <1>1, <1>13 DEF vars, stateVars
<1> QED
  BY <1>2, <1>3, <1>4, <1>5, <1>6, <1>7, <1>8, <1>9, <1>10, <1>11, <1>12, <1>13 DEF Next

(***************************************************************************)
(* The order of the reports.                                               *)
(***************************************************************************)
LEMMA AtPlaces ==
    /\ \A p \in Pads : Elements(fragments[p]) \subseteq Kept /\ Elements(kernel[p]) \subseteq Held
    /\ \A r \in Kept : \E p \in Pads : r \in Elements(fragments[p])
    /\ \A r \in Held : \E p \in Pads : r \in Elements(kernel[p])
BY DEF Kept, Held

LEMMA PostedIs ==
    ASSUME TInv, InTurns
    PROVE  /\ eventQueue = << >> => Posted = {}
           /\ eventQueue # << >> => /\ Posted = Elements(Head(eventQueue)) /\ Tail(eventQueue) = << >>
                                    /\ Head(eventQueue) \in Seq(Reports)
                                    /\ QueuesAscend => Ascending(Head(eventQueue))
<1>1. DOMAIN eventQueue = 1 .. Len(eventQueue) /\ eventQueue \in Seq(Seq(Reports))
  BY Typed, OfSeq
<1>2. CASE eventQueue = << >>
  <2>1. DOMAIN eventQueue = {}
    BY <1>2
  <2> QED
    BY <1>2, <2>1 DEF Posted
<1>3. CASE eventQueue # << >>
  <2>1. Len(eventQueue) = 1
    BY <1>3 DEF InTurns
  <2>2. /\ eventQueue[1] \in Seq(Reports) /\ Tail(eventQueue) = << >>
        /\ Head(eventQueue) = eventQueue[1]
    BY <1>1, <2>1, OneBatch
  <2>3. DOMAIN eventQueue = {1}
    BY <1>1, <2>1
  <2>4. Posted = Elements(eventQueue[1])
    BY <2>3 DEF Posted
  <2> QED
    BY <1>3, <2>2, <2>3, <2>4 DEF QueuesAscend
<1> QED
  BY <1>2, <1>3

LEMMA OrderSame ==
    ASSUME OrderInv, UNCHANGED << toSource, eventQueue, fragments, collector, kernel, reports >>
    PROVE  OrderInv'
BY DEF OrderInv, QueuesAscend, PlacesAscend, Sent, Posted, Kept, Read, Held, Ascending, Before

LEMMA WritesInOrder ==
    ASSUME TInv, OrderInv, NEW p \in Pads, NEW r, Reported(p, r)
    PROVE  OrderInv'
<1>1. /\ r \in Reports /\ r.pad = p /\ r.n = reports + 1 /\ reports' = reports + 1 /\ reports \in Nat
      /\ kernel' = [kernel EXCEPT ![p] = Append(kernel[p], r)]
      /\ UNCHANGED << toSource, eventQueue, fragments, collector >>
  BY DEF Reported, stateVars, TInv
<1>2. /\ kernel[p] \in Seq(Reports) /\ kernel \in [Pads -> Seq(Reports)]
      /\ Elements(Append(kernel[p], r)) = Elements(kernel[p]) \cup {r}
  BY <1>1, Typed, Appended
<1>3. \A q \in Pads : kernel'[q] = IF q = p THEN Append(kernel[p], r) ELSE kernel[q]
  BY <1>1, <1>2
<1>4. Held' = Held \cup {r}
  <2>1. \A x \in Held' : x \in Held \/ x = r
    BY <1>2, <1>3 DEF Held
  <2>2. \A x \in Held : x \in Held'
    BY <1>2, <1>3 DEF Held
  <2>3. r \in Held'
    BY <1>2, <1>3 DEF Held
  <2> QED
    BY <2>1, <2>2, <2>3
<1>5. (\A s \in Sessions : Sent(s)' = Sent(s)) /\ Posted' = Posted /\ Kept' = Kept /\ Read' = Read
  BY <1>1 DEF Sent, Posted, Kept, Read
<1>6. /\ \A s \in Sessions : \A x \in Sent(s) : x.n <= reports
      /\ \A x \in Posted \cup Kept \cup Read \cup Held : x.n <= reports
  BY DEF OrderInv, PlacesAscend
<1>7. \A x \in Reports : x.n \in Nat
  BY DEF Reports
<1>8. /\ \A s \in Sessions : Sent(s) \subseteq Reports
      /\ Posted \cup Kept \cup Read \cup Held \subseteq Reports
  <2>1. \A s \in Sessions : Sent(s) \subseteq Reports
    BY Typed, OfSeq DEF Sent
  <2>2. Kept \subseteq Reports /\ Held \subseteq Reports /\ Read \subseteq Reports
    BY Typed, OfSeq DEF Kept, Held, Read
  <2>3. Posted \subseteq Reports
    <3>1. \A i \in DOMAIN eventQueue : eventQueue[i] \in Seq(Reports)
      BY Typed, OfSeq, ElementOfSeq
    <3> QED
      BY <3>1, OfSeq DEF Posted
  <2> QED
    BY <2>1, <2>2, <2>3
<1>9. /\ \A s \in Sessions : Before(Sent(s), {r})
      /\ Before(Posted \cup Kept \cup Read \cup Held, {r})
  BY <1>1, <1>6, <1>7, <1>8 DEF Before
<1>10. PlacesAscend'
  <2>1. \A s \in Sessions : Before(Sent(s)', (Posted \cup Kept \cup Read \cup Held)')
    BY <1>4, <1>5, <1>9 DEF Before, OrderInv, PlacesAscend
  <2>2. /\ Before(Posted', (Kept \cup Read \cup Held)') /\ Before(Kept', (Read \cup Held)')
        /\ Before(Read', Held')
    BY <1>4, <1>5, <1>9 DEF Before, OrderInv, PlacesAscend
  <2>3. /\ \A s \in Sessions : \A x \in Sent(s)' : x.n <= reports'
        /\ \A x \in (Posted \cup Kept \cup Read \cup Held)' : x.n <= reports'
    BY <1>1, <1>4, <1>5, <1>6, <1>7, <1>8
  <2> QED
    BY <2>1, <2>2, <2>3 DEF PlacesAscend
<1>11. QueuesAscend'
  <2>1. Ascending(kernel[p]) /\ Before(Elements(kernel[p]), {r})
    BY <1>9, AtPlaces DEF OrderInv, QueuesAscend, Before
  <2>2. Ascending(Append(kernel[p], r))
    BY <1>1, <1>2, <2>1, AppendAscends
  <2> QED
    BY <1>1, <1>3, <2>2 DEF OrderInv, QueuesAscend
<1> QED
  BY <1>10, <1>11 DEF OrderInv

LEMMA ReadInOrder ==
    ASSUME TInv, OrderInv, NEW p \in Pads, ReadEvents(p)
    PROVE  OrderInv'
<1>1. /\ collector = Idle /\ collector'.read = kernel[p] /\ kernel' = [kernel EXCEPT ![p] = << >>]
      /\ UNCHANGED << toSource, eventQueue, fragments, reports >>
  BY DEF ReadEvents, stateVars, sourceVars
<1>2. \A q \in Pads : kernel'[q] = IF q = p THEN << >> ELSE kernel[q]
  BY <1>1, Typed
<1>3. (\A s \in Sessions : Sent(s)' = Sent(s)) /\ Posted' = Posted /\ Kept' = Kept
  BY <1>1 DEF Sent, Posted, Kept
<1>4. Read = {} /\ Read' = Elements(kernel[p]) /\ Read' \subseteq Held
  BY <1>1, Typed, OfNothing DEF Read, Held
<1>5. Held' \subseteq Held /\ \A r \in Held' : r.pad # p
  <2>1. ASSUME NEW r \in Held' PROVE r \in Held /\ r.pad # p
    <3>1. PICK q \in Pads : r \in Elements(kernel'[q])
      BY <2>1 DEF Held
    <3>2. q # p /\ r \in Elements(kernel[q])
      BY <1>2, <3>1, OfNothing
    <3> QED
      BY <3>2 DEF TInv, Held
  <2> QED
    BY <2>1
<1>6. \A r \in Read' : r.pad = p
  BY <1>4 DEF TInv
<1>7. QueuesAscend'
  BY <1>1, <1>2, OfNothing DEF OrderInv, QueuesAscend
<1>8. Before(Read', Held')
  BY <1>5, <1>6 DEF Before
<1>9. PlacesAscend'
  <2>1. /\ \A s \in Sessions : \A r \in Sent(s)' : r.n <= reports'
        /\ \A r \in (Posted \cup Kept \cup Read \cup Held)' : r.n <= reports'
    BY <1>1, <1>3, <1>4, <1>5 DEF OrderInv, PlacesAscend
  <2>2. /\ \A s \in Sessions : Before(Sent(s)', (Posted \cup Kept \cup Read \cup Held)')
        /\ Before(Posted', (Kept \cup Read \cup Held)') /\ Before(Kept', (Read \cup Held)')
    BY <1>3, <1>4, <1>5 DEF OrderInv, PlacesAscend, Before
  <2> QED
    BY <1>8, <2>1, <2>2 DEF PlacesAscend
<1> QED
  BY <1>7, <1>9 DEF OrderInv

LEMMA CheckInOrder ==
    ASSUME TInv, InTurns, InTurns', TInv', OrderInv, CheckShared
    PROVE  OrderInv'
<1>1. /\ collector # Idle /\ UNCHANGED << toSource, kernel, fragments, reports, sharedDHIds >>
  BY DEF CheckShared, userVars, stateVars
<1>2. eventQueue = << >>
  BY <1>1 DEF InTurns
<1>3. CASE collector.pad \in sharedDHIds
  <2>1. eventQueue' = Append(eventQueue, collector.read) /\ collector' = Idle
    BY <1>3 DEF CheckShared
  <2>2. /\ eventQueue' = << collector.read >> /\ DOMAIN eventQueue' = {1}
        /\ eventQueue'[1] = collector.read
    BY <1>2, <2>1
  <2>3. Posted = {} /\ Posted' = Read /\ Read' = {}
    <3>1. Posted = {}
      BY <1>2 DEF Posted
    <3>2. Posted' = Elements(collector.read)
      BY <2>2 DEF Posted
    <3>3. Read' = {}
      BY <2>1, OfNothing DEF Read, Idle
    <3> QED
      BY <3>1, <3>2, <3>3 DEF Read
  <2>4. (\A s \in Sessions : Sent(s)' = Sent(s)) /\ Kept' = Kept /\ Held' = Held
    BY <1>1 DEF Sent, Kept, Held
  <2>5. collector.pad \in Pads /\ fragments[collector.pad] = << >>
    BY <1>1, <1>3, Typed DEF InTurns
  <2>6. \A r \in Read : r.pad = collector.pad
    BY DEF Read, TInv
  <2>7. \A r \in Kept : r.pad # collector.pad
    BY <2>5, AtPlaces, OfNothing DEF TInv
  <2>8. QueuesAscend'
    BY <1>1, <2>1, <2>2, OfNothing DEF OrderInv, QueuesAscend, Idle
  <2>9. /\ \A s \in Sessions : \A r \in Sent(s)' : r.n <= reports'
        /\ \A r \in (Posted \cup Kept \cup Read \cup Held)' : r.n <= reports'
    BY <1>1, <2>3, <2>4 DEF OrderInv, PlacesAscend
  <2>10. Before(Posted', (Kept \cup Read \cup Held)')
    BY <2>3, <2>4, <2>6, <2>7 DEF OrderInv, PlacesAscend, Before
  <2>11. /\ \A s \in Sessions : Before(Sent(s)', (Posted \cup Kept \cup Read \cup Held)')
         /\ Before(Kept', (Read \cup Held)') /\ Before(Read', Held')
    BY <2>3, <2>4 DEF OrderInv, PlacesAscend, Before
  <2> QED
    BY <2>8, <2>9, <2>10, <2>11 DEF OrderInv, PlacesAscend
<1>4. CASE collector.pad \notin sharedDHIds
  <2>1. UNCHANGED eventQueue /\ collector' = [collector EXCEPT !.checked = TRUE]
    BY <1>4 DEF CheckShared
  <2>2. collector'.read = collector.read
    BY <1>1, <2>1 DEF TInv, TypeOK
  <2> QED
    BY <1>1, <2>1, <2>2
       DEF OrderInv, QueuesAscend, PlacesAscend, Sent, Posted, Kept, Read, Held, Ascending, Before
<1> QED
  BY <1>3, <1>4

LEMMA RecordInOrder ==
    ASSUME TInv, InTurns, OrderInv, NEW p, NEW r, NEW k, RecordsReport(p, r, k)
    PROVE  OrderInv'
<1>1. /\ p \in Pads /\ p = collector.pad /\ r.pad = p /\ r \in Reports /\ k = Append(fragments[p], r)
      /\ k \in Seq(Reports) /\ collector'.read = Tail(collector.read) /\ collector.read # << >>
      /\ r = Head(collector.read) /\ collector # Idle
      /\ UNCHANGED << kernel, eventQueue, reports >>
  BY DEF RecordsReport, userVars
<1>2. fragments[p] \in Seq(Reports) /\ fragments \in [Pads -> Seq(Reports)]
      /\ collector.read \in Seq(Reports)
  BY <1>1, Typed
<1>3. /\ Read = {r} \cup Read' /\ Ascending(collector'.read) /\ Before({r}, Read')
  <2>1. Ascending(collector.read)
    BY DEF OrderInv, QueuesAscend
  <2> QED
    BY <1>1, <1>2, <2>1, OfTail DEF Read
<1>4. Posted = {} /\ Posted' = {} /\ Held' = Held
  <2>1. eventQueue = << >>
    BY <1>1 DEF InTurns
  <2> QED
    BY <1>1, <2>1 DEF Posted, Held
<1>5. Elements(k) = Elements(fragments[p]) \cup {r}
  BY <1>1, <1>2, Appended
<1>6. Before(Elements(fragments[p]), {r}) /\ Ascending(fragments[p])
  BY <1>1, <1>3, AtPlaces DEF OrderInv, QueuesAscend, PlacesAscend, Before
<1>7. Ascending(k)
  BY <1>1, <1>2, <1>6, AppendAscends
<1>8. CASE fragments' = [fragments EXCEPT ![p] = << >>] /\ SendKeyStateNodeMsgBatch(lastSessionId, k)
  <2>1. \A q \in Pads : fragments'[q] = IF q = p THEN << >> ELSE fragments[q]
    BY <1>1, <1>2, <1>8
  <2>2. Kept' \subseteq Kept /\ \A x \in Kept' : x.pad # p
    <3>1. ASSUME NEW x \in Kept' PROVE x \in Kept /\ x.pad # p
      <4>1. PICK q \in Pads : x \in Elements(fragments'[q])
        BY <3>1 DEF Kept
      <4>2. q # p /\ x \in Elements(fragments[q])
        BY <2>1, <4>1, OfNothing
      <4> QED
        BY <4>2 DEF TInv, Kept
    <3> QED
      BY <3>1
  <2>3. \A s \in Sessions :
           /\ Sent(s)' \subseteq Sent(s) \cup Elements(k)
           /\ Ascending(toSource'[s])
    <3> SUFFICES ASSUME NEW s \in Sessions
                 PROVE  Sent(s)' \subseteq Sent(s) \cup Elements(k) /\ Ascending(toSource'[s])
      OBVIOUS
    <3>1. toSource'[s] = IF s = lastSessionId THEN toSource[s] \o k ELSE toSource[s]
      BY <1>1, <1>8, Sends
    <3>2. toSource[s] \in Seq(Reports) /\ Ascending(toSource[s])
      BY Typed DEF OrderInv, QueuesAscend
    <3>3. Before(Elements(toSource[s]), Elements(k))
      <4>1. Before(Sent(s), Kept \cup Read)
        BY DEF OrderInv, PlacesAscend, Before
      <4>2. Elements(k) \subseteq Kept \cup Read
        BY <1>1, <1>3, <1>5, AtPlaces
      <4> QED
        BY <4>1, <4>2 DEF Before, Sent
    <3>4. Elements(toSource[s] \o k) = Elements(toSource[s]) \cup Elements(k)
      <4>1. k \in Seq(Reports) /\ toSource[s] \in Seq(Reports)
        BY <1>1, <3>2
      <4> QED
        BY <4>1, Concatenated
    <3>5. Ascending(toSource[s] \o k)
      BY <1>1, <1>7, <3>2, <3>3, ConcatAscends
    <3> QED
      BY <3>1, <3>2, <3>4, <3>5 DEF Sent
  <2>4. QueuesAscend'
    BY <1>1, <1>3, <2>1, <2>3, OfNothing DEF OrderInv, QueuesAscend
  <2>5. Elements(k) \subseteq Kept \cup Read /\ \A x \in Elements(k) : x.pad = p
    BY <1>1, <1>3, <1>5, AtPlaces DEF TInv
  <2>6. Before(Elements(k), Kept' \cup Read' \cup Held')
    <3>1. Before(Elements(k), Kept')
      BY <2>2, <2>5 DEF Before
    <3>2. Before(Elements(fragments[p]), Read \cup Held) /\ Before({r}, Held) /\ Before({r}, Read')
      BY <1>1, <1>3, AtPlaces DEF OrderInv, PlacesAscend, Before
    <3> QED
      BY <1>3, <1>4, <1>5, <3>1, <3>2 DEF Before
  <2>7. \A s \in Sessions : Before(Sent(s)', (Posted \cup Kept \cup Read \cup Held)')
    BY <1>3, <1>4, <2>2, <2>3, <2>6 DEF OrderInv, PlacesAscend, Before
  <2>8. /\ \A s \in Sessions : \A x \in Sent(s)' : x.n <= reports'
        /\ \A x \in (Posted \cup Kept \cup Read \cup Held)' : x.n <= reports'
    BY <1>1, <1>3, <1>4, <2>2, <2>3, <2>5 DEF OrderInv, PlacesAscend
  <2>9. Before(Posted', (Kept \cup Read \cup Held)') /\ Before(Kept', (Read \cup Held)') /\ Before(Read', Held')
    BY <1>3, <1>4, <2>2 DEF OrderInv, PlacesAscend, Before
  <2> QED
    BY <2>4, <2>7, <2>8, <2>9 DEF OrderInv, PlacesAscend
<1>9. CASE UNCHANGED toSource
  <2>1. (\A s \in Sessions : Sent(s)' = Sent(s)) /\ \A s \in Sessions : Ascending(toSource'[s])
    BY <1>9 DEF Sent, OrderInv, QueuesAscend
  <2>2. \A q \in Pads : fragments'[q] = fragments[q] \/ (q = p /\ fragments'[q] \in {<< >>, k})
    <3>1. \/ fragments' = [fragments EXCEPT ![p] = << >>]
          \/ fragments' = [fragments EXCEPT ![p] = k]
          \/ fragments' = fragments
      BY DEF RecordsReport
    <3> QED
      BY <1>1, <1>2, <3>1
  <2>3. Kept' \subseteq Kept \cup {r}
    <3>1. ASSUME NEW x \in Kept' PROVE x \in Kept \cup {r}
      <4>1. PICK q \in Pads : x \in Elements(fragments'[q])
        BY <3>1 DEF Kept
      <4>2. x \in Elements(fragments[q]) \/ x = r
        BY <1>5, <2>2, <4>1, OfNothing
      <4> QED
        BY <4>2 DEF Kept
    <3> QED
      BY <3>1
  <2>4. QueuesAscend'
    BY <1>1, <1>3, <1>7, <2>1, <2>2, OfNothing DEF OrderInv, QueuesAscend
  <2>5. /\ \A s \in Sessions : \A x \in Sent(s)' : x.n <= reports'
        /\ \A x \in (Posted \cup Kept \cup Read \cup Held)' : x.n <= reports'
    BY <1>1, <1>3, <1>4, <2>1, <2>3 DEF OrderInv, PlacesAscend
  <2>6. /\ Before(Posted', (Kept \cup Read \cup Held)') /\ Before(Kept', (Read \cup Held)') /\ Before(Read', Held')
    BY <1>3, <1>4, <2>3 DEF OrderInv, PlacesAscend, Before
  <2>7. \A s \in Sessions : Before(Sent(s)', (Posted \cup Kept \cup Read \cup Held)')
    BY <1>3, <1>4, <2>1, <2>3 DEF OrderInv, PlacesAscend, Before
  <2> QED
    BY <2>4, <2>5, <2>6, <2>7 DEF OrderInv, PlacesAscend
<1> QED
  BY <1>8, <1>9 DEF RecordsReport

\* A start replays what is kept of the pad, at a moment when nothing waits for the sender.
Replays(d) ==
    /\ SendKeyStateNodeMsgBatch(handler'.session, fragments[d])
    /\ fragments' = [fragments EXCEPT ![d] = << >>]

LEMMA Starts ==
    ASSUME Overlap = FALSE, TInv, StartRecordDhIds
    PROVE  /\ collector = Idle /\ eventQueue = << >> /\ handler = NoRequest
           /\ UNCHANGED << finger, kernel, reports, touch, clickedBefore, collector, sharedDHIds, eventQueue >>
           /\ handler' \in Requests /\ Lent(handler'.dhId)
           /\ \/ handler'.dhId \in Pads /\ Replays(handler'.dhId)
              \/ handler'.dhId \notin Pads /\ UNCHANGED << toSource, fragments >>
<1>1. /\ collector = Idle /\ eventQueue = << >> /\ handler = NoRequest
      /\ handler' = Head(toSink) /\ Head(toSink) \in Requests
  BY Takes, Waits DEF StartRecordDhIds
<1>2. CASE handler'.dhId \in Pads
  <2>1. Replays(handler'.dhId)
    BY <1>1, <1>2 DEF StartRecordDhIds, Replays
  <2> QED
    BY <1>1, <1>2, <2>1 DEF StartRecordDhIds, userVars
<1>3. CASE handler'.dhId \notin Pads
  BY <1>1, <1>3 DEF StartRecordDhIds, userVars
<1> QED
  BY <1>2, <1>3

LEMMA ReplayInOrder ==
    ASSUME TInv, OrderInv, NEW d \in Pads, Replays(d), eventQueue = << >>,
           UNCHANGED << kernel, reports, collector, eventQueue >>
    PROVE  OrderInv'
<1> DEFINE k == fragments[d]
<1>1. k \in Seq(Reports) /\ Ascending(k) /\ Elements(k) \subseteq Kept /\ \A x \in Elements(k) : x.pad = d
  BY Typed, AtPlaces DEF TInv, OrderInv, QueuesAscend
<1>2. \A q \in Pads : fragments'[q] = IF q = d THEN << >> ELSE fragments[q]
  BY Typed DEF Replays
<1> HIDE DEF k
<1>3. Kept' \subseteq Kept /\ \A x \in Kept' : x.pad # d
  <2>1. ASSUME NEW x \in Kept' PROVE x \in Kept /\ x.pad # d
    <3>1. PICK q \in Pads : x \in Elements(fragments'[q])
      BY <2>1 DEF Kept
    <3>2. q # d /\ x \in Elements(fragments[q])
      BY <1>2, <3>1, OfNothing
    <3> QED
      BY <3>2 DEF TInv, Kept
  <2> QED
    BY <2>1
<1>4. Posted = {} /\ Posted' = {} /\ Held' = Held /\ Read' = Read
  BY DEF Posted, Held, Read
<1>5. \A s \in Sessions : Sent(s)' \subseteq Sent(s) \cup Elements(k) /\ Ascending(toSource'[s])
  <2> SUFFICES ASSUME NEW s \in Sessions
               PROVE  Sent(s)' \subseteq Sent(s) \cup Elements(k) /\ Ascending(toSource'[s])
    OBVIOUS
  <2>1. toSource'[s] \in {toSource[s], toSource[s] \o k}
    BY <1>1, Sends DEF Replays, k
  <2>2. toSource[s] \in Seq(Reports) /\ Ascending(toSource[s])
    BY Typed DEF OrderInv, QueuesAscend
  <2>3. Before(Elements(toSource[s]), Elements(k))
    BY <1>1 DEF OrderInv, PlacesAscend, Before, Sent
  <2>4. Elements(toSource[s] \o k) = Elements(toSource[s]) \cup Elements(k)
    BY <1>1, <2>2, Concatenated
  <2>5. Ascending(toSource[s] \o k)
    BY <1>1, <2>2, <2>3, ConcatAscends
  <2> QED
    BY <2>1, <2>2, <2>4, <2>5 DEF Sent
<1>6. QueuesAscend'
  BY <1>2, <1>5, OfNothing DEF OrderInv, QueuesAscend
<1>7. Before(Elements(k), Kept' \cup Read' \cup Held')
  BY <1>1, <1>3, <1>4 DEF OrderInv, PlacesAscend, Before
<1>8. \A s \in Sessions : Before(Sent(s)', (Posted \cup Kept \cup Read \cup Held)')
  BY <1>3, <1>4, <1>5, <1>7 DEF OrderInv, PlacesAscend, Before
<1>9. /\ \A s \in Sessions : \A x \in Sent(s)' : x.n <= reports'
      /\ \A x \in (Posted \cup Kept \cup Read \cup Held)' : x.n <= reports'
  BY <1>1, <1>3, <1>4, <1>5 DEF OrderInv, PlacesAscend
<1>10. /\ Before(Posted', (Kept \cup Read \cup Held)') /\ Before(Kept', (Read \cup Held)')
       /\ Before(Read', Held')
  BY <1>3, <1>4 DEF OrderInv, PlacesAscend, Before
<1> QED
  BY <1>6, <1>8, <1>9, <1>10 DEF OrderInv, PlacesAscend

LEMMA SendInOrder ==
    ASSUME TInv, InTurns, OrderInv, SendEvents
    PROVE  OrderInv'
<1> DEFINE k == Head(eventQueue)
<1>1. /\ eventQueue # << >> /\ eventQueue' = Tail(eventQueue)
      /\ toSource' = [s \in Sessions |-> IF s = openSession THEN toSource[s] \o k ELSE toSource[s]]
      /\ UNCHANGED << collector, fragments, kernel, reports >>
  BY DEF SendEvents, userVars, stateVars
<1>2. Posted = Elements(k) /\ eventQueue' = << >> /\ k \in Seq(Reports) /\ Ascending(k)
  BY <1>1, PostedIs DEF OrderInv
<1> HIDE DEF k
<1>3. Posted' = {} /\ Kept' = Kept /\ Read' = Read /\ Held' = Held
  BY <1>1, <1>2 DEF Posted, Kept, Read, Held
<1>4. \A s \in Sessions : Sent(s)' \subseteq Sent(s) \cup Posted /\ Ascending(toSource'[s])
  <2> SUFFICES ASSUME NEW s \in Sessions
               PROVE  Sent(s)' \subseteq Sent(s) \cup Posted /\ Ascending(toSource'[s])
    OBVIOUS
  <2>1. toSource'[s] \in {toSource[s], toSource[s] \o k}
    BY <1>1
  <2>2. toSource[s] \in Seq(Reports) /\ Ascending(toSource[s])
    BY Typed DEF OrderInv, QueuesAscend
  <2>3. Before(Elements(toSource[s]), Elements(k))
    BY <1>2 DEF OrderInv, PlacesAscend, Before, Sent
  <2>4. Elements(toSource[s] \o k) = Elements(toSource[s]) \cup Elements(k)
    BY <1>2, <2>2, Concatenated
  <2>5. Ascending(toSource[s] \o k)
    BY <1>2, <2>2, <2>3, ConcatAscends
  <2> QED
    BY <1>2, <2>1, <2>2, <2>4, <2>5 DEF Sent
<1>5. QueuesAscend'
  BY <1>1, <1>2, <1>4 DEF OrderInv, QueuesAscend
<1>6. PlacesAscend'
  BY <1>1, <1>3, <1>4 DEF OrderInv, PlacesAscend, Before
<1> QED
  BY <1>5, <1>6 DEF OrderInv

LEMMA InjectInOrder ==
    ASSUME TInv, OrderInv, NEW s \in Sessions, InjectInputEvent(s)
    PROVE  OrderInv'
<1>1. /\ toSource[s] # << >> /\ toSource' = [toSource EXCEPT ![s] = Tail(toSource[s])]
      /\ UNCHANGED << collector, fragments, kernel, reports, eventQueue >>
  BY DEF InjectInputEvent, userVars, stateVars
<1>2. toSource[s] \in Seq(Reports) /\ Ascending(toSource[s])
  BY Typed DEF OrderInv, QueuesAscend
<1>3. Elements(Tail(toSource[s])) \subseteq Elements(toSource[s]) /\ Ascending(Tail(toSource[s]))
  BY <1>1, <1>2, OfTail
<1>4. \A t \in Sessions : toSource'[t] = IF t = s THEN Tail(toSource[s]) ELSE toSource[t]
  BY <1>1, Typed
<1>5. Posted' = Posted /\ Kept' = Kept /\ Read' = Read /\ Held' = Held
  BY <1>1 DEF Posted, Kept, Read, Held
<1>6. \A t \in Sessions : Sent(t)' \subseteq Sent(t) /\ Ascending(toSource'[t])
  BY <1>3, <1>4 DEF Sent, OrderInv, QueuesAscend
<1>7. QueuesAscend'
  BY <1>1, <1>6 DEF OrderInv, QueuesAscend
<1>8. PlacesAscend'
  BY <1>1, <1>5, <1>6 DEF OrderInv, PlacesAscend, Before
<1> QED
  BY <1>7, <1>8 DEF OrderInv

LEMMA NextInOrder ==
    ASSUME Overlap = FALSE, TInv, InTurns, OrderInv, [Next]_vars
    PROVE  OrderInv'
<1>1. ASSUME NEW p \in Pads, Touch(p) \/ Move(p) \/ Lift(p) \/ Click(p) PROVE OrderInv'
  BY <1>1, UserWrites, WritesInOrder DEF Writes
<1>2. ASSUME NEW p \in Pads, ReadEvents(p) PROVE OrderInv'
  BY <1>2, ReadInOrder
<1>3. CASE CheckShared
  <2>1. InTurns' /\ TInv'
    BY NextTurns, NextTyped
  <2> QED
    BY <1>3, <2>1, CheckInOrder
<1>4. CASE RecordDeviceChangeStates
  BY <1>4, Records, RecordInOrder
<1>5. CASE StartRecordDhIds
  BY <1>5, Starts, ReplayInOrder, OrderSame
<1>6. CASE StartSetSharing \/ StopSetSharing \/ StopRecordDhIds
  BY <1>6, OrderSame DEF StartSetSharing, StopSetSharing, StopRecordDhIds, userVars, stateVars
<1>7. CASE SendEvents
  BY <1>7, SendInOrder
<1>8. ASSUME NEW d \in DhIds, (\E s \in Sessions : StartRemoteInput(s, d)) \/ StopRemoteInput(d) PROVE OrderInv'
  BY <1>8, OrderSame DEF StartRemoteInput, StopRemoteInput, Ask, userVars, stateVars
<1>9. ASSUME NEW s \in Sessions, InjectInputEvent(s) PROVE OrderInv'
  BY <1>9, InjectInOrder
<1>10. CASE UNCHANGED vars
  BY <1>10, OrderSame DEF vars, userVars, stateVars
<1> QED
  BY <1>1, <1>2, <1>3, <1>4, <1>5, <1>6, <1>7, <1>8, <1>9, <1>10 DEF Next

LEMMA InitInOrder == Init => InTurns /\ OrderInv
<1> SUFFICES ASSUME Init PROVE InTurns /\ OrderInv
  OBVIOUS
<1>1. /\ eventQueue = << >> /\ collector = Idle /\ handler = NoRequest /\ sharedDHIds = {}
      /\ \A p \in Pads : fragments[p] = << >> /\ kernel[p] = << >>
      /\ \A s \in Sessions : toSource[s] = << >>
      /\ Idle.read = << >> /\ Idle.checked = FALSE
  BY DEF Init, Idle
<1>2. InTurns
  BY <1>1 DEF InTurns
<1>3. QueuesAscend
  BY <1>1, OfNothing DEF QueuesAscend
<1>4. (\A s \in Sessions : Sent(s) = {}) /\ Posted = {} /\ Kept = {} /\ Read = {} /\ Held = {}
  BY <1>1, OfNothing DEF Sent, Posted, Kept, Read, Held
<1>5. PlacesAscend
  BY <1>4 DEF PlacesAscend, Before
<1> QED
  BY <1>2, <1>3, <1>5 DEF OrderInv

\* The way of a report as ReportsInOrder has it.
LEMMA WayInOrder ==
    ASSUME TInv, InTurns, OrderInv
    PROVE  ReportsInOrder
<1> SUFFICES ASSUME NEW s \in Sessions
             PROVE  Ascending(toSource[s] \o FlattenSeq(eventQueue) \o collector.read)
  BY DEF ReportsInOrder
<1> DEFINE a == toSource[s]
           b == FlattenSeq(eventQueue)
           c == collector.read
<1>1. a \in Seq(Reports) /\ c \in Seq(Reports) /\ Ascending(a) /\ Ascending(c)
  BY Typed DEF OrderInv, QueuesAscend
<1>2. b \in Seq(Reports) /\ Ascending(b) /\ Elements(b) \subseteq Posted
  <2>1. CASE eventQueue = << >>
    <3>1. b = << >>
      BY <2>1 DEF FlattenSeq
    <3> QED
      BY <3>1, OfNothing
  <2>2. CASE eventQueue # << >>
    <3>1. Len(eventQueue) = 1 /\ eventQueue \in Seq(Seq(Reports))
      BY <2>2, Typed DEF InTurns
    <3>2. b = Head(eventQueue)
      BY <3>1, OneBatch
    <3> QED
      BY <2>2, <3>2, PostedIs DEF OrderInv
  <2> QED
    BY <2>1, <2>2
<1>3. Elements(a) = Sent(s) /\ Elements(c) = Read
  BY DEF Sent, Read
<1>4. /\ Before(Elements(a), Elements(b)) /\ Before(Elements(a), Elements(c))
      /\ Before(Elements(b), Elements(c))
  BY <1>2, <1>3 DEF OrderInv, PlacesAscend, Before
<1> HIDE DEF a, b, c
<1>5. a \o b \in Seq(Reports) /\ Elements(a \o b) = Elements(a) \cup Elements(b)
  BY <1>1, <1>2, Concatenated
<1>6. Ascending(a \o b)
  BY <1>1, <1>2, <1>4, ConcatAscends
<1>7. Before(Elements(a \o b), Elements(c))
  BY <1>4, <1>5 DEF Before
<1>8. Ascending((a \o b) \o c)
  BY <1>1, <1>5, <1>6, <1>7, ConcatAscends
<1> QED
  BY <1>8 DEF a, b, c

(***************************************************************************)
(* The touches of a pad.                                                   *)
(***************************************************************************)
\* The reports that are read come before those that are not.
LEMMA StreamIs ==
    ASSUME TInv, NEW p \in Pads
    PROVE  /\ Stream(p) \in Seq(Reports) /\ kernel[p] \in Seq(Reports)
           /\ \A r \in Elements(Stream(p)) : r.pad = p
           /\ collector = Idle \/ collector.pad # p => Stream(p) = kernel[p]
           /\ collector.pad = p => Stream(p) = collector.read \o kernel[p]
<1>1. kernel[p] \in Seq(Reports) /\ collector.read \in Seq(Reports)
  BY Typed
<1>2. << >> \o kernel[p] = kernel[p]
  BY <1>1, OfNothing
<1>3. \A r \in Elements(kernel[p]) : r.pad = p
  BY DEF TInv
<1>4. CASE collector # Idle /\ collector.pad = p
  <2>1. Stream(p) = collector.read \o kernel[p]
    BY <1>4 DEF Stream
  <2>2. /\ collector.read \o kernel[p] \in Seq(Reports)
        /\ Elements(collector.read \o kernel[p]) = Elements(collector.read) \cup Elements(kernel[p])
    BY <1>1, Concatenated
  <2>3. \A r \in Elements(collector.read) : r.pad = p
    BY <1>4 DEF TInv
  <2> QED
    BY <1>1, <1>3, <1>4, <2>1, <2>2, <2>3
<1>5. CASE collector = Idle \/ collector.pad # p
  <2>1. Stream(p) = kernel[p]
    BY <1>2, <1>5, Typed DEF Stream
  <2>2. collector.pad = p => collector.read = << >>
    BY <1>5, Typed
  <2> QED
    BY <1>1, <1>2, <1>3, <2>1, <2>2
<1> QED
  BY <1>4, <1>5

LEMMA Spreads == ASSUME Grows, NEW p, NEW t PROVE Foreign(p, t) => Foreign(p, t)'
BY DEF Grows, Foreign

SamePad(p) ==
    /\ Stream(p)' = Stream(p) /\ fragments'[p] = fragments[p]
    /\ touch'[p] = touch[p] /\ (p \in finger' <=> p \in finger)

LEMMA SameTouches ==
    ASSUME NEW p \in Pads, SamePad(p), Grows, TouchesFollow(p), KeptFromBegin(p)
    PROVE  TouchesFollow(p)' /\ KeptFromBegin(p)'
<1>1. Coming(p)' = Coming(p)
  BY DEF SamePad, Coming
<1>2. Now(p)' = Now(p)
  BY <1>1 DEF SamePad, Now
<1>3. TouchesFollow(p)'
  <2>0. PICK q : q = Stream(p)
    OBVIOUS
  <2>1. Stream(p)' = q
    BY <2>0 DEF SamePad
  <2>2. \A i \in 1 .. Len(q) - 1 :
           /\ q[i + 1].touch = After(q[i])
           /\ q[i].kind = "up" => q[i + 1].kind = "down" \/ Foreign(p, q[i + 1].touch)'
    <3>1. ASSUME NEW i \in 1 .. Len(q) - 1
          PROVE  /\ q[i + 1].touch = After(q[i])
                 /\ q[i].kind = "up" => q[i + 1].kind = "down" \/ Foreign(p, q[i + 1].touch)
      BY <2>0, <3>1 DEF TouchesFollow
    <3>2. \A t : Foreign(p, t) => Foreign(p, t)'
      BY DEF Grows, Foreign
    <3> QED
      BY <3>1, <3>2
  <2>3. q # << >> => /\ Coming(p)' = After(q[Len(q)])
                     /\ q[Len(q)].kind = "up" => p \notin finger'
    BY <1>1, <2>0 DEF TouchesFollow, SamePad
  <2> QED
    BY <2>1, <2>2, <2>3 DEF TouchesFollow, After
<1>4. KeptFromBegin(p)'
  BY <1>2, Spreads DEF KeptFromBegin, SamePad
<1> QED
  BY <1>3, <1>4

LEMMA SameShared ==
    ASSUME NEW p \in Pads, SamePad(p), Grows, SharedIsForeign(p), p \in sharedDHIds' => p \in sharedDHIds
    PROVE  SharedIsForeign(p)'
BY Spreads DEF SharedIsForeign, SamePad

\* A report comes to the stream of a pad.
LEMMA NextReport ==
    ASSUME TInv, NEW p \in Pads, NEW r \in Reports, Stream(p)' = Append(Stream(p), r),
           fragments'[p] = fragments[p], touch'[p] \in Nat, Grows, Follows(p, r),
           TouchesFollow(p), KeptFromBegin(p)
    PROVE  TouchesFollow(p)' /\ KeptFromBegin(p)'
<1>0. PICK q, t, n : q = Stream(p) /\ t = Append(q, r) /\ n = Len(q)
  OBVIOUS
<1>1. /\ q \in Seq(Reports) /\ n \in Nat /\ t \in Seq(Reports) /\ Len(t) = n + 1 /\ t[n + 1] = r
      /\ Elements(t) = Elements(q) \cup {r} /\ (q = << >> <=> n = 0) /\ t # << >>
      /\ \A i \in 1 .. n : t[i] = q[i]
  <2>1. q \in Seq(Reports)
    BY <1>0, StreamIs
  <2>2. n \in Nat /\ (q = << >> <=> n = 0)
    BY <1>0, <2>1, OfSeq
  <2>3. t \in Seq(Reports) /\ Len(t) = n + 1 /\ t[n + 1] = r /\ Elements(t) = Elements(q) \cup {r}
    BY <1>0, <2>1, Appended
  <2>4. \A i \in 1 .. n : t[i] = q[i]
    BY <1>0, <2>1, AppendProperties
  <2>5. t # << >>
    BY <2>2, <2>3, OfSeq
  <2> QED
    BY <2>1, <2>2, <2>3, <2>4, <2>5
<1>2. Stream(p)' = t
  BY <1>0
<1>3. /\ \A i \in 1 .. n - 1 : /\ q[i + 1].touch = After(q[i])
                               /\ q[i].kind = "up" => q[i + 1].kind = "down" \/ Foreign(p, q[i + 1].touch)
      /\ n # 0 => Coming(p) = After(q[n]) /\ (q[n].kind = "up" => p \notin finger)
  BY <1>0, <1>1 DEF TouchesFollow
<1>4. Now(p) = IF n = 0 THEN Coming(p) ELSE q[1].touch
  BY <1>0, <1>1 DEF Now
<1>5. /\ \A e \in Elements(fragments[p]) : e.touch = Now(p)
      /\ \A e \in Elements(fragments[p]) \cup Elements(q) : e.kind = "down" => e.touch <= touch[p]
      /\ \/ Foreign(p, Now(p))
         \/ fragments[p] # << >> /\ fragments[p][1].kind = "down"
         \/ fragments[p] = << >> /\ IF n = 0 THEN p \notin finger ELSE q[1].kind = "down"
  BY <1>0, <1>1 DEF KeptFromBegin
<1>6. TouchesFollow(p)'
  <2>1. ASSUME NEW i \in 1 .. Len(t) - 1
        PROVE  /\ t[i + 1].touch = After(t[i])
               /\ t[i].kind = "up" => t[i + 1].kind = "down" \/ Foreign(p, t[i + 1].touch)'
    <3>1. CASE i = n
      <4>1. t[i] = q[n] /\ t[i + 1] = r /\ n # 0
        BY <1>1, <2>1, <3>1
      <4> QED
        BY <1>3, <4>1 DEF Follows
    <3>2. CASE i # n
      <4>1. i \in 1 .. n - 1 /\ i \in 1 .. n /\ i + 1 \in 1 .. n
        BY <1>1, <2>1, <3>2
      <4>2. Foreign(p, q[i + 1].touch) => Foreign(p, t[i + 1].touch)'
        BY <1>1, <4>1 DEF Grows, Foreign
      <4> QED
        BY <1>1, <1>3, <4>1, <4>2
    <3> QED
      BY <3>1, <3>2
  <2>2. Coming(p)' = After(t[Len(t)]) /\ (t[Len(t)].kind = "up" => p \notin finger')
    BY <1>1 DEF Follows
  <2> QED
    BY <1>2, <2>1, <2>2 DEF TouchesFollow, After
<1>7. t[1] = IF n = 0 THEN r ELSE q[1]
  BY <1>1
<1>8. Now(p)' = Now(p) /\ Now(p) = t[1].touch
  <2>1. Now(p)' = t[1].touch
    BY <1>1, <1>2 DEF Now
  <2> QED
    BY <1>4, <1>7, <2>1 DEF Follows
<1>9. touch[p] <= touch'[p] /\ touch[p] \in Nat /\ \A e \in Reports : e.touch \in Nat
  BY DEF Follows, TInv, Reports
<1>10. \A e \in Elements(fragments[p]) \cup Elements(t) : e.kind = "down" => e.touch <= touch'[p]
  <2>1. Elements(fragments[p]) \cup Elements(q) \subseteq Reports
    <3>1. fragments[p] \in Seq(Reports)
      BY Typed
    <3> QED
      BY <1>1, <3>1, OfSeq
  <2> QED
    BY <1>1, <1>5, <1>9, <2>1 DEF Follows
<1>11. \/ Foreign(p, Now(p))'
       \/ fragments[p] # << >> /\ fragments[p][1].kind = "down"
       \/ fragments[p] = << >> /\ t[1].kind = "down"
  <2>1. Foreign(p, Now(p)) => Foreign(p, Now(p))'
    BY <1>8, Spreads
  <2>2. n = 0 /\ p \notin finger => t[1].kind = "down" \/ Foreign(p, Now(p))'
    BY <1>7, <1>8 DEF Follows, Foreign
  <2> QED
    BY <1>5, <1>7, <2>1, <2>2
<1>12. KeptFromBegin(p)'
  BY <1>1, <1>2, <1>5, <1>8, <1>10, <1>11 DEF KeptFromBegin
<1> QED
  BY <1>6, <1>12

\* What comes next of a pad begins a touch, or a source may see it.
Begins(p) == \/ Foreign(p, Now(p))
             \/ IF Stream(p) = << >> THEN p \notin finger ELSE Stream(p)[1].kind = "down"

\* The first n reports leave the stream of a pad.
Passes(p, n) ==
    /\ n \in Nat \ {0} /\ Stream(p)' \in Seq(Reports) /\ Len(Stream(p)) = n + Len(Stream(p)')
    /\ \A i \in 1 .. Len(Stream(p)') : Stream(p)'[i] = Stream(p)[n + i]
    /\ touch'[p] = touch[p] /\ (p \in finger' <=> p \in finger)

LEMMA AfterPassing ==
    ASSUME TInv, NEW p \in Pads, NEW n, Passes(p, n), Grows, TouchesFollow(p)
    PROVE  /\ TouchesFollow(p)' /\ Now(p)' = After(Stream(p)[n])
           /\ Stream(p)[n].kind = "up" => Begins(p)'
           /\ Elements(Stream(p)') \subseteq Elements(Stream(p))
<1>1. PICK q, t, m : q = Stream(p) /\ t = Stream(p)' /\ m = Len(t)
  OBVIOUS
<1>2. /\ q \in Seq(Reports) /\ t \in Seq(Reports) /\ n \in Nat \ {0} /\ Len(q) = n + m /\ m = Len(t)
      /\ \A i \in 1 .. m : t[i] = q[n + i]
      /\ touch'[p] = touch[p] /\ (p \in finger' <=> p \in finger)
  BY <1>1, StreamIs DEF Passes
<1>3. DOMAIN q = 1 .. n + m /\ DOMAIN t = 1 .. m /\ m \in Nat /\ (t = << >> <=> m = 0) /\ q # << >>
  <2>1. DOMAIN q = 1 .. Len(q) /\ (q # << >> <=> Len(q) > 0)
    BY <1>2, OfSeq
  <2>2. DOMAIN t = 1 .. Len(t) /\ Len(t) \in Nat /\ (t # << >> <=> Len(t) > 0)
    BY <1>2, OfSeq
  <2> QED
    BY <1>2, <2>1, <2>2
<1>4. /\ \A i \in 1 .. n + m - 1 :
             /\ q[i + 1].touch = After(q[i])
             /\ q[i].kind = "up" => q[i + 1].kind = "down" \/ Foreign(p, q[i + 1].touch)
      /\ Coming(p) = After(q[n + m]) /\ (q[n + m].kind = "up" => p \notin finger)
  BY <1>1, <1>2, <1>3 DEF TouchesFollow
<1>5. Coming(p)' = Coming(p)
  BY <1>2 DEF Coming
<1>6. \A i \in 1 .. m - 1 :
         /\ t[i + 1].touch = After(t[i])
         /\ t[i].kind = "up" => t[i + 1].kind = "down" \/ Foreign(p, t[i + 1].touch)
  <2> SUFFICES ASSUME NEW i \in 1 .. m - 1
               PROVE  /\ t[i + 1].touch = After(t[i])
                      /\ t[i].kind = "up" => t[i + 1].kind = "down" \/ Foreign(p, t[i + 1].touch)
    OBVIOUS
  <2>1. n + i \in 1 .. n + m - 1 /\ i \in 1 .. m /\ i + 1 \in 1 .. m /\ n + (i + 1) = (n + i) + 1
    BY <1>2, <1>3
  <2>2. t[i] = q[n + i] /\ t[i + 1] = q[(n + i) + 1]
    BY <1>2, <2>1
  <2> QED
    BY <1>4, <2>1, <2>2
<1>7. \A u : Foreign(p, u) => Foreign(p, u)'
  BY DEF Grows, Foreign
<1>8. m # 0 => t[m] = q[n + m]
  BY <1>2, <1>3
<1>9. TouchesFollow(p)'
  <2>1. \A i \in 1 .. Len(t) - 1 :
           /\ t[i + 1].touch = After(t[i])
           /\ t[i].kind = "up" => t[i + 1].kind = "down" \/ Foreign(p, t[i + 1].touch)'
    BY <1>2, <1>6, <1>7
  <2>2. t # << >> => Coming(p)' = After(t[Len(t)]) /\ (t[Len(t)].kind = "up" => p \notin finger')
    BY <1>2, <1>3, <1>4, <1>5, <1>8
  <2> QED
    BY <1>1, <2>1, <2>2 DEF TouchesFollow, After
<1>10. Now(p)' = After(q[n]) /\ (q[n].kind = "up" => Begins(p)')
  <2>1. Now(p)' = IF t = << >> THEN Coming(p)' ELSE t[1].touch
    BY <1>1 DEF Now
  <2>2. CASE m = 0
    <3>1. Now(p)' = After(q[n]) /\ (q[n].kind = "up" => p \notin finger')
      BY <1>2, <1>3, <1>4, <1>5, <2>1, <2>2
    <3> QED
      BY <1>1, <1>3, <2>2, <3>1 DEF Begins
  <2>3. CASE m # 0
    <3>1. n \in 1 .. n + m - 1 /\ 1 \in 1 .. m
      BY <1>2, <1>3, <2>3
    <3>2. t[1] = q[n + 1]
      BY <1>2, <3>1
    <3>3. /\ t[1].touch = After(q[n])
          /\ q[n].kind = "up" => t[1].kind = "down" \/ Foreign(p, t[1].touch)'
      BY <1>4, <1>7, <3>1, <3>2
    <3>4. Now(p)' = t[1].touch
      BY <1>3, <2>1, <2>3
    <3>5. Foreign(p, t[1].touch)' <=> Foreign(p, Now(p))'
      BY <3>4 DEF Foreign
    <3> QED
      BY <1>1, <1>3, <2>3, <3>3, <3>4, <3>5 DEF Begins
  <2> QED
    BY <2>2, <2>3
<1>11. Elements(t) \subseteq Elements(q)
  <2>1. ASSUME NEW i \in DOMAIN t PROVE t[i] \in Elements(q)
    <3>1. n + i \in DOMAIN q /\ t[i] = q[n + i]
      BY <1>2, <1>3
    <3> QED
      BY <3>1, Zenon DEF Elements
  <2> QED
    BY <2>1, Zenon DEF Elements
<1> QED
  BY <1>1, <1>9, <1>10, <1>11

LEMMA TailJoins ==
    ASSUME NEW S, NEW a \in Seq(S), NEW b \in Seq(S), a # << >>
    PROVE  /\ Tail(a) \o b \in Seq(S) /\ Len(a \o b) = 1 + Len(Tail(a) \o b)
           /\ \A i \in 1 .. Len(Tail(a) \o b) : (Tail(a) \o b)[i] = (a \o b)[1 + i]
           /\ (a \o b)[1] = Head(a)
<1>1. PICK t, c, d : t = Tail(a) /\ c = a \o b /\ d = t \o b
  OBVIOUS
<1>2. /\ t \in Seq(S) /\ Len(t) = Len(a) - 1 /\ Head(a) = a[1]
      /\ \A i \in 1 .. Len(t) : t[i] = a[i + 1]
  BY <1>1, OfTail
<1>3. Len(a) \in Nat \ {0} /\ Len(b) \in Nat /\ Len(t) \in Nat
  BY <1>2, OfSeq
<1>4. /\ Len(c) = Len(a) + Len(b)
      /\ \A i \in 1 .. Len(a) + Len(b) : c[i] = IF i <= Len(a) THEN a[i] ELSE b[i - Len(a)]
  BY <1>1, ConcatProperties
<1>5. /\ d \in Seq(S) /\ Len(d) = Len(t) + Len(b)
      /\ \A i \in 1 .. Len(t) + Len(b) : d[i] = IF i <= Len(t) THEN t[i] ELSE b[i - Len(t)]
  BY <1>1, <1>2, ConcatProperties
<1>6. ASSUME NEW i \in 1 .. Len(d) PROVE d[i] = c[1 + i]
  <2>1. /\ i \in 1 .. Len(t) + Len(b) /\ 1 + i \in 1 .. Len(a) + Len(b) /\ 1 + i = i + 1
        /\ (i <= Len(t) <=> 1 + i <= Len(a)) /\ i - Len(t) = (1 + i) - Len(a)
    BY <1>2, <1>3, <1>5
  <2>2. i <= Len(t) => i \in 1 .. Len(t)
    BY <1>3
  <2> QED
    BY <1>2, <1>4, <1>5, <2>1, <2>2
<1>7. Len(c) = 1 + Len(d) /\ c[1] = Head(a)
  BY <1>2, <1>3, <1>4, <1>5
<1> QED
  BY <1>1, <1>5, <1>6, <1>7

LEMMA RecordPasses ==
    ASSUME TInv, NEW p, NEW r, NEW k, RecordsReport(p, r, k)
    PROVE  Passes(p, 1) /\ Stream(p)[1] = r /\ Stream(p) # << >>
<1>1. /\ p \in Pads /\ p = collector.pad /\ r = Head(collector.read) /\ collector.read # << >>
      /\ collector # Idle /\ collector'.read = Tail(collector.read)
      /\ collector'.read = << >> => collector' = Idle
      /\ collector'.read # << >> => collector'.pad = p
      /\ UNCHANGED << finger, kernel, touch >>
  BY DEF RecordsReport, userVars
<1>2. PICK a, b : a = collector.read /\ b = kernel[p]
  OBVIOUS
<1>3. a \in Seq(Reports) /\ b \in Seq(Reports) /\ a # << >>
  BY <1>1, <1>2, Typed
<1>4. Stream(p) = a \o b
  BY <1>1, <1>2, StreamIs
<1>5. Stream(p)' = Tail(a) \o b
  BY <1>1, <1>2 DEF Stream
<1>6. /\ Tail(a) \o b \in Seq(Reports) /\ Len(a \o b) = 1 + Len(Tail(a) \o b)
      /\ \A i \in 1 .. Len(Tail(a) \o b) : (Tail(a) \o b)[i] = (a \o b)[1 + i]
      /\ (a \o b)[1] = Head(a)
  BY <1>3, TailJoins
<1>7. Passes(p, 1)
  BY <1>1, <1>4, <1>5, <1>6 DEF Passes
<1>8. Stream(p) # << >>
  <2>1. Stream(p) \in Seq(Reports) /\ Len(Stream(p)) > 0
    <3>1. Stream(p) \in Seq(Reports) /\ Len(Tail(a) \o b) \in Nat
      BY <1>1, <1>6, StreamIs, OfSeq
    <3> QED
      BY <1>4, <1>6, <3>1
  <2> QED
    BY <2>1, OfSeq
<1> QED
  BY <1>1, <1>2, <1>4, <1>6, <1>7, <1>8

\* What is kept, with the report that is recorded.
LEMMA KeptWith ==
    ASSUME TInv, NEW p, NEW r, NEW k, RecordsReport(p, r, k)
    PROVE  /\ fragments[p] \in Seq(Reports) /\ Elements(k) = Elements(fragments[p]) \cup {r} /\ k # << >>
           /\ k[1] = IF fragments[p] = << >> THEN r ELSE fragments[p][1]
           /\ \A e \in Elements(k) : e.pad = p
<1>1. p \in Pads /\ r \in Reports /\ r.pad = p /\ k = Append(fragments[p], r) /\ k \in Seq(Reports)
  BY DEF RecordsReport
<1>2. fragments[p] \in Seq(Reports)
  BY <1>1, Typed
<1>3. Len(k) = Len(fragments[p]) + 1 /\ k[Len(fragments[p]) + 1] = r /\ Elements(k) = Elements(fragments[p]) \cup {r}
  BY <1>1, <1>2, Appended
<1>4. /\ Len(fragments[p]) \in Nat /\ (fragments[p] = << >> <=> Len(fragments[p]) = 0)
      /\ (k = << >> <=> Len(k) = 0)
  BY <1>1, <1>2, OfSeq
<1>5. \A i \in 1 .. Len(fragments[p]) : k[i] = fragments[p][i]
  BY <1>1, <1>2, AppendProperties
<1>6. k[1] = IF fragments[p] = << >> THEN r ELSE fragments[p][1]
  BY <1>3, <1>4, <1>5
<1>7. \A e \in Elements(k) : e.pad = p
  BY <1>1, <1>3 DEF TInv
<1> QED
  BY <1>2, <1>3, <1>4, <1>6, <1>7

LEMMA RecordOthers ==
    ASSUME TInv, NEW p, NEW r, NEW k, RecordsReport(p, r, k), NEW q \in Pads, q # p
    PROVE  SamePad(q)
<1>1. /\ p \in Pads /\ p = collector.pad /\ collector # Idle /\ k \in Seq(Reports)
      /\ collector'.read = << >> => collector' = Idle
      /\ collector'.read # << >> => collector'.pad = p
      /\ UNCHANGED << finger, kernel, touch >>
      /\ \/ fragments' = [fragments EXCEPT ![p] = << >>]
         \/ fragments' = [fragments EXCEPT ![p] = k]
         \/ fragments' = fragments
  BY DEF RecordsReport, userVars
<1>2. Stream(q) = << >> \o kernel[q]
  BY <1>1 DEF Stream
<1>3. Stream(q)' = << >> \o kernel[q]
  BY <1>1 DEF Stream
<1>4. fragments'[q] = fragments[q]
  BY <1>1, Typed
<1> QED
  BY <1>1, <1>2, <1>3, <1>4 DEF SamePad

LEMMA RecordTouches ==
    ASSUME TInv, NEW p, NEW r, NEW k, RecordsReport(p, r, k), TouchInv
    PROVE  TouchInv'
<1>1. /\ p \in Pads /\ p = collector.pad /\ r \in Reports /\ r.pad = p /\ k = Append(fragments[p], r)
      /\ k \in Seq(Reports) /\ collector # Idle /\ collector'.read = Tail(collector.read)
      /\ collector'.read = << >> => collector' = Idle
      /\ collector'.read # << >> => collector'.pad = p
      /\ UNCHANGED << finger, kernel, touch, eventQueue, lentTouches, clickedBefore, sharedDHIds >>
  BY DEF RecordsReport, userVars
<1>2. /\ Passes(p, 1) /\ Stream(p)[1] = r /\ Stream(p) # << >> /\ TouchesFollow(p) /\ KeptFromBegin(p)
      /\ SharedIsForeign(p)
  BY <1>1, RecordPasses DEF TouchInv
<1>3. Grows /\ \A q, u : Foreign(q, u)' <=> Foreign(q, u)
  BY <1>1 DEF Grows, Foreign
<1>4. /\ TouchesFollow(p)' /\ Now(p)' = After(r) /\ (r.kind = "up" => Begins(p)')
      /\ Elements(Stream(p)') \subseteq Elements(Stream(p))
  BY <1>1, <1>2, <1>3, AfterPassing
<1>5. Now(p) = r.touch
  BY <1>2 DEF Now
<1>6. /\ fragments[p] \in Seq(Reports) /\ Elements(k) = Elements(fragments[p]) \cup {r} /\ k # << >>
      /\ k[1] = IF fragments[p] = << >> THEN r ELSE fragments[p][1]
  BY KeptWith
<1>7. r \in Elements(Stream(p))
  <2>1. Stream(p) \in Seq(Reports)
    BY <1>1, StreamIs
  <2>2. 1 \in DOMAIN Stream(p)
    BY <1>2, <2>1, OfSeq
  <2> QED
    BY <1>2, <2>2, Zenon DEF Elements
<1>8. KeptFromBegin(p)'
  <2>1. CASE r.kind = "up"
    <3>1. fragments'[p] = << >>
      BY <1>1, <2>1, Typed DEF RecordsReport
    <3>2. Begins(p)'
      BY <1>4, <2>1
    <3> QED
      BY <1>1, <1>2, <1>4, <3>1, <3>2, OfNothing DEF KeptFromBegin, Begins
  <2>2. CASE r.kind # "up" /\ fragments' = [fragments EXCEPT ![p] = k]
    <3>1. fragments'[p] = k
      BY <1>1, <2>2, Typed
    <3>2. Now(p)' = Now(p)
      BY <1>4, <1>5, <2>2 DEF After
    <3>3. Foreign(p, Now(p))' <=> Foreign(p, Now(p))
      BY <1>3, <3>2 DEF Foreign
    <3>4. Foreign(p, Now(p)) \/ k[1].kind = "down"
      BY <1>2, <1>6 DEF KeptFromBegin
    <3>5. /\ \A e \in Elements(k) : e.touch = Now(p)
          /\ \A e \in Elements(k) \cup Elements(Stream(p)') : e.kind = "down" => e.touch <= touch[p]
      BY <1>2, <1>4, <1>5, <1>6, <1>7 DEF KeptFromBegin
    <3> QED
      BY <1>1, <1>6, <3>1, <3>2, <3>3, <3>4, <3>5 DEF KeptFromBegin
  <2>3. CASE r.kind # "up" /\ r.kind # "down" /\ UNCHANGED fragments
    <3>1. Now(p)' = Now(p)
      BY <1>4, <1>5, <2>3 DEF After
    <3>2. Foreign(p, Now(p))' <=> Foreign(p, Now(p))
      BY <1>3, <3>1 DEF Foreign
    <3>3. Foreign(p, Now(p)) \/ (fragments[p] # << >> /\ fragments[p][1].kind = "down")
      BY <1>2, <2>3 DEF KeptFromBegin
    <3>4. /\ \A e \in Elements(fragments[p]) : e.touch = Now(p)
          /\ \A e \in Elements(fragments[p]) \cup Elements(Stream(p)') : e.kind = "down" => e.touch <= touch[p]
      BY <1>2, <1>4 DEF KeptFromBegin
    <3> QED
      BY <1>1, <2>3, <3>1, <3>2, <3>3, <3>4 DEF KeptFromBegin
  <2> QED
    BY <2>1, <2>2, <2>3 DEF RecordsReport
<1>9. SharedIsForeign(p)'
  BY <1>1, <1>2, <1>3, <1>4 DEF SharedIsForeign
<1>10. ASSUME NEW q \in Pads, q # p PROVE TouchesFollow(q)' /\ KeptFromBegin(q)' /\ SharedIsForeign(q)'
  <2>1. SamePad(q)
    BY <1>10, RecordOthers
  <2> QED
    BY <1>1, <1>3, <2>1, SameTouches, SameShared DEF TouchInv
<1>11. SentIsForeign'
  <2>1. Posted' = Posted
    BY <1>1 DEF Posted
  <2>2. CASE UNCHANGED toSource
    <3>1. \A s \in Sessions : Sent(s)' = Sent(s)
      BY <2>2 DEF Sent
    <3> QED
      BY <1>3, <2>1, <3>1 DEF SentIsForeign, TouchInv
  <2>3. CASE r.kind = "up" /\ k[1].kind # "down" /\ SendKeyStateNodeMsgBatch(lastSessionId, k)
    <3>1. Foreign(p, Now(p))
      BY <1>2, <1>6, <2>3 DEF KeptFromBegin
    <3>2. \A e \in Elements(k) : e.pad = p /\ e.touch = Now(p)
      BY <1>1, <1>2, <1>5, <1>6 DEF KeptFromBegin, TInv
    <3>3. \A s \in Sessions : Sent(s)' \subseteq Sent(s) \cup Elements(k)
      <4> SUFFICES ASSUME NEW s \in Sessions PROVE Sent(s)' \subseteq Sent(s) \cup Elements(k)
        OBVIOUS
      <4>1. toSource'[s] = IF s = lastSessionId THEN toSource[s] \o k ELSE toSource[s]
        BY <1>1, <2>3, Sends
      <4>2. toSource[s] \in Seq(Reports) /\ k \in Seq(Reports)
        BY <1>1, Typed
      <4>3. Elements(toSource[s] \o k) = Elements(toSource[s]) \cup Elements(k)
        BY <4>2, Concatenated
      <4> QED
        BY <4>1, <4>3 DEF Sent
    <3> QED
      BY <1>3, <2>1, <3>1, <3>2, <3>3 DEF SentIsForeign, TouchInv
  <2> QED
    BY <2>2, <2>3 DEF RecordsReport
<1> QED
  BY <1>4, <1>8, <1>9, <1>10, <1>11 DEF TouchInv

\* A step that concerns no pad.
LEMMA TouchesStay ==
    ASSUME TouchInv, Grows, \A p \in Pads : SamePad(p), sharedDHIds' \subseteq sharedDHIds,
           SentIsForeign'
    PROVE  TouchInv'
<1>1. ASSUME NEW p \in Pads PROVE TouchesFollow(p)' /\ KeptFromBegin(p)' /\ SharedIsForeign(p)'
  BY SameTouches, SameShared DEF TouchInv
<1> QED
  BY <1>1 DEF TouchInv

LEMMA SentStays ==
    ASSUME SentIsForeign, Grows, \A s \in Sessions : Sent(s)' \subseteq Sent(s) \cup Posted, Posted' \subseteq Posted
    PROVE  SentIsForeign'
<1>1. \A q, u : Foreign(q, u) => Foreign(q, u)'
  BY DEF Grows, Foreign
<1> QED
  BY <1>1 DEF SentIsForeign

LEMMA WriteStream ==
    ASSUME TInv, NEW p \in Pads, NEW r, Reported(p, r)
    PROVE  Stream(p)' = Append(Stream(p), r) /\ \A q \in Pads : q # p => SamePad(q)
<1>1. /\ r \in Reports /\ kernel' = [kernel EXCEPT ![p] = Append(kernel[p], r)]
      /\ \A q \in Pads : q # p => touch'[q] = touch[q] /\ (q \in finger' <=> q \in finger)
      /\ UNCHANGED << collector, fragments >>
  BY DEF Reported, stateVars
<1>2. \A q \in Pads : kernel'[q] = IF q = p THEN Append(kernel[p], r) ELSE kernel[q]
  BY <1>1, Typed
<1>3. Stream(p)' = Append(Stream(p), r)
  <2>1. PICK a, b : a = (IF collector.pad = p THEN collector.read ELSE << >>) /\ b = kernel[p]
    OBVIOUS
  <2>2. a \in Seq(Reports) /\ b \in Seq(Reports)
    BY <2>1, Typed
  <2>3. a \o Append(b, r) = Append(a \o b, r)
    BY <1>1, <2>2
  <2>4. Stream(p) = a \o b /\ Stream(p)' = a \o Append(b, r)
    BY <1>1, <1>2, <2>1 DEF Stream
  <2> QED
    BY <2>3, <2>4
<1>4. \A q \in Pads : q # p => SamePad(q)
  BY <1>1, <1>2 DEF SamePad, Stream
<1> QED
  BY <1>3, <1>4

LEMMA WriteTouches ==
    ASSUME TInv, NEW p \in Pads, NEW r, Writes(p, r), TouchInv
    PROVE  TouchInv'
<1>1. /\ r \in Reports /\ touch' \in [Pads -> Nat] /\ Grows /\ Follows(p, r) /\ StaysForeign(p, r)
      /\ Reported(p, r) /\ UNCHANGED << sharedDHIds, fragments, eventQueue, toSource >>
  BY DEF Writes, Reported, stateVars
<1>2. Stream(p)' = Append(Stream(p), r) /\ \A q \in Pads : q # p => SamePad(q)
  BY <1>1, WriteStream
<1>3. TouchesFollow(p)' /\ KeptFromBegin(p)'
  BY <1>1, <1>2, NextReport DEF TouchInv
<1>4. SharedIsForeign(p)'
  <2>1. Elements(Append(Stream(p), r)) = Elements(Stream(p)) \cup {r}
    <3>1. Stream(p) \in Seq(Reports)
      BY StreamIs
    <3> QED
      BY <1>1, <3>1, Appended
  <2>2. \A u : Foreign(p, u) => Foreign(p, u)'
    BY <1>1 DEF Grows, Foreign
  <2> QED
    BY <1>1, <1>2, <2>1, <2>2 DEF SharedIsForeign, StaysForeign, TouchInv, Foreign
<1>5. ASSUME NEW q \in Pads, q # p PROVE TouchesFollow(q)' /\ KeptFromBegin(q)' /\ SharedIsForeign(q)'
  BY <1>1, <1>2, <1>5, SameTouches, SameShared DEF TouchInv
<1>6. SentIsForeign'
  <2>1. Posted' = Posted /\ \A s \in Sessions : Sent(s)' = Sent(s)
    BY <1>1 DEF Posted, Sent
  <2> QED
    BY <1>1, <2>1, SentStays DEF TouchInv
<1> QED
  BY <1>3, <1>4, <1>5, <1>6 DEF TouchInv

LEMMA ReadStream ==
    ASSUME TInv, NEW p \in Pads, ReadEvents(p)
    PROVE  \A q \in Pads : SamePad(q)
<1>1. /\ collector = Idle /\ collector'.pad = p /\ collector'.read = kernel[p]
      /\ kernel' = [kernel EXCEPT ![p] = << >>] /\ UNCHANGED << finger, touch, fragments >>
  BY DEF ReadEvents, stateVars
<1>2. \A q \in Pads : kernel'[q] = IF q = p THEN << >> ELSE kernel[q]
  BY <1>1, Typed
<1> SUFFICES ASSUME NEW q \in Pads PROVE SamePad(q)
  OBVIOUS
<1>3. Stream(q) = kernel[q] /\ kernel[q] \in Seq(Reports)
  BY <1>1, StreamIs
<1>4. Stream(q)' \in {kernel[q] \o << >>, << >> \o kernel[q]}
  <2>1. CASE q = p
    <3>1. collector'.pad = q /\ collector'.read = kernel[q] /\ kernel'[q] = << >>
      BY <1>1, <1>2, <2>1
    <3> QED
      BY <3>1 DEF Stream
  <2>2. CASE q # p
    <3>1. collector'.pad # q /\ kernel'[q] = kernel[q]
      BY <1>1, <1>2, <2>2
    <3> QED
      BY <3>1 DEF Stream
  <2> QED
    BY <2>1, <2>2
<1>5. kernel[q] \o << >> = kernel[q] /\ << >> \o kernel[q] = kernel[q]
  BY <1>3, OfNothing
<1> QED
  BY <1>1, <1>3, <1>4, <1>5 DEF SamePad

LEMMA ReadTouches ==
    ASSUME TInv, NEW p \in Pads, ReadEvents(p), TouchInv
    PROVE  TouchInv'
<1>1. UNCHANGED << clickedBefore, lentTouches, sharedDHIds, eventQueue, toSource >>
  BY DEF ReadEvents, sourceVars
<1>2. SentIsForeign' /\ Grows
  BY <1>1, SentStays DEF TouchInv, Posted, Sent, Grows
<1> QED
  BY <1>1, <1>2, ReadStream, TouchesStay

\* A read that is posted is the first part of the stream, and nothing else is on its way.
LEMMA PostStream ==
    ASSUME TInv, InTurns, CheckShared, NEW p, p = collector.pad, p \in sharedDHIds
    PROVE  /\ p \in Pads /\ fragments[p] = << >> /\ collector.read \in Seq(Reports)
           /\ collector.read # << >> /\ \A e \in Elements(collector.read) : e.pad = p
           /\ eventQueue = << >> /\ handler = NoRequest /\ eventQueue' = << collector.read >>
           /\ Stream(p)' = kernel[p] /\ kernel[p] \in Seq(Reports)
           /\ Stream(p) = collector.read \o kernel[p] /\ Joins(Stream(p), collector.read, kernel[p])
           /\ \A q \in Pads : q # p => SamePad(q)
<1>1. /\ collector # Idle /\ UNCHANGED << finger, kernel, touch, fragments >>
      /\ eventQueue' = Append(eventQueue, collector.read) /\ collector' = Idle
  BY DEF CheckShared, userVars, stateVars
<1>2. /\ eventQueue = << >> /\ handler = NoRequest /\ p \in Pads /\ fragments[p] = << >>
      /\ collector.read # << >>
  BY <1>1, Typed DEF InTurns
<1>3. collector.read \in Seq(Reports) /\ kernel[p] \in Seq(Reports)
  BY <1>2, Typed
<1>4. Stream(p) = collector.read \o kernel[p] /\ Stream(p)' = kernel[p]
  <2>1. Stream(p) = collector.read \o kernel[p]
    BY <1>2, StreamIs
  <2>2. Stream(p)' = << >> \o kernel[p]
    BY <1>1 DEF Stream, Idle
  <2>3. << >> \o kernel[p] = kernel[p]
    BY <1>3, OfNothing
  <2> QED
    BY <2>1, <2>2, <2>3
<1>5. Joins(collector.read \o kernel[p], collector.read, kernel[p])
  BY <1>3, ConcatAt
<1>6. ASSUME NEW q \in Pads, q # p PROVE SamePad(q)
  <2>1. Stream(q) = << >> \o kernel[q] /\ Stream(q)' = << >> \o kernel[q]
    BY <1>1, <1>6 DEF Stream, Idle
  <2> QED
    BY <1>1, <2>1 DEF SamePad
<1>7. \A e \in Elements(collector.read) : e.pad = p
  BY DEF TInv
<1>8. eventQueue' = << collector.read >>
  BY <1>1, <1>2
<1> QED
  BY <1>2, <1>3, <1>4, <1>5, <1>6, <1>7, <1>8

\* A test that finds the pad not shared.
LEMMA TestStream ==
    ASSUME TInv, CheckShared, collector.pad \notin sharedDHIds
    PROVE  UNCHANGED eventQueue /\ \A q \in Pads : SamePad(q)
<1>1. /\ collector # Idle /\ UNCHANGED << finger, kernel, touch, fragments >>
      /\ collector' = [collector EXCEPT !.checked = TRUE] /\ UNCHANGED eventQueue
  BY DEF CheckShared, userVars, stateVars
<1>2. collector'.read = collector.read /\ collector'.pad = collector.pad
  BY <1>1 DEF TInv, TypeOK
<1> QED
  BY <1>1, <1>2 DEF SamePad, Stream

LEMMA CheckTouches ==
    ASSUME TInv, InTurns, CheckShared, TouchInv
    PROVE  TouchInv'
<1>1. UNCHANGED << finger, touch, clickedBefore, lentTouches, sharedDHIds, fragments, toSource >>
  BY DEF CheckShared, userVars, stateVars
<1>2. Grows /\ \A q, u : Foreign(q, u)' <=> Foreign(q, u)
  BY <1>1 DEF Grows, Foreign
<1>3. CASE collector.pad \in sharedDHIds
  <2>1. PICK p, a, b, n : p = collector.pad /\ a = collector.read /\ b = kernel[p] /\ n = Len(a)
    OBVIOUS
  <2>2. /\ p \in Pads /\ fragments[p] = << >> /\ a \in Seq(Reports) /\ a # << >>
        /\ \A e \in Elements(a) : e.pad = p
        /\ eventQueue' = << a >> /\ Stream(p)' = b /\ b \in Seq(Reports)
        /\ Stream(p) = a \o b /\ Joins(Stream(p), a, b)
        /\ \A q \in Pads : q # p => SamePad(q)
    BY <1>3, <2>1, PostStream
  <2>3. n \in Nat \ {0} /\ DOMAIN b = 1 .. Len(b) /\ Len(b) \in Nat
    <3>1. n \in Nat /\ n > 0
      BY <2>1, <2>2, OfSeq
    <3>2. DOMAIN b = 1 .. Len(b) /\ Len(b) \in Nat
      BY <2>2, OfSeq
    <3> QED
      BY <3>1, <3>2
  <2>4. Len(a \o b) = n + Len(b) /\ Elements(a \o b) = Elements(a) \cup Elements(b)
    BY <2>1, <2>2, Concatenated
  <2>5. \A i \in 1 .. Len(b) : b[i] = Stream(p)[n + i]
    BY <2>1, <2>2, <2>3 DEF Joins
  <2>6. Passes(p, n)
    BY <1>1, <2>2, <2>3, <2>4, <2>5 DEF Passes
  <2>7. TouchesFollow(p) /\ KeptFromBegin(p) /\ SharedIsForeign(p) /\ p \in sharedDHIds
    BY <1>3, <2>1, <2>2 DEF TouchInv
  <2>8. PICK l : l = Stream(p)[n]
    OBVIOUS
  <2>9. /\ TouchesFollow(p)' /\ Now(p)' = After(l) /\ (l.kind = "up" => Begins(p)')
        /\ Elements(b) \subseteq Elements(Stream(p))
    BY <1>2, <2>2, <2>6, <2>7, <2>8, AfterPassing
  <2>10. Foreign(p, l.touch)
    <3>1. n \in DOMAIN a
      BY <2>1, <2>2, <2>3, OfSeq
    <3>2. n \in DOMAIN Stream(p)
      BY <2>2, <3>1 DEF Joins
    <3>3. l \in Elements(Stream(p))
      BY <2>8, <3>2, Zenon DEF Elements
    <3> QED
      BY <2>7, <3>3 DEF SharedIsForeign
  <2>11. Begins(p)'
    <3>1. CASE l.kind # "up"
      <4>1. Now(p)' = l.touch
        BY <2>9, <3>1 DEF After
      <4>2. Foreign(p, Now(p))'
        BY <1>1, <2>10, <4>1 DEF Foreign
      <4> QED
        BY <4>2 DEF Begins
    <3> QED
      BY <2>9, <3>1
  <2>12. KeptFromBegin(p)'
    BY <1>1, <2>2, <2>7, <2>9, <2>11, OfNothing DEF KeptFromBegin, Begins
  <2>13. SharedIsForeign(p)'
    BY <1>1, <1>2, <2>2, <2>7, <2>9 DEF SharedIsForeign
  <2>14. ASSUME NEW q \in Pads, q # p PROVE TouchesFollow(q)' /\ KeptFromBegin(q)' /\ SharedIsForeign(q)'
    BY <1>1, <1>2, <2>2, <2>14, SameTouches, SameShared DEF TouchInv
  <2>15. SentIsForeign'
    <3>1. Posted' = Elements(a)
      BY <2>2 DEF Posted
    <3>2. \A e \in Elements(a) : Foreign(e.pad, e.touch)
      BY <2>2, <2>4, <2>7 DEF SharedIsForeign
    <3>3. \A s \in Sessions : Sent(s)' = Sent(s)
      BY <1>1 DEF Sent
    <3>4. \A s \in Sessions : \A e \in Sent(s) : Foreign(e.pad, e.touch)
      BY DEF TouchInv, SentIsForeign
    <3> QED
      BY <1>2, <3>1, <3>2, <3>3, <3>4 DEF SentIsForeign
  <2> QED
    BY <2>9, <2>12, <2>13, <2>14, <2>15 DEF TouchInv
<1>4. CASE collector.pad \notin sharedDHIds
  <2>1. UNCHANGED eventQueue /\ \A q \in Pads : SamePad(q)
    BY <1>4, TestStream
  <2>2. SentIsForeign'
    BY <1>1, <1>2, <2>1, SentStays DEF TouchInv, Posted, Sent
  <2> QED
    BY <1>1, <1>2, <2>1, <2>2, TouchesStay
<1> QED
  BY <1>3, <1>4

\* At both halves of a start a source gets to see what is under way of the pad.
LEMMA Lends ==
    ASSUME TInv, NEW d, Lent(d), UNCHANGED << clickedBefore, touch >>, UNCHANGED << kernel, collector >>, collector = Idle
    PROVE  /\ Grows
           /\ d \in Pads => /\ \A e \in Elements(Stream(d)) : Foreign(d, e.touch)'
                            /\ d \in finger => Foreign(d, touch[d])'
<1>1. lentTouches' = lentTouches \cup UNION {Underway(p) : p \in Pads \cap {d}} /\ clickedBefore' = clickedBefore
  BY DEF Lent
<1>2. Grows
  BY <1>1 DEF Grows
<1>3. ASSUME d \in Pads
      PROVE  /\ \A e \in Elements(Stream(d)) : Foreign(d, e.touch)'
             /\ d \in finger => Foreign(d, touch[d])'
  <2>1. Underway(d) \subseteq lentTouches'
    BY <1>1, <1>3
  <2>2. Stream(d) = kernel[d]
    BY <1>3, StreamIs
  <2>3. \A e \in Elements(kernel[d]) : << d, e.touch >> \in Underway(d)
    BY DEF Underway, Elements
  <2>4. \A u : << d, u >> \in Underway(d) => << d, u >> \in lentTouches' \cup clickedBefore'
    BY <2>1
  <2>5. ASSUME NEW e \in Elements(Stream(d)) PROVE Foreign(d, e.touch)'
    BY <2>2, <2>3, <2>4, <2>5 DEF Foreign
  <2>6. ASSUME d \in finger PROVE Foreign(d, touch[d])'
    <3>1. PICK u : u = touch[d]
      OBVIOUS
    <3>2. << d, u >> \in Underway(d)
      BY <2>6, <3>1 DEF Underway
    <3>3. << d, u >> \in lentTouches'
      BY <2>1, <3>2
    <3>4. u = touch'[d]
      BY <3>1
    <3> QED
      BY <3>3, <3>4 DEF Foreign
  <2> QED
    BY <2>5, <2>6
<1> QED
  BY <1>2, <1>3

LEMMA StartTouches ==
    ASSUME Overlap = FALSE, TInv, StartRecordDhIds, TouchInv
    PROVE  TouchInv'
<1>1. PICK d : d = handler'.dhId
  OBVIOUS
<1>2. /\ collector = Idle /\ Lent(d)
      /\ UNCHANGED << finger, kernel, touch, clickedBefore, collector, sharedDHIds, eventQueue >>
      /\ (d \in Pads /\ Replays(d)) \/ (d \notin Pads /\ UNCHANGED << toSource, fragments >>)
  BY <1>1, Starts
<1>3. /\ Grows
      /\ d \in Pads => /\ \A e \in Elements(Stream(d)) : Foreign(d, e.touch)'
                       /\ d \in finger => Foreign(d, touch[d])'
  BY <1>2, Lends
<1>4. \A q \in Pads : Stream(q)' = Stream(q)
  BY <1>2 DEF Stream
<1>5. \A q, u : Foreign(q, u) => Foreign(q, u)'
  BY <1>3 DEF Grows, Foreign
<1>6. CASE d \notin Pads
  <2>1. \A q \in Pads : SamePad(q)
    BY <1>2, <1>4, <1>6 DEF SamePad
  <2>2. Posted' = Posted /\ \A s \in Sessions : Sent(s)' = Sent(s)
    BY <1>2, <1>6 DEF Posted, Sent
  <2>3. SentIsForeign'
    BY <1>3, <2>2, SentStays DEF TouchInv
  <2> QED
    BY <1>2, <1>3, <2>1, <2>3, TouchesStay
<1>7. CASE d \in Pads
  <2>1. /\ Replays(d) /\ fragments[d] \in Seq(Reports)
        /\ \A q \in Pads : fragments'[q] = IF q = d THEN << >> ELSE fragments[q]
    BY <1>2, <1>7, Typed DEF Replays
  <2>2. ASSUME NEW q \in Pads, q # d PROVE TouchesFollow(q)' /\ KeptFromBegin(q)' /\ SharedIsForeign(q)'
    <3>1. SamePad(q)
      BY <1>2, <1>4, <2>1, <2>2 DEF SamePad
    <3> QED
      BY <1>2, <1>3, <3>1, SameTouches, SameShared DEF TouchInv
  <2>3. TouchesFollow(d) /\ KeptFromBegin(d) /\ SharedIsForeign(d)
    BY <1>7 DEF TouchInv
  <2>4. Coming(d)' = Coming(d) /\ Now(d)' = Now(d)
    <3>1. Coming(d)' = Coming(d)
      BY <1>2 DEF Coming
    <3> QED
      BY <1>4, <1>7, <3>1 DEF Now
  <2>5. PICK q, now : q = Stream(d) /\ now = Now(d)
    OBVIOUS
  <2>6. q \in Seq(Reports) /\ (q # << >> => 1 \in DOMAIN q /\ q[1] \in Elements(q))
    <3>1. q \in Seq(Reports)
      BY <1>7, <2>5, StreamIs
    <3>2. q # << >> => 1 \in DOMAIN q
      BY <3>1, OfSeq
    <3> QED
      BY <3>1, <3>2, Zenon DEF Elements
  <2>7. q # << >> \/ d \in finger => Foreign(d, now)'
    <3>1. ASSUME q # << >> PROVE Foreign(d, now)'
      <4>1. now = q[1].touch /\ q[1] \in Elements(Stream(d))
        BY <2>5, <2>6, <3>1 DEF Now
      <4> QED
        BY <1>3, <1>7, <4>1
    <3>2. ASSUME q = << >>, d \in finger PROVE Foreign(d, now)'
      <4>1. now = touch[d] /\ touch' = touch
        BY <1>2, <2>5, <3>2 DEF Now, Coming
      <4> QED
        BY <1>3, <1>7, <3>2, <4>1 DEF Foreign
    <3> QED
      BY <3>1, <3>2
  <2>8. TouchesFollow(d)'
    <3>1. /\ \A i \in 1 .. Len(q) - 1 :
                /\ q[i + 1].touch = After(q[i])
                /\ q[i].kind = "up" => q[i + 1].kind = "down" \/ Foreign(d, q[i + 1].touch)'
          /\ q # << >> => Coming(d)' = After(q[Len(q)]) /\ (q[Len(q)].kind = "up" => d \notin finger')
      BY <1>2, <1>5, <2>3, <2>4, <2>5 DEF TouchesFollow
    <3>2. Stream(d)' = q
      BY <1>4, <1>7, <2>5
    <3> QED
      BY <3>1, <3>2 DEF TouchesFollow, After
  <2>9. KeptFromBegin(d)'
    <3>1. fragments'[d] = << >> /\ Stream(d)' = q /\ Now(d)' = now /\ finger' = finger /\ touch' = touch
      BY <1>2, <1>4, <1>7, <2>1, <2>4, <2>5
    <3>2. Foreign(d, Now(d))' <=> Foreign(d, now)'
      BY <3>1 DEF Foreign
    <3>3. Foreign(d, Now(d))' \/ (q = << >> /\ d \notin finger)
      BY <2>7, <3>2
    <3>4. \A e \in Elements(q) : e.kind = "down" => e.touch <= touch[d]
      BY <2>3, <2>5 DEF KeptFromBegin
    <3> QED
      BY <3>1, <3>3, <3>4, OfNothing DEF KeptFromBegin
  <2>10. SharedIsForeign(d)'
    <3>1. \A e \in Elements(q) : Foreign(d, e.touch)'
      BY <1>3, <1>7, <2>5
    <3>2. Stream(d)' = q /\ finger' = finger
      BY <1>2, <1>4, <1>7, <2>5
    <3> QED
      BY <1>3, <1>7, <3>1, <3>2 DEF SharedIsForeign
  <2>11. \A e \in Elements(fragments[d]) : e.pad = d /\ Foreign(d, e.touch)'
    <3> SUFFICES ASSUME NEW e \in Elements(fragments[d]) PROVE e.pad = d /\ Foreign(d, e.touch)'
      OBVIOUS
    <3>1. e.pad = d /\ e.touch = now /\ fragments[d] # << >>
      BY <1>7, <2>3, <2>5, OfNothing DEF KeptFromBegin, TInv
    <3>2. Foreign(d, now)'
      <4>1. CASE q # << >> \/ d \in finger
        BY <2>7, <4>1
      <4>2. CASE q = << >> /\ d \notin finger
        <5>1. now = touch[d] + 1 /\ touch[d] \in Nat
          BY <1>7, <2>5, <4>2 DEF Now, Coming, TInv
        <5>2. fragments[d][1] \in Elements(fragments[d])
          <6>1. 1 \in DOMAIN fragments[d]
            BY <2>1, <3>1, OfSeq
          <6> QED
            BY <6>1, Zenon DEF Elements
        <5>3. fragments[d][1].touch = now /\ (fragments[d][1].kind = "down" => fragments[d][1].touch <= touch[d])
          BY <2>3, <2>5, <5>2 DEF KeptFromBegin
        <5>4. fragments[d][1].kind # "down"
          BY <5>1, <5>3
        <5>5. Foreign(d, now)
          BY <2>3, <2>5, <3>1, <5>4 DEF KeptFromBegin
        <5> QED
          BY <1>5, <5>5
      <4> QED
        BY <4>1, <4>2
    <3> QED
      BY <3>1, <3>2
  <2>12. SentIsForeign'
    <3>1. Posted' = Posted
      BY <1>2 DEF Posted
    <3>2. \A s \in Sessions : Sent(s)' \subseteq Sent(s) \cup Elements(fragments[d])
      <4> SUFFICES ASSUME NEW s \in Sessions PROVE Sent(s)' \subseteq Sent(s) \cup Elements(fragments[d])
        OBVIOUS
      <4>1. toSource'[s] \in {toSource[s], toSource[s] \o fragments[d]}
        BY <2>1, Sends DEF Replays
      <4>2. Elements(toSource[s] \o fragments[d]) = Elements(toSource[s]) \cup Elements(fragments[d])
        <5>1. toSource[s] \in Seq(Reports)
          BY Typed
        <5> QED
          BY <2>1, <5>1, Concatenated
      <4> QED
        BY <4>1, <4>2 DEF Sent
    <3> QED
      BY <1>5, <2>11, <3>1, <3>2 DEF SentIsForeign, TouchInv
  <2> QED
    BY <2>2, <2>8, <2>9, <2>10, <2>12 DEF TouchInv
<1> QED
  BY <1>6, <1>7

LEMMA ShareTouches ==
    ASSUME TInv, InTurns, StartSetSharing, TouchInv
    PROVE  TouchInv'
<1>1. PICK d : d = handler.dhId
  OBVIOUS
<1>2. /\ collector = Idle /\ Lent(d) /\ sharedDHIds' = sharedDHIds \cup {d}
      /\ UNCHANGED << finger, kernel, touch, clickedBefore, collector, fragments, eventQueue, toSource >>
  BY <1>1 DEF StartSetSharing, InTurns, NoRequest, userVars, stateVars
<1>3. /\ Grows
      /\ d \in Pads => /\ \A e \in Elements(Stream(d)) : Foreign(d, e.touch)'
                       /\ d \in finger => Foreign(d, touch[d])'
  BY <1>2, Lends
<1>4. ASSUME NEW q \in Pads PROVE TouchesFollow(q)' /\ KeptFromBegin(q)' /\ SharedIsForeign(q)'
  <2>1. SamePad(q)
    BY <1>2 DEF SamePad, Stream
  <2>2. TouchesFollow(q)' /\ KeptFromBegin(q)'
    BY <1>3, <2>1, SameTouches DEF TouchInv
  <2>3. CASE q = d
    <3>1. Stream(d)' = Stream(d) /\ finger' = finger
      BY <1>2, <2>1, <2>3 DEF SamePad
    <3>2. \A e \in Elements(Stream(d)') : Foreign(d, e.touch)'
      BY <1>3, <2>3, <3>1
    <3> QED
      BY <1>3, <2>2, <2>3, <3>1, <3>2 DEF SharedIsForeign
  <2>4. CASE q # d
    <3>1. q \in sharedDHIds' => q \in sharedDHIds
      BY <1>2, <2>4
    <3> QED
      BY <1>3, <2>1, <2>2, <3>1, SameShared DEF TouchInv
  <2> QED
    BY <2>3, <2>4
<1>5. SentIsForeign'
  <2>1. Posted' = Posted /\ \A s \in Sessions : Sent(s)' = Sent(s)
    BY <1>2 DEF Posted, Sent
  <2> QED
    BY <1>3, <2>1, SentStays DEF TouchInv
<1> QED
  BY <1>4, <1>5 DEF TouchInv

LEMMA DeliverTouches ==
    ASSUME TInv, InTurns, SendEvents \/ \E s \in Sessions : InjectInputEvent(s), TouchInv
    PROVE  TouchInv'
<1>1. UNCHANGED << finger, kernel, touch, clickedBefore, lentTouches, collector, fragments, sharedDHIds >>
  BY DEF SendEvents, InjectInputEvent, userVars, stateVars
<1>2. Grows /\ \A q \in Pads : SamePad(q)
  BY <1>1 DEF Grows, SamePad, Stream
<1>3. CASE SendEvents
  <2>1. /\ eventQueue # << >> /\ eventQueue' = Tail(eventQueue)
        /\ toSource' = [s \in Sessions |->
                          IF s = openSession THEN toSource[s] \o Head(eventQueue) ELSE toSource[s]]
    BY <1>3 DEF SendEvents
  <2>2. Posted = Elements(Head(eventQueue)) /\ eventQueue' = << >> /\ Head(eventQueue) \in Seq(Reports)
    BY <2>1, PostedIs
  <2>3. Posted' = {}
    BY <2>2 DEF Posted
  <2>4. ASSUME NEW s \in Sessions PROVE Sent(s)' \subseteq Sent(s) \cup Posted
    <3>1. toSource'[s] \in {toSource[s], toSource[s] \o Head(eventQueue)}
      BY <2>1
    <3>2. Elements(toSource[s] \o Head(eventQueue)) = Elements(toSource[s]) \cup Posted
      <4>1. toSource[s] \in Seq(Reports)
        BY Typed
      <4> QED
        BY <2>2, <4>1, Concatenated
    <3> QED
      BY <3>1, <3>2 DEF Sent
  <2>5. SentIsForeign'
    BY <1>2, <2>3, <2>4, SentStays DEF TouchInv
  <2> QED
    BY <1>1, <1>2, <2>5, TouchesStay
<1>4. ASSUME NEW s \in Sessions, InjectInputEvent(s) PROVE TouchInv'
  <2>1. toSource[s] # << >> /\ toSource' = [toSource EXCEPT ![s] = Tail(toSource[s])] /\ UNCHANGED eventQueue
    BY <1>4 DEF InjectInputEvent
  <2>2. Elements(Tail(toSource[s])) \subseteq Elements(toSource[s])
    <3>1. toSource[s] \in Seq(Reports)
      BY Typed
    <3> QED
      BY <2>1, <3>1, OfTail
  <2>3. \A t \in Sessions : Sent(t)' \subseteq Sent(t) \cup Posted
    BY <2>1, <2>2, Typed DEF Sent
  <2>4. Posted' = Posted
    BY <2>1 DEF Posted
  <2>5. SentIsForeign'
    BY <1>2, <2>3, <2>4, SentStays DEF TouchInv
  <2> QED
    BY <1>1, <1>2, <2>5, TouchesStay
<1> QED
  BY <1>3, <1>4

LEMMA OtherTouches ==
    ASSUME TouchInv, sharedDHIds' \subseteq sharedDHIds,
           UNCHANGED << finger, kernel, touch, clickedBefore, lentTouches, collector, fragments,
                        eventQueue, toSource >>
    PROVE  TouchInv'
<1>1. Grows /\ \A q \in Pads : SamePad(q)
  BY DEF Grows, SamePad, Stream
<1>2. Posted' = Posted /\ \A s \in Sessions : Sent(s)' = Sent(s)
  BY DEF Posted, Sent
<1>3. SentIsForeign'
  BY <1>1, <1>2, SentStays DEF TouchInv
<1> QED
  BY <1>1, <1>3, TouchesStay

LEMMA NextTouches ==
    ASSUME Overlap = FALSE, TInv, InTurns, TouchInv, [Next]_vars
    PROVE  TouchInv'
<1>1. ASSUME NEW p \in Pads, Touch(p) \/ Move(p) \/ Lift(p) \/ Click(p) PROVE TouchInv'
  BY <1>1, UserWrites, WriteTouches
<1>2. ASSUME NEW p \in Pads, ReadEvents(p) PROVE TouchInv'
  BY <1>2, ReadTouches
<1>3. CASE CheckShared
  BY <1>3, CheckTouches
<1>4. CASE RecordDeviceChangeStates
  BY <1>4, Records, RecordTouches
<1>5. CASE StartRecordDhIds
  BY <1>5, StartTouches
<1>6. CASE StartSetSharing
  BY <1>6, ShareTouches
<1>7. CASE StopSetSharing \/ StopRecordDhIds
  <2>1. sharedDHIds' \subseteq sharedDHIds
    BY <1>7 DEF StopSetSharing, StopRecordDhIds
  <2> QED
    BY <1>7, <2>1, OtherTouches DEF StopSetSharing, StopRecordDhIds, userVars, stateVars
<1>8. CASE SendEvents \/ \E s \in Sessions : InjectInputEvent(s)
  BY <1>8, DeliverTouches
<1>9. ASSUME NEW d \in DhIds, (\E s \in Sessions : StartRemoteInput(s, d)) \/ StopRemoteInput(d) PROVE TouchInv'
  BY <1>9, OtherTouches DEF StartRemoteInput, StopRemoteInput, Ask, userVars, stateVars
<1>10. CASE UNCHANGED vars
  BY <1>10, OtherTouches DEF vars, userVars, stateVars
<1> QED
  BY <1>1, <1>2, <1>3, <1>4, <1>5, <1>6, <1>7, <1>8, <1>9, <1>10 DEF Next

LEMMA InitTouches == Init => TouchInv
<1> SUFFICES ASSUME Init PROVE TouchInv
  OBVIOUS
<1>1. /\ eventQueue = << >> /\ collector.read = << >> /\ sharedDHIds = {} /\ finger = {}
      /\ \A p \in Pads : fragments[p] = << >> /\ kernel[p] = << >>
      /\ \A s \in Sessions : toSource[s] = << >>
  BY DEF Init, Idle
<1>2. \A p \in Pads : Stream(p) = << >>
  <2>1. << >> \o << >> = << >>
    OBVIOUS
  <2> QED
    BY <1>1, <2>1 DEF Stream
<1>3. SentIsForeign
  <2>1. (\A s \in Sessions : Sent(s) = {}) /\ Posted = {}
    BY <1>1, OfNothing DEF Sent, Posted
  <2> QED
    BY <2>1 DEF SentIsForeign
<1>4. ASSUME NEW p \in Pads PROVE TouchesFollow(p) /\ KeptFromBegin(p) /\ SharedIsForeign(p)
  BY <1>1, <1>2, OfNothing DEF TouchesFollow, KeptFromBegin, SharedIsForeign
<1> QED
  BY <1>3, <1>4 DEF TouchInv

(***************************************************************************)
(* Where a touch is, before and after some reports.                        *)
(***************************************************************************)
LEMMA JoinBefore ==
    ASSUME NEW S, NEW a \in Seq(S), NEW b \in Seq(S), NEW c, Joins(c, a, b), NEW p,
           NEW w \in BOOLEAN, NEW v \in BOOLEAN, v <=> OnBefore(b, p, 1, w),
           NEW i \in 1 .. Len(a) + 1
    PROVE  OnBefore(c, p, i, w) <=> OnBefore(a, p, i, v)
<1>1. /\ DOMAIN a = 1 .. Len(a) /\ DOMAIN b = 1 .. Len(b) /\ Len(a) \in Nat /\ Len(b) \in Nat
      /\ DOMAIN c = 1 .. Len(a) + Len(b)
      /\ \A j \in DOMAIN a : j \in DOMAIN c /\ c[j] = a[j]
      /\ \A j \in DOMAIN b : Len(a) + j \in DOMAIN c /\ c[Len(a) + j] = b[j]
      /\ \A j \in DOMAIN c : FromOne(c, a, b, j)
  BY OfSeq DEF Joins
<1>2. ASSUME OnBefore(c, p, i, w) PROVE OnBefore(a, p, i, v)
  <2>1. ASSUME NEW k \in DOMAIN c, k >= i, Is(c[k], p, "up"),
               \A j \in DOMAIN c : i <= j /\ j < k => ~Is(c[j], p, "down")
        PROVE  OnBefore(a, p, i, v)
    <3>1. CASE k \in DOMAIN a /\ c[k] = a[k]
      <4>1. \A j \in DOMAIN a : i <= j /\ j < k => ~Is(a[j], p, "down")
        BY <1>1, <2>1
      <4> QED
        BY <2>1, <3>1, <4>1 DEF OnBefore
    <3>2. CASE k > Len(a) /\ k - Len(a) \in DOMAIN b /\ c[k] = b[k - Len(a)]
      <4>1. \A j \in DOMAIN a : j >= i => ~Is(a[j], p, "down")
        BY <1>1, <2>1, <3>2
      <4>2. \A j \in DOMAIN b : 1 <= j /\ j < k - Len(a) => ~Is(b[j], p, "down")
        <5> SUFFICES ASSUME NEW j \in DOMAIN b, 1 <= j, j < k - Len(a) PROVE ~Is(b[j], p, "down")
          OBVIOUS
        <5>1. Len(a) + j \in DOMAIN c /\ c[Len(a) + j] = b[j]
          BY <1>1
        <5>2. i <= Len(a) + j /\ Len(a) + j < k
          BY <1>1, <2>1, <3>2
        <5> QED
          BY <2>1, <5>1, <5>2
      <4>3. k - Len(a) >= 1
        BY <1>1, <3>2
      <4>4. OnBefore(b, p, 1, w)
        BY <2>1, <3>2, <4>2, <4>3 DEF OnBefore
      <4> QED
        BY <4>1, <4>4 DEF OnBefore
    <3> QED
      BY <1>1, <2>1, <3>1, <3>2 DEF FromOne
  <2>2. ASSUME w, \A j \in DOMAIN c : j >= i => ~Is(c[j], p, "down")
        PROVE  OnBefore(a, p, i, v)
    <3>1. \A j \in DOMAIN a : j >= i => ~Is(a[j], p, "down")
      BY <1>1, <2>2
    <3>2. \A j \in DOMAIN b : j >= 1 => ~Is(b[j], p, "down")
      <4> SUFFICES ASSUME NEW j \in DOMAIN b PROVE ~Is(b[j], p, "down")
        OBVIOUS
      <4>1. Len(a) + j \in DOMAIN c /\ c[Len(a) + j] = b[j] /\ Len(a) + j >= i
        BY <1>1
      <4> QED
        BY <2>2, <4>1
    <3>3. OnBefore(b, p, 1, w)
      BY <2>2, <3>2 DEF OnBefore
    <3> QED
      BY <3>1, <3>3 DEF OnBefore
  <2> QED
    BY <1>2, <2>1, <2>2 DEF OnBefore
<1>3. ASSUME OnBefore(a, p, i, v) PROVE OnBefore(c, p, i, w)
  <2>1. ASSUME NEW k \in DOMAIN a, k >= i, Is(a[k], p, "up"),
               \A j \in DOMAIN a : i <= j /\ j < k => ~Is(a[j], p, "down")
        PROVE  OnBefore(c, p, i, w)
    <3>1. \A j \in DOMAIN c : i <= j /\ j < k => j \in DOMAIN a /\ c[j] = a[j]
      BY <1>1, <2>1
    <3>2. k \in DOMAIN c /\ c[k] = a[k]
      BY <1>1
    <3> QED
      BY <2>1, <3>1, <3>2 DEF OnBefore
  <2>2. ASSUME v, \A j \in DOMAIN a : j >= i => ~Is(a[j], p, "down")
        PROVE  OnBefore(c, p, i, w)
    <3>1. OnBefore(b, p, 1, w)
      BY <2>2
    <3>2. ASSUME NEW k \in DOMAIN b, k >= 1, Is(b[k], p, "up"),
                 \A j \in DOMAIN b : 1 <= j /\ j < k => ~Is(b[j], p, "down")
          PROVE  OnBefore(c, p, i, w)
      <4>1. Len(a) + k \in DOMAIN c /\ c[Len(a) + k] = b[k] /\ Len(a) + k >= i
        BY <1>1, <3>2
      <4>2. ASSUME NEW j \in DOMAIN c, i <= j, j < Len(a) + k PROVE ~Is(c[j], p, "down")
        <5>1. CASE j \in DOMAIN a /\ c[j] = a[j]
          BY <2>2, <4>2, <5>1
        <5>2. CASE j > Len(a) /\ j - Len(a) \in DOMAIN b /\ c[j] = b[j - Len(a)]
          <6>1. 1 <= j - Len(a) /\ j - Len(a) < k
            BY <1>1, <4>2, <5>2
          <6> QED
            BY <3>2, <5>2, <6>1
        <5> QED
          BY <1>1, <5>1, <5>2 DEF FromOne
      <4> QED
        BY <3>2, <4>1, <4>2 DEF OnBefore
    <3>3. ASSUME w, \A j \in DOMAIN b : j >= 1 => ~Is(b[j], p, "down")
          PROVE  OnBefore(c, p, i, w)
      <4>1. ASSUME NEW j \in DOMAIN c, i <= j PROVE ~Is(c[j], p, "down")
        <5>1. CASE j \in DOMAIN a /\ c[j] = a[j]
          BY <2>2, <4>1, <5>1
        <5>2. CASE j > Len(a) /\ j - Len(a) \in DOMAIN b /\ c[j] = b[j - Len(a)]
          BY <1>1, <3>3, <5>2
        <5> QED
          BY <1>1, <5>1, <5>2 DEF FromOne
      <4>2. \A j \in DOMAIN c : j >= i => ~Is(c[j], p, "down")
        BY <1>1, <4>1
      <4> QED
        BY <3>3, <4>2 DEF OnBefore
    <3> QED
      BY <3>1, <3>2, <3>3 DEF OnBefore
  <2> QED
    BY <1>3, <2>1, <2>2 DEF OnBefore
<1> QED
  BY <1>2, <1>3

LEMMA JoinWithin ==
    ASSUME NEW S, NEW a \in Seq(S), NEW b \in Seq(S), NEW c, Joins(c, a, b), NEW p,
           NEW w \in BOOLEAN, NEW i \in 1 .. Len(b) + 1
    PROVE  OnBefore(c, p, Len(a) + i, w) <=> OnBefore(b, p, i, w)
<1>1. /\ DOMAIN a = 1 .. Len(a) /\ DOMAIN b = 1 .. Len(b) /\ Len(a) \in Nat /\ Len(b) \in Nat
      /\ DOMAIN c = 1 .. Len(a) + Len(b)
      /\ \A j \in DOMAIN b : Len(a) + j \in DOMAIN c /\ c[Len(a) + j] = b[j]
      /\ \A j \in DOMAIN c : FromOne(c, a, b, j)
  BY OfSeq DEF Joins
<1>2. \A j \in DOMAIN c : j >= Len(a) + i => /\ j - Len(a) \in DOMAIN b /\ c[j] = b[j - Len(a)]
                                             /\ j - Len(a) >= i
  BY <1>1 DEF FromOne
<1>3. ASSUME OnBefore(c, p, Len(a) + i, w) PROVE OnBefore(b, p, i, w)
  <2>1. ASSUME NEW k \in DOMAIN c, k >= Len(a) + i, Is(c[k], p, "up"),
               \A j \in DOMAIN c : Len(a) + i <= j /\ j < k => ~Is(c[j], p, "down")
        PROVE  OnBefore(b, p, i, w)
    <3>1. k - Len(a) \in DOMAIN b /\ c[k] = b[k - Len(a)] /\ k - Len(a) >= i
      BY <1>2, <2>1
    <3>2. ASSUME NEW j \in DOMAIN b, i <= j, j < k - Len(a) PROVE ~Is(b[j], p, "down")
      <4>1. Len(a) + j \in DOMAIN c /\ c[Len(a) + j] = b[j] /\ Len(a) + i <= Len(a) + j /\ Len(a) + j < k
        BY <1>1, <2>1, <3>2
      <4> QED
        BY <2>1, <4>1
    <3> QED
      BY <2>1, <3>1, <3>2 DEF OnBefore
  <2>2. ASSUME w, \A j \in DOMAIN c : j >= Len(a) + i => ~Is(c[j], p, "down")
        PROVE  OnBefore(b, p, i, w)
    <3>1. ASSUME NEW j \in DOMAIN b, j >= i PROVE ~Is(b[j], p, "down")
      <4>1. Len(a) + j \in DOMAIN c /\ c[Len(a) + j] = b[j] /\ Len(a) + j >= Len(a) + i
        BY <1>1, <3>1
      <4> QED
        BY <2>2, <4>1
    <3> QED
      BY <2>2, <3>1 DEF OnBefore
  <2> QED
    BY <1>3, <2>1, <2>2 DEF OnBefore
<1>4. ASSUME OnBefore(b, p, i, w) PROVE OnBefore(c, p, Len(a) + i, w)
  <2>1. ASSUME NEW k \in DOMAIN b, k >= i, Is(b[k], p, "up"),
               \A j \in DOMAIN b : i <= j /\ j < k => ~Is(b[j], p, "down")
        PROVE  OnBefore(c, p, Len(a) + i, w)
    <3>1. Len(a) + k \in DOMAIN c /\ c[Len(a) + k] = b[k] /\ Len(a) + k >= Len(a) + i
      BY <1>1, <2>1
    <3>2. ASSUME NEW j \in DOMAIN c, Len(a) + i <= j, j < Len(a) + k PROVE ~Is(c[j], p, "down")
      <4>1. j - Len(a) \in DOMAIN b /\ c[j] = b[j - Len(a)] /\ i <= j - Len(a) /\ j - Len(a) < k
        BY <1>1, <1>2, <3>2
      <4> QED
        BY <2>1, <4>1
    <3> QED
      BY <2>1, <3>1, <3>2 DEF OnBefore
  <2>2. ASSUME w, \A j \in DOMAIN b : j >= i => ~Is(b[j], p, "down")
        PROVE  OnBefore(c, p, Len(a) + i, w)
    <3>1. \A j \in DOMAIN c : j >= Len(a) + i => ~Is(c[j], p, "down")
      BY <1>2, <2>2
    <3> QED
      BY <2>2, <3>1 DEF OnBefore
  <2> QED
    BY <1>4, <2>1, <2>2 DEF OnBefore
<1> QED
  BY <1>3, <1>4

\* One queue goes on where the other ends.
LEMMA JoinAlternates ==
    ASSUME NEW S, NEW a \in Seq(S), NEW b \in Seq(S), NEW c, Joins(c, a, b), NEW p,
           NEW w \in BOOLEAN, NEW v \in BOOLEAN, v <=> OnBefore(b, p, 1, w)
    PROVE  /\ Alternates(c, p, w) <=> Alternates(a, p, v) /\ Alternates(b, p, w)
           /\ OnBefore(c, p, 1, w) <=> OnBefore(a, p, 1, v)
<1>1. /\ DOMAIN a = 1 .. Len(a) /\ DOMAIN b = 1 .. Len(b) /\ Len(a) \in Nat /\ Len(b) \in Nat
      /\ DOMAIN c = 1 .. Len(a) + Len(b)
      /\ \A j \in DOMAIN a : j \in DOMAIN c /\ c[j] = a[j]
      /\ \A j \in DOMAIN b : Len(a) + j \in DOMAIN c /\ c[Len(a) + j] = b[j]
      /\ \A j \in DOMAIN c : FromOne(c, a, b, j)
  BY OfSeq DEF Joins
<1>2. \A i \in DOMAIN a : OnBefore(c, p, i + 1, w) <=> OnBefore(a, p, i + 1, v)
  <2> SUFFICES ASSUME NEW i \in DOMAIN a PROVE OnBefore(c, p, i + 1, w) <=> OnBefore(a, p, i + 1, v)
    OBVIOUS
  <2>1. i + 1 \in 1 .. Len(a) + 1
    BY <1>1
  <2> QED
    BY <2>1, JoinBefore
<1>3. \A i \in DOMAIN b : OnBefore(c, p, (Len(a) + i) + 1, w) <=> OnBefore(b, p, i + 1, w)
  <2> SUFFICES ASSUME NEW i \in DOMAIN b
               PROVE  OnBefore(c, p, (Len(a) + i) + 1, w) <=> OnBefore(b, p, i + 1, w)
    OBVIOUS
  <2>1. i + 1 \in 1 .. Len(b) + 1 /\ (Len(a) + i) + 1 = Len(a) + (i + 1)
    BY <1>1
  <2>2. OnBefore(c, p, Len(a) + (i + 1), w) <=> OnBefore(b, p, i + 1, w)
    BY <2>1, JoinWithin
  <2> QED
    BY <2>1, <2>2
<1>4. ASSUME Alternates(c, p, w) PROVE Alternates(a, p, v) /\ Alternates(b, p, w)
  <2>1. Alternates(a, p, v)
    BY <1>1, <1>2, <1>4 DEF Alternates
  <2>2. Alternates(b, p, w)
    BY <1>1, <1>3, <1>4 DEF Alternates
  <2> QED
    BY <2>1, <2>2
<1>5. ASSUME Alternates(a, p, v), Alternates(b, p, w) PROVE Alternates(c, p, w)
  <2> SUFFICES ASSUME NEW i \in DOMAIN c
               PROVE  /\ Is(c[i], p, "down") => OnBefore(c, p, i + 1, w)
                      /\ Is(c[i], p, "up") => ~OnBefore(c, p, i + 1, w)
    BY DEF Alternates
  <2>1. CASE i \in DOMAIN a /\ c[i] = a[i]
    BY <1>2, <1>5, <2>1 DEF Alternates
  <2>2. CASE i > Len(a) /\ i - Len(a) \in DOMAIN b /\ c[i] = b[i - Len(a)]
    <3>1. PICK j \in DOMAIN b : j = i - Len(a)
      BY <2>2
    <3>2. Len(a) + j = i
      BY <1>1, <3>1
    <3> QED
      BY <1>3, <1>5, <2>2, <3>1, <3>2 DEF Alternates
  <2> QED
    BY <1>1, <2>1, <2>2 DEF FromOne
<1>6. OnBefore(c, p, 1, w) <=> OnBefore(a, p, 1, v)
  <2>1. 1 \in 1 .. Len(a) + 1
    BY <1>1
  <2> QED
    BY <2>1, JoinBefore
<1> QED
  BY <1>4, <1>5, <1>6

LEMMA BeforeNothing ==
    ASSUME NEW p, NEW w \in BOOLEAN
    PROVE  (OnBefore(<< >>, p, 1, w) <=> w) /\ Alternates(<< >>, p, w)
BY DEF OnBefore, Alternates

LEMMA BeforeOne ==
    ASSUME NEW r, NEW p, NEW w \in BOOLEAN
    PROVE  /\ OnBefore(<< r >>, p, 1, w) <=> Is(r, p, "up") \/ (w /\ ~Is(r, p, "down"))
           /\ Alternates(<< r >>, p, w) <=> /\ Is(r, p, "down") => w
                                            /\ Is(r, p, "up") => ~w
<1>1. DOMAIN << r >> = {1} /\ << r >>[1] = r
  OBVIOUS
<1>2. PICK q : q = << r >>
  OBVIOUS
<1>3. OnBefore(q, p, 1, w) <=> Is(r, p, "up") \/ (w /\ ~Is(r, p, "down"))
  BY <1>1, <1>2 DEF OnBefore
<1>4. OnBefore(q, p, 2, w) <=> w
  BY <1>1, <1>2 DEF OnBefore
<1>5. Alternates(q, p, w) <=> (Is(r, p, "down") => w) /\ (Is(r, p, "up") => ~w)
  BY <1>1, <1>2, <1>4 DEF Alternates
<1> QED
  BY <1>2, <1>3, <1>5

\* Reports of other pads change nothing.
LEMMA BeforeOthers ==
    ASSUME NEW q, NEW p, NEW w \in BOOLEAN, \A r \in Elements(q) : r.pad # p
    PROVE  (OnBefore(q, p, 1, w) <=> w) /\ Alternates(q, p, w)
BY DEF OnBefore, Alternates, Is, Elements

LEMMA Booleans ==
    ASSUME NEW p
    PROVE  On(p) \in BOOLEAN /\ Out(p) \in BOOLEAN /\ On(p)' \in BOOLEAN /\ Out(p)' \in BOOLEAN
BY DEF On, Out, OnBefore

LEMMA ChannelIs ==
    ASSUME TInv, InTurns, NEW s \in Sessions
    PROVE  /\ Channel(s) \in Seq(Reports) /\ toSource[s] \in Seq(Reports)
           /\ eventQueue = << >> => Channel(s) = toSource[s]
           /\ eventQueue # << >> => /\ Channel(s) = toSource[s] \o Head(eventQueue)
                                    /\ Head(eventQueue) \in Seq(Reports)
<1>1. toSource[s] \in Seq(Reports)
  BY Typed
<1>2. eventQueue # << >> => Head(eventQueue) \in Seq(Reports)
  BY PostedIs
<1>3. toSource[s] \o << >> = toSource[s]
  BY <1>1, OfNothing
<1>4. eventQueue # << >> => toSource[s] \o Head(eventQueue) \in Seq(Reports)
  BY <1>1, <1>2, Concatenated
<1> QED
  BY <1>1, <1>2, <1>3, <1>4 DEF Channel

\* What is behind the stream stays.
LEMMA KeepsBehind ==
    ASSUME NEW s, NEW p, PadFollows(s, p), Alternates(Stream(p), p, p \in finger)',
           On(p)' = On(p), fragments'[p] = fragments[p], Channel(s)' = Channel(s),
           p \in touched'[s] <=> p \in touched[s]
    PROVE  PadFollows(s, p)'
<1>1. PICK u, v, k, c : u = On(p) /\ v = Out(p) /\ k = fragments[p] /\ c = Channel(s)
  OBVIOUS
<1>2. On(p)' = u /\ fragments'[p] = k /\ Channel(s)' = c
  BY <1>1
<1>3. Out(p)' = v
  BY <1>1, <1>2 DEF Out
<1>4. /\ Alternates(k, p, u) /\ Alternates(c, p, v) /\ \A r \in Elements(k) : r.kind # "up"
      /\ p \in touched'[s] <=> OnBefore(c, p, 1, v)
  BY <1>1 DEF PadFollows, AtSource
<1> QED
  BY <1>2, <1>3, <1>4 DEF PadFollows, AtSource

LEMMA SameOut ==
    ASSUME NEW p, SamePad(p), Alternates(Stream(p), p, p \in finger)
    PROVE  On(p)' = On(p) /\ Out(p)' = Out(p) /\ Alternates(Stream(p), p, p \in finger)'
<1>1. PICK f \in BOOLEAN : f <=> p \in finger
  <2>1. p \in finger => (TRUE <=> p \in finger)
    OBVIOUS
  <2>2. p \notin finger => (FALSE <=> p \in finger)
    OBVIOUS
  <2> QED
    BY <2>1, <2>2
<1>2. f <=> p \in finger'
  BY <1>1 DEF SamePad
<1>3. PICK q, k : q = Stream(p) /\ k = fragments[p]
  OBVIOUS
<1>4. Stream(p)' = q /\ fragments'[p] = k
  BY <1>3 DEF SamePad
<1>5. On(p)' = On(p)
  BY <1>1, <1>2, <1>3, <1>4 DEF On
<1>6. Out(p)' = Out(p)
  BY <1>3, <1>4, <1>5 DEF Out
<1>7. Alternates(q, p, f)
  BY <1>1, <1>3
<1>8. Alternates(Stream(p), p, p \in finger)'
  BY <1>2, <1>4, <1>7
<1> QED
  BY <1>5, <1>6, <1>8

\* A step that moves nothing past a place.
LEMMA KeepsFollowing ==
    ASSUME NEW s, NEW p, PadFollows(s, p), SamePad(p), Channel(s)' = Channel(s),
           p \in touched'[s] <=> p \in touched[s]
    PROVE  PadFollows(s, p)'
<1>1. Alternates(Stream(p), p, p \in finger)
  BY DEF PadFollows
<1>2. On(p)' = On(p) /\ Alternates(Stream(p), p, p \in finger)'
  BY <1>1, SameOut
<1>3. fragments'[p] = fragments[p]
  BY DEF SamePad
<1> QED
  BY <1>2, <1>3, KeepsBehind

\* Some reports come to the source's way, while what is behind it gives them up.
LEMMA ChannelTakes ==
    ASSUME TInv, NEW s, NEW p, AtSource(s, p), Channel(s) \in Seq(Reports),
           NEW f \in Seq(Reports), Channel(s)' = Channel(s) \o f,
           Out(p) <=> OnBefore(f, p, 1, Out(p)'), Alternates(f, p, Out(p)'),
           p \in touched'[s] <=> p \in touched[s]
    PROVE  AtSource(s, p)'
<1>1. PICK v \in BOOLEAN : v = Out(p)
  BY Booleans
<1>2. PICK w \in BOOLEAN : w = Out(p)'
  BY Booleans
<1>3. PICK a : a = Channel(s)
  OBVIOUS
<1>4. PICK c : c = a \o f
  OBVIOUS
<1>5. a \in Seq(Reports) /\ Channel(s)' = c
  BY <1>3, <1>4
<1>6. Joins(c, a, f)
  BY <1>4, <1>5, ConcatAt
<1>7. v <=> OnBefore(f, p, 1, w)
  BY <1>1, <1>2
<1>8. /\ Alternates(c, p, w) <=> Alternates(a, p, v) /\ Alternates(f, p, w)
      /\ OnBefore(c, p, 1, w) <=> OnBefore(a, p, 1, v)
  BY <1>5, <1>6, <1>7, JoinAlternates
<1>9. Alternates(a, p, v) /\ (p \in touched'[s] <=> OnBefore(a, p, 1, v)) /\ Alternates(f, p, w)
  BY <1>1, <1>2, <1>3 DEF AtSource
<1>10. Alternates(c, p, w) /\ (p \in touched'[s] <=> OnBefore(c, p, 1, w))
  BY <1>8, <1>9
<1> QED
  BY <1>2, <1>5, <1>10 DEF AtSource

\* The first of a queue, and the rest of it.
LEMMA PassJoins ==
    ASSUME NEW S, NEW q \in Seq(S), NEW t \in Seq(S), Len(q) = 1 + Len(t),
           \A i \in 1 .. Len(t) : t[i] = q[1 + i]
    PROVE  Joins(q, << q[1] >>, t)
<1>1. /\ DOMAIN q = 1 .. 1 + Len(t) /\ DOMAIN t = 1 .. Len(t) /\ Len(t) \in Nat
  BY OfSeq
<1>2. PICK a : a = << q[1] >>
  OBVIOUS
<1>3. DOMAIN a = {1} /\ a[1] = q[1] /\ Len(a) = 1
  BY <1>2
<1>4. \A i \in DOMAIN q : FromOne(q, a, t, i)
  <2> SUFFICES ASSUME NEW i \in DOMAIN q PROVE FromOne(q, a, t, i)
    OBVIOUS
  <2>1. CASE i = 1
    BY <1>3, <2>1 DEF FromOne
  <2>2. CASE i # 1
    <3>1. i > 1 /\ i - 1 \in DOMAIN t /\ 1 + (i - 1) = i
      BY <1>1, <2>2
    <3> QED
      BY <1>1, <1>3, <3>1 DEF FromOne
  <2> QED
    BY <2>1, <2>2
<1>5. \A i \in DOMAIN t : 1 + i \in DOMAIN q /\ q[1 + i] = t[i]
  BY <1>1
<1>6. Joins(q, a, t)
  BY <1>1, <1>3, <1>4, <1>5 DEF Joins
<1> QED
  BY <1>2, <1>6

LEMMA WriteFollows ==
    ASSUME TInv, NEW s, NEW p \in Pads, NEW r, Writes(p, r), \A q \in Pads : PadFollows(s, q)
    PROVE  \A q \in Pads : PadFollows(s, q)'
<1>1. /\ r \in Reports /\ r.pad = p /\ Lands(p, r) /\ Reported(p, r)
      /\ UNCHANGED << fragments, eventQueue, toSource, touched >>
  BY DEF Writes, Reported, stateVars
<1>2. Stream(p)' = Append(Stream(p), r) /\ \A q \in Pads : q # p => SamePad(q)
  BY <1>1, WriteStream
<1>3. Channel(s)' = Channel(s)
  BY <1>1 DEF Channel
<1>4. ASSUME NEW q \in Pads, q # p PROVE PadFollows(s, q)'
  BY <1>1, <1>2, <1>3, <1>4, KeepsFollowing
<1>5. PadFollows(s, p)'
  <2>1. PICK a, f : a = Stream(p) /\ f = << r >>
    OBVIOUS
  <2>2. PICK c : c = a \o f
    OBVIOUS
  <2>3. a \in Seq(Reports) /\ f \in Seq(Reports) /\ Stream(p)' = c
    <3>1. a \in Seq(Reports)
      BY <2>1, StreamIs
    <3>2. f \in Seq(Reports)
      BY <1>1, <2>1
    <3>3. Append(a, r) = a \o f
      BY <1>1, <2>1, <3>1
    <3> QED
      BY <1>2, <2>1, <2>2, <3>1, <3>2, <3>3
  <2>4. Joins(c, a, f)
    BY <2>2, <2>3, ConcatAt
  <2>5. PICK v \in BOOLEAN : v <=> p \in finger
    <3>1. p \in finger => (TRUE <=> p \in finger)
      OBVIOUS
    <3>2. p \notin finger => (FALSE <=> p \in finger)
      OBVIOUS
    <3> QED
      BY <3>1, <3>2
  <2>6. PICK w \in BOOLEAN : w <=> p \in finger'
    <3>1. p \in finger' => (TRUE <=> p \in finger')
      OBVIOUS
    <3>2. p \notin finger' => (FALSE <=> p \in finger')
      OBVIOUS
    <3> QED
      BY <3>1, <3>2
  <2>7. (v <=> OnBefore(f, p, 1, w)) /\ Alternates(f, p, w)
    <3>1. /\ OnBefore(f, p, 1, w) <=> Is(r, p, "up") \/ (w /\ ~Is(r, p, "down"))
          /\ Alternates(f, p, w) <=> (Is(r, p, "down") => w) /\ (Is(r, p, "up") => ~w)
      BY <2>1, BeforeOne
    <3> QED
      BY <1>1, <2>5, <2>6, <3>1 DEF Lands, Is
  <2>8. /\ Alternates(c, p, w) <=> Alternates(a, p, v) /\ Alternates(f, p, w)
        /\ OnBefore(c, p, 1, w) <=> OnBefore(a, p, 1, v)
    BY <2>3, <2>4, <2>7, JoinAlternates
  <2>9. Alternates(a, p, v)
    BY <2>1, <2>5 DEF PadFollows
  <2>10. Alternates(Stream(p), p, p \in finger)'
    BY <2>3, <2>6, <2>7, <2>8, <2>9
  <2>11. On(p) <=> OnBefore(a, p, 1, v)
    BY <2>1, <2>5 DEF On
  <2>12. On(p)' <=> OnBefore(c, p, 1, w)
    BY <2>3, <2>6 DEF On
  <2>13. On(p)' = On(p)
    <3>1. PICK x \in BOOLEAN : x = On(p)
      BY Booleans
    <3>2. PICK y \in BOOLEAN : y = On(p)'
      BY Booleans
    <3>3. x = y
      BY <2>8, <2>11, <2>12, <3>1, <3>2
    <3> QED
      BY <3>1, <3>2, <3>3
  <2> QED
    BY <1>1, <1>3, <2>10, <2>13, KeepsBehind
<1> QED
  BY <1>4, <1>5

\* The same, while the source's way takes reports of another pad.
LEMMA OthersTake ==
    ASSUME TInv, NEW s, NEW p, PadFollows(s, p), SamePad(p), Channel(s) \in Seq(Reports),
           NEW f \in Seq(Reports), Channel(s)' = Channel(s) \o f, \A r \in Elements(f) : r.pad # p,
           p \in touched'[s] <=> p \in touched[s]
    PROVE  PadFollows(s, p)'
<1>1. Alternates(Stream(p), p, p \in finger) /\ AtSource(s, p)
  BY DEF PadFollows
<1>2. On(p)' = On(p) /\ Out(p)' = Out(p) /\ Alternates(Stream(p), p, p \in finger)'
  BY <1>1, SameOut
<1>3. PICK w \in BOOLEAN : w = Out(p)'
  BY Booleans
<1>4. (OnBefore(f, p, 1, w) <=> w) /\ Alternates(f, p, w)
  BY BeforeOthers
<1>5. AtSource(s, p)'
  BY <1>1, <1>2, <1>3, <1>4, ChannelTakes
<1>6. PICK k, u : k = fragments[p] /\ u = On(p)
  OBVIOUS
<1>7. fragments'[p] = k /\ On(p)' = u
  BY <1>2, <1>6 DEF SamePad
<1>8. Alternates(k, p, u) /\ \A r \in Elements(k) : r.kind # "up"
  BY <1>6 DEF PadFollows
<1> QED
  BY <1>2, <1>5, <1>7, <1>8 DEF PadFollows

LEMMA CheckFollows ==
    ASSUME TInv, InTurns, CheckShared, NEW s \in Sessions, \A q \in Pads : PadFollows(s, q)
    PROVE  \A q \in Pads : PadFollows(s, q)'
<1>1. UNCHANGED << finger, fragments, toSource, touched >>
  BY DEF CheckShared, userVars, stateVars
<1>2. CASE collector.pad \notin sharedDHIds
  <2>1. UNCHANGED eventQueue /\ \A q \in Pads : SamePad(q)
    BY <1>2, TestStream
  <2>2. Channel(s)' = Channel(s)
    BY <1>1, <2>1 DEF Channel
  <2> QED
    BY <1>1, <2>1, <2>2, KeepsFollowing
<1>3. CASE collector.pad \in sharedDHIds
  <2>1. PICK p, a, b : p = collector.pad /\ a = collector.read /\ b = kernel[p]
    OBVIOUS
  <2>2. /\ p \in Pads /\ fragments[p] = << >> /\ a \in Seq(Reports)
        /\ \A e \in Elements(a) : e.pad = p
        /\ eventQueue = << >> /\ eventQueue' = << a >> /\ Stream(p)' = b /\ b \in Seq(Reports)
        /\ Joins(Stream(p), a, b)
        /\ \A q \in Pads : q # p => SamePad(q)
    BY <1>3, <2>1, PostStream
  <2>3. Channel(s) \in Seq(Reports) /\ Channel(s) = toSource[s]
    BY <2>2, ChannelIs
  <2>4. Channel(s)' = Channel(s) \o a
    <3>1. eventQueue' # << >> /\ Head(eventQueue') = a
      BY <2>2
    <3> QED
      BY <1>1, <2>3, <3>1 DEF Channel
  <2>5. ASSUME NEW q \in Pads, q # p PROVE PadFollows(s, q)'
    BY <1>1, <2>2, <2>3, <2>4, <2>5, OthersTake
  <2>6. PadFollows(s, p)'
    <3>1. PICK c : c = Stream(p)
      OBVIOUS
    <3>2. PICK w \in BOOLEAN : w <=> p \in finger
      <4>1. p \in finger => (TRUE <=> p \in finger)
        OBVIOUS
      <4>2. p \notin finger => (FALSE <=> p \in finger)
        OBVIOUS
      <4> QED
        BY <4>1, <4>2
    <3>3. PICK v \in BOOLEAN : v = On(p)'
      BY Booleans
    <3>4. v <=> OnBefore(b, p, 1, w)
      BY <1>1, <2>2, <3>2, <3>3 DEF On
    <3>5. Joins(c, a, b)
      BY <2>2, <3>1
    <3>6. /\ Alternates(c, p, w) <=> Alternates(a, p, v) /\ Alternates(b, p, w)
          /\ OnBefore(c, p, 1, w) <=> OnBefore(a, p, 1, v)
      BY <2>2, <3>4, <3>5, JoinAlternates
    <3>7. Alternates(c, p, w) /\ (On(p) <=> OnBefore(c, p, 1, w)) /\ AtSource(s, p)
      BY <2>2, <3>1, <3>2 DEF PadFollows, On
    <3>8. Out(p) <=> On(p)
      <4>1. PICK x \in BOOLEAN : x = On(p)
        BY Booleans
      <4> QED
        BY <2>2, <4>1, BeforeNothing DEF Out
    <3>9. PICK y \in BOOLEAN : y = Out(p)'
      BY Booleans
    <3>10. y = v
      <4>1. fragments'[p] = << >>
        BY <1>1, <2>2
      <4>2. y <=> v
        BY <3>3, <3>9, <4>1, BeforeNothing DEF Out
      <4> QED
        BY <4>2
    <3>11. Out(p) <=> OnBefore(a, p, 1, v)
      BY <3>6, <3>7, <3>8
    <3>12. Alternates(a, p, v) /\ Alternates(b, p, w)
      BY <3>6, <3>7
    <3>13. AtSource(s, p)'
      BY <1>1, <2>2, <2>3, <2>4, <3>7, <3>9, <3>10, <3>11, <3>12, ChannelTakes
    <3>14. Alternates(Stream(p), p, p \in finger)'
      BY <1>1, <2>2, <3>2, <3>12
    <3>15. Alternates(<< >>, p, v) /\ Elements(<< >>) = {}
      BY BeforeNothing, OfNothing
    <3> QED
      BY <1>1, <2>2, <3>3, <3>13, <3>14, <3>15 DEF PadFollows
  <2> QED
    BY <2>5, <2>6
<1> QED
  BY <1>2, <1>3

\* What is under way stays, and so does what is behind it.
LEMMA ChannelStays ==
    ASSUME NEW s, NEW p, AtSource(s, p), Out(p)' = Out(p), Channel(s)' = Channel(s),
           p \in touched'[s] <=> p \in touched[s]
    PROVE  AtSource(s, p)'
<1>1. PICK c, v : c = Channel(s) /\ v = Out(p)
  OBVIOUS
<1>2. Channel(s)' = c /\ Out(p)' = v
  BY <1>1
<1>3. Alternates(c, p, v) /\ (p \in touched[s] <=> OnBefore(c, p, 1, v))
  BY <1>1 DEF AtSource
<1> QED
  BY <1>2, <1>3 DEF AtSource

\* The first report of a stream goes by: it is recorded, or forgotten.
LEMMA RecordedReport ==
    ASSUME TInv, NEW s, NEW p, NEW r, NEW k, RecordsReport(p, r, k), PadFollows(s, p),
           NEW v \in BOOLEAN, v = On(p)'
    PROVE  /\ Alternates(Stream(p), p, p \in finger)'
           /\ r.kind = "up" => ~v
           /\ r.kind \notin {"up", "down"} => On(p)' = On(p)
           /\ Alternates(k, p, v) /\ (Out(p) <=> OnBefore(k, p, 1, v))
<1>1. p \in Pads /\ r \in Reports /\ r.pad = p /\ k = Append(fragments[p], r) /\ UNCHANGED finger
  BY DEF RecordsReport, userVars
<1>2. PICK q, t, f : q = Stream(p) /\ t = Stream(p)' /\ f = << r >>
  OBVIOUS
<1>3. /\ q \in Seq(Reports) /\ t \in Seq(Reports) /\ Len(q) = 1 + Len(t) /\ q[1] = r
      /\ \A i \in 1 .. Len(t) : t[i] = q[1 + i]
  <2>1. Passes(p, 1) /\ q[1] = r
    BY <1>2, RecordPasses
  <2>2. q \in Seq(Reports)
    BY <1>1, <1>2, StreamIs
  <2> QED
    BY <1>2, <2>1, <2>2 DEF Passes
<1>4. Joins(q, f, t) /\ f \in Seq(Reports)
  <2>1. Joins(q, << q[1] >>, t)
    BY <1>3, PassJoins
  <2> QED
    BY <1>1, <1>2, <1>3, <2>1
<1>5. PICK w \in BOOLEAN : w <=> p \in finger
  <2>1. p \in finger => (TRUE <=> p \in finger)
    OBVIOUS
  <2>2. p \notin finger => (FALSE <=> p \in finger)
    OBVIOUS
  <2> QED
    BY <2>1, <2>2
<1>6. v <=> OnBefore(t, p, 1, w)
  BY <1>1, <1>2, <1>5 DEF On
<1>7. /\ Alternates(q, p, w) <=> Alternates(f, p, v) /\ Alternates(t, p, w)
      /\ OnBefore(q, p, 1, w) <=> OnBefore(f, p, 1, v)
  BY <1>3, <1>4, <1>6, JoinAlternates
<1>8. PICK x \in BOOLEAN : x = On(p)
  BY Booleans
<1>9. Alternates(q, p, w) /\ (x <=> OnBefore(q, p, 1, w))
  BY <1>2, <1>5, <1>8 DEF PadFollows, On
<1>10. Alternates(Stream(p), p, p \in finger)'
  BY <1>1, <1>2, <1>5, <1>7, <1>9
<1>11. /\ OnBefore(f, p, 1, v) <=> Is(r, p, "up") \/ (v /\ ~Is(r, p, "down"))
       /\ Alternates(f, p, v) <=> (Is(r, p, "down") => v) /\ (Is(r, p, "up") => ~v)
  BY <1>2, BeforeOne
<1>12. /\ r.kind = "up" => ~v
       /\ r.kind \notin {"up", "down"} => x = v
       /\ x <=> OnBefore(f, p, 1, v)
       /\ Alternates(f, p, v)
  BY <1>1, <1>7, <1>9, <1>11 DEF Is
<1>13. PICK a, c : a = fragments[p] /\ c = a \o f
  OBVIOUS
<1>14. a \in Seq(Reports) /\ k = c
  BY <1>1, <1>2, <1>13, Typed
<1>15. Joins(c, a, f)
  BY <1>4, <1>13, <1>14, ConcatAt
<1>16. /\ Alternates(c, p, v) <=> Alternates(a, p, x) /\ Alternates(f, p, v)
       /\ OnBefore(c, p, 1, v) <=> OnBefore(a, p, 1, x)
  BY <1>4, <1>12, <1>14, <1>15, JoinAlternates
<1>17. Alternates(a, p, x) /\ (Out(p) <=> OnBefore(a, p, 1, x))
  BY <1>8, <1>13 DEF PadFollows, Out
<1> QED
  BY <1>8, <1>10, <1>12, <1>14, <1>16, <1>17

\* A begin of a touch is before every other report of it.
LEMMA BeginFirst ==
    ASSUME NEW S, NEW k \in Seq(S), k # << >>, NEW p, NEW w \in BOOLEAN, Is(k[1], p, "down")
    PROVE  ~OnBefore(k, p, 1, w)
<1>1. 1 \in DOMAIN k /\ \A j \in DOMAIN k : j \in Nat /\ j >= 1
  BY OfSeq
<1>2. ~Is(k[1], p, "up")
  BY DEF Is
<1>3. ASSUME NEW j \in DOMAIN k, Is(k[j], p, "up") PROVE 1 < j
  <2>1. j # 1
    BY <1>2, <1>3
  <2> QED
    BY <1>1, <2>1
<1>4. ASSUME NEW j \in DOMAIN k, j >= 1, Is(k[j], p, "up"),
             \A i \in DOMAIN k : 1 <= i /\ i < j => ~Is(k[i], p, "down")
      PROVE  FALSE
  BY <1>1, <1>3, <1>4
<1>5. ~(\A j \in DOMAIN k : j >= 1 => ~Is(k[j], p, "down"))
  BY <1>1
<1> QED
  BY <1>4, <1>5 DEF OnBefore

LEMMA RecordFollows ==
    ASSUME TInv, InTurns, NEW p, NEW r, NEW k, RecordsReport(p, r, k),
           NEW s, Sessions = {s}, Known(s), \A q \in Pads : PadFollows(s, q)
    PROVE  /\ \A q \in Pads : PadFollows(s, q)'
           /\ lastSessionId = 0 => Channel(s)' = Channel(s)
<1>1. /\ p \in Pads /\ r \in Reports /\ r.pad = p /\ k \in Seq(Reports)
      /\ collector # Idle /\ UNCHANGED << eventQueue, touched >>
  BY DEF RecordsReport
<1>2. eventQueue = << >> /\ eventQueue' = << >>
  BY <1>1 DEF InTurns
<1>3. /\ Channel(s) \in Seq(Reports) /\ Channel(s) = toSource[s] /\ toSource[s] \in Seq(Reports)
  BY <1>2, ChannelIs
<1>4. /\ Elements(k) = Elements(fragments[p]) \cup {r} /\ k # << >> /\ \A e \in Elements(k) : e.pad = p
  BY KeptWith
<1>5. toSource' = toSource => Channel(s)' = Channel(s)
  BY <1>1 DEF Channel
<1>6. SendKeyStateNodeMsgBatch(lastSessionId, k) =>
          Channel(s)' = IF lastSessionId = s THEN Channel(s) \o k ELSE Channel(s)
  <2> SUFFICES ASSUME SendKeyStateNodeMsgBatch(lastSessionId, k)
               PROVE  Channel(s)' = IF lastSessionId = s THEN Channel(s) \o k ELSE Channel(s)
    OBVIOUS
  <2>1. toSource' \in [Sessions -> Seq(Reports)] /\ toSource'[s] = IF s = lastSessionId THEN toSource[s] \o k ELSE toSource[s]
    BY <1>1, Sends
  <2>2. toSource'[s] \in Seq(Reports)
    BY <2>1
  <2>3. Channel(s)' = toSource'[s]
    BY <1>2, <2>2, OfNothing DEF Channel
  <2> QED
    BY <1>3, <2>1, <2>3
<1>7. Channel(s)' = Channel(s) \/ Channel(s)' = Channel(s) \o k
  BY <1>5, <1>6 DEF RecordsReport
<1>8. ASSUME NEW q \in Pads, q # p PROVE PadFollows(s, q)'
  <2>1. SamePad(q)
    BY <1>8, RecordOthers
  <2>2. \A e \in Elements(k) : e.pad # q
    BY <1>4, <1>8
  <2>3. CASE Channel(s)' = Channel(s)
    BY <1>1, <2>1, <2>3, KeepsFollowing
  <2>4. CASE Channel(s)' = Channel(s) \o k
    BY <1>1, <1>3, <2>1, <2>2, <2>4, OthersTake
  <2> QED
    BY <1>7, <2>3, <2>4
<1>9. PICK v \in BOOLEAN : v = On(p)'
  BY Booleans
<1>10. PICK y \in BOOLEAN : y = Out(p)
  BY Booleans
<1>11. /\ Alternates(Stream(p), p, p \in finger)'
       /\ r.kind = "up" => ~v
       /\ r.kind \notin {"up", "down"} => On(p)' = On(p)
       /\ Alternates(k, p, v) /\ (Out(p) <=> OnBefore(k, p, 1, v))
  BY <1>1, <1>9, RecordedReport
<1>12. Alternates(Stream(p), p, p \in finger)'
  BY <1>11
<1>13. AtSource(s, p) /\ \A e \in Elements(fragments[p]) : e.kind # "up"
  BY <1>1 DEF PadFollows
<1>14. ASSUME r.kind = "up" /\ fragments' = [fragments EXCEPT ![p] = << >>]
       PROVE  PadFollows(s, p)'
  <2>1. fragments'[p] = << >>
    BY <1>1, <1>14, Typed
  <2>2. Out(p)' = v
    <3>1. PICK z \in BOOLEAN : z = Out(p)'
      BY Booleans
    <3>2. z <=> v
      BY <1>9, <2>1, <3>1, BeforeNothing DEF Out
    <3> QED
      BY <3>1, <3>2
  <2>3. ~v
    BY <1>11, <1>14
  <2>4. AtSource(s, p)'
    <3>1. ASSUME ~y, Channel(s)' = Channel(s) PROVE AtSource(s, p)'
      <4>1. y = v
        BY <2>3, <3>1
      <4>2. Out(p)' = Out(p)
        BY <1>10, <2>2, <4>1
      <4> QED
        BY <1>1, <1>13, <3>1, <4>2, ChannelStays
    <3>2. CASE k[1].kind = "down" /\ UNCHANGED toSource
      <4>1. 1 \in DOMAIN k
        BY <1>1, <1>4, OfSeq
      <4>2. k[1] \in Elements(k)
        BY <4>1, Zenon DEF Elements
      <4>3. Is(k[1], p, "down")
        BY <1>4, <3>2, <4>2 DEF Is
      <4>4. ~OnBefore(k, p, 1, v)
        BY <1>1, <1>4, <4>3, BeginFirst
      <4> QED
        BY <1>5, <1>10, <1>11, <3>1, <3>2, <4>4
    <3>3. CASE k[1].kind # "down" /\ SendKeyStateNodeMsgBatch(lastSessionId, k) /\ lastSessionId = s
      <4>1. Channel(s)' = Channel(s) \o k
        BY <1>6, <3>3
      <4> QED
        BY <1>1, <1>3, <1>11, <1>13, <2>2, <4>1, ChannelTakes
    <3>4. CASE k[1].kind # "down" /\ SendKeyStateNodeMsgBatch(lastSessionId, k) /\ lastSessionId # s
      <4>1. Channel(s)' = Channel(s)
        BY <1>6, <3>4
      <4>2. Channel(s) = << >> /\ touched[s] = {}
        BY <3>4 DEF Known
      <4>3. y <=> OnBefore(<< >>, p, 1, y)
        BY BeforeNothing
      <4>4. ~OnBefore(<< >>, p, 1, y)
        BY <1>10, <1>13, <4>2 DEF AtSource
      <4> QED
        BY <3>1, <4>1, <4>3, <4>4
    <3> QED
      BY <1>14, <3>2, <3>3, <3>4 DEF RecordsReport
  <2>5. Alternates(<< >>, p, v) /\ Elements(<< >>) = {}
    BY BeforeNothing, OfNothing
  <2>6. Alternates(fragments[p], p, On(p))'
    BY <1>9, <2>1, <2>5
  <2> QED
    BY <1>12, <2>1, <2>4, <2>5, <2>6 DEF PadFollows
<1>15. ASSUME r.kind # "up" /\ fragments' = [fragments EXCEPT ![p] = k] /\ UNCHANGED toSource
       PROVE  PadFollows(s, p)'
  <2>1. fragments'[p] = k
    BY <1>1, <1>15, Typed
  <2>2. Out(p)' <=> OnBefore(k, p, 1, v)
    BY <1>9, <2>1 DEF Out
  <2>3. Out(p)' = Out(p)
    <3>1. PICK z \in BOOLEAN : z = Out(p)'
      BY Booleans
    <3>2. z = y
      BY <1>10, <1>11, <2>2, <3>1
    <3> QED
      BY <1>10, <3>1, <3>2
  <2>4. AtSource(s, p)'
    BY <1>1, <1>5, <1>13, <1>15, <2>3, ChannelStays
  <2>5. \A e \in Elements(k) : e.kind # "up"
    BY <1>4, <1>13, <1>15
  <2>6. Alternates(fragments[p], p, On(p))'
    BY <1>9, <1>11, <2>1
  <2> QED
    BY <1>12, <2>1, <2>4, <2>5, <2>6 DEF PadFollows
<1>16. ASSUME r.kind # "up" /\ r.kind # "down" /\ UNCHANGED << fragments, toSource >>
       PROVE  PadFollows(s, p)'
  <2>1. On(p)' = On(p)
    BY <1>11, <1>16
  <2>2. fragments'[p] = fragments[p] /\ Channel(s)' = Channel(s) /\ touched' = touched
    BY <1>1, <1>5, <1>16
  <2>3. PadFollows(s, p)
    BY <1>1
  <2> QED
    BY <1>12, <2>1, <2>2, <2>3, KeepsBehind
<1>17. PadFollows(s, p)'
  BY <1>14, <1>15, <1>16 DEF RecordsReport
<1>18. lastSessionId = 0 => Channel(s)' = Channel(s)
  <2>1. s # 0
    BY TouchPadAssumption
  <2> QED
    BY <1>5, <1>6, <2>1 DEF RecordsReport
<1> QED
  BY <1>8, <1>17, <1>18

LEMMA StartFollows ==
    ASSUME Overlap = FALSE, TInv, InTurns, StartRecordDhIds,
           NEW s, Sessions = {s}, \A q \in Pads : PadFollows(s, q)
    PROVE  \A q \in Pads : PadFollows(s, q)'
<1>1. PICK h : h = handler'
  OBVIOUS
<1>2. /\ collector = Idle /\ eventQueue = << >>
      /\ UNCHANGED << finger, kernel, touch, collector, eventQueue >>
      /\ h \in Requests
      /\ \/ h.dhId \in Pads /\ Replays(h.dhId)
         \/ h.dhId \notin Pads /\ UNCHANGED << toSource, fragments >>
  BY <1>1, Starts
<1>3. touched' = touched
  BY DEF StartRecordDhIds
<1>4. h.session = s
  BY <1>2, RequestIs
<1>5. Channel(s) \in Seq(Reports) /\ Channel(s) = toSource[s]
  BY <1>2, ChannelIs
<1>6. CASE h.dhId \notin Pads /\ UNCHANGED << toSource, fragments >>
  <2>1. (\A q \in Pads : SamePad(q)) /\ Channel(s)' = Channel(s)
    BY <1>2, <1>6 DEF SamePad, Stream, Channel
  <2> QED
    BY <1>3, <2>1, KeepsFollowing
<1>7. CASE h.dhId \in Pads /\ Replays(h.dhId)
  <2>1. PICK d, f : d = h.dhId /\ f = fragments[d]
    OBVIOUS
  <2>2. d \in Pads /\ f \in Seq(Reports) /\ \A e \in Elements(f) : e.pad = d
    BY <1>7, <2>1, Typed DEF TInv
  <2>3. SendKeyStateNodeMsgBatch(s, f) /\ fragments' = [fragments EXCEPT ![d] = << >>]
    BY <1>1, <1>4, <1>7, <2>1 DEF Replays
  <2>4. Channel(s)' = Channel(s) \o f
    <3>1. toSource' \in [Sessions -> Seq(Reports)] /\ toSource'[s] = toSource[s] \o f
      BY <2>2, <2>3, Sends
    <3>2. toSource'[s] \in Seq(Reports)
      BY <3>1
    <3>3. Channel(s)' = toSource'[s]
      BY <1>2, <3>2, OfNothing DEF Channel
    <3> QED
      BY <1>5, <3>1, <3>3
  <2>5. \A q \in Pads : Stream(q)' = Stream(q)
    BY <1>2 DEF Stream
  <2>6. \A q \in Pads : fragments'[q] = IF q = d THEN << >> ELSE fragments[q]
    BY <2>2, <2>3, Typed
  <2>7. ASSUME NEW q \in Pads, q # d PROVE PadFollows(s, q)'
    <3>1. SamePad(q)
      BY <1>2, <2>5, <2>6, <2>7 DEF SamePad
    <3>2. \A e \in Elements(f) : e.pad # q
      BY <2>2, <2>7
    <3> QED
      BY <1>3, <1>5, <2>2, <2>4, <3>1, <3>2, OthersTake
  <2>8. PadFollows(s, d)'
    <3>1. /\ Alternates(Stream(d), d, d \in finger) /\ Alternates(f, d, On(d)) /\ AtSource(s, d)
          /\ (Out(d) <=> OnBefore(f, d, 1, On(d)))
      BY <2>1, <2>2 DEF PadFollows, Out
    <3>2. PICK c : c = Stream(d)
      OBVIOUS
    <3>3. Stream(d)' = c /\ finger' = finger /\ fragments'[d] = << >>
      BY <1>2, <2>2, <2>5, <2>6, <3>2
    <3>4. Alternates(Stream(d), d, d \in finger)'
      BY <3>1, <3>2, <3>3
    <3>5. On(d)' = On(d)
      BY <3>2, <3>3 DEF On
    <3>6. PICK v \in BOOLEAN : v = On(d)
      BY Booleans
    <3>7. PICK z \in BOOLEAN : z = Out(d)'
      BY Booleans
    <3>8. z = v
      <4>1. z <=> v
        BY <3>3, <3>5, <3>6, <3>7, BeforeNothing DEF Out
      <4> QED
        BY <4>1
    <3>9. (Out(d) <=> OnBefore(f, d, 1, Out(d)')) /\ Alternates(f, d, Out(d)')
      BY <3>1, <3>6, <3>7, <3>8
    <3>10. AtSource(s, d)'
      BY <1>3, <1>5, <2>2, <2>4, <3>1, <3>9, ChannelTakes
    <3>11. Alternates(<< >>, d, v) /\ Elements(<< >>) = {}
      BY BeforeNothing, OfNothing
    <3>12. Alternates(fragments[d], d, On(d))'
      BY <3>3, <3>5, <3>6, <3>11
    <3> QED
      BY <3>3, <3>4, <3>10, <3>11, <3>12 DEF PadFollows
  <2> QED
    BY <2>7, <2>8
<1> QED
  BY <1>2, <1>6, <1>7

LEMMA SendFollows ==
    ASSUME TInv, InTurns, SendEvents, NEW s \in Sessions, Known(s), \A q \in Pads : PadFollows(s, q)
    PROVE  (\A q \in Pads : PadFollows(s, q)') /\ Channel(s)' = Channel(s) /\ eventQueue' = << >>
<1>1. /\ eventQueue # << >> /\ eventQueue' = Tail(eventQueue)
      /\ toSource' = [t \in Sessions |-> IF t = openSession THEN toSource[t] \o Head(eventQueue) ELSE toSource[t]]
      /\ UNCHANGED << finger, kernel, touch, collector, fragments, touched >>
  BY DEF SendEvents, userVars, stateVars
<1>2. eventQueue' = << >> /\ Head(eventQueue) \in Seq(Reports)
  BY <1>1, PostedIs
<1>3. openSession = s
  BY <1>1 DEF Known
<1>4. Channel(s) = toSource[s] \o Head(eventQueue) /\ Channel(s) \in Seq(Reports)
  BY <1>1, ChannelIs
<1>5. toSource'[s] = Channel(s)
  BY <1>1, <1>3, <1>4
<1>6. Channel(s)' = Channel(s)
  BY <1>2, <1>4, <1>5, OfNothing DEF Channel
<1>7. \A q \in Pads : SamePad(q)
  BY <1>1 DEF SamePad, Stream
<1> QED
  BY <1>1, <1>2, <1>6, <1>7, KeepsFollowing

LEMMA InjectFollows ==
    ASSUME TInv, InTurns, NEW s \in Sessions, InjectInputEvent(s), \A q \in Pads : PadFollows(s, q)
    PROVE  (\A q \in Pads : PadFollows(s, q)') /\ Channel(s) # << >>
<1>1. PICK a, b, r : /\ a = toSource[s] /\ b = (IF eventQueue = << >> THEN << >> ELSE Head(eventQueue))
                     /\ r = Head(toSource[s])
  OBVIOUS
<1>2. /\ a # << >> /\ toSource' = [toSource EXCEPT ![s] = Tail(a)]
      /\ touched' = [touched EXCEPT ![s] = CASE r.kind = "down" -> touched[s] \cup {r.pad}
                                             [] r.kind = "up"   -> touched[s] \ {r.pad}
                                             [] OTHER           -> touched[s]]
      /\ UNCHANGED << finger, kernel, touch, collector, fragments, eventQueue >>
  BY <1>1 DEF InjectInputEvent, userVars, stateVars
<1>3. a \in Seq(Reports) /\ b \in Seq(Reports)
  BY <1>1, Typed, PostedIs, OfNothing
<1>4. PICK c, t : c = a \o b /\ t = Tail(a) \o b
  OBVIOUS
<1>5. toSource'[s] = Tail(a)
  BY <1>2, Typed
<1>6. Channel(s) = c /\ Channel(s)' = t
  BY <1>1, <1>2, <1>4, <1>5 DEF Channel
<1>7. /\ t \in Seq(Reports) /\ Len(c) = 1 + Len(t)
      /\ \A i \in 1 .. Len(t) : t[i] = c[1 + i]
      /\ c[1] = r
  <2>1. r = Head(a) /\ a # << >>
    BY <1>1, <1>2
  <2>2. /\ Tail(a) \o b \in Seq(Reports) /\ Len(a \o b) = 1 + Len(Tail(a) \o b)
        /\ \A i \in 1 .. Len(Tail(a) \o b) : (Tail(a) \o b)[i] = (a \o b)[1 + i]
        /\ (a \o b)[1] = Head(a)
    BY <1>3, <2>1, TailJoins
  <2> QED
    BY <1>4, <2>1, <2>2
<1>8. c \in Seq(Reports)
  BY <1>3, <1>4, Concatenated
<1>9. PICK f : f = << r >>
  OBVIOUS
<1>10. r \in Reports /\ f \in Seq(Reports)
  <2>1. r \in Reports
    BY <1>1, <1>2, <1>3, OfTail
  <2> QED
    BY <1>9, <2>1
<1>11. Joins(c, f, t)
  <2>1. Joins(c, << c[1] >>, t)
    BY <1>7, <1>8, PassJoins
  <2> QED
    BY <1>7, <1>9, <2>1
<1>12. c # << >>
  <2>1. Len(t) \in Nat /\ Len(c) > 0
    BY <1>7, OfSeq
  <2> QED
    BY <1>8, <2>1, OfSeq
<1>13. touched \in [Sessions -> SUBSET Pads] /\ r.pad \in Pads
  BY <1>10 DEF TInv, TypeOK, Reports
<1>14. ASSUME NEW p \in Pads PROVE PadFollows(s, p)'
  <2>1. SamePad(p) /\ PadFollows(s, p)
    BY <1>2, <1>14 DEF SamePad, Stream
  <2>2. /\ Alternates(Stream(p), p, p \in finger) /\ Alternates(fragments[p], p, On(p))
        /\ AtSource(s, p) /\ \A e \in Elements(fragments[p]) : e.kind # "up"
    BY <2>1 DEF PadFollows
  <2>3. On(p)' = On(p) /\ Out(p)' = Out(p) /\ Alternates(Stream(p), p, p \in finger)'
    BY <2>1, <2>2, SameOut
  <2>4. PICK w \in BOOLEAN : w = Out(p)
    BY Booleans
  <2>5. OnBefore(t, p, 1, w) \in BOOLEAN
    BY DEF OnBefore
  <2>6. PICK v \in BOOLEAN : v = OnBefore(t, p, 1, w)
    BY <2>5
  <2>7. /\ Alternates(c, p, w) <=> Alternates(f, p, v) /\ Alternates(t, p, w)
        /\ OnBefore(c, p, 1, w) <=> OnBefore(f, p, 1, v)
    BY <1>7, <1>10, <1>11, <2>6, JoinAlternates
  <2>8. /\ OnBefore(f, p, 1, v) <=> Is(r, p, "up") \/ (v /\ ~Is(r, p, "down"))
        /\ Alternates(f, p, v) <=> (Is(r, p, "down") => v) /\ (Is(r, p, "up") => ~v)
    BY <1>9, BeforeOne
  <2>9. Alternates(c, p, w) /\ (p \in touched[s] <=> OnBefore(c, p, 1, w))
    BY <1>6, <2>2, <2>4 DEF AtSource
  <2>10. /\ Is(r, p, "down") => p \in touched'[s]
         /\ Is(r, p, "up") => p \notin touched'[s]
         /\ ~Is(r, p, "down") /\ ~Is(r, p, "up") => (p \in touched'[s] <=> p \in touched[s])
    BY <1>2, <1>13 DEF Is
  <2>11. (p \in touched'[s] <=> v) /\ Alternates(t, p, w)
    <3>1. p \in touched[s] <=> Is(r, p, "up") \/ (v /\ ~Is(r, p, "down"))
      BY <2>7, <2>8, <2>9
    <3>2. (Is(r, p, "down") => v) /\ (Is(r, p, "up") => ~v) /\ Alternates(t, p, w)
      BY <2>7, <2>8, <2>9
    <3> QED
      BY <2>10, <3>1, <3>2
  <2>12. AtSource(s, p)'
    BY <1>6, <2>3, <2>4, <2>6, <2>11 DEF AtSource
  <2>13. PICK k, u : k = fragments[p] /\ u = On(p)
    OBVIOUS
  <2>14. fragments'[p] = k /\ On(p)' = u
    BY <2>1, <2>3, <2>13 DEF SamePad
  <2>15. Alternates(k, p, u) /\ \A e \in Elements(k) : e.kind # "up"
    BY <2>2, <2>13
  <2> QED
    BY <2>3, <2>12, <2>14, <2>15 DEF PadFollows
<1> QED
  BY <1>6, <1>12, <1>14

\* A step that leaves the session, its switch and the devices.
LEMMA KnownStays ==
    ASSUME NEW s, Known(s),
           UNCHANGED << lastSessionId, openSession, sharedDHIds, handler, touched >>,
           eventQueue' \in {eventQueue, << >>}, lastSessionId = 0 => Channel(s)' = Channel(s)
    PROVE  Known(s)'
BY DEF Known

LEMMA RequestsFollow ==
    ASSUME Overlap = FALSE, TInv, InTurns, NEW s, Sessions = {s}, SourceInv(s),
           StartSetSharing \/ StopSetSharing \/ StopRecordDhIds
    PROVE  SourceInv(s)'
<1>1. UNCHANGED << finger, kernel, touch, collector, fragments, toSource, eventQueue, touched >>
  BY DEF StartSetSharing, StopSetSharing, StopRecordDhIds, userVars, stateVars
<1>2. (\A q \in Pads : SamePad(q)) /\ Channel(s)' = Channel(s)
  BY <1>1 DEF SamePad, Stream, Channel
<1>3. \A q \in Pads : PadFollows(s, q)'
  BY <1>1, <1>2, KeepsFollowing DEF SourceInv
<1>4. Known(s) /\ NoRequest.cmd = "none"
  BY DEF SourceInv, NoRequest
<1>5. ASSUME StartSetSharing PROVE Known(s)'
  <2>1. /\ handler.cmd = "start" /\ handler' = NoRequest /\ UNCHANGED << lastSessionId, openSession >>
    BY <1>5 DEF StartSetSharing, Done, stateVars
  <2>2. eventQueue = << >> /\ lastSessionId # 0 /\ openSession = s
    BY <1>4, <2>1 DEF Known
  <2> QED
    BY <1>1, <1>4, <2>1, <2>2 DEF Known
<1>6. ASSUME StopSetSharing PROVE Known(s)'
  <2>1. /\ eventQueue = << >> /\ handler'.cmd = "stop" /\ sharedDHIds' \subseteq sharedDHIds
        /\ UNCHANGED << lastSessionId, openSession >>
    BY <1>6, Takes, Waits DEF StopSetSharing, stateVars
  <2> QED
    BY <1>1, <1>2, <1>4, <2>1 DEF Known
<1>7. ASSUME StopRecordDhIds PROVE Known(s)'
  <2>1. /\ handler.cmd = "stop" /\ handler' = NoRequest /\ lastSessionId' = handler.session
        /\ openSession' = IF sharedDHIds = {} THEN 0 ELSE openSession
        /\ UNCHANGED sharedDHIds
    BY <1>7 DEF StopRecordDhIds, Done
  <2>2. handler # NoRequest
    BY <1>4, <2>1
  <2>3. handler.session = s /\ s # 0
    BY <2>2, Handling, RequestIs, TouchPadAssumption
  <2>4. eventQueue = << >>
    BY <1>4, <2>2 DEF Known
  <2> QED
    BY <1>1, <1>4, <2>1, <2>3, <2>4 DEF Known
<1> QED
  BY <1>3, <1>5, <1>6, <1>7 DEF SourceInv

LEMMA NextFollows ==
    ASSUME Overlap = FALSE, TInv, InTurns, NEW s, Sessions = {s}, SourceInv(s), [Next]_vars
    PROVE  SourceInv(s)'
<1>0. Known(s) /\ (\A q \in Pads : PadFollows(s, q)) /\ s \in Sessions /\ s # 0
  BY TouchPadAssumption DEF SourceInv
<1>1. ASSUME NEW p \in Pads, Touch(p) \/ Move(p) \/ Lift(p) \/ Click(p) PROVE SourceInv(s)'
  <2>1. PICK r : Writes(p, r)
    BY <1>1, UserWrites
  <2>2. UNCHANGED << lastSessionId, openSession, sharedDHIds, handler, eventQueue, toSource, touched >>
    BY <2>1 DEF Writes, Reported, stateVars
  <2>3. Known(s)'
    BY <1>0, <2>2, KnownStays DEF Channel
  <2> QED
    BY <1>0, <2>1, <2>3, WriteFollows DEF SourceInv
<1>2. ASSUME NEW p \in Pads, ReadEvents(p) PROVE SourceInv(s)'
  <2>1. UNCHANGED << lastSessionId, openSession, sharedDHIds, handler, eventQueue, toSource, touched >>
    BY <1>2 DEF ReadEvents, stateVars
  <2>2. Channel(s)' = Channel(s) /\ \A q \in Pads : SamePad(q)
    BY <1>2, <2>1, ReadStream DEF Channel
  <2>3. Known(s)'
    BY <1>0, <2>1, <2>2, KnownStays
  <2> QED
    BY <1>0, <2>1, <2>2, <2>3, KeepsFollowing DEF SourceInv
<1>3. CASE CheckShared
  <2>1. UNCHANGED << lastSessionId, openSession, sharedDHIds, handler, toSource, touched >>
    BY <1>3 DEF CheckShared, stateVars
  <2>2. CASE collector.pad \notin sharedDHIds
    <3>1. UNCHANGED eventQueue
      BY <1>3, <2>2, TestStream
    <3>2. Known(s)'
      BY <1>0, <2>1, <3>1, KnownStays DEF Channel
    <3> QED
      BY <1>0, <1>3, <3>2, CheckFollows DEF SourceInv
  <2>3. CASE collector.pad \in sharedDHIds
    <3>1. handler = NoRequest
      BY <1>3, <2>3, PostStream
    <3>2. lastSessionId # 0 /\ openSession = s
      BY <1>0, <2>3 DEF Known
    <3>3. Known(s)'
      BY <1>0, <2>1, <3>1, <3>2 DEF Known
    <3> QED
      BY <1>0, <1>3, <3>3, CheckFollows DEF SourceInv
  <2> QED
    BY <2>2, <2>3
<1>4. CASE RecordDeviceChangeStates
  <2>1. PICK p, r, k : RecordsReport(p, r, k)
    BY <1>4, Records
  <2>2. UNCHANGED << lastSessionId, openSession, sharedDHIds, handler, eventQueue, touched >>
    BY <2>1 DEF RecordsReport
  <2>3. (\A q \in Pads : PadFollows(s, q)') /\ (lastSessionId = 0 => Channel(s)' = Channel(s))
    BY <1>0, <2>1, RecordFollows
  <2>4. Known(s)'
    BY <1>0, <2>2, <2>3, KnownStays
  <2> QED
    BY <2>3, <2>4 DEF SourceInv
<1>5. CASE StartRecordDhIds
  <2>1. /\ eventQueue = << >> /\ eventQueue' = << >> /\ handler' \in Requests
    BY <1>5, Starts
  <2>2. handler'.session = s
    BY <2>1, RequestIs
  <2>3. lastSessionId' = s /\ openSession' = s
    BY <1>5, <2>2, Takes DEF StartRecordDhIds
  <2>4. Known(s)'
    BY <1>0, <2>1, <2>3 DEF Known
  <2> QED
    BY <1>0, <1>5, <2>4, StartFollows DEF SourceInv
<1>6. CASE StartSetSharing \/ StopSetSharing \/ StopRecordDhIds
  BY <1>6, RequestsFollow
<1>7. CASE SendEvents
  <2>1. UNCHANGED << lastSessionId, openSession, sharedDHIds, handler, touched >>
    BY <1>7 DEF SendEvents, stateVars
  <2>2. (\A q \in Pads : PadFollows(s, q)') /\ Channel(s)' = Channel(s) /\ eventQueue' = << >>
    BY <1>0, <1>7, SendFollows
  <2>3. Known(s)'
    BY <1>0, <2>1, <2>2, KnownStays
  <2> QED
    BY <2>2, <2>3 DEF SourceInv
<1>8. ASSUME NEW u \in Sessions, InjectInputEvent(u) PROVE SourceInv(s)'
  <2>1. u = s
    OBVIOUS
  <2>2. UNCHANGED << lastSessionId, openSession, sharedDHIds, handler, eventQueue >>
    BY <1>8 DEF InjectInputEvent, stateVars
  <2>3. (\A q \in Pads : PadFollows(s, q)') /\ Channel(s) # << >>
    BY <1>0, <1>8, <2>1, InjectFollows
  <2>4. lastSessionId # 0
    BY <1>0, <2>3 DEF Known
  <2>5. Known(s)'
    BY <1>0, <2>2, <2>4 DEF Known
  <2> QED
    BY <2>3, <2>5 DEF SourceInv
<1>9. ASSUME \/ UNCHANGED vars
             \/ \E d \in DhIds : StopRemoteInput(d) \/ \E u \in Sessions : StartRemoteInput(u, d)
      PROVE  SourceInv(s)'
  <2>1. UNCHANGED << finger, kernel, touch, collector, fragments, toSource, eventQueue, touched,
                     lastSessionId, openSession, sharedDHIds, handler >>
    BY <1>9 DEF StopRemoteInput, StartRemoteInput, Ask, vars, userVars, stateVars
  <2>2. (\A q \in Pads : SamePad(q)) /\ Channel(s)' = Channel(s)
    BY <2>1 DEF SamePad, Stream, Channel
  <2>3. Known(s)'
    BY <1>0, <2>1, <2>2, KnownStays
  <2> QED
    BY <1>0, <2>1, <2>2, <2>3, KeepsFollowing DEF SourceInv
<1> QED
  BY <1>1, <1>2, <1>3, <1>4, <1>5, <1>6, <1>7, <1>8, <1>9 DEF Next

LEMMA InitFollows ==
    ASSUME NEW s, Sessions = {s}, Init
    PROVE  SourceInv(s)
<1>1. /\ eventQueue = << >> /\ collector.read = << >> /\ sharedDHIds = {} /\ finger = {}
      /\ lastSessionId = 0 /\ handler = NoRequest /\ handler.cmd = "none"
      /\ toSource[s] = << >> /\ touched[s] = {}
      /\ \A p \in Pads : fragments[p] = << >> /\ kernel[p] = << >>
  BY DEF Init, Idle, NoRequest
<1>2. << >> \o << >> = << >>
  OBVIOUS
<1>3. Channel(s) = << >>
  BY <1>1, <1>2 DEF Channel
<1>4. ASSUME NEW p \in Pads PROVE PadFollows(s, p)
  <2>1. Stream(p) = << >> /\ fragments[p] = << >> /\ p \notin finger /\ p \notin touched[s]
    BY <1>1, <1>2 DEF Stream
  <2>2. (OnBefore(<< >>, p, 1, FALSE) <=> FALSE) /\ Alternates(<< >>, p, FALSE)
    BY BeforeNothing
  <2>3. PICK w \in BOOLEAN : w <=> p \in finger
    <3>1. FALSE <=> p \in finger
      BY <2>1
    <3> QED
      BY <3>1
  <2>4. w = FALSE
    BY <2>1, <2>3
  <2>5. Alternates(Stream(p), p, p \in finger) /\ ~On(p)
    <3>1. PICK q : q = << >>
      OBVIOUS
    <3>2. Alternates(q, p, w) /\ ~OnBefore(q, p, 1, w)
      BY <2>4, <3>1, BeforeNothing
    <3>3. Stream(p) = q
      BY <2>1, <3>1
    <3> QED
      BY <2>3, <3>2, <3>3 DEF On
  <2>6. PICK x \in BOOLEAN : x = On(p)
    BY Booleans
  <2>7. x = FALSE
    BY <2>5, <2>6
  <2>8. Alternates(fragments[p], p, On(p)) /\ ~Out(p)
    BY <2>1, <2>2, <2>6, <2>7 DEF Out
  <2>9. PICK y \in BOOLEAN : y = Out(p)
    BY Booleans
  <2>10. y = FALSE
    BY <2>8, <2>9
  <2>11. AtSource(s, p)
    BY <1>3, <2>1, <2>2, <2>9, <2>10 DEF AtSource
  <2> QED
    BY <2>1, <2>5, <2>8, <2>11, OfNothing DEF PadFollows
<1> QED
  BY <1>1, <1>3, <1>4 DEF SourceInv, Known

LEMMA WhenSettled ==
    ASSUME TInv, InTurns, NEW s, Sessions = {s}, SourceInv(s), Settled
    PROVE  touched[s] \subseteq finger /\ finger \cap sharedDHIds \subseteq touched[s]
<1>1. /\ \A p \in Pads : kernel[p] = << >>
      /\ collector = Idle /\ eventQueue = << >> /\ toSource[s] = << >>
      /\ touched \in [Sessions -> SUBSET Pads] /\ finger \subseteq Pads
  BY DEF Settled, TInv, TypeOK
<1>2. Channel(s) = << >>
  BY <1>1, ChannelIs
<1>3. ASSUME NEW p \in Pads
      PROVE  /\ p \in touched[s] => p \in finger
             /\ p \in finger /\ p \in sharedDHIds => p \in touched[s]
  <2>1. PICK q, k : q = << >> /\ k = fragments[p]
    OBVIOUS
  <2>2. PICK w \in BOOLEAN : w <=> p \in finger
    <3>1. p \in finger => (TRUE <=> p \in finger)
      OBVIOUS
    <3>2. p \notin finger => (FALSE <=> p \in finger)
      OBVIOUS
    <3> QED
      BY <3>1, <3>2
  <2>3. Stream(p) = q
    BY <1>1, <2>1, StreamIs
  <2>4. PICK x \in BOOLEAN : x = On(p)
    BY Booleans
  <2>5. x <=> w
    <3>1. OnBefore(q, p, 1, w) <=> w
      BY <2>1, BeforeNothing
    <3> QED
      BY <2>2, <2>3, <2>4, <3>1 DEF On
  <2>6. PICK y \in BOOLEAN : y = Out(p)
    BY Booleans
  <2>7. p \in touched[s] <=> y
    <3>1. OnBefore(q, p, 1, y) <=> y
      BY <2>1, BeforeNothing
    <3>2. p \in touched[s] <=> OnBefore(q, p, 1, y)
      BY <1>2, <2>1, <2>6 DEF SourceInv, PadFollows, AtSource
    <3> QED
      BY <3>1, <3>2
  <2>8. y <=> OnBefore(k, p, 1, x)
    BY <2>1, <2>4, <2>6 DEF Out
  <2>9. \A i \in DOMAIN k : ~Is(k[i], p, "up")
    BY <2>1 DEF SourceInv, PadFollows, Is, Elements
  <2>10. y => x
    BY <2>8, <2>9 DEF OnBefore
  <2>11. p \in sharedDHIds => (y <=> x)
    <3>1. p \in sharedDHIds => k = q
      BY <2>1 DEF InTurns
    <3>2. OnBefore(q, p, 1, x) <=> x
      BY <2>1, BeforeNothing
    <3> QED
      BY <2>8, <3>1, <3>2
  <2> QED
    BY <2>2, <2>5, <2>7, <2>10, <2>11
<1>4. touched[s] \subseteq Pads
  BY <1>1
<1> QED
  BY <1>1, <1>3, <1>4

(***************************************************************************)
(* The theorems.                                                           *)
(***************************************************************************)
\* Whatever overlaps, the state keeps its types: sessions that are named exist, and what
\* is kept, queued or under way is reports (touchpad_event_fragment_mgr.cpp, input_hub.cpp).
THEOREM TypeCorrect == Spec => []TypeOK
<1>1. Init => TInv
  BY InitTyped
<1>2. TInv /\ [Next]_vars => TInv'
  BY NextTyped
<1>3. TInv => TypeOK
  BY DEF TInv
<1> QED
  BY <1>1, <1>2, <1>3, PTL DEF Spec

\* If a request and a read wait for what the others have begun, what goes to a source
\* arrives in the order it was made and once, although a replay goes past the queue of the
\* sender (SendKeyStateNodeMsgBatch, PostInputEvent).
THEOREM ReportsArriveInOrder ==
    ASSUME Overlap = FALSE
    PROVE  Spec => []ReportsInOrder
<1>1. Init => TInv /\ InTurns /\ OrderInv
  BY InitTyped, InitInOrder
<1>2. TInv /\ InTurns /\ OrderInv /\ [Next]_vars => (TInv /\ InTurns /\ OrderInv)'
  BY NextTyped, NextTurns, NextInOrder
<1>3. TInv /\ InTurns /\ OrderInv => ReportsInOrder
  BY WayInOrder
<1> QED
  BY <1>1, <1>2, <1>3, PTL DEF Spec

\* If they wait for each other, nothing of a touch comes to a source that had the pad at no
\* time of it, but for a click that was made between two touches: neither by the replay of a
\* start nor by the end of a touch that is sent back (DealSynEvent, GetAndClearEvents).
THEOREM LocalTouchesStayLocal ==
    ASSUME Overlap = FALSE
    PROVE  Spec => []LocalTouchStaysLocal
<1>1. Init => TInv /\ InTurns /\ TouchInv
  BY InitTyped, InitInOrder, InitTouches
<1>2. TInv /\ InTurns /\ TouchInv /\ [Next]_vars => (TInv /\ InTurns /\ TouchInv)'
  BY NextTyped, NextTurns, NextTouches
<1>3. TouchInv => LocalTouchStaysLocal
  <2> SUFFICES ASSUME TouchInv, NEW s \in Sessions, NEW i \in DOMAIN toSource[s]
               PROVE  << toSource[s][i].pad, toSource[s][i].touch >> \in lentTouches \cup clickedBefore
    BY DEF LocalTouchStaysLocal
  <2>1. toSource[s][i] \in Sent(s)
    BY DEF Sent, Elements
  <2> QED
    BY <2>1 DEF TouchInv, SentIsForeign, Foreign
<1> QED
  BY <1>1, <1>2, <1>3, PTL DEF Spec

\* With one session, whatever is lent and taken back while pads are touched: as soon as
\* nothing is under way, a pad of the source is touched only while the finger is on, and a
\* shared pad with a finger on is touched there (GetAndClearEvents, DealSynEvent).
THEOREM SourcePadFollowsFinger ==
    ASSUME Overlap = FALSE, NEW s, Sessions = {s}
    PROVE  Spec => []TouchFollowsFinger
<1>1. Init => TInv /\ InTurns /\ SourceInv(s)
  BY InitTyped, InitInOrder, InitFollows
<1>2. TInv /\ InTurns /\ SourceInv(s) /\ [Next]_vars => (TInv /\ InTurns /\ SourceInv(s))'
  BY NextTyped, NextTurns, NextFollows
<1>3. TInv /\ InTurns /\ SourceInv(s) => TouchFollowsFinger
  BY WhenSettled DEF TouchFollowsFinger
<1> QED
  BY <1>1, <1>2, <1>3, PTL DEF Spec
=============================================================================
