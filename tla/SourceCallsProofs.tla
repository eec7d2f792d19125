-------------------------- MODULE SourceCallsProofs --------------------------
(***************************************************************************)
(* Proofs about the requests to the source service, for any peers,         *)
(* selections and forms of requests and any number of calls.               *)
(***************************************************************************)
EXTENDS SourceCalls, SequenceTheorems, WellFoundedInduction, TLAPS

Elements(s) == {s[i] : i \in DOMAIN s}

(***************************************************************************)
(* The invariants.                                                         *)
(***************************************************************************)
\* What a reply tells of a call: calls with the same are Alike.
Keys == [c \in DOMAIN calls |-> << ListOf(c), KeyOf(c) >>]

EventCalls == [i \in DOMAIN events |-> events[i].call]

\* The calls whose reply is in the queue, those whose reply is to come, and those that
\* have not returned.
Arrived  == Elements(EventCalls)
Sent     == {c \in DOMAIN calls : c \in Elements(atPeer[calls[c].peer])}
Back     == {c \in DOMAIN calls : Returning(c)}
UnderWay == Arrived \cup Sent \cup Back

\* Of calls with the same key the earlier comes first, and none comes twice.
Sorted(s, key) == \A i, j \in DOMAIN s : i < j /\ key[s[i]] = key[s[j]] => s[i] < s[j]

\* What is at a peer was sent to it.
TInv == TypeOK /\ \A p \in Peers : \A c \in Elements(atPeer[p]) : calls[c].peer = p

\* The callbacks that wait are those of the calls under way.
WaitingIsUnderWay ==
    \A l \in Lists : Elements(waiting[l]) = {c \in UnderWay : ListOf(c) = l}

\* Calls that are alike are in the order in which they were made, in each list and queue
\* and between them.
Ordered ==
    /\ \A l \in Lists : Sorted(waiting[l], Keys)
    /\ Sorted(EventCalls, Keys)
    /\ \A p \in Peers : Sorted(atPeer[p], Keys)
    /\ \A c \in Arrived, d \in Sent : Keys[c] = Keys[d] => c < d
    /\ \A c \in Arrived \cup Sent, d \in Back : Keys[c] = Keys[d] => c < d

\* A request to unprepare is the only one under way to its peer.
UnprepareAlone ==
    \A c, d \in UnderWay : calls[c].peer = calls[d].peer /\ ListOf(c) \in Unpreparing => c = d

\* A session stays as long as it has requests under way, but for the one that closes it.
SessionsHeld ==
    \A c \in Arrived \cup Sent : calls[c].peer \in sessions \/ ListOf(c) \in Unpreparing

\* Of calls that are alike one at most has not returned, and one that takes its callback
\* out again is the only one under way.
ReturningAlone ==
    \A c, d \in UnderWay : Keys[c] = Keys[d] =>
        /\ c \in Back /\ d \in Back => c = d
        /\ calls[c].at = "remove" => c = d

\* No call is answered twice, or with the answer to another.
AnsweredOnce ==
    /\ OwnAnswer
    /\ \A c \in Arrived \cup Sent : answers[c] = << >>
    /\ \A c \in DOMAIN calls : calls[c].at = "send" => answers[c] = << >>
    /\ \A c \in Calls \ DOMAIN calls : answers[c] = << >>

StepInv == /\ WaitingIsUnderWay /\ Ordered /\ UnprepareAlone /\ SessionsHeld
           /\ ReturningAlone /\ AnsweredOnce

(***************************************************************************)
(* Lists.                                                                  *)
(***************************************************************************)
LEMMA MinIsLeast ==
    ASSUME NEW I, I \subseteq Nat, I # {} PROVE Min(I) \in I /\ \A y \in I : Min(I) <= y
<1>1. \E x \in I : \A y \in I : ~ (<< y, x >> \in OpToRel(<, Nat))
  BY NatLessThanWellFounded, WFMin
<1>2. \E x \in I : \A y \in I : x <= y
  <2>1. PICK x \in I : \A y \in I : ~ (<< y, x >> \in OpToRel(<, Nat))
    BY <1>1
  <2>2. ASSUME NEW y \in I PROVE x <= y
    <3>1. x \in Nat /\ y \in Nat
      OBVIOUS
    <3>2. << y, x >> \in OpToRel(<, Nat) <=> y < x
      BY <3>1 DEF OpToRel
    <3>3. ~ (y < x)
      BY <2>1, <3>2, Zenon
    <3> QED
      BY <3>1, <3>3
  <2> QED
    BY <2>2
<1> QED
  BY <1>2 DEF Min

LEMMA Removed ==
    ASSUME NEW S, NEW s \in Seq(S), NEW k \in 1 .. Len(s)
    PROVE  /\ RemoveAt(s, k) \in Seq(S) /\ Len(RemoveAt(s, k)) = Len(s) - 1
           /\ \A i \in 1 .. Len(s) - 1 :
                 RemoveAt(s, k)[i] = IF i < k THEN s[i] ELSE s[i + 1]
<1> DEFINE a == SubSeq(s, 1, k - 1)
           b == SubSeq(s, k + 1, Len(s))
<1>1. Len(s) \in Nat /\ \A i \in 1 .. Len(s) : s[i] \in S
  BY LenProperties, ElementOfSeq
<1>2. /\ a \in Seq(S) /\ Len(a) = k - 1
      /\ \A i \in 1 .. k - 1 : a[i] = s[i]
  <2>1. k - 1 \in Int /\ 1 \in Int /\ \A i \in 1 .. k - 1 : s[i] \in S
    BY <1>1
  <2>2. /\ a \in Seq(S) /\ Len(a) = IF 1 <= k - 1 THEN (k - 1) - 1 + 1 ELSE 0
        /\ \A i \in 1 .. (k - 1) - 1 + 1 : a[i] = s[1 + i - 1]
    BY <2>1, SubSeqProperties
  <2> QED
    BY <2>2
<1>3. /\ b \in Seq(S) /\ Len(b) = Len(s) - k
      /\ \A i \in 1 .. Len(s) - k : b[i] = s[i + k]
  <2>1. k + 1 \in Int /\ Len(s) \in Int /\ \A i \in k + 1 .. Len(s) : s[i] \in S
    BY <1>1
  <2>2. /\ b \in Seq(S) /\ Len(b) = IF k + 1 <= Len(s) THEN Len(s) - (k + 1) + 1 ELSE 0
        /\ \A i \in 1 .. Len(s) - (k + 1) + 1 : b[i] = s[(k + 1) + i - 1]
    BY <2>1, SubSeqProperties
  <2> QED
    BY <1>1, <2>2
<1>4. RemoveAt(s, k) = a \o b
  BY DEF RemoveAt
<1> HIDE DEF a, b
<1>5. /\ a \o b \in Seq(S) /\ Len(a \o b) = Len(a) + Len(b)
      /\ \A i \in 1 .. Len(a) + Len(b) :
            (a \o b)[i] = IF i <= Len(a) THEN a[i] ELSE b[i - Len(a)]
  BY <1>2, <1>3, ConcatProperties
<1>6. ASSUME NEW i \in 1 .. Len(s) - 1
      PROVE  (a \o b)[i] = IF i < k THEN s[i] ELSE s[i + 1]
  <2>1. (a \o b)[i] = IF i <= k - 1 THEN a[i] ELSE b[i - (k - 1)]
    BY <1>1, <1>2, <1>3, <1>5
  <2>2. CASE i < k
    BY <1>1, <1>2, <2>1, <2>2
  <2>3. CASE ~(i < k)
    <3>1. i - (k - 1) \in 1 .. Len(s) - k
      BY <1>1, <2>3
    <3>2. b[i - (k - 1)] = s[(i - (k - 1)) + k]
      BY <1>3, <3>1
    <3>3. (i - (k - 1)) + k = i + 1
      BY <1>1
    <3> QED
      BY <1>1, <2>1, <2>3, <3>2, <3>3
  <2> QED
    BY <2>2, <2>3
<1> QED
  BY <1>1, <1>2, <1>3, <1>4, <1>5, <1>6

LEMMA ElementsRemoved ==
    ASSUME NEW S, NEW s \in Seq(S), NEW k \in 1 .. Len(s)
    PROVE  /\ Elements(RemoveAt(s, k)) \subseteq Elements(s)
           /\ \A e \in Elements(s) : e # s[k] => e \in Elements(RemoveAt(s, k))
<1> DEFINE t == RemoveAt(s, k)
<1>1. /\ t \in Seq(S) /\ Len(t) = Len(s) - 1
      /\ \A i \in 1 .. Len(s) - 1 : t[i] = IF i < k THEN s[i] ELSE s[i + 1]
  BY Removed
<1>2. /\ DOMAIN t = 1 .. Len(s) - 1 /\ DOMAIN s = 1 .. Len(s) /\ Len(s) \in Nat
  BY <1>1, LenProperties
<1> HIDE DEF t
<1>3. Elements(t) \subseteq Elements(s)
  <2>1. ASSUME NEW i \in DOMAIN t PROVE t[i] \in Elements(s)
    <3>1. i \in DOMAIN s /\ i + 1 \in DOMAIN s
      BY <1>2
    <3>2. t[i] = s[i] \/ t[i] = s[i + 1]
      BY <1>1, <1>2
    <3> QED
      BY <3>1, <3>2 DEF Elements
  <2> QED
    BY <2>1 DEF Elements
<1>4. ASSUME NEW e \in Elements(s), e # s[k] PROVE e \in Elements(t)
  <2>1. PICK i \in 1 .. Len(s) : s[i] = e
    BY <1>2 DEF Elements
  <2>2. CASE i < k
    BY <1>1, <1>2, <2>1, <2>2 DEF Elements
  <2>3. CASE i > k
    <3>1. i - 1 \in 1 .. Len(s) - 1 /\ ~(i - 1 < k) /\ (i - 1) + 1 = i
      BY <1>2, <2>3
    <3>2. t[i - 1] = s[i]
      BY <1>1, <3>1
    <3> QED
      BY <1>2, <2>1, <3>1, <3>2 DEF Elements
  <2> QED
    BY <1>2, <1>4, <2>1, <2>2, <2>3
<1> QED
  BY <1>3, <1>4 DEF t

LEMMA Appended ==
    ASSUME NEW S, NEW s \in Seq(S), NEW e \in S
    PROVE  /\ Append(s, e) \in Seq(S) /\ Len(Append(s, e)) = Len(s) + 1
           /\ DOMAIN s = 1 .. Len(s) /\ DOMAIN Append(s, e) = 1 .. Len(s) + 1 /\ Len(s) \in Nat
           /\ \A i \in 1 .. Len(s) : Append(s, e)[i] = s[i]
           /\ Append(s, e)[Len(s) + 1] = e
           /\ Elements(Append(s, e)) = Elements(s) \cup {e}
<1>1. /\ Append(s, e) \in Seq(S) /\ Len(Append(s, e)) = Len(s) + 1
      /\ DOMAIN s = 1 .. Len(s) /\ DOMAIN Append(s, e) = 1 .. Len(s) + 1 /\ Len(s) \in Nat
      /\ \A i \in 1 .. Len(s) : Append(s, e)[i] = s[i]
      /\ Append(s, e)[Len(s) + 1] = e
  BY AppendProperties, LenProperties
<1>2. Elements(Append(s, e)) = Elements(s) \cup {e}
  BY <1>1 DEF Elements
<1> QED
  BY <1>1, <1>2

LEMMA Tailed ==
    ASSUME NEW S, NEW s \in Seq(S), s # << >>
    PROVE  /\ Tail(s) \in Seq(S) /\ Head(s) = s[1] /\ 1 \in DOMAIN s /\ Len(s) \in Nat
           /\ DOMAIN s = 1 .. Len(s) /\ DOMAIN Tail(s) = 1 .. Len(s) - 1
           /\ \A i \in 1 .. Len(s) - 1 : Tail(s)[i] = s[i + 1]
<1>1. Len(s) \in Nat /\ Len(s) # 0 /\ DOMAIN s = 1 .. Len(s)
  BY LenProperties, EmptySeq
<1>2. /\ Tail(s) \in Seq(S) /\ Len(Tail(s)) = Len(s) - 1
      /\ \A i \in 1 .. Len(Tail(s)) : Tail(s)[i] = s[i + 1]
  BY HeadTailProperties
<1>3. DOMAIN Tail(s) = 1 .. Len(s) - 1
  BY <1>2, LenProperties
<1>4. Head(s) = s[1]
  BY <1>1, <1>2
<1> QED
  BY <1>1, <1>2, <1>3, <1>4

\* Where calls with a key are found: the first, or nowhere.
LEMMA PlaceIs ==
    ASSUME NEW s, Len(s) \in Nat, NEW l, NEW k
    PROVE  /\ PlaceIn(s, l, k) = 0 => \A i \in 1 .. Len(s) : ~ Fits(s[i], l, k)
           /\ PlaceIn(s, l, k) # 0 =>
                 /\ PlaceIn(s, l, k) \in 1 .. Len(s) /\ Fits(s[PlaceIn(s, l, k)], l, k)
                 /\ \A i \in 1 .. Len(s) : Fits(s[i], l, k) => PlaceIn(s, l, k) <= i
<1> DEFINE I == {i \in 1 .. Len(s) : Fits(s[i], l, k)}
<1>1. PlaceIn(s, l, k) = IF I # {} THEN Min(I) ELSE 0
  BY DEF PlaceIn, SelectInSeq
<1>2. I \subseteq Nat /\ 0 \notin I
  OBVIOUS
<1>3. I # {} => Min(I) \in I /\ \A y \in I : Min(I) <= y
  <2> HIDE DEF I
  <2> QED
    BY <1>2, MinIsLeast
<1> QED
  BY <1>1, <1>2, <1>3

LEMMA Widened ==
    ASSUME NEW S, NEW T, S \subseteq T, NEW s \in Seq(S) PROVE s \in Seq(T)
<1>1. Len(s) \in Nat /\ DOMAIN s = 1 .. Len(s) /\ \A i \in 1 .. Len(s) : s[i] \in S
  BY LenProperties, ElementOfSeq
<1>2. s \in [1 .. Len(s) -> T]
  BY SeqDef, <1>1
<1> QED
  BY <1>1, <1>2, SeqDef

LEMMA ElementsOf ==
    ASSUME NEW S, NEW s \in Seq(S)
    PROVE  /\ Len(s) \in Nat /\ DOMAIN s = 1 .. Len(s) /\ Elements(s) \subseteq S
           /\ Elements(s) = {} => s = << >>
<1>1. Len(s) \in Nat /\ DOMAIN s = 1 .. Len(s) /\ \A i \in 1 .. Len(s) : s[i] \in S
  BY LenProperties, ElementOfSeq
<1>2. Elements(s) = {} => s = << >>
  <2>1. Len(s) # 0 => s[1] \in Elements(s)
    BY <1>1 DEF Elements
  <2> QED
    BY <2>1, EmptySeq
<1> QED
  BY <1>1, <1>2 DEF Elements

LEMMA SortedAppend ==
    ASSUME NEW S, S \subseteq Nat, NEW s \in Seq(S), NEW e \in S, NEW key, Sorted(s, key),
           \A d \in Elements(s) : key[d] = key[e] => d < e
    PROVE  Sorted(Append(s, e), key)
<1> DEFINE t == Append(s, e)
<1>1. /\ DOMAIN s = 1 .. Len(s) /\ DOMAIN t = 1 .. Len(s) + 1 /\ Len(s) \in Nat
      /\ \A i \in 1 .. Len(s) : t[i] = s[i]
      /\ t[Len(s) + 1] = e
  BY Appended
<1> HIDE DEF t
<1>2. ASSUME NEW i \in DOMAIN t, NEW j \in DOMAIN t, i < j, key[t[i]] = key[t[j]]
      PROVE  t[i] < t[j]
  <2>1. i \in 1 .. Len(s)
    BY <1>1, <1>2
  <2>2. CASE j \in 1 .. Len(s)
    BY <1>1, <1>2, <2>1, <2>2 DEF Sorted
  <2>3. CASE j = Len(s) + 1
    BY <1>1, <1>2, <2>1, <2>3 DEF Elements
  <2> QED
    BY <1>1, <1>2, <2>2, <2>3
<1> QED
  BY <1>2 DEF Sorted, t

\* What one removal leaves of a list in which no call is twice.
LEMMA SortedRemove ==
    ASSUME NEW S, S \subseteq Nat, NEW s \in Seq(S), NEW k \in 1 .. Len(s), NEW key, Sorted(s, key)
    PROVE  /\ RemoveAt(s, k) \in Seq(S) /\ Sorted(RemoveAt(s, k), key)
           /\ Elements(RemoveAt(s, k)) = Elements(s) \ {s[k]}
<1> DEFINE t == RemoveAt(s, k)
<1>1. /\ t \in Seq(S) /\ Len(t) = Len(s) - 1
      /\ \A i \in 1 .. Len(s) - 1 : t[i] = IF i < k THEN s[i] ELSE s[i + 1]
  BY Removed
<1>2. /\ Elements(t) \subseteq Elements(s)
      /\ \A e \in Elements(s) : e # s[k] => e \in Elements(t)
  BY ElementsRemoved
<1>3. DOMAIN s = 1 .. Len(s) /\ DOMAIN t = 1 .. Len(s) - 1 /\ Len(s) \in Nat
  BY <1>1, LenProperties
<1>4. \A i \in DOMAIN s : s[i] \in Nat
  BY <1>3, ElementOfSeq
<1> HIDE DEF t
<1>5. \A i, j \in DOMAIN s : i # j => s[i] # s[j]
  BY <1>3, <1>4 DEF Sorted
<1>6. s[k] \notin Elements(t)
  <2>1. ASSUME NEW i \in DOMAIN t PROVE t[i] # s[k]
    <3>1. PICK a \in DOMAIN s : a # k /\ t[i] = s[a]
      <4>1. CASE i < k
        BY <1>1, <1>3, <4>1
      <4>2. CASE ~(i < k)
        <5>1. i + 1 \in DOMAIN s /\ i + 1 # k
          BY <1>3, <4>2
        <5>2. t[i] = s[i + 1]
          BY <1>1, <1>3, <4>2
        <5> QED
          BY <5>1, <5>2
      <4> QED
        BY <4>1, <4>2
    <3> QED
      BY <1>3, <1>5, <3>1
  <2> QED
    BY <2>1 DEF Elements
<1>7. Sorted(t, key)
  <2>1. ASSUME NEW i \in DOMAIN t, NEW j \in DOMAIN t, i < j, key[t[i]] = key[t[j]]
        PROVE  t[i] < t[j]
    <3> DEFINE a == IF i < k THEN i ELSE i + 1
               b == IF j < k THEN j ELSE j + 1
    <3>1. a \in DOMAIN s /\ b \in DOMAIN s /\ a < b
      BY <1>3, <2>1
    <3>2. t[i] = s[a] /\ t[j] = s[b]
      BY <1>1, <1>3
    <3> HIDE DEF a, b
    <3> QED
      BY <2>1, <3>1, <3>2 DEF Sorted
  <2> QED
    BY <2>1 DEF Sorted
<1> QED
  BY <1>1, <1>2, <1>6, <1>7 DEF t

LEMMA SortedTail ==
    ASSUME NEW S, S \subseteq Nat, NEW s \in Seq(S), s # << >>, NEW key, Sorted(s, key)
    PROVE  /\ Tail(s) \in Seq(S) /\ Sorted(Tail(s), key) /\ Head(s) = s[1]
           /\ Elements(Tail(s)) = Elements(s) \ {s[1]}
           /\ 1 \in DOMAIN s
<1>1. /\ Tail(s) \in Seq(S) /\ Head(s) = s[1] /\ 1 \in DOMAIN s /\ Len(s) \in Nat
      /\ DOMAIN s = 1 .. Len(s) /\ DOMAIN Tail(s) = 1 .. Len(s) - 1
      /\ \A i \in 1 .. Len(s) - 1 : Tail(s)[i] = s[i + 1]
  BY Tailed
<1>2. \A i \in DOMAIN s : s[i] \in Nat
  BY <1>1, ElementOfSeq
<1>3. Sorted(Tail(s), key)
  BY <1>1, <1>2 DEF Sorted
<1>4. Elements(Tail(s)) = Elements(s) \ {s[1]}
  <2>1. ASSUME NEW e \in Elements(s), e # s[1] PROVE e \in Elements(Tail(s))
    <3>1. PICK i \in 1 .. Len(s) : s[i] = e
      BY <1>1 DEF Elements
    <3>2. i - 1 \in 1 .. Len(s) - 1 /\ (i - 1) + 1 = i
      BY <1>1, <2>1, <3>1
    <3> QED
      BY <1>1, <3>1, <3>2 DEF Elements
  <2>2. ASSUME NEW i \in DOMAIN Tail(s) PROVE Tail(s)[i] \in Elements(s) /\ Tail(s)[i] # s[1]
    <3>1. i + 1 \in DOMAIN s /\ 1 < i + 1 /\ Tail(s)[i] = s[i + 1]
      BY <1>1
    <3> QED
      BY <1>1, <1>2, <3>1 DEF Sorted, Elements
  <2> QED
    BY <2>1, <2>2 DEF Elements
<1> QED
  BY <1>1, <1>3, <1>4

\* The order does not depend on the keys of calls that are not in the list.
LEMMA SortedStays ==
    ASSUME NEW s, NEW key, NEW other, Sorted(s, key),
           \A c \in Elements(s) : other[c] = key[c]
    PROVE  Sorted(s, other)
BY DEF Sorted, Elements

(***************************************************************************)
(* Forms and calls.                                                        *)
(***************************************************************************)
CallRecord == [form : Forms, peer : Peers, selection : Selections \cup {All}, at : CallStates]
Reply      == [call : DOMAIN calls, result : BOOLEAN]
Answer     == [of : Calls, result : BOOLEAN]

\* Only the lists of the prepares are sets, and their requests take no lock.
FormFits(f) ==
    /\ f.list \in Lists
    /\ f.set => f.list \in SetLists
    /\ f.locked => f.list \notin SetLists

LEMMA FormsFit == \A name \in DOMAIN FormOf : FormFits(FormOf[name])
<1> SUFFICES ASSUME NEW name \in DOMAIN FormOf PROVE FormFits(FormOf[name])
  OBVIOUS
<1>1. FormOf[name].list \in Lists
  BY DEF Lists
<1>2. DOMAIN FormOf = {"Prepare", "PrepareFrom", "RelayPrepare", "Unprepare", "UnprepareFrom",
                       "RelayUnprepare", "StartTypes", "StartTypesFrom", "RelayStartTypes",
                       "StopTypes", "StopTypesFrom", "RelayStopTypes", "StartDhids", "StopDhids",
                       "RelayStartDhids", "RelayStopDhids"}
  BY DEF FormOf
<1>3. CASE name \in {"Prepare", "PrepareFrom", "RelayPrepare", "Unprepare", "UnprepareFrom",
                     "RelayUnprepare"}
  <2>1. FormOf[name] \in {Prepare, PrepareFrom, RelayPrepare, Unprepare, UnprepareFrom,
                          RelayUnprepare}
    BY <1>3 DEF FormOf
  <2>2. ~ FormOf[name].locked /\ FormOf[name].list \in SetLists
    BY <2>1 DEF Prepare, PrepareFrom, RelayPrepare, Unprepare, UnprepareFrom, RelayUnprepare,
                InSet, SetLists
  <2> QED
    BY <1>1, <2>2 DEF FormFits
<1>4. CASE name \in {"StartTypes", "StartTypesFrom", "RelayStartTypes", "StopTypes",
                     "StopTypesFrom", "RelayStopTypes", "StartDhids", "StopDhids",
                     "RelayStartDhids", "RelayStopDhids"}
  <2>1. FormOf[name] \in {StartTypes, StartTypesFrom, RelayStartTypes, StopTypes, StopTypesFrom,
                          RelayStopTypes, StartDhids, StopDhids, RelayStartDhids, RelayStopDhids}
    BY <1>4 DEF FormOf
  <2>2. ~ FormOf[name].set /\ FormOf[name].list \notin SetLists
    BY <2>1 DEF StartTypes, StartTypesFrom, RelayStartTypes, StopTypes, StopTypesFrom,
                RelayStopTypes, StartDhids, StopDhids, RelayStartDhids, RelayStopDhids,
                InVector, SetLists
  <2> QED
    BY <1>1, <2>2 DEF FormFits
<1> QED
  BY <1>2, <1>3, <1>4

LEMMA UnpreparesInSets == Unpreparing \subseteq SetLists
BY DEF Unpreparing, SetLists

\* What TInv says of the calls.
LEMMA CallsTyped ==
    ASSUME TInv
    PROVE  /\ calls \in Seq(CallRecord) /\ Len(calls) \in Nat /\ MaxCalls \in Nat
           /\ DOMAIN calls = 1 .. Len(calls) /\ DOMAIN calls \subseteq Calls
           /\ \A c \in DOMAIN calls :
                 /\ calls[c] \in CallRecord /\ calls[c].form \in DOMAIN FormOf
                 /\ ListOf(c) \in Lists /\ calls[c].peer \in Peers
<1>1. calls \in Seq(CallRecord) /\ Len(calls) <= MaxCalls
  BY DEF TInv, TypeOK, CallRecord
<1>2. MaxCalls \in Nat /\ Forms \subseteq DOMAIN FormOf
  BY CallAssumption
<1>3. /\ Len(calls) \in Nat /\ DOMAIN calls = 1 .. Len(calls)
      /\ \A c \in DOMAIN calls : calls[c] \in CallRecord
  BY <1>1, LenProperties, ElementOfSeq
<1>4. ASSUME NEW c \in DOMAIN calls
      PROVE  /\ calls[c].form \in DOMAIN FormOf /\ calls[c].peer \in Peers
             /\ ListOf(c) \in Lists
  <2>1. calls[c].form \in DOMAIN FormOf /\ calls[c].peer \in Peers
    BY <1>2, <1>3 DEF CallRecord
  <2>2. FormFits(FormOf[calls[c].form])
    BY <2>1, FormsFit
  <2> QED
    BY <2>1, <2>2 DEF FormFits, ListOf, FormOfCall
<1> QED
  BY <1>1, <1>2, <1>3, <1>4 DEF Calls

\* Old calls keep what a reply tells of them.
SameCalls == \A c \in DOMAIN calls : /\ calls'[c].form = calls[c].form
                                     /\ calls'[c].peer = calls[c].peer
                                     /\ calls'[c].selection = calls[c].selection

CallsGrow == /\ calls' \in Seq(CallRecord) /\ Len(calls') <= MaxCalls
             /\ DOMAIN calls \subseteq DOMAIN calls' /\ SameCalls

LEMMA EnterGrows ==
    ASSUME TInv, NEW name \in Forms, NEW p \in Peers, NEW s \in Selections \cup {All},
           NEW state \in CallStates, Len(calls) < MaxCalls, Enter(name, p, s, state)
    PROVE  /\ CallsGrow
           /\ Len(calls) + 1 \in Calls \ DOMAIN calls
           /\ DOMAIN calls' = DOMAIN calls \cup {Len(calls) + 1}
           /\ \A c \in DOMAIN calls : calls'[c] = calls[c]
           /\ calls'[Len(calls) + 1] = [form |-> name, peer |-> p, selection |-> s, at |-> state]
<1> DEFINE new == [form |-> name, peer |-> p, selection |-> s, at |-> state]
<1>1. new \in CallRecord
  BY DEF CallRecord
<1>2. calls' = Append(calls, new)
  BY DEF Enter
<1>3. /\ calls \in Seq(CallRecord) /\ Len(calls) \in Nat /\ MaxCalls \in Nat
      /\ DOMAIN calls = 1 .. Len(calls)
  BY CallsTyped
<1> HIDE DEF new
<1>4. /\ calls' \in Seq(CallRecord) /\ Len(calls') = Len(calls) + 1
      /\ DOMAIN calls' = 1 .. Len(calls) + 1
      /\ \A c \in 1 .. Len(calls) : calls'[c] = calls[c]
      /\ calls'[Len(calls) + 1] = new
  BY <1>1, <1>2, <1>3, Appended
<1>5. SameCalls
  BY <1>3, <1>4 DEF SameCalls
<1> QED
  BY <1>3, <1>4, <1>5 DEF new, Calls, CallsGrow

LEMMA GotoGrows ==
    ASSUME TInv, NEW c \in DOMAIN calls, NEW state \in CallStates, Goto(c, state)
    PROVE  /\ CallsGrow
           /\ DOMAIN calls' = DOMAIN calls
           /\ \A d \in DOMAIN calls : d # c => calls'[d] = calls[d]
           /\ calls'[c].at = state
<1>1. calls' = [calls EXCEPT ![c].at = state]
  BY DEF Goto
<1>2. /\ calls \in Seq(CallRecord) /\ Len(calls) \in Nat
      /\ DOMAIN calls = 1 .. Len(calls) /\ \A d \in DOMAIN calls : calls[d] \in CallRecord
  BY CallsTyped
<1>3. Len(calls) <= MaxCalls
  BY DEF TInv, TypeOK
<1>4. /\ DOMAIN calls' = DOMAIN calls
      /\ \A d \in DOMAIN calls : d # c => calls'[d] = calls[d]
      /\ calls'[c] = [calls[c] EXCEPT !.at = state]
  BY <1>1, <1>2
<1>5. /\ calls'[c] \in CallRecord /\ calls'[c].at = state /\ calls'[c].form = calls[c].form
      /\ calls'[c].peer = calls[c].peer /\ calls'[c].selection = calls[c].selection
  BY <1>2, <1>4 DEF CallRecord
<1>6. calls' \in Seq(CallRecord) /\ Len(calls') = Len(calls)
  <2>1. calls' \in [1 .. Len(calls) -> CallRecord]
    BY <1>1, <1>2, <1>4, <1>5
  <2>2. calls' \in Seq(CallRecord)
    BY <1>2, <2>1, SeqDef
  <2>3. DOMAIN calls' = 1 .. Len(calls') /\ Len(calls') \in Nat
    BY <2>2, LenProperties
  <2> QED
    BY <1>2, <1>4, <2>2, <2>3
<1> QED
  BY <1>3, <1>4, <1>5, <1>6 DEF CallsGrow, SameCalls

LEMMA UnchangedGrow == ASSUME TInv, UNCHANGED calls PROVE CallsGrow
BY CallsTyped DEF CallsGrow, SameCalls, TInv, TypeOK

(***************************************************************************)
(* Types.                                                                  *)
(***************************************************************************)
\* What a change of calls, waiting, atPeer, events and answers must keep.
ListsTyped == waiting \in [Lists -> Seq(DOMAIN calls)]
PeersTyped == /\ atPeer \in [Peers -> Seq(DOMAIN calls)]
              /\ \A p \in Peers : \A c \in Elements(atPeer[p]) : calls[c].peer = p
QueueTyped == events \in Seq(Reply)
CallsFit   == calls \in Seq(CallRecord) /\ Len(calls) <= MaxCalls

LEMMA TypedParts ==
    TInv <=> /\ sessions \subseteq Peers /\ CallsFit /\ ListsTyped /\ PeersTyped /\ QueueTyped
             /\ answers \in [Calls -> Seq(Answer)]
BY DEF TInv, TypeOK, CallsFit, ListsTyped, PeersTyped, QueueTyped, CallRecord, Reply, Answer

LEMMA TypedNext ==
    ASSUME TInv, CallsGrow, sessions' \subseteq Peers, ListsTyped', PeersTyped', QueueTyped',
           answers' \in [Calls -> Seq(Answer)]
    PROVE  TInv'
BY DEF TInv, TypeOK, CallsGrow, ListsTyped, PeersTyped, QueueTyped, CallRecord, Reply, Answer

\* Parts of TInv that need no lemma.
LEMMA TypedNow == TInv => sessions \subseteq Peers /\ answers \in [Calls -> Seq(Answer)]
BY DEF TInv, TypeOK, Answer

LEMMA ReplyGrows ==
    ASSUME TInv, DOMAIN calls \subseteq DOMAIN calls' PROVE Seq(Reply) \subseteq Seq(Reply')
<1>1. Reply \subseteq Reply'
  BY DEF Reply
<1>2. \A s \in Seq(Reply) : s \in Seq(Reply')
  BY <1>1, Widened
<1> QED
  BY <1>2

LEMMA QueueStays == ASSUME TInv, CallsGrow, UNCHANGED events PROVE QueueTyped'
BY ReplyGrows DEF CallsGrow, QueueTyped, TInv, TypeOK, Reply

LEMMA ListsStay == ASSUME TInv, CallsGrow, UNCHANGED waiting PROVE ListsTyped'
<1>1. waiting \in [Lists -> Seq(DOMAIN calls)] /\ DOMAIN calls \subseteq DOMAIN calls'
  BY DEF TInv, TypeOK, CallsGrow
<1>2. \A s \in Seq(DOMAIN calls) : s \in Seq(DOMAIN calls')
  BY <1>1, Widened
<1> QED
  BY <1>1, <1>2 DEF ListsTyped

LEMMA ListsChange ==
    ASSUME TInv, CallsGrow, NEW l \in Lists, NEW s \in Seq(DOMAIN calls'),
           waiting' = [waiting EXCEPT ![l] = s]
    PROVE  ListsTyped'
<1>1. waiting \in [Lists -> Seq(DOMAIN calls)] /\ DOMAIN calls \subseteq DOMAIN calls'
  BY DEF TInv, TypeOK, CallsGrow
<1>2. \A t \in Seq(DOMAIN calls) : t \in Seq(DOMAIN calls')
  BY <1>1, Widened
<1> QED
  BY <1>1, <1>2 DEF ListsTyped

LEMMA PeersStay == ASSUME TInv, CallsGrow, UNCHANGED atPeer PROVE PeersTyped'
<1>1. /\ atPeer \in [Peers -> Seq(DOMAIN calls)] /\ DOMAIN calls \subseteq DOMAIN calls'
      /\ \A p \in Peers : \A c \in Elements(atPeer[p]) : calls[c].peer = p
  BY DEF TInv, TypeOK, CallsGrow
<1>2. \A s \in Seq(DOMAIN calls) : s \in Seq(DOMAIN calls')
  BY <1>1, Widened
<1>3. \A p \in Peers : \A c \in Elements(atPeer[p]) : c \in DOMAIN calls
  BY <1>1, ElementsOf
<1> QED
  BY <1>1, <1>2, <1>3 DEF PeersTyped, CallsGrow, SameCalls

LEMMA PeersChange ==
    ASSUME TInv, CallsGrow, NEW p \in Peers, NEW s \in Seq(DOMAIN calls'),
           \A c \in Elements(s) : calls'[c].peer = p,
           atPeer' = [atPeer EXCEPT ![p] = s]
    PROVE  PeersTyped'
<1>1. /\ atPeer \in [Peers -> Seq(DOMAIN calls)] /\ DOMAIN calls \subseteq DOMAIN calls'
      /\ \A q \in Peers : \A c \in Elements(atPeer[q]) : calls[c].peer = q
  BY DEF TInv, TypeOK, CallsGrow
<1>2. \A t \in Seq(DOMAIN calls) : t \in Seq(DOMAIN calls')
  BY <1>1, Widened
<1>3. \A q \in Peers : \A c \in Elements(atPeer[q]) : c \in DOMAIN calls /\ calls'[c].peer = q
  BY <1>1, ElementsOf DEF CallsGrow, SameCalls
<1> QED
  BY <1>1, <1>2, <1>3 DEF PeersTyped

LEMMA AnswerTyped ==
    ASSUME TInv, NEW c \in Calls, NEW of \in Calls, NEW result \in BOOLEAN,
           OnResult(c, of, result)
    PROVE  /\ answers' \in [Calls -> Seq(Answer)]
           /\ answers'[c] = Append(answers[c], [of |-> of, result |-> result])
           /\ \A d \in Calls : d # c => answers'[d] = answers[d]
<1> DEFINE new == [of |-> of, result |-> result]
<1>1. answers \in [Calls -> Seq(Answer)]
  BY DEF TInv, TypeOK, Answer
<1>2. new \in Answer
  BY DEF Answer
<1>3. answers' = [answers EXCEPT ![c] = Append(answers[c], new)]
  BY <1>1 DEF OnResult
<1> HIDE DEF new
<1>4. Append(answers[c], new) \in Seq(Answer)
  BY <1>1, <1>2, Appended
<1>5. /\ answers' \in [Calls -> Seq(Answer)]
      /\ answers'[c] = Append(answers[c], new)
      /\ \A d \in Calls : d # c => answers'[d] = answers[d]
  BY <1>1, <1>3, <1>4
<1> QED
  BY <1>5 DEF new

\* A list after an entry with the key was erased.
LEMMA ErasedTyped ==
    ASSUME NEW S, NEW s \in Seq(S), NEW l, NEW k
    PROVE  /\ PlaceIn(s, l, k) = 0 => Erased(s, l, k) = s
           /\ PlaceIn(s, l, k) # 0 =>
                 PlaceIn(s, l, k) \in 1 .. Len(s) /\ Erased(s, l, k) = RemoveAt(s, PlaceIn(s, l, k))
           /\ Erased(s, l, k) \in Seq(S)
<1>1. Len(s) \in Nat
  BY LenProperties
<1>2. PlaceIn(s, l, k) # 0 => PlaceIn(s, l, k) \in 1 .. Len(s)
  BY <1>1, PlaceIs
<1>3. Erased(s, l, k) = IF PlaceIn(s, l, k) = 0 THEN s ELSE RemoveAt(s, PlaceIn(s, l, k))
  BY DEF Erased
<1>4. CASE PlaceIn(s, l, k) # 0
  <2>1. RemoveAt(s, PlaceIn(s, l, k)) \in Seq(S)
    BY <1>2, <1>4, Removed
  <2> QED
    BY <1>2, <1>3, <1>4, <2>1
<1> QED
  BY <1>3, <1>4

LEMMA ListTyped ==
    ASSUME TInv
    PROVE  /\ \A l \in Lists : waiting[l] \in Seq(DOMAIN calls) /\ Len(waiting[l]) \in Nat
           /\ \A p \in Peers : atPeer[p] \in Seq(DOMAIN calls) /\ Len(atPeer[p]) \in Nat
<1>1. /\ \A l \in Lists : waiting[l] \in Seq(DOMAIN calls)
      /\ \A p \in Peers : atPeer[p] \in Seq(DOMAIN calls)
  BY DEF TInv, TypeOK
<1> QED
  BY <1>1, LenProperties

LEMMA NameFits ==
    ASSUME NEW name \in Forms
    PROVE  FormOf[name].list \in Lists /\ FormFits(FormOf[name])
<1>1. name \in DOMAIN FormOf
  BY CallAssumption
<1>2. FormFits(FormOf[name])
  BY <1>1, FormsFit
<1> QED
  BY <1>2 DEF FormFits

LEMMA BeginTyped ==
    ASSUME TInv, NEW name \in Forms, NEW p \in Peers, NEW s \in Selections \cup {All},
           Len(calls) < MaxCalls, Begin(name, p, s)
    PROVE  TInv'
<1> DEFINE f == FormOf[name]
           c == Len(calls) + 1
<1>1. UNCHANGED << atPeer, events, answers >>
  BY DEF Begin
<1>2. CASE Enter(name, p, s, "failed") /\ UNCHANGED << sessions, waiting >>
  <2>1. CallsGrow
    BY <1>2, EnterGrows DEF CallStates
  <2> QED
    BY <1>1, <1>2, <2>1, ListsStay, PeersStay, QueueStays, TypedNow, TypedNext
<1>3. CASE /\ sessions' = OpenInputSoftbus(f, p, s)
           /\ waiting' = [waiting EXCEPT ![f.list] = Entered(@, f, << p, s >>, c)]
           /\ Enter(name, p, s, "send")
  <2>1. CallsGrow /\ c \in DOMAIN calls'
    BY <1>3, EnterGrows DEF CallStates
  <2>2. f.list \in Lists /\ waiting[f.list] \in Seq(DOMAIN calls)
    BY NameFits, ListTyped
  <2>3. waiting[f.list] \in Seq(DOMAIN calls')
    BY <2>1, <2>2, Widened DEF CallsGrow
  <2> DEFINE t == Entered(waiting[f.list], f, << p, s >>, c)
  <2>4. t \in Seq(DOMAIN calls')
    BY <2>1, <2>3, Appended DEF Entered
  <2>5. waiting' = [waiting EXCEPT ![f.list] = t]
    BY <1>3, <2>2 DEF TInv, TypeOK
  <2> HIDE DEF t
  <2>6. ListsTyped'
    BY <2>1, <2>2, <2>4, <2>5, ListsChange
  <2>7. sessions' \subseteq Peers
    BY <1>3 DEF OpenInputSoftbus, TInv, TypeOK
  <2> QED
    BY <1>1, <2>1, <2>6, <2>7, PeersStay, QueueStays, TypedNow, TypedNext
<1> QED
  BY <1>2, <1>3 DEF Begin

LEMMA RefuseTyped ==
    ASSUME TInv, NEW name \in Forms, NEW p \in Peers, NEW s \in Selections \cup {All},
           Len(calls) < MaxCalls, Refuse(name, p, s)
    PROVE  TInv'
<1>1. /\ Enter(name, p, s, "refused") /\ OnResult(Len(calls) + 1, Len(calls) + 1, FALSE)
      /\ UNCHANGED << sessions, waiting, atPeer, events >>
  BY DEF Refuse
<1>2. CallsGrow /\ Len(calls) + 1 \in Calls
  BY <1>1, EnterGrows DEF CallStates
<1>3. answers' \in [Calls -> Seq(Answer)]
  BY <1>1, <1>2, AnswerTyped
<1> QED
  BY <1>1, <1>2, <1>3, ListsStay, PeersStay, QueueStays, TypedNow, TypedNext

LEMMA BeginLockedTyped ==
    ASSUME TInv, NEW name \in Forms, NEW p \in Peers, NEW s \in Selections \cup {All},
           Len(calls) < MaxCalls, BeginLocked(name, p, s)
    PROVE  TInv'
<1> DEFINE f == FormOf[name]
           c == Len(calls) + 1
           i == PlaceIn(waiting[f.list], f.list, << p, s >>)
           first == IF i = 0 THEN c ELSE waiting[f.list][i]
<1>1. UNCHANGED << sessions, events >>
  BY DEF BeginLocked
<1>2. f.list \in Lists /\ waiting[f.list] \in Seq(DOMAIN calls) /\ Len(waiting[f.list]) \in Nat
  BY NameFits, ListTyped
<1>3. waiting \in [Lists -> Seq(DOMAIN calls)] /\ atPeer \in [Peers -> Seq(DOMAIN calls)]
  BY DEF TInv, TypeOK
<1>4. CASE /\ waiting' = [waiting EXCEPT ![f.list] = Append(@, c)]
           /\ atPeer' = [atPeer EXCEPT ![p] = Append(@, c)]
           /\ Enter(name, p, s, "accepted")
           /\ UNCHANGED answers
  <2>1. /\ CallsGrow /\ c \in DOMAIN calls' /\ calls'[c].peer = p
        /\ DOMAIN calls \subseteq DOMAIN calls'
    <3>1. c \in DOMAIN calls' /\ calls'[c] = [form |-> name, peer |-> p, selection |-> s,
                                             at |-> "accepted"]
      BY <1>4, EnterGrows DEF CallStates
    <3>2. CallsGrow
      BY <1>4, EnterGrows DEF CallStates
    <3> QED
      BY <3>1, <3>2 DEF CallsGrow
  <2>2. waiting[f.list] \in Seq(DOMAIN calls') /\ atPeer[p] \in Seq(DOMAIN calls')
    BY <1>2, <1>3, <2>1, Widened
  <2>3. /\ Append(waiting[f.list], c) \in Seq(DOMAIN calls')
        /\ Append(atPeer[p], c) \in Seq(DOMAIN calls')
        /\ Elements(Append(atPeer[p], c)) = Elements(atPeer[p]) \cup {c}
    BY <2>1, <2>2, Appended
  <2>4. ListsTyped'
    <3>1. waiting' = [waiting EXCEPT ![f.list] = Append(waiting[f.list], c)]
      BY <1>2, <1>3, <1>4
    <3> QED
      BY <1>2, <2>1, <2>3, <3>1, ListsChange
  <2>5. PeersTyped'
    <3>1. atPeer' = [atPeer EXCEPT ![p] = Append(atPeer[p], c)]
      BY <1>3, <1>4
    <3>2. \A d \in Elements(atPeer[p]) : d \in DOMAIN calls /\ calls[d].peer = p
      BY <1>3, ElementsOf DEF TInv
    <3>3. \A d \in Elements(Append(atPeer[p], c)) : calls'[d].peer = p
      BY <2>1, <2>3, <3>2 DEF CallsGrow, SameCalls
    <3> HIDE DEF c
    <3> QED
      BY <2>1, <2>3, <3>1, <3>3, PeersChange
  <2> QED
    BY <1>1, <1>4, <2>1, <2>4, <2>5, QueueStays, TypedNow, TypedNext
<1>5. CASE /\ waiting' = [waiting EXCEPT ![f.list] =
                             IF i = 0 THEN @ ELSE Append(RemoveAt(@, i), c)]
           /\ Enter(name, p, s, "failed")
           /\ IF f.answers THEN OnResult(first, c, FALSE) ELSE UNCHANGED answers
           /\ UNCHANGED atPeer
  <2>1. /\ CallsGrow /\ c \in DOMAIN calls' /\ c \in Calls
        /\ DOMAIN calls \subseteq DOMAIN calls'
    BY <1>5, EnterGrows DEF CallStates, CallsGrow
  <2>2. waiting[f.list] \in Seq(DOMAIN calls')
    BY <1>2, <2>1, Widened
  <2>3. i # 0 => i \in 1 .. Len(waiting[f.list])
    BY <1>2, PlaceIs
  <2> DEFINE t == IF i = 0 THEN waiting[f.list] ELSE Append(RemoveAt(waiting[f.list], i), c)
  <2>4. t \in Seq(DOMAIN calls')
    <3>1. CASE i # 0
      <4> HIDE DEF i, c
      <4>1. RemoveAt(waiting[f.list], i) \in Seq(DOMAIN calls')
        BY <2>2, <2>3, <3>1, Removed
      <4>2. Append(RemoveAt(waiting[f.list], i), c) \in Seq(DOMAIN calls')
        BY <2>1, <4>1, Appended
      <4> QED
        BY <3>1, <4>2
    <3> QED
      BY <2>2, <3>1
  <2>5. waiting' = [waiting EXCEPT ![f.list] = t]
    BY <1>2, <1>3, <1>5
  <2>6. answers' \in [Calls -> Seq(Answer)]
    <3>1. first \in Calls
      <4>1. i # 0 => waiting[f.list][i] \in DOMAIN calls
        BY <1>2, <2>3, ElementOfSeq
      <4> QED
        BY <2>1, <4>1, CallsTyped
    <3>2. UNCHANGED answers => answers' \in [Calls -> Seq(Answer)]
      BY TypedParts
    <3> HIDE DEF first, c
    <3>3. OnResult(first, c, FALSE) => answers' \in [Calls -> Seq(Answer)]
      BY <2>1, <3>1, AnswerTyped
    <3> QED
      BY <1>5, <3>2, <3>3
  <2> HIDE DEF t
  <2>7. ListsTyped'
    BY <1>2, <2>1, <2>4, <2>5, ListsChange
  <2> QED
    BY <1>1, <1>5, <2>1, <2>6, <2>7, PeersStay, QueueStays, TypedNow, TypedNext
<1> QED
  BY <1>4, <1>5 DEF BeginLocked

LEMMA CallTyped ==
    ASSUME TInv, NEW name \in Forms, NEW p \in Peers, NEW s \in SelectionsOf(name),
           Call(name, p, s)
    PROVE  TInv'
<1>1. s \in Selections \cup {All}
  BY DEF SelectionsOf
<1> QED
  BY <1>1, BeginTyped, RefuseTyped, BeginLockedTyped DEF Call

LEMMA SendTyped == ASSUME TInv, NEW c \in DOMAIN calls, Send(c) PROVE TInv'
<1> DEFINE p == calls[c].peer
<1>1. UNCHANGED << sessions, waiting, events >>
  BY DEF Send
<1>2. p \in Peers /\ c \in Calls
  BY CallsTyped
<1>3. CASE /\ atPeer' = [atPeer EXCEPT ![p] = Append(@, c)]
           /\ Goto(c, "accepted")
           /\ UNCHANGED answers
  <2>1. CallsGrow /\ DOMAIN calls' = DOMAIN calls
    BY <1>3, GotoGrows DEF CallStates
  <2>2. /\ atPeer \in [Peers -> Seq(DOMAIN calls)]
        /\ \A d \in Elements(atPeer[p]) : d \in DOMAIN calls /\ calls[d].peer = p
    BY <1>2, ElementsOf DEF TInv, TypeOK
  <2>3. /\ Append(atPeer[p], c) \in Seq(DOMAIN calls')
        /\ Elements(Append(atPeer[p], c)) = Elements(atPeer[p]) \cup {c}
    BY <1>2, <2>1, <2>2, Appended
  <2>4. atPeer' = [atPeer EXCEPT ![p] = Append(atPeer[p], c)]
    BY <1>2, <1>3, <2>2
  <2>5. \A d \in Elements(Append(atPeer[p], c)) : calls'[d].peer = p
    BY <2>1, <2>2, <2>3 DEF CallsGrow, SameCalls
  <2> HIDE DEF p
  <2>6. PeersTyped'
    BY <1>2, <2>1, <2>3, <2>4, <2>5, PeersChange
  <2> QED
    BY <1>1, <1>3, <2>1, <2>6, ListsStay, QueueStays, TypedNow, TypedNext
<1>4. CASE /\ Goto(c, "remove")
           /\ IF FormOfCall(c).answers THEN OnResult(c, c, FALSE) ELSE UNCHANGED answers
           /\ UNCHANGED atPeer
  <2>1. CallsGrow
    BY <1>4, GotoGrows DEF CallStates
  <2>2. answers' \in [Calls -> Seq(Answer)]
    BY <1>2, <1>4, AnswerTyped, TypedParts
  <2> QED
    BY <1>1, <1>4, <2>1, <2>2, ListsStay, PeersStay, QueueStays, TypedNow, TypedNext
<1> QED
  BY <1>3, <1>4 DEF Send

LEMMA RemoveCallbackTyped == ASSUME TInv, NEW c \in DOMAIN calls, RemoveCallback(c) PROVE TInv'
<1> DEFINE l == ListOf(c)
           t == Erased(waiting[l], l, KeyOf(c))
<1>1. /\ Goto(c, "failed") /\ UNCHANGED << sessions, atPeer, events, answers >>
  BY DEF RemoveCallback
<1>2. CallsGrow /\ DOMAIN calls' = DOMAIN calls
  BY <1>1, GotoGrows DEF CallStates
<1>3. l \in Lists /\ waiting \in [Lists -> Seq(DOMAIN calls)]
  BY CallsTyped DEF TInv, TypeOK
<1>4. waiting' = [waiting EXCEPT ![l] = t]
  BY <1>3 DEF RemoveCallback
<1>5. t \in Seq(DOMAIN calls')
  BY <1>2, <1>3, ErasedTyped
<1> HIDE DEF l, t
<1>6. ListsTyped'
  BY <1>2, <1>3, <1>4, <1>5, ListsChange
<1> QED
  BY <1>1, <1>2, <1>6, PeersStay, QueueStays, TypedNow, TypedNext

LEMMA OnResponseTyped ==
    ASSUME TInv, NEW p \in Peers, NEW i \in DOMAIN atPeer[p], NEW result \in BOOLEAN,
           OnResponse(p, i, result)
    PROVE  TInv'
<1> DEFINE c == atPeer[p][i]
           new == [call |-> c, result |-> result]
<1>1. /\ events' = Append(events, new) /\ UNCHANGED << calls, waiting, answers >>
      /\ atPeer' = NotTo(p) \/ atPeer' = [atPeer EXCEPT ![p] = RemoveAt(@, i)]
      /\ sessions' = sessions \/ sessions' = sessions \ {p}
  BY DEF OnResponse, Posted
<1>2. CallsGrow /\ DOMAIN calls' = DOMAIN calls
  BY <1>1, UnchangedGrow
<1>3. /\ atPeer \in [Peers -> Seq(DOMAIN calls)] /\ atPeer[p] \in Seq(DOMAIN calls)
      /\ i \in 1 .. Len(atPeer[p])
      /\ \A d \in Elements(atPeer[p]) : d \in DOMAIN calls /\ calls[d].peer = p
  BY ElementsOf, ListTyped DEF TInv, TypeOK
<1>4. QueueTyped'
  <2>1. c \in DOMAIN calls
    BY <1>3, ElementOfSeq
  <2>2. events \in Seq(Reply) /\ new \in Reply /\ Reply' = Reply
    BY <1>1, <2>1 DEF TInv, TypeOK, Reply
  <2> HIDE DEF new
  <2>3. Append(events, new) \in Seq(Reply)
    BY <2>2, Appended
  <2> QED
    BY <1>1, <2>2, <2>3 DEF QueueTyped
<1>5. PeersTyped'
  <2>1. CASE atPeer' = NotTo(p)
    <3>1. << >> \in Seq(DOMAIN calls') /\ Elements(<< >>) = {}
      BY DEF Elements
    <3>2. atPeer' = [atPeer EXCEPT ![p] = << >>]
      BY <2>1 DEF NotTo
    <3> QED
      BY <1>2, <3>1, <3>2, PeersChange
  <2>2. CASE atPeer' = [atPeer EXCEPT ![p] = RemoveAt(@, i)]
    <3>1. atPeer' = [atPeer EXCEPT ![p] = RemoveAt(atPeer[p], i)]
      BY <1>3, <2>2
    <3>2. /\ RemoveAt(atPeer[p], i) \in Seq(DOMAIN calls')
          /\ Elements(RemoveAt(atPeer[p], i)) \subseteq Elements(atPeer[p])
      BY <1>2, <1>3, Removed, ElementsRemoved
    <3>3. \A d \in Elements(RemoveAt(atPeer[p], i)) : calls'[d].peer = p
      BY <1>1, <1>3, <3>2
    <3> QED
      BY <1>2, <3>1, <3>2, <3>3, PeersChange
  <2> QED
    BY <1>1, <2>1, <2>2
<1> QED
  BY <1>1, <1>2, <1>4, <1>5, ListsStay, TypedNow, TypedNext

LEMMA ProcessEventTyped == ASSUME TInv, ProcessEvent PROVE TInv'
<1> DEFINE e == Head(events)
           l == ListOf(e.call)
           i == PlaceIn(waiting[l], l, KeyOf(e.call))
           t == Erased(waiting[l], l, KeyOf(e.call))
<1>1. /\ events # << >> /\ events' = Tail(events)
      /\ UNCHANGED << sessions, calls, atPeer >>
      /\ waiting' = [waiting EXCEPT ![l] = Erased(@, l, KeyOf(e.call))]
      /\ IF i = 0 THEN UNCHANGED answers ELSE OnResult(waiting[l][i], e.call, e.result)
  BY DEF ProcessEvent, RunCallback
<1>2. CallsGrow /\ DOMAIN calls' = DOMAIN calls
  BY <1>1, UnchangedGrow
<1>3. events \in Seq(Reply) /\ waiting \in [Lists -> Seq(DOMAIN calls)]
  BY DEF TInv, TypeOK, Reply
<1>4. Tail(events) \in Seq(Reply) /\ e \in Reply
  <2>1. /\ Tail(events) \in Seq(Reply) /\ Head(events) = events[1] /\ 1 \in DOMAIN events
        /\ DOMAIN events = 1 .. Len(events)
    BY <1>1, <1>3, Tailed
  <2> QED
    BY <1>3, <2>1, ElementOfSeq
<1>5. e.call \in DOMAIN calls /\ e.result \in BOOLEAN
  BY <1>4 DEF Reply
<1>6. l \in Lists /\ waiting[l] \in Seq(DOMAIN calls) /\ Len(waiting[l]) \in Nat
  BY <1>5, CallsTyped, ListTyped
<1>7. QueueTyped'
  BY <1>1, <1>2, <1>4 DEF QueueTyped, Reply
<1>8. waiting' = [waiting EXCEPT ![l] = t]
  BY <1>1, <1>3, <1>6
<1>9. t \in Seq(DOMAIN calls')
  BY <1>2, <1>6, ErasedTyped
<1>10. answers' \in [Calls -> Seq(Answer)]
  <2>1. i # 0 => i \in 1 .. Len(waiting[l])
    BY <1>6, PlaceIs
  <2>2. i # 0 => waiting[l][i] \in DOMAIN calls
    BY <1>6, <2>1, ElementOfSeq
  <2>3. i # 0 => waiting[l][i] \in Calls /\ e.call \in Calls
    BY <1>5, <2>2, CallsTyped
  <2> HIDE DEF e, l, i
  <2> QED
    BY <1>1, <1>5, <2>3, AnswerTyped, TypedParts
<1> HIDE DEF e, l, i, t
<1>11. ListsTyped'
  BY <1>2, <1>6, <1>8, <1>9, ListsChange
<1> QED
  BY <1>1, <1>2, <1>7, <1>10, <1>11, PeersStay, TypedNow, TypedNext

LEMMA LoseSessionTyped == ASSUME TInv, NEW p \in Peers, LoseSession(p) PROVE TInv'
<1>1. /\ sessions' = sessions \ {p} /\ atPeer' = NotTo(p) /\ UNCHANGED << calls, events, answers >>
      /\ waiting' = IF SinkLoaded
                    THEN [l \in Lists |-> IF l \in SetLists THEN << >> ELSE waiting[l]]
                    ELSE waiting
  BY DEF LoseSession
<1>2. CallsGrow /\ DOMAIN calls' = DOMAIN calls
  BY <1>1, UnchangedGrow
<1>3. ListsTyped'
  <2>1. waiting \in [Lists -> Seq(DOMAIN calls)] /\ << >> \in Seq(DOMAIN calls)
    BY DEF TInv, TypeOK
  <2> QED
    BY <1>1, <1>2, <2>1 DEF ListsTyped
<1>4. PeersTyped'
  <2>1. << >> \in Seq(DOMAIN calls') /\ Elements(<< >>) = {}
    BY DEF Elements
  <2>2. atPeer' = [atPeer EXCEPT ![p] = << >>]
    BY <1>1 DEF NotTo
  <2> QED
    BY <1>2, <2>1, <2>2, PeersChange
<1> QED
  BY <1>1, <1>2, <1>3, <1>4, QueueStays, TypedNow, TypedNext

LEMMA StutterTyped == ASSUME TInv, UNCHANGED vars PROVE TInv'
<1>1. CallsGrow
  BY UnchangedGrow DEF vars
<1> QED
  BY <1>1, ListsStay, PeersStay, QueueStays, TypedNow, TypedNext DEF vars

LEMMA InitTyped == Init => TInv
<1> SUFFICES ASSUME Init PROVE TInv
  OBVIOUS
<1>1. MaxCalls \in Nat
  BY CallAssumption
<1>2. /\ sessions \subseteq Peers /\ answers \in [Calls -> Seq(Answer)] /\ ListsTyped
  BY DEF Init, ListsTyped
<1>3. CallsFit
  BY <1>1 DEF Init, CallsFit
<1>4. PeersTyped
  BY DEF Init, PeersTyped, Elements
<1>5. QueueTyped
  BY DEF Init, QueueTyped
<1> QED
  BY <1>2, <1>3, <1>4, <1>5, TypedParts

LEMMA NextTyped == TInv /\ [Next]_vars => TInv'
<1> SUFFICES ASSUME TInv, [Next]_vars PROVE TInv'
  OBVIOUS
<1>1. ASSUME NEW name \in Forms, NEW p \in Peers, NEW s \in SelectionsOf(name), Call(name, p, s)
      PROVE  TInv'
  BY <1>1, CallTyped
<1>2. CASE Return
  BY <1>2, SendTyped, RemoveCallbackTyped DEF Return
<1>3. CASE Respond
  BY <1>3, OnResponseTyped DEF Respond
<1>4. CASE ProcessEvent
  BY <1>4, ProcessEventTyped
<1>5. ASSUME NEW p \in Peers, LoseSession(p) PROVE TInv'
  BY <1>5, LoseSessionTyped
<1>6. CASE UNCHANGED vars
  BY <1>6, StutterTyped
<1> QED
  BY <1>1, <1>2, <1>3, <1>4, <1>5, <1>6 DEF Next

LEMMA AlwaysTyped == Spec => []TInv
BY InitTyped, NextTyped, PTL DEF Spec

\* The lists, the queue and the requests at the peers hold calls that were made, whatever
\* becomes of the sessions and whoever calls.
THEOREM TypeCorrect == Spec => []TypeOK
<1>1. TInv => TypeOK
  BY DEF TInv
<1> QED
  BY <1>1, AlwaysTyped, PTL

(***************************************************************************)
(* The calls under way, as sets.                                           *)
(***************************************************************************)
\* What the types say of them.
SetsFit ==
    /\ EventCalls \in Seq(DOMAIN calls) /\ DOMAIN EventCalls = DOMAIN events
    /\ \A i \in DOMAIN events : EventCalls[i] = events[i].call
    /\ Arrived \subseteq DOMAIN calls /\ Sent \subseteq DOMAIN calls /\ Back \subseteq DOMAIN calls
    /\ \A p \in Peers : Elements(atPeer[p]) = {c \in Sent : calls[c].peer = p}
    /\ \A c \in DOMAIN calls : /\ c \in Back <=> calls[c].at \in {"send", "remove"}
                               /\ Pending(c) <=> c \in UnderWay
    /\ DOMAIN calls \subseteq Nat
    /\ \A c, d \in DOMAIN calls :
          Keys[c] = Keys[d] => ListOf(c) = ListOf(d) /\ calls[c].peer = calls[d].peer
    /\ \A c, d \in DOMAIN calls : Fits(d, ListOf(c), KeyOf(c)) <=> Keys[d] = Keys[c]

LEMMA KeysFit ==
    ASSUME TInv
    PROVE  /\ DOMAIN calls \subseteq Nat
           /\ \A c, d \in DOMAIN calls :
                 Keys[c] = Keys[d] => ListOf(c) = ListOf(d) /\ calls[c].peer = calls[d].peer
           /\ \A c, d \in DOMAIN calls : Fits(d, ListOf(c), KeyOf(c)) <=> Keys[d] = Keys[c]
<1>1. DOMAIN calls \subseteq Nat
  BY CallsTyped
<1>2. \A c \in DOMAIN calls : Keys[c] = << ListOf(c), KeyOf(c) >>
  BY DEF Keys
<1>3. \A c, d \in DOMAIN calls :
         Keys[c] = Keys[d] => ListOf(c) = ListOf(d) /\ KeyOf(c) = KeyOf(d)
  BY <1>2
<1>4. \A c, d : KeyOf(c) = KeyOf(d) => calls[c].peer = calls[d].peer
  BY DEF KeyOf
<1>5. \A c, d \in DOMAIN calls : Fits(d, ListOf(c), KeyOf(c)) <=> Keys[d] = Keys[c]
  BY <1>2, <1>3 DEF Fits
<1> QED
  BY <1>1, <1>3, <1>4, <1>5

LEMMA EventsFit ==
    ASSUME TInv
    PROVE  /\ EventCalls \in Seq(DOMAIN calls) /\ DOMAIN EventCalls = DOMAIN events
           /\ \A i \in DOMAIN events : EventCalls[i] = events[i].call
           /\ \A c : c \in Arrived <=> \E i \in DOMAIN events : events[i].call = c
<1>1. events \in Seq(Reply)
  BY DEF TInv, TypeOK, Reply
<1>2. Len(events) \in Nat /\ DOMAIN events = 1 .. Len(events)
  BY <1>1, LenProperties
<1>3. \A i \in 1 .. Len(events) : events[i].call \in DOMAIN calls
  <2>1. \A i \in 1 .. Len(events) : events[i] \in Reply
    BY <1>1, <1>2, ElementOfSeq
  <2> QED
    BY <2>1 DEF Reply
<1>4. EventCalls \in [1 .. Len(events) -> DOMAIN calls]
  BY <1>2, <1>3 DEF EventCalls
<1>5. EventCalls \in Seq(DOMAIN calls)
  BY <1>2, <1>4, SeqDef
<1>6. DOMAIN EventCalls = DOMAIN events /\ \A i \in DOMAIN events : EventCalls[i] = events[i].call
  BY DEF EventCalls
<1> QED
  BY <1>5, <1>6 DEF Arrived, Elements

LEMMA SetsAreRight == TInv => SetsFit
<1> SUFFICES ASSUME TInv PROVE SetsFit
  OBVIOUS
<1>1. Arrived \subseteq DOMAIN calls
  BY EventsFit, ElementsOf DEF Arrived
<1>2. Sent \subseteq DOMAIN calls /\ Back \subseteq DOMAIN calls
  BY DEF Sent, Back
<1>3. \A p \in Peers : Elements(atPeer[p]) = {c \in Sent : calls[c].peer = p}
  <2>1. \A p \in Peers : \A c \in Elements(atPeer[p]) : c \in DOMAIN calls /\ calls[c].peer = p
    BY ListTyped, ElementsOf DEF TInv
  <2> QED
    BY <2>1 DEF Sent
<1>4. ASSUME NEW c \in DOMAIN calls
      PROVE  /\ c \in Back <=> calls[c].at \in {"send", "remove"}
             /\ Pending(c) <=> c \in UnderWay
  <2>1. c \in Back <=> calls[c].at \in {"send", "remove"}
    BY DEF Back, Returning
  <2>2. c \in Sent <=> \E i \in DOMAIN atPeer[calls[c].peer] : atPeer[calls[c].peer][i] = c
    BY DEF Sent, Elements
  <2>3. c \in Arrived <=> \E i \in DOMAIN events : events[i].call = c
    BY EventsFit
  <2> QED
    BY <2>1, <2>2, <2>3 DEF Pending, UnderWay
<1> QED
  BY <1>1, <1>2, <1>3, <1>4, EventsFit, KeysFit DEF SetsFit

LEMMA SetsNext == TInv' => SetsFit'
BY SetsAreRight, PTL

\* What a reply tells of an old call does not change.
LEMMA OldKeys ==
    ASSUME TInv, CallsGrow
    PROVE  \A c \in DOMAIN calls : /\ c \in DOMAIN calls' /\ Keys'[c] = Keys[c]
                                   /\ ListOf(c)' = ListOf(c) /\ calls'[c].peer = calls[c].peer
<1> SUFFICES ASSUME NEW c \in DOMAIN calls
             PROVE  /\ c \in DOMAIN calls' /\ Keys'[c] = Keys[c]
                    /\ ListOf(c)' = ListOf(c) /\ calls'[c].peer = calls[c].peer
  OBVIOUS
<1>1. /\ c \in DOMAIN calls' /\ calls'[c].form = calls[c].form
      /\ calls'[c].peer = calls[c].peer /\ calls'[c].selection = calls[c].selection
  BY DEF CallsGrow, SameCalls
<1>2. ListOf(c)' = ListOf(c) /\ KeyOf(c)' = KeyOf(c)
  BY <1>1 DEF ListOf, FormOfCall, KeyOf
<1>3. Keys[c] = << ListOf(c), KeyOf(c) >> /\ Keys'[c] = << ListOf(c)', KeyOf(c)' >>
  BY <1>1 DEF Keys
<1> QED
  BY <1>1, <1>2, <1>3

(***************************************************************************)
(* What stays when the calls grow.                                         *)
(***************************************************************************)
ListsOrdered == \A l \in Lists : Sorted(waiting[l], Keys)
QueueOrdered == Sorted(EventCalls, Keys)
PeersOrdered == \A p \in Peers : Sorted(atPeer[p], Keys)
Between ==
    /\ \A c \in Arrived, d \in Sent : Keys[c] = Keys[d] => c < d
    /\ \A c \in Arrived \cup Sent, d \in Back : Keys[c] = Keys[d] => c < d

LEMMA OrderedParts == Ordered <=> ListsOrdered /\ QueueOrdered /\ PeersOrdered /\ Between
BY DEF Ordered, ListsOrdered, QueueOrdered, PeersOrdered, Between

LEMMA OrderedNext == ListsOrdered' /\ QueueOrdered' /\ PeersOrdered' /\ Between' => Ordered'
BY OrderedParts, PTL

LEMMA SortedGrows ==
    ASSUME TInv, CallsGrow, NEW s \in Seq(DOMAIN calls), Sorted(s, Keys) PROVE Sorted(s, Keys')
<1>1. Elements(s) \subseteq DOMAIN calls
  BY ElementsOf
<1>2. \A c \in Elements(s) : Keys'[c] = Keys[c]
  BY <1>1, OldKeys
<1> QED
  BY <1>2, SortedStays

LEMMA ListsOrderedStay ==
    ASSUME TInv, CallsGrow, ListsOrdered, UNCHANGED waiting PROVE ListsOrdered'
BY ListTyped, SortedGrows DEF ListsOrdered

LEMMA ListsOrderedChange ==
    ASSUME TInv, CallsGrow, ListsOrdered, NEW l \in Lists, NEW s, Sorted(s, Keys'),
           waiting' = [waiting EXCEPT ![l] = s]
    PROVE  ListsOrdered'
<1>1. \A m \in Lists : Sorted(waiting[m], Keys')
  BY ListTyped, SortedGrows DEF ListsOrdered
<1>2. \A m \in Lists : waiting'[m] = IF m = l THEN s ELSE waiting[m]
  BY DEF TInv, TypeOK
<1> QED
  BY <1>1, <1>2 DEF ListsOrdered

LEMMA PeersOrderedStay ==
    ASSUME TInv, CallsGrow, PeersOrdered, UNCHANGED atPeer PROVE PeersOrdered'
BY ListTyped, SortedGrows DEF PeersOrdered

LEMMA PeersOrderedChange ==
    ASSUME TInv, CallsGrow, PeersOrdered, NEW p \in Peers, NEW s, Sorted(s, Keys'),
           atPeer' = [atPeer EXCEPT ![p] = s]
    PROVE  PeersOrdered'
<1>1. \A m \in Peers : Sorted(atPeer[m], Keys')
  BY ListTyped, SortedGrows DEF PeersOrdered
<1>2. \A m \in Peers : atPeer'[m] = IF m = p THEN s ELSE atPeer[m]
  BY DEF TInv, TypeOK
<1> QED
  BY <1>1, <1>2 DEF PeersOrdered

LEMMA QueueOrderedStays ==
    ASSUME TInv, CallsGrow, QueueOrdered, UNCHANGED events
    PROVE  QueueOrdered' /\ Arrived' = Arrived
<1>1. EventCalls' = EventCalls
  BY DEF EventCalls
<1>2. Sorted(EventCalls, Keys')
  BY EventsFit, SortedGrows DEF QueueOrdered
<1> QED
  BY <1>1, <1>2 DEF QueueOrdered, Arrived

LEMMA SentStays ==
    ASSUME TInv, TInv', CallsGrow, UNCHANGED atPeer PROVE Sent' = Sent
<1>1. SetsFit /\ SetsFit'
  BY SetsAreRight, SetsNext
<1>2. ASSUME NEW c \in Sent PROVE c \in Sent'
  <2>1. c \in Elements(atPeer[calls[c].peer]) /\ calls[c].peer \in Peers
    BY <1>2, CallsTyped DEF Sent
  <2> QED
    BY <1>1, <2>1 DEF SetsFit
<1>3. ASSUME NEW c \in Sent' PROVE c \in Sent
  <2>1. c \in Elements(atPeer[calls'[c].peer]) /\ c \in DOMAIN calls'
    BY <1>3 DEF Sent
  <2>2. calls'[c].peer \in Peers
    <3>1. calls' \in Seq(CallRecord)
      BY DEF CallsGrow
    <3>2. calls'[c] \in CallRecord
      BY <2>1, <3>1, LenProperties, ElementOfSeq
    <3> QED
      BY <3>2 DEF CallRecord
  <2> QED
    BY <1>1, <2>1, <2>2 DEF SetsFit
<1> QED
  BY <1>2, <1>3

LEMMA WaitingStays ==
    ASSUME TInv, TInv', CallsGrow, WaitingIsUnderWay, UNCHANGED waiting, UnderWay' = UnderWay
    PROVE  WaitingIsUnderWay'
<1>1. UnderWay \subseteq DOMAIN calls
  BY SetsAreRight DEF SetsFit, UnderWay
<1> QED
  BY <1>1, OldKeys DEF WaitingIsUnderWay

LEMMA WaitingAdds ==
    ASSUME TInv, TInv', CallsGrow, WaitingIsUnderWay, NEW l \in Lists, NEW n, NEW s,
           waiting' = [waiting EXCEPT ![l] = s], Elements(s) = Elements(waiting[l]) \cup {n},
           ListOf(n)' = l, UnderWay' = UnderWay \cup {n}
    PROVE  WaitingIsUnderWay'
<1>1. UnderWay \subseteq DOMAIN calls
  BY SetsAreRight DEF SetsFit, UnderWay
<1>2. \A m \in Lists : waiting'[m] = IF m = l THEN s ELSE waiting[m]
  BY DEF TInv, TypeOK
<1>3. \A m \in Lists : Elements(waiting[m]) = {c \in UnderWay : ListOf(c)' = m}
  BY <1>1, OldKeys DEF WaitingIsUnderWay
<1>4. \A m \in Lists : Elements(waiting'[m]) = {c \in UnderWay' : ListOf(c)' = m}
  <2> SUFFICES ASSUME NEW m \in Lists PROVE Elements(waiting'[m]) = {c \in UnderWay' : ListOf(c)' = m}
    OBVIOUS
  <2>1. CASE m = l
    BY <1>2, <1>3, <2>1
  <2>2. CASE m # l
    BY <1>2, <1>3, <2>2
  <2> QED
    BY <2>1, <2>2
<1> QED
  BY <1>4 DEF WaitingIsUnderWay

LEMMA WaitingDrops ==
    ASSUME TInv, TInv', CallsGrow, WaitingIsUnderWay, NEW l \in Lists, NEW n, NEW s,
           waiting' = [waiting EXCEPT ![l] = s], Elements(s) = Elements(waiting[l]) \ {n},
           ListOf(n) = l, n \in DOMAIN calls, UnderWay' = UnderWay \ {n}
    PROVE  WaitingIsUnderWay'
<1>1. UnderWay \subseteq DOMAIN calls
  BY SetsAreRight DEF SetsFit, UnderWay
<1>2. \A m \in Lists : waiting'[m] = IF m = l THEN s ELSE waiting[m]
  BY DEF TInv, TypeOK
<1>3. \A m \in Lists : Elements(waiting[m]) = {c \in UnderWay : ListOf(c)' = m}
  BY <1>1, OldKeys DEF WaitingIsUnderWay
<1>4. ListOf(n)' = l
  BY OldKeys
<1>5. \A m \in Lists : Elements(waiting'[m]) = {c \in UnderWay' : ListOf(c)' = m}
  <2> SUFFICES ASSUME NEW m \in Lists PROVE Elements(waiting'[m]) = {c \in UnderWay' : ListOf(c)' = m}
    OBVIOUS
  <2>1. CASE m = l
    BY <1>2, <1>3, <2>1
  <2>2. CASE m # l
    BY <1>2, <1>3, <1>4, <2>2
  <2> QED
    BY <2>1, <2>2
<1> QED
  BY <1>5 DEF WaitingIsUnderWay

LEMMA UnprepareStaysAlone ==
    ASSUME TInv, CallsGrow, UnprepareAlone, UnderWay' \subseteq UnderWay PROVE UnprepareAlone'
<1>1. UnderWay \subseteq DOMAIN calls
  BY SetsAreRight DEF SetsFit, UnderWay
<1> QED
  BY <1>1, OldKeys DEF UnprepareAlone

\* What was found in a list is under way, and first of its key.
LEMMA Found ==
    ASSUME TInv, WaitingIsUnderWay, NEW l \in Lists, NEW k,
           PlaceIn(waiting[l], l, k) # 0
    PROVE  /\ PlaceIn(waiting[l], l, k) \in 1 .. Len(waiting[l])
           /\ waiting[l][PlaceIn(waiting[l], l, k)] \in UnderWay
           /\ Fits(waiting[l][PlaceIn(waiting[l], l, k)], l, k)
<1>1. waiting[l] \in Seq(DOMAIN calls) /\ Len(waiting[l]) \in Nat
  BY ListTyped
<1>2. /\ PlaceIn(waiting[l], l, k) \in 1 .. Len(waiting[l])
      /\ Fits(waiting[l][PlaceIn(waiting[l], l, k)], l, k)
  BY <1>1, PlaceIs
<1>3. waiting[l][PlaceIn(waiting[l], l, k)] \in Elements(waiting[l])
  BY <1>1, <1>2, LenProperties DEF Elements
<1> QED
  BY <1>2, <1>3 DEF WaitingIsUnderWay

LEMMA MustBeFound ==
    ASSUME TInv, WaitingIsUnderWay, NEW c \in UnderWay
    PROVE  PlaceIn(waiting[ListOf(c)], ListOf(c), KeyOf(c)) # 0
<1> DEFINE l == ListOf(c)
<1>1. c \in DOMAIN calls
  BY SetsAreRight DEF SetsFit, UnderWay
<1>2. l \in Lists /\ waiting[l] \in Seq(DOMAIN calls) /\ Len(waiting[l]) \in Nat
  BY <1>1, CallsTyped, ListTyped
<1>3. c \in Elements(waiting[l]) /\ DOMAIN waiting[l] = 1 .. Len(waiting[l])
  BY <1>2, LenProperties DEF WaitingIsUnderWay
<1>4. PICK i \in 1 .. Len(waiting[l]) : waiting[l][i] = c
  BY <1>3 DEF Elements
<1>5. Fits(waiting[l][i], l, KeyOf(c))
  BY <1>4 DEF Fits
<1> HIDE DEF l
<1>6. PlaceIn(waiting[l], l, KeyOf(c)) # 0
  BY <1>2, <1>5, PlaceIs
<1> QED
  BY <1>6 DEF l

LEMMA AnswerOnce ==
    ASSUME TInv, NEW c \in Calls, NEW result \in BOOLEAN, answers[c] = << >>,
           OnResult(c, c, result)
    PROVE  /\ Len(answers'[c]) <= 1 /\ \A i \in DOMAIN answers'[c] : answers'[c][i].of = c
           /\ \A d \in Calls : d # c => answers'[d] = answers[d]
<1>1. /\ answers'[c] = Append(<< >>, [of |-> c, result |-> result])
      /\ \A d \in Calls : d # c => answers'[d] = answers[d]
  BY AnswerTyped
<1>2. << >> \in Seq(Answer) /\ Len(<< >>) = 0 /\ [of |-> c, result |-> result] \in Answer
  BY DEF Answer
<1> DEFINE new == [of |-> c, result |-> result]
<1>3. new.of = c
  OBVIOUS
<1> HIDE DEF new
<1>4. /\ Len(Append(<< >>, new)) = 1 /\ DOMAIN Append(<< >>, new) = 1 .. 1
      /\ Append(<< >>, new)[1] = new
  <2>1. new \in Answer
    BY <1>2 DEF new
  <2>2. /\ Len(Append(<< >>, new)) = Len(<< >>) + 1
        /\ DOMAIN Append(<< >>, new) = 1 .. Len(<< >>) + 1
        /\ Append(<< >>, new)[Len(<< >>) + 1] = new
    BY <1>2, <2>1, Appended
  <2> QED
    BY <1>2, <2>2
<1>5. answers'[c] = Append(<< >>, new)
  BY <1>1 DEF new
<1> QED
  BY <1>1, <1>3, <1>4, <1>5

(***************************************************************************)
(* A new call.                                                             *)
(***************************************************************************)
\* What the new call n is, and which calls are like it.
IsNew(n, name, p, s, state) ==
    /\ CallsGrow /\ DOMAIN calls' = DOMAIN calls \cup {n}
    /\ n \in Calls \ DOMAIN calls
    /\ ListOf(n)' = FormOf[name].list
    /\ calls'[n].peer = p /\ calls'[n].at = state
    /\ \A c \in DOMAIN calls :
          /\ c < n /\ calls'[c] = calls[c]
          /\ Keys'[c] = Keys'[n] =>
                /\ ListOf(c) = FormOf[name].list /\ KeyOf(c) = << p, s >>
                /\ calls[c].peer = p

LEMMA NewCall ==
    ASSUME TInv, NEW name \in Forms, NEW p \in Peers, NEW s \in Selections \cup {All},
           NEW state \in CallStates, Len(calls) < MaxCalls, Enter(name, p, s, state),
           NEW n, n = Len(calls) + 1
    PROVE  IsNew(n, name, p, s, state)
<1>1. /\ CallsGrow /\ n \in Calls \ DOMAIN calls
      /\ DOMAIN calls' = DOMAIN calls \cup {n}
      /\ \A c \in DOMAIN calls : calls'[c] = calls[c]
      /\ calls'[n] = [form |-> name, peer |-> p, selection |-> s, at |-> state]
  BY EnterGrows
<1>2. \A c \in DOMAIN calls : c < n
  BY CallsTyped
<1>3. /\ calls'[n].form = name /\ calls'[n].peer = p /\ calls'[n].selection = s
      /\ calls'[n].at = state
  BY <1>1
<1>4. ListOf(n)' = FormOf[name].list /\ KeyOf(n)' = << p, s >>
  BY <1>3 DEF ListOf, FormOfCall, KeyOf
<1>5. Keys'[n] = << ListOf(n)', KeyOf(n)' >>
  BY <1>1 DEF Keys
<1>6. ASSUME NEW c \in DOMAIN calls, Keys'[c] = Keys'[n]
      PROVE  ListOf(c) = FormOf[name].list /\ KeyOf(c) = << p, s >> /\ calls[c].peer = p
  <2>1. Keys'[c] = Keys[c] /\ Keys[c] = << ListOf(c), KeyOf(c) >>
    BY <1>1, OldKeys DEF Keys
  <2>2. ListOf(c) = FormOf[name].list /\ KeyOf(c) = << p, s >>
    BY <1>4, <1>5, <1>6, <2>1
  <2> QED
    BY <2>2 DEF KeyOf
<1> QED
  BY <1>1, <1>2, <1>3, <1>4, <1>6 DEF IsNew

LEMMA MayCallSays ==
    ASSUME TInv, NEW f, NEW p, NEW k, MayCall(f, p, k), NEW c \in UnderWay, calls[c].peer = p
    PROVE  /\ ListOf(c) \notin Unpreparing /\ f.list \notin Unpreparing
           /\ f.list \in SetLists => ListOf(c) # f.list
           /\ ListOf(c) = f.list /\ KeyOf(c) = k => c \notin Back
<1>1. c \in DOMAIN calls /\ Pending(c) /\ (c \in Back <=> calls[c].at \in {"send", "remove"})
  BY SetsAreRight DEF SetsFit, UnderWay
<1> QED
  BY <1>1 DEF MayCall

\* A call that is refused or fails at once changes nothing of those under way.
LEMMA NewCallEnds ==
    ASSUME TInv, TInv', StepInv, NEW name \in Forms, NEW p \in Peers,
           NEW s \in Selections \cup {All}, NEW state \in {"failed", "refused"},
           Len(calls) < MaxCalls, Enter(name, p, s, state),
           UNCHANGED << sessions, waiting, atPeer, events >>,
           UNCHANGED answers \/ OnResult(Len(calls) + 1, Len(calls) + 1, FALSE)
    PROVE  StepInv'
<1>0. PICK n : n = Len(calls) + 1
  OBVIOUS
<1>1. /\ CallsGrow /\ DOMAIN calls' = DOMAIN calls \cup {n} /\ n \in Calls \ DOMAIN calls
      /\ calls'[n].at = state /\ \A c \in DOMAIN calls : calls'[c] = calls[c]
  <2>1. state \in CallStates
    BY DEF CallStates
  <2>2. IsNew(n, name, p, s, state)
    BY <1>0, <2>1, NewCall
  <2> QED
    BY <2>2 DEF IsNew
<1>2. SetsFit /\ SetsFit'
  BY SetsAreRight, SetsNext
<1>3. QueueOrdered' /\ Arrived' = Arrived /\ Sent' = Sent
  BY <1>1, QueueOrderedStays, SentStays, OrderedParts DEF StepInv
<1>4. Back' = Back
  BY <1>1 DEF Back, Returning
<1>5. UnderWay' = UnderWay /\ UnderWay \subseteq DOMAIN calls
  BY <1>2, <1>3, <1>4 DEF UnderWay, SetsFit
<1>6. WaitingIsUnderWay'
  BY <1>1, <1>5, WaitingStays DEF StepInv
<1>7. Ordered'
  <2>1. ListsOrdered' /\ PeersOrdered'
    BY <1>1, ListsOrderedStay, PeersOrderedStay, OrderedParts DEF StepInv
  <2>2. Between'
    BY <1>1, <1>3, <1>4, <1>5, OldKeys, OrderedParts DEF StepInv, Between, UnderWay
  <2> QED
    BY <1>3, <2>1, <2>2, OrderedNext
<1>8. UnprepareAlone'
  BY <1>1, <1>5, UnprepareStaysAlone DEF StepInv
<1>9. SessionsHeld' /\ ReturningAlone'
  BY <1>1, <1>3, <1>4, <1>5, OldKeys DEF StepInv, SessionsHeld, ReturningAlone, UnderWay
<1>10. AnsweredOnce'
  <2>1. answers[n] = << >>
    BY <1>1 DEF StepInv, AnsweredOnce
  <2>2. /\ \A c \in Calls : c # n => answers'[c] = answers[c]
        /\ Len(answers'[n]) <= 1 /\ \A i \in DOMAIN answers'[n] : answers'[n][i].of = n
    <3>1. CASE UNCHANGED answers
      BY <2>1, <3>1
    <3>2. CASE OnResult(n, n, FALSE)
      BY <1>1, <2>1, <3>2, AnswerOnce
    <3> QED
      BY <1>0, <3>1, <3>2
  <2>3. DOMAIN calls \subseteq Calls
    BY CallsTyped
  <2>4. OwnAnswer'
    BY <1>1, <2>2, <2>3 DEF StepInv, AnsweredOnce, OwnAnswer
  <2>5. \A c \in Arrived' \cup Sent' : answers'[c] = << >>
    BY <1>1, <1>3, <1>5, <2>2, <2>3 DEF StepInv, AnsweredOnce, UnderWay
  <2>6. \A c \in DOMAIN calls' : calls'[c].at = "send" => answers'[c] = << >>
    BY <1>1, <2>2, <2>3 DEF StepInv, AnsweredOnce
  <2>7. \A c \in Calls \ DOMAIN calls' : answers'[c] = << >>
    BY <1>1, <2>2 DEF StepInv, AnsweredOnce
  <2> QED
    BY <2>4, <2>5, <2>6, <2>7 DEF AnsweredOnce
<1> QED
  BY <1>6, <1>7, <1>8, <1>9, <1>10 DEF StepInv

\* A call that is under way from now on, and waits in its list.
LEMMA NewCallWaits ==
    ASSUME TInv, TInv', StepInv, NEW name \in Forms, NEW p \in Peers,
           NEW s \in Selections \cup {All}, NEW state \in CallStates, NEW n,
           IsNew(n, name, p, s, state), MayCall(FormOf[name], p, << p, s >>),
           waiting' = [waiting EXCEPT ![FormOf[name].list] = Append(waiting[FormOf[name].list], n)],
           UnderWay' = UnderWay \cup {n}
    PROVE  /\ WaitingIsUnderWay' /\ ListsOrdered' /\ UnprepareAlone'
           /\ \A c \in UnderWay : c # n /\ (Keys'[c] = Keys'[n] => c \notin Back)
<1> DEFINE l == FormOf[name].list
<1>1. /\ CallsGrow /\ DOMAIN calls' = DOMAIN calls \cup {n} /\ n \in Calls \ DOMAIN calls
      /\ ListOf(n)' = l /\ calls'[n].peer = p
      /\ \A c \in DOMAIN calls : c < n /\ calls'[c] = calls[c]
  BY DEF IsNew
<1>2. UnderWay \subseteq DOMAIN calls /\ DOMAIN calls \subseteq Nat
  BY SetsAreRight DEF SetsFit, UnderWay
<1>3. l \in Lists /\ waiting[l] \in Seq(DOMAIN calls)
  BY NameFits, ListTyped
<1> HIDE DEF l
<1>4. DOMAIN calls' \subseteq Nat /\ waiting[l] \in Seq(DOMAIN calls')
  <2>1. DOMAIN calls' \subseteq Nat
    BY SetsNext DEF SetsFit
  <2> QED
    BY <1>1, <1>3, <2>1, Widened DEF CallsGrow
<1>5. Elements(Append(waiting[l], n)) = Elements(waiting[l]) \cup {n}
  BY <1>1, <1>4, Appended
<1>6. waiting' = [waiting EXCEPT ![l] = Append(waiting[l], n)]
  BY DEF l
<1>7. WaitingIsUnderWay'
  BY <1>1, <1>3, <1>5, <1>6, WaitingAdds DEF StepInv
<1>8. ListsOrdered'
  <2>1. Sorted(waiting[l], Keys')
    BY <1>1, <1>3, SortedGrows, OrderedParts DEF StepInv, ListsOrdered
  <2>2. \A d \in Elements(waiting[l]) : d < n
    BY <1>1, <1>3, ElementsOf
  <2>3. Sorted(Append(waiting[l], n), Keys')
    BY <1>1, <1>4, <2>1, <2>2, SortedAppend
  <2> QED
    BY <1>1, <1>3, <1>6, <2>3, ListsOrderedChange, OrderedParts DEF StepInv
<1>9. \A c \in UnderWay : c # n /\ (Keys'[c] = Keys'[n] => c \notin Back)
  <2> SUFFICES ASSUME NEW c \in UnderWay, Keys'[c] = Keys'[n] PROVE c \notin Back
    BY <1>1, <1>2
  <2>1. ListOf(c) = FormOf[name].list /\ KeyOf(c) = << p, s >> /\ calls[c].peer = p
    BY <1>2 DEF IsNew
  <2> QED
    BY <2>1, MayCallSays
<1>10. UnprepareAlone'
  <2>1. ASSUME NEW c \in UnderWay, calls[c].peer = p
        PROVE  ListOf(c) \notin Unpreparing /\ l \notin Unpreparing
    BY <2>1, MayCallSays DEF l
  <2>2. \A c \in UnderWay : ListOf(c)' = ListOf(c) /\ calls'[c].peer = calls[c].peer
    BY <1>1, <1>2, OldKeys
  <2>3. ASSUME NEW c \in UnderWay \cup {n}, NEW d \in UnderWay \cup {n},
               calls'[c].peer = calls'[d].peer, ListOf(c)' \in Unpreparing
        PROVE  c = d
    <3>1. CASE c \in UnderWay /\ d \in UnderWay
      BY <2>2, <2>3, <3>1 DEF StepInv, UnprepareAlone
    <3>2. CASE c \in UnderWay /\ d = n
      BY <1>1, <2>1, <2>2, <2>3, <3>2
    <3>3. CASE c = n /\ d \in UnderWay
      BY <1>1, <2>1, <2>2, <2>3, <3>3
    <3> QED
      BY <2>3, <3>1, <3>2, <3>3
  <2> QED
    BY <2>3 DEF UnprepareAlone
<1> QED
  BY <1>7, <1>8, <1>9, <1>10 DEF l

LEMMA NewCallUnanswered ==
    ASSUME TInv, AnsweredOnce, NEW n, NEW name, NEW p, NEW s, NEW state,
           IsNew(n, name, p, s, state), UNCHANGED answers,
           Arrived' \cup Sent' \subseteq Arrived \cup Sent \cup {n}
    PROVE  AnsweredOnce'
<1>1. /\ DOMAIN calls' = DOMAIN calls \cup {n} /\ n \in Calls \ DOMAIN calls
      /\ \A c \in DOMAIN calls : calls'[c] = calls[c]
  BY DEF IsNew
<1>2. answers[n] = << >>
  BY <1>1 DEF AnsweredOnce
<1>3. OwnAnswer'
  BY <1>1, <1>2 DEF AnsweredOnce, OwnAnswer
<1>4. /\ \A c \in Arrived' \cup Sent' : answers'[c] = << >>
      /\ \A c \in DOMAIN calls' : calls'[c].at = "send" => answers'[c] = << >>
      /\ \A c \in Calls \ DOMAIN calls' : answers'[c] = << >>
  BY <1>1, <1>2 DEF AnsweredOnce
<1> QED
  BY <1>3, <1>4 DEF AnsweredOnce

LEMMA RefuseKeeps ==
    ASSUME TInv, TInv', StepInv, NEW name \in Forms, NEW p \in Peers,
           NEW s \in Selections \cup {All}, Len(calls) < MaxCalls, Refuse(name, p, s)
    PROVE  StepInv'
BY NewCallEnds DEF Refuse

LEMMA BeginKeeps ==
    ASSUME TInv, TInv', StepInv, NEW name \in Forms, NEW p \in Peers,
           NEW s \in Selections \cup {All}, Len(calls) < MaxCalls, Begin(name, p, s),
           MayCall(FormOf[name], p, << p, s >>)
    PROVE  StepInv'
<1> DEFINE f == FormOf[name]
           l == f.list
<1>0. PICK n : n = Len(calls) + 1
  OBVIOUS
<1>1. UNCHANGED << atPeer, events, answers >>
  BY DEF Begin
<1>2. CASE Enter(name, p, s, "failed") /\ UNCHANGED << sessions, waiting >>
  BY <1>1, <1>2, NewCallEnds
<1>3. CASE /\ sessions' = OpenInputSoftbus(f, p, s)
           /\ waiting' = [waiting EXCEPT ![l] = Entered(@, f, << p, s >>, Len(calls) + 1)]
           /\ Enter(name, p, s, "send")
  <2>1. IsNew(n, name, p, s, "send")
    BY <1>0, <1>3, NewCall DEF CallStates
  <2>2. /\ CallsGrow /\ DOMAIN calls' = DOMAIN calls \cup {n} /\ n \notin DOMAIN calls
        /\ calls'[n].peer = p /\ calls'[n].at = "send"
        /\ \A c \in DOMAIN calls : c < n /\ calls'[c] = calls[c]
    BY <2>1 DEF IsNew
  <2>3. l \in Lists /\ FormFits(f) /\ waiting \in [Lists -> Seq(DOMAIN calls)]
    BY NameFits DEF TInv, TypeOK
  <2>4. Entered(waiting[l], f, << p, s >>, n) = Append(waiting[l], n)
    <3>1. f.set => PlaceIn(waiting[l], l, << p, s >>) = 0
      <4> SUFFICES ASSUME f.set, PlaceIn(waiting[l], l, << p, s >>) # 0 PROVE FALSE
        OBVIOUS
      <4>1. PICK c \in UnderWay : Fits(c, l, << p, s >>)
        BY <2>3, Found DEF StepInv
      <4>2. ListOf(c) = l /\ calls[c].peer = p
        BY <4>1 DEF Fits, KeyOf
      <4>3. l \in SetLists
        BY <2>3 DEF FormFits
      <4> QED
        BY <4>2, <4>3, MayCallSays
    <3> QED
      BY <3>1 DEF Entered
  <2>5. waiting' = [waiting EXCEPT ![l] = Append(waiting[l], n)]
    BY <1>0, <1>3, <2>3, <2>4
  <2>6. QueueOrdered' /\ Arrived' = Arrived /\ Sent' = Sent
    BY <1>1, <2>2, QueueOrderedStays, SentStays, OrderedParts DEF StepInv
  <2>7. Back' = Back \cup {n}
    BY <2>2 DEF Back, Returning
  <2>8. UnderWay' = UnderWay \cup {n} /\ UnderWay \subseteq DOMAIN calls
    BY <2>6, <2>7, SetsAreRight DEF UnderWay, SetsFit
  <2> HIDE DEF f, l
  <2>9. /\ WaitingIsUnderWay' /\ ListsOrdered' /\ UnprepareAlone'
        /\ \A c \in UnderWay : c # n /\ (Keys'[c] = Keys'[n] => c \notin Back)
    BY <2>1, <2>5, <2>8, NewCallWaits DEF CallStates, f, l
  <2>10. AnsweredOnce'
    BY <1>1, <2>1, <2>6, NewCallUnanswered DEF StepInv
  <2>11. PeersOrdered'
    BY <1>1, <2>2, PeersOrderedStay, OrderedParts DEF StepInv
  <2>12. \A c \in UnderWay : Keys'[c] = Keys[c] /\ c < n
    BY <2>2, <2>8, OldKeys
  <2>13. Between'
    BY <2>6, <2>7, <2>12, OrderedParts DEF StepInv, Between, UnderWay
  <2>14. SessionsHeld'
    <3>1. sessions \subseteq sessions'
      BY <1>3 DEF OpenInputSoftbus
    <3> QED
      BY <2>2, <2>6, <2>8, <3>1, OldKeys DEF StepInv, SessionsHeld, UnderWay
  <2>15. ReturningAlone'
    <3>1. \A c \in DOMAIN calls : calls[c].at = "remove" => c \in Back
      BY DEF Back, Returning
    <3>2. ASSUME NEW c \in UnderWay \cup {n}, NEW d \in UnderWay \cup {n}, Keys'[c] = Keys'[d]
          PROVE  /\ c \in Back \cup {n} /\ d \in Back \cup {n} => c = d
                 /\ calls'[c].at = "remove" => c = d
      <4>1. CASE c \in UnderWay /\ d \in UnderWay
        BY <2>2, <2>8, <2>9, <2>12, <3>2, <4>1 DEF StepInv, ReturningAlone
      <4>2. CASE c = n \/ d = n
        BY <2>2, <2>8, <2>9, <3>1, <3>2, <4>2
      <4> QED
        BY <3>2, <4>1, <4>2
    <3> QED
      BY <2>7, <2>8, <3>2 DEF ReturningAlone
  <2> QED
    BY <2>6, <2>9, <2>10, <2>11, <2>13, <2>14, <2>15, OrderedNext DEF StepInv
<1> QED
  BY <1>2, <1>3 DEF Begin

LEMMA BeginLockedKeeps ==
    ASSUME TInv, TInv', StepInv, NEW name \in Forms, NEW p \in Peers,
           NEW s \in Selections \cup {All}, Len(calls) < MaxCalls, BeginLocked(name, p, s),
           MayCall(FormOf[name], p, << p, s >>)
    PROVE  StepInv'
<1> DEFINE f == FormOf[name]
           l == f.list
           i == PlaceIn(waiting[l], l, << p, s >>)
<1>0. PICK n : n = Len(calls) + 1
  OBVIOUS
<1>1. UNCHANGED << sessions, events >> /\ f.locked
  BY DEF BeginLocked
<1>2. l \in Lists /\ l \notin SetLists /\ waiting \in [Lists -> Seq(DOMAIN calls)]
  BY <1>1, NameFits DEF TInv, TypeOK, FormFits
<1>3. CASE /\ p \in sessions
           /\ waiting' = [waiting EXCEPT ![l] = Append(@, Len(calls) + 1)]
           /\ atPeer' = [atPeer EXCEPT ![p] = Append(@, Len(calls) + 1)]
           /\ Enter(name, p, s, "accepted")
           /\ UNCHANGED answers
  <2>1. IsNew(n, name, p, s, "accepted")
    BY <1>0, <1>3, NewCall DEF CallStates
  <2>2. /\ CallsGrow /\ DOMAIN calls' = DOMAIN calls \cup {n} /\ n \notin DOMAIN calls
        /\ calls'[n].peer = p /\ calls'[n].at = "accepted"
        /\ \A c \in DOMAIN calls : c < n /\ calls'[c] = calls[c]
    BY <2>1 DEF IsNew
  <2>3. waiting' = [waiting EXCEPT ![l] = Append(waiting[l], n)]
    BY <1>0, <1>2, <1>3
  <2>4. QueueOrdered' /\ Arrived' = Arrived
    BY <1>1, <2>2, QueueOrderedStays, OrderedParts DEF StepInv
  <2>5. Back' = Back
    BY <2>2 DEF Back, Returning
  <2>6. /\ atPeer \in [Peers -> Seq(DOMAIN calls)]
        /\ atPeer' = [atPeer EXCEPT ![p] = Append(atPeer[p], n)]
    BY <1>0, <1>3 DEF TInv, TypeOK
  <2>7. /\ Append(atPeer[p], n) \in Seq(DOMAIN calls') /\ atPeer[p] \in Seq(DOMAIN calls')
        /\ Elements(Append(atPeer[p], n)) = Elements(atPeer[p]) \cup {n}
    <3>1. atPeer[p] \in Seq(DOMAIN calls')
      BY <2>2, <2>6, Widened DEF CallsGrow
    <3> QED
      BY <2>2, <3>1, Appended
  <2>8. Sent' = Sent \cup {n}
    <3>1. \A c \in DOMAIN calls : calls[c].peer \in Peers
      BY CallsTyped
    <3>2. \A c \in DOMAIN calls : c # n /\ calls'[c].peer = calls[c].peer
      BY <2>2
    <3>3. \A c \in DOMAIN calls :
            c \in Elements(atPeer'[calls'[c].peer]) <=> c \in Elements(atPeer[calls[c].peer])
      BY <2>6, <2>7, <3>1, <3>2
    <3>4. n \in Elements(atPeer'[calls'[n].peer])
      BY <2>2, <2>6, <2>7
    <3> QED
      BY <2>2, <3>3, <3>4 DEF Sent
  <2>9. UnderWay' = UnderWay \cup {n} /\ UnderWay \subseteq DOMAIN calls
    BY <2>4, <2>5, <2>8, SetsAreRight DEF UnderWay, SetsFit
  <2> HIDE DEF f, l
  <2>10. /\ WaitingIsUnderWay' /\ ListsOrdered' /\ UnprepareAlone'
         /\ \A c \in UnderWay : c # n /\ (Keys'[c] = Keys'[n] => c \notin Back)
    BY <2>1, <2>3, <2>9, NewCallWaits DEF CallStates, f, l
  <2>11. AnsweredOnce'
    BY <1>3, <2>1, <2>4, <2>8, NewCallUnanswered DEF StepInv
  <2>12. \A c \in UnderWay : Keys'[c] = Keys[c] /\ c < n
    BY <2>2, <2>9, OldKeys
  <2>13. PeersOrdered'
    <3>1. Sorted(atPeer[p], Keys')
      BY <2>2, <2>6, SortedGrows, OrderedParts DEF StepInv, PeersOrdered
    <3>2. \A d \in Elements(atPeer[p]) : d < n
      BY <2>2, <2>6, ElementsOf
    <3>3. DOMAIN calls' \subseteq Nat
      BY SetsNext DEF SetsFit
    <3>4. Sorted(Append(atPeer[p], n), Keys')
      BY <2>2, <2>7, <3>1, <3>2, <3>3, SortedAppend
    <3> QED
      BY <2>2, <2>6, <3>4, PeersOrderedChange, OrderedParts DEF StepInv
  <2>14. Between'
    BY <2>4, <2>5, <2>8, <2>10, <2>12, OrderedParts DEF StepInv, Between, UnderWay
  <2>15. SessionsHeld'
    <3>1. \A c \in UnderWay : ListOf(c)' = ListOf(c) /\ calls'[c].peer = calls[c].peer
      BY <2>2, <2>9, OldKeys
    <3> QED
      BY <1>1, <1>3, <2>2, <2>4, <2>8, <3>1 DEF StepInv, SessionsHeld, UnderWay
  <2>16. ReturningAlone'
    <3>1. \A c \in DOMAIN calls : calls[c].at = "remove" => c \in Back
      BY DEF Back, Returning
    <3>2. ASSUME NEW c \in UnderWay \cup {n}, NEW d \in UnderWay \cup {n}, Keys'[c] = Keys'[d]
          PROVE  /\ c \in Back /\ d \in Back => c = d
                 /\ calls'[c].at = "remove" => c = d
      <4>1. CASE c \in UnderWay /\ d \in UnderWay
        BY <2>2, <2>9, <2>12, <3>2, <4>1 DEF StepInv, ReturningAlone
      <4>2. CASE c = n \/ d = n
        <5>1. n \notin Back
          BY <2>2 DEF Back
        <5> QED
          BY <2>2, <2>9, <2>10, <3>1, <3>2, <4>2, <5>1
      <4> QED
        BY <3>2, <4>1, <4>2
    <3> QED
      BY <2>5, <2>9, <3>2 DEF ReturningAlone
  <2> QED
    BY <2>4, <2>10, <2>11, <2>13, <2>14, <2>15, <2>16, OrderedNext DEF StepInv
<1>4. CASE /\ p \notin sessions
           /\ waiting' = [waiting EXCEPT ![l] =
                              IF i = 0 THEN @ ELSE Append(RemoveAt(@, i), Len(calls) + 1)]
           /\ Enter(name, p, s, "failed")
           /\ \/ OnResult(IF i = 0 THEN Len(calls) + 1 ELSE waiting[l][i], Len(calls) + 1, FALSE)
              \/ UNCHANGED answers
           /\ UNCHANGED atPeer
  <2>1. i = 0
    <3> SUFFICES ASSUME i # 0 PROVE FALSE
      OBVIOUS
    <3>1. PICK c \in UnderWay : Fits(c, l, << p, s >>)
      BY <1>2, Found DEF StepInv
    <3>2. ListOf(c) = l /\ KeyOf(c) = << p, s >> /\ calls[c].peer = p
      BY <3>1 DEF Fits, KeyOf
    <3>3. c \in Arrived \cup Sent
      BY <3>2, MayCallSays DEF UnderWay
    <3>4. l \in Unpreparing
      BY <1>4, <3>2, <3>3 DEF StepInv, SessionsHeld
    <3> QED
      BY <1>2, <3>4, UnpreparesInSets
  <2>2. waiting' = waiting
    BY <1>2, <1>4, <2>1
  <2> QED
    BY <1>1, <1>4, <2>1, <2>2, NewCallEnds
<1> QED
  BY <1>3, <1>4 DEF BeginLocked

(***************************************************************************)
(* A call returns.                                                         *)
(***************************************************************************)
\* What Goto leaves of the keys and the calls that have not returned.
LEMMA GotoSays ==
    ASSUME TInv, NEW c \in DOMAIN calls, NEW state \in CallStates, Goto(c, state)
    PROVE  /\ CallsGrow /\ DOMAIN calls' = DOMAIN calls /\ calls'[c].at = state
           /\ \A d \in DOMAIN calls :
                 /\ d # c => calls'[d] = calls[d]
                 /\ Keys'[d] = Keys[d] /\ ListOf(d)' = ListOf(d)
                 /\ calls'[d].peer = calls[d].peer
           /\ Back' = IF state \in {"send", "remove"} THEN Back \cup {c} ELSE Back \ {c}
<1>1. /\ CallsGrow /\ DOMAIN calls' = DOMAIN calls
      /\ \A d \in DOMAIN calls : d # c => calls'[d] = calls[d]
      /\ calls'[c].at = state
  BY GotoGrows
<1>2. Back' = IF state \in {"send", "remove"} THEN Back \cup {c} ELSE Back \ {c}
  BY <1>1 DEF Back, Returning
<1> QED
  BY <1>1, <1>2, OldKeys

LEMMA ReturningIs ==
    ASSUME TInv, StepInv, NEW c \in DOMAIN calls, calls[c].at \in {"send", "remove"}
    PROVE  /\ c \in Back /\ c \in UnderWay /\ c \notin Arrived \cup Sent
           /\ \A d \in Arrived \cup Sent : Keys[d] = Keys[c] => d < c
<1>1. c \in Back /\ c \in UnderWay /\ c \in Nat
  BY CallsTyped DEF Back, Returning, UnderWay
<1>2. \A d \in Arrived \cup Sent : Keys[d] = Keys[c] => d < c
  BY <1>1, OrderedParts DEF StepInv, Between
<1> QED
  BY <1>1, <1>2

LEMMA SendKeeps ==
    ASSUME TInv, TInv', StepInv, NEW c \in DOMAIN calls, Send(c)
    PROVE  StepInv'
<1> DEFINE p == calls[c].peer
<1>1. UNCHANGED << sessions, waiting, events >> /\ calls[c].at = "send"
  BY DEF Send
<1>2. p \in Peers /\ c \in Calls /\ atPeer \in [Peers -> Seq(DOMAIN calls)] /\ DOMAIN calls \subseteq Nat
  <2>1. p \in Peers /\ c \in Calls /\ DOMAIN calls \subseteq Nat
    BY CallsTyped
  <2> QED
    BY <2>1 DEF TInv, TypeOK
<1>3. /\ c \in Back /\ c \in UnderWay /\ c \notin Arrived \cup Sent
      /\ \A d \in Arrived \cup Sent : Keys[d] = Keys[c] => d < c
  BY <1>1, ReturningIs
<1>4. UnderWay \subseteq DOMAIN calls /\ DOMAIN calls \subseteq Calls
  BY SetsAreRight, CallsTyped DEF UnderWay, SetsFit
<1>5. CASE /\ p \in sessions
           /\ atPeer' = [atPeer EXCEPT ![p] = Append(@, c)]
           /\ Goto(c, "accepted")
           /\ UNCHANGED answers
  <2>1. /\ CallsGrow /\ DOMAIN calls' = DOMAIN calls /\ calls'[c].at = "accepted"
        /\ \A d \in DOMAIN calls :
              /\ d # c => calls'[d] = calls[d]
              /\ Keys'[d] = Keys[d] /\ ListOf(d)' = ListOf(d) /\ calls'[d].peer = calls[d].peer
        /\ Back' = Back \ {c}
    BY <1>5, GotoSays DEF CallStates
  <2>2. QueueOrdered' /\ Arrived' = Arrived
    BY <1>1, <2>1, QueueOrderedStays, OrderedParts DEF StepInv
  <2>3. atPeer' = [atPeer EXCEPT ![p] = Append(atPeer[p], c)]
    BY <1>2, <1>5
  <2>4. Elements(Append(atPeer[p], c)) = Elements(atPeer[p]) \cup {c}
    BY <1>2, Appended
  <2>5. Sent' = Sent \cup {c}
    <3>1. \A d \in DOMAIN calls : calls[d].peer \in Peers
      BY CallsTyped
    <3>2. \A d \in DOMAIN calls :
            d \in Elements(atPeer'[calls'[d].peer])
              <=> d \in Elements(atPeer[calls[d].peer]) \/ d = c
      BY <1>2, <2>1, <2>3, <2>4, <3>1
    <3> QED
      BY <2>1, <3>2 DEF Sent
  <2>6. UnderWay' = UnderWay
    BY <1>3, <2>1, <2>2, <2>5 DEF UnderWay
  <2>7. WaitingIsUnderWay' /\ ListsOrdered' /\ UnprepareAlone'
    BY <1>1, <2>1, <2>6, WaitingStays, ListsOrderedStay, UnprepareStaysAlone, OrderedParts
       DEF StepInv
  <2>8. PeersOrdered'
    <3>1. Sorted(atPeer[p], Keys')
      BY <1>2, <2>1, SortedGrows, OrderedParts DEF StepInv, PeersOrdered
    <3>2. \A d \in Elements(atPeer[p]) : d \in DOMAIN calls /\ d \in Sent
      BY <1>2, SetsAreRight, ElementsOf DEF SetsFit
    <3>3. \A d \in Elements(atPeer[p]) : Keys'[d] = Keys'[c] => d < c
      BY <1>3, <2>1, <3>2
    <3>4. Sorted(Append(atPeer[p], c), Keys')
      BY <1>2, <3>1, <3>3, SortedAppend
    <3> HIDE DEF p
    <3> QED
      BY <1>2, <2>1, <2>3, <3>4, PeersOrderedChange, OrderedParts DEF StepInv
  <2>9. \A d, e \in UnderWay : Keys'[d] = Keys'[e] <=> Keys[d] = Keys[e]
    BY <1>4, <2>1
  <2>10. Between'
    <3>1. ASSUME NEW d \in Arrived \cup Sent \cup {c}, NEW e \in Back \ {c}, Keys[d] = Keys[e]
          PROVE  d < e
      BY <1>3, <3>1, OrderedParts DEF StepInv, Between, ReturningAlone, UnderWay
    <3>2. ASSUME NEW d \in Arrived, NEW e \in Sent \cup {c}, Keys[d] = Keys[e] PROVE d < e
      BY <1>3, <3>2, OrderedParts DEF StepInv, Between
    <3> QED
      BY <1>3, <2>1, <2>2, <2>5, <2>9, <3>1, <3>2 DEF Between, UnderWay
  <2>11. SessionsHeld'
    BY <1>1, <1>3, <1>4, <1>5, <2>1, <2>2, <2>5 DEF StepInv, SessionsHeld, UnderWay
  <2>12. ReturningAlone'
    BY <1>4, <2>1, <2>6, <2>9 DEF StepInv, ReturningAlone
  <2>13. AnsweredOnce'
    <3>1. answers[c] = << >>
      BY <1>1 DEF StepInv, AnsweredOnce
    <3>2. OwnAnswer'
      BY <1>5, <2>1 DEF StepInv, AnsweredOnce, OwnAnswer
    <3> QED
      BY <1>5, <2>1, <2>2, <2>5, <3>1, <3>2 DEF StepInv, AnsweredOnce
  <2> QED
    BY <2>2, <2>7, <2>8, <2>10, <2>11, <2>12, <2>13, OrderedNext DEF StepInv
<1>6. CASE /\ p \notin sessions
           /\ Goto(c, "remove")
           /\ OnResult(c, c, FALSE) \/ UNCHANGED answers
           /\ UNCHANGED atPeer
  <2>1. /\ CallsGrow /\ DOMAIN calls' = DOMAIN calls /\ calls'[c].at = "remove"
        /\ \A d \in DOMAIN calls :
              /\ d # c => calls'[d] = calls[d]
              /\ Keys'[d] = Keys[d] /\ ListOf(d)' = ListOf(d) /\ calls'[d].peer = calls[d].peer
        /\ Back' = Back
    <3>1. "remove" \in CallStates
      BY DEF CallStates
    <3>2. /\ CallsGrow /\ DOMAIN calls' = DOMAIN calls /\ calls'[c].at = "remove"
          /\ \A d \in DOMAIN calls :
                /\ d # c => calls'[d] = calls[d]
                /\ Keys'[d] = Keys[d] /\ ListOf(d)' = ListOf(d)
                /\ calls'[d].peer = calls[d].peer
          /\ Back' = IF "remove" \in {"send", "remove"} THEN Back \cup {c} ELSE Back \ {c}
      BY <1>6, <3>1, GotoSays, Zenon
    <3>3. Back' = Back
      BY <1>3, <3>2
    <3> QED
      BY <3>2, <3>3
  <2>2. QueueOrdered' /\ Arrived' = Arrived /\ Sent' = Sent
    BY <1>1, <1>6, <2>1, QueueOrderedStays, SentStays, OrderedParts DEF StepInv
  <2>3. UnderWay' = UnderWay
    BY <2>1, <2>2 DEF UnderWay
  <2>4. /\ WaitingIsUnderWay' /\ ListsOrdered' /\ UnprepareAlone' /\ PeersOrdered'
    BY <1>1, <1>6, <2>1, <2>3, WaitingStays, ListsOrderedStay, PeersOrderedStay,
       UnprepareStaysAlone, OrderedParts DEF StepInv
  <2>5. \A d, e \in UnderWay : Keys'[d] = Keys'[e] <=> Keys[d] = Keys[e]
    BY <1>4, <2>1
  <2>6. Between'
    BY <2>1, <2>2, <2>5, OrderedParts DEF StepInv, Between, UnderWay
  <2>7. SessionsHeld'
    BY <1>1, <1>4, <2>1, <2>2 DEF StepInv, SessionsHeld, UnderWay
  <2>8. ASSUME NEW d \in UnderWay, Keys[d] = Keys[c] PROVE d = c
    <3>1. ListOf(d) = ListOf(c) /\ calls[d].peer = p
      BY <1>4, <2>8, SetsAreRight DEF SetsFit
    <3>2. CASE d \in Back
      BY <1>3, <2>8, <3>2 DEF StepInv, ReturningAlone
    <3>3. CASE d \in Arrived \cup Sent
      <4>1. ListOf(d) \in Unpreparing
        BY <1>6, <3>1, <3>3 DEF StepInv, SessionsHeld
      <4> QED
        BY <1>3, <2>8, <3>1, <4>1 DEF StepInv, UnprepareAlone
    <3> QED
      BY <2>8, <3>2, <3>3 DEF UnderWay
  <2>9. ReturningAlone'
    BY <1>4, <2>1, <2>3, <2>5, <2>8 DEF StepInv, ReturningAlone
  <2>10. AnsweredOnce'
    <3>1. answers[c] = << >>
      BY <1>1 DEF StepInv, AnsweredOnce
    <3>2. /\ \A d \in Calls : d # c => answers'[d] = answers[d]
          /\ Len(answers'[c]) <= 1 /\ \A i \in DOMAIN answers'[c] : answers'[c][i].of = c
      <4>1. CASE UNCHANGED answers
        BY <3>1, <4>1
      <4>2. CASE OnResult(c, c, FALSE)
        BY <1>2, <3>1, <4>2, AnswerOnce
      <4> QED
        BY <1>6, <4>1, <4>2
    <3>3. OwnAnswer'
      BY <1>4, <2>1, <3>2 DEF StepInv, AnsweredOnce, OwnAnswer
    <3>4. \A d \in Arrived' \cup Sent' : answers'[d] = << >>
      BY <1>3, <1>4, <2>2, <3>2 DEF StepInv, AnsweredOnce, UnderWay
    <3>5. \A d \in DOMAIN calls' : calls'[d].at = "send" => answers'[d] = << >>
      BY <1>4, <2>1, <3>2 DEF StepInv, AnsweredOnce
    <3>6. \A d \in Calls \ DOMAIN calls' : answers'[d] = << >>
      BY <2>1, <3>2 DEF StepInv, AnsweredOnce
    <3> QED
      BY <3>3, <3>4, <3>5, <3>6 DEF AnsweredOnce
  <2> QED
    BY <2>2, <2>4, <2>6, <2>7, <2>9, <2>10, OrderedNext DEF StepInv
<1> QED
  BY <1>5, <1>6 DEF Send

\* An entry that is erased because its call is over.
LEMMA ErasedEnds ==
    ASSUME TInv, TInv', StepInv, CallsGrow, NEW c \in UnderWay, UnderWay' = UnderWay \ {c},
           waiting[ListOf(c)][PlaceIn(waiting[ListOf(c)], ListOf(c), KeyOf(c))] = c,
           waiting' = [waiting EXCEPT ![ListOf(c)] = Erased(@, ListOf(c), KeyOf(c))]
    PROVE  WaitingIsUnderWay' /\ ListsOrdered' /\ UnprepareAlone'
<1> DEFINE l == ListOf(c)
           k == KeyOf(c)
           i == PlaceIn(waiting[l], l, k)
<1>1. /\ UnderWay \subseteq DOMAIN calls /\ DOMAIN calls \subseteq Nat
      /\ waiting \in [Lists -> Seq(DOMAIN calls)]
  BY SetsAreRight DEF UnderWay, SetsFit, TInv, TypeOK
<1>2. c \in DOMAIN calls /\ l \in Lists
  BY <1>1, CallsTyped
<1>3. i # 0
  BY MustBeFound DEF StepInv
<1>4. i \in 1 .. Len(waiting[l]) /\ Erased(waiting[l], l, k) = RemoveAt(waiting[l], i)
  BY <1>1, <1>2, <1>3, ErasedTyped
<1>5. waiting' = [waiting EXCEPT ![l] = RemoveAt(waiting[l], i)]
  BY <1>1, <1>2, <1>4
<1>6. waiting[l][i] = c /\ ListOf(c) = l
  OBVIOUS
<1>7. Sorted(waiting[l], Keys')
  BY <1>1, <1>2, SortedGrows, OrderedParts DEF StepInv, ListsOrdered
<1> HIDE DEF l, k, i
<1>8. /\ Sorted(RemoveAt(waiting[l], i), Keys')
      /\ Elements(RemoveAt(waiting[l], i)) = Elements(waiting[l]) \ {c}
  BY <1>1, <1>2, <1>4, <1>6, <1>7, SortedRemove
<1>9. WaitingIsUnderWay'
  BY <1>2, <1>5, <1>6, <1>8, WaitingDrops DEF StepInv
<1>10. ListsOrdered'
  BY <1>2, <1>5, <1>8, ListsOrderedChange, OrderedParts DEF StepInv
<1> QED
  BY <1>9, <1>10, UnprepareStaysAlone DEF StepInv

LEMMA RemoveCallbackKeeps ==
    ASSUME TInv, TInv', StepInv, NEW c \in DOMAIN calls, RemoveCallback(c)
    PROVE  StepInv'
<1>1. /\ UNCHANGED << sessions, atPeer, events, answers >> /\ calls[c].at = "remove"
      /\ Goto(c, "failed")
      /\ waiting' = [waiting EXCEPT ![ListOf(c)] = Erased(@, ListOf(c), KeyOf(c))]
  BY DEF RemoveCallback
<1>2. /\ c \in Back /\ c \in UnderWay /\ c \notin Arrived \cup Sent
  BY <1>1, ReturningIs
<1>3. UnderWay \subseteq DOMAIN calls /\ DOMAIN calls \subseteq Calls
  BY SetsAreRight, CallsTyped DEF UnderWay, SetsFit
<1>4. /\ CallsGrow /\ DOMAIN calls' = DOMAIN calls /\ calls'[c].at = "failed"
      /\ \A d \in DOMAIN calls :
            /\ d # c => calls'[d] = calls[d]
            /\ Keys'[d] = Keys[d] /\ ListOf(d)' = ListOf(d) /\ calls'[d].peer = calls[d].peer
      /\ Back' = Back \ {c}
  BY <1>1, GotoSays DEF CallStates
<1>5. QueueOrdered' /\ Arrived' = Arrived /\ Sent' = Sent
  BY <1>1, <1>4, QueueOrderedStays, SentStays, OrderedParts DEF StepInv
<1>6. UnderWay' = UnderWay \ {c}
  BY <1>2, <1>4, <1>5 DEF UnderWay
<1>7. waiting[ListOf(c)][PlaceIn(waiting[ListOf(c)], ListOf(c), KeyOf(c))] = c
  <2>1. PICK d \in UnderWay :
           /\ d = waiting[ListOf(c)][PlaceIn(waiting[ListOf(c)], ListOf(c), KeyOf(c))]
           /\ Fits(d, ListOf(c), KeyOf(c))
    BY <1>2, CallsTyped, MustBeFound, Found DEF StepInv
  <2>2. Keys[d] = Keys[c]
    BY <1>3, <2>1, SetsAreRight DEF SetsFit
  <2> QED
    BY <1>1, <1>2, <2>1, <2>2 DEF StepInv, ReturningAlone
<1>8. WaitingIsUnderWay' /\ ListsOrdered' /\ UnprepareAlone'
  BY <1>1, <1>2, <1>4, <1>6, <1>7, ErasedEnds
<1>9. PeersOrdered'
  BY <1>1, <1>4, PeersOrderedStay, OrderedParts DEF StepInv
<1>10. \A d, e \in UnderWay : Keys'[d] = Keys'[e] <=> Keys[d] = Keys[e]
  BY <1>3, <1>4
<1>11. Between'
  BY <1>4, <1>5, <1>10, OrderedParts DEF StepInv, Between, UnderWay
<1>12. SessionsHeld'
  BY <1>1, <1>3, <1>4, <1>5 DEF StepInv, SessionsHeld, UnderWay
<1>13. ReturningAlone'
  BY <1>3, <1>4, <1>6, <1>10 DEF StepInv, ReturningAlone
<1>14. AnsweredOnce'
  <2>1. OwnAnswer'
    BY <1>1, <1>4 DEF StepInv, AnsweredOnce, OwnAnswer
  <2> QED
    BY <1>1, <1>4, <1>5, <2>1 DEF StepInv, AnsweredOnce
<1> QED
  BY <1>5, <1>8, <1>9, <1>11, <1>12, <1>13, <1>14, OrderedNext DEF StepInv

(***************************************************************************)
(* Replies, and sessions that are lost.                                    *)
(***************************************************************************)
LEMMA OnResponseKeeps ==
    ASSUME TInv, TInv', StepInv, NEW p \in Peers, NEW i \in DOMAIN atPeer[p],
           NEW result \in BOOLEAN, OnResponse(p, i, result)
    PROVE  StepInv'
<1>0. PICK c : c = atPeer[p][i]
  OBVIOUS
<1>1. /\ \A j \in 1 .. i - 1 : ~ Fits(atPeer[p][j], ListOf(c), KeyOf(c))
      /\ events' = Append(events, [call |-> c, result |-> result])
      /\ atPeer' = IF ListOf(c) \in Unpreparing THEN [atPeer EXCEPT ![p] = << >>]
                   ELSE [atPeer EXCEPT ![p] = RemoveAt(atPeer[p], i)]
      /\ sessions' = IF ListOf(c) \in Unpreparing THEN sessions \ {p} ELSE sessions
      /\ UNCHANGED << calls, waiting, answers >>
  <2>1. atPeer \in [Peers -> Seq(DOMAIN calls)]
    BY DEF TInv, TypeOK
  <2> QED
    BY <1>0, <2>1 DEF OnResponse, Posted, NotTo
<1>2. /\ CallsGrow /\ DOMAIN calls' = DOMAIN calls
      /\ \A d \in DOMAIN calls : Keys'[d] = Keys[d] /\ ListOf(d)' = ListOf(d)
  BY <1>1, UnchangedGrow, OldKeys
<1>3. /\ atPeer[p] \in Seq(DOMAIN calls) /\ DOMAIN atPeer[p] = 1 .. Len(atPeer[p])
      /\ Len(atPeer[p]) \in Nat /\ i \in 1 .. Len(atPeer[p])
      /\ atPeer \in [Peers -> Seq(DOMAIN calls)]
  BY ListTyped, LenProperties DEF TInv, TypeOK
<1>4. SetsFit /\ SetsFit' /\ DOMAIN calls \subseteq Nat
  <2>1. SetsFit /\ SetsFit'
    BY SetsAreRight, SetsNext
  <2> QED
    BY <2>1 DEF SetsFit
<1>5. c \in Sent /\ c \in DOMAIN calls /\ calls[c].peer = p
  <2>1. c \in Elements(atPeer[p])
    BY <1>0 DEF Elements
  <2> QED
    BY <1>4, <2>1 DEF SetsFit
<1>6. UnderWay \subseteq DOMAIN calls
  BY <1>4 DEF SetsFit, UnderWay
\* The reply is the first of its key among those to come.
<1>7. \A d \in Sent : Keys[d] = Keys[c] => c <= d
  <2> SUFFICES ASSUME NEW d \in Sent, Keys[d] = Keys[c] PROVE c <= d
    OBVIOUS
  <2>1. d \in DOMAIN calls /\ calls[d].peer = p /\ Fits(d, ListOf(c), KeyOf(c))
    BY <1>4, <1>5 DEF SetsFit
  <2>2. d \in Elements(atPeer[p])
    BY <1>4, <2>1 DEF SetsFit
  <2>3. PICK j \in 1 .. Len(atPeer[p]) : atPeer[p][j] = d
    BY <1>3, <2>2 DEF Elements
  <2>4. ~(j < i)
    <3>1. \A m \in 1 .. i - 1 : ~ Fits(atPeer[p][m], ListOf(c), KeyOf(c))
      BY <1>1
    <3>2. j < i => j \in 1 .. i - 1
      BY <1>3, <2>3
    <3> QED
      BY <2>1, <2>3, <3>1, <3>2
  <2>5. CASE j = i
    BY <1>0, <1>4, <2>1, <2>3, <2>5
  <2>6. CASE i < j
    <3>1. Sorted(atPeer[p], Keys)
      BY OrderedParts DEF StepInv, PeersOrdered
    <3>2. c < d
      BY <1>0, <1>3, <2>3, <2>6, <3>1 DEF Sorted
    <3> QED
      BY <1>4, <1>5, <2>1, <3>2
  <2> QED
    BY <1>3, <2>4, <2>5, <2>6
<1>8. /\ Sorted(atPeer[p], Keys')
      /\ Sorted(<< >>, Keys')
  BY <1>2, <1>3, SortedGrows, OrderedParts DEF StepInv, PeersOrdered, Sorted
<1>9. /\ Elements(atPeer'[p]) = Elements(atPeer[p]) \ {c}
      /\ Sorted(atPeer'[p], Keys')
      /\ \A q \in Peers : q # p => atPeer'[q] = atPeer[q]
      /\ atPeer' = [atPeer EXCEPT ![p] = atPeer'[p]]
  <2>1. CASE ListOf(c) \in Unpreparing
    <3>1. \A d \in Elements(atPeer[p]) : d \in Sent /\ calls[d].peer = p
      BY <1>4 DEF SetsFit
    <3>2. \A d \in Elements(atPeer[p]) : d = c
      BY <1>5, <2>1, <3>1 DEF StepInv, UnprepareAlone, UnderWay
    <3>3. atPeer' = [atPeer EXCEPT ![p] = << >>] /\ atPeer'[p] = << >>
      BY <1>1, <1>3, <2>1
    <3>4. Elements(<< >>) = {}
      BY DEF Elements
    <3> QED
      BY <1>3, <1>8, <3>2, <3>3, <3>4
  <2>2. CASE ListOf(c) \notin Unpreparing
    <3> DEFINE t == RemoveAt(atPeer[p], i)
    <3>1. Sorted(t, Keys') /\ Elements(t) = Elements(atPeer[p]) \ {c}
      BY <1>0, <1>3, <1>4, <1>8, SortedRemove
    <3>2. atPeer' = [atPeer EXCEPT ![p] = t]
      BY <1>1, <2>2
    <3> HIDE DEF t
    <3>3. atPeer'[p] = t
      BY <1>3, <3>2
    <3> QED
      BY <1>3, <3>1, <3>2, <3>3
  <2> QED
    BY <2>1, <2>2
<1>10. Sent' = Sent \ {c}
  <2>1. \A d \in DOMAIN calls : calls[d].peer \in Peers
    BY CallsTyped
  <2>2. \A d \in DOMAIN calls :
          d \in Elements(atPeer'[calls[d].peer]) <=> d \in Elements(atPeer[calls[d].peer]) /\ d # c
    BY <1>5, <1>9, <2>1
  <2> QED
    BY <1>1, <2>2 DEF Sent
<1>11. EventCalls' = Append(EventCalls, c)
  <2>1. events \in Seq(Reply) /\ EventCalls \in Seq(DOMAIN calls) /\ DOMAIN EventCalls = DOMAIN events
    BY EventsFit DEF TInv, TypeOK, Reply
  <2> DEFINE new == [call |-> c, result |-> result]
  <2>2. new \in Reply /\ new.call = c
    BY <1>5 DEF Reply
  <2>3. events' = Append(events, new)
    BY <1>1
  <2> HIDE DEF new
  <2>4. /\ DOMAIN events = 1 .. Len(events) /\ DOMAIN events' = 1 .. Len(events) + 1
        /\ Len(events) \in Nat /\ \A j \in 1 .. Len(events) : events'[j] = events[j]
        /\ events'[Len(events) + 1] = new
    BY <2>1, <2>2, <2>3, Appended
  <2>5. Len(EventCalls) = Len(events)
    BY <2>1, <2>4, LenProperties
  <2>6. /\ DOMAIN Append(EventCalls, c) = 1 .. Len(events) + 1
        /\ \A j \in 1 .. Len(events) : Append(EventCalls, c)[j] = EventCalls[j]
        /\ Append(EventCalls, c)[Len(events) + 1] = c
        /\ Append(EventCalls, c) \in Seq(DOMAIN calls)
    BY <1>5, <2>1, <2>5, Appended
  <2>7. \A j \in DOMAIN events' : EventCalls'[j] = Append(EventCalls, c)[j]
    <3>1. \A j \in DOMAIN events' : EventCalls'[j] = events'[j].call
      BY DEF EventCalls
    <3>2. \A j \in DOMAIN events : EventCalls[j] = events[j].call
      BY DEF EventCalls
    <3> QED
      BY <2>2, <2>4, <2>6, <3>1, <3>2
  <2>8. EventCalls' = [j \in DOMAIN events' |-> events'[j].call]
    BY DEF EventCalls
  <2>9. Append(EventCalls, c) = [j \in 1 .. Len(events) + 1 |-> Append(EventCalls, c)[j]]
    BY <2>4, <2>6, LenProperties, SeqDef
  <2> QED
    BY <2>4, <2>7, <2>8, <2>9
<1>12. Arrived' = Arrived \cup {c}
  BY <1>5, <1>11, EventsFit, Appended DEF Arrived
<1>13. Back' = Back
  BY <1>1 DEF Back, Returning
<1>14. UnderWay' = UnderWay
  BY <1>5, <1>10, <1>12, <1>13 DEF UnderWay
<1>15. WaitingIsUnderWay' /\ ListsOrdered' /\ UnprepareAlone'
  BY <1>1, <1>2, <1>14, WaitingStays, ListsOrderedStay, UnprepareStaysAlone, OrderedParts
     DEF StepInv
<1>16. QueueOrdered'
  <2>1. Sorted(EventCalls, Keys')
    BY <1>2, EventsFit, SortedGrows, OrderedParts DEF StepInv, QueueOrdered
  <2>2. \A d \in Elements(EventCalls) : Keys'[d] = Keys'[c] => d < c
    BY <1>2, <1>4, <1>5, OrderedParts DEF StepInv, Between, Arrived, SetsFit
  <2>3. Sorted(Append(EventCalls, c), Keys')
    BY <1>4, <1>5, <2>1, <2>2, EventsFit, SortedAppend
  <2> QED
    BY <1>11, <2>3 DEF QueueOrdered
<1>17. PeersOrdered'
  <2>1. PICK t : t = atPeer'[p]
    OBVIOUS
  <2> QED
    BY <1>2, <1>9, <2>1, PeersOrderedChange, OrderedParts DEF StepInv
<1>18. \A d, e \in UnderWay : Keys'[d] = Keys'[e] <=> Keys[d] = Keys[e]
  BY <1>2, <1>6
<1>19. Between'
  <2>1. ASSUME NEW e \in Sent \ {c}, Keys[c] = Keys[e] PROVE c < e
    <3>1. e \in DOMAIN calls
      BY <1>4 DEF SetsFit
    <3> QED
      BY <1>4, <1>5, <1>7, <2>1, <3>1
  <2> QED
    BY <1>5, <1>10, <1>12, <1>13, <1>18, <2>1, OrderedParts DEF StepInv, Between, UnderWay
<1>20. SessionsHeld'
  <2>1. ASSUME NEW d \in Arrived \cup Sent, calls[d].peer \notin sessions', ListOf(d) \notin Unpreparing
        PROVE  FALSE
    <3>1. calls[d].peer \in sessions
      BY <2>1 DEF StepInv, SessionsHeld
    <3>2. calls[d].peer = p /\ ListOf(c) \in Unpreparing
      BY <1>1, <2>1, <3>1
    <3>3. c = d
      BY <1>5, <3>2 DEF StepInv, UnprepareAlone, UnderWay
    <3> QED
      BY <2>1, <3>2, <3>3
  <2> QED
    BY <1>1, <1>2, <1>5, <1>6, <1>10, <1>12, <2>1 DEF SessionsHeld, UnderWay
<1>21. ReturningAlone'
  BY <1>1, <1>13, <1>14, <1>18 DEF StepInv, ReturningAlone
<1>22. AnsweredOnce'
  <2>1. OwnAnswer'
    BY <1>1 DEF StepInv, AnsweredOnce, OwnAnswer
  <2> QED
    BY <1>1, <1>5, <1>10, <1>12, <2>1 DEF StepInv, AnsweredOnce
<1> QED
  BY <1>15, <1>16, <1>17, <1>19, <1>20, <1>21, <1>22, OrderedNext DEF StepInv

\* The head of the queue finds its own callback.
LEMMA HeadFindsItsOwn ==
    ASSUME TInv, StepInv, events # << >>, NEW c, c = Head(events).call
    PROVE  /\ c \in Arrived /\ Head(events) \in Reply
           /\ waiting[ListOf(c)][PlaceIn(waiting[ListOf(c)], ListOf(c), KeyOf(c))] = c
<1> DEFINE l == ListOf(c)
           k == KeyOf(c)
           i == PlaceIn(waiting[l], l, k)
<1>1. /\ Head(events) = events[1] /\ 1 \in DOMAIN events /\ Head(events) \in Reply
      /\ DOMAIN events = 1 .. Len(events) /\ Len(events) \in Nat
  <2>1. events \in Seq(Reply)
    BY DEF TInv, TypeOK, Reply
  <2>2. /\ Head(events) = events[1] /\ 1 \in DOMAIN events
        /\ DOMAIN events = 1 .. Len(events) /\ Len(events) \in Nat
    BY <2>1, Tailed
  <2> QED
    BY <2>1, <2>2, ElementOfSeq
<1>2. c = EventCalls[1] /\ c \in Arrived /\ DOMAIN EventCalls = DOMAIN events
  BY <1>1, EventsFit DEF Arrived, Elements
<1>3. /\ c \in UnderWay /\ UnderWay \subseteq DOMAIN calls /\ DOMAIN calls \subseteq Nat
  BY <1>2, SetsAreRight DEF SetsFit, UnderWay
<1>4. l \in Lists /\ waiting[l] \in Seq(DOMAIN calls) /\ Len(waiting[l]) \in Nat
      /\ DOMAIN waiting[l] = 1 .. Len(waiting[l])
  BY <1>3, CallsTyped, ListTyped, LenProperties
<1>5. i # 0
  BY <1>3, MustBeFound DEF StepInv
<1>6. PICK d \in UnderWay : d = waiting[l][i] /\ Fits(d, l, k) /\ i \in 1 .. Len(waiting[l])
  BY <1>4, <1>5, Found DEF StepInv
<1>7. Keys[d] = Keys[c]
  BY <1>3, <1>6, SetsAreRight DEF SetsFit
<1>8. d <= c
  <2>1. c \in Elements(waiting[l])
    BY <1>3, <1>4 DEF StepInv, WaitingIsUnderWay
  <2>2. PICK j \in 1 .. Len(waiting[l]) : waiting[l][j] = c
    BY <1>4, <2>1 DEF Elements
  <2>3. Fits(c, l, k)
    BY DEF Fits
  <2>4. i <= j
    <3> HIDE DEF l, k
    <3> QED
      BY <1>4, <1>5, <2>2, <2>3, PlaceIs
  <2>5. CASE i = j
    BY <1>3, <1>6, <2>2, <2>5
  <2>6. CASE i < j
    <3>1. Sorted(waiting[l], Keys)
      BY <1>4, OrderedParts DEF StepInv, ListsOrdered
    <3>2. d < c
      <4> HIDE DEF l, i
      <4> QED
        BY <1>4, <1>6, <1>7, <2>2, <2>6, <3>1 DEF Sorted
    <3> QED
      BY <1>3, <3>2
  <2> QED
    BY <1>4, <1>6, <2>4, <2>5, <2>6
<1>9. c <= d
  <2>1. CASE d \in Arrived
    <3>1. PICK j \in DOMAIN events : EventCalls[j] = d
      BY <1>2, <2>1 DEF Arrived, Elements
    <3>2. CASE j = 1
      BY <1>2, <1>3, <3>1, <3>2
    <3>3. CASE 1 < j
      <4>1. Sorted(EventCalls, Keys)
        BY OrderedParts DEF StepInv, QueueOrdered
      <4>2. c < d
        BY <1>1, <1>2, <1>7, <3>1, <3>3, <4>1 DEF Sorted
      <4> QED
        BY <1>3, <4>2
    <3> QED
      BY <1>1, <3>2, <3>3
  <2>2. CASE d \in Sent \cup Back
    <3>1. c < d
      BY <1>2, <1>7, <2>2, OrderedParts DEF StepInv, Between
    <3> QED
      BY <1>3, <3>1
  <2> QED
    BY <2>1, <2>2 DEF UnderWay
<1>10. c = d
  BY <1>3, <1>8, <1>9
<1> QED
  BY <1>1, <1>2, <1>6, <1>10

LEMMA ProcessEventKeeps == ASSUME TInv, TInv', StepInv, ProcessEvent PROVE StepInv'
<1>0. PICK c : c = Head(events).call
  OBVIOUS
<1>1. events # << >> /\ events' = Tail(events) /\ UNCHANGED << sessions, calls, atPeer >>
  BY DEF ProcessEvent
<1>2. /\ c \in Arrived /\ Head(events) \in Reply
      /\ waiting[ListOf(c)][PlaceIn(waiting[ListOf(c)], ListOf(c), KeyOf(c))] = c
  BY <1>0, <1>1, HeadFindsItsOwn
<1>3. /\ c \in UnderWay /\ UnderWay \subseteq DOMAIN calls /\ DOMAIN calls \subseteq Nat
      /\ DOMAIN calls \subseteq Calls
  BY <1>2, SetsAreRight, CallsTyped DEF SetsFit, UnderWay
<1>4. /\ waiting' = [waiting EXCEPT ![ListOf(c)] = Erased(@, ListOf(c), KeyOf(c))]
      /\ OnResult(c, c, Head(events).result)
  <2>1. PlaceIn(waiting[ListOf(c)], ListOf(c), KeyOf(c)) # 0
    BY <1>3, MustBeFound DEF StepInv
  <2> QED
    BY <1>0, <1>2, <2>1 DEF ProcessEvent, RunCallback
<1>5. /\ CallsGrow /\ DOMAIN calls' = DOMAIN calls
      /\ \A d \in DOMAIN calls : Keys'[d] = Keys[d] /\ ListOf(d)' = ListOf(d)
  BY <1>1, UnchangedGrow, OldKeys
<1>6. EventCalls' = Tail(EventCalls) /\ EventCalls # << >> /\ EventCalls[1] = c
  <2>1. events \in Seq(Reply) /\ EventCalls \in Seq(DOMAIN calls) /\ DOMAIN EventCalls = DOMAIN events
    BY EventsFit DEF TInv, TypeOK, Reply
  <2>2. /\ DOMAIN events = 1 .. Len(events) /\ DOMAIN events' = 1 .. Len(events) - 1
        /\ Len(events) \in Nat /\ \A j \in 1 .. Len(events) - 1 : events'[j] = events[j + 1]
        /\ Head(events) = events[1] /\ 1 \in DOMAIN events
    BY <1>1, <2>1, Tailed
  <2>3. Len(EventCalls) = Len(events)
    BY <2>1, <2>2, LenProperties
  <2>4. EventCalls # << >> /\ EventCalls[1] = c
    <3>1. EventCalls # << >>
      BY <2>1, <2>2, <2>3, EmptySeq
    <3> QED
      BY <1>0, <2>2, <3>1 DEF EventCalls
  <2>5. /\ DOMAIN Tail(EventCalls) = 1 .. Len(events) - 1
        /\ \A j \in 1 .. Len(events) - 1 : Tail(EventCalls)[j] = EventCalls[j + 1]
        /\ Tail(EventCalls) \in Seq(DOMAIN calls)
    BY <2>1, <2>3, <2>4, Tailed
  <2>6. \A j \in DOMAIN events' : EventCalls'[j] = Tail(EventCalls)[j]
    <3>1. \A j \in DOMAIN events' : EventCalls'[j] = events'[j].call
      BY DEF EventCalls
    <3>2. \A j \in DOMAIN events : EventCalls[j] = events[j].call
      BY DEF EventCalls
    <3>3. ASSUME NEW j \in 1 .. Len(events) - 1 PROVE EventCalls'[j] = Tail(EventCalls)[j]
      <4>1. j + 1 \in DOMAIN events /\ j \in DOMAIN events'
        BY <2>2
      <4>2. EventCalls'[j] = events[j + 1].call
        BY <2>2, <3>1, <4>1
      <4>3. Tail(EventCalls)[j] = events[j + 1].call
        BY <2>5, <3>2, <4>1
      <4> QED
        BY <4>2, <4>3
    <3> QED
      BY <2>2, <3>3
  <2>7. EventCalls' = [j \in DOMAIN events' |-> events'[j].call]
    BY DEF EventCalls
  <2>8. Tail(EventCalls) = [j \in 1 .. Len(events) - 1 |-> Tail(EventCalls)[j]]
    BY <2>5, LenProperties, SeqDef
  <2> QED
    BY <2>2, <2>4, <2>6, <2>7, <2>8
<1>7. QueueOrdered' /\ Arrived' = Arrived \ {c}
  <2>1. Sorted(EventCalls, Keys')
    BY <1>5, EventsFit, SortedGrows, OrderedParts DEF StepInv, QueueOrdered
  <2>2. Sorted(Tail(EventCalls), Keys') /\ Elements(Tail(EventCalls)) = Elements(EventCalls) \ {c}
    BY <1>3, <1>6, <2>1, EventsFit, SortedTail
  <2> QED
    BY <1>6, <2>2 DEF QueueOrdered, Arrived
<1>8. Sent' = Sent /\ Back' = Back
  BY <1>1, <1>5, SentStays DEF Back, Returning
<1>9. c \notin Sent \cup Back
  BY <1>2, <1>3, OrderedParts DEF StepInv, Between
<1>10. UnderWay' = UnderWay \ {c}
  BY <1>7, <1>8, <1>9 DEF UnderWay
<1>11. WaitingIsUnderWay' /\ ListsOrdered' /\ UnprepareAlone'
  BY <1>2, <1>3, <1>4, <1>5, <1>10, ErasedEnds
<1>12. PeersOrdered'
  BY <1>1, <1>5, PeersOrderedStay, OrderedParts DEF StepInv
<1>13. \A d, e \in UnderWay : Keys'[d] = Keys'[e] <=> Keys[d] = Keys[e]
  BY <1>3, <1>5
<1>14. Between'
  BY <1>7, <1>8, <1>13, OrderedParts DEF StepInv, Between, UnderWay
<1>15. SessionsHeld'
  BY <1>1, <1>3, <1>5, <1>7, <1>8 DEF StepInv, SessionsHeld, UnderWay
<1>16. ReturningAlone'
  BY <1>1, <1>8, <1>10, <1>13 DEF StepInv, ReturningAlone
<1>17. AnsweredOnce'
  <2>1. answers[c] = << >>
    BY <1>2 DEF StepInv, AnsweredOnce
  <2>2. Head(events).result \in BOOLEAN /\ c \in Calls
    BY <1>2, <1>3 DEF Reply
  <2>3. /\ \A d \in Calls : d # c => answers'[d] = answers[d]
        /\ Len(answers'[c]) <= 1 /\ \A i \in DOMAIN answers'[c] : answers'[c][i].of = c
    BY <1>4, <2>1, <2>2, AnswerOnce
  <2>4. OwnAnswer'
    BY <1>3, <1>5, <2>3 DEF StepInv, AnsweredOnce, OwnAnswer
  <2>5. \A d \in Arrived' \cup Sent' : answers'[d] = << >>
    BY <1>3, <1>7, <1>8, <1>9, <2>3 DEF StepInv, AnsweredOnce, UnderWay
  <2>6. \A d \in DOMAIN calls' : calls'[d].at = "send" => answers'[d] = << >>
    <3>1. c \in Back <=> calls[c].at \in {"send", "remove"}
      BY <1>3, SetsAreRight DEF SetsFit
    <3> QED
      BY <1>1, <1>3, <1>9, <2>3, <3>1 DEF StepInv, AnsweredOnce
  <2>7. \A d \in Calls \ DOMAIN calls' : answers'[d] = << >>
    BY <1>3, <1>5, <2>3 DEF StepInv, AnsweredOnce
  <2> QED
    BY <2>4, <2>5, <2>6, <2>7 DEF AnsweredOnce
<1> QED
  BY <1>7, <1>11, <1>12, <1>14, <1>15, <1>16, <1>17, OrderedNext DEF StepInv

\* Only the sessions change in a step.
LEMMA OthersStay ==
    ASSUME TInv, TInv', StepInv, UNCHANGED << calls, waiting, atPeer, events, answers >>,
           \A c \in Arrived \cup Sent : calls[c].peer \in sessions => calls[c].peer \in sessions'
    PROVE  StepInv'
<1>1. CallsGrow
  BY UnchangedGrow
<1>2. QueueOrdered' /\ Arrived' = Arrived /\ Sent' = Sent /\ Back' = Back
  BY <1>1, QueueOrderedStays, SentStays, OrderedParts DEF StepInv, Back, Returning
<1>3. UnderWay' = UnderWay /\ UnderWay \subseteq DOMAIN calls
  BY <1>2, SetsAreRight DEF UnderWay, SetsFit
<1>4. /\ WaitingIsUnderWay' /\ ListsOrdered' /\ PeersOrdered' /\ UnprepareAlone'
  BY <1>1, <1>3, WaitingStays, ListsOrderedStay, PeersOrderedStay, UnprepareStaysAlone,
     OrderedParts DEF StepInv
<1>5. \A c \in UnderWay : Keys'[c] = Keys[c] /\ ListOf(c)' = ListOf(c)
  BY <1>1, <1>3, OldKeys
<1>6. Between'
  BY <1>2, <1>5, OrderedParts DEF StepInv, Between, UnderWay
<1>7. SessionsHeld'
  BY <1>2, <1>5 DEF StepInv, SessionsHeld, UnderWay
<1>8. ReturningAlone'
  BY <1>2, <1>3, <1>5 DEF StepInv, ReturningAlone
<1>9. AnsweredOnce'
  <2>1. OwnAnswer'
    BY DEF StepInv, AnsweredOnce, OwnAnswer
  <2> QED
    BY <1>2, <2>1 DEF StepInv, AnsweredOnce
<1> QED
  BY <1>2, <1>4, <1>6, <1>7, <1>8, <1>9, OrderedNext DEF StepInv

LEMMA LoseSessionKeeps ==
    ASSUME Lossy = FALSE, TInv, TInv', StepInv, NEW p \in Peers, LoseSession(p) PROVE StepInv'
<1>1. /\ LosesNothing(p) /\ sessions' = sessions \ {p} /\ atPeer' = NotTo(p)
      /\ UNCHANGED << calls, events, answers >>
      /\ waiting' = IF SinkLoaded
                    THEN [l \in Lists |-> IF l \in SetLists THEN << >> ELSE waiting[l]]
                    ELSE waiting
  BY DEF LoseSession
<1>2. \A c \in UnderWay : calls[c].peer # p /\ (SinkLoaded => ListOf(c) \notin SetLists)
  BY <1>1, SetsAreRight DEF LosesNothing, SetsFit, UnderWay
<1>3. /\ waiting \in [Lists -> Seq(DOMAIN calls)] /\ atPeer \in [Peers -> Seq(DOMAIN calls)]
  BY DEF TInv, TypeOK
<1>4. atPeer' = atPeer
  <2>1. Elements(atPeer[p]) = {}
    <3>1. Elements(atPeer[p]) = {c \in Sent : calls[c].peer = p}
      BY SetsAreRight DEF SetsFit
    <3>2. \A c \in Sent : calls[c].peer # p
      BY <1>2 DEF UnderWay
    <3> QED
      BY <3>1, <3>2
  <2>2. atPeer[p] = << >>
    BY <1>3, <2>1, ElementsOf
  <2> QED
    BY <1>1, <1>3, <2>2 DEF NotTo
<1>5. waiting' = waiting
  <2>1. CASE SinkLoaded
    <3>1. ASSUME NEW l \in Lists, l \in SetLists PROVE waiting[l] = << >>
      <4>1. Elements(waiting[l]) = {}
        BY <1>2, <2>1, <3>1 DEF StepInv, WaitingIsUnderWay
      <4> QED
        BY <1>3, <4>1, ElementsOf
    <3> QED
      BY <1>1, <1>3, <2>1, <3>1
  <2> QED
    BY <1>1, <2>1
<1>6. \A c \in Arrived \cup Sent : calls[c].peer \in sessions => calls[c].peer \in sessions'
  BY <1>1, <1>2 DEF UnderWay
<1> QED
  BY <1>1, <1>4, <1>5, <1>6, OthersStay

(***************************************************************************)
(* The theorems.                                                           *)
(***************************************************************************)
LEMMA InitInStep == Init => StepInv
<1> SUFFICES ASSUME Init PROVE StepInv
  OBVIOUS
<1>1. /\ DOMAIN calls = {} /\ DOMAIN events = {}
      /\ \A p \in Peers : atPeer[p] = << >>
      /\ \A l \in Lists : waiting[l] = << >>
      /\ \A c \in Calls : answers[c] = << >>
  BY DEF Init
<1>2. Arrived = {} /\ Sent = {} /\ Back = {} /\ DOMAIN EventCalls = {}
  BY <1>1 DEF Arrived, Sent, Back, EventCalls, Elements
<1>3. UnderWay = {} /\ Elements(<< >>) = {}
  BY <1>2 DEF UnderWay, Elements
<1>4. WaitingIsUnderWay
  BY <1>1, <1>3 DEF WaitingIsUnderWay
<1>5. Ordered
  BY <1>1, <1>2 DEF Ordered, Sorted
<1>6. UnprepareAlone /\ SessionsHeld /\ ReturningAlone
  BY <1>2, <1>3 DEF UnprepareAlone, SessionsHeld, ReturningAlone
<1>7. AnsweredOnce
  BY <1>1, <1>2 DEF AnsweredOnce, OwnAnswer
<1> QED
  BY <1>4, <1>5, <1>6, <1>7 DEF StepInv

LEMMA NextInStep ==
    ASSUME Disciplined = TRUE, Lossy = FALSE
    PROVE  TInv /\ TInv' /\ StepInv /\ [Next]_vars => StepInv'
<1> SUFFICES ASSUME TInv, TInv', StepInv, [Next]_vars PROVE StepInv'
  OBVIOUS
<1>1. ASSUME NEW name \in Forms, NEW p \in Peers, NEW s \in SelectionsOf(name), Call(name, p, s)
      PROVE  StepInv'
  <2>1. s \in Selections \cup {All}
    BY DEF SelectionsOf
  <2>2. Len(calls) < MaxCalls /\ MayCall(FormOf[name], p, << p, s >>)
    BY <1>1 DEF Call
  <2> QED
    BY <1>1, <2>1, <2>2, RefuseKeeps, BeginKeeps, BeginLockedKeeps DEF Call
<1>2. CASE Return
  BY <1>2, SendKeeps, RemoveCallbackKeeps DEF Return
<1>3. CASE Respond
  BY <1>3, OnResponseKeeps DEF Respond
<1>4. CASE ProcessEvent
  BY <1>4, ProcessEventKeeps
<1>5. ASSUME NEW p \in Peers, LoseSession(p) PROVE StepInv'
  BY <1>5, LoseSessionKeeps
<1>6. CASE UNCHANGED vars
  BY <1>6, OthersStay DEF vars
<1> QED
  BY <1>1, <1>2, <1>3, <1>4, <1>5, <1>6 DEF Next

LEMMA AlwaysInStep ==
    ASSUME Disciplined = TRUE, Lossy = FALSE PROVE Spec => [](TInv /\ StepInv)
<1>1. TInv /\ StepInv /\ TInv' /\ [Next]_vars => StepInv'
  BY NextInStep
<1> QED
  BY <1>1, InitInStep, InitTyped, NextTyped, PTL DEF Spec

\* When callers keep to the discipline and no session is lost beside a request, a callback
\* hears once, and of its own request, although a reply names the key and not the caller.
THEOREM AnswersAreOwn ==
    ASSUME Disciplined = TRUE, Lossy = FALSE PROVE Spec => []OwnAnswer
<1>1. StepInv => OwnAnswer
  BY DEF StepInv, AnsweredOnce
<1> QED
  BY <1>1, AlwaysInStep, PTL

\* What the lists and queues hold is what is under way: no entry is left behind that
\* would take the answer to a later call, and none is missing.
THEOREM ListsKeepInStep ==
    ASSUME Disciplined = TRUE, Lossy = FALSE PROVE Spec => []InStep
<1>1. TInv /\ StepInv => InStep
  <2> SUFFICES ASSUME TInv, StepInv PROVE InStep
    OBVIOUS
  <2>1. SetsFit
    BY SetsAreRight
  <2>2. \A c, d \in DOMAIN calls : Alike(c, d) => Keys[c] = Keys[d]
    BY DEF Alike, Keys
  <2>3. /\ \A p \in Peers : Sorted(atPeer[p], Keys)
        /\ \A l \in Lists : Sorted(waiting[l], Keys)
        /\ Sorted(EventCalls, Keys) /\ Between
    BY OrderedParts DEF StepInv, ListsOrdered, PeersOrdered, QueueOrdered
  <2>4. /\ \A l \in Lists : \A i \in DOMAIN waiting[l] : waiting[l][i] \in DOMAIN calls
        /\ \A p \in Peers : \A i \in DOMAIN atPeer[p] :
              atPeer[p][i] \in Sent /\ atPeer[p][i] \in DOMAIN calls
    <3>1. \A l \in Lists : Elements(waiting[l]) \subseteq DOMAIN calls
      BY ListTyped, ElementsOf
    <3>2. \A p \in Peers : Elements(atPeer[p]) \subseteq Sent /\ Sent \subseteq DOMAIN calls
      BY <2>1 DEF SetsFit
    <3> QED
      BY <3>1, <3>2 DEF Elements
  <2>5. \A i \in DOMAIN events : /\ events[i].call \in Arrived /\ events[i].call \in DOMAIN calls
                                 /\ events[i].call = EventCalls[i] /\ i \in DOMAIN EventCalls
    BY <2>1, EventsFit DEF SetsFit
  <2>6. \A l \in Lists : ToSet(waiting[l]) = {c \in DOMAIN calls : ListOf(c) = l /\ Pending(c)}
    <3>1. \A l \in Lists : ToSet(waiting[l]) = {c \in UnderWay : ListOf(c) = l}
      BY DEF StepInv, WaitingIsUnderWay, Elements, ToSet
    <3>2. UnderWay \subseteq DOMAIN calls /\ \A c \in DOMAIN calls : Pending(c) <=> c \in UnderWay
      BY <2>1 DEF SetsFit, UnderWay
    <3> QED
      BY <3>1, <3>2
  <2>7. \A l \in Lists : \A i, j \in DOMAIN waiting[l] :
           i < j /\ Alike(waiting[l][i], waiting[l][j]) => waiting[l][i] < waiting[l][j]
    BY <2>2, <2>3, <2>4 DEF Sorted
  <2>8. \A i, j \in DOMAIN events :
           i < j /\ Alike(events[i].call, events[j].call) => events[i].call < events[j].call
    BY <2>2, <2>3, <2>5 DEF Sorted
  <2>9. \A p \in Peers : \A i, j \in DOMAIN atPeer[p] :
           i < j /\ Alike(atPeer[p][i], atPeer[p][j]) => atPeer[p][i] < atPeer[p][j]
    BY <2>2, <2>3, <2>4 DEF Sorted
  <2>10. \A p \in Peers : \A i \in DOMAIN events, j \in DOMAIN atPeer[p] :
            Alike(events[i].call, atPeer[p][j]) => events[i].call < atPeer[p][j]
    BY <2>2, <2>3, <2>4, <2>5 DEF Between
  <2>11. ASSUME NEW d \in DOMAIN calls, Returning(d)
         PROVE  /\ \A i \in DOMAIN events : Alike(events[i].call, d) => events[i].call < d
                /\ \A p \in Peers : \A i \in DOMAIN atPeer[p] :
                      Alike(atPeer[p][i], d) => atPeer[p][i] < d
    <3>1. d \in Back
      BY <2>11 DEF Back
    <3> QED
      BY <2>2, <2>3, <2>4, <2>5, <3>1 DEF Between
  <2> QED
    BY <2>6, <2>7, <2>8, <2>9, <2>10, <2>11 DEF InStep
<1> QED
  BY <1>1, AlwaysInStep, PTL

\* A start or stop is told that it was already started only while an earlier one of the
\* same types is under way: the check of the list never finds an entry left behind.
THEOREM RefusedBesideTwin ==
    ASSUME Disciplined = TRUE, Lossy = FALSE PROVE Spec => RefusedBesideTwinOnly
<1> DEFINE A == \A c \in DOMAIN calls' \ DOMAIN calls :
                   LET new == calls'[c]
                   IN  new.at = "refused" =>
                           \E d \in DOMAIN calls : /\ Pending(d)
                                                   /\ ListOf(d) = FormOf[new.form].list
                                                   /\ KeyOf(d) = << new.peer, new.selection >>
<1>1. TInv /\ StepInv /\ [Next]_vars => A
  <2> SUFFICES ASSUME TInv, StepInv, [Next]_vars,
                      NEW c \in DOMAIN calls' \ DOMAIN calls, calls'[c].at = "refused"
               PROVE  \E d \in DOMAIN calls :
                         /\ Pending(d) /\ ListOf(d) = FormOf[calls'[c].form].list
                         /\ KeyOf(d) = << calls'[c].peer, calls'[c].selection >>
    OBVIOUS
  <2>1. \A d \in DOMAIN calls, state \in CallStates : Goto(d, state) => FALSE
    BY GotoGrows
  <2>2. PICK name \in Forms, p \in Peers : \E s \in SelectionsOf(name) : Call(name, p, s)
    <3>1. ~ UNCHANGED calls
      OBVIOUS
    <3>2. ~ Return
      BY <2>1 DEF Return, Send, RemoveCallback, CallStates
    <3> QED
      BY <3>1, <3>2 DEF Next, vars, Respond, OnResponse, ProcessEvent, LoseSession
  <2>3. PICK s \in SelectionsOf(name) : Call(name, p, s)
    BY <2>2
  <2>4. s \in Selections \cup {All} /\ Len(calls) < MaxCalls
    BY <2>3 DEF SelectionsOf, Call
  <2>5. ASSUME NEW state \in CallStates, Enter(name, p, s, state)
        PROVE  calls'[c] = [form |-> name, peer |-> p, selection |-> s, at |-> state]
    <3>1. /\ DOMAIN calls' = DOMAIN calls \cup {Len(calls) + 1}
          /\ calls'[Len(calls) + 1] = [form |-> name, peer |-> p, selection |-> s, at |-> state]
      BY <2>4, <2>5, EnterGrows, ZenonT(30)
    <3> QED
      BY <3>1
  <2>6. ASSUME NEW state \in CallStates, Enter(name, p, s, state) PROVE state = "refused"
    BY <2>5, <2>6
  <2>7. Refuse(name, p, s)
    BY <2>3, <2>6 DEF Call, Begin, BeginLocked, CallStates
  <2>8. Enter(name, p, s, "refused")
        /\ PlaceIn(waiting[FormOf[name].list], FormOf[name].list, << p, s >>) # 0
    BY <2>7 DEF Refuse
  <2>9. calls'[c].form = name /\ calls'[c].peer = p /\ calls'[c].selection = s
    BY <2>5, <2>8 DEF CallStates
  <2>10. PICK d \in UnderWay : Fits(d, FormOf[name].list, << p, s >>)
    BY <2>8, NameFits, Found DEF StepInv
  <2>11. d \in DOMAIN calls /\ Pending(d)
    BY SetsAreRight DEF SetsFit, UnderWay
  <2> QED
    BY <2>9, <2>10, <2>11 DEF Fits
<1>2. TInv /\ StepInv /\ [Next]_vars => [A]_vars
  BY <1>1
<1>3. Spec => [][A]_vars
  BY <1>1, AlwaysInStep, PTL DEF Spec
<1> QED
  BY <1>3 DEF RefusedBesideTwinOnly
=============================================================================
