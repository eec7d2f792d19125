----------------------------- MODULE RelayProofs -----------------------------
(***************************************************************************)
(* Proofs about requests through a relay, for any origins and sinks, any   *)
(* number of requests and of lost sessions.                                *)
(***************************************************************************)
EXTENDS Relay, SequenceTheorems, TLAPS

(***************************************************************************)
(* Queues: what is in one, and in which order.                             *)
(***************************************************************************)
LEMMA RangeOf == ASSUME NEW S, NEW s \in Seq(S) PROVE Range(s) \subseteq S
<1>1. DOMAIN s = 1 .. Len(s) /\ \A i \in 1 .. Len(s) : s[i] \in S
  BY LenProperties, ElementOfSeq
<1> QED
  BY <1>1 DEF Range

LEMMA RangeTail ==
    ASSUME NEW S, NEW s \in Seq(S), s # << >>
    PROVE  /\ Head(s) \in Range(s) /\ Head(s) \in S /\ Tail(s) \in Seq(S)
           /\ Range(Tail(s)) \subseteq Range(s)
           /\ \A e \in Range(s) : e = Head(s) \/ e \in Range(Tail(s))
<1>1. /\ DOMAIN s = 1 .. Len(s) /\ Len(s) \in Nat /\ Tail(s) \in Seq(S) /\ Head(s) \in S
      /\ Len(Tail(s)) = Len(s) - 1 /\ \A i \in 1 .. Len(Tail(s)) : Tail(s)[i] = s[i + 1]
      /\ DOMAIN Tail(s) = 1 .. Len(Tail(s)) /\ Len(s) # 0
  BY HeadTailProperties, LenProperties, EmptySeq
<1>2. Head(s) = s[1] /\ 1 \in DOMAIN s
  BY <1>1
<1>3. Range(Tail(s)) \subseteq Range(s)
  BY <1>1 DEF Range
<1>4. ASSUME NEW e \in Range(s) PROVE e = Head(s) \/ e \in Range(Tail(s))
  <2>1. PICK i \in DOMAIN s : s[i] = e
    BY DEF Range
  <2>2. i # 1 => i - 1 \in DOMAIN Tail(s) /\ Tail(s)[i - 1] = e
    BY <1>1, <2>1
  <2> QED
    BY <1>2, <2>1, <2>2 DEF Range
<1> QED
  BY <1>1, <1>2, <1>3, <1>4 DEF Range

LEMMA RangeAppend ==
    ASSUME NEW S, NEW s \in Seq(S), NEW e \in S
    PROVE  Append(s, e) \in Seq(S) /\ Range(Append(s, e)) = Range(s) \cup {e}
<1>1. /\ DOMAIN s = 1 .. Len(s) /\ Len(s) \in Nat /\ Append(s, e) \in Seq(S)
      /\ Len(Append(s, e)) = Len(s) + 1 /\ \A i \in 1 .. Len(s) : Append(s, e)[i] = s[i]
      /\ Append(s, e)[Len(s) + 1] = e
  BY AppendProperties, LenProperties
<1>2. DOMAIN Append(s, e) = 1 .. Len(s) + 1
  BY <1>1, LenProperties
<1>3. Range(Append(s, e)) \subseteq Range(s) \cup {e}
  BY <1>1, <1>2 DEF Range
<1>4. Range(s) \cup {e} \subseteq Range(Append(s, e))
  BY <1>1, <1>2 DEF Range
<1> QED
  BY <1>1, <1>3, <1>4

LEMMA IdsAreNamed == \A s : Ids(s) = {it.req : it \in Range(s)}
BY DEF Ids, Range

\* Requests that are alike stand in a queue in the order they were made in.
Rising(s)    == \A i, j \in DOMAIN s : i < j /\ Alike(s[i].req, s[j].req) => s[i].req < s[j].req
RisingIds(s) == \A i, j \in DOMAIN s : i < j /\ Alike(s[i], s[j]) => s[i] < s[j]

LEMMA RisingTail ==
    ASSUME NEW S, NEW s \in Seq(S), s # << >>, Rising(s)
    PROVE  /\ Rising(Tail(s))
           /\ \A it \in Range(Tail(s)) : Alike(it.req, Head(s).req) => Head(s).req < it.req
<1>1. /\ DOMAIN s = 1 .. Len(s) /\ Len(s) \in Nat /\ Tail(s) \in Seq(S)
      /\ Len(Tail(s)) = Len(s) - 1 /\ \A i \in 1 .. Len(Tail(s)) : Tail(s)[i] = s[i + 1]
      /\ DOMAIN Tail(s) = 1 .. Len(Tail(s)) /\ Len(s) # 0 /\ Head(s) = s[1]
  BY HeadTailProperties, LenProperties, EmptySeq
<1>2. \A i \in DOMAIN Tail(s) : i + 1 \in DOMAIN s /\ Tail(s)[i] = s[i + 1] /\ 1 < i + 1 /\ 1 \in DOMAIN s
  BY <1>1
<1>3. \A i, j \in DOMAIN Tail(s) : i < j => i + 1 < j + 1
  BY <1>1
<1>4. Rising(Tail(s))
  BY <1>2, <1>3 DEF Rising
<1>5. ASSUME NEW i \in DOMAIN Tail(s), Alike(Tail(s)[i].req, Head(s).req)
      PROVE  Head(s).req < Tail(s)[i].req
  BY <1>1, <1>2, <1>5 DEF Rising, Alike
<1> QED
  BY <1>4, <1>5 DEF Range

LEMMA RisingAppend ==
    ASSUME NEW S, NEW s \in Seq(S), NEW e \in S, Rising(s),
           \A it \in Range(s) : Alike(it.req, e.req) => it.req < e.req
    PROVE  Rising(Append(s, e))
<1>1. /\ DOMAIN s = 1 .. Len(s) /\ Len(s) \in Nat /\ Append(s, e) \in Seq(S)
      /\ Len(Append(s, e)) = Len(s) + 1 /\ \A i \in 1 .. Len(s) : Append(s, e)[i] = s[i]
      /\ Append(s, e)[Len(s) + 1] = e
  BY AppendProperties, LenProperties
<1>2. DOMAIN Append(s, e) = 1 .. Len(s) + 1
  BY <1>1, LenProperties
<1> DEFINE t == Append(s, e)
<1>3. ASSUME NEW i \in DOMAIN t, NEW j \in DOMAIN t, i < j, Alike(t[i].req, t[j].req)
      PROVE  t[i].req < t[j].req
  <2>1. i \in DOMAIN s /\ t[i] = s[i] /\ s[i] \in Range(s)
    BY <1>1, <1>2, <1>3 DEF Range
  <2>2. CASE j \in DOMAIN s
    BY <1>1, <1>3, <2>1, <2>2 DEF Rising
  <2>3. CASE j \notin DOMAIN s
    <3>1. t[j] = e
      BY <1>1, <1>2, <2>3
    <3> QED
      BY <1>3, <2>1, <3>1
  <2> QED
    BY <2>2, <2>3
<1> QED
  BY <1>3 DEF Rising

LEMMA RisingIdsTail ==
    ASSUME NEW S, NEW s \in Seq(S), s # << >>, RisingIds(s)
    PROVE  /\ RisingIds(Tail(s))
           /\ \A r \in Range(Tail(s)) : Alike(r, Head(s)) => Head(s) < r
<1>1. /\ DOMAIN s = 1 .. Len(s) /\ Len(s) \in Nat /\ Tail(s) \in Seq(S)
      /\ Len(Tail(s)) = Len(s) - 1 /\ \A i \in 1 .. Len(Tail(s)) : Tail(s)[i] = s[i + 1]
      /\ DOMAIN Tail(s) = 1 .. Len(Tail(s)) /\ Len(s) # 0 /\ Head(s) = s[1]
  BY HeadTailProperties, LenProperties, EmptySeq
<1>2. \A i \in DOMAIN Tail(s) : i + 1 \in DOMAIN s /\ Tail(s)[i] = s[i + 1] /\ 1 < i + 1 /\ 1 \in DOMAIN s
  BY <1>1
<1>3. \A i, j \in DOMAIN Tail(s) : i < j => i + 1 < j + 1
  BY <1>1
<1>4. RisingIds(Tail(s))
  BY <1>2, <1>3 DEF RisingIds
<1>5. ASSUME NEW i \in DOMAIN Tail(s), Alike(Tail(s)[i], Head(s))
      PROVE  Head(s) < Tail(s)[i]
  BY <1>1, <1>2, <1>5 DEF RisingIds, Alike
<1> QED
  BY <1>4, <1>5 DEF Range

LEMMA RisingIdsAppend ==
    ASSUME NEW S, NEW s \in Seq(S), NEW e \in S, RisingIds(s),
           \A r \in Range(s) : Alike(r, e) => r < e
    PROVE  RisingIds(Append(s, e))
<1>1. /\ DOMAIN s = 1 .. Len(s) /\ Len(s) \in Nat /\ Append(s, e) \in Seq(S)
      /\ Len(Append(s, e)) = Len(s) + 1 /\ \A i \in 1 .. Len(s) : Append(s, e)[i] = s[i]
      /\ Append(s, e)[Len(s) + 1] = e
  BY AppendProperties, LenProperties
<1>2. DOMAIN Append(s, e) = 1 .. Len(s) + 1
  BY <1>1, LenProperties
<1> DEFINE t == Append(s, e)
<1>3. ASSUME NEW i \in DOMAIN t, NEW j \in DOMAIN t, i < j, Alike(t[i], t[j])
      PROVE  t[i] < t[j]
  <2>1. i \in DOMAIN s /\ t[i] = s[i] /\ s[i] \in Range(s)
    BY <1>1, <1>2, <1>3 DEF Range
  <2>2. CASE j \in DOMAIN s
    BY <1>1, <1>3, <2>1, <2>2 DEF RisingIds
  <2>3. CASE j \notin DOMAIN s
    <3>1. t[j] = e
      BY <1>1, <1>2, <2>3
    <3> QED
      BY <1>3, <2>1, <3>1
  <2> QED
    BY <2>2, <2>3
<1> QED
  BY <1>3 DEF RisingIds

(***************************************************************************)
(* The moves of a request.  The actions of the six kinds do the same to    *)
(* the queues, but for the way of the answers of the relay: those to       *)
(* prepare and unprepare pass its event handler.                           *)
(***************************************************************************)
Asked(o, k, kind) == (OpenToRelay(o) \/ OnLink(o)) /\ SendToRelay(kind, o, k)

LeavesRelay(o, r) ==
    /\ toRelay[o] # << >> /\ r = Head(toRelay[o])
    /\ toRelay' = [toRelay EXCEPT ![o] = Tail(toRelay[o])]

PassedOn(o, r) ==
    /\ LeavesRelay(o, r)
    /\ toSink' \in {toSink, toSink \cup {SinkOf(r)}} /\ SinkOf(r) \in toSink'
    /\ Forward(SinkOf(r), r, link[o])
    /\ UNCHANGED << link, numbered, prepared, fromSink, events, toOrigin, calls, history >>

AnsweredTo(r, session, result) ==
    \/ KindOf(r) \in Preparing /\ PostAnswer(r, session, result) /\ UNCHANGED toOrigin
    \/ KindOf(r) \notin Preparing /\ SendToOrigin(r, session, result) /\ UNCHANGED events

Refused(o, r) ==
    /\ LeavesRelay(o, r) /\ SinkOf(r) \notin toSink
    /\ AnsweredTo(r, link[o], FALSE)
    /\ UNCHANGED << sessions, atSink, fromSink, calls, history >>

Replies(k, kind, result) ==
    Reply(k, kind, result) /\ result \in BOOLEAN /\ prepared' \subseteq prepared \cup {k}

Returned(k) ==
    LET a == Head(fromSink[k])
    IN  /\ fromSink[k] # << >> /\ fromSink' = [fromSink EXCEPT ![k] = Tail(fromSink[k])]
        /\ AnsweredTo(a.req, a.session, a.result)
        /\ UNCHANGED << sessions, toRelay, atSink, calls, history >>

Announced ==
    LET a == Head(events)
    IN  /\ events # << >> /\ events' = Tail(events)
        /\ SendToOrigin(a.req, a.session, a.result)
        /\ UNCHANGED << sessions, toRelay, atSink, fromSink, calls, history >>

Received(o) == \E kind \in Kinds : TakeAnswer(o, kind)
CalledBack(o) == \E kind \in Kinds : RunCallback(o, kind)

Move ==
    \/ \E o \in Origins, k \in Sinks, kind \in Kinds : Asked(o, k, kind)
    \/ \E o \in Origins, r \in DOMAIN requests : PassedOn(o, r) \/ Refused(o, r)
    \/ \E k \in Sinks, kind \in Kinds, result \in BOOLEAN : Replies(k, kind, result)
    \/ \E k \in Sinks : Returned(k) \/ NotifyResponseRelayUnprepare(k) \/ LoseSink(k) \/ SinkOpens(k)
    \/ Announced
    \/ \E o \in Origins :
           Received(o) \/ ReceiveRelayUnprepareResult(o) \/ CalledBack(o) \/ LoseLink(o)

LEMMA NextMoves == Next => Move
<1> USE DEF sessions, queues, calls, history, Kinds, Preparing, Starting, Stopping
<1>1. Ask => Move
  <2>1. ASSUME NEW o \in Origins, NEW k \in Sinks,
               \/ SendRelayPrepareRequest(o, k) \/ SendRelayUnprepareRequest(o, k)
               \/ SendRelayStartDhidRequest(o, k) \/ SendRelayStopDhidRequest(o, k)
               \/ SendRelayStartTypeRequest(o, k) \/ SendRelayStopTypeRequest(o, k)
        PROVE  \E kind \in Kinds : Asked(o, k, kind)
    BY <2>1 DEF SendRelayPrepareRequest, SendRelayUnprepareRequest, SendRelayStartDhidRequest,
                SendRelayStopDhidRequest, SendRelayStartTypeRequest, SendRelayStopTypeRequest, Asked
  <2> QED
    BY <2>1 DEF Ask, Move
<1>2. ASSUME NEW o \in Origins, NEW r \in DOMAIN requests,
             \/ ReceiveSrcTSrcRelayPrepare(o, r) \/ ReceiveSrcTSrcRelayUnprepare(o, r)
             \/ ReceiveSrcTSrcRelayStartDhid(o, r) \/ ReceiveSrcTSrcRelayStopDhid(o, r)
             \/ ReceiveSrcTSrcRelayStartType(o, r) \/ ReceiveSrcTSrcRelayStopType(o, r)
      PROVE  PassedOn(o, r) \/ Refused(o, r)
  <2>1. \A kind : Taken(o, r, kind) => LeavesRelay(o, r) /\ KindOf(r) = kind
    BY DEF Taken, LeavesRelay
  <2>2. CASE ReceiveSrcTSrcRelayPrepare(o, r)
    BY <2>1, <2>2 DEF ReceiveSrcTSrcRelayPrepare, PassedOn, Refused, AnsweredTo,
       PrepareRemoteInput, OnResponseRelayPrepareRemoteInput
  <2>3. CASE ReceiveSrcTSrcRelayUnprepare(o, r)
    BY <2>1, <2>3 DEF ReceiveSrcTSrcRelayUnprepare, PassedOn, Refused, AnsweredTo,
       UnprepareRemoteInput, OnResponseRelayUnprepareRemoteInput
  <2>4. CASE ReceiveSrcTSrcRelayStartDhid(o, r)
    <3>1. LeavesRelay(o, r) /\ KindOf(r) \notin Preparing
      BY <2>1, <2>4 DEF ReceiveSrcTSrcRelayStartDhid
    <3>2. CASE StartRemoteInputDhids(SinkOf(r), r, link[o])
      BY <2>4, <3>1, <3>2 DEF ReceiveSrcTSrcRelayStartDhid, PassedOn, StartRemoteInputDhids
    <3>3. CASE ~StartRemoteInputDhids(SinkOf(r), r, link[o])
      BY <2>4, <3>1, <3>3 DEF ReceiveSrcTSrcRelayStartDhid, Refused, AnsweredTo, NotifyOriginStartDhidResult
    <3> QED
      BY <3>2, <3>3
  <2>5. CASE ReceiveSrcTSrcRelayStopDhid(o, r)
    <3>1. LeavesRelay(o, r) /\ KindOf(r) \notin Preparing
      BY <2>1, <2>5 DEF ReceiveSrcTSrcRelayStopDhid
    <3>2. CASE StopRemoteInputDhids(SinkOf(r), r, link[o])
      BY <2>5, <3>1, <3>2 DEF ReceiveSrcTSrcRelayStopDhid, PassedOn, StopRemoteInputDhids
    <3>3. CASE ~StopRemoteInputDhids(SinkOf(r), r, link[o])
      BY <2>5, <3>1, <3>3 DEF ReceiveSrcTSrcRelayStopDhid, Refused, AnsweredTo, NotifyOriginStopDhidResult
    <3> QED
      BY <3>2, <3>3
  <2>6. CASE ReceiveSrcTSrcRelayStartType(o, r)
    <3>1. LeavesRelay(o, r) /\ KindOf(r) \notin Preparing
      BY <2>1, <2>6 DEF ReceiveSrcTSrcRelayStartType
    <3>2. CASE StartRemoteInputType(SinkOf(r), r, link[o])
      BY <2>6, <3>1, <3>2 DEF ReceiveSrcTSrcRelayStartType, PassedOn, StartRemoteInputType
    <3>3. CASE ~StartRemoteInputType(SinkOf(r), r, link[o])
      BY <2>6, <3>1, <3>3 DEF ReceiveSrcTSrcRelayStartType, Refused, AnsweredTo, NotifyOriginStartTypeResult
    <3> QED
      BY <3>2, <3>3
  <2>7. CASE ReceiveSrcTSrcRelayStopType(o, r)
    <3>1. LeavesRelay(o, r) /\ KindOf(r) \notin Preparing
      BY <2>1, <2>7 DEF ReceiveSrcTSrcRelayStopType
    <3>2. CASE StopRemoteInputType(SinkOf(r), r, link[o])
      BY <2>7, <3>1, <3>2 DEF ReceiveSrcTSrcRelayStopType, PassedOn, StopRemoteInputType
    <3>3. CASE ~StopRemoteInputType(SinkOf(r), r, link[o])
      BY <2>7, <3>1, <3>3 DEF ReceiveSrcTSrcRelayStopType, Refused, AnsweredTo, NotifyOriginStopTypeResult
    <3> QED
      BY <3>2, <3>3
  <2> QED
    BY <1>2, <2>2, <2>3, <2>4, <2>5, <2>6, <2>7
<1>3. ASSUME NEW k \in Sinks,
             \/ NotifyResponseRelayPrepare(k)
             \/ NotifyResponseRelayStartDhid(k) \/ NotifyResponseRelayStopDhid(k)
             \/ NotifyResponseRelayStartType(k) \/ NotifyResponseRelayStopType(k)
      PROVE  Returned(k)
  <2>1. \A kind : TakeReply(k, kind) =>
            /\ fromSink[k] # << >> /\ fromSink' = [fromSink EXCEPT ![k] = Tail(fromSink[k])]
            /\ KindOf(Head(fromSink[k]).req) = kind
            /\ UNCHANGED << sessions, toRelay, atSink, calls, history >>
    BY DEF TakeReply, FirstReply
  <2>2. CASE NotifyResponseRelayPrepare(k)
    BY <2>1, <2>2 DEF NotifyResponseRelayPrepare, Returned, AnsweredTo, OnResponseRelayPrepareRemoteInput
  <2>3. CASE NotifyResponseRelayStartDhid(k)
    BY <2>1, <2>3 DEF NotifyResponseRelayStartDhid, Returned, AnsweredTo, NotifyOriginStartDhidResult
  <2>4. CASE NotifyResponseRelayStopDhid(k)
    BY <2>1, <2>4 DEF NotifyResponseRelayStopDhid, Returned, AnsweredTo, NotifyOriginStopDhidResult
  <2>5. CASE NotifyResponseRelayStartType(k)
    BY <2>1, <2>5 DEF NotifyResponseRelayStartType, Returned, AnsweredTo, NotifyOriginStartTypeResult
  <2>6. CASE NotifyResponseRelayStopType(k)
    BY <2>1, <2>6 DEF NotifyResponseRelayStopType, Returned, AnsweredTo, NotifyOriginStopTypeResult
  <2> QED
    BY <1>3, <2>2, <2>3, <2>4, <2>5, <2>6
<1>4. ASSUME NotifyPrepareResult \/ NotifyUnprepareResult PROVE Announced
  BY <1>4 DEF NotifyPrepareResult, NotifyUnprepareResult, Announced,
     NotifyOriginPrepareResult, NotifyOriginUnprepareResult
<1>5. AtRelay => Move
  BY <1>2, <1>3, <1>4 DEF AtRelay, Move
<1>6. ASSUME NEW k \in Sinks,
             \/ NotifyRelayPrepareRemoteInput(k) \/ NotifyRelayUnprepareRemoteInput(k)
             \/ NotifyRelayStartDhidRemoteInput(k) \/ NotifyRelayStopDhidRemoteInput(k)
             \/ NotifyRelayStartTypeRemoteInput(k) \/ NotifyRelayStopTypeRemoteInput(k)
      PROVE  \E kind \in Kinds, result \in BOOLEAN : Replies(k, kind, result)
  <2>1. NotifyRelayPrepareRemoteInput(k) => Replies(k, "prepare", TRUE)
    BY DEF NotifyRelayPrepareRemoteInput, Replies
  <2>2. NotifyRelayUnprepareRemoteInput(k) => Replies(k, "unprepare", TRUE)
    BY DEF NotifyRelayUnprepareRemoteInput, Replies
  <2>3. NotifyRelayStartDhidRemoteInput(k) => Replies(k, "startDhid", k \in prepared)
    BY DEF NotifyRelayStartDhidRemoteInput, Replies
  <2>4. NotifyRelayStopDhidRemoteInput(k) => Replies(k, "stopDhid", TRUE)
    BY DEF NotifyRelayStopDhidRemoteInput, Replies
  <2>5. NotifyRelayStartTypeRemoteInput(k) => Replies(k, "startType", k \in prepared)
    BY DEF NotifyRelayStartTypeRemoteInput, Replies
  <2>6. NotifyRelayStopTypeRemoteInput(k) => Replies(k, "stopType", TRUE)
    BY DEF NotifyRelayStopTypeRemoteInput, Replies
  <2>7. ASSUME NEW kind \in Kinds, NEW result, Replies(k, kind, result)
        PROVE  \E knd \in Kinds, res \in BOOLEAN : Replies(k, knd, res)
    BY <2>7 DEF Replies
  <2>8. /\ "prepare" \in Kinds /\ "unprepare" \in Kinds /\ "startDhid" \in Kinds
        /\ "stopDhid" \in Kinds /\ "startType" \in Kinds /\ "stopType" \in Kinds
    OBVIOUS
  <2> QED
    BY <1>6, <2>1, <2>2, <2>3, <2>4, <2>5, <2>6, <2>7, <2>8, Zenon
<1>7. AtSink => Move
  BY <1>6 DEF AtSink, Move
<1>8. ASSUME NEW o \in Origins,
             \/ ReceiveRelayPrepareResult(o)
             \/ ReceiveRelayStartDhidResult(o) \/ ReceiveRelayStopDhidResult(o)
             \/ ReceiveRelayStartTypeResult(o) \/ ReceiveRelayStopTypeResult(o)
      PROVE  Received(o)
  BY <1>8 DEF ReceiveRelayPrepareResult, ReceiveRelayStartDhidResult, ReceiveRelayStopDhidResult,
     ReceiveRelayStartTypeResult, ReceiveRelayStopTypeResult, Received
<1>9. ASSUME NEW o \in Origins,
             \/ RunRelayPrepareCallback(o) \/ RunRelayUnprepareCallback(o)
             \/ RunRelayStartDhidCallback(o) \/ RunRelayStopDhidCallback(o)
             \/ RunRelayStartTypeCallback(o) \/ RunRelayStopTypeCallback(o)
      PROVE  CalledBack(o)
  BY <1>9 DEF RunRelayPrepareCallback, RunRelayUnprepareCallback, RunRelayStartDhidCallback,
     RunRelayStopDhidCallback, RunRelayStartTypeCallback, RunRelayStopTypeCallback, CalledBack
<1>10. AtOrigin => Move
  BY <1>8, <1>9 DEF AtOrigin, Move
<1>11. Environment => Move
  BY DEF Environment, Move
<1> QED
  BY <1>1, <1>5, <1>7, <1>10, <1>11 DEF Next, Deliver

(***************************************************************************)
(* Types.  What is on a session with a sink goes when it is closed.        *)
(***************************************************************************)
SinksLinked == \A k \in Sinks \ toSink : atSink[k] = << >> /\ fromSink[k] = << >>

TInv == TypeOK /\ SinksLinked

LEMMA RequestsType ==
    ASSUME TypeOK
    PROVE  /\ Len(requests) \in Nat /\ DOMAIN requests = 1 .. Len(requests)
           /\ DOMAIN requests \subseteq Requests /\ MaxRequests \in Nat /\ MaxLosses \in Nat
           /\ \A r \in DOMAIN requests :
                  /\ r \in Requests /\ r \in Nat
                  /\ OriginOf(r) \in Origins /\ SinkOf(r) \in Sinks /\ KindOf(r) \in Kinds
<1>1. requests \in Seq(Request) /\ Len(requests) <= MaxRequests /\ MaxRequests \in Nat
      /\ MaxLosses \in Nat
  BY RelayAssumption DEF TypeOK
<1>2. Len(requests) \in Nat /\ DOMAIN requests = 1 .. Len(requests)
  BY <1>1, LenProperties
<1>3. \A r \in DOMAIN requests : r \in Requests /\ r \in Nat
  BY <1>1, <1>2 DEF Requests
<1>4. \A r \in DOMAIN requests : requests[r] \in Request
  BY <1>1, <1>2, ElementOfSeq
<1>5. \A r \in DOMAIN requests : OriginOf(r) \in Origins /\ SinkOf(r) \in Sinks /\ KindOf(r) \in Kinds
  BY <1>4 DEF Request, OriginOf, SinkOf, KindOf
<1> QED
  BY <1>1, <1>2, <1>3, <1>5

LEMMA IdsOf ==
    ASSUME NEW S, NEW s \in Seq(S), \A it \in S : it.req \in Requests
    PROVE  Ids(s) \subseteq Requests
<1>1. DOMAIN s = 1 .. Len(s)
  BY LenProperties
<1>2. \A i \in DOMAIN s : s[i] \in S
  BY <1>1, ElementOfSeq
<1> QED
  BY <1>2 DEF Ids

LEMMA IdsType ==
    ASSUME TypeOK
    PROVE  /\ \A k \in Sinks : Ids(atSink[k]) \subseteq Requests /\ Ids(fromSink[k]) \subseteq Requests
           /\ \A o \in Origins : Ids(posted[o]) \subseteq Requests
           /\ \A o \in Origins : Pending(o) \subseteq Requests
<1>0. /\ \A it \in Passed : it.req \in Requests
      /\ \A it \in Replied : it.req \in Requests
      /\ \A it \in Result : it.req \in Requests
  BY DEF Passed, Replied, Result
<1>1. \A k \in Sinks : Ids(atSink[k]) \subseteq Requests
  <2>1. \A k \in Sinks : atSink[k] \in Seq(Passed)
    BY DEF TypeOK
  <2> QED
    BY <1>0, <2>1, IdsOf
<1>2. \A k \in Sinks : Ids(fromSink[k]) \subseteq Requests
  <2>1. \A k \in Sinks : fromSink[k] \in Seq(Replied)
    BY DEF TypeOK
  <2> QED
    BY <1>0, <2>1, IdsOf
<1>3. \A o \in Origins : Ids(posted[o]) \subseteq Requests
  <2>1. \A o \in Origins : posted[o] \in Seq(Result)
    BY DEF TypeOK
  <2> QED
    BY <1>0, <2>1, IdsOf
<1>4. \A o \in Origins : Pending(o) \subseteq Requests
  BY RequestsType DEF Pending
<1> QED
  BY <1>1, <1>2, <1>3, <1>4

LEMMA SentType ==
    ASSUME TypeOK, NEW r \in Requests, NEW session, NEW result \in BOOLEAN,
           SendToOrigin(r, session, result)
    PROVE  toOrigin' \in [Origins -> Seq(Result)]
<1>1. [req |-> r, result |-> result] \in Result
  BY DEF Result
<1>2. \A o \in Origins : toOrigin[o] \in Seq(Result)
  BY DEF TypeOK
<1>3. \A o \in Origins : Append(toOrigin[o], [req |-> r, result |-> result]) \in Seq(Result)
  BY <1>1, <1>2, AppendProperties
<1> QED
  BY <1>2, <1>3 DEF SendToOrigin

LEMMA AnsweredType ==
    ASSUME TypeOK, NEW r \in Requests, NEW session \in Nat, NEW result \in BOOLEAN,
           AnsweredTo(r, session, result)
    PROVE  events' \in Seq(Replied) /\ toOrigin' \in [Origins -> Seq(Result)]
<1>1. CASE PostAnswer(r, session, result) /\ UNCHANGED toOrigin
  <2>1. [req |-> r, session |-> session, result |-> result] \in Replied
    BY DEF Replied
  <2> QED
    BY <1>1, <2>1, AppendProperties DEF PostAnswer, TypeOK
<1>2. CASE SendToOrigin(r, session, result) /\ UNCHANGED events
  BY <1>2, SentType DEF TypeOK
<1> QED
  BY <1>1, <1>2 DEF AnsweredTo

LEMMA InitTInv == Init => TInv
<1> SUFFICES ASSUME Init PROVE TInv
  OBVIOUS
<1>1. /\ << >> \in Seq(Request) /\ << >> \in Seq(Requests) /\ << >> \in Seq(Passed) /\ << >> \in Seq(Replied)
      /\ << >> \in Seq(Result) /\ << >> \in Seq(Called) /\ Len(<< >>) = 0
  BY EmptySeq
<1>2. MaxRequests \in Nat /\ MaxLosses \in Nat
  BY RelayAssumption
<1>3. link \in [Origins -> Nat] /\ numbered \in Nat /\ toSink \subseteq Sinks /\ prepared \subseteq toSink
      /\ requests \in Seq(Request) /\ Len(requests) <= MaxRequests /\ losses \in 0 .. MaxLosses
  BY <1>1, <1>2 DEF Init, None
<1>4. toRelay \in [Origins -> Seq(Requests)] /\ waiting \in [Origins -> SUBSET Requests]
  BY <1>1 DEF Init
<1>5. atSink \in [Sinks -> Seq(Passed)] /\ fromSink \in [Sinks -> Seq(Replied)] /\ events \in Seq(Replied)
  BY <1>1 DEF Init
<1>6. toOrigin \in [Origins -> Seq(Result)] /\ posted \in [Origins -> Seq(Result)]
      /\ answers \in [Origins -> Seq(Called)]
  BY <1>1 DEF Init
<1>7. done \subseteq Requests /\ lost \subseteq Requests /\ SinksLinked
  BY DEF Init, SinksLinked
<1> QED
  BY <1>3, <1>4, <1>5, <1>6, <1>7 DEF TInv, TypeOK

\* Every move keeps the types.
LEMMA NextTInv == TInv /\ [Next]_vars => TInv'
<1> SUFFICES ASSUME TInv, [Next]_vars PROVE TInv'
  OBVIOUS
<1> USE DEF sessions, queues, calls, history, None
<1>0. TypeOK /\ SinksLinked /\ MaxRequests \in Nat /\ MaxLosses \in Nat
  BY RequestsType DEF TInv
<1>1. ASSUME NEW o \in Origins, NEW k \in Sinks, NEW kind \in Kinds, Asked(o, k, kind) PROVE TInv'
  <2>1. link' \in [Origins -> Nat] /\ numbered' \in Nat
    <3>1. link \in [Origins -> Nat] /\ numbered \in Nat
      BY <1>0 DEF TypeOK
    <3>2. CASE UNCHANGED << link, numbered >>
      BY <3>1, <3>2
    <3>3. CASE link' = [link EXCEPT ![o] = numbered + 1] /\ numbered' = numbered + 1
      BY <3>1, <3>3
    <3> QED
      BY <1>1, <3>2, <3>3 DEF Asked, OpenToRelay, OnLink
  <2>2. Len(requests) + 1 \in Requests
    BY <1>0, <1>1, RequestsType DEF Asked, SendToRelay, Requests
  <2>3. requests' \in Seq(Request) /\ Len(requests') <= MaxRequests
    <3>1. [origin |-> o, sink |-> k, kind |-> kind] \in Request /\ requests \in Seq(Request)
      BY <1>0 DEF Request, TypeOK
    <3>2. requests' = Append(requests, [origin |-> o, sink |-> k, kind |-> kind])
          /\ Len(requests) < MaxRequests
      BY <1>1 DEF Asked, SendToRelay
    <3>3. Len(requests') = Len(requests) + 1 /\ requests' \in Seq(Request)
      BY <3>1, <3>2, AppendProperties
    <3> QED
      BY <1>0, <3>2, <3>3, RequestsType
  <2>4. toRelay' \in [Origins -> Seq(Requests)]
    <3>1. Append(toRelay[o], Len(requests) + 1) \in Seq(Requests)
      BY <1>0, <2>2, AppendProperties DEF TypeOK
    <3> QED
      BY <1>0, <1>1, <3>1 DEF Asked, SendToRelay, TypeOK
  <2>5. waiting' \in [Origins -> SUBSET Requests] /\ lost' \subseteq Requests
    <3>1. waiting \in [Origins -> SUBSET Requests] /\ lost \subseteq Requests
      BY <1>0 DEF TypeOK
    <3>2. CASE waiting' = waiting /\ lost' = lost \cup {Len(requests) + 1}
      BY <2>2, <3>1, <3>2
    <3>3. CASE waiting' = [waiting EXCEPT ![o] = waiting[o] \cup {Len(requests) + 1}] /\ lost' = lost
      BY <2>2, <3>1, <3>3
    <3> QED
      BY <1>1, <3>2, <3>3 DEF Asked, SendToRelay, EnterCallback
  <2> QED
    BY <1>0, <1>1, <2>1, <2>3, <2>4, <2>5 DEF Asked, SendToRelay, TInv, TypeOK, SinksLinked
<1>2. ASSUME NEW o \in Origins, NEW r \in DOMAIN requests, LeavesRelay(o, r)
      PROVE  /\ toRelay' \in [Origins -> Seq(Requests)] /\ link[o] \in Nat
             /\ r \in Requests /\ SinkOf(r) \in Sinks
  <2>1. Tail(toRelay[o]) \in Seq(Requests) /\ link[o] \in Nat
    BY <1>0, <1>2, HeadTailProperties DEF LeavesRelay, TypeOK
  <2> QED
    BY <1>0, <1>2, <2>1, RequestsType DEF LeavesRelay, TypeOK
<1>3. ASSUME NEW o \in Origins, NEW r \in DOMAIN requests, PassedOn(o, r) PROVE TInv'
  <2>1. LeavesRelay(o, r)
    BY <1>3 DEF PassedOn
  <2>2. [req |-> r, session |-> link[o]] \in Passed
    BY <1>2, <2>1 DEF Passed
  <2>3. Append(atSink[SinkOf(r)], [req |-> r, session |-> link[o]]) \in Seq(Passed)
    BY <1>0, <1>2, <2>1, <2>2, AppendProperties DEF TypeOK
  <2>4. atSink' \in [Sinks -> Seq(Passed)]
    BY <1>0, <1>3, <2>3 DEF PassedOn, Forward, TypeOK
  <2>5. toSink' \subseteq Sinks /\ prepared \subseteq toSink'
    BY <1>0, <1>2, <1>3, <2>1 DEF PassedOn, TypeOK
  <2>6. SinksLinked'
    BY <1>0, <1>3 DEF PassedOn, Forward, SinksLinked, TypeOK
  <2> QED
    BY <1>0, <1>2, <1>3, <2>1, <2>4, <2>5, <2>6 DEF PassedOn, TInv, TypeOK
<1>4. ASSUME NEW o \in Origins, NEW r \in DOMAIN requests, Refused(o, r) PROVE TInv'
  <2>1. LeavesRelay(o, r) /\ AnsweredTo(r, link[o], FALSE)
    BY <1>4 DEF Refused
  <2>2. events' \in Seq(Replied) /\ toOrigin' \in [Origins -> Seq(Result)]
    BY <1>0, <1>2, <2>1, AnsweredType
  <2> QED
    BY <1>0, <1>2, <1>4, <2>1, <2>2 DEF Refused, TInv, TypeOK, SinksLinked
<1>5. ASSUME NEW k \in Sinks, NEW kind \in Kinds, NEW result \in BOOLEAN, Replies(k, kind, result)
      PROVE  TInv'
  <2>1. Head(atSink[k]) \in Passed /\ Tail(atSink[k]) \in Seq(Passed) /\ k \in toSink
    BY <1>0, <1>5, HeadTailProperties DEF Replies, Reply, TypeOK, SinksLinked
  <2>2. [req |-> Head(atSink[k]).req, session |-> Head(atSink[k]).session, result |-> result] \in Replied
        /\ Head(atSink[k]).req \in Requests
    BY <2>1 DEF Passed, Replied
  <2>3. Append(fromSink[k], [req |-> Head(atSink[k]).req, session |-> Head(atSink[k]).session,
                             result |-> result]) \in Seq(Replied)
    BY <1>0, <2>2, AppendProperties DEF TypeOK
  <2>4. atSink' \in [Sinks -> Seq(Passed)] /\ fromSink' \in [Sinks -> Seq(Replied)]
    BY <1>0, <1>5, <2>1, <2>3 DEF Replies, Reply, TypeOK
  <2>5. prepared' \subseteq toSink' /\ done' \subseteq Requests
    BY <1>0, <1>5, <2>1, <2>2 DEF Replies, Reply, TypeOK
  <2>6. SinksLinked'
    BY <1>0, <1>5, <2>1 DEF Replies, Reply, SinksLinked, TypeOK
  <2> QED
    BY <1>0, <1>5, <2>4, <2>5, <2>6 DEF Replies, Reply, TInv, TypeOK
<1>6. ASSUME NEW k \in Sinks, fromSink[k] # << >>
      PROVE  /\ Head(fromSink[k]).req \in Requests /\ Head(fromSink[k]).session \in Nat
             /\ Head(fromSink[k]).result \in BOOLEAN /\ Tail(fromSink[k]) \in Seq(Replied)
             /\ Ids(Tail(fromSink[k])) \subseteq Requests
  <2>1. Head(fromSink[k]) \in Replied /\ Tail(fromSink[k]) \in Seq(Replied)
    BY <1>0, <1>6, HeadTailProperties DEF TypeOK
  <2>2. Ids(Tail(fromSink[k])) \subseteq Requests
    <3>1. \A it \in Replied : it.req \in Requests
      BY DEF Replied
    <3> QED
      BY <2>1, <3>1, IdsOf
  <2> QED
    BY <2>1, <2>2 DEF Replied
<1>7. ASSUME NEW k \in Sinks, Returned(k) PROVE TInv'
  <2>1. fromSink[k] # << >> /\ fromSink' = [fromSink EXCEPT ![k] = Tail(fromSink[k])]
        /\ AnsweredTo(Head(fromSink[k]).req, Head(fromSink[k]).session, Head(fromSink[k]).result)
        /\ UNCHANGED << sessions, toRelay, atSink, calls, history >>
    BY <1>7 DEF Returned
  <2>2. events' \in Seq(Replied) /\ toOrigin' \in [Origins -> Seq(Result)]
    BY <1>0, <1>6, <2>1, AnsweredType
  <2>3. fromSink' \in [Sinks -> Seq(Replied)] /\ k \in toSink
    BY <1>0, <1>6, <2>1 DEF TypeOK, SinksLinked
  <2>4. SinksLinked'
    BY <1>0, <2>1, <2>3 DEF SinksLinked, TypeOK
  <2> QED
    BY <1>0, <2>1, <2>2, <2>3, <2>4 DEF TInv, TypeOK
<1>8. ASSUME NEW k \in Sinks, CloseSink(k)
      PROVE  /\ toSink' \subseteq Sinks /\ prepared' \subseteq toSink' /\ SinksLinked'
             /\ atSink' \in [Sinks -> Seq(Passed)] /\ fromSink' \in [Sinks -> Seq(Replied)]
  <2>1. << >> \in Seq(Passed) /\ << >> \in Seq(Replied)
    BY EmptySeq
  <2> QED
    BY <1>0, <1>8, <2>1 DEF CloseSink, TypeOK, SinksLinked
<1>9. ASSUME NEW k \in Sinks, NotifyResponseRelayUnprepare(k) PROVE TInv'
  <2>1. fromSink[k] # << >> /\ CloseSink(k)
        /\ PostAnswer(Head(fromSink[k]).req, Head(fromSink[k]).session, Head(fromSink[k]).result)
        /\ lost' = lost \cup Ids(atSink[k]) \cup Ids(Tail(fromSink[k]))
        /\ UNCHANGED << link, numbered, toRelay, toOrigin, calls, requests, done, losses >>
    BY <1>9 DEF NotifyResponseRelayUnprepare, FirstReply, OnResponseRelayUnprepareRemoteInput
  <2>2. events' \in Seq(Replied)
    <3>1. [req |-> Head(fromSink[k]).req, session |-> Head(fromSink[k]).session,
           result |-> Head(fromSink[k]).result] \in Replied
      BY <1>6, <2>1 DEF Replied
    <3> QED
      BY <1>0, <2>1, <3>1, AppendProperties DEF PostAnswer, TypeOK
  <2>3. lost' \subseteq Requests
    BY <1>0, <1>6, <2>1, IdsType DEF TypeOK
  <2> QED
    BY <1>0, <1>8, <2>1, <2>2, <2>3 DEF TInv, TypeOK
<1>10. ASSUME NEW k \in Sinks, LoseSink(k) PROVE TInv'
  <2>1. lost' \subseteq Requests /\ losses' \in 0 .. MaxLosses
    BY <1>0, <1>10, IdsType DEF LoseSink, TypeOK
  <2> QED
    BY <1>0, <1>8, <1>10, <2>1 DEF LoseSink, TInv, TypeOK
<1>11. ASSUME NEW k \in Sinks, SinkOpens(k) PROVE TInv'
  BY <1>0, <1>11 DEF SinkOpens, TInv, TypeOK, SinksLinked
<1>12. CASE Announced
  <2>1. events # << >> /\ events' = Tail(events)
        /\ SendToOrigin(Head(events).req, Head(events).session, Head(events).result)
        /\ UNCHANGED << sessions, toRelay, atSink, fromSink, calls, history >>
    BY <1>12 DEF Announced
  <2>2. Head(events) \in Replied /\ events' \in Seq(Replied)
    BY <1>0, <2>1, HeadTailProperties DEF TypeOK
  <2>3. Head(events).req \in Requests /\ Head(events).result \in BOOLEAN
    BY <2>2 DEF Replied
  <2>4. toOrigin' \in [Origins -> Seq(Result)]
    BY <1>0, <2>1, <2>3, SentType
  <2> QED
    BY <1>0, <2>1, <2>2, <2>4 DEF TInv, TypeOK, SinksLinked
<1>13. ASSUME NEW o \in Origins, toOrigin[o] # << >>
       PROVE  /\ Tail(toOrigin[o]) \in Seq(Result) /\ Head(toOrigin[o]) \in Result
              /\ Append(posted[o], Head(toOrigin[o])) \in Seq(Result)
  <2>1. Tail(toOrigin[o]) \in Seq(Result) /\ Head(toOrigin[o]) \in Result
    BY <1>0, <1>13, HeadTailProperties DEF TypeOK
  <2> QED
    BY <1>0, <2>1, AppendProperties DEF TypeOK
<1>14. ASSUME NEW o \in Origins, Received(o) PROVE TInv'
  <2>1. /\ toOrigin[o] # << >> /\ posted' = [posted EXCEPT ![o] = Append(posted[o], Head(toOrigin[o]))]
        /\ toOrigin' = [toOrigin EXCEPT ![o] = Tail(toOrigin[o])]
        /\ UNCHANGED << sessions, toRelay, atSink, fromSink, events, waiting, answers, history >>
    BY <1>14 DEF Received, TakeAnswer, FirstAnswer
  <2>2. posted' \in [Origins -> Seq(Result)] /\ toOrigin' \in [Origins -> Seq(Result)]
    BY <1>0, <1>13, <2>1 DEF TypeOK
  <2> QED
    BY <1>0, <2>1, <2>2 DEF TInv, TypeOK, SinksLinked
<1>15. ASSUME NEW o \in Origins, CloseLink(o)
       PROVE  /\ link' \in [Origins -> Nat] /\ toRelay' \in [Origins -> Seq(Requests)]
              /\ toOrigin' \in [Origins -> Seq(Result)]
  <2>1. << >> \in Seq(Requests) /\ << >> \in Seq(Result)
    BY EmptySeq
  <2> QED
    BY <1>0, <1>15, <2>1 DEF CloseLink, TypeOK
<1>16. ASSUME NEW o \in Origins, ReceiveRelayUnprepareResult(o) PROVE TInv'
  <2>1. /\ toOrigin[o] # << >> /\ posted' = [posted EXCEPT ![o] = Append(posted[o], Head(toOrigin[o]))]
        /\ CloseLink(o) /\ lost' = lost \cup (Pending(o) \ {Head(toOrigin[o]).req})
        /\ UNCHANGED << numbered, toSink, prepared, atSink, fromSink, events >>
        /\ UNCHANGED << waiting, answers, requests, done, losses >>
    BY <1>16 DEF ReceiveRelayUnprepareResult, FirstAnswer
  <2>2. posted' \in [Origins -> Seq(Result)]
    BY <1>0, <1>13, <2>1 DEF TypeOK
  <2>3. lost' \subseteq Requests
    BY <1>0, <2>1, IdsType DEF TypeOK
  <2> QED
    BY <1>0, <1>15, <2>1, <2>2, <2>3 DEF TInv, TypeOK, SinksLinked
<1>17. ASSUME NEW o \in Origins, CalledBack(o) PROVE TInv'
  <2>1. /\ posted[o] # << >> /\ posted' = [posted EXCEPT ![o] = Tail(posted[o])]
        /\ \/ UNCHANGED << waiting, answers >>
           \/ \E c \in waiting[o] :
                  /\ waiting' = [waiting EXCEPT ![o] = waiting[o] \ {c}]
                  /\ answers' = [answers EXCEPT ![o] = Append(answers[o],
                         [req |-> Head(posted[o]).req, caller |-> c, result |-> Head(posted[o]).result])]
        /\ UNCHANGED << sessions, queues, history >>
    BY <1>17 DEF CalledBack, RunCallback
  <2>2. Tail(posted[o]) \in Seq(Result) /\ Head(posted[o]) \in Result
    BY <1>0, <2>1, HeadTailProperties DEF TypeOK
  <2>3. ASSUME NEW c \in waiting[o]
        PROVE  Append(answers[o], [req |-> Head(posted[o]).req, caller |-> c,
                                   result |-> Head(posted[o]).result]) \in Seq(Called)
    <3>1. [req |-> Head(posted[o]).req, caller |-> c, result |-> Head(posted[o]).result] \in Called
      BY <1>0, <2>2 DEF TypeOK, Called, Result
    <3> QED
      BY <1>0, <3>1, AppendProperties DEF TypeOK
  <2>4. posted' \in [Origins -> Seq(Result)] /\ waiting' \in [Origins -> SUBSET Requests]
    BY <1>0, <2>1, <2>2 DEF TypeOK
  <2>5. answers' \in [Origins -> Seq(Called)]
    BY <1>0, <2>1, <2>3 DEF TypeOK
  <2> QED
    BY <1>0, <2>1, <2>4, <2>5 DEF TInv, TypeOK, SinksLinked
<1>18. ASSUME NEW o \in Origins, LoseLink(o) PROVE TInv'
  <2>1. lost' \subseteq Requests /\ losses' \in 0 .. MaxLosses
    BY <1>0, <1>18, IdsType DEF LoseLink, TypeOK
  <2>2. waiting' \in [Origins -> SUBSET Requests]
    BY <1>0, <1>18 DEF LoseLink, ResetSrcMgrResStatus, TypeOK
  <2> QED
    BY <1>0, <1>15, <1>18, <2>1, <2>2 DEF LoseLink, TInv, TypeOK, SinksLinked
<1>19. CASE UNCHANGED vars
  BY <1>0, <1>19 DEF vars, TInv, TypeOK, SinksLinked
<1> QED
  BY NextMoves, <1>1, <1>3, <1>4, <1>5, <1>7, <1>9, <1>10, <1>11, <1>12, <1>14, <1>16, <1>17, <1>18, <1>19
     DEF Move

(***************************************************************************)
(* The way of a request: the stages it passes, each a set of requests.     *)
(***************************************************************************)
Within(q) == UNION {Ids(q[i]) : i \in DOMAIN q}
Sent      == UNION {Range(toRelay[o]) : o \in DOMAIN toRelay}

Way ==
    << Sent, Within(atSink), Within(fromSink), Ids(events),
       Within(toOrigin), Within(posted), Within(answers) >>

OnWay(r) == \E n \in 1 .. 6 : r \in Way[n]

\* Of two requests that are alike, the later one is not further on its way.
InTurnOf(W) == \A a, b \in 1 .. 7 : a < b => \A x \in W[a], y \in W[b] : Alike(x, y) => y < x
InTurn      == InTurnOf(Way)

\* Nor is it in front of the other in a queue.
Lines(q) == \A i \in DOMAIN q : Rising(q[i])
Sorted ==
    /\ \A o \in Origins : RisingIds(toRelay[o])
    /\ Lines(atSink) /\ Lines(fromSink) /\ Rising(events)
    /\ Lines(toOrigin) /\ Lines(posted) /\ Lines(answers)

\* A number is of one session with one origin.
Links ==
    /\ \A o \in Origins : link[o] <= numbered /\ (toRelay[o] # << >> => link[o] # None)
    /\ \A o, p \in Origins : link[o] = link[p] /\ link[o] # None => o = p

\* The number that travels with a request is of the session with its origin, while
\* there is one; a request that is not lost still has that session.
OnSession(it) ==
    /\ it.session <= numbered
    /\ \A o \in Origins : link[o] = it.session /\ it.session # None => OriginOf(it.req) = o
    /\ it.req \notin lost => link[OriginOf(it.req)] = it.session /\ it.session # None

Known(r)    == r \in DOMAIN requests
Truthful(it) == it.result <=> it.req \in done

\* What stands in a queue belongs there, and says what the sink did.
SentHome(q)   == \A o \in Origins : \A r \in Range(q[o]) : Known(r) /\ OriginOf(r) = o /\ r \notin done
SinkHome(q)   == \A k \in Sinks : \A it \in Range(q[k]) :
                     Known(it.req) /\ SinkOf(it.req) = k /\ it.req \notin done
ReplyHome(q)  == \A k \in Sinks : \A it \in Range(q[k]) :
                     Known(it.req) /\ SinkOf(it.req) = k /\ Truthful(it)
EventHome(s)  == \A it \in Range(s) : Known(it.req) /\ KindOf(it.req) \in Preparing /\ Truthful(it)
AnswerHome(q) == \A o \in Origins : \A it \in Range(q[o]) :
                     Known(it.req) /\ OriginOf(it.req) = o /\ Truthful(it)

Homes ==
    /\ SentHome(toRelay) /\ SinkHome(atSink) /\ ReplyHome(fromSink) /\ EventHome(events)
    /\ AnswerHome(toOrigin) /\ AnswerHome(posted) /\ AnswerHome(answers)
    /\ done \subseteq DOMAIN requests /\ lost \subseteq DOMAIN requests

Numbers ==
    /\ \A k \in Sinks : \A it \in Range(atSink[k]) \cup Range(fromSink[k]) : OnSession(it)
    /\ \A it \in Range(events) : OnSession(it)

\* A callback waits exactly as long as its request is on its way, as long as nothing
\* like the request was lost; and what was called, was called for its own request.
CallsKept ==
    /\ \A o \in Origins : \A c \in waiting[o] : Known(c) /\ OriginOf(c) = o
    /\ \A r \in DOMAIN requests : ~Displaced(r) => (r \in waiting[OriginOf(r)] <=> OnWay(r))
    /\ \A o \in Origins : \A a \in Range(answers[o]) : a.caller = a.req \/ Displaced(a.caller)

IInv == TInv /\ Sorted /\ InTurn /\ Links /\ Homes /\ Numbers /\ CallsKept

(***************************************************************************)
(* What a move does to the queues of a stage.                              *)
(***************************************************************************)
Popped(q, p, k)    == q[k] # << >> /\ p = [q EXCEPT ![k] = Tail(q[k])]
Joined(q, p, k, e) == p = [q EXCEPT ![k] = Append(q[k], e)]
Emptied(q, p, k)   == p = [q EXCEPT ![k] = << >>]

\* What is in the queues then.
AfterPop(K, q, p, k) ==
    /\ Head(q[k]) \in Range(q[k])
    /\ \A i \in K : \A x \in Range(p[i]) : x \in Range(q[i])
    /\ \A i \in K : \A x \in Range(q[i]) : x \in Range(p[i]) \/ (i = k /\ x = Head(q[k]))
AfterJoin(K, q, p, k, e) ==
    /\ e \in Range(p[k])
    /\ \A i \in K : \A x \in Range(p[i]) : x \in Range(q[i]) \/ (i = k /\ x = e)
    /\ \A i \in K : \A x \in Range(q[i]) : x \in Range(p[i])
AfterEmpty(K, q, p, k) ==
    /\ \A i \in K : \A x \in Range(p[i]) : i # k /\ x \in Range(q[i])
    /\ \A i \in K : \A x \in Range(q[i]) : i = k \/ x \in Range(p[i])

LEMMA TailAt ==
    ASSUME NEW K, NEW S, NEW q \in [K -> Seq(S)], NEW k \in K, NEW p, Popped(q, p, k)
    PROVE  Head(q[k]) \in S /\ AfterPop(K, q, p, k)
<1>1. q[k] \in Seq(S) /\ q[k] # << >> /\ p[k] = Tail(q[k]) /\ \A i \in K : i # k => p[i] = q[i]
  BY DEF Popped
<1>2. /\ Head(q[k]) \in Range(q[k]) /\ Head(q[k]) \in S
      /\ Range(Tail(q[k])) \subseteq Range(q[k])
      /\ \A e \in Range(q[k]) : e = Head(q[k]) \/ e \in Range(Tail(q[k]))
  BY <1>1, RangeTail
<1> QED
  BY <1>1, <1>2 DEF AfterPop

LEMMA AppendAt ==
    ASSUME NEW K, NEW S, NEW q \in [K -> Seq(S)], NEW k \in K, NEW e \in S, NEW p, Joined(q, p, k, e)
    PROVE  AfterJoin(K, q, p, k, e)
<1>1. q[k] \in Seq(S) /\ p[k] = Append(q[k], e) /\ \A i \in K : i # k => p[i] = q[i]
  BY DEF Joined
<1>2. Range(Append(q[k], e)) = Range(q[k]) \cup {e}
  BY <1>1, RangeAppend
<1> QED
  BY <1>1, <1>2 DEF AfterJoin

LEMMA EmptyAt ==
    ASSUME NEW K, NEW S, NEW q \in [K -> Seq(S)], NEW k \in K, NEW p, Emptied(q, p, k)
    PROVE  AfterEmpty(K, q, p, k)
<1>1. p[k] = << >> /\ \A i \in K : i # k => p[i] = q[i]
  BY DEF Emptied
<1>2. Range(<< >>) = {}
  BY DEF Range
<1> QED
  BY <1>1, <1>2 DEF AfterEmpty

\* Membership in a stage is membership in one of its queues.
LEMMA WithinMember ==
    ASSUME NEW q
    PROVE  \A r : r \in Within(q) <=> \E i \in DOMAIN q : \E x \in Range(q[i]) : x.req = r
BY IdsAreNamed DEF Within

LEMMA LinesTail ==
    ASSUME NEW K, NEW S, NEW q \in [K -> Seq(S)], NEW k \in K, Lines(q), NEW p, Popped(q, p, k)
    PROVE  /\ Lines(p)
           /\ \A x \in Range(p[k]) : Alike(x.req, Head(q[k]).req) => Head(q[k]).req < x.req
<1>1. q[k] \in Seq(S) /\ q[k] # << >> /\ p[k] = Tail(q[k]) /\ \A i \in K : i # k => p[i] = q[i]
  BY DEF Popped
<1>2. DOMAIN p = K /\ DOMAIN q = K
  BY DEF Popped
<1>3. \A i \in K : Rising(q[i])
  BY <1>2 DEF Lines
<1>4. Rising(p[k]) /\ \A x \in Range(p[k]) : Alike(x.req, Head(q[k]).req) => Head(q[k]).req < x.req
  BY <1>1, <1>3, RisingTail
<1>5. \A i \in K : Rising(p[i])
  BY <1>1, <1>3, <1>4
<1> QED
  BY <1>2, <1>4, <1>5 DEF Lines

LEMMA LinesAppend ==
    ASSUME NEW K, NEW S, NEW q \in [K -> Seq(S)], NEW k \in K, NEW e \in S, Lines(q),
           NEW p, Joined(q, p, k, e),
           \A x \in Range(q[k]) : Alike(x.req, e.req) => x.req < e.req
    PROVE  Lines(p)
<1>1. q[k] \in Seq(S) /\ p[k] = Append(q[k], e) /\ \A i \in K : i # k => p[i] = q[i]
  BY DEF Joined
<1>2. DOMAIN p = K /\ DOMAIN q = K
  BY DEF Joined
<1>3. \A i \in K : Rising(q[i])
  BY <1>2 DEF Lines
<1>4. Rising(p[k])
  BY <1>1, <1>3, RisingAppend
<1>5. \A i \in K : Rising(p[i])
  BY <1>1, <1>3, <1>4
<1> QED
  BY <1>2, <1>5 DEF Lines

LEMMA LinesEmpty ==
    ASSUME NEW q, NEW k, Lines(q), NEW p, Emptied(q, p, k)
    PROVE  Lines(p)
<1>1. \A i \in DOMAIN q : p[i] = << >> \/ p[i] = q[i]
  BY DEF Emptied
<1>2. DOMAIN p = DOMAIN q
  BY DEF Emptied
<1>3. Rising(<< >>)
  BY DEF Rising
<1> QED
  BY <1>1, <1>2, <1>3 DEF Lines

\* What a stage is when its first request leaves a queue, and when one joins it.
StagePopped(K, q, p, k) ==
    /\ AfterPop(K, q, p, k) /\ Lines(p)
    /\ Head(q[k]).req \in Within(q)
    /\ \A x \in Within(p) : x \in Within(q) /\ (Alike(x, Head(q[k]).req) => Head(q[k]).req < x)
    /\ \A x \in Within(q) : x \in Within(p) \/ x = Head(q[k]).req
StageJoined(K, q, p, k, e) ==
    /\ AfterJoin(K, q, p, k, e) /\ Lines(p)
    /\ e.req \in Within(p)
    /\ \A x \in Within(p) : x \in Within(q) \/ x = e.req
    /\ \A x \in Within(q) : x \in Within(p)
QueuePopped(s, t) ==
    /\ Head(s) \in Range(s) /\ Range(t) \subseteq Range(s) /\ Rising(t)
    /\ Head(s).req \in Ids(s)
    /\ \A x \in Ids(t) : x \in Ids(s) /\ (Alike(x, Head(s).req) => Head(s).req < x)
    /\ \A x \in Ids(s) : x \in Ids(t) \/ x = Head(s).req
QueueJoined(s, t, e) ==
    /\ Range(t) = Range(s) \cup {e} /\ Rising(t)
    /\ Ids(t) = Ids(s) \cup {e.req}

LEMMA StagePop ==
    ASSUME NEW K, NEW S, NEW q \in [K -> Seq(S)], NEW k \in K, NEW p, Popped(q, p, k), Lines(q),
           \A i \in K : \A x \in Range(q[i]) : Alike(x.req, Head(q[k]).req) => i = k
    PROVE  StagePopped(K, q, p, k)
<1> DEFINE h == Head(q[k])
<1>1. AfterPop(K, q, p, k)
  BY TailAt
<1>2. Lines(p) /\ \A x \in Range(p[k]) : Alike(x.req, h.req) => h.req < x.req
  BY LinesTail
<1>3. \A i \in K : \A x \in Range(p[i]) : Alike(x.req, h.req) => h.req < x.req
  BY <1>1, <1>2 DEF AfterPop
<1>4. /\ \A r : r \in Within(q) <=> \E i \in K : \E x \in Range(q[i]) : x.req = r
      /\ \A r : r \in Within(p) <=> \E i \in K : \E x \in Range(p[i]) : x.req = r
  <2>1. DOMAIN q = K /\ DOMAIN p = K
    BY DEF Popped
  <2> QED
    BY <2>1, WithinMember
<1>5. h.req \in Within(q)
  BY <1>1, <1>4 DEF AfterPop
<1>6. \A x \in Within(p) : x \in Within(q) /\ (Alike(x, h.req) => h.req < x)
  BY <1>1, <1>3, <1>4 DEF AfterPop
<1>7. \A x \in Within(q) : x \in Within(p) \/ x = h.req
  BY <1>1, <1>4 DEF AfterPop
<1> QED
  BY <1>1, <1>2, <1>5, <1>6, <1>7 DEF StagePopped

LEMMA StageJoin ==
    ASSUME NEW K, NEW S, NEW q \in [K -> Seq(S)], NEW k \in K, NEW e \in S, NEW p, Joined(q, p, k, e),
           Lines(q), \A x \in Within(q) : Alike(x, e.req) => x < e.req
    PROVE  StageJoined(K, q, p, k, e)
<1>1. AfterJoin(K, q, p, k, e)
  BY AppendAt
<1>2. /\ \A r : r \in Within(q) <=> \E i \in K : \E x \in Range(q[i]) : x.req = r
      /\ \A r : r \in Within(p) <=> \E i \in K : \E x \in Range(p[i]) : x.req = r
  <2>1. DOMAIN q = K /\ DOMAIN p = K
    BY DEF Joined
  <2> QED
    BY <2>1, WithinMember
<1>3. Lines(p)
  <2>1. \A x \in Range(q[k]) : Alike(x.req, e.req) => x.req < e.req
    BY <1>2
  <2> QED
    BY <2>1, LinesAppend
<1>4. e.req \in Within(p)
  BY <1>1, <1>2 DEF AfterJoin
<1>5. \A x \in Within(p) : x \in Within(q) \/ x = e.req
  BY <1>1, <1>2 DEF AfterJoin
<1>6. \A x \in Within(q) : x \in Within(p)
  BY <1>1, <1>2 DEF AfterJoin
<1> QED
  BY <1>1, <1>3, <1>4, <1>5, <1>6 DEF StageJoined

LEMMA QueuePop ==
    ASSUME NEW S, NEW s \in Seq(S), s # << >>, Rising(s)
    PROVE  QueuePopped(s, Tail(s))
<1>1. /\ Head(s) \in Range(s) /\ Range(Tail(s)) \subseteq Range(s)
      /\ \A e \in Range(s) : e = Head(s) \/ e \in Range(Tail(s))
  BY RangeTail
<1>2. Rising(Tail(s)) /\ \A it \in Range(Tail(s)) : Alike(it.req, Head(s).req) => Head(s).req < it.req
  BY RisingTail
<1> QED
  BY <1>1, <1>2, IdsAreNamed DEF QueuePopped

LEMMA QueueJoin ==
    ASSUME NEW S, NEW s \in Seq(S), NEW e \in S, Rising(s), \A x \in Ids(s) : Alike(x, e.req) => x < e.req
    PROVE  QueueJoined(s, Append(s, e), e)
<1>1. Range(Append(s, e)) = Range(s) \cup {e}
  BY RangeAppend
<1>2. Rising(Append(s, e))
  <2>1. \A it \in Range(s) : Alike(it.req, e.req) => it.req < e.req
    BY IdsAreNamed
  <2> QED
    BY <2>1, RisingAppend
<1> QED
  BY <1>1, <1>2, IdsAreNamed DEF QueueJoined

\* The stages, by name.
StagesAre ==
    /\ \A r : r \in Way[1] <=> \E o \in Origins : r \in Range(toRelay[o])
    /\ \A r : r \in Way[2] <=> \E k \in Sinks : \E x \in Range(atSink[k]) : x.req = r
    /\ \A r : r \in Way[3] <=> \E k \in Sinks : \E x \in Range(fromSink[k]) : x.req = r
    /\ \A r : r \in Way[4] <=> \E x \in Range(events) : x.req = r
    /\ \A r : r \in Way[5] <=> \E o \in Origins : \E x \in Range(toOrigin[o]) : x.req = r
    /\ \A r : r \in Way[6] <=> \E o \in Origins : \E x \in Range(posted[o]) : x.req = r
    /\ \A r : r \in Way[7] <=> \E o \in Origins : \E x \in Range(answers[o]) : x.req = r

LEMMA WayParts == TypeOK => StagesAre
<1> SUFFICES ASSUME TypeOK PROVE StagesAre
  OBVIOUS
<1>1. /\ Way[1] = Sent /\ Way[2] = Within(atSink) /\ Way[3] = Within(fromSink)
      /\ Way[4] = Ids(events) /\ Way[5] = Within(toOrigin) /\ Way[6] = Within(posted)
      /\ Way[7] = Within(answers)
  BY DEF Way
<1>2. /\ DOMAIN toRelay = Origins /\ DOMAIN toOrigin = Origins /\ DOMAIN posted = Origins
      /\ DOMAIN answers = Origins /\ DOMAIN atSink = Sinks /\ DOMAIN fromSink = Sinks
  BY DEF TypeOK
<1>3. \A r : r \in Sent <=> \E o \in Origins : r \in Range(toRelay[o])
  BY <1>2 DEF Sent
<1>4. \A r : r \in Within(atSink) <=> \E k \in Sinks : \E x \in Range(atSink[k]) : x.req = r
  BY <1>2, WithinMember
<1>5. \A r : r \in Within(fromSink) <=> \E k \in Sinks : \E x \in Range(fromSink[k]) : x.req = r
  BY <1>2, WithinMember
<1>6. \A r : r \in Within(toOrigin) <=> \E o \in Origins : \E x \in Range(toOrigin[o]) : x.req = r
  BY <1>2, WithinMember
<1>7. \A r : r \in Within(posted) <=> \E o \in Origins : \E x \in Range(posted[o]) : x.req = r
  BY <1>2, WithinMember
<1>8. \A r : r \in Within(answers) <=> \E o \in Origins : \E x \in Range(answers[o]) : x.req = r
  BY <1>2, WithinMember
<1>9. \A r : r \in Ids(events) <=> \E x \in Range(events) : x.req = r
  BY IdsAreNamed
<1> QED
  BY <1>1, <1>3, <1>4, <1>5, <1>6, <1>7, <1>8, <1>9 DEF StagesAre

LEMMA WayPartsNext == TypeOK' => StagesAre'
BY WayParts, PTL

\* A request that moves on, or is dropped, in front of all that are alike.
LEMMA Passing ==
    ASSUME InTurnOf(Way), NEW a \in 1 .. 7, NEW b \in 1 .. 7, a < b, NEW r \in Way[a],
           \A n \in 1 .. 7 : \A x \in Way'[n] : x \in Way[n] \/ (n = b /\ x = r),
           \A x \in Way'[a] : Alike(x, r) => r < x,
           \A n \in 1 .. 7 : a < n /\ n < b => \A x \in Way[n] : ~Alike(x, r)
    PROVE  InTurnOf(Way')
<1> SUFFICES ASSUME NEW c \in 1 .. 7, NEW d \in 1 .. 7, c < d, NEW x \in Way'[c], NEW y \in Way'[d], Alike(x, y)
             PROVE  y < x
  BY DEF InTurnOf
<1>1. CASE x \in Way[c] /\ y \in Way[d]
  BY <1>1 DEF InTurnOf
<1>2. CASE d = b /\ y = r /\ x \in Way[c]
  <2>1. CASE c = a
    BY <1>2, <2>1
  <2>2. CASE c < a
    BY <1>2, <2>2 DEF InTurnOf
  <2>3. CASE a < c
    BY <1>2, <2>3
  <2> QED
    BY <2>1, <2>2, <2>3
<1>3. CASE c = b /\ x = r /\ y \in Way[d]
  <2>1. a < d
    BY <1>3
  <2> QED
    BY <1>3, <2>1 DEF InTurnOf
<1> QED
  BY <1>1, <1>2, <1>3

LEMMA Leaving ==
    ASSUME InTurnOf(Way), \A n \in 1 .. 7 : Way'[n] \subseteq Way[n]
    PROVE  InTurnOf(Way')
BY DEF InTurnOf

\* No request is at two stages.
LEMMA OneStage ==
    ASSUME TypeOK, InTurn, NEW a \in 1 .. 7, NEW b \in 1 .. 7, a # b, NEW r \in Way[a], r \in DOMAIN requests
    PROVE  r \notin Way[b]
<1>1. Alike(r, r) /\ r \in Nat
  BY RequestsType DEF Alike
<1>2. a < b \/ b < a
  OBVIOUS
<1>3. ~(r < r)
  BY <1>1
<1> QED
  BY <1>1, <1>2, <1>3 DEF InTurn, InTurnOf

LEMMA WayNames ==
    /\ Way[1] = Sent /\ Way[2] = Within(atSink) /\ Way[3] = Within(fromSink)
    /\ Way[4] = Ids(events) /\ Way[5] = Within(toOrigin) /\ Way[6] = Within(posted)
    /\ Way[7] = Within(answers)
    /\ Way'[2] = Within(atSink') /\ Way'[3] = Within(fromSink')
    /\ Way'[4] = Ids(events') /\ Way'[5] = Within(toOrigin') /\ Way'[6] = Within(posted')
    /\ Way'[7] = Within(answers')
BY DEF Way

LEMMA WaySame ==
    /\ UNCHANGED toRelay => Way'[1] = Way[1]
    /\ UNCHANGED atSink => Way'[2] = Way[2]
    /\ UNCHANGED fromSink => Way'[3] = Way[3]
    /\ UNCHANGED events => Way'[4] = Way[4]
    /\ UNCHANGED toOrigin => Way'[5] = Way[5]
    /\ UNCHANGED posted => Way'[6] = Way[6]
    /\ UNCHANGED answers => Way'[7] = Way[7]
BY DEF Way, Sent

LEMMA SameRequests ==
    ASSUME UNCHANGED requests
    PROVE  /\ \A x, y : Alike(x, y)' <=> Alike(x, y)
           /\ \A x : Known(x)' <=> Known(x)
           /\ \A x : OriginOf(x)' = OriginOf(x) /\ SinkOf(x)' = SinkOf(x) /\ KindOf(x)' = KindOf(x)
BY DEF Alike, Known, OriginOf, SinkOf, KindOf

\* While the requests are the same, order is what it was ...
LEMMA StillInTurn ==
    ASSUME UNCHANGED requests, InTurnOf(Way')
    PROVE  InTurn'
BY SameRequests DEF InTurn, InTurnOf

LEMMA StillSorted ==
    ASSUME UNCHANGED requests, \A o \in Origins : RisingIds(toRelay'[o]), Lines(atSink'), Lines(fromSink'),
           Rising(events'), Lines(toOrigin'), Lines(posted'), Lines(answers')
    PROVE  Sorted'
<1>1. \A x, y : Alike(x, y)' <=> Alike(x, y)
  BY SameRequests
<1> QED
  BY <1>1 DEF Sorted, Lines, Rising, RisingIds

\* ... and so is where a thing belongs.
LEMMA StillHomes ==
    ASSUME UNCHANGED << requests, done >>, Homes, SentHome(toRelay'), SinkHome(atSink'), ReplyHome(fromSink'),
           EventHome(events'), AnswerHome(toOrigin'), AnswerHome(posted'), AnswerHome(answers'),
           lost' \subseteq DOMAIN requests
    PROVE  Homes'
<1>1. /\ \A x : Known(x)' <=> Known(x)
      /\ \A x : OriginOf(x)' = OriginOf(x) /\ SinkOf(x)' = SinkOf(x) /\ KindOf(x)' = KindOf(x)
  BY SameRequests
<1>2. \A it : Truthful(it)' <=> Truthful(it)
  BY DEF Truthful
<1>3. SentHome(toRelay)' /\ SinkHome(atSink)' /\ ReplyHome(fromSink)'
  BY <1>1, <1>2 DEF SentHome, SinkHome, ReplyHome
<1>4. EventHome(events)' /\ AnswerHome(toOrigin)' /\ AnswerHome(posted)' /\ AnswerHome(answers)'
  BY <1>1, <1>2 DEF EventHome, AnswerHome
<1>5. done' \subseteq DOMAIN requests' /\ lost' \subseteq DOMAIN requests'
  BY DEF Homes
<1> QED
  BY <1>3, <1>4, <1>5 DEF Homes

\* What leaves the way without reaching the callbacks is lost, and so is a callback
\* that no longer waits for a request on its way.
LEMMA StillKept ==
    ASSUME CallsKept, UNCHANGED << requests, answers >>, lost \subseteq lost',
           \A x \in DOMAIN requests : OnWay(x) => OnWay(x)' \/ x \in lost',
           \A x \in DOMAIN requests : OnWay(x)' => OnWay(x),
           \A o \in Origins : \A c \in waiting'[o] : c \in waiting[o],
           \A o \in Origins : \A c \in waiting[o] : c \in waiting'[o] \/ c \in lost' \/ ~OnWay(c),
           \A x \in DOMAIN requests : OriginOf(x) \in Origins /\ x <= x
    PROVE  CallsKept'
<1>1. /\ \A x, y : Alike(x, y)' <=> Alike(x, y)
      /\ \A x : Known(x)' <=> Known(x)
      /\ \A x : OriginOf(x)' = OriginOf(x)
  BY SameRequests
<1>2. \A x : Displaced(x) => Displaced(x)'
  BY <1>1 DEF Displaced
<1>3. \A x \in DOMAIN requests : x \in lost' => Displaced(x)'
  BY <1>1 DEF Displaced, Alike
<1>4. ASSUME NEW x \in DOMAIN requests, ~Displaced(x)'
      PROVE  x \in waiting'[OriginOf(x)] <=> OnWay(x)'
  <2>1. ~Displaced(x) /\ x \notin lost'
    BY <1>2, <1>3, <1>4
  <2>2. x \in waiting[OriginOf(x)] <=> OnWay(x)
    BY <2>1 DEF CallsKept
  <2>3. OnWay(x) <=> OnWay(x)'
    BY <2>1
  <2> QED
    BY <2>1, <2>2, <2>3
<1>5. \A x \in DOMAIN requests' : ~Displaced(x)' => (x \in waiting'[OriginOf(x)'] <=> OnWay(x)')
  BY <1>1, <1>4
<1>6. \A o \in Origins : \A c \in waiting'[o] : Known(c)' /\ OriginOf(c)' = o
  BY <1>1 DEF CallsKept
<1>7. \A o \in Origins : \A a \in Range(answers'[o]) : a.caller = a.req \/ Displaced(a.caller)'
  BY <1>2 DEF CallsKept
<1> QED
  BY <1>5, <1>6, <1>7 DEF CallsKept

\* A request that goes from one stage to a later one, or is dropped, being lost.
LEMMA Calm ==
    ASSUME IInv, TInv', Homes', UNCHANGED << link, numbered, requests, lost, waiting, answers >>,
           \A o \in Origins : RisingIds(toRelay'[o]), Lines(atSink'), Lines(fromSink'),
           Rising(events'), Lines(toOrigin'), Lines(posted'),
           \A o \in Origins : toRelay'[o] # << >> => link[o] # None,
           \A k \in Sinks : \A it \in Range(atSink'[k]) \cup Range(fromSink'[k]) : OnSession(it),
           \A it \in Range(events') : OnSession(it),
           NEW a \in 1 .. 6, NEW b \in 1 .. 6, a < b, NEW r \in Way[a],
           \A n \in 1 .. 7 : \A x \in Way'[n] : x \in Way[n] \/ (n = b /\ x = r),
           \A n \in 1 .. 7 : \A x \in Way[n] : x \in Way'[n] \/ x = r,
           r \in Way'[b] \/ r \in lost,
           \A x \in Way'[a] : Alike(x, r) => r < x,
           \A n \in 1 .. 7 : a < n /\ n < b => \A x \in Way[n] : ~Alike(x, r)
    PROVE  IInv'
<1>1. InTurnOf(Way')
  <2>1. a \in 1 .. 7 /\ b \in 1 .. 7 /\ InTurnOf(Way)
    BY DEF IInv, InTurn
  <2> QED
    BY <2>1, Passing
<1>2. Sorted'
  <2>1. Lines(answers')
    BY DEF IInv, Sorted
  <2> QED
    BY <2>1, StillSorted
<1>4. Links'
  BY DEF IInv, Links
<1>5. Numbers'
  <2>1. \A it : OnSession(it)' <=> OnSession(it)
    BY DEF OnSession, OriginOf
  <2> QED
    BY <2>1 DEF Numbers
<1>6. CallsKept'
  <2>1. \A x : OnWay(x) => OnWay(x)' \/ x \in lost'
    <3>1. r \in Way'[b] => OnWay(r)'
      BY DEF OnWay
    <3> QED
      BY <3>1 DEF OnWay
  <2>2. \A x : OnWay(x)' => OnWay(x)
    BY DEF OnWay
  <2>3. \A x \in DOMAIN requests : OriginOf(x) \in Origins /\ x <= x
    BY RequestsType DEF IInv, TInv
  <2> QED
    BY <2>1, <2>2, <2>3, StillKept DEF IInv
<1> QED
  BY <1>1, <1>2, <1>4, <1>5, <1>6, StillInTurn DEF IInv

(***************************************************************************)
(* The moves, one by one.                                                  *)
(***************************************************************************)
LEMMA Types ==
    ASSUME IInv
    PROVE  /\ link \in [Origins -> Nat] /\ numbered \in Nat
           /\ toRelay \in [Origins -> Seq(Requests)]
           /\ atSink \in [Sinks -> Seq(Passed)] /\ fromSink \in [Sinks -> Seq(Replied)]
           /\ events \in Seq(Replied)
           /\ toOrigin \in [Origins -> Seq(Result)] /\ posted \in [Origins -> Seq(Result)]
           /\ waiting \in [Origins -> SUBSET Requests] /\ answers \in [Origins -> Seq(Called)]
           /\ StagesAre
           /\ \A r \in DOMAIN requests :
                  /\ r \in Requests /\ r \in Nat
                  /\ OriginOf(r) \in Origins /\ SinkOf(r) \in Sinks /\ KindOf(r) \in Kinds
BY WayParts, RequestsType DEF IInv, TInv, TypeOK

\* A queue that a request joins has no later request like it.
LEMMA Behind ==
    ASSUME InTurn, NEW a \in 1 .. 7, NEW b \in 1 .. 7, a < b, NEW r \in Way[a]
    PROVE  \A x \in Way[b] : Alike(x, r) => x < r
BY DEF InTurn, InTurnOf, Alike

\* The request leaves the relay's queue: it is an origin's first.
LEMMA FirstSent ==
    ASSUME IInv, NEW o \in Origins, NEW r \in DOMAIN requests, LeavesRelay(o, r)
    PROVE  /\ r \in Way[1] /\ OriginOf(r) = o /\ r \notin done /\ link[o] # None /\ link[o] <= numbered
           /\ \A i \in Origins : \A x \in Range(toRelay'[i]) : x \in Range(toRelay[i])
           /\ \A i \in Origins : \A x \in Range(toRelay[i]) : x \in Range(toRelay'[i]) \/ x = r
           /\ \A i \in Origins : RisingIds(toRelay'[i])
           /\ \A i \in Origins : \A x \in Range(toRelay'[i]) : Alike(x, r) => r < x
           /\ \A i \in Origins : toRelay'[i] # << >> => link[i] # None
           /\ SentHome(toRelay')
<1>1. /\ toRelay \in [Origins -> Seq(Requests)] /\ toRelay[o] # << >> /\ r = Head(toRelay[o])
      /\ toRelay' = [toRelay EXCEPT ![o] = Tail(toRelay[o])] /\ toRelay[o] \in Seq(Requests)
      /\ Popped(toRelay, toRelay', o)
  BY Types DEF LeavesRelay, Popped
<1>2. /\ r \in Range(toRelay[o])
      /\ \A i \in Origins : \A x \in Range(toRelay'[i]) : x \in Range(toRelay[i])
      /\ \A i \in Origins : \A x \in Range(toRelay[i]) : x \in Range(toRelay'[i]) \/ (i = o /\ x = r)
  <2>1. AfterPop(Origins, toRelay, toRelay', o)
    BY <1>1, TailAt
  <2> QED
    BY <1>1, <2>1 DEF AfterPop
<1>3. r \in Way[1]
  BY <1>2, Types DEF StagesAre
<1>4. \A i \in Origins : \A x \in Range(toRelay[i]) : Known(x) /\ OriginOf(x) = i /\ x \notin done
  BY DEF IInv, Homes, SentHome
<1>5. \A i \in Origins : link[i] <= numbered /\ (toRelay[i] # << >> => link[i] # None)
  BY DEF IInv, Links
<1>6. toRelay'[o] = Tail(toRelay[o]) /\ \A i \in Origins : i # o => toRelay'[i] = toRelay[i]
  BY <1>1
<1>7. \A i \in Origins : RisingIds(toRelay[i])
  BY DEF IInv, Sorted
<1>8. RisingIds(Tail(toRelay[o])) /\ \A x \in Range(Tail(toRelay[o])) : Alike(x, r) => r < x
  BY <1>1, <1>7, RisingIdsTail
<1>9. \A i \in Origins : RisingIds(toRelay'[i])
  BY <1>6, <1>7, <1>8
<1>10. \A i \in Origins : \A x \in Range(toRelay'[i]) : Alike(x, r) => r < x
  BY <1>2, <1>4, <1>6, <1>8 DEF Alike
<1>11. \A i \in Origins : toRelay'[i] # << >> => link[i] # None
  BY <1>1, <1>5, <1>6
<1>12. SentHome(toRelay')
  BY <1>2, <1>4 DEF SentHome
<1> QED
  BY <1>1, <1>2, <1>3, <1>4, <1>5, <1>9, <1>10, <1>11, <1>12

LEMMA PassedOnKeeps ==
    ASSUME IInv, TInv', NEW o \in Origins, NEW r \in DOMAIN requests, PassedOn(o, r)
    PROVE  IInv'
<1> DEFINE k == SinkOf(r)
           e == [req |-> r, session |-> link[o]]
<1> USE DEF history, calls
<1>1. /\ LeavesRelay(o, r)
      /\ UNCHANGED << link, numbered, requests, done, lost, waiting, answers >>
      /\ UNCHANGED << fromSink, events, toOrigin, posted >>
      /\ Joined(atSink, atSink', k, e)
  BY DEF PassedOn, Forward, Joined
<1>2. /\ k \in Sinks /\ e \in Passed /\ atSink \in [Sinks -> Seq(Passed)] /\ StagesAre /\ StagesAre'
      /\ r \in Nat /\ e.req = r /\ e.session = link[o]
  BY Types, WayPartsNext DEF TInv, Passed
<1>3. /\ r \in Way[1] /\ OriginOf(r) = o /\ r \notin done /\ link[o] # None /\ link[o] <= numbered
      /\ \A i \in Origins : \A x \in Range(toRelay'[i]) : x \in Range(toRelay[i])
      /\ \A i \in Origins : \A x \in Range(toRelay[i]) : x \in Range(toRelay'[i]) \/ x = r
      /\ \A i \in Origins : RisingIds(toRelay'[i])
      /\ \A i \in Origins : \A x \in Range(toRelay'[i]) : Alike(x, r) => r < x
      /\ \A i \in Origins : toRelay'[i] # << >> => link[i] # None
      /\ SentHome(toRelay')
  BY <1>1, FirstSent
<1>4. StageJoined(Sinks, atSink, atSink', k, e)
  <2>1. \A x \in Within(atSink) : Alike(x, e.req) => x < e.req
    BY <1>2, <1>3, Behind, WayNames DEF IInv
  <2>2. Lines(atSink)
    BY DEF IInv, Sorted
  <2> QED
    BY <1>1, <1>2, <2>1, <2>2, StageJoin
<1>5. /\ Lines(atSink')
      /\ \A i \in Sinks : \A x \in Range(atSink'[i]) : x \in Range(atSink[i]) \/ (i = k /\ x = e)
      /\ \A x : (x \in Way'[2] => x \in Way[2] \/ x = r) /\ (x \in Way[2] => x \in Way'[2]) /\ r \in Way'[2]
  BY <1>2, <1>4, WayNames DEF StageJoined, AfterJoin
<1>6. OnSession(e)
  BY <1>2, <1>3 DEF OnSession, IInv, Links
<1>7. Homes'
  <2>1. SinkHome(atSink')
    BY <1>2, <1>3, <1>5 DEF IInv, Homes, SinkHome, Known
  <2> QED
    BY <1>1, <1>3, <2>1, StillHomes DEF IInv, Homes
<1>8. /\ \A k2 \in Sinks : \A it \in Range(atSink'[k2]) \cup Range(fromSink'[k2]) : OnSession(it)
      /\ \A it \in Range(events') : OnSession(it)
  BY <1>1, <1>5, <1>6 DEF IInv, Numbers
<1>9. \A n \in 3 .. 7 : Way'[n] = Way[n]
  BY <1>1, WaySame
<1>10. \A x : (x \in Way'[1] => x \in Way[1] /\ (Alike(x, r) => r < x)) /\ (x \in Way[1] => x \in Way'[1] \/ x = r)
  <2>1. /\ \A x : x \in Way[1] <=> \E i \in Origins : x \in Range(toRelay[i])
        /\ \A x : x \in Way'[1] <=> \E i \in Origins : x \in Range(toRelay'[i])
    BY <1>2 DEF StagesAre
  <2> QED
    BY <1>3, <2>1
<1>12. /\ \A n \in 1 .. 7 : \A x \in Way'[n] : x \in Way[n] \/ (n = 2 /\ x = r)
       /\ \A n \in 1 .. 7 : \A x \in Way[n] : x \in Way'[n] \/ x = r
       /\ \A n \in 1 .. 7 : 1 < n /\ n < 2 => \A x \in Way[n] : ~Alike(x, r)
       /\ 1 \in 1 .. 6 /\ 2 \in 1 .. 6 /\ 1 < 2
  BY <1>5, <1>9, <1>10
<1>13. Lines(fromSink') /\ Rising(events') /\ Lines(toOrigin') /\ Lines(posted')
  BY <1>1 DEF IInv, Sorted
<1> QED
  BY <1>1, <1>3, <1>5, <1>7, <1>8, <1>10, <1>12, <1>13, Calm

\* A request joins the event handler of the relay, behind all that are alike.
LEMMA Posting ==
    ASSUME IInv, NEW a \in 1 .. 3, NEW r \in Way[a], r \in DOMAIN requests, KindOf(r) \in Preparing,
           NEW it \in Replied, it.req = r, OnSession(it), Truthful(it), events' = Append(events, it)
    PROVE  /\ Rising(events') /\ EventHome(events') /\ (\A x \in Range(events') : OnSession(x))
           /\ Way'[4] = Way[4] \cup {r}
<1>1. events \in Seq(Replied)
  BY Types
<1>2. Rising(events) /\ \A x \in Ids(events) : Alike(x, it.req) => x < it.req
  <2>1. a \in 1 .. 7 /\ 4 \in 1 .. 7 /\ a < 4
    OBVIOUS
  <2> QED
    BY <2>1, Behind, WayNames DEF IInv, Sorted
<1>3. QueueJoined(events, events', it)
  BY <1>1, <1>2, QueueJoin
<1>4. EventHome(events')
  BY <1>3 DEF QueueJoined, IInv, Homes, EventHome, Known
<1>5. \A x \in Range(events') : OnSession(x)
  BY <1>3 DEF QueueJoined, IInv, Numbers
<1> QED
  BY <1>3, <1>4, <1>5, WayNames DEF QueueJoined

\* A request joins the answers to its origin, or its session is gone and it is lost.
LEMMA Sending ==
    ASSUME IInv, NEW a \in 1 .. 4, NEW r \in Way[a], r \in DOMAIN requests,
           NEW it, it.req = r, OnSession(it), Truthful(it), it.result \in BOOLEAN,
           SendToOrigin(r, it.session, it.result)
    PROVE  /\ Lines(toOrigin') /\ AnswerHome(toOrigin')
           /\ \A x \in Way'[5] : x \in Way[5] \/ x = r
           /\ \A x \in Way[5] : x \in Way'[5]
           /\ r \in Way'[5] \/ r \in lost
<1> DEFINE p == OriginOf(r)
           e == [req |-> r, result |-> it.result]
<1>1. /\ toOrigin \in [Origins -> Seq(Result)] /\ p \in Origins /\ e \in Result
      /\ e.req = r /\ e.result = it.result
  BY Types DEF Result
<1>2. Lines(toOrigin) /\ AnswerHome(toOrigin)
  BY DEF IInv, Sorted, Homes
<1>3. CASE link[p] = it.session /\ it.session # None
  <2>1. \A o \in Origins : link[o] = it.session => o = p
    BY <1>3 DEF OnSession
  <2>2. Joined(toOrigin, toOrigin', p, e)
    BY <1>1, <1>3, <2>1 DEF SendToOrigin, Joined
  <2>3. \A x \in Within(toOrigin) : Alike(x, e.req) => x < e.req
    <3>1. a \in 1 .. 7 /\ 5 \in 1 .. 7 /\ a < 5
      OBVIOUS
    <3> QED
      BY <1>1, <3>1, Behind, WayNames DEF IInv
  <2>4. StageJoined(Origins, toOrigin, toOrigin', p, e)
    BY <1>1, <1>2, <2>2, <2>3, StageJoin
  <2>5. AnswerHome(toOrigin')
    BY <1>1, <1>2, <2>4 DEF StageJoined, AfterJoin, AnswerHome, Known, Truthful
  <2> QED
    BY <1>1, <2>4, <2>5, WayNames DEF StageJoined
<1>4. CASE ~(link[p] = it.session /\ it.session # None)
  <2>1. r \in lost
    BY <1>4 DEF OnSession
  <2>2. \A o \in Origins : ~(it.session # None /\ link[o] = it.session)
    BY <1>4 DEF OnSession
  <2>3. toOrigin' = toOrigin
    BY <1>1, <2>2 DEF SendToOrigin
  <2> QED
    BY <1>2, <2>1, <2>3, WaySame
<1> QED
  BY <1>3, <1>4

\* An answer of the relay takes the way of its kind.
LEMMA Answering ==
    ASSUME IInv, NEW a \in 1 .. 3, NEW r \in Way[a], r \in DOMAIN requests,
           NEW it \in Replied, it.req = r, OnSession(it), Truthful(it),
           AnsweredTo(r, it.session, it.result)
    PROVE  /\ Rising(events') /\ EventHome(events') /\ (\A x \in Range(events') : OnSession(x))
           /\ Lines(toOrigin') /\ AnswerHome(toOrigin')
           /\ \E b \in 4 .. 5 :
                  /\ b = 5 => KindOf(r) \notin Preparing
                  /\ \A n \in 4 .. 5 : \A x \in Way'[n] : x \in Way[n] \/ (n = b /\ x = r)
                  /\ \A n \in 4 .. 5 : \A x \in Way[n] : x \in Way'[n]
                  /\ r \in Way'[b] \/ r \in lost
<1>1. it = [req |-> r, session |-> it.session, result |-> it.result] /\ it.result \in BOOLEAN
  BY DEF Replied
<1>2. CASE KindOf(r) \in Preparing
  <2>1. events' = Append(events, it) /\ UNCHANGED toOrigin
    BY <1>1, <1>2 DEF AnsweredTo, PostAnswer
  <2>2. /\ Rising(events') /\ EventHome(events') /\ (\A x \in Range(events') : OnSession(x))
        /\ Way'[4] = Way[4] \cup {r}
    BY <1>2, <2>1, Posting
  <2>3. Lines(toOrigin') /\ AnswerHome(toOrigin') /\ Way'[5] = Way[5]
    BY <2>1, WaySame DEF IInv, Sorted, Homes
  <2> QED
    BY <2>2, <2>3
<1>3. CASE KindOf(r) \notin Preparing
  <2>1. SendToOrigin(r, it.session, it.result) /\ UNCHANGED events
    BY <1>3 DEF AnsweredTo
  <2>2. /\ Rising(events') /\ EventHome(events') /\ (\A x \in Range(events') : OnSession(x))
        /\ Way'[4] = Way[4]
    BY <2>1, WaySame DEF IInv, Sorted, Homes, Numbers
  <2>3. a \in 1 .. 4
    OBVIOUS
  <2>4. /\ Lines(toOrigin') /\ AnswerHome(toOrigin')
        /\ \A x \in Way'[5] : x \in Way[5] \/ x = r
        /\ \A x \in Way[5] : x \in Way'[5]
        /\ r \in Way'[5] \/ r \in lost
    BY <1>1, <2>1, <2>3, Sending
  <2> QED
    BY <1>3, <2>2, <2>4
<1> QED
  BY <1>2, <1>3

LEMMA RefusedKeeps ==
    ASSUME IInv, TInv', NEW o \in Origins, NEW r \in DOMAIN requests, Refused(o, r)
    PROVE  IInv'
<1> DEFINE it == [req |-> r, session |-> link[o], result |-> FALSE]
<1> USE DEF history, calls, sessions
<1>1. /\ LeavesRelay(o, r) /\ AnsweredTo(r, link[o], FALSE) /\ SinkOf(r) \notin toSink
      /\ UNCHANGED << link, numbered, requests, done, lost, waiting, answers >>
      /\ UNCHANGED << atSink, fromSink, posted >>
  BY DEF Refused
<1>2. /\ r \in Way[1] /\ OriginOf(r) = o /\ r \notin done /\ link[o] # None /\ link[o] <= numbered
      /\ \A i \in Origins : \A x \in Range(toRelay'[i]) : x \in Range(toRelay[i])
      /\ \A i \in Origins : \A x \in Range(toRelay[i]) : x \in Range(toRelay'[i]) \/ x = r
      /\ \A i \in Origins : RisingIds(toRelay'[i])
      /\ \A i \in Origins : \A x \in Range(toRelay'[i]) : Alike(x, r) => r < x
      /\ \A i \in Origins : toRelay'[i] # << >> => link[i] # None
      /\ SentHome(toRelay')
  BY <1>1, FirstSent
<1>3. StagesAre /\ StagesAre' /\ link[o] \in Nat /\ r \in Requests /\ SinkOf(r) \in Sinks
  BY Types, WayPartsNext DEF TInv
<1>4. /\ it \in Replied /\ it.req = r /\ it.session = link[o] /\ it.result = FALSE
      /\ OnSession(it) /\ Truthful(it)
  BY <1>2, <1>3 DEF Replied, OnSession, Truthful, IInv, Links
<1> HIDE DEF it
<1>5. /\ Rising(events') /\ EventHome(events') /\ (\A x \in Range(events') : OnSession(x))
      /\ Lines(toOrigin') /\ AnswerHome(toOrigin')
      /\ \E b \in 4 .. 5 :
             /\ b = 5 => KindOf(r) \notin Preparing
             /\ \A n \in 4 .. 5 : \A x \in Way'[n] : x \in Way[n] \/ (n = b /\ x = r)
             /\ \A n \in 4 .. 5 : \A x \in Way[n] : x \in Way'[n]
             /\ r \in Way'[b] \/ r \in lost
  <2>1. AnsweredTo(r, it.session, it.result)
    BY <1>1, <1>4, Zenon
  <2>2. 1 \in 1 .. 3
    OBVIOUS
  <2> QED
    BY <1>2, <1>4, <2>1, <2>2, Answering
<1>6. PICK b \in 4 .. 5 :
          /\ b = 5 => KindOf(r) \notin Preparing
          /\ \A n \in 4 .. 5 : \A x \in Way'[n] : x \in Way[n] \/ (n = b /\ x = r)
          /\ \A n \in 4 .. 5 : \A x \in Way[n] : x \in Way'[n]
          /\ r \in Way'[b] \/ r \in lost
  BY <1>5
<1>7. Homes'
  BY <1>1, <1>2, <1>5, StillHomes DEF IInv, Homes
<1>8. Way'[2] = Way[2] /\ Way'[3] = Way[3] /\ Way'[6] = Way[6] /\ Way'[7] = Way[7]
  BY <1>1, WaySame
<1>9. /\ \A x \in Way'[1] : x \in Way[1] /\ (Alike(x, r) => r < x)
      /\ \A x \in Way[1] : x \in Way'[1] \/ x = r
  <2>1. /\ \A x : x \in Way[1] <=> \E i \in Origins : x \in Range(toRelay[i])
        /\ \A x : x \in Way'[1] <=> \E i \in Origins : x \in Range(toRelay'[i])
    BY <1>3 DEF StagesAre
  <2> QED
    BY <1>2, <2>1
<1>10. \A x \in Way[2] \cup Way[3] : ~Alike(x, r)
  <2>1. Range(atSink[SinkOf(r)]) = {} /\ Range(fromSink[SinkOf(r)]) = {}
    BY <1>1, <1>3 DEF IInv, TInv, SinksLinked, Range
  <2>2. \A x \in Way[2] \cup Way[3] : \E k \in Sinks : SinkOf(x) = k /\ k # SinkOf(r)
    BY <1>3, <2>1 DEF StagesAre, IInv, Homes, SinkHome, ReplyHome
  <2> QED
    BY <2>2 DEF Alike
<1>11. b = 5 => \A x \in Way[4] : ~Alike(x, r)
  <2>1. \A x \in Way[4] : KindOf(x) \in Preparing
    BY <1>3 DEF StagesAre, IInv, Homes, EventHome
  <2> QED
    BY <1>6, <2>1 DEF Alike
<1>12. /\ \A n \in 1 .. 7 : \A x \in Way'[n] : x \in Way[n] \/ (n = b /\ x = r)
       /\ \A n \in 1 .. 7 : \A x \in Way[n] : x \in Way'[n] \/ x = r
  BY <1>6, <1>8, <1>9
<1>13. \A n \in 1 .. 7 : 1 < n /\ n < b => \A x \in Way[n] : ~Alike(x, r)
  <2>1. \A n \in 1 .. 7 : 1 < n /\ n < b => n = 2 \/ n = 3 \/ (n = 4 /\ b = 5)
    OBVIOUS
  <2> QED
    BY <1>10, <1>11, <2>1
<1>14. 1 \in 1 .. 6 /\ b \in 1 .. 6 /\ 1 < b
  OBVIOUS
<1>15. /\ Lines(atSink') /\ Lines(fromSink') /\ Lines(posted')
       /\ \A k \in Sinks : \A x \in Range(atSink'[k]) \cup Range(fromSink'[k]) : OnSession(x)
  BY <1>1 DEF IInv, Sorted, Numbers
<1> QED
  BY <1>1, <1>2, <1>5, <1>6, <1>7, <1>9, <1>12, <1>13, <1>14, <1>15, Calm

\* The first request leaves the queue of a sink.
LEMMA FirstPassed ==
    ASSUME IInv, NEW k \in Sinks, Popped(atSink, atSink', k)
    PROVE  LET h == Head(atSink[k])
           IN  /\ StagePopped(Sinks, atSink, atSink', k)
               /\ h \in Passed /\ h.req \in DOMAIN requests /\ SinkOf(h.req) = k
               /\ h.req \notin done /\ OnSession(h)
               /\ \A i \in Sinks : \A x \in Range(atSink'[i]) :
                      /\ x \in Range(atSink[i]) /\ x.req # h.req
                      /\ Known(x.req) /\ SinkOf(x.req) = i /\ x.req \notin done /\ OnSession(x)
<1> DEFINE h == Head(atSink[k])
<1>1. atSink \in [Sinks -> Seq(Passed)] /\ StagesAre /\ \A r \in DOMAIN requests : r \in Nat
  BY Types
<1>2. h \in Passed /\ AfterPop(Sinks, atSink, atSink', k)
  BY <1>1, TailAt
<1>3. \A i \in Sinks : \A x \in Range(atSink[i]) :
          Known(x.req) /\ SinkOf(x.req) = i /\ x.req \notin done /\ OnSession(x)
  BY DEF IInv, Homes, SinkHome, Numbers
<1>4. h \in Range(atSink[k])
  BY <1>2 DEF AfterPop
<1>5. StagePopped(Sinks, atSink, atSink', k)
  <2>1. \A i \in Sinks : \A x \in Range(atSink[i]) : Alike(x.req, h.req) => i = k
    BY <1>3, <1>4 DEF Alike
  <2>2. Lines(atSink)
    BY DEF IInv, Sorted
  <2> QED
    BY <1>1, <2>1, <2>2, StagePop
<1>6. ASSUME NEW i \in Sinks, NEW x \in Range(atSink'[i]) PROVE x.req # h.req
  <2>1. x.req \in Within(atSink')
    BY <1>6, WithinMember, <1>1 DEF Popped
  <2>2. Alike(x.req, h.req) => h.req < x.req
    BY <1>5, <2>1 DEF StagePopped
  <2>3. h.req \in Nat
    BY <1>1, <1>3, <1>4 DEF Known
  <2>4. x.req = h.req => Alike(x.req, h.req)
    BY DEF Alike
  <2> QED
    BY <2>2, <2>3, <2>4
<1>7. \A i \in Sinks : \A x \in Range(atSink'[i]) : x \in Range(atSink[i])
  BY <1>2 DEF AfterPop
<1> QED
  BY <1>2, <1>3, <1>4, <1>5, <1>6, <1>7 DEF Known

LEMMA RepliesKeeps ==
    ASSUME IInv, TInv', NEW k \in Sinks, NEW kind \in Kinds, NEW result \in BOOLEAN,
           Replies(k, kind, result)
    PROVE  IInv'
<1> DEFINE h == Head(atSink[k])
           e == [req |-> h.req, session |-> h.session, result |-> result]
<1> USE DEF calls
<1>1. /\ Popped(atSink, atSink', k) /\ Joined(fromSink, fromSink', k, e)
      /\ done' = IF result THEN done \cup {h.req} ELSE done
      /\ UNCHANGED << link, numbered, requests, lost, waiting, answers >>
      /\ UNCHANGED << toRelay, events, toOrigin, posted >>
  BY DEF Replies, Reply, Popped, Joined
<1>2. /\ StagePopped(Sinks, atSink, atSink', k)
      /\ h \in Passed /\ h.req \in DOMAIN requests /\ SinkOf(h.req) = k
      /\ h.req \notin done /\ OnSession(h)
      /\ \A i \in Sinks : \A x \in Range(atSink'[i]) :
             /\ x \in Range(atSink[i]) /\ x.req # h.req
             /\ Known(x.req) /\ SinkOf(x.req) = i /\ x.req \notin done /\ OnSession(x)
  BY <1>1, FirstPassed
<1>3. /\ e \in Replied /\ fromSink \in [Sinks -> Seq(Replied)] /\ StagesAre
      /\ e.req = h.req /\ e.session = h.session /\ e.result = result
  BY <1>2, Types DEF Passed, Replied
<1> HIDE DEF h, e
<1>4. h.req \in Way[2]
  BY <1>2, WayNames DEF StagePopped, h
<1>5. StageJoined(Sinks, fromSink, fromSink', k, e)
  <2>1. 2 \in 1 .. 7 /\ 3 \in 1 .. 7 /\ 2 < 3
    OBVIOUS
  <2>2. \A x \in Within(fromSink) : Alike(x, e.req) => x < e.req
    BY <1>3, <1>4, <2>1, Behind, WayNames DEF IInv
  <2>3. Lines(fromSink)
    BY DEF IInv, Sorted
  <2> QED
    BY <1>1, <1>3, <2>2, <2>3, StageJoin
<1>6. OnSession(e)
  BY <1>2, <1>3 DEF OnSession
\* The request is at no other stage, so that what the sink did is said of it alone.
<1>7. \A n \in 1 .. 7 : n # 2 => h.req \notin Way[n]
  <2>1. TypeOK /\ InTurn /\ 2 \in 1 .. 7
    BY DEF IInv, TInv
  <2> QED
    BY <1>2, <1>4, <2>1, OneStage
<1>8. \A it : it.req # h.req => (Truthful(it) <=> (it.result <=> it.req \in done'))
  BY <1>1 DEF Truthful
<1>9. Homes'
  <2>1. /\ \A x : Known(x)' <=> Known(x)
        /\ \A x : OriginOf(x)' = OriginOf(x) /\ SinkOf(x)' = SinkOf(x) /\ KindOf(x)' = KindOf(x)
    BY <1>1, SameRequests
  <2>2. \A it : it.req # h.req => (Truthful(it)' <=> Truthful(it))
    BY <1>1 DEF Truthful
  <2>3. SentHome(toRelay)'
    <3>1. \A o \in Origins : \A r \in Range(toRelay[o]) : r # h.req
      BY <1>3, <1>7 DEF StagesAre
    <3> QED
      BY <1>1, <2>1, <3>1 DEF IInv, Homes, SentHome
  <2>4. SinkHome(atSink)'
    BY <1>1, <1>2, <2>1 DEF SinkHome
  <2>5. ReplyHome(fromSink)'
    <3>1. e.result <=> e.req \in done'
      <4>1. result <=> h.req \in done'
        BY <1>1, <1>2
      <4> QED
        BY <1>3, <4>1, Zenon
    <3>2. \A i \in Sinks : \A x \in Range(fromSink[i]) : x.req # h.req
      BY <1>3, <1>7 DEF StagesAre
    <3>3. \A i \in Sinks : \A x \in Range(fromSink'[i]) : x \in Range(fromSink[i]) \/ (i = k /\ x = e)
      BY <1>5 DEF StageJoined, AfterJoin
    <3>4. ASSUME NEW i \in Sinks, NEW x \in Range(fromSink'[i])
          PROVE  Known(x.req)' /\ SinkOf(x.req)' = i /\ Truthful(x)'
      <4>1. CASE x \in Range(fromSink[i])
        BY <2>1, <2>2, <3>2, <4>1 DEF IInv, Homes, ReplyHome
      <4>2. CASE i = k /\ x = e
        <5>1. Known(x.req)' /\ SinkOf(x.req)' = i
          BY <1>2, <1>3, <2>1, <4>2 DEF Known
        <5>2. Truthful(x)'
          BY <3>1, <4>2, Zenon DEF Truthful
        <5> QED
          BY <5>1, <5>2
      <4> QED
        BY <3>3, <4>1, <4>2
    <3> QED
      BY <3>4 DEF ReplyHome
  <2>6. EventHome(events)'
    <3>1. \A x \in Range(events) : x.req # h.req
      BY <1>3, <1>7 DEF StagesAre
    <3> QED
      BY <1>1, <2>1, <2>2, <3>1 DEF IInv, Homes, EventHome
  <2>7. AnswerHome(toOrigin)' /\ AnswerHome(posted)' /\ AnswerHome(answers)'
    <3>1. \A o \in Origins : \A x \in Range(toOrigin[o]) \cup Range(posted[o]) \cup Range(answers[o]) :
              x.req # h.req
      BY <1>3, <1>7 DEF StagesAre
    <3> QED
      BY <1>1, <2>1, <2>2, <3>1 DEF IInv, Homes, AnswerHome
  <2>8. done' \subseteq DOMAIN requests' /\ lost' \subseteq DOMAIN requests'
    BY <1>1, <1>2 DEF IInv, Homes
  <2> QED
    BY <2>3, <2>4, <2>5, <2>6, <2>7, <2>8 DEF Homes
<1>10. /\ \A i \in Sinks : \A x \in Range(atSink'[i]) \cup Range(fromSink'[i]) : OnSession(x)
       /\ \A x \in Range(events') : OnSession(x)
  <2>1. \A i \in Sinks : \A x \in Range(fromSink'[i]) : x \in Range(fromSink[i]) \/ (i = k /\ x = e)
    BY <1>5 DEF StageJoined, AfterJoin
  <2> QED
    BY <1>1, <1>2, <1>6, <2>1 DEF IInv, Numbers
<1>11. /\ Way'[1] = Way[1] /\ Way'[4] = Way[4] /\ Way'[5] = Way[5] /\ Way'[6] = Way[6]
       /\ Way'[7] = Way[7]
  BY <1>1, WaySame
<1>12. /\ \A x \in Way'[2] : x \in Way[2] /\ (Alike(x, h.req) => h.req < x)
       /\ \A x \in Way[2] : x \in Way'[2] \/ x = h.req
  BY <1>2, WayNames DEF StagePopped, h
<1>13. /\ \A x \in Way'[3] : x \in Way[3] \/ x = h.req
       /\ \A x \in Way[3] : x \in Way'[3]
       /\ h.req \in Way'[3]
  BY <1>3, <1>5, WayNames DEF StageJoined
<1>14. /\ \A n \in 1 .. 7 : \A x \in Way'[n] : x \in Way[n] \/ (n = 3 /\ x = h.req)
       /\ \A n \in 1 .. 7 : \A x \in Way[n] : x \in Way'[n] \/ x = h.req
       /\ \A n \in 1 .. 7 : 2 < n /\ n < 3 => \A x \in Way[n] : ~Alike(x, h.req)
       /\ 2 \in 1 .. 6 /\ 3 \in 1 .. 6 /\ 2 < 3
  BY <1>11, <1>12, <1>13
<1>15. /\ \A o \in Origins : RisingIds(toRelay'[o])
       /\ Lines(atSink') /\ Lines(fromSink') /\ Rising(events') /\ Lines(toOrigin') /\ Lines(posted')
       /\ \A o \in Origins : toRelay'[o] # << >> => link[o] # None
  BY <1>1, <1>2, <1>5 DEF IInv, Sorted, Links, StagePopped, StageJoined
<1> QED
  BY <1>1, <1>4, <1>9, <1>10, <1>12, <1>13, <1>14, <1>15, Calm

\* The first reply of a sink leaves the session with the relay.
LEMMA FirstReplied ==
    ASSUME IInv, NEW k \in Sinks, fromSink[k] # << >>, NEW q, Popped(fromSink, q, k)
    PROVE  LET h == Head(fromSink[k])
           IN  /\ StagePopped(Sinks, fromSink, q, k)
               /\ h \in Replied /\ h.req \in DOMAIN requests /\ SinkOf(h.req) = k
               /\ OnSession(h) /\ Truthful(h)
               /\ ReplyHome(q)
               /\ \A i \in Sinks : \A x \in Range(q[i]) : OnSession(x)
<1> DEFINE h == Head(fromSink[k])
<1>1. fromSink \in [Sinks -> Seq(Replied)]
  BY Types
<1>2. h \in Replied /\ AfterPop(Sinks, fromSink, q, k)
  BY <1>1, TailAt
<1>3. \A i \in Sinks : \A x \in Range(fromSink[i]) :
          Known(x.req) /\ SinkOf(x.req) = i /\ Truthful(x) /\ OnSession(x)
  BY DEF IInv, Homes, ReplyHome, Numbers
<1>4. h \in Range(fromSink[k]) /\ \A i \in Sinks : \A x \in Range(q[i]) : x \in Range(fromSink[i])
  BY <1>2 DEF AfterPop
<1>5. StagePopped(Sinks, fromSink, q, k)
  <2>1. \A i \in Sinks : \A x \in Range(fromSink[i]) : Alike(x.req, h.req) => i = k
    BY <1>3, <1>4 DEF Alike
  <2>2. Lines(fromSink)
    BY DEF IInv, Sorted
  <2> QED
    BY <1>1, <2>1, <2>2, StagePop
<1>6. ReplyHome(q) /\ \A i \in Sinks : \A x \in Range(q[i]) : OnSession(x)
  BY <1>3, <1>4 DEF ReplyHome
<1> QED
  BY <1>2, <1>3, <1>4, <1>5, <1>6 DEF Known

LEMMA ReturnedKeeps ==
    ASSUME IInv, TInv', NEW k \in Sinks, Returned(k)
    PROVE  IInv'
<1> DEFINE h == Head(fromSink[k])
<1> USE DEF history, calls, sessions
<1>1. /\ Popped(fromSink, fromSink', k) /\ fromSink[k] # << >>
      /\ AnsweredTo(h.req, h.session, h.result)
      /\ UNCHANGED << link, numbered, requests, done, lost, waiting, answers >>
      /\ UNCHANGED << toRelay, atSink, posted >>
  BY DEF Returned, Popped
<1>2. /\ StagePopped(Sinks, fromSink, fromSink', k)
      /\ h \in Replied /\ h.req \in DOMAIN requests /\ SinkOf(h.req) = k
      /\ OnSession(h) /\ Truthful(h)
      /\ ReplyHome(fromSink')
      /\ \A i \in Sinks : \A x \in Range(fromSink'[i]) : OnSession(x)
  BY <1>1, FirstReplied
<1>3. StagesAre
  BY Types
<1>4. h.req \in Way[3]
  BY <1>2, WayNames DEF StagePopped
<1> HIDE DEF h
<1> DEFINE r == h.req
<1>5. /\ Rising(events') /\ EventHome(events') /\ (\A x \in Range(events') : OnSession(x))
      /\ Lines(toOrigin') /\ AnswerHome(toOrigin')
      /\ \E b \in 4 .. 5 :
             /\ b = 5 => KindOf(r) \notin Preparing
             /\ \A n \in 4 .. 5 : \A x \in Way'[n] : x \in Way[n] \/ (n = b /\ x = r)
             /\ \A n \in 4 .. 5 : \A x \in Way[n] : x \in Way'[n]
             /\ r \in Way'[b] \/ r \in lost
  <2>1. 3 \in 1 .. 3
    OBVIOUS
  <2> QED
    BY <1>1, <1>2, <1>4, <2>1, Answering
<1>6. PICK b \in 4 .. 5 :
          /\ b = 5 => KindOf(r) \notin Preparing
          /\ \A n \in 4 .. 5 : \A x \in Way'[n] : x \in Way[n] \/ (n = b /\ x = r)
          /\ \A n \in 4 .. 5 : \A x \in Way[n] : x \in Way'[n]
          /\ r \in Way'[b] \/ r \in lost
  BY <1>5
<1>7. Homes'
  BY <1>1, <1>2, <1>5, StillHomes DEF IInv, Homes
<1>8. Way'[1] = Way[1] /\ Way'[2] = Way[2] /\ Way'[6] = Way[6] /\ Way'[7] = Way[7]
  BY <1>1, WaySame
<1>9. /\ \A x \in Way'[3] : x \in Way[3] /\ (Alike(x, r) => r < x)
      /\ \A x \in Way[3] : x \in Way'[3] \/ x = r
  BY <1>2, WayNames DEF StagePopped, h
<1>10. b = 5 => \A x \in Way[4] : ~Alike(x, r)
  <2>1. \A x \in Way[4] : KindOf(x) \in Preparing
    BY <1>3 DEF StagesAre, IInv, Homes, EventHome
  <2> QED
    BY <1>6, <2>1 DEF Alike
<1>11. /\ \A n \in 1 .. 7 : \A x \in Way'[n] : x \in Way[n] \/ (n = b /\ x = r)
       /\ \A n \in 1 .. 7 : \A x \in Way[n] : x \in Way'[n] \/ x = r
  BY <1>6, <1>8, <1>9
<1>12. \A n \in 1 .. 7 : 3 < n /\ n < b => \A x \in Way[n] : ~Alike(x, r)
  <2>1. \A n \in 1 .. 7 : 3 < n /\ n < b => n = 4 /\ b = 5
    OBVIOUS
  <2> QED
    BY <1>10, <2>1
<1>13. 3 \in 1 .. 6 /\ b \in 1 .. 6 /\ 3 < b
  OBVIOUS
<1>14. /\ \A o \in Origins : RisingIds(toRelay'[o]) /\ (toRelay'[o] # << >> => link[o] # None)
       /\ Lines(atSink') /\ Lines(fromSink') /\ Lines(posted')
       /\ \A i \in Sinks : \A x \in Range(atSink'[i]) \cup Range(fromSink'[i]) : OnSession(x)
  BY <1>1, <1>2 DEF IInv, Sorted, Links, Numbers, StagePopped
<1> QED
  BY <1>1, <1>4, <1>5, <1>6, <1>7, <1>9, <1>11, <1>12, <1>13, <1>14, Calm

LEMMA AnnouncedKeeps ==
    ASSUME IInv, TInv', Announced
    PROVE  IInv'
<1> DEFINE h == Head(events)
           r == h.req
<1> USE DEF history, calls, sessions
<1>1. /\ events # << >> /\ events' = Tail(events)
      /\ SendToOrigin(r, h.session, h.result)
      /\ UNCHANGED << link, numbered, requests, done, lost, waiting, answers >>
      /\ UNCHANGED << toRelay, atSink, fromSink, posted >>
  BY DEF Announced
<1>2. events \in Seq(Replied) /\ Rising(events)
  BY Types DEF IInv, Sorted
<1>3. QueuePopped(events, events') /\ h \in Replied
  BY <1>1, <1>2, QueuePop, RangeTail
<1>4. \A x \in Range(events) :
          OnSession(x) /\ Known(x.req) /\ KindOf(x.req) \in Preparing /\ Truthful(x)
  BY DEF IInv, Homes, EventHome, Numbers
<1>5. /\ r \in DOMAIN requests /\ OnSession(h) /\ Truthful(h) /\ h.result \in BOOLEAN
      /\ EventHome(events') /\ (\A x \in Range(events') : OnSession(x))
  BY <1>3, <1>4 DEF QueuePopped, Known, EventHome, Replied
<1>6. /\ r \in Way[4]
      /\ \A x \in Way'[4] : x \in Way[4] /\ (Alike(x, r) => r < x)
      /\ \A x \in Way[4] : x \in Way'[4] \/ x = r
  BY <1>3, WayNames DEF QueuePopped
<1> HIDE DEF h
<1>7. /\ Lines(toOrigin') /\ AnswerHome(toOrigin')
      /\ \A x \in Way'[5] : x \in Way[5] \/ x = r
      /\ \A x \in Way[5] : x \in Way'[5]
      /\ r \in Way'[5] \/ r \in lost
  <2>1. 4 \in 1 .. 4
    OBVIOUS
  <2> QED
    BY <1>1, <1>5, <1>6, <2>1, Sending
<1>8. Homes'
  BY <1>1, <1>5, <1>7, StillHomes DEF IInv, Homes
<1>9. /\ Way'[1] = Way[1] /\ Way'[2] = Way[2] /\ Way'[3] = Way[3] /\ Way'[6] = Way[6]
      /\ Way'[7] = Way[7]
  BY <1>1, WaySame
<1>10. /\ \A n \in 1 .. 7 : \A x \in Way'[n] : x \in Way[n] \/ (n = 5 /\ x = r)
       /\ \A n \in 1 .. 7 : \A x \in Way[n] : x \in Way'[n] \/ x = r
       /\ \A n \in 1 .. 7 : 4 < n /\ n < 5 => \A x \in Way[n] : ~Alike(x, r)
       /\ 4 \in 1 .. 6 /\ 5 \in 1 .. 6 /\ 4 < 5
  BY <1>6, <1>7, <1>9
<1>11. /\ \A o \in Origins : RisingIds(toRelay'[o]) /\ (toRelay'[o] # << >> => link[o] # None)
       /\ Lines(atSink') /\ Lines(fromSink') /\ Rising(events') /\ Lines(posted')
       /\ \A i \in Sinks : \A x \in Range(atSink'[i]) \cup Range(fromSink'[i]) : OnSession(x)
  BY <1>1, <1>3 DEF IInv, Sorted, Links, Numbers, QueuePopped
<1> QED
  BY <1>1, <1>5, <1>6, <1>7, <1>8, <1>10, <1>11, Calm

\* An answer of an origin goes to its event handler, behind all that are alike.
LEMMA FirstAnswered ==
    ASSUME IInv, NEW o \in Origins, toOrigin[o] # << >>, NEW q, Popped(toOrigin, q, o),
           Joined(posted, posted', o, Head(toOrigin[o]))
    PROVE  LET h == Head(toOrigin[o])
           IN  /\ StagePopped(Origins, toOrigin, q, o)
               /\ StageJoined(Origins, posted, posted', o, h)
               /\ h.req \in DOMAIN requests /\ OriginOf(h.req) = o /\ h.req \in Way[5]
               /\ AnswerHome(q) /\ AnswerHome(posted')
<1> DEFINE h == Head(toOrigin[o])
<1>1. toOrigin \in [Origins -> Seq(Result)] /\ posted \in [Origins -> Seq(Result)]
  BY Types
<1>2. h \in Result /\ AfterPop(Origins, toOrigin, q, o)
  BY <1>1, TailAt
<1>3. \A i \in Origins : \A x \in Range(toOrigin[i]) \cup Range(posted[i]) :
          Known(x.req) /\ OriginOf(x.req) = i /\ Truthful(x)
  BY DEF IInv, Homes, AnswerHome
<1>4. h \in Range(toOrigin[o]) /\ \A i \in Origins : \A x \in Range(q[i]) : x \in Range(toOrigin[i])
  BY <1>2 DEF AfterPop
<1>5. StagePopped(Origins, toOrigin, q, o)
  <2>1. \A i \in Origins : \A x \in Range(toOrigin[i]) : Alike(x.req, h.req) => i = o
    BY <1>3, <1>4 DEF Alike
  <2>2. Lines(toOrigin)
    BY DEF IInv, Sorted
  <2> QED
    BY <1>1, <2>1, <2>2, StagePop
<1>6. h.req \in Way[5]
  BY <1>5, WayNames DEF StagePopped
<1>7. StageJoined(Origins, posted, posted', o, h)
  <2>1. 5 \in 1 .. 7 /\ 6 \in 1 .. 7 /\ 5 < 6
    OBVIOUS
  <2>2. \A x \in Within(posted) : Alike(x, h.req) => x < h.req
    BY <1>6, <2>1, Behind, WayNames DEF IInv
  <2>3. Lines(posted)
    BY DEF IInv, Sorted
  <2> QED
    BY <1>1, <1>2, <2>2, <2>3, StageJoin
<1>8. AnswerHome(q)
  BY <1>3, <1>4 DEF AnswerHome
<1>9. AnswerHome(posted')
  <2>1. \A i \in Origins : \A x \in Range(posted'[i]) : x \in Range(posted[i]) \/ (i = o /\ x = h)
    BY <1>7 DEF StageJoined, AfterJoin
  <2> QED
    BY <1>3, <1>4, <2>1 DEF AnswerHome
<1> QED
  BY <1>3, <1>4, <1>5, <1>6, <1>7, <1>8, <1>9 DEF Known

LEMMA ReceivedKeeps ==
    ASSUME IInv, TInv', NEW o \in Origins, Received(o)
    PROVE  IInv'
<1> DEFINE h == Head(toOrigin[o])
           r == h.req
<1> USE DEF history, sessions
<1>1. /\ toOrigin[o] # << >> /\ Popped(toOrigin, toOrigin', o) /\ Joined(posted, posted', o, h)
      /\ UNCHANGED << link, numbered, requests, done, lost, waiting, answers >>
      /\ UNCHANGED << toRelay, atSink, fromSink, events >>
  BY DEF Received, TakeAnswer, FirstAnswer, Popped, Joined
<1>2. /\ StagePopped(Origins, toOrigin, toOrigin', o)
      /\ StageJoined(Origins, posted, posted', o, h)
      /\ r \in DOMAIN requests /\ OriginOf(r) = o /\ r \in Way[5]
      /\ AnswerHome(toOrigin') /\ AnswerHome(posted')
  BY <1>1, FirstAnswered
<1>3. /\ \A x \in Way'[5] : x \in Way[5] /\ (Alike(x, r) => r < x)
      /\ \A x \in Way[5] : x \in Way'[5] \/ x = r
  BY <1>2, WayNames DEF StagePopped
<1>4. /\ \A x \in Way'[6] : x \in Way[6] \/ x = r
      /\ \A x \in Way[6] : x \in Way'[6]
      /\ r \in Way'[6]
  BY <1>2, WayNames DEF StageJoined
<1> HIDE DEF h
<1>5. Homes'
  BY <1>1, <1>2, StillHomes DEF IInv, Homes
<1>6. /\ Way'[1] = Way[1] /\ Way'[2] = Way[2] /\ Way'[3] = Way[3] /\ Way'[4] = Way[4]
      /\ Way'[7] = Way[7]
  BY <1>1, WaySame
<1>7. /\ \A n \in 1 .. 7 : \A x \in Way'[n] : x \in Way[n] \/ (n = 6 /\ x = r)
      /\ \A n \in 1 .. 7 : \A x \in Way[n] : x \in Way'[n] \/ x = r
      /\ \A n \in 1 .. 7 : 5 < n /\ n < 6 => \A x \in Way[n] : ~Alike(x, r)
      /\ 5 \in 1 .. 6 /\ 6 \in 1 .. 6 /\ 5 < 6
  BY <1>3, <1>4, <1>6
<1>8. /\ \A i \in Origins : RisingIds(toRelay'[i]) /\ (toRelay'[i] # << >> => link[i] # None)
      /\ Lines(atSink') /\ Lines(fromSink') /\ Rising(events') /\ Lines(toOrigin') /\ Lines(posted')
      /\ \A i \in Sinks : \A x \in Range(atSink'[i]) \cup Range(fromSink'[i]) : OnSession(x)
      /\ \A x \in Range(events') : OnSession(x)
  BY <1>1, <1>2 DEF IInv, Sorted, Links, Numbers, StagePopped, StageJoined
<1> QED
  BY <1>1, <1>2, <1>3, <1>4, <1>5, <1>7, <1>8, Calm

\* A session closes: what was on it is lost.
LEMMA Closing ==
    ASSUME IInv, TInv', Homes', Numbers', Links', UNCHANGED << requests, answers >>, lost \subseteq lost',
           InTurnOf(Way'),
           \A o \in Origins : RisingIds(toRelay'[o]), Lines(atSink'), Lines(fromSink'),
           Rising(events'), Lines(toOrigin'), Lines(posted'),
           \A n \in 1 .. 6 : \A x \in Way[n] : x \in lost' \/ \E m \in 1 .. 6 : x \in Way'[m],
           \A n \in 1 .. 6 : \A x \in Way'[n] : \E m \in 1 .. 6 : x \in Way[m],
           \A o \in Origins : \A c \in waiting'[o] : c \in waiting[o],
           \A o \in Origins : \A c \in waiting[o] : c \in waiting'[o] \/ c \in lost' \/ ~OnWay(c)
    PROVE  IInv'
<1>1. Sorted'
  <2>1. Lines(answers')
    BY DEF IInv, Sorted
  <2> QED
    BY <2>1, StillSorted
<1>2. CallsKept'
  <2>1. \A x : OnWay(x) => OnWay(x)' \/ x \in lost'
    BY DEF OnWay
  <2>2. \A x : OnWay(x)' => OnWay(x)
    BY DEF OnWay
  <2>3. \A x \in DOMAIN requests : OriginOf(x) \in Origins /\ x <= x
    BY Types
  <2> QED
    BY <2>1, <2>2, <2>3, StillKept DEF IInv
<1> QED
  BY <1>1, <1>2, StillInTurn DEF IInv

LEMMA StillNumbered ==
    ASSUME UNCHANGED << link, numbered, requests >>, lost \subseteq lost',
           \A k \in Sinks : \A it \in Range(atSink'[k]) \cup Range(fromSink'[k]) : OnSession(it),
           \A it \in Range(events') : OnSession(it)
    PROVE  Numbers'
<1>1. \A it : OnSession(it) => OnSession(it)'
  BY DEF OnSession, OriginOf
<1> QED
  BY <1>1 DEF Numbers

LEMMA SinkCloses ==
    ASSUME IInv, TInv', NEW k \in Sinks, CloseSink(k)
    PROVE  /\ Lines(atSink') /\ Lines(fromSink') /\ SinkHome(atSink') /\ ReplyHome(fromSink')
           /\ \A i \in Sinks : \A x \in Range(atSink'[i]) \cup Range(fromSink'[i]) : OnSession(x)
           /\ \A x \in Way'[2] : x \in Way[2]
           /\ \A x \in Way'[3] : x \in Way[3] /\ SinkOf(x) # k
           /\ \A x \in Way[2] : x \in Way'[2] \/ x \in Ids(atSink[k])
           /\ \A x \in Way[3] : x \in Way'[3] \/ x \in Ids(fromSink[k])
<1>1. /\ atSink \in [Sinks -> Seq(Passed)] /\ fromSink \in [Sinks -> Seq(Replied)]
      /\ StagesAre /\ StagesAre'
  BY Types, WayPartsNext DEF TInv
<1>2. Emptied(atSink, atSink', k) /\ Emptied(fromSink, fromSink', k)
  BY DEF CloseSink, Emptied
<1>3. AfterEmpty(Sinks, atSink, atSink', k)
  BY <1>1, <1>2, EmptyAt
<1>4. AfterEmpty(Sinks, fromSink, fromSink', k)
  BY <1>1, <1>2, EmptyAt
<1>5. Lines(atSink') /\ Lines(fromSink')
  BY <1>2, LinesEmpty DEF IInv, Sorted
<1>6. SinkHome(atSink') /\ ReplyHome(fromSink')
  BY <1>3, <1>4 DEF IInv, Homes, SinkHome, ReplyHome, AfterEmpty
<1>7. \A i \in Sinks : \A x \in Range(atSink'[i]) \cup Range(fromSink'[i]) : OnSession(x)
  BY <1>3, <1>4 DEF IInv, Numbers, AfterEmpty
<1>8. (\A x \in Way'[2] : x \in Way[2]) /\ (\A x \in Way[2] : x \in Way'[2] \/ x \in Ids(atSink[k]))
  <2>1. /\ \A x : x \in Way[2] <=> \E i \in Sinks : \E it \in Range(atSink[i]) : it.req = x
        /\ \A x : x \in Way'[2] <=> \E i \in Sinks : \E it \in Range(atSink'[i]) : it.req = x
    BY <1>1 DEF StagesAre
  <2> QED
    BY <1>3, <2>1, IdsAreNamed DEF AfterEmpty
<1>9. /\ \A x \in Way'[3] : x \in Way[3] /\ SinkOf(x) # k
      /\ \A x \in Way[3] : x \in Way'[3] \/ x \in Ids(fromSink[k])
  <2>1. /\ \A x : x \in Way[3] <=> \E i \in Sinks : \E it \in Range(fromSink[i]) : it.req = x
        /\ \A x : x \in Way'[3] <=> \E i \in Sinks : \E it \in Range(fromSink'[i]) : it.req = x
    BY <1>1 DEF StagesAre
  <2>2. \A i \in Sinks : \A it \in Range(fromSink[i]) : SinkOf(it.req) = i
    BY DEF IInv, Homes, ReplyHome
  <2> QED
    BY <1>4, <2>1, <2>2, IdsAreNamed DEF AfterEmpty
<1> QED
  BY <1>5, <1>6, <1>7, <1>8, <1>9

LEMMA LoseSinkKeeps ==
    ASSUME IInv, TInv', NEW k \in Sinks, LoseSink(k)
    PROVE  IInv'
<1> USE DEF calls
<1>1. /\ CloseSink(k) /\ lost' = lost \cup Ids(atSink[k]) \cup Ids(fromSink[k])
      /\ UNCHANGED << link, numbered, requests, done, waiting, answers >>
      /\ UNCHANGED << toRelay, events, toOrigin, posted >>
  BY DEF LoseSink
<1>2. /\ Lines(atSink') /\ Lines(fromSink') /\ SinkHome(atSink') /\ ReplyHome(fromSink')
      /\ \A i \in Sinks : \A x \in Range(atSink'[i]) \cup Range(fromSink'[i]) : OnSession(x)
      /\ \A x \in Way'[2] : x \in Way[2]
      /\ \A x \in Way'[3] : x \in Way[3] /\ SinkOf(x) # k
      /\ \A x \in Way[2] : x \in Way'[2] \/ x \in Ids(atSink[k])
      /\ \A x \in Way[3] : x \in Way'[3] \/ x \in Ids(fromSink[k])
  BY <1>1, SinkCloses
<1>3. lost' \subseteq DOMAIN requests
  <2>1. Ids(atSink[k]) \subseteq DOMAIN requests
    BY IdsAreNamed DEF IInv, Homes, SinkHome, Known
  <2>2. Ids(fromSink[k]) \subseteq DOMAIN requests
    BY IdsAreNamed DEF IInv, Homes, ReplyHome, Known
  <2> QED
    BY <1>1, <2>1, <2>2 DEF IInv, Homes
<1>4. Homes'
  BY <1>1, <1>2, <1>3, StillHomes DEF IInv, Homes
<1>5. Numbers' /\ Links'
  <2>1. Numbers'
    BY <1>1, <1>2, StillNumbered DEF IInv, Numbers
  <2> QED
    BY <1>1, <2>1 DEF IInv, Links
<1>6. /\ Way'[1] = Way[1] /\ Way'[4] = Way[4] /\ Way'[5] = Way[5] /\ Way'[6] = Way[6]
      /\ Way'[7] = Way[7]
  BY <1>1, WaySame
<1>7. \A n \in 1 .. 7 : Way'[n] \subseteq Way[n]
  BY <1>2, <1>6
<1>8. InTurnOf(Way')
  BY <1>7, Leaving DEF IInv, InTurn
<1>9. \A n \in 1 .. 6 : \A x \in Way[n] : x \in lost' \/ x \in Way'[n]
  BY <1>1, <1>2, <1>6
<1>10. /\ \A o \in Origins : RisingIds(toRelay'[o])
       /\ Rising(events') /\ Lines(toOrigin') /\ Lines(posted')
  BY <1>1 DEF IInv, Sorted
<1>11. lost \subseteq lost'
  BY <1>1
<1>12. \A n \in 1 .. 6 : \A x \in Way'[n] : x \in Way[n]
  BY <1>7
<1> QED
  BY <1>1, <1>2, <1>4, <1>5, <1>8, <1>9, <1>10, <1>11, <1>12, Closing

LEMMA UnprepareAnsweredKeeps ==
    ASSUME IInv, TInv', NEW k \in Sinks, NotifyResponseRelayUnprepare(k)
    PROVE  IInv'
<1> DEFINE h == Head(fromSink[k])
           r == h.req
           q == [fromSink EXCEPT ![k] = Tail(fromSink[k])]
<1> USE DEF calls
<1>1. /\ fromSink[k] # << >> /\ KindOf(r) = "unprepare"
      /\ PostAnswer(r, h.session, h.result) /\ CloseSink(k)
      /\ lost' = lost \cup Ids(atSink[k]) \cup Ids(Tail(fromSink[k]))
      /\ UNCHANGED << link, numbered, requests, done, waiting, answers >>
      /\ UNCHANGED << toRelay, toOrigin, posted >>
  BY DEF NotifyResponseRelayUnprepare, FirstReply, OnResponseRelayUnprepareRemoteInput
<1>2. /\ StagePopped(Sinks, fromSink, q, k)
      /\ h \in Replied /\ r \in DOMAIN requests /\ SinkOf(r) = k
      /\ OnSession(h) /\ Truthful(h)
  <2>1. Popped(fromSink, q, k)
    BY <1>1 DEF Popped
  <2> QED
    BY <1>1, <2>1, FirstReplied
<1>3. r \in Way[3] /\ fromSink \in [Sinks -> Seq(Replied)] /\ fromSink[k] \in Seq(Replied)
  BY <1>2, Types, WayNames DEF StagePopped
<1>4. Ids(fromSink[k]) \subseteq Ids(Tail(fromSink[k])) \cup {r}
  <2>1. \A e \in Range(fromSink[k]) : e = h \/ e \in Range(Tail(fromSink[k]))
    BY <1>1, <1>3, RangeTail
  <2> QED
    BY <2>1, IdsAreNamed
<1>5. Ids(Tail(fromSink[k])) \subseteq Ids(fromSink[k])
  <2>1. Range(Tail(fromSink[k])) \subseteq Range(fromSink[k])
    BY <1>1, <1>3, RangeTail
  <2> QED
    BY <2>1, IdsAreNamed
<1> HIDE DEF h, q
<1>6. /\ Lines(atSink') /\ Lines(fromSink') /\ SinkHome(atSink') /\ ReplyHome(fromSink')
      /\ \A i \in Sinks : \A x \in Range(atSink'[i]) \cup Range(fromSink'[i]) : OnSession(x)
      /\ \A x \in Way'[2] : x \in Way[2]
      /\ \A x \in Way'[3] : x \in Way[3] /\ SinkOf(x) # k
      /\ \A x \in Way[2] : x \in Way'[2] \/ x \in Ids(atSink[k])
      /\ \A x \in Way[3] : x \in Way'[3] \/ x \in Ids(fromSink[k])
  BY <1>1, SinkCloses
<1>7. /\ Rising(events') /\ EventHome(events') /\ (\A x \in Range(events') : OnSession(x))
      /\ Way'[4] = Way[4] \cup {r}
  <2>1. h = [req |-> r, session |-> h.session, result |-> h.result]
    BY <1>2 DEF Replied
  <2>2. events' = Append(events, h) /\ KindOf(r) \in Preparing /\ 3 \in 1 .. 3
    BY <1>1, <2>1 DEF PostAnswer, Preparing
  <2> QED
    BY <1>2, <1>3, <2>2, Posting
<1>8. lost' \subseteq DOMAIN requests
  <2>1. Ids(atSink[k]) \subseteq DOMAIN requests
    BY IdsAreNamed DEF IInv, Homes, SinkHome, Known
  <2>2. Ids(fromSink[k]) \subseteq DOMAIN requests
    BY IdsAreNamed DEF IInv, Homes, ReplyHome, Known
  <2> QED
    BY <1>1, <1>5, <2>1, <2>2 DEF IInv, Homes
<1>9. Homes'
  BY <1>1, <1>6, <1>7, <1>8, StillHomes DEF IInv, Homes
<1>10. lost \subseteq lost'
  BY <1>1
<1>11. Numbers' /\ Links'
  <2>1. Numbers'
    BY <1>1, <1>6, <1>7, <1>10, StillNumbered
  <2> QED
    BY <1>1, <2>1 DEF IInv, Links
<1>12. Way'[1] = Way[1] /\ Way'[5] = Way[5] /\ Way'[6] = Way[6] /\ Way'[7] = Way[7]
  BY <1>1, WaySame
<1>13. \A n \in 1 .. 7 : \A x \in Way'[n] : x \in Way[n] \/ (n = 4 /\ x = r)
  BY <1>6, <1>7, <1>12
<1>14. InTurnOf(Way')
  <2>1. \A x \in Way'[3] : Alike(x, r) => r < x
    BY <1>2, <1>6 DEF Alike
  <2>2. \A n \in 1 .. 7 : 3 < n /\ n < 4 => \A x \in Way[n] : ~Alike(x, r)
    OBVIOUS
  <2>3. 3 \in 1 .. 7 /\ 4 \in 1 .. 7 /\ 3 < 4 /\ InTurnOf(Way)
    BY DEF IInv, InTurn
  <2> QED
    BY <1>3, <1>13, <2>1, <2>2, <2>3, Passing
<1>15. \A n \in 1 .. 6 : \A x \in Way[n] : x \in lost' \/ x \in Way'[n] \/ x \in Way'[4]
  BY <1>1, <1>4, <1>6, <1>7, <1>12
<1>16. \A n \in 1 .. 6 : \A x \in Way[n] : x \in lost' \/ \E m \in 1 .. 6 : x \in Way'[m]
  BY <1>15
<1>17. \A n \in 1 .. 6 : \A x \in Way'[n] : \E m \in 1 .. 6 : x \in Way[m]
  BY <1>3, <1>13
<1>18. /\ \A o \in Origins : RisingIds(toRelay'[o])
       /\ Lines(toOrigin') /\ Lines(posted')
  BY <1>1 DEF IInv, Sorted
<1> QED
  BY <1>1, <1>6, <1>7, <1>9, <1>10, <1>11, <1>14, <1>16, <1>17, <1>18, Closing

LEMMA LinkCloses ==
    ASSUME IInv, TInv', NEW o \in Origins, CloseLink(o), UNCHANGED << numbered, requests >>
    PROVE  /\ \A i \in Origins : RisingIds(toRelay'[i])
           /\ Lines(toOrigin') /\ SentHome(toRelay') /\ AnswerHome(toOrigin') /\ Links'
           /\ \A x \in Way'[1] : x \in Way[1]
           /\ \A x \in Way[1] : x \in Way'[1] \/ OriginOf(x) = o
           /\ \A x \in Way'[5] : x \in Way[5] /\ OriginOf(x) # o
           /\ \A x \in Way[5] : x \in Way'[5] \/ OriginOf(x) = o
<1>1. /\ toRelay \in [Origins -> Seq(Requests)] /\ toOrigin \in [Origins -> Seq(Result)]
      /\ link \in [Origins -> Nat] /\ numbered \in Nat
      /\ StagesAre /\ StagesAre'
  BY Types, WayPartsNext DEF TInv
<1>2. Emptied(toRelay, toRelay', o) /\ Emptied(toOrigin, toOrigin', o)
  BY DEF CloseLink, Emptied
<1>3. AfterEmpty(Origins, toRelay, toRelay', o)
  BY <1>1, <1>2, EmptyAt
<1>4. AfterEmpty(Origins, toOrigin, toOrigin', o)
  BY <1>1, <1>2, EmptyAt
<1>5. \A i \in Origins : RisingIds(toRelay'[i])
  <2>1. RisingIds(<< >>)
    BY DEF RisingIds
  <2>2. \A i \in Origins : toRelay'[i] = << >> \/ toRelay'[i] = toRelay[i]
    BY <1>1, <1>2 DEF Emptied
  <2> QED
    BY <2>1, <2>2 DEF IInv, Sorted
<1>6. Lines(toOrigin')
  BY <1>2, LinesEmpty DEF IInv, Sorted
<1>7. SentHome(toRelay') /\ AnswerHome(toOrigin')
  BY <1>3, <1>4 DEF IInv, Homes, SentHome, AnswerHome, AfterEmpty
<1>8. Links'
  <2>1. link'[o] = None /\ \A i \in Origins : i # o => link'[i] = link[i]
    BY <1>1 DEF CloseLink
  <2>2. \A i \in Origins : toRelay'[i] # << >> => i # o /\ toRelay[i] # << >>
    BY <1>1, <1>2 DEF Emptied
  <2>3. None <= numbered
    BY <1>1 DEF None
  <2> QED
    BY <2>1, <2>2, <2>3 DEF IInv, Links
<1>9. (\A x \in Way'[1] : x \in Way[1]) /\ (\A x \in Way[1] : x \in Way'[1] \/ OriginOf(x) = o)
  <2>1. /\ \A x : x \in Way[1] <=> \E i \in Origins : x \in Range(toRelay[i])
        /\ \A x : x \in Way'[1] <=> \E i \in Origins : x \in Range(toRelay'[i])
    BY <1>1 DEF StagesAre
  <2>2. \A i \in Origins : \A x \in Range(toRelay[i]) : OriginOf(x) = i
    BY DEF IInv, Homes, SentHome
  <2> QED
    BY <1>3, <2>1, <2>2 DEF AfterEmpty
<1>10. /\ \A x \in Way'[5] : x \in Way[5] /\ OriginOf(x) # o
       /\ \A x \in Way[5] : x \in Way'[5] \/ OriginOf(x) = o
  <2>1. /\ \A x : x \in Way[5] <=> \E i \in Origins : \E it \in Range(toOrigin[i]) : it.req = x
        /\ \A x : x \in Way'[5] <=> \E i \in Origins : \E it \in Range(toOrigin'[i]) : it.req = x
    BY <1>1 DEF StagesAre
  <2>2. \A i \in Origins : \A it \in Range(toOrigin[i]) : OriginOf(it.req) = i
    BY DEF IInv, Homes, AnswerHome
  <2> QED
    BY <1>4, <2>1, <2>2 DEF AfterEmpty
<1> QED
  BY <1>5, <1>6, <1>7, <1>8, <1>9, <1>10

\* What is on its way and was not posted is pending.
LEMMA OnWayIsPending ==
    ASSUME IInv, NEW n \in 1 .. 5, NEW x \in Way[n]
    PROVE  x \in DOMAIN requests /\ x \in Pending(OriginOf(x))
<1>1. StagesAre
  BY Types
<1>2. /\ \A y \in Way[1] : Known(y)
      /\ \A y \in Way[2] : Known(y)
      /\ \A y \in Way[3] : Known(y)
      /\ \A y \in Way[4] : Known(y)
      /\ \A y \in Way[5] : Known(y)
  BY <1>1 DEF StagesAre, IInv, Homes, SentHome, SinkHome, ReplyHome, EventHome, AnswerHome
<1>3. x \in DOMAIN requests
  <2>1. n = 1 \/ n = 2 \/ n = 3 \/ n = 4 \/ n = 5
    OBVIOUS
  <2> QED
    BY <1>2, <2>1 DEF Known
<1>4. x \notin Way[6] /\ x \notin Way[7]
  <2>1. n \in 1 .. 7 /\ 6 \in 1 .. 7 /\ 7 \in 1 .. 7 /\ n # 6 /\ n # 7
    OBVIOUS
  <2> QED
    BY <1>3, <2>1, OneStage DEF IInv, TInv
<1>5. OriginOf(x) \in Origins
  BY <1>3, Types
<1>6. x \notin Ids(posted[OriginOf(x)]) /\ x \notin Ids(answers[OriginOf(x)])
  BY <1>1, <1>4, <1>5, IdsAreNamed DEF StagesAre
<1> QED
  BY <1>3, <1>6 DEF Pending

\* The sessions of what travels, after a link was closed.
LEMMA LinkClosesNumbered ==
    ASSUME IInv, TInv', NEW o \in Origins, CloseLink(o),
           UNCHANGED << numbered, requests, atSink, fromSink, events >>, lost \subseteq lost',
           \A n \in 2 .. 4 : \A x \in Way[n] : OriginOf(x) = o => x \in lost'
    PROVE  Numbers'
<1>1. link \in [Origins -> Nat] /\ StagesAre
  BY Types
<1>2. link'[o] = None /\ \A i \in Origins : i # o => link'[i] = link[i]
  BY <1>1 DEF CloseLink
<1>3. ASSUME NEW it, OnSession(it), it.req \in DOMAIN requests, OriginOf(it.req) = o => it.req \in lost'
      PROVE  OnSession(it)'
  <2>1. OriginOf(it.req) \in Origins /\ OriginOf(it.req)' = OriginOf(it.req)
    BY <1>3, Types, SameRequests
  <2>2. it.session <= numbered'
    BY <1>3 DEF OnSession
  <2>3. \A i \in Origins : link'[i] = it.session /\ it.session # None => OriginOf(it.req)' = i
    BY <1>2, <1>3, <2>1 DEF OnSession
  <2>4. it.req \notin lost' => link'[OriginOf(it.req)'] = it.session /\ it.session # None
    BY <1>2, <1>3, <2>1 DEF OnSession
  <2> QED
    BY <2>2, <2>3, <2>4 DEF OnSession
<1>4. ASSUME NEW k \in Sinks, NEW it \in Range(atSink[k]) \cup Range(fromSink[k]) PROVE OnSession(it)'
  <2>1. it.req \in Way[2] \/ it.req \in Way[3]
    BY <1>1, <1>4 DEF StagesAre
  <2>2. OnSession(it) /\ it.req \in DOMAIN requests
    BY <1>4 DEF IInv, Numbers, Homes, SinkHome, ReplyHome, Known
  <2> QED
    BY <1>3, <2>1, <2>2
<1>5. ASSUME NEW it \in Range(events) PROVE OnSession(it)'
  <2>1. it.req \in Way[4]
    BY <1>1, <1>5 DEF StagesAre
  <2>2. OnSession(it) /\ it.req \in DOMAIN requests
    BY <1>5 DEF IInv, Numbers, Homes, EventHome, Known
  <2> QED
    BY <1>3, <2>1, <2>2
<1> QED
  BY <1>4, <1>5 DEF Numbers

LEMMA LoseLinkKeeps ==
    ASSUME IInv, TInv', NEW o \in Origins, LoseLink(o)
    PROVE  IInv'
<1>1. /\ CloseLink(o) /\ ResetSrcMgrResStatus(o)
      /\ lost' = lost \cup Pending(o)
             \cup {r \in Ids(posted[o]) : o \in Resetting /\ KindOf(r) \in Preparing}
      /\ UNCHANGED << numbered, atSink, fromSink, events >>
      /\ UNCHANGED << requests, posted, answers, done >>
  BY DEF LoseLink
<1>2. /\ \A i \in Origins : RisingIds(toRelay'[i])
      /\ Lines(toOrigin') /\ SentHome(toRelay') /\ AnswerHome(toOrigin') /\ Links'
      /\ \A x \in Way'[1] : x \in Way[1]
      /\ \A x \in Way[1] : x \in Way'[1] \/ OriginOf(x) = o
      /\ \A x \in Way'[5] : x \in Way[5] /\ OriginOf(x) # o
      /\ \A x \in Way[5] : x \in Way'[5] \/ OriginOf(x) = o
  BY <1>1, LinkCloses
<1>3. \A n \in 1 .. 5 : \A x \in Way[n] : OriginOf(x) = o => x \in lost'
  BY <1>1, OnWayIsPending
<1>4. lost \subseteq lost' /\ lost' \subseteq DOMAIN requests
  <2>1. Ids(posted[o]) \subseteq DOMAIN requests
    BY IdsAreNamed DEF IInv, Homes, AnswerHome, Known
  <2> QED
    BY <1>1, <2>1 DEF IInv, Homes, Pending
<1>5. Homes'
  BY <1>1, <1>2, <1>4, StillHomes DEF IInv, Homes
<1>6. Numbers'
  BY <1>1, <1>3, <1>4, LinkClosesNumbered
<1>7. /\ Way'[2] = Way[2] /\ Way'[3] = Way[3] /\ Way'[4] = Way[4] /\ Way'[6] = Way[6]
      /\ Way'[7] = Way[7]
  BY <1>1, WaySame
<1>8. \A n \in 1 .. 7 : Way'[n] \subseteq Way[n]
  BY <1>2, <1>7
<1>9. InTurnOf(Way')
  BY <1>8, Leaving DEF IInv, InTurn
<1>10. \A n \in 1 .. 6 : \A x \in Way[n] : x \in lost' \/ x \in Way'[n]
  BY <1>2, <1>3, <1>7
<1>11. \A n \in 1 .. 6 : \A x \in Way'[n] : x \in Way[n]
  BY <1>8
<1>12. waiting \in [Origins -> SUBSET Requests]
  BY Types
<1>13. \A i \in Origins : \A c \in waiting'[i] : c \in waiting[i]
  BY <1>1, <1>12 DEF ResetSrcMgrResStatus
<1>14. ASSUME NEW i \in Origins, NEW c \in waiting[i], c \notin waiting'[i], OnWay(c)
       PROVE  c \in lost'
  <2>1. i = o /\ o \in Resetting /\ KindOf(c) \in Preparing
    BY <1>1, <1>12, <1>14 DEF ResetSrcMgrResStatus
  <2>2. OriginOf(c) = o
    BY <2>1 DEF IInv, CallsKept
  <2>3. PICK n \in 1 .. 6 : c \in Way[n]
    BY <1>14 DEF OnWay
  <2>4. CASE n # 6
    BY <1>3, <2>2, <2>3, <2>4
  <2>5. CASE n = 6
    <3>1. \E p \in Origins : \E it \in Range(posted[p]) : it.req = c
      BY <2>3, <2>5, Types DEF StagesAre
    <3>2. \A p \in Origins : \A it \in Range(posted[p]) : OriginOf(it.req) = p
      BY DEF IInv, Homes, AnswerHome
    <3>3. c \in Ids(posted[o])
      BY <2>2, <3>1, <3>2, IdsAreNamed
    <3> QED
      BY <1>1, <2>1, <3>3
  <2> QED
    BY <2>4, <2>5
<1>15. \A i \in Origins : \A c \in waiting[i] : c \in waiting'[i] \/ c \in lost' \/ ~OnWay(c)
  BY <1>14
<1>16. Lines(atSink') /\ Lines(fromSink') /\ Rising(events') /\ Lines(posted')
  BY <1>1 DEF IInv, Sorted
<1> QED
  BY <1>1, <1>2, <1>4, <1>5, <1>6, <1>9, <1>10, <1>11, <1>13, <1>15, <1>16, Closing

LEMMA UnprepareReceivedKeeps ==
    ASSUME IInv, TInv', NEW o \in Origins, ReceiveRelayUnprepareResult(o)
    PROVE  IInv'
<1> DEFINE h == Head(toOrigin[o])
           r == h.req
           q == [toOrigin EXCEPT ![o] = Tail(toOrigin[o])]
<1>1. /\ toOrigin[o] # << >> /\ Joined(posted, posted', o, h) /\ CloseLink(o)
      /\ lost' = lost \cup (Pending(o) \ {r})
      /\ UNCHANGED << numbered, atSink, fromSink, events, waiting, answers, requests, done >>
  BY DEF ReceiveRelayUnprepareResult, FirstAnswer, Joined
<1>2. /\ StageJoined(Origins, posted, posted', o, h)
      /\ r \in DOMAIN requests /\ OriginOf(r) = o /\ r \in Way[5]
      /\ AnswerHome(posted')
  <2>1. Popped(toOrigin, q, o)
    BY <1>1 DEF Popped
  <2> QED
    BY <1>1, <2>1, FirstAnswered
<1>3. /\ \A x \in Way'[6] : x \in Way[6] \/ x = r
      /\ \A x \in Way[6] : x \in Way'[6]
      /\ r \in Way'[6] /\ Lines(posted')
  BY <1>2, WayNames DEF StageJoined
<1> HIDE DEF h, q
<1>4. /\ \A i \in Origins : RisingIds(toRelay'[i])
      /\ Lines(toOrigin') /\ SentHome(toRelay') /\ AnswerHome(toOrigin') /\ Links'
      /\ \A x \in Way'[1] : x \in Way[1]
      /\ \A x \in Way[1] : x \in Way'[1] \/ OriginOf(x) = o
      /\ \A x \in Way'[5] : x \in Way[5] /\ OriginOf(x) # o
      /\ \A x \in Way[5] : x \in Way'[5] \/ OriginOf(x) = o
  BY <1>1, LinkCloses
<1>5. \A n \in 1 .. 5 : \A x \in Way[n] : OriginOf(x) = o => x \in lost' \/ x = r
  BY <1>1, OnWayIsPending
<1>6. \A n \in 1 .. 7 : n # 5 => r \notin Way[n]
  <2>1. TypeOK /\ InTurn /\ 5 \in 1 .. 7
    BY DEF IInv, TInv
  <2> QED
    BY <1>2, <2>1, OneStage
<1>7. lost \subseteq lost' /\ lost' \subseteq DOMAIN requests
  BY <1>1 DEF IInv, Homes, Pending
<1>8. Homes'
  BY <1>1, <1>2, <1>4, <1>7, StillHomes DEF IInv, Homes
<1>9. Numbers'
  <2>1. \A n \in 2 .. 4 : \A x \in Way[n] : OriginOf(x) = o => x \in lost'
    BY <1>5, <1>6
  <2> QED
    BY <1>1, <1>7, <2>1, LinkClosesNumbered
<1>10. Way'[2] = Way[2] /\ Way'[3] = Way[3] /\ Way'[4] = Way[4] /\ Way'[7] = Way[7]
  BY <1>1, WaySame
<1>11. \A n \in 1 .. 7 : \A x \in Way'[n] : x \in Way[n] \/ (n = 6 /\ x = r)
  BY <1>3, <1>4, <1>10
<1>12. InTurnOf(Way')
  <2>1. \A x \in Way'[5] : Alike(x, r) => r < x
    BY <1>2, <1>4 DEF Alike
  <2>2. \A n \in 1 .. 7 : 5 < n /\ n < 6 => \A x \in Way[n] : ~Alike(x, r)
    OBVIOUS
  <2>3. 5 \in 1 .. 7 /\ 6 \in 1 .. 7 /\ 5 < 6 /\ InTurnOf(Way)
    BY DEF IInv, InTurn
  <2> QED
    BY <1>2, <1>11, <2>1, <2>2, <2>3, Passing
<1>13. \A n \in 1 .. 6 : \A x \in Way[n] : x \in lost' \/ x \in Way'[n] \/ x \in Way'[6]
  BY <1>3, <1>4, <1>5, <1>10
<1>14. \A n \in 1 .. 6 : \A x \in Way[n] : x \in lost' \/ \E m \in 1 .. 6 : x \in Way'[m]
  BY <1>13
<1>15. \A n \in 1 .. 6 : \A x \in Way'[n] : \E m \in 1 .. 6 : x \in Way[m]
  BY <1>2, <1>11
<1>16. Lines(atSink') /\ Lines(fromSink') /\ Rising(events')
  BY <1>1 DEF IInv, Sorted
<1> QED
  BY <1>1, <1>3, <1>4, <1>7, <1>8, <1>9, <1>12, <1>14, <1>15, <1>16, Closing

LEMMA WayKnown ==
    ASSUME IInv
    PROVE  \A n \in 1 .. 7 : Way[n] \subseteq DOMAIN requests
<1>1. StagesAre
  BY Types
<1>2. /\ Way[1] \subseteq DOMAIN requests /\ Way[2] \subseteq DOMAIN requests
      /\ Way[3] \subseteq DOMAIN requests /\ Way[4] \subseteq DOMAIN requests
  BY <1>1 DEF StagesAre, IInv, Homes, SentHome, SinkHome, ReplyHome, EventHome, Known
<1>3. /\ Way[5] \subseteq DOMAIN requests /\ Way[6] \subseteq DOMAIN requests
      /\ Way[7] \subseteq DOMAIN requests
  BY <1>1 DEF StagesAre, IInv, Homes, AnswerHome, Known
<1> QED
  BY <1>2, <1>3

\* An answer leaves the event handler of its origin.
LEMMA FirstPosted ==
    ASSUME IInv, NEW o \in Origins, Popped(posted, posted', o)
    PROVE  LET h == Head(posted[o])
           IN  /\ h \in Result /\ h.req \in DOMAIN requests /\ OriginOf(h.req) = o /\ Truthful(h)
               /\ h.req \in Way[6] /\ Lines(posted') /\ AnswerHome(posted')
               /\ \A x \in Way'[6] : x \in Way[6] /\ (Alike(x, h.req) => h.req < x)
               /\ \A x \in Way[6] : x \in Way'[6] \/ x = h.req
<1> DEFINE h == Head(posted[o])
<1>1. posted \in [Origins -> Seq(Result)]
  BY Types
<1>2. h \in Result /\ AfterPop(Origins, posted, posted', o)
  BY <1>1, TailAt
<1>3. \A i \in Origins : \A x \in Range(posted[i]) : Known(x.req) /\ OriginOf(x.req) = i /\ Truthful(x)
  BY DEF IInv, Homes, AnswerHome
<1>4. h \in Range(posted[o]) /\ \A i \in Origins : \A x \in Range(posted'[i]) : x \in Range(posted[i])
  BY <1>2 DEF AfterPop
<1>5. StagePopped(Origins, posted, posted', o)
  <2>1. \A i \in Origins : \A x \in Range(posted[i]) : Alike(x.req, h.req) => i = o
    BY <1>3, <1>4 DEF Alike
  <2>2. Lines(posted)
    BY DEF IInv, Sorted
  <2> QED
    BY <1>1, <2>1, <2>2, StagePop
<1>6. AnswerHome(posted')
  BY <1>3, <1>4 DEF AnswerHome
<1> QED
  BY <1>2, <1>3, <1>4, <1>5, <1>6, WayNames DEF StagePopped, Known

\* The callback that is called is the one of the request, or is displaced.
LEMMA FirstCallback ==
    ASSUME IInv, NEW o \in Origins, posted[o] # << >>, Popped(posted, posted', o)
    PROVE  LET r     == Head(posted[o]).req
               alike == {c \in waiting[o] : Alike(c, r)}
           IN  /\ ~Displaced(r) => r \in alike
               /\ \A c \in alike : (\A d \in alike : c <= d) => c = r \/ (Displaced(c) /\ Displaced(r))
<1> DEFINE r == Head(posted[o]).req
           alike == {c \in waiting[o] : Alike(c, r)}
<1>1. /\ r \in DOMAIN requests /\ OriginOf(r) = o /\ r \in Way[6]
      /\ \A x \in Way'[6] : x \in Way[6] /\ (Alike(x, r) => r < x)
      /\ \A x \in Way[6] : x \in Way'[6] \/ x = r
  BY FirstPosted
<1> HIDE DEF r
<1>2. \A x \in DOMAIN requests : x \in Nat
  BY Types
<1>3. ~Displaced(r) => r \in alike
  <2>1. OnWay(r) /\ Alike(r, r)
    BY <1>1 DEF OnWay, Alike
  <2> QED
    BY <1>1, <2>1 DEF IInv, CallsKept
<1>4. ASSUME NEW c \in alike, \A d \in alike : c <= d
      PROVE  c = r \/ (Displaced(c) /\ Displaced(r))
  <2>1. /\ c \in DOMAIN requests /\ OriginOf(c) = o /\ Alike(c, r) /\ Alike(r, c)
        /\ c \in Nat /\ r \in Nat
    BY <1>1, <1>2 DEF IInv, CallsKept, Known, Alike
  \* No earlier one is on its way any more ...
  <2>2. CASE c < r
    <3>1. ~OnWay(c)
      <4>1. SUFFICES ASSUME NEW n \in 1 .. 6, c \in Way[n] PROVE FALSE
        BY DEF OnWay
      <4>2. CASE n = 6
        BY <1>1, <2>1, <2>2, <4>1, <4>2
      <4>3. CASE n # 6
        <5>1. n \in 1 .. 7 /\ 6 \in 1 .. 7 /\ n < 6
          BY <4>3
        <5>2. r < c
          BY <1>1, <2>1, <4>1, <5>1 DEF IInv, InTurn, InTurnOf
        <5> QED
          BY <2>1, <2>2, <5>2
      <4> QED
        BY <4>2, <4>3
    <3>2. Displaced(c)
      BY <2>1, <3>1 DEF IInv, CallsKept
    <3>3. PICK q \in lost : q <= c /\ Alike(q, c)
      BY <3>2 DEF Displaced
    <3>4. q \in Nat /\ Alike(q, r)
      BY <1>2, <2>1, <3>3 DEF IInv, Homes, Alike
    <3>5. q <= r
      BY <2>1, <2>2, <3>3, <3>4
    <3> QED
      BY <1>1, <3>2, <3>4, <3>5 DEF Displaced
  \* ... and a later one is called only if the callback of this one is missing.
  <2>3. CASE r < c
    <3>1. r \notin alike
      BY <1>4, <2>1, <2>3
    <3>2. Displaced(r)
      BY <1>3, <3>1
    <3>3. PICK q \in lost : q <= r /\ Alike(q, r)
      BY <3>2 DEF Displaced
    <3>4. q \in Nat /\ Alike(q, c)
      BY <1>2, <2>1, <3>3 DEF IInv, Homes, Alike
    <3>5. q <= c
      BY <2>1, <2>3, <3>3, <3>4
    <3> QED
      BY <2>1, <3>2, <3>4, <3>5 DEF Displaced
  <2> QED
    BY <2>1, <2>2, <2>3
<1> QED
  BY <1>3, <1>4 DEF r

LEMMA CalledBackKeeps ==
    ASSUME IInv, TInv', NEW o \in Origins, CalledBack(o)
    PROVE  IInv'
<1> DEFINE h == Head(posted[o])
           r == h.req
           alike == {c \in waiting[o] : Alike(c, r)}
<1> USE DEF sessions, queues, history
<1>1. /\ posted[o] # << >> /\ Popped(posted, posted', o)
      /\ \/ alike = {} /\ UNCHANGED << waiting, answers >>
         \/ \E c \in alike :
                /\ \A d \in alike : c <= d
                /\ waiting' = [waiting EXCEPT ![o] = waiting[o] \ {c}]
                /\ answers' = [answers EXCEPT ![o] = Append(answers[o],
                       [req |-> r, caller |-> c, result |-> h.result])]
      /\ UNCHANGED << link, numbered, requests, done, lost >>
      /\ UNCHANGED << toRelay, atSink, fromSink, events, toOrigin >>
  BY DEF CalledBack, RunCallback, Popped
<1>2. /\ h \in Result /\ r \in DOMAIN requests /\ OriginOf(r) = o /\ Truthful(h)
      /\ r \in Way[6] /\ Lines(posted') /\ AnswerHome(posted')
      /\ \A x \in Way'[6] : x \in Way[6] /\ (Alike(x, r) => r < x)
      /\ \A x \in Way[6] : x \in Way'[6] \/ x = r
  BY <1>1, FirstPosted
<1>3. /\ ~Displaced(r) => r \in alike
      /\ \A c \in alike : (\A d \in alike : c <= d) => c = r \/ (Displaced(c) /\ Displaced(r))
  BY <1>1, FirstCallback
<1>4. /\ waiting \in [Origins -> SUBSET Requests] /\ answers \in [Origins -> Seq(Called)]
      /\ \A x \in DOMAIN requests : x \in Nat /\ x \in Requests
  BY Types
<1>5. /\ Way'[1] = Way[1] /\ Way'[2] = Way[2] /\ Way'[3] = Way[3] /\ Way'[4] = Way[4]
      /\ Way'[5] = Way[5]
  BY <1>1, WaySame
<1> HIDE DEF h, alike
<1>6. \A x : OnWay(x)' <=> OnWay(x) /\ x # r
  <2>1. r \notin Way'[6]
    BY <1>2, <1>4 DEF Alike
  <2>2. \A n \in 1 .. 7 : n # 6 => r \notin Way[n]
    <3>1. TypeOK /\ InTurn /\ 6 \in 1 .. 7
      BY DEF IInv, TInv
    <3> QED
      BY <1>2, <3>1, OneStage
  <2>3. \A x : OnWay(x)' => OnWay(x) /\ x # r
    <3>1. ASSUME NEW x, NEW n \in 1 .. 6, x \in Way'[n] PROVE x \in Way[n] /\ x # r
      BY <1>2, <1>5, <2>1, <2>2, <3>1
    <3> QED
      BY <3>1 DEF OnWay
  <2>4. \A x : OnWay(x) /\ x # r => OnWay(x)'
    <3>1. ASSUME NEW x, NEW n \in 1 .. 6, x \in Way[n], x # r PROVE x \in Way'[n]
      BY <1>2, <1>5, <3>1
    <3> QED
      BY <3>1 DEF OnWay
  <2> QED
    BY <2>3, <2>4
<1>7. /\ \A x, y : Alike(x, y)' <=> Alike(x, y)
      /\ \A x : Known(x)' <=> Known(x)
      /\ \A x : OriginOf(x)' = OriginOf(x)
  BY <1>1, SameRequests
<1>8. \A x : Displaced(x)' <=> Displaced(x)
  BY <1>1, <1>7 DEF Displaced
<1>9. Numbers' /\ Links'
  <2>1. Numbers'
    BY <1>1, StillNumbered DEF IInv, Numbers
  <2> QED
    BY <1>1, <2>1 DEF IInv, Links
<1>10. /\ \A i \in Origins : RisingIds(toRelay'[i])
       /\ Lines(atSink') /\ Lines(fromSink') /\ Rising(events') /\ Lines(toOrigin')
  BY <1>1 DEF IInv, Sorted
<1>11. CASE alike = {} /\ UNCHANGED << waiting, answers >>
  <2>1. Way'[7] = Way[7] /\ Lines(answers')
    BY <1>11, WaySame DEF IInv, Sorted
  <2>2. \A n \in 1 .. 7 : Way'[n] \subseteq Way[n]
    BY <1>2, <1>5, <2>1
  <2>3. InTurn' /\ Sorted'
    BY <1>1, <1>2, <1>10, <2>1, <2>2, Leaving, StillInTurn, StillSorted DEF IInv, InTurn
  <2>4. Homes'
    BY <1>1, <1>2, <1>11, StillHomes DEF IInv, Homes
  <2>5. CallsKept'
    <3>1. Displaced(r)
      BY <1>3, <1>11
    <3>2. \A x \in DOMAIN requests' : ~Displaced(x)' => (x \in waiting'[OriginOf(x)'] <=> OnWay(x)')
      BY <1>1, <1>6, <1>7, <1>8, <1>11, <3>1 DEF IInv, CallsKept
    <3>3. /\ \A i \in Origins : \A c \in waiting'[i] : Known(c)' /\ OriginOf(c)' = i
          /\ \A i \in Origins : \A a \in Range(answers'[i]) : a.caller = a.req \/ Displaced(a.caller)'
      BY <1>7, <1>8, <1>11 DEF IInv, CallsKept
    <3> QED
      BY <3>2, <3>3 DEF CallsKept
  <2> QED
    BY <1>9, <2>3, <2>4, <2>5 DEF IInv
<1>12. ASSUME NEW c \in alike, \A d \in alike : c <= d,
              waiting' = [waiting EXCEPT ![o] = waiting[o] \ {c}],
              answers' = [answers EXCEPT ![o] = Append(answers[o],
                  [req |-> r, caller |-> c, result |-> h.result])]
       PROVE  IInv'
  <2> DEFINE e == [req |-> r, caller |-> c, result |-> h.result]
  <2>1. c \in waiting[o] /\ Alike(c, r) /\ c \in Requests /\ Known(c) /\ OriginOf(c) = o
    BY <1>4 DEF alike, IInv, CallsKept
  <2>2. c = r \/ (Displaced(c) /\ Displaced(r))
    BY <1>3, <1>12
  <2>3. e \in Called /\ e.req = r /\ e.caller = c /\ e.result = h.result
    BY <1>2, <1>4, <2>1 DEF Called, Result
  <2>4. Joined(answers, answers', o, e)
    BY <1>12 DEF Joined
  <2> HIDE DEF e
  <2>5. StageJoined(Origins, answers, answers', o, e)
    <3>1. 6 \in 1 .. 7 /\ 7 \in 1 .. 7 /\ 6 < 7
      OBVIOUS
    <3>2. \A x \in Within(answers) : Alike(x, e.req) => x < e.req
      BY <1>2, <2>3, <3>1, Behind, WayNames DEF IInv
    <3>3. Lines(answers)
      BY DEF IInv, Sorted
    <3> QED
      BY <1>4, <2>3, <2>4, <3>2, <3>3, StageJoin
  <2>6. /\ Lines(answers') /\ \A x \in Way'[7] : x \in Way[7] \/ x = r
        /\ \A i \in Origins : \A x \in Range(answers'[i]) : x \in Range(answers[i]) \/ (i = o /\ x = e)
    BY <2>3, <2>5, WayNames DEF StageJoined, AfterJoin
  <2>7. AnswerHome(answers')
    BY <1>2, <2>3, <2>6 DEF IInv, Homes, AnswerHome, Known, Truthful
  <2>8. Homes'
    BY <1>1, <1>2, <2>7, StillHomes DEF IInv, Homes
  <2>9. InTurn' /\ Sorted'
    <3>1. \A n \in 1 .. 7 : \A x \in Way'[n] : x \in Way[n] \/ (n = 7 /\ x = r)
      BY <1>2, <1>5, <2>6
    <3>2. \A n \in 1 .. 7 : 6 < n /\ n < 7 => \A x \in Way[n] : ~Alike(x, r)
      OBVIOUS
    <3>3. 6 \in 1 .. 7 /\ 7 \in 1 .. 7 /\ 6 < 7 /\ InTurnOf(Way)
      BY DEF IInv, InTurn
    <3>4. InTurnOf(Way')
      BY <1>2, <3>1, <3>2, <3>3, Passing
    <3> QED
      BY <1>1, <1>2, <1>10, <2>6, <3>4, StillInTurn, StillSorted
  <2>10. CallsKept'
    <3>1. \A i \in Origins : \A d \in waiting'[i] : d \in waiting[i] /\ (i = o => d # c)
      BY <1>4, <1>12
    <3>2. \A i \in Origins : \A d \in waiting[i] : d \in waiting'[i] \/ (i = o /\ d = c)
      BY <1>4, <1>12
    <3>3. ASSUME NEW x \in DOMAIN requests, ~Displaced(x)
          PROVE  x \in waiting'[OriginOf(x)] <=> OnWay(x)'
      <4>1. (x \in waiting[OriginOf(x)] <=> OnWay(x)) /\ OriginOf(x) \in Origins
        BY <3>3, Types DEF IInv, CallsKept
      <4>2. CASE x = r
        BY <1>2, <1>6, <2>2, <3>1, <3>3, <4>1, <4>2
      <4>3. CASE x # r
        <5>1. x # c
          BY <2>2, <3>3, <4>3
        <5> QED
          BY <1>6, <3>1, <3>2, <4>1, <4>3, <5>1
      <4> QED
        BY <4>2, <4>3
    <3>4. \A x \in DOMAIN requests' : ~Displaced(x)' => (x \in waiting'[OriginOf(x)'] <=> OnWay(x)')
      BY <1>1, <1>7, <1>8, <3>3
    <3>5. \A i \in Origins : \A d \in waiting'[i] : Known(d)' /\ OriginOf(d)' = i
      BY <1>7, <3>1 DEF IInv, CallsKept
    <3>6. \A i \in Origins : \A a \in Range(answers'[i]) : a.caller = a.req \/ Displaced(a.caller)'
      BY <1>8, <2>2, <2>3, <2>6 DEF IInv, CallsKept
    <3> QED
      BY <3>4, <3>5, <3>6 DEF CallsKept
  <2> QED
    BY <1>9, <2>8, <2>9, <2>10 DEF IInv
<1> QED
  BY <1>1, <1>11, <1>12 DEF alike

\* A new request is later than all others, and changes nothing of them.
LEMMA NewRequest ==
    ASSUME IInv, NEW q \in Request, requests' = Append(requests, q), NEW r, r = Len(requests) + 1
    PROVE  /\ DOMAIN requests' = DOMAIN requests \cup {r} /\ r \notin DOMAIN requests
           /\ OriginOf(r)' = q.origin /\ SinkOf(r)' = q.sink /\ KindOf(r)' = q.kind
           /\ \A x \in DOMAIN requests :
                  /\ x < r /\ Known(x)'
                  /\ OriginOf(x)' = OriginOf(x) /\ SinkOf(x)' = SinkOf(x) /\ KindOf(x)' = KindOf(x)
           /\ \A x, y \in DOMAIN requests : Alike(x, y)' <=> Alike(x, y)
<1>1. requests \in Seq(Request) /\ Len(requests) \in Nat /\ DOMAIN requests = 1 .. Len(requests)
  BY RequestsType DEF IInv, TInv, TypeOK
<1>2. /\ requests' \in Seq(Request) /\ Len(requests') = Len(requests) + 1
      /\ \A i \in 1 .. Len(requests) : requests'[i] = requests[i]
      /\ requests'[r] = q
  BY <1>1, AppendProperties
<1>3. DOMAIN requests' = 1 .. Len(requests) + 1
  BY <1>2, LenProperties
<1>4. DOMAIN requests' = DOMAIN requests \cup {r} /\ r \notin DOMAIN requests
      /\ \A x \in DOMAIN requests : x < r /\ requests'[x] = requests[x]
  BY <1>1, <1>2, <1>3
<1>5. OriginOf(r)' = q.origin /\ SinkOf(r)' = q.sink /\ KindOf(r)' = q.kind
  BY <1>2 DEF OriginOf, SinkOf, KindOf
<1>6. \A x \in DOMAIN requests :
          OriginOf(x)' = OriginOf(x) /\ SinkOf(x)' = SinkOf(x) /\ KindOf(x)' = KindOf(x)
  BY <1>4 DEF OriginOf, SinkOf, KindOf
<1>7. \A x, y \in DOMAIN requests : Alike(x, y)' <=> Alike(x, y)
  BY <1>6 DEF Alike
<1> QED
  BY <1>4, <1>5, <1>6, <1>7 DEF Known

LEMMA AskedKeeps ==
    ASSUME IInv, TInv', NEW o \in Origins, NEW k \in Sinks, NEW kind \in Kinds, Asked(o, k, kind)
    PROVE  IInv'
<1> DEFINE q == [origin |-> o, sink |-> k, kind |-> kind]
<1>0. PICK r : r = Len(requests) + 1
  OBVIOUS
<1>1. /\ requests' = Append(requests, q)
      /\ toRelay' = [toRelay EXCEPT ![o] = Append(toRelay[o], r)]
      /\ \/ waiting' = waiting /\ lost' = lost \cup {r}
         \/ waiting' = [waiting EXCEPT ![o] = waiting[o] \cup {r}] /\ lost' = lost
      /\ UNCHANGED << atSink, fromSink, events, toOrigin, posted, answers, done >>
  BY <1>0 DEF Asked, SendToRelay, EnterCallback
<1>2. q \in Request /\ q.origin = o
  BY DEF Request
<1>3. /\ DOMAIN requests' = DOMAIN requests \cup {r} /\ r \notin DOMAIN requests
      /\ OriginOf(r)' = o /\ Known(r)'
      /\ \A x \in DOMAIN requests :
             /\ x < r /\ Known(x)'
             /\ OriginOf(x)' = OriginOf(x) /\ SinkOf(x)' = SinkOf(x) /\ KindOf(x)' = KindOf(x)
      /\ \A x, y \in DOMAIN requests : Alike(x, y)' <=> Alike(x, y)
  BY <1>0, <1>1, <1>2, NewRequest DEF Known
<1>4. /\ toRelay \in [Origins -> Seq(Requests)] /\ link \in [Origins -> Nat] /\ numbered \in Nat
      /\ waiting \in [Origins -> SUBSET Requests] /\ StagesAre /\ StagesAre'
      /\ \A x \in DOMAIN requests : x \in Nat /\ OriginOf(x) \in Origins
  BY Types, WayPartsNext DEF TInv
<1>5. r \in Nat /\ r \in Requests
  BY <1>0, <1>1, RequestsType DEF Asked, SendToRelay, Requests, IInv, TInv
<1> HIDE DEF q
<1>6. \A n \in 1 .. 7 : Way[n] \subseteq DOMAIN requests
  BY WayKnown
<1>7. /\ Way'[2] = Way[2] /\ Way'[3] = Way[3] /\ Way'[4] = Way[4] /\ Way'[5] = Way[5]
      /\ Way'[6] = Way[6] /\ Way'[7] = Way[7]
  BY <1>1, WaySame
<1>8. /\ \A i \in Origins : \A x \in Range(toRelay'[i]) : x \in Range(toRelay[i]) \/ (i = o /\ x = r)
      /\ \A i \in Origins : \A x \in Range(toRelay[i]) : x \in Range(toRelay'[i])
      /\ r \in Range(toRelay'[o])
  <2>1. AfterJoin(Origins, toRelay, toRelay', o, r)
    <3>1. Joined(toRelay, toRelay', o, r)
      BY <1>1 DEF Joined
    <3> QED
      BY <1>4, <1>5, <3>1, AppendAt
  <2> QED
    BY <2>1 DEF AfterJoin
<1>9. Way'[1] = Way[1] \cup {r}
  <2>1. /\ \A x : x \in Way[1] <=> \E i \in Origins : x \in Range(toRelay[i])
        /\ \A x : x \in Way'[1] <=> \E i \in Origins : x \in Range(toRelay'[i])
    BY <1>4 DEF StagesAre
  <2> QED
    BY <1>8, <2>1
<1>10. InTurn'
  <2>1. ASSUME NEW a \in 1 .. 7, NEW b \in 1 .. 7, a < b, NEW x \in Way'[a], NEW y \in Way'[b], Alike(x, y)'
        PROVE  y < x
    <3>1. y \in Way[b] /\ y \in DOMAIN requests
      BY <1>6, <1>7, <2>1
    <3>2. CASE x = r
      BY <1>3, <3>1, <3>2
    <3>3. CASE x # r
      <4>1. x \in Way[a] /\ x \in DOMAIN requests
        BY <1>6, <1>7, <1>9, <2>1, <3>3
      <4> QED
        BY <1>3, <2>1, <3>1, <4>1 DEF IInv, InTurn, InTurnOf
    <3> QED
      BY <3>2, <3>3
  <2> QED
    BY <2>1 DEF InTurn, InTurnOf
<1>11. Links' /\ (\A it : OnSession(it) /\ Known(it.req) /\ it.session \in Nat => OnSession(it)')
  <2>1. CASE link[o] # None /\ UNCHANGED << link, numbered >>
    <3>1. \A i \in Origins : toRelay'[i] # << >> => i = o \/ toRelay[i] # << >>
      BY <1>1, <1>4
    <3>2. Links'
      BY <2>1, <3>1 DEF IInv, Links
    <3>3. \A it : OnSession(it) /\ Known(it.req) => OnSession(it)'
      BY <1>1, <1>3, <2>1 DEF OnSession, Known
    <3> QED
      BY <3>2, <3>3
  <2>2. CASE link[o] = None /\ link' = [link EXCEPT ![o] = numbered + 1] /\ numbered' = numbered + 1
    <3>1. \A i \in Origins : toRelay'[i] # << >> => i = o \/ toRelay[i] # << >>
      BY <1>1, <1>4
    <3>2. link'[o] = numbered + 1 /\ numbered + 1 # None /\ \A i \in Origins : i # o => link'[i] = link[i]
      BY <1>4, <2>2 DEF None
    <3>3. \A i \in Origins : link[i] <= numbered /\ link[i] \in Nat
      BY <1>4 DEF IInv, Links
    <3>4. \A i \in Origins : link'[i] <= numbered' /\ (i # o => link'[i] # link'[o])
      BY <1>4, <2>2, <3>2, <3>3
    <3>5. Links'
      BY <3>1, <3>2, <3>4 DEF IInv, Links
    <3>6. ASSUME NEW it, OnSession(it), Known(it.req), it.session \in Nat PROVE OnSession(it)'
      <4>1. it.session <= numbered /\ OriginOf(it.req)' = OriginOf(it.req) /\ OriginOf(it.req) \in Origins
        BY <1>3, <1>4, <3>6 DEF OnSession, Known
      <4>2. it.req \in lost \/ (it.req \notin lost /\ OriginOf(it.req) # o
                                /\ link[OriginOf(it.req)] = it.session /\ it.session # None)
        BY <2>2, <3>6 DEF OnSession
      <4>3. it.req \in lost => it.req \in lost'
        BY <1>1
      <4>4. it.req \notin lost' => link'[OriginOf(it.req)'] = it.session /\ it.session # None
        BY <3>2, <4>1, <4>2, <4>3
      <4>5. it.session <= numbered'
        BY <1>4, <2>2, <3>6, <4>1
      <4>6. \A i \in Origins : link'[i] = it.session /\ it.session # None => OriginOf(it.req)' = i
        <5>1. ASSUME NEW i \in Origins, link'[i] = it.session, it.session # None PROVE OriginOf(it.req) = i
          <6>1. i # o
            BY <1>4, <3>2, <3>6, <4>1, <5>1
          <6> QED
            BY <3>2, <3>6, <5>1, <6>1 DEF OnSession
        <5> QED
          BY <4>1, <5>1
      <4> QED
        BY <4>4, <4>5, <4>6 DEF OnSession
    <3> QED
      BY <3>5, <3>6
  <2> QED
    BY <2>1, <2>2 DEF Asked, OpenToRelay, OnLink
<1>12. Numbers'
  <2>1. /\ \A i \in Sinks : \A it \in Range(atSink[i]) \cup Range(fromSink[i]) : OnSession(it) /\ Known(it.req)
        /\ \A it \in Range(events) : OnSession(it) /\ Known(it.req)
    BY DEF IInv, Numbers, Homes, SinkHome, ReplyHome, EventHome
  <2>2. /\ \A it \in Passed : it.session \in Nat
        /\ \A it \in Replied : it.session \in Nat
    BY DEF Passed, Replied
  <2>3. \A i \in Sinks : Range(atSink[i]) \subseteq Passed /\ Range(fromSink[i]) \subseteq Replied
    <3>1. \A i \in Sinks : atSink[i] \in Seq(Passed) /\ fromSink[i] \in Seq(Replied)
      BY Types
    <3> QED
      BY <3>1, RangeOf
  <2>4. Range(events) \subseteq Replied
    BY Types, RangeOf
  <2> QED
    BY <1>1, <1>11, <2>1, <2>2, <2>3, <2>4 DEF Numbers
<1>13. Sorted'
  <2>1. ASSUME NEW i \in Origins PROVE RisingIds(toRelay[i])'
    <3>1. /\ \A n \in DOMAIN toRelay[i] : toRelay[i][n] \in DOMAIN requests
          /\ RisingIds(toRelay[i])
      BY DEF IInv, Homes, SentHome, Known, Range, Sorted
    <3>2. CASE i # o
      <4>1. toRelay'[i] = toRelay[i]
        BY <1>1, <1>4, <3>2
      <4> QED
        BY <1>3, <3>1, <4>1 DEF RisingIds
    <3>3. CASE i = o
      <4>0. PICK s, t : s = toRelay[o] /\ t = toRelay'[o]
        OBVIOUS
      <4>1. s \in Seq(Requests) /\ t = Append(s, r)
        BY <1>1, <1>4, <4>0
      <4>2. /\ DOMAIN s = 1 .. Len(s) /\ Len(s) \in Nat /\ \A n \in 1 .. Len(s) : t[n] = s[n]
            /\ t[Len(s) + 1] = r /\ t \in Seq(Requests) /\ Len(t) = Len(s) + 1
        BY <1>5, <4>1, AppendProperties, LenProperties
      <4>3. DOMAIN t = 1 .. Len(s) + 1
        BY <4>2, LenProperties
      <4>4. \A n \in DOMAIN s : s[n] \in DOMAIN requests
        BY <3>1, <3>3, <4>0
      <4>5. ASSUME NEW m \in DOMAIN t, NEW n \in DOMAIN t, m < n, Alike(t[m], t[n])'
            PROVE  t[m] < t[n]
        <5>1. m \in DOMAIN s /\ t[m] = s[m] /\ s[m] \in DOMAIN requests
          BY <4>2, <4>3, <4>4, <4>5
        <5>2. CASE n \in DOMAIN s
          <6>1. t[n] = s[n] /\ s[n] \in DOMAIN requests
            BY <4>2, <4>4, <5>2
          <6>2. Alike(s[m], s[n])
            BY <1>3, <4>5, <5>1, <6>1
          <6>3. RisingIds(s)
            BY <3>1, <3>3, <4>0
          <6> QED
            BY <4>5, <5>1, <5>2, <6>1, <6>2, <6>3 DEF RisingIds
        <5>3. CASE n \notin DOMAIN s
          <6>1. t[n] = r
            BY <4>2, <4>3, <5>3
          <6> QED
            BY <1>3, <5>1, <6>1
        <5> QED
          BY <5>2, <5>3
      <4>6. \A m, n \in DOMAIN t : m < n /\ Alike(t[m], t[n])' => t[m] < t[n]
        BY <4>5
      <4> QED
        BY <3>3, <4>0, <4>6 DEF RisingIds
    <3> QED
      BY <3>2, <3>3
  <2>2. Lines(atSink)' /\ Lines(fromSink)'
    <3>1. /\ \A i \in DOMAIN atSink : \A n \in DOMAIN atSink[i] : atSink[i][n].req \in DOMAIN requests
          /\ \A i \in DOMAIN fromSink : \A n \in DOMAIN fromSink[i] : fromSink[i][n].req \in DOMAIN requests
      BY Types DEF IInv, Homes, SinkHome, ReplyHome, Known, Range
    <3> QED
      BY <1>1, <1>3, <3>1 DEF IInv, Sorted, Lines, Rising
  <2>3. Lines(toOrigin)' /\ Lines(posted)' /\ Lines(answers)'
    <3>1. /\ \A i \in DOMAIN toOrigin : \A n \in DOMAIN toOrigin[i] : toOrigin[i][n].req \in DOMAIN requests
          /\ \A i \in DOMAIN posted : \A n \in DOMAIN posted[i] : posted[i][n].req \in DOMAIN requests
          /\ \A i \in DOMAIN answers : \A n \in DOMAIN answers[i] : answers[i][n].req \in DOMAIN requests
      BY Types DEF IInv, Homes, AnswerHome, Known, Range
    <3> QED
      BY <1>1, <1>3, <3>1 DEF IInv, Sorted, Lines, Rising
  <2>4. Rising(events)'
    <3>1. \A n \in DOMAIN events : events[n].req \in DOMAIN requests
      BY DEF IInv, Homes, EventHome, Known, Range
    <3> QED
      BY <1>1, <1>3, <3>1 DEF IInv, Sorted, Rising
  <2> QED
    BY <2>1, <2>2, <2>3, <2>4 DEF Sorted
<1>14. Homes'
  <2>1. r \notin done /\ done \subseteq DOMAIN requests /\ lost \subseteq DOMAIN requests
    BY <1>3 DEF IInv, Homes
  <2>2. SentHome(toRelay)'
    <3>1. \A i \in Origins : \A x \in Range(toRelay[i]) : x \in DOMAIN requests /\ OriginOf(x) = i /\ x \notin done
      BY DEF IInv, Homes, SentHome, Known
    <3> QED
      BY <1>1, <1>3, <1>8, <2>1, <3>1 DEF SentHome
  <2>3. SinkHome(atSink)' /\ ReplyHome(fromSink)' /\ EventHome(events)'
    BY <1>1, <1>3 DEF IInv, Homes, SinkHome, ReplyHome, EventHome, Known, Truthful
  <2>4. AnswerHome(toOrigin)' /\ AnswerHome(posted)' /\ AnswerHome(answers)'
    BY <1>1, <1>3 DEF IInv, Homes, AnswerHome, Known, Truthful
  <2>5. done' \subseteq DOMAIN requests' /\ lost' \subseteq DOMAIN requests'
    BY <1>1, <1>3, <2>1
  <2> QED
    BY <2>2, <2>3, <2>4, <2>5 DEF Homes
<1>15. \A x \in DOMAIN requests : Displaced(x)' <=> Displaced(x)
  <2>1. lost \subseteq DOMAIN requests /\ (lost' = lost \/ lost' = lost \cup {r})
    BY <1>1 DEF IInv, Homes
  <2>2. \A x \in DOMAIN requests : ~(r <= x)
    BY <1>3, <1>4, <1>5
  <2> QED
    BY <1>3, <2>1, <2>2 DEF Displaced
<1>16. \A x : OnWay(x)' <=> OnWay(x) \/ x = r
  BY <1>7, <1>9 DEF OnWay
<1>17. CallsKept'
  <2>1. \A i \in Origins : \A c \in waiting[i] : c \in DOMAIN requests /\ OriginOf(c) = i
    BY DEF IInv, CallsKept, Known
  <2>2. \A i \in Origins : \A c \in waiting'[i] : c \in waiting[i] \/ (i = o /\ c = r)
    BY <1>1, <1>4
  <2>3. \A i \in Origins : \A c \in waiting[i] : c \in waiting'[i]
    BY <1>1, <1>4
  <2>4. \A i \in Origins : \A c \in waiting'[i] : Known(c)' /\ OriginOf(c)' = i
    BY <1>3, <2>1, <2>2
  <2>5. ASSUME NEW x \in DOMAIN requests, ~Displaced(x)'
        PROVE  x \in waiting'[OriginOf(x)'] <=> OnWay(x)'
    <3>1. (x \in waiting[OriginOf(x)] <=> OnWay(x)) /\ OriginOf(x) \in Origins
      BY <1>4, <1>15, <2>5 DEF IInv, CallsKept
    <3>2. OriginOf(x)' = OriginOf(x) /\ x # r
      BY <1>3
    <3> QED
      BY <1>16, <2>2, <2>3, <3>1, <3>2
  <2>6. ASSUME ~Displaced(r)' PROVE r \in waiting'[OriginOf(r)'] <=> OnWay(r)'
    <3>1. r \in lost' => Displaced(r)'
      BY <1>3, <1>5 DEF Displaced, Known, Alike
    <3>2. r \in waiting'[o]
      BY <1>1, <1>4, <2>6, <3>1
    <3> QED
      BY <1>3, <1>16, <3>2
  <2>7. \A x \in DOMAIN requests' : ~Displaced(x)' => (x \in waiting'[OriginOf(x)'] <=> OnWay(x)')
    BY <1>3, <2>5, <2>6
  <2>8. \A i \in Origins : \A a \in Range(answers'[i]) : a.caller = a.req \/ Displaced(a.caller)'
    <3>1. \A i \in Origins : \A a \in Range(answers[i]) : a.caller = a.req \/ Displaced(a.caller)
      BY DEF IInv, CallsKept
    <3> QED
      BY <1>1, <1>15, <3>1 DEF Displaced
  <2> QED
    BY <2>4, <2>7, <2>8 DEF CallsKept
<1> QED
  BY <1>10, <1>11, <1>12, <1>13, <1>14, <1>17 DEF IInv

LEMMA StandsStill ==
    ASSUME IInv, TInv', UNCHANGED << link, numbered, queues, calls, requests, done, lost >>
    PROVE  IInv'
<1> USE DEF queues, calls
<1>1. Way' = Way
  BY DEF Way, Sent
<1>2. Sorted' /\ InTurn'
  <2>1. \A x, y : Alike(x, y)' <=> Alike(x, y)
    BY SameRequests
  <2> QED
    BY <1>1, <2>1 DEF IInv, Sorted, Lines, Rising, RisingIds, InTurn, InTurnOf
<1>3. Homes'
  BY StillHomes DEF IInv, Homes
<1>4. Numbers' /\ Links'
  <2>1. Numbers'
    BY StillNumbered DEF IInv, Numbers
  <2> QED
    BY <2>1 DEF IInv, Links
<1>5. CallsKept'
  <2>1. \A x : OnWay(x)' <=> OnWay(x)
    BY <1>1 DEF OnWay
  <2>2. \A x \in DOMAIN requests : OriginOf(x) \in Origins /\ x <= x
    BY Types
  <2> QED
    BY <2>1, <2>2, StillKept DEF IInv
<1> QED
  BY <1>2, <1>3, <1>4, <1>5 DEF IInv

(***************************************************************************)
(* The theorems.                                                           *)
(***************************************************************************)
LEMMA InitIInv == Init => IInv
<1> SUFFICES ASSUME Init PROVE IInv
  OBVIOUS
<1>1. TInv /\ StagesAre
  BY InitTInv, WayParts DEF TInv
<1>2. Range(<< >>) = {} /\ Rising(<< >>) /\ RisingIds(<< >>)
  BY DEF Range, Rising, RisingIds
<1>3. /\ \A o \in Origins : toRelay[o] = << >> /\ toOrigin[o] = << >> /\ posted[o] = << >>
                            /\ answers[o] = << >> /\ waiting[o] = {} /\ link[o] = None
      /\ \A k \in Sinks : atSink[k] = << >> /\ fromSink[k] = << >>
      /\ events = << >> /\ requests = << >> /\ done = {} /\ lost = {} /\ numbered = 0
  BY DEF Init
<1>4. Sorted
  <2>1. DOMAIN atSink = Sinks /\ DOMAIN fromSink = Sinks /\ DOMAIN toOrigin = Origins
        /\ DOMAIN posted = Origins /\ DOMAIN answers = Origins
    BY DEF Init
  <2> QED
    BY <1>2, <1>3, <2>1 DEF Sorted, Lines
<1>5. InTurn
  <2>1. /\ Way[1] = {} /\ Way[2] = {} /\ Way[3] = {} /\ Way[4] = {} /\ Way[5] = {}
        /\ Way[6] = {} /\ Way[7] = {}
    BY <1>1, <1>2, <1>3 DEF StagesAre
  <2>2. \A n \in 1 .. 7 : Way[n] = {}
    BY <2>1
  <2> QED
    BY <2>2 DEF InTurn, InTurnOf
<1>6. Links
  BY <1>3 DEF Links, None
<1>7. Homes
  BY <1>2, <1>3 DEF Homes, SentHome, SinkHome, ReplyHome, EventHome, AnswerHome
<1>8. Numbers
  BY <1>2, <1>3 DEF Numbers
<1>9. CallsKept
  <2>1. DOMAIN requests = {}
    BY <1>3
  <2> QED
    BY <1>2, <1>3, <2>1 DEF CallsKept
<1> QED
  BY <1>1, <1>4, <1>5, <1>6, <1>7, <1>8, <1>9 DEF IInv

LEMMA NextIInv == IInv /\ [Next]_vars => IInv'
<1> SUFFICES ASSUME IInv, [Next]_vars PROVE IInv'
  OBVIOUS
<1>1. TInv'
  BY NextTInv DEF IInv
<1>2. CASE UNCHANGED vars
  BY <1>1, <1>2, StandsStill DEF vars, sessions, queues, calls, history
<1>3. ASSUME NEW k \in Sinks, SinkOpens(k) PROVE IInv'
  BY <1>1, <1>3, StandsStill DEF SinkOpens, queues, calls, history
<1>4. ASSUME NEW o \in Origins, NEW r \in DOMAIN requests, PassedOn(o, r) \/ Refused(o, r) PROVE IInv'
  BY <1>1, <1>4, PassedOnKeeps, RefusedKeeps
<1>5. ASSUME NEW k \in Sinks, Returned(k) \/ NotifyResponseRelayUnprepare(k) \/ LoseSink(k) PROVE IInv'
  BY <1>1, <1>5, ReturnedKeeps, UnprepareAnsweredKeeps, LoseSinkKeeps
<1>6. ASSUME NEW o \in Origins, Received(o) \/ ReceiveRelayUnprepareResult(o) \/ CalledBack(o) \/ LoseLink(o)
      PROVE  IInv'
  BY <1>1, <1>6, ReceivedKeeps, UnprepareReceivedKeeps, CalledBackKeeps, LoseLinkKeeps
<1>7. ASSUME NEW o \in Origins, NEW k \in Sinks, NEW kind \in Kinds, Asked(o, k, kind) PROVE IInv'
  BY <1>1, <1>7, AskedKeeps
<1>8. ASSUME NEW k \in Sinks, NEW kind \in Kinds, NEW result \in BOOLEAN, Replies(k, kind, result)
      PROVE  IInv'
  BY <1>1, <1>8, RepliesKeeps
<1>9. CASE Announced
  BY <1>1, <1>9, AnnouncedKeeps
<1>10. CASE Next
  <2>1. Move
    BY <1>10, NextMoves
  <2> QED
    BY <1>3, <1>4, <1>5, <1>6, <1>7, <1>8, <1>9, <2>1, Zenon DEF Move
<1> QED
  BY <1>2, <1>10

LEMMA Inductive == Spec => []IInv
BY InitIInv, NextIInv, PTL DEF Spec

\* Every variable keeps its type, whatever order requests, replies and losses come in.
THEOREM TypeCorrect == Spec => []TypeOK
<1>1. IInv => TypeOK
  BY DEF IInv, TInv
<1> QED
  BY <1>1, Inductive, PTL

\* An answer is called at the device that asked, once, and for the caller that asked: the
\* session number that goes to the sink and back, and the order of the callback lists,
\* lead to the same request.
THEOREM AnswersFindTheirCallers == Spec => []AnswersComeHome
<1>1. IInv => AnswersComeHome
  <2> SUFFICES ASSUME IInv, NEW o \in Origins, NEW i \in DOMAIN answers[o]
               PROVE  /\ OriginOf(answers[o][i].req) = o
                      /\ \A j \in DOMAIN answers[o] : answers[o][j].req = answers[o][i].req => j = i
                      /\ answers[o][i].caller = answers[o][i].req \/ Displaced(answers[o][i].caller)
    BY DEF AnswersComeHome
  <2>1. /\ answers[o] \in Seq(Called) /\ \A j \in DOMAIN answers[o] : answers[o][j] \in Range(answers[o])
        /\ \A r \in DOMAIN requests : r \in Nat
    BY Types DEF Range
  <2>2. DOMAIN answers[o] = 1 .. Len(answers[o]) /\ Len(answers[o]) \in Nat
    BY <2>1, LenProperties
  <2>3. /\ answers[o][i].req \in DOMAIN requests /\ OriginOf(answers[o][i].req) = o
        /\ answers[o][i].caller = answers[o][i].req \/ Displaced(answers[o][i].caller)
    BY <2>1 DEF IInv, Homes, AnswerHome, CallsKept, Known
  <2>4. Rising(answers[o])
    BY Types DEF IInv, Sorted, Lines
  <2>5. ASSUME NEW j \in DOMAIN answers[o], answers[o][j].req = answers[o][i].req PROVE j = i
    <3>1. Alike(answers[o][i].req, answers[o][j].req) /\ Alike(answers[o][j].req, answers[o][i].req)
      BY <2>5 DEF Alike
    <3>2. ~(i < j) /\ ~(j < i)
      BY <2>1, <2>3, <2>4, <2>5, <3>1 DEF Rising
    <3> QED
      BY <2>2, <3>2
  <2> QED
    BY <2>3, <2>5
<1> QED
  BY <1>1, Inductive, PTL

\* A caller is told that its request succeeded when, and only when, the sink did what it asked.
THEOREM AnswersAreTrue == Spec => []AnswerIsTheSinks
<1>1. IInv => AnswerIsTheSinks
  <2> SUFFICES ASSUME IInv, NEW o \in Origins, NEW i \in DOMAIN answers[o]
               PROVE  answers[o][i].result <=> answers[o][i].req \in done
    BY DEF AnswerIsTheSinks
  <2>1. answers[o][i] \in Range(answers[o])
    BY DEF Range
  <2> QED
    BY <2>1 DEF IInv, Homes, AnswerHome, Truthful
<1> QED
  BY <1>1, Inductive, PTL

\* On the way to the sink and back, over three devices and two event handlers, a request
\* never overtakes one like it that was made before.
THEOREM NoneOvertakes == Spec => [](InTurn /\ Sorted)
<1>1. IInv => InTurn /\ Sorted
  BY DEF IInv
<1> QED
  BY <1>1, Inductive, PTL
=============================================================================
