-------------------------------- MODULE Relay --------------------------------
(***************************************************************************)
(* Requests through a third device.  An origin asks another source device, *)
(* the relay, to prepare, unprepare, start or stop a sink; the relay takes *)
(* the input, and the origin only hears how it went                        *)
(* (services/source/transport/src/distributed_input_source_transport.cpp,  *)
(* with the listener and the event handler of the source manager, and the  *)
(* relay requests of the sink's transport).                                *)
(*                                                                         *)
(* The relay keeps nothing of a request.  It passes on, to the sink, the   *)
(* number of the session that the request came on; the sink returns the    *)
(* number, and the relay answers on that session.  Answers to prepare and  *)
(* unprepare go through the event handler of the relay, the others are     *)
(* sent by the thread that receives them.  A request that cannot be passed *)
(* on is answered by the relay itself; one that was on a session when it   *)
(* closed is never answered.                                               *)
(*                                                                         *)
(* At the origin the answers pass the event handler to the callback lists  *)
(* of the source manager, and the first callback of the same relay, sink   *)
(* and kind is called: SourceCalls has the lists in detail, for one device *)
(* that answers; here they are what the way over three devices keeps.      *)
(***************************************************************************)
EXTENDS Naturals, Sequences

CONSTANTS
    Origins,      (* the devices that ask                                    *)
    Sinks,        (* the devices that are asked for                          *)
    Resetting,    (* the origins that also run the sink service              *)
    MaxRequests,  (* bound: requests in a behaviour                          *)
    MaxLosses     (* bound: sessions that are lost, not only closed          *)

Preparing == {"prepare", "unprepare"}
Starting  == {"startDhid", "startType"}
Stopping  == {"stopDhid", "stopType"}
Kinds     == Preparing \cup Starting \cup Stopping

Requests == 1 .. MaxRequests
None     == 0

ASSUME RelayAssumption == Resetting \subseteq Origins /\ MaxRequests \in Nat /\ MaxLosses \in Nat

VARIABLES
    link,       (* the number of the session with an origin, at the relay    *)
    numbered,   (* how many numbers were given                               *)
    toSink,     (* the sinks that the relay has a session with               *)
    prepared,   (* the sinks whose switch has the session of the relay       *)
    requests,   (* the requests made: origin, sink and kind                  *)
    toRelay,    (* the requests an origin has sent                           *)
    atSink,     (* the requests passed on to a sink, with the session number *)
    fromSink,   (* the replies of a sink                                     *)
    events,     (* the queue of callBackHandler_ of the relay                *)
    toOrigin,   (* the answers sent to an origin                             *)
    posted,     (* the queue of callBackHandler_ of an origin                *)
    waiting,    (* the requests of an origin whose callback waits: its lists *)
                (* are in the order of the requests                          *)
    answers,    (* history: the callbacks that were called                   *)
    done,       (* history: the requests a sink carried out                  *)
    lost,       (* history: the requests that closed sessions took along, and*)
                (* those whose callback was not entered                      *)
    losses      (* how many sessions were lost                               *)

sessions == << link, numbered, toSink, prepared >>
queues   == << toRelay, atSink, fromSink, events, toOrigin >>
calls    == << posted, waiting, answers >>
history  == << requests, done, lost, losses >>
vars     == << sessions, queues, calls, history >>

Request == [origin : Origins, sink : Sinks, kind : Kinds]
Passed  == [req : Requests, session : Nat]
Replied == [req : Requests, session : Nat, result : BOOLEAN]
Result  == [req : Requests, result : BOOLEAN]
Called  == [req : Requests, caller : Requests, result : BOOLEAN]

TypeOK ==
    /\ link \in [Origins -> Nat] /\ numbered \in Nat
    /\ toSink \subseteq Sinks /\ prepared \subseteq toSink
    /\ requests \in Seq(Request) /\ Len(requests) <= MaxRequests
    /\ toRelay \in [Origins -> Seq(Requests)]
    /\ atSink \in [Sinks -> Seq(Passed)] /\ fromSink \in [Sinks -> Seq(Replied)]
    /\ events \in Seq(Replied)
    /\ toOrigin \in [Origins -> Seq(Result)] /\ posted \in [Origins -> Seq(Result)]
    /\ waiting \in [Origins -> SUBSET Requests] /\ answers \in [Origins -> Seq(Called)]
    /\ done \subseteq Requests /\ lost \subseteq Requests /\ losses \in 0 .. MaxLosses

Init ==
    /\ link = [o \in Origins |-> None] /\ numbered = 0
    /\ toSink = {} /\ prepared = {} /\ requests = << >> /\ events = << >>
    /\ toRelay = [o \in Origins |-> << >>] /\ toOrigin = [o \in Origins |-> << >>]
    /\ atSink = [k \in Sinks |-> << >>] /\ fromSink = [k \in Sinks |-> << >>]
    /\ posted = [o \in Origins |-> << >>] /\ waiting = [o \in Origins |-> {}]
    /\ answers = [o \in Origins |-> << >>] /\ done = {} /\ lost = {} /\ losses = 0

KindOf(r)   == requests[r].kind
SinkOf(r)   == requests[r].sink
OriginOf(r) == requests[r].origin
Ids(s)      == {s[i].req : i \in DOMAIN s}

\* IsStringDataSame and the like: one callback list, one key.
Alike(q, r) ==
    OriginOf(q) = OriginOf(r) /\ SinkOf(q) = SinkOf(r) /\ KindOf(q) = KindOf(r)

\* The requests of an origin whose answer has not left for its event handler.
Pending(o) ==
    {r \in DOMAIN requests : OriginOf(r) = o} \ (Ids(posted[o]) \cup Ids(answers[o]))

(***************************************************************************)
(* Sessions.                                                               *)
(***************************************************************************)
\* The session with an origin closes, and all that was on it is gone.
CloseLink(o) ==
    /\ link' = [link EXCEPT ![o] = None]
    /\ toRelay' = [toRelay EXCEPT ![o] = << >>]
    /\ toOrigin' = [toOrigin EXCEPT ![o] = << >>]

\* CloseInputSoftbus at the relay; the sink takes the session out of its switch.
CloseSink(k) ==
    /\ toSink' = toSink \ {k} /\ prepared' = prepared \ {k}
    /\ atSink' = [atSink EXCEPT ![k] = << >>] /\ fromSink' = [fromSink EXCEPT ![k] = << >>]

\* ClearResourcesStatus of the origin's manager, where the sink service also runs.
ResetSrcMgrResStatus(o) ==
    waiting' = IF o \in Resetting
               THEN [waiting EXCEPT ![o] = {r \in @ : KindOf(r) \notin Preparing}]
               ELSE waiting

LoseLink(o) ==
    /\ link[o] # None /\ losses < MaxLosses /\ losses' = losses + 1
    /\ CloseLink(o)
    /\ ResetSrcMgrResStatus(o)
    /\ lost' = lost \cup Pending(o)
          \cup {r \in Ids(posted[o]) : o \in Resetting /\ KindOf(r) \in Preparing}
    /\ UNCHANGED << numbered, toSink, prepared, atSink, fromSink, events >>
    /\ UNCHANGED << requests, posted, answers, done >>

LoseSink(k) ==
    /\ k \in toSink /\ losses < MaxLosses /\ losses' = losses + 1
    /\ CloseSink(k)
    /\ lost' = lost \cup Ids(atSink[k]) \cup Ids(fromSink[k])
    /\ UNCHANGED << link, numbered, toRelay, events, toOrigin, calls, requests, done >>

\* The sink, a source itself, has the relay as its sink: the map has one session.
SinkOpens(k) ==
    /\ k \notin toSink
    /\ toSink' = toSink \cup {k}
    /\ UNCHANGED << link, numbered, prepared, queues, calls, history >>

(***************************************************************************)
(* The origin asks.                                                        *)
(***************************************************************************)
\* relayPreCallbacks_ and relayUnpreCallbacks_ are sets: a callback beside one like it
\* is not entered.  The other lists take every callback.
EnterCallback(kind, o, k, r) ==
    LET twin == /\ kind \in Preparing
                /\ \E c \in waiting[o] : SinkOf(c) = k /\ KindOf(c) = kind
    IN  IF twin THEN waiting' = waiting /\ lost' = lost \cup {r}
        ELSE waiting' = [waiting EXCEPT ![o] = @ \cup {r}] /\ lost' = lost

\* The callback is entered, then the request sent: RelayStartRemoteInputByDhid ...
SendToRelay(kind, o, k) ==
    /\ Len(requests) < MaxRequests
    /\ requests' = Append(requests, [origin |-> o, sink |-> k, kind |-> kind])
    /\ toRelay' = [toRelay EXCEPT ![o] = Append(@, Len(requests) + 1)]
    /\ EnterCallback(kind, o, k, Len(requests) + 1)
    /\ UNCHANGED << toSink, prepared, atSink, fromSink, events, toOrigin >>
    /\ UNCHANGED << posted, answers, done, losses >>

\* OpenInputSoftbus: a session with the relay is opened if there is none.
OpenToRelay(o) ==
    IF link[o] # None THEN UNCHANGED << link, numbered >>
    ELSE link' = [link EXCEPT ![o] = numbered + 1] /\ numbered' = numbered + 1

\* Without a session the callback is removed again and the caller told at once.
OnLink(o) == link[o] # None /\ UNCHANGED << link, numbered >>

SendRelayPrepareRequest(o, k)   == OpenToRelay(o) /\ SendToRelay("prepare", o, k)
SendRelayUnprepareRequest(o, k) == OnLink(o) /\ SendToRelay("unprepare", o, k)
SendRelayStartDhidRequest(o, k) == OnLink(o) /\ SendToRelay("startDhid", o, k)
SendRelayStopDhidRequest(o, k)  == OnLink(o) /\ SendToRelay("stopDhid", o, k)
SendRelayStartTypeRequest(o, k) == OnLink(o) /\ SendToRelay("startType", o, k)
SendRelayStopTypeRequest(o, k)  == OnLink(o) /\ SendToRelay("stopType", o, k)

(***************************************************************************)
(* The relay passes a request on.                                          *)
(***************************************************************************)
\* A message to the sink carries the number of the session it came on.
Forward(k, r, session) ==
    atSink' = [atSink EXCEPT ![k] = Append(@, [req |-> r, session |-> session])]

PrepareRemoteInput(k, r, session)    == Forward(k, r, session)
UnprepareRemoteInput(k, r, session)  == k \in toSink /\ Forward(k, r, session)
StartRemoteInputDhids(k, r, session) == k \in toSink /\ Forward(k, r, session)
StopRemoteInputDhids(k, r, session)  == k \in toSink /\ Forward(k, r, session)
StartRemoteInputType(k, r, session)  == k \in toSink /\ Forward(k, r, session)
StopRemoteInputType(k, r, session)   == k \in toSink /\ Forward(k, r, session)

\* The listener of the source manager posts an answer.
PostAnswer(r, session, result) ==
    events' = Append(events, [req |-> r, session |-> session, result |-> result])

OnResponseRelayPrepareRemoteInput(r, session, result)   == PostAnswer(r, session, result)
OnResponseRelayUnprepareRemoteInput(r, session, result) == PostAnswer(r, session, result)

\* The answer is sent on the session of that number, if it is still there.
SendToOrigin(r, session, result) ==
    toOrigin' = [o \in Origins |->
        IF session # None /\ link[o] = session
        THEN Append(toOrigin[o], [req |-> r, result |-> result])
        ELSE toOrigin[o]]

NotifyOriginPrepareResult(r, session, result)   == SendToOrigin(r, session, result)
NotifyOriginUnprepareResult(r, session, result) == SendToOrigin(r, session, result)
NotifyOriginStartDhidResult(r, session, result) == SendToOrigin(r, session, result)
NotifyOriginStopDhidResult(r, session, result)  == SendToOrigin(r, session, result)
NotifyOriginStartTypeResult(r, session, result) == SendToOrigin(r, session, result)
NotifyOriginStopTypeResult(r, session, result)  == SendToOrigin(r, session, result)

\* HandleEventFirst, HandleEventSecond: the first message on a session, by its command.
Taken(o, r, kind) ==
    /\ toRelay[o] # << >> /\ r = Head(toRelay[o]) /\ KindOf(r) = kind
    /\ toRelay' = [toRelay EXCEPT ![o] = Tail(@)]

\* A faulty refusal that does not queue behind the answers posted before (a mutant).
RefuseAtOnce(o, r) ==
    LET k == SinkOf(r)
    IN  /\ Taken(o, r, "prepare")
        /\ \/ /\ toSink' = toSink \cup {k}
              /\ PrepareRemoteInput(k, r, link[o])
              /\ UNCHANGED toOrigin
           \/ /\ k \notin toSink
              /\ NotifyOriginPrepareResult(r, link[o], FALSE)
              /\ UNCHANGED << toSink, atSink >>
        /\ UNCHANGED << link, numbered, prepared, fromSink, events, calls, history >>

\* OpenInputSoftbus fails, or the message is sent.
ReceiveSrcTSrcRelayPrepare(o, r) ==
    LET k == SinkOf(r)
    IN  /\ Taken(o, r, "prepare")
        /\ \/ /\ toSink' = toSink \cup {k}
              /\ PrepareRemoteInput(k, r, link[o])
              /\ UNCHANGED events
           \/ /\ k \notin toSink
              /\ OnResponseRelayPrepareRemoteInput(r, link[o], FALSE)
              /\ UNCHANGED << toSink, atSink >>
        /\ UNCHANGED << link, numbered, prepared, fromSink, toOrigin, calls, history >>

ReceiveSrcTSrcRelayUnprepare(o, r) ==
    /\ Taken(o, r, "unprepare")
    /\ \/ UnprepareRemoteInput(SinkOf(r), r, link[o]) /\ UNCHANGED events
       \/ /\ SinkOf(r) \notin toSink
          /\ OnResponseRelayUnprepareRemoteInput(r, link[o], FALSE)
          /\ UNCHANGED atSink
    /\ UNCHANGED << sessions, fromSink, toOrigin, calls, history >>

\* A faulty relay that says nothing when it has no session (a mutant).
DropStartDhid(o, r) ==
    /\ Taken(o, r, "startDhid")
    /\ \/ StartRemoteInputDhids(SinkOf(r), r, link[o])
       \/ SinkOf(r) \notin toSink /\ UNCHANGED atSink
    /\ UNCHANGED << sessions, fromSink, events, toOrigin, calls, history >>

ReceiveSrcTSrcRelayStartDhid(o, r) ==
    /\ Taken(o, r, "startDhid")
    /\ \/ StartRemoteInputDhids(SinkOf(r), r, link[o]) /\ UNCHANGED toOrigin
       \/ /\ SinkOf(r) \notin toSink
          /\ NotifyOriginStartDhidResult(r, link[o], FALSE)
          /\ UNCHANGED atSink
    /\ UNCHANGED << sessions, fromSink, events, calls, history >>

ReceiveSrcTSrcRelayStopDhid(o, r) ==
    /\ Taken(o, r, "stopDhid")
    /\ \/ StopRemoteInputDhids(SinkOf(r), r, link[o]) /\ UNCHANGED toOrigin
       \/ /\ SinkOf(r) \notin toSink
          /\ NotifyOriginStopDhidResult(r, link[o], FALSE)
          /\ UNCHANGED atSink
    /\ UNCHANGED << sessions, fromSink, events, calls, history >>

ReceiveSrcTSrcRelayStartType(o, r) ==
    /\ Taken(o, r, "startType")
    /\ \/ StartRemoteInputType(SinkOf(r), r, link[o]) /\ UNCHANGED toOrigin
       \/ /\ SinkOf(r) \notin toSink
          /\ NotifyOriginStartTypeResult(r, link[o], FALSE)
          /\ UNCHANGED atSink
    /\ UNCHANGED << sessions, fromSink, events, calls, history >>

ReceiveSrcTSrcRelayStopType(o, r) ==
    /\ Taken(o, r, "stopType")
    /\ \/ StopRemoteInputType(SinkOf(r), r, link[o]) /\ UNCHANGED toOrigin
       \/ /\ SinkOf(r) \notin toSink
          /\ NotifyOriginStopTypeResult(r, link[o], FALSE)
          /\ UNCHANGED atSink
    /\ UNCHANGED << sessions, fromSink, events, calls, history >>

(***************************************************************************)
(* The sink.                                                               *)
(***************************************************************************)
\* The sink takes its next request and replies, with the session number.
Reply(k, kind, result) ==
    /\ atSink[k] # << >> /\ KindOf(Head(atSink[k]).req) = kind
    /\ atSink' = [atSink EXCEPT ![k] = Tail(@)]
    /\ fromSink' = [fromSink EXCEPT ![k] =
           Append(@, [req |-> Head(atSink[k]).req, session |-> Head(atSink[k]).session,
                      result |-> result])]
    /\ done' = IF result THEN done \cup {Head(atSink[k]).req} ELSE done
    /\ UNCHANGED << link, numbered, toSink, toRelay, events, toOrigin, calls, requests, lost, losses >>

NotifyRelayPrepareRemoteInput(k) ==
    Reply(k, "prepare", TRUE) /\ prepared' = prepared \cup {k}

NotifyRelayUnprepareRemoteInput(k) ==
    Reply(k, "unprepare", TRUE) /\ prepared' = prepared \ {k}

\* StartSwitch succeeds for a session that the switch has.
NotifyRelayStartDhidRemoteInput(k) ==
    Reply(k, "startDhid", k \in prepared) /\ UNCHANGED prepared

NotifyRelayStopDhidRemoteInput(k) ==
    Reply(k, "stopDhid", TRUE) /\ UNCHANGED prepared

NotifyRelayStartTypeRemoteInput(k) ==
    Reply(k, "startType", k \in prepared) /\ UNCHANGED prepared

NotifyRelayStopTypeRemoteInput(k) ==
    Reply(k, "stopType", TRUE) /\ UNCHANGED prepared

(***************************************************************************)
(* The relay answers.                                                      *)
(***************************************************************************)
FirstReply(k, kind) ==
    fromSink[k] # << >> /\ KindOf(Head(fromSink[k]).req) = kind

TakeReply(k, kind) ==
    /\ FirstReply(k, kind)
    /\ fromSink' = [fromSink EXCEPT ![k] = Tail(@)]
    /\ UNCHANGED << sessions, toRelay, atSink, calls, history >>

NotifyResponseRelayPrepare(k) ==
    LET a == Head(fromSink[k])
    IN  /\ TakeReply(k, "prepare") /\ UNCHANGED toOrigin
        /\ OnResponseRelayPrepareRemoteInput(a.req, a.session, a.result)

\* The session with the sink is closed, whoever else uses it.
NotifyResponseRelayUnprepare(k) ==
    LET a == Head(fromSink[k])
    IN  /\ FirstReply(k, "unprepare")
        /\ OnResponseRelayUnprepareRemoteInput(a.req, a.session, a.result)
        /\ CloseSink(k)
        /\ lost' = lost \cup Ids(atSink[k]) \cup Ids(Tail(fromSink[k]))
        /\ UNCHANGED << link, numbered, toRelay, toOrigin, calls, requests, done, losses >>

\* A faulty answer, success whatever the sink replied (a mutant).
AnswerSuccess(k) ==
    LET a == Head(fromSink[k])
    IN  /\ TakeReply(k, "startDhid") /\ UNCHANGED events
        /\ NotifyOriginStartDhidResult(a.req, a.session, TRUE)

NotifyResponseRelayStartDhid(k) ==
    LET a == Head(fromSink[k])
    IN  /\ TakeReply(k, "startDhid") /\ UNCHANGED events
        /\ NotifyOriginStartDhidResult(a.req, a.session, a.result)

NotifyResponseRelayStopDhid(k) ==
    LET a == Head(fromSink[k])
    IN  /\ TakeReply(k, "stopDhid") /\ UNCHANGED events
        /\ NotifyOriginStopDhidResult(a.req, a.session, a.result)

NotifyResponseRelayStartType(k) ==
    LET a == Head(fromSink[k])
    IN  /\ TakeReply(k, "startType") /\ UNCHANGED events
        /\ NotifyOriginStartTypeResult(a.req, a.session, a.result)

NotifyResponseRelayStopType(k) ==
    LET a == Head(fromSink[k])
    IN  /\ TakeReply(k, "stopType") /\ UNCHANGED events
        /\ NotifyOriginStopTypeResult(a.req, a.session, a.result)

\* The event handler of the relay.
NotifyPrepareResult ==
    LET a == Head(events)
    IN  /\ events # << >> /\ KindOf(a.req) = "prepare"
        /\ events' = Tail(events)
        /\ NotifyOriginPrepareResult(a.req, a.session, a.result)
        /\ UNCHANGED << sessions, toRelay, atSink, fromSink, calls, history >>

NotifyUnprepareResult ==
    LET a == Head(events)
    IN  /\ events # << >> /\ KindOf(a.req) = "unprepare"
        /\ events' = Tail(events)
        /\ NotifyOriginUnprepareResult(a.req, a.session, a.result)
        /\ UNCHANGED << sessions, toRelay, atSink, fromSink, calls, history >>

(***************************************************************************)
(* The origin is answered.                                                 *)
(***************************************************************************)
\* OnReceiveRelay*Result: the listener posts what a message says.
FirstAnswer(o, kind) ==
    /\ toOrigin[o] # << >> /\ KindOf(Head(toOrigin[o]).req) = kind
    /\ posted' = [posted EXCEPT ![o] = Append(@, Head(toOrigin[o]))]

TakeAnswer(o, kind) ==
    /\ FirstAnswer(o, kind)
    /\ toOrigin' = [toOrigin EXCEPT ![o] = Tail(@)]
    /\ UNCHANGED << sessions, toRelay, atSink, fromSink, events, waiting, answers, history >>

ReceiveRelayPrepareResult(o)   == TakeAnswer(o, "prepare")
ReceiveRelayStartDhidResult(o) == TakeAnswer(o, "startDhid")
ReceiveRelayStopDhidResult(o)  == TakeAnswer(o, "stopDhid")
ReceiveRelayStartTypeResult(o) == TakeAnswer(o, "startType")
ReceiveRelayStopTypeResult(o)  == TakeAnswer(o, "stopType")

\* The session with the relay is closed, whatever else is under way on it.
ReceiveRelayUnprepareResult(o) ==
    /\ FirstAnswer(o, "unprepare")
    /\ CloseLink(o)
    /\ lost' = lost \cup (Pending(o) \ {Head(toOrigin[o]).req})
    /\ UNCHANGED << numbered, toSink, prepared, atSink, fromSink, events >>
    /\ UNCHANGED << waiting, answers, requests, done, losses >>

\* The event handler of the origin: the first callback that waits for such an answer
\* is called and erased; an answer that nobody waits for is dropped.
RunCallback(o, kind) ==
    LET a     == Head(posted[o])
        alike == {c \in waiting[o] : Alike(c, a.req)}
    IN  /\ posted[o] # << >> /\ KindOf(a.req) = kind
        /\ posted' = [posted EXCEPT ![o] = Tail(@)]
        /\ \/ /\ alike = {}
              /\ UNCHANGED << waiting, answers >>
           \/ \E c \in alike :
                  /\ \A d \in alike : c <= d
                  /\ waiting' = [waiting EXCEPT ![o] = @ \ {c}]
                  /\ answers' = [answers EXCEPT ![o] = Append(@,
                         [req |-> a.req, caller |-> c, result |-> a.result])]
        /\ UNCHANGED << sessions, queues, history >>

RunRelayPrepareCallback(o)   == RunCallback(o, "prepare")
RunRelayUnprepareCallback(o) == RunCallback(o, "unprepare")
RunRelayStartDhidCallback(o) == RunCallback(o, "startDhid")
RunRelayStopDhidCallback(o)  == RunCallback(o, "stopDhid")
RunRelayStartTypeCallback(o) == RunCallback(o, "startType")
RunRelayStopTypeCallback(o)  == RunCallback(o, "stopType")

(***************************************************************************)
Ask ==
    \E o \in Origins, k \in Sinks :
        \/ SendRelayPrepareRequest(o, k)
        \/ SendRelayUnprepareRequest(o, k)
        \/ SendRelayStartDhidRequest(o, k)
        \/ SendRelayStopDhidRequest(o, k)
        \/ SendRelayStartTypeRequest(o, k)
        \/ SendRelayStopTypeRequest(o, k)

AtRelay ==
    \/ NotifyPrepareResult
    \/ NotifyUnprepareResult
    \/ \E o \in Origins, r \in DOMAIN requests :
           \/ ReceiveSrcTSrcRelayPrepare(o, r)
           \/ ReceiveSrcTSrcRelayUnprepare(o, r)
           \/ ReceiveSrcTSrcRelayStartDhid(o, r)
           \/ ReceiveSrcTSrcRelayStopDhid(o, r)
           \/ ReceiveSrcTSrcRelayStartType(o, r)
           \/ ReceiveSrcTSrcRelayStopType(o, r)
    \/ \E k \in Sinks :
           \/ NotifyResponseRelayPrepare(k)
           \/ NotifyResponseRelayUnprepare(k)
           \/ NotifyResponseRelayStartDhid(k)
           \/ NotifyResponseRelayStopDhid(k)
           \/ NotifyResponseRelayStartType(k)
           \/ NotifyResponseRelayStopType(k)

AtSink ==
    \E k \in Sinks :
        \/ NotifyRelayPrepareRemoteInput(k)
        \/ NotifyRelayUnprepareRemoteInput(k)
        \/ NotifyRelayStartDhidRemoteInput(k)
        \/ NotifyRelayStopDhidRemoteInput(k)
        \/ NotifyRelayStartTypeRemoteInput(k)
        \/ NotifyRelayStopTypeRemoteInput(k)

AtOrigin ==
    \E o \in Origins :
        \/ ReceiveRelayPrepareResult(o)
        \/ ReceiveRelayUnprepareResult(o)
        \/ ReceiveRelayStartDhidResult(o)
        \/ ReceiveRelayStopDhidResult(o)
        \/ ReceiveRelayStartTypeResult(o)
        \/ ReceiveRelayStopTypeResult(o)
        \/ RunRelayPrepareCallback(o)
        \/ RunRelayUnprepareCallback(o)
        \/ RunRelayStartDhidCallback(o)
        \/ RunRelayStopDhidCallback(o)
        \/ RunRelayStartTypeCallback(o)
        \/ RunRelayStopTypeCallback(o)

\* A message is received, or an event handler runs.
Deliver == AtRelay \/ AtSink \/ AtOrigin

Environment ==
    \/ \E o \in Origins : LoseLink(o)
    \/ \E k \in Sinks : LoseSink(k) \/ SinkOpens(k)

Next == Ask \/ Deliver \/ Environment

\* Messages are delivered and events handled: softbus and the event runners go on.
Fairness == WF_vars(Deliver)

Spec == Init /\ [][Next]_vars /\ Fairness

(***************************************************************************)
(* Properties.                                                             *)
(***************************************************************************)
\* A request whose answer may be another's: one like it was lost before, and left its
\* callback at the head of the list, or its answer without one.
Displaced(r) == r \in DOMAIN requests /\ \E q \in lost : q <= r /\ Alike(q, r)

\* An answer is called at the device that asked, once, and for the caller that asked:
\* the session number that travels to the sink and back (NotifyOrigin*Result) and the
\* first callback of the list (RunRelay*Callback) lead to the same request.
AnswersComeHome ==
    \A o \in Origins : \A i \in DOMAIN answers[o] :
        LET a == answers[o][i]
        IN  /\ OriginOf(a.req) = o
            /\ \A j \in DOMAIN answers[o] : answers[o][j].req = a.req => j = i
            /\ a.caller = a.req \/ Displaced(a.caller)

\* A caller is told that its request succeeded when, and only when, the sink did
\* what it asked: no error path of the relay makes one of the two wrong.
AnswerIsTheSinks ==
    \A o \in Origins : \A i \in DOMAIN answers[o] :
        answers[o][i].result <=> answers[o][i].req \in done

\* A callback is called in the end, unless its request or an earlier one like it was
\* lost with a session, or entered beside a twin.
RelayedIsAnswered ==
    \A r \in Requests :
        r \in DOMAIN requests ~>
            \/ Displaced(r)
            \/ \E o \in Origins : \E i \in DOMAIN answers[o] : answers[o][i].caller = r
=============================================================================
