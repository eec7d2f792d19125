------------------------------- MODULE TouchPad -------------------------------
(***************************************************************************)
(* A touch on a touch pad of the sink that is lent and taken back meanwhile *)
(* (services/state/src/touchpad_event_fragment_mgr.cpp, dinput_sink_state.cpp *)
(* and the touch pad's half of common/include/input_hub.cpp).               *)
(*                                                                         *)
(* While a pad is not shared, the collector keeps the reports of the touch *)
(* under way, but for mere positions.  A start replays them to the source, *)
(* so that the touch goes on there.  A touch whose end is recorded without *)
(* its begin was begun at a source: its rest is sent to the last session   *)
(* that started or stopped a device, so that the pad there comes up again. *)
(*                                                                         *)
(* The kernel hands out whole reports, which end in SYN_REPORT; one is a    *)
(* step here.  Messages to a source and its inject queue are one channel,   *)
(* whose order InjectThread shows.                                         *)
(***************************************************************************)
EXTENDS Naturals, FiniteSets, SequencesExt

CONSTANTS
    Sessions,      (* the sessions of the sources, positive numbers          *)
    Pads,          (* the dhIds of touch pads                                *)
    Others,        (* other devices: they change the last session and the    *)
                   (* switch only                                            *)
    Overlap,       (* TRUE: the collector, the handler of requests and the   *)
                   (* sender overlap; FALSE: a request or a read waits for   *)
                   (* what the others have begun                             *)
    Buttons,       (* the pads with a button that works without a finger     *)
    MaxReports,    (* bound: reports of the pads                             *)
    MaxRequests    (* bound: starts and stops                                *)

DhIds == Pads \cup Others

ASSUME TouchPadAssumption ==
    /\ Sessions \subseteq Nat \ {0} /\ Pads \cap Others = {} /\ Buttons \subseteq Pads
    /\ Overlap \in BOOLEAN /\ {MaxReports, MaxRequests} \subseteq Nat

VARIABLES
    finger,        (* the pads with a finger on                              *)
    kernel,        (* what the kernel holds for the collector                *)
    collector,     (* the pad the collector reads, what it read and has      *)
                   (* still to record                                        *)
    sharedDHIds,   (* InputHub::sharedDHIds_                                 *)
    fragments,     (* TouchPadEventFragmentMgr::fragments_, without the open *)
                   (* fragment at their end, which is empty between reports  *)
    lastSessionId, (* DInputSinkState::lastSessionId_, 0 for none            *)
    openSession,   (* the session whose switch is on, 0 for none             *)
    handler,       (* the request between its two halves                     *)
    eventQueue,    (* reads posted to the sender                             *)
    toSink,        (* requests under way                                     *)
    toSource,      (* reports under way, by session                          *)
    touched,       (* BTN_TOUCH of the virtual pads, by session              *)
    holder,        (* the session that has, or asks for, the devices         *)
    asked,         (* the dhIds it started and did not stop                  *)
    reports, requests,   (* history: their numbers                           *)
    touch,         (* history: the number of the last touch of a pad         *)
    lentTouches,   (* history: the touches that a pad was shared in          *)
    clickedBefore  (* history: the touches with a click before their begin   *)

userVars   == << finger, kernel, reports, touch, clickedBefore >>
stateVars  == << fragments, lastSessionId >>
sourceVars == << toSink, holder, asked, requests >>
vars == << userVars, collector, sharedDHIds, stateVars, openSession, handler, eventQueue,
           sourceVars, toSource, touched, lentTouches >>

NoRequest == [cmd |-> "none"]
Idle      == [pad |-> "none", read |-> << >>, checked |-> FALSE]

(* Reports that a touch begins and ends with, of positions only (of which two *)
(* events are left without the positions), and others.                        *)
Kinds   == {"down", "up", "position", "other"}
Reports == [pad : Pads, kind : Kinds, touch : Nat, n : Nat]

TypeOK ==
    /\ finger \subseteq Pads /\ kernel \in [Pads -> Seq(Reports)]
    /\ collector \in [pad : Pads, read : Seq(Reports), checked : BOOLEAN] \cup {Idle}
    /\ sharedDHIds \subseteq DhIds /\ asked \subseteq DhIds
    /\ fragments \in [Pads -> Seq(Reports)]
    /\ {lastSessionId, openSession, holder} \subseteq Sessions \cup {0}
    /\ eventQueue \in Seq(Seq(Reports)) /\ toSource \in [Sessions -> Seq(Reports)]
    /\ touched \in [Sessions -> SUBSET Pads]

Settled ==
    /\ \A p \in Pads : kernel[p] = << >>
    /\ collector = Idle /\ eventQueue = << >> /\ toSink = << >> /\ handler = NoRequest
    /\ \A s \in Sessions : toSource[s] = << >>

HandlerMayGo   == Overlap \/ (collector = Idle /\ eventQueue = << >>)
CollectorMayGo == Overlap \/ (handler = NoRequest /\ eventQueue = << >>)

(***************************************************************************)
(* The user and the kernel.                                                *)
(***************************************************************************)
Report(p, kind, t) ==
    /\ reports < MaxReports
    /\ reports' = reports + 1
    /\ kernel' = [kernel EXCEPT ![p] =
                    Append(@, [pad |-> p, kind |-> kind, touch |-> t, n |-> reports'])]
    /\ UNCHANGED << collector, sharedDHIds, stateVars, openSession, handler, eventQueue,
                    sourceVars, toSource, touched >>

Touch(p) ==
    /\ p \notin finger
    /\ finger' = finger \cup {p}
    /\ touch' = [touch EXCEPT ![p] = @ + 1]
    /\ Report(p, "down", touch[p] + 1)
    /\ lentTouches' = IF p \in sharedDHIds
                      THEN lentTouches \cup {<< p, touch[p] + 1 >>} ELSE lentTouches
    /\ UNCHANGED clickedBefore

Move(p) ==
    /\ p \in finger
    /\ \E kind \in {"position", "other"} : Report(p, kind, touch[p])
    /\ UNCHANGED << finger, touch, clickedBefore, lentTouches >>

(* A button that is pressed between two touches; the report is counted to the *)
(* next one.                                                                  *)
Click(p) ==
    /\ p \in Buttons \ finger
    /\ Report(p, "other", touch[p] + 1)
    /\ clickedBefore' = clickedBefore \cup {<< p, touch[p] + 1 >>}
    /\ UNCHANGED << finger, touch, lentTouches >>

Lift(p) ==
    /\ p \in finger
    /\ finger' = finger \ {p}
    /\ Report(p, "up", touch[p])
    /\ UNCHANGED << touch, clickedBefore, lentTouches >>

(***************************************************************************)
(* The collector thread.                                                   *)
(***************************************************************************)
ReadEvents(p) ==
    /\ collector = Idle /\ kernel[p] # << >> /\ CollectorMayGo
    /\ collector' = [pad |-> p, read |-> kernel[p], checked |-> FALSE]
    /\ kernel' = [kernel EXCEPT ![p] = << >>]
    /\ UNCHANGED << finger, reports, touch, clickedBefore, sharedDHIds, stateVars, openSession, handler,
                    eventQueue, sourceVars, toSource, touched, lentTouches >>

CheckShared ==
    /\ collector # Idle /\ ~collector.checked
    /\ IF collector.pad \in sharedDHIds
       THEN eventQueue' = Append(eventQueue, collector.read) /\ collector' = Idle
       ELSE collector' = [collector EXCEPT !.checked = TRUE] /\ UNCHANGED eventQueue
    /\ UNCHANGED << userVars, sharedDHIds, stateVars, openSession, handler, sourceVars,
                    toSource, touched, lentTouches >>

IsWholeTouchFragments(frags) == frags[1].kind = "down" /\ Last(frags).kind = "up"

(* SendKeyStateNodeMsgBatch goes past the queue of the sender, and nowhere    *)
(* without a session.                                                         *)
SendKeyStateNodeMsgBatch(s, frags) ==
    toSource' = [t \in Sessions |-> toSource[t] \o IF t = s THEN frags ELSE << >>]

(* Faulty ends of a touch: one that sends nothing back, and one that forgets  *)
(* only what it sent (mutants of the next).                                   *)
DealSynEventSilently(r) ==
    /\ fragments' = [fragments EXCEPT ![r.pad] =
                       CASE r.kind = "up"       -> << >>
                         [] r.kind = "position" -> @
                         [] OTHER               -> Append(@, r)]
    /\ UNCHANGED toSource

DealSynEventKeeping(r) ==
    LET frags == Append(fragments[r.pad], r)
        rest  == r.kind = "up" /\ ~IsWholeTouchFragments(frags)
    IN  /\ fragments' = [fragments EXCEPT ![r.pad] = IF rest THEN << >> ELSE frags]
        /\ IF rest THEN SendKeyStateNodeMsgBatch(lastSessionId, frags) ELSE UNCHANGED toSource

(* DealSynEvent: the end of a touch forgets it, and sends it back if its      *)
(* begin is not there; another report stays, if more than its positions came. *)
DealSynEvent(r) ==
    LET frags == Append(fragments[r.pad], r)
    IN  CASE r.kind = "up" ->
               /\ fragments' = [fragments EXCEPT ![r.pad] = << >>]
               /\ IF IsWholeTouchFragments(frags) THEN UNCHANGED toSource
                  ELSE SendKeyStateNodeMsgBatch(lastSessionId, frags)
          [] r.kind = "position" -> UNCHANGED << fragments, toSource >>
          [] OTHER -> /\ fragments' = [fragments EXCEPT ![r.pad] = frags]
                      /\ UNCHANGED toSource

RecordDeviceChangeStates ==
    /\ collector.checked /\ collector.read # << >>
    /\ DealSynEvent(Head(collector.read))
    /\ collector' = IF Tail(collector.read) = << >> THEN Idle
                    ELSE [collector EXCEPT !.read = Tail(@)]
    /\ UNCHANGED << userVars, sharedDHIds, lastSessionId, openSession, handler, eventQueue,
                    sourceVars, touched, lentTouches >>

(***************************************************************************)
(* The handler of requests and the sender.                                 *)
(***************************************************************************)
Take(cmd) ==
    /\ handler = NoRequest /\ toSink # << >> /\ Head(toSink).cmd = cmd /\ HandlerMayGo
    /\ handler' = Head(toSink) /\ toSink' = Tail(toSink)

Done == handler' = NoRequest /\ UNCHANGED toSink

(* The touches of a pad that the collector has not seen the end of.           *)
Underway(p) ==
    {<< p, touch[p] >> : q \in finger \cap {p}} \cup
    {<< p, kernel[p][i].touch >> : i \in DOMAIN kernel[p]}

Lent(d) == lentTouches' = lentTouches \cup UNION {Underway(p) : p \in Pads \cap {d}}

(* A faulty start that replays the fragments and keeps them (a mutant of the  *)
(* next).                                                                     *)
StartKeepsFragments ==
    /\ Take("start")
    /\ LET s == Head(toSink).session
           d == Head(toSink).dhId
       IN  /\ openSession' = s /\ lastSessionId' = s
           /\ IF d \in Pads THEN SendKeyStateNodeMsgBatch(s, fragments[d]) ELSE UNCHANGED toSource
           /\ Lent(d)
    /\ UNCHANGED << userVars, collector, sharedDHIds, fragments, eventQueue, holder, asked,
                    requests, touched >>

(* OnStartRemoteInputDhid up to RecordDhIds: GetAndClearEvents is replayed.   *)
StartRecordDhIds ==
    /\ Take("start")
    /\ LET s == Head(toSink).session
           d == Head(toSink).dhId
       IN  /\ openSession' = s /\ lastSessionId' = s
           /\ IF d \in Pads
              THEN /\ SendKeyStateNodeMsgBatch(s, fragments[d])
                   /\ fragments' = [fragments EXCEPT ![d] = << >>]
              ELSE UNCHANGED << toSource, fragments >>
           /\ Lent(d)
    /\ UNCHANGED << userVars, collector, sharedDHIds, eventQueue, holder, asked, requests,
                    touched >>

StartSetSharing ==
    /\ handler.cmd = "start" /\ Done
    /\ sharedDHIds' = sharedDHIds \cup {handler.dhId}
    /\ Lent(handler.dhId)
    /\ UNCHANGED << userVars, collector, stateVars, openSession, eventQueue, holder, asked,
                    requests, toSource, touched >>

StopSetSharing ==
    /\ Take("stop")
    /\ sharedDHIds' = sharedDHIds \ {Head(toSink).dhId}
    /\ UNCHANGED << userVars, collector, stateVars, openSession, eventQueue, holder, asked,
                    requests, toSource, touched, lentTouches >>

(* The rest of OnStopRemoteInputDhid.                                         *)
StopRecordDhIds ==
    /\ handler.cmd = "stop" /\ Done
    /\ lastSessionId' = handler.session
    /\ openSession' = IF sharedDHIds = {} THEN 0 ELSE openSession
    /\ UNCHANGED << userVars, collector, sharedDHIds, fragments, eventQueue, holder, asked,
                    requests, toSource, touched, lentTouches >>

SendEvents ==
    /\ eventQueue # << >>
    /\ eventQueue' = Tail(eventQueue)
    /\ toSource' = [s \in Sessions |->
                      IF s = openSession THEN toSource[s] \o Head(eventQueue) ELSE toSource[s]]
    /\ UNCHANGED << userVars, collector, sharedDHIds, stateVars, openSession, handler,
                    sourceVars, touched, lentTouches >>

(***************************************************************************)
(* The sources: one at a time has devices of the sink.                     *)
(***************************************************************************)
Ask(cmd, s, d) ==
    /\ requests < MaxRequests
    /\ requests' = requests + 1
    /\ toSink' = Append(toSink, [cmd |-> cmd, session |-> s, dhId |-> d])
    /\ UNCHANGED << userVars, collector, sharedDHIds, stateVars, openSession, handler,
                    eventQueue, toSource, touched, lentTouches >>

StartRemoteInput(s, d) ==
    /\ s = holder \/ (asked = {} /\ toSink = << >> /\ handler = NoRequest)
    /\ d \notin asked
    /\ holder' = s /\ asked' = asked \cup {d}
    /\ Ask("start", s, d)

StopRemoteInput(d) ==
    /\ d \in asked
    /\ asked' = asked \ {d}
    /\ Ask("stop", holder, d)
    /\ UNCHANGED holder

InjectInputEvent(s) ==
    /\ toSource[s] # << >>
    /\ toSource' = [toSource EXCEPT ![s] = Tail(@)]
    /\ LET r == Head(toSource[s])
       IN  touched' = [touched EXCEPT ![s] =
                         CASE r.kind = "down" -> @ \cup {r.pad}
                           [] r.kind = "up"   -> @ \ {r.pad}
                           [] OTHER           -> @]
    /\ UNCHANGED << userVars, collector, sharedDHIds, stateVars, openSession, handler,
                    eventQueue, sourceVars, lentTouches >>

-----------------------------------------------------------------------------
(* Nobody touches a pad when the collector starts. *)
Init ==
    /\ finger = {} /\ kernel = [p \in Pads |-> << >>] /\ reports = 0
    /\ touch = [p \in Pads |-> 0] /\ lentTouches = {} /\ clickedBefore = {}
    /\ collector = Idle /\ sharedDHIds = {} /\ fragments = [p \in Pads |-> << >>]
    /\ lastSessionId = 0 /\ openSession = 0 /\ handler = NoRequest /\ eventQueue = << >>
    /\ toSink = << >> /\ holder = 0 /\ asked = {} /\ requests = 0
    /\ toSource = [s \in Sessions |-> << >>] /\ touched = [s \in Sessions |-> {}]

Next ==
    \/ \E p \in Pads : Touch(p) \/ Move(p) \/ Lift(p) \/ ReadEvents(p)
    \/ \E p \in Pads : Click(p)
    \/ CheckShared \/ RecordDeviceChangeStates
    \/ StartRecordDhIds \/ StartSetSharing \/ StopSetSharing \/ StopRecordDhIds \/ SendEvents
    \/ \E s \in Sessions, d \in DhIds : StartRemoteInput(s, d)
    \/ \E d \in DhIds : StopRemoteInput(d)
    \/ \E s \in Sessions : InjectInputEvent(s)

Spec == Init /\ [][Next]_vars

-----------------------------------------------------------------------------
(* A source's pad is touched only while the finger is on: a touch that began   *)
(* there ends there, wherever its end was recorded (DealSynEvent,              *)
(* SimulateTouchPadStateReset); and a shared pad with a finger on is touched   *)
(* at the source, although the touch began before (SimulateTouchPadEvents).    *)
TouchFollowsFinger ==
    Settled =>
        /\ \A s \in Sessions : touched[s] \subseteq finger
        /\ finger \cap sharedDHIds \subseteq UNION {touched[s] : s \in Sessions}

(* Nothing of a touch comes to a source that had the pad at no time of it; a   *)
(* click between two touches, which is kept and taken for the rest of a touch, *)
(* is the exception the code makes.                                            *)
LocalTouchStaysLocal ==
    \A s \in Sessions : \A i \in DOMAIN toSource[s] :
        << toSource[s][i].pad, toSource[s][i].touch >> \in lentTouches \cup clickedBefore

(* What goes to a source arrives in the order it was made and once, past the   *)
(* queue of the sender or over it.                                             *)
Ascending(s) == \A i, j \in DOMAIN s : i < j /\ s[i].pad = s[j].pad => s[i].n < s[j].n

ReportsInOrder ==
    \A s \in Sessions : Ascending(toSource[s] \o FlattenSeq(eventQueue) \o collector.read)
=============================================================================
