------------------------------ MODULE KeyForward ------------------------------
(***************************************************************************)
(* The way of a key from a keyboard or mouse of the sink to the virtual    *)
(* device of the source, while the device is lent and taken back.          *)
(*                                                                         *)
(* While a device is not shared, the collector thread records which of its *)
(* keys are down (keyDownStateMap_ of DInputSinkState).  When a source     *)
(* starts the device, the handler thread replays the recorded keys to it   *)
(* and then flags the device as shared; from then on the collector hands   *)
(* the events to the sender.  At a stop the source first releases the keys *)
(* of its virtual keyboards and then sends the stop.                       *)
(*                                                                         *)
(* Seven threads and two channels are modelled: the collector               *)
(* (InputHub::GetEvents), the sink's message handler, its sender (the      *)
(* event handler of DistributedInputSinkTransport), the source's receiver, *)
(* its callback handler, its inject thread and its caller.  One source     *)
(* uses the sink; sessions and who owns what are the subject of            *)
(* SinkManager.                                                            *)
(***************************************************************************)
EXTENDS Integers, FiniteSets, SequencesExt

CONSTANTS
    Mice,          (* the dhIds with INPUT_DEVICE_CLASS_CURSOR              *)
    Keyboards,     (* the dhIds with INPUT_DEVICE_CLASS_KEYBOARD            *)
    Keys,          (* key codes                                             *)
    BTN_MOUSE,     (* the left button of a mouse                            *)
    Disciplined,   (* TRUE: nobody strokes a key while a start or a stop is *)
                   (* under way, and nobody starts or stops a device while  *)
                   (* strokes are                                           *)
    MaxStrokes,    (* bound: strokes in a behaviour                         *)
    MaxRequests    (* bound: starts and stops in a behaviour                *)

DhIds == Mice \cup Keyboards
None  == "none"

ASSUME KeyAssumption ==
    /\ Keys \subseteq Int /\ IsFiniteSet(Keys) /\ BTN_MOUSE \in Keys
    /\ None \notin DhIds
    /\ Disciplined \in BOOLEAN
    /\ MaxStrokes \in Nat /\ MaxRequests \in Nat

VARIABLES
    down,           (* the keys that are physically down, by dhId           *)
    kernel,         (* what the kernel holds for the collector, by dhId     *)
    collector,      (* the device the collector reads and what it read of   *)
                    (* it that is still to be recorded                      *)
    sharedDHIds,    (* InputHub::sharedDHIds_                               *)
    keyDownState,   (* keyDownStateMap_: the keys of a dhId in order        *)
    lastSessionId,  (* DInputSinkState::lastSessionId_: 0 or the source's   *)
    switchOn,       (* the switch of the source's session                   *)
    handler,        (* the dhId of a start between its two halves           *)
    eventQueue,     (* batches posted to the sender                         *)
    toSource,       (* messages from the sink to the source                 *)
    toSink,         (* messages from the source to the sink                 *)
    request,        (* the dhId of a stop between its two halves            *)
    callbackQueue,  (* key states posted to the source's callback handler   *)
    injectQueue,    (* events of the inject thread                          *)
    remoteDown,     (* the keys that are down on the virtual devices        *)
    strokes,        (* history: the number of strokes                       *)
    requests,       (* history: the number of starts and stops              *)
    stamp,          (* history: the last stroke that pressed or repeated a  *)
                    (* key                                                  *)
    heldOver        (* history: keys that were down when their device was   *)
                    (* taken back, and have not been seen since             *)

userVars   == << down, kernel, strokes, stamp >>
stateVars  == << keyDownState, lastSessionId >>
sinkVars   == << collector, sharedDHIds, stateVars, switchOn, handler, eventQueue >>
sourceVars == << request, requests, callbackQueue, injectQueue, remoteDown >>
vars == << userVars, sinkVars, toSource, toSink, sourceVars, heldOver >>

Event == [dhId : DhIds, code : Keys, value : {"down", "up", "repeat"}, n : Nat]

TypeOK ==
    /\ down \in [DhIds -> SUBSET Keys] /\ remoteDown \in [DhIds -> SUBSET Keys]
    /\ kernel \in [DhIds -> Seq(Event)]
    /\ collector \in [dhId : DhIds \cup {None}, read : Seq(Event), checked : BOOLEAN]
    /\ sharedDHIds \subseteq DhIds
    /\ keyDownState \in [DhIds -> Seq(Keys)]
    /\ lastSessionId \in 0 .. 1 /\ switchOn \in BOOLEAN
    /\ handler \in DhIds \cup {None} /\ request \in DhIds \cup {None}
    /\ eventQueue \in Seq(Seq(Event))
    /\ toSource \in Seq([cmd : {"KEY_STATE", "BODY_DATA"}, events : Seq(Event)])
    /\ toSink \in Seq([cmd : {"START_DHID", "STOP_DHID"}, dhId : DhIds])
    /\ callbackQueue \in Seq(Event) /\ injectQueue \in Seq(Event)
    /\ strokes \in Nat /\ requests \in Nat
    /\ stamp \in [DhIds -> [Keys -> Nat]]
    /\ heldOver \in [DhIds -> SUBSET Keys]

Message(cmd, events) == [cmd |-> cmd, events |-> events]

\* A simulated event carries no stroke of the user's.
Simulated(d, k, value) == [dhId |-> d, code |-> k, value |-> value, n |-> 0]

Idle == [dhId |-> None, read |-> << >>, checked |-> FALSE]

(***************************************************************************)
(* What is under way.                                                      *)
(***************************************************************************)
StrokesSettled ==
    /\ \A d \in DhIds : kernel[d] = << >>
    /\ collector = Idle
    /\ eventQueue = << >> /\ toSource = << >> /\ injectQueue = << >>

ControlSettled ==
    /\ toSink = << >> /\ handler = None /\ request = None /\ callbackQueue = << >>
    /\ \A i \in DOMAIN toSource : toSource[i].cmd = "BODY_DATA"

Settled == StrokesSettled /\ ControlSettled

(***************************************************************************)
(* The user and the kernel.                                                *)
(***************************************************************************)
Stroke(d, k, value) ==
    /\ strokes < MaxStrokes
    /\ Disciplined => ControlSettled
    /\ strokes' = strokes + 1
    /\ kernel' = [kernel EXCEPT ![d] =
                    Append(@, [dhId |-> d, code |-> k, value |-> value, n |-> strokes + 1])]
    /\ UNCHANGED << sinkVars, toSource, toSink, sourceVars >>

Press(d, k) ==
    /\ k \notin down[d]
    /\ Stroke(d, k, "down")
    /\ down' = [down EXCEPT ![d] = @ \cup {k}]
    /\ stamp' = [stamp EXCEPT ![d][k] = strokes + 1]
    /\ UNCHANGED heldOver

Release(d, k) ==
    /\ k \in down[d]
    /\ Stroke(d, k, "up")
    /\ down' = [down EXCEPT ![d] = @ \ {k}]
    /\ heldOver' = [heldOver EXCEPT ![d] = @ \ {k}]
    /\ UNCHANGED stamp

Repeat(d, k) ==
    /\ d \in Keyboards
    /\ k \in down[d]
    /\ Stroke(d, k, "repeat")
    /\ stamp' = [stamp EXCEPT ![d][k] = strokes + 1]
    /\ heldOver' = [heldOver EXCEPT ![d] = IF d \in sharedDHIds THEN @ ELSE @ \ {k}]
    /\ UNCHANGED down

(***************************************************************************)
(* The collector thread: InputHub::GetEvents for one ready device.         *)
(***************************************************************************)
ReadEvents(d) ==
    /\ collector = Idle
    /\ kernel[d] # << >>
    /\ collector' = [dhId |-> d, read |-> kernel[d], checked |-> FALSE]
    /\ kernel' = [kernel EXCEPT ![d] = << >>]
    /\ UNCHANGED << down, strokes, stamp, sharedDHIds, stateVars, switchOn, handler,
                    eventQueue, toSource, toSink, sourceVars, heldOver >>

\* A faulty collector that posts the newest event first (a mutant).
CollectReversed ==
    /\ collector.dhId # None /\ ~collector.checked
    /\ IF collector.dhId \in sharedDHIds
       THEN /\ eventQueue' = Append(eventQueue, Reverse(collector.read))
            /\ collector' = Idle
       ELSE /\ collector' = [collector EXCEPT !.checked = TRUE]
            /\ UNCHANGED eventQueue
    /\ UNCHANGED << userVars, sharedDHIds, stateVars, switchOn, handler, toSource, toSink,
                    sourceVars, heldOver >>

\* One test of sharedDHIds_ for all that was read: events of a shared device are
\* posted to the sender, those of another device are recorded one by one.
CheckShared ==
    /\ collector.dhId # None /\ ~collector.checked
    /\ IF collector.dhId \in sharedDHIds
       THEN /\ eventQueue' = Append(eventQueue, collector.read)
            /\ collector' = Idle
       ELSE /\ collector' = [collector EXCEPT !.checked = TRUE]
            /\ UNCHANGED eventQueue
    /\ UNCHANGED << userVars, sharedDHIds, stateVars, switchOn, handler, toSource, toSink,
                    sourceVars, heldOver >>

\* CheckAndSetLongPressedKeyOrder: a repeated key is the last one pressed.
LongPressed(s, k) == Append(RemoveFirst(s, k), k)

\* A faulty CheckAndSetLongPressedKeyOrder that leaves a known key in its place
\* (a mutant).
RecordedUnmoved(s, e) ==
    CASE e.value = "down"   -> Append(s, e.code)
      [] e.value = "up"     -> RemoveFirst(s, e.code)
      [] e.value = "repeat" -> IF Contains(s, e.code) THEN s ELSE Append(s, e.code)

\* AddKeyDownState, RemoveKeyDownState and CheckAndSetLongPressedKeyOrder.
Recorded(s, e) ==
    CASE e.value = "down"   -> Append(s, e.code)
      [] e.value = "up"     -> RemoveFirst(s, e.code)
      [] e.value = "repeat" -> LongPressed(s, e.code)

\* A left button that comes up and was not recorded down was pressed while the
\* mouse was shared: its release is simulated at the last source, unless another
\* key of the mouse is recorded (IsDhIdDown).
MouseUpSimulated(e) ==
    /\ e.dhId \in Mice /\ e.code = BTN_MOUSE /\ e.value = "up"
    /\ keyDownState[e.dhId] = << >>
    /\ lastSessionId > 0

\* DealNormalKeyEvent for the next event.
RecordEvent ==
    /\ collector.checked
    /\ collector.read # << >>
    /\ LET e == Head(collector.read)
       IN  /\ keyDownState' = [keyDownState EXCEPT ![e.dhId] = Recorded(@, e)]
           /\ toSource' = IF MouseUpSimulated(e)
                          THEN Append(toSource,
                                 Message("BODY_DATA", << Simulated(e.dhId, BTN_MOUSE, "up") >>))
                          ELSE toSource
    /\ collector' = [collector EXCEPT !.read = Tail(@)]
    /\ UNCHANGED << userVars, sharedDHIds, lastSessionId, switchOn, handler, eventQueue,
                    toSink, sourceVars, heldOver >>

RecordedAll ==
    /\ collector.checked
    /\ collector.read = << >>
    /\ collector' = Idle
    /\ UNCHANGED << userVars, sharedDHIds, stateVars, switchOn, handler, eventQueue, toSource,
                    toSink, sourceVars, heldOver >>

(***************************************************************************)
(* The sink's message handler and its sender.                              *)
(***************************************************************************)
\* SimulateKeyDownEvents: a key state message for every recorded key, in order.
Replay(d) ==
    [i \in DOMAIN keyDownState[d] |->
        Message("KEY_STATE", << Simulated(d, keyDownState[d][i], "down") >>)]

NextRequest(cmd) == toSink # << >> /\ Head(toSink).cmd = cmd

\* OnStartRemoteInputDhid up to the end of RecordDhIds: the switch goes on, and
\* what is recorded is replayed and forgotten.
StartRecordDhIds ==
    /\ handler = None
    /\ NextRequest("START_DHID")
    /\ LET d == Head(toSink).dhId
       IN  /\ handler' = d
           /\ toSource' = toSource \o Replay(d)
           /\ keyDownState' = [keyDownState EXCEPT ![d] = << >>]
    /\ toSink' = Tail(toSink)
    /\ switchOn' = TRUE
    /\ lastSessionId' = 1
    /\ UNCHANGED << userVars, collector, sharedDHIds, eventQueue, sourceVars, heldOver >>

\* The rest of it: SetSharingDhIds(true).
StartSetSharing ==
    /\ handler # None
    /\ sharedDHIds' = sharedDHIds \cup {handler}
    /\ handler' = None
    /\ UNCHANGED << userVars, collector, stateVars, switchOn, eventQueue, toSource, toSink,
                    sourceVars, heldOver >>

\* OnStopRemoteInputDhid; the switch goes off with the last device.
StopRemoteInputDhid ==
    /\ handler = None
    /\ NextRequest("STOP_DHID")
    /\ LET d == Head(toSink).dhId
       IN  /\ sharedDHIds' = sharedDHIds \ {d}
           /\ switchOn' = (switchOn /\ sharedDHIds \ {d} # {})
           /\ heldOver' = [heldOver EXCEPT ![d] =
                             IF d \in sharedDHIds THEN down[d] ELSE @]
    /\ toSink' = Tail(toSink)
    /\ lastSessionId' = 1
    /\ UNCHANGED << userVars, collector, keyDownState, handler, eventQueue, toSource, sourceVars >>

\* The sender's ProcessEvent: without a switched-on session the events are dropped.
SendEvents ==
    /\ eventQueue # << >>
    /\ eventQueue' = Tail(eventQueue)
    /\ toSource' = IF switchOn THEN Append(toSource, Message("BODY_DATA", Head(eventQueue)))
                               ELSE toSource
    /\ UNCHANGED << userVars, collector, sharedDHIds, stateVars, switchOn, handler, toSink,
                    sourceVars, heldOver >>

(***************************************************************************)
(* The source.                                                             *)
(***************************************************************************)
Request ==
    /\ requests < MaxRequests
    /\ Disciplined => Settled
    /\ request = None
    /\ requests' = requests + 1

StartRemoteInput(d) ==
    /\ Request
    /\ toSink' = Append(toSink, [cmd |-> "START_DHID", dhId |-> d])
    /\ UNCHANGED << userVars, sinkVars, toSource, request, callbackQueue, injectQueue,
                    remoteDown, heldOver >>

\* A faulty stop that does not reset the virtual keyboards (a mutant).
StopWithoutReset(d) ==
    /\ Request
    /\ request' = d
    /\ UNCHANGED << userVars, sinkVars, toSource, toSink, callbackQueue, injectQueue,
                    remoteDown, heldOver >>

\* ResetKeyboardKeyState releases the keys of a virtual keyboard at its node.
StopRemoteInput(d) ==
    /\ Request
    /\ request' = d
    /\ remoteDown' = [remoteDown EXCEPT ![d] = IF d \in Keyboards THEN {} ELSE @]
    /\ UNCHANGED << userVars, sinkVars, toSource, toSink, callbackQueue, injectQueue, heldOver >>

SendStop ==
    /\ request # None
    /\ toSink' = Append(toSink, [cmd |-> "STOP_DHID", dhId |-> request])
    /\ request' = None
    /\ UNCHANGED << userVars, sinkVars, toSource, requests, callbackQueue, injectQueue,
                    remoteDown, heldOver >>

\* OnBytesReceived: events go to the inject thread, key states to the callback
\* handler first (NotifyReceivedEventRemoteInput, NotifyResponseKeyState).
ReceiveFromSink ==
    /\ toSource # << >>
    /\ toSource' = Tail(toSource)
    /\ IF Head(toSource).cmd = "KEY_STATE"
       THEN /\ callbackQueue' = callbackQueue \o Head(toSource).events
            /\ UNCHANGED injectQueue
       ELSE /\ injectQueue' = injectQueue \o Head(toSource).events
            /\ UNCHANGED callbackQueue
    /\ UNCHANGED << userVars, sinkVars, toSink, request, requests, remoteDown, heldOver >>

RunKeyStateCallback ==
    /\ callbackQueue # << >>
    /\ injectQueue' = Append(injectQueue, Head(callbackQueue))
    /\ callbackQueue' = Tail(callbackQueue)
    /\ UNCHANGED << userVars, sinkVars, toSource, toSink, request, requests, remoteDown,
                    heldOver >>

\* The kernel changes the state of a key on a press or a release only.
InjectInputEvent ==
    /\ injectQueue # << >>
    /\ injectQueue' = Tail(injectQueue)
    /\ LET e == Head(injectQueue)
       IN  remoteDown' = [remoteDown EXCEPT ![e.dhId] =
                            CASE e.value = "down"   -> @ \cup {e.code}
                              [] e.value = "up"     -> @ \ {e.code}
                              [] e.value = "repeat" -> @]
    /\ UNCHANGED << userVars, sinkVars, toSource, toSink, request, requests, callbackQueue,
                    heldOver >>

(***************************************************************************)
(* PreInit records what is down before the collector starts, a key after   *)
(* the other in the order of their codes.                                  *)
(***************************************************************************)
PressedKeys(S) == CHOOSE s \in SetToSeqs(S) : \A i, j \in DOMAIN s : i < j => s[i] < s[j]

Init ==
    /\ down \in [DhIds -> SUBSET Keys]
    /\ keyDownState = [d \in DhIds |-> PressedKeys(down[d])]
    /\ kernel = [d \in DhIds |-> << >>]
    /\ collector = Idle
    /\ sharedDHIds = {} /\ lastSessionId = 0 /\ switchOn = FALSE /\ handler = None
    /\ eventQueue = << >> /\ toSource = << >> /\ toSink = << >>
    /\ request = None /\ callbackQueue = << >> /\ injectQueue = << >>
    /\ remoteDown = [d \in DhIds |-> {}]
    /\ strokes = 0 /\ requests = 0
    /\ stamp = [d \in DhIds |-> [k \in Keys |-> 0]]
    /\ heldOver = [d \in DhIds |-> {}]

Next ==
    \/ \E d \in DhIds, k \in Keys : Press(d, k)
    \/ \E d \in DhIds, k \in Keys : Release(d, k)
    \/ \E d \in DhIds, k \in Keys : Repeat(d, k)
    \/ \E d \in DhIds : ReadEvents(d)
    \/ CheckShared
    \/ RecordEvent
    \/ RecordedAll
    \/ StartRecordDhIds
    \/ StartSetSharing
    \/ StopRemoteInputDhid
    \/ SendEvents
    \/ \E d \in DhIds : StartRemoteInput(d)
    \/ \E d \in DhIds : StopRemoteInput(d)
    \/ SendStop
    \/ ReceiveFromSink
    \/ RunKeyStateCallback
    \/ InjectInputEvent

Spec == Init /\ [][Next]_vars

(***************************************************************************)
(* Properties of disciplined use: nobody strokes a key while a start or a  *)
(* stop is under way, nobody starts or stops while strokes are.            *)
(***************************************************************************)

\* The keys recorded for a device are in the order in which they were last
\* pressed or repeated, each once, whatever was released between; keys that were
\* down before the collector started come in any order
\* (CheckAndSetLongPressedKeyOrder).
RecordedInPressOrder ==
    \A d \in DhIds :
        kernel[d] = << >> /\ collector.dhId # d =>
            \A i, j \in DOMAIN keyDownState[d] :
                LET first  == keyDownState[d][i]
                    second == keyDownState[d][j]
                IN  i < j => /\ first # second
                             /\ stamp[d][second] > 0 => stamp[d][first] < stamp[d][second]

\* A device that is not shared has exactly its held keys recorded, but for those
\* that were held when it was taken back; a shared device has none.
RecordIsComplete ==
    \A d \in DhIds :
        kernel[d] = << >> /\ collector.dhId # d /\ handler # d =>
            ToSet(keyDownState[d]) = IF d \in sharedDHIds THEN {} ELSE down[d] \ heldOver[d]

\* When nothing is under way, the virtual keyboard of a source has exactly the
\* keys down that are held on the shared keyboard, those included that were
\* pressed before it was shared, and none once it is taken back.
SourceFollowsKeyboard ==
    Settled =>
        \A d \in Keyboards :
            remoteDown[d] = IF d \in sharedDHIds THEN down[d] \ heldOver[d] ELSE {}

\* The strokes of a device arrive in the order they were made and each at most
\* once, from the kernel's buffer over the sender's queue, the session and the
\* inject queue.
Made(s) == {i \in DOMAIN s : s[i].n > 0}
InOrder(s) == \A i, j \in Made(s) : i < j => (s[i].dhId = s[j].dhId => s[i].n < s[j].n)

StrokesInOrder ==
    InOrder(injectQueue \o FlattenSeq([i \in DOMAIN toSource |-> toSource[i].events])
              \o FlattenSeq(eventQueue) \o collector.read)

(***************************************************************************)
(* What a comment of the code says, and the code does not do.              *)
(***************************************************************************)

\* "Deal mouse left keydown reset" (input_hub.cpp, DealNormalKeyEvent): a left
\* button that was pressed while the mouse was shared and released after it was
\* taken back is released at the source too.
LeftButtonIsReset ==
    Settled =>
        \A d \in Mice \ sharedDHIds :
            BTN_MOUSE \in remoteDown[d] => BTN_MOUSE \in down[d]
===============================================================================
