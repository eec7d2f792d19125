---------------------------- MODULE SourceSessions ----------------------------
(***************************************************************************)
(* The sessions of a source and the two threads that live as long as there *)
(* is one: DistributedInputTransportBase                                   *)
(* (services/transportbase/src/distributed_input_transport_base.cpp) and   *)
(* the thread counters of DistributedInputSourceTransport                  *)
(* (services/source/transport/src/distributed_input_source_transport.cpp). *)
(*                                                                         *)
(* A prepare opens a session with the sink and counts it in                *)
(* latencyThreadNum and injectThreadNum; the first one starts the threads. *)
(* The end of a session counts it out; the last one stops the threads.     *)
(* The counters are atomics, but a test and the step after it are two      *)
(* steps here as in the code.  remoteDevSessionMap_ is guarded by          *)
(* operationMutex_, which OnSessionClosed keeps while it calls back.       *)
(*                                                                         *)
(* Callers are the threads that prepare and release: those of the clients, *)
(* and the one that serves a relay's request.  The callback thread of the  *)
(* softbus delivers the replies, and the sessions the peers open and end,  *)
(* one at a time.  The inject thread is the subject of InjectThread; here  *)
(* it runs or not.                                                         *)
(***************************************************************************)
EXTENDS Integers, FiniteSets

CONSTANTS
    Devices,     (* the remote devices                                      *)
    NoDevice,    (* the empty device id                                     *)
    Callers,     (* the threads that prepare and release                    *)
    Serial,      (* TRUE: calls and callbacks do not overlap                *)
    MaxOpens,    (* bound: sessions opened in a behaviour                   *)
    MaxCount,    (* bound: what a prepare may raise the counters to         *)
    MaxReplies   (* bound: replies under way at a time                      *)

ASSUME SessionAssumption ==
    /\ NoDevice \notin Devices
    /\ Serial \in BOOLEAN
    /\ MaxOpens \in Nat /\ MaxCount \in Nat /\ MaxReplies \in Nat

VARIABLES
    sessionMap,   (* remoteDevSessionMap_: a session id by device, 0 when   *)
                  (* there is none                                          *)
    sessions,     (* the sessions that are up at the softbus                *)
    opened,       (* history: how many sessions were opened; they are       *)
                  (* numbered as they come                                  *)
    replies,      (* the replies under way to an unprepare: toSrc when a    *)
                  (* relay gives it                                         *)
    caller,       (* where each caller is, and with what                    *)
    bus,          (* where the callback thread is, and with what            *)
    injectThreadNum, latencyThreadNum,
    injectRunning,  (* the inject thread is started and not stopped         *)
    latencyRunning, (* isLatencyThreadRunning_                              *)
    latencyThread,  (* where the latency thread is; "none" when             *)
                    (* latencyThread_ is not joinable                       *)
    terminated,   (* std::terminate ended the process                       *)
    sinkLoaded,   (* sinkCallback_ is set: the process has held the sink    *)
                  (* service too                                            *)
    inUse,        (* history: the devices that were prepared and not closed *)
                  (* or released since                                      *)
    overCounted,  (* history: a device in use was counted twice, or its end *)
                  (* was not counted                                        *)
    strangers     (* history: the end of a session was counted whose device *)
                  (* was not in use                                         *)

sessionVars == << sessionMap, sessions, opened, replies >>
counters    == << injectThreadNum, latencyThreadNum >>
threads     == << injectRunning, latencyRunning, latencyThread, terminated >>
histories   == << inUse, overCounted, strangers >>
sourceVars == << sessionVars, caller, bus, counters, threads, sinkLoaded, histories >>

CallerStates == {"idle", "connect", "open", "latency", "latencyInc", "inject", "injectInc",
                 "releaseLatency", "releaseJoin"}
BusStates    == {"idle", "stop", "erase", "inject", "injectDec", "latency", "latencyJoin",
                 "latencyDec"}

Idle    == [at |-> "idle", dev |-> NoDevice, toSrc |-> FALSE, session |-> 0]
BusIdle == [at |-> "idle", dev |-> NoDevice, toSrc |-> FALSE, locked |-> FALSE]

SourceTypeOK ==
    /\ sessionMap \in [Devices -> 0 .. opened]
    /\ sessions \in SUBSET [id : 1 .. opened, dev : Devices]
    /\ opened \in Nat /\ replies \subseteq [session : 1 .. opened, dev : Devices, toSrc : BOOLEAN]
    /\ caller \in [Callers -> [at : CallerStates, dev : Devices \cup {NoDevice},
                               toSrc : BOOLEAN, session : 0 .. opened]]
    /\ bus \in [at : BusStates, dev : Devices \cup {NoDevice}, toSrc : BOOLEAN, locked : BOOLEAN]
    /\ injectThreadNum \in Int /\ latencyThreadNum \in Int
    /\ injectRunning \in BOOLEAN /\ latencyRunning \in BOOLEAN /\ terminated \in BOOLEAN
    /\ sinkLoaded \in BOOLEAN
    /\ latencyThread \in {"none", "test", "count", "done"}
    /\ inUse \subseteq Devices /\ overCounted \in BOOLEAN /\ strangers \in BOOLEAN

SourceInit ==
    /\ sessionMap = [d \in Devices |-> 0] /\ sessions = {} /\ opened = 0 /\ replies = {}
    /\ caller = [c \in Callers |-> Idle]
    /\ bus = BusIdle
    /\ injectThreadNum = 0 /\ latencyThreadNum = 0
    /\ injectRunning = FALSE /\ latencyRunning = FALSE /\ latencyThread = "none"
    /\ terminated = FALSE /\ sinkLoaded = FALSE
    /\ inUse = {} /\ overCounted = FALSE /\ strangers = FALSE

(***************************************************************************)
(* Who may run.                                                            *)
(***************************************************************************)
\* operationMutex_ of the transport base is free.
MapFree == ~bus.locked

Quiet == bus.at = "idle" /\ \A c \in Callers : caller[c].at = "idle"

MayBegin == ~terminated /\ (Serial => Quiet)

At(c, state) == caller[c].at = state /\ ~terminated

Goto(c, state) == caller' = [caller EXCEPT ![c].at = state]

Return(c) == caller' = [caller EXCEPT ![c] = Idle]

BusGoto(state) == bus' = [bus EXCEPT !.at = state]

\* GetDevIdBySessionId: a session that another one has replaced has no device.
DevIdOf(id) ==
    IF \E d \in Devices : sessionMap[d] = id
    THEN CHOOSE d \in Devices : sessionMap[d] = id
    ELSE NoDevice

(***************************************************************************)
(* Opening a session: OpenInputSoftbus.                                    *)
(***************************************************************************)
\* A session that is in the map already is not opened again.  toSrc: the other
\* device is to prepare the sink for us, and the session is not counted.
OpenInputSoftbus(c, d, toSrc) ==
    /\ caller[c].at = "idle" /\ MayBegin /\ MapFree
    /\ ~toSrc => latencyThreadNum < MaxCount
    /\ LET known == sessionMap[d] # 0
       IN  caller' = [caller EXCEPT ![c] =
               [at      |-> IF ~known THEN "connect" ELSE IF toSrc THEN "idle" ELSE "latency",
                dev     |-> IF known /\ toSrc THEN NoDevice ELSE d,
                toSrc   |-> toSrc /\ ~known,
                session |-> 0]]
    /\ UNCHANGED << sessionVars, bus, counters, threads, sinkLoaded, histories >>

\* Socket and Bind, which may fail (permission, link), without a lock.
Bind(c) ==
    /\ At(c, "connect")
    /\ \/ /\ opened < MaxOpens
          /\ opened' = opened + 1
          /\ sessions' = sessions \cup {[id |-> opened + 1, dev |-> caller[c].dev]}
          /\ caller' = [caller EXCEPT ![c].at = "open", ![c].session = opened + 1]
       \/ /\ Return(c)
          /\ UNCHANGED << opened, sessions >>
    /\ UNCHANGED << sessionMap, replies, bus, counters, threads, sinkLoaded, histories >>

OnSessionOpened(c) ==
    /\ At(c, "open") /\ MapFree
    /\ sessionMap' = [sessionMap EXCEPT ![caller[c].dev] = caller[c].session]
    /\ IF caller[c].toSrc THEN Return(c) ELSE Goto(c, "latency")
    /\ UNCHANGED << sessions, opened, replies, bus, counters, threads, sinkLoaded, histories >>

\* Assigning to a std::thread that is joinable ends the process.
StartLatencyThread(c) ==
    /\ At(c, "latency")
    /\ \/ /\ latencyThreadNum = 0
          /\ latencyRunning' = TRUE
          /\ latencyThread' = "test"
          /\ terminated' = (latencyThread # "none")
       \/ /\ latencyThreadNum # 0
          /\ UNCHANGED << latencyRunning, latencyThread, terminated >>
    /\ Goto(c, "latencyInc")
    /\ UNCHANGED << sessionVars, bus, counters, injectRunning, sinkLoaded, histories >>

CountLatency(c) ==
    /\ At(c, "latencyInc")
    /\ latencyThreadNum' = latencyThreadNum + 1
    /\ Goto(c, "inject")
    /\ UNCHANGED << sessionVars, bus, injectThreadNum, threads, sinkLoaded, histories >>

StartInjectThread(c) ==
    /\ At(c, "inject")
    /\ injectRunning' = (injectRunning \/ injectThreadNum = 0)
    /\ Goto(c, "injectInc")
    /\ UNCHANGED << sessionVars, bus, counters, latencyRunning, latencyThread, terminated,
                    sinkLoaded, histories >>

CountInject(c) ==
    /\ At(c, "injectInc")
    /\ injectThreadNum' = injectThreadNum + 1
    /\ inUse' = inUse \cup {caller[c].dev}
    /\ overCounted' = (overCounted \/ caller[c].dev \in inUse)
    /\ Return(c)
    /\ UNCHANGED << sessionVars, bus, latencyThreadNum, threads, sinkLoaded, strangers >>

(***************************************************************************)
(* The requests of the callers that end sessions.                          *)
(***************************************************************************)
\* The sink, or the relay when toSrc, answers in its time.
UnprepareRemoteInput(d, toSrc) ==
    /\ MayBegin /\ MapFree /\ sessionMap[d] # 0
    /\ Cardinality(replies) < MaxReplies
    /\ replies' = replies \cup {[session |-> sessionMap[d], dev |-> d, toSrc |-> toSrc]}
    /\ UNCHANGED << sessionMap, sessions, opened, caller, bus, counters, threads, sinkLoaded,
                    histories >>

\* A faulty release that does not reset the counter (a mutant).
ReleaseCounted(c) ==
    /\ caller[c].at = "idle" /\ MayBegin
    /\ injectRunning' = (injectRunning /\ injectThreadNum <= 0)
    /\ inUse' = {}
    /\ Goto(c, "releaseLatency")
    /\ UNCHANGED << sessionVars, bus, counters, latencyRunning, latencyThread, terminated,
                    sinkLoaded, overCounted, strangers >>

\* Release of the source: the threads are stopped whatever the sessions are.
ReleaseInject(c) ==
    /\ caller[c].at = "idle" /\ MayBegin
    /\ injectRunning' = (injectRunning /\ injectThreadNum <= 0)
    /\ injectThreadNum' = IF injectThreadNum > 0 THEN 0 ELSE injectThreadNum
    /\ inUse' = {}
    /\ Goto(c, "releaseLatency")
    /\ UNCHANGED << sessionVars, bus, latencyThreadNum, latencyRunning, latencyThread, terminated,
                    sinkLoaded, overCounted, strangers >>

ReleaseLatency(c) ==
    /\ At(c, "releaseLatency")
    /\ IF latencyThreadNum > 0
       THEN latencyRunning' = FALSE /\ Goto(c, "releaseJoin")
       ELSE UNCHANGED latencyRunning /\ Return(c)
    /\ UNCHANGED << sessionVars, bus, counters, injectRunning, latencyThread, terminated,
                    sinkLoaded, histories >>

\* join returns when the thread has ended; there is nothing to join after it.
LatencyJoined == latencyThread \in {"none", "done"} /\ latencyThread' = "none"

ReleaseJoin(c) ==
    /\ At(c, "releaseJoin") /\ LatencyJoined
    /\ latencyThreadNum' = 0
    /\ Return(c)
    /\ UNCHANGED << sessionVars, bus, injectThreadNum, injectRunning, latencyRunning, terminated,
                    sinkLoaded, histories >>

\* The sink service is loaded into the process; its release ends every session.
LoadSink ==
    /\ ~terminated /\ ~sinkLoaded /\ sinkLoaded' = TRUE
    /\ UNCHANGED << sessionVars, caller, bus, counters, threads, histories >>

StopAllSession ==
    /\ sinkLoaded /\ MayBegin /\ MapFree
    /\ sessions' = {s \in sessions : s.id \notin {sessionMap[d] : d \in Devices}}
    /\ sessionMap' = [d \in Devices |-> 0]
    /\ overCounted' = (overCounted \/ inUse # {})
    /\ inUse' = {}
    /\ UNCHANGED << opened, replies, caller, bus, counters, threads, sinkLoaded, strangers >>

(***************************************************************************)
(* The callback thread.                                                    *)
(***************************************************************************)
BusFree == bus.at = "idle" /\ ~terminated

\* OnBind: the peer opens a session with us, as its sink or to relay.
PeerOpens(d) ==
    /\ BusFree /\ MayBegin /\ opened < MaxOpens
    /\ opened' = opened + 1
    /\ sessions' = sessions \cup {[id |-> opened + 1, dev |-> d]}
    /\ sessionMap' = [sessionMap EXCEPT ![d] = opened + 1]
    /\ UNCHANGED << replies, caller, bus, counters, threads, sinkLoaded, histories >>

\* The device of a relay's reply is in the message, that of a sink's reply is
\* the one of the session.
NotifyResponseUnprepare(r) ==
    /\ BusFree /\ r \in replies /\ MayBegin
    /\ replies' = replies \ {r}
    /\ LET d == IF r.toSrc THEN r.dev ELSE DevIdOf(r.session)
       IN  bus' = IF d = NoDevice
                  THEN BusIdle
                  ELSE [BusIdle EXCEPT !.at = "stop", !.dev = d, !.toSrc = r.toSrc]
    /\ UNCHANGED << sessionMap, sessions, opened, caller, counters, threads, sinkLoaded,
                    histories >>

\* A faulty stop that counts the session out inside the lock (a mutant).
StopSessionLocked ==
    /\ bus.at = "stop" /\ ~terminated /\ MapFree
    /\ sessions' = {s \in sessions : s.id # sessionMap[bus.dev]}
    /\ sessionMap' = [sessionMap EXCEPT ![bus.dev] = 0]
    /\ inUse' = inUse \ {bus.dev}
    /\ bus' = [bus EXCEPT !.at = "inject", !.locked = TRUE]
    /\ strangers' = (strangers \/ bus.dev \notin inUse)
    /\ UNCHANGED << opened, replies, caller, counters, threads, sinkLoaded, overCounted >>

\* CloseInputSoftbus: the session is closed, and counted out unless toSrc.
StopSession ==
    /\ bus.at = "stop" /\ ~terminated /\ MapFree
    /\ sessions' = {s \in sessions : s.id # sessionMap[bus.dev]}
    /\ sessionMap' = [sessionMap EXCEPT ![bus.dev] = 0]
    /\ inUse' = inUse \ {bus.dev}
    /\ IF bus.toSrc
       THEN /\ bus' = BusIdle
            /\ overCounted' = (overCounted \/ bus.dev \in inUse)
            /\ UNCHANGED strangers
       ELSE /\ BusGoto("inject")
            /\ strangers' = (strangers \/ bus.dev \notin inUse)
            /\ UNCHANGED overCounted
    /\ UNCHANGED << opened, replies, caller, counters, threads, sinkLoaded >>

\* OnSessionClosed: the session is gone.  The device is looked up, and erased
\* in a second section of the lock, which the callbacks are made in.
OnSessionClosed(s) ==
    /\ BusFree /\ MapFree /\ s \in sessions /\ MayBegin
    /\ sessions' = sessions \ {s}
    /\ replies' = {r \in replies : r.session # s.id}
    /\ bus' = [BusIdle EXCEPT !.at = "erase", !.dev = DevIdOf(s.id)]
    /\ UNCHANGED << sessionMap, opened, caller, counters, threads, sinkLoaded,
                    histories >>

EraseSession ==
    /\ bus.at = "erase" /\ ~terminated
    /\ sessionMap' = [d \in Devices |-> IF d = bus.dev THEN 0 ELSE sessionMap[d]]
    /\ inUse' = inUse \ {bus.dev}
    /\ IF sinkLoaded
       THEN /\ bus' = [bus EXCEPT !.at = "inject", !.locked = TRUE]
            /\ strangers' = (strangers \/ bus.dev \notin inUse)
            /\ UNCHANGED overCounted
       ELSE /\ bus' = BusIdle
            /\ overCounted' = (overCounted \/ bus.dev \in inUse)
            /\ UNCHANGED strangers
    /\ UNCHANGED << sessions, opened, replies, caller, counters, threads, sinkLoaded >>

(***************************************************************************)
(* SessionClosed: the end of a session is counted.                         *)
(***************************************************************************)
\* A faulty end that stops the thread before the last session (a mutant).
CloseInjectEarly ==
    /\ bus.at = "inject" /\ ~terminated
    /\ injectRunning' = FALSE
    /\ BusGoto(IF injectThreadNum >= 1 THEN "injectDec" ELSE "latency")
    /\ UNCHANGED << sessionVars, caller, counters, latencyRunning, latencyThread, terminated,
                    sinkLoaded, histories >>

CloseInject ==
    /\ bus.at = "inject" /\ ~terminated
    /\ injectRunning' = (injectRunning /\ injectThreadNum # 1)
    /\ BusGoto(IF injectThreadNum >= 1 THEN "injectDec" ELSE "latency")
    /\ UNCHANGED << sessionVars, caller, counters, latencyRunning, latencyThread, terminated,
                    sinkLoaded, histories >>

CloseInjectCount ==
    /\ bus.at = "injectDec" /\ ~terminated
    /\ injectThreadNum' = injectThreadNum - 1
    /\ BusGoto("latency")
    /\ UNCHANGED << sessionVars, caller, latencyThreadNum, threads, sinkLoaded, histories >>

CloseLatency ==
    /\ bus.at = "latency" /\ ~terminated
    /\ latencyRunning' = (latencyRunning /\ latencyThreadNum # 1)
    /\ bus' = IF latencyThreadNum < 1
              THEN BusIdle
              ELSE [bus EXCEPT !.at = IF latencyThreadNum = 1 THEN "latencyJoin" ELSE "latencyDec"]
    /\ UNCHANGED << sessionVars, caller, counters, injectRunning, latencyThread, terminated,
                    sinkLoaded, histories >>

CloseJoin ==
    /\ bus.at = "latencyJoin" /\ ~terminated /\ LatencyJoined
    /\ BusGoto("latencyDec")
    /\ UNCHANGED << sessionVars, caller, counters, injectRunning, latencyRunning, terminated,
                    sinkLoaded, histories >>

CloseLatencyCount ==
    /\ bus.at = "latencyDec" /\ ~terminated
    /\ latencyThreadNum' = latencyThreadNum - 1
    /\ bus' = BusIdle
    /\ UNCHANGED << sessionVars, caller, injectThreadNum, threads, sinkLoaded, histories >>

(***************************************************************************)
(* The latency thread: it tests, counts and sleeps.                        *)
(***************************************************************************)
TestLatencyRunning ==
    /\ latencyThread = "test" /\ ~terminated
    /\ latencyThread' = IF latencyRunning THEN "count" ELSE "done"
    /\ UNCHANGED << sessionVars, caller, bus, counters, injectRunning, latencyRunning, terminated,
                    sinkLoaded, histories >>

LatencyCount ==
    /\ latencyThread = "count" /\ ~terminated /\ MapFree
    /\ latencyThread' = "test"
    /\ UNCHANGED << sessionVars, caller, bus, counters, injectRunning, latencyRunning, terminated,
                    sinkLoaded, histories >>

CallerStep(c) ==
    \/ Bind(c) \/ OnSessionOpened(c) \/ StartLatencyThread(c) \/ CountLatency(c)
    \/ StartInjectThread(c) \/ CountInject(c) \/ ReleaseLatency(c) \/ ReleaseJoin(c)

BusStep ==
    \/ StopSession \/ EraseSession
    \/ CloseInject \/ CloseInjectCount \/ CloseLatency \/ CloseJoin \/ CloseLatencyCount

LatencyStep == TestLatencyRunning \/ LatencyCount

SourceNext ==
    \/ \E c \in Callers, d \in Devices, toSrc \in BOOLEAN : OpenInputSoftbus(c, d, toSrc)
    \/ \E c \in Callers : ReleaseInject(c) \/ CallerStep(c)
    \/ \E d \in Devices, toSrc \in BOOLEAN : UnprepareRemoteInput(d, toSrc)
    \/ \E d \in Devices : PeerOpens(d)
    \/ \E r \in replies : NotifyResponseUnprepare(r)
    \/ \E s \in sessions : OnSessionClosed(s)
    \/ LoadSink \/ StopAllSession
    \/ BusStep \/ LatencyStep

SourceSpec == SourceInit /\ [][SourceNext]_sourceVars

\* The threads run; what they wait for is a free lock and the end of a thread.
FairSpec ==
    /\ SourceSpec
    /\ \A c \in Callers : WF_sourceVars(CallerStep(c))
    /\ WF_sourceVars(BusStep) /\ WF_sourceVars(LatencyStep)

(***************************************************************************)
(* Properties.                                                             *)
(***************************************************************************)
\* A device that was prepared and not closed since has its inject and its
\* latency thread running, as long as only sessions of prepared devices end:
\* OpenInputSoftbus and SessionClosed.
PreparedIsServed ==
    Quiet /\ ~strangers /\ inUse # {} =>
        injectRunning /\ latencyRunning /\ latencyThread \in {"test", "count"}

\* The two counters agree.  As long as only sessions of prepared devices end,
\* they never miss a prepared device, and count each exactly once when none was
\* prepared twice and every end was counted.
CountersCover ==
    Quiet =>
        /\ injectThreadNum = latencyThreadNum
        /\ ~strangers => injectThreadNum >= Cardinality(inUse)
        /\ ~strangers /\ ~overCounted => injectThreadNum = Cardinality(inUse)

\* The threads run exactly while the counters are positive, and a latency
\* thread that was told to stop was joined, whatever sessions ended.
ThreadsMatchCounters ==
    Quiet =>
        /\ injectRunning <=> injectThreadNum > 0
        /\ latencyRunning <=> latencyThreadNum > 0
        /\ latencyThread = "none" <=> latencyThreadNum = 0

\* latencyThread_ is never assigned while it is joinable, which would end the
\* process: StartLatencyThread and StopLatencyThread.
NeverTwoLatencyThreads == ~terminated

\* The reply to an unprepare is handled to its end, the joining of the latency
\* thread included: CloseInputSoftbus does not keep the lock the thread needs.
RepliesFinish == (bus.at = "stop") ~> (bus.at = "idle")

\* The end of a session is handled to its end: "OnSessionClosed finish".
CloseFinishes == (bus.at = "erase") ~> (bus.at = "idle")

\* The counters count the sessions of prepared devices: a device stays served
\* when a session ends that its peer had opened.
ServedBesidePeers == Quiet /\ inUse # {} => injectRunning

=============================================================================
