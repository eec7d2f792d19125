--------------------------------- MODULE Ipc ---------------------------------
(***************************************************************************)
(* The calls between the processes of one device: a process with a         *)
(* DistributedInputClient calls the source or the sink service, and the    *)
(* service calls the callbacks it was given (interfaces/ipc/src,           *)
(* common/include/input_check_param.cpp).  IpcMessages has the messages.   *)
(*                                                                         *)
(* A call holds sourceMutex_ or sinkMutex_ of its process until the reply  *)
(* is there, so each process has one call under way.  A call that fails in *)
(* the service, and a registration, may first call back, and the service   *)
(* waits for that before it replies.  Later the service may call back on   *)
(* its own.  A service may exit at any time; the call is then an error of  *)
(* SendRequest.                                                            *)
(***************************************************************************)
EXTENDS IpcMessages

CONSTANTS
    ALL,          (* DInputDeviceType::ALL, the union of the device types    *)
    MaxExits      (* bound: exits of the services                            *)

ASSUME IpcAssumption == ALL \in Nat /\ IPC_VECTOR_MAX_SIZE \in Nat /\ MaxExits \in Nat

(* The framework's process and one of an application. *)
Callers == {"framework", "user"}

VARIABLES
    slot,         (* the call of each process: its request, how far it is,   *)
                  (* what the service ran for it, and how that ended         *)
    heard,        (* what a callback heard in the last step, if it did       *)
    running,      (* the services run                                        *)
    exits,
    sourceManagerInitFlag,   (* of the stub of the source                    *)
    serverOpened  (* the source manager has opened its session server        *)

ipcVars == << slot, heard, running, exits, sourceManagerInitFlag, serverOpened >>

-----------------------------------------------------------------------------
(* The operations of DistributedInputClient, by the kinds of the arguments *)

Shape(op) ==
    CASE op = "Register"                                 -> << "src", "dhId", "params", "callback" >>
      [] op = "Unregister"                               -> << "src", "dhId", "callback" >>
      [] op \in {"Prepare", "Unprepare"}                 -> << "sink", "callback" >>
      [] op \in {"Start", "Stop"}                        -> << "sink", "types", "callback" >>
      [] op \in {"StartRelay", "StopRelay"}              -> << "src", "sink", "types", "callback" >>
      [] op \in {"PrepareRelay", "UnprepareRelay"}       -> << "src", "sink", "callback" >>
      [] op \in {"StartDhids", "StopDhids"}              -> << "sink", "dhIds", "callback" >>
      [] op \in {"StartRelayDhids", "StopRelayDhids"}    -> << "src", "sink", "dhIds", "callback" >>
      [] op \in {"RegisterSimulation", "UnregisterSimulation", "RegisterSessionState"}
                                                         -> << "callback" >>
      [] op \in {"AddWhiteList", "DelWhiteList", "Sharing", "SinkScreens"} -> << "own" >>
      [] op = "StopDScreen"                              -> << "key" >>
      [] op = "StartDScreen" -> << "src", "session", "key", "window", "width", "height",
                                   "dhId", "fd", "width", "height" >>
      [] OTHER -> <<>>

OperationsOf(c) ==
    IF c = "framework"
    THEN {"Init", "Release", "Register", "Unregister", "AddWhiteList", "DelWhiteList",
          "SinkInit", "SinkRelease", "Sharing", "SinkScreens", "StartDScreen", "StopDScreen"}
    ELSE {"Prepare", "Unprepare", "Start", "Stop", "PrepareRelay", "UnprepareRelay",
          "StartRelay", "StopRelay", "StartDhids", "StopDhids", "StartRelayDhids",
          "StopRelayDhids", "RegisterSimulation", "UnregisterSimulation",
          "RegisterSessionState", "UnregisterSessionState"}

TooLong == "longer than DEV_ID_LENGTH_MAX"

(* The values a call is made with: the usual one of each kind, *)
(* and in one place at most another one.                       *)
Usual(kind) ==
    CASE kind = "src" -> "source"    [] kind = "sink" -> "sink"     [] kind = "dhId" -> "h1"
      [] kind = "params" -> "params" [] kind = "types" -> 1         [] kind = "dhIds" -> << "h1" >>
      [] kind = "callback" -> "cb"   [] kind = "own" -> "cb"        [] kind = "key" -> "key"
      [] kind = "session" -> 1       [] kind = "window" -> 2        [] kind = "width" -> 3
      [] kind = "height" -> 4        [] kind = "fd" -> 5
Unusual(kind) ==
    CASE kind \in {"src", "sink", "dhId"} -> {"", TooLong}
      [] kind = "params"   -> {""}
      [] kind = "types"    -> {0, ALL, ALL + 1}
      [] kind = "dhIds"    -> {<<>>, << "" >>, << "", "h2" >>, << TooLong >>,
                               [i \in 1 .. IPC_VECTOR_MAX_SIZE + 1 |-> "h1"]}
      [] kind = "callback" -> {NullObject}
      [] OTHER -> {}

RequestsOf(op) ==
    LET usual == [i \in DOMAIN Shape(op) |-> Usual(Shape(op)[i])]
    IN  {Runs(op, args) :
            args \in {usual} \cup UNION {{[usual EXCEPT ![i] = v] : v \in Unusual(Shape(op)[i])}
                                            : i \in DOMAIN Shape(op)}}

(* DInputCheckParam: the client refuses what it does not pass. *)
ValidArgument(kind, v) ==
    CASE kind \in {"src", "sink", "dhId"} -> v # "" /\ v # TooLong
      [] kind = "params"   -> v # ""
      [] kind = "types"    -> v # 0 /\ v <= ALL
      [] kind = "dhIds"    -> v # <<>> /\ \A i \in DOMAIN v : v[i] # TooLong
      [] kind = "callback" -> v # NullObject
      [] OTHER -> TRUE
CheckParam(r) == r.op = "StartDScreen" \/ \A i \in DOMAIN r.args : ValidArgument(Shape(r.op)[i], r.args[i])

(* The message of a call: the proxy of its operation. *)
Proxy(r) ==
    LET a == r.args IN
    CASE r.op = "Init"           -> ProxyInit(a)
      [] r.op = "Release"        -> ProxyRelease(a)
      [] r.op = "Register"       -> ProxyRegister(a)
      [] r.op = "Unregister"     -> ProxyUnregister(a)
      [] r.op = "Prepare"        -> ProxyPrepare(a)
      [] r.op = "Unprepare"      -> ProxyUnprepare(a)
      [] r.op = "Start"          -> ProxyStart(a)
      [] r.op = "Stop"           -> ProxyStop(a)
      [] r.op = "PrepareRelay"   -> ProxyPrepareRelay(a)
      [] r.op = "UnprepareRelay" -> ProxyUnprepareRelay(a)
      [] r.op = "StartRelay"     -> ProxyStartRelay(a)
      [] r.op = "StopRelay"      -> ProxyStopRelay(a)
      [] r.op = "StartDhids"     -> ProxyStartDhids(a)
      [] r.op = "StopDhids"      -> ProxyStopDhids(a)
      [] r.op = "StartRelayDhids" -> ProxyStartRelayDhids(a)
      [] r.op = "StopRelayDhids" -> ProxyStopRelayDhids(a)
      [] r.op = "AddWhiteList"   -> ProxyAddWhiteList(a)
      [] r.op = "DelWhiteList"   -> ProxyDelWhiteList(a)
      [] r.op = "RegisterSimulation"     -> ProxyRegisterSimulation(a)
      [] r.op = "UnregisterSimulation"   -> ProxyUnregisterSimulation(a)
      [] r.op = "RegisterSessionState"   -> ProxyRegisterSessionState(a)
      [] r.op = "UnregisterSessionState" -> ProxyUnregisterSessionState(a)
      [] r.op = "SinkInit"       -> ProxySinkInit(a)
      [] r.op = "SinkRelease"    -> ProxySinkRelease(a)
      [] r.op = "StartDScreen"   -> ProxyStartDScreen(a)
      [] r.op = "StopDScreen"    -> ProxyStopDScreen(a)
      [] r.op = "Sharing"        -> ProxySharing(a)
      [] r.op = "SinkScreens"    -> ProxySinkScreens(a)

Stub(m) == IF m.to = "source" THEN SourceStub(m) ELSE SinkStub(m)

-----------------------------------------------------------------------------
(* What the service may tell a callback that it was given with r *)

DH_SUCCESS == 0
Statuses == {DH_SUCCESS, -1}

AnswersTo(r) ==
    LET a == r.args IN
    CASE r.op = "Register"   -> {Runs("OnRegister", << a[1], a[2], s >>) : s \in Statuses}
      [] r.op = "Unregister" -> {Runs("OnUnregister", << a[1], a[2], s >>) : s \in Statuses}
      [] r.op = "Prepare"    -> {Runs("OnPrepare", << a[1], s >>) : s \in Statuses}
      [] r.op = "Unprepare"  -> {Runs("OnUnprepare", << a[1], s >>) : s \in Statuses}
      [] r.op = "Start"      -> {Runs("OnStart", << a[1], a[2], s >>) : s \in Statuses}
      [] r.op = "Stop"       -> {Runs("OnStop", << a[1], a[2], s >>) : s \in Statuses}
      [] r.op = "PrepareRelay"   -> {Runs("OnPrepare", << a[2], s >>) : s \in Statuses}
      [] r.op = "UnprepareRelay" -> {Runs("OnUnprepare", << a[2], s >>) : s \in Statuses}
      [] r.op = "StartRelay" -> {Runs("OnStart", << a[2], a[3], s >>) : s \in Statuses}
      [] r.op = "StopRelay"  -> {Runs("OnStop", << a[2], a[3], s >>) : s \in Statuses}
      [] r.op \in {"StartDhids", "StopDhids"} -> {Runs("OnDhids", << a[1], s >>) : s \in Statuses}
      [] r.op \in {"StartRelayDhids", "StopRelayDhids"}
                             -> {Runs("OnDhids", << a[2], s >>) : s \in Statuses}
      [] r.op = "AddWhiteList" -> {Runs("OnAddWhiteList", << "sink", "keys" >>)}
      [] r.op = "DelWhiteList" -> {Runs("OnDelWhiteList", << "sink" >>)}
      [] r.op = "RegisterSimulation"   -> {Runs("OnSimulation", << 1, 30, v >>) : v \in {0, 1}}
      [] r.op = "RegisterSessionState" -> {Runs("OnSessionState", << "sink", v >>) : v \in {0, 1}}
      [] r.op = "Sharing"     -> {Runs("OnSharing", << "h1" >>), Runs("OnNoSharing", << "h1" >>)}
      [] r.op = "SinkScreens" -> {Runs("OnSinkScreens", << "screens" >>)}
      [] OTHER -> {}

CallbackProxy(r) ==
    CASE r.op = "OnRegister"     -> ProxyOnRegister(r.args)
      [] r.op = "OnUnregister"   -> ProxyOnUnregister(r.args)
      [] r.op = "OnPrepare"      -> ProxyOnPrepare(r.args)
      [] r.op = "OnUnprepare"    -> ProxyOnUnprepare(r.args)
      [] r.op = "OnStart"        -> ProxyOnStart(r.args)
      [] r.op = "OnStop"         -> ProxyOnStop(r.args)
      [] r.op = "OnDhids"        -> ProxyOnDhids(r.args)
      [] r.op = "OnAddWhiteList" -> ProxyOnAddWhiteList(r.args)
      [] r.op = "OnDelWhiteList" -> ProxyOnDelWhiteList(r.args)
      [] r.op = "OnSinkScreens"  -> ProxyOnSinkScreens(r.args)
      [] r.op = "OnSessionState" -> ProxyOnSessionState(r.args)
      [] r.op = "OnSimulation"   -> ProxyOnSimulation(r.args)
      [] r.op = "OnSharing"      -> ProxyOnSharing(r.args)
      [] r.op = "OnNoSharing"    -> ProxyOnNoSharing(r.args)

-----------------------------------------------------------------------------
(* A slot is idle, or its call was sent, waits for a callback that it caused, *)
(* was replied to, or has returned.  The outcome: "success" or "failure" was  *)
(* written to the reply, "silent" nothing was, "error" SendRequest failed,    *)
(* "refused" the client sent nothing.                                         *)
Idle == [at |-> "idle", req |-> NoRequest, ran |-> NoRequest, done |-> FALSE, outcome |-> "none"]

IpcInit ==
    /\ slot = [c \in Callers |-> Idle]
    /\ heard = NoRequest
    /\ running = TRUE /\ exits = 0
    /\ sourceManagerInitFlag = FALSE /\ serverOpened = FALSE

(* A function of DistributedInputClient is called; sourceMutex_ is free. *)
Call(c, r) ==
    /\ slot[c].at = "idle"
    /\ slot' = [slot EXCEPT ![c] = [Idle EXCEPT !.req = r,
                    !.at = IF CheckParam(r) THEN "sent" ELSE "returned",
                    !.outcome = IF CheckParam(r) THEN "none" ELSE "refused"]]
    /\ heard' = NoRequest
    /\ UNCHANGED << running, exits, sourceManagerInitFlag, serverOpened >>

(* Operations that call back before they return: with a failure that they also *)
(* return, or, a registration, with the result of the node.                    *)
CallsBack(op, ok) ==
    \/ op = "Register"
    \/ op \in {"Unregister", "Prepare", "Unprepare", "Start", "Stop"} /\ ~ok

(* The handlers of the sink return the result itself, which SendRequest takes *)
(* for an error when it is one; those of the source return DH_SUCCESS.        *)
ReturnsResult(op) == op \in {"SinkInit", "SinkRelease", "StartDScreen", "StopDScreen", "SinkScreens"}

OutcomeUnwritten(op, ok) ==       (* a mutant of the next: the handler writes no ret *)
    IF ok THEN "success" ELSE IF ReturnsResult(op) THEN "error" ELSE "silent"
Outcome(op, ok) == IF ok THEN "success" ELSE IF ReturnsResult(op) THEN "error" ELSE "failure"

Replied(c, ran, ok, outcome) ==
    slot' = [slot EXCEPT ![c].at = "replied", ![c].ran = ran, ![c].done = ok, ![c].outcome = outcome]

(* HandleInitDistributedHardware: nothing is written when it was done before, *)
(* and the flag is set whatever Init returned.                                *)
HandleInitDistributedHardware(c, ran, ok) ==
    IF sourceManagerInitFlag
    THEN /\ Replied(c, ran, serverOpened, "silent")
         /\ UNCHANGED << sourceManagerInitFlag, serverOpened >>
    ELSE /\ Replied(c, ran, ok, Outcome("Init", ok))
         /\ sourceManagerInitFlag' = TRUE /\ serverOpened' = ok

HandleReleaseDistributedHardware(c, ran, ok) ==
    IF ~sourceManagerInitFlag
    THEN /\ Replied(c, ran, TRUE, "silent")
         /\ UNCHANGED << sourceManagerInitFlag, serverOpened >>
    ELSE /\ Replied(c, ran, ok, Outcome("Release", ok))
         /\ sourceManagerInitFlag' = FALSE /\ serverOpened' = FALSE

(* The other operations, of which some call back first. *)
HandleOperation(c, ran, ok) ==
    /\ \/ Replied(c, ran, ok, Outcome(ran.op, ok))
       \/ /\ CallsBack(ran.op, ok)
          /\ slot' = [slot EXCEPT ![c].at = "calling", ![c].ran = ran, ![c].done = ok]
    /\ UNCHANGED << sourceManagerInitFlag, serverOpened >>

(* OnRemoteRequest: the handler of the code runs its operation, unless the *)
(* caller lacks the permission or the parcel lacks the callback.           *)
OnRemoteRequest(c) ==
    /\ slot[c].at = "sent" /\ running
    /\ LET ran == Stub(Proxy(slot[c].req)) IN
       \/ /\ Replied(c, NoRequest, FALSE, "error")
          /\ UNCHANGED << sourceManagerInitFlag, serverOpened >>
       \/ /\ ran # NoRequest
          /\ \E ok \in BOOLEAN :
                CASE ran.op = "Init"    -> HandleInitDistributedHardware(c, ran, ok)
                  [] ran.op = "Release" -> HandleReleaseDistributedHardware(c, ran, ok)
                  [] OTHER              -> HandleOperation(c, ran, ok)
    /\ heard' = NoRequest
    /\ UNCHANGED << running, exits >>

(* The mutexes of its process that a call holds while the service works, *)
(* and those that a callback takes in the same process.                  *)
LocksOfCall(c) == IF slot[c].at \in {"idle", "returned"} THEN {} ELSE {"sourceMutex"}
LocksOfResultOfCall == {"sourceMutex"}      (* a mutant of the next *)
LocksOfResult == {"operationMutex"}

Hear(c, a) ==
    /\ LocksOfResult \cap LocksOfCall(c) = {}
    /\ heard' = [from |-> slot[c].req, what |-> CallbackStub(CallbackProxy(a))]

(* The callback of a call under way: the service waits for it, then replies. *)
CallBack(c) ==
    /\ slot[c].at = "calling" /\ running
    /\ \E a \in AnswersTo(slot[c].ran) : Hear(c, a)
    /\ Replied(c, slot[c].ran, slot[c].done, Outcome(slot[c].ran.op, slot[c].done))
    /\ UNCHANGED << running, exits, sourceManagerInitFlag, serverOpened >>

(* The callback of a call that succeeded, called by a thread of the service. *)
CallBackLater(c) ==
    /\ slot[c].at = "returned" /\ slot[c].done /\ running
    /\ \E a \in AnswersTo(slot[c].ran) : Hear(c, a)
    /\ UNCHANGED << slot, running, exits, sourceManagerInitFlag, serverOpened >>

(* The proxy's SendRequest of a service that is gone *)
SendRequestFails(c) ==
    /\ slot[c].at \in {"sent", "calling"} /\ ~running
    /\ Replied(c, slot[c].ran, FALSE, "error")
    /\ heard' = NoRequest
    /\ UNCHANGED << running, exits, sourceManagerInitFlag, serverOpened >>

(* The proxy reads the reply; the mutex is released. *)
Return(c) ==
    /\ slot[c].at = "replied"
    /\ slot' = [slot EXCEPT ![c].at = "returned"]
    /\ heard' = NoRequest
    /\ UNCHANGED << running, exits, sourceManagerInitFlag, serverOpened >>

(* What the proxy returns: the reply, of which an empty one reads as zero, or  *)
(* the error that it has for the operation.                                    *)
Told(outcome) == outcome \in {"success", "silent"}

Forget(c) ==
    /\ slot[c].at = "returned"
    /\ slot' = [slot EXCEPT ![c] = Idle]
    /\ heard' = NoRequest
    /\ UNCHANGED << running, exits, sourceManagerInitFlag, serverOpened >>

(* The services exit with all they hold, and are loaded again. *)
Exit ==
    /\ running /\ exits < MaxExits
    /\ running' = FALSE /\ exits' = exits + 1
    /\ sourceManagerInitFlag' = FALSE /\ serverOpened' = FALSE
    /\ heard' = NoRequest
    /\ slot' = [c \in Callers |-> IF slot[c].at = "returned" THEN Idle ELSE slot[c]]

LoadAgain ==
    /\ ~running
    /\ running' = TRUE
    /\ heard' = NoRequest
    /\ UNCHANGED << slot, exits, sourceManagerInitFlag, serverOpened >>

Step(c) ==
    OnRemoteRequest(c) \/ CallBack(c) \/ SendRequestFails(c) \/ Return(c)

IpcNext ==
    \/ \E c \in Callers :
        \/ \E op \in OperationsOf(c) : \E r \in RequestsOf(op) : Call(c, r)
        \/ Step(c) \/ CallBackLater(c) \/ Forget(c)
    \/ Exit \/ LoadAgain

(* The processes and the threads of the services keep running. *)
IpcSpec == IpcInit /\ [][IpcNext]_ipcVars /\ \A c \in Callers : WF_ipcVars(Step(c))

-----------------------------------------------------------------------------
Phases == {"idle", "sent", "calling", "replied", "returned"}

(* Each slot is in a phase, holds a request of its process from the time it is *)
(* called until it is forgotten, and what a stub ran is an operation.          *)
IpcTypeOK ==
    /\ \A c \in Callers :
        /\ slot[c].at \in Phases
        /\ slot[c].at # "idle" => slot[c].req.op \in OperationsOf(c)
        /\ slot[c].ran # NoRequest => slot[c].ran.op \in OperationsOf(c)
        /\ slot[c].done \in BOOLEAN
        /\ slot[c].outcome \in {"none", "success", "failure", "silent", "error", "refused"}
    /\ {running, sourceManagerInitFlag, serverOpened} \subseteq BOOLEAN
    /\ exits \in 0 .. MaxExits

(* What a service runs is the operation its client was called for, with the    *)
(* arguments that were given, but for the empty dhIds, which the stubs leave   *)
(* out (the proxies and stubs of interfaces/ipc/src agree on every message).   *)
Kept(kind, v) == IF kind = "dhIds" THEN NonEmpty(v) ELSE v
ArrivesAsSent ==
    \A c \in Callers : slot[c].ran # NoRequest =>
        LET r == slot[c].req
        IN  slot[c].ran = Runs(r.op, [i \in DOMAIN r.args |-> Kept(Shape(r.op)[i], r.args[i])])

(* A call that returns DH_SUCCESS was carried out: an exit, a missing          *)
(* permission or a refused parcel is never taken for a success, an empty reply *)
(* is one only where nothing was left to do.  (Of Init: InitIsInit.)           *)
SuccessIsDone ==
    \A c \in Callers :
        (slot[c].at = "returned" /\ Told(slot[c].outcome) /\ slot[c].req.op # "Init")
            => slot[c].ran # NoRequest /\ slot[c].done

(* What a callback hears is an answer to the request it was given with: of its *)
(* kind, for its device, dhId and types, in its own interface.                 *)
AnswerFits == heard # NoRequest => heard.what \in AnswersTo(heard.from)

(* A call of the source's Init that returns DH_SUCCESS leaves the source       *)
(* manager initialised (the stub says "already init", whatever came of it).    *)
InitIsInit ==
    \A c \in Callers :
        (slot[c].at = "returned" /\ Told(slot[c].outcome) /\ slot[c].req.op = "Init")
            => slot[c].done

(* Every call returns: a callback that the service makes on the way never      *)
(* needs a mutex that the call holds, and an exit ends the wait.               *)
CallsReturn == \A c \in Callers : slot[c].at = "sent" ~> slot[c].at \in {"idle", "returned"}
=============================================================================
