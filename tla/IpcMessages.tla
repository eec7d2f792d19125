----------------------------- MODULE IpcMessages -----------------------------
(***************************************************************************)
(* The messages between the processes of one device: what each proxy of    *)
(* interfaces/ipc writes into a parcel, and what the stub for it reads.    *)
(*                                                                         *)
(* A parcel is the sequence of its cells, each with the type it was        *)
(* written as; a read of another type, or behind the end, returns the      *)
(* default of the type, as the calls of MessageParcel do.  A request is    *)
(* the name of an operation with the tuple of its arguments, in the order  *)
(* of the C++ declaration; operations that C++ overloads have names of     *)
(* their own here.  A message is the code of an interface with a parcel.   *)
(***************************************************************************)
EXTENDS Naturals, Sequences, SequencesExt

CONSTANT IPC_VECTOR_MAX_SIZE      (* the longest list a stub takes           *)

NullObject == "null"                    (* a null pointer to a callback            *)
NoRequest == [op |-> "none", args |-> <<>>]

-----------------------------------------------------------------------------
(* Parcels, as the proxies and stubs use them *)

WriteString(s)       == << [type |-> "string", value |-> s] >>
WriteUint32(n)       == << [type |-> "uint32", value |-> n] >>
WriteInt32(n)        == << [type |-> "int32", value |-> n] >>
WriteUint64(n)       == << [type |-> "uint64", value |-> n] >>
WriteRemoteObject(o) == << [type |-> "object", value |-> o] >>
WriteStrings(ss) ==
    WriteUint32(Len(ss)) \o [i \in DOMAIN ss |-> [type |-> "string", value |-> ss[i]]]

Read(data, i, type, default) ==
    IF i \in DOMAIN data /\ data[i].type = type THEN data[i].value ELSE default

ReadString(data, i)       == Read(data, i, "string", "")
ReadUint32(data, i)       == Read(data, i, "uint32", 0)
ReadInt32(data, i)        == Read(data, i, "int32", 0)
ReadUint64(data, i)       == Read(data, i, "uint64", 0)
ReadRemoteObject(data, i) == Read(data, i, "object", NullObject)

Message(interface, code, data) == [to |-> interface, code |-> code, data |-> data]

(* What a stub runs: the operation with the arguments read, or nothing when *)
(* the object it needs was not there.                                       *)
Runs(op, args) == [op |-> op, args |-> args]
RunsWithCallback(op, args) == IF Last(args) = NullObject THEN NoRequest ELSE Runs(op, args)

-----------------------------------------------------------------------------
(* DistributedInputSourceProxy *)

Source(code, data) == Message("source", code, data)

ProxyInit(a)       == Source("INIT", <<>>)
ProxyRelease(a)    == Source("RELEASE", <<>>)
ProxyRegister(a)   == Source("REGISTER_REMOTE_INPUT",
    WriteString(a[1]) \o WriteString(a[2]) \o WriteString(a[3]) \o WriteRemoteObject(a[4]))
ProxyUnregister(a) == Source("UNREGISTER_REMOTE_INPUT",
    WriteString(a[1]) \o WriteString(a[2]) \o WriteRemoteObject(a[3]))
ProxyPrepare(a)    == Source("PREPARE_REMOTE_INPUT", WriteString(a[1]) \o WriteRemoteObject(a[2]))
ProxyUnprepare(a)  == Source("UNPREPARE_REMOTE_INPUT", WriteString(a[1]) \o WriteRemoteObject(a[2]))
ProxyStart(a)      == Source("START_REMOTE_INPUT",
    WriteString(a[1]) \o WriteUint32(a[2]) \o WriteRemoteObject(a[3]))
ProxyStop(a)       == Source("STOP_REMOTE_INPUT",
    WriteString(a[1]) \o WriteUint32(a[2]) \o WriteRemoteObject(a[3]))
ProxyStartRelay(a) == Source("START_RELAY_TYPE_REMOTE_INPUT",
    WriteString(a[1]) \o WriteString(a[2]) \o WriteUint32(a[3]) \o WriteRemoteObject(a[4]))
ProxyStopRelay(a)  == Source("STOP_RELAY_TYPE_REMOTE_INPUT",
    WriteString(a[1]) \o WriteString(a[2]) \o WriteUint32(a[3]) \o WriteRemoteObject(a[4]))
ProxyPrepareRelay(a)   == Source("PREPARE_RELAY_REMOTE_INPUT",
    WriteString(a[1]) \o WriteString(a[2]) \o WriteRemoteObject(a[3]))
ProxyUnprepareRelay(a) == Source("UNPREPARE_RELAY_REMOTE_INPUT",
    WriteString(a[1]) \o WriteString(a[2]) \o WriteRemoteObject(a[3]))
ProxyStartDhids(a) == Source("START_DHID_REMOTE_INPUT",
    WriteString(a[1]) \o WriteStrings(a[2]) \o WriteRemoteObject(a[3]))
ProxyStopDhids(a)  == Source("STOP_DHID_REMOTE_INPUT",
    WriteString(a[1]) \o WriteStrings(a[2]) \o WriteRemoteObject(a[3]))
ProxyStartRelayDhids(a) == Source("START_RELAY_DHID_REMOTE_INPUT",
    WriteString(a[1]) \o WriteString(a[2]) \o WriteStrings(a[3]) \o WriteRemoteObject(a[4]))
ProxyStopRelayDhids(a)  == Source("STOP_RELAY_DHID_REMOTE_INPUT",
    WriteString(a[1]) \o WriteString(a[2]) \o WriteStrings(a[3]) \o WriteRemoteObject(a[4]))
ProxyAddWhiteList(a)    == Source("REGISTER_ADD_WHITE_LIST_CB_REMOTE_INPUT", WriteRemoteObject(a[1]))
ProxyDelWhiteList(a)    == Source("REGISTER_DEL_WHITE_LIST_CB_REMOTE_INPUT", WriteRemoteObject(a[1]))
ProxyRegisterSimulation(a)   == Source("REGISTER_SIMULATION_EVENT_LISTENER", WriteRemoteObject(a[1]))
ProxyUnregisterSimulation(a) == Source("UNREGISTER_SIMULATION_EVENT_LISTENER", WriteRemoteObject(a[1]))
ProxyRegisterSessionState(a)   == Source("REGISTER_SESSION_STATE_CB", WriteRemoteObject(a[1]))
ProxyUnregisterSessionState(a) == Source("UNREGISTER_SESSION_STATE_CB", <<>>)

(* DistributedInputSourceStub, after the test of the permission *)

HandleInit(d)       == Runs("Init", <<>>)
HandleRelease(d)    == Runs("Release", <<>>)
HandleRegister(d)   == RunsWithCallback("Register",
    << ReadString(d, 1), ReadString(d, 2), ReadString(d, 3), ReadRemoteObject(d, 4) >>)
HandleUnregister(d) == RunsWithCallback("Unregister",
    << ReadString(d, 1), ReadString(d, 2), ReadRemoteObject(d, 3) >>)
HandlePrepare(d)    == RunsWithCallback("Prepare", << ReadString(d, 1), ReadRemoteObject(d, 2) >>)
HandleUnprepare(d)  == RunsWithCallback("Unprepare", << ReadString(d, 1), ReadRemoteObject(d, 2) >>)
HandleStart(d)      == RunsWithCallback("Start",
    << ReadString(d, 1), ReadUint32(d, 2), ReadRemoteObject(d, 3) >>)
HandleStop(d)       == RunsWithCallback("Stop",
    << ReadString(d, 1), ReadUint32(d, 2), ReadRemoteObject(d, 3) >>)
HandleStartRelay(d) == RunsWithCallback("StartRelay",
    << ReadString(d, 1), ReadString(d, 2), ReadUint32(d, 3), ReadRemoteObject(d, 4) >>)
HandleStopRelaySwapped(d) == RunsWithCallback("StopRelay",     (* a mutant of the next *)
    << ReadString(d, 2), ReadString(d, 1), ReadUint32(d, 3), ReadRemoteObject(d, 4) >>)
HandleStopRelay(d)  == RunsWithCallback("StopRelay",
    << ReadString(d, 1), ReadString(d, 2), ReadUint32(d, 3), ReadRemoteObject(d, 4) >>)
HandlePrepareRelay(d)   == RunsWithCallback("PrepareRelay",
    << ReadString(d, 1), ReadString(d, 2), ReadRemoteObject(d, 3) >>)
HandleUnprepareRelay(d) == RunsWithCallback("UnprepareRelay",
    << ReadString(d, 1), ReadString(d, 2), ReadRemoteObject(d, 3) >>)

(* A list is refused when it is too long; its empty strings are left out. *)
Size(d, i) == ReadUint32(d, i)
NonEmpty(ss) == SelectSeq(ss, LAMBDA s : s # "")
ReadStrings(d, i) == NonEmpty([n \in 1 .. Size(d, i) |-> ReadString(d, i + n)])
RunsWithList(op, ids, d, i) ==
    IF Size(d, i) > IPC_VECTOR_MAX_SIZE THEN NoRequest
    ELSE RunsWithCallback(op,
             ids \o << ReadStrings(d, i), ReadRemoteObject(d, i + Size(d, i) + 1) >>)

HandleStartDhids(d) == RunsWithList("StartDhids", << ReadString(d, 1) >>, d, 2)
HandleStopDhids(d)  == RunsWithList("StopDhids", << ReadString(d, 1) >>, d, 2)
HandleStartRelayDhids(d) ==
    RunsWithList("StartRelayDhids", << ReadString(d, 1), ReadString(d, 2) >>, d, 3)
HandleStopRelayDhids(d) ==
    RunsWithList("StopRelayDhids", << ReadString(d, 1), ReadString(d, 2) >>, d, 3)
HandleAddWhiteList(d) == RunsWithCallback("AddWhiteList", << ReadRemoteObject(d, 1) >>)
HandleDelWhiteList(d) == RunsWithCallback("DelWhiteList", << ReadRemoteObject(d, 1) >>)
HandleRegisterSimulation(d) ==
    RunsWithCallback("RegisterSimulation", << ReadRemoteObject(d, 1) >>)
HandleUnregisterSimulation(d) ==
    RunsWithCallback("UnregisterSimulation", << ReadRemoteObject(d, 1) >>)
HandleRegisterSessionState(d) ==
    RunsWithCallback("RegisterSessionState", << ReadRemoteObject(d, 1) >>)
HandleUnregisterSessionState(d) == Runs("UnregisterSessionState", <<>>)

(* OnRemoteRequest and HandleRemoteRequest of the source *)
SourceStub(m) ==
    CASE m.code = "INIT"                    -> HandleInit(m.data)
      [] m.code = "RELEASE"                 -> HandleRelease(m.data)
      [] m.code = "REGISTER_REMOTE_INPUT"   -> HandleRegister(m.data)
      [] m.code = "UNREGISTER_REMOTE_INPUT" -> HandleUnregister(m.data)
      [] m.code = "PREPARE_REMOTE_INPUT"    -> HandlePrepare(m.data)
      [] m.code = "UNPREPARE_REMOTE_INPUT"  -> HandleUnprepare(m.data)
      [] m.code = "START_REMOTE_INPUT"      -> HandleStart(m.data)
      [] m.code = "STOP_REMOTE_INPUT"       -> HandleStop(m.data)
      [] m.code = "START_RELAY_TYPE_REMOTE_INPUT" -> HandleStartRelay(m.data)
      [] m.code = "STOP_RELAY_TYPE_REMOTE_INPUT"  -> HandleStopRelay(m.data)
      [] m.code = "PREPARE_RELAY_REMOTE_INPUT"    -> HandlePrepareRelay(m.data)
      [] m.code = "UNPREPARE_RELAY_REMOTE_INPUT"  -> HandleUnprepareRelay(m.data)
      [] m.code = "START_DHID_REMOTE_INPUT" -> HandleStartDhids(m.data)
      [] m.code = "STOP_DHID_REMOTE_INPUT"  -> HandleStopDhids(m.data)
      [] OTHER -> CASE m.code = "START_RELAY_DHID_REMOTE_INPUT" -> HandleStartRelayDhids(m.data)
                    [] m.code = "STOP_RELAY_DHID_REMOTE_INPUT"  -> HandleStopRelayDhids(m.data)
                    [] m.code = "REGISTER_ADD_WHITE_LIST_CB_REMOTE_INPUT" -> HandleAddWhiteList(m.data)
                    [] m.code = "REGISTER_DEL_WHITE_LIST_CB_REMOTE_INPUT" -> HandleDelWhiteList(m.data)
                    [] m.code = "REGISTER_SIMULATION_EVENT_LISTENER" -> HandleRegisterSimulation(m.data)
                    [] m.code = "UNREGISTER_SIMULATION_EVENT_LISTENER" -> HandleUnregisterSimulation(m.data)
                    [] m.code = "REGISTER_SESSION_STATE_CB"   -> HandleRegisterSessionState(m.data)
                    [] m.code = "UNREGISTER_SESSION_STATE_CB" -> HandleUnregisterSessionState(m.data)
                    [] OTHER -> NoRequest

-----------------------------------------------------------------------------
(* DistributedInputSinkProxy; a screen is the tuple of SrcScreenInfo *)

Sink(code, data) == Message("sink", code, data)

ProxySinkInit(a)    == Sink("INIT", <<>>)
ProxySinkRelease(a) == Sink("RELEASE", <<>>)
ProxyStartDScreen(a) == Sink("NOTIFY_START_DSCREEN",
    WriteString(a[1]) \o WriteInt32(a[2]) \o WriteString(a[3]) \o WriteUint64(a[4])
    \o WriteUint32(a[5]) \o WriteUint32(a[6]) \o WriteString(a[7]) \o WriteUint32(a[8])
    \o WriteUint32(a[9]) \o WriteUint32(a[10]))
ProxyStopDScreen(a) == Sink("NOTIFY_STOP_DSCREEN", WriteString(a[1]))
ProxySharing(a)     == Sink("REGISTER_SHARING_DHID_LISTENER", WriteRemoteObject(a[1]))
ProxySinkScreens(a) == Sink("GET_SINK_SCREEN_INFOS", WriteRemoteObject(a[1]))

(* DistributedInputSinkStub *)

InitInner(d)    == Runs("SinkInit", <<>>)
ReleaseInner(d) == Runs("SinkRelease", <<>>)
NotifyStartDScreenInner(d) == Runs("StartDScreen",
    << ReadString(d, 1), ReadInt32(d, 2), ReadString(d, 3), ReadUint64(d, 4), ReadUint32(d, 5),
       ReadUint32(d, 6), ReadString(d, 7), ReadUint32(d, 8), ReadUint32(d, 9), ReadUint32(d, 10) >>)
NotifyStopDScreenInner(d) == Runs("StopDScreen", << ReadString(d, 1) >>)
RegisterSharingDhIdListenerInner(d) == RunsWithCallback("Sharing", << ReadRemoteObject(d, 1) >>)
RegisterGetSinkScreenInfosInner(d)  == RunsWithCallback("SinkScreens", << ReadRemoteObject(d, 1) >>)

SinkStub(m) ==
    CASE m.code = "INIT"    -> InitInner(m.data)
      [] m.code = "RELEASE" -> ReleaseInner(m.data)
      [] m.code = "NOTIFY_START_DSCREEN" -> NotifyStartDScreenInner(m.data)
      [] m.code = "NOTIFY_STOP_DSCREEN"  -> NotifyStopDScreenInner(m.data)
      [] m.code = "REGISTER_SHARING_DHID_LISTENER" -> RegisterSharingDhIdListenerInner(m.data)
      [] m.code = "GET_SINK_SCREEN_INFOS"          -> RegisterGetSinkScreenInfosInner(m.data)
      [] OTHER -> NoRequest

-----------------------------------------------------------------------------
(* The callbacks: proxies in the services, stubs in the clients.  The       *)
(* interface of each has its own descriptor, and its codes.                 *)

ProxyOnRegister(a)   == Message("IRegisterDInputCallback", "RESULT",
    WriteString(a[1]) \o WriteString(a[2]) \o WriteInt32(a[3]))
ProxyOnUnregister(a) == Message("IUnregisterDInputCallback", "RESULT",
    WriteString(a[1]) \o WriteString(a[2]) \o WriteInt32(a[3]))
ProxyOnPrepare(a)    == Message("IPrepareDInputCallback", "RESULT",
    WriteString(a[1]) \o WriteInt32(a[2]))
ProxyOnUnprepareAsPrepare(a) == Message("IPrepareDInputCallback", "RESULT",
    WriteString(a[1]) \o WriteInt32(a[2]))                     (* a mutant of the next *)
ProxyOnUnprepare(a)  == Message("IUnprepareDInputCallback", "RESULT",
    WriteString(a[1]) \o WriteInt32(a[2]))
ProxyOnStart(a)      == Message("IStartDInputCallback", "RESULT",
    WriteString(a[1]) \o WriteUint32(a[2]) \o WriteInt32(a[3]))
ProxyOnStop(a)       == Message("IStopDInputCallback", "RESULT",
    WriteString(a[1]) \o WriteUint32(a[2]) \o WriteInt32(a[3]))
ProxyOnDhids(a)      == Message("IStartStopDInputsCallback", "RESULT_STRING",
    WriteString(a[1]) \o WriteInt32(a[2]))
ProxyOnAddWhiteList(a) == Message("IAddWhiteListInfosCallback", "RESULT",
    WriteString(a[1]) \o WriteString(a[2]))
ProxyOnDelWhiteList(a) == Message("IDelWhiteListInfosCallback", "RESULT", WriteString(a[1]))
ProxyOnSinkScreens(a)  == Message("IGetSinkScreenInfosCallback", "RESULT", WriteString(a[1]))
ProxyOnSessionState(a) == Message("ISessionStateCallback", "RESULT",
    WriteString(a[1]) \o WriteUint32(a[2]))
ProxyOnSimulation(a)   == Message("ISimulationEventListener", "RESULT_ON",
    WriteUint32(a[1]) \o WriteUint32(a[2]) \o WriteInt32(a[3]))
ProxyOnSharing(a)      == Message("ISharingDhIdListener", "SHARING", WriteString(a[1]))
ProxyOnNoSharing(a)    == Message("ISharingDhIdListener", "NO_SHARING", WriteString(a[1]))

StubOnRegister(m)   == Runs("OnRegister",
    << ReadString(m.data, 1), ReadString(m.data, 2), ReadInt32(m.data, 3) >>)
StubOnUnregister(m) == Runs("OnUnregister",
    << ReadString(m.data, 1), ReadString(m.data, 2), ReadInt32(m.data, 3) >>)
StubOnPrepare(m)    == Runs("OnPrepare", << ReadString(m.data, 1), ReadInt32(m.data, 2) >>)
StubOnUnprepare(m)  == Runs("OnUnprepare", << ReadString(m.data, 1), ReadInt32(m.data, 2) >>)
StubOnStart(m)      == Runs("OnStart",
    << ReadString(m.data, 1), ReadUint32(m.data, 2), ReadInt32(m.data, 3) >>)
StubOnStop(m)       == Runs("OnStop",
    << ReadString(m.data, 1), ReadUint32(m.data, 2), ReadInt32(m.data, 3) >>)
StubOnDhids(m)      == Runs("OnDhids", << ReadString(m.data, 1), ReadInt32(m.data, 2) >>)
StubOnAddWhiteList(m) == Runs("OnAddWhiteList", << ReadString(m.data, 1), ReadString(m.data, 2) >>)
StubOnDelWhiteList(m) == Runs("OnDelWhiteList", << ReadString(m.data, 1) >>)
StubOnSinkScreens(m)  == Runs("OnSinkScreens", << ReadString(m.data, 1) >>)
StubOnSessionState(m) == Runs("OnSessionState", << ReadString(m.data, 1), ReadUint32(m.data, 2) >>)
StubOnSimulation(m)   == Runs("OnSimulation",
    << ReadUint32(m.data, 1), ReadUint32(m.data, 2), ReadInt32(m.data, 3) >>)
StubOnSharing(m) ==
    CASE m.code = "SHARING"    -> Runs("OnSharing", << ReadString(m.data, 1) >>)
      [] m.code = "NO_SHARING" -> Runs("OnNoSharing", << ReadString(m.data, 1) >>)
      [] OTHER -> NoRequest

(* The object a callback message is sent to answers by its interface. *)
CallbackStub(m) ==
    CASE m.to = "IRegisterDInputCallback"    -> StubOnRegister(m)
      [] m.to = "IUnregisterDInputCallback"  -> StubOnUnregister(m)
      [] m.to = "IPrepareDInputCallback"     -> StubOnPrepare(m)
      [] m.to = "IUnprepareDInputCallback"   -> StubOnUnprepare(m)
      [] m.to = "IStartDInputCallback"       -> StubOnStart(m)
      [] m.to = "IStopDInputCallback"        -> StubOnStop(m)
      [] m.to = "IStartStopDInputsCallback"  -> StubOnDhids(m)
      [] m.to = "IAddWhiteListInfosCallback" -> StubOnAddWhiteList(m)
      [] m.to = "IDelWhiteListInfosCallback" -> StubOnDelWhiteList(m)
      [] m.to = "IGetSinkScreenInfosCallback" -> StubOnSinkScreens(m)
      [] m.to = "ISessionStateCallback"      -> StubOnSessionState(m)
      [] m.to = "ISimulationEventListener"   -> StubOnSimulation(m)
      [] m.to = "ISharingDhIdListener"       -> StubOnSharing(m)
=============================================================================
