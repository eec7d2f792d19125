------------------------------ MODULE SinkManager ------------------------------
(***************************************************************************)
(* The sink service of distributed input: the device whose physical mice,  *)
(* keyboards and screens are lent to one or more sources.                  *)
(*                                                                         *)
(* Several source sessions drive the handlers of DInputSinkListener        *)
(* (services/sink/sinkmanager/src/distributed_input_sink_manager.cpp), and *)
(* what is shared is remembered in five places that the handlers must keep *)
(* in step: the switch vector, the manager's sharingDhIdsMap_ and          *)
(* sharingDhIds_, the two flags of the input hub (Device::isShare and      *)
(* sharedDHIds_), and the set the local client filters by (sharingDhIds_   *)
(* of DistributedInputClient, fed by OnSharing/OnNoSharing once the client *)
(* has registered its listener).                                           *)
(*                                                                         *)
(* One action per handler, each handler whole: the handlers of two         *)
(* sessions interleave with each other, with sessions being lost, with     *)
(* devices being plugged and unplugged and with Release/Init.  The replay  *)
(* of cached keys that RecordDhIds starts is the subject of KeyForward.    *)
(***************************************************************************)
EXTENDS SinkSwitch, FiniteSets

CONSTANTS
    Sessions,   (* softbus session ids of the sources                       *)
    DhIds,      (* descriptors of the local input devices                   *)
    Types,      (* the input types a source may name (DInputDeviceType)     *)
    Class,      (* the types that cover each dhId (its device classes)      *)
    Mouse,      (* the type MOUSE                                           *)
    NoSession,  (* the initial lastSessionId_                               *)
    Env         (* what the environment may do besides preparing sessions   *)
                (* and starting and stopping dhIds:                         *)
                (* "types" starts and stops by type, "hotplug" plugs and    *)
                (* unplugs devices, "loss" closes sessions that were not    *)
                (* unprepared, "source" loads the source service into this  *)
                (* process, "release" releases the sink service, "client"   *)
                (* has the local client register its listener at any time,  *)
                (* or never, instead of before the first session            *)

ASSUME SinkAssumption ==
    /\ Class \in [DhIds -> SUBSET Types]
    /\ Mouse \in Types
    /\ NoSession \notin Sessions
    /\ Env \subseteq {"types", "hotplug", "loss", "source", "release", "client"}

VARIABLES
    running,          (* the service is between Init and Release            *)
    sourceLoaded,     (* the source service is loaded in the same process,  *)
                      (* so the transport has its callbacks                 *)
    remoteSessions,   (* sessions open at the transport                     *)
    switchVector,     (* DistributedInputSinkSwitch::switchVector_          *)
    inputTypes,       (* the types started and not stopped                  *)
    isStartTrans,     (* "NULL" or "SINK"                                   *)
    sharingDhIdsMap,  (* session -> dhIds it started; partial               *)
    sharingDhIds,     (* the manager's union of what is shared              *)
    devices,          (* InputHub::devices_, by dhId: what is plugged       *)
    isShare,          (* dhIds of the devices with Device::isShare          *)
    sharedDHIds,      (* dhIds that are true in InputHub::sharedDHIds_      *)
    listening,        (* sharingDhIdListeners_ has the client's listener    *)
    listenerDhIds,    (* DistributedInputClient::sharingDhIds_              *)
    missed,           (* history: dhIds whose sharing was reported to no    *)
                      (* listener and that were not reported again since    *)
    throughOut,       (* dhIds that are THROUGH_OUT in dhIdStateMap_        *)
    lastSessionId     (* DInputSinkState::lastSessionId_                    *)

hubVars     == << devices, isShare, sharedDHIds >>
managerVars == << inputTypes, isStartTrans, sharingDhIdsMap, sharingDhIds >>
stateVars   == << throughOut, lastSessionId >>
clientVars  == << listening, listenerDhIds, missed >>
procVars    == << running, sourceLoaded, remoteSessions >>

vars == << procVars, switchVector, managerVars, hubVars, clientVars, stateVars >>

(***************************************************************************)
(* Type invariant.                                                         *)
(***************************************************************************)
TypeOK ==
    /\ running \in BOOLEAN
    /\ sourceLoaded \in BOOLEAN
    /\ remoteSessions \subseteq Sessions
    /\ switchVector \in Seq([sessionId : Sessions, switchState : BOOLEAN])
    /\ inputTypes \subseteq Types
    /\ isStartTrans \in {"NULL", "SINK"}
    /\ DOMAIN sharingDhIdsMap \subseteq Sessions
    /\ sharingDhIdsMap \in [DOMAIN sharingDhIdsMap -> SUBSET DhIds]
    /\ sharingDhIds \subseteq DhIds
    /\ devices \subseteq DhIds
    /\ isShare \subseteq DhIds
    /\ sharedDHIds \subseteq DhIds
    /\ listening \in BOOLEAN
    /\ listenerDhIds \subseteq DhIds
    /\ missed \subseteq DhIds
    /\ throughOut \subseteq DhIds
    /\ lastSessionId \in Sessions \cup {NoSession}

(***************************************************************************)
(* Helpers of the manager and the hub.                                     *)
(***************************************************************************)

\* The dhIds some session is recorded to share.
Owned == UNION {sharingDhIdsMap[s] : s \in DOMAIN sharingDhIdsMap}

\* StoreStartDhids: the session's entry is created even for no dhId.
StoreStartDhids(s, D) ==
    /\ sharingDhIdsMap' =
         [t \in DOMAIN sharingDhIdsMap \cup {s} |->
            IF t # s THEN sharingDhIdsMap[t]
            ELSE IF s \in DOMAIN sharingDhIdsMap
                 THEN sharingDhIdsMap[s] \cup D ELSE D]
    /\ sharingDhIds' = sharingDhIds \cup D

\* A faulty DeleteStopDhids without the early return (a mutant).
StopIndeedOfAnyone(s, D) == D

\* What DeleteStopDhids reports in stopIndeedDhIds: nothing for a session that
\* has no entry, else everything it was asked to stop.
StopIndeed(s, D) == IF s \in DOMAIN sharingDhIdsMap THEN D ELSE {}

\* A faulty DeleteStopDhids that leaves sharingDhIds_ alone (a mutant).
DeleteStopDhidsOfMap(s, D) ==
    /\ sharingDhIdsMap' =
         [t \in DOMAIN sharingDhIdsMap |->
            IF t = s THEN sharingDhIdsMap[t] \ D ELSE sharingDhIdsMap[t]]
    /\ UNCHANGED sharingDhIds

DeleteStopDhids(s, D) ==
    IF s \in DOMAIN sharingDhIdsMap
    THEN LET rest == sharingDhIdsMap[s] \ D
         IN  /\ sharingDhIdsMap' =
                  IF rest = {}
                  THEN [t \in DOMAIN sharingDhIdsMap \ {s} |-> sharingDhIdsMap[t]]
                  ELSE [sharingDhIdsMap EXCEPT ![s] = rest]
             /\ sharingDhIds' = sharingDhIds \ D
    ELSE UNCHANGED << sharingDhIdsMap, sharingDhIds >>

ClearResourcesStatus ==
    /\ sharingDhIdsMap' = << >>
    /\ sharingDhIds' = {}

\* Plugged devices of the named types.
DevicesOf(T) == {d \in devices : Class[d] \cap T # {}}

\* InputHub::SetSharingDevices: the map entry always, the device if plugged.
\* What it reports in AffectDhIds is D \cap devices.
SetSharingDevices(enabled, D) ==
    /\ sharedDHIds' = IF enabled THEN sharedDHIds \cup D ELSE sharedDHIds \ D
    /\ isShare' = IF enabled THEN isShare \cup (D \cap devices)
                             ELSE isShare \ (D \cap devices)

\* InputHub::SetSupportInputType: only the flag of the plugged devices.  What it
\* reports in AffectDhIds is DevicesOf(T).
SetSupportInputType(enabled, T) ==
    /\ isShare' = IF enabled THEN isShare \cup DevicesOf(T) ELSE isShare \ DevicesOf(T)
    /\ UNCHANGED sharedDHIds

\* IsAllDevicesStoped: no true entry in the map.
AllDevicesStopped(shared) == shared = {}

\* ReportDhIdSharingState returns early when there is no listener; whoever
\* registers later is not told what was shared before.
ReportSharing(D) ==
    /\ listenerDhIds' = IF listening THEN listenerDhIds \cup D ELSE listenerDhIds
    /\ missed' = IF listening THEN missed \ D ELSE missed \cup D
    /\ UNCHANGED listening

ReportNoSharing(D) ==
    /\ listenerDhIds' = IF listening THEN listenerDhIds \ D ELSE listenerDhIds
    /\ missed' = missed \ D
    /\ UNCHANGED listening

\* DInputSinkState::RecordDhIds, the replay of cached events apart.
RecordDhIds(D, out, s) ==
    /\ throughOut' = IF out THEN throughOut \cup D ELSE throughOut \ D
    /\ lastSessionId' = s

\* RecordDhIds(THROUGH_OUT) for each plugged mouse once MOUSE is among the types.
RecordMice(T, s) ==
    LET mice == IF Mouse \in T THEN DevicesOf({Mouse}) ELSE {}
    IN  IF mice = {} THEN UNCHANGED stateVars ELSE RecordDhIds(mice, TRUE, s)

(***************************************************************************)
(* Handlers of the messages a source sends over its session.               *)
(***************************************************************************)
Receives(s) == running /\ s \in remoteSessions

OnPrepareRemoteInput(s) ==
    /\ Receives(s)
    /\ switchVector' = AddSession(switchVector, s)
    /\ UNCHANGED << procVars, managerVars, hubVars, clientVars, stateVars >>

OnRelayPrepareRemoteInput(s) == OnPrepareRemoteInput(s)

\* Whether the stop of D by s leaves no dhId shared.
LeavesNoneShared(s, D) == AllDevicesStopped(sharedDHIds \ StopIndeed(s, D))

\* A faulty stop that turns the session's switch off at once (a mutant).
SwitchesAfterAnyStop(s, D) == StopSwitch(switchVector, s)

\* What a stop of D by s makes of the switches.
SwitchesAfterStop(s, D) ==
    IF LeavesNoneShared(s, D) THEN StopAllSwitch(StopSwitch(switchVector, s))
                              ELSE switchVector

\* All of the body of OnStopRemoteInputDhid, which OnUnprepareRemoteInput calls
\* too, but the switches.
StopDhids(s, D) ==
    /\ DeleteStopDhids(s, D)
    /\ SetSharingDevices(FALSE, StopIndeed(s, D))
    /\ ReportNoSharing(StopIndeed(s, D))
    /\ RecordDhIds(D, FALSE, s)
    /\ inputTypes' = IF LeavesNoneShared(s, D) THEN {} ELSE inputTypes
    /\ isStartTrans' = IF LeavesNoneShared(s, D) THEN "NULL" ELSE isStartTrans
    /\ UNCHANGED << procVars, devices >>

OnStopRemoteInputDhid(s, D) ==
    /\ Receives(s)
    /\ StopDhids(s, D)
    /\ switchVector' = SwitchesAfterStop(s, D)

OnRelayStopDhidRemoteInput(s, D) == OnStopRemoteInputDhid(s, D)

\* Stops everything that is flagged as shared, whoever started it, then removes
\* the session.
OnUnprepareRemoteInput(s) ==
    /\ Receives(s)
    /\ \/ /\ isShare # {}
          /\ StopDhids(s, isShare)
          /\ switchVector' = RemoveSession(SwitchesAfterStop(s, isShare), s)
       \/ /\ isShare = {}
          /\ switchVector' = RemoveSession(switchVector, s)
          /\ UNCHANGED << procVars, managerVars, hubVars, clientVars, stateVars >>

OnRelayUnprepareRemoteInput(s) == OnUnprepareRemoteInput(s)

OnStartRemoteInputDhid(s, D) ==
    /\ Receives(s)
    /\ IF StartSwitchSucceeds(switchVector, s)
       THEN /\ switchVector' = StartSwitch(switchVector, s)
            /\ RecordDhIds(D, TRUE, s)
            /\ SetSharingDevices(TRUE, D)
            /\ StoreStartDhids(s, D \cap devices)
            /\ ReportSharing(D \cap devices)
            /\ UNCHANGED << procVars, inputTypes, isStartTrans, devices >>
       ELSE UNCHANGED vars

OnRelayStartDhidRemoteInput(s, D) == OnStartRemoteInputDhid(s, D)

\* A successful start shares the devices of every type started so far.
StartTypes(s, T) ==
    LET all == inputTypes \cup T
    IN  /\ switchVector' = StartSwitch(switchVector, s)
        /\ isStartTrans' = "SINK"
        /\ inputTypes' = all
        /\ SetSupportInputType(TRUE, all)
        /\ StoreStartDhids(s, DevicesOf(all))
        /\ ReportSharing(DevicesOf(all))
        /\ RecordMice(all, s)
        /\ UNCHANGED << procVars, devices >>

\* A failed start clears the flag whatever other sessions do, and still records
\* the mice when MOUSE was started before.
OnStartRemoteInput(s, T) ==
    /\ "types" \in Env
    /\ Receives(s)
    /\ \/ /\ StartSwitchSucceeds(switchVector, s)
          /\ StartTypes(s, T)
       \/ /\ ~StartSwitchSucceeds(switchVector, s)
          /\ isStartTrans' = "NULL"
          /\ RecordMice(inputTypes, s)
          /\ UNCHANGED << procVars, switchVector, inputTypes, sharingDhIdsMap,
                          sharingDhIds, hubVars, clientVars >>

\* The relayed start returns before the mice when it fails.
OnRelayStartTypeRemoteInput(s, T) ==
    /\ "types" \in Env
    /\ Receives(s)
    /\ \/ /\ StartSwitchSucceeds(switchVector, s)
          /\ StartTypes(s, T)
       \/ /\ ~StartSwitchSucceeds(switchVector, s)
          /\ isStartTrans' = "NULL"
          /\ UNCHANGED << procVars, switchVector, inputTypes, sharingDhIdsMap,
                          sharingDhIds, hubVars, clientVars, stateVars >>

OnStopRemoteInput(s, T) ==
    LET off == DevicesOf(T)
    IN  /\ "types" \in Env
        /\ Receives(s)
        /\ inputTypes' = inputTypes \ T
        /\ SetSupportInputType(FALSE, T)
        /\ DeleteStopDhids(s, off)
        /\ ReportNoSharing(StopIndeed(s, off))
        /\ IF AllDevicesStopped(sharedDHIds)
           THEN /\ switchVector' = StopAllSwitch(switchVector)
                /\ isStartTrans' = "NULL"
           ELSE UNCHANGED << switchVector, isStartTrans >>
        /\ UNCHANGED << procVars, devices, stateVars >>

OnRelayStopTypeRemoteInput(s, T) == OnStopRemoteInput(s, T)

(***************************************************************************)
(* Sessions, devices and the life of the service.                          *)
(***************************************************************************)

\* A source binds a session (OnBind, OnSessionOpened).
SessionOpened(s) ==
    /\ running
    /\ s \notin remoteSessions
    /\ remoteSessions' = remoteSessions \cup {s}
    /\ UNCHANGED << running, sourceLoaded, switchVector, managerVars, hubVars,
                    clientVars, stateVars >>

\* OnSessionClosed: a source closes its session when it is unprepared, or the
\* session is lost.  The sink forgets the session; the manager's records of every
\* session are cleared, but only when the source callbacks are there too.  The
\* collector and the listeners hear nothing.
SessionClosed(s) ==
    /\ Receives(s)
    /\ HasSession(switchVector, s) => "loss" \in Env
    /\ remoteSessions' = remoteSessions \ {s}
    /\ switchVector' = RemoveSession(switchVector, s)
    /\ IF sourceLoaded THEN ClearResourcesStatus
                       ELSE UNCHANGED << sharingDhIdsMap, sharingDhIds >>
    /\ UNCHANGED << running, sourceLoaded, inputTypes, isStartTrans, hubVars,
                    clientVars, stateVars >>

\* The source service is loaded in this process and registers its callbacks.
LoadSource ==
    /\ "source" \in Env
    /\ ~sourceLoaded
    /\ sourceLoaded' = TRUE
    /\ UNCHANGED << running, remoteSessions, switchVector, managerVars, hubVars,
                    clientVars, stateVars >>

\* The local client registers its listener (CheckSharingDhIdsCallback), whether the
\* service is between Init and Release or not.
RegisterSharingDhIdListener ==
    /\ "client" \in Env
    /\ ~listening
    /\ listening' = TRUE
    /\ UNCHANGED << procVars, switchVector, managerVars, hubVars, listenerDhIds, missed,
                    stateVars >>

\* A new Device starts with isShare false.
PlugDevice(d) ==
    /\ "hotplug" \in Env
    /\ running
    /\ d \notin devices
    /\ devices' = devices \cup {d}
    /\ UNCHANGED << procVars, switchVector, managerVars, isShare, sharedDHIds,
                    clientVars, stateVars >>

\* A faulty CloseDeviceLocked that forgets the device's flag (a mutant).
UnplugDeviceOnly(d) ==
    /\ "hotplug" \in Env
    /\ running
    /\ d \in devices
    /\ devices' = devices \ {d}
    /\ UNCHANGED << procVars, switchVector, managerVars, isShare, sharedDHIds,
                    clientVars, stateVars >>

\* CloseDeviceLocked: the device and its flag go, sharedDHIds_ stays.
UnplugDevice(d) ==
    /\ "hotplug" \in Env
    /\ running
    /\ d \in devices
    /\ devices' = devices \ {d}
    /\ isShare' = isShare \ {d}
    /\ UNCHANGED << procVars, switchVector, managerVars, sharedDHIds,
                    clientVars, stateVars >>

\* Closes every session and forgets them; the hub keeps its flags.
Release ==
    /\ "release" \in Env
    /\ running
    /\ running' = FALSE
    /\ remoteSessions' = {}
    /\ switchVector' = InitSwitch
    /\ ClearResourcesStatus
    /\ isStartTrans' = "NULL"
    /\ UNCHANGED << sourceLoaded, inputTypes, hubVars, clientVars, stateVars >>

\* Init of a service that was released while its process lived on.
InitAgain ==
    /\ ~running
    /\ running' = TRUE
    /\ isStartTrans' = "NULL"
    /\ inputTypes' = {}
    /\ UNCHANGED << sourceLoaded, remoteSessions, switchVector, sharingDhIdsMap,
                    sharingDhIds, hubVars, clientVars, stateVars >>

Init ==
    /\ running = TRUE
    /\ sourceLoaded = FALSE
    /\ remoteSessions = {}
    /\ switchVector = InitSwitch
    /\ inputTypes = {}
    /\ isStartTrans = "NULL"
    /\ sharingDhIdsMap = << >>
    /\ sharingDhIds = {}
    /\ devices \in IF "hotplug" \in Env THEN SUBSET DhIds ELSE {DhIds}
    /\ isShare = {}
    /\ sharedDHIds = {}
    /\ listening = ("client" \notin Env)
    /\ listenerDhIds = {}
    /\ missed = {}
    /\ throughOut = {}
    /\ lastSessionId = NoSession

SourceMessage(s) ==
    \/ OnPrepareRemoteInput(s)
    \/ OnRelayPrepareRemoteInput(s)
    \/ OnUnprepareRemoteInput(s)
    \/ OnRelayUnprepareRemoteInput(s)
    \/ \E D \in SUBSET DhIds \ {{}} :
         \/ OnStartRemoteInputDhid(s, D)
         \/ OnRelayStartDhidRemoteInput(s, D)
         \/ OnStopRemoteInputDhid(s, D)
         \/ OnRelayStopDhidRemoteInput(s, D)
    \/ \E T \in SUBSET Types \ {{}} :
         \/ OnStartRemoteInput(s, T)
         \/ OnRelayStartTypeRemoteInput(s, T)
         \/ OnStopRemoteInput(s, T)
         \/ OnRelayStopTypeRemoteInput(s, T)

Next ==
    \/ \E s \in Sessions : SourceMessage(s)
    \/ \E s \in Sessions : SessionOpened(s)
    \/ \E s \in Sessions : SessionClosed(s)
    \/ LoadSource
    \/ RegisterSharingDhIdListener
    \/ \E d \in DhIds : PlugDevice(d)
    \/ \E d \in DhIds : UnplugDevice(d)
    \/ Release
    \/ InitAgain

Spec == Init /\ [][Next]_vars

(***************************************************************************)
(* Properties that hold whatever the environment does.                     *)
(***************************************************************************)

\* The manager's flat record of what is shared never names a dhId that no
\* session's record holds: the two containers, updated by every start, stop,
\* unprepare and lost session, drift apart in one direction only
\* (StoreStartDhids, DeleteStopDhids, ClearResourcesStatus).
SharingIsOwned == sharingDhIds \subseteq Owned

\* A device that the hub flags as shared is plugged, and the local client has
\* been told that its dhId is shared, so that local input of it is filtered
\* (IsStartDistributedInput), unless the report found no listener; so has it of
\* everything the manager records.  Nothing the client was told counts as missed.
FlaggedIsReported ==
    /\ isShare \subseteq devices
    /\ isShare \subseteq listenerDhIds \cup missed
    /\ sharingDhIds \subseteq listenerDhIds \cup missed
    /\ missed \cap listenerDhIds = {}

\* The switch vector holds each session once, and only sessions that are open:
\* input events are never addressed to a session that is gone, however prepares,
\* unprepares, lost sessions and Release follow each other.
SwitchesAreLive ==
    /\ \A i \in DOMAIN switchVector : switchVector[i].sessionId \in remoteSessions
    /\ \A i, j \in DOMAIN switchVector :
         switchVector[i].sessionId = switchVector[j].sessionId => i = j

\* Nobody's device stops being forwarded but by a stop or an unprepare of an
\* open session that has an entry in sharingDhIdsMap_ (DeleteStopDhids returns
\* early for the others); RecordDhIds names that session.
OnlyOwnersStopForwarding ==
    [][sharedDHIds \ sharedDHIds' # {} =>
         lastSessionId' \in DOMAIN sharingDhIdsMap \cap remoteSessions]_vars

(***************************************************************************)
(* Properties of a process that runs the sink service only and of sources  *)
(* that start and stop dhIds only, while no device is unplugged and no     *)
(* session is lost before it is unprepared (Env \subseteq {"client"}).     *)
(***************************************************************************)

\* The four records of what is shared agree after every handler: the manager's,
\* the hub's two flags and the local client's, which lacks exactly what began to
\* be shared before its listener was registered and is still shared.
ViewsAgree ==
    /\ sharedDHIds = isShare
    /\ sharedDHIds = sharingDhIds
    /\ sharedDHIds = listenerDhIds \cup missed
    /\ missed \cap listenerDhIds = {}

\* Every shared dhId belongs to a session whose switch is on, so its events have
\* somewhere to go: no unprepare of one session and no stop by another leaves a
\* device captured that nobody receives.
SharedHasReceiver ==
    \A d \in sharedDHIds :
        \E s \in DOMAIN sharingDhIdsMap :
            d \in sharingDhIdsMap[s] /\ SwitchOn(switchVector, s)

(***************************************************************************)
(* What one might expect of several sources, and the code does not do.     *)
(***************************************************************************)

\* A stop or an unprepare takes back only what its session started.
StopsOwnOnly ==
    [][\A d \in sharedDHIds \ sharedDHIds' :
         /\ lastSessionId' \in DOMAIN sharingDhIdsMap
         /\ d \in sharingDhIdsMap[lastSessionId']]_vars

\* The events of a shared device go to a session that started it
\* (GetSwitchOpenedSession).
EventsGoToOwner ==
    \A d \in sharedDHIds : \E s \in DOMAIN sharingDhIdsMap :
        d \in sharingDhIdsMap[s] /\ Destination(switchVector, s)

(***************************************************************************)
(* What comments of the code say, and the code does not do.                *)
(***************************************************************************)

\* "false for sharing device exist, true for all devices stop sharing"
\* (distributed_input_collector.h, IsAllDevicesStoped).
AllStoppedMeansNoneShared == AllDevicesStopped(sharedDHIds) => isShare = {}

\* "true: dhId sharing to other device, false: dhId NOT sharing to other device"
\* (distributed_input_kit.h, IsStartDistributedInput): a client that listens knows
\* what is shared.  Not so when it came after the start.
SharedIsTold == listening => sharedDHIds \subseteq listenerDhIds

\* The same comment: when no session is open, nothing is shared.  Not so when a
\* device was unplugged before the unprepare, which then does not stop it.
ToldIsShared == remoteSessions = {} => listenerDhIds = {}
================================================================================
