---------------------------- MODULE Registration ----------------------------
(***************************************************************************)
(* Registration of the devices of a sink: the framework's process asks the *)
(* source service for a virtual node per device                            *)
(* (interfaces/ipc/src/distributed_input_client.cpp, the source manager    *)
(* with its event handler, and services/source/inputinject).               *)
(*                                                                         *)
(* A caller enters its callback in a list of the client, then calls the    *)
(* service under sourceMutex_, one call at a time.  The service enters a   *)
(* callback of its own in regCallbacks_ or unregCallbacks_, and answers    *)
(* the first of the device; the client turns the answer into a call of the *)
(* callback that its own list has for the device.  A removal is answered   *)
(* later, by the event handler.  A thread of the node manager looks for    *)
(* the path that the kernel gave a node, while calls go on.                *)
(*                                                                         *)
(* The service may exit, on Release or on its own, with all it holds; the  *)
(* process of the framework may die too, and comes back with empty lists,  *)
(* while the service keeps the callbacks of the dead process.              *)
(*                                                                         *)
(* A device stands for a device id with a dhId, its description for the    *)
(* name, path and classes that GetNodeDesc takes from the parameters.      *)
(***************************************************************************)
EXTENDS Naturals, Sequences, FiniteSets, SequencesExt

CONSTANTS
    Devices,      (* the devices of sinks                                    *)
    Changing,     (* those that may come with another description            *)
    NoDev,        (* none of them                                            *)
    MaxPath,      (* the kernel gives event paths 1 .. MaxPath               *)
    MaxCalls,     (* bound: calls in a behaviour                             *)
    MaxExits,     (* bound: exits of the service                             *)
    MaxDeaths     (* bound: deaths of the framework's process                *)

ASSUME RegistrationAssumption ==
    /\ NoDev \notin Devices /\ Changing \subseteq Devices /\ MaxPath \in Nat
    /\ MaxCalls \in Nat /\ MaxExits \in Nat /\ MaxDeaths \in Nat

Calls  == 1 .. MaxCalls
NoCall == 0
Paths  == 1 .. MaxPath
Descs  == {"first", "changed"}
NoPath == 0

VARIABLES
    (* the framework's process *)
    calls,          (* history: the calls made: kind, device, description    *)
    calling,        (* the calls on their way to the service                 *)
    rstInfos,       (* dHardWareFwkRstInfos_, the registrations that wait    *)
    unrstInfos,     (* dHardWareFwkUnRstInfos_                               *)
    proxy,          (* dInputSourceProxy_: "live", "dead" (its service), "no"*)
    born,           (* calls of dead processes are those up to this one      *)
    deaths,
    (* the source service *)
    up,             (* the service runs                                      *)
    released,       (* Release was called: the service is to exit            *)
    exits,
    busy,           (* the registration whose node is being created          *)
    regCallbacks, unregCallbacks,
    inputDevice,    (* inputDevice_: the devices known, with description     *)
    events,         (* the removals callBackHandler_ has to answer           *)
    (* the nodes *)
    kernel,         (* the nodes of the kernel: path to device               *)
    virtualDeviceMap,   (* the node of a device: its path, the path set      *)
    scans,          (* the queue of the node manager's handler               *)
    scanning,       (* the search: its device, the paths listed              *)
    found,          (* the path it found                                     *)
    (* history *)
    answers,        (* whose callback was called, with the result of a call  *)
    abandoned       (* the calls that went with a service or a process       *)

client  == << calls, calling, rstInfos, unrstInfos, proxy, born, deaths >>
service == << up, released, exits, busy, regCallbacks, unregCallbacks, inputDevice, events >>
nodes   == << kernel, virtualDeviceMap, scans, scanning, found >>
history == << answers, abandoned >>
vars    == << client, service, nodes, history >>

Call   == [kind : {"register", "unregister"}, dev : Devices, desc : Descs]
Known  == [dev : Devices, desc : Descs]
Node   == [at : Paths, path : Paths \cup {NoPath}]
Answer == [caller : Calls, call : Calls, result : BOOLEAN]
NoNode == [at |-> NoPath, path |-> NoPath]

TypeOK ==
    /\ calls \in Seq(Call) /\ Len(calls) <= MaxCalls
    /\ calling \subseteq Calls /\ rstInfos \subseteq Calls /\ unrstInfos \subseteq Calls
    /\ proxy \in {"live", "dead", "no"} /\ born \in 0 .. MaxCalls /\ deaths \in 0 .. MaxDeaths
    /\ up \in BOOLEAN /\ released \in BOOLEAN /\ exits \in 0 .. MaxExits
    /\ busy \in Calls \cup {NoCall}
    /\ regCallbacks \in Seq(Calls) /\ unregCallbacks \in Seq(Calls) /\ events \in Seq(Calls)
    /\ inputDevice \in Seq(Known)
    /\ kernel \in [Paths -> Devices \cup {NoDev}]
    /\ virtualDeviceMap \in [Devices -> Node \cup {NoNode}]
    /\ scans \in Seq(Devices) /\ found \in Paths \cup {NoPath}
    /\ scanning \in [dev : Devices \cup {NoDev}, left : SUBSET Paths]
    /\ answers \subseteq Answer /\ abandoned \subseteq Calls

Idle == [dev |-> NoDev, left |-> {}]

Init ==
    /\ calls = << >> /\ calling = {} /\ rstInfos = {} /\ unrstInfos = {}
    /\ proxy = "live" /\ born = 0 /\ deaths = 0
    /\ up = TRUE /\ released = FALSE /\ exits = 0 /\ busy = NoCall
    /\ regCallbacks = << >> /\ unregCallbacks = << >> /\ inputDevice = << >> /\ events = << >>
    /\ kernel = [p \in Paths |-> NoDev]
    /\ virtualDeviceMap = [d \in Devices |-> NoNode]
    /\ scans = << >> /\ scanning = Idle /\ found = NoPath
    /\ answers = {} /\ abandoned = {}

Dev(c)    == calls[c].dev
Kind(c)   == calls[c].kind
Desc(c)   == calls[c].desc
Has(d)    == virtualDeviceMap[d] # NoNode
IsKnown(d) == \E i \in DOMAIN inputDevice : inputDevice[i].dev = d

\* The first callback of a list that is for a device: its place, or 0.
FirstOf(list, d) == SelectInSeq(list, LAMBDA c : Dev(c) = d)

\* The first entry of inputDevice_ that is of a device: its place, or 0.
EntryOf(d) == SelectInSeq(inputDevice, LAMBDA e : e.dev = d)

(***************************************************************************)
(* The lists of the client.                                                *)
(***************************************************************************)
\* What the two calls share: GetDInputSourceProxy, and a call that is made.
Enter(kind, d, s) ==
    /\ proxy # "no" /\ Len(calls) < MaxCalls
    /\ calls' = Append(calls, [kind |-> kind, dev |-> d, desc |-> s])
    /\ calling' = calling \cup {Len(calls) + 1}
    /\ UNCHANGED << proxy, born, deaths, service, nodes, history >>

\* A faulty client that does not look for an entry of the device (a mutant).
RegisterEntersTwice(d, s) ==
    /\ s = "first" \/ d \in Changing
    /\ rstInfos' = rstInfos \cup {Len(calls) + 1}
    /\ Enter("register", d, s)
    /\ UNCHANGED unrstInfos

\* RegisterDistributedHardware of the client, up to the call of the service.
RegisterEnters(d, s) ==
    /\ s = "first" \/ d \in Changing
    /\ \A c \in rstInfos : Dev(c) # d
    /\ rstInfos' = rstInfos \cup {Len(calls) + 1}
    /\ Enter("register", d, s)
    /\ UNCHANGED unrstInfos

\* UnregisterDistributedHardware of the client, up to the call of the service.
UnregisterEnters(d) ==
    /\ \A c \in unrstInfos : Dev(c) # d
    /\ unrstInfos' = unrstInfos \cup {Len(calls) + 1}
    /\ Enter("unregister", d, "first")
    /\ UNCHANGED rstInfos

\* RegisterDInputCb::OnResult, UnregisterDInputCb::OnResult: the service calls
\* the callback of call cb with the result of another, perhaps: the entry of
\* the device is called and leaves.  A dead process is called in vain.
Callers(list, cb) == {c \in list : cb > born /\ Dev(c) = Dev(cb)}

OnResult(cb, call, result) ==
    /\ answers' = answers \cup
          {[caller |-> c, call |-> call, result |-> result] :
              c \in Callers(IF Kind(cb) = "register" THEN rstInfos ELSE unrstInfos, cb)}
    /\ rstInfos' = rstInfos \ (IF Kind(cb) = "register" THEN Callers(rstInfos, cb) ELSE {})
    /\ unrstInfos' = unrstInfos \ (IF Kind(cb) = "unregister" THEN Callers(unrstInfos, cb) ELSE {})
    /\ UNCHANGED abandoned

NoResult == UNCHANGED << rstInfos, unrstInfos, history >>

(***************************************************************************)
(* The service.                                                            *)
(***************************************************************************)
\* sourceMutex_ and then regDisHardwareMutex_ are taken, the service is there.
Reaches(c) ==
    /\ c \in calling /\ proxy = "live" /\ busy = NoCall
    /\ calling' = calling \ {c}
    /\ UNCHANGED << calls, proxy, born, deaths, up, released, exits >>

\* RegisterDistributedHardware of a device with this very description: the
\* callback is called, and stays in the list.
RegisterKnown(c) ==
    /\ Reaches(c) /\ Kind(c) = "register"
    /\ Contains(inputDevice, [dev |-> Dev(c), desc |-> Desc(c)])
    /\ regCallbacks' = Append(regCallbacks, c)
    /\ OnResult(c, c, TRUE)
    /\ UNCHANGED << busy, unregCallbacks, inputDevice, events, nodes >>

\* RegisterDistributedHardware up to OpenDevicesNode.
RegisterNew(c) ==
    /\ Reaches(c) /\ Kind(c) = "register"
    /\ ~ Contains(inputDevice, [dev |-> Dev(c), desc |-> Desc(c)])
    /\ regCallbacks' = Append(regCallbacks, c)
    /\ busy' = c
    /\ NoResult
    /\ UNCHANGED << unregCallbacks, inputDevice, events, nodes >>

\* The path of a node that is in the kernel, and not yet in the map.
NewAt(d) == {p \in Paths : kernel[p] = d /\ p # virtualDeviceMap[d].at}

\* SetUp: the kernel has the node, at the lowest path that is free.
SetUp(p) ==
    /\ busy # NoCall /\ NewAt(Dev(busy)) = {}
    /\ kernel[p] = NoDev /\ \A q \in Paths : q < p => kernel[q] # NoDev
    /\ kernel' = [kernel EXCEPT ![p] = Dev(busy)]
    /\ UNCHANGED << virtualDeviceMap, scans, scanning, found, client, service, history >>

\* CreateHandle gives up: the first callback of the device is told.
CreateFails ==
    /\ busy # NoCall /\ NewAt(Dev(busy)) = {}
    /\ LET i == FirstOf(regCallbacks, Dev(busy))
       IN  /\ OnResult(regCallbacks[i], busy, FALSE)
           /\ regCallbacks' = RemoveAt(regCallbacks, i)
    /\ busy' = NoCall
    /\ UNCHANGED << calls, calling, proxy, born, deaths, up, released, exits >>
    /\ UNCHANGED << unregCallbacks, inputDevice, events, nodes >>

\* The handler of the node manager is to look for the path of the device.
NotifyNodeMgrScanVirNode(d) == scans' = Append(scans, d)

\* AddDeviceLocked, which destroys a node it replaces, and the rest of
\* RegisterDistributedHardware.
AddDevice ==
    /\ busy # NoCall
    /\ \E p \in NewAt(Dev(busy)) :
         /\ kernel' = [q \in Paths |-> IF kernel[q] = Dev(busy) /\ q # p THEN NoDev ELSE kernel[q]]
         /\ virtualDeviceMap' =
               [virtualDeviceMap EXCEPT ![Dev(busy)] = [at |-> p, path |-> NoPath]]
    /\ inputDevice' = Append(inputDevice, [dev |-> Dev(busy), desc |-> Desc(busy)])
    /\ OnResult(busy, busy, TRUE)
    /\ NotifyNodeMgrScanVirNode(Dev(busy))
    /\ busy' = NoCall
    /\ UNCHANGED << calls, calling, proxy, born, deaths, up, released, exits >>
    /\ UNCHANGED << regCallbacks, unregCallbacks, events, scanning, found >>

\* CloseDeviceLocked of the devices that have a node.
CloseDevices(ds) ==
    /\ virtualDeviceMap' = [d \in Devices |-> IF d \in ds THEN NoNode ELSE virtualDeviceMap[d]]
    /\ kernel' = [p \in Paths |->
          IF \E d \in ds : virtualDeviceMap[d].at = p THEN NoDev ELSE kernel[p]]
    /\ UNCHANGED << scans, scanning, found >>

\* UnregisterDistributedHardware of a device that is not known, or has no
\* node: UnregCallbackNotify tells the first callback of the device.
UnregisterFails(c) ==
    /\ Reaches(c) /\ Kind(c) = "unregister"
    /\ ~ IsKnown(Dev(c)) \/ ~ Has(Dev(c))
    /\ LET list == Append(unregCallbacks, c)
           i    == FirstOf(list, Dev(c))
       IN  /\ OnResult(list[i], c, FALSE)
           /\ unregCallbacks' = RemoveAt(list, i)
    /\ UNCHANGED << busy, regCallbacks, inputDevice, events, nodes >>

\* A faulty service that answers by return value only (a mutant).
UnregisterSilently(c) ==
    /\ Reaches(c) /\ Kind(c) = "unregister"
    /\ IsKnown(Dev(c)) /\ Has(Dev(c))
    /\ unregCallbacks' = Append(unregCallbacks, c)
    /\ CloseDevices({Dev(c)})
    /\ inputDevice' = RemoveAt(inputDevice, EntryOf(Dev(c)))
    /\ NoResult
    /\ UNCHANGED << busy, regCallbacks, events >>

\* UnregisterDistributedHardware: the first entry of the device goes with its
\* node; the answer is left to the event handler.
Unregister(c) ==
    /\ Reaches(c) /\ Kind(c) = "unregister"
    /\ IsKnown(Dev(c)) /\ Has(Dev(c))
    /\ unregCallbacks' = Append(unregCallbacks, c)
    /\ CloseDevices({Dev(c)})
    /\ inputDevice' = RemoveAt(inputDevice, EntryOf(Dev(c)))
    /\ events' = Append(events, c)
    /\ NoResult
    /\ UNCHANGED << busy, regCallbacks >>

\* NotifyUnregisterCallback, RunUnregisterCallback.
RunUnregisterCallback ==
    /\ events # << >> /\ busy = NoCall
    /\ LET c == Head(events)
           i == FirstOf(unregCallbacks, Dev(c))
       IN  IF i = 0 THEN NoResult /\ UNCHANGED unregCallbacks
           ELSE /\ OnResult(unregCallbacks[i], c, TRUE)
                /\ unregCallbacks' = RemoveAt(unregCallbacks, i)
    /\ events' = Tail(events)
    /\ UNCHANGED << calls, calling, proxy, born, deaths, up, released, exits >>
    /\ UNCHANGED << busy, regCallbacks, inputDevice, nodes >>

\* A faulty release that keeps the list of the devices (a mutant).
ReleaseNodes ==
    /\ proxy = "live" /\ ~ released /\ exits < MaxExits
    /\ busy = NoCall \/ busy <= born
    /\ CloseDevices({d \in Devices : IsKnown(d) /\ Has(d)})
    /\ released' = TRUE
    /\ UNCHANGED << client, up, exits, busy, regCallbacks, unregCallbacks, events >>
    /\ UNCHANGED << inputDevice, history >>

\* ReleaseSource and Release, which asks for the exit of the service.
Release ==
    /\ proxy = "live" /\ ~ released /\ exits < MaxExits
    /\ busy = NoCall \/ busy <= born
    /\ CloseDevices({d \in Devices : IsKnown(d) /\ Has(d)})
    /\ inputDevice' = << >> /\ released' = TRUE
    /\ UNCHANGED << client, up, exits, busy, regCallbacks, unregCallbacks, events, history >>

(***************************************************************************)
(* The node manager looks for the path of a node.                          *)
(***************************************************************************)
\* GetDevDhUniqueIdByFd, and the comparison: the node at a path is the one
\* that is looked for.
IsTarget(p) == kernel[p] = scanning.dev

\* ScanAllNode: the paths are listed.
ScanAllNode ==
    /\ scans # << >> /\ scanning = Idle
    /\ scanning' = [dev |-> Head(scans), left |-> {p \in Paths : kernel[p] # NoDev}]
    /\ scans' = Tail(scans)
    /\ UNCHANGED << kernel, virtualDeviceMap, found, client, service, history >>

\* A faulty search that takes any virtual node for the device's (a mutant).
MatchVirtualPath(p) ==
    /\ p \in scanning.left /\ found = NoPath
    /\ IF kernel[p] # NoDev
       THEN found' = p /\ UNCHANGED scanning
       ELSE scanning' = [scanning EXCEPT !.left = @ \ {p}] /\ UNCHANGED found
    /\ UNCHANGED << kernel, virtualDeviceMap, scans, client, service, history >>

\* MatchAndSavePhysicalPath up to SetPathForVirDev, on the next path.
MatchPath(p) ==
    /\ p \in scanning.left /\ found = NoPath
    /\ IF IsTarget(p)
       THEN found' = p /\ UNCHANGED scanning
       ELSE scanning' = [scanning EXCEPT !.left = @ \ {p}] /\ UNCHANGED found
    /\ UNCHANGED << kernel, virtualDeviceMap, scans, client, service, history >>

\* A faulty search that does not look whether the node is there (a mutant).
SetPathAnyway ==
    /\ scanning # Idle
    /\ found # NoPath \/ scanning.left = {}
    /\ virtualDeviceMap' = [virtualDeviceMap EXCEPT ![scanning.dev].path = found]
    /\ scanning' = Idle /\ found' = NoPath
    /\ UNCHANGED << kernel, scans, client, service, history >>

\* SetPathForVirDev, on the node the device has now; or no path was found.
SetPathForVirDev ==
    /\ scanning # Idle
    /\ found # NoPath \/ scanning.left = {}
    /\ virtualDeviceMap' =
          IF found # NoPath /\ Has(scanning.dev)
          THEN [virtualDeviceMap EXCEPT ![scanning.dev].path = found] ELSE virtualDeviceMap
    /\ scanning' = Idle /\ found' = NoPath
    /\ UNCHANGED << kernel, scans, client, service, history >>

(***************************************************************************)
(* Exits and deaths.                                                       *)
(***************************************************************************)
\* The process of the service ends, with all that waits in it.
ServiceExits ==
    /\ up /\ exits < MaxExits
    /\ up' = FALSE /\ released' = FALSE /\ exits' = exits + 1 /\ busy' = NoCall
    /\ regCallbacks' = << >> /\ unregCallbacks' = << >> /\ inputDevice' = << >> /\ events' = << >>
    /\ kernel' = [p \in Paths |-> NoDev] /\ virtualDeviceMap' = [d \in Devices |-> NoNode]
    /\ scans' = << >> /\ scanning' = Idle /\ found' = NoPath
    /\ proxy' = IF proxy = "live" THEN "dead" ELSE proxy
    /\ abandoned' = abandoned \cup ((rstInfos \cup unrstInfos) \ calling)
    /\ UNCHANGED << calls, calling, rstInfos, unrstInfos, born, deaths, answers >>

\* OnRemoveSystemAbility: the proxy of the service that ended is dropped.
OnRemoveSystemAbility ==
    /\ proxy = "dead"
    /\ proxy' = "no"
    /\ UNCHANGED << calls, calling, rstInfos, unrstInfos, born, deaths, service, nodes, history >>

\* The service starts anew (OnStart, Init).
ServiceStarts ==
    /\ ~ up
    /\ up' = TRUE
    /\ UNCHANGED << client, released, exits, busy, regCallbacks, unregCallbacks >>
    /\ UNCHANGED << inputDevice, events, nodes, history >>

\* GetDInputSourceProxy of the next call of any kind finds the service.
GetDInputSourceProxy ==
    /\ proxy = "no" /\ up
    /\ proxy' = "live"
    /\ UNCHANGED << calls, calling, rstInfos, unrstInfos, born, deaths, service, nodes, history >>

\* A call on the proxy of a service that ended: the error is returned, and
\* the entry of the call stays in the list.
CallFails(c) ==
    /\ c \in calling /\ proxy = "dead"
    /\ calling' = calling \ {c}
    /\ abandoned' = abandoned \cup {c}
    /\ UNCHANGED << calls, rstInfos, unrstInfos, proxy, born, deaths, service, nodes, answers >>

\* The process of the framework dies and starts again: the calls it made are
\* nobody's, the service keeps their callbacks.
Die ==
    /\ deaths < MaxDeaths
    /\ deaths' = deaths + 1 /\ born' = Len(calls)
    /\ calling' = {} /\ rstInfos' = {} /\ unrstInfos' = {}
    /\ abandoned' = abandoned \cup rstInfos \cup unrstInfos
    /\ UNCHANGED << calls, service, nodes, answers >>

ClientDies == Die /\ proxy' = IF up THEN "live" ELSE "no"

\* The proxy was there when the call began and is dropped now: the call
\* goes through a null pointer.
CallsNobody(c) == c \in calling /\ proxy = "no" /\ Die /\ proxy' = "no"

(***************************************************************************)
(* The system.                                                             *)
(***************************************************************************)
Serve(c) == RegisterKnown(c) \/ RegisterNew(c) \/ UnregisterFails(c) \/ Unregister(c)

Create == CreateFails \/ AddDevice \/ \E p \in Paths : SetUp(p)
Scan   == ScanAllNode \/ SetPathForVirDev \/ \E p \in Paths : MatchPath(p)

Next ==
    \/ \E d \in Devices : UnregisterEnters(d) \/ \E s \in Descs : RegisterEnters(d, s)
    \/ \E c \in Calls : RegisterKnown(c) \/ RegisterNew(c) \/ UnregisterFails(c) \/ Unregister(c)
    \/ \E p \in Paths : SetUp(p) \/ MatchPath(p)
    \/ CreateFails \/ AddDevice \/ RunUnregisterCallback \/ Release
    \/ ScanAllNode \/ SetPathForVirDev
    \/ ServiceExits \/ OnRemoveSystemAbility \/ ServiceStarts \/ GetDInputSourceProxy
    \/ \E c \in Calls : CallFails(c) \/ CallsNobody(c)
    \/ ClientDies

\* Calls and creations end, the handlers run, and a service that was asked to
\* exit does.
Fairness ==
    /\ \A c \in Calls : WF_vars(Serve(c) \/ CallFails(c) \/ CallsNobody(c))
    /\ WF_vars(Create) /\ WF_vars(RunUnregisterCallback) /\ WF_vars(Scan)
    /\ WF_vars(released /\ ServiceExits) /\ WF_vars(OnRemoveSystemAbility)

Spec == Init /\ [][Next]_vars /\ Fairness

(***************************************************************************)
(* Properties.                                                             *)
(***************************************************************************)
\* Every node is of a device the service knows, so that a removal or Release
\* reaches it, whatever descriptions a device came with.
NodesAreKnown == \A d \in Devices : Has(d) => IsKnown(d)

\* A device the service knows has its node: that is why "1.Find out if the dh
\* exists" may answer a registration with success and create nothing.  The
\* first is for the devices that never change, and holds; the second is not.
SteadyHasNode == \A d \in Devices \ Changing : IsKnown(d) => Has(d)
KnownHasNode  == \A d \in Devices : IsKnown(d) => Has(d)

\* When the searches are over, the path that is set is that of the node
\* itself, though nodes and paths come and go while a search is under way.
PathIsOwn ==
    scans = << >> /\ scanning = Idle /\ busy = NoCall =>
        \A d \in Devices : Has(d) => virtualDeviceMap[d].path = virtualDeviceMap[d].at

\* A caller hears of its own call, though the lists of the service are by
\* device, keep callbacks that were called, and are answered out of order;
\* unless the service has callbacks of a process that died.
OwnAnswer == \A a \in answers : a.caller = a.call \/ deaths > 0

\* A call that is entered is answered, unless it went with the service or the
\* process did.
CallIsAnswered ==
    \A c \in Calls :
        c \in rstInfos \cup unrstInfos ~>
            (\E a \in answers : a.caller = c) \/ c \in abandoned \/ deaths > 0
=============================================================================
