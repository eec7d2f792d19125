# Distributed input: TLA+ models and proofs

Distributed input lends the mouse, keyboard, touch screen or touch pad of one
device (the *sink*) to another (the *source*). This directory models the two
services that do it and the client they are used through, checks the models with
TLC and proves what matters most about them with TLAPS. Paths are relative to
`src/`; file names without a directory are unique in it.

## 1. The system

| part | where | state | operations |
|---|---|---|---|
| sink manager | `services/sink/sinkmanager` | `sharingDhIdsMap_`, `sharingDhIds_`, `inputTypes_`, `isStartTrans_` | twelve handlers of `DInputSinkListener`, `Init`, `Release`, `ClearResourcesStatus` |
| sink switch | `distributed_input_sink_switch.cpp` | `switchVector_` | add, remove, start, stop sessions |
| collector and input hub | `services/sink/inputcollector`, `common/include/input_hub.cpp` | `devices_`, `Device::isShare`, `sharedDHIds_` | read events, share, plug, unplug |
| sink state | `services/state` | `dhIdStateMap_`, `keyDownStateMap_`, `lastSessionId_` | record and replay of held keys and touches |
| touch pad fragments | `services/state/src/touchpad_event_fragment*.cpp` | `fragments_` | keep, replay and send back the reports of a touch |
| sink transport | `services/sink/transport` | the sender's event queue | replies, batches of events |
| transport base | `services/transportbase` | `remoteDevSessionMap_`, callbacks | open, close, lose sessions |
| source transport | `services/source/transport` | `injectThreadNum`, `latencyThreadNum`, the latency thread | requests to peers, reception, relay between sources |
| source manager | `services/source/sourcemanager` | fourteen callback lists, `inputDevice_`, `DeviceMap_`, `InputTypesMap_` | requests of clients, replies, registration |
| inject thread and virtual nodes | `services/source/inputinject` | `injectQueue_`, the thread's two flags, `virtualDeviceMap_` | report, inject, create and close nodes, search for their paths |
| client and ability manager | `distributed_input_client.cpp`, `dinput_sa_manager.cpp` | proxies, registration flags, waiting registrations, listener cache, shared dhIds | the API, over restarts of the services |
| proxies, stubs, parameter checks | `interfaces/ipc`, `input_check_param.cpp` | `sourceManagerInitFlag_` | the messages between processes |
| source and sink handlers | `sourcehandler`, `sinkhandler` | service handles | loading, `Init`, `Release` |
| white list | `common/include/white_list_util.cpp` | filters by device | sync, clear, match |
| device handler, context, dfx | `inputdevicehandler`, `utils`, `dfx_utils` | descriptions, geometry, records | query, conversion, diagnosis |

How they interact. A client calls the source manager over IPC. The source
manager leaves the callback in a list and the source transport sends a request
over a session of the transport base. At the sink a message handler runs the
sink manager, which turns the session's switch on, flags devices at the hub, and
tells the local client to ignore their events. The reply comes back over the
session, is posted to an event handler and looks its caller up. From then on the
collector thread reads events of the device and posts them to the sender, which
sends them to the session that is on; at the source they enter the queue of the
inject thread, which writes them to a virtual device. A source that wants a third
device to use a sink asks that device to relay. One process may hold both
services, and then both use one transport. The services are loaded when they are
needed and may exit; the client hears of it and registers itself again.

What is hard. No lock covers a whole request on either side. The same fact is
kept in several places (what is shared: in four). Threads are started by the
first session and joined by the last, from callbacks that hold locks. Replies
carry no caller. Sessions and services may end at any time, and the end of one
resets records of all. Keys and touches may be held while their device changes
hands. The two sides of each IPC message are written by hand in two files.

What makes each part correct:

- sink: the records of what is shared agree; only the order of a session that
  shares something stops a device; what is shared has a receiver; events are
  never addressed to a closed session.
- sessions and threads: while a device is prepared, both threads run; with none
  they are gone; no thread is started twice; every callback ends.
- injection: events are injected in order, once, none is lost or left in the
  queue; after a stop nothing is written.
- keys and touches: what is held at a change of hands is held at the source
  exactly while the source has the device; what stays at home is not sent.
- requests: each caller hears of its own request, once, and in the end, also over
  a relay.
- registration: a known device has one node and its own path; each call is answered.
- client: what the stub runs is what the proxy was asked; a success was carried
  out; flags do not outlive the registrations they stand for.

## 2. Modules

| module | models | proofs |
|---|---|---|
| `SinkSwitch` | `switchVector_` as a sequence with operators for its six methods | in `SessionProofs` |
| `SinkManager` | every handler of the sink listener over manager, hub, client, switch and state | `SessionProofs` |
| `InjectThread` | the inject thread, step by step, with stop, report, register, unregister | `InjectThreadProofs` |
| `Injection` | what `InjectThread` promises: an ordered channel that may be paused | refinement in `InjectThreadProofs` |
| `KeyForward` | the way of a key over collector, sender, source and back | `KeyForwardProofs` |
| `TouchPad` | the same for the touch of a pad, with the fragments that are kept | `TouchPadProofs` |
| `SourceSessions` | prepares, releases, unprepares, lost sessions, the latency thread | `SessionProofs` |
| `SourceCalls` | the sixteen requests of the source manager, their lists and replies | `SourceCallsProofs` |
| `Relay` | the six relayed requests over origin, relay and sink, and back | `RelayProofs` |
| `Registration` | devices and their nodes: client, service, node manager, search for paths | `RegistrationProofs` |
| `IpcMessages` | every proxy and stub as operators on parcels | in `ClientProofs` |
| `Ipc` | calls, locks, callbacks and results over `IpcMessages` | `ClientProofs` |
| `ServiceClient` | a client over loads, unloads and crashes of the services | `ClientProofs` |
| `MCSinkManager` | device classes and symmetry for TLC | |

Variables have the names of the members they stand for (without the trailing
underscore); actions have the names of the functions. `PROJECT.json` gives the
lines of each definition. A definition whose comment says "(a mutant)" is a
plausible fault that is used in no specification: put in the place of its
neighbour, it breaks a named property, which shows that the property is not empty.

**SinkManager.** One action per handler, whole: the switch, the record by
session, the flat record, the hub's two flags, the client's filter and the state
of the dhId change in the step in which the handler changes them. Handlers run one
at a time on the softbus callback thread. `Class` gives the types a device
covers, so starts by type reach devices as `GetDevicesInfoByType` does. `Env` says
what else may happen: starts by type, plugging, sessions lost without an
unprepare, the source service in the same process, `Release` and a later `Init`, and a
client that registers its listener late or never. `ReportSharing` and `ReportNoSharing`
return early while there is no listener, as `ReportDhIdSharingState` does, and
`RegisterSharingDhIdListener` tells the newcomer nothing; `missed`, a history variable,
keeps what was reported to nobody. One client is modelled; others would hear what it does.
Lost records follow the code: `SessionClosed` runs `ClearResourcesStatus` only
when the source service is loaded too, as `OnSessionClosed` returns early
otherwise.

**InjectThread and Injection.** The thread tests `isInjectThreadRunning_`, locks
`injectThreadMutex_`, tests the queue, decides to sleep, sleeps, takes a batch,
looks a device up and writes: each is a step. `ReportEvent` is one step under the
mutex. `StopInjectThread` is three: clear the flag, notify, join. A device may be
removed between look-up and write; the write to what is gone is undefined, so it
either appears in the history or not. `Injection` has none of this: events are
given numbers, the oldest is written or given up, a pause ends both. `Injector`
maps `Waiting` (the numbers in the queue and in hand) to `waiting`, and "no thread
and no stop under way" to `quiet`.

**KeyForward.** Collector, message handler and sender at the sink; receiver,
callback handler, inject thread and caller at the source; two channels. A start at
the sink is two steps: replay and forget, then share. A stop at the source is two:
release the keys of the virtual keyboard, then send. Key states go over the
callback handler and events go to the inject queue, as in the code. A stroke
carries a number, by which order is checked.

**TouchPad.** A report (the events up to a `SYN_REPORT`) is a step. Its kind is what
the fragments tell apart: `BTN_TOUCH` down, up, only positions (`IsShouldDrop`: two
events are left when the positions are not kept), others. `fragments` leaves the open
fragment out, which is empty between reports. Start and stop are two steps each,
around `SetSharingDhIds`; replays and resets go past the sender's queue, as
`SendKeyStateNodeMsgBatch` does. The source's side is one channel per session.

**SourceSessions.** Its specification is `SourceSpec`, so that one module can extend it and
`SinkManager`. The counters are atomics, but the test of a counter and its
change are two steps, as in the code. The map is used under `operationMutex_`,
which the end of a session keeps over its callbacks, joins included. Peers open
sessions too, which are entered in the same map and not counted. An end is
counted only when the sink has been loaded. `terminated` stands for
`std::terminate` at the assignment to a joinable thread.

**SourceCalls.** The sixteen requests differ in where their callback waits, in
whether the list is a `std::set` ordered by the key (the prepares and unprepares),
in whether the lock is kept over the sending, in whether a key that waits already
is refused, and in whether the callback hears of a failed sending. `FormOf` is
that table, one row per function. Each row is used by the same actions: `Begin`,
`Send` and `RemoveCallback` for those that do not keep the lock, `Refuse` and
`BeginLocked` for the others. A set keeps the entry it has; a vector takes
another; an answer goes to the first entry with the key. What a peer was asked stays
in a queue, one per peer, as its session delivers in order.

**Relay.** Three kinds of device, one action per message and device. The session
number a request came on travels to the sink and back, and leads the answer home.
Answers to prepare and unprepare pass the event handler of the relay, the others are
sent by the receiving thread. A relay that cannot pass a request on answers itself.
A closed session takes along what was on it.

**Registration.** The client's two lists, the service's two, `inputDevice_`, the node
manager's map, the kernel's nodes, and the handler that scans `/dev/input` for the
path of a new node. `RegisterDistributedHardware` enters its callback, makes the
node in steps of their own (`SetUp`, `AddDevice` or `CreateFails`) and answers the
first callback of the device. The service may exit and the framework's process die
at any step.

**IpcMessages and Ipc.** A parcel is a sequence of typed cells; a read of another type
or behind the end gives the default, as `MessageParcel` does. Each `Proxy...` operator
writes what that method writes, each `Handle...`/`...Inner`/`StubOn...` reads what the
stub reads. `Ipc` calls each operation with its usual arguments and with one unusual
one, holds the mutex that `DistributedInputClient` holds, and lets the service answer
before, in or after the call. Its specification is `IpcSpec`, so that one module can extend
it and `ServiceClient`.

**ServiceClient.** Both services live in one process, which ends when it crashes or when
both are unloaded. The system ability manager tells of loads and removals in order and
answers each load on a channel of its own. The client's event thread sets flags back and
registers again, in the steps between which it has no lock.

## 3. What TLC checks

Each run takes three minutes or less on two cores. Numbers are distinct states.

| run | asks | bounds | states |
|---|---|---|---|
| `sink_all` | do the records stay within each other whatever happens? `SharingIsOwned`, `FlaggedIsReported`, `SwitchesAreLive`, `OnlyOwnersStopForwarding` | 2 sessions, 2 devices, 1 type, all of `Env` | 1,774,508 |
| `sink_dhids` | do they agree, and has everything shared a receiver, when sources use dhIds? `ViewsAgree`, `SharedHasReceiver` | 3 sessions, 2 devices, `Env = {"client"}` | 20,036 |
| `inject_order` | is the thread the channel of `Injection`, and every event injected in the end? `InjectedInOrder`, `ImplementsInjection`, `EventuallyInjected` | 2 devices, batches of 3, 5 events | 97,776 |
| `keys_held` | does the source follow a keyboard that changes hands? `RecordedInPressOrder`, `SourceFollowsKeyboard`, `StrokesInOrder` | 1 mouse, 1 keyboard, 2 keys, 3 strokes, 3 starts and stops | 3,862,738 |
| `pad_touch` | does it follow a touch, and only a lent one? `TouchFollowsFinger`, `LocalTouchStaysLocal`, `ReportsInOrder` | 1 pad with a button, 1 mouse, 1 session, 5 reports, 4 starts and stops | 1,024,599 |
| `sessions_count` | do counters and threads follow the prepared devices? `PreparedIsServed`, `ThreadsMatchCounters`, `RepliesFinish` | 2 devices, 1 caller, 3 sessions, counters to 3, 1 reply | 173,206 |
| `sessions_close` | does `OnSessionClosed` end? `CloseFinishes`, **violated** | 2 devices, 1 caller, 1 session | trace of 17 |
| `calls_answers` | does each caller get its own answer, and in the end? `OwnAnswer`, `RefusedBesideTwinOnly`, `EventuallyAnswered` | 2 peers, 7 of the 16 forms, 3 calls | 177,727 |
| `relay_answers` | does the answer over a relay come home, and say what the sink said? `AnswersComeHome`, `AnswerIsTheSinks`, `RelayedIsAnswered` | 2 origins, 1 sink, 3 requests of all 6 kinds, 1 lost session | 385,854 |
| `registration_nodes` | has a known device its node and path, and each call its answer? `SteadyHasNode`, `PathIsOwn`, `OwnAnswer`, `CallIsAnswered` | 2 devices, 1 changing, 2 paths, 3 calls, 1 exit, 1 death | 524,232 |
| `ipc_calls` | does the stub run what the proxy was asked, and does each call return? `ArrivesAsSent`, `SuccessIsDone`, `AnswerFits`, `CallsReturn` | 28 operations of 2 processes, 1 unusual argument, lists to 3, 1 exit | 331,678 |
| `client_restarts` | is what was registered registered again, and what was removed not? `FlagIsTrue`, `RemovedStaysRemoved`, `CallbacksRestored`, `ListenersRestored`, `InitArrives` | 1 listener, 2 loads of each process, 1 waiting load | 170,180 |

`TypeOK` of `SourceCalls`, `Registration` and `ServiceClient` is checked in their runs and
proved; those of `SinkManager`, `InjectThread`, `KeyForward`, `Relay` and `TouchPad`, `SourceTypeOK`
of `SourceSessions` and `IpcTypeOK` of `Ipc` are proved.
`InStep` of `SourceCalls`, `NodesAreKnown` of `Registration` and `RecordIsComplete` of
`KeyForward` are proved and not in a run.

Why the bounds are enough. At the sink two sessions suffice for one to stop what
another shares, and three for a switch that passes over one of them; two devices
tell a stop of all from a stop of one. One type suffices beside dhIds, because a
device that no type covers is the second one. Five events in batches of up to
three have a batch in the queue, one with the thread and one written. Three
strokes and three changes press a key before a start, hold it over a stop and
lend the device again. Five reports are a touch begun on one side, moved, ended on the
other, and a second one; four requests lend and take back twice, or the mouse between.
Three sessions open, end and open again beside another device's. Three calls put two
with one key and one with another in the lists, of one list or of several; each form
left out of the run has the flags of one in it and differs by its list only. Three
relayed requests are two of one origin and one of another beside them; the second sink
would share nothing with the first. Three registrations add, remove and add a device
with another under way, and two paths let a path be given to another node while it is
searched. A parcel's fields are checked one by one, so one unusual argument at a time
tells a swapped field; lists of three exceed the limit of two that stands for
`IPC_VECTOR_MAX_SIZE`. Two processes are a restart, after which a third meets the
states the second did; with three the run exceeds its time.

`CHECK_DEADLOCK FALSE` stands where a bound on strokes, reports, sessions, requests or
calls ends the behaviours (`KeyForward`, `TouchPad`, `SourceCalls`, `Relay`,
`Registration`), and in `sessions_close`, where the end of the behaviour is the
finding. The other runs check for deadlock.

**Assumptions of the runs that pass.** Each but the last three, and the exception
of `RemovedStaysRemoved`, is a constant, so a reader can drop it; section 4 says what then
fails.

- `Env = {"client"}` (`sink_dhids`): sources start and stop dhIds, unprepare before they
  close, and nothing is unplugged. With the rest of `Env` the records may differ,
  and `sink_all` checks the one-sided relations that remain.
- `Disciplined` (`keys_held`) and `Overlap = FALSE` (`pad_touch`): nobody strokes a key
  while a start or stop is under way, nor starts or stops while strokes are; a request
  and a read of a pad wait for what the other has begun.
- `Sessions = {1}` (`pad_touch`): one source uses the sink.
- `Serial` (`sessions_count`): calls and callbacks do not overlap.
- `Disciplined` and `Lossy = FALSE` (`calls_answers`): a device is not unprepared
  beside another request to it, its prepares do not overlap, a call by dhId returns
  before the next one with the same dhIds, and a session is lost only when no
  request suffers.
- `Late = FALSE` (`client_restarts`): a load is answered before the client hears that the
  service has gone. `RemovedStaysRemoved` leaves out a listener removed between the two
  steps with which the event thread restores the listeners (`ok` of `removing`); the run
  has that removal, for the other properties.
- `relay_answers`: session numbers are not used again. `RelayedIsAnswered` leaves out
  callbacks displaced by an earlier request like theirs that was lost.
- `registration_nodes`: `SteadyHasNode` is for devices that always come with the same
  description; `OwnAnswer` for processes of the framework of which none has died.
- `ipc_calls`: a callback of the user does not call the kit; a permission is granted or
  not, at any call. `SuccessIsDone` leaves out the source's `Init`.

**Fairness.** A step that waits for a lock or a join is disabled until it is free, so
fairness hides no deadlock; callers, users, losses, crashes and new calls are never fair.

| runs | fair | why |
|---|---|---|
| `inject_order` | weak: the inject thread, the rest of a stop | a thread that can run is scheduled |
| `sessions_*` | weak: each caller's call, the callback thread, the latency thread | as above |
| `calls_answers` | weak: calls that were begun, replies of peers, the event handler | a queue with one runner |
| `relay_answers` | weak: the delivery of messages and posted events together | softbus delivers on a session that stays |
| `registration_nodes` | weak: each call, creation, removal answers, search, exit after `Release`, the note of it | calls end, handlers run |
| `ipc_calls` | weak: the steps of each process's call | as above |
| `client_restarts` | weak: answers of loads, the second half of a removal; strong: listening, the event thread, `FinishStartSA` | these wait for `sourceMutex_`, which callers take again and again; a mutex serves each waiter some time |

## 4. Where the code does not do what it says

The run `sessions_close` keeps one such behaviour: `OnSessionClosed` calls back inside
`operationMutex_` (`distributed_input_transport_base.cpp:444`); the end of the last
session joins the latency thread, which takes that mutex for every ping. Both wait for
ever.

The others are kept as definitions, refuted by TLC with the constants given, and have no
run of their own.

| definition | constants | what the code does |
|---|---|---|
| `SoonStopped` (`InjectThread`) | 1 device, `MaxBatch = MaxEvents = 1`, `FairSpec` | `StopInjectThread` clears the flag and notifies without the mutex (`distributed_input_node_manager.cpp:475`); the notification is lost when the thread is between its test and its sleep, and the join waits for ever |
| `AllStoppedMeansNoneShared` (`SinkManager`) | `Env = {"types"}`, 2 sessions | `IsAllDevicesStoped` asks `sharedDHIds_`, which a start by type never sets (`input_hub.cpp:1351`) |
| `SharedIsTold` (`SinkManager`) | `Env = {"client"}`, 2 sessions | a client that registers after a start is not told what is shared, and `IsStartDistributedInput` says "NOT sharing" (`distributed_input_collector.cpp:192`, `distributed_input_kit.h:73`) |
| `ToldIsShared` (`SinkManager`) | `Env = {"hotplug"}`, 2 sessions | a device unplugged while it is shared loses its flag, so the unprepare does not stop it (`distributed_input_sink_manager.cpp:154`): it stays in `sharedDHIds_` and with the client, which filters it when it is plugged again and no session is open |
| `StopsOwnOnly` (`SinkManager`) | `Env = {}`, 2 sessions | an unprepare stops the devices of every session (`distributed_input_sink_manager.cpp:154`), and a stop takes whatever it names from a session that has an entry (`:554`) |
| `EventsGoToOwner` (`SinkManager`) | `Env = {}`, 2 sessions | events go to the first session whose switch is on, whoever asked for the device (`distributed_input_sink_switch.cpp:173`) |
| `LeftButtonIsReset` (`KeyForward`) | 1 mouse, no keyboard, 2 keys | the release of a left button is simulated only when the mouse has no key recorded (`input_hub.cpp:275`), not when its left button is up |
| `TouchFollowsFinger` (`TouchPad`) | `Sessions = {1, 2}` | source 1 takes the pad back under a finger, source 2 starts a mouse, and the reset goes to `lastSessionId_`, which is 2: the pad at source 1 stays touched (`touchpad_event_fragment_mgr.cpp:71`) |
| `ServedBesidePeers` (`SourceSessions`) | `Serial = TRUE` | every session that ends is counted down, also one a peer opened and nobody counted (`distributed_input_source_transport.cpp:663`): the inject thread stops under a device in use |
| `RefusedBesideTwinOnly` (`SourceCalls`) | `Lossy = TRUE`, 1 peer | the end of a session clears the lists of the prepares only; a start by type that waited stays, and every later one is "already started" (`distributed_input_source_manager.cpp:555`) |
| `KnownHasNode` (`Registration`) | 1 device, which changes, 3 calls | a device registered again with another description has two entries in `inputDevice_`; a removal takes one of them and the node, so the device stays known without a node, and its next registration succeeds and creates nothing |
| `InitIsInit` (`Ipc`) | as `ipc_calls` | the stub sets `sourceManagerInitFlag_` whatever `Init` returned (`distributed_input_source_stub.cpp:70`), and the next call is "already init" |
| `ScreensRestored` (`ServiceClient`) | as `client_restarts` | `isGetSinkScreenInfosCbReg_` is never cleared (`distributed_input_client.cpp:160`) |
| `ToldIsLent` (`ServiceClient`) | as `client_restarts` | `sharingDhIds_` outlives a crash of the sink, and local input stays filtered (`distributed_input_kit.h:73`) |

What fails when an assumption of section 3 is dropped:

- `sink_dhids` with more in `Env`: with "source" the end of one session clears the records of
  all, and with "loss" a lost session leaves its devices shared, so that `SharedHasReceiver`
  fails; with "hotplug" or "types" the records differ, so that `ViewsAgree` does.
- `keys_held` without `Disciplined`: a key pressed between the replay and
  `SetSharingDhIds` stays recorded for a device that is shared, and an event may press a
  key again after the reset of the virtual keyboard.
- `pad_touch` with `Overlap`: a read whose pad was not shared at the test is recorded after
  the replay, so that part of a touch is lost or a local one sent. Also without it, a
  click between two touches is kept as a fragment, and the next whole touch at home,
  which then does not begin with its "down", is sent to the last source
  (`clickedBefore`, the exception in `LocalTouchStaysLocal`).
- `sessions_count` without `Serial`: the counters miss each other and even a thread is
  assigned twice (`NeverTwoLatencyThreads`), with a single caller: a release beside the end
  of the last session.
- `calls_answers` with `Lossy`: all properties fail. Without the discipline `InStep`,
  `OwnAnswer` and `EventuallyAnswered` do: of two prepares in a set only the first is
  kept, and it gets the second's answer.
- `client_restarts` with `Late`: a load answered late leaves a proxy of a dead process, and
  `CallbacksRestored` and `ListenersRestored` fail; the other properties still hold. A
  removal between the two steps of a restore takes the listener from the service, and the
  second step, from a cache that still has it, brings it back
  (`dinput_sa_manager.cpp:279`).

Met while modelling, and stated by no property:

- relay: an unprepare closes the relay's session to the sink, whoever else uses it
  (`distributed_input_source_transport.cpp:1130`); the origin closes its session even
  when the unprepare was refused (`:1175`); a failed relay start or unprepare erases the
  first callback like it, which may be another's (`distributed_input_source_manager.cpp:1110`);
  of two overlapping relay prepares the second callback is dropped (`:1842`); a sink that
  shares also sends `DHID_ONSTOP` after an unprepare, unasked; the relay keeps its
  session to the sink when the origin is lost.
- registration: the entry of a call that failed at the proxy stays in the client and blocks
  every later registration of the device (`distributed_input_client.cpp:348`);
  `regCallbacks_` keeps callbacks that were called; after a death of the framework the
  service answers a dead callback; `GetVirtualKeyboardPaths` has a `continue` that does not
  advance its iterator.
- IPC: the sink's handlers return the result of the call as that of the transport, and a
  proxy cannot tell the two; an empty `dhIds` list reaches the service; a list longer
  than `IPC_VECTOR_MAX_SIZE` passes the client's check and is refused by the stub;
  `FinishStartSA` ignores the result of `InitSource`; a callback of the user that calls
  the kit from inside a failing call would wait for its own `sourceMutex_`.
- client: a proxy is tested and then used under a lock taken later (`:195`), and may be null
  by then; `InitSource` returns at once with a stale proxy; a listener whose registration
  waits is not forgotten when it is removed.
- the lists of the starts and stops by dhId are read without their lock in
  `RunStartDhidCallback` and `RunStopDhidCallback`
  (`distributed_input_source_manager.cpp:1318`), and `sharedDHIds_` under another lock
  than it is written.

## 5. What is proved

For every value of the constants that satisfies the named `ASSUME` of the module.

**Sink** (`SessionProofs`, first half). `IInv` is `TypeOK`, `SharingIsOwned`,
`FlaggedIsReported`, `SwitchesAreLive` and `Deaf` (a client that does not listen was told
nothing) together, inductive for any sessions, devices, types and any `Env`. They are
proved together because an unprepare deletes exactly what the flat record names, and the
flag of a device is traced to the record of a start in the same step. `OnlyOwnersStop`
follows action by action from it. `AllIsTold` says that a client which listens from the
start (`"client" \notin Env`) misses nothing. For `Env \subseteq {"client"}`, `AgreeInv`
adds that every device is plugged, that the source is not loaded, and `ViewsAgree /\
SharedHasReceiver`: a stop of one session leaves the four records equal only if they were
equal before, and turns off a switch only if nothing remains. Sequence lemmas about the
switch vector (adding once, removing, turning on or off) come first and are cited by name.

**Injection** (`InjectThreadProofs`). `IInv` joins `TypeOK`, `SleepsOnlyWhenEmpty`,
`NeverTwoThreads` and `WritesOne` (a thread about to write has an event to write,
without which what is left of its batch has no type); whether the thread may sleep
depends on its place and on the mutex, so the four are proved together.
`StoppedIsQuiet` follows. `OrderInv` is the order of the written events, the batch and
the queue (`InOrder`) with `GivenSoFar`, that all their numbers were given out: a new
event is later than all others only because of the latter. `OrderKept` follows.

`InjectionRefined` is the refinement, `Spec => Injector!Spec`. Initial states map to
initial states. `StepRefines` maps each action: `ReportEvent` to `Report` of as many
numbers (`ReportWaits`); a write to `Write` of the oldest waiting number, and a look-up
that finds no device to `GiveUp` of the last number of the batch; the start to `Resume`;
the join to `Pause`; the rest to stutters. `HeadIsOldest` and `DropIsOldest` take
"oldest" from `OrderInv`, and `BatchInHand` (only a thread that runs has a batch) says
that there is nothing to lose when the join returns. `WaitingParts` splits the numbers
that wait into those in the queue and those in hand.

**Sessions** (`SessionProofs`, second half). `SourceTypeCorrect` holds however calls overlap.
Under `Serial`, `CountersIInv` is the types, `OneAtATime` (at most one of the callers and the
callback thread is under way), `Match` (at each point between a test and the change it
announces, what the counters and threads are) and `Covered` (as long as no session of
a stranger ended, the counter less an end that is due is at least the number of
prepared devices, and equal to it unless `overCounted`). The last relates a counter
to the cardinality of a set, so it needs finite sets. From it follow
`ThreadsMatchCounters`, `CountersCover` and `PreparedIsServed`.

**Requests** (`SourceCallsProofs`). `TypeCorrect` holds for all constants. The rest is for
`Disciplined` callers and sessions that are not lost (`Lossy = FALSE`), the assumptions of
the run and for the same reason: section 4 says what fails without them. The
invariant follows a call over its stages, begun, at the peer, replied, returned.
`WaitingIsUnderWay`: the callbacks in a list are those of the calls under way, no more and no
fewer. `Ordered`: calls with one key are in the order they were made in every list and
queue and from one stage to the next. With these the first entry with the key of a reply
is the entry of the call that was answered, which is `AnsweredOnce`, with `OwnAnswer` in it.
What keeps them is that a failed call which takes its callback out again is alone with its
key (`ReturningAlone`), that an unprepare is alone at its peer (`UnprepareAlone`), and
that the session of a request stays (`SessionsHeld`). `AnswersAreOwn`, `ListsKeepInStep` and
`RefusedBesideTwin` follow: a request refused as repeated has a like one under way.

**Relay** (`RelayProofs`). For any origins, sinks, requests and lost sessions, without
further assumptions. The way of a request has seven stages (`Way`); `NextMoves` reduces
the actions of the six kinds to twelve moves between them. `InTurn` and `Sorted` say that
of two requests of one kind from one origin to one sink the earlier is in a later stage or
before the other in the same queue; `Homes` that what stands in a queue belongs there and
tells what the sink did; `Numbers` that the session number which travels with a request is
that of its origin's link as long as that is there, and `Links` that no two links have one
number; `CallsKept` that a callback waits exactly as long as its request is on its way.
All are proved together: an answer is right (`AnswersComeHome`, `AnswerIsTheSinks`)
because the first callback like it is its own, and that needs the order over all stages
(`NoneOvertakes`).

**Registration** (`RegistrationProofs`). For all constants. `CallsKept` is what the lists hold.
`NodeInv` has `SteadyOnce` (a device that always comes with one description is known once and
has its node), `NodesKept` (the kernel's nodes are those of the map or of the creation
under way) and `PathsDue` (a node has its path, or the search that is under way cannot miss
it, or another search is to come): a search that has passed the node's path and found nothing
would leave it without one. `EntriesWait` says that while the framework's process lives, each
call under way has its entry in the client's lists and no other call of the device has one, from
which `OwnAnswer`; a death empties the client and not the service.

**Client** (`ClientProofs`, first half). For any listeners and any loads, removals and crashes.
`Linked`: a proxy, or one about to be set, is of a service that is loaded or whose removal is
among the notes not yet read. `Flagged`: a flag that says a callback is registered is right, or the
note that will clear it is on its way or in the event thread's queue; it needs `Linked`, as a
flag is set by a call over a proxy. `NothingBack`: a removed listener is in none of the three
places from which listeners are registered again. The first two assume `Late = FALSE`,
because `Linked` fails otherwise.

**Calls** (`ClientProofs`, second half). For any limits on lists and device types, and any
number of exits. The theorem about the messages comes first, apart from any state:
`EveryMessageArrives` takes a request of any of the 28 operations, `OfShape` (the arguments its
operation has, of any value, and where it has a list, any sequence), and says what the stub runs of
the message of its proxy: the same operation with the same arguments, without the empty dhIds, or
nothing when a callback is null or a list longer than `IPC_VECTOR_MAX_SIZE`. A parcel's cells come
from joining the writes one by one (`CellMore`, `ListCells`), and what was written with a type is
read at its place with that type (`StringObject`, `Screen`, `ListOfStrings`, ...), once for each
order of types; a lemma per shape then takes each proxy with its handler. `EveryAnswerArrives` does the
same for the fourteen messages of the callbacks. `IpcInv` relates each slot to them: what was run
is `AsSent` of its request, a call under way has told nothing, one that is done was run, and one
that tells a success, but for `Init`, is done. A call is answered by what its request, as it was
sent, is answered by (`AnswersToTheSent`: no answer has a list), from which `AnswersFit`.
`Init` is left out of `SuccessMeansDone` as the code breaks it (section 4).

**Touches** (`TouchPadProofs`). `TypeCorrect` holds for all constants, the rest for
`Overlap = FALSE`, as in the run; it fails otherwise (section 4). `InTurns` says what the
waiting comes to: at most one read is posted, a read in hand meets no request, and a pad
that is shared, or about to be, has nothing kept. `OrderInv` orders the reports of a pad
over the five places they pass, kernel, read, kept, posted and sent, within each and from
one to the next; a replay and a touch that is sent back skip a place, which is in order
because `InTurns` leaves it empty of the pad, and `ReportsArriveInOrder` follows.
`TouchInv` takes what is read and what the kernel holds as one stream of a pad.
`TouchesFollow`: the next report belongs to the touch of the last one, or begins the next.
`KeptFromBegin`: what is kept belongs to the touch that the stream goes on with, and starts
with its begin unless a source may see that touch. `SharedIsForeign`: of a shared pad a
source may see the whole stream. So a touch that ends without its begin is one that a
source may see, and `LocalTouchesStayLocal` follows. `UserWrites` reduces what a user does
to one fact, that a report comes to the stream; `AfterPassing` does so for the records and
the posts that take reports off it.

`SourcePadFollowsFinger` is for one session, as the run is; with two it fails (section 4).
Its invariant `SourceInv` goes back from the finger to the source. `OnBefore` says whether a
pad is touched before a queue, given whether it is touched after it: the finger gives it
before the stream, that before what is kept, that before what is under way, and there it is
what the pad at the source shows; in each of the three queues begins and ends alternate.
`JoinAlternates` lets a step move reports from the front of one queue to the back of the
next, `BeginFirst` lets a whole touch be forgotten, and a rest that is sent to nobody is one
the source's pad was never touched for, as `Known` keeps `lastSessionId_` from being 0 once
a device was started. When nothing is under way, only what is kept is between the finger
and the source: it has no end of a touch, and of a shared pad there is none.

**Keys** (`KeyForwardProofs`). For any devices, keys, strokes and requests. The types and the
order hold for all constants: `KeysTypeCorrect` with `KeysInv`, of which `StrokeInv` orders the
strokes of a device over the five places they pass, kernel, read, handed over, session and inject
queue, within each and from one to the next. Replays and simulated releases carry no number, and
a key state never has a stroke (`KeyPlaces`), so the handler thread that overtakes the inject
queue disturbs no order, and `StrokesArriveInOrder` follows.

The rest is for `Disciplined`, as in the run; it fails otherwise (section 4). `TurnsInv` says what
the discipline comes to: either no stroke is under way before the source's receiver, or no start,
stop or key state is. `RecordInv` relates what is recorded to the keys that are held, through the
strokes not yet recorded: `Matches`, the last stroke of a key on its way, and the record if there
is none, tells whether it is held; `PressedOnce`, a press is of a key that was up; `Stamped` and
`InPressOrder`, of two recorded keys the earlier one was stamped earlier unless a stroke on its way
is to move one. `GrowsBy` and `DropsTo` are its two moves, a stroke at the back and a record at the
front; `RecordKeepsPressOrder` and `RecordOfHeldKeys` are what is left when the way is empty.
`FollowInv` does the same at the source: of a keyboard that is lent (from the replay to the request
that takes it back), `DownAfter`, what the virtual keyboard has down once all that is under way has
been injected, is what is held, whether by a replay, by strokes, or by both; of one that is not,
nothing that would press a key is under way and none is down. It needs `RecordInv`, as what a
start replays is what was recorded, and `VirtualKeyboardFollows` follows.

The messages of the session are joined by `FlattenSeq` of the community modules, a recursive
function over the sequence. Induction is out of reach, but a least counterexample is not:
`LeastOf` takes it from the well-foundedness of the numbers, and `FlattensExists`, that some
function has the recursion's values, and that joins are associative are shown by it.

**Model-checked only.** The liveness properties, as fairness and `ENABLED` are out of the
prover's reach: that calls return and are answered, events are injected, and callbacks and
listeners are restored. Every safety property of a passing run is a theorem.

## 6. Not modelled, and why

- The creation of a uinput node, evdev ioctls, epoll, the inotify monitor of input nodes
  and the capabilities of a device: input and output of the kernel. Touch screens and
  absolute events are passed on and recorded nowhere.
- `TouchPad` takes reports whole: a report that the 256-event buffer of a read cuts in two
  is not modelled, nor that a replay is split into messages of 20 events; nobody touches a
  pad when the collector starts.
- The white list, a data structure without protocol; planned below. The two faults met in it
  are among the hazards.
- The computation of the latency, the size limit of messages, JSON.
- `DeviceMap_`, `InputTypesMap_` and `isStartTrans_` of the source are kept, and nothing
  outside them reads what they hold.
- `RemoveInputDeviceId`, `NotifyRegisterCallback`, the input node listener, the
  `StartStopResult` callbacks and `GetRemoteCli` are called by nobody.
- Undefined behaviour of maps that two threads change without a common lock: each access is
  taken as a step.
- The publisher topics and the distribution of screen information, traces, events and dumps,
  screen geometry, the device handler: nothing in the protocol reads them.

## 7. Plan

1. `WhiteList`: filters by device, with the hash of a combination as the code computes it,
   against matching by sequence, and what `ClearWhiteList` leaves.
2. An abstract lending of one device (free, lent, taken back) that `SinkManager` implements
   for dhIds, with its step simulation.
3. The screens' topics, once the sink manager's distribution of them is read.
