----------------------------- MODULE InjectThread -----------------------------
(***************************************************************************)
(* The injection of remote events at a source: the queue, the thread and   *)
(* the virtual devices of DistributedInputNodeManager                      *)
(* (services/source/inputinject/src/distributed_input_node_manager.cpp),   *)
(* driven through DistributedInputInject, whose every method holds         *)
(* inputNodeManagerMutex_.                                                 *)
(*                                                                         *)
(* The thread is modelled step by step, because it shares the queue with   *)
(* ReportEvent under injectThreadMutex_, the flag isInjectThreadRunning_   *)
(* with StopInjectThread under no lock at all, and the devices with        *)
(* Register and Unregister under a lock it gives up before it uses the     *)
(* device.  The other calls are one step each: they exclude each other by  *)
(* inputNodeManagerMutex_, which only StopInjectThread holds over a wait.  *)
(***************************************************************************)
EXTENDS Integers, Sequences, FiniteSets

CONSTANTS
    DhIds,      (* the distributed devices, by dhId                         *)
    NoDevice,   (* the null VirtualDevice pointer                           *)
    MaxBatch,   (* bound: events of one message                             *)
    MaxEvents   (* bound: events reported in a behaviour                    *)

ASSUME InjectAssumption ==
    /\ NoDevice \notin DhIds
    /\ MaxBatch \in Nat \ {0}
    /\ MaxEvents \in Nat

VARIABLES
    created,    (* isInjectThreadCreated_                                   *)
    running,    (* isInjectThreadRunning_                                   *)
    stop,       (* where StopInjectThread is; it holds inputNodeManagerMutex_ *)
                (* unless it is idle                                        *)
    thread,     (* where the inject thread is; "none" when eventInjectThread_ *)
                (* is not joinable                                          *)
    queue,      (* injectQueue_, a sequence of batches                      *)
    batch,      (* what is left of the batch the thread took                *)
    devices,    (* the keys of virtualDeviceMap_                            *)
    held,       (* the device the thread looked up                          *)
    dangling,   (* the held device was destroyed since it was looked up     *)
    reported,   (* history: how many events were reported; they are         *)
                (* numbered as they come                                    *)
    injected,   (* history: the events written to their device, in order    *)
    lost        (* history: the events dropped with the rest of a batch     *)

threadVars  == << created, running, stop, thread >>
deviceVars  == << devices, held, dangling >>
historyVars == << reported, injected, lost >>
vars        == << threadVars, queue, batch, deviceVars, historyVars >>

Events == [id : Nat, dhId : DhIds]

StopStates   == {"idle", "notify", "join"}
ThreadStates == {"none", "test", "lock", "block", "wait", "process", "inject", "done"}

TypeOK ==
    /\ created \in BOOLEAN /\ running \in BOOLEAN
    /\ stop \in StopStates /\ thread \in ThreadStates
    /\ queue \in Seq(Seq(Events)) /\ batch \in Seq(Events)
    /\ devices \subseteq DhIds /\ held \in DhIds \cup {NoDevice} /\ dangling \in BOOLEAN
    /\ reported \in Nat /\ injected \in Seq(Nat) /\ lost \subseteq Nat

Init ==
    /\ created = FALSE /\ running = FALSE
    /\ stop = "idle" /\ thread = "none"
    /\ queue = << >> /\ batch = << >>
    /\ devices = {} /\ held = NoDevice /\ dangling = FALSE
    /\ reported = 0 /\ injected = << >> /\ lost = {}

Ids(s) == {s[i].id : i \in DOMAIN s}

(***************************************************************************)
(* The two mutexes, and the condition variable.                            *)
(***************************************************************************)
NodeManagerFree == stop = "idle"

\* The thread holds injectThreadMutex_ from the test that sends it to sleep to
\* the sleep, which gives the mutex up.
QueueFree == thread # "block"

\* A thread that is not asleep yet does not hear a notification.
Notified(t) == IF t = "wait" THEN "lock" ELSE t

(***************************************************************************)
(* The calls of DistributedInputInject.                                    *)
(***************************************************************************)
StartInjectThread ==
    /\ NodeManagerFree
    /\ ~created
    /\ created' = TRUE
    /\ running' = TRUE
    /\ thread' = "test"
    /\ UNCHANGED << stop, queue, batch, deviceVars, historyVars >>

\* Clears the flags, holding no lock of the thread's.
StopInjectThread ==
    /\ NodeManagerFree
    /\ running' = FALSE
    /\ created' = FALSE
    /\ stop' = "notify"
    /\ UNCHANGED << thread, queue, batch, deviceVars, historyVars >>

StopNotify ==
    /\ stop = "notify"
    /\ stop' = "join"
    /\ thread' = Notified(thread)
    /\ UNCHANGED << created, running, queue, batch, deviceVars, historyVars >>

\* A faulty stop that returns without waiting for the thread (a mutant).
StopDetaches ==
    /\ stop = "join"
    /\ stop' = "idle"
    /\ UNCHANGED << created, running, thread, queue, batch, deviceVars, historyVars >>

StopJoin ==
    /\ stop = "join"
    /\ thread \in {"none", "done"}
    /\ thread' = "none"
    /\ stop' = "idle"
    /\ UNCHANGED << created, running, queue, batch, deviceVars, historyVars >>

\* One message of events, pushed and notified under injectThreadMutex_.
Numbered(b) == [i \in DOMAIN b |-> [id |-> reported + i, dhId |-> b[i]]]

\* A faulty ReportEvent that wakes nobody (a mutant).
ReportSilently(b) ==
    /\ NodeManagerFree /\ QueueFree
    /\ reported + Len(b) <= MaxEvents
    /\ queue' = Append(queue, Numbered(b))
    /\ reported' = reported + Len(b)
    /\ UNCHANGED << threadVars, batch, deviceVars, injected, lost >>

ReportEvent(b) ==
    /\ NodeManagerFree
    /\ QueueFree
    /\ reported + Len(b) <= MaxEvents
    /\ queue' = Append(queue, Numbered(b))
    /\ thread' = Notified(thread)
    /\ reported' = reported + Len(b)
    /\ UNCHANGED << created, running, stop, batch, deviceVars, injected, lost >>

\* The source manager registers a dhId that is not there yet.
RegisterDistributedHardware(d) ==
    /\ NodeManagerFree
    /\ d \notin devices
    /\ devices' = devices \cup {d}
    /\ UNCHANGED << threadVars, queue, batch, held, dangling, historyVars >>

\* Destroys the device, also under the hands of the thread.
UnregisterDistributedHardware(d) ==
    /\ NodeManagerFree
    /\ d \in devices
    /\ devices' = devices \ {d}
    /\ dangling' = (dangling \/ held = d)
    /\ UNCHANGED << threadVars, queue, batch, held, historyVars >>

(***************************************************************************)
(* The inject thread.                                                      *)
(***************************************************************************)
TestRunning ==
    /\ thread = "test"
    /\ thread' = IF running THEN "lock" ELSE "done"
    /\ UNCHANGED << created, running, stop, queue, batch, deviceVars, historyVars >>

\* With the mutex, the predicate of the wait: the thread goes on when it is
\* stopped or there is a batch, even one that it takes after it was stopped.
TakeBatch ==
    /\ thread = "lock"
    /\ \/ /\ queue # << >>
          /\ batch' = Head(queue)
          /\ queue' = Tail(queue)
          /\ thread' = "process"
       \/ /\ queue = << >>
          /\ thread' = IF running THEN "block" ELSE "test"
          /\ UNCHANGED << queue, batch >>
    /\ UNCHANGED << created, running, stop, deviceVars, historyVars >>

Sleep ==
    /\ thread = "block"
    /\ thread' = "wait"
    /\ UNCHANGED << created, running, stop, queue, batch, deviceVars, historyVars >>

\* A condition variable may wake without a notification.
SpuriousWakeup ==
    /\ thread = "wait"
    /\ thread' = "lock"
    /\ UNCHANGED << created, running, stop, queue, batch, deviceVars, historyVars >>

\* GetDevice for the next event: a device that is not there ends the batch, and
\* the events after it are dropped whatever their device.
LookUp ==
    /\ thread = "process"
    /\ \/ /\ batch = << >>
          /\ thread' = "test"
          /\ UNCHANGED << batch, held, dangling, lost >>
       \/ /\ batch # << >>
          /\ Head(batch).dhId \in devices
          /\ held' = Head(batch).dhId
          /\ dangling' = FALSE
          /\ thread' = "inject"
          /\ UNCHANGED << batch, lost >>
       \/ /\ batch # << >>
          /\ Head(batch).dhId \notin devices
          /\ lost' = lost \cup Ids(batch)
          /\ batch' = << >>
          /\ thread' = "test"
          /\ UNCHANGED << held, dangling >>
    /\ UNCHANGED << created, running, stop, queue, devices, reported, injected >>

\* A faulty thread that writes an event but does not advance (a mutant).
InjectAgain ==
    /\ thread = "inject"
    /\ held' = NoDevice
    /\ injected' = Append(injected, Head(batch).id)
    /\ thread' = "process"
    /\ UNCHANGED << created, running, stop, queue, batch, devices, dangling, reported, lost >>

\* The write to the device.  A device that was destroyed meanwhile is read from
\* freed memory: the write may still reach a descriptor, or nothing.
InjectInputEvent ==
    /\ thread = "inject"
    /\ \/ /\ injected' = Append(injected, Head(batch).id)
          /\ UNCHANGED lost
       \/ /\ dangling
          /\ lost' = lost \cup {Head(batch).id}
          /\ UNCHANGED injected
    /\ batch' = Tail(batch)
    /\ held' = NoDevice
    /\ dangling' = FALSE
    /\ thread' = "process"
    /\ UNCHANGED << created, running, stop, queue, devices, reported >>

(***************************************************************************)
(* The specification.  The scheduler runs the inject thread and a thread   *)
(* inside StopInjectThread; nobody has to call anything.                   *)
(***************************************************************************)
Batches == UNION {[1 .. n -> DhIds] : n \in 1 .. MaxBatch}

InjectEvent == TestRunning \/ TakeBatch \/ Sleep \/ LookUp \/ InjectInputEvent

Next ==
    \/ StartInjectThread
    \/ StopInjectThread
    \/ StopNotify
    \/ StopJoin
    \/ \E b \in Batches : ReportEvent(b)
    \/ \E d \in DhIds : RegisterDistributedHardware(d)
    \/ \E d \in DhIds : UnregisterDistributedHardware(d)
    \/ InjectEvent
    \/ SpuriousWakeup

Spec == Init /\ [][Next]_vars

Fairness == WF_vars(InjectEvent) /\ WF_vars(StopNotify) /\ WF_vars(StopJoin)

FairSpec == Spec /\ Fairness

(***************************************************************************)
(* Properties.                                                             *)
(***************************************************************************)

\* The thread never sleeps on a batch: ReportEvent pushes and notifies under the
\* mutex that the thread holds from its test to its sleep (no wakeup is lost
\* between conditionVariable_.wait's test and its sleep).
SleepsOnlyWhenEmpty == thread \in {"block", "wait"} => queue = << >>

\* Events reach the devices in the order they were reported and at most once,
\* over stops, restarts and lost devices: what was written comes before what is
\* in the batch, that before what is queued, and each part is in order.
Increasing(s) == \A i, j \in DOMAIN s : i < j => s[i] < s[j]

Sorted(b) == \A k, l \in DOMAIN b : k < l => b[k].id < b[l].id

Precedes(b, c) == \A k \in DOMAIN b, l \in DOMAIN c : b[k].id < c[l].id

WrittenBefore(s, b) == \A i \in DOMAIN s, k \in DOMAIN b : s[i] < b[k].id

InOrder(written, b, q) ==
    /\ Increasing(written)
    /\ Sorted(b)
    /\ WrittenBefore(written, b)
    /\ \A i \in DOMAIN q : Sorted(q[i]) /\ WrittenBefore(written, q[i]) /\ Precedes(b, q[i])
    /\ \A i, j \in DOMAIN q : i < j => Precedes(q[i], q[j])

InjectedInOrder == InOrder(injected, batch, queue)

Reported == 1 .. reported

\* The events in the thread's batch and in the queue.
Waiting == Ids(batch) \cup UNION {Ids(queue[q]) : q \in DOMAIN queue}

Injector == INSTANCE Injection WITH
    given <- reported, waiting <- Waiting, written <- injected,
    quiet <- ~created /\ stop = "idle"

\* The queue, the thread and the calls together are the channel of Injection: no
\* event gets lost, overtaken or written twice, whatever is stopped, restarted or
\* unregistered beside it.  A device that is not there costs the events of one
\* message, never one that is queued (InjectEvent, StopInjectThread).
ImplementsInjection == Injector!Spec

\* A thread is started only when there is none: assigning to a joinable
\* std::thread would end the process.
NeverTwoThreads == NodeManagerFree /\ ~created => thread = "none"

\* Once StopInjectThread has returned, nothing is injected until the thread is
\* started again.
StoppedIsQuiet ==
    [][(injected' # injected \/ lost' # lost) => created \/ stop # "idle"]_vars

\* Every event that was reported is dealt with, unless the thread is stopped or
\* was not started.
EventuallyInjected ==
    \A n \in 1 .. MaxEvents :
        (n \in Reported) ~>
            \/ n \in lost \/ \E i \in DOMAIN injected : injected[i] = n
            \/ ~running

(***************************************************************************)
(* What the code says, and does not do.                                    *)
(***************************************************************************)

\* "InjectThread has been created, and soon will be stopped."
\* (distributed_input_node_manager.cpp, StopInjectThread).
SoonStopped == stop # "idle" ~> stop = "idle"
===============================================================================
