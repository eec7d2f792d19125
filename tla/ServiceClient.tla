---------------------------- MODULE ServiceClient ----------------------------
(***************************************************************************)
(* A process that uses the services, over their loads, unloads and crashes *)
(* (interfaces/ipc/src/distributed_input_client.cpp, dinput_sa_manager.cpp,*)
(* sourcehandler, sinkhandler).                                            *)
(*                                                                         *)
(* Both services live in the process "dinput"; what a service registered   *)
(* is lost when that process ends, which is when it crashes or when both   *)
(* are unloaded.  The system ability manager tells the client of each load *)
(* and removal, in order, and answers each LoadSystemAbility on a channel  *)
(* of its own.  The client keeps a proxy per service, flags that say which *)
(* of its callbacks are registered, and an event thread that sets the      *)
(* flags back after a removal and registers again after a load.            *)
(*                                                                         *)
(* A process of the services is its number; a proxy is the number of the   *)
(* process its object lives in, 0 for none.                                *)
(***************************************************************************)
EXTENDS Naturals, Sequences, FiniteSets

CONSTANTS
    Listeners,    (* the listeners of simulated events                       *)
    Null,
    MaxStarts,    (* bound: loads of a service                               *)
    MaxLoads,     (* bound: calls of LoadSystemAbility that wait             *)
    Late          (* a load may be answered after the client heard that the  *)
                  (* service has gone again                                  *)

Services  == {"source", "sink"}
WhiteList == {"add", "del"}
Callbacks == WhiteList \cup {"sharing", "screens"}
OwnerOf(cb) == IF cb \in {"sharing", "screens"} THEN "sink" ELSE "source"
Processes == 1 .. MaxStarts

(* What a service holds for the client is told apart: a listener is no callback. *)
ASSUME ServiceClientAssumption ==
    /\ Null \notin Listeners /\ Listeners \cap Callbacks = {}
    /\ {MaxStarts, MaxLoads} \subseteq Nat /\ Late \in BOOLEAN

VARIABLES
    (* the process of the services *)
    process,      (* its number, and if it runs                              *)
    loaded,       (* the services that are loaded                            *)
    registered,   (* the callbacks each service holds for this client        *)
    inited,       (* the services that had Init called                       *)
    lent,         (* the sink shares its device                              *)
    (* the system ability manager *)
    starts, notes, loads,
    (* the client *)
    online,       (* dInputSourceSAOnline_, dInputSinkSAOnline_              *)
    proxy,        (* dInputSourceProxy_, dInputSinkProxy_                    *)
    flags,        (* the is...Reg_ that are set, "sim" for listeners         *)
    queue,        (* the events of DInputClientEventHandler                  *)
    steps,        (* what is left of the event that it processes             *)
    cache,        (* simEventListenerCache_                                  *)
    pending,      (* regSimulationEventListener_                             *)
    removing,     (* the removal under way, which holds sourceMutex_; ok: it *)
                  (* succeeds, and not while the listeners are restored      *)
    told,         (* sharingDhIds_ has the device                            *)
    removed       (* history: the listeners removed with success that were  *)
                  (* not pending then                                       *)

server  == << process, loaded, registered, inited, lent >>
manager == << starts, notes, loads >>
links   == << online, proxy >>
events  == << queue, steps >>
sims    == << cache, pending, removing, removed >>
vars    == << server, manager, links, flags, events, sims, told >>

Note == [what : {"add", "remove"}, of : Services]
None == [listener |-> Null, ok |-> FALSE]

TypeOK ==
    /\ process \in [number : 0 .. MaxStarts, alive : BOOLEAN]
    /\ loaded \subseteq Services /\ inited \subseteq Services /\ {lent, told} \subseteq BOOLEAN
    /\ registered \in [Services -> SUBSET (Callbacks \cup Listeners)]
    /\ starts \in 0 .. MaxStarts /\ notes \in Seq(Note) /\ queue \in Seq(Note)
    /\ loads \in [Services -> SUBSET (0 .. MaxStarts)]
    /\ online \subseteq Services
    /\ proxy \in [Services -> 0 .. process.number]
    /\ flags \subseteq Callbacks \cup {"sim"}
    /\ steps \in Seq({"white list", "key state", "get proxy", "restore", "sharing", "screens"})
    /\ cache \subseteq Listeners /\ removed \subseteq Listeners
    /\ pending \in Listeners \cup {Null}
    /\ removing \in [listener : Listeners, ok : BOOLEAN] \cup {None}

Init ==
    /\ process = [number |-> 0, alive |-> FALSE]
    /\ loaded = {} /\ inited = {} /\ lent = FALSE /\ told = FALSE
    /\ registered = [s \in Services |-> {}]
    /\ starts = 0 /\ notes = << >> /\ loads = [s \in Services |-> {}]
    /\ online = {} /\ proxy = [s \in Services |-> 0]
    /\ flags = {} /\ queue = << >> /\ steps = << >>
    /\ cache = {} /\ removed = {} /\ pending = Null /\ removing = None

(* A call over a proxy is served by the process it was made for, also by a *)
(* service that is unloaded while the other one keeps the process.         *)
Serves(n) == n # 0 /\ process = [number |-> n, alive |-> TRUE]

(* sourceMutex_ is free; nothing in the model holds sinkMutex_ over a step. *)
Free(s) == s = "sink" \/ removing = None

(* GetDInputSourceProxy, GetDInputSinkProxy: the proxy they find or fetch *)
Got(s) ==
    IF proxy[s] # 0 THEN proxy[s]
    ELSE IF s \in online /\ s \in loaded THEN process.number ELSE 0
GetProxy(s) == Free(s) /\ proxy' = [proxy EXCEPT ![s] = Got(s)]

RegisterAt(s, cbs) == registered' = [registered EXCEPT ![s] = @ \cup cbs]

-----------------------------------------------------------------------------
(* The system ability manager and the process of the services *)

Notes(what, ss) ==
    IF ss = Services
    THEN << [what |-> what, of |-> "source"], [what |-> what, of |-> "sink"] >>
    ELSE IF ss = {} THEN << >> ELSE << [what |-> what, of |-> CHOOSE s \in ss : TRUE] >>

(* LoadSystemAbility of a service that is not loaded; its answer follows. *)
Load(s) ==
    /\ 0 \in loads[s] /\ s \notin loaded /\ starts < MaxStarts
    /\ starts' = starts + 1
    /\ LET n == IF process.alive THEN process.number ELSE process.number + 1
       IN  /\ process' = [number |-> n, alive |-> TRUE]
           /\ loads' = [loads EXCEPT ![s] = (@ \ {0}) \cup {n}]
    /\ loaded' = loaded \cup {s}
    /\ notes' = notes \o Notes("add", {s})
    /\ UNCHANGED << registered, inited, lent, links, flags, events, sims, told >>

LoadLoaded(s) ==
    /\ 0 \in loads[s] /\ s \in loaded
    /\ loads' = [loads EXCEPT ![s] = (@ \ {0}) \cup {process.number}]
    /\ UNCHANGED << server, starts, notes, links, flags, events, sims, told >>

LoadFails(s) ==
    /\ 0 \in loads[s] /\ s \notin loaded
    /\ loads' = [loads EXCEPT ![s] = @ \ {0}]
    /\ UNCHANGED << server, starts, notes, links, flags, events, sims, told >>

(* The services ss go, and with the last one the process and what it held. *)
Go(ss) ==
    /\ loaded' = loaded \ ss /\ inited' = inited \ ss
    /\ notes' = notes \o Notes("remove", ss)
    /\ lent' = (lent /\ "sink" \notin ss)
    /\ IF ss = loaded
       THEN /\ process' = [process EXCEPT !.alive = FALSE]
            /\ registered' = [s \in Services |-> {}]
       ELSE UNCHANGED << process, registered >>

Crash ==
    /\ loaded # {} /\ Go(loaded)
    /\ UNCHANGED << starts, loads, links, flags, events, sims, told >>

(* The sink begins to share its device, or ends: it tells its listeners. *)
Lend ==
    /\ "sink" \in inited
    /\ lent' = ~lent
    /\ told' = IF "sharing" \in registered["sink"] THEN lent' ELSE told
    /\ UNCHANGED << process, loaded, registered, inited, manager, links, flags, events, sims >>

-----------------------------------------------------------------------------
(* The handlers *)

(* InitSource, InitSink: ask for the service.  They wait for a proxy, if there *)
(* is none, until a load is finished or INPUT_LOAD_SA_TIMEOUT_MS have passed,  *)
(* and return; the wait changes nothing.                                       *)
InitService(s) ==
    /\ Cardinality(loads[s]) < MaxLoads
    /\ loads' = [loads EXCEPT ![s] = @ \cup {0}]
    /\ UNCHANGED << server, starts, notes, links, flags, events, sims, told >>

FinishStartSAOnly(s, n) ==     (* a mutant of the next *)
    /\ n \in loads[s] \ {0} /\ Free(s)
    /\ loads' = [loads EXCEPT ![s] = @ \ {n}]
    /\ proxy' = [proxy EXCEPT ![s] = n]
    /\ UNCHANGED << server, starts, notes, online, flags, events, sims, told >>

(* The load was answered: the proxy is set and Init called, which a service *)
(* that has gone meanwhile does not hear.                                   *)
FinishStartSA(s, n) ==
    /\ n \in loads[s] \ {0} /\ Free(s)
    /\ loads' = [loads EXCEPT ![s] = @ \ {n}]
    /\ proxy' = [proxy EXCEPT ![s] = n]
    /\ inited' = IF Serves(n) /\ s \in loaded THEN inited \cup {s} ELSE inited
    /\ UNCHANGED << process, loaded, registered, lent, starts, notes, online, flags, events,
                    sims, told >>

(* ReleaseSource, ReleaseSink: the service unloads itself; a source that had *)
(* no Init, or a service that is gone, does not.                             *)
ReleaseService(s) ==
    /\ GetProxy(s) /\ Got(s) # 0
    /\ pending' = IF s = "source" THEN Null ELSE pending
    /\ IF Serves(Got(s)) /\ s \in loaded /\ (s = "source" => s \in inited)
       THEN Go({s})
       ELSE UNCHANGED << server, notes >>
    /\ UNCHANGED << starts, loads, online, flags, events, cache, removing, removed, told >>

InitSource    == InitService("source")
InitSink      == InitService("sink")
ReleaseSource == ReleaseService("source")
ReleaseSink   == ReleaseService("sink")
FinishStartSource == \E n \in Processes : FinishStartSA("source", n)
FinishStartSink   == \E n \in Processes : FinishStartSA("sink", n)

-----------------------------------------------------------------------------
(* SystemAbilityListener: each note changes the proxy and becomes an event *)

OnRemoveSystemAbilityOnly ==   (* a mutant of the next: the flags stay *)
    /\ notes # << >> /\ Head(notes).what = "remove"
    /\ LET s == Head(notes).of
       IN  /\ Free(s) /\ (Late \/ loads[s] \subseteq {0})
           /\ online' = online \ {s}
           /\ proxy' = [proxy EXCEPT ![s] = 0]
    /\ notes' = Tail(notes)
    /\ UNCHANGED << server, starts, loads, flags, queue, steps, sims, told >>

OnRemoveSystemAbility ==
    /\ notes # << >> /\ Head(notes).what = "remove"
    /\ LET s == Head(notes).of
       IN  /\ Free(s) /\ (Late \/ loads[s] \subseteq {0})
           /\ online' = online \ {s}
           /\ proxy' = [proxy EXCEPT ![s] = 0]
    /\ notes' = Tail(notes) /\ queue' = Append(queue, Head(notes))
    /\ UNCHANGED << server, starts, loads, flags, steps, sims, told >>

OnAddSystemAbility ==
    /\ notes # << >> /\ Head(notes).what = "add"
    /\ online' = online \cup {Head(notes).of}
    /\ notes' = Tail(notes) /\ queue' = Append(queue, Head(notes))
    /\ UNCHANGED << server, starts, loads, proxy, flags, steps, sims, told >>

-----------------------------------------------------------------------------
(* DInputClientEventHandler: one event at a time *)

FlagsOfSims(s) == IF s = "source" THEN {"sim"} ELSE {"sharing"}   (* a mutant of the next *)

(* The exit of the sink leaves the flag of the screens. *)
FlagsOf(s) == IF s = "source" THEN WhiteList \cup {"sim"} ELSE {"sharing"}

(* An event of a removal sets flags back, one of a load starts the checks. *)
ProcessEvent ==
    /\ steps = << >> /\ queue # << >>
    /\ queue' = Tail(queue)
    /\ LET e == Head(queue)
       IN  IF e.what = "remove"
           THEN flags' = flags \ FlagsOf(e.of) /\ UNCHANGED steps
           ELSE /\ steps' = IF e.of = "source"
                            THEN << "white list", "key state", "get proxy", "restore" >>
                            ELSE << "sharing", "screens" >>
                /\ UNCHANGED flags
    /\ UNCHANGED << server, manager, links, sims, told >>

Doing(step) == steps # << >> /\ Head(steps) = step /\ steps' = Tail(steps)

(* Callbacks that are not flagged are registered; a call that fails sets no flag. *)
CheckCallbacks(s, cbs) ==
    /\ GetProxy(s)
    /\ IF Serves(Got(s))
       THEN RegisterAt(s, cbs \ flags) /\ flags' = flags \cup cbs
       ELSE UNCHANGED << registered, flags >>
    /\ UNCHANGED << process, loaded, inited, lent, manager, online, queue, sims, told >>

CheckWhiteListCallback    == Doing("white list") /\ CheckCallbacks("source", WhiteList)
CheckSharingDhIdsCallback == Doing("sharing") /\ CheckCallbacks("sink", {"sharing"})
CheckSinkScreenInfoCallback == Doing("screens") /\ CheckCallbacks("sink", {"screens"})

(* The listener whose registration failed last; the result is not looked at. *)
CheckKeyStateCallback ==
    /\ Doing("key state") /\ GetProxy("source")
    /\ IF Got("source") # 0 /\ "sim" \notin flags /\ pending # Null
       THEN /\ flags' = flags \cup {"sim"}
            /\ RegisterAt("source", IF Serves(Got("source")) THEN {pending} ELSE {})
       ELSE UNCHANGED << flags, registered >>
    /\ UNCHANGED << process, loaded, inited, lent, manager, online, queue, sims, told >>

(* RestoreRegisterListenerAndCallback: the proxy is fetched under sourceMutex_, *)
(* the listeners of the cache are registered without it.                        *)
RestoreGetsProxy ==
    /\ Doing("get proxy") /\ GetProxy("source")
    /\ UNCHANGED << server, manager, online, flags, queue, sims, told >>

RestoreFlagged ==              (* a mutant of the next *)
    /\ Doing("restore")
    /\ RegisterAt("source", IF Serves(proxy["source"]) /\ "sim" \in flags THEN cache ELSE {})
    /\ UNCHANGED << process, loaded, inited, lent, manager, links, flags, queue, sims, told >>

RestoreListeners ==
    /\ Doing("restore")
    /\ RegisterAt("source", IF Serves(proxy["source"]) THEN cache ELSE {})
    /\ UNCHANGED << process, loaded, inited, lent, manager, links, flags, queue, sims, told >>

-----------------------------------------------------------------------------
(* The kit *)

RegisterUnchecked(l) ==        (* a mutant of the next *)
    /\ GetProxy("source")
    /\ removed' = removed \ {l}
    /\ IF Serves(Got("source"))
       THEN /\ RegisterAt("source", {l} \cap Listeners)
            /\ flags' = flags \cup {"sim"} /\ cache' = cache \cup {l}
            /\ UNCHANGED pending
       ELSE /\ flags' = flags \ {"sim"} /\ pending' = l
            /\ UNCHANGED << registered, cache >>
    /\ UNCHANGED << process, loaded, inited, lent, manager, online, events, removing, told >>

RegisterSimulationEventListener(l) ==
    /\ l # Null /\ GetProxy("source")
    /\ removed' = removed \ {l}
    /\ IF Serves(Got("source"))
       THEN /\ RegisterAt("source", {l})
            /\ flags' = flags \cup {"sim"} /\ cache' = cache \cup {l}
            /\ UNCHANGED pending
       ELSE /\ flags' = flags \ {"sim"} /\ pending' = l
            /\ UNCHANGED << registered, cache >>
    /\ UNCHANGED << process, loaded, inited, lent, manager, online, events, removing, told >>

(* UnregisterSimulationEventListener, under sourceMutex_: the service first. *)
UnregisterAtService(l) ==
    /\ l # Null /\ GetProxy("source") /\ Got("source") # 0
    /\ removing' = [listener |-> l,
                    ok |-> Serves(Got("source")) /\ steps # << "restore" >>]
    /\ registered' = IF Serves(Got("source"))
                     THEN [registered EXCEPT !["source"] = @ \ {l}] ELSE registered
    /\ UNCHANGED << process, loaded, inited, lent, manager, online, flags, events,
                    cache, pending, removed, told >>

RemoveKeepsCache ==            (* a mutant of the next *)
    /\ removing # None
    /\ removed' = IF removing.ok /\ removing.listener # pending
                  THEN removed \cup {removing.listener} ELSE removed
    /\ removing' = None
    /\ UNCHANGED << server, manager, links, flags, events, cache, pending, told >>

RemoveSimEventListenerFromCache ==
    /\ removing # None
    /\ cache' = cache \ {removing.listener}
    /\ removed' = IF removing.ok /\ removing.listener # pending
                  THEN removed \cup {removing.listener} ELSE removed
    /\ removing' = None
    /\ UNCHANGED << server, manager, links, flags, events, pending, told >>

-----------------------------------------------------------------------------
(* What the threads of the client and the system ability manager go on with *)
Answered(s) == Load(s) \/ LoadLoaded(s) \/ LoadFails(s)
Listening   == OnRemoveSystemAbility \/ OnAddSystemAbility
Handling    == \/ ProcessEvent \/ CheckWhiteListCallback \/ CheckKeyStateCallback
               \/ RestoreGetsProxy \/ RestoreListeners
               \/ CheckSharingDhIdsCallback \/ CheckSinkScreenInfoCallback

Next ==
    \/ \E s \in Services : Answered(s)
    \/ FinishStartSource \/ FinishStartSink
    \/ InitSource \/ InitSink \/ ReleaseSource \/ ReleaseSink
    \/ Listening \/ Handling \/ RemoveSimEventListenerFromCache
    \/ Crash \/ Lend
    \/ \E l \in Listeners \cup {Null} :
        RegisterSimulationEventListener(l) \/ UnregisterAtService(l)

(* The threads keep running, and one that waits for sourceMutex_, which callers *)
(* of the kit take again and again, gets it some time.                          *)
Spec ==
    /\ Init /\ [][Next]_vars
    /\ SF_vars(Listening) /\ SF_vars(Handling) /\ WF_vars(RemoveSimEventListenerFromCache)
    /\ \A s \in Services : WF_vars(Answered(s))
    /\ SF_vars(FinishStartSource) /\ SF_vars(FinishStartSink)

-----------------------------------------------------------------------------
Tidying(s) ==      (* the client has still to hear of an exit of s, or to act on it *)
    \E q \in {notes, queue} : \E i \in DOMAIN q : q[i] = [what |-> "remove", of |-> s]

(* A flag that says a callback is registered is right, until the client has    *)
(* dealt with the exit of the service: else the next check leaves the service  *)
(* without it (isAddWhiteListCbReg_, isDelWhiteListCbReg_, isSharingDhIdsReg_).*)
FlagIsTrue ==
    \A cb \in WhiteList \cup {"sharing"} :
        cb \in flags => cb \in registered[OwnerOf(cb)] \/ Tidying(OwnerOf(cb))

(* A listener that was removed with success hears nothing again, over restarts *)
(* and what is registered again after them; but for one whose registration had *)
(* failed before, which CheckKeyStateCallback registers whatever came after,   *)
(* and one removed between the two steps of a restore, which brings it back.   *)
RemovedStaysRemoved == registered["source"] \cap removed = {}

(* A service that is loaded, and stays, gets the callbacks of the client, the  *)
(* first time and after every exit (the checks that an "add" starts come after *)
(* the flags were set back, and find a proxy of the new process).              *)
CallbacksRestored ==
    /\ "source" \in loaded ~> WhiteList \subseteq registered["source"] \/ "source" \notin loaded
    /\ "sink" \in loaded ~> "sharing" \in registered["sink"] \/ "sink" \notin loaded

(* A listener that was registered is registered with each later source.        *)
ListenersRestored ==
    \A l \in Listeners :
        (l \in cache /\ "source" \in loaded) ~>
            (l \in registered["source"] \/ l \notin cache \/ "source" \notin loaded)

(* A service that InitSource or InitSink asked for is initialised, although    *)
(* they may return before, or even without, the answer of the load.            *)
InitArrives ==
    \A s \in Services :
        (0 \in loads[s] /\ s \in loaded) ~> (s \in inited \/ s \notin loaded)

(* IsStartDistributedInput: a device that the client calls shared is shared.   *)
ToldIsLent == told => lent

(* The screens' callback comes back after an exit of the sink, as the others.  *)
ScreensRestored ==
    "sink" \in loaded ~> "screens" \in registered["sink"] \/ "sink" \notin loaded
=============================================================================
