----------------------------- MODULE SourceCalls -----------------------------
(***************************************************************************)
(* The requests that clients make of the source service, and the answers   *)
(* they get: DistributedInputSourceManager                                 *)
(* (services/source/sourcemanager/src/distributed_input_source_manager.cpp)*)
(* with its listener and its event handler, and the requests and replies   *)
(* of DistributedInputSourceTransport.                                     *)
(*                                                                         *)
(* A request leaves the callback of its caller in a list of the manager,   *)
(* under a key, and is sent to a peer.  The reply carries the key and not  *)
(* the caller; the listener posts it to the event handler, and the first   *)
(* entry of the list with that key gets it.  So a reply is for its caller  *)
(* only as long as the lists and the replies under way stay in step, which *)
(* is what this module is about.                                           *)
(*                                                                         *)
(* The peer is the sink, or the other source when the request is relayed,  *)
(* and a key is the peer with a selection: the types, or the dhIds, and    *)
(* the sink behind a relay.  The switches of DeviceMap_, InputTypesMap_ and*)
(* isStartTrans_ are left out: nothing reads them but each other.          *)
(***************************************************************************)
EXTENDS Naturals, Sequences, SequencesExt, FiniteSetsExt

CONSTANTS
    Peers,        (* the devices that sessions lead to                      *)
    Selections,   (* what a start or stop can select                        *)
    All,          (* the selection of the requests that have none           *)
    Forms,        (* the requests made, by name                             *)
    Lossy,        (* TRUE: sessions are lost beside requests, too           *)
    SinkLoaded,   (* TRUE: the process holds the sink service too           *)
    Disciplined,  (* TRUE: callers keep to MayCall                          *)
    MaxCalls      (* bound: requests in a behaviour                         *)

Calls == 1 .. MaxCalls

(***************************************************************************)
(* The forms a request can have.                                           *)
(*   list     where its callback waits                                     *)
(*   set      the list is a std::set ordered by the key alone              *)
(*   opens    it opens the session when there is none                      *)
(*   refuses  it is refused when the key is in the list already            *)
(*   answers  the callback hears of a request that cannot be sent          *)
(*   locked   the lock of the list is kept until the request is sent       *)
(***************************************************************************)
InSet(list, opens, answers) ==
    [list |-> list, set |-> TRUE, opens |-> opens, refuses |-> FALSE, answers |-> answers,
     locked |-> FALSE]

InVector(list, refuses, locked) ==
    [list |-> list, set |-> FALSE, opens |-> FALSE, refuses |-> refuses, answers |-> refuses,
     locked |-> locked]

Prepare            == InSet("pre", TRUE, TRUE)
PrepareFrom        == InSet("pre", TRUE, FALSE)
RelayPrepare       == InSet("relayPre", TRUE, FALSE)
Unprepare          == InSet("unpre", FALSE, TRUE)
UnprepareFrom      == InSet("unpre", FALSE, FALSE)
RelayUnprepare     == InSet("relayUnpre", FALSE, FALSE)
StartTypes         == InVector("sta", TRUE, TRUE)
StartTypesFrom     == InVector("sta", FALSE, TRUE)
RelayStartTypes    == InVector("relaySta", FALSE, TRUE)
StopTypes          == InVector("stp", TRUE, TRUE)
StopTypesFrom      == InVector("stp", FALSE, TRUE)
RelayStopTypes     == InVector("relayStp", FALSE, TRUE)
StartDhids         == InVector("staString", FALSE, FALSE)
StopDhids          == InVector("stpString", FALSE, FALSE)
RelayStartDhids    == InVector("relayStaDhid", FALSE, TRUE)
RelayStopDhids     == InVector("relayStpDhid", FALSE, TRUE)

FormOf ==
    [Prepare |-> Prepare, PrepareFrom |-> PrepareFrom, RelayPrepare |-> RelayPrepare,
     Unprepare |-> Unprepare, UnprepareFrom |-> UnprepareFrom, RelayUnprepare |-> RelayUnprepare,
     StartTypes |-> StartTypes, StartTypesFrom |-> StartTypesFrom,
     RelayStartTypes |-> RelayStartTypes, StopTypes |-> StopTypes,
     StopTypesFrom |-> StopTypesFrom, RelayStopTypes |-> RelayStopTypes,
     StartDhids |-> StartDhids, StopDhids |-> StopDhids,
     RelayStartDhids |-> RelayStartDhids, RelayStopDhids |-> RelayStopDhids]

SetLists   == {"pre", "unpre", "relayPre", "relayUnpre"}
Unpreparing == {"unpre", "relayUnpre"}
Lists      == {FormOf[f].list : f \in DOMAIN FormOf}

ASSUME CallAssumption ==
    /\ All \notin Selections /\ Forms \subseteq DOMAIN FormOf
    /\ Lossy \in BOOLEAN /\ SinkLoaded \in BOOLEAN /\ Disciplined \in BOOLEAN
    /\ MaxCalls \in Nat

VARIABLES
    sessions,   (* the peers there is a session with                        *)
    calls,      (* the calls made: form, key and where each is              *)
    waiting,    (* the callback lists: the calls that wait, in order        *)
    atPeer,     (* the requests sent to each peer whose reply has not come  *)
    events,     (* the queue of callBackHandler_: the replies that came     *)
    answers     (* history: the answers each call got, with the call that   *)
                (* each was the answer to                                   *)

vars == << sessions, calls, waiting, atPeer, events, answers >>

FormOfCall(c) == FormOf[calls[c].form]
ListOf(c)     == FormOfCall(c).list
KeyOf(c)      == << calls[c].peer, calls[c].selection >>

CallStates == {"send", "remove", "accepted", "failed", "refused"}

TypeOK ==
    /\ sessions \subseteq Peers
    /\ calls \in Seq([form : Forms, peer : Peers, selection : Selections \cup {All},
                      at : CallStates])
    /\ Len(calls) <= MaxCalls
    /\ waiting \in [Lists -> Seq(DOMAIN calls)]
    /\ atPeer \in [Peers -> Seq(DOMAIN calls)]
    /\ events \in Seq([call : DOMAIN calls, result : BOOLEAN])
    /\ answers \in [Calls -> Seq([of : Calls, result : BOOLEAN])]

Init ==
    /\ sessions = {} /\ calls = << >> /\ events = << >>
    /\ atPeer = [p \in Peers |-> << >>]
    /\ waiting = [l \in Lists |-> << >>]
    /\ answers = [c \in Calls |-> << >>]

(***************************************************************************)
(* The lists.                                                              *)
(***************************************************************************)
\* A reply for the list l and the key k fits the call.
Fits(c, l, k) == ListOf(c) = l /\ KeyOf(c) = k

\* The first call of s that such a reply fits: its place, or 0.
PlaceIn(s, l, k) == SelectInSeq(s, LAMBDA c : Fits(c, l, k))

\* The call c enters the list that seq is.  A set keeps the entry it has.
Entered(seq, f, k, c) == IF f.set /\ PlaceIn(seq, f.list, k) # 0 THEN seq ELSE Append(seq, c)

\* A faulty erasure of every entry with the key (a mutant).
ErasedAll(seq, l, k) == SelectSeq(seq, LAMBDA c : ~ Fits(c, l, k))

\* The first entry with the key is erased; in a set there is no other.
Erased(seq, l, k) ==
    LET i == PlaceIn(seq, l, k) IN IF i = 0 THEN seq ELSE RemoveAt(seq, i)

OnResult(c, of, result) ==
    answers' = [answers EXCEPT ![c] = Append(@, [of |-> of, result |-> result])]

Goto(c, state) == calls' = [calls EXCEPT ![c].at = state]

(***************************************************************************)
(* The calls.                                                              *)
(***************************************************************************)
\* The reply to the call may still come, or the call has not returned.
Pending(c) ==
    \/ calls[c].at \in {"send", "remove"}
    \/ \E i \in DOMAIN atPeer[calls[c].peer] : atPeer[calls[c].peer][i] = c
    \/ \E i \in DOMAIN events : events[i].call = c

\* What callers that are Disciplined keep to: a device is not unprepared beside
\* another request, prepares of a device do not overlap, and calls by dhId return
\* before the next one of the same dhIds.
MayCall(f, p, k) ==
    \A c \in DOMAIN calls :
        Pending(c) /\ calls[c].peer = p =>
            /\ ListOf(c) \notin Unpreparing /\ f.list \notin Unpreparing
            /\ f.list \in SetLists => ListOf(c) # f.list
            /\ ListOf(c) = f.list /\ KeyOf(c) = k => calls[c].at \notin {"send", "remove"}

Enter(name, p, s, state) ==
    calls' = Append(calls, [form |-> name, peer |-> p, selection |-> s, at |-> state])

\* A faulty session, with the sink behind the relay (a mutant).
OpenToSink(f, p, s) == IF f.opens THEN sessions \cup {s} ELSE sessions

\* The session that a request opens if there is none.
OpenInputSoftbus(f, p, s) == IF f.opens THEN sessions \cup {p} ELSE sessions

\* The forms of prepare and unprepare, and the starts and stops by dhId, which
\* take no lock: the session is opened if there is none, the callback waits.
Begin(name, p, s) ==
    LET f == FormOf[name]
        c == Len(calls) + 1
    IN  /\ ~f.locked
        /\ \/ /\ f.opens /\ p \notin sessions
              /\ Enter(name, p, s, "failed")
              /\ UNCHANGED << sessions, waiting >>
           \/ /\ sessions' = OpenInputSoftbus(f, p, s)
              /\ waiting' = [waiting EXCEPT ![f.list] = Entered(@, f, << p, s >>, c)]
              /\ Enter(name, p, s, "send")
        /\ UNCHANGED << atPeer, events, answers >>

\* The request is sent when there is a session.
Send(c) ==
    /\ calls[c].at = "send"
    /\ IF calls[c].peer \in sessions
       THEN /\ atPeer' = [atPeer EXCEPT ![calls[c].peer] = Append(@, c)]
            /\ Goto(c, "accepted")
            /\ UNCHANGED answers
       ELSE /\ Goto(c, "remove")
            /\ IF FormOfCall(c).answers THEN OnResult(c, c, FALSE) ELSE UNCHANGED answers
            /\ UNCHANGED atPeer
    /\ UNCHANGED << sessions, waiting, events >>

RemoveCallback(c) ==
    /\ calls[c].at = "remove"
    /\ waiting' = [waiting EXCEPT ![ListOf(c)] = Erased(@, ListOf(c), KeyOf(c))]
    /\ Goto(c, "failed")
    /\ UNCHANGED << sessions, atPeer, events, answers >>

\* A start or stop that finds the key in the list; its callback is told so.
Refuse(name, p, s) ==
    LET f == FormOf[name]
    IN  /\ f.refuses /\ PlaceIn(waiting[f.list], f.list, << p, s >>) # 0
        /\ Enter(name, p, s, "refused")
        /\ OnResult(Len(calls) + 1, Len(calls) + 1, FALSE)
        /\ UNCHANGED << sessions, waiting, atPeer, events >>

\* The other forms of start and stop: the callback waits and the request is
\* sent, or else the first callback with the key hears of it and is erased.
BeginLocked(name, p, s) ==
    LET f == FormOf[name]
        c == Len(calls) + 1
        i == PlaceIn(waiting[f.list], f.list, << p, s >>)
        first == IF i = 0 THEN c ELSE waiting[f.list][i]
    IN  /\ f.locked /\ (f.refuses => i = 0)
        /\ IF p \in sessions
           THEN /\ waiting' = [waiting EXCEPT ![f.list] = Append(@, c)]
                /\ atPeer' = [atPeer EXCEPT ![p] = Append(@, c)]
                /\ Enter(name, p, s, "accepted")
                /\ UNCHANGED answers
           ELSE /\ waiting' = [waiting EXCEPT ![f.list] =
                      IF i = 0 THEN @ ELSE Append(RemoveAt(@, i), c)]
                /\ Enter(name, p, s, "failed")
                /\ IF f.answers THEN OnResult(first, c, FALSE) ELSE UNCHANGED answers
                /\ UNCHANGED atPeer
        /\ UNCHANGED << sessions, events >>

Call(name, p, s) ==
    /\ Len(calls) < MaxCalls
    /\ Disciplined => MayCall(FormOf[name], p, << p, s >>)
    /\ Refuse(name, p, s) \/ Begin(name, p, s) \/ BeginLocked(name, p, s)

(***************************************************************************)
(* The replies.                                                            *)
(***************************************************************************)
\* With a session the replies under way on it end.
NotTo(p) == [atPeer EXCEPT ![p] = << >>]

\* What the listener posts to callBackHandler_.
Posted(c, result) == Append(events, [call |-> c, result |-> result])

\* A reply comes and is posted; requests that differ may overtake each other.
\* The reply to an unprepare closes the session.
OnResponse(p, i, result) ==
    LET c == atPeer[p][i]
        closes == ListOf(c) \in Unpreparing
    IN  /\ \A j \in 1 .. i - 1 : ~ Fits(atPeer[p][j], ListOf(c), KeyOf(c))
        /\ events' = Posted(c, result)
        /\ atPeer' = IF closes THEN NotTo(p) ELSE [atPeer EXCEPT ![p] = RemoveAt(@, i)]
        /\ sessions' = IF closes THEN sessions \ {p} ELSE sessions
        /\ UNCHANGED << calls, waiting, answers >>

\* A faulty search that answers the last entry with the key (a mutant).
RunLastCallback(e) ==
    LET l == ListOf(e.call)
        i == SelectLastInSeq(waiting[l], LAMBDA c : Fits(c, l, KeyOf(e.call)))
    IN  IF i = 0
        THEN UNCHANGED << waiting, answers >>
        ELSE /\ waiting' = [waiting EXCEPT ![l] = RemoveAt(@, i)]
             /\ OnResult(waiting[l][i], e.call, e.result)

\* A faulty search that forgets to erase the entry it answered (a mutant).
RunKeepingCallback(e) ==
    LET l == ListOf(e.call)
        i == PlaceIn(waiting[l], l, KeyOf(e.call))
    IN  /\ IF i = 0 THEN UNCHANGED answers ELSE OnResult(waiting[l][i], e.call, e.result)
        /\ UNCHANGED waiting

\* The first entry with the key is answered and erased.
RunCallback(e) ==
    LET l == ListOf(e.call)
        i == PlaceIn(waiting[l], l, KeyOf(e.call))
    IN  /\ waiting' = [waiting EXCEPT ![l] = Erased(@, l, KeyOf(e.call))]
        /\ IF i = 0 THEN UNCHANGED answers ELSE OnResult(waiting[l][i], e.call, e.result)

\* The event handler takes the next reply.
ProcessEvent ==
    /\ events # << >>
    /\ events' = Tail(events)
    /\ RunCallback(Head(events))
    /\ UNCHANGED << sessions, calls, atPeer >>

\* No call suffers from the loss of the session with p.
LosesNothing(p) ==
    \A c \in DOMAIN calls :
        Pending(c) => calls[c].peer # p /\ (SinkLoaded => ListOf(c) \notin SetLists)

\* A session is lost with the replies under way.  When the sink is loaded the
\* lists of the prepares are cleared, for every device.
LoseSession(p) ==
    /\ p \in sessions
    /\ Lossy \/ LosesNothing(p)
    /\ sessions' = sessions \ {p}
    /\ atPeer' = NotTo(p)
    /\ waiting' = IF SinkLoaded
                  THEN [l \in Lists |-> IF l \in SetLists THEN << >> ELSE waiting[l]]
                  ELSE waiting
    /\ UNCHANGED << calls, events, answers >>

SelectionsOf(name) == IF FormOf[name].list \in {"pre", "unpre"} THEN {All} ELSE Selections

Respond ==
    \E p \in Peers, result \in BOOLEAN : \E i \in DOMAIN atPeer[p] : OnResponse(p, i, result)

Return == \E c \in DOMAIN calls : Send(c) \/ RemoveCallback(c)

Next ==
    \/ \E name \in Forms, p \in Peers : \E s \in SelectionsOf(name) : Call(name, p, s)
    \/ Return \/ Respond \/ ProcessEvent
    \/ \E p \in Peers : LoseSession(p)

Spec == Init /\ [][Next]_vars

\* Calls return, peers that are there reply, and the event handler runs.
FairSpec == Spec /\ WF_vars(Return) /\ WF_vars(Respond) /\ WF_vars(ProcessEvent)

(***************************************************************************)
(* Properties.                                                             *)
(***************************************************************************)
\* Calls that a reply cannot tell apart.
Alike(c, d) == ListOf(c) = ListOf(d) /\ KeyOf(c) = KeyOf(d)

Returning(c) == calls[c].at \in {"send", "remove"}

\* The callbacks that wait are those of the calls whose replies are to come or that have
\* not returned; and of those that are alike the earlier call waits before the later,
\* as its reply is before the other in the queue of the handler and at the peer.
InStep ==
    /\ \A l \in Lists : ToSet(waiting[l]) = {c \in DOMAIN calls : ListOf(c) = l /\ Pending(c)}
    /\ \A l \in Lists : \A i, j \in DOMAIN waiting[l] :
          i < j /\ Alike(waiting[l][i], waiting[l][j]) => waiting[l][i] < waiting[l][j]
    /\ \A i, j \in DOMAIN events :
          i < j /\ Alike(events[i].call, events[j].call) => events[i].call < events[j].call
    /\ \A p \in Peers : \A i, j \in DOMAIN atPeer[p] :
          i < j /\ Alike(atPeer[p][i], atPeer[p][j]) => atPeer[p][i] < atPeer[p][j]
    /\ \A p \in Peers : \A i \in DOMAIN events, j \in DOMAIN atPeer[p] :
          Alike(events[i].call, atPeer[p][j]) => events[i].call < atPeer[p][j]
    /\ \A d \in DOMAIN calls : Returning(d) =>
          /\ \A i \in DOMAIN events : Alike(events[i].call, d) => events[i].call < d
          /\ \A p \in Peers : \A i \in DOMAIN atPeer[p] :
                Alike(atPeer[p][i], d) => atPeer[p][i] < d

\* A callback hears of its own request only, and once: the replies to two
\* requests that look the same are never exchanged.
OwnAnswer ==
    \A c \in DOMAIN calls :
        /\ Len(answers[c]) <= 1
        /\ \A i \in DOMAIN answers[c] : answers[c][i].of = c

\* A start or stop is refused only while an earlier one of the same types is
\* under way ("already started"): no callback blocks its types for good.
RefusedBesideTwinOnly ==
    [][\A c \in DOMAIN calls' \ DOMAIN calls :
           LET new == calls'[c]
           IN  new.at = "refused" =>
                   \E d \in DOMAIN calls : /\ Pending(d)
                                           /\ ListOf(d) = FormOf[new.form].list
                                           /\ KeyOf(d) = << new.peer, new.selection >>]_vars

\* Every request that was sent is answered in the end.
EventuallyAnswered ==
    \A c \in Calls :
        (c \in DOMAIN calls /\ calls[c].at = "accepted") ~> (answers[c] # << >>)

=============================================================================
