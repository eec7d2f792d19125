-------------------------- MODULE InjectThreadProofs --------------------------
(***************************************************************************)
(* Proofs about the inject thread, for any set of devices, any size of     *)
(* message and any number of events.                                       *)
(***************************************************************************)
EXTENDS InjectThread, SequenceTheorems, TLAPS

(***************************************************************************)
(* Types.                                                                  *)
(***************************************************************************)

\* The batch that ReportEvent pushes is a sequence of events.
LEMMA NumberedType ==
    ASSUME TypeOK, NEW b \in Batches
    PROVE  /\ Numbered(b) \in Seq(Events)
           /\ Len(b) \in Nat /\ DOMAIN b = 1 .. Len(b)
           /\ DOMAIN Numbered(b) = DOMAIN b
           /\ \A i \in DOMAIN b : Numbered(b)[i].id = reported + i
<1>1. PICK n \in 1 .. MaxBatch : b \in [1 .. n -> DhIds]
  BY DEF Batches
<1>2. n \in Nat /\ reported \in Nat
  BY <1>1, InjectAssumption DEF TypeOK
<1>3. b \in Seq(DhIds) /\ Len(b) = n /\ DOMAIN b = 1 .. n
  BY <1>1, <1>2, IsASeq
<1>4. Numbered(b) \in [1 .. n -> Events]
  BY <1>1, <1>2, <1>3 DEF Numbered, Events
<1>5. Numbered(b) \in Seq(Events)
  BY <1>2, <1>4, IsASeq
<1> QED
  BY <1>2, <1>3, <1>5 DEF Numbered

\* The thread writes the first event of a batch.
WritesOne == thread = "inject" => batch # << >>

LEMMA InitTypeOK == Init => TypeOK /\ WritesOne
<1>1. << >> \in Seq(Seq(Events)) /\ << >> \in Seq(Events) /\ << >> \in Seq(Nat)
  BY EmptySeq
<1>2. Init => queue \in Seq(Seq(Events)) /\ batch \in Seq(Events) /\ injected \in Seq(Nat)
  BY <1>1, Zenon DEF Init
<1>3. Init => lost \subseteq Nat /\ devices \subseteq DhIds /\ reported \in Nat
  BY DEF Init
<1>4. Init => created \in BOOLEAN /\ running \in BOOLEAN /\ dangling \in BOOLEAN
  BY DEF Init
<1>5. Init => stop \in StopStates /\ thread \in ThreadStates /\ held \in DhIds \cup {NoDevice}
  BY DEF Init, StopStates, ThreadStates
<1>6. Init => WritesOne
  BY DEF Init, WritesOne
<1> QED
  BY <1>2, <1>3, <1>4, <1>5, <1>6 DEF TypeOK

\* Every step of the calls and of the thread keeps the types.
LEMMA NextTypeOK == TypeOK /\ WritesOne /\ [Next]_vars => TypeOK' /\ WritesOne'
<1> SUFFICES ASSUME TypeOK, WritesOne, [Next]_vars PROVE TypeOK' /\ WritesOne'
  OBVIOUS
<1> USE DEF threadVars, deviceVars, historyVars, StopStates, ThreadStates
<1>1. CASE StartInjectThread
  BY <1>1 DEF StartInjectThread, TypeOK, WritesOne
<1>2. CASE StopInjectThread
  BY <1>2 DEF StopInjectThread, TypeOK, WritesOne
<1>3. CASE StopNotify
  BY <1>3 DEF StopNotify, TypeOK, WritesOne, Notified
<1>4. CASE StopJoin
  BY <1>4 DEF StopJoin, TypeOK, WritesOne
<1>5. ASSUME NEW b \in Batches, ReportEvent(b) PROVE TypeOK' /\ WritesOne'
  <2>1. queue' \in Seq(Seq(Events))
    <3>1. Numbered(b) \in Seq(Events) /\ queue \in Seq(Seq(Events))
      BY NumberedType DEF TypeOK
    <3>2. Append(queue, Numbered(b)) \in Seq(Seq(Events))
      BY <3>1, AppendProperties
    <3> QED
      BY <1>5, <3>2 DEF ReportEvent
  <2>2. thread' \in ThreadStates /\ reported' \in Nat
    BY <1>5, NumberedType DEF ReportEvent, TypeOK, WritesOne, Notified
  <2>3. WritesOne'
    BY <1>5 DEF ReportEvent, WritesOne, Notified
  <2>4. UNCHANGED << created, running, stop, batch, devices, held, dangling, injected, lost >>
    BY <1>5 DEF ReportEvent
  <2> QED
    BY <2>1, <2>2, <2>3, <2>4 DEF TypeOK
<1>6. ASSUME NEW d \in DhIds, RegisterDistributedHardware(d) PROVE TypeOK' /\ WritesOne'
  BY <1>6 DEF RegisterDistributedHardware, TypeOK, WritesOne
<1>7. ASSUME NEW d \in DhIds, UnregisterDistributedHardware(d) PROVE TypeOK' /\ WritesOne'
  BY <1>7 DEF UnregisterDistributedHardware, TypeOK, WritesOne
<1>8. CASE TestRunning
  BY <1>8 DEF TestRunning, TypeOK, WritesOne
<1>9. CASE TakeBatch
  <2>1. batch' \in Seq(Events) /\ queue' \in Seq(Seq(Events))
    BY <1>9, HeadTailProperties DEF TakeBatch, TypeOK, WritesOne
  <2> QED
    BY <1>9, <2>1 DEF TakeBatch, TypeOK, WritesOne
<1>10. CASE Sleep
  BY <1>10 DEF Sleep, TypeOK, WritesOne
<1>11. CASE LookUp
  <2>1. \A i \in DOMAIN batch : batch[i] \in Events
    BY LenProperties, ElementOfSeq DEF TypeOK
  <2>2. Ids(batch) \subseteq Nat
    BY <2>1 DEF Ids, Events
  <2>3. batch # << >> => Head(batch).dhId \in DhIds
    <3>1. batch # << >> => Head(batch) \in Events
      BY HeadTailProperties DEF TypeOK
    <3> QED
      BY <3>1 DEF Events
  <2>4. << >> \in Seq(Events)
    BY EmptySeq
  <2> QED
    BY <1>11, <2>2, <2>3, <2>4 DEF LookUp, TypeOK, WritesOne
<1>12. CASE InjectInputEvent
  <2>1. Head(batch) \in Events /\ Tail(batch) \in Seq(Events)
    BY <1>12, HeadTailProperties DEF InjectInputEvent, TypeOK, WritesOne
  <2>2. Head(batch).id \in Nat
    BY <2>1 DEF Events
  <2>3. Append(injected, Head(batch).id) \in Seq(Nat)
    BY <2>2, AppendProperties DEF TypeOK
  <2> QED
    BY <1>12, <2>1, <2>2, <2>3 DEF InjectInputEvent, TypeOK, WritesOne
<1>13. CASE SpuriousWakeup
  BY <1>13 DEF SpuriousWakeup, TypeOK, WritesOne
<1>14. CASE UNCHANGED vars
  BY <1>14 DEF vars, TypeOK, WritesOne
<1> QED
  BY <1>1, <1>2, <1>3, <1>4, <1>5, <1>6, <1>7, <1>8, <1>9, <1>10, <1>11, <1>12, <1>13, <1>14
     DEF Next, InjectEvent

(***************************************************************************)
(* The inductive invariant.  Beside the types, each part is inductive: the *)
(* sleep (the queue grows only when the thread is not between its test and *)
(* its sleep, and wakes it), and the single thread.                        *)
(***************************************************************************)
IInv == TypeOK /\ WritesOne /\ SleepsOnlyWhenEmpty /\ NeverTwoThreads

LEMMA InitIInv == Init => IInv
BY InitTypeOK DEF Init, IInv, SleepsOnlyWhenEmpty, NeverTwoThreads, NodeManagerFree

LEMMA NextIInv == IInv /\ [Next]_vars => IInv'
<1> SUFFICES ASSUME IInv, [Next]_vars
             PROVE SleepsOnlyWhenEmpty' /\ NeverTwoThreads'
  BY NextTypeOK DEF IInv
<1> USE DEF threadVars, deviceVars, historyVars, IInv, SleepsOnlyWhenEmpty,
            NeverTwoThreads, NodeManagerFree
<1>1. CASE StartInjectThread
  BY <1>1 DEF StartInjectThread
<1>2. CASE StopInjectThread
  BY <1>2 DEF StopInjectThread
<1>3. CASE StopNotify
  BY <1>3 DEF StopNotify, Notified
<1>4. CASE StopJoin
  BY <1>4 DEF StopJoin
<1>5. ASSUME NEW b \in Batches, ReportEvent(b)
      PROVE SleepsOnlyWhenEmpty' /\ NeverTwoThreads'
  BY <1>5 DEF ReportEvent, QueueFree, Notified
<1>6. ASSUME NEW d \in DhIds, RegisterDistributedHardware(d)
      PROVE SleepsOnlyWhenEmpty' /\ NeverTwoThreads'
  BY <1>6 DEF RegisterDistributedHardware
<1>7. ASSUME NEW d \in DhIds, UnregisterDistributedHardware(d)
      PROVE SleepsOnlyWhenEmpty' /\ NeverTwoThreads'
  BY <1>7 DEF UnregisterDistributedHardware
<1>8. CASE TestRunning
  BY <1>8 DEF TestRunning
<1>9. CASE TakeBatch
  BY <1>9 DEF TakeBatch
<1>10. CASE Sleep
  BY <1>10 DEF Sleep
<1>11. CASE LookUp
  BY <1>11 DEF LookUp
<1>12. CASE InjectInputEvent
  BY <1>12 DEF InjectInputEvent
<1>13. CASE SpuriousWakeup
  BY <1>13 DEF SpuriousWakeup
<1>14. CASE UNCHANGED vars
  BY <1>14 DEF vars
<1> QED
  BY <1>1, <1>2, <1>3, <1>4, <1>5, <1>6, <1>7, <1>8, <1>9, <1>10, <1>11, <1>12, <1>13, <1>14
     DEF Next, InjectEvent

\* The invariant holds in every reachable state.
THEOREM Invariance == Spec => []IInv
BY InitIInv, NextIInv, PTL DEF Spec

\* Type correctness of the inject thread's state: in particular the device map
\* never holds a null entry (virtualDeviceMap_).
THEOREM TypeCorrect == Spec => []TypeOK
<1>1. IInv => TypeOK
  BY DEF IInv
<1> QED
  BY <1>1, Invariance, PTL

\* The thread never sleeps on a batch, whatever the number of events and devices
\* (InjectEvent's wait and ReportEvent's push and notification).
THEOREM NeverSleepsOnWork == Spec => []SleepsOnlyWhenEmpty
<1>1. IInv => SleepsOnlyWhenEmpty
  BY DEF IInv
<1> QED
  BY <1>1, Invariance, PTL

\* StartInjectThread never assigns to a joinable std::thread.
THEOREM OneThread == Spec => []NeverTwoThreads
<1>1. IInv => NeverTwoThreads
  BY DEF IInv
<1> QED
  BY <1>1, Invariance, PTL

\* Only the thread writes or drops events, and there is none between the return
\* of StopInjectThread and the next StartInjectThread.
THEOREM QuietAfterStop == Spec => StoppedIsQuiet
<1>1. IInv /\ [Next]_vars =>
        [(injected' # injected \/ lost' # lost) => created \/ stop # "idle"]_vars
  <2> SUFFICES ASSUME IInv, Next, ~created, stop = "idle"
               PROVE  injected' = injected /\ lost' = lost
    BY DEF vars
  <2>1. thread = "none"
    BY DEF IInv, NeverTwoThreads, NodeManagerFree
  <2>2. ~LookUp /\ ~InjectInputEvent
    BY <2>1 DEF LookUp, InjectInputEvent
  <2> QED
    BY <2>2 DEF Next, InjectEvent, StartInjectThread, StopInjectThread, StopNotify, StopJoin,
                ReportEvent, RegisterDistributedHardware, UnregisterDistributedHardware,
                TestRunning, TakeBatch, Sleep, SpuriousWakeup, historyVars
<1> QED
  BY <1>1, Invariance, PTL DEF Spec, StoppedIsQuiet

(***************************************************************************)
(* The order of the events.  What is written, the batch and the queue are  *)
(* in order, and nothing in them has a number that was not given yet.      *)
(***************************************************************************)
Given(w, b, q) ==
    /\ \A i \in DOMAIN w : w[i] <= reported
    /\ \A k \in DOMAIN b : b[k].id <= reported
    /\ \A i \in DOMAIN q : \A k \in DOMAIN q[i] : q[i][k].id <= reported

GivenSoFar == Given(injected, batch, queue)

OrderInv == GivenSoFar /\ InjectedInOrder

\* What a batch is made of.
LEMMA BatchIds ==
    ASSUME NEW b \in Seq(Events)
    PROVE  /\ Len(b) \in Nat /\ DOMAIN b = 1 .. Len(b)
           /\ \A k \in DOMAIN b : b[k] \in Events /\ b[k].id \in Nat
<1>1. Len(b) \in Nat /\ DOMAIN b = 1 .. Len(b)
  BY LenProperties
<1>2. \A k \in DOMAIN b : b[k] \in Events
  BY <1>1, ElementOfSeq
<1> QED
  BY <1>1, <1>2 DEF Events

\* Appending a batch whose events come after all others keeps the order.
LEMMA PushInOrder ==
    ASSUME NEW w \in Seq(Nat), NEW b \in Seq(Events), NEW q \in Seq(Seq(Events)),
           NEW c \in Seq(Events), InOrder(w, b, q),
           Sorted(c), WrittenBefore(w, c), Precedes(b, c),
           \A i \in DOMAIN q : Precedes(q[i], c)
    PROVE  InOrder(w, b, Append(q, c))
<1> DEFINE r == Append(q, c)
<1>1. Len(q) \in Nat /\ DOMAIN q = 1 .. Len(q) /\ DOMAIN r = 1 .. Len(q) + 1
  BY AppendProperties, LenProperties
<1>2. (\A i \in 1 .. Len(q) : r[i] = q[i]) /\ r[Len(q) + 1] = c
  BY AppendProperties
<1> HIDE DEF r
<1>3. ASSUME NEW i \in DOMAIN r
      PROVE  Sorted(r[i]) /\ WrittenBefore(w, r[i]) /\ Precedes(b, r[i])
  <2>1. CASE i \in DOMAIN q
    <3>1. r[i] = q[i]
      BY <1>1, <1>2, <2>1
    <3>2. Sorted(q[i]) /\ WrittenBefore(w, q[i]) /\ Precedes(b, q[i])
      BY <2>1 DEF InOrder
    <3> QED
      BY <3>1, <3>2
  <2>2. CASE i = Len(q) + 1
    BY <1>2, <2>2
  <2> QED
    BY <1>1, <2>1, <2>2
<1>4. ASSUME NEW i \in DOMAIN r, NEW j \in DOMAIN r, i < j PROVE Precedes(r[i], r[j])
  <2>1. i \in DOMAIN q /\ r[i] = q[i]
    BY <1>1, <1>2, <1>4
  <2>2. CASE j \in DOMAIN q
    BY <1>1, <1>2, <1>4, <2>1, <2>2 DEF InOrder
  <2>3. CASE j = Len(q) + 1
    BY <1>2, <2>1, <2>3
  <2> QED
    BY <1>1, <2>2, <2>3
<1>5. InOrder(w, b, r)
  BY <1>3, <1>4 DEF InOrder
<1> QED
  BY <1>5 DEF r

\* Taking the first batch of the queue keeps the order, whatever was left of the
\* batch before it.
LEMMA TakeInOrder ==
    ASSUME NEW w \in Seq(Nat), NEW b \in Seq(Events), NEW q \in Seq(Seq(Events)),
           InOrder(w, b, q), q # << >>
    PROVE  InOrder(w, Head(q), Tail(q))
<1> DEFINE t == Tail(q)
           h == Head(q)
<1>1. /\ Len(q) \in Nat /\ Len(q) > 0 /\ DOMAIN q = 1 .. Len(q)
      /\ DOMAIN t = 1 .. Len(q) - 1 /\ h = q[1]
      /\ \A i \in DOMAIN t : t[i] = q[i + 1]
  BY HeadTailProperties, LenProperties, EmptySeq
<1> HIDE DEF t, h
<1>2. Sorted(h) /\ WrittenBefore(w, h)
  <2>1. 1 \in DOMAIN q /\ h = q[1]
    BY <1>1
  <2>2. Sorted(q[1]) /\ WrittenBefore(w, q[1])
    BY <2>1 DEF InOrder
  <2> QED
    BY <2>1, <2>2
<1>3. \A i \in DOMAIN t : i + 1 \in DOMAIN q /\ 1 < i + 1 /\ 1 \in DOMAIN q
  BY <1>1
<1>4. \A i \in DOMAIN t : Sorted(t[i]) /\ WrittenBefore(w, t[i]) /\ Precedes(h, t[i])
  BY <1>1, <1>3 DEF InOrder
<1>5. \A i, j \in DOMAIN t : i < j => i + 1 < j + 1
  BY <1>1
<1>6. \A i, j \in DOMAIN t : i < j => Precedes(t[i], t[j])
  BY <1>1, <1>3, <1>5 DEF InOrder
<1>7. InOrder(w, h, t)
  BY <1>2, <1>4, <1>6 DEF InOrder
<1> QED
  BY <1>7 DEF h, t

\* What is left of a batch after its first event.
LEMMA TailOf ==
    ASSUME NEW b \in Seq(Events), b # << >>
    PROVE  /\ Len(b) \in Nat /\ DOMAIN b = 1 .. Len(b) /\ 1 \in DOMAIN b /\ Head(b) = b[1]
           /\ DOMAIN Tail(b) = 1 .. Len(b) - 1
           /\ \A k \in DOMAIN Tail(b) : k + 1 \in DOMAIN b /\ 1 < k + 1 /\ Tail(b)[k] = b[k + 1]
<1>1. Len(b) \in Nat /\ Len(b) > 0 /\ DOMAIN b = 1 .. Len(b)
  BY LenProperties, EmptySeq
<1>2. /\ Tail(b) \in Seq(Events) /\ Len(Tail(b)) = Len(b) - 1
      /\ Head(b) = b[1] /\ \A k \in 1 .. Len(b) - 1 : Tail(b)[k] = b[k + 1]
  BY HeadTailProperties
<1>3. DOMAIN Tail(b) = 1 .. Len(b) - 1
  BY <1>2, LenProperties
<1> QED
  BY <1>1, <1>2, <1>3

\* Leaving out the first event of the batch keeps the order.
LEMMA SkipInOrder ==
    ASSUME NEW w \in Seq(Nat), NEW b \in Seq(Events), NEW q \in Seq(Seq(Events)),
           InOrder(w, b, q), b # << >>
    PROVE  InOrder(w, Tail(b), q)
<1> DEFINE t == Tail(b)
<1>1. /\ DOMAIN t \subseteq Int
      /\ \A k \in DOMAIN t : k + 1 \in DOMAIN b /\ t[k] = b[k + 1]
  BY TailOf
<1> HIDE DEF t
<1>2. Sorted(t)
  <2> SUFFICES ASSUME NEW k \in DOMAIN t, NEW l \in DOMAIN t, k < l PROVE t[k].id < t[l].id
    BY DEF Sorted
  <2>1. k + 1 < l + 1
    BY <1>1
  <2> QED
    BY <1>1, <2>1 DEF InOrder, Sorted
<1>3. WrittenBefore(w, t)
  BY <1>1 DEF InOrder, WrittenBefore
<1>4. \A i \in DOMAIN q : Precedes(t, q[i])
  BY <1>1 DEF InOrder, Precedes
<1>5. InOrder(w, t, q)
  BY <1>2, <1>3, <1>4 DEF InOrder
<1> QED
  BY <1>5 DEF t

\* Writing the first event of the batch keeps the order.
LEMMA WriteInOrder ==
    ASSUME NEW w \in Seq(Nat), NEW b \in Seq(Events), NEW q \in Seq(Seq(Events)),
           InOrder(w, b, q), b # << >>
    PROVE  InOrder(Append(w, Head(b).id), Tail(b), q)
<1> DEFINE n == Head(b).id
           v == Append(w, n)
           t == Tail(b)
<1>1. n \in Nat /\ n = b[1].id /\ 1 \in DOMAIN b
  BY TailOf, BatchIds
<1>2. /\ DOMAIN t \subseteq Int
      /\ \A k \in DOMAIN t : k + 1 \in DOMAIN b /\ 1 < k + 1 /\ t[k] = b[k + 1]
  BY TailOf
<1>3. /\ Len(w) \in Nat /\ DOMAIN w = 1 .. Len(w) /\ DOMAIN v = 1 .. Len(w) + 1
      /\ (\A i \in 1 .. Len(w) : v[i] = w[i]) /\ v[Len(w) + 1] = n
  <2>1. v \in Seq(Nat) /\ Len(v) = Len(w) + 1
    BY <1>1, AppendProperties
  <2>2. (\A i \in 1 .. Len(w) : v[i] = w[i]) /\ v[Len(w) + 1] = n
    BY <1>1, AppendProperties
  <2> QED
    BY <2>1, <2>2, LenProperties
<1>4. InOrder(w, t, q)
  BY SkipInOrder
<1> HIDE DEF n, v, t
<1>5. \A i \in DOMAIN w : w[i] < n
  BY <1>1 DEF InOrder, WrittenBefore
<1>6. Increasing(v)
  <2> SUFFICES ASSUME NEW i \in DOMAIN v, NEW j \in DOMAIN v, i < j PROVE v[i] < v[j]
    BY DEF Increasing
  <2>1. i \in DOMAIN w /\ v[i] = w[i]
    BY <1>3
  <2>2. CASE j \in DOMAIN w
    <3>1. w[i] < w[j]
      BY <2>1, <2>2 DEF InOrder, Increasing
    <3> QED
      BY <1>3, <2>1, <2>2, <3>1
  <2>3. CASE j = Len(w) + 1
    BY <1>3, <1>5, <2>1, <2>3
  <2> QED
    BY <1>3, <2>2, <2>3
<1>7. \A k \in DOMAIN t : n < t[k].id
  BY <1>1, <1>2 DEF InOrder, Sorted
<1>8. WrittenBefore(v, t)
  <2> SUFFICES ASSUME NEW j \in DOMAIN v, NEW k \in DOMAIN t PROVE v[j] < t[k].id
    BY DEF WrittenBefore
  <2>1. CASE j \in DOMAIN w
    <3>1. w[j] < t[k].id
      BY <1>4, <2>1 DEF InOrder, WrittenBefore
    <3> QED
      BY <1>3, <2>1, <3>1
  <2>2. CASE j = Len(w) + 1
    <3>1. v[j] = n
      BY <1>3, <2>2
    <3>2. n < t[k].id
      BY <1>7
    <3> QED
      BY <3>1, <3>2
  <2>3. j \in DOMAIN w \/ j = Len(w) + 1
    BY <1>3
  <2> QED
    BY <2>1, <2>2, <2>3
<1>9. \A i \in DOMAIN q : WrittenBefore(v, q[i])
  <2> SUFFICES ASSUME NEW i \in DOMAIN q, NEW j \in DOMAIN v, NEW k \in DOMAIN q[i]
               PROVE  v[j] < q[i][k].id
    BY DEF WrittenBefore
  <2>1. CASE j \in DOMAIN w
    BY <1>3, <2>1 DEF InOrder, WrittenBefore
  <2>2. CASE j = Len(w) + 1
    BY <1>1, <1>3, <2>2 DEF InOrder, Precedes
  <2> QED
    BY <1>3, <2>1, <2>2
<1>10. InOrder(v, t, q)
  BY <1>4, <1>6, <1>8, <1>9 DEF InOrder
<1> QED
  BY <1>10 DEF n, v, t

LEMMA InitOrder == Init => OrderInv
BY DEF Init, OrderInv, GivenSoFar, Given, InjectedInOrder, InOrder, Increasing, Sorted,
       WrittenBefore, Precedes

\* Every step keeps the order.
LEMMA NextOrder == TypeOK /\ WritesOne /\ OrderInv /\ [Next]_vars => OrderInv'
<1> SUFFICES ASSUME TypeOK, WritesOne, OrderInv, [Next]_vars PROVE OrderInv'
  OBVIOUS
<1>1. /\ injected \in Seq(Nat) /\ batch \in Seq(Events) /\ queue \in Seq(Seq(Events))
      /\ reported \in Nat
  BY DEF TypeOK
<1>2. InOrder(injected, batch, queue) /\ Given(injected, batch, queue)
  BY DEF OrderInv, InjectedInOrder, GivenSoFar
<1>3. CASE UNCHANGED << injected, batch, queue, reported >>
  BY <1>3 DEF OrderInv, InjectedInOrder, GivenSoFar, InOrder, Given, Increasing, Sorted,
              WrittenBefore, Precedes
<1>4. ASSUME NEW b \in Batches, ReportEvent(b) PROVE OrderInv'
  <2> DEFINE c == Numbered(b)
  <2>1. /\ c \in Seq(Events) /\ DOMAIN c = 1 .. Len(b) /\ Len(b) \in Nat
        /\ \A i \in DOMAIN c : c[i].id = reported + i
    BY NumberedType
  <2>2. /\ queue' = Append(queue, c) /\ batch' = batch /\ injected' = injected
        /\ reported' = reported + Len(b)
    BY <1>4 DEF ReportEvent, historyVars
  <2> HIDE DEF c
  <2>3. Sorted(c)
    BY <1>1, <2>1 DEF Sorted
  <2>4. WrittenBefore(injected, c)
    <3> SUFFICES ASSUME NEW i \in DOMAIN injected, NEW k \in DOMAIN c
                 PROVE  injected[i] < c[k].id
      BY DEF WrittenBefore
    <3>1. injected[i] \in Nat /\ injected[i] <= reported
      BY <1>1, <1>2, LenProperties, ElementOfSeq DEF Given
    <3> QED
      BY <1>1, <2>1, <3>1
  <2>5. ASSUME NEW d \in Seq(Events), \A k \in DOMAIN d : d[k].id <= reported
        PROVE  Precedes(d, c)
    BY <1>1, <2>1, <2>5, BatchIds DEF Precedes
  <2>6. \A i \in DOMAIN queue : queue[i] \in Seq(Events)
    BY <1>1, LenProperties, ElementOfSeq
  <2>7. Precedes(batch, c) /\ \A i \in DOMAIN queue : Precedes(queue[i], c)
    BY <1>1, <1>2, <2>5, <2>6 DEF Given
  <2>8. InOrder(injected, batch, Append(queue, c))
    BY <1>1, <1>2, <2>1, <2>3, <2>4, <2>7, PushInOrder
  <2>9. \A n \in Nat : n <= reported => n <= reported'
    BY <1>1, <2>1, <2>2
  <2>10. \A i \in DOMAIN injected' : injected'[i] <= reported'
    <3>1. \A i \in DOMAIN injected : injected[i] \in Nat /\ injected[i] <= reported
      BY <1>1, <1>2, LenProperties, ElementOfSeq DEF Given
    <3> QED
      BY <2>2, <2>9, <3>1
  <2>11. \A k \in DOMAIN batch' : batch'[k].id <= reported'
    <3>1. \A k \in DOMAIN batch : batch[k].id \in Nat /\ batch[k].id <= reported
      BY <1>1, <1>2, BatchIds DEF Given
    <3> QED
      BY <2>2, <2>9, <3>1
  <2>12. ASSUME NEW i \in DOMAIN queue'
         PROVE  \A k \in DOMAIN queue'[i] : queue'[i][k].id <= reported'
    <3>1. /\ DOMAIN queue = 1 .. Len(queue) /\ DOMAIN queue' = 1 .. Len(queue) + 1
          /\ \A j \in 1 .. Len(queue) : queue'[j] = queue[j]
          /\ queue'[Len(queue) + 1] = c /\ Len(queue) \in Nat
      BY <1>1, <2>1, <2>2, AppendProperties, LenProperties
    <3>2. CASE i \in DOMAIN queue
      <4>1. queue'[i] = queue[i]
        BY <3>1, <3>2
      <4>2. \A k \in DOMAIN queue[i] : queue[i][k].id \in Nat /\ queue[i][k].id <= reported
        BY <1>2, <2>6, <3>2, BatchIds DEF Given
      <4> QED
        BY <2>9, <4>1, <4>2
    <3>3. CASE i = Len(queue) + 1
      <4>1. queue'[i] = c
        BY <3>1, <3>3
      <4>2. \A k \in DOMAIN c : c[k].id <= reported'
        BY <1>1, <2>1, <2>2
      <4> QED
        BY <4>1, <4>2
    <3> QED
      BY <3>1, <3>2, <3>3
  <2>13. InjectedInOrder'
    BY <2>2, <2>8 DEF InjectedInOrder
  <2> QED
    BY <2>10, <2>11, <2>12, <2>13 DEF OrderInv, GivenSoFar, Given
<1>5. CASE TakeBatch
  <2>1. SUFFICES ASSUME queue # << >>, batch' = Head(queue), queue' = Tail(queue),
                        injected' = injected, reported' = reported
                 PROVE  OrderInv'
    BY <1>3, <1>5 DEF TakeBatch, historyVars
  <2>2. InOrder(injected, Head(queue), Tail(queue))
    BY <1>1, <1>2, <2>1, TakeInOrder
  <2>3. /\ DOMAIN queue = 1 .. Len(queue) /\ Len(queue) \in Nat /\ Len(queue) > 0
        /\ DOMAIN queue' = 1 .. Len(queue) - 1 /\ batch' = queue[1]
        /\ \A i \in DOMAIN queue' : queue'[i] = queue[i + 1]
    BY <1>1, <2>1, HeadTailProperties, LenProperties, EmptySeq
  <2>4. 1 \in DOMAIN queue /\ \A i \in DOMAIN queue' : i + 1 \in DOMAIN queue
    BY <2>3
  <2>5. Given(injected, batch', queue')
    BY <1>2, <2>3, <2>4 DEF Given
  <2> QED
    BY <2>1, <2>2, <2>5 DEF OrderInv, GivenSoFar, Given, InjectedInOrder
<1>6. CASE LookUp
  <2>1. SUFFICES ASSUME batch' = << >>, queue' = queue, injected' = injected,
                        reported' = reported
                 PROVE  OrderInv'
    BY <1>3, <1>6 DEF LookUp
  <2>2. InOrder(injected, << >>, queue) /\ Given(injected, << >>, queue)
    BY <1>2 DEF InOrder, Given, Sorted, WrittenBefore, Precedes
  <2> QED
    BY <2>1, <2>2 DEF OrderInv, GivenSoFar, Given, InjectedInOrder
<1>7. CASE InjectInputEvent
  <2> DEFINE n == Head(batch).id
             t == Tail(batch)
  <2>1. batch # << >>
    BY <1>7 DEF InjectInputEvent, WritesOne
  <2>2. n \in Nat /\ n <= reported
    BY <1>1, <1>2, <2>1, TailOf, BatchIds DEF Given
  <2>3. \A k \in DOMAIN t : t[k].id <= reported
    BY <1>1, <1>2, <2>1, TailOf DEF Given
  <2>4. batch' = t /\ queue' = queue /\ reported' = reported
        /\ (injected' = Append(injected, n) \/ injected' = injected)
    BY <1>7 DEF InjectInputEvent
  <2>5. InOrder(injected, t, queue) /\ InOrder(Append(injected, n), t, queue)
    BY <1>1, <1>2, <2>1, SkipInOrder, WriteInOrder
  <2>6. \A i \in DOMAIN Append(injected, n) : Append(injected, n)[i] <= reported
    <3>1. PICK m \in Nat, w \in Seq(Nat) : m = n /\ w = injected
      BY <1>1, <2>2
    <3>2. DOMAIN w = 1 .. Len(w) /\ Len(w) \in Nat
      BY LenProperties
    <3>3. PICK u : u = Append(w, m)
      OBVIOUS
    <3>4. /\ u \in Seq(Nat) /\ Len(u) = Len(w) + 1
          /\ \A i \in 1 .. Len(w) : u[i] = w[i]
          /\ u[Len(w) + 1] = m
      BY <3>3, AppendProperties
    <3>5. DOMAIN u = 1 .. Len(w) + 1
      BY <3>4, LenProperties
    <3>6. m <= reported /\ \A i \in DOMAIN w : w[i] <= reported
      BY <1>2, <2>2, <3>1 DEF Given
    <3>7. \A i \in DOMAIN u : u[i] <= reported
      BY <3>2, <3>4, <3>5, <3>6
    <3> QED
      BY <3>1, <3>3, <3>7
  <2> HIDE DEF n, t
  <2>7. Given(injected, t, queue)
    BY <1>2, <2>3 DEF Given
  <2>8. Given(Append(injected, n), t, queue)
    BY <1>2, <2>3, <2>6 DEF Given
  <2>9. CASE injected' = injected
    BY <2>4, <2>5, <2>7, <2>9 DEF OrderInv, GivenSoFar, Given, InjectedInOrder
  <2>10. CASE injected' = Append(injected, n)
    BY <2>4, <2>5, <2>8, <2>10 DEF OrderInv, GivenSoFar, Given, InjectedInOrder
  <2> QED
    BY <2>4, <2>9, <2>10
<1>8. CASE \/ StartInjectThread \/ StopInjectThread \/ StopNotify \/ StopJoin \/ Sleep
           \/ TestRunning \/ SpuriousWakeup
           \/ \E d \in DhIds : RegisterDistributedHardware(d) \/ UnregisterDistributedHardware(d)
  BY <1>3, <1>8 DEF StartInjectThread, StopInjectThread, StopNotify, StopJoin, Sleep, TestRunning,
     SpuriousWakeup, RegisterDistributedHardware, UnregisterDistributedHardware, historyVars
<1> QED
  BY <1>3, <1>4, <1>5, <1>6, <1>7, <1>8 DEF Next, InjectEvent, vars, historyVars

\* The order of the events and their numbers, in every reachable state.
THEOREM OrderInvariance == Spec => []OrderInv
<1>1. IInv => TypeOK /\ WritesOne
  BY DEF IInv
<1> QED
  BY <1>1, InitOrder, NextOrder, Invariance, PTL DEF Spec

\* Events reach their devices in the order they were reported and at most once,
\* for any number of events and of devices, over stops, restarts and lost devices
\* (ReportEvent's push, InjectEvent's swap and ProcessInjectEvent's loop).
THEOREM OrderKept == Spec => []InjectedInOrder
<1>1. OrderInv => InjectedInOrder
  BY DEF OrderInv
<1> QED
  BY <1>1, OrderInvariance, PTL

(***************************************************************************)
(* The refinement.  A step of the thread or of a call is a step of the     *)
(* channel or leaves what the channel sees alone; the order says that the  *)
(* head of the batch is the oldest event, the sleep and the single thread  *)
(* that a thread at work is not quiet.                                     *)
(***************************************************************************)

\* A number waits when it is in the batch or in a queued batch.
LEMMA WaitingParts ==
    ASSUME NEW n
    PROVE  n \in Waiting <=> \/ \E k \in DOMAIN batch : n = batch[k].id
                             \/ \E i \in DOMAIN queue : \E k \in DOMAIN queue[i] : n = queue[i][k].id
BY DEF Waiting, Ids

\* The same of the next state.
LEMMA WaitingPartsPrime ==
    ASSUME NEW n
    PROVE  n \in Waiting' <=> \/ \E k \in DOMAIN batch' : n = batch'[k].id
                              \/ \E i \in DOMAIN queue' : \E k \in DOMAIN queue'[i] : n = queue'[i][k].id
BY DEF Waiting, Ids

\* A batch that is pushed adds its numbers.
LEMMA ReportWaits ==
    ASSUME TypeOK, NEW b \in Batches, ReportEvent(b)
    PROVE  Injector!Report(Len(b))
<1> DEFINE c == Numbered(b)
           N == Len(queue)
<1>1. /\ c \in Seq(Events) /\ DOMAIN c = 1 .. Len(b) /\ Len(b) \in Nat
      /\ \A i \in DOMAIN c : c[i].id = reported + i
  BY NumberedType
<1>2. Len(b) > 0
  BY InjectAssumption DEF Batches
<1>3. /\ queue' = Append(queue, c) /\ batch' = batch /\ injected' = injected
      /\ reported' = reported + Len(b) /\ created' = created /\ stop' = stop
  BY DEF ReportEvent, historyVars
<1>4. queue \in Seq(Seq(Events)) /\ reported \in Nat
  BY DEF TypeOK
<1> HIDE DEF c
<1>5. /\ DOMAIN queue = 1 .. N /\ DOMAIN queue' = 1 .. N + 1 /\ N \in Nat
      /\ \A j \in 1 .. N : queue'[j] = queue[j]
      /\ queue'[N + 1] = c
  BY <1>1, <1>3, <1>4, AppendProperties, LenProperties
<1> HIDE DEF N
<1>6. ASSUME NEW n
      PROVE  (\E i \in DOMAIN queue' : \E k \in DOMAIN queue'[i] : n = queue'[i][k].id)
             <=> \/ \E i \in DOMAIN queue : \E k \in DOMAIN queue[i] : n = queue[i][k].id
                 \/ \E k \in DOMAIN c : n = c[k].id
  <2>1. \A i \in DOMAIN queue' : i \in DOMAIN queue \/ i = N + 1
    BY <1>5
  <2>2. \A i \in DOMAIN queue : i \in DOMAIN queue' /\ queue'[i] = queue[i]
    BY <1>5
  <2>3. N + 1 \in DOMAIN queue'
    BY <1>5
  <2> QED
    BY <1>5, <2>1, <2>2, <2>3
<1>7. ASSUME NEW n
      PROVE  (\E k \in DOMAIN c : n = c[k].id) <=> n \in reported + 1 .. reported + Len(b)
  <2>1. ASSUME NEW k \in DOMAIN c, n = c[k].id PROVE n \in reported + 1 .. reported + Len(b)
    BY <1>1, <1>4, <2>1
  <2>2. ASSUME n \in reported + 1 .. reported + Len(b) PROVE \E k \in DOMAIN c : n = c[k].id
    <3>1. n - reported \in DOMAIN c /\ reported + (n - reported) = n
      BY <1>1, <1>4, <2>2
    <3> QED
      BY <1>1, <3>1
  <2> QED
    BY <2>1, <2>2
<1>8. Waiting' = Waiting \cup (reported + 1 .. reported + Len(b))
  <2>1. ASSUME NEW n
        PROVE  n \in Waiting' <=> n \in Waiting \/ n \in reported + 1 .. reported + Len(b)
    BY <1>3, <1>6, <1>7, WaitingParts, WaitingPartsPrime
  <2> QED
    BY <2>1
<1> QED
  BY <1>2, <1>3, <1>8 DEF Injector!Report

\* The thread that takes a batch leaves what waits as it was.
LEMMA TakeKeepsWaiting ==
    ASSUME TypeOK, queue # << >>, batch' = Head(queue), queue' = Tail(queue), batch = << >>
    PROVE  Waiting' = Waiting
<1>1. queue \in Seq(Seq(Events))
  BY DEF TypeOK
<1>2. /\ DOMAIN queue = 1 .. Len(queue) /\ Len(queue) \in Nat /\ Len(queue) > 0
      /\ DOMAIN queue' = 1 .. Len(queue) - 1 /\ batch' = queue[1]
      /\ \A i \in DOMAIN queue' : queue'[i] = queue[i + 1]
  BY <1>1, HeadTailProperties, LenProperties, EmptySeq
<1>3. ASSUME NEW n
      PROVE  n \in Waiting' <=> n \in Waiting
  <2>1. n \in Waiting <=> \E i \in DOMAIN queue : \E k \in DOMAIN queue[i] : n = queue[i][k].id
    <3>1. DOMAIN batch = {}
      BY EmptySeq
    <3> QED
      BY <3>1, WaitingParts
  <2>2. ASSUME n \in Waiting' PROVE n \in Waiting
    <3>1. CASE \E k \in DOMAIN batch' : n = batch'[k].id
      BY <1>2, <2>1, <3>1
    <3>2. CASE \E i \in DOMAIN queue' : \E k \in DOMAIN queue'[i] : n = queue'[i][k].id
      <4>1. PICK i \in DOMAIN queue' : \E k \in DOMAIN queue'[i] : n = queue'[i][k].id
        BY <3>2
      <4>2. i + 1 \in DOMAIN queue /\ queue'[i] = queue[i + 1]
        BY <1>2
      <4> QED
        BY <2>1, <4>1, <4>2
    <3> QED
      BY <2>2, <3>1, <3>2, WaitingPartsPrime
  <2>3. ASSUME n \in Waiting PROVE n \in Waiting'
    <3>1. PICK i \in DOMAIN queue : \E k \in DOMAIN queue[i] : n = queue[i][k].id
      BY <2>1, <2>3
    <3>2. CASE i = 1
      BY <1>2, <3>1, <3>2, WaitingPartsPrime
    <3>3. CASE i # 1
      <4>1. i - 1 \in DOMAIN queue' /\ (i - 1) + 1 = i
        BY <1>2, <3>3
      <4>2. queue'[i - 1] = queue[i]
        BY <1>2, <4>1
      <4> QED
        BY <3>1, <4>1, <4>2, WaitingPartsPrime
    <3> QED
      BY <3>2, <3>3
  <2> QED
    BY <2>2, <2>3
<1> QED
  BY <1>3

\* The head of the batch is the oldest event; without it, what waits is newer.
LEMMA HeadIsOldest ==
    ASSUME TypeOK, OrderInv, batch # << >>
    PROVE  /\ Head(batch).id \in Waiting /\ Head(batch).id \in Nat
           /\ \A m \in Waiting : m \in Nat /\ Head(batch).id <= m
           /\ Ids(Tail(batch)) \cup UNION {Ids(queue[q]) : q \in DOMAIN queue}
                = Waiting \ {Head(batch).id}
           /\ Waiting \ {Head(batch).id} = {m \in Waiting : Head(batch).id < m}
<1> DEFINE h == Head(batch).id
           R == Ids(Tail(batch)) \cup UNION {Ids(queue[q]) : q \in DOMAIN queue}
<1>1. batch \in Seq(Events) /\ queue \in Seq(Seq(Events))
  BY DEF TypeOK
<1>2. InOrder(injected, batch, queue)
  BY DEF OrderInv, InjectedInOrder
<1>3. /\ Len(batch) \in Nat /\ DOMAIN batch = 1 .. Len(batch) /\ 1 \in DOMAIN batch
      /\ Head(batch) = batch[1]
      /\ DOMAIN Tail(batch) = 1 .. Len(batch) - 1
      /\ \A k \in DOMAIN Tail(batch) : k + 1 \in DOMAIN batch /\ 1 < k + 1
                                       /\ Tail(batch)[k] = batch[k + 1]
  BY <1>1, TailOf
<1>4. \A k \in DOMAIN batch : batch[k].id \in Nat
  BY <1>1, BatchIds
<1>5. ASSUME NEW i \in DOMAIN queue, NEW k \in DOMAIN queue[i]
      PROVE  queue[i][k].id \in Nat /\ h < queue[i][k].id
  <2>1. queue[i] \in Seq(Events)
    BY <1>1, LenProperties, ElementOfSeq
  <2>2. queue[i][k].id \in Nat
    BY <2>1, BatchIds
  <2>3. batch[1].id < queue[i][k].id
    BY <1>2, <1>3 DEF InOrder, Precedes
  <2> QED
    BY <1>3, <2>2, <2>3
<1>6. ASSUME NEW k \in DOMAIN batch
      PROVE  k = 1 \/ h < batch[k].id
  BY <1>2, <1>3 DEF InOrder, Sorted
<1>7. h \in Nat /\ h \in Waiting
  <2>1. h = batch[1].id
    BY <1>3
  <2> QED
    BY <1>3, <1>4, <2>1, WaitingParts
<1>8. ASSUME NEW m \in R PROVE m \in Nat /\ h < m /\ m \in Waiting
  <2>1. CASE m \in Ids(Tail(batch))
    <3>1. PICK k \in DOMAIN Tail(batch) : m = Tail(batch)[k].id
      BY <2>1 DEF Ids
    <3>2. k + 1 \in DOMAIN batch /\ k + 1 # 1 /\ m = batch[k + 1].id
      BY <1>3, <3>1
    <3> QED
      BY <1>4, <1>6, <3>2, WaitingParts
  <2>2. CASE m \in UNION {Ids(queue[q]) : q \in DOMAIN queue}
    <3>1. PICK i \in DOMAIN queue : \E k \in DOMAIN queue[i] : m = queue[i][k].id
      BY <2>2 DEF Ids
    <3> QED
      BY <1>5, <3>1, WaitingParts
  <2> QED
    BY <1>8, <2>1, <2>2
<1>9. ASSUME NEW m \in Waiting, m # h PROVE m \in R
  <2>1. CASE \E k \in DOMAIN batch : m = batch[k].id
    <3>1. PICK k \in DOMAIN batch : m = batch[k].id
      BY <2>1
    <3>2. k # 1
      BY <1>3, <1>9, <3>1
    <3>3. k - 1 \in DOMAIN Tail(batch) /\ (k - 1) + 1 = k
      BY <1>3, <3>2
    <3>4. Tail(batch)[k - 1] = batch[k]
      BY <1>3, <3>3
    <3>5. m \in Ids(Tail(batch))
      BY <3>1, <3>3, <3>4 DEF Ids
    <3> QED
      BY <3>5
  <2>2. CASE \E i \in DOMAIN queue : \E k \in DOMAIN queue[i] : m = queue[i][k].id
    BY <2>2 DEF Ids
  <2> QED
    BY <1>9, <2>1, <2>2, WaitingParts
<1> HIDE DEF h, R
<1>10. \A m \in Waiting : m \in Nat /\ h <= m
  BY <1>7, <1>8, <1>9
<1>11. R = Waiting \ {h}
  <2>1. \A m : m \in R => m \in Waiting /\ m # h
    BY <1>7, <1>8
  <2>2. \A m : m \in Waiting /\ m # h => m \in R
    BY <1>9
  <2> QED
    BY <2>1, <2>2
<1>12. Waiting \ {h} = {m \in Waiting : h < m}
  <2>1. \A m \in Waiting : m # h <=> h < m
    BY <1>7, <1>8, <1>9
  <2> QED
    BY <2>1
<1> QED
  BY <1>7, <1>10, <1>11, <1>12 DEF h, R

\* A batch that is dropped is older than what is queued.
LEMMA DropIsOldest ==
    ASSUME TypeOK, OrderInv, batch # << >>
    PROVE  \E n \in Waiting :
             UNION {Ids(queue[q]) : q \in DOMAIN queue} = {m \in Waiting : n < m}
<1> DEFINE l == batch[Len(batch)].id
           Q == UNION {Ids(queue[q]) : q \in DOMAIN queue}
<1>1. batch \in Seq(Events) /\ queue \in Seq(Seq(Events))
  BY DEF TypeOK
<1>2. InOrder(injected, batch, queue)
  BY DEF OrderInv, InjectedInOrder
<1>3. Len(batch) \in Nat /\ DOMAIN batch = 1 .. Len(batch) /\ Len(batch) \in DOMAIN batch
  <2>1. Len(batch) \in Nat /\ DOMAIN batch = 1 .. Len(batch) /\ 1 \in DOMAIN batch
    BY <1>1, TailOf
  <2> QED
    BY <2>1
<1>4. \A k \in DOMAIN batch : batch[k].id \in Nat
  BY <1>1, BatchIds
<1>5. l \in Waiting /\ l \in Nat
  BY <1>3, <1>4, WaitingParts
<1>6. ASSUME NEW m \in Q PROVE m \in Waiting /\ l < m
  <2>1. PICK i \in DOMAIN queue : \E k \in DOMAIN queue[i] : m = queue[i][k].id
    BY <1>6 DEF Ids
  <2>2. l < m
    BY <1>2, <1>3, <2>1 DEF InOrder, Precedes
  <2> QED
    BY <2>1, <2>2, WaitingParts
<1>7. ASSUME NEW m \in Waiting, l < m PROVE m \in Q
  <2>1. CASE \E k \in DOMAIN batch : m = batch[k].id
    <3>1. PICK k \in DOMAIN batch : m = batch[k].id
      BY <2>1
    <3>2. k = Len(batch) \/ batch[k].id < l
      BY <1>2, <1>3 DEF InOrder, Sorted
    <3>3. m \in Nat /\ ~(l < m)
      BY <1>4, <1>5, <3>1, <3>2
    <3> QED
      BY <1>7, <3>3
  <2>2. CASE \E i \in DOMAIN queue : \E k \in DOMAIN queue[i] : m = queue[i][k].id
    BY <2>2 DEF Ids
  <2> QED
    BY <1>7, <2>1, <2>2, WaitingParts
<1> HIDE DEF l, Q
<1>8. Q = {m \in Waiting : l < m}
  BY <1>6, <1>7
<1> QED
  BY <1>5, <1>8 DEF Q

\* The thread has a batch only while it works on it; a thread means no quiet.
BatchInHand ==
    /\ thread \in {"process", "inject"} \/ batch = << >>
    /\ thread # "none" => created \/ stop # "idle"

\* What the thread holds is with it, in every step.
LEMMA NextBatchInHand == TypeOK /\ WritesOne /\ NeverTwoThreads /\ BatchInHand /\ [Next]_vars => BatchInHand'
<1> SUFFICES ASSUME TypeOK, WritesOne, NeverTwoThreads, BatchInHand, [Next]_vars PROVE BatchInHand'
  OBVIOUS
<1> USE DEF threadVars, deviceVars, historyVars, BatchInHand, NeverTwoThreads, NodeManagerFree
<1>1. CASE StartInjectThread \/ StopInjectThread \/ StopNotify \/ StopJoin
  BY <1>1 DEF StartInjectThread, StopInjectThread, StopNotify, StopJoin, Notified
<1>2. CASE \E b \in Batches : ReportEvent(b)
  BY <1>2 DEF ReportEvent, Notified
<1>3. CASE \E d \in DhIds : RegisterDistributedHardware(d) \/ UnregisterDistributedHardware(d)
  BY <1>3 DEF RegisterDistributedHardware, UnregisterDistributedHardware
<1>4. CASE TestRunning \/ TakeBatch \/ Sleep \/ SpuriousWakeup
  BY <1>4 DEF TestRunning, TakeBatch, Sleep, SpuriousWakeup
<1>5. CASE LookUp \/ InjectInputEvent
  BY <1>5 DEF LookUp, InjectInputEvent
<1>6. CASE UNCHANGED vars
  BY <1>6 DEF vars
<1> QED
  BY <1>1, <1>2, <1>3, <1>4, <1>5, <1>6 DEF Next, InjectEvent

\* In every reachable state.
LEMMA BatchInHandInvariance == Spec => []BatchInHand
<1>1. Init => BatchInHand
  BY DEF Init, BatchInHand
<1>2. IInv => TypeOK /\ WritesOne /\ NeverTwoThreads
  BY DEF IInv
<1> QED
  BY <1>1, <1>2, NextBatchInHand, Invariance, PTL DEF Spec

\* Each step is a step of the channel, or one that it does not see.
LEMMA StepRefines ==
    TypeOK /\ WritesOne /\ OrderInv /\ BatchInHand /\ [Next]_vars
        => [Injector!Next]_(Injector!channel)
<1> SUFFICES ASSUME TypeOK, WritesOne, OrderInv, BatchInHand, [Next]_vars
             PROVE  Injector!Next \/ UNCHANGED Injector!channel
  OBVIOUS
<1> DEFINE quiet == ~created /\ stop = "idle"
<1>1. ASSUME UNCHANGED << reported, injected, batch, queue >>
      PROVE  Injector!Next \/ UNCHANGED Injector!channel
  <2>1. Waiting' = Waiting
    BY <1>1 DEF Waiting, Ids
  <2>2. quiet' \in BOOLEAN /\ quiet \in BOOLEAN
    OBVIOUS
  <2>3. CASE quiet' = quiet
    BY <1>1, <2>1, <2>3 DEF Injector!channel
  <2>4. CASE quiet /\ ~quiet'
    BY <1>1, <2>1, <2>4 DEF Injector!Next, Injector!Resume
  <2>5. CASE ~quiet /\ quiet'
    BY <1>1, <2>1, <2>5 DEF Injector!Next, Injector!Pause
  <2> QED
    BY <2>2, <2>3, <2>4, <2>5
<1>2. ASSUME NEW b \in Batches, ReportEvent(b) PROVE Injector!Next
  <2>1. Injector!Report(Len(b))
    BY <1>2, ReportWaits
  <2>2. reported' - reported = Len(b)
    <3>1. reported \in Nat /\ Len(b) \in Nat
      BY NumberedType DEF TypeOK
    <3> QED
      BY <1>2, <3>1 DEF ReportEvent
  <2> QED
    BY <2>1, <2>2 DEF Injector!Next
<1>3. CASE TakeBatch
  <2>1. CASE UNCHANGED << queue, batch >>
    BY <1>1, <1>3, <2>1 DEF TakeBatch, historyVars
  <2>2. CASE queue # << >> /\ batch' = Head(queue) /\ queue' = Tail(queue)
    <3>1. batch = << >>
      BY <1>3 DEF TakeBatch, BatchInHand
    <3>2. Waiting' = Waiting
      BY <2>2, <3>1, TakeKeepsWaiting
    <3> QED
      BY <1>3, <3>2 DEF TakeBatch, historyVars, Injector!channel
  <2> QED
    BY <1>3, <2>1, <2>2 DEF TakeBatch
<1>4. CASE LookUp
  <2>1. CASE UNCHANGED batch
    BY <1>1, <1>4, <2>1 DEF LookUp
  <2>2. CASE batch # << >> /\ batch' = << >>
    <3>1. /\ queue' = queue /\ injected' = injected /\ reported' = reported
          /\ created' = created /\ stop' = stop /\ thread = "process"
      BY <1>4 DEF LookUp
    <3>2. ~quiet
      BY <3>1 DEF BatchInHand
    <3>3. Waiting' = UNION {Ids(queue[q]) : q \in DOMAIN queue}
      <4>1. Ids(batch') = {}
        BY <2>2, EmptySeq DEF Ids
      <4> QED
        BY <3>1, <4>1 DEF Waiting, Ids
    <3>4. PICK n \in Waiting : Waiting' = {m \in Waiting : n < m}
      BY <2>2, <3>3, DropIsOldest
    <3>5. Injector!GiveUp(n)
      BY <3>1, <3>2, <3>4 DEF Injector!GiveUp
    <3> QED
      BY <3>5 DEF Injector!Next
  <2> QED
    BY <1>4, <2>1, <2>2 DEF LookUp
<1>5. CASE InjectInputEvent
  <2> DEFINE h == Head(batch).id
  <2>1. batch # << >>
    BY <1>5 DEF InjectInputEvent, WritesOne
  <2>2. /\ batch' = Tail(batch) /\ queue' = queue /\ reported' = reported
        /\ injected' = Append(injected, h) \/ injected' = injected
        /\ created' = created /\ stop' = stop /\ thread = "inject"
    BY <1>5 DEF InjectInputEvent
  <2>3. ~quiet
    BY <2>2 DEF BatchInHand
  <2>4. Waiting' = Ids(Tail(batch)) \cup UNION {Ids(queue[q]) : q \in DOMAIN queue}
    BY <2>2 DEF Waiting, Ids
  <2>5. /\ h \in Waiting /\ \A m \in Waiting : h <= m
        /\ Waiting' = Waiting \ {h} /\ Waiting' = {m \in Waiting : h < m}
    BY <2>1, <2>4, HeadIsOldest
  <2> HIDE DEF h
  <2>6. CASE injected' = Append(injected, h)
    <3>1. Injector!Write(h)
      BY <2>2, <2>3, <2>5, <2>6 DEF Injector!Write, Injector!Oldest
    <3> QED
      BY <2>5, <3>1 DEF Injector!Next
  <2>7. CASE injected' = injected
    <3>1. Injector!GiveUp(h)
      BY <2>2, <2>3, <2>5, <2>7 DEF Injector!GiveUp
    <3> QED
      BY <2>5, <3>1 DEF Injector!Next
  <2> QED
    BY <2>2, <2>6, <2>7
<1>6. CASE \/ StartInjectThread \/ StopInjectThread \/ StopNotify \/ StopJoin \/ Sleep
           \/ TestRunning \/ SpuriousWakeup
           \/ \E d \in DhIds : RegisterDistributedHardware(d) \/ UnregisterDistributedHardware(d)
  <2>1. UNCHANGED << reported, injected, batch, queue >>
    BY <1>6 DEF StartInjectThread, StopInjectThread, StopNotify, StopJoin, Sleep, TestRunning,
       SpuriousWakeup, RegisterDistributedHardware, UnregisterDistributedHardware, historyVars
  <2> QED
    BY <1>1, <2>1
<1>7. CASE UNCHANGED vars
  <2>1. UNCHANGED << reported, injected, batch, queue >>
    BY <1>7 DEF vars, historyVars
  <2> QED
    BY <1>1, <2>1
<1> QED
  BY <1>2, <1>3, <1>4, <1>5, <1>6, <1>7 DEF Next, InjectEvent

\* The inject thread implements the channel, for any devices, any size of message
\* and any number of events: nothing that was reported is lost, overtaken or
\* written twice, and nothing is written between a stop and the next start.
THEOREM InjectionRefined == Spec => ImplementsInjection
<1>1. Init => Injector!Init
  <2>1. Init => Waiting = {}
    BY EmptySeq DEF Init, Waiting, Ids
  <2> QED
    BY <2>1 DEF Init, Injector!Init
<1>2. IInv => TypeOK /\ WritesOne
  BY DEF IInv
<1> QED
  BY <1>1, <1>2, StepRefines, Invariance, OrderInvariance, BatchInHandInvariance, PTL
     DEF Spec, ImplementsInjection, Injector!Spec
===============================================================================
