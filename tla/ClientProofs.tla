----------------------------- MODULE ClientProofs -----------------------------
(***************************************************************************)
(* Proofs about a process that uses the services.  First its proxies,      *)
(* flags and listeners over the lives of the services (ServiceClient): for *)
(* any listeners, loads and exits, under the hypotheses that the theorems  *)
(* name.  Then its calls (Ipc): for any limits, every message of every     *)
(* proxy arrives at its stub, and what a service runs, replies and calls   *)
(* back fits the call.                                                     *)
(***************************************************************************)
EXTENDS ServiceClient, Ipc, SequenceTheorems, TLAPS

(***************************************************************************)
(* What a queue holds.                                                     *)
(***************************************************************************)
Holds(q, e) == \E i \in DOMAIN q : q[i] = e
Removal(s)  == [what |-> "remove", of |-> s]

LEMMA HoldsConcat ==
    ASSUME NEW S, NEW q \in Seq(S), NEW t \in Seq(S), NEW e, Holds(q, e) \/ Holds(t, e)
    PROVE  Holds(q \o t, e)
<1>1. /\ DOMAIN q = 1 .. Len(q) /\ DOMAIN t = 1 .. Len(t) /\ Len(q) \in Nat /\ Len(t) \in Nat
      /\ q \o t \in Seq(S) /\ Len(q \o t) = Len(q) + Len(t)
      /\ \A i \in 1 .. Len(q) + Len(t) : (q \o t)[i] = IF i <= Len(q) THEN q[i] ELSE t[i - Len(q)]
  BY ConcatProperties, LenProperties
<1>2. DOMAIN (q \o t) = 1 .. Len(q) + Len(t)
  BY <1>1, LenProperties
<1>3. CASE Holds(q, e)
  BY <1>1, <1>2, <1>3 DEF Holds
<1>4. CASE Holds(t, e)
  <2>1. PICK i \in DOMAIN t : t[i] = e
    BY <1>4 DEF Holds
  <2>2. Len(q) + i \in 1 .. Len(q) + Len(t) /\ (q \o t)[Len(q) + i] = e
    BY <1>1, <2>1
  <2> QED
    BY <1>2, <2>2 DEF Holds
<1> QED
  BY <1>3, <1>4

LEMMA HoldsTail ==
    ASSUME NEW S, NEW q \in Seq(S), q # << >>, NEW e, Holds(q, e), Head(q) # e
    PROVE  Holds(Tail(q), e)
<1>1. /\ DOMAIN q = 1 .. Len(q) /\ Len(q) \in Nat /\ Tail(q) \in Seq(S)
      /\ Len(Tail(q)) = Len(q) - 1 /\ \A i \in 1 .. Len(Tail(q)) : Tail(q)[i] = q[i + 1]
      /\ DOMAIN Tail(q) = 1 .. Len(Tail(q))
  BY HeadTailProperties, LenProperties
<1>2. PICK i \in DOMAIN q : q[i] = e
  BY DEF Holds
<1>3. i # 1
  BY <1>2
<1>4. i - 1 \in 1 .. Len(Tail(q)) /\ Tail(q)[i - 1] = e
  BY <1>1, <1>2, <1>3
<1> QED
  BY <1>1, <1>4 DEF Holds

LEMMA HoldsAppend ==
    ASSUME NEW S, NEW q \in Seq(S), NEW x \in S, NEW e, Holds(q, e) \/ x = e
    PROVE  Holds(Append(q, x), e)
<1>1. /\ DOMAIN q = 1 .. Len(q) /\ Len(q) \in Nat
      /\ Append(q, x) \in Seq(S) /\ Len(Append(q, x)) = Len(q) + 1
      /\ \A i \in 1 .. Len(q) : Append(q, x)[i] = q[i]
      /\ Append(q, x)[Len(q) + 1] = x
  BY AppendProperties, LenProperties
<1>2. DOMAIN Append(q, x) = 1 .. Len(q) + 1
  BY <1>1, LenProperties
<1> QED
  BY <1>1, <1>2 DEF Holds

\* An exit of several services is noted for each of them.
LEMMA NotesType ==
    ASSUME NEW what \in {"add", "remove"}, NEW ss \in SUBSET Services
    PROVE  /\ Notes(what, ss) \in Seq(Note)
           /\ \A s \in ss : Holds(Notes(what, ss), [what |-> what, of |-> s])
<1>1. ss = Services \/ ss = {} \/ ss = {"source"} \/ ss = {"sink"}
  BY DEF Services
<1>2. CASE ss = Services
  <2>1. Notes(what, ss) = << [what |-> what, of |-> "source"], [what |-> what, of |-> "sink"] >>
    BY <1>2 DEF Notes
  <2>2. [what |-> what, of |-> "source"] \in Note /\ [what |-> what, of |-> "sink"] \in Note
    BY DEF Note, Services
  <2>3. Notes(what, ss) \in Seq(Note)
    BY <2>1, <2>2
  <2>4. Notes(what, ss)[1] = [what |-> what, of |-> "source"]
    BY <2>1
  <2>5. Notes(what, ss)[2] = [what |-> what, of |-> "sink"]
    BY <2>1
  <2>6. DOMAIN Notes(what, ss) = 1 .. 2
    BY <2>1
  <2> QED
    BY <1>2, <2>3, <2>4, <2>5, <2>6 DEF Holds, Services
<1>3. CASE ss = {}
  BY <1>3 DEF Notes, Services
<1>4. ASSUME NEW s \in Services, ss = {s}
      PROVE  /\ Notes(what, ss) \in Seq(Note)
             /\ \A t \in ss : Holds(Notes(what, ss), [what |-> what, of |-> t])
  <2>1. ss # Services /\ ss # {} /\ (CHOOSE t \in ss : TRUE) = s
    BY <1>4 DEF Services
  <2>2. Notes(what, ss) = << [what |-> what, of |-> s] >>
    BY <2>1 DEF Notes
  <2>3. [what |-> what, of |-> s] \in Note
    BY DEF Note
  <2>4. Notes(what, ss) \in Seq(Note)
    BY <2>2, <2>3
  <2>5. DOMAIN Notes(what, ss) = 1 .. 1 /\ Notes(what, ss)[1] = [what |-> what, of |-> s]
    BY <2>2
  <2>6. Holds(Notes(what, ss), [what |-> what, of |-> s])
    BY <2>5 DEF Holds
  <2>7. \A t \in ss : t = s
    BY <1>4
  <2> QED
    BY <2>4, <2>6, <2>7
<1>5. "source" \in Services /\ "sink" \in Services
  BY DEF Services
<1> QED
  BY <1>1, <1>2, <1>3, <1>4, <1>5

(***************************************************************************)
(* The checks after a load.                                                *)
(***************************************************************************)
Checks ==
    { << "white list", "key state", "get proxy", "restore" >>,
      << "key state", "get proxy", "restore" >>, << "get proxy", "restore" >>, << "restore" >>,
      << "sharing", "screens" >>, << "screens" >>, << >> }

LEMMA TailOfFour ==
    ASSUME NEW a, NEW b, NEW c, NEW d
    PROVE  Tail(<< a, b, c, d >>) = << b, c, d >>
<1> DEFINE S == {a, b, c, d}
<1>1. << a, b, c, d >> \in Seq(S) /\ << b, c, d >> \in Seq(S)
  OBVIOUS
<1>2. << a, b, c, d >> # << >> /\ Len(<< a, b, c, d >>) = 4 /\ Len(<< b, c, d >>) = 3
  OBVIOUS
<1>3. /\ Tail(<< a, b, c, d >>) \in Seq(S) /\ Len(Tail(<< a, b, c, d >>)) = 3
      /\ \A i \in 1 .. 3 : Tail(<< a, b, c, d >>)[i] = << a, b, c, d >>[i + 1]
  BY <1>1, <1>2, HeadTailProperties
<1>4. \A i \in 1 .. 3 : Tail(<< a, b, c, d >>)[i] = << b, c, d >>[i]
  BY <1>3
<1> HIDE DEF S
<1> QED
  BY <1>1, <1>2, <1>3, <1>4, SeqEqual

LEMMA TailOfThree ==
    ASSUME NEW a, NEW b, NEW c
    PROVE  Tail(<< a, b, c >>) = << b, c >>
<1> DEFINE S == {a, b, c}
<1>1. << a, b, c >> \in Seq(S) /\ << b, c >> \in Seq(S)
  OBVIOUS
<1>2. << a, b, c >> # << >> /\ Len(<< a, b, c >>) = 3 /\ Len(<< b, c >>) = 2
  OBVIOUS
<1>3. /\ Tail(<< a, b, c >>) \in Seq(S) /\ Len(Tail(<< a, b, c >>)) = 2
      /\ \A i \in 1 .. 2 : Tail(<< a, b, c >>)[i] = << a, b, c >>[i + 1]
  BY <1>1, <1>2, HeadTailProperties
<1>4. \A i \in 1 .. 2 : Tail(<< a, b, c >>)[i] = << b, c >>[i]
  BY <1>3
<1> HIDE DEF S
<1> QED
  BY <1>1, <1>2, <1>3, <1>4, SeqEqual

LEMMA ChecksType ==
    /\ Checks \subseteq Seq({"white list", "key state", "get proxy", "restore", "sharing", "screens"})
    /\ \A c \in Checks : c # << >> =>
        /\ Tail(c) \in Checks
        /\ Head(c) = "restore" => c = << "restore" >>
        /\ Head(c) # "get proxy" => Tail(c) # << "restore" >>
<1> DEFINE S == {"white list", "key state", "get proxy", "restore", "sharing", "screens"}
<1>1. Checks \subseteq Seq(S)
  <2>1. << "white list", "key state", "get proxy", "restore" >> \in Seq(S)
    OBVIOUS
  <2>2. << "key state", "get proxy", "restore" >> \in Seq(S) /\ << "get proxy", "restore" >> \in Seq(S)
    OBVIOUS
  <2>3. << "restore" >> \in Seq(S) /\ << "sharing", "screens" >> \in Seq(S)
    OBVIOUS
  <2>4. << "screens" >> \in Seq(S) /\ << >> \in Seq(S)
    OBVIOUS
  <2> QED
    BY <2>1, <2>2, <2>3, <2>4 DEF Checks
<1>2. /\ Tail(<< "white list", "key state", "get proxy", "restore" >>)
            = << "key state", "get proxy", "restore" >>
      /\ Head(<< "white list", "key state", "get proxy", "restore" >>) = "white list"
  <2>1. Tail(<< "white list", "key state", "get proxy", "restore" >>)
            = << "key state", "get proxy", "restore" >>
    BY TailOfFour, Zenon
  <2>2. Head(<< "white list", "key state", "get proxy", "restore" >>) = "white list"
    OBVIOUS
  <2> QED
    BY <2>1, <2>2
<1>3. /\ Tail(<< "key state", "get proxy", "restore" >>) = << "get proxy", "restore" >>
      /\ Head(<< "key state", "get proxy", "restore" >>) = "key state"
  <2>1. Tail(<< "key state", "get proxy", "restore" >>) = << "get proxy", "restore" >>
    BY TailOfThree, Zenon
  <2>2. Head(<< "key state", "get proxy", "restore" >>) = "key state"
    OBVIOUS
  <2> QED
    BY <2>1, <2>2
<1>4. /\ Tail(<< "get proxy", "restore" >>) = << "restore" >>
      /\ Head(<< "get proxy", "restore" >>) = "get proxy"
      /\ Tail(<< "sharing", "screens" >>) = << "screens" >>
      /\ Head(<< "sharing", "screens" >>) = "sharing"
  OBVIOUS
<1>5. /\ Tail(<< "restore" >>) = << >> /\ Head(<< "restore" >>) = "restore"
      /\ Tail(<< "screens" >>) = << >> /\ Head(<< "screens" >>) = "screens"
  OBVIOUS
<1>6. /\ << "key state", "get proxy", "restore" >> # << "restore" >>
      /\ << "get proxy", "restore" >> # << "restore" >>
      /\ << "screens" >> # << "restore" >> /\ << >> # << "restore" >>
  <2>1. Len(<< "key state", "get proxy", "restore" >>) = 3 /\ Len(<< "get proxy", "restore" >>) = 2
    OBVIOUS
  <2>2. Len(<< "restore" >>) = 1 /\ << "screens" >>[1] # << "restore" >>[1] /\ Len(<< >>) = 0
    OBVIOUS
  <2> QED
    BY <2>1, <2>2
<1>7. ASSUME NEW c \in Checks, c # << >>
      PROVE  /\ Tail(c) \in Checks
             /\ Head(c) = "restore" => c = << "restore" >>
             /\ Head(c) # "get proxy" => Tail(c) # << "restore" >>
  <2>1. CASE c = << "white list", "key state", "get proxy", "restore" >>
    BY <1>2, <1>6, <2>1 DEF Checks
  <2>2. CASE c = << "key state", "get proxy", "restore" >>
    BY <1>3, <1>6, <2>2 DEF Checks
  <2>3. CASE c = << "get proxy", "restore" >>
    BY <1>4, <1>6, <2>3 DEF Checks
  <2>4. CASE c = << "restore" >>
    BY <1>5, <1>6, <2>4 DEF Checks
  <2>5. CASE c = << "sharing", "screens" >>
    BY <1>4, <1>6, <2>5 DEF Checks
  <2>6. CASE c = << "screens" >>
    BY <1>5, <1>6, <2>6 DEF Checks
  <2> QED
    BY <1>7, <2>1, <2>2, <2>3, <2>4, <2>5, <2>6 DEF Checks
<1> QED
  BY <1>1, <1>7

(***************************************************************************)
(* Types.  A load is answered with a process that was started.             *)
(***************************************************************************)
LoadsStarted == \A s \in Services : loads[s] \subseteq 0 .. process.number

TInv == TypeOK /\ process.number <= starts /\ LoadsStarted /\ steps \in Checks

LEMMA InitTInv == Init => TInv
<1> SUFFICES ASSUME Init PROVE TInv
  OBVIOUS
<1>1. notes \in Seq(Note) /\ queue \in Seq(Note)
  BY EmptySeq DEF Init
<1>2. steps \in Checks
  BY DEF Init, Checks
<1>3. steps \in Seq({"white list", "key state", "get proxy", "restore", "sharing", "screens"})
  BY <1>2, ChecksType
<1>4. MaxStarts \in Nat
  BY ServiceClientAssumption
<1>5. process \in [number : 0 .. MaxStarts, alive : BOOLEAN] /\ process.number = 0 /\ starts = 0
  BY <1>4 DEF Init
<1>6. proxy \in [Services -> 0 .. process.number] /\ loads \in [Services -> SUBSET (0 .. MaxStarts)]
      /\ LoadsStarted
  BY <1>4, <1>5 DEF Init, LoadsStarted
<1>7. loaded = {} /\ inited = {} /\ lent = FALSE /\ told = FALSE /\ online = {} /\ flags = {}
      /\ cache = {} /\ removed = {} /\ pending = Null /\ removing = None
  BY DEF Init
<1>8. registered \in [Services -> SUBSET (Callbacks \cup Listeners)]
  BY DEF Init
<1>9. {lent, told} \subseteq BOOLEAN /\ loaded \subseteq Services /\ inited \subseteq Services
      /\ online \subseteq Services /\ flags \subseteq Callbacks \cup {"sim"}
      /\ cache \subseteq Listeners /\ removed \subseteq Listeners
  BY <1>7
<1>10. starts \in 0 .. MaxStarts /\ process.number <= starts
  BY <1>4, <1>5
<1> QED
  BY <1>1, <1>2, <1>3, <1>5, <1>6, <1>7, <1>8, <1>9, <1>10, Zenon DEF TInv, TypeOK

LEMMA NumbersType ==
    ASSUME TInv
    PROVE  /\ MaxStarts \in Nat /\ MaxLoads \in Nat /\ starts \in Nat /\ starts <= MaxStarts
           /\ process.number \in Nat /\ process.number <= starts /\ process.alive \in BOOLEAN
           /\ Services = {"source", "sink"}
<1>1. MaxStarts \in Nat /\ MaxLoads \in Nat
  BY ServiceClientAssumption
<1>2. process \in [number : 0 .. MaxStarts, alive : BOOLEAN] /\ starts \in 0 .. MaxStarts
  BY DEF TInv, TypeOK
<1>3. process.number \in 0 .. MaxStarts /\ process.alive \in BOOLEAN
  BY <1>2
<1>4. process.number <= starts
  BY DEF TInv
<1> QED
  BY <1>1, <1>2, <1>3, <1>4 DEF Services

\* The proxies that calls use are of processes that were started.
LEMMA GotType ==
    ASSUME TInv, NEW s \in Services
    PROVE  /\ Got(s) \in 0 .. process.number
           /\ [proxy EXCEPT ![s] = Got(s)] \in [Services -> 0 .. process.number]
<1>1. proxy \in [Services -> 0 .. process.number]
  BY DEF TInv, TypeOK
<1>2. Got(s) \in 0 .. process.number
  BY <1>1, NumbersType DEF Got
<1> QED
  BY <1>1, <1>2

LEMMA LoadsType ==
    ASSUME TInv, NEW n \in process.number .. MaxStarts, NEW s \in Services, NEW L,
           L \subseteq loads[s] \cup 0 .. n, loads' = [loads EXCEPT ![s] = L]
    PROVE  /\ loads' \in [Services -> SUBSET (0 .. MaxStarts)]
           /\ \A t \in Services : loads'[t] \subseteq 0 .. n
<1>1. \A i : i \in 0 .. process.number => i \in 0 .. n
  BY NumbersType
<1>2. \A i : i \in 0 .. n => i \in 0 .. MaxStarts
  BY NumbersType
<1>3. \A t \in Services : loads[t] \subseteq 0 .. n
  BY <1>1 DEF TInv, LoadsStarted
<1>4. L \subseteq 0 .. n
  BY <1>3
<1>5. loads \in [Services -> SUBSET (0 .. MaxStarts)]
  BY DEF TInv, TypeOK
<1>6. \A t \in Services : loads'[t] = IF t = s THEN L ELSE loads[t]
  BY <1>5
<1>7. \A t \in Services : loads'[t] \subseteq 0 .. n
  BY <1>3, <1>4, <1>6
<1>8. \A t \in Services : loads'[t] \in SUBSET (0 .. MaxStarts)
  BY <1>2, <1>7
<1>9. loads' \in [Services -> SUBSET (0 .. MaxStarts)]
  BY <1>5, <1>6, <1>8
<1> QED
  BY <1>7, <1>9

LEMMA RegisterType ==
    ASSUME TInv, NEW s \in Services, NEW cbs \in SUBSET (Callbacks \cup Listeners),
           RegisterAt(s, cbs)
    PROVE  registered' \in [Services -> SUBSET (Callbacks \cup Listeners)]
BY DEF RegisterAt, TInv, TypeOK

LEMMA RegisterGrows ==
    ASSUME TInv, NEW s, NEW cbs, RegisterAt(s, cbs)
    PROVE  \A t \in Services : registered[t] \subseteq registered'[t]
BY DEF RegisterAt, TInv, TypeOK

LEMMA GoType ==
    ASSUME TInv, NEW ss \in SUBSET Services, Go(ss)
    PROVE  /\ process' \in [number : 0 .. MaxStarts, alive : BOOLEAN] /\ process'.number = process.number
           /\ loaded' \subseteq Services /\ inited' \subseteq Services /\ lent' \in BOOLEAN
           /\ registered' \in [Services -> SUBSET (Callbacks \cup Listeners)]
           /\ notes' \in Seq(Note)
<1>1. notes' \in Seq(Note)
  BY NotesType, ConcatProperties DEF Go, TInv, TypeOK
<1>2. loaded' \subseteq Services /\ inited' \subseteq Services /\ lent' \in BOOLEAN
  BY DEF Go, TInv, TypeOK
<1>3. process' \in [number : 0 .. MaxStarts, alive : BOOLEAN] /\ process'.number = process.number
  BY DEF Go, TInv, TypeOK
<1>4. registered' \in [Services -> SUBSET (Callbacks \cup Listeners)]
  BY DEF Go, TInv, TypeOK
<1> QED
  BY <1>1, <1>2, <1>3, <1>4

LEMMA DoingType ==
    ASSUME TInv, NEW step, Doing(step)
    PROVE  steps' \in Checks
           /\ steps' \in Seq({"white list", "key state", "get proxy", "restore", "sharing", "screens"})
BY ChecksType DEF Doing, TInv

\* Every step of the client and of what it uses keeps the types.
LEMMA NextTInv == TInv /\ [Next]_vars => TInv'
<1> SUFFICES ASSUME TInv, [Next]_vars PROVE TInv'
  OBVIOUS
<1> USE DEF server, manager, links, events, sims
<1>0. /\ MaxStarts \in Nat /\ starts \in Nat /\ starts <= MaxStarts /\ Services = {"source", "sink"}
      /\ process.number \in Nat /\ process.number <= starts
  BY NumbersType
<1>1. ASSUME NEW s \in Services, Load(s) PROVE TInv'
  <2>1. notes' \in Seq(Note)
    <3>1. {s} \in SUBSET Services
      OBVIOUS
    <3>2. Notes("add", {s}) \in Seq(Note) /\ notes \in Seq(Note)
      BY <3>1, NotesType DEF TInv, TypeOK
    <3> QED
      BY <1>1, <3>2, ConcatProperties DEF Load
  <2>2. starts' \in 0 .. MaxStarts /\ starts' = starts + 1
    BY <1>0, <1>1 DEF Load
  <2> DEFINE n == IF process.alive THEN process.number ELSE process.number + 1
  <2>3. n \in process.number .. MaxStarts /\ n <= starts'
    BY <1>0, <1>1, <2>2 DEF Load
  <2>4. process' = [number |-> n, alive |-> TRUE] /\ loads' = [loads EXCEPT ![s] = (@ \ {0}) \cup {n}]
    BY <1>1 DEF Load
  <2> HIDE DEF n
  <2>5. n \in 0 .. MaxStarts /\ n \in 0 .. n
    BY <1>0, <2>3
  <2>8. process' \in [number : 0 .. MaxStarts, alive : BOOLEAN] /\ process'.number = n
    BY <2>4, <2>5
  <2>9. loads' \in [Services -> SUBSET (0 .. MaxStarts)]
        /\ \A t \in Services : loads'[t] \subseteq 0 .. n
    <3>1. (loads[s] \ {0}) \cup {n} \subseteq loads[s] \cup 0 .. n
      BY <2>5
    <3>2. loads' = [loads EXCEPT ![s] = (loads[s] \ {0}) \cup {n}]
      BY <2>4
    <3> QED
      BY <2>3, <3>1, <3>2, LoadsType
  <2>7. proxy' \in [Services -> 0 .. n]
    <3>1. proxy \in [Services -> 0 .. process.number] /\ proxy' = proxy
      BY <1>1 DEF Load, TInv, TypeOK
    <3> QED
      <4>1. \A i : i \in 0 .. process.number => i \in 0 .. n
        BY <1>0, <2>3
      <4> QED
        BY <3>1, <4>1
  <2>6. loaded' \subseteq Services
    BY <1>1 DEF Load, TInv, TypeOK
  <2> QED
    BY <1>1, <2>1, <2>2, <2>3, <2>6, <2>7, <2>8, <2>9 DEF Load, TInv, TypeOK, LoadsStarted
<1>2. ASSUME NEW s \in Services, LoadLoaded(s) PROVE TInv'
  <2>1. loads' \in [Services -> SUBSET (0 .. MaxStarts)] /\ LoadsStarted'
    <3>1. process.number \in process.number .. MaxStarts /\ process.number \in 0 .. process.number
      BY <1>0
    <3>2. (loads[s] \ {0}) \cup {process.number} \subseteq loads[s] \cup 0 .. process.number
      BY <3>1
    <3>3. loads' = [loads EXCEPT ![s] = (loads[s] \ {0}) \cup {process.number}]
      BY <1>2 DEF LoadLoaded
    <3>4. process' = process
      BY <1>2 DEF LoadLoaded
    <3> QED
      BY <3>1, <3>2, <3>3, <3>4, LoadsType DEF LoadsStarted
  <2> QED
    BY <1>2, <2>1 DEF LoadLoaded, TInv, TypeOK
<1>3. ASSUME NEW s \in Services, LoadFails(s) PROVE TInv'
  BY <1>3 DEF LoadFails, TInv, TypeOK, LoadsStarted
<1>4. ASSUME NEW s \in Services, NEW n \in Processes, FinishStartSA(s, n) PROVE TInv'
  BY <1>0, <1>4 DEF FinishStartSA, TInv, TypeOK, LoadsStarted, Processes
<1>5. ASSUME NEW s \in Services, InitService(s) PROVE TInv'
  <2>1. loads' \in [Services -> SUBSET (0 .. MaxStarts)] /\ LoadsStarted'
    <3>1. process.number \in process.number .. MaxStarts /\ 0 \in 0 .. process.number
      BY <1>0
    <3>2. loads[s] \cup {0} \subseteq loads[s] \cup 0 .. process.number
      BY <3>1
    <3>3. loads' = [loads EXCEPT ![s] = loads[s] \cup {0}]
      BY <1>5 DEF InitService
    <3>4. process' = process
      BY <1>5 DEF InitService
    <3> QED
      BY <3>1, <3>2, <3>3, <3>4, LoadsType DEF LoadsStarted
  <2> QED
    BY <1>5, <2>1 DEF InitService, TInv, TypeOK
<1>6. ASSUME NEW s \in Services, ReleaseService(s) PROVE TInv'
  <2>1. proxy' \in [Services -> 0 .. process.number]
    BY <1>6, GotType DEF ReleaseService, GetProxy
  <2>2. pending' \in Listeners \cup {Null}
    BY <1>6 DEF ReleaseService, TInv, TypeOK
  <2>3. UNCHANGED << starts, loads, online, flags, events, cache, removing, removed, told >>
    BY <1>6 DEF ReleaseService
  <2>4. CASE Go({s})
    BY <2>1, <2>2, <2>3, <2>4, GoType DEF TInv, TypeOK, LoadsStarted
  <2>5. CASE UNCHANGED << server, notes >>
    BY <2>1, <2>2, <2>3, <2>5 DEF TInv, TypeOK, LoadsStarted
  <2> QED
    BY <1>6, <2>4, <2>5 DEF ReleaseService
<1>7. CASE OnRemoveSystemAbility
  <2>1. Head(notes) \in Note /\ Tail(notes) \in Seq(Note) /\ queue \in Seq(Note)
    BY <1>7, HeadTailProperties DEF OnRemoveSystemAbility, TInv, TypeOK
  <2>2. notes' \in Seq(Note) /\ queue' \in Seq(Note)
    BY <1>7, <2>1, AppendProperties DEF OnRemoveSystemAbility
  <2>3. proxy' \in [Services -> 0 .. process.number]
    <3>1. PICK s \in Services : proxy' = [proxy EXCEPT ![s] = 0]
      BY <1>7, <2>1 DEF OnRemoveSystemAbility, Note
    <3>2. proxy \in [Services -> 0 .. process.number] /\ 0 \in 0 .. process.number
      <4>1. 0 \in 0 .. process.number
        BY <1>0
      <4> QED
        BY <4>1 DEF TInv, TypeOK
    <3> QED
      BY <3>1, <3>2
  <2> QED
    BY <1>7, <2>2, <2>3 DEF OnRemoveSystemAbility, TInv, TypeOK, LoadsStarted
<1>8. CASE OnAddSystemAbility
  <2>1. Head(notes) \in Note /\ Tail(notes) \in Seq(Note) /\ queue \in Seq(Note)
    BY <1>8, HeadTailProperties DEF OnAddSystemAbility, TInv, TypeOK
  <2>2. notes' \in Seq(Note) /\ queue' \in Seq(Note)
    BY <1>8, <2>1, AppendProperties DEF OnAddSystemAbility
  <2> QED
    BY <1>0, <1>8, <2>1, <2>2 DEF OnAddSystemAbility, TInv, TypeOK, LoadsStarted, Note
<1>9. CASE ProcessEvent
  <2>1. Tail(queue) \in Seq(Note)
    BY <1>9, HeadTailProperties DEF ProcessEvent, TInv, TypeOK
  <2>2. steps' \in Checks
    BY <1>9 DEF ProcessEvent, Checks
  <2>3. steps' \in Seq({"white list", "key state", "get proxy", "restore", "sharing", "screens"})
    BY <2>2, ChecksType
  <2>4. flags' \subseteq Callbacks \cup {"sim"}
    BY <1>9 DEF ProcessEvent, TInv, TypeOK
  <2> QED
    BY <1>9, <2>1, <2>2, <2>3, <2>4 DEF ProcessEvent, TInv, TypeOK, LoadsStarted
<1>10. ASSUME NEW s \in Services, NEW cbs \in SUBSET Callbacks, NEW step, Doing(step),
              CheckCallbacks(s, cbs)
       PROVE  TInv'
  <2>1. proxy' \in [Services -> 0 .. process.number]
    BY <1>10, GotType DEF CheckCallbacks, GetProxy
  <2>2. registered' \in [Services -> SUBSET (Callbacks \cup Listeners)]
        /\ flags' \subseteq Callbacks \cup {"sim"}
    <3>1. /\ registered \in [Services -> SUBSET (Callbacks \cup Listeners)]
          /\ flags \subseteq Callbacks \cup {"sim"}
      BY DEF TInv, TypeOK
    <3>2. \/ /\ registered' = [registered EXCEPT ![s] = @ \cup (cbs \ flags)]
             /\ flags' = flags \cup cbs
          \/ UNCHANGED << registered, flags >>
      BY <1>10 DEF CheckCallbacks, RegisterAt
    <3> QED
      BY <3>1, <3>2
  <2> QED
    BY <1>10, <2>1, <2>2, DoingType DEF CheckCallbacks, TInv, TypeOK, LoadsStarted
<1>11. CASE CheckKeyStateCallback
  <2>1. proxy' \in [Services -> 0 .. process.number]
    BY <1>0, <1>11, GotType DEF CheckKeyStateCallback, GetProxy
  <2>2. registered' \in [Services -> SUBSET (Callbacks \cup Listeners)]
    <3>1. CASE Got("source") # 0 /\ "sim" \notin flags /\ pending # Null
      <4>1. {pending} \in SUBSET (Callbacks \cup Listeners)
        BY <3>1 DEF TInv, TypeOK
      <4>2. PICK cbs \in SUBSET (Callbacks \cup Listeners) : RegisterAt("source", cbs)
        BY <1>11, <3>1, <4>1 DEF CheckKeyStateCallback
      <4> QED
        BY <1>0, <4>2, RegisterType
    <3>2. CASE ~(Got("source") # 0 /\ "sim" \notin flags /\ pending # Null)
      BY <1>11, <3>2 DEF CheckKeyStateCallback, TInv, TypeOK
    <3> QED
      BY <3>1, <3>2
  <2>3. flags' \subseteq Callbacks \cup {"sim"}
    BY <1>11 DEF CheckKeyStateCallback, TInv, TypeOK
  <2> QED
    BY <1>11, <2>1, <2>2, <2>3, DoingType DEF CheckKeyStateCallback, TInv, TypeOK, LoadsStarted
<1>12. CASE RestoreGetsProxy
  <2>1. proxy' \in [Services -> 0 .. process.number]
    BY <1>0, <1>12, GotType DEF RestoreGetsProxy, GetProxy
  <2> QED
    BY <1>12, <2>1, DoingType DEF RestoreGetsProxy, TInv, TypeOK, LoadsStarted
<1>13. CASE RestoreListeners
  <2>1. registered' \in [Services -> SUBSET (Callbacks \cup Listeners)]
    BY <1>0, <1>13 DEF RestoreListeners, RegisterAt, TInv, TypeOK
  <2> QED
    BY <1>13, <2>1, DoingType DEF RestoreListeners, TInv, TypeOK, LoadsStarted
<1>14. CASE RemoveSimEventListenerFromCache
  <2>1. removing \in [listener : Listeners, ok : BOOLEAN]
    BY <1>14 DEF RemoveSimEventListenerFromCache, TInv, TypeOK
  <2> QED
    BY <1>14, <2>1 DEF RemoveSimEventListenerFromCache, TInv, TypeOK, LoadsStarted
<1>15. CASE Crash
  <2>1. Go(loaded) /\ loaded \in SUBSET Services
    BY <1>15 DEF Crash, TInv, TypeOK
  <2>2. UNCHANGED << starts, loads, links, flags, events, sims, told >>
    BY <1>15 DEF Crash
  <2> QED
    BY <2>1, <2>2, GoType DEF TInv, TypeOK, LoadsStarted
<1>16. CASE Lend
  BY <1>16 DEF Lend, TInv, TypeOK, LoadsStarted
<1>17. ASSUME NEW l \in Listeners \cup {Null}, RegisterSimulationEventListener(l) PROVE TInv'
  <2>1. proxy' \in [Services -> 0 .. process.number] /\ l \in Listeners
    BY <1>0, <1>17, GotType DEF RegisterSimulationEventListener, GetProxy
  <2>2. registered' \in [Services -> SUBSET (Callbacks \cup Listeners)]
    <3>1. CASE RegisterAt("source", {l})
      BY <1>0, <2>1, <3>1, RegisterType
    <3>2. CASE registered' = registered
      BY <3>2 DEF TInv, TypeOK
    <3> QED
      BY <1>17, <3>1, <3>2 DEF RegisterSimulationEventListener
  <2>3. /\ flags' \subseteq Callbacks \cup {"sim"} /\ cache' \subseteq Listeners
        /\ pending' \in Listeners \cup {Null} /\ removed' \subseteq Listeners
    BY <1>17, <2>1 DEF RegisterSimulationEventListener, TInv, TypeOK
  <2> QED
    BY <1>17, <2>1, <2>2, <2>3 DEF RegisterSimulationEventListener, TInv, TypeOK, LoadsStarted
<1>18. ASSUME NEW l \in Listeners \cup {Null}, UnregisterAtService(l) PROVE TInv'
  <2>1. proxy' \in [Services -> 0 .. process.number] /\ l \in Listeners
    BY <1>0, <1>18, GotType DEF UnregisterAtService, GetProxy
  <2>2. registered' \in [Services -> SUBSET (Callbacks \cup Listeners)]
    BY <1>0, <1>18, <2>1 DEF UnregisterAtService, TInv, TypeOK
  <2>3. removing' \in [listener : Listeners, ok : BOOLEAN]
    BY <1>18, <2>1 DEF UnregisterAtService, Serves
  <2> QED
    BY <1>18, <2>1, <2>2, <2>3 DEF UnregisterAtService, TInv, TypeOK, LoadsStarted
<1>19. CASE UNCHANGED vars
  BY <1>19 DEF vars, TInv, TypeOK, LoadsStarted
<1>20. CASE Handling
  <2>1. WhiteList \in SUBSET Callbacks /\ {"sharing"} \in SUBSET Callbacks /\ {"screens"} \in SUBSET Callbacks
    BY DEF WhiteList, Callbacks
  <2>2. CheckWhiteListCallback \/ CheckSharingDhIdsCallback \/ CheckSinkScreenInfoCallback => TInv'
    BY <1>0, <1>10, <2>1
       DEF CheckWhiteListCallback, CheckSharingDhIdsCallback, CheckSinkScreenInfoCallback
  <2> QED
    BY <1>9, <1>11, <1>12, <1>13, <1>20, <2>2 DEF Handling
<1> QED
  BY <1>0, <1>1, <1>2, <1>3, <1>4, <1>5, <1>6, <1>7, <1>8, <1>14, <1>15, <1>16, <1>17, <1>18, <1>19, <1>20
     DEF Next, Answered, Listening, FinishStartSource, FinishStartSink, InitSource, InitSink,
         ReleaseSource, ReleaseSink

(***************************************************************************)
(* The links.  When no load is answered after the client heard of an exit, *)
(* a service that has a proxy, or an answered load that will set one, is   *)
(* loaded, or the note of its exit is on its way.                          *)
(***************************************************************************)
Linked ==
    \A s \in Services :
        (proxy[s] # 0 \/ loads[s] \ {0} # {}) => s \in loaded \/ Holds(notes, Removal(s))

LEMMA GotLinked ==
    ASSUME Linked, NEW s \in Services, Got(s) # 0
    PROVE  s \in loaded \/ Holds(notes, Removal(s))
BY DEF Got, Linked

LEMMA ProxyLinked ==
    ASSUME TInv, Linked, NEW s \in Services, GetProxy(s), UNCHANGED << loaded, loads, notes >>
    PROVE  Linked'
<1>1. \A t \in Services : proxy'[t] = IF t = s THEN Got(s) ELSE proxy[t]
  BY DEF GetProxy, TInv, TypeOK
<1> SUFFICES ASSUME NEW t \in Services, proxy'[t] # 0 \/ loads[t] \ {0} # {}
             PROVE  t \in loaded \/ Holds(notes, Removal(t))
  BY DEF Linked
<1>2. CASE t = s /\ Got(s) # 0
  BY <1>2, GotLinked
<1>3. CASE ~(t = s /\ Got(s) # 0)
  BY <1>1, <1>3 DEF Linked
<1> QED
  BY <1>2, <1>3

\* The services that go are noted, and no note is lost.
LEMMA GoNotes ==
    ASSUME TInv, NEW ss \in SUBSET Services, Go(ss)
    PROVE  /\ loaded' = loaded \ ss
           /\ \A s \in Services : s \in ss \/ Holds(notes, Removal(s)) => Holds(notes', Removal(s))
<1>1. notes \in Seq(Note) /\ Notes("remove", ss) \in Seq(Note)
  BY NotesType DEF TInv, TypeOK
<1>2. \A s \in ss : Holds(Notes("remove", ss), Removal(s))
  BY NotesType DEF Removal
<1>3. notes' = notes \o Notes("remove", ss) /\ loaded' = loaded \ ss
  BY DEF Go
<1> QED
  BY <1>1, <1>2, <1>3, HoldsConcat

\* The first note leaves, the others stay.
LEMMA NotesStay ==
    ASSUME TInv, notes # << >>, NEW e, Holds(notes, e), e # Head(notes)
    PROVE  Holds(Tail(notes), e)
BY HoldsTail DEF TInv, TypeOK

LEMMA LoadNotes ==
    ASSUME TInv, NEW s \in Services, Load(s), NEW e, Holds(notes, e)
    PROVE  Holds(notes', e)
<1>1. notes \in Seq(Note) /\ Notes("add", {s}) \in Seq(Note)
  BY NotesType DEF TInv, TypeOK
<1> QED
  BY <1>1, HoldsConcat DEF Load

LEMMA NextLinked == ASSUME Late = FALSE PROVE TInv /\ Linked /\ [Next]_vars => Linked'
<1> SUFFICES ASSUME TInv, Linked, [Next]_vars PROVE Linked'
  OBVIOUS
<1> USE DEF server, manager, links, events, sims
<1>0. Services = {"source", "sink"}
  BY DEF Services
<1>1. ASSUME NEW s \in Services, Load(s) PROVE Linked'
  <2>1. /\ loaded' = loaded \cup {s} /\ proxy' = proxy
        /\ \A t \in Services \ {s} : loads'[t] = loads[t]
    BY <1>1 DEF Load, TInv, TypeOK
  <2> QED
    BY <1>1, <2>1, LoadNotes DEF Linked
<1>2. ASSUME NEW s \in Services, LoadLoaded(s) PROVE Linked'
  <2>1. s \in loaded /\ \A t \in Services \ {s} : loads'[t] = loads[t]
    BY <1>2 DEF LoadLoaded, TInv, TypeOK
  <2> QED
    BY <1>2, <2>1 DEF LoadLoaded, Linked
<1>3. ASSUME NEW s \in Services, LoadFails(s) PROVE Linked'
  <2>1. \A t \in Services : loads'[t] \subseteq loads[t]
    BY <1>3 DEF LoadFails, TInv, TypeOK
  <2> QED
    BY <1>3, <2>1 DEF LoadFails, Linked
<1>4. ASSUME NEW s \in Services, NEW n \in Processes, FinishStartSA(s, n) PROVE Linked'
  <2>1. s \in loaded \/ Holds(notes, Removal(s))
    BY <1>4 DEF FinishStartSA, Linked
  <2>2. \A t \in Services \ {s} : loads'[t] = loads[t] /\ proxy'[t] = proxy[t]
    BY <1>4 DEF FinishStartSA, TInv, TypeOK
  <2>3. loaded' = loaded /\ notes' = notes
    BY <1>4 DEF FinishStartSA
  <2> QED
    BY <2>1, <2>2, <2>3 DEF Linked
<1>5. ASSUME NEW s \in Services, InitService(s) PROVE Linked'
  <2>1. \A t \in Services : loads'[t] \ {0} = loads[t] \ {0}
    BY <1>5 DEF InitService, TInv, TypeOK
  <2> QED
    BY <1>5, <2>1 DEF InitService, Linked
<1>6. ASSUME NEW s \in Services, ReleaseService(s) PROVE Linked'
  <2>1. GetProxy(s) /\ loads' = loads
    BY <1>6 DEF ReleaseService
  <2>2. CASE UNCHANGED << server, notes >>
    BY <2>1, <2>2, ProxyLinked
  <2>3. CASE Go({s})
    <3>1. /\ loaded' = loaded \ {s} /\ Holds(notes', Removal(s))
          /\ \A t \in Services : Holds(notes, Removal(t)) => Holds(notes', Removal(t))
      BY <2>3, GoNotes
    <3>2. \A t \in Services \ {s} : proxy'[t] = proxy[t]
      BY <2>1 DEF GetProxy, TInv, TypeOK
    <3> QED
      BY <2>1, <3>1, <3>2 DEF Linked
  <2> QED
    BY <1>6, <2>2, <2>3 DEF ReleaseService
<1>7. CASE OnRemoveSystemAbility
  <2>1. Head(notes) \in Note /\ notes # << >> /\ notes' = Tail(notes)
    BY <1>7, HeadTailProperties DEF OnRemoveSystemAbility, TInv, TypeOK
  <2>2. PICK s \in Services : Head(notes) = Removal(s)
    BY <1>7, <2>1 DEF OnRemoveSystemAbility, Note, Removal
  <2>3. proxy' = [proxy EXCEPT ![s] = 0] /\ loads[s] \subseteq {0} /\ UNCHANGED << loaded, loads >>
    <3>1. Head(notes).of = s
      BY <2>2 DEF Removal
    <3> QED
      BY <1>7, <3>1 DEF OnRemoveSystemAbility
  <2>4. \A t \in Services : proxy'[t] = IF t = s THEN 0 ELSE proxy[t]
    BY <2>3 DEF TInv, TypeOK
  <2>5. \A t \in Services : t # s => Head(notes) # Removal(t)
    BY <2>2 DEF Removal
  <2>6. \A t \in Services : t # s /\ Holds(notes, Removal(t)) => Holds(notes', Removal(t))
    BY <2>1, <2>5, NotesStay
  <2> QED
    BY <2>3, <2>4, <2>6 DEF Linked
<1>8. CASE OnAddSystemAbility
  <2>1. \A t \in Services : Head(notes) # Removal(t)
    BY <1>8 DEF OnAddSystemAbility, Removal
  <2>2. \A t \in Services : Holds(notes, Removal(t)) => Holds(notes', Removal(t))
    BY <1>8, <2>1, NotesStay DEF OnAddSystemAbility
  <2> QED
    BY <1>8, <2>2 DEF OnAddSystemAbility, Linked
<1>9. CASE ProcessEvent
  BY <1>9 DEF ProcessEvent, Linked
<1>10. ASSUME NEW s \in Services, NEW cbs, CheckCallbacks(s, cbs) PROVE Linked'
  BY <1>10, ProxyLinked DEF CheckCallbacks
<1>11. CASE CheckKeyStateCallback
  BY <1>0, <1>11, ProxyLinked DEF CheckKeyStateCallback
<1>12. CASE RestoreGetsProxy
  BY <1>0, <1>12, ProxyLinked DEF RestoreGetsProxy
<1>13. CASE RestoreListeners
  BY <1>13 DEF RestoreListeners, Linked
<1>14. CASE RemoveSimEventListenerFromCache
  BY <1>14 DEF RemoveSimEventListenerFromCache, Linked
<1>15. CASE Crash
  <2>1. Go(loaded) /\ loaded \in SUBSET Services /\ proxy' = proxy /\ loads' = loads
    BY <1>15 DEF Crash, TInv, TypeOK
  <2>2. \A t \in Services : t \in loaded \/ Holds(notes, Removal(t)) => Holds(notes', Removal(t))
    BY <2>1, GoNotes
  <2> QED
    BY <2>1, <2>2 DEF Linked
<1>16. CASE Lend
  BY <1>16 DEF Lend, Linked
<1>17. ASSUME NEW l \in Listeners \cup {Null}, RegisterSimulationEventListener(l) PROVE Linked'
  BY <1>0, <1>17, ProxyLinked DEF RegisterSimulationEventListener
<1>18. ASSUME NEW l \in Listeners \cup {Null}, UnregisterAtService(l) PROVE Linked'
  BY <1>0, <1>18, ProxyLinked DEF UnregisterAtService
<1>19. CASE UNCHANGED vars
  BY <1>19 DEF vars, Linked
<1>20. CASE Handling
  BY <1>0, <1>9, <1>10, <1>11, <1>12, <1>13, <1>20
     DEF Handling, CheckWhiteListCallback, CheckSharingDhIdsCallback, CheckSinkScreenInfoCallback
<1> QED
  BY <1>0, <1>1, <1>2, <1>3, <1>4, <1>5, <1>6, <1>7, <1>8, <1>14, <1>15, <1>16, <1>17, <1>18, <1>19, <1>20
     DEF Next, Answered, Listening, FinishStartSource, FinishStartSink, InitSource, InitSink,
         ReleaseSource, ReleaseSink

(***************************************************************************)
(* The flags.  A callback that is flagged is registered at a service that  *)
(* is loaded, or the exit of the service is still on its way to the client *)
(* or waits for the event thread.                                          *)
(***************************************************************************)
Flagging == WhiteList \cup {"sharing"}
Tidies(s) == Holds(notes, Removal(s)) \/ Holds(queue, Removal(s))

FlaggedOk(cb) ==
    cb \in flags =>
        \/ Tidies(OwnerOf(cb))
        \/ OwnerOf(cb) \in loaded /\ cb \in registered[OwnerOf(cb)]

Flagged == \A cb \in Flagging : FlaggedOk(cb)

LEMMA OwnerType ==
    \A cb \in Flagging :
        /\ OwnerOf(cb) \in Services /\ cb \in FlagsOf(OwnerOf(cb)) /\ cb # "sim"
        /\ cb \in Callbacks /\ cb \notin Listeners
BY ServiceClientAssumption DEF Flagging, WhiteList, OwnerOf, Services, FlagsOf, Callbacks

\* A step that registers more, and flags nothing new.
LEMMA FlaggedKept ==
    ASSUME Flagged, flags' \cap Flagging \subseteq flags, loaded \subseteq loaded',
           \A s \in Services : registered[s] \cap Callbacks \subseteq registered'[s],
           \A s \in Services : Tidies(s) => Tidies(s)'
    PROVE  Flagged'
<1> SUFFICES ASSUME NEW cb \in Flagging, cb \in flags'
             PROVE  \/ Tidies(OwnerOf(cb))'
                    \/ OwnerOf(cb) \in loaded' /\ cb \in registered'[OwnerOf(cb)]
  BY DEF Flagged, FlaggedOk
<1>1. FlaggedOk(cb) /\ cb \in flags
  BY DEF Flagged
<1> QED
  BY <1>1, OwnerType DEF FlaggedOk

\* Services that go are tidied up; what the others hold stays.
LEMMA FlaggedGo ==
    ASSUME TInv, Flagged, NEW ss \in SUBSET Services, Go(ss), UNCHANGED << flags, queue >>
    PROVE  Flagged'
<1>1. /\ loaded' = loaded \ ss
      /\ \A s \in Services : s \in ss \/ Holds(notes, Removal(s)) => Holds(notes', Removal(s))
  BY GoNotes
<1>2. \A s \in Services : s \in ss \/ Tidies(s) => Tidies(s)'
  BY <1>1 DEF Tidies
<1> SUFFICES ASSUME NEW cb \in Flagging, cb \in flags, ~Tidies(OwnerOf(cb))'
             PROVE  OwnerOf(cb) \in loaded' /\ cb \in registered'[OwnerOf(cb)]
  BY DEF Flagged, FlaggedOk
<1>3. /\ OwnerOf(cb) \in Services /\ OwnerOf(cb) \notin ss
      /\ OwnerOf(cb) \in loaded /\ cb \in registered[OwnerOf(cb)]
  BY <1>2, OwnerType DEF Flagged, FlaggedOk
<1>4. ss # loaded
  BY <1>3
<1>5. registered' = registered
  BY <1>4 DEF Go
<1> QED
  BY <1>1, <1>3, <1>5

\* The flags are set with the registration.
LEMMA FlaggedChecks ==
    ASSUME TInv, Linked, Flagged, NEW s \in Services, NEW cbs,
           \A cb \in cbs \cap Flagging : OwnerOf(cb) = s, CheckCallbacks(s, cbs)
    PROVE  Flagged'
<1>1. UNCHANGED << loaded, notes, queue >>
  BY DEF CheckCallbacks, server, manager
<1>2. \A t : Tidies(t)' = Tidies(t)
  BY <1>1 DEF Tidies
<1>3. CASE Serves(Got(s))
  <2>1. flags' = flags \cup cbs /\ RegisterAt(s, cbs \ flags)
    BY <1>3 DEF CheckCallbacks
  <2>2. \A t \in Services : registered[t] \subseteq registered'[t]
    BY <2>1 DEF RegisterAt, TInv, TypeOK
  <2>3. cbs \ flags \subseteq registered'[s]
    BY <2>1 DEF RegisterAt, TInv, TypeOK
  <2>4. s \in loaded \/ Holds(notes, Removal(s))
    BY <1>3, GotLinked DEF Serves
  <2>5. ASSUME NEW cb \in Flagging, cb \in flags PROVE FlaggedOk(cb)'
    <3>1. FlaggedOk(cb)
      BY DEF Flagged
    <3> QED
      BY <1>1, <1>2, <2>2, <2>5, <3>1, OwnerType DEF FlaggedOk
  <2>6. ASSUME NEW cb \in Flagging, cb \notin flags PROVE FlaggedOk(cb)'
    <3>1. cb \in flags' => cb \in cbs /\ OwnerOf(cb) = s /\ cb \in registered'[s]
      BY <2>1, <2>3, <2>6
    <3>2. s \in loaded' \/ Tidies(s)'
      BY <1>1, <1>2, <2>4 DEF Tidies
    <3> QED
      BY <3>1, <3>2 DEF FlaggedOk
  <2> QED
    BY <2>5, <2>6 DEF Flagged
<1>4. CASE ~Serves(Got(s))
  <2>1. UNCHANGED << registered, flags >>
    BY <1>4 DEF CheckCallbacks
  <2> QED
    BY <1>1, <1>2, <2>1, FlaggedKept
<1> QED
  BY <1>3, <1>4

LEMMA NextFlagged == TInv /\ Linked /\ Flagged /\ [Next]_vars => Flagged'
<1> SUFFICES ASSUME TInv, Linked, Flagged, [Next]_vars PROVE Flagged'
  OBVIOUS
<1> USE DEF server, manager, links, events, sims
<1>0. Services = {"source", "sink"}
  BY DEF Services
<1>1. ASSUME NEW s \in Services, Load(s) PROVE Flagged'
  <2>1. \A t \in Services : Tidies(t) => Tidies(t)'
    BY <1>1, LoadNotes DEF Load, Tidies
  <2> QED
    BY <1>1, <2>1, FlaggedKept DEF Load
<1>2. ASSUME UNCHANGED << flags, loaded, registered, notes, queue >> PROVE Flagged'
  BY <1>2, FlaggedKept DEF Tidies
<1>3. ASSUME NEW s \in Services, LoadLoaded(s) \/ LoadFails(s) \/ InitService(s) PROVE Flagged'
  BY <1>2, <1>3 DEF LoadLoaded, LoadFails, InitService
<1>4. ASSUME NEW s \in Services, NEW n \in Processes, FinishStartSA(s, n) PROVE Flagged'
  BY <1>2, <1>4 DEF FinishStartSA
<1>5. ASSUME NEW s \in Services, ReleaseService(s) PROVE Flagged'
  <2>1. UNCHANGED << flags, queue >>
    BY <1>5 DEF ReleaseService
  <2>2. CASE Go({s})
    BY <2>1, <2>2, FlaggedGo
  <2>3. CASE UNCHANGED << server, notes >>
    BY <1>2, <2>1, <2>3
  <2> QED
    BY <1>5, <2>2, <2>3 DEF ReleaseService
<1>6. CASE Listening
  <2>1. notes # << >> /\ notes' = Tail(notes) /\ queue' = Append(queue, Head(notes))
    BY <1>6 DEF Listening, OnRemoveSystemAbility, OnAddSystemAbility
  <2>2. Head(notes) \in Note /\ queue \in Seq(Note)
    BY <2>1, HeadTailProperties DEF TInv, TypeOK
  <2>3. \A e : Holds(queue, e) \/ Head(notes) = e => Holds(queue', e)
    BY <2>1, <2>2, HoldsAppend
  <2>4. \A e : Holds(notes, e) /\ e # Head(notes) => Holds(notes', e)
    BY <2>1, NotesStay
  <2>5. \A t \in Services : Tidies(t) => Tidies(t)'
    BY <2>3, <2>4 DEF Tidies
  <2>6. UNCHANGED << flags, loaded, registered >>
    BY <1>6 DEF Listening, OnRemoveSystemAbility, OnAddSystemAbility
  <2> QED
    BY <2>5, <2>6, FlaggedKept
<1>7. CASE ProcessEvent
  <2>1. queue # << >> /\ queue' = Tail(queue) /\ UNCHANGED << loaded, registered, notes >>
    BY <1>7 DEF ProcessEvent
  <2>2. \A e : Holds(queue, e) /\ Head(queue) # e => Holds(queue', e)
    BY <2>1, HoldsTail DEF TInv, TypeOK
  <2> SUFFICES ASSUME NEW cb \in Flagging, cb \in flags' PROVE FlaggedOk(cb)'
    BY DEF Flagged, FlaggedOk
  <2>3. cb \in flags /\ FlaggedOk(cb)
    BY <1>7 DEF ProcessEvent, Flagged
  <2>4. Head(queue) # Removal(OwnerOf(cb))
    <3>1. ASSUME Head(queue) = Removal(OwnerOf(cb)) PROVE FALSE
      <4>1. Head(queue).what = "remove" /\ Head(queue).of = OwnerOf(cb)
        BY <3>1 DEF Removal
      <4>2. flags' = flags \ FlagsOf(OwnerOf(cb))
        BY <1>7, <4>1 DEF ProcessEvent
      <4> QED
        BY <4>2, OwnerType
    <3> QED
      BY <3>1
  <2>5. Tidies(OwnerOf(cb)) => Tidies(OwnerOf(cb))'
    BY <2>1, <2>2, <2>4 DEF Tidies
  <2> QED
    BY <2>1, <2>3, <2>5 DEF FlaggedOk
<1>8. CASE CheckWhiteListCallback \/ CheckSharingDhIdsCallback \/ CheckSinkScreenInfoCallback
  <2>1. /\ \A cb \in WhiteList \cap Flagging : OwnerOf(cb) = "source"
        /\ \A cb \in {"sharing"} \cap Flagging : OwnerOf(cb) = "sink"
        /\ \A cb \in {"screens"} \cap Flagging : OwnerOf(cb) = "sink"
    BY DEF WhiteList, OwnerOf
  <2> QED
    BY <1>0, <1>8, <2>1, FlaggedChecks
       DEF CheckWhiteListCallback, CheckSharingDhIdsCallback, CheckSinkScreenInfoCallback
<1>9. CASE CheckKeyStateCallback
  <2>1. flags' \cap Flagging \subseteq flags /\ UNCHANGED << loaded, notes, queue >>
    BY <1>9, OwnerType DEF CheckKeyStateCallback
  <2>2. \A s \in Services : registered[s] \subseteq registered'[s]
    <3>1. (\E cbs : RegisterAt("source", cbs)) \/ registered' = registered
      BY <1>9 DEF CheckKeyStateCallback
    <3> QED
      BY <3>1, RegisterGrows
  <2> QED
    BY <2>1, <2>2, FlaggedKept DEF Tidies
<1>10. CASE RestoreGetsProxy \/ RemoveSimEventListenerFromCache \/ Lend
  BY <1>2, <1>10 DEF RestoreGetsProxy, RemoveSimEventListenerFromCache, Lend
<1>11. CASE RestoreListeners
  <2>1. UNCHANGED << flags, loaded, notes, queue >>
    BY <1>11 DEF RestoreListeners
  <2>2. \A s \in Services : registered[s] \subseteq registered'[s]
    BY <1>11 DEF RestoreListeners, RegisterAt, TInv, TypeOK
  <2> QED
    BY <2>1, <2>2, FlaggedKept DEF Tidies
<1>12. CASE Crash
  <2>1. Go(loaded) /\ loaded \in SUBSET Services /\ UNCHANGED << flags, queue >>
    BY <1>12 DEF Crash, TInv, TypeOK
  <2> QED
    BY <2>1, FlaggedGo
<1>13. ASSUME NEW l \in Listeners \cup {Null}, RegisterSimulationEventListener(l) PROVE Flagged'
  <2>1. flags' \cap Flagging \subseteq flags /\ UNCHANGED << loaded, notes, queue >>
    BY <1>13, OwnerType DEF RegisterSimulationEventListener
  <2>2. \A s \in Services : registered[s] \subseteq registered'[s]
    <3>1. (\E cbs : RegisterAt("source", cbs)) \/ registered' = registered
      BY <1>13 DEF RegisterSimulationEventListener
    <3> QED
      BY <3>1, RegisterGrows
  <2> QED
    BY <2>1, <2>2, FlaggedKept DEF Tidies
<1>14. ASSUME NEW l \in Listeners \cup {Null}, UnregisterAtService(l) PROVE Flagged'
  <2>1. UNCHANGED << flags, loaded, notes, queue >> /\ l \in Listeners
    BY <1>14 DEF UnregisterAtService
  <2>2. l \notin Callbacks
    BY <2>1, ServiceClientAssumption
  <2>3. \A s \in Services : registered[s] \ {l} \subseteq registered'[s]
    BY <1>14 DEF UnregisterAtService, TInv, TypeOK
  <2>4. \A s \in Services : registered[s] \cap Callbacks \subseteq registered'[s]
    BY <2>2, <2>3
  <2> QED
    BY <2>1, <2>4, FlaggedKept DEF Tidies
<1>15. CASE UNCHANGED vars
  BY <1>2, <1>15 DEF vars
<1>16. CASE Handling
  BY <1>7, <1>8, <1>9, <1>10, <1>11, <1>16 DEF Handling
<1> QED
  BY <1>0, <1>1, <1>3, <1>4, <1>5, <1>6, <1>10, <1>12, <1>13, <1>14, <1>15, <1>16
     DEF Next, Answered, FinishStartSource, FinishStartSink, InitSource, InitSink,
         ReleaseSource, ReleaseSink

(***************************************************************************)
(* The removed listeners.  One that was removed is in no place from which  *)
(* the client registers listeners, the cache and regSimulationEventListener_, *)
(* and while a removal is between the service and the cache the event      *)
(* thread is not about to register the cache.                              *)
(***************************************************************************)
NothingBack ==
    /\ RemovedStaysRemoved
    /\ cache \cap removed = {} /\ pending \notin removed
    /\ removing # None /\ removing.ok => removing.listener \notin registered["source"]
    /\ removing # None /\ removing.ok => steps # << "restore" >>

LEMMA RegisterAdds ==
    ASSUME TInv, NEW s \in Services, NEW cbs, RegisterAt(s, cbs)
    PROVE  registered'[s] = registered[s] \cup cbs
BY DEF RegisterAt, TInv, TypeOK

LEMMA NextNothingBack == TInv /\ NothingBack /\ [Next]_vars => NothingBack'
<1> SUFFICES ASSUME TInv, NothingBack, [Next]_vars PROVE NothingBack'
  OBVIOUS
<1> USE DEF server, manager, links, events, sims, RemovedStaysRemoved
<1>0. Services = {"source", "sink"} /\ Null \notin Listeners /\ removed \subseteq Listeners
  BY ServiceClientAssumption DEF Services, TInv, TypeOK
<1>1. ASSUME UNCHANGED << cache, pending, removing, removed, steps >>,
             registered'["source"] \cap Listeners \subseteq registered["source"]
      PROVE  NothingBack'
  <2>1. removing # None => removing.listener \in Listeners
    BY DEF TInv, TypeOK
  <2> QED
    BY <1>0, <1>1, <2>1 DEF NothingBack
<1>2. ASSUME NEW s \in Services, Answered(s) \/ InitService(s) PROVE NothingBack'
  BY <1>1, <1>2 DEF Answered, Load, LoadLoaded, LoadFails, InitService
<1>3. ASSUME NEW s \in Services, NEW n \in Processes, FinishStartSA(s, n) PROVE NothingBack'
  BY <1>1, <1>3 DEF FinishStartSA
<1>4. ASSUME NEW ss \in SUBSET Services, Go(ss) PROVE registered'["source"] \subseteq registered["source"]
  BY <1>0, <1>4 DEF Go
<1>5. ASSUME NEW s \in Services, ReleaseService(s) PROVE NothingBack'
  <2>1. registered'["source"] \subseteq registered["source"]
    BY <1>4, <1>5 DEF ReleaseService
  <2>2. UNCHANGED << cache, removing, removed, steps >> /\ (pending' = pending \/ pending' = Null)
    BY <1>5 DEF ReleaseService
  <2>3. pending' \notin removed
    BY <1>0, <2>2 DEF NothingBack
  <2> QED
    BY <2>1, <2>2, <2>3 DEF NothingBack
<1>6. CASE Listening
  BY <1>1, <1>6 DEF Listening, OnRemoveSystemAbility, OnAddSystemAbility
<1>7. CASE ProcessEvent
  <2>1. UNCHANGED << registered, cache, pending, removing, removed >>
    BY <1>7 DEF ProcessEvent
  <2>2. steps' # << "restore" >>
    <3>1. Len(<< "white list", "key state", "get proxy", "restore" >>) = 4 /\ Len(<< "restore" >>) = 1
      OBVIOUS
    <3>2. Len(<< "sharing", "screens" >>) = 2 /\ Len(<< >>) = 0
      OBVIOUS
    <3>3. steps' \in {<< >>, << "sharing", "screens" >>,
                      << "white list", "key state", "get proxy", "restore" >>}
      BY <1>7 DEF ProcessEvent
    <3>4. /\ << "white list", "key state", "get proxy", "restore" >> # << "restore" >>
          /\ << "sharing", "screens" >> # << "restore" >> /\ << >> # << "restore" >>
      BY <3>1, <3>2
    <3> QED
      BY <3>3, <3>4
  <2> QED
    BY <2>1, <2>2 DEF NothingBack
<1>8. CASE CheckWhiteListCallback
  <2>1. UNCHANGED << cache, pending, removing, removed >> /\ removing = None
    BY <1>8 DEF CheckWhiteListCallback, CheckCallbacks, GetProxy, Free
  <2>2. registered'["source"] \subseteq registered["source"] \cup WhiteList
    <3>1. CASE RegisterAt("source", WhiteList \ flags)
      BY <1>0, <3>1, RegisterAdds
    <3>2. CASE registered' = registered
      BY <3>2
    <3> QED
      BY <1>8, <3>1, <3>2 DEF CheckWhiteListCallback, CheckCallbacks
  <2>3. WhiteList \cap Listeners = {}
    BY ServiceClientAssumption DEF Callbacks
  <2> QED
    BY <1>0, <2>1, <2>2, <2>3 DEF NothingBack
<1>9. CASE CheckSharingDhIdsCallback \/ CheckSinkScreenInfoCallback
  <2>1. UNCHANGED << cache, pending, removing, removed >>
    BY <1>9 DEF CheckSharingDhIdsCallback, CheckSinkScreenInfoCallback, CheckCallbacks
  <2>2. registered'["source"] = registered["source"]
    BY <1>0, <1>9
       DEF CheckSharingDhIdsCallback, CheckSinkScreenInfoCallback, CheckCallbacks, RegisterAt, TInv, TypeOK
  <2>3. steps' # << "restore" >>
    BY <1>9, ChecksType
       DEF CheckSharingDhIdsCallback, CheckSinkScreenInfoCallback, Doing, TInv
  <2> QED
    BY <2>1, <2>2, <2>3 DEF NothingBack
<1>10. CASE CheckKeyStateCallback
  <2>1. UNCHANGED << cache, pending, removing, removed >> /\ removing = None
    BY <1>10 DEF CheckKeyStateCallback, GetProxy, Free
  <2>2. registered'["source"] \subseteq registered["source"] \cup {pending}
    <3>1. CASE RegisterAt("source", {pending})
      BY <1>0, <3>1, RegisterAdds
    <3>2. CASE RegisterAt("source", {})
      BY <1>0, <3>2, RegisterAdds
    <3>3. CASE registered' = registered
      BY <3>3
    <3> QED
      BY <1>10, <3>1, <3>2, <3>3 DEF CheckKeyStateCallback
  <2> QED
    BY <2>1, <2>2 DEF NothingBack
<1>11. CASE RestoreGetsProxy
  BY <1>11 DEF RestoreGetsProxy, GetProxy, Free, NothingBack
<1>12. CASE RestoreListeners
  <2>1. steps = << "restore" >>
    BY <1>12, ChecksType DEF RestoreListeners, Doing, TInv
  <2>2. /\ UNCHANGED << cache, pending, removing, removed >>
        /\ ~(removing # None /\ removing.ok)
    BY <1>12, <2>1 DEF RestoreListeners, NothingBack
  <2>3. registered'["source"] \subseteq registered["source"] \cup cache
    BY <1>0, <1>12 DEF RestoreListeners, RegisterAt, TInv, TypeOK
  <2> QED
    BY <2>2, <2>3 DEF NothingBack
<1>13. CASE RemoveSimEventListenerFromCache
  <2>1. /\ removing # None /\ removing' = None /\ UNCHANGED << registered, pending, steps >>
        /\ cache' = cache \ {removing.listener}
        /\ removed' = IF removing.ok /\ removing.listener # pending
                      THEN removed \cup {removing.listener} ELSE removed
    BY <1>13 DEF RemoveSimEventListenerFromCache
  <2> QED
    BY <2>1 DEF NothingBack
<1>14. CASE Crash
  <2>1. Go(loaded) /\ loaded \in SUBSET Services /\ UNCHANGED << cache, pending, removing, removed, steps >>
    BY <1>14 DEF Crash, TInv, TypeOK
  <2> QED
    BY <1>1, <1>4, <2>1
<1>15. CASE Lend
  BY <1>1, <1>15 DEF Lend
<1>16. ASSUME NEW l \in Listeners \cup {Null}, RegisterSimulationEventListener(l) PROVE NothingBack'
  <2>1. removed' = removed \ {l} /\ removing = None /\ UNCHANGED << removing, steps >>
    BY <1>16 DEF RegisterSimulationEventListener, GetProxy, Free
  <2>2. registered'["source"] \subseteq registered["source"] \cup {l}
    BY <1>0, <1>16 DEF RegisterSimulationEventListener, RegisterAt, TInv, TypeOK
  <2>3. cache' \subseteq cache \cup {l} /\ pending' \in {pending, l}
    BY <1>16 DEF RegisterSimulationEventListener
  <2> QED
    BY <2>1, <2>2, <2>3 DEF NothingBack
<1>17. ASSUME NEW l \in Listeners \cup {Null}, UnregisterAtService(l) PROVE NothingBack'
  <2>1. UNCHANGED << cache, pending, removed, steps >>
    BY <1>17 DEF UnregisterAtService
  <2>2. /\ registered'["source"] \subseteq registered["source"]
        /\ Serves(Got("source")) => l \notin registered'["source"]
    BY <1>0, <1>17 DEF UnregisterAtService, TInv, TypeOK
  <2>3. removing' = [listener |-> l,
                     ok |-> Serves(Got("source")) /\ steps # << "restore" >>]
    BY <1>17 DEF UnregisterAtService
  <2>4. /\ removing'.ok = (Serves(Got("source")) /\ steps # << "restore" >>)
        /\ removing'.listener = l
    BY <2>3
  <2> QED
    BY <2>1, <2>2, <2>4 DEF NothingBack
<1>18. CASE UNCHANGED vars
  BY <1>1, <1>18 DEF vars
<1>19. CASE Handling
  BY <1>7, <1>8, <1>9, <1>10, <1>11, <1>12, <1>19 DEF Handling
<1> QED
  BY <1>0, <1>2, <1>3, <1>5, <1>6, <1>13, <1>14, <1>15, <1>16, <1>17, <1>18, <1>19
     DEF Next, FinishStartSource, FinishStartSink, InitSource, InitSink, ReleaseSource, ReleaseSink

(***************************************************************************)
(* The theorems.                                                           *)
(***************************************************************************)
\* The types hold in every behaviour; a proxy is of a process that was started.
THEOREM TypeCorrect == Spec => []TypeOK
<1>1. Init => TInv
  BY InitTInv
<1>2. TInv /\ [Next]_vars => TInv'
  BY NextTInv
<1>3. TInv => TypeOK
  BY DEF TInv
<1> QED
  BY <1>1, <1>2, <1>3, PTL DEF Spec

\* A client that keeps a proxy of a service, or waits for one, has the service
\* loaded, or has still to hear of its exit: loads answered late are left out.
THEOREM LinksAreKept == ASSUME Late = FALSE PROVE Spec => [](TInv /\ Linked)
<1>1. Init => TInv /\ Linked
  BY InitTInv DEF Init, Linked
<1>2. TInv /\ Linked /\ [Next]_vars => TInv' /\ Linked'
  BY NextTInv, NextLinked
<1> QED
  BY <1>1, <1>2, PTL DEF Spec

\* A flag that says a callback is registered (isAddWhiteListCbReg_ and the like)
\* is right until the client has dealt with the exit of the service.
THEOREM FlagsAreTrue == ASSUME Late = FALSE PROVE Spec => []FlagIsTrue
<1>1. Init => TInv /\ Linked /\ Flagged
  BY InitTInv DEF Init, Linked, Flagged, FlaggedOk
<1>2. TInv /\ Linked /\ Flagged /\ [Next]_vars => TInv' /\ Linked' /\ Flagged'
  BY NextTInv, NextLinked, NextFlagged
<1>3. Flagged => FlagIsTrue
  BY DEF Flagged, FlaggedOk, Flagging, Tidies, Holds, Removal, FlagIsTrue, Tidying
<1> QED
  BY <1>1, <1>2, <1>3, PTL DEF Spec

\* A listener that UnregisterSimulationEventListener removed is not registered again
\* by what the event thread does after restarts; but for a removal that falls between
\* the steps of a restore, which registers the listener again.
THEOREM NothingComesBack == Spec => []RemovedStaysRemoved
<1>1. Init => TInv /\ NothingBack
  BY InitTInv, ServiceClientAssumption DEF Init, NothingBack, RemovedStaysRemoved
<1>2. TInv /\ NothingBack /\ [Next]_vars => TInv' /\ NothingBack'
  BY NextTInv, NextNothingBack
<1>3. NothingBack => RemovedStaysRemoved
  BY DEF NothingBack
<1> QED
  BY <1>1, <1>2, <1>3, PTL DEF Spec

-----------------------------------------------------------------------------
(* The calls *)

(***************************************************************************)
(* Parcels.                                                                *)
(***************************************************************************)
StringCell(s) == [type |-> "string", value |-> s]
Uint32Cell(n) == [type |-> "uint32", value |-> n]
ObjectCell(o) == [type |-> "object", value |-> o]
Int32Cell(n)  == [type |-> "int32", value |-> n]
Uint64Cell(n) == [type |-> "uint64", value |-> n]

LEMMA OneCell ==
    ASSUME NEW S, NEW c \in S
    PROVE  << c >> \in Seq(S) /\ Len(<< c >>) = 1 /\ << c >>[1] = c
  OBVIOUS

\* A sequence grows by a cell.
LEMMA CellMore ==
    ASSUME NEW S, NEW s \in Seq(S), NEW c \in S, NEW t \in Seq(S), Len(t) = Len(s) + 1,
           \A i \in 1 .. Len(s) : t[i] = s[i], t[Len(s) + 1] = c
    PROVE  s \o << c >> = t
<1>1. PICK d : d = << c >>
  OBVIOUS
<1>2. d \in Seq(S) /\ Len(d) = 1 /\ d[1] = c
  BY <1>1, OneCell
<1>3. /\ s \o d \in Seq(S) /\ Len(s \o d) = Len(s) + 1 /\ Len(s) \in Nat
      /\ \A i \in 1 .. Len(s) + 1 : (s \o d)[i] = IF i <= Len(s) THEN s[i] ELSE d[i - Len(s)]
  <2>1. /\ s \o d \in Seq(S) /\ Len(s \o d) = Len(s) + Len(d)
        /\ \A i \in 1 .. Len(s) + Len(d) : (s \o d)[i] = IF i <= Len(s) THEN s[i] ELSE d[i - Len(s)]
    BY <1>2, ConcatProperties
  <2>2. Len(s) \in Nat
    BY LenProperties
  <2> QED
    BY <1>2, <2>1, <2>2
<1>4. ASSUME NEW i \in 1 .. Len(s) + 1 PROVE (s \o d)[i] = t[i]
  <2>1. CASE i <= Len(s)
    BY <1>3, <2>1
  <2>2. CASE ~(i <= Len(s))
    <3>1. i = Len(s) + 1 /\ i - Len(s) = 1
      BY <1>3, <2>2
    <3> QED
      BY <1>2, <1>3, <2>2, <3>1
  <2> QED
    BY <2>1, <2>2
<1>5. s \o d = t
  BY <1>3, <1>4, SeqEqual
<1> QED
  BY <1>1, <1>5

LEMMA TwoCells == ASSUME NEW a, NEW b PROVE << a >> \o << b >> = << a, b >>
<1> DEFINE S == {a, b}
           s == << a >>
           t == << a, b >>
<1>1. s \in Seq(S) /\ b \in S /\ t \in Seq(S) /\ Len(s) = 1 /\ Len(t) = 2
      /\ t[1] = s[1] /\ t[2] = b
  OBVIOUS
<1> HIDE DEF S, s, t
<1>2. Len(t) = Len(s) + 1 /\ (\A i \in 1 .. Len(s) : t[i] = s[i]) /\ t[Len(s) + 1] = b
  BY <1>1
<1>3. s \o << b >> = t
  BY <1>1, <1>2, CellMore
<1> QED
  BY <1>3 DEF s, t

LEMMA ThreeCells ==
    ASSUME NEW a, NEW b, NEW c PROVE << a >> \o << b >> \o << c >> = << a, b, c >>
<1> DEFINE S == {a, b, c}
           s == << a, b >>
           t == << a, b, c >>
<1>1. s \in Seq(S) /\ c \in S /\ t \in Seq(S) /\ Len(s) = 2 /\ Len(t) = 3
      /\ t[1] = s[1] /\ t[2] = s[2] /\ t[3] = c
  OBVIOUS
<1> HIDE DEF S, s, t
<1>2. Len(t) = Len(s) + 1 /\ (\A i \in 1 .. Len(s) : t[i] = s[i]) /\ t[Len(s) + 1] = c
  BY <1>1
<1>3. s \o << c >> = t
  BY <1>1, <1>2, CellMore
<1> QED
  BY <1>3, TwoCells DEF s, t

LEMMA FourCells ==
    ASSUME NEW a, NEW b, NEW c, NEW d
    PROVE  << a >> \o << b >> \o << c >> \o << d >> = << a, b, c, d >>
<1> DEFINE S == {a, b, c, d}
           s == << a, b, c >>
           t == << a, b, c, d >>
<1>1. /\ s \in Seq(S) /\ d \in S /\ t \in Seq(S) /\ Len(s) = 3 /\ Len(t) = 4
      /\ t[1] = s[1] /\ t[2] = s[2] /\ t[3] = s[3]
      /\ t[4] = d
  OBVIOUS
<1> HIDE DEF S, s, t
<1>2. Len(t) = Len(s) + 1 /\ (\A i \in 1 .. Len(s) : t[i] = s[i]) /\ t[Len(s) + 1] = d
  BY <1>1
<1>3. s \o << d >> = t
  BY <1>1, <1>2, CellMore
<1> QED
  BY <1>3, ThreeCells DEF s, t

\* The cells of a message with a list: those ahead of it, its length, its elements, the callback.
LaidOut(d, s, u, f, o) ==
    /\ DOMAIN d = 1 .. Len(s) + Len(f) + 2
    /\ \A i \in 1 .. Len(s) : d[i] = s[i]
    /\ d[Len(s) + 1] = u
    /\ \A n \in 1 .. Len(f) : d[Len(s) + 1 + n] = f[n]
    /\ d[Len(s) + Len(f) + 2] = o

LEMMA ListCells ==
    ASSUME NEW S, NEW s \in Seq(S), NEW u \in S, NEW f \in Seq(S), NEW o \in S,
           NEW d, d = s \o (<< u >> \o f) \o << o >>
    PROVE  LaidOut(d, s, u, f, o)
<1>1. PICK p, q : p = << u >> /\ q = << o >>
  OBVIOUS
<1>2. p \in Seq(S) /\ Len(p) = 1 /\ p[1] = u /\ q \in Seq(S) /\ Len(q) = 1 /\ q[1] = o
  BY <1>1, OneCell
<1>3. PICK g : g = p \o f
  OBVIOUS
<1>4. /\ g \in Seq(S) /\ Len(g) = 1 + Len(f) /\ Len(f) \in Nat
      /\ \A i \in 1 .. 1 + Len(f) : g[i] = IF i <= 1 THEN p[i] ELSE f[i - 1]
  <2>1. Len(f) \in Nat
    BY LenProperties
  <2>2. /\ p \o f \in Seq(S) /\ Len(p \o f) = Len(p) + Len(f)
        /\ \A i \in 1 .. Len(p) + Len(f) : (p \o f)[i] = IF i <= Len(p) THEN p[i] ELSE f[i - Len(p)]
    BY <1>2, ConcatProperties
  <2> QED
    BY <1>2, <1>3, <2>1, <2>2
<1>5. PICK e : e = s \o g
  OBVIOUS
<1>6. /\ e \in Seq(S) /\ Len(e) = Len(s) + 1 + Len(f) /\ Len(s) \in Nat
      /\ \A i \in 1 .. Len(s) + 1 + Len(f) : e[i] = IF i <= Len(s) THEN s[i] ELSE g[i - Len(s)]
  <2>1. Len(s) \in Nat
    BY LenProperties
  <2>2. /\ s \o g \in Seq(S) /\ Len(s \o g) = Len(s) + Len(g)
        /\ \A i \in 1 .. Len(s) + Len(g) : (s \o g)[i] = IF i <= Len(s) THEN s[i] ELSE g[i - Len(s)]
    BY <1>4, ConcatProperties
  <2> QED
    BY <1>4, <1>5, <2>1, <2>2
<1>7. d = e \o q
  BY <1>1, <1>3, <1>5
<1>8. /\ d \in Seq(S) /\ Len(d) = Len(s) + Len(f) + 2
      /\ \A i \in 1 .. Len(s) + Len(f) + 2 : d[i] = IF i <= Len(e) THEN e[i] ELSE q[i - Len(e)]
  <2>1. /\ e \o q \in Seq(S) /\ Len(e \o q) = Len(e) + Len(q)
        /\ \A i \in 1 .. Len(e) + Len(q) : (e \o q)[i] = IF i <= Len(e) THEN e[i] ELSE q[i - Len(e)]
    <3>1. e \in Seq(S) /\ q \in Seq(S)
      BY <1>2, <1>6
    <3> QED
      BY <3>1, ConcatProperties
  <2> QED
    <3>1. Len(e) + Len(q) = Len(s) + Len(f) + 2
      BY <1>2, <1>4, <1>6
    <3> QED
      BY <1>7, <2>1, <3>1, Zenon
<1>9. DOMAIN d = 1 .. Len(s) + Len(f) + 2
  BY <1>8, LenProperties
<1>10. \A i \in 1 .. Len(s) : d[i] = s[i]
  BY <1>4, <1>6, <1>8
<1>11. d[Len(s) + 1] = u
  <2>1. Len(s) + 1 \in 1 .. Len(s) + 1 + Len(f) /\ Len(s) + 1 \in 1 .. Len(s) + Len(f) + 2
        /\ Len(s) + 1 <= Len(e) /\ ~(Len(s) + 1 <= Len(s)) /\ (Len(s) + 1) - Len(s) = 1 /\ 1 \in 1 .. 1 + Len(f)
    BY <1>4, <1>6
  <2> QED
    BY <1>2, <1>4, <1>6, <1>8, <2>1
<1>12. ASSUME NEW n \in 1 .. Len(f) PROVE d[Len(s) + 1 + n] = f[n]
  <2>1. Len(s) + 1 + n \in 1 .. Len(s) + 1 + Len(f) /\ Len(s) + 1 + n \in 1 .. Len(s) + Len(f) + 2
        /\ Len(s) + 1 + n <= Len(e) /\ ~(Len(s) + 1 + n <= Len(s))
        /\ (Len(s) + 1 + n) - Len(s) = 1 + n /\ 1 + n \in 1 .. 1 + Len(f) /\ (1 + n) - 1 = n /\ ~(1 + n <= 1)
    BY <1>4, <1>6
  <2>2. d[Len(s) + 1 + n] = g[1 + n]
    BY <1>6, <1>8, <2>1
  <2> QED
    BY <1>4, <2>1, <2>2
<1>13. d[Len(s) + Len(f) + 2] = o
  <2>1. ~(Len(s) + Len(f) + 2 <= Len(e)) /\ (Len(s) + Len(f) + 2) - Len(e) = 1
        /\ Len(s) + Len(f) + 2 \in 1 .. Len(s) + Len(f) + 2
    BY <1>4, <1>6
  <2> QED
    BY <1>2, <1>8, <2>1
<1> QED
  BY <1>9, <1>10, <1>11, <1>12, <1>13 DEF LaidOut

(***************************************************************************)
(* What is read is what was written, for each sequence of types.           *)
(***************************************************************************)
LEMMA OneString ==
    ASSUME NEW x
    PROVE  LET d == WriteString(x)
           IN  /\ ReadString(d, 1) = x
  BY DEF WriteString, ReadString, Read

LEMMA OneObject ==
    ASSUME NEW x
    PROVE  LET d == WriteRemoteObject(x)
           IN  /\ ReadRemoteObject(d, 1) = x
  BY DEF WriteRemoteObject, ReadRemoteObject, Read

LEMMA StringObject ==
    ASSUME NEW x, NEW y
    PROVE  LET d == WriteString(x) \o WriteRemoteObject(y)
           IN  /\ ReadString(d, 1) = x /\ ReadRemoteObject(d, 2) = y
<1>1. WriteString(x) \o WriteRemoteObject(y)
         = << StringCell(x), ObjectCell(y) >>
  BY TwoCells DEF WriteRemoteObject, WriteString, ObjectCell, StringCell
<1> QED
  BY <1>1 DEF ReadRemoteObject, ReadString, Read, ObjectCell, StringCell

LEMMA TwoStrings ==
    ASSUME NEW x, NEW y
    PROVE  LET d == WriteString(x) \o WriteString(y)
           IN  /\ ReadString(d, 1) = x /\ ReadString(d, 2) = y
<1>1. WriteString(x) \o WriteString(y)
         = << StringCell(x), StringCell(y) >>
  BY TwoCells DEF WriteString, StringCell
<1> QED
  BY <1>1 DEF ReadString, Read, StringCell

LEMMA StringUint ==
    ASSUME NEW x, NEW y
    PROVE  LET d == WriteString(x) \o WriteUint32(y)
           IN  /\ ReadString(d, 1) = x /\ ReadUint32(d, 2) = y
<1>1. WriteString(x) \o WriteUint32(y)
         = << StringCell(x), Uint32Cell(y) >>
  BY TwoCells DEF WriteString, WriteUint32, StringCell, Uint32Cell
<1> QED
  BY <1>1 DEF ReadString, ReadUint32, Read, StringCell, Uint32Cell

LEMMA StringInt ==
    ASSUME NEW x, NEW y
    PROVE  LET d == WriteString(x) \o WriteInt32(y)
           IN  /\ ReadString(d, 1) = x /\ ReadInt32(d, 2) = y
<1>1. WriteString(x) \o WriteInt32(y)
         = << StringCell(x), Int32Cell(y) >>
  BY TwoCells DEF WriteInt32, WriteString, Int32Cell, StringCell
<1> QED
  BY <1>1 DEF ReadInt32, ReadString, Read, Int32Cell, StringCell

LEMMA TwoStringsObject ==
    ASSUME NEW x, NEW y, NEW z
    PROVE  LET d == WriteString(x) \o WriteString(y) \o WriteRemoteObject(z)
           IN  /\ ReadString(d, 1) = x /\ ReadString(d, 2) = y /\ ReadRemoteObject(d, 3) = z
<1>1. WriteString(x) \o WriteString(y) \o WriteRemoteObject(z)
         = << StringCell(x), StringCell(y), ObjectCell(z) >>
  BY ThreeCells DEF WriteRemoteObject, WriteString, ObjectCell, StringCell
<1> QED
  BY <1>1 DEF ReadRemoteObject, ReadString, Read, ObjectCell, StringCell

LEMMA StringUintObject ==
    ASSUME NEW x, NEW y, NEW z
    PROVE  LET d == WriteString(x) \o WriteUint32(y) \o WriteRemoteObject(z)
           IN  /\ ReadString(d, 1) = x /\ ReadUint32(d, 2) = y /\ ReadRemoteObject(d, 3) = z
<1>1. WriteString(x) \o WriteUint32(y) \o WriteRemoteObject(z)
         = << StringCell(x), Uint32Cell(y), ObjectCell(z) >>
  BY ThreeCells DEF WriteRemoteObject, WriteString, WriteUint32, ObjectCell, StringCell, Uint32Cell
<1> QED
  BY <1>1 DEF ReadRemoteObject, ReadString, ReadUint32, Read, ObjectCell, StringCell, Uint32Cell

LEMMA TwoStringsInt ==
    ASSUME NEW x, NEW y, NEW z
    PROVE  LET d == WriteString(x) \o WriteString(y) \o WriteInt32(z)
           IN  /\ ReadString(d, 1) = x /\ ReadString(d, 2) = y /\ ReadInt32(d, 3) = z
<1>1. WriteString(x) \o WriteString(y) \o WriteInt32(z)
         = << StringCell(x), StringCell(y), Int32Cell(z) >>
  BY ThreeCells DEF WriteInt32, WriteString, Int32Cell, StringCell
<1> QED
  BY <1>1 DEF ReadInt32, ReadString, Read, Int32Cell, StringCell

LEMMA StringUintInt ==
    ASSUME NEW x, NEW y, NEW z
    PROVE  LET d == WriteString(x) \o WriteUint32(y) \o WriteInt32(z)
           IN  /\ ReadString(d, 1) = x /\ ReadUint32(d, 2) = y /\ ReadInt32(d, 3) = z
<1>1. WriteString(x) \o WriteUint32(y) \o WriteInt32(z)
         = << StringCell(x), Uint32Cell(y), Int32Cell(z) >>
  BY ThreeCells DEF WriteInt32, WriteString, WriteUint32, Int32Cell, StringCell, Uint32Cell
<1> QED
  BY <1>1 DEF ReadInt32, ReadString, ReadUint32, Read, Int32Cell, StringCell, Uint32Cell

LEMMA TwoUintsInt ==
    ASSUME NEW x, NEW y, NEW z
    PROVE  LET d == WriteUint32(x) \o WriteUint32(y) \o WriteInt32(z)
           IN  /\ ReadUint32(d, 1) = x /\ ReadUint32(d, 2) = y /\ ReadInt32(d, 3) = z
<1>1. WriteUint32(x) \o WriteUint32(y) \o WriteInt32(z)
         = << Uint32Cell(x), Uint32Cell(y), Int32Cell(z) >>
  BY ThreeCells DEF WriteInt32, WriteUint32, Int32Cell, Uint32Cell
<1> QED
  BY <1>1 DEF ReadInt32, ReadUint32, Read, Int32Cell, Uint32Cell

LEMMA ThreeStringsObject ==
    ASSUME NEW x, NEW y, NEW z, NEW u
    PROVE  LET d == WriteString(x) \o WriteString(y) \o WriteString(z)
                    \o WriteRemoteObject(u)
           IN  /\ ReadString(d, 1) = x /\ ReadString(d, 2) = y /\ ReadString(d, 3) = z
               /\ ReadRemoteObject(d, 4) = u
<1>1. WriteString(x) \o WriteString(y) \o WriteString(z) \o WriteRemoteObject(u)
         = << StringCell(x), StringCell(y), StringCell(z), ObjectCell(u) >>
  BY FourCells DEF WriteRemoteObject, WriteString, ObjectCell, StringCell
<1> QED
  BY <1>1 DEF ReadRemoteObject, ReadString, Read, ObjectCell, StringCell

LEMMA TwoStringsUintObject ==
    ASSUME NEW x, NEW y, NEW z, NEW u
    PROVE  LET d == WriteString(x) \o WriteString(y) \o WriteUint32(z)
                    \o WriteRemoteObject(u)
           IN  /\ ReadString(d, 1) = x /\ ReadString(d, 2) = y /\ ReadUint32(d, 3) = z
               /\ ReadRemoteObject(d, 4) = u
<1>1. WriteString(x) \o WriteString(y) \o WriteUint32(z) \o WriteRemoteObject(u)
         = << StringCell(x), StringCell(y), Uint32Cell(z), ObjectCell(u) >>
  BY FourCells DEF WriteRemoteObject, WriteString, WriteUint32, ObjectCell, StringCell, Uint32Cell
<1> QED
  BY <1>1 DEF ReadRemoteObject, ReadString, ReadUint32, Read, ObjectCell, StringCell, Uint32Cell

LEMMA Screen ==
    ASSUME NEW args
    PROVE  LET d == WriteString(args[1]) \o WriteInt32(args[2]) \o WriteString(args[3])
                    \o WriteUint64(args[4]) \o WriteUint32(args[5]) \o WriteUint32(args[6])
                    \o WriteString(args[7]) \o WriteUint32(args[8]) \o WriteUint32(args[9])
                    \o WriteUint32(args[10])
           IN  /\ ReadString(d, 1) = args[1] /\ ReadInt32(d, 2) = args[2]
               /\ ReadString(d, 3) = args[3] /\ ReadUint64(d, 4) = args[4]
               /\ ReadUint32(d, 5) = args[5] /\ ReadUint32(d, 6) = args[6]
               /\ ReadString(d, 7) = args[7] /\ ReadUint32(d, 8) = args[8]
               /\ ReadUint32(d, 9) = args[9] /\ ReadUint32(d, 10) = args[10]
<1> DEFINE a == StringCell(args[1])
           b == Int32Cell(args[2])
           c == StringCell(args[3])
           d == Uint64Cell(args[4])
           e == Uint32Cell(args[5])
           f == Uint32Cell(args[6])
           g == StringCell(args[7])
           h == Uint32Cell(args[8])
           i == Uint32Cell(args[9])
           j == Uint32Cell(args[10])
<1> HIDE DEF a, b, c, d, e, f, g, h, i, j
<1> DEFINE S == {a, b, c, d, e, f, g, h, i, j}
           s4 == << a, b, c, d >>
           s5 == << a, b, c, d, e >>
           s6 == << a, b, c, d, e, f >>
           s7 == << a, b, c, d, e, f, g >>
           s8 == << a, b, c, d, e, f, g, h >>
           s9 == << a, b, c, d, e, f, g, h, i >>
           s10 == << a, b, c, d, e, f, g, h, i, j >>
<1>1. /\ s4 \in Seq(S) /\ Len(s4) = 4 /\ s5 \in Seq(S) /\ Len(s5) = 5 /\ s6 \in Seq(S) /\ Len(s6) = 6
      /\ s7 \in Seq(S) /\ Len(s7) = 7 /\ s8 \in Seq(S) /\ Len(s8) = 8 /\ s9 \in Seq(S) /\ Len(s9) = 9
      /\ s10 \in Seq(S) /\ Len(s10) = 10
      /\ e \in S /\ f \in S /\ g \in S /\ h \in S /\ i \in S /\ j \in S
  OBVIOUS
<1>2. /\ (\A k \in 1 .. 4 : s5[k] = s4[k]) /\ s5[5] = e
      /\ (\A k \in 1 .. 5 : s6[k] = s5[k]) /\ s6[6] = f
      /\ (\A k \in 1 .. 6 : s7[k] = s6[k]) /\ s7[7] = g
      /\ (\A k \in 1 .. 7 : s8[k] = s7[k]) /\ s8[8] = h
      /\ (\A k \in 1 .. 8 : s9[k] = s8[k]) /\ s9[9] = i
      /\ (\A k \in 1 .. 9 : s10[k] = s9[k]) /\ s10[10] = j
  OBVIOUS
<1>3. << a >> \o << b >> \o << c >> \o << d >> = s4
  BY FourCells
<1> HIDE DEF S, s4, s5, s6, s7, s8, s9, s10
<1>4. s4 \o << e >> = s5
  <2>1. Len(s5) = Len(s4) + 1 /\ (\A k \in 1 .. Len(s4) : s5[k] = s4[k]) /\ s5[Len(s4) + 1] = e
    BY <1>1, <1>2
  <2> QED
    BY <1>1, <2>1, CellMore
<1>5. s5 \o << f >> = s6
  <2>1. Len(s6) = Len(s5) + 1 /\ (\A k \in 1 .. Len(s5) : s6[k] = s5[k]) /\ s6[Len(s5) + 1] = f
    BY <1>1, <1>2
  <2> QED
    BY <1>1, <2>1, CellMore
<1>6. s6 \o << g >> = s7
  <2>1. Len(s7) = Len(s6) + 1 /\ (\A k \in 1 .. Len(s6) : s7[k] = s6[k]) /\ s7[Len(s6) + 1] = g
    BY <1>1, <1>2
  <2> QED
    BY <1>1, <2>1, CellMore
<1>7. s7 \o << h >> = s8
  <2>1. Len(s8) = Len(s7) + 1 /\ (\A k \in 1 .. Len(s7) : s8[k] = s7[k]) /\ s8[Len(s7) + 1] = h
    BY <1>1, <1>2
  <2> QED
    BY <1>1, <2>1, CellMore
<1>8. s8 \o << i >> = s9
  <2>1. Len(s9) = Len(s8) + 1 /\ (\A k \in 1 .. Len(s8) : s9[k] = s8[k]) /\ s9[Len(s8) + 1] = i
    BY <1>1, <1>2
  <2> QED
    BY <1>1, <2>1, CellMore
<1>9. s9 \o << j >> = s10
  <2>1. Len(s10) = Len(s9) + 1 /\ (\A k \in 1 .. Len(s9) : s10[k] = s9[k]) /\ s10[Len(s9) + 1] = j
    BY <1>1, <1>2
  <2> QED
    BY <1>1, <2>1, CellMore
<1>10. << a >> \o << b >> \o << c >> \o << d >> \o << e >> \o << f >> \o << g >> \o << h >>
       \o << i >> \o << j >> = s10
  BY <1>3, <1>4, <1>5, <1>6, <1>7, <1>8, <1>9, Zenon
<1>11. WriteString(args[1]) \o WriteInt32(args[2]) \o WriteString(args[3])
       \o WriteUint64(args[4]) \o WriteUint32(args[5]) \o WriteUint32(args[6])
       \o WriteString(args[7]) \o WriteUint32(args[8]) \o WriteUint32(args[9])
       \o WriteUint32(args[10]) = s10
  BY <1>10 DEF WriteInt32, WriteString, WriteUint32, WriteUint64, a, b, c, d, e, f, g, h, i, j, Int32Cell, StringCell, Uint32Cell, Uint64Cell
<1> QED
  BY <1>11 DEF ReadInt32, ReadString, ReadUint32, ReadUint64, Read, Int32Cell, StringCell, Uint32Cell, Uint64Cell, s10, a, b, c, d, e, f, g, h, i, j

LEMMA PairMore ==
    ASSUME NEW S, NEW s \in Seq(S), NEW p \in Seq(S), Len(p) = 2, NEW t \in Seq(S), Len(t) = Len(s) + 2,
           \A i \in 1 .. Len(s) : t[i] = s[i], t[Len(s) + 1] = p[1], t[Len(s) + 2] = p[2]
    PROVE  s \o p = t
<1>1. Len(s) \in Nat
  BY LenProperties
<1>2. /\ s \o p \in Seq(S) /\ Len(s \o p) = Len(s) + Len(p)
      /\ \A i \in 1 .. Len(s) + Len(p) : (s \o p)[i] = IF i <= Len(s) THEN s[i] ELSE p[i - Len(s)]
  BY ConcatProperties
<1>3. ASSUME NEW i \in 1 .. Len(s) + 2 PROVE (s \o p)[i] = t[i]
  <2>1. i \in 1 .. Len(s) \/ i = Len(s) + 1 \/ i = Len(s) + 2
    BY <1>1
  <2>2. (Len(s) + 1) - Len(s) = 1 /\ (Len(s) + 2) - Len(s) = 2
        /\ ~(Len(s) + 1 <= Len(s)) /\ ~(Len(s) + 2 <= Len(s))
    BY <1>1
  <2>3. (s \o p)[i] = IF i <= Len(s) THEN s[i] ELSE p[i - Len(s)]
    BY <1>2
  <2>4. CASE i \in 1 .. Len(s)
    BY <1>1, <2>3, <2>4
  <2>5. CASE i = Len(s) + 1
    BY <2>2, <2>3, <2>5
  <2>6. CASE i = Len(s) + 2
    BY <2>2, <2>3, <2>6
  <2> QED
    BY <2>1, <2>4, <2>5, <2>6
<1> QED
  BY <1>1, <1>2, <1>3, SeqEqual

\* The arguments of a call with a list: those ahead of it, the list, the callback.
LEMMA ListArguments ==
    ASSUME NEW x, NEW y, NEW l, NEW o
    PROVE  << x >> \o << l, o >> = << x, l, o >> /\ << x, y >> \o << l, o >> = << x, y, l, o >>
<1> DEFINE S == {x, y, l, o}
           s1 == << x >>
           s2 == << x, y >>
           p == << l, o >>
           t1 == << x, l, o >>
           t2 == << x, y, l, o >>
<1>1. /\ s1 \in Seq(S) /\ Len(s1) = 1 /\ s2 \in Seq(S) /\ Len(s2) = 2 /\ p \in Seq(S) /\ Len(p) = 2
      /\ t1 \in Seq(S) /\ Len(t1) = 3 /\ t2 \in Seq(S) /\ Len(t2) = 4
  OBVIOUS
<1>2. /\ t1[1] = s1[1] /\ t1[2] = p[1] /\ t1[3] = p[2]
      /\ t2[1] = s2[1] /\ t2[2] = s2[2] /\ t2[3] = p[1] /\ t2[4] = p[2]
  OBVIOUS
<1> HIDE DEF S, s1, s2, p, t1, t2
<1>3. s1 \o p = t1
  <2>1. /\ Len(t1) = Len(s1) + 2 /\ \A i \in 1 .. Len(s1) : t1[i] = s1[i]
        /\ t1[Len(s1) + 1] = p[1] /\ t1[Len(s1) + 2] = p[2]
    BY <1>1, <1>2
  <2> QED
    BY <1>1, <2>1, PairMore
<1>4. s2 \o p = t2
  <2>1. /\ Len(t2) = Len(s2) + 2 /\ \A i \in 1 .. Len(s2) : t2[i] = s2[i]
        /\ t2[Len(s2) + 1] = p[1] /\ t2[Len(s2) + 2] = p[2]
    BY <1>1, <1>2
  <2> QED
    BY <1>1, <2>1, PairMore
<1> QED
  BY <1>3, <1>4 DEF s1, s2, p, t1, t2

ListRead(d, s, k, ss, o) ==
    /\ \A i \in 1 .. Len(s) : i \in DOMAIN d /\ d[i] = s[i]
    /\ Size(d, k) = Len(ss)
    /\ ReadStrings(d, k) = NonEmpty(ss)
    /\ ReadRemoteObject(d, k + Size(d, k) + 1) = o

LEMMA ListOfStrings ==
    ASSUME NEW T, NEW ss \in Seq(T), NEW S, NEW s \in Seq(S), NEW o,
           NEW d, d = s \o WriteStrings(ss) \o WriteRemoteObject(o)
    PROVE  ListRead(d, s, Len(s) + 1, ss, o)
<1> DEFINE k == Len(s) + 1
<1> DEFINE f == [i \in DOMAIN ss |-> StringCell(ss[i])]
           n == Len(ss)
           C == S \cup {Uint32Cell(n), ObjectCell(o)} \cup {StringCell(ss[i]) : i \in DOMAIN ss}
<1>1. n \in Nat /\ DOMAIN ss = 1 .. n /\ Len(s) \in Nat
  BY LenProperties
<1>2. f \in Seq(C) /\ Len(f) = n /\ \A i \in 1 .. n : f[i] = StringCell(ss[i])
  <2>1. f \in [1 .. n -> C]
    BY <1>1
  <2>2. f \in Seq(C)
    BY <1>1, <2>1
  <2>3. Len(f) = n
    BY <1>1, <2>1, <2>2
  <2>4. \A i \in 1 .. n : f[i] = StringCell(ss[i])
    BY <1>1
  <2> QED
    BY <2>2, <2>3, <2>4
<1>3. s \in Seq(C) /\ Uint32Cell(n) \in C /\ ObjectCell(o) \in C
  <2>1. \A i \in 1 .. Len(s) : s[i] \in S
    BY ElementOfSeq
  <2>2. s \in Seq(C)
    OBVIOUS
  <2> QED
    BY <2>2
<1>4. d = s \o (<< Uint32Cell(n) >> \o f) \o << ObjectCell(o) >>
  BY DEF WriteStrings, WriteUint32, WriteRemoteObject, StringCell, Uint32Cell, ObjectCell
<1> HIDE DEF f, C, n
<1>5. /\ DOMAIN d = 1 .. Len(s) + n + 2
      /\ \A i \in 1 .. Len(s) : d[i] = s[i]
      /\ d[Len(s) + 1] = Uint32Cell(n)
      /\ \A i \in 1 .. n : d[Len(s) + 1 + i] = f[i]
      /\ d[Len(s) + n + 2] = ObjectCell(o)
  <2>1. Len(f) = n /\ f \in Seq(C)
    BY <1>2
  <2>2. PICK u, v : u = Uint32Cell(n) /\ v = ObjectCell(o)
    OBVIOUS
  <2>3. u \in C /\ v \in C /\ d = s \o (<< u >> \o f) \o << v >>
    BY <1>3, <1>4, <2>2
  <2>4. LaidOut(d, s, u, f, v)
    BY <1>3, <2>1, <2>3, ListCells
  <2> QED
    BY <2>1, <2>2, <2>4 DEF LaidOut
<1>6. Size(d, k) = n
  BY <1>1, <1>5 DEF Size, ReadUint32, Read, Uint32Cell
<1>7. [i \in 1 .. n |-> ReadString(d, k + i)] = ss
  <2>1. ASSUME NEW i \in 1 .. n PROVE ReadString(d, k + i) = ss[i]
    <3>1. k + i \in DOMAIN d /\ d[k + i] = StringCell(ss[i])
      BY <1>1, <1>2, <1>5
    <3> QED
      BY <3>1 DEF ReadString, Read, StringCell
  <2>2. ss = [i \in 1 .. n |-> ss[i]]
    BY <1>1
  <2> QED
    BY <2>1, <2>2
<1>8. ReadStrings(d, k) = NonEmpty(ss)
  BY <1>6, <1>7 DEF ReadStrings
<1>9. ReadRemoteObject(d, k + n + 1) = o
  <2>1. k + n + 1 \in DOMAIN d /\ d[k + n + 1] = ObjectCell(o)
    <3>1. k + n + 1 = Len(s) + n + 2
      BY <1>1
    <3> QED
      BY <1>1, <1>5, <3>1
  <2> QED
    BY <2>1 DEF ReadRemoteObject, Read, ObjectCell
<1>10. \A i \in 1 .. Len(s) : i \in DOMAIN d /\ d[i] = s[i]
  BY <1>1, <1>5
<1>11. ReadRemoteObject(d, k + Size(d, k) + 1) = o
  BY <1>6, <1>9, Zenon
<1> QED
  BY <1>6, <1>8, <1>10, <1>11, Zenon DEF n, ListRead

(***************************************************************************)
(* What a stub runs of the message of its proxy.                           *)
(***************************************************************************)
LEMMA EmptyMessages ==
    ASSUME NEW a
    PROVE  /\ Stub(ProxyInit(a)) = Runs("Init", << >>)
           /\ Stub(ProxyRelease(a)) = Runs("Release", << >>)
           /\ Stub(ProxyUnregisterSessionState(a)) = Runs("UnregisterSessionState", << >>)
<1>1. Stub(ProxyInit(a)) = Runs("Init", << >>)
  BY DEF ProxyInit, HandleInit, Stub, SourceStub, Source, Message
<1>2. Stub(ProxyRelease(a)) = Runs("Release", << >>)
  BY DEF ProxyRelease, HandleRelease, Stub, SourceStub, Source, Message
<1>3. Stub(ProxyUnregisterSessionState(a)) = Runs("UnregisterSessionState", << >>)
  BY DEF ProxyUnregisterSessionState, HandleUnregisterSessionState, Stub, SourceStub, Source, Message
<1> QED
  BY <1>1, <1>2, <1>3

LEMMA CallbackMessages ==
    ASSUME NEW a
    PROVE  /\ Stub(ProxyAddWhiteList(a)) = RunsWithCallback("AddWhiteList", << a[1] >>)
           /\ Stub(ProxyDelWhiteList(a)) = RunsWithCallback("DelWhiteList", << a[1] >>)
           /\ Stub(ProxyRegisterSimulation(a)) = RunsWithCallback("RegisterSimulation", << a[1] >>)
           /\ Stub(ProxyUnregisterSimulation(a)) = RunsWithCallback("UnregisterSimulation", << a[1] >>)
           /\ Stub(ProxyRegisterSessionState(a)) = RunsWithCallback("RegisterSessionState", << a[1] >>)
<1>1. Stub(ProxyAddWhiteList(a)) = RunsWithCallback("AddWhiteList", << a[1] >>)
  BY OneObject DEF ProxyAddWhiteList, HandleAddWhiteList, Stub, SourceStub, Source, Message
<1>2. Stub(ProxyDelWhiteList(a)) = RunsWithCallback("DelWhiteList", << a[1] >>)
  BY OneObject DEF ProxyDelWhiteList, HandleDelWhiteList, Stub, SourceStub, Source, Message
<1>3. Stub(ProxyRegisterSimulation(a)) = RunsWithCallback("RegisterSimulation", << a[1] >>)
  BY OneObject DEF ProxyRegisterSimulation, HandleRegisterSimulation, Stub, SourceStub, Source, Message
<1>4. Stub(ProxyUnregisterSimulation(a)) = RunsWithCallback("UnregisterSimulation", << a[1] >>)
  BY OneObject DEF ProxyUnregisterSimulation, HandleUnregisterSimulation, Stub, SourceStub, Source, Message
<1>5. Stub(ProxyRegisterSessionState(a)) = RunsWithCallback("RegisterSessionState", << a[1] >>)
  BY OneObject DEF ProxyRegisterSessionState, HandleRegisterSessionState, Stub, SourceStub, Source, Message
<1> QED
  BY <1>1, <1>2, <1>3, <1>4, <1>5

LEMMA DeviceMessages ==
    ASSUME NEW a
    PROVE  /\ Stub(ProxyPrepare(a)) = RunsWithCallback("Prepare", << a[1], a[2] >>)
           /\ Stub(ProxyUnprepare(a)) = RunsWithCallback("Unprepare", << a[1], a[2] >>)
<1>1. Stub(ProxyPrepare(a)) = RunsWithCallback("Prepare", << a[1], a[2] >>)
  BY StringObject DEF ProxyPrepare, HandlePrepare, Stub, SourceStub, Source, Message
<1>2. Stub(ProxyUnprepare(a)) = RunsWithCallback("Unprepare", << a[1], a[2] >>)
  BY StringObject DEF ProxyUnprepare, HandleUnprepare, Stub, SourceStub, Source, Message
<1> QED
  BY <1>1, <1>2

LEMMA TwoDeviceMessages ==
    ASSUME NEW a
    PROVE  /\ Stub(ProxyUnregister(a)) = RunsWithCallback("Unregister", << a[1], a[2], a[3] >>)
           /\ Stub(ProxyPrepareRelay(a)) = RunsWithCallback("PrepareRelay", << a[1], a[2], a[3] >>)
           /\ Stub(ProxyUnprepareRelay(a)) = RunsWithCallback("UnprepareRelay", << a[1], a[2], a[3] >>)
<1>1. Stub(ProxyUnregister(a)) = RunsWithCallback("Unregister", << a[1], a[2], a[3] >>)
  BY TwoStringsObject DEF ProxyUnregister, HandleUnregister, Stub, SourceStub, Source, Message
<1>2. Stub(ProxyPrepareRelay(a)) = RunsWithCallback("PrepareRelay", << a[1], a[2], a[3] >>)
  BY TwoStringsObject DEF ProxyPrepareRelay, HandlePrepareRelay, Stub, SourceStub, Source, Message
<1>3. Stub(ProxyUnprepareRelay(a)) = RunsWithCallback("UnprepareRelay", << a[1], a[2], a[3] >>)
  BY TwoStringsObject DEF ProxyUnprepareRelay, HandleUnprepareRelay, Stub, SourceStub, Source, Message
<1> QED
  BY <1>1, <1>2, <1>3

LEMMA RegisterMessage ==
    ASSUME NEW a
    PROVE  Stub(ProxyRegister(a)) = RunsWithCallback("Register", << a[1], a[2], a[3], a[4] >>)
  BY ThreeStringsObject DEF ProxyRegister, HandleRegister, Stub, SourceStub, Source, Message

LEMMA TypesMessages ==
    ASSUME NEW a
    PROVE  /\ Stub(ProxyStart(a)) = RunsWithCallback("Start", << a[1], a[2], a[3] >>)
           /\ Stub(ProxyStop(a)) = RunsWithCallback("Stop", << a[1], a[2], a[3] >>)
<1>1. Stub(ProxyStart(a)) = RunsWithCallback("Start", << a[1], a[2], a[3] >>)
  BY StringUintObject DEF ProxyStart, HandleStart, Stub, SourceStub, Source, Message
<1>2. Stub(ProxyStop(a)) = RunsWithCallback("Stop", << a[1], a[2], a[3] >>)
  BY StringUintObject DEF ProxyStop, HandleStop, Stub, SourceStub, Source, Message
<1> QED
  BY <1>1, <1>2

LEMMA RelayTypesMessages ==
    ASSUME NEW a
    PROVE  /\ Stub(ProxyStartRelay(a)) = RunsWithCallback("StartRelay", << a[1], a[2], a[3], a[4] >>)
           /\ Stub(ProxyStopRelay(a)) = RunsWithCallback("StopRelay", << a[1], a[2], a[3], a[4] >>)
<1>1. Stub(ProxyStartRelay(a)) = RunsWithCallback("StartRelay", << a[1], a[2], a[3], a[4] >>)
  BY TwoStringsUintObject DEF ProxyStartRelay, HandleStartRelay, Stub, SourceStub, Source, Message
<1>2. Stub(ProxyStopRelay(a)) = RunsWithCallback("StopRelay", << a[1], a[2], a[3], a[4] >>)
  BY TwoStringsUintObject DEF ProxyStopRelay, HandleStopRelay, Stub, SourceStub, Source, Message
<1> QED
  BY <1>1, <1>2

LEMMA SinkEmptyMessages ==
    ASSUME NEW a
    PROVE  /\ Stub(ProxySinkInit(a)) = Runs("SinkInit", << >>)
           /\ Stub(ProxySinkRelease(a)) = Runs("SinkRelease", << >>)
<1>1. Stub(ProxySinkInit(a)) = Runs("SinkInit", << >>)
  BY DEF ProxySinkInit, InitInner, Stub, SinkStub, Sink, Message
<1>2. Stub(ProxySinkRelease(a)) = Runs("SinkRelease", << >>)
  BY DEF ProxySinkRelease, ReleaseInner, Stub, SinkStub, Sink, Message
<1> QED
  BY <1>1, <1>2

LEMMA SinkCallbackMessages ==
    ASSUME NEW a
    PROVE  /\ Stub(ProxySharing(a)) = RunsWithCallback("Sharing", << a[1] >>)
           /\ Stub(ProxySinkScreens(a)) = RunsWithCallback("SinkScreens", << a[1] >>)
<1>1. Stub(ProxySharing(a)) = RunsWithCallback("Sharing", << a[1] >>)
  BY OneObject DEF ProxySharing, RegisterSharingDhIdListenerInner, Stub, SinkStub, Sink, Message
<1>2. Stub(ProxySinkScreens(a)) = RunsWithCallback("SinkScreens", << a[1] >>)
  BY OneObject DEF ProxySinkScreens, RegisterGetSinkScreenInfosInner, Stub, SinkStub, Sink, Message
<1> QED
  BY <1>1, <1>2

LEMMA ScreenMessage ==
    ASSUME NEW a
    PROVE  Stub(ProxyStartDScreen(a)) =
               Runs("StartDScreen", << a[1], a[2], a[3], a[4], a[5], a[6], a[7], a[8], a[9], a[10] >>)
<1> DEFINE d == WriteString(a[1]) \o WriteInt32(a[2]) \o WriteString(a[3])
                \o WriteUint64(a[4]) \o WriteUint32(a[5]) \o WriteUint32(a[6])
                \o WriteString(a[7]) \o WriteUint32(a[8]) \o WriteUint32(a[9])
                \o WriteUint32(a[10])
<1>1. /\ ReadString(d, 1) = a[1] /\ ReadInt32(d, 2) = a[2] /\ ReadString(d, 3) = a[3]
      /\ ReadUint64(d, 4) = a[4] /\ ReadUint32(d, 5) = a[5] /\ ReadUint32(d, 6) = a[6]
      /\ ReadString(d, 7) = a[7] /\ ReadUint32(d, 8) = a[8] /\ ReadUint32(d, 9) = a[9]
      /\ ReadUint32(d, 10) = a[10]
  BY Screen
<1>2. ProxyStartDScreen(a) = Sink("NOTIFY_START_DSCREEN", d)
  BY DEF ProxyStartDScreen
<1> HIDE DEF d
<1>3. Stub(Sink("NOTIFY_START_DSCREEN", d)) = NotifyStartDScreenInner(d)
  BY DEF Stub, SinkStub, Sink, Message
<1> QED
  BY <1>1, <1>2, <1>3 DEF NotifyStartDScreenInner

LEMMA KeyMessage ==
    ASSUME NEW a
    PROVE  Stub(ProxyStopDScreen(a)) = Runs("StopDScreen", << a[1] >>)
  BY OneString DEF ProxyStopDScreen, NotifyStopDScreenInner, Stub, SinkStub, Sink, Message

LEMMA ListMessages ==
    ASSUME NEW a, NEW T, a[2] \in Seq(T)
    PROVE  \A op \in {"StartDhids", "StopDhids"} :
             LET m == IF op = "StartDhids" THEN ProxyStartDhids(a) ELSE ProxyStopDhids(a)
             IN  Stub(m) = IF Len(a[2]) > IPC_VECTOR_MAX_SIZE THEN NoRequest
                           ELSE RunsWithCallback(op, << a[1], NonEmpty(a[2]), a[3] >>)
<1> DEFINE s == << StringCell(a[1]) >>
           S == {StringCell(a[1])}
           d == WriteString(a[1]) \o WriteStrings(a[2]) \o WriteRemoteObject(a[3])
<1>1. s \in Seq(S) /\ Len(s) = 1 /\ s[1] = StringCell(a[1])
  OBVIOUS
<1>2. WriteString(a[1]) = s
  BY DEF WriteString, StringCell
<1>3. d = s \o WriteStrings(a[2]) \o WriteRemoteObject(a[3])
  BY <1>2
<1> HIDE DEF d, s, S
<1>4. /\ ReadString(d, 1) = a[1] /\ Size(d, 2) = Len(a[2])
      /\ ReadStrings(d, 2) = NonEmpty(a[2]) /\ ReadRemoteObject(d, 2 + Size(d, 2) + 1) = a[3]
  <2>1. /\ \A i \in 1 .. Len(s) : i \in DOMAIN d /\ d[i] = s[i]
        /\ Size(d, 2) = Len(a[2])
        /\ ReadStrings(d, 2) = NonEmpty(a[2])
        /\ ReadRemoteObject(d, 2 + Size(d, 2) + 1) = a[3]
    <3>1. 2 = Len(s) + 1
      BY <1>1
    <3>2. ListRead(d, s, Len(s) + 1, a[2], a[3])
      BY <1>1, <1>3, ListOfStrings
    <3> QED
      BY <3>1, <3>2 DEF ListRead
  <2>2. \A i \in 1 .. 1 : i \in DOMAIN d /\ d[i] = s[i]
    BY <1>1, <2>1
  <2>3. ReadString(d, 1) = a[1]
    <3>1. 1 \in DOMAIN d /\ d[1] = StringCell(a[1])
      BY <1>1, <2>2
    <3> QED
      BY <3>1 DEF ReadString, Read, StringCell
  <2> QED
    BY <2>1, <2>3
<1>5. Stub(ProxyStartDhids(a)) = IF Len(a[2]) > IPC_VECTOR_MAX_SIZE THEN NoRequest
                              ELSE RunsWithCallback("StartDhids", << a[1], NonEmpty(a[2]), a[3] >>)
  <2>1. Stub(Source("START_DHID_REMOTE_INPUT", d)) = HandleStartDhids(d)
    BY DEF Stub, SourceStub, Source, Message
  <2>2. HandleStartDhids(d) = IF Len(a[2]) > IPC_VECTOR_MAX_SIZE THEN NoRequest
                        ELSE RunsWithCallback("StartDhids", << a[1], NonEmpty(a[2]), a[3] >>)
    <3>1. << a[1] >> \o << NonEmpty(a[2]), a[3] >> = << a[1], NonEmpty(a[2]), a[3] >>
      BY ListArguments
    <3>2. RunsWithList("StartDhids", << a[1] >>, d, 2) =
             IF Len(a[2]) > IPC_VECTOR_MAX_SIZE THEN NoRequest ELSE RunsWithCallback("StartDhids", << a[1], NonEmpty(a[2]), a[3] >>)
      BY <1>4, <3>1 DEF RunsWithList
    <3> QED
      BY <1>4, <3>2 DEF HandleStartDhids
  <2> QED
    BY <2>1, <2>2 DEF ProxyStartDhids, d
<1>6. Stub(ProxyStopDhids(a)) = IF Len(a[2]) > IPC_VECTOR_MAX_SIZE THEN NoRequest
                              ELSE RunsWithCallback("StopDhids", << a[1], NonEmpty(a[2]), a[3] >>)
  <2>1. Stub(Source("STOP_DHID_REMOTE_INPUT", d)) = HandleStopDhids(d)
    BY DEF Stub, SourceStub, Source, Message
  <2>2. HandleStopDhids(d) = IF Len(a[2]) > IPC_VECTOR_MAX_SIZE THEN NoRequest
                        ELSE RunsWithCallback("StopDhids", << a[1], NonEmpty(a[2]), a[3] >>)
    <3>1. << a[1] >> \o << NonEmpty(a[2]), a[3] >> = << a[1], NonEmpty(a[2]), a[3] >>
      BY ListArguments
    <3>2. RunsWithList("StopDhids", << a[1] >>, d, 2) =
             IF Len(a[2]) > IPC_VECTOR_MAX_SIZE THEN NoRequest ELSE RunsWithCallback("StopDhids", << a[1], NonEmpty(a[2]), a[3] >>)
      BY <1>4, <3>1 DEF RunsWithList
    <3> QED
      BY <1>4, <3>2 DEF HandleStopDhids
  <2> QED
    BY <2>1, <2>2 DEF ProxyStopDhids, d
<1> QED
  BY <1>5, <1>6

LEMMA RelayListMessages ==
    ASSUME NEW a, NEW T, a[3] \in Seq(T)
    PROVE  \A op \in {"StartRelayDhids", "StopRelayDhids"} :
             LET m == IF op = "StartRelayDhids" THEN ProxyStartRelayDhids(a) ELSE ProxyStopRelayDhids(a)
             IN  Stub(m) = IF Len(a[3]) > IPC_VECTOR_MAX_SIZE THEN NoRequest
                           ELSE RunsWithCallback(op, << a[1], a[2], NonEmpty(a[3]), a[4] >>)
<1> DEFINE s == << StringCell(a[1]), StringCell(a[2]) >>
           S == {StringCell(a[1]), StringCell(a[2])}
           d == WriteString(a[1]) \o WriteString(a[2]) \o WriteStrings(a[3]) \o WriteRemoteObject(a[4])
<1>1. s \in Seq(S) /\ Len(s) = 2 /\ s[1] = StringCell(a[1]) /\ s[2] = StringCell(a[2])
  OBVIOUS
<1>2. WriteString(a[1]) \o WriteString(a[2]) = s
  BY TwoCells DEF WriteString, StringCell
<1>3. d = s \o WriteStrings(a[3]) \o WriteRemoteObject(a[4])
  BY <1>2
<1> HIDE DEF d, s, S
<1>4. /\ ReadString(d, 1) = a[1] /\ ReadString(d, 2) = a[2] /\ Size(d, 3) = Len(a[3])
      /\ ReadStrings(d, 3) = NonEmpty(a[3]) /\ ReadRemoteObject(d, 3 + Size(d, 3) + 1) = a[4]
  <2>1. /\ \A i \in 1 .. Len(s) : i \in DOMAIN d /\ d[i] = s[i]
        /\ Size(d, 3) = Len(a[3])
        /\ ReadStrings(d, 3) = NonEmpty(a[3])
        /\ ReadRemoteObject(d, 3 + Size(d, 3) + 1) = a[4]
    <3>1. 3 = Len(s) + 1
      BY <1>1
    <3>2. ListRead(d, s, Len(s) + 1, a[3], a[4])
      BY <1>1, <1>3, ListOfStrings
    <3> QED
      BY <3>1, <3>2 DEF ListRead
  <2>2. \A i \in 1 .. 2 : i \in DOMAIN d /\ d[i] = s[i]
    BY <1>1, <2>1
  <2>3. ReadString(d, 1) = a[1] /\ ReadString(d, 2) = a[2]
    <3>1. 1 \in DOMAIN d /\ d[1] = StringCell(a[1]) /\ 2 \in DOMAIN d /\ d[2] = StringCell(a[2])
      BY <1>1, <2>2
    <3> QED
      BY <3>1 DEF ReadString, Read, StringCell
  <2> QED
    BY <2>1, <2>3
<1>5. Stub(ProxyStartRelayDhids(a)) = IF Len(a[3]) > IPC_VECTOR_MAX_SIZE THEN NoRequest
                              ELSE RunsWithCallback("StartRelayDhids", << a[1], a[2], NonEmpty(a[3]), a[4] >>)
  <2>1. Stub(Source("START_RELAY_DHID_REMOTE_INPUT", d)) = HandleStartRelayDhids(d)
    BY DEF Stub, SourceStub, Source, Message
  <2>2. HandleStartRelayDhids(d) = IF Len(a[3]) > IPC_VECTOR_MAX_SIZE THEN NoRequest
                        ELSE RunsWithCallback("StartRelayDhids", << a[1], a[2], NonEmpty(a[3]), a[4] >>)
    <3>1. << a[1], a[2] >> \o << NonEmpty(a[3]), a[4] >> = << a[1], a[2], NonEmpty(a[3]), a[4] >>
      BY ListArguments
    <3>2. RunsWithList("StartRelayDhids", << a[1], a[2] >>, d, 3) =
             IF Len(a[3]) > IPC_VECTOR_MAX_SIZE THEN NoRequest ELSE RunsWithCallback("StartRelayDhids", << a[1], a[2], NonEmpty(a[3]), a[4] >>)
      BY <1>4, <3>1 DEF RunsWithList
    <3> QED
      BY <1>4, <3>2 DEF HandleStartRelayDhids
  <2> QED
    BY <2>1, <2>2 DEF ProxyStartRelayDhids, d
<1>6. Stub(ProxyStopRelayDhids(a)) = IF Len(a[3]) > IPC_VECTOR_MAX_SIZE THEN NoRequest
                              ELSE RunsWithCallback("StopRelayDhids", << a[1], a[2], NonEmpty(a[3]), a[4] >>)
  <2>1. Stub(Source("STOP_RELAY_DHID_REMOTE_INPUT", d)) = HandleStopRelayDhids(d)
    BY DEF Stub, SourceStub, Source, Message
  <2>2. HandleStopRelayDhids(d) = IF Len(a[3]) > IPC_VECTOR_MAX_SIZE THEN NoRequest
                        ELSE RunsWithCallback("StopRelayDhids", << a[1], a[2], NonEmpty(a[3]), a[4] >>)
    <3>1. << a[1], a[2] >> \o << NonEmpty(a[3]), a[4] >> = << a[1], a[2], NonEmpty(a[3]), a[4] >>
      BY ListArguments
    <3>2. RunsWithList("StopRelayDhids", << a[1], a[2] >>, d, 3) =
             IF Len(a[3]) > IPC_VECTOR_MAX_SIZE THEN NoRequest ELSE RunsWithCallback("StopRelayDhids", << a[1], a[2], NonEmpty(a[3]), a[4] >>)
      BY <1>4, <3>1 DEF RunsWithList
    <3> QED
      BY <1>4, <3>2 DEF HandleStopRelayDhids
  <2> QED
    BY <2>1, <2>2 DEF ProxyStopRelayDhids, d
<1> QED
  BY <1>5, <1>6

(***************************************************************************)
(* Requests: the arguments of their operation, lists where it has lists.   *)
(***************************************************************************)
Operations == OperationsOf("framework") \cup OperationsOf("user")

OfShape(r) ==
    /\ r.op \in Operations
    /\ r = Runs(r.op, r.args)
    /\ r.args = [i \in DOMAIN Shape(r.op) |-> r.args[i]]
    /\ \A i \in DOMAIN Shape(r.op) : Shape(r.op)[i] = "dhIds" => \E T : r.args[i] \in Seq(T)

\* What a stub refuses: a callback that is missing, and a list that is too long.
Dropped(r) ==
    \E i \in DOMAIN Shape(r.op) :
        \/ Shape(r.op)[i] \in {"callback", "own"} /\ r.args[i] = NullObject
        \/ Shape(r.op)[i] = "dhIds" /\ Len(r.args[i]) > IPC_VECTOR_MAX_SIZE

AsSent(r) == Runs(r.op, [i \in DOMAIN r.args |-> Kept(Shape(r.op)[i], r.args[i])])

Arrived(r) == IF Dropped(r) THEN NoRequest ELSE AsSent(r)

LEMMA LastOf ==
    ASSUME NEW a, NEW n \in Nat, n > 0, a = [i \in 1 .. n |-> a[i]]
    PROVE  Last(a) = a[n]
<1> DEFINE S == {a[i] : i \in 1 .. n}
<1>1. a \in [1 .. n -> S]
  OBVIOUS
<1>2. a \in Seq(S)
  BY <1>1
<1> HIDE DEF S
<1>3. Len(a) = n
  BY <1>1, <1>2
<1> QED
  BY <1>3 DEF Last

\* Without a list the arguments arrive as they are.
LEMMA NothingLeftOut ==
    ASSUME NEW r, OfShape(r), \A i \in DOMAIN Shape(r.op) : Shape(r.op)[i] # "dhIds"
    PROVE  AsSent(r) = r
<1>1. DOMAIN r.args = DOMAIN Shape(r.op)
  BY DEF OfShape
<1>2. [i \in DOMAIN r.args |-> Kept(Shape(r.op)[i], r.args[i])] = [i \in DOMAIN Shape(r.op) |-> r.args[i]]
  BY <1>1 DEF Kept
<1> QED
  BY <1>2, Zenon DEF OfShape, AsSent

\* The stubs that read a callback last, and no list.
LEMMA CallbackLast ==
    ASSUME NEW r, OfShape(r), NEW n \in Nat, n > 0, DOMAIN Shape(r.op) = 1 .. n,
           Shape(r.op)[n] \in {"callback", "own"},
           \A i \in 1 .. n : i # n => Shape(r.op)[i] \notin {"callback", "own", "dhIds"}
    PROVE  RunsWithCallback(r.op, r.args) = Arrived(r)
<1>1. r.args = [i \in 1 .. n |-> r.args[i]]
  BY DEF OfShape
<1>2. Last(r.args) = r.args[n]
  BY <1>1, LastOf
<1>3. Dropped(r) <=> r.args[n] = NullObject
  BY DEF Dropped
<1>4. AsSent(r) = r
  BY NothingLeftOut
<1>5. Runs(r.op, r.args) = r
  BY DEF OfShape
<1> QED
  BY <1>2, <1>3, <1>4, <1>5, Zenon DEF RunsWithCallback, Arrived

\* Those that read neither.
LEMMA NoCallback ==
    ASSUME NEW r, OfShape(r),
           \A i \in DOMAIN Shape(r.op) : Shape(r.op)[i] \notin {"callback", "own", "dhIds"}
    PROVE  Runs(r.op, r.args) = Arrived(r)
<1>1. ~Dropped(r)
  BY DEF Dropped
<1>2. AsSent(r) = r
  BY NothingLeftOut
<1> QED
  BY <1>1, <1>2, Zenon DEF OfShape, Arrived

LEMMA Tuple0 == ASSUME NEW a, a = [i \in 1 .. 0 |-> a[i]] PROVE a = <<  >>
  OBVIOUS

LEMMA Tuple1 == ASSUME NEW a, a = [i \in 1 .. 1 |-> a[i]] PROVE a = << a[1] >>
  OBVIOUS

LEMMA Tuple2 == ASSUME NEW a, a = [i \in 1 .. 2 |-> a[i]] PROVE a = << a[1], a[2] >>
  OBVIOUS

LEMMA Tuple3 == ASSUME NEW a, a = [i \in 1 .. 3 |-> a[i]] PROVE a = << a[1], a[2], a[3] >>
  OBVIOUS

LEMMA Tuple4 == ASSUME NEW a, a = [i \in 1 .. 4 |-> a[i]] PROVE a = << a[1], a[2], a[3], a[4] >>
  OBVIOUS

LEMMA Tuple10 == ASSUME NEW a, a = [i \in 1 .. 10 |-> a[i]] PROVE a = << a[1], a[2], a[3], a[4], a[5], a[6], a[7], a[8], a[9], a[10] >>
  OBVIOUS

(***************************************************************************)
(* What arrives of each message.                                           *)
(***************************************************************************)

LEMMA EmptyArrives ==
    ASSUME NEW r, OfShape(r), r.op \in {"Init", "Release", "UnregisterSessionState"}
    PROVE  Stub(Proxy(r)) = Arrived(r)
<1>1. Shape(r.op) = <<  >>
  BY DEF Shape
<1>2. DOMAIN Shape(r.op) = 1 .. 0
  BY <1>1
<1>3. r.args = <<  >>
  <2>1. r.args = [i \in 1 .. 0 |-> r.args[i]]
    BY <1>2 DEF OfShape
  <2> QED
    BY <2>1, Tuple0
<1>4. CASE r.op = "Init"
  <2>1. Proxy(r) = ProxyInit(r.args)
    BY <1>4 DEF Proxy
  <2>2. Stub(ProxyInit(r.args)) = Runs("Init", <<  >>)
    BY EmptyMessages
  <2>3. Runs(r.op, r.args) = Runs("Init", <<  >>)
    BY <1>3, <1>4, Zenon
  <2>4. \A i \in DOMAIN Shape(r.op) : Shape(r.op)[i] \notin {"callback", "own", "dhIds"}
    BY <1>1
  <2>5. Runs(r.op, r.args) = Arrived(r)
    BY <1>2, <2>4, NoCallback
  <2> QED
    BY <2>1, <2>2, <2>3, <2>5, Zenon
<1>5. CASE r.op = "Release"
  <2>1. Proxy(r) = ProxyRelease(r.args)
    BY <1>5 DEF Proxy
  <2>2. Stub(ProxyRelease(r.args)) = Runs("Release", <<  >>)
    BY EmptyMessages
  <2>3. Runs(r.op, r.args) = Runs("Release", <<  >>)
    BY <1>3, <1>5, Zenon
  <2>4. \A i \in DOMAIN Shape(r.op) : Shape(r.op)[i] \notin {"callback", "own", "dhIds"}
    BY <1>1
  <2>5. Runs(r.op, r.args) = Arrived(r)
    BY <1>2, <2>4, NoCallback
  <2> QED
    BY <2>1, <2>2, <2>3, <2>5, Zenon
<1>6. CASE r.op = "UnregisterSessionState"
  <2>1. Proxy(r) = ProxyUnregisterSessionState(r.args)
    BY <1>6 DEF Proxy
  <2>2. Stub(ProxyUnregisterSessionState(r.args)) = Runs("UnregisterSessionState", <<  >>)
    BY EmptyMessages
  <2>3. Runs(r.op, r.args) = Runs("UnregisterSessionState", <<  >>)
    BY <1>3, <1>6, Zenon
  <2>4. \A i \in DOMAIN Shape(r.op) : Shape(r.op)[i] \notin {"callback", "own", "dhIds"}
    BY <1>1
  <2>5. Runs(r.op, r.args) = Arrived(r)
    BY <1>2, <2>4, NoCallback
  <2> QED
    BY <2>1, <2>2, <2>3, <2>5, Zenon
<1> QED
  BY <1>4, <1>5, <1>6

LEMMA SinkEmptyArrives ==
    ASSUME NEW r, OfShape(r), r.op \in {"SinkInit", "SinkRelease"}
    PROVE  Stub(Proxy(r)) = Arrived(r)
<1>1. Shape(r.op) = <<  >>
  BY DEF Shape
<1>2. DOMAIN Shape(r.op) = 1 .. 0
  BY <1>1
<1>3. r.args = <<  >>
  <2>1. r.args = [i \in 1 .. 0 |-> r.args[i]]
    BY <1>2 DEF OfShape
  <2> QED
    BY <2>1, Tuple0
<1>4. CASE r.op = "SinkInit"
  <2>1. Proxy(r) = ProxySinkInit(r.args)
    BY <1>4 DEF Proxy
  <2>2. Stub(ProxySinkInit(r.args)) = Runs("SinkInit", <<  >>)
    BY SinkEmptyMessages
  <2>3. Runs(r.op, r.args) = Runs("SinkInit", <<  >>)
    BY <1>3, <1>4, Zenon
  <2>4. \A i \in DOMAIN Shape(r.op) : Shape(r.op)[i] \notin {"callback", "own", "dhIds"}
    BY <1>1
  <2>5. Runs(r.op, r.args) = Arrived(r)
    BY <1>2, <2>4, NoCallback
  <2> QED
    BY <2>1, <2>2, <2>3, <2>5, Zenon
<1>5. CASE r.op = "SinkRelease"
  <2>1. Proxy(r) = ProxySinkRelease(r.args)
    BY <1>5 DEF Proxy
  <2>2. Stub(ProxySinkRelease(r.args)) = Runs("SinkRelease", <<  >>)
    BY SinkEmptyMessages
  <2>3. Runs(r.op, r.args) = Runs("SinkRelease", <<  >>)
    BY <1>3, <1>5, Zenon
  <2>4. \A i \in DOMAIN Shape(r.op) : Shape(r.op)[i] \notin {"callback", "own", "dhIds"}
    BY <1>1
  <2>5. Runs(r.op, r.args) = Arrived(r)
    BY <1>2, <2>4, NoCallback
  <2> QED
    BY <2>1, <2>2, <2>3, <2>5, Zenon
<1> QED
  BY <1>4, <1>5

LEMMA RegisterArrives ==
    ASSUME NEW r, OfShape(r), r.op \in {"Register"}
    PROVE  Stub(Proxy(r)) = Arrived(r)
<1>1. Shape(r.op) = << "src", "dhId", "params", "callback" >>
  BY DEF Shape
<1>2. DOMAIN Shape(r.op) = 1 .. 4
  BY <1>1
<1>3. r.args = << r.args[1], r.args[2], r.args[3], r.args[4] >>
  <2>1. r.args = [i \in 1 .. 4 |-> r.args[i]]
    BY <1>2 DEF OfShape
  <2> QED
    BY <2>1, Tuple4
<1>4. CASE r.op = "Register"
  <2>1. Proxy(r) = ProxyRegister(r.args)
    BY <1>4 DEF Proxy
  <2>2. Stub(ProxyRegister(r.args)) = RunsWithCallback("Register", << r.args[1], r.args[2], r.args[3], r.args[4] >>)
    BY RegisterMessage
  <2>3. RunsWithCallback(r.op, r.args) = RunsWithCallback("Register", << r.args[1], r.args[2], r.args[3], r.args[4] >>)
    BY <1>3, <1>4, Zenon
  <2>4. /\ 4 \in Nat /\ 4 > 0 /\ Shape(r.op)[4] \in {"callback", "own"}
        /\ \A i \in 1 .. 4 : i # 4 => Shape(r.op)[i] \notin {"callback", "own", "dhIds"}
    BY <1>1
  <2>5. RunsWithCallback(r.op, r.args) = Arrived(r)
    BY <1>2, <2>4, CallbackLast
  <2> QED
    BY <2>1, <2>2, <2>3, <2>5, Zenon
<1> QED
  BY <1>4

LEMMA TwoDeviceUnregisterArrives ==
    ASSUME NEW r, OfShape(r), r.op \in {"Unregister"}
    PROVE  Stub(Proxy(r)) = Arrived(r)
<1>1. Shape(r.op) = << "src", "dhId", "callback" >>
  BY DEF Shape
<1>2. DOMAIN Shape(r.op) = 1 .. 3
  BY <1>1
<1>3. r.args = << r.args[1], r.args[2], r.args[3] >>
  <2>1. r.args = [i \in 1 .. 3 |-> r.args[i]]
    BY <1>2 DEF OfShape
  <2> QED
    BY <2>1, Tuple3
<1>4. CASE r.op = "Unregister"
  <2>1. Proxy(r) = ProxyUnregister(r.args)
    BY <1>4 DEF Proxy
  <2>2. Stub(ProxyUnregister(r.args)) = RunsWithCallback("Unregister", << r.args[1], r.args[2], r.args[3] >>)
    BY TwoDeviceMessages
  <2>3. RunsWithCallback(r.op, r.args) = RunsWithCallback("Unregister", << r.args[1], r.args[2], r.args[3] >>)
    BY <1>3, <1>4, Zenon
  <2>4. /\ 3 \in Nat /\ 3 > 0 /\ Shape(r.op)[3] \in {"callback", "own"}
        /\ \A i \in 1 .. 3 : i # 3 => Shape(r.op)[i] \notin {"callback", "own", "dhIds"}
    BY <1>1
  <2>5. RunsWithCallback(r.op, r.args) = Arrived(r)
    BY <1>2, <2>4, CallbackLast
  <2> QED
    BY <2>1, <2>2, <2>3, <2>5, Zenon
<1> QED
  BY <1>4

LEMMA DeviceArrives ==
    ASSUME NEW r, OfShape(r), r.op \in {"Prepare", "Unprepare"}
    PROVE  Stub(Proxy(r)) = Arrived(r)
<1>1. Shape(r.op) = << "sink", "callback" >>
  BY DEF Shape
<1>2. DOMAIN Shape(r.op) = 1 .. 2
  BY <1>1
<1>3. r.args = << r.args[1], r.args[2] >>
  <2>1. r.args = [i \in 1 .. 2 |-> r.args[i]]
    BY <1>2 DEF OfShape
  <2> QED
    BY <2>1, Tuple2
<1>4. CASE r.op = "Prepare"
  <2>1. Proxy(r) = ProxyPrepare(r.args)
    BY <1>4 DEF Proxy
  <2>2. Stub(ProxyPrepare(r.args)) = RunsWithCallback("Prepare", << r.args[1], r.args[2] >>)
    BY DeviceMessages
  <2>3. RunsWithCallback(r.op, r.args) = RunsWithCallback("Prepare", << r.args[1], r.args[2] >>)
    BY <1>3, <1>4, Zenon
  <2>4. /\ 2 \in Nat /\ 2 > 0 /\ Shape(r.op)[2] \in {"callback", "own"}
        /\ \A i \in 1 .. 2 : i # 2 => Shape(r.op)[i] \notin {"callback", "own", "dhIds"}
    BY <1>1
  <2>5. RunsWithCallback(r.op, r.args) = Arrived(r)
    BY <1>2, <2>4, CallbackLast
  <2> QED
    BY <2>1, <2>2, <2>3, <2>5, Zenon
<1>5. CASE r.op = "Unprepare"
  <2>1. Proxy(r) = ProxyUnprepare(r.args)
    BY <1>5 DEF Proxy
  <2>2. Stub(ProxyUnprepare(r.args)) = RunsWithCallback("Unprepare", << r.args[1], r.args[2] >>)
    BY DeviceMessages
  <2>3. RunsWithCallback(r.op, r.args) = RunsWithCallback("Unprepare", << r.args[1], r.args[2] >>)
    BY <1>3, <1>5, Zenon
  <2>4. /\ 2 \in Nat /\ 2 > 0 /\ Shape(r.op)[2] \in {"callback", "own"}
        /\ \A i \in 1 .. 2 : i # 2 => Shape(r.op)[i] \notin {"callback", "own", "dhIds"}
    BY <1>1
  <2>5. RunsWithCallback(r.op, r.args) = Arrived(r)
    BY <1>2, <2>4, CallbackLast
  <2> QED
    BY <2>1, <2>2, <2>3, <2>5, Zenon
<1> QED
  BY <1>4, <1>5

LEMMA TypesArrives ==
    ASSUME NEW r, OfShape(r), r.op \in {"Start", "Stop"}
    PROVE  Stub(Proxy(r)) = Arrived(r)
<1>1. Shape(r.op) = << "sink", "types", "callback" >>
  BY DEF Shape
<1>2. DOMAIN Shape(r.op) = 1 .. 3
  BY <1>1
<1>3. r.args = << r.args[1], r.args[2], r.args[3] >>
  <2>1. r.args = [i \in 1 .. 3 |-> r.args[i]]
    BY <1>2 DEF OfShape
  <2> QED
    BY <2>1, Tuple3
<1>4. CASE r.op = "Start"
  <2>1. Proxy(r) = ProxyStart(r.args)
    BY <1>4 DEF Proxy
  <2>2. Stub(ProxyStart(r.args)) = RunsWithCallback("Start", << r.args[1], r.args[2], r.args[3] >>)
    BY TypesMessages
  <2>3. RunsWithCallback(r.op, r.args) = RunsWithCallback("Start", << r.args[1], r.args[2], r.args[3] >>)
    BY <1>3, <1>4, Zenon
  <2>4. /\ 3 \in Nat /\ 3 > 0 /\ Shape(r.op)[3] \in {"callback", "own"}
        /\ \A i \in 1 .. 3 : i # 3 => Shape(r.op)[i] \notin {"callback", "own", "dhIds"}
    BY <1>1
  <2>5. RunsWithCallback(r.op, r.args) = Arrived(r)
    BY <1>2, <2>4, CallbackLast
  <2> QED
    BY <2>1, <2>2, <2>3, <2>5, Zenon
<1>5. CASE r.op = "Stop"
  <2>1. Proxy(r) = ProxyStop(r.args)
    BY <1>5 DEF Proxy
  <2>2. Stub(ProxyStop(r.args)) = RunsWithCallback("Stop", << r.args[1], r.args[2], r.args[3] >>)
    BY TypesMessages
  <2>3. RunsWithCallback(r.op, r.args) = RunsWithCallback("Stop", << r.args[1], r.args[2], r.args[3] >>)
    BY <1>3, <1>5, Zenon
  <2>4. /\ 3 \in Nat /\ 3 > 0 /\ Shape(r.op)[3] \in {"callback", "own"}
        /\ \A i \in 1 .. 3 : i # 3 => Shape(r.op)[i] \notin {"callback", "own", "dhIds"}
    BY <1>1
  <2>5. RunsWithCallback(r.op, r.args) = Arrived(r)
    BY <1>2, <2>4, CallbackLast
  <2> QED
    BY <2>1, <2>2, <2>3, <2>5, Zenon
<1> QED
  BY <1>4, <1>5

LEMMA TwoDeviceRelayArrives ==
    ASSUME NEW r, OfShape(r), r.op \in {"PrepareRelay", "UnprepareRelay"}
    PROVE  Stub(Proxy(r)) = Arrived(r)
<1>1. Shape(r.op) = << "src", "sink", "callback" >>
  BY DEF Shape
<1>2. DOMAIN Shape(r.op) = 1 .. 3
  BY <1>1
<1>3. r.args = << r.args[1], r.args[2], r.args[3] >>
  <2>1. r.args = [i \in 1 .. 3 |-> r.args[i]]
    BY <1>2 DEF OfShape
  <2> QED
    BY <2>1, Tuple3
<1>4. CASE r.op = "PrepareRelay"
  <2>1. Proxy(r) = ProxyPrepareRelay(r.args)
    BY <1>4 DEF Proxy
  <2>2. Stub(ProxyPrepareRelay(r.args)) = RunsWithCallback("PrepareRelay", << r.args[1], r.args[2], r.args[3] >>)
    BY TwoDeviceMessages
  <2>3. RunsWithCallback(r.op, r.args) = RunsWithCallback("PrepareRelay", << r.args[1], r.args[2], r.args[3] >>)
    BY <1>3, <1>4, Zenon
  <2>4. /\ 3 \in Nat /\ 3 > 0 /\ Shape(r.op)[3] \in {"callback", "own"}
        /\ \A i \in 1 .. 3 : i # 3 => Shape(r.op)[i] \notin {"callback", "own", "dhIds"}
    BY <1>1
  <2>5. RunsWithCallback(r.op, r.args) = Arrived(r)
    BY <1>2, <2>4, CallbackLast
  <2> QED
    BY <2>1, <2>2, <2>3, <2>5, Zenon
<1>5. CASE r.op = "UnprepareRelay"
  <2>1. Proxy(r) = ProxyUnprepareRelay(r.args)
    BY <1>5 DEF Proxy
  <2>2. Stub(ProxyUnprepareRelay(r.args)) = RunsWithCallback("UnprepareRelay", << r.args[1], r.args[2], r.args[3] >>)
    BY TwoDeviceMessages
  <2>3. RunsWithCallback(r.op, r.args) = RunsWithCallback("UnprepareRelay", << r.args[1], r.args[2], r.args[3] >>)
    BY <1>3, <1>5, Zenon
  <2>4. /\ 3 \in Nat /\ 3 > 0 /\ Shape(r.op)[3] \in {"callback", "own"}
        /\ \A i \in 1 .. 3 : i # 3 => Shape(r.op)[i] \notin {"callback", "own", "dhIds"}
    BY <1>1
  <2>5. RunsWithCallback(r.op, r.args) = Arrived(r)
    BY <1>2, <2>4, CallbackLast
  <2> QED
    BY <2>1, <2>2, <2>3, <2>5, Zenon
<1> QED
  BY <1>4, <1>5

LEMMA RelayTypesArrives ==
    ASSUME NEW r, OfShape(r), r.op \in {"StartRelay", "StopRelay"}
    PROVE  Stub(Proxy(r)) = Arrived(r)
<1>1. Shape(r.op) = << "src", "sink", "types", "callback" >>
  BY DEF Shape
<1>2. DOMAIN Shape(r.op) = 1 .. 4
  BY <1>1
<1>3. r.args = << r.args[1], r.args[2], r.args[3], r.args[4] >>
  <2>1. r.args = [i \in 1 .. 4 |-> r.args[i]]
    BY <1>2 DEF OfShape
  <2> QED
    BY <2>1, Tuple4
<1>4. CASE r.op = "StartRelay"
  <2>1. Proxy(r) = ProxyStartRelay(r.args)
    BY <1>4 DEF Proxy
  <2>2. Stub(ProxyStartRelay(r.args)) = RunsWithCallback("StartRelay", << r.args[1], r.args[2], r.args[3], r.args[4] >>)
    BY RelayTypesMessages
  <2>3. RunsWithCallback(r.op, r.args) = RunsWithCallback("StartRelay", << r.args[1], r.args[2], r.args[3], r.args[4] >>)
    BY <1>3, <1>4, Zenon
  <2>4. /\ 4 \in Nat /\ 4 > 0 /\ Shape(r.op)[4] \in {"callback", "own"}
        /\ \A i \in 1 .. 4 : i # 4 => Shape(r.op)[i] \notin {"callback", "own", "dhIds"}
    BY <1>1
  <2>5. RunsWithCallback(r.op, r.args) = Arrived(r)
    BY <1>2, <2>4, CallbackLast
  <2> QED
    BY <2>1, <2>2, <2>3, <2>5, Zenon
<1>5. CASE r.op = "StopRelay"
  <2>1. Proxy(r) = ProxyStopRelay(r.args)
    BY <1>5 DEF Proxy
  <2>2. Stub(ProxyStopRelay(r.args)) = RunsWithCallback("StopRelay", << r.args[1], r.args[2], r.args[3], r.args[4] >>)
    BY RelayTypesMessages
  <2>3. RunsWithCallback(r.op, r.args) = RunsWithCallback("StopRelay", << r.args[1], r.args[2], r.args[3], r.args[4] >>)
    BY <1>3, <1>5, Zenon
  <2>4. /\ 4 \in Nat /\ 4 > 0 /\ Shape(r.op)[4] \in {"callback", "own"}
        /\ \A i \in 1 .. 4 : i # 4 => Shape(r.op)[i] \notin {"callback", "own", "dhIds"}
    BY <1>1
  <2>5. RunsWithCallback(r.op, r.args) = Arrived(r)
    BY <1>2, <2>4, CallbackLast
  <2> QED
    BY <2>1, <2>2, <2>3, <2>5, Zenon
<1> QED
  BY <1>4, <1>5

LEMMA ListArrives ==
    ASSUME NEW r, OfShape(r), r.op \in {"StartDhids", "StopDhids"}
    PROVE  Stub(Proxy(r)) = Arrived(r)
<1>1. Shape(r.op) = << "sink", "dhIds", "callback" >>
  BY DEF Shape
<1>2. DOMAIN Shape(r.op) = 1 .. 3
  BY <1>1
<1>3. r.args = << r.args[1], r.args[2], r.args[3] >>
  <2>1. r.args = [i \in 1 .. 3 |-> r.args[i]]
    BY <1>2 DEF OfShape
  <2> QED
    BY <2>1, Tuple3
<1>4. PICK T : r.args[2] \in Seq(T)
  <2>1. 2 \in DOMAIN Shape(r.op) /\ Shape(r.op)[2] = "dhIds"
    BY <1>1
  <2> QED
    BY <2>1 DEF OfShape
<1>5. Stub(Proxy(r)) = IF Len(r.args[2]) > IPC_VECTOR_MAX_SIZE THEN NoRequest
                         ELSE RunsWithCallback(r.op, << r.args[1], NonEmpty(r.args[2]), r.args[3] >>)
  <2>1. LET m == IF r.op = "StartDhids" THEN ProxyStartDhids(r.args) ELSE ProxyStopDhids(r.args)
        IN  Stub(m) = IF Len(r.args[2]) > IPC_VECTOR_MAX_SIZE THEN NoRequest
                      ELSE RunsWithCallback(r.op, << r.args[1], NonEmpty(r.args[2]), r.args[3] >>)
    BY <1>4, ListMessages
  <2>2. Proxy(r) = IF r.op = "StartDhids" THEN ProxyStartDhids(r.args) ELSE ProxyStopDhids(r.args)
    BY DEF Proxy
  <2> QED
    BY <2>1, <2>2, Zenon
<1>6. PICK t : t = << r.args[1], NonEmpty(r.args[2]), r.args[3] >>
  OBVIOUS
<1>7. Last(t) = r.args[3]
  <2>1. t = [i \in 1 .. 3 |-> t[i]] /\ t[3] = r.args[3] /\ 3 \in Nat /\ 3 > 0
    BY <1>6
  <2> QED
    BY <2>1, LastOf
<1>8. [i \in DOMAIN r.args |-> Kept(Shape(r.op)[i], r.args[i])] = t
  <2>1. DOMAIN r.args = 1 .. 3 /\ DOMAIN t = 1 .. 3 /\ t = [i \in 1 .. 3 |-> t[i]]
    BY <1>3, <1>6
  <2>2. ASSUME NEW i \in 1 .. 3 PROVE Kept(Shape(r.op)[i], r.args[i]) = t[i]
    <3>1. CASE i = 1
      BY <1>1, <1>6, <3>1 DEF Kept
    <3>2. CASE i = 2
      BY <1>1, <1>6, <3>2 DEF Kept
    <3>3. CASE i = 3
      BY <1>1, <1>6, <3>3 DEF Kept
    <3> QED
      BY <3>1, <3>2, <3>3
  <2> QED
    BY <2>1, <2>2
<1>9. Dropped(r) <=> (Len(r.args[2]) > IPC_VECTOR_MAX_SIZE \/ r.args[3] = NullObject)
  BY <1>1, <1>2 DEF Dropped
<1>10. Stub(Proxy(r)) = IF Len(r.args[2]) > IPC_VECTOR_MAX_SIZE THEN NoRequest
                        ELSE RunsWithCallback(r.op, t)
  BY <1>5, <1>6, Zenon
<1>11. AsSent(r) = Runs(r.op, t)
  BY <1>8, Zenon DEF AsSent
<1> QED
  BY <1>7, <1>9, <1>10, <1>11, Zenon DEF RunsWithCallback, Arrived

LEMMA RelayListArrives ==
    ASSUME NEW r, OfShape(r), r.op \in {"StartRelayDhids", "StopRelayDhids"}
    PROVE  Stub(Proxy(r)) = Arrived(r)
<1>1. Shape(r.op) = << "src", "sink", "dhIds", "callback" >>
  BY DEF Shape
<1>2. DOMAIN Shape(r.op) = 1 .. 4
  BY <1>1
<1>3. r.args = << r.args[1], r.args[2], r.args[3], r.args[4] >>
  <2>1. r.args = [i \in 1 .. 4 |-> r.args[i]]
    BY <1>2 DEF OfShape
  <2> QED
    BY <2>1, Tuple4
<1>4. PICK T : r.args[3] \in Seq(T)
  <2>1. 3 \in DOMAIN Shape(r.op) /\ Shape(r.op)[3] = "dhIds"
    BY <1>1
  <2> QED
    BY <2>1 DEF OfShape
<1>5. Stub(Proxy(r)) = IF Len(r.args[3]) > IPC_VECTOR_MAX_SIZE THEN NoRequest
                         ELSE RunsWithCallback(r.op, << r.args[1], r.args[2], NonEmpty(r.args[3]), r.args[4] >>)
  <2>1. LET m == IF r.op = "StartRelayDhids" THEN ProxyStartRelayDhids(r.args) ELSE ProxyStopRelayDhids(r.args)
        IN  Stub(m) = IF Len(r.args[3]) > IPC_VECTOR_MAX_SIZE THEN NoRequest
                      ELSE RunsWithCallback(r.op, << r.args[1], r.args[2], NonEmpty(r.args[3]), r.args[4] >>)
    BY <1>4, RelayListMessages
  <2>2. Proxy(r) = IF r.op = "StartRelayDhids" THEN ProxyStartRelayDhids(r.args) ELSE ProxyStopRelayDhids(r.args)
    BY DEF Proxy
  <2> QED
    BY <2>1, <2>2, Zenon
<1>6. PICK t : t = << r.args[1], r.args[2], NonEmpty(r.args[3]), r.args[4] >>
  OBVIOUS
<1>7. Last(t) = r.args[4]
  <2>1. t = [i \in 1 .. 4 |-> t[i]] /\ t[4] = r.args[4] /\ 4 \in Nat /\ 4 > 0
    BY <1>6
  <2> QED
    BY <2>1, LastOf
<1>8. [i \in DOMAIN r.args |-> Kept(Shape(r.op)[i], r.args[i])] = t
  <2>1. DOMAIN r.args = 1 .. 4 /\ DOMAIN t = 1 .. 4 /\ t = [i \in 1 .. 4 |-> t[i]]
    BY <1>3, <1>6
  <2>2. ASSUME NEW i \in 1 .. 4 PROVE Kept(Shape(r.op)[i], r.args[i]) = t[i]
    <3>1. CASE i = 1
      BY <1>1, <1>6, <3>1 DEF Kept
    <3>2. CASE i = 2
      BY <1>1, <1>6, <3>2 DEF Kept
    <3>3. CASE i = 3
      BY <1>1, <1>6, <3>3 DEF Kept
    <3>4. CASE i = 4
      BY <1>1, <1>6, <3>4 DEF Kept
    <3> QED
      BY <3>1, <3>2, <3>3, <3>4
  <2> QED
    BY <2>1, <2>2
<1>9. Dropped(r) <=> (Len(r.args[3]) > IPC_VECTOR_MAX_SIZE \/ r.args[4] = NullObject)
  BY <1>1, <1>2 DEF Dropped
<1>10. Stub(Proxy(r)) = IF Len(r.args[3]) > IPC_VECTOR_MAX_SIZE THEN NoRequest
                        ELSE RunsWithCallback(r.op, t)
  BY <1>5, <1>6, Zenon
<1>11. AsSent(r) = Runs(r.op, t)
  BY <1>8, Zenon DEF AsSent
<1> QED
  BY <1>7, <1>9, <1>10, <1>11, Zenon DEF RunsWithCallback, Arrived

LEMMA CallbackGivenArrives ==
    ASSUME NEW r, OfShape(r), r.op \in {"RegisterSimulation", "UnregisterSimulation", "RegisterSessionState"}
    PROVE  Stub(Proxy(r)) = Arrived(r)
<1>1. Shape(r.op) = << "callback" >>
  BY DEF Shape
<1>2. DOMAIN Shape(r.op) = 1 .. 1
  BY <1>1
<1>3. r.args = << r.args[1] >>
  <2>1. r.args = [i \in 1 .. 1 |-> r.args[i]]
    BY <1>2 DEF OfShape
  <2> QED
    BY <2>1, Tuple1
<1>4. CASE r.op = "RegisterSimulation"
  <2>1. Proxy(r) = ProxyRegisterSimulation(r.args)
    BY <1>4 DEF Proxy
  <2>2. Stub(ProxyRegisterSimulation(r.args)) = RunsWithCallback("RegisterSimulation", << r.args[1] >>)
    BY CallbackMessages
  <2>3. RunsWithCallback(r.op, r.args) = RunsWithCallback("RegisterSimulation", << r.args[1] >>)
    BY <1>3, <1>4, Zenon
  <2>4. /\ 1 \in Nat /\ 1 > 0 /\ Shape(r.op)[1] \in {"callback", "own"}
        /\ \A i \in 1 .. 1 : i # 1 => Shape(r.op)[i] \notin {"callback", "own", "dhIds"}
    BY <1>1
  <2>5. RunsWithCallback(r.op, r.args) = Arrived(r)
    BY <1>2, <2>4, CallbackLast
  <2> QED
    BY <2>1, <2>2, <2>3, <2>5, Zenon
<1>5. CASE r.op = "UnregisterSimulation"
  <2>1. Proxy(r) = ProxyUnregisterSimulation(r.args)
    BY <1>5 DEF Proxy
  <2>2. Stub(ProxyUnregisterSimulation(r.args)) = RunsWithCallback("UnregisterSimulation", << r.args[1] >>)
    BY CallbackMessages
  <2>3. RunsWithCallback(r.op, r.args) = RunsWithCallback("UnregisterSimulation", << r.args[1] >>)
    BY <1>3, <1>5, Zenon
  <2>4. /\ 1 \in Nat /\ 1 > 0 /\ Shape(r.op)[1] \in {"callback", "own"}
        /\ \A i \in 1 .. 1 : i # 1 => Shape(r.op)[i] \notin {"callback", "own", "dhIds"}
    BY <1>1
  <2>5. RunsWithCallback(r.op, r.args) = Arrived(r)
    BY <1>2, <2>4, CallbackLast
  <2> QED
    BY <2>1, <2>2, <2>3, <2>5, Zenon
<1>6. CASE r.op = "RegisterSessionState"
  <2>1. Proxy(r) = ProxyRegisterSessionState(r.args)
    BY <1>6 DEF Proxy
  <2>2. Stub(ProxyRegisterSessionState(r.args)) = RunsWithCallback("RegisterSessionState", << r.args[1] >>)
    BY CallbackMessages
  <2>3. RunsWithCallback(r.op, r.args) = RunsWithCallback("RegisterSessionState", << r.args[1] >>)
    BY <1>3, <1>6, Zenon
  <2>4. /\ 1 \in Nat /\ 1 > 0 /\ Shape(r.op)[1] \in {"callback", "own"}
        /\ \A i \in 1 .. 1 : i # 1 => Shape(r.op)[i] \notin {"callback", "own", "dhIds"}
    BY <1>1
  <2>5. RunsWithCallback(r.op, r.args) = Arrived(r)
    BY <1>2, <2>4, CallbackLast
  <2> QED
    BY <2>1, <2>2, <2>3, <2>5, Zenon
<1> QED
  BY <1>4, <1>5, <1>6

LEMMA CallbackOwnArrives ==
    ASSUME NEW r, OfShape(r), r.op \in {"AddWhiteList", "DelWhiteList"}
    PROVE  Stub(Proxy(r)) = Arrived(r)
<1>1. Shape(r.op) = << "own" >>
  BY DEF Shape
<1>2. DOMAIN Shape(r.op) = 1 .. 1
  BY <1>1
<1>3. r.args = << r.args[1] >>
  <2>1. r.args = [i \in 1 .. 1 |-> r.args[i]]
    BY <1>2 DEF OfShape
  <2> QED
    BY <2>1, Tuple1
<1>4. CASE r.op = "AddWhiteList"
  <2>1. Proxy(r) = ProxyAddWhiteList(r.args)
    BY <1>4 DEF Proxy
  <2>2. Stub(ProxyAddWhiteList(r.args)) = RunsWithCallback("AddWhiteList", << r.args[1] >>)
    BY CallbackMessages
  <2>3. RunsWithCallback(r.op, r.args) = RunsWithCallback("AddWhiteList", << r.args[1] >>)
    BY <1>3, <1>4, Zenon
  <2>4. /\ 1 \in Nat /\ 1 > 0 /\ Shape(r.op)[1] \in {"callback", "own"}
        /\ \A i \in 1 .. 1 : i # 1 => Shape(r.op)[i] \notin {"callback", "own", "dhIds"}
    BY <1>1
  <2>5. RunsWithCallback(r.op, r.args) = Arrived(r)
    BY <1>2, <2>4, CallbackLast
  <2> QED
    BY <2>1, <2>2, <2>3, <2>5, Zenon
<1>5. CASE r.op = "DelWhiteList"
  <2>1. Proxy(r) = ProxyDelWhiteList(r.args)
    BY <1>5 DEF Proxy
  <2>2. Stub(ProxyDelWhiteList(r.args)) = RunsWithCallback("DelWhiteList", << r.args[1] >>)
    BY CallbackMessages
  <2>3. RunsWithCallback(r.op, r.args) = RunsWithCallback("DelWhiteList", << r.args[1] >>)
    BY <1>3, <1>5, Zenon
  <2>4. /\ 1 \in Nat /\ 1 > 0 /\ Shape(r.op)[1] \in {"callback", "own"}
        /\ \A i \in 1 .. 1 : i # 1 => Shape(r.op)[i] \notin {"callback", "own", "dhIds"}
    BY <1>1
  <2>5. RunsWithCallback(r.op, r.args) = Arrived(r)
    BY <1>2, <2>4, CallbackLast
  <2> QED
    BY <2>1, <2>2, <2>3, <2>5, Zenon
<1> QED
  BY <1>4, <1>5

LEMMA SinkCallbackArrives ==
    ASSUME NEW r, OfShape(r), r.op \in {"Sharing", "SinkScreens"}
    PROVE  Stub(Proxy(r)) = Arrived(r)
<1>1. Shape(r.op) = << "own" >>
  BY DEF Shape
<1>2. DOMAIN Shape(r.op) = 1 .. 1
  BY <1>1
<1>3. r.args = << r.args[1] >>
  <2>1. r.args = [i \in 1 .. 1 |-> r.args[i]]
    BY <1>2 DEF OfShape
  <2> QED
    BY <2>1, Tuple1
<1>4. CASE r.op = "Sharing"
  <2>1. Proxy(r) = ProxySharing(r.args)
    BY <1>4 DEF Proxy
  <2>2. Stub(ProxySharing(r.args)) = RunsWithCallback("Sharing", << r.args[1] >>)
    BY SinkCallbackMessages
  <2>3. RunsWithCallback(r.op, r.args) = RunsWithCallback("Sharing", << r.args[1] >>)
    BY <1>3, <1>4, Zenon
  <2>4. /\ 1 \in Nat /\ 1 > 0 /\ Shape(r.op)[1] \in {"callback", "own"}
        /\ \A i \in 1 .. 1 : i # 1 => Shape(r.op)[i] \notin {"callback", "own", "dhIds"}
    BY <1>1
  <2>5. RunsWithCallback(r.op, r.args) = Arrived(r)
    BY <1>2, <2>4, CallbackLast
  <2> QED
    BY <2>1, <2>2, <2>3, <2>5, Zenon
<1>5. CASE r.op = "SinkScreens"
  <2>1. Proxy(r) = ProxySinkScreens(r.args)
    BY <1>5 DEF Proxy
  <2>2. Stub(ProxySinkScreens(r.args)) = RunsWithCallback("SinkScreens", << r.args[1] >>)
    BY SinkCallbackMessages
  <2>3. RunsWithCallback(r.op, r.args) = RunsWithCallback("SinkScreens", << r.args[1] >>)
    BY <1>3, <1>5, Zenon
  <2>4. /\ 1 \in Nat /\ 1 > 0 /\ Shape(r.op)[1] \in {"callback", "own"}
        /\ \A i \in 1 .. 1 : i # 1 => Shape(r.op)[i] \notin {"callback", "own", "dhIds"}
    BY <1>1
  <2>5. RunsWithCallback(r.op, r.args) = Arrived(r)
    BY <1>2, <2>4, CallbackLast
  <2> QED
    BY <2>1, <2>2, <2>3, <2>5, Zenon
<1> QED
  BY <1>4, <1>5

LEMMA KeyArrives ==
    ASSUME NEW r, OfShape(r), r.op \in {"StopDScreen"}
    PROVE  Stub(Proxy(r)) = Arrived(r)
<1>1. Shape(r.op) = << "key" >>
  BY DEF Shape
<1>2. DOMAIN Shape(r.op) = 1 .. 1
  BY <1>1
<1>3. r.args = << r.args[1] >>
  <2>1. r.args = [i \in 1 .. 1 |-> r.args[i]]
    BY <1>2 DEF OfShape
  <2> QED
    BY <2>1, Tuple1
<1>4. CASE r.op = "StopDScreen"
  <2>1. Proxy(r) = ProxyStopDScreen(r.args)
    BY <1>4 DEF Proxy
  <2>2. Stub(ProxyStopDScreen(r.args)) = Runs("StopDScreen", << r.args[1] >>)
    BY KeyMessage
  <2>3. Runs(r.op, r.args) = Runs("StopDScreen", << r.args[1] >>)
    BY <1>3, <1>4, Zenon
  <2>4. \A i \in DOMAIN Shape(r.op) : Shape(r.op)[i] \notin {"callback", "own", "dhIds"}
    BY <1>1
  <2>5. Runs(r.op, r.args) = Arrived(r)
    BY <1>2, <2>4, NoCallback
  <2> QED
    BY <2>1, <2>2, <2>3, <2>5, Zenon
<1> QED
  BY <1>4

LEMMA ScreenArrives ==
    ASSUME NEW r, OfShape(r), r.op \in {"StartDScreen"}
    PROVE  Stub(Proxy(r)) = Arrived(r)
<1>1. Shape(r.op) = << "src", "session", "key", "window", "width", "height", "dhId", "fd", "width", "height" >>
  BY DEF Shape
<1>2. DOMAIN Shape(r.op) = 1 .. 10
  BY <1>1
<1>3. r.args = << r.args[1], r.args[2], r.args[3], r.args[4], r.args[5], r.args[6], r.args[7], r.args[8], r.args[9], r.args[10] >>
  <2>1. r.args = [i \in 1 .. 10 |-> r.args[i]]
    BY <1>2 DEF OfShape
  <2> QED
    BY <2>1, Tuple10
<1>4. CASE r.op = "StartDScreen"
  <2>1. Proxy(r) = ProxyStartDScreen(r.args)
    BY <1>4 DEF Proxy
  <2>2. Stub(ProxyStartDScreen(r.args)) = Runs("StartDScreen", << r.args[1], r.args[2], r.args[3], r.args[4], r.args[5], r.args[6], r.args[7], r.args[8], r.args[9], r.args[10] >>)
    BY ScreenMessage
  <2>3. Runs(r.op, r.args) = Runs("StartDScreen", << r.args[1], r.args[2], r.args[3], r.args[4], r.args[5], r.args[6], r.args[7], r.args[8], r.args[9], r.args[10] >>)
    BY <1>3, <1>4, Zenon
  <2>4. \A i \in DOMAIN Shape(r.op) : Shape(r.op)[i] \notin {"callback", "own", "dhIds"}
    BY <1>1
  <2>5. Runs(r.op, r.args) = Arrived(r)
    BY <1>2, <2>4, NoCallback
  <2> QED
    BY <2>1, <2>2, <2>3, <2>5, Zenon
<1> QED
  BY <1>4

\* Every message arrives: what the stub runs of the message of a proxy is the
\* request, without the empty dhIds, unless it refuses it.
THEOREM EveryMessageArrives ==
    ASSUME NEW r, OfShape(r)
    PROVE  Stub(Proxy(r)) = IF Dropped(r) THEN NoRequest ELSE AsSent(r)
<1>1. r.op \in Operations
  BY DEF OfShape
<1>2. CASE r.op \in {"Init", "Release", "UnregisterSessionState"}
  BY <1>2, EmptyArrives DEF Arrived
<1>3. CASE r.op \in {"SinkInit", "SinkRelease"}
  BY <1>3, SinkEmptyArrives DEF Arrived
<1>4. CASE r.op \in {"Register"}
  BY <1>4, RegisterArrives DEF Arrived
<1>5. CASE r.op \in {"Unregister"}
  BY <1>5, TwoDeviceUnregisterArrives DEF Arrived
<1>6. CASE r.op \in {"Prepare", "Unprepare"}
  BY <1>6, DeviceArrives DEF Arrived
<1>7. CASE r.op \in {"Start", "Stop"}
  BY <1>7, TypesArrives DEF Arrived
<1>8. CASE r.op \in {"PrepareRelay", "UnprepareRelay"}
  BY <1>8, TwoDeviceRelayArrives DEF Arrived
<1>9. CASE r.op \in {"StartRelay", "StopRelay"}
  BY <1>9, RelayTypesArrives DEF Arrived
<1>10. CASE r.op \in {"StartDhids", "StopDhids"}
  BY <1>10, ListArrives DEF Arrived
<1>11. CASE r.op \in {"StartRelayDhids", "StopRelayDhids"}
  BY <1>11, RelayListArrives DEF Arrived
<1>12. CASE r.op \in {"RegisterSimulation", "UnregisterSimulation", "RegisterSessionState"}
  BY <1>12, CallbackGivenArrives DEF Arrived
<1>13. CASE r.op \in {"AddWhiteList", "DelWhiteList"}
  BY <1>13, CallbackOwnArrives DEF Arrived
<1>14. CASE r.op \in {"Sharing", "SinkScreens"}
  BY <1>14, SinkCallbackArrives DEF Arrived
<1>15. CASE r.op \in {"StopDScreen"}
  BY <1>15, KeyArrives DEF Arrived
<1>16. CASE r.op \in {"StartDScreen"}
  BY <1>16, ScreenArrives DEF Arrived
<1> QED
  BY <1>1, <1>2, <1>3, <1>4, <1>5, <1>6, <1>7, <1>8, <1>9, <1>10, <1>11, <1>12, <1>13, <1>14, <1>15, <1>16 DEF Operations, OperationsOf

\* The lists a client is called with are lists of these.
SomeDhIds == {"", "h1", "h2", TooLong}

LEMMA UsualLists ==
    /\ Usual("dhIds") \in Seq(SomeDhIds)
    /\ \A v \in Unusual("dhIds") : v \in Seq(SomeDhIds)
<1>1. Usual("dhIds") = << "h1" >>
  BY DEF Usual
<1>2. Unusual("dhIds") = {<< >>, << "" >>, << "", "h2" >>, << TooLong >>,
                          [i \in 1 .. IPC_VECTOR_MAX_SIZE + 1 |-> "h1"]}
  BY DEF Unusual
<1>3. /\ << "h1" >> \in Seq(SomeDhIds) /\ << >> \in Seq(SomeDhIds) /\ << "" >> \in Seq(SomeDhIds)
      /\ << "", "h2" >> \in Seq(SomeDhIds) /\ << TooLong >> \in Seq(SomeDhIds)
  <2>1. "h1" \in SomeDhIds /\ "" \in SomeDhIds /\ "h2" \in SomeDhIds /\ TooLong \in SomeDhIds
    BY DEF SomeDhIds
  <2>2. ASSUME NEW T, NEW x \in T, NEW y \in T
        PROVE  << x >> \in Seq(T) /\ << x, y >> \in Seq(T) /\ << >> \in Seq(T)
    OBVIOUS
  <2>3. << "h1" >> \in Seq(SomeDhIds) /\ << >> \in Seq(SomeDhIds)
    BY <2>1, <2>2, Zenon
  <2>4. << "" >> \in Seq(SomeDhIds) /\ << "", "h2" >> \in Seq(SomeDhIds)
    BY <2>1, <2>2, Zenon
  <2>5. << TooLong >> \in Seq(SomeDhIds)
    BY <2>1, <2>2, Zenon
  <2> QED
    BY <2>3, <2>4, <2>5, Zenon
<1>4. [i \in 1 .. IPC_VECTOR_MAX_SIZE + 1 |-> "h1"] \in Seq(SomeDhIds)
  <2>1. IPC_VECTOR_MAX_SIZE + 1 \in Nat
    BY IpcAssumption
  <2>2. [i \in 1 .. IPC_VECTOR_MAX_SIZE + 1 |-> "h1"] \in [1 .. IPC_VECTOR_MAX_SIZE + 1 -> SomeDhIds]
    BY DEF SomeDhIds
  <2> QED
    BY <2>1, <2>2
<1> QED
  BY <1>1, <1>2, <1>3, <1>4

\* What a client is called with is a request of its operation.
LEMMA RequestsAreOfShape ==
    ASSUME NEW op \in Operations, NEW r \in RequestsOf(op)
    PROVE  OfShape(r) /\ r.op = op
<1> DEFINE S == Shape(op)
           usual == [i \in DOMAIN S |-> Usual(S[i])]
<1>1. PICK args : /\ r = Runs(op, args)
                  /\ \/ args = usual
                     \/ \E i \in DOMAIN S : \E v \in Unusual(S[i]) : args = [usual EXCEPT ![i] = v]
  BY DEF RequestsOf
<1>2. r.op = op /\ r.args = args
  BY <1>1 DEF Runs
<1>3. args = [i \in DOMAIN S |-> args[i]]
  BY <1>1
<1>4. ASSUME NEW i \in DOMAIN S, S[i] = "dhIds" PROVE args[i] \in Seq(SomeDhIds)
  <2>1. Usual(S[i]) \in Seq(SomeDhIds) /\ \A v \in Unusual(S[i]) : v \in Seq(SomeDhIds)
    BY <1>4, UsualLists
  <2>2. CASE args = usual
    BY <2>1, <2>2
  <2>3. ASSUME NEW j \in DOMAIN S, NEW v \in Unusual(S[j]), args = [usual EXCEPT ![j] = v]
        PROVE  args[i] \in Seq(SomeDhIds)
    <3>1. CASE i = j
      <4>1. args[i] = v
        BY <2>3, <3>1
      <4> QED
        BY <2>1, <3>1, <4>1
    <3>2. CASE i # j
      <4>1. args[i] = Usual(S[i])
        BY <2>3, <3>2
      <4> QED
        BY <2>1, <4>1
    <3> QED
      BY <3>1, <3>2
  <2> QED
    BY <1>1, <2>2, <2>3
<1> QED
  BY <1>1, <1>2, <1>3, <1>4 DEF OfShape

(***************************************************************************)
(* What a callback hears.                                                  *)
(***************************************************************************)
LEMMA Heard3 ==
    ASSUME NEW a
    PROVE  /\ CallbackStub(ProxyOnRegister(a)) = Runs("OnRegister", << a[1], a[2], a[3] >>)
           /\ CallbackStub(ProxyOnUnregister(a)) = Runs("OnUnregister", << a[1], a[2], a[3] >>)
           /\ CallbackStub(ProxyOnStart(a)) = Runs("OnStart", << a[1], a[2], a[3] >>)
           /\ CallbackStub(ProxyOnStop(a)) = Runs("OnStop", << a[1], a[2], a[3] >>)
           /\ CallbackStub(ProxyOnSimulation(a)) = Runs("OnSimulation", << a[1], a[2], a[3] >>)
<1>1. CallbackStub(ProxyOnRegister(a)) = Runs("OnRegister", << a[1], a[2], a[3] >>)
  BY TwoStringsInt DEF ProxyOnRegister, StubOnRegister, CallbackStub, Message
<1>2. CallbackStub(ProxyOnUnregister(a)) = Runs("OnUnregister", << a[1], a[2], a[3] >>)
  BY TwoStringsInt DEF ProxyOnUnregister, StubOnUnregister, CallbackStub, Message
<1>3. CallbackStub(ProxyOnStart(a)) = Runs("OnStart", << a[1], a[2], a[3] >>)
  BY StringUintInt DEF ProxyOnStart, StubOnStart, CallbackStub, Message
<1>4. CallbackStub(ProxyOnStop(a)) = Runs("OnStop", << a[1], a[2], a[3] >>)
  BY StringUintInt DEF ProxyOnStop, StubOnStop, CallbackStub, Message
<1>5. CallbackStub(ProxyOnSimulation(a)) = Runs("OnSimulation", << a[1], a[2], a[3] >>)
  BY TwoUintsInt DEF ProxyOnSimulation, StubOnSimulation, CallbackStub, Message
<1> QED
  BY <1>1, <1>2, <1>3, <1>4, <1>5

LEMMA Heard2 ==
    ASSUME NEW a
    PROVE  /\ CallbackStub(ProxyOnPrepare(a)) = Runs("OnPrepare", << a[1], a[2] >>)
           /\ CallbackStub(ProxyOnUnprepare(a)) = Runs("OnUnprepare", << a[1], a[2] >>)
           /\ CallbackStub(ProxyOnDhids(a)) = Runs("OnDhids", << a[1], a[2] >>)
           /\ CallbackStub(ProxyOnAddWhiteList(a)) = Runs("OnAddWhiteList", << a[1], a[2] >>)
           /\ CallbackStub(ProxyOnSessionState(a)) = Runs("OnSessionState", << a[1], a[2] >>)
<1>1. CallbackStub(ProxyOnPrepare(a)) = Runs("OnPrepare", << a[1], a[2] >>)
  BY StringInt DEF ProxyOnPrepare, StubOnPrepare, CallbackStub, Message
<1>2. CallbackStub(ProxyOnUnprepare(a)) = Runs("OnUnprepare", << a[1], a[2] >>)
  BY StringInt DEF ProxyOnUnprepare, StubOnUnprepare, CallbackStub, Message
<1>3. CallbackStub(ProxyOnDhids(a)) = Runs("OnDhids", << a[1], a[2] >>)
  BY StringInt DEF ProxyOnDhids, StubOnDhids, CallbackStub, Message
<1>4. CallbackStub(ProxyOnAddWhiteList(a)) = Runs("OnAddWhiteList", << a[1], a[2] >>)
  BY TwoStrings DEF ProxyOnAddWhiteList, StubOnAddWhiteList, CallbackStub, Message
<1>5. CallbackStub(ProxyOnSessionState(a)) = Runs("OnSessionState", << a[1], a[2] >>)
  BY StringUint DEF ProxyOnSessionState, StubOnSessionState, CallbackStub, Message
<1> QED
  BY <1>1, <1>2, <1>3, <1>4, <1>5

LEMMA Heard1 ==
    ASSUME NEW a
    PROVE  /\ CallbackStub(ProxyOnDelWhiteList(a)) = Runs("OnDelWhiteList", << a[1] >>)
           /\ CallbackStub(ProxyOnSinkScreens(a)) = Runs("OnSinkScreens", << a[1] >>)
           /\ CallbackStub(ProxyOnSharing(a)) = Runs("OnSharing", << a[1] >>)
           /\ CallbackStub(ProxyOnNoSharing(a)) = Runs("OnNoSharing", << a[1] >>)
<1>1. CallbackStub(ProxyOnDelWhiteList(a)) = Runs("OnDelWhiteList", << a[1] >>)
  BY OneString DEF ProxyOnDelWhiteList, StubOnDelWhiteList, CallbackStub, Message
<1>2. CallbackStub(ProxyOnSinkScreens(a)) = Runs("OnSinkScreens", << a[1] >>)
  BY OneString DEF ProxyOnSinkScreens, StubOnSinkScreens, CallbackStub, Message
<1>3. CallbackStub(ProxyOnSharing(a)) = Runs("OnSharing", << a[1] >>)
  BY OneString DEF ProxyOnSharing, StubOnSharing, CallbackStub, Message
<1>4. CallbackStub(ProxyOnNoSharing(a)) = Runs("OnNoSharing", << a[1] >>)
  BY OneString DEF ProxyOnNoSharing, StubOnSharing, CallbackStub, Message
<1> QED
  BY <1>1, <1>2, <1>3, <1>4

AnswerShape(x) ==
    \/ x.op \in {"OnRegister", "OnUnregister", "OnStart", "OnStop", "OnSimulation"} /\ x = Runs(x.op, << x.args[1], x.args[2], x.args[3] >>)
    \/ x.op \in {"OnPrepare", "OnUnprepare", "OnDhids", "OnAddWhiteList", "OnSessionState"} /\ x = Runs(x.op, << x.args[1], x.args[2] >>)
    \/ x.op \in {"OnDelWhiteList", "OnSinkScreens", "OnSharing", "OnNoSharing"} /\ x = Runs(x.op, << x.args[1] >>)

LEMMA ShapeOfRun ==
    ASSUME NEW u, NEW v, NEW s
    PROVE  /\ \A op \in {"OnRegister", "OnUnregister", "OnStart", "OnStop", "OnSimulation"} : AnswerShape(Runs(op, << u, v, s >>))
           /\ \A op \in {"OnPrepare", "OnUnprepare", "OnDhids", "OnAddWhiteList", "OnSessionState"} : AnswerShape(Runs(op, << u, s >>))
           /\ \A op \in {"OnDelWhiteList", "OnSinkScreens", "OnSharing", "OnNoSharing"} : AnswerShape(Runs(op, << s >>))
<1>1. ASSUME NEW op \in {"OnRegister", "OnUnregister", "OnStart", "OnStop", "OnSimulation"} PROVE AnswerShape(Runs(op, << u, v, s >>))
  <2> DEFINE x == Runs(op, << u, v, s >>)
  <2>1. x.op = op /\ x.args = << u, v, s >>
    BY DEF Runs
  <2>2. x.args[1] = u /\ x.args[2] = v /\ x.args[3] = s
    BY <2>1
  <2>3. x = Runs(x.op, << x.args[1], x.args[2], x.args[3] >>)
    BY <2>1, <2>2, Zenon
  <2> QED
    BY <2>1, <2>3 DEF AnswerShape
<1>2. ASSUME NEW op \in {"OnPrepare", "OnUnprepare", "OnDhids", "OnAddWhiteList", "OnSessionState"} PROVE AnswerShape(Runs(op, << u, s >>))
  <2> DEFINE x == Runs(op, << u, s >>)
  <2>1. x.op = op /\ x.args = << u, s >>
    BY DEF Runs
  <2>2. x.args[1] = u /\ x.args[2] = s
    BY <2>1
  <2>3. x = Runs(x.op, << x.args[1], x.args[2] >>)
    BY <2>1, <2>2, Zenon
  <2> QED
    BY <2>1, <2>3 DEF AnswerShape
<1>3. ASSUME NEW op \in {"OnDelWhiteList", "OnSinkScreens", "OnSharing", "OnNoSharing"} PROVE AnswerShape(Runs(op, << s >>))
  <2> DEFINE x == Runs(op, << s >>)
  <2>1. x.op = op /\ x.args = << s >>
    BY DEF Runs
  <2>2. x.args[1] = s
    BY <2>1
  <2>3. x = Runs(x.op, << x.args[1] >>)
    BY <2>1, <2>2, Zenon
  <2> QED
    BY <2>1, <2>3 DEF AnswerShape
<1> QED
  BY <1>1, <1>2, <1>3

LEMMA AnswersHaveShape ==
    ASSUME NEW r, NEW x \in AnswersTo(r)
    PROVE  AnswerShape(x)
<1>1. CASE r.op = "Register"
  <2>1. PICK s : x = Runs("OnRegister", << r.args[1], r.args[2], s >>)
    BY <1>1 DEF AnswersTo
  <2>2. AnswerShape(Runs("OnRegister", << r.args[1], r.args[2], s >>))
    BY ShapeOfRun
  <2> QED
    BY <2>1, <2>2, Zenon
<1>2. CASE r.op = "Unregister"
  <2>1. PICK s : x = Runs("OnUnregister", << r.args[1], r.args[2], s >>)
    BY <1>2 DEF AnswersTo
  <2>2. AnswerShape(Runs("OnUnregister", << r.args[1], r.args[2], s >>))
    BY ShapeOfRun
  <2> QED
    BY <2>1, <2>2, Zenon
<1>3. CASE r.op = "Prepare"
  <2>1. PICK s : x = Runs("OnPrepare", << r.args[1], s >>)
    BY <1>3 DEF AnswersTo
  <2>2. AnswerShape(Runs("OnPrepare", << r.args[1], s >>))
    BY ShapeOfRun
  <2> QED
    BY <2>1, <2>2, Zenon
<1>4. CASE r.op = "Unprepare"
  <2>1. PICK s : x = Runs("OnUnprepare", << r.args[1], s >>)
    BY <1>4 DEF AnswersTo
  <2>2. AnswerShape(Runs("OnUnprepare", << r.args[1], s >>))
    BY ShapeOfRun
  <2> QED
    BY <2>1, <2>2, Zenon
<1>5. CASE r.op = "Start"
  <2>1. PICK s : x = Runs("OnStart", << r.args[1], r.args[2], s >>)
    BY <1>5 DEF AnswersTo
  <2>2. AnswerShape(Runs("OnStart", << r.args[1], r.args[2], s >>))
    BY ShapeOfRun
  <2> QED
    BY <2>1, <2>2, Zenon
<1>6. CASE r.op = "Stop"
  <2>1. PICK s : x = Runs("OnStop", << r.args[1], r.args[2], s >>)
    BY <1>6 DEF AnswersTo
  <2>2. AnswerShape(Runs("OnStop", << r.args[1], r.args[2], s >>))
    BY ShapeOfRun
  <2> QED
    BY <2>1, <2>2, Zenon
<1>7. CASE r.op = "PrepareRelay"
  <2>1. PICK s : x = Runs("OnPrepare", << r.args[2], s >>)
    BY <1>7 DEF AnswersTo
  <2>2. AnswerShape(Runs("OnPrepare", << r.args[2], s >>))
    BY ShapeOfRun
  <2> QED
    BY <2>1, <2>2, Zenon
<1>8. CASE r.op = "UnprepareRelay"
  <2>1. PICK s : x = Runs("OnUnprepare", << r.args[2], s >>)
    BY <1>8 DEF AnswersTo
  <2>2. AnswerShape(Runs("OnUnprepare", << r.args[2], s >>))
    BY ShapeOfRun
  <2> QED
    BY <2>1, <2>2, Zenon
<1>9. CASE r.op = "StartRelay"
  <2>1. PICK s : x = Runs("OnStart", << r.args[2], r.args[3], s >>)
    BY <1>9 DEF AnswersTo
  <2>2. AnswerShape(Runs("OnStart", << r.args[2], r.args[3], s >>))
    BY ShapeOfRun
  <2> QED
    BY <2>1, <2>2, Zenon
<1>10. CASE r.op = "StopRelay"
  <2>1. PICK s : x = Runs("OnStop", << r.args[2], r.args[3], s >>)
    BY <1>10 DEF AnswersTo
  <2>2. AnswerShape(Runs("OnStop", << r.args[2], r.args[3], s >>))
    BY ShapeOfRun
  <2> QED
    BY <2>1, <2>2, Zenon
<1>11. CASE r.op = "StartDhids"
  <2>1. PICK s : x = Runs("OnDhids", << r.args[1], s >>)
    BY <1>11 DEF AnswersTo
  <2>2. AnswerShape(Runs("OnDhids", << r.args[1], s >>))
    BY ShapeOfRun
  <2> QED
    BY <2>1, <2>2, Zenon
<1>12. CASE r.op = "StopDhids"
  <2>1. PICK s : x = Runs("OnDhids", << r.args[1], s >>)
    BY <1>12 DEF AnswersTo
  <2>2. AnswerShape(Runs("OnDhids", << r.args[1], s >>))
    BY ShapeOfRun
  <2> QED
    BY <2>1, <2>2, Zenon
<1>13. CASE r.op = "StartRelayDhids"
  <2>1. PICK s : x = Runs("OnDhids", << r.args[2], s >>)
    BY <1>13 DEF AnswersTo
  <2>2. AnswerShape(Runs("OnDhids", << r.args[2], s >>))
    BY ShapeOfRun
  <2> QED
    BY <2>1, <2>2, Zenon
<1>14. CASE r.op = "StopRelayDhids"
  <2>1. PICK s : x = Runs("OnDhids", << r.args[2], s >>)
    BY <1>14 DEF AnswersTo
  <2>2. AnswerShape(Runs("OnDhids", << r.args[2], s >>))
    BY ShapeOfRun
  <2> QED
    BY <2>1, <2>2, Zenon
<1>15. CASE r.op = "AddWhiteList"
  <2>1. x = Runs("OnAddWhiteList", << "sink", "keys" >>)
    BY <1>15 DEF AnswersTo
  <2>2. AnswerShape(Runs("OnAddWhiteList", << "sink", "keys" >>))
    BY ShapeOfRun
  <2> QED
    BY <2>1, <2>2, Zenon
<1>16. CASE r.op = "DelWhiteList"
  <2>1. x = Runs("OnDelWhiteList", << "sink" >>)
    BY <1>16 DEF AnswersTo
  <2>2. AnswerShape(Runs("OnDelWhiteList", << "sink" >>))
    BY ShapeOfRun
  <2> QED
    BY <2>1, <2>2, Zenon
<1>17. CASE r.op = "RegisterSimulation"
  <2>1. PICK s : x = Runs("OnSimulation", << 1, 30, s >>)
    BY <1>17 DEF AnswersTo
  <2>2. AnswerShape(Runs("OnSimulation", << 1, 30, s >>))
    BY ShapeOfRun
  <2> QED
    BY <2>1, <2>2, Zenon
<1>18. CASE r.op = "RegisterSessionState"
  <2>1. PICK s : x = Runs("OnSessionState", << "sink", s >>)
    BY <1>18 DEF AnswersTo
  <2>2. AnswerShape(Runs("OnSessionState", << "sink", s >>))
    BY ShapeOfRun
  <2> QED
    BY <2>1, <2>2, Zenon
<1>19. CASE r.op = "SinkScreens"
  <2>1. x = Runs("OnSinkScreens", << "screens" >>)
    BY <1>19 DEF AnswersTo
  <2>2. AnswerShape(Runs("OnSinkScreens", << "screens" >>))
    BY ShapeOfRun
  <2> QED
    BY <2>1, <2>2, Zenon
<1>20. CASE r.op = "Sharing"
  <2>1. x = Runs("OnSharing", << "h1" >>) \/ x = Runs("OnNoSharing", << "h1" >>)
    BY <1>20 DEF AnswersTo
  <2>2. AnswerShape(Runs("OnSharing", << "h1" >>)) /\ AnswerShape(Runs("OnNoSharing", << "h1" >>))
    BY ShapeOfRun
  <2> QED
    BY <2>1, <2>2, Zenon
<1>21. r.op \in {"Register", "Unregister", "Prepare", "Unprepare", "Start", "Stop", "PrepareRelay", "UnprepareRelay", "StartRelay", "StopRelay", "StartDhids", "StopDhids", "StartRelayDhids", "StopRelayDhids", "AddWhiteList", "DelWhiteList", "RegisterSimulation", "RegisterSessionState", "SinkScreens", "Sharing"}
  BY DEF AnswersTo
<1> QED
  BY <1>1, <1>2, <1>3, <1>4, <1>5, <1>6, <1>7, <1>8, <1>9, <1>10, <1>11, <1>12, <1>13, <1>14, <1>15, <1>16, <1>17, <1>18, <1>19, <1>20, <1>21

\* Every answer arrives: the callback of a client hears what the service told it.
THEOREM EveryAnswerArrives ==
    ASSUME NEW r, NEW x \in AnswersTo(r)
    PROVE  CallbackStub(CallbackProxy(x)) = x
<1>1. AnswerShape(x)
  BY AnswersHaveShape
<1>2. CASE x.op = "OnRegister" /\ x = Runs(x.op, << x.args[1], x.args[2], x.args[3] >>)
  <2>1. CallbackProxy(x) = ProxyOnRegister(x.args)
    BY <1>2 DEF CallbackProxy
  <2>2. CallbackStub(ProxyOnRegister(x.args)) = Runs("OnRegister", << x.args[1], x.args[2], x.args[3] >>)
    BY Heard3
  <2> QED
    BY <1>2, <2>1, <2>2, Zenon
<1>3. CASE x.op = "OnUnregister" /\ x = Runs(x.op, << x.args[1], x.args[2], x.args[3] >>)
  <2>1. CallbackProxy(x) = ProxyOnUnregister(x.args)
    BY <1>3 DEF CallbackProxy
  <2>2. CallbackStub(ProxyOnUnregister(x.args)) = Runs("OnUnregister", << x.args[1], x.args[2], x.args[3] >>)
    BY Heard3
  <2> QED
    BY <1>3, <2>1, <2>2, Zenon
<1>4. CASE x.op = "OnStart" /\ x = Runs(x.op, << x.args[1], x.args[2], x.args[3] >>)
  <2>1. CallbackProxy(x) = ProxyOnStart(x.args)
    BY <1>4 DEF CallbackProxy
  <2>2. CallbackStub(ProxyOnStart(x.args)) = Runs("OnStart", << x.args[1], x.args[2], x.args[3] >>)
    BY Heard3
  <2> QED
    BY <1>4, <2>1, <2>2, Zenon
<1>5. CASE x.op = "OnStop" /\ x = Runs(x.op, << x.args[1], x.args[2], x.args[3] >>)
  <2>1. CallbackProxy(x) = ProxyOnStop(x.args)
    BY <1>5 DEF CallbackProxy
  <2>2. CallbackStub(ProxyOnStop(x.args)) = Runs("OnStop", << x.args[1], x.args[2], x.args[3] >>)
    BY Heard3
  <2> QED
    BY <1>5, <2>1, <2>2, Zenon
<1>6. CASE x.op = "OnSimulation" /\ x = Runs(x.op, << x.args[1], x.args[2], x.args[3] >>)
  <2>1. CallbackProxy(x) = ProxyOnSimulation(x.args)
    BY <1>6 DEF CallbackProxy
  <2>2. CallbackStub(ProxyOnSimulation(x.args)) = Runs("OnSimulation", << x.args[1], x.args[2], x.args[3] >>)
    BY Heard3
  <2> QED
    BY <1>6, <2>1, <2>2, Zenon
<1>7. CASE x.op = "OnPrepare" /\ x = Runs(x.op, << x.args[1], x.args[2] >>)
  <2>1. CallbackProxy(x) = ProxyOnPrepare(x.args)
    BY <1>7 DEF CallbackProxy
  <2>2. CallbackStub(ProxyOnPrepare(x.args)) = Runs("OnPrepare", << x.args[1], x.args[2] >>)
    BY Heard2
  <2> QED
    BY <1>7, <2>1, <2>2, Zenon
<1>8. CASE x.op = "OnUnprepare" /\ x = Runs(x.op, << x.args[1], x.args[2] >>)
  <2>1. CallbackProxy(x) = ProxyOnUnprepare(x.args)
    BY <1>8 DEF CallbackProxy
  <2>2. CallbackStub(ProxyOnUnprepare(x.args)) = Runs("OnUnprepare", << x.args[1], x.args[2] >>)
    BY Heard2
  <2> QED
    BY <1>8, <2>1, <2>2, Zenon
<1>9. CASE x.op = "OnDhids" /\ x = Runs(x.op, << x.args[1], x.args[2] >>)
  <2>1. CallbackProxy(x) = ProxyOnDhids(x.args)
    BY <1>9 DEF CallbackProxy
  <2>2. CallbackStub(ProxyOnDhids(x.args)) = Runs("OnDhids", << x.args[1], x.args[2] >>)
    BY Heard2
  <2> QED
    BY <1>9, <2>1, <2>2, Zenon
<1>10. CASE x.op = "OnAddWhiteList" /\ x = Runs(x.op, << x.args[1], x.args[2] >>)
  <2>1. CallbackProxy(x) = ProxyOnAddWhiteList(x.args)
    BY <1>10 DEF CallbackProxy
  <2>2. CallbackStub(ProxyOnAddWhiteList(x.args)) = Runs("OnAddWhiteList", << x.args[1], x.args[2] >>)
    BY Heard2
  <2> QED
    BY <1>10, <2>1, <2>2, Zenon
<1>11. CASE x.op = "OnSessionState" /\ x = Runs(x.op, << x.args[1], x.args[2] >>)
  <2>1. CallbackProxy(x) = ProxyOnSessionState(x.args)
    BY <1>11 DEF CallbackProxy
  <2>2. CallbackStub(ProxyOnSessionState(x.args)) = Runs("OnSessionState", << x.args[1], x.args[2] >>)
    BY Heard2
  <2> QED
    BY <1>11, <2>1, <2>2, Zenon
<1>12. CASE x.op = "OnDelWhiteList" /\ x = Runs(x.op, << x.args[1] >>)
  <2>1. CallbackProxy(x) = ProxyOnDelWhiteList(x.args)
    BY <1>12 DEF CallbackProxy
  <2>2. CallbackStub(ProxyOnDelWhiteList(x.args)) = Runs("OnDelWhiteList", << x.args[1] >>)
    BY Heard1
  <2> QED
    BY <1>12, <2>1, <2>2, Zenon
<1>13. CASE x.op = "OnSinkScreens" /\ x = Runs(x.op, << x.args[1] >>)
  <2>1. CallbackProxy(x) = ProxyOnSinkScreens(x.args)
    BY <1>13 DEF CallbackProxy
  <2>2. CallbackStub(ProxyOnSinkScreens(x.args)) = Runs("OnSinkScreens", << x.args[1] >>)
    BY Heard1
  <2> QED
    BY <1>13, <2>1, <2>2, Zenon
<1>14. CASE x.op = "OnSharing" /\ x = Runs(x.op, << x.args[1] >>)
  <2>1. CallbackProxy(x) = ProxyOnSharing(x.args)
    BY <1>14 DEF CallbackProxy
  <2>2. CallbackStub(ProxyOnSharing(x.args)) = Runs("OnSharing", << x.args[1] >>)
    BY Heard1
  <2> QED
    BY <1>14, <2>1, <2>2, Zenon
<1>15. CASE x.op = "OnNoSharing" /\ x = Runs(x.op, << x.args[1] >>)
  <2>1. CallbackProxy(x) = ProxyOnNoSharing(x.args)
    BY <1>15 DEF CallbackProxy
  <2>2. CallbackStub(ProxyOnNoSharing(x.args)) = Runs("OnNoSharing", << x.args[1] >>)
    BY Heard1
  <2> QED
    BY <1>15, <2>1, <2>2, Zenon
<1> QED
  BY <1>1, <1>2, <1>3, <1>4, <1>5, <1>6, <1>7, <1>8, <1>9, <1>10, <1>11, <1>12, <1>13, <1>14, <1>15 DEF AnswerShape

\* What a request is answered does not depend on the lists of dhIds.
LEMMA AnswersToTheSent ==
    ASSUME NEW r, OfShape(r)
    PROVE  AnswersTo(AsSent(r)) = AnswersTo(r)
<1>1. CASE \A i \in DOMAIN Shape(r.op) : Shape(r.op)[i] # "dhIds"
  <2>1. AsSent(r) = r
    BY <1>1, NothingLeftOut
  <2> QED
    BY <2>1, Zenon
<1>2. AsSent(r).op = r.op
  BY DEF AsSent, Runs
<1>3. \A i \in DOMAIN Shape(r.op) : Shape(r.op)[i] # "dhIds" => AsSent(r).args[i] = r.args[i]
  <2>1. DOMAIN r.args = DOMAIN Shape(r.op)
    BY DEF OfShape
  <2>2. AsSent(r).args = [i \in DOMAIN r.args |-> Kept(Shape(r.op)[i], r.args[i])]
    BY DEF AsSent, Runs
  <2> QED
    BY <2>1, <2>2 DEF Kept
<1>4. CASE r.op \in {"StartDhids", "StopDhids"}
  <2>1. Shape(r.op) = << "sink", "dhIds", "callback" >>
    BY <1>4 DEF Shape
  <2>2. AsSent(r).args[1] = r.args[1]
    BY <1>3, <2>1
  <2>3. AnswersTo(r) = {Runs("OnDhids", << r.args[1], s >>) : s \in Statuses}
    BY <1>4 DEF AnswersTo
  <2>4. AnswersTo(AsSent(r)) = {Runs("OnDhids", << AsSent(r).args[1], s >>) : s \in Statuses}
    <3> DEFINE q == AsSent(r)
    <3>1. q.op \in {"StartDhids", "StopDhids"}
      BY <1>2, <1>4
    <3> HIDE DEF q
    <3>2. AnswersTo(q) = {Runs("OnDhids", << q.args[1], s >>) : s \in Statuses}
      BY <3>1 DEF AnswersTo
    <3> QED
      BY <3>2 DEF q
  <2> QED
    BY <2>2, <2>3, <2>4, Zenon
<1>5. CASE r.op \in {"StartRelayDhids", "StopRelayDhids"}
  <2>1. Shape(r.op) = << "src", "sink", "dhIds", "callback" >>
    BY <1>5 DEF Shape
  <2>2. AsSent(r).args[2] = r.args[2]
    BY <1>3, <2>1
  <2>3. AnswersTo(r) = {Runs("OnDhids", << r.args[2], s >>) : s \in Statuses}
    BY <1>5 DEF AnswersTo
  <2>4. AnswersTo(AsSent(r)) = {Runs("OnDhids", << AsSent(r).args[2], s >>) : s \in Statuses}
    <3> DEFINE q == AsSent(r)
    <3>1. q.op \in {"StartRelayDhids", "StopRelayDhids"}
      BY <1>2, <1>5
    <3> HIDE DEF q
    <3>2. AnswersTo(q) = {Runs("OnDhids", << q.args[2], s >>) : s \in Statuses}
      BY <3>1 DEF AnswersTo
    <3> QED
      BY <3>2 DEF q
  <2> QED
    BY <2>2, <2>3, <2>4, Zenon
<1>6. CASE r.op \notin {"StartDhids", "StopDhids", "StartRelayDhids", "StopRelayDhids"}
  <2>1. \A i \in DOMAIN Shape(r.op) : Shape(r.op)[i] # "dhIds"
    BY <1>6 DEF Shape
  <2> QED
    BY <1>1, <2>1
<1> QED
  BY <1>4, <1>5, <1>6

(***************************************************************************)
(* The invariant: of each slot what its phase says of what was run.        *)
(***************************************************************************)
\* A slot by its fields, and what a change of some of them makes of it.
Slot(at, req, ran, done, outcome) ==
    [at |-> at, req |-> req, ran |-> ran, done |-> done, outcome |-> outcome]

LEMMA AtChanged ==
    ASSUME NEW s, s = Slot(s.at, s.req, s.ran, s.done, s.outcome), NEW x
    PROVE  [s EXCEPT !.at = x] = Slot(x, s.req, s.ran, s.done, s.outcome)
  BY DEF Slot

IsCalled(t, s, r, x, w)     == t = [s EXCEPT !.req = r, !.at = x, !.outcome = w]
IsCalling(t, s, x, y, z)    == t = [s EXCEPT !.at = x, !.ran = y, !.done = z]
IsReplied(t, s, x, y, z, w) == t = [s EXCEPT !.at = x, !.ran = y, !.done = z, !.outcome = w]

LEMMA CallingFields ==
    ASSUME NEW s, s = Slot(s.at, s.req, s.ran, s.done, s.outcome),
           NEW t, NEW x, NEW y, NEW z, IsCalling(t, s, x, y, z)
    PROVE  t = Slot(x, s.req, y, z, s.outcome)
<1>1. PICK a, b, c, d, e : s = Slot(a, b, c, d, e)
  OBVIOUS
<1>2. s.req = b /\ s.outcome = e
  BY <1>1 DEF Slot
<1>3. PICK s1 : s1 = [s EXCEPT !.at = x]
  OBVIOUS
<1>4. s1 = Slot(x, b, c, d, e)
  BY <1>1, <1>3 DEF Slot
<1>5. PICK s2 : s2 = [s1 EXCEPT !.ran = y]
  OBVIOUS
<1>6. s2 = Slot(x, b, y, d, e)
  BY <1>4, <1>5 DEF Slot
<1>7. [s2 EXCEPT !.done = z] = Slot(x, b, y, z, e)
  BY <1>6 DEF Slot
<1> QED
  BY <1>2, <1>3, <1>5, <1>7, Zenon DEF IsCalling

LEMMA RepliedFields ==
    ASSUME NEW s, s = Slot(s.at, s.req, s.ran, s.done, s.outcome),
           NEW t, NEW x, NEW y, NEW z, NEW w, IsReplied(t, s, x, y, z, w)
    PROVE  t = Slot(x, s.req, y, z, w)
<1>1. PICK u : u = [s EXCEPT !.at = x, !.ran = y, !.done = z]
  OBVIOUS
<1>2. IsCalling(u, s, x, y, z)
  BY <1>1, Zenon DEF IsCalling
<1>3. u = Slot(x, s.req, y, z, s.outcome)
  BY <1>2, CallingFields
<1>4. [u EXCEPT !.outcome = w] = Slot(x, s.req, y, z, w)
  BY <1>3 DEF Slot
<1> QED
  BY <1>1, <1>4, Zenon DEF IsReplied

LEMMA CalledFields ==
    ASSUME NEW s, s = Slot(s.at, s.req, s.ran, s.done, s.outcome),
           NEW t, NEW r, NEW x, NEW w, IsCalled(t, s, r, x, w)
    PROVE  t = Slot(x, r, s.ran, s.done, w)
<1>1. PICK a, b, c, d, e : s = Slot(a, b, c, d, e)
  OBVIOUS
<1>2. s.ran = c /\ s.done = d
  BY <1>1 DEF Slot
<1>3. PICK s1 : s1 = [s EXCEPT !.req = r]
  OBVIOUS
<1>4. s1 = Slot(a, r, c, d, e)
  BY <1>1, <1>3 DEF Slot
<1>5. PICK s2 : s2 = [s1 EXCEPT !.at = x]
  OBVIOUS
<1>6. s2 = Slot(x, r, c, d, e)
  BY <1>4, <1>5 DEF Slot
<1>7. [s2 EXCEPT !.outcome = w] = Slot(x, r, c, d, w)
  BY <1>6 DEF Slot
<1> QED
  BY <1>2, <1>3, <1>5, <1>7, Zenon DEF IsCalled

Outcomes == {"none", "success", "failure", "silent", "error", "refused"}

SlotType(s) ==
    /\ s = Slot(s.at, s.req, s.ran, s.done, s.outcome)
    /\ s.at \in Phases /\ s.done \in BOOLEAN /\ s.outcome \in Outcomes

\* A slot is as it was, or holds a request of its process; what was run for it is
\* that request as it was sent; it is done only if it was run, and told to be done
\* only if it is.
SlotInv(c, s) ==
    /\ SlotType(s)
    /\ s.at = "idle" => s = Idle
    /\ s.at # "idle" => s.req.op \in OperationsOf(c) /\ OfShape(s.req)
    /\ s.ran # NoRequest => s.at # "idle" /\ s.ran = AsSent(s.req)
    /\ s.at \in {"sent", "calling"} => s.outcome = "none"
    /\ s.at = "sent" => s.ran = NoRequest
    /\ s.at = "calling" => s.ran # NoRequest
    /\ s.done => s.ran # NoRequest
    /\ Told(s.outcome) /\ s.req.op # "Init" => s.done

SlotsInv == slot = [c \in Callers |-> slot[c]] /\ \A c \in Callers : SlotInv(c, slot[c])

FlagsInv ==
    /\ running \in BOOLEAN /\ sourceManagerInitFlag \in BOOLEAN /\ serverOpened \in BOOLEAN
    /\ exits \in 0 .. MaxExits

IpcInv == SlotsInv /\ AnswerFits /\ FlagsInv

LEMMA CallersOperations ==
    ASSUME NEW c \in Callers, NEW op \in OperationsOf(c)
    PROVE  op \in Operations
  BY DEF Callers, Operations, OperationsOf

LEMMA IdleSlot == ASSUME NEW c PROVE SlotInv(c, Idle)
<1>1. /\ Idle.at = "idle" /\ Idle.req = NoRequest /\ Idle.ran = NoRequest
      /\ Idle.done = FALSE /\ Idle.outcome = "none"
  BY DEF Idle
<1>2. Idle = Slot(Idle.at, Idle.req, Idle.ran, Idle.done, Idle.outcome)
  BY DEF Idle, Slot
<1>3. SlotType(Idle)
  BY <1>1, <1>2 DEF SlotType, Phases, Outcomes
<1> QED
  BY <1>1, <1>3 DEF SlotInv, Told

LEMMA InitIpcInv == IpcInit => IpcInv
<1> SUFFICES ASSUME IpcInit PROVE IpcInv
  OBVIOUS
<1>1. SlotsInv
  BY IdleSlot DEF IpcInit, SlotsInv
<1>2. AnswerFits
  BY DEF IpcInit, AnswerFits
<1>3. FlagsInv
  <2>1. 0 \in 0 .. MaxExits
    BY IpcAssumption
  <2> QED
    BY <2>1, Zenon DEF IpcInit, FlagsInv
<1> QED
  BY <1>1, <1>2, <1>3 DEF IpcInv

\* One slot changes.
LEMMA OneSlot ==
    ASSUME SlotsInv, NEW c \in Callers, NEW s, slot' = [slot EXCEPT ![c] = s], SlotInv(c, s)
    PROVE  SlotsInv'
<1>1. slot' = [d \in Callers |-> slot'[d]]
  BY DEF SlotsInv
<1>2. ASSUME NEW d \in Callers PROVE SlotInv(d, slot'[d])
  <2>1. slot'[d] = IF d = c THEN s ELSE slot[d]
    BY DEF SlotsInv
  <2> QED
    BY <2>1 DEF SlotsInv
<1> QED
  BY <1>1, <1>2 DEF SlotsInv

\* A reply changes a slot of which the request stays.
LEMMA RepliedSlot ==
    ASSUME SlotsInv, NEW c \in Callers, slot[c].at # "idle", NEW ran, NEW ok \in BOOLEAN, NEW outcome \in Outcomes,
           Replied(c, ran, ok, outcome),
           ran # NoRequest => ran = AsSent(slot[c].req), ok => ran # NoRequest,
           Told(outcome) /\ slot[c].req.op # "Init" => ok
    PROVE  SlotsInv'
<1> DEFINE q == slot[c].req
           s == Slot("replied", q, ran, ok, outcome)
<1>1. SlotInv(c, slot[c]) /\ slot = [d \in Callers |-> slot[d]]
  BY DEF SlotsInv
<1>2. slot[c] = Slot(slot[c].at, slot[c].req, slot[c].ran, slot[c].done, slot[c].outcome)
  BY <1>1 DEF SlotInv, SlotType
<1>3. q.op \in OperationsOf(c) /\ OfShape(q)
  BY <1>1 DEF SlotInv
<1> HIDE DEF q
<1>4. slot' = [slot EXCEPT ![c] = s]
  <2>1. slot' = [slot EXCEPT ![c] = [slot[c] EXCEPT !.at = "replied", !.ran = ran, !.done = ok, !.outcome = outcome]]
    BY Zenon DEF Replied
  <2>2. [slot[c] EXCEPT !.at = "replied", !.ran = ran, !.done = ok, !.outcome = outcome] = s
    <3>1. PICK t : t = [slot[c] EXCEPT !.at = "replied", !.ran = ran, !.done = ok, !.outcome = outcome]
      OBVIOUS
    <3>2. IsReplied(t, slot[c], "replied", ran, ok, outcome)
      BY <3>1, Zenon DEF IsReplied
    <3>3. t = Slot("replied", slot[c].req, ran, ok, outcome)
      BY <1>2, <3>2, RepliedFields
    <3> QED
      BY <3>1, <3>3, Zenon DEF q
  <2> QED
    BY <2>1, <2>2, Zenon
<1>5. /\ s.at = "replied" /\ s.req = q /\ s.ran = ran /\ s.done = ok /\ s.outcome = outcome
      /\ s = Slot(s.at, s.req, s.ran, s.done, s.outcome)
  BY DEF Slot
<1>7. ran # NoRequest => ran = AsSent(q)
  BY DEF q
<1>8. Told(outcome) /\ q.op # "Init" => ok
  BY DEF q
<1> HIDE DEF s
<1>9. SlotType(s)
  BY <1>5 DEF SlotType, Phases
<1>10. SlotInv(c, s)
  BY <1>3, <1>5, <1>7, <1>8, <1>9 DEF SlotInv
<1> QED
  BY <1>4, <1>10, OneSlot

LEMMA CallKeeps ==
    ASSUME IpcInv, NEW c \in Callers, NEW op \in OperationsOf(c), NEW r \in RequestsOf(op), Call(c, r)
    PROVE  IpcInv'
<1>1. op \in Operations
  BY CallersOperations
<1>2. OfShape(r) /\ r.op = op
  BY <1>1, RequestsAreOfShape
<1> DEFINE at == IF CheckParam(r) THEN "sent" ELSE "returned"
           outcome == IF CheckParam(r) THEN "none" ELSE "refused"
           s == Slot(at, r, NoRequest, FALSE, outcome)
<1>3. [Idle EXCEPT !.req = r, !.at = at, !.outcome = outcome] = s
  <2>1. Idle = Slot(Idle.at, Idle.req, Idle.ran, Idle.done, Idle.outcome)
        /\ Idle.ran = NoRequest /\ Idle.done = FALSE
    BY DEF Idle, Slot
  <2> HIDE DEF at, outcome
  <2>2. [Idle EXCEPT !.req = r, !.at = at, !.outcome = outcome] = Slot(at, r, Idle.ran, Idle.done, outcome)
    <3>1. PICK t : t = [Idle EXCEPT !.req = r, !.at = at, !.outcome = outcome]
      OBVIOUS
    <3>2. IsCalled(t, Idle, r, at, outcome)
      BY <3>1, Zenon DEF IsCalled
    <3>3. t = Slot(at, r, Idle.ran, Idle.done, outcome)
      BY <2>1, <3>2, CalledFields
    <3> QED
      BY <3>1, <3>3, Zenon
  <2> QED
    BY <2>1, <2>2, Zenon
<1>4. slot' = [slot EXCEPT ![c] = s]
  BY <1>3, Zenon DEF Call
<1>5. /\ s.at = at /\ s.req = r /\ s.ran = NoRequest /\ s.done = FALSE /\ s.outcome = outcome
      /\ s = Slot(s.at, s.req, s.ran, s.done, s.outcome)
  <2> HIDE DEF at, outcome
  <2> QED
    BY DEF Slot
<1>6. at \in {"sent", "returned"} /\ outcome \in {"none", "refused"} /\ (at = "sent" => outcome = "none")
  OBVIOUS
<1> HIDE DEF s, at, outcome
<1>7. SlotType(s)
  BY <1>5, <1>6 DEF SlotType, Phases, Outcomes
<1>8. ~Told(s.outcome)
  BY <1>5, <1>6 DEF Told
<1>9. SlotInv(c, s)
  BY <1>2, <1>5, <1>6, <1>7, <1>8 DEF SlotInv
<1>10. SlotsInv'
  BY <1>4, <1>9, OneSlot DEF IpcInv
<1>11. AnswerFits'
  BY DEF Call, AnswerFits
<1>12. FlagsInv'
  BY DEF Call, IpcInv, FlagsInv
<1> QED
  BY <1>10, <1>11, <1>12 DEF IpcInv

LEMMA OutcomeType ==
    ASSUME NEW op, NEW ok \in BOOLEAN
    PROVE  Outcome(op, ok) \in Outcomes /\ (Told(Outcome(op, ok)) => ok)
  BY DEF Outcome, Outcomes, Told

LEMMA OnRemoteRequestKeeps ==
    ASSUME IpcInv, NEW c \in Callers, OnRemoteRequest(c)
    PROVE  IpcInv'
<1> DEFINE q == slot[c].req
           ran == Stub(Proxy(q))
<1>1. slot[c].at = "sent" /\ SlotInv(c, slot[c]) /\ SlotsInv /\ FlagsInv
  BY DEF OnRemoteRequest, IpcInv, SlotsInv
<1>2. OfShape(q)
  BY <1>1 DEF SlotInv
<1>3. ran = IF Dropped(q) THEN NoRequest ELSE AsSent(q)
  BY <1>2, EveryMessageArrives
<1>4. ran # NoRequest => ran = AsSent(q) /\ ran.op = q.op
  BY <1>3 DEF AsSent, Runs
<1>5. /\ heard' = NoRequest /\ UNCHANGED << running, exits >>
      /\ \/ /\ Replied(c, NoRequest, FALSE, "error")
            /\ UNCHANGED << sourceManagerInitFlag, serverOpened >>
         \/ /\ ran # NoRequest
            /\ \E ok \in BOOLEAN :
                  CASE ran.op = "Init"    -> HandleInitDistributedHardware(c, ran, ok)
                    [] ran.op = "Release" -> HandleReleaseDistributedHardware(c, ran, ok)
                    [] OTHER              -> HandleOperation(c, ran, ok)
  BY DEF OnRemoteRequest
<1> HIDE DEF ran
<1>6. AnswerFits'
  BY <1>5 DEF AnswerFits
<1>7. CASE Replied(c, NoRequest, FALSE, "error") /\ UNCHANGED << sourceManagerInitFlag, serverOpened >>
  <2>1. slot[c].at # "idle" /\ "error" \in Outcomes /\ FALSE \in BOOLEAN /\ ~Told("error")
    BY <1>1 DEF Outcomes, Told
  <2>2. SlotsInv'
    BY <1>1, <1>7, <2>1, RepliedSlot
  <2>3. FlagsInv'
    BY <1>1, <1>5, <1>7 DEF FlagsInv
  <2> QED
    BY <1>6, <2>2, <2>3 DEF IpcInv
<1>8. ASSUME ran # NoRequest, NEW ok \in BOOLEAN, ran.op = "Init", HandleInitDistributedHardware(c, ran, ok)
      PROVE  IpcInv'
  <2>1. slot[c].at # "idle" /\ ran = AsSent(slot[c].req) /\ slot[c].req.op = "Init"
    BY <1>1, <1>4, <1>8
  <2>2. CASE sourceManagerInitFlag
    <3>1. Replied(c, ran, serverOpened, "silent") /\ UNCHANGED << sourceManagerInitFlag, serverOpened >>
      BY <1>8, <2>2 DEF HandleInitDistributedHardware
    <3>2. serverOpened \in BOOLEAN /\ "silent" \in Outcomes
      BY <1>1 DEF FlagsInv, Outcomes
    <3>3. SlotsInv'
      BY <1>1, <1>8, <2>1, <3>1, <3>2, RepliedSlot
    <3>4. FlagsInv'
      BY <1>1, <1>5, <3>1 DEF FlagsInv
    <3> QED
      BY <1>6, <3>3, <3>4 DEF IpcInv
  <2>3. CASE ~sourceManagerInitFlag
    <3>1. Replied(c, ran, ok, Outcome("Init", ok)) /\ sourceManagerInitFlag' = TRUE /\ serverOpened' = ok
      BY <1>8, <2>3 DEF HandleInitDistributedHardware
    <3>2. Outcome("Init", ok) \in Outcomes
      BY OutcomeType
    <3>3. SlotsInv'
      BY <1>1, <1>8, <2>1, <3>1, <3>2, RepliedSlot
    <3>4. FlagsInv'
      BY <1>1, <1>5, <3>1 DEF FlagsInv
    <3> QED
      BY <1>6, <3>3, <3>4 DEF IpcInv
  <2> QED
    BY <2>2, <2>3
<1>9. ASSUME ran # NoRequest, NEW ok \in BOOLEAN, HandleReleaseDistributedHardware(c, ran, ok)
      PROVE  IpcInv'
  <2>1. slot[c].at # "idle" /\ ran = AsSent(slot[c].req)
    BY <1>1, <1>4, <1>9
  <2>2. CASE ~sourceManagerInitFlag
    <3>1. Replied(c, ran, TRUE, "silent") /\ UNCHANGED << sourceManagerInitFlag, serverOpened >>
      BY <1>9, <2>2 DEF HandleReleaseDistributedHardware
    <3>2. "silent" \in Outcomes /\ TRUE \in BOOLEAN
      BY DEF Outcomes
    <3>3. SlotsInv'
      BY <1>1, <1>9, <2>1, <3>1, <3>2, RepliedSlot
    <3>4. FlagsInv'
      BY <1>1, <1>5, <3>1 DEF FlagsInv
    <3> QED
      BY <1>6, <3>3, <3>4 DEF IpcInv
  <2>3. CASE sourceManagerInitFlag
    <3>1. Replied(c, ran, ok, Outcome("Release", ok)) /\ sourceManagerInitFlag' = FALSE /\ serverOpened' = FALSE
      BY <1>9, <2>3 DEF HandleReleaseDistributedHardware
    <3>2. Outcome("Release", ok) \in Outcomes /\ (Told(Outcome("Release", ok)) => ok)
      BY OutcomeType
    <3>3. SlotsInv'
      BY <1>1, <1>9, <2>1, <3>1, <3>2, RepliedSlot
    <3>4. FlagsInv'
      BY <1>1, <1>5, <3>1 DEF FlagsInv
    <3> QED
      BY <1>6, <3>3, <3>4 DEF IpcInv
  <2> QED
    BY <2>2, <2>3
<1>10. ASSUME ran # NoRequest, NEW ok \in BOOLEAN, HandleOperation(c, ran, ok)
       PROVE  IpcInv'
  <2>1. slot[c].at # "idle" /\ ran = AsSent(slot[c].req)
    BY <1>1, <1>4, <1>10
  <2>2. FlagsInv'
    BY <1>1, <1>5, <1>10 DEF FlagsInv, HandleOperation
  <2>3. CASE Replied(c, ran, ok, Outcome(ran.op, ok))
    <3>1. Outcome(ran.op, ok) \in Outcomes /\ (Told(Outcome(ran.op, ok)) => ok)
      BY OutcomeType
    <3>2. SlotsInv'
      BY <1>1, <1>10, <2>1, <2>3, <3>1, RepliedSlot
    <3> QED
      BY <1>6, <2>2, <3>2 DEF IpcInv
  <2>4. CASE slot' = [slot EXCEPT ![c].at = "calling", ![c].ran = ran, ![c].done = ok]
    <3> DEFINE s == Slot("calling", q, ran, ok, "none")
    <3>1. slot[c] = Slot(slot[c].at, q, slot[c].ran, slot[c].done, slot[c].outcome) /\ slot[c].outcome = "none"
      BY <1>1 DEF SlotInv, SlotType
    <3>2. slot' = [slot EXCEPT ![c] = s]
      <4>1. slot' = [slot EXCEPT ![c] = [slot[c] EXCEPT !.at = "calling", !.ran = ran, !.done = ok]]
        BY <2>4, Zenon
      <4>2. [slot[c] EXCEPT !.at = "calling", !.ran = ran, !.done = ok] = s
        <5>1. PICK t : t = [slot[c] EXCEPT !.at = "calling", !.ran = ran, !.done = ok]
          OBVIOUS
        <5>2. IsCalling(t, slot[c], "calling", ran, ok)
          BY <5>1, Zenon DEF IsCalling
        <5>3. t = Slot("calling", slot[c].req, ran, ok, slot[c].outcome)
          BY <3>1, <5>2, CallingFields
        <5> QED
          BY <3>1, <5>1, <5>3, Zenon
      <4> QED
        BY <4>1, <4>2, Zenon
    <3>3. /\ s.at = "calling" /\ s.req = q /\ s.ran = ran /\ s.done = ok /\ s.outcome = "none"
          /\ s = Slot(s.at, s.req, s.ran, s.done, s.outcome)
      BY DEF Slot
    <3>4. q.op \in OperationsOf(c)
      BY <1>1 DEF SlotInv
    <3> HIDE DEF s
    <3>5. SlotType(s)
      BY <3>3 DEF SlotType, Phases, Outcomes
    <3>6. SlotInv(c, s)
      BY <1>2, <1>4, <1>10, <3>3, <3>4, <3>5 DEF SlotInv, Told
    <3>7. SlotsInv'
      BY <1>1, <3>2, <3>6, OneSlot
    <3> QED
      BY <1>6, <2>2, <3>7 DEF IpcInv
  <2> QED
    BY <1>10, <2>3, <2>4 DEF HandleOperation
<1> QED
  BY <1>5, <1>7, <1>8, <1>9, <1>10

LEMMA HearFits ==
    ASSUME IpcInv, NEW c \in Callers, slot[c].ran # NoRequest, NEW a \in AnswersTo(slot[c].ran), Hear(c, a)
    PROVE  AnswerFits'
<1>1. SlotInv(c, slot[c])
  BY DEF IpcInv, SlotsInv
<1>2. OfShape(slot[c].req) /\ slot[c].ran = AsSent(slot[c].req)
  BY <1>1 DEF SlotInv
<1>3. AnswersTo(slot[c].ran) = AnswersTo(slot[c].req)
  BY <1>2, AnswersToTheSent, Zenon
<1>4. CallbackStub(CallbackProxy(a)) = a
  BY EveryAnswerArrives
<1>5. heard' = [from |-> slot[c].req, what |-> a]
  BY <1>4 DEF Hear
<1>6. heard'.what \in AnswersTo(heard'.from)
  BY <1>3, <1>5
<1> QED
  BY <1>6 DEF AnswerFits

LEMMA CallBackKeeps ==
    ASSUME IpcInv, NEW c \in Callers, CallBack(c)
    PROVE  IpcInv'
<1>1. slot[c].at = "calling" /\ SlotInv(c, slot[c]) /\ SlotsInv /\ FlagsInv
  BY DEF CallBack, IpcInv, SlotsInv
<1>2. slot[c].ran # NoRequest /\ slot[c].ran = AsSent(slot[c].req) /\ slot[c].done \in BOOLEAN
  BY <1>1 DEF SlotInv, SlotType
<1>3. PICK a \in AnswersTo(slot[c].ran) : Hear(c, a)
  BY DEF CallBack
<1>4. AnswerFits'
  BY <1>2, <1>3, HearFits
<1> DEFINE outcome == Outcome(slot[c].ran.op, slot[c].done)
<1>5. outcome \in Outcomes /\ (Told(outcome) => slot[c].done)
  BY <1>2, OutcomeType
<1>6. Replied(c, slot[c].ran, slot[c].done, outcome)
  BY DEF CallBack
<1> HIDE DEF outcome
<1>7. slot[c].at # "idle"
  BY <1>1
<1>8. SlotsInv'
  BY <1>1, <1>2, <1>5, <1>6, <1>7, RepliedSlot
<1>9. FlagsInv'
  BY <1>1 DEF FlagsInv, CallBack
<1> QED
  BY <1>4, <1>8, <1>9 DEF IpcInv

LEMMA CallBackLaterKeeps ==
    ASSUME IpcInv, NEW c \in Callers, CallBackLater(c)
    PROVE  IpcInv'
<1>1. slot[c].done /\ SlotInv(c, slot[c])
  BY DEF CallBackLater, IpcInv, SlotsInv
<1>2. slot[c].ran # NoRequest
  BY <1>1 DEF SlotInv
<1>3. PICK a \in AnswersTo(slot[c].ran) : Hear(c, a)
  BY DEF CallBackLater
<1>4. AnswerFits'
  BY <1>2, <1>3, HearFits
<1>5. SlotsInv' /\ FlagsInv'
  BY DEF CallBackLater, IpcInv, SlotsInv, FlagsInv
<1> QED
  BY <1>4, <1>5 DEF IpcInv

LEMMA SendRequestFailsKeeps ==
    ASSUME IpcInv, NEW c \in Callers, SendRequestFails(c)
    PROVE  IpcInv'
<1>1. slot[c].at \in {"sent", "calling"} /\ SlotInv(c, slot[c]) /\ SlotsInv /\ FlagsInv
  BY DEF SendRequestFails, IpcInv, SlotsInv
<1>2. slot[c].ran # NoRequest => slot[c].ran = AsSent(slot[c].req)
  BY <1>1 DEF SlotInv
<1>3. slot[c].at # "idle" /\ "error" \in Outcomes /\ FALSE \in BOOLEAN /\ ~Told("error")
  BY <1>1 DEF Outcomes, Told
<1>4. Replied(c, slot[c].ran, FALSE, "error")
  BY DEF SendRequestFails
<1>5. SlotsInv'
  BY <1>1, <1>2, <1>3, <1>4, RepliedSlot
<1>6. AnswerFits'
  BY DEF SendRequestFails, AnswerFits
<1>7. FlagsInv'
  BY <1>1 DEF FlagsInv, SendRequestFails
<1> QED
  BY <1>5, <1>6, <1>7 DEF IpcInv

LEMMA ReturnKeeps ==
    ASSUME IpcInv, NEW c \in Callers, Return(c)
    PROVE  IpcInv'
<1> DEFINE q == slot[c]
           s == Slot("returned", q.req, q.ran, q.done, q.outcome)
<1>1. q.at = "replied" /\ SlotInv(c, q) /\ SlotsInv /\ FlagsInv
  BY DEF Return, IpcInv, SlotsInv
<1>2. slot' = [slot EXCEPT ![c] = [q EXCEPT !.at = "returned"]]
  BY Zenon DEF Return
<1>3. q = Slot(q.at, q.req, q.ran, q.done, q.outcome)
  BY <1>1 DEF SlotInv, SlotType
<1> HIDE DEF q
<1>10. slot' = [slot EXCEPT ![c] = s]
  <2>1. [q EXCEPT !.at = "returned"] = s
    BY <1>3, AtChanged, Zenon
  <2> QED
    BY <1>2, <2>1, Zenon
<1>4. /\ s.at = "returned" /\ s.req = q.req /\ s.ran = q.ran /\ s.done = q.done /\ s.outcome = q.outcome
      /\ s = Slot(s.at, s.req, s.ran, s.done, s.outcome)
  BY DEF Slot
<1> HIDE DEF s
<1>5. SlotType(s)
  BY <1>1, <1>4 DEF SlotInv, SlotType, Phases
<1>6. SlotInv(c, s)
  BY <1>1, <1>4, <1>5 DEF SlotInv
<1>7. SlotsInv'
  BY <1>1, <1>10, <1>6, OneSlot
<1>8. AnswerFits'
  BY DEF Return, AnswerFits
<1>9. FlagsInv'
  BY <1>1 DEF FlagsInv, Return
<1> QED
  BY <1>7, <1>8, <1>9 DEF IpcInv

LEMMA ForgetKeeps ==
    ASSUME IpcInv, NEW c \in Callers, Forget(c)
    PROVE  IpcInv'
<1>1. slot' = [slot EXCEPT ![c] = Idle] /\ SlotsInv
  BY DEF Forget, IpcInv
<1>2. SlotInv(c, Idle)
  BY IdleSlot
<1>3. SlotsInv'
  BY <1>1, <1>2, OneSlot
<1>4. AnswerFits' /\ FlagsInv'
  BY DEF Forget, AnswerFits, FlagsInv, IpcInv
<1> QED
  BY <1>3, <1>4 DEF IpcInv

LEMMA ExitKeeps == ASSUME IpcInv, Exit PROVE IpcInv'
<1>1. slot' = [c \in Callers |-> IF slot[c].at = "returned" THEN Idle ELSE slot[c]]
  BY DEF Exit
<1>2. ASSUME NEW c \in Callers PROVE SlotInv(c, slot'[c])
  <2>1. slot'[c] = Idle \/ slot'[c] = slot[c]
    BY <1>1
  <2> QED
    BY <2>1, IdleSlot DEF IpcInv, SlotsInv
<1>3. slot' = [c \in Callers |-> slot'[c]]
  BY <1>1
<1>4. SlotsInv'
  BY <1>2, <1>3 DEF SlotsInv
<1>5. AnswerFits'
  BY DEF Exit, AnswerFits
<1>6. FlagsInv'
  <2>1. exits + 1 \in 0 .. MaxExits
    BY IpcAssumption DEF Exit, FlagsInv, IpcInv
  <2> QED
    BY <2>1, Zenon DEF Exit, FlagsInv, IpcInv
<1> QED
  BY <1>4, <1>5, <1>6 DEF IpcInv

LEMMA NextIpcInv == IpcInv /\ [IpcNext]_ipcVars => IpcInv'
<1> SUFFICES ASSUME IpcInv, [IpcNext]_ipcVars PROVE IpcInv'
  OBVIOUS
<1>1. ASSUME NEW c \in Callers, NEW op \in OperationsOf(c), NEW r \in RequestsOf(op), Call(c, r) PROVE IpcInv'
  BY <1>1, CallKeeps
<1>2. ASSUME NEW c \in Callers, OnRemoteRequest(c) PROVE IpcInv'
  BY <1>2, OnRemoteRequestKeeps
<1>3. ASSUME NEW c \in Callers, CallBack(c) PROVE IpcInv'
  BY <1>3, CallBackKeeps
<1>4. ASSUME NEW c \in Callers, CallBackLater(c) PROVE IpcInv'
  BY <1>4, CallBackLaterKeeps
<1>5. ASSUME NEW c \in Callers, SendRequestFails(c) PROVE IpcInv'
  BY <1>5, SendRequestFailsKeeps
<1>6. ASSUME NEW c \in Callers, Return(c) PROVE IpcInv'
  BY <1>6, ReturnKeeps
<1>7. ASSUME NEW c \in Callers, Forget(c) PROVE IpcInv'
  BY <1>7, ForgetKeeps
<1>8. CASE Exit
  BY <1>8, ExitKeeps
<1>9. CASE LoadAgain
  BY <1>9 DEF LoadAgain, IpcInv, SlotsInv, FlagsInv, AnswerFits
<1>10. CASE UNCHANGED ipcVars
  BY <1>10 DEF ipcVars, IpcInv, SlotsInv, FlagsInv, AnswerFits
<1> QED
  BY <1>1, <1>2, <1>3, <1>4, <1>5, <1>6, <1>7, <1>8, <1>9, <1>10 DEF IpcNext, Step

LEMMA IpcInvariance == IpcSpec => []IpcInv
  BY InitIpcInv, NextIpcInv, PTL DEF IpcSpec

\* Every slot is of its process and its phase.
THEOREM CallsTypeCorrect == IpcSpec => []IpcTypeOK
<1>1. IpcInv => IpcTypeOK
  <2> SUFFICES ASSUME IpcInv PROVE IpcTypeOK
    OBVIOUS
  <2>1. ASSUME NEW c \in Callers
        PROVE  /\ slot[c].at \in Phases
               /\ slot[c].at # "idle" => slot[c].req.op \in OperationsOf(c)
               /\ slot[c].ran # NoRequest => slot[c].ran.op \in OperationsOf(c)
               /\ slot[c].done \in BOOLEAN
               /\ slot[c].outcome \in {"none", "success", "failure", "silent", "error", "refused"}
    <3>1. SlotInv(c, slot[c])
      BY DEF IpcInv, SlotsInv
    <3>2. slot[c].ran # NoRequest => slot[c].ran.op = slot[c].req.op
      BY <3>1 DEF SlotInv, AsSent, Runs
    <3> QED
      BY <3>1, <3>2 DEF SlotInv, SlotType, Outcomes
  <2>2. {running, sourceManagerInitFlag, serverOpened} \subseteq BOOLEAN /\ exits \in 0 .. MaxExits
    BY DEF IpcInv, FlagsInv
  <2> QED
    BY <2>1, <2>2 DEF IpcTypeOK
<1> QED
  BY <1>1, IpcInvariance, PTL

\* What a service runs is what its client was called for.
THEOREM CallsArriveAsSent == IpcSpec => []ArrivesAsSent
<1>1. IpcInv => ArrivesAsSent
  BY DEF IpcInv, SlotsInv, SlotInv, AsSent, ArrivesAsSent
<1> QED
  BY <1>1, IpcInvariance, PTL

\* A call that returns DH_SUCCESS was carried out.
THEOREM SuccessMeansDone == IpcSpec => []SuccessIsDone
<1>1. IpcInv => SuccessIsDone
  BY DEF IpcInv, SlotsInv, SlotInv, SuccessIsDone
<1> QED
  BY <1>1, IpcInvariance, PTL

\* A callback hears an answer to its own request.
THEOREM AnswersFit == IpcSpec => []AnswerFits
<1>1. IpcInv => AnswerFits
  BY DEF IpcInv
<1> QED
  BY <1>1, IpcInvariance, PTL
=============================================================================
