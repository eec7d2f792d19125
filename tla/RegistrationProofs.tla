------------------------- MODULE RegistrationProofs -------------------------
(***************************************************************************)
(* Proofs about the registration of devices, for any devices, paths, calls *)
(* and number of exits of the service and deaths of the framework.         *)
(***************************************************************************)
EXTENDS Registration, SequenceTheorems, WellFoundedInduction, TLAPS

Steady == Devices \ Changing
Made   == 1 .. Len(calls)
MadeTo(kind) == {c \in Made : Kind(c) = kind}

Elements(s) == {s[i] : i \in DOMAIN s}

(***************************************************************************)
(* The invariants.                                                         *)
(***************************************************************************)
\* Every list holds calls that were made, of its own kind; a device that never
\* changes comes with one description; and while a node is being created its call
\* has a callback in the service.
CallsKept ==
    /\ calling \subseteq Made
    /\ rstInfos \subseteq MadeTo("register") /\ unrstInfos \subseteq MadeTo("unregister")
    /\ Elements(regCallbacks) \subseteq MadeTo("register")
    /\ Elements(unregCallbacks) \subseteq MadeTo("unregister")
    /\ Elements(events) \subseteq MadeTo("unregister")
    /\ busy # NoCall => busy \in MadeTo("register") /\ busy \in Elements(regCallbacks)
    /\ \A c \in Made : Dev(c) \in Steady => Desc(c) = "first"
    /\ born <= Len(calls)

TInv == TypeOK /\ CallsKept

\* The node of the device is being created.
Making(d) == busy # NoCall /\ Dev(busy) = d

\* A device that never changes is known once, with its one description, has its node
\* then, and is not known while its node is created.
SteadyOnce ==
    /\ \A i \in DOMAIN inputDevice :
          inputDevice[i].dev \in Steady => /\ inputDevice[i].desc = "first"
                                           /\ Has(inputDevice[i].dev)
    /\ \A i, j \in DOMAIN inputDevice :
          inputDevice[i].dev \in Steady /\ inputDevice[i].dev = inputDevice[j].dev => i = j
    /\ \A d \in Steady : Making(d) => ~ IsKnown(d)

\* The kernel has the node of each device that has one, and no other but those that
\* are being created; between two searches nothing is left of the last.
NodesKept ==
    /\ \A d \in Devices : Has(d) => /\ virtualDeviceMap[d].at \in Paths
                                    /\ kernel[virtualDeviceMap[d].at] = d
                                    /\ IsKnown(d)
    /\ \A p \in Paths : kernel[p] # NoDev =>
          \/ Has(kernel[p]) /\ p = virtualDeviceMap[kernel[p]].at
          \/ Making(kernel[p])
    /\ scanning.dev = NoDev => scanning = Idle /\ found = NoPath

\* A second node of the device is there, or another search for it is to come.
Renewed(d) ==
    \/ \E i \in DOMAIN scans : scans[i] = d
    \/ Making(d) /\ NewAt(d) # {}

\* A node has its path, or the search for it cannot miss it.
PathsDue ==
    \A d \in Devices : Has(d) /\ ~ Renewed(d) =>
        LET at == virtualDeviceMap[d].at
        IN  IF scanning.dev = d
            THEN found = at \/ (found = NoPath /\ at \in scanning.left)
            ELSE virtualDeviceMap[d].path = at

\* While the process lives, a call that is under way has its entry in the client, no
\* two entries of a list are of the same device, and no removal is answered twice.
EntriesWait ==
    deaths = 0 =>
        /\ born = 0
        /\ \A c \in calling : c \in (IF Kind(c) = "register" THEN rstInfos ELSE unrstInfos)
        /\ busy # NoCall => busy \in rstInfos /\ busy \notin calling
        /\ \A i \in DOMAIN events : events[i] \in unrstInfos /\ events[i] \notin calling
        /\ \A i, j \in DOMAIN events : events[i] = events[j] => i = j
        /\ \A c, e \in rstInfos : Dev(c) = Dev(e) => c = e
        /\ \A c, e \in unrstInfos : Dev(c) = Dev(e) => c = e

(***************************************************************************)
(* Lists.                                                                  *)
(***************************************************************************)
LEMMA MinIsIn == ASSUME NEW I, I \subseteq Nat, I # {} PROVE Min(I) \in I
<1>1. \E x \in I : \A y \in I : ~ (<< y, x >> \in OpToRel(<, Nat))
  BY NatLessThanWellFounded, WFMin
<1>2. \E x \in I : \A y \in I : x <= y
  <2>1. PICK x \in I : \A y \in I : ~ (<< y, x >> \in OpToRel(<, Nat))
    BY <1>1
  <2>2. ASSUME NEW y \in I PROVE x <= y
    <3>1. x \in Nat /\ y \in Nat
      OBVIOUS
    <3>2. << y, x >> \in OpToRel(<, Nat) <=> y < x
      BY <3>1 DEF OpToRel
    <3>3. ~ (y < x)
      BY <2>1, <3>2, Zenon
    <3> QED
      BY <3>1, <3>3
  <2> QED
    BY <2>2
<1> QED
  BY <1>2 DEF Min

\* What FirstOf finds is of the device; 0 says that there is none.
LEMMA FirstIsOf ==
    ASSUME NEW list, Len(list) \in Nat, NEW d
    PROVE  /\ FirstOf(list, d) # 0 => /\ FirstOf(list, d) \in 1 .. Len(list)
                                      /\ Dev(list[FirstOf(list, d)]) = d
           /\ FirstOf(list, d) = 0 => \A i \in 1 .. Len(list) : Dev(list[i]) # d
<1> DEFINE I == {i \in 1 .. Len(list) : Dev(list[i]) = d}
<1>1. FirstOf(list, d) = IF I # {} THEN Min(I) ELSE 0
  BY DEF FirstOf, SelectInSeq
<1>2. I \subseteq Nat /\ 0 \notin I
  OBVIOUS
<1>3. I # {} => Min(I) \in I
  <2> HIDE DEF I
  <2> QED
    BY <1>2, MinIsIn
<1> QED
  BY <1>1, <1>2, <1>3

LEMMA Removed ==
    ASSUME NEW S, NEW s \in Seq(S), NEW k \in 1 .. Len(s)
    PROVE  /\ RemoveAt(s, k) \in Seq(S) /\ Len(RemoveAt(s, k)) = Len(s) - 1
           /\ \A i \in 1 .. Len(s) - 1 :
                 RemoveAt(s, k)[i] = IF i < k THEN s[i] ELSE s[i + 1]
<1> DEFINE a == SubSeq(s, 1, k - 1)
           b == SubSeq(s, k + 1, Len(s))
<1>1. Len(s) \in Nat /\ \A i \in 1 .. Len(s) : s[i] \in S
  BY LenProperties, ElementOfSeq
<1>2. /\ a \in Seq(S) /\ Len(a) = k - 1
      /\ \A i \in 1 .. k - 1 : a[i] = s[i]
  <2>1. k - 1 \in Int /\ 1 \in Int /\ \A i \in 1 .. k - 1 : s[i] \in S
    BY <1>1
  <2>2. /\ a \in Seq(S) /\ Len(a) = IF 1 <= k - 1 THEN (k - 1) - 1 + 1 ELSE 0
        /\ \A i \in 1 .. (k - 1) - 1 + 1 : a[i] = s[1 + i - 1]
    BY <2>1, SubSeqProperties
  <2> QED
    BY <2>2
<1>3. /\ b \in Seq(S) /\ Len(b) = Len(s) - k
      /\ \A i \in 1 .. Len(s) - k : b[i] = s[i + k]
  <2>1. k + 1 \in Int /\ Len(s) \in Int /\ \A i \in k + 1 .. Len(s) : s[i] \in S
    BY <1>1
  <2>2. /\ b \in Seq(S) /\ Len(b) = IF k + 1 <= Len(s) THEN Len(s) - (k + 1) + 1 ELSE 0
        /\ \A i \in 1 .. Len(s) - (k + 1) + 1 : b[i] = s[(k + 1) + i - 1]
    BY <2>1, SubSeqProperties
  <2> QED
    BY <1>1, <2>2
<1>4. RemoveAt(s, k) = a \o b
  BY DEF RemoveAt
<1> HIDE DEF a, b
<1>5. /\ a \o b \in Seq(S) /\ Len(a \o b) = Len(a) + Len(b)
      /\ \A i \in 1 .. Len(a) + Len(b) :
            (a \o b)[i] = IF i <= Len(a) THEN a[i] ELSE b[i - Len(a)]
  BY <1>2, <1>3, ConcatProperties
<1>6. ASSUME NEW i \in 1 .. Len(s) - 1
      PROVE  (a \o b)[i] = IF i < k THEN s[i] ELSE s[i + 1]
  <2>1. (a \o b)[i] = IF i <= k - 1 THEN a[i] ELSE b[i - (k - 1)]
    BY <1>1, <1>2, <1>3, <1>5
  <2>2. CASE i < k
    BY <1>1, <1>2, <2>1, <2>2
  <2>3. CASE ~(i < k)
    <3>1. i - (k - 1) \in 1 .. Len(s) - k
      BY <1>1, <2>3
    <3>2. b[i - (k - 1)] = s[(i - (k - 1)) + k]
      BY <1>3, <3>1
    <3>3. (i - (k - 1)) + k = i + 1
      BY <1>1
    <3> QED
      BY <1>1, <2>1, <2>3, <3>2, <3>3
  <2> QED
    BY <2>2, <2>3
<1> QED
  BY <1>1, <1>2, <1>3, <1>4, <1>5, <1>6

LEMMA ElementsRemoved ==
    ASSUME NEW S, NEW s \in Seq(S), NEW k \in 1 .. Len(s)
    PROVE  /\ Elements(RemoveAt(s, k)) \subseteq Elements(s)
           /\ \A e \in Elements(s) : e # s[k] => e \in Elements(RemoveAt(s, k))
<1> DEFINE t == RemoveAt(s, k)
<1>1. /\ t \in Seq(S) /\ Len(t) = Len(s) - 1
      /\ \A i \in 1 .. Len(s) - 1 : t[i] = IF i < k THEN s[i] ELSE s[i + 1]
  BY Removed
<1>2. /\ DOMAIN t = 1 .. Len(s) - 1 /\ DOMAIN s = 1 .. Len(s) /\ Len(s) \in Nat
  BY <1>1, LenProperties
<1> HIDE DEF t
<1>3. Elements(t) \subseteq Elements(s)
  <2>1. ASSUME NEW i \in DOMAIN t PROVE t[i] \in Elements(s)
    <3>1. i \in DOMAIN s /\ i + 1 \in DOMAIN s
      BY <1>2
    <3>2. t[i] = s[i] \/ t[i] = s[i + 1]
      BY <1>1, <1>2
    <3> QED
      BY <3>1, <3>2 DEF Elements
  <2> QED
    BY <2>1 DEF Elements
<1>4. ASSUME NEW e \in Elements(s), e # s[k] PROVE e \in Elements(t)
  <2>1. PICK i \in 1 .. Len(s) : s[i] = e
    BY <1>2 DEF Elements
  <2>2. CASE i < k
    BY <1>1, <1>2, <2>1, <2>2 DEF Elements
  <2>3. CASE i > k
    <3>1. i - 1 \in 1 .. Len(s) - 1 /\ ~(i - 1 < k) /\ (i - 1) + 1 = i
      BY <1>2, <2>3
    <3>2. t[i - 1] = s[i]
      BY <1>1, <3>1
    <3> QED
      BY <1>2, <2>1, <3>1, <3>2 DEF Elements
  <2> QED
    BY <1>2, <1>4, <2>1, <2>2, <2>3
<1> QED
  BY <1>3, <1>4 DEF t

LEMMA Appended ==
    ASSUME NEW S, NEW s \in Seq(S), NEW e \in S
    PROVE  /\ Append(s, e) \in Seq(S) /\ Len(Append(s, e)) = Len(s) + 1
           /\ DOMAIN s = 1 .. Len(s) /\ DOMAIN Append(s, e) = 1 .. Len(s) + 1 /\ Len(s) \in Nat
           /\ \A i \in 1 .. Len(s) : Append(s, e)[i] = s[i]
           /\ Append(s, e)[Len(s) + 1] = e
           /\ Elements(Append(s, e)) = Elements(s) \cup {e}
<1>1. /\ Append(s, e) \in Seq(S) /\ Len(Append(s, e)) = Len(s) + 1
      /\ DOMAIN s = 1 .. Len(s) /\ DOMAIN Append(s, e) = 1 .. Len(s) + 1 /\ Len(s) \in Nat
      /\ \A i \in 1 .. Len(s) : Append(s, e)[i] = s[i]
      /\ Append(s, e)[Len(s) + 1] = e
  BY AppendProperties, LenProperties
<1>2. Elements(Append(s, e)) = Elements(s) \cup {e}
  BY <1>1 DEF Elements
<1> QED
  BY <1>1, <1>2

LEMMA Tailed ==
    ASSUME NEW S, NEW s \in Seq(S), s # << >>
    PROVE  /\ Tail(s) \in Seq(S) /\ Head(s) = s[1] /\ 1 \in DOMAIN s /\ Len(s) \in Nat
           /\ DOMAIN s = 1 .. Len(s) /\ DOMAIN Tail(s) = 1 .. Len(s) - 1
           /\ \A i \in 1 .. Len(s) - 1 : Tail(s)[i] = s[i + 1]
<1>1. Len(s) \in Nat /\ Len(s) # 0 /\ DOMAIN s = 1 .. Len(s)
  BY LenProperties, EmptySeq
<1>2. /\ Tail(s) \in Seq(S) /\ Len(Tail(s)) = Len(s) - 1
      /\ \A i \in 1 .. Len(Tail(s)) : Tail(s)[i] = s[i + 1]
  BY HeadTailProperties
<1>3. DOMAIN Tail(s) = 1 .. Len(s) - 1
  BY <1>2, LenProperties
<1>4. Head(s) = s[1]
  BY <1>1, <1>2
<1> QED
  BY <1>1, <1>2, <1>3, <1>4

(***************************************************************************)
(* Types, and what the lists hold.                                         *)
(***************************************************************************)
ClientTyped ==
    /\ calls \in Seq(Call) /\ Len(calls) <= MaxCalls
    /\ calling \subseteq Calls /\ rstInfos \subseteq Calls /\ unrstInfos \subseteq Calls
    /\ proxy \in {"live", "dead", "no"} /\ born \in 0 .. MaxCalls /\ deaths \in 0 .. MaxDeaths

ServiceTyped ==
    /\ up \in BOOLEAN /\ released \in BOOLEAN /\ exits \in 0 .. MaxExits
    /\ busy \in Calls \cup {NoCall}
    /\ regCallbacks \in Seq(Calls) /\ unregCallbacks \in Seq(Calls) /\ events \in Seq(Calls)
    /\ inputDevice \in Seq(Known)

NodesTyped ==
    /\ kernel \in [Paths -> Devices \cup {NoDev}]
    /\ virtualDeviceMap \in [Devices -> Node \cup {NoNode}]
    /\ scans \in Seq(Devices) /\ found \in Paths \cup {NoPath}
    /\ scanning \in [dev : Devices \cup {NoDev}, left : SUBSET Paths]

HistoryTyped == answers \subseteq Answer /\ abandoned \subseteq Calls

LEMMA TypedParts ==
    TypeOK <=> ClientTyped /\ ServiceTyped /\ NodesTyped /\ HistoryTyped
BY DEF TypeOK, ClientTyped, ServiceTyped, NodesTyped, HistoryTyped

\* A call that was made is a call, of a device that is one.
LEMMA MadeCalls ==
    ASSUME ClientTyped
    PROVE  /\ Len(calls) \in Nat /\ Made \subseteq Calls /\ DOMAIN calls = Made
           /\ \A c \in Made : calls[c] \in Call /\ Dev(c) \in Devices
<1>1. Len(calls) \in Nat /\ DOMAIN calls = Made /\ \A c \in Made : calls[c] \in Call
  BY LenProperties, ElementOfSeq DEF ClientTyped, Made
<1>2. Made \subseteq Calls
  BY <1>1, RegistrationAssumption DEF ClientTyped, Made, Calls
<1>3. \A c \in Made : Dev(c) \in Devices
  BY <1>1 DEF Dev, Call
<1> QED
  BY <1>1, <1>2, <1>3

\* An answer takes entries away and calls callers.
LEMMA Answered ==
    ASSUME TInv, NEW cb \in Calls, NEW c \in Calls, NEW b \in BOOLEAN, OnResult(cb, c, b)
    PROVE  /\ HistoryTyped' /\ rstInfos' \subseteq rstInfos /\ unrstInfos' \subseteq unrstInfos
           /\ rstInfos' \subseteq Calls /\ unrstInfos' \subseteq Calls
<1>1. rstInfos \subseteq Calls /\ unrstInfos \subseteq Calls /\ answers \subseteq Answer
      /\ abandoned \subseteq Calls
  BY DEF TInv, TypeOK
<1>2. rstInfos' \subseteq rstInfos /\ unrstInfos' \subseteq unrstInfos /\ abandoned' = abandoned
  BY DEF OnResult
<1>3. answers' \subseteq Answer
  <2>1. Callers(IF Kind(cb) = "register" THEN rstInfos ELSE unrstInfos, cb) \subseteq Calls
    BY <1>1 DEF Callers
  <2>2. \A e \in Calls : [caller |-> e, call |-> c, result |-> b] \in Answer
    BY DEF Answer
  <2> QED
    BY <1>1, <2>1, <2>2 DEF OnResult
<1> QED
  BY <1>1, <1>2, <1>3 DEF HistoryTyped

\* The calls stay what they are, and the lists only lose, but for what is said.
LEMMA StillKept ==
    ASSUME TInv, UNCHANGED << calls, born >>,
           calling' \subseteq calling, rstInfos' \subseteq rstInfos,
           unrstInfos' \subseteq unrstInfos,
           Elements(regCallbacks') \subseteq MadeTo("register"),
           Elements(unregCallbacks') \subseteq MadeTo("unregister"),
           Elements(events') \subseteq MadeTo("unregister"),
           busy' # NoCall => /\ busy' \in MadeTo("register")
                             /\ busy' \in Elements(regCallbacks')
    PROVE  CallsKept'
<1>1. /\ Made' = Made /\ MadeTo("register")' = MadeTo("register")
      /\ MadeTo("unregister")' = MadeTo("unregister")
  BY DEF Made, MadeTo, Kind
<1>2. /\ (calling \subseteq Made)' /\ (rstInfos \subseteq MadeTo("register"))'
      /\ (unrstInfos \subseteq MadeTo("unregister"))'
  BY <1>1 DEF TInv, CallsKept
<1>3. (\A c \in Made : Dev(c) \in Steady => Desc(c) = "first")' /\ (born <= Len(calls))'
  BY <1>1 DEF TInv, CallsKept, Dev, Desc, Steady
<1>4. Elements(regCallbacks)' = Elements(regCallbacks') /\ Elements(unregCallbacks)' = Elements(unregCallbacks')
      /\ Elements(events)' = Elements(events')
  BY DEF Elements
<1> QED
  BY <1>1, <1>2, <1>3, <1>4 DEF CallsKept

\* The entering of a call.
LEMMA EnterTyped ==
    ASSUME TInv, NEW kind \in {"register", "unregister"}, NEW d \in Devices, NEW s \in Descs,
           Enter(kind, d, s), d \in Steady => s = "first",
           \/ kind = "register" /\ rstInfos' = rstInfos \cup {Len(calls) + 1} /\ UNCHANGED unrstInfos
           \/ kind = "unregister" /\ unrstInfos' = unrstInfos \cup {Len(calls) + 1} /\ UNCHANGED rstInfos
    PROVE  TInv'
<1> DEFINE e == [kind |-> kind, dev |-> d, desc |-> s]
<1>n. PICK n : n = Len(calls) + 1
  OBVIOUS
<1>1. /\ ClientTyped /\ ServiceTyped /\ NodesTyped /\ HistoryTyped /\ CallsKept
      /\ Len(calls) \in Nat /\ DOMAIN calls = Made /\ Made \subseteq Calls
  BY TypedParts, MadeCalls DEF TInv
<1>2. e \in Call
  BY DEF Call
<1>3. /\ calls' \in Seq(Call) /\ Len(calls') = n /\ calls'[n] = e
      /\ \A c \in Made : calls'[c] = calls[c]
  <2>1. calls' = Append(calls, e) /\ calls \in Seq(Call)
    BY <1>1 DEF Enter, ClientTyped
  <2> HIDE DEF e
  <2> QED
    BY <1>1, <1>2, <1>n, <2>1, Appended DEF Made
<1>4. n \in Calls /\ Len(calls') <= MaxCalls
  BY <1>1, <1>n, <1>3, RegistrationAssumption DEF Enter, Calls
<1>5. ClientTyped'
  BY <1>1, <1>n, <1>3, <1>4 DEF Enter, ClientTyped
<1>6. ServiceTyped' /\ NodesTyped' /\ HistoryTyped'
  BY <1>1 DEF Enter, ServiceTyped, NodesTyped, HistoryTyped, service, nodes, history
<1>7. Made' = Made \cup {n} /\ n \notin Made
  BY <1>1, <1>n, <1>3 DEF Made
<1>8. \A c \in Made : /\ Kind(c)' = Kind(c) /\ Dev(c)' = Dev(c) /\ Desc(c)' = Desc(c)
  BY <1>3 DEF Kind, Dev, Desc
<1>9. Kind(n)' = kind /\ Dev(n)' = d /\ Desc(n)' = s
  BY <1>3 DEF Kind, Dev, Desc
<1>10. /\ MadeTo("register") \subseteq MadeTo("register")'
       /\ MadeTo("unregister") \subseteq MadeTo("unregister")'
       /\ kind = "register" => n \in MadeTo("register")'
       /\ kind = "unregister" => n \in MadeTo("unregister")'
  BY <1>7, <1>8, <1>9 DEF MadeTo
<1>11. /\ (calling \subseteq Made)' /\ (rstInfos \subseteq MadeTo("register"))'
       /\ (unrstInfos \subseteq MadeTo("unregister"))'
  BY <1>1, <1>n, <1>7, <1>10 DEF CallsKept, Enter
<1>12. (\A c \in Made : Dev(c) \in Steady => Desc(c) = "first")'
  BY <1>1, <1>7, <1>8, <1>9 DEF CallsKept, Steady
<1>13. /\ (Elements(regCallbacks) \subseteq MadeTo("register"))'
       /\ (Elements(unregCallbacks) \subseteq MadeTo("unregister"))'
       /\ (Elements(events) \subseteq MadeTo("unregister"))'
       /\ (busy # NoCall => busy \in MadeTo("register") /\ busy \in Elements(regCallbacks))'
  <2>1. UNCHANGED << regCallbacks, unregCallbacks, events, busy >>
    BY DEF Enter, service
  <2>2. /\ Elements(regCallbacks)' = Elements(regCallbacks) /\ Elements(events)' = Elements(events)
        /\ Elements(unregCallbacks)' = Elements(unregCallbacks)
    BY <2>1 DEF Elements
  <2> QED
    BY <1>1, <1>10, <2>1, <2>2 DEF CallsKept
<1>14. (born <= Len(calls))'
  BY <1>1, <1>n, <1>3 DEF Enter, CallsKept, ClientTyped
<1> QED
  BY <1>5, <1>6, <1>11, <1>12, <1>13, <1>14, TypedParts, PTL DEF TInv, CallsKept

LEMMA EntersTyped ==
    ASSUME TInv, NEW d \in Devices,
           UnregisterEnters(d) \/ \E s \in Descs : RegisterEnters(d, s)
    PROVE  TInv'
<1>1. ASSUME UnregisterEnters(d) PROVE TInv'
  <2>1. "first" \in Descs
    BY DEF Descs
  <2> QED
    BY <1>1, <2>1, EnterTyped DEF UnregisterEnters
<1>2. ASSUME NEW s \in Descs, RegisterEnters(d, s) PROVE TInv'
  BY <1>2, EnterTyped DEF RegisterEnters, Steady
<1> QED
  BY <1>1, <1>2

\* A call that reaches the service.
LEMMA ReachedTyped ==
    ASSUME TInv, NEW c, Reaches(c)
    PROVE  /\ c \in Made /\ c \in Calls /\ Dev(c) \in Devices /\ busy = NoCall
           /\ calling' \subseteq calling /\ UNCHANGED << calls, born >>
           /\ rstInfos' \subseteq Calls /\ unrstInfos' \subseteq Calls => ClientTyped'
<1>1. ClientTyped /\ calling \subseteq Made
  BY TypedParts DEF TInv, CallsKept
<1>2. c \in Made /\ Made \subseteq Calls /\ Dev(c) \in Devices
  BY <1>1, MadeCalls DEF Reaches
<1> QED
  BY <1>1, <1>2 DEF Reaches, ClientTyped

LEMMA RegisterKnownTyped == ASSUME TInv, NEW c, RegisterKnown(c) PROVE TInv'
<1>1. /\ ClientTyped /\ ServiceTyped /\ NodesTyped /\ HistoryTyped /\ CallsKept
  BY TypedParts DEF TInv
<1>2. /\ c \in Made /\ c \in Calls /\ Dev(c) \in Devices /\ busy = NoCall
      /\ calling' \subseteq calling /\ UNCHANGED << calls, born >>
      /\ rstInfos' \subseteq Calls /\ unrstInfos' \subseteq Calls => ClientTyped'
  BY ReachedTyped DEF RegisterKnown
<1>3. /\ HistoryTyped' /\ rstInfos' \subseteq rstInfos /\ unrstInfos' \subseteq unrstInfos
      /\ rstInfos' \subseteq Calls /\ unrstInfos' \subseteq Calls
  BY <1>2, Answered DEF RegisterKnown
<1>4. /\ regCallbacks' \in Seq(Calls)
      /\ Elements(regCallbacks') = Elements(regCallbacks) \cup {c}
  BY <1>1, <1>2, Appended DEF RegisterKnown, ServiceTyped
<1>5. ServiceTyped' /\ NodesTyped'
  BY <1>1, <1>4 DEF RegisterKnown, Reaches, ServiceTyped, NodesTyped, nodes
<1>6. CallsKept'
  <2>1. Elements(regCallbacks') \subseteq MadeTo("register")
    BY <1>1, <1>2, <1>4 DEF RegisterKnown, CallsKept, MadeTo
  <2>2. UNCHANGED << unregCallbacks, events >> /\ busy' = NoCall
    BY <1>2 DEF RegisterKnown
  <2> QED
    BY <1>1, <1>2, <1>3, <2>1, <2>2, StillKept DEF CallsKept
<1> QED
  BY <1>2, <1>3, <1>5, <1>6, TypedParts, PTL DEF TInv

LEMMA RegisterNewTyped == ASSUME TInv, NEW c, RegisterNew(c) PROVE TInv'
<1>1. /\ ClientTyped /\ ServiceTyped /\ NodesTyped /\ HistoryTyped /\ CallsKept
  BY TypedParts DEF TInv
<1>2. /\ c \in Made /\ c \in Calls /\ Dev(c) \in Devices /\ busy = NoCall
      /\ calling' \subseteq calling /\ UNCHANGED << calls, born >>
      /\ rstInfos' \subseteq Calls /\ unrstInfos' \subseteq Calls => ClientTyped'
  BY ReachedTyped DEF RegisterNew
<1>3. /\ rstInfos' = rstInfos /\ unrstInfos' = unrstInfos /\ HistoryTyped'
  BY <1>1 DEF RegisterNew, NoResult, history, HistoryTyped
<1>4. /\ regCallbacks' \in Seq(Calls)
      /\ Elements(regCallbacks') = Elements(regCallbacks) \cup {c}
  BY <1>1, <1>2, Appended DEF RegisterNew, ServiceTyped
<1>5. ServiceTyped' /\ NodesTyped'
  BY <1>1, <1>2, <1>4 DEF RegisterNew, Reaches, ServiceTyped, NodesTyped, nodes
<1>6. CallsKept'
  <2>1. /\ Elements(regCallbacks') \subseteq MadeTo("register")
        /\ busy' \in MadeTo("register") /\ busy' \in Elements(regCallbacks')
    BY <1>1, <1>2, <1>4 DEF RegisterNew, CallsKept, MadeTo
  <2>2. UNCHANGED << unregCallbacks, events >>
    BY DEF RegisterNew
  <2> QED
    BY <1>1, <1>2, <1>3, <2>1, <2>2, StillKept DEF CallsKept
<1>7. ClientTyped'
  BY <1>1, <1>2, <1>3 DEF ClientTyped
<1> QED
  BY <1>3, <1>5, <1>6, <1>7, TypedParts, PTL DEF TInv

LEMMA CloseDevicesTyped ==
    ASSUME NodesTyped, NEW ds \in SUBSET Devices, CloseDevices(ds)
    PROVE  NodesTyped'
<1>1. virtualDeviceMap' \in [Devices -> Node \cup {NoNode}]
  BY DEF NodesTyped, CloseDevices
<1>2. kernel' \in [Paths -> Devices \cup {NoDev}]
  BY DEF NodesTyped, CloseDevices
<1> QED
  BY <1>1, <1>2 DEF NodesTyped, CloseDevices

LEMMA UnregisterFailsTyped == ASSUME TInv, NEW c, UnregisterFails(c) PROVE TInv'
<1>1. /\ ClientTyped /\ ServiceTyped /\ NodesTyped /\ HistoryTyped /\ CallsKept
  BY TypedParts DEF TInv
<1>2. /\ c \in Made /\ c \in Calls /\ Dev(c) \in Devices /\ busy = NoCall
      /\ calling' \subseteq calling /\ UNCHANGED << calls, born >>
      /\ rstInfos' \subseteq Calls /\ unrstInfos' \subseteq Calls => ClientTyped'
  BY ReachedTyped DEF UnregisterFails
<1> DEFINE list == Append(unregCallbacks, c)
           i    == FirstOf(list, Dev(c))
<1>3. /\ list \in Seq(Calls) /\ Len(list) \in Nat /\ Len(list) = Len(unregCallbacks) + 1
      /\ DOMAIN list = 1 .. Len(list)
      /\ list[Len(list)] = c /\ Elements(list) = Elements(unregCallbacks) \cup {c}
  BY <1>1, <1>2, Appended DEF ServiceTyped
<1>4. i \in 1 .. Len(list)
  <2> HIDE DEF list
  <2>1. Len(list) \in 1 .. Len(list)
    BY <1>1, <1>3, LenProperties DEF ServiceTyped
  <2> QED
    BY <1>3, <2>1, FirstIsOf
<1>5. /\ unregCallbacks' \in Seq(Calls)
      /\ Elements(unregCallbacks') \subseteq Elements(unregCallbacks) \cup {c}
  <2>1. unregCallbacks' = RemoveAt(list, i)
    BY DEF UnregisterFails
  <2> HIDE DEF list, i
  <2> QED
    BY <1>3, <1>4, <2>1, Removed, ElementsRemoved
<1>6. /\ HistoryTyped' /\ rstInfos' \subseteq rstInfos /\ unrstInfos' \subseteq unrstInfos
      /\ rstInfos' \subseteq Calls /\ unrstInfos' \subseteq Calls
  <2>1. OnResult(list[i], c, FALSE)
    BY DEF UnregisterFails
  <2>2. list[i] \in Calls
    <3> HIDE DEF list, i
    <3> QED
      BY <1>3, <1>4, ElementOfSeq
  <2> HIDE DEF list, i
  <2> QED
    BY <1>2, <2>1, <2>2, Answered
<1>7. ServiceTyped' /\ NodesTyped'
  BY <1>1, <1>5 DEF UnregisterFails, Reaches, ServiceTyped, NodesTyped, nodes
<1>8. CallsKept'
  <2>1. Elements(unregCallbacks') \subseteq MadeTo("unregister")
    BY <1>1, <1>2, <1>5 DEF UnregisterFails, CallsKept, MadeTo
  <2>2. UNCHANGED << regCallbacks, events >> /\ busy' = NoCall
    BY <1>2 DEF UnregisterFails
  <2> QED
    BY <1>1, <1>2, <1>6, <2>1, <2>2, StillKept DEF CallsKept
<1> QED
  BY <1>2, <1>6, <1>7, <1>8, TypedParts, PTL DEF TInv

\* The first entry of a known device.
LEMMA FirstKnown ==
    ASSUME ServiceTyped, NEW d, IsKnown(d)
    PROVE  EntryOf(d) \in 1 .. Len(inputDevice) /\ inputDevice[EntryOf(d)].dev = d
<1> DEFINE I == {j \in 1 .. Len(inputDevice) : inputDevice[j].dev = d}
<1>1. DOMAIN inputDevice = 1 .. Len(inputDevice) /\ Len(inputDevice) \in Nat
  BY LenProperties DEF ServiceTyped
<1>2. I # {} /\ I \subseteq Nat
  BY <1>1 DEF IsKnown
<1>3. EntryOf(d) = Min(I)
  BY <1>2 DEF EntryOf, SelectInSeq
<1>4. Min(I) \in I
  <2> HIDE DEF I
  <2> QED
    BY <1>2, MinIsIn
<1> QED
  BY <1>3, <1>4

LEMMA UnregisterTyped == ASSUME TInv, NEW c, Unregister(c) PROVE TInv'
<1>1. /\ ClientTyped /\ ServiceTyped /\ NodesTyped /\ HistoryTyped /\ CallsKept
  BY TypedParts DEF TInv
<1>2. /\ c \in Made /\ c \in Calls /\ Dev(c) \in Devices /\ busy = NoCall
      /\ calling' \subseteq calling /\ UNCHANGED << calls, born >>
      /\ rstInfos' \subseteq Calls /\ unrstInfos' \subseteq Calls => ClientTyped'
  BY ReachedTyped DEF Unregister
<1>3. /\ rstInfos' = rstInfos /\ unrstInfos' = unrstInfos /\ HistoryTyped'
  BY <1>1 DEF Unregister, NoResult, history, HistoryTyped
<1>4. /\ unregCallbacks' \in Seq(Calls) /\ events' \in Seq(Calls)
      /\ Elements(unregCallbacks') = Elements(unregCallbacks) \cup {c}
      /\ Elements(events') = Elements(events) \cup {c}
  BY <1>1, <1>2, Appended DEF Unregister, ServiceTyped
<1>5. inputDevice' \in Seq(Known)
  <2>1. EntryOf(Dev(c)) \in 1 .. Len(inputDevice)
    BY <1>1, FirstKnown DEF Unregister
  <2>2. inputDevice' = RemoveAt(inputDevice, EntryOf(Dev(c)))
    BY DEF Unregister
  <2> QED
    BY <1>1, <2>1, <2>2, Removed DEF ServiceTyped
<1>6. NodesTyped'
  <2>1. {Dev(c)} \in SUBSET Devices /\ CloseDevices({Dev(c)})
    BY <1>2 DEF Unregister
  <2> QED
    BY <1>1, <2>1, CloseDevicesTyped
<1>7. ServiceTyped'
  BY <1>1, <1>4, <1>5 DEF Unregister, Reaches, ServiceTyped
<1>8. CallsKept'
  <2>1. /\ Elements(unregCallbacks') \subseteq MadeTo("unregister")
        /\ Elements(events') \subseteq MadeTo("unregister")
    BY <1>1, <1>2, <1>4 DEF Unregister, CallsKept, MadeTo
  <2>2. UNCHANGED regCallbacks /\ busy' = NoCall
    BY <1>2 DEF Unregister
  <2> QED
    BY <1>1, <1>2, <1>3, <2>1, <2>2, StillKept DEF CallsKept
<1>9. ClientTyped'
  BY <1>1, <1>2, <1>3 DEF ClientTyped
<1> QED
  BY <1>3, <1>6, <1>7, <1>8, <1>9, TypedParts, PTL DEF TInv

LEMMA SetUpTyped == ASSUME TInv, NEW p \in Paths, SetUp(p) PROVE TInv'
<1>1. /\ ClientTyped /\ ServiceTyped /\ NodesTyped /\ HistoryTyped /\ CallsKept
  BY TypedParts DEF TInv
<1>2. Dev(busy) \in Devices
  BY <1>1, MadeCalls DEF SetUp, CallsKept, MadeTo
<1>3. NodesTyped'
  BY <1>1, <1>2 DEF SetUp, NodesTyped
<1>4. ClientTyped' /\ ServiceTyped' /\ HistoryTyped'
  BY <1>1 DEF SetUp, client, service, history, ClientTyped, ServiceTyped, HistoryTyped
<1>5. CallsKept'
  BY <1>1, StillKept DEF SetUp, client, service, history, CallsKept
<1> QED
  BY <1>3, <1>4, <1>5, TypedParts, PTL DEF TInv

LEMMA CreateFailsTyped == ASSUME TInv, CreateFails PROVE TInv'
<1>1. /\ ClientTyped /\ ServiceTyped /\ NodesTyped /\ HistoryTyped /\ CallsKept
  BY TypedParts DEF TInv
<1>2. /\ busy \in Made /\ busy \in Calls /\ busy \in Elements(regCallbacks)
  BY <1>1, MadeCalls DEF CreateFails, CallsKept, MadeTo
<1>3. PICK i : i = FirstOf(regCallbacks, Dev(busy))
  OBVIOUS
<1>4. i \in 1 .. Len(regCallbacks)
  <2>1. DOMAIN regCallbacks = 1 .. Len(regCallbacks) /\ Len(regCallbacks) \in Nat
    BY <1>1, LenProperties DEF ServiceTyped
  <2>2. \E j \in 1 .. Len(regCallbacks) : Dev(regCallbacks[j]) = Dev(busy)
    BY <1>2, <2>1 DEF Elements
  <2> QED
    BY <1>3, <2>1, <2>2, FirstIsOf
<1>5. /\ regCallbacks[i] \in Calls
      /\ regCallbacks' = RemoveAt(regCallbacks, i) /\ OnResult(regCallbacks[i], busy, FALSE)
  BY <1>1, <1>3, <1>4, ElementOfSeq DEF CreateFails, ServiceTyped
<1>6. /\ HistoryTyped' /\ rstInfos' \subseteq rstInfos /\ unrstInfos' \subseteq unrstInfos
      /\ rstInfos' \subseteq Calls /\ unrstInfos' \subseteq Calls
  BY <1>2, <1>5, Answered
<1>7. /\ regCallbacks' \in Seq(Calls) /\ Elements(regCallbacks') \subseteq Elements(regCallbacks)
  BY <1>1, <1>4, <1>5, Removed, ElementsRemoved DEF ServiceTyped
<1>8. ClientTyped' /\ ServiceTyped' /\ NodesTyped'
  BY <1>1, <1>6, <1>7 DEF CreateFails, ClientTyped, ServiceTyped, NodesTyped, nodes
<1>9. CallsKept'
  <2>1. UNCHANGED << calls, calling, born, unregCallbacks, events >> /\ busy' = NoCall
    BY DEF CreateFails
  <2>2. Elements(regCallbacks') \subseteq MadeTo("register")
    BY <1>1, <1>7 DEF CallsKept
  <2> QED
    BY <1>1, <1>6, <2>1, <2>2, StillKept DEF CallsKept
<1> QED
  BY <1>6, <1>8, <1>9, TypedParts, PTL DEF TInv

LEMMA AddDeviceTyped == ASSUME TInv, AddDevice PROVE TInv'
<1>1. /\ ClientTyped /\ ServiceTyped /\ NodesTyped /\ HistoryTyped /\ CallsKept
  BY TypedParts DEF TInv
<1>2. /\ busy \in Made /\ busy \in Calls /\ Dev(busy) \in Devices
      /\ Dev(busy) = calls[busy].dev /\ Desc(busy) \in Descs
  BY <1>1, MadeCalls DEF AddDevice, CallsKept, MadeTo, Call, Desc, Dev
<1>3. /\ HistoryTyped' /\ rstInfos' \subseteq rstInfos /\ unrstInfos' \subseteq unrstInfos
      /\ rstInfos' \subseteq Calls /\ unrstInfos' \subseteq Calls
  BY <1>2, Answered DEF AddDevice
<1>4. inputDevice' \in Seq(Known)
  <2>1. [dev |-> Dev(busy), desc |-> Desc(busy)] \in Known
    BY <1>2 DEF Known
  <2> QED
    BY <1>1, <2>1, Appended DEF AddDevice, ServiceTyped
<1>5. scans' \in Seq(Devices)
  BY <1>1, <1>2, Appended DEF AddDevice, NotifyNodeMgrScanVirNode, NodesTyped
<1>6. kernel' \in [Paths -> Devices \cup {NoDev}]
  BY <1>1 DEF AddDevice, NodesTyped
<1>7. virtualDeviceMap' \in [Devices -> Node \cup {NoNode}]
  <2>1. \A p \in Paths : [at |-> p, path |-> NoPath] \in Node
    BY DEF Node
  <2>2. PICK p \in NewAt(Dev(busy)) :
           virtualDeviceMap' = [virtualDeviceMap EXCEPT ![Dev(busy)] = [at |-> p, path |-> NoPath]]
    BY DEF AddDevice
  <2> QED
    BY <1>1, <2>1, <2>2 DEF NewAt, NodesTyped
<1>8. NodesTyped'
  BY <1>1, <1>5, <1>6, <1>7 DEF AddDevice, NodesTyped
<1>9. ClientTyped' /\ ServiceTyped'
  BY <1>1, <1>3, <1>4 DEF AddDevice, ClientTyped, ServiceTyped
<1>10. CallsKept'
  <2>1. UNCHANGED << calls, calling, born, regCallbacks, unregCallbacks, events >> /\ busy' = NoCall
    BY DEF AddDevice
  <2> QED
    BY <1>1, <1>3, <2>1, StillKept DEF CallsKept
<1> QED
  BY <1>3, <1>8, <1>9, <1>10, TypedParts, PTL DEF TInv

LEMMA RunUnregisterCallbackTyped == ASSUME TInv, RunUnregisterCallback PROVE TInv'
<1>1. /\ ClientTyped /\ ServiceTyped /\ NodesTyped /\ HistoryTyped /\ CallsKept
  BY TypedParts DEF TInv
<1>2. /\ events' \in Seq(Calls) /\ Elements(events') \subseteq Elements(events)
      /\ Head(events) \in Elements(events)
  <2>1. events \in Seq(Calls) /\ events # << >> /\ events' = Tail(events)
    BY <1>1 DEF RunUnregisterCallback, ServiceTyped
  <2>2. /\ Tail(events) \in Seq(Calls) /\ Head(events) = events[1] /\ 1 \in DOMAIN events
        /\ Len(events) \in Nat
        /\ DOMAIN events = 1 .. Len(events) /\ DOMAIN Tail(events) = 1 .. Len(events) - 1
        /\ \A i \in 1 .. Len(events) - 1 : Tail(events)[i] = events[i + 1]
    BY <2>1, Tailed
  <2> QED
    BY <2>1, <2>2 DEF Elements
<1>3. PICK c : c = Head(events)
  OBVIOUS
<1>4. PICK i : i = FirstOf(unregCallbacks, Dev(c))
  OBVIOUS
<1>5. c \in Calls
  BY <1>1, <1>2, <1>3, MadeCalls DEF CallsKept, MadeTo
<1>6. CASE i = 0
  <2>1. UNCHANGED << rstInfos, unrstInfos, history, unregCallbacks >>
    BY <1>3, <1>4, <1>6 DEF RunUnregisterCallback, NoResult
  <2>2. ClientTyped' /\ ServiceTyped' /\ NodesTyped' /\ HistoryTyped'
    BY <1>1, <1>2, <2>1
       DEF RunUnregisterCallback, ClientTyped, ServiceTyped, NodesTyped, nodes, HistoryTyped, history
  <2>3. CallsKept'
    BY <1>1, <1>2, <2>1, StillKept DEF RunUnregisterCallback, CallsKept
  <2> QED
    BY <2>2, <2>3, TypedParts, PTL DEF TInv
<1>7. CASE i # 0
  <2>1. i \in 1 .. Len(unregCallbacks) /\ unregCallbacks \in Seq(Calls)
    <3>1. unregCallbacks \in Seq(Calls) /\ Len(unregCallbacks) \in Nat
      BY <1>1, LenProperties DEF ServiceTyped
    <3> QED
      BY <1>4, <1>7, <3>1, FirstIsOf
  <2>2. /\ OnResult(unregCallbacks[i], c, TRUE) /\ unregCallbacks[i] \in Calls
        /\ unregCallbacks' = RemoveAt(unregCallbacks, i)
    BY <1>3, <1>4, <1>7, <2>1, ElementOfSeq DEF RunUnregisterCallback
  <2>3. /\ HistoryTyped' /\ rstInfos' \subseteq rstInfos /\ unrstInfos' \subseteq unrstInfos
        /\ rstInfos' \subseteq Calls /\ unrstInfos' \subseteq Calls
    BY <1>5, <2>2, Answered
  <2>4. unregCallbacks' \in Seq(Calls) /\ Elements(unregCallbacks') \subseteq Elements(unregCallbacks)
    BY <2>1, <2>2, Removed, ElementsRemoved
  <2>5. ClientTyped' /\ ServiceTyped' /\ NodesTyped'
    BY <1>1, <1>2, <2>3, <2>4 DEF RunUnregisterCallback, ClientTyped, ServiceTyped, NodesTyped, nodes
  <2>6. CallsKept'
    <3>1. UNCHANGED << calls, calling, born, regCallbacks, busy >>
      BY DEF RunUnregisterCallback
    <3>2. /\ Elements(unregCallbacks') \subseteq MadeTo("unregister")
          /\ Elements(events') \subseteq MadeTo("unregister")
      BY <1>1, <1>2, <2>4 DEF CallsKept
    <3> QED
      BY <1>1, <2>3, <3>1, <3>2, StillKept DEF CallsKept
  <2> QED
    BY <2>3, <2>5, <2>6, TypedParts, PTL DEF TInv
<1> QED
  BY <1>6, <1>7

LEMMA ReleaseTyped == ASSUME TInv, Release PROVE TInv'
<1>1. /\ ClientTyped /\ ServiceTyped /\ NodesTyped /\ HistoryTyped /\ CallsKept
  BY TypedParts DEF TInv
<1>2. NodesTyped'
  <2>1. {d \in Devices : IsKnown(d) /\ Has(d)} \in SUBSET Devices
    OBVIOUS
  <2> QED
    BY <1>1, <2>1, CloseDevicesTyped DEF Release
<1>3. << >> \in Seq(Known)
  OBVIOUS
<1>4. ClientTyped' /\ ServiceTyped' /\ HistoryTyped'
  BY <1>1, <1>3 DEF Release, client, history, ClientTyped, ServiceTyped, HistoryTyped
<1>5. CallsKept'
  BY <1>1, StillKept DEF Release, client, history, CallsKept
<1> QED
  BY <1>2, <1>4, <1>5, TypedParts, PTL DEF TInv

\* The search for paths.
LEMMA ScanTyped ==
    ASSUME TInv, ScanAllNode \/ SetPathForVirDev \/ \E p \in Paths : MatchPath(p)
    PROVE  TInv'
<1>1. /\ ClientTyped /\ ServiceTyped /\ NodesTyped /\ HistoryTyped /\ CallsKept
  BY TypedParts DEF TInv
<1>2. UNCHANGED << client, service, history >>
  BY DEF ScanAllNode, SetPathForVirDev, MatchPath
<1>3. ClientTyped' /\ ServiceTyped' /\ HistoryTyped'
  BY <1>1, <1>2 DEF client, service, history, ClientTyped, ServiceTyped, HistoryTyped
<1>4. CallsKept'
  BY <1>1, <1>2, StillKept DEF client, service, history, CallsKept
<1>5. ASSUME ScanAllNode PROVE NodesTyped'
  <2>1. scans \in Seq(Devices) /\ scans # << >>
    BY <1>1, <1>5 DEF ScanAllNode, NodesTyped
  <2>2. Head(scans) \in Devices /\ Tail(scans) \in Seq(Devices)
    BY <2>1, HeadTailProperties
  <2> QED
    BY <1>1, <1>5, <2>2 DEF ScanAllNode, NodesTyped
<1>6. ASSUME SetPathForVirDev PROVE NodesTyped'
  <2>1. virtualDeviceMap' \in [Devices -> Node \cup {NoNode}]
    <3>1. CASE found # NoPath /\ Has(scanning.dev) /\ scanning.dev \in Devices
      <4>1. virtualDeviceMap[scanning.dev] \in Node
        BY <1>1, <3>1 DEF NodesTyped, Has
      <4>2. [virtualDeviceMap[scanning.dev] EXCEPT !.path = found] \in Node
        BY <1>1, <4>1 DEF Node, NodesTyped
      <4>3. virtualDeviceMap' = [virtualDeviceMap EXCEPT ![scanning.dev] =
                                    [virtualDeviceMap[scanning.dev] EXCEPT !.path = found]]
        BY <1>1, <1>6, <3>1 DEF SetPathForVirDev, NodesTyped
      <4> QED
        BY <1>1, <3>1, <4>2, <4>3 DEF NodesTyped
    <3>2. CASE ~(found # NoPath /\ Has(scanning.dev))
      BY <1>1, <1>6, <3>2 DEF SetPathForVirDev, NodesTyped
    <3>3. CASE scanning.dev \notin Devices
      <4>1. [virtualDeviceMap EXCEPT ![scanning.dev].path = found] = virtualDeviceMap
        BY <1>1, <3>3 DEF NodesTyped
      <4> QED
        BY <1>1, <1>6, <4>1 DEF SetPathForVirDev, NodesTyped
    <3> QED
      BY <3>1, <3>2, <3>3
  <2>2. scanning' = Idle /\ Idle \in [dev : Devices \cup {NoDev}, left : SUBSET Paths]
    BY <1>6 DEF SetPathForVirDev, Idle
  <2> QED
    BY <1>1, <1>6, <2>1, <2>2 DEF SetPathForVirDev, NodesTyped
<1>7. ASSUME NEW p \in Paths, MatchPath(p) PROVE NodesTyped'
  BY <1>1, <1>7 DEF MatchPath, NodesTyped
<1> QED
  <2>1. NodesTyped'
    BY <1>5, <1>6, <1>7
  <2> QED
    BY <1>3, <1>4, <2>1, TypedParts, PTL DEF TInv

\* Exits and deaths.
LEMMA ServiceExitsTyped == ASSUME TInv, ServiceExits PROVE TInv'
<1>1. /\ ClientTyped /\ ServiceTyped /\ NodesTyped /\ HistoryTyped /\ CallsKept
  BY TypedParts DEF TInv
<1>2. << >> \in Seq(Calls) /\ << >> \in Seq(Known) /\ << >> \in Seq(Devices)
  OBVIOUS
<1>3. ClientTyped'
  BY <1>1 DEF ServiceExits, ClientTyped
<1>4. ServiceTyped'
  <2>1. exits' \in 0 .. MaxExits
    BY <1>1, RegistrationAssumption DEF ServiceExits, ServiceTyped
  <2>2. up' \in BOOLEAN /\ released' \in BOOLEAN /\ busy' \in Calls \cup {NoCall}
    BY DEF ServiceExits
  <2> QED
    BY <1>2, <2>1, <2>2 DEF ServiceExits, ServiceTyped
<1>5. NodesTyped'
  <2>1. Idle \in [dev : Devices \cup {NoDev}, left : SUBSET Paths]
    BY DEF Idle
  <2> QED
    BY <1>2, <2>1 DEF ServiceExits, NodesTyped
<1>6. HistoryTyped'
  BY <1>1 DEF ServiceExits, HistoryTyped, ClientTyped
<1>7. CallsKept'
  <2>1. Elements(<< >>) = {}
    BY DEF Elements
  <2>2. /\ regCallbacks' = << >> /\ unregCallbacks' = << >> /\ events' = << >> /\ busy' = NoCall
        /\ UNCHANGED << calls, born, calling, rstInfos, unrstInfos >>
    BY DEF ServiceExits
  <2> QED
    BY <1>1, <2>1, <2>2, StillKept DEF CallsKept
<1> QED
  BY <1>3, <1>4, <1>5, <1>6, <1>7, TypedParts, PTL DEF TInv

LEMMA ProxyTyped ==
    ASSUME TInv, OnRemoveSystemAbility \/ ServiceStarts \/ GetDInputSourceProxy
                 \/ \E c \in Calls : CallFails(c)
    PROVE  TInv'
<1>1. /\ ClientTyped /\ ServiceTyped /\ NodesTyped /\ HistoryTyped /\ CallsKept
  BY TypedParts DEF TInv
<1>2. ClientTyped' /\ ServiceTyped' /\ NodesTyped' /\ HistoryTyped'
  BY <1>1 DEF OnRemoveSystemAbility, ServiceStarts, GetDInputSourceProxy, CallFails, client,
              service, nodes, history, ClientTyped, ServiceTyped, NodesTyped, HistoryTyped
<1>3. UNCHANGED << calls, born, rstInfos, unrstInfos, regCallbacks, unregCallbacks, events, busy >>
      /\ calling' \subseteq calling
  BY DEF OnRemoveSystemAbility, ServiceStarts, GetDInputSourceProxy, CallFails, client, service
<1>4. CallsKept'
  BY <1>1, <1>3, StillKept DEF CallsKept
<1> QED
  BY <1>2, <1>4, TypedParts, PTL DEF TInv

LEMMA DeathTyped ==
    ASSUME TInv, ClientDies \/ \E c \in Calls : CallsNobody(c)
    PROVE  TInv'
<1>1. /\ ClientTyped /\ ServiceTyped /\ NodesTyped /\ HistoryTyped /\ CallsKept
  BY TypedParts DEF TInv
<1>2. Die /\ proxy' \in {"live", "no"}
  BY DEF ClientDies, CallsNobody
<1>3. Len(calls) \in Nat
  BY <1>1, MadeCalls
<1>4. ClientTyped'
  BY <1>1, <1>2, <1>3, RegistrationAssumption DEF Die, ClientTyped
<1>5. ServiceTyped' /\ NodesTyped' /\ HistoryTyped'
  BY <1>1, <1>2 DEF Die, service, nodes, ServiceTyped, NodesTyped, HistoryTyped, ClientTyped
<1>6. CallsKept'
  <2>1. /\ UNCHANGED << calls, regCallbacks, unregCallbacks, events, busy >>
        /\ calling' = {} /\ rstInfos' = {} /\ unrstInfos' = {} /\ born' = Len(calls)
    BY <1>2 DEF Die, service
  <2>2. born' <= Len(calls')
    BY <1>3, <2>1
  <2>3. /\ Made' = Made /\ MadeTo("register")' = MadeTo("register")
        /\ MadeTo("unregister")' = MadeTo("unregister")
    BY <2>1 DEF Made, MadeTo, Kind
  <2>4. (\A c \in Made : Dev(c) \in Steady => Desc(c) = "first")'
    BY <1>1, <2>1, <2>3 DEF CallsKept, Dev, Desc, Steady
  <2>5. /\ Elements(regCallbacks)' = Elements(regCallbacks) /\ Elements(events)' = Elements(events)
        /\ Elements(unregCallbacks)' = Elements(unregCallbacks)
    BY <2>1 DEF Elements
  <2> QED
    BY <1>1, <2>1, <2>2, <2>3, <2>4, <2>5 DEF CallsKept
<1> QED
  BY <1>4, <1>5, <1>6, TypedParts, PTL DEF TInv

LEMMA InitTyped == Init => TInv
<1> SUFFICES ASSUME Init PROVE TInv
  OBVIOUS
<1>1. /\ << >> \in Seq(Call) /\ << >> \in Seq(Calls) /\ << >> \in Seq(Known) /\ << >> \in Seq(Devices)
      /\ Len(<< >>) = 0 /\ Elements(<< >>) = {}
  BY DEF Elements
<1>2. ClientTyped
  BY <1>1, RegistrationAssumption DEF Init, ClientTyped
<1>3. ServiceTyped
  <2>1. exits \in 0 .. MaxExits
    BY RegistrationAssumption DEF Init
  <2>2. up \in BOOLEAN /\ released \in BOOLEAN /\ busy \in Calls \cup {NoCall}
    BY DEF Init
  <2> QED
    BY <1>1, <2>1, <2>2 DEF Init, ServiceTyped
<1>4. NodesTyped
  BY <1>1 DEF Init, NodesTyped, Idle
<1>5. HistoryTyped
  BY DEF Init, HistoryTyped
<1>6. CallsKept
  BY <1>1 DEF Init, CallsKept, Made, MadeTo
<1> QED
  BY <1>2, <1>3, <1>4, <1>5, <1>6, TypedParts DEF TInv

LEMMA NextTyped == TInv /\ [Next]_vars => TInv'
<1> SUFFICES ASSUME TInv, [Next]_vars PROVE TInv'
  OBVIOUS
<1>1. ASSUME UNCHANGED vars PROVE TInv'
  <2>1. /\ ClientTyped /\ ServiceTyped /\ NodesTyped /\ HistoryTyped /\ CallsKept
    BY TypedParts DEF TInv
  <2>2. UNCHANGED << client, service, nodes, history >>
    BY <1>1 DEF vars
  <2>3. ClientTyped' /\ ServiceTyped' /\ NodesTyped' /\ HistoryTyped'
    BY <2>1, <2>2 DEF client, service, nodes, history, ClientTyped, ServiceTyped, NodesTyped, HistoryTyped
  <2>4. CallsKept'
    BY <2>1, <2>2, StillKept DEF client, service, CallsKept
  <2> QED
    BY <2>3, <2>4, TypedParts, PTL DEF TInv
<1>2. ASSUME NEW d \in Devices, UnregisterEnters(d) \/ \E s \in Descs : RegisterEnters(d, s)
      PROVE  TInv'
  BY <1>2, EntersTyped
<1>3. ASSUME NEW c \in Calls,
             RegisterKnown(c) \/ RegisterNew(c) \/ UnregisterFails(c) \/ Unregister(c)
      PROVE  TInv'
  BY <1>3, RegisterKnownTyped, RegisterNewTyped, UnregisterFailsTyped, UnregisterTyped
<1>4. ASSUME NEW p \in Paths, SetUp(p) PROVE TInv'
  BY <1>4, SetUpTyped
<1>5. ASSUME ScanAllNode \/ SetPathForVirDev \/ \E p \in Paths : MatchPath(p) PROVE TInv'
  BY <1>5, ScanTyped
<1>6. ASSUME CreateFails \/ AddDevice \/ RunUnregisterCallback \/ Release PROVE TInv'
  BY <1>6, CreateFailsTyped, AddDeviceTyped, RunUnregisterCallbackTyped, ReleaseTyped
<1>7. ASSUME ServiceExits \/ ClientDies \/ \E c \in Calls : CallsNobody(c) PROVE TInv'
  BY <1>7, ServiceExitsTyped, DeathTyped
<1>8. ASSUME OnRemoveSystemAbility \/ ServiceStarts \/ GetDInputSourceProxy
             \/ \E c \in Calls : CallFails(c)
      PROVE  TInv'
  BY <1>8, ProxyTyped
<1> QED
  BY <1>1, <1>2, <1>3, <1>4, <1>5, <1>6, <1>7, <1>8 DEF Next

(***************************************************************************)
(* The devices known, their nodes and the paths.                           *)
(***************************************************************************)
NodeInv == SteadyOnce /\ NodesKept /\ PathsDue

\* A step that has nothing to do with nodes.
Still ==
    /\ UNCHANGED << inputDevice, kernel, virtualDeviceMap, scans, scanning, found >>
    /\ \A d : Making(d)' <=> Making(d)

LEMMA StillKeepsNodes == ASSUME NodeInv, Still PROVE NodeInv'
<1>1. /\ \A d : Has(d)' <=> Has(d)
      /\ \A d : IsKnown(d)' <=> IsKnown(d)
      /\ \A d : NewAt(d)' = NewAt(d)
      /\ \A d : Making(d)' <=> Making(d)
  BY DEF Still, Has, IsKnown, NewAt
<1>2. SteadyOnce'
  BY <1>1 DEF Still, NodeInv, SteadyOnce, Has, IsKnown, Steady
<1>3. NodesKept'
  BY <1>1 DEF Still, NodeInv, NodesKept, Has, IsKnown
<1>4. \A d : Renewed(d)' <=> Renewed(d)
  BY <1>1 DEF Still, Renewed
<1>5. PathsDue'
  BY <1>1, <1>4 DEF Still, NodeInv, PathsDue
<1> QED
  BY <1>2, <1>3, <1>5 DEF NodeInv

\* Which node is being created does not change.
LEMMA MakingStays ==
    ASSUME TInv, busy' = busy,
           UNCHANGED calls \/ \E kind, d, s : Enter(kind, d, s)
    PROVE  \A d : Making(d)' <=> Making(d)
<1>1. CASE UNCHANGED calls
  BY <1>1 DEF Making, Dev
<1>2. CASE \E kind, d, s : Enter(kind, d, s)
  <2>1. busy # NoCall => calls'[busy] = calls[busy]
    <3>1. ClientTyped /\ (busy # NoCall => busy \in Made)
      BY TypedParts DEF TInv, CallsKept, MadeTo
    <3>2. PICK e : calls' = Append(calls, e)
      BY <1>2 DEF Enter
    <3>3. Len(calls) \in Nat /\ calls \in Seq(Call)
      BY <3>1, MadeCalls DEF ClientTyped
    <3>4. \A i \in 1 .. Len(calls) : Append(calls, e)[i] = calls[i]
      BY <3>3
    <3> QED
      BY <3>1, <3>2, <3>4 DEF Made
  <2> QED
    BY <2>1 DEF Making, Dev
<1> QED
  BY <1>1, <1>2

\* The moves of the nodes are these.
LEMMA NodeMoves ==
    ASSUME TInv, [Next]_vars
    PROVE  \/ Still
           \/ \E c \in Calls : RegisterNew(c) \/ Unregister(c)
           \/ \E p \in Paths : SetUp(p) \/ MatchPath(p)
           \/ CreateFails \/ AddDevice \/ Release \/ ScanAllNode \/ SetPathForVirDev
           \/ ServiceExits
<1>1. ASSUME UNCHANGED << inputDevice, kernel, virtualDeviceMap, scans, scanning, found, busy >>,
             UNCHANGED calls \/ \E kind, d, s : Enter(kind, d, s)
      PROVE  Still
  BY <1>1, MakingStays DEF Still
<1>2. ASSUME UNCHANGED vars PROVE Still
  BY <1>1, <1>2 DEF vars, client, service, nodes
<1>3. ASSUME NEW d \in Devices, UnregisterEnters(d) \/ \E s \in Descs : RegisterEnters(d, s)
      PROVE  Still
  <2>1. \E kind, s : Enter(kind, d, s)
    BY <1>3 DEF UnregisterEnters, RegisterEnters
  <2>2. \E kind, e, s : Enter(kind, e, s)
    BY <2>1
  <2> QED
    BY <1>1, <2>2 DEF Enter, service, nodes
<1>4. ASSUME NEW c \in Calls, RegisterKnown(c) \/ UnregisterFails(c) PROVE Still
  <2>1. UNCHANGED << inputDevice, nodes, busy, calls >>
    BY <1>4 DEF RegisterKnown, UnregisterFails, Reaches
  <2> QED
    BY <1>1, <2>1 DEF nodes
<1>5. ASSUME RunUnregisterCallback PROVE Still
  BY <1>1, <1>5 DEF RunUnregisterCallback, nodes
<1>6. ASSUME OnRemoveSystemAbility \/ ServiceStarts \/ GetDInputSourceProxy \/ ClientDies
             \/ \E c \in Calls : CallFails(c) \/ CallsNobody(c)
      PROVE  Still
  <2>1. UNCHANGED << inputDevice, nodes, busy, calls >>
    BY <1>6 DEF OnRemoveSystemAbility, ServiceStarts, GetDInputSourceProxy, CallFails,
                CallsNobody, ClientDies, Die, client, service
  <2> QED
    BY <1>1, <2>1 DEF nodes
<1> QED
  BY <1>2, <1>3, <1>4, <1>5, <1>6 DEF Next

LEMMA RegisterNewKeepsNodes ==
    ASSUME TInv, NodeInv, NEW c, RegisterNew(c)
    PROVE  NodeInv'
<1>1. /\ c \in Made /\ busy = NoCall /\ busy' = c /\ c # NoCall
      /\ UNCHANGED << calls, inputDevice, kernel, virtualDeviceMap, scans, scanning, found >>
  <2>1. c \in Made /\ busy = NoCall
    BY ReachedTyped DEF RegisterNew
  <2> QED
    BY <2>1 DEF RegisterNew, Reaches, nodes, Made, NoCall
<1>2. /\ \A d : ~ Making(d)
      /\ \A d : Making(d)' <=> d = Dev(c)
      /\ \A d : Has(d)' <=> Has(d)
      /\ \A d : IsKnown(d)' <=> IsKnown(d)
  BY <1>1 DEF Making, Dev, Has, IsKnown
<1>3. Dev(c) \in Steady => ~ IsKnown(Dev(c))
  <2> SUFFICES ASSUME Dev(c) \in Steady, IsKnown(Dev(c)) PROVE FALSE
    OBVIOUS
  <2>1. Desc(c) = "first"
    BY <1>1 DEF TInv, CallsKept
  <2>2. inputDevice \in Seq(Known) /\ DOMAIN inputDevice = 1 .. Len(inputDevice)
    BY LenProperties DEF TInv, TypeOK
  <2>3. PICK i \in DOMAIN inputDevice : inputDevice[i].dev = Dev(c)
    BY DEF IsKnown
  <2>4. inputDevice[i].desc = "first"
    BY <2>3 DEF NodeInv, SteadyOnce
  <2>5. inputDevice[i] \in Known
    BY <2>2, <2>3, ElementOfSeq
  <2>6. inputDevice[i] = [dev |-> Dev(c), desc |-> Desc(c)]
    BY <2>1, <2>3, <2>4, <2>5 DEF Known
  <2> QED
    BY <2>2, <2>6 DEF RegisterNew, Contains
<1>4. SteadyOnce'
  BY <1>1, <1>2, <1>3 DEF NodeInv, SteadyOnce, Steady
<1>5. NodesKept'
  BY <1>1, <1>2 DEF NodeInv, NodesKept
<1>6. \A d : Renewed(d) => Renewed(d)'
  BY <1>1, <1>2 DEF Renewed
<1>7. PathsDue'
  BY <1>1, <1>2, <1>6 DEF NodeInv, PathsDue
<1> QED
  BY <1>4, <1>5, <1>7 DEF NodeInv

\* A device has a node when its node has a place.
LEMMA HasPlace ==
    ASSUME NodesTyped, NEW d \in Devices
    PROVE  Has(d) <=> virtualDeviceMap[d].at \in Paths
<1>1. virtualDeviceMap[d] \in Node \cup {NoNode}
  BY DEF NodesTyped
<1>2. NoNode.at \notin Paths
  BY DEF NoNode, Paths, NoPath
<1>3. \A n \in Node : n.at \in Paths
  BY DEF Node
<1> QED
  BY <1>1, <1>2, <1>3 DEF Has

LEMMA HavePlaces ==
    NodesTyped => \A d \in Devices : Has(d) <=> virtualDeviceMap[d].at \in Paths
BY HasPlace

LEMMA SetUpKeepsNodes ==
    ASSUME TInv, NodeInv, NEW p \in Paths, SetUp(p)
    PROVE  NodeInv'
<1> DEFINE b == Dev(busy)
<1>1. /\ NodesTyped /\ busy # NoCall /\ b \in Devices /\ kernel[p] = NoDev
      /\ kernel' = [kernel EXCEPT ![p] = b]
      /\ UNCHANGED << calls, busy, inputDevice, virtualDeviceMap, scans, scanning, found >>
  BY TypedParts, MadeCalls DEF TInv, CallsKept, MadeTo, SetUp, client, service
<1>2. /\ \A d : Making(d)' <=> Making(d)
      /\ \A d : Has(d)' <=> Has(d)
      /\ \A d : IsKnown(d)' <=> IsKnown(d)
      /\ Making(b)
  BY <1>1 DEF Making, Dev, Has, IsKnown
<1>3. kernel'[p] = b /\ \A q \in Paths : q # p => kernel'[q] = kernel[q]
  BY <1>1 DEF NodesTyped
<1>4. SteadyOnce'
  BY <1>1, <1>2 DEF NodeInv, SteadyOnce, Steady
<1>5. NodesKept'
  <2>1. \A d \in Devices : Has(d) => virtualDeviceMap[d].at # p
    BY <1>1, RegistrationAssumption DEF NodeInv, NodesKept
  <2>2. (\A d \in Devices : Has(d) => /\ virtualDeviceMap[d].at \in Paths
                                      /\ kernel[virtualDeviceMap[d].at] = d
                                      /\ IsKnown(d))'
    BY <1>1, <1>2, <1>3, <2>1 DEF NodeInv, NodesKept
  <2>3. ASSUME NEW q \in Paths, NEW k, k = kernel'[q], k # NoDev
        PROVE  (Has(k)' /\ q = virtualDeviceMap'[k].at) \/ Making(k)'
    <3>1. CASE q = p
      BY <1>2, <1>3, <2>3, <3>1
    <3>2. CASE q # p
      <4>1. (Has(k) /\ q = virtualDeviceMap[k].at) \/ Making(k)
        BY <1>3, <2>3, <3>2 DEF NodeInv, NodesKept
      <4> QED
        BY <1>1, <1>2, <4>1
    <3> QED
      BY <3>1, <3>2
  <2>4. scanning'.dev = NoDev => scanning' = Idle /\ found' = NoPath
    BY <1>1 DEF NodeInv, NodesKept
  <2> QED
    BY <2>2, <2>3, <2>4 DEF NodesKept, Idle
<1>6. ASSUME NEW d \in Devices, Renewed(d) PROVE Renewed(d)'
  <2>1. NewAt(d) \subseteq NewAt(d)'
    BY <1>1, <1>3, RegistrationAssumption DEF NewAt
  <2> QED
    BY <1>1, <1>2, <1>6, <2>1 DEF Renewed
<1>7. PathsDue'
  BY <1>1, <1>2, <1>6 DEF NodeInv, PathsDue
<1> QED
  BY <1>4, <1>5, <1>7 DEF NodeInv

LEMMA CreateFailsKeepsNodes == ASSUME TInv, NodeInv, CreateFails PROVE NodeInv'
<1>1. /\ NodesTyped /\ busy # NoCall /\ NewAt(Dev(busy)) = {} /\ busy' = NoCall
      /\ UNCHANGED << calls, inputDevice, kernel, virtualDeviceMap, scans, scanning, found >>
  BY TypedParts DEF TInv, CreateFails, nodes
<1>2. /\ \A d : Has(d)' <=> Has(d)
      /\ \A d : IsKnown(d)' <=> IsKnown(d)
      /\ \A d : ~ Making(d)'
      /\ \A d : Making(d) => NewAt(d) = {}
  BY <1>1 DEF Making, Has, IsKnown
<1>3. SteadyOnce'
  BY <1>1, <1>2 DEF NodeInv, SteadyOnce, Steady
<1>4. NodesKept'
  <2>1. ASSUME NEW q \in Paths, NEW k, k = kernel[q], k # NoDev
        PROVE  Has(k) /\ q = virtualDeviceMap[k].at
    <3>1. CASE Making(k)
      <4>1. q = virtualDeviceMap[k].at /\ k \in Devices
        BY <1>1, <1>2, <2>1, <3>1 DEF NewAt, NodesTyped
      <4> QED
        BY <1>1, <4>1, HasPlace
    <3>2. CASE ~ Making(k)
      BY <2>1, <3>2 DEF NodeInv, NodesKept
    <3> QED
      BY <3>1, <3>2
  <2>2. /\ \A d \in Devices : Has(d)' => /\ virtualDeviceMap'[d].at \in Paths
                                         /\ kernel'[virtualDeviceMap'[d].at] = d
                                         /\ IsKnown(d)'
        /\ scanning'.dev = NoDev => scanning' = Idle /\ found' = NoPath
    BY <1>1, <1>2 DEF NodeInv, NodesKept
  <2>3. ASSUME NEW q \in Paths, NEW k, k = kernel'[q], k # NoDev
        PROVE  Has(k)' /\ q = virtualDeviceMap'[k].at
    BY <1>1, <1>2, <2>1, <2>3
  <2> QED
    BY <2>2, <2>3 DEF NodesKept, Idle
<1>5. \A d : Renewed(d) => Renewed(d)'
  BY <1>1, <1>2 DEF Renewed
<1>6. PathsDue'
  BY <1>1, <1>2, <1>5 DEF NodeInv, PathsDue
<1> QED
  BY <1>3, <1>4, <1>6 DEF NodeInv

LEMMA AddDeviceKeepsNodes == ASSUME TInv, NodeInv, AddDevice PROVE NodeInv'
<1>b. PICK b : b = Dev(busy)
  OBVIOUS
<1>p. PICK p \in NewAt(b) :
         /\ kernel' = [q \in Paths |-> IF kernel[q] = b /\ q # p THEN NoDev ELSE kernel[q]]
         /\ virtualDeviceMap' = [virtualDeviceMap EXCEPT ![b] = [at |-> p, path |-> NoPath]]
  BY <1>b DEF AddDevice
<1>e. PICK e : e = [dev |-> b, desc |-> Desc(busy)]
  OBVIOUS
<1>1. /\ NodesTyped /\ ServiceTyped /\ busy # NoCall /\ b \in Devices /\ Making(b) /\ busy' = NoCall
      /\ b \in Steady => Desc(busy) = "first"
      /\ e \in Known
  <2>1. busy \in Made /\ calls[busy] \in Call
    BY TypedParts, MadeCalls DEF TInv, CallsKept, MadeTo, AddDevice
  <2>2. Desc(busy) \in Descs /\ b \in Devices
    BY <1>b, <2>1 DEF Call, Desc, Dev
  <2> QED
    BY <1>b, <1>e, <2>1, <2>2, TypedParts DEF TInv, CallsKept, AddDevice, Making, Known
<1>2. /\ scans' = Append(scans, b) /\ inputDevice' = Append(inputDevice, e)
      /\ UNCHANGED << calls, scanning, found >>
  BY <1>b, <1>e DEF AddDevice, NotifyNodeMgrScanVirNode
<1>3. /\ p \in Paths /\ kernel[p] = b /\ virtualDeviceMap'[b] = [at |-> p, path |-> NoPath]
      /\ \A d \in Devices : d # b => virtualDeviceMap'[d] = virtualDeviceMap[d]
      /\ kernel'[p] = b
      /\ \A q \in Paths : q # p => kernel'[q] = IF kernel[q] = b THEN NoDev ELSE kernel[q]
  BY <1>1, <1>p DEF NewAt, NodesTyped
<1>4. /\ Has(b)' /\ \A d \in Devices : d # b => (Has(d)' <=> Has(d))
      /\ \A d : ~ Making(d)'
      /\ \A d : Making(d) => d = b
  <2>1. p # NoPath
    BY <1>3 DEF Paths, NoPath
  <2>2. virtualDeviceMap'[b].at # NoNode.at
    BY <1>3, <2>1 DEF NoNode
  <2> QED
    BY <1>b, <1>1, <1>3, <2>2 DEF Has, Making, NoNode
<1>5. /\ DOMAIN inputDevice = 1 .. Len(inputDevice) /\ Len(inputDevice) \in Nat
      /\ DOMAIN inputDevice' = 1 .. Len(inputDevice) + 1
      /\ \A i \in 1 .. Len(inputDevice) : inputDevice'[i] = inputDevice[i]
      /\ inputDevice'[Len(inputDevice) + 1] = e
  BY <1>1, <1>2, Appended DEF ServiceTyped
<1>6. IsKnown(b)' /\ \A d : IsKnown(d) => IsKnown(d)'
  <2>1. e.dev = b
    BY <1>e
  <2>2. Len(inputDevice) + 1 \in DOMAIN inputDevice' /\ DOMAIN inputDevice \subseteq DOMAIN inputDevice'
    BY <1>5
  <2> QED
    BY <1>5, <2>1, <2>2 DEF IsKnown
<1>7. SteadyOnce'
  <2>1. e.dev = b /\ (b \in Steady => e.desc = "first")
    BY <1>e, <1>1
  <2>2. b \in Steady => \A i \in 1 .. Len(inputDevice) : inputDevice[i].dev # b
    BY <1>1, <1>5 DEF NodeInv, SteadyOnce, IsKnown
  <2>3. \A i \in DOMAIN inputDevice' : i \in 1 .. Len(inputDevice) \/ i = Len(inputDevice) + 1
    BY <1>5
  <2>4. (\A i \in DOMAIN inputDevice :
           inputDevice[i].dev \in Steady => /\ inputDevice[i].desc = "first"
                                            /\ Has(inputDevice[i].dev))'
    <3>1. ASSUME NEW i \in DOMAIN inputDevice', NEW d \in Steady, inputDevice'[i].dev = d
          PROVE  inputDevice'[i].desc = "first" /\ Has(d)'
      <4>1. CASE i = Len(inputDevice) + 1
        BY <1>4, <1>5, <2>1, <3>1, <4>1
      <4>2. CASE i \in 1 .. Len(inputDevice)
        BY <1>1, <1>4, <1>5, <3>1, <4>2 DEF NodeInv, SteadyOnce, Steady
      <4> QED
        BY <2>3, <4>1, <4>2
    <3> QED
      BY <3>1 DEF Steady
  <2>5. (\A i, j \in DOMAIN inputDevice :
           inputDevice[i].dev \in Steady /\ inputDevice[i].dev = inputDevice[j].dev => i = j)'
    <3>1. ASSUME NEW i \in DOMAIN inputDevice', NEW j \in DOMAIN inputDevice',
                 inputDevice'[i].dev \in Steady, inputDevice'[i].dev = inputDevice'[j].dev
          PROVE  i = j
      <4>1. CASE i \in 1 .. Len(inputDevice) /\ j \in 1 .. Len(inputDevice)
        BY <1>5, <3>1, <4>1 DEF NodeInv, SteadyOnce
      <4>2. CASE i = Len(inputDevice) + 1 \/ j = Len(inputDevice) + 1
        BY <1>5, <2>1, <2>2, <2>3, <3>1, <4>2
      <4> QED
        BY <2>3, <4>1, <4>2
    <3> QED
      BY <3>1 DEF Steady
  <2>6. (\A d \in Steady : Making(d) => ~ IsKnown(d))'
    BY <1>4 DEF Steady
  <2> QED
    BY <2>4, <2>5, <2>6 DEF SteadyOnce
<1>8. NodesKept'
  <2>1. ASSUME NEW d \in Devices, Has(d)'
        PROVE  /\ virtualDeviceMap'[d].at \in Paths
               /\ kernel'[virtualDeviceMap'[d].at] = d
               /\ IsKnown(d)'
    <3>1. CASE d = b
      BY <1>3, <1>6, <3>1
    <3>2. CASE d # b
      <4>1. /\ virtualDeviceMap[d].at \in Paths /\ kernel[virtualDeviceMap[d].at] = d
            /\ IsKnown(d) /\ virtualDeviceMap'[d] = virtualDeviceMap[d]
        BY <1>3, <1>4, <2>1, <3>2 DEF NodeInv, NodesKept
      <4> QED
        BY <1>3, <1>6, <3>2, <4>1
    <3> QED
      BY <3>1, <3>2
  <2>2. ASSUME NEW q \in Paths, NEW k, k = kernel'[q], k # NoDev
        PROVE  Has(k)' /\ q = virtualDeviceMap'[k].at
    <3>1. CASE q = p
      BY <1>3, <1>4, <2>2, <3>1
    <3>2. CASE q # p
      <4>1. k = kernel[q] /\ k # b /\ k \in Devices
        BY <1>1, <1>3, <2>2, <3>2 DEF NodesTyped
      <4>2. Has(k) /\ q = virtualDeviceMap[k].at
        BY <1>4, <2>2, <4>1 DEF NodeInv, NodesKept
      <4> QED
        BY <1>3, <1>4, <4>1, <4>2
    <3> QED
      BY <3>1, <3>2
  <2>3. scanning'.dev = NoDev => scanning' = Idle /\ found' = NoPath
    BY <1>2 DEF NodeInv, NodesKept
  <2> QED
    BY <2>1, <2>2, <2>3 DEF NodesKept, Idle
<1>9. Renewed(b)' /\ \A d : Renewed(d) => Renewed(d)'
  <2>1. /\ DOMAIN scans = 1 .. Len(scans) /\ DOMAIN scans' = 1 .. Len(scans) + 1 /\ Len(scans) \in Nat
        /\ \A i \in 1 .. Len(scans) : scans'[i] = scans[i]
        /\ scans'[Len(scans) + 1] = b
    BY <1>1, <1>2, Appended DEF NodesTyped
  <2>2. DOMAIN scans \subseteq DOMAIN scans' /\ Len(scans) + 1 \in DOMAIN scans'
    BY <2>1
  <2>3. Renewed(b)'
    BY <2>1, <2>2 DEF Renewed
  <2>4. ASSUME NEW d, d # b, Renewed(d) PROVE Renewed(d)'
    BY <1>4, <2>1, <2>2, <2>4 DEF Renewed
  <2> QED
    BY <2>3, <2>4
<1>10. PathsDue'
  <2> SUFFICES ASSUME NEW d \in Devices, Has(d)', ~ Renewed(d)'
               PROVE  LET at == virtualDeviceMap'[d].at
                      IN  IF scanning'.dev = d
                          THEN found' = at \/ (found' = NoPath /\ at \in scanning'.left)
                          ELSE virtualDeviceMap'[d].path = at
    BY DEF PathsDue
  <2>1. d # b /\ Has(d) /\ ~ Renewed(d) /\ virtualDeviceMap'[d] = virtualDeviceMap[d]
    BY <1>3, <1>4, <1>9
  <2> QED
    BY <1>2, <2>1 DEF NodeInv, PathsDue
<1> QED
  BY <1>7, <1>8, <1>10 DEF NodeInv

\* Nodes go with the devices they were of.
LEMMA CloseDevicesKeeps ==
    ASSUME TInv, NodeInv, NEW ds \in SUBSET Devices, CloseDevices(ds), UNCHANGED << calls, busy >>,
           \A d \in Devices \ ds : Has(d) => IsKnown(d)'
    PROVE  /\ NodesKept' /\ PathsDue'
           /\ \A d \in Devices : Has(d)' <=> Has(d) /\ d \notin ds
<1>1. /\ NodesTyped
      /\ \A d \in Devices : virtualDeviceMap'[d] = IF d \in ds THEN NoNode ELSE virtualDeviceMap[d]
      /\ \A p \in Paths : kernel'[p] =
            IF \E d \in ds : virtualDeviceMap[d].at = p THEN NoDev ELSE kernel[p]
      /\ UNCHANGED << scans, scanning, found >>
  BY TypedParts DEF TInv, CloseDevices
<1>2. \A d \in Devices : Has(d)' <=> Has(d) /\ d \notin ds
  BY <1>1 DEF Has
<1>3. \A d : Making(d)' <=> Making(d)
  BY DEF Making, Dev
<1>4. ASSUME NEW p \in Paths, NEW d \in ds, virtualDeviceMap[d].at = p PROVE kernel[p] = d
  <2>1. Has(d)
    BY <1>1, <1>4, HasPlace
  <2> QED
    BY <1>4, <2>1 DEF NodeInv, NodesKept
<1>5. \A p \in Paths : kernel'[p] = kernel[p] \/ (kernel'[p] = NoDev /\ kernel[p] \in ds
                                                  /\ virtualDeviceMap[kernel[p]].at = p)
  BY <1>1, <1>4
<1>6. NodesKept'
  <2>1. ASSUME NEW d \in Devices, Has(d)'
        PROVE  /\ virtualDeviceMap'[d].at \in Paths
               /\ kernel'[virtualDeviceMap'[d].at] = d
               /\ IsKnown(d)'
    <3>1. d \notin ds /\ Has(d) /\ virtualDeviceMap'[d] = virtualDeviceMap[d]
      BY <1>1, <1>2, <2>1
    <3>2. virtualDeviceMap[d].at \in Paths /\ kernel[virtualDeviceMap[d].at] = d
      BY <3>1 DEF NodeInv, NodesKept
    <3> QED
      BY <1>5, <3>1, <3>2
  <2>2. ASSUME NEW q \in Paths, NEW k, k = kernel'[q], k # NoDev
        PROVE  (Has(k)' /\ q = virtualDeviceMap'[k].at) \/ Making(k)'
    <3>1. k = kernel[q] /\ k \in Devices
      BY <1>1, <1>5, <2>2 DEF NodesTyped
    <3>2. CASE Making(k)
      BY <1>3, <3>2
    <3>3. CASE Has(k) /\ q = virtualDeviceMap[k].at
      <4>1. k \notin ds
        BY <1>1, <2>2, <3>3
      <4> QED
        BY <1>1, <1>2, <3>1, <3>3, <4>1
    <3> QED
      BY <2>2, <3>1, <3>2, <3>3 DEF NodeInv, NodesKept
  <2>3. scanning'.dev = NoDev => scanning' = Idle /\ found' = NoPath
    BY <1>1 DEF NodeInv, NodesKept
  <2> QED
    BY <2>1, <2>2, <2>3 DEF NodesKept, Idle
<1>7. PathsDue'
  <2> SUFFICES ASSUME NEW d \in Devices, Has(d)', ~ Renewed(d)'
               PROVE  LET at == virtualDeviceMap'[d].at
                      IN  IF scanning'.dev = d
                          THEN found' = at \/ (found' = NoPath /\ at \in scanning'.left)
                          ELSE virtualDeviceMap'[d].path = at
    BY DEF PathsDue
  <2>1. d \notin ds /\ Has(d) /\ virtualDeviceMap'[d] = virtualDeviceMap[d]
    BY <1>1, <1>2
  <2>2. ~ Renewed(d)
    <3> SUFFICES ASSUME Renewed(d) PROVE FALSE
      OBVIOUS
    <3>1. ~ \E i \in DOMAIN scans : scans[i] = d
      BY <1>1 DEF Renewed
    <3>2. Making(d) /\ NewAt(d) # {}
      BY <3>1 DEF Renewed
    <3>3. PICK p \in Paths : kernel[p] = d /\ p # virtualDeviceMap[d].at
      BY <3>2 DEF NewAt
    <3>4. kernel'[p] = d
      BY <1>5, <2>1, <3>3
    <3>5. p \in NewAt(d)'
      BY <2>1, <3>3, <3>4 DEF NewAt
    <3> QED
      BY <1>3, <3>2, <3>5 DEF Renewed
  <2> QED
    BY <1>1, <2>1, <2>2 DEF NodeInv, PathsDue
<1> QED
  BY <1>2, <1>6, <1>7

LEMMA UnregisterKeepsNodes ==
    ASSUME TInv, NodeInv, NEW c, Unregister(c)
    PROVE  NodeInv'
<1>b. PICK b : b = Dev(c)
  OBVIOUS
<1>k. PICK k : k = EntryOf(b)
  OBVIOUS
<1>1. /\ ServiceTyped /\ b \in Devices /\ IsKnown(b) /\ Has(b) /\ CloseDevices({b})
      /\ inputDevice' = RemoveAt(inputDevice, k)
      /\ UNCHANGED << calls, busy >> /\ busy = NoCall
  BY <1>b, <1>k, TypedParts, ReachedTyped DEF TInv, Unregister
<1>2. k \in 1 .. Len(inputDevice) /\ inputDevice[k].dev = b
  BY <1>k, <1>1, FirstKnown
<1>3. /\ DOMAIN inputDevice = 1 .. Len(inputDevice) /\ Len(inputDevice) \in Nat
      /\ DOMAIN inputDevice' = 1 .. Len(inputDevice) - 1
      /\ \A i \in 1 .. Len(inputDevice) - 1 :
            inputDevice'[i] = IF i < k THEN inputDevice[i] ELSE inputDevice[i + 1]
      /\ \A e \in Elements(inputDevice) : e # inputDevice[k] => e \in Elements(inputDevice')
  <2>1. inputDevice \in Seq(Known)
    BY <1>1 DEF ServiceTyped
  <2>2. inputDevice' \in Seq(Known) /\ Len(inputDevice') = Len(inputDevice) - 1
    BY <1>1, <1>2, <2>1, Removed
  <2> QED
    BY <1>1, <1>2, <2>1, <2>2, Removed, ElementsRemoved, LenProperties
<1>4. \A d : d # b /\ IsKnown(d) => IsKnown(d)'
  <2> SUFFICES ASSUME NEW d, d # b, IsKnown(d) PROVE IsKnown(d)'
    OBVIOUS
  <2>1. PICK e \in Elements(inputDevice) : e.dev = d
    BY DEF IsKnown, Elements
  <2>2. e \in Elements(inputDevice')
    BY <1>2, <1>3, <2>1
  <2> QED
    BY <2>1, <2>2 DEF IsKnown, Elements
<1>5. /\ NodesKept' /\ PathsDue'
      /\ \A d \in Devices : Has(d)' <=> Has(d) /\ d \notin {b}
  <2>1. {b} \in SUBSET Devices
    BY <1>1
  <2>2. \A d \in Devices \ {b} : Has(d) => IsKnown(d)'
    BY <1>4 DEF NodeInv, NodesKept
  <2> QED
    BY <1>1, <2>1, <2>2, CloseDevicesKeeps
\* Where an entry that is left was before.
<1>6. \A i \in DOMAIN inputDevice' :
         \E j \in DOMAIN inputDevice : /\ j # k /\ inputDevice'[i] = inputDevice[j]
                                       /\ j = IF i < k THEN i ELSE i + 1
  BY <1>2, <1>3
<1>7. SteadyOnce'
  <2>1. \A j \in DOMAIN inputDevice : inputDevice[j].dev = b /\ b \in Steady => j = k
    BY <1>2, <1>3 DEF NodeInv, SteadyOnce
  <2>2. ASSUME NEW i \in DOMAIN inputDevice', inputDevice'[i].dev \in Steady
        PROVE  /\ inputDevice'[i].desc = "first" /\ inputDevice'[i].dev # b
               /\ Has(inputDevice'[i].dev)
    BY <1>6, <2>1, <2>2 DEF NodeInv, SteadyOnce
  <2>3. \A d \in Steady : d # b => (Has(d)' <=> Has(d))
    BY <1>5 DEF Steady
  <2>4. ASSUME NEW i \in DOMAIN inputDevice', NEW j \in DOMAIN inputDevice',
               inputDevice'[i].dev \in Steady, inputDevice'[i].dev = inputDevice'[j].dev
        PROVE  i = j
    <3>1. PICK m \in DOMAIN inputDevice : inputDevice'[i] = inputDevice[m]
                                          /\ m = IF i < k THEN i ELSE i + 1
      BY <1>6
    <3>2. PICK n \in DOMAIN inputDevice : inputDevice'[j] = inputDevice[n]
                                          /\ n = IF j < k THEN j ELSE j + 1
      BY <1>6
    <3>3. m = n
      BY <2>4, <3>1, <3>2 DEF NodeInv, SteadyOnce
    <3> QED
      BY <1>2, <1>3, <3>1, <3>2, <3>3
  <2>5. \A d : ~ Making(d)'
    BY <1>1 DEF Making
  <2>6. ASSUME NEW i \in DOMAIN inputDevice', NEW d \in Steady, inputDevice'[i].dev = d
        PROVE  inputDevice'[i].desc = "first" /\ Has(d)'
    BY <2>2, <2>3, <2>6
  <2> QED
    BY <2>4, <2>5, <2>6 DEF SteadyOnce, Steady
<1> QED
  BY <1>5, <1>7 DEF NodeInv

LEMMA ReleaseKeepsNodes == ASSUME TInv, NodeInv, Release PROVE NodeInv'
<1> DEFINE ds == {d \in Devices : IsKnown(d) /\ Has(d)}
<1>1. UNCHANGED << calls, busy >> /\ inputDevice' = << >> /\ CloseDevices(ds) /\ ds \in SUBSET Devices
  BY DEF Release, client
<1>2. \A d \in Devices \ ds : ~ Has(d)
  BY DEF NodeInv, NodesKept
<1>3. NodesKept' /\ PathsDue'
  <2> HIDE DEF ds
  <2> QED
    BY <1>1, <1>2, CloseDevicesKeeps
<1>4. SteadyOnce'
  BY <1>1 DEF SteadyOnce, IsKnown
<1> QED
  BY <1>3, <1>4 DEF NodeInv

LEMMA ServiceExitsKeepsNodes == ASSUME TInv, NodeInv, ServiceExits PROVE NodeInv'
<1>1. /\ inputDevice' = << >> /\ busy' = NoCall /\ scanning' = Idle /\ found' = NoPath
      /\ \A p \in Paths : kernel'[p] = NoDev
      /\ \A d \in Devices : virtualDeviceMap'[d] = NoNode
  BY DEF ServiceExits
<1>2. (\A d \in Devices : ~ Has(d))' /\ \A d : ~ Making(d)' /\ ~ IsKnown(d)'
  BY <1>1 DEF Has, Making, IsKnown
<1>3. SteadyOnce'
  BY <1>1, <1>2 DEF SteadyOnce
<1>4. NodesKept'
  BY <1>1, <1>2 DEF NodesKept, Idle
<1>5. PathsDue'
  BY <1>1, <1>2 DEF PathsDue
<1> QED
  BY <1>3, <1>4, <1>5 DEF NodeInv

\* A step of the search leaves devices, nodes and what is being created alone.
LEMMA SearchKeeps ==
    ASSUME NodeInv, UNCHANGED << inputDevice, kernel, busy, calls >>,
           \A d \in Devices : /\ Has(d)' <=> Has(d)
                              /\ virtualDeviceMap'[d].at = virtualDeviceMap[d].at,
           scanning'.dev = NoDev => scanning' = Idle /\ found' = NoPath,
           NodesTyped
    PROVE  /\ SteadyOnce' /\ NodesKept'
           /\ \A d \in Devices : Renewed(d) /\ ~ (\E i \in DOMAIN scans : scans[i] = d) => Renewed(d)'
<1>1. \A d : (Making(d)' <=> Making(d)) /\ (IsKnown(d)' <=> IsKnown(d))
  BY DEF Making, Dev, IsKnown
<1>2. \A d \in Devices : NewAt(d)' = NewAt(d)
  BY DEF NewAt
<1>3. SteadyOnce'
  <2>1. \A d \in Steady : Has(d)' <=> Has(d)
    BY DEF Steady
  <2>2. ASSUME NEW i \in DOMAIN inputDevice', NEW d \in Steady, inputDevice'[i].dev = d
        PROVE  inputDevice'[i].desc = "first" /\ Has(d)'
    BY <2>1, <2>2 DEF NodeInv, SteadyOnce
  <2>3. (\A i, j \in DOMAIN inputDevice :
           inputDevice[i].dev \in Steady /\ inputDevice[i].dev = inputDevice[j].dev => i = j)'
    BY DEF NodeInv, SteadyOnce, Steady
  <2>4. \A d \in Steady : Making(d)' => ~ IsKnown(d)'
    BY <1>1 DEF NodeInv, SteadyOnce
  <2> QED
    BY <2>2, <2>3, <2>4 DEF SteadyOnce, Steady
<1>4. NodesKept'
  <2>1. ASSUME NEW d \in Devices, Has(d)'
        PROVE  /\ virtualDeviceMap'[d].at \in Paths
               /\ kernel'[virtualDeviceMap'[d].at] = d
               /\ IsKnown(d)'
    BY <1>1, <2>1 DEF NodeInv, NodesKept
  <2>2. ASSUME NEW q \in Paths, NEW k, k = kernel'[q], k # NoDev
        PROVE  (Has(k)' /\ q = virtualDeviceMap'[k].at) \/ Making(k)'
    <3>1. k = kernel[q] /\ k \in Devices
      BY <2>2 DEF NodesTyped
    <3> QED
      BY <1>1, <2>2, <3>1 DEF NodeInv, NodesKept
  <2> QED
    BY <2>1, <2>2 DEF NodesKept, Idle
<1>5. \A d \in Devices : Renewed(d) /\ ~ (\E i \in DOMAIN scans : scans[i] = d) => Renewed(d)'
  BY <1>1, <1>2 DEF Renewed
<1> QED
  BY <1>3, <1>4, <1>5

LEMMA ScanAllNodeKeepsNodes == ASSUME TInv, NodeInv, ScanAllNode PROVE NodeInv'
<1>h. PICK h : h = Head(scans)
  OBVIOUS
<1>1. /\ NodesTyped /\ scanning = Idle /\ found = NoPath /\ found' = NoPath
      /\ scanning'.dev = h /\ scanning'.left = {p \in Paths : kernel[p] # NoDev}
      /\ scans \in Seq(Devices) /\ scans # << >> /\ scans' = Tail(scans)
      /\ UNCHANGED << inputDevice, kernel, busy, calls, virtualDeviceMap >>
  BY <1>h, TypedParts DEF TInv, ScanAllNode, NodesTyped, NodeInv, NodesKept, client, service, Idle
<1>2. /\ h = scans[1] /\ h \in Devices /\ Len(scans) \in Nat /\ 1 \in DOMAIN scans
      /\ DOMAIN scans = 1 .. Len(scans) /\ DOMAIN scans' = 1 .. Len(scans) - 1
      /\ \A i \in 1 .. Len(scans) - 1 : scans'[i] = scans[i + 1]
  BY <1>h, <1>1, Tailed, ElementOfSeq
<1>3. h # NoDev
  BY <1>2, RegistrationAssumption
<1>4. \A d : Has(d)' <=> Has(d)
  BY <1>1 DEF Has
<1>5. /\ SteadyOnce' /\ NodesKept'
      /\ \A d \in Devices : Renewed(d) /\ ~ (\E i \in DOMAIN scans : scans[i] = d) => Renewed(d)'
  BY <1>1, <1>3, <1>4, SearchKeeps
<1>6. ASSUME NEW d \in Devices, d # h, Renewed(d) PROVE Renewed(d)'
  <2>1. ASSUME NEW i \in DOMAIN scans, scans[i] = d PROVE Renewed(d)'
    <3>1. i # 1
      BY <1>2, <1>6, <2>1
    <3>2. i - 1 \in 1 .. Len(scans) - 1 /\ (i - 1) + 1 = i
      BY <1>2, <3>1
    <3>3. scans'[i - 1] = d /\ i - 1 \in DOMAIN scans'
      BY <1>2, <2>1, <3>2
    <3> QED
      BY <3>3 DEF Renewed
  <2> QED
    BY <1>5, <1>6, <2>1
<1>7. PathsDue'
  <2> SUFFICES ASSUME NEW d \in Devices, Has(d)', ~ Renewed(d)'
               PROVE  LET at == virtualDeviceMap'[d].at
                      IN  IF scanning'.dev = d
                          THEN found' = at \/ (found' = NoPath /\ at \in scanning'.left)
                          ELSE virtualDeviceMap'[d].path = at
    BY DEF PathsDue
  <2>1. Has(d)
    BY <1>4
  <2>2. CASE d = h
    <3>1. virtualDeviceMap[d].at \in Paths /\ kernel[virtualDeviceMap[d].at] = d
      BY <2>1 DEF NodeInv, NodesKept
    <3> QED
      BY <1>1, <1>3, <2>2, <3>1
  <2>3. CASE d # h
    <3>1. ~ Renewed(d) /\ scanning.dev # d
      BY <1>1, <1>6, <2>3, RegistrationAssumption DEF Idle
    <3> QED
      BY <1>1, <2>1, <2>3, <3>1 DEF NodeInv, PathsDue
  <2> QED
    BY <2>2, <2>3
<1> QED
  BY <1>5, <1>7 DEF NodeInv

LEMMA MatchPathKeepsNodes ==
    ASSUME TInv, NodeInv, NEW p \in Paths, MatchPath(p)
    PROVE  NodeInv'
<1>1. /\ NodesTyped /\ p \in scanning.left /\ found = NoPath /\ scanning'.dev = scanning.dev
      /\ UNCHANGED << inputDevice, kernel, busy, calls, virtualDeviceMap, scans >>
      /\ \/ kernel[p] = scanning.dev /\ found' = p /\ scanning' = scanning
         \/ kernel[p] # scanning.dev /\ found' = NoPath /\ scanning'.left = scanning.left \ {p}
  BY TypedParts DEF TInv, MatchPath, IsTarget, NodesTyped, client, service
<1>2. \A d : Has(d)' <=> Has(d)
  BY <1>1 DEF Has
<1>3. scanning.dev # NoDev
  BY <1>1 DEF NodeInv, NodesKept, Idle
<1>4. /\ SteadyOnce' /\ NodesKept'
      /\ \A d \in Devices : Renewed(d) /\ ~ (\E i \in DOMAIN scans : scans[i] = d) => Renewed(d)'
  BY <1>1, <1>2, <1>3, SearchKeeps
<1>5. \A d \in Devices : Renewed(d) => Renewed(d)'
  BY <1>1, <1>4 DEF Renewed
<1>6. PathsDue'
  <2> SUFFICES ASSUME NEW d \in Devices, Has(d)', ~ Renewed(d)'
               PROVE  LET at == virtualDeviceMap'[d].at
                      IN  IF scanning'.dev = d
                          THEN found' = at \/ (found' = NoPath /\ at \in scanning'.left)
                          ELSE virtualDeviceMap'[d].path = at
    BY DEF PathsDue
  <2>1. Has(d) /\ ~ Renewed(d)
    BY <1>2, <1>5
  <2>2. /\ virtualDeviceMap[d].at \in Paths /\ kernel[virtualDeviceMap[d].at] = d
    BY <2>1 DEF NodeInv, NodesKept
  <2>3. kernel[p] = d => p = virtualDeviceMap[d].at
    <3> SUFFICES ASSUME kernel[p] = d, p # virtualDeviceMap[d].at PROVE FALSE
      OBVIOUS
    <3>1. d # NoDev /\ p \in NewAt(d)
      BY RegistrationAssumption DEF NewAt
    <3>2. Making(d)
      BY <3>1 DEF NodeInv, NodesKept
    <3> QED
      BY <2>1, <3>1, <3>2 DEF Renewed
  <2>4. CASE scanning.dev = d
    BY <1>1, <2>1, <2>2, <2>3, <2>4 DEF NodeInv, PathsDue, Paths, NoPath
  <2>5. CASE scanning.dev # d
    BY <1>1, <2>1, <2>5 DEF NodeInv, PathsDue
  <2> QED
    BY <2>4, <2>5
<1> QED
  BY <1>4, <1>6 DEF NodeInv

LEMMA SetPathKeepsNodes == ASSUME TInv, NodeInv, SetPathForVirDev PROVE NodeInv'
<1>s. PICK s : s = scanning.dev
  OBVIOUS
<1>1. /\ NodesTyped /\ scanning # Idle /\ scanning' = Idle /\ found' = NoPath
      /\ found # NoPath \/ scanning.left = {}
      /\ virtualDeviceMap' = IF found # NoPath /\ Has(s)
                             THEN [virtualDeviceMap EXCEPT ![s].path = found] ELSE virtualDeviceMap
      /\ UNCHANGED << inputDevice, kernel, busy, calls, scans >>
  BY <1>s, TypedParts DEF TInv, SetPathForVirDev, client, service
<1>2. s \in Devices
  BY <1>s, <1>1 DEF NodeInv, NodesKept, NodesTyped
<1>3. /\ \A d \in Devices : d # s => virtualDeviceMap'[d] = virtualDeviceMap[d]
      /\ virtualDeviceMap'[s].at = virtualDeviceMap[s].at
      /\ Has(s) /\ found # NoPath => virtualDeviceMap'[s].path = found
  <2>1. CASE found # NoPath /\ Has(s)
    <3>1. virtualDeviceMap[s] \in Node
      BY <1>1, <1>2, <2>1 DEF NodesTyped, Has
    <3>2. virtualDeviceMap' = [virtualDeviceMap EXCEPT ![s].path = found]
      BY <1>1, <2>1
    <3> QED
      BY <1>1, <1>2, <3>1, <3>2 DEF NodesTyped, Node
  <2>2. CASE ~(found # NoPath /\ Has(s))
    BY <1>1, <2>2
  <2> QED
    BY <2>1, <2>2
<1>4. \A d \in Devices : /\ Has(d)' <=> Has(d)
                         /\ virtualDeviceMap'[d].at = virtualDeviceMap[d].at
  <2>1. \A d \in Devices : virtualDeviceMap'[d].at = virtualDeviceMap[d].at
    BY <1>3
  <2>2. NodesTyped'
    BY ScanTyped, TypedParts, PTL DEF TInv
  <2>3. (\A d \in Devices : Has(d) <=> virtualDeviceMap[d].at \in Paths)'
    BY <2>2, HavePlaces, PTL
  <2>4. \A d \in Devices : Has(d) <=> virtualDeviceMap[d].at \in Paths
    BY <1>1, HasPlace
  <2> QED
    BY <2>1, <2>3, <2>4
<1>5. /\ SteadyOnce' /\ NodesKept'
      /\ \A d \in Devices : Renewed(d) /\ ~ (\E i \in DOMAIN scans : scans[i] = d) => Renewed(d)'
  BY <1>1, <1>4, SearchKeeps
<1>6. \A d \in Devices : Renewed(d) => Renewed(d)'
  BY <1>1, <1>5 DEF Renewed
<1>7. PathsDue'
  <2> SUFFICES ASSUME NEW d \in Devices, Has(d)', ~ Renewed(d)'
               PROVE  LET at == virtualDeviceMap'[d].at
                      IN  IF scanning'.dev = d
                          THEN found' = at \/ (found' = NoPath /\ at \in scanning'.left)
                          ELSE virtualDeviceMap'[d].path = at
    BY DEF PathsDue
  <2>1. Has(d) /\ ~ Renewed(d) /\ scanning'.dev # d
    BY <1>1, <1>4, <1>6, RegistrationAssumption DEF Idle
  <2>2. CASE d = s
    <3>1. found = virtualDeviceMap[d].at /\ found # NoPath
      <4>1. virtualDeviceMap[d].at \in Paths
        BY <2>1 DEF NodeInv, NodesKept
      <4> QED
        BY <1>s, <1>1, <2>1, <2>2, <4>1 DEF NodeInv, PathsDue, Paths, NoPath
    <3> QED
      BY <1>3, <2>1, <2>2, <3>1
  <2>3. CASE d # s
    BY <1>s, <1>3, <2>1, <2>3 DEF NodeInv, PathsDue
  <2> QED
    BY <2>2, <2>3
<1> QED
  BY <1>5, <1>7 DEF NodeInv

LEMMA NextNodes == TInv /\ NodeInv /\ [Next]_vars => NodeInv'
<1> SUFFICES ASSUME TInv, NodeInv, [Next]_vars PROVE NodeInv'
  OBVIOUS
<1>1. CASE Still
  BY <1>1, StillKeepsNodes
<1>2. CASE \E c \in Calls : RegisterNew(c) \/ Unregister(c)
  BY <1>2, RegisterNewKeepsNodes, UnregisterKeepsNodes
<1>3. CASE \E p \in Paths : SetUp(p) \/ MatchPath(p)
  BY <1>3, SetUpKeepsNodes, MatchPathKeepsNodes
<1>4. CASE CreateFails \/ AddDevice \/ Release
  BY <1>4, CreateFailsKeepsNodes, AddDeviceKeepsNodes, ReleaseKeepsNodes
<1>5. CASE ScanAllNode \/ SetPathForVirDev \/ ServiceExits
  BY <1>5, ScanAllNodeKeepsNodes, SetPathKeepsNodes, ServiceExitsKeepsNodes
<1> QED
  BY <1>1, <1>2, <1>3, <1>4, <1>5, NodeMoves

LEMMA InitNodes == Init => NodeInv
<1> SUFFICES ASSUME Init PROVE NodeInv
  OBVIOUS
<1>1. /\ inputDevice = << >> /\ busy = NoCall /\ scanning = Idle /\ found = NoPath
      /\ \A p \in Paths : kernel[p] = NoDev
      /\ \A d \in Devices : ~ Has(d)
      /\ \A d : ~ Making(d)
  BY DEF Init, Has, Making
<1> QED
  BY <1>1 DEF NodeInv, SteadyOnce, NodesKept, PathsDue, IsKnown

(***************************************************************************)
(* The answers.                                                            *)
(***************************************************************************)
AnswerInv == EntriesWait /\ OwnAnswer

InfosOf(kind) == IF kind = "register" THEN rstInfos ELSE unrstInfos

\* Where the invariant has to be looked at again: the entries of a step that enters no call.
LEMMA WaitNext ==
    ASSUME TInv, EntriesWait, deaths = 0, UNCHANGED << calls, deaths, born >>,
           rstInfos' \subseteq rstInfos, unrstInfos' \subseteq unrstInfos,
           \A c \in calling' : c \in InfosOf(Kind(c))',
           busy' # NoCall => busy' \in rstInfos' /\ busy' \notin calling',
           \A i \in DOMAIN events' : events'[i] \in unrstInfos' /\ events'[i] \notin calling',
           \A i, j \in DOMAIN events' : events'[i] = events'[j] => i = j
    PROVE  EntriesWait'
<1>1. \A c, e \in rstInfos' : Dev(c)' = Dev(e)' => c = e
  BY DEF EntriesWait, Dev
<1>2. \A c, e \in unrstInfos' : Dev(c)' = Dev(e)' => c = e
  BY DEF EntriesWait, Dev
<1>3. born' = 0
  BY DEF EntriesWait
<1> QED
  BY <1>1, <1>2, <1>3 DEF EntriesWait, InfosOf

\* The answer to a call goes to the entry of the call itself, whichever callback of its
\* device the service calls.
LEMMA AnsweredOwn ==
    ASSUME TInv, AnswerInv, deaths = 0, NEW cb \in Made, NEW c \in Made, NEW b,
           Kind(cb) = Kind(c), Dev(cb) = Dev(c), c \in InfosOf(Kind(c)), OnResult(cb, c, b)
    PROVE  /\ \A a \in answers' : a.caller = a.call
           /\ Kind(c) = "register" => rstInfos' = rstInfos \ {c} /\ unrstInfos' = unrstInfos
           /\ Kind(c) = "unregister" => unrstInfos' = unrstInfos \ {c} /\ rstInfos' = rstInfos
           /\ Kind(c) \in {"register", "unregister"}
<1>1. /\ ClientTyped /\ cb > born /\ Kind(c) \in {"register", "unregister"}
  BY TypedParts, MadeCalls DEF TInv, AnswerInv, EntriesWait, Made, Call, Kind
<1>2. Callers(InfosOf(Kind(c)), cb) = {c}
  BY <1>1 DEF Callers, InfosOf, AnswerInv, EntriesWait
<1>3. answers' = answers \cup {[caller |-> e, call |-> c, result |-> b] : e \in {c}}
  BY <1>2 DEF OnResult, InfosOf
<1>4. \A a \in answers : a.caller = a.call
  BY DEF AnswerInv, OwnAnswer
<1>5. /\ Kind(c) = "register" => rstInfos' = rstInfos \ {c} /\ unrstInfos' = unrstInfos
      /\ Kind(c) = "unregister" => unrstInfos' = unrstInfos \ {c} /\ rstInfos' = rstInfos
  BY <1>2 DEF OnResult, InfosOf
<1> QED
  BY <1>1, <1>3, <1>4, <1>5

LEMMA EnterKeepsAnswers ==
    ASSUME TInv, AnswerInv, deaths = 0, NEW kind \in {"register", "unregister"},
           NEW d \in Devices, NEW s \in Descs, Enter(kind, d, s),
           \A c \in InfosOf(kind) : Dev(c) # d,
           \/ kind = "register" /\ rstInfos' = rstInfos \cup {Len(calls) + 1} /\ UNCHANGED unrstInfos
           \/ kind = "unregister" /\ unrstInfos' = unrstInfos \cup {Len(calls) + 1} /\ UNCHANGED rstInfos
    PROVE  AnswerInv'
<1>n. PICK n : n = Len(calls) + 1
  OBVIOUS
<1>e. PICK e : e = [kind |-> kind, dev |-> d, desc |-> s]
  OBVIOUS
<1>1. /\ ClientTyped /\ Len(calls) \in Nat /\ calls' = Append(calls, e)
      /\ calling' = calling \cup {n} /\ UNCHANGED << busy, events, deaths, born, answers >>
  BY <1>n, <1>e, TypedParts, MadeCalls DEF TInv, Enter, service, history
<1>2. /\ calls'[n] = e /\ \A c \in Made : calls'[c] = calls[c]
  BY <1>n, <1>1 DEF ClientTyped, Made
<1>3. /\ Kind(n)' = kind /\ Dev(n)' = d
      /\ \A c \in Made : Kind(c)' = Kind(c) /\ Dev(c)' = Dev(c)
  BY <1>e, <1>2 DEF Kind, Dev
<1>4. /\ n \notin Made
      /\ calling \subseteq Made /\ rstInfos \subseteq Made /\ unrstInfos \subseteq Made
      /\ \A i \in DOMAIN events : events[i] \in Made
      /\ busy # NoCall => busy \in Made
  BY <1>n, <1>1 DEF Made, MadeTo, TInv, CallsKept, Elements
<1>5. /\ rstInfos' = IF kind = "register" THEN rstInfos \cup {n} ELSE rstInfos
      /\ unrstInfos' = IF kind = "unregister" THEN unrstInfos \cup {n} ELSE unrstInfos
  BY <1>n
<1>6. \A c \in calling' : c \in InfosOf(Kind(c))'
  <2>1. ASSUME NEW c \in calling PROVE c \in InfosOf(Kind(c))'
    <3>1. c \in InfosOf(Kind(c)) /\ Kind(c)' = Kind(c)
      BY <1>3, <1>4 DEF AnswerInv, EntriesWait, InfosOf
    <3> QED
      BY <1>5, <3>1 DEF InfosOf
  <2>2. n \in InfosOf(Kind(n))'
    BY <1>3, <1>5 DEF InfosOf
  <2> QED
    BY <1>1, <2>1, <2>2
<1>7. \A c, f \in rstInfos' : Dev(c)' = Dev(f)' => c = f
  <2>1. \A c, f \in rstInfos : Dev(c)' = Dev(f)' => c = f
    BY <1>3, <1>4 DEF AnswerInv, EntriesWait
  <2>2. kind = "register" => \A c \in rstInfos : Dev(c)' # d
    BY <1>3, <1>4 DEF InfosOf
  <2> QED
    BY <1>3, <1>5, <2>1, <2>2
<1>8. \A c, f \in unrstInfos' : Dev(c)' = Dev(f)' => c = f
  <2>1. \A c, f \in unrstInfos : Dev(c)' = Dev(f)' => c = f
    BY <1>3, <1>4 DEF AnswerInv, EntriesWait
  <2>2. kind = "unregister" => \A c \in unrstInfos : Dev(c)' # d
    BY <1>3, <1>4 DEF InfosOf
  <2> QED
    BY <1>3, <1>5, <2>1, <2>2
<1>9. /\ busy' # NoCall => busy' \in rstInfos' /\ busy' \notin calling'
      /\ \A i \in DOMAIN events' : events'[i] \in unrstInfos' /\ events'[i] \notin calling'
      /\ \A i, j \in DOMAIN events' : events'[i] = events'[j] => i = j
  BY <1>1, <1>4, <1>5 DEF AnswerInv, EntriesWait
<1>10. born' = 0
  BY <1>1 DEF AnswerInv, EntriesWait
<1>11. OwnAnswer'
  BY <1>1 DEF AnswerInv, OwnAnswer
<1> QED
  BY <1>6, <1>7, <1>8, <1>9, <1>10, <1>11 DEF AnswerInv, EntriesWait, InfosOf

\* What is under way waits in the client (the parts of EntriesWait that a step uses).
LEMMA UnderWay ==
    ASSUME TInv, AnswerInv, deaths = 0
    PROVE  /\ \A c \in calling : c \in InfosOf(Kind(c))
           /\ busy # NoCall => busy \in rstInfos /\ busy \notin calling
           /\ \A i \in DOMAIN events : events[i] \in unrstInfos /\ events[i] \notin calling
           /\ \A i, j \in DOMAIN events : events[i] = events[j] => i = j
           /\ \A c \in calling : Kind(c) \in {"register", "unregister"} /\ c \in Made
           /\ rstInfos \subseteq MadeTo("register") /\ unrstInfos \subseteq MadeTo("unregister")
           /\ \A i \in DOMAIN events : Kind(events[i]) = "unregister" /\ events[i] \in Made
           /\ EntriesWait
<1>1. /\ \A c \in calling : c \in InfosOf(Kind(c))
      /\ busy # NoCall => busy \in rstInfos /\ busy \notin calling
      /\ \A i \in DOMAIN events : events[i] \in unrstInfos /\ events[i] \notin calling
      /\ \A i, j \in DOMAIN events : events[i] = events[j] => i = j
      /\ EntriesWait
  BY DEF AnswerInv, EntriesWait, InfosOf
<1>2. /\ rstInfos \subseteq MadeTo("register") /\ unrstInfos \subseteq MadeTo("unregister")
      /\ \A i \in DOMAIN events : Kind(events[i]) = "unregister" /\ events[i] \in Made
  BY DEF TInv, CallsKept, Elements, MadeTo
<1>3. \A c \in calling : Kind(c) \in {"register", "unregister"} /\ c \in Made
  BY TypedParts, MadeCalls DEF TInv, CallsKept, Call, Kind
<1> QED
  BY <1>1, <1>2, <1>3

LEMMA RegisterKnownKeepsAnswers ==
    ASSUME TInv, AnswerInv, deaths = 0, NEW c, RegisterKnown(c)
    PROVE  AnswerInv'
<1>1. /\ c \in Made /\ c \in calling /\ Kind(c) = "register" /\ busy = NoCall /\ busy' = busy
      /\ calling' = calling \ {c} /\ UNCHANGED << calls, born, deaths, events >>
  BY ReachedTyped DEF RegisterKnown, Reaches
<1>2. /\ \A a \in answers' : a.caller = a.call
      /\ rstInfos' = rstInfos \ {c} /\ unrstInfos' = unrstInfos
  BY <1>1, UnderWay, AnsweredOwn DEF RegisterKnown
<1>3. \A e \in calling' : e \in InfosOf(Kind(e))'
  BY <1>1, <1>2, UnderWay DEF InfosOf, Kind
<1>4. EntriesWait'
  BY <1>1, <1>2, <1>3, UnderWay, WaitNext
<1> QED
  BY <1>2, <1>4 DEF AnswerInv, OwnAnswer

LEMMA RegisterNewKeepsAnswers ==
    ASSUME TInv, AnswerInv, deaths = 0, NEW c, RegisterNew(c)
    PROVE  AnswerInv'
<1>1. /\ c \in Made /\ c \in calling /\ Kind(c) = "register" /\ busy = NoCall /\ busy' = c
      /\ calling' = calling \ {c}
      /\ UNCHANGED << calls, born, deaths, events, rstInfos, unrstInfos, answers >>
  BY ReachedTyped DEF RegisterNew, Reaches, NoResult, history
<1>2. c \in rstInfos
  BY <1>1, UnderWay DEF InfosOf
<1>3. \A e \in calling' : e \in InfosOf(Kind(e))'
  BY <1>1, UnderWay DEF InfosOf, Kind
<1>4. EntriesWait'
  BY <1>1, <1>2, <1>3, UnderWay, WaitNext
<1> QED
  BY <1>1, <1>4 DEF AnswerInv, OwnAnswer

LEMMA CreationEndsKeepsAnswers ==
    ASSUME TInv, AnswerInv, deaths = 0, NEW cb \in Made, NEW b,
           busy # NoCall, Kind(cb) = "register", Dev(cb) = Dev(busy), OnResult(cb, busy, b),
           busy' = NoCall, UNCHANGED << calls, calling, born, deaths, events >>
    PROVE  AnswerInv'
<1>1. busy \in rstInfos /\ busy \notin calling /\ busy \in Made /\ Kind(busy) = "register"
  BY UnderWay DEF MadeTo
<1>2. /\ \A a \in answers' : a.caller = a.call
      /\ rstInfos' = rstInfos \ {busy} /\ unrstInfos' = unrstInfos
  BY <1>1, AnsweredOwn DEF InfosOf
<1>3. \A e \in calling' : e \in InfosOf(Kind(e))'
  BY <1>1, <1>2, UnderWay DEF InfosOf, Kind
<1>4. EntriesWait'
  BY <1>2, <1>3, UnderWay, WaitNext
<1> QED
  BY <1>2, <1>4 DEF AnswerInv, OwnAnswer

LEMMA CreateKeepsAnswers ==
    ASSUME TInv, AnswerInv, deaths = 0, CreateFails \/ AddDevice
    PROVE  AnswerInv'
<1>1. ASSUME CreateFails PROVE AnswerInv'
  <2>1. PICK i : i = FirstOf(regCallbacks, Dev(busy))
    OBVIOUS
  <2>2. /\ regCallbacks \in Seq(Calls) /\ Len(regCallbacks) \in Nat
        /\ DOMAIN regCallbacks = 1 .. Len(regCallbacks)
    BY LenProperties DEF TInv, TypeOK
  <2>3. \E j \in 1 .. Len(regCallbacks) : Dev(regCallbacks[j]) = Dev(busy)
    BY <1>1, <2>2 DEF CreateFails, TInv, CallsKept, Elements
  <2>4. i \in 1 .. Len(regCallbacks) /\ Dev(regCallbacks[i]) = Dev(busy)
    BY <2>1, <2>2, <2>3, FirstIsOf
  <2>5. regCallbacks[i] \in MadeTo("register")
    BY <2>2, <2>4 DEF TInv, CallsKept, Elements
  <2>6. /\ OnResult(regCallbacks[i], busy, FALSE) /\ busy # NoCall /\ busy' = NoCall
        /\ UNCHANGED << calls, calling, born, deaths, events >>
    BY <1>1, <2>1 DEF CreateFails
  <2> QED
    BY <2>4, <2>5, <2>6, CreationEndsKeepsAnswers DEF MadeTo
<1>2. ASSUME AddDevice PROVE AnswerInv'
  <2>1. /\ OnResult(busy, busy, TRUE) /\ busy # NoCall /\ busy' = NoCall
        /\ UNCHANGED << calls, calling, born, deaths, events >>
    BY <1>2 DEF AddDevice
  <2>2. busy \in MadeTo("register")
    BY <2>1 DEF TInv, CallsKept
  <2> QED
    BY <2>1, <2>2, CreationEndsKeepsAnswers DEF MadeTo
<1> QED
  BY <1>1, <1>2

LEMMA UnregisterFailsKeepsAnswers ==
    ASSUME TInv, AnswerInv, deaths = 0, NEW c, UnregisterFails(c)
    PROVE  AnswerInv'
<1>1. /\ c \in Made /\ c \in calling /\ Kind(c) = "unregister" /\ busy = NoCall /\ busy' = busy
      /\ c \in Calls /\ calling' = calling \ {c} /\ UNCHANGED << calls, born, deaths, events >>
  BY ReachedTyped DEF UnregisterFails, Reaches
<1>2. PICK list : list = Append(unregCallbacks, c)
  OBVIOUS
<1>3. PICK i : i = FirstOf(list, Dev(c))
  OBVIOUS
<1>4. /\ list \in Seq(Calls) /\ Len(list) \in Nat /\ Len(list) = Len(unregCallbacks) + 1
      /\ DOMAIN list = 1 .. Len(list) /\ Len(unregCallbacks) \in Nat
      /\ list[Len(list)] = c /\ Elements(list) = Elements(unregCallbacks) \cup {c}
  <2>1. unregCallbacks \in Seq(Calls)
    BY DEF TInv, TypeOK
  <2> QED
    BY <1>1, <1>2, <2>1, Appended
<1>5. i \in 1 .. Len(list) /\ Dev(list[i]) = Dev(c)
  <2>1. Len(list) \in 1 .. Len(list)
    BY <1>4
  <2> QED
    BY <1>3, <1>4, <2>1, FirstIsOf
<1>6. list[i] \in MadeTo("unregister")
  <2>1. list[i] \in Elements(list)
    BY <1>4, <1>5 DEF Elements
  <2> QED
    BY <1>1, <1>4, <2>1 DEF TInv, CallsKept, MadeTo
<1>7. OnResult(list[i], c, FALSE)
  BY <1>2, <1>3 DEF UnregisterFails
<1>8. /\ \A a \in answers' : a.caller = a.call
      /\ unrstInfos' = unrstInfos \ {c} /\ rstInfos' = rstInfos
  BY <1>1, <1>5, <1>6, <1>7, UnderWay, AnsweredOwn DEF MadeTo
<1>9. \A e \in calling' : e \in InfosOf(Kind(e))'
  BY <1>1, <1>8, UnderWay DEF InfosOf, Kind
<1>10. EntriesWait'
  BY <1>1, <1>8, <1>9, UnderWay, WaitNext
<1> QED
  BY <1>8, <1>10 DEF AnswerInv, OwnAnswer

LEMMA UnregisterKeepsAnswers ==
    ASSUME TInv, AnswerInv, deaths = 0, NEW c, Unregister(c)
    PROVE  AnswerInv'
<1>1. /\ c \in Made /\ c \in calling /\ Kind(c) = "unregister" /\ busy = NoCall /\ busy' = busy
      /\ c \in Calls /\ calling' = calling \ {c} /\ events' = Append(events, c)
      /\ UNCHANGED << calls, born, deaths, rstInfos, unrstInfos, answers >>
  BY ReachedTyped DEF Unregister, Reaches, NoResult, history
<1>2. c \in unrstInfos
  BY <1>1, UnderWay DEF InfosOf
<1>3. /\ DOMAIN events = 1 .. Len(events) /\ Len(events) \in Nat
      /\ DOMAIN events' = 1 .. Len(events) + 1
      /\ \A i \in 1 .. Len(events) : events'[i] = events[i]
      /\ events'[Len(events) + 1] = c
  <2>1. events \in Seq(Calls)
    BY DEF TInv, TypeOK
  <2> QED
    BY <1>1, <2>1, Appended
<1>4. \A e \in calling' : e \in InfosOf(Kind(e))'
  BY <1>1, UnderWay DEF InfosOf, Kind
<1>5. \A i \in DOMAIN events : events[i] \in unrstInfos /\ events[i] # c /\ events[i] \notin calling
  BY <1>1, UnderWay
<1>6. \A i \in DOMAIN events' : events'[i] \in unrstInfos' /\ events'[i] \notin calling'
  BY <1>1, <1>2, <1>3, <1>5
<1>7. \A i, j \in DOMAIN events' : events'[i] = events'[j] => i = j
  <2>1. \A i, j \in 1 .. Len(events) : events'[i] = events'[j] => i = j
    BY <1>3, UnderWay
  <2>2. \A i \in 1 .. Len(events) : events'[i] # events'[Len(events) + 1]
    BY <1>3, <1>5
  <2>3. \A i \in DOMAIN events' : i \in 1 .. Len(events) \/ i = Len(events) + 1
    BY <1>3
  <2> QED
    BY <2>1, <2>2, <2>3
<1>8. EntriesWait'
  BY <1>1, <1>4, <1>6, <1>7, UnderWay, WaitNext
<1> QED
  BY <1>1, <1>8 DEF AnswerInv, OwnAnswer

LEMMA RunUnregisterCallbackKeepsAnswers ==
    ASSUME TInv, AnswerInv, deaths = 0, RunUnregisterCallback
    PROVE  AnswerInv'
<1>1. PICK c : c = Head(events)
  OBVIOUS
<1>2. PICK i : i = FirstOf(unregCallbacks, Dev(c))
  OBVIOUS
<1>3. /\ events # << >> /\ events' = Tail(events) /\ busy = NoCall /\ busy' = busy
      /\ UNCHANGED << calls, calling, born, deaths >>
      /\ IF i = 0 THEN UNCHANGED << rstInfos, unrstInfos, answers >>
         ELSE OnResult(unregCallbacks[i], c, TRUE)
  BY <1>1, <1>2 DEF RunUnregisterCallback, NoResult, history
<1>4. /\ c = events[1] /\ 1 \in DOMAIN events /\ Len(events) \in Nat
      /\ DOMAIN events = 1 .. Len(events) /\ DOMAIN events' = 1 .. Len(events) - 1
      /\ \A j \in 1 .. Len(events) - 1 : events'[j] = events[j + 1]
  <2>1. events \in Seq(Calls)
    BY DEF TInv, TypeOK
  <2> QED
    BY <1>1, <1>3, <2>1, Tailed
<1>5. c \in unrstInfos /\ c \notin calling /\ Kind(c) = "unregister" /\ c \in Made
  BY <1>4, UnderWay
<1>6. \A j \in DOMAIN events' : j + 1 \in DOMAIN events /\ events'[j] = events[j + 1] /\ j + 1 # 1
  BY <1>4
<1>7. /\ \A j \in DOMAIN events' : /\ events'[j] \in unrstInfos /\ events'[j] # c
                                   /\ events'[j] \notin calling
      /\ \A j, k \in DOMAIN events' : events'[j] = events'[k] => j = k
  <2>1. \A j \in DOMAIN events' : /\ events'[j] \in unrstInfos /\ events'[j] # c
                                  /\ events'[j] \notin calling
    BY <1>4, <1>6, UnderWay
  <2>2. ASSUME NEW j \in DOMAIN events', NEW k \in DOMAIN events', events'[j] = events'[k]
        PROVE  j = k
    <3>1. j + 1 = k + 1
      BY <1>6, <2>2, UnderWay
    <3> QED
      BY <1>4, <3>1
  <2> QED
    BY <2>1, <2>2
<1>8. CASE i = 0
  <2>1. UNCHANGED << rstInfos, unrstInfos, answers >>
    BY <1>3, <1>8
  <2>2. \A e \in calling' : e \in InfosOf(Kind(e))'
    BY <1>3, <2>1, UnderWay DEF InfosOf, Kind
  <2>3. EntriesWait'
    BY <1>3, <1>7, <2>1, <2>2, UnderWay, WaitNext
  <2> QED
    BY <1>3, <2>1, <2>3 DEF AnswerInv, OwnAnswer
<1>9. CASE i # 0
  <2>1. unregCallbacks \in Seq(Calls) /\ Len(unregCallbacks) \in Nat
        /\ DOMAIN unregCallbacks = 1 .. Len(unregCallbacks)
    BY LenProperties DEF TInv, TypeOK
  <2>2. i \in 1 .. Len(unregCallbacks) /\ Dev(unregCallbacks[i]) = Dev(c)
    BY <1>2, <1>9, <2>1, FirstIsOf
  <2>3. unregCallbacks[i] \in MadeTo("unregister")
    BY <2>1, <2>2 DEF TInv, CallsKept, Elements
  <2>4. OnResult(unregCallbacks[i], c, TRUE)
    BY <1>3, <1>9
  <2>5. /\ \A a \in answers' : a.caller = a.call
        /\ unrstInfos' = unrstInfos \ {c} /\ rstInfos' = rstInfos
    BY <1>5, <2>2, <2>3, <2>4, AnsweredOwn DEF MadeTo, InfosOf
  <2>6. \A e \in calling' : e \in InfosOf(Kind(e))'
    BY <1>3, <1>5, <2>5, UnderWay DEF InfosOf, Kind
  <2>7. EntriesWait'
    BY <1>3, <1>7, <2>5, <2>6, UnderWay, WaitNext
  <2> QED
    BY <2>5, <2>7 DEF AnswerInv, OwnAnswer
<1> QED
  BY <1>8, <1>9

\* Steps that answer nothing and enter nothing, but may drop what waits.
LEMMA OthersKeepAnswers ==
    ASSUME TInv, AnswerInv, deaths = 0,
           UNCHANGED << calls, deaths, born, rstInfos, unrstInfos, answers >>,
           calling' \subseteq calling,
           busy' = busy \/ busy' = NoCall, events' = events \/ events' = << >>
    PROVE  AnswerInv'
<1>1. \A e \in calling' : e \in InfosOf(Kind(e))'
  BY UnderWay DEF InfosOf, Kind
<1>2. \A i \in DOMAIN << >> : FALSE
  OBVIOUS
<1>3. /\ \A i \in DOMAIN events' : events'[i] \in unrstInfos' /\ events'[i] \notin calling'
      /\ \A i, j \in DOMAIN events' : events'[i] = events'[j] => i = j
  BY <1>2, UnderWay
<1>4. EntriesWait'
  BY <1>1, <1>3, UnderWay, WaitNext
<1> QED
  BY <1>4 DEF AnswerInv, OwnAnswer

LEMMA NextAnswers == TInv /\ AnswerInv /\ [Next]_vars => AnswerInv'
<1> SUFFICES ASSUME TInv, AnswerInv, [Next]_vars PROVE AnswerInv'
  OBVIOUS
<1>d. deaths \in Nat
  BY RegistrationAssumption DEF TInv, TypeOK
<1>0. ASSUME deaths' # 0, deaths' \in Nat PROVE AnswerInv'
  BY <1>0 DEF AnswerInv, EntriesWait, OwnAnswer
<1>1. ASSUME deaths # 0 PROVE AnswerInv'
  <2>1. deaths' = deaths \/ deaths' = deaths + 1
    BY DEF Next, vars, client, UnregisterEnters, RegisterEnters, Enter, RegisterKnown, RegisterNew,
           UnregisterFails, Unregister, Reaches, SetUp, MatchPath, CreateFails, AddDevice,
           RunUnregisterCallback, Release, ScanAllNode, SetPathForVirDev, ServiceExits,
           OnRemoveSystemAbility, ServiceStarts, GetDInputSourceProxy, CallFails, CallsNobody,
           ClientDies, Die
  <2> QED
    BY <1>d, <1>0, <1>1, <2>1
<1>2. ASSUME deaths = 0 PROVE AnswerInv'
  <2>1. ASSUME NEW d \in Devices, UnregisterEnters(d) \/ \E s \in Descs : RegisterEnters(d, s)
        PROVE  AnswerInv'
    <3>1. ASSUME UnregisterEnters(d) PROVE AnswerInv'
      <4>1. "first" \in Descs
        BY DEF Descs
      <4> QED
        BY <1>2, <3>1, <4>1, EnterKeepsAnswers DEF UnregisterEnters, InfosOf
    <3>2. ASSUME NEW s \in Descs, RegisterEnters(d, s) PROVE AnswerInv'
      BY <1>2, <3>2, EnterKeepsAnswers DEF RegisterEnters, InfosOf
    <3> QED
      BY <2>1, <3>1, <3>2
  <2>2. ASSUME NEW c \in Calls,
               RegisterKnown(c) \/ RegisterNew(c) \/ UnregisterFails(c) \/ Unregister(c)
        PROVE  AnswerInv'
    BY <1>2, <2>2, RegisterKnownKeepsAnswers, RegisterNewKeepsAnswers,
       UnregisterFailsKeepsAnswers, UnregisterKeepsAnswers
  <2>3. ASSUME CreateFails \/ AddDevice \/ RunUnregisterCallback PROVE AnswerInv'
    BY <1>2, <2>3, CreateKeepsAnswers, RunUnregisterCallbackKeepsAnswers
  <2>4. ASSUME \/ Release \/ ScanAllNode \/ SetPathForVirDev
               \/ \E p \in Paths : SetUp(p) \/ MatchPath(p)
        PROVE  AnswerInv'
    <3>1. UNCHANGED << client, busy, events, answers >>
      BY <2>4 DEF Release, ScanAllNode, SetPathForVirDev, SetUp, MatchPath, service, history
    <3> QED
      BY <1>2, <3>1, OthersKeepAnswers DEF client
  <2>5. ASSUME \/ ServiceExits \/ OnRemoveSystemAbility \/ ServiceStarts \/ GetDInputSourceProxy
               \/ (\E c \in Calls : CallFails(c)) \/ UNCHANGED vars
        PROVE  AnswerInv'
    <3>1. /\ UNCHANGED << calls, deaths, born, rstInfos, unrstInfos, answers >>
          /\ calling' \subseteq calling
          /\ busy' = busy \/ busy' = NoCall
          /\ events' = events \/ events' = << >>
      BY <2>5 DEF ServiceExits, OnRemoveSystemAbility, ServiceStarts, GetDInputSourceProxy,
                  CallFails, vars, client, service, history
    <3> QED
      BY <1>2, <3>1, OthersKeepAnswers
  <2>6. ASSUME ClientDies \/ \E c \in Calls : CallsNobody(c) PROVE AnswerInv'
    <3>1. deaths' = deaths + 1
      BY <2>6 DEF ClientDies, CallsNobody, Die
    <3> QED
      BY <1>d, <1>0, <3>1
  <2> QED
    BY <2>1, <2>2, <2>3, <2>4, <2>5, <2>6 DEF Next
<1> QED
  BY <1>1, <1>2

LEMMA InitAnswers == Init => AnswerInv
<1> SUFFICES ASSUME Init PROVE AnswerInv
  OBVIOUS
<1>1. /\ calling = {} /\ rstInfos = {} /\ unrstInfos = {} /\ busy = NoCall /\ events = << >>
      /\ answers = {} /\ born = 0
  BY DEF Init
<1> QED
  BY <1>1 DEF AnswerInv, EntriesWait, OwnAnswer

(***************************************************************************)
(* The theorems.                                                           *)
(***************************************************************************)
LEMMA Inductive == Spec => [](TInv /\ NodeInv /\ AnswerInv)
<1>1. Init => TInv /\ NodeInv /\ AnswerInv
  BY InitTyped, InitNodes, InitAnswers
<1>2. TInv /\ NodeInv /\ AnswerInv /\ [Next]_vars => TInv' /\ NodeInv' /\ AnswerInv'
  BY NextTyped, NextNodes, NextAnswers
<1> QED
  BY <1>1, <1>2, PTL DEF Spec

\* Type correctness of client, service and node manager: also, that every answer is of a
\* call that was made and finds the callback it takes out of its list.
THEOREM TypeCorrect == Spec => []TypeOK
<1>1. TInv => TypeOK
  BY DEF TInv
<1> QED
  BY <1>1, Inductive, PTL

\* A device that the service knows, and that never came with another description, has its
\* node: RegisterDistributedHardware may answer "already registered" and create nothing.
THEOREM SteadyDevicesHaveNodes == Spec => []SteadyHasNode
<1>1. NodeInv => SteadyHasNode
  <2> SUFFICES ASSUME NodeInv, NEW d \in Steady, IsKnown(d) PROVE Has(d)
    BY DEF SteadyHasNode, Steady
  <2> QED
    BY DEF NodeInv, SteadyOnce, IsKnown
<1> QED
  BY <1>1, Inductive, PTL

\* Every node is of a device that the service knows, so that a removal or Release finds it.
THEOREM NoNodeIsForgotten == Spec => []NodesAreKnown
<1>1. NodeInv => NodesAreKnown
  BY DEF NodeInv, NodesKept, NodesAreKnown
<1> QED
  BY <1>1, Inductive, PTL

\* When the searches are over, SetPathForVirDev has left at each device the path of its own
\* node, though nodes came and went while the searches were under way.
THEOREM PathsAreOwn == Spec => []PathIsOwn
<1>1. NodeInv => PathIsOwn
  <2> SUFFICES ASSUME NodeInv, scans = << >>, scanning = Idle, busy = NoCall,
                      NEW d \in Devices, Has(d)
               PROVE  virtualDeviceMap[d].path = virtualDeviceMap[d].at
    BY DEF PathIsOwn
  <2>1. ~ Renewed(d)
    BY DEF Renewed, Making
  <2>2. scanning.dev # d
    BY RegistrationAssumption DEF Idle
  <2> QED
    BY <2>1, <2>2 DEF NodeInv, PathsDue
<1> QED
  BY <1>1, Inductive, PTL

\* A caller of a process that lives hears of its own call, though the lists of the service
\* go by device, keep callbacks that were called and are answered out of order.
THEOREM AnswersAreOwn == Spec => []OwnAnswer
<1>1. AnswerInv => OwnAnswer
  BY DEF AnswerInv
<1> QED
  BY <1>1, Inductive, PTL
=============================================================================
