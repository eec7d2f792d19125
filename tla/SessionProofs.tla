---------------------------- MODULE SessionProofs ----------------------------
(***************************************************************************)
(* Proofs about the sessions at their two ends.  First the sink service    *)
(* (SinkManager): for any sets of sessions, devices and types, and for     *)
(* whatever the environment does unless a theorem says.  Then the counters *)
(* of the source transport (SourceSessions): for any devices and callers   *)
(* and any number of sessions; its types hold however the calls overlap,   *)
(* the rest is for calls that do not (Serial).                             *)
(***************************************************************************)
EXTENDS SinkManager, SourceSessions, SequenceTheorems, FiniteSetTheorems, TLAPS

Entries == [sessionId : Sessions, switchState : BOOLEAN]

(***************************************************************************)
(* The switch vector.                                                      *)
(***************************************************************************)

\* Each entry is open, and no session has two: SwitchesAreLive for a vector v
\* and a set of open sessions R.
Live(v, R) ==
    /\ \A i \in DOMAIN v : v[i].sessionId \in R
    /\ \A i, j \in DOMAIN v : v[i].sessionId = v[j].sessionId => i = j

\* AddSession keeps the vector's type, and keeps it live when the session is open.
LEMMA AddSessionLive ==
    ASSUME NEW v \in Seq(Entries), NEW s \in Sessions, NEW R, s \in R, Live(v, R)
    PROVE  AddSession(v, s) \in Seq(Entries) /\ Live(AddSession(v, s), R)
<1>1. CASE HasSession(v, s)
  BY <1>1 DEF AddSession
<1>2. CASE ~HasSession(v, s)
  <2> DEFINE e == SwitchStateData(s, FALSE)
             w == Append(v, e)
  <2>1. e \in Entries /\ e.sessionId = s
    BY DEF Entries, SwitchStateData
  <2> HIDE DEF e
  <2>2. /\ w \in Seq(Entries)
        /\ Len(w) = Len(v) + 1
        /\ \A i \in 1 .. Len(v) : w[i] = v[i]
        /\ w[Len(v) + 1] = e
    BY <2>1, AppendProperties
  <2>3. \A i \in DOMAIN v : v[i].sessionId # s
    BY <1>2 DEF HasSession, IndexOfSession
  <2> HIDE DEF w
  <2>4. DOMAIN w = 1 .. (Len(v) + 1) /\ DOMAIN v = 1 .. Len(v) /\ Len(v) \in Nat
    BY <2>2, LenProperties
  <2>5. Live(w, R)
    BY <2>1, <2>2, <2>3, <2>4 DEF Live
  <2> QED
    BY <1>2, <2>2, <2>5 DEF AddSession, w, e
<1> QED
  BY <1>1, <1>2

\* RemoveSession takes the one entry of the session out of a live vector.
LEMMA RemoveSessionLive ==
    ASSUME NEW v \in Seq(Entries), NEW s \in Sessions, NEW R, Live(v, R)
    PROVE  /\ RemoveSession(v, s) \in Seq(Entries)
           /\ Live(RemoveSession(v, s), R \ {s})
<1>1. CASE ~HasSession(v, s)
  BY <1>1 DEF RemoveSession, HasSession, IndexOfSession, Live
<1>2. CASE HasSession(v, s)
  <2> DEFINE k == CHOOSE i \in IndexOfSession(v, s) :
                    \A j \in IndexOfSession(v, s) : i <= j
             w == [i \in 1 .. (Len(v) - 1) |-> IF i < k THEN v[i] ELSE v[i + 1]]
  <2>1. DOMAIN v = 1 .. Len(v) /\ Len(v) \in Nat /\ \A i \in 1 .. Len(v) : v[i] \in Entries
    BY LenProperties, ElementOfSeq
  <2>2. PICK m \in IndexOfSession(v, s) : TRUE
    BY <1>2 DEF HasSession
  <2>3. \A j \in IndexOfSession(v, s) : m <= j
    BY <2>1, <2>2 DEF IndexOfSession, Live
  <2>4. k \in 1 .. Len(v) /\ v[k].sessionId = s
    BY <2>1, <2>2, <2>3 DEF IndexOfSession
  <2> HIDE DEF k
  <2>5. Len(v) - 1 \in Nat
    BY <2>1, <2>4
  <2>6. \A i \in 1 .. (Len(v) - 1) : w[i] \in Entries
    BY <2>1, <2>4
  <2>7. w \in Seq(Entries)
    BY <2>5, <2>6, SeqDef
  <2>8. \A i \in DOMAIN v : i # k => v[i].sessionId # s
    BY <2>1, <2>4 DEF Live
  <2>9. Live(w, R \ {s})
    BY <2>1, <2>4, <2>8 DEF Live
  <2> QED
    BY <1>2, <2>7, <2>9 DEF RemoveSession, k
<1> QED
  BY <1>1, <1>2

\* Turning switches on or off keeps the sessions of the vector.
LEMMA SetSwitchLive ==
    ASSUME NEW v \in Seq(Entries), NEW s \in Sessions, NEW on \in BOOLEAN, NEW R, Live(v, R)
    PROVE  /\ SetSwitch(v, s, on) \in Seq(Entries)
           /\ Live(SetSwitch(v, s, on), R)
           /\ StopAllSwitch(v) \in Seq(Entries)
           /\ Live(StopAllSwitch(v), R)
<1>1. DOMAIN v = 1 .. Len(v) /\ Len(v) \in Nat /\ \A i \in 1 .. Len(v) : v[i] \in Entries
  BY LenProperties, ElementOfSeq
<1>2. \A i \in DOMAIN v : SetSwitch(v, s, on)[i] \in Entries
                          /\ SetSwitch(v, s, on)[i].sessionId = v[i].sessionId
  BY <1>1 DEF SetSwitch, SwitchStateData, Entries
<1>3. \A i \in DOMAIN v : StopAllSwitch(v)[i] \in Entries
                          /\ StopAllSwitch(v)[i].sessionId = v[i].sessionId
  BY <1>1 DEF StopAllSwitch, SwitchStateData, Entries
<1>4. SetSwitch(v, s, on) \in [1 .. Len(v) -> Entries] /\ DOMAIN SetSwitch(v, s, on) = DOMAIN v
  BY <1>1, <1>2 DEF SetSwitch
<1>5. StopAllSwitch(v) \in [1 .. Len(v) -> Entries] /\ DOMAIN StopAllSwitch(v) = DOMAIN v
  BY <1>1, <1>3 DEF StopAllSwitch
<1>6. SetSwitch(v, s, on) \in Seq(Entries) /\ StopAllSwitch(v) \in Seq(Entries)
  BY <1>1, <1>4, <1>5, SeqDef
<1>7. Live(SetSwitch(v, s, on), R)
  BY <1>2, <1>4 DEF Live
<1>8. Live(StopAllSwitch(v), R)
  BY <1>3, <1>5 DEF Live
<1> QED
  BY <1>6, <1>7, <1>8

(***************************************************************************)
(* The manager's map and set.                                              *)
(***************************************************************************)

MapOK ==
    /\ DOMAIN sharingDhIdsMap \subseteq Sessions
    /\ sharingDhIdsMap \in [DOMAIN sharingDhIdsMap -> SUBSET DhIds]
    /\ sharingDhIds \subseteq DhIds

\* Recording a start keeps the types and leaves nothing without an owner.
LEMMA StoreStartDhidsOwned ==
    ASSUME MapOK, SharingIsOwned, NEW s \in Sessions, NEW D \in SUBSET DhIds,
           StoreStartDhids(s, D)
    PROVE  MapOK' /\ SharingIsOwned'
<1>1. /\ DOMAIN sharingDhIdsMap' = DOMAIN sharingDhIdsMap \cup {s}
      /\ \A t \in DOMAIN sharingDhIdsMap : sharingDhIdsMap[t] \subseteq sharingDhIdsMap'[t]
      /\ D \subseteq sharingDhIdsMap'[s]
      /\ \A t \in DOMAIN sharingDhIdsMap' : sharingDhIdsMap'[t] \subseteq DhIds
      /\ sharingDhIdsMap' \in [DOMAIN sharingDhIdsMap' -> SUBSET DhIds]
      /\ sharingDhIds' = sharingDhIds \cup D
  BY DEF StoreStartDhids, MapOK
<1>2. MapOK'
  BY <1>1 DEF MapOK
<1>3. Owned \cup D \subseteq Owned'
  BY <1>1 DEF Owned
<1> QED
  BY <1>1, <1>2, <1>3 DEF SharingIsOwned

\* So does recording a stop, for a session with or without an entry.
LEMMA DeleteStopDhidsOwned ==
    ASSUME MapOK, SharingIsOwned, NEW s \in Sessions, NEW D \in SUBSET DhIds,
           DeleteStopDhids(s, D)
    PROVE  MapOK' /\ SharingIsOwned'
<1>1. CASE s \notin DOMAIN sharingDhIdsMap
  BY <1>1 DEF DeleteStopDhids, MapOK, SharingIsOwned, Owned
<1>2. CASE s \in DOMAIN sharingDhIdsMap
  <2>1. sharingDhIds' = sharingDhIds \ D
    BY <1>2 DEF DeleteStopDhids
  <2>2. /\ DOMAIN sharingDhIdsMap' \subseteq DOMAIN sharingDhIdsMap
        /\ sharingDhIdsMap' \in [DOMAIN sharingDhIdsMap' -> SUBSET DhIds]
        /\ \A t \in DOMAIN sharingDhIdsMap : \A d \in sharingDhIdsMap[t] \ D :
             t \in DOMAIN sharingDhIdsMap' /\ d \in sharingDhIdsMap'[t]
    <3>1. CASE sharingDhIdsMap[s] \ D = {}
      BY <1>2, <3>1 DEF DeleteStopDhids, MapOK
    <3>2. CASE sharingDhIdsMap[s] \ D # {}
      BY <1>2, <3>2 DEF DeleteStopDhids, MapOK
    <3> QED
      BY <3>1, <3>2
  <2>3. Owned \ D \subseteq Owned'
    BY <2>2 DEF Owned
  <2> QED
    BY <2>1, <2>2, <2>3 DEF MapOK, SharingIsOwned
<1> QED
  BY <1>1, <1>2

\* And forgetting everything.
LEMMA ClearResourcesStatusOwned ==
    ASSUME ClearResourcesStatus
    PROVE  MapOK' /\ SharingIsOwned'
  BY DEF ClearResourcesStatus, MapOK, SharingIsOwned

(***************************************************************************)
(* The invariants that hold whatever the environment does, by induction.   *)
(* Each handler keeps them together: FlaggedIsReported needs that a stop   *)
(* takes the same dhIds from the hub, the records and the client, and that *)
(* a client without a listener was told nothing (Deaf).                    *)
(***************************************************************************)
ClientOK ==
    /\ listening \in BOOLEAN
    /\ listenerDhIds \subseteq DhIds
    /\ missed \subseteq DhIds

Deaf ==
    /\ ~listening => listenerDhIds = {}
    /\ missed \cap listenerDhIds = {}

\* What was reported to be shared, heard or not.
Reported == listenerDhIds \cup missed

IInv == TypeOK /\ SharingIsOwned /\ FlaggedIsReported /\ SwitchesAreLive /\ Deaf

LEMMA TypeOKParts ==
    TypeOK => MapOK /\ switchVector \in Seq(Entries) /\ ClientOK
BY DEF TypeOK, MapOK, Entries, ClientOK

\* A report of a start or of a stop does its work on Reported, heard or not.
LEMMA ReportSharingReported ==
    ASSUME ClientOK, Deaf, NEW D \in SUBSET DhIds, ReportSharing(D)
    PROVE  ClientOK' /\ Deaf' /\ Reported' = Reported \cup D
  BY DEF ClientOK, Deaf, Reported, ReportSharing

LEMMA ReportNoSharingReported ==
    ASSUME ClientOK, Deaf, NEW D, ReportNoSharing(D)
    PROVE  ClientOK' /\ Deaf' /\ Reported' = Reported \ D
  BY DEF ClientOK, Deaf, Reported, ReportNoSharing

LEMMA SameClient ==
    ASSUME UNCHANGED clientVars
    PROVE  /\ UNCHANGED << listening, listenerDhIds, missed >>
           /\ Reported' = Reported
           /\ Deaf => Deaf'
           /\ ClientOK => ClientOK'
  BY DEF clientVars, Reported, Deaf, ClientOK

LEMMA FlaggedIsInReported ==
    /\ Deaf => (FlaggedIsReported <=> /\ isShare \subseteq devices
                                      /\ isShare \subseteq Reported
                                      /\ sharingDhIds \subseteq Reported)
    /\ Deaf' => (FlaggedIsReported' <=> /\ isShare' \subseteq devices'
                                        /\ isShare' \subseteq Reported'
                                        /\ sharingDhIds' \subseteq Reported')
  BY DEF FlaggedIsReported, Reported, Deaf

LEMMA LiveIsSwitchesAreLive ==
    /\ SwitchesAreLive <=> Live(switchVector, remoteSessions)
    /\ SwitchesAreLive' <=> Live(switchVector', remoteSessions')
BY DEF SwitchesAreLive, Live

LEMMA InitIInv == Init => IInv
<1> SUFFICES ASSUME Init PROVE IInv
  OBVIOUS
<1>1. TypeOK
  <2>1. switchVector \in Seq(Entries)
    BY EmptySeq DEF Init, InitSwitch
  <2>2. DOMAIN sharingDhIdsMap = {} /\ sharingDhIdsMap \in [{} -> SUBSET DhIds]
    BY DEF Init
  <2>3. devices \subseteq DhIds
    BY DEF Init
  <2> QED
    BY <2>1, <2>2, <2>3 DEF Init, TypeOK, Entries
<1>2. SharingIsOwned /\ FlaggedIsReported /\ Deaf
  BY DEF Init, SharingIsOwned, FlaggedIsReported, Deaf
<1>3. SwitchesAreLive
  BY DEF Init, SwitchesAreLive, InitSwitch
<1> QED
  BY <1>1, <1>2, <1>3 DEF IInv

\* The part of a stop that OnStopRemoteInputDhid and OnUnprepareRemoteInput share,
\* with the switches they may turn off.
LEMMA StopDhidsIInv ==
    ASSUME IInv, NEW s \in Sessions, NEW D \in SUBSET DhIds, StopDhids(s, D)
    PROVE  /\ (switchVector' \in Seq(Entries)) => TypeOK'
           /\ SharingIsOwned'
           /\ FlaggedIsReported' /\ Deaf'
           /\ SwitchesAfterStop(s, D) \in Seq(Entries)
           /\ Live(SwitchesAfterStop(s, D), remoteSessions)
           /\ remoteSessions' = remoteSessions
<1>1. MapOK' /\ SharingIsOwned'
  BY DeleteStopDhidsOwned, TypeOKParts DEF StopDhids, IInv
<1>a. ClientOK' /\ Deaf' /\ Reported' = Reported \ StopIndeed(s, D)
  <2>1. ReportNoSharing(StopIndeed(s, D)) /\ ClientOK /\ Deaf
    BY TypeOKParts DEF StopDhids, IInv
  <2> QED
    BY <2>1, ReportNoSharingReported
<1>2. (switchVector' \in Seq(Entries)) => TypeOK'
  BY <1>1, <1>a DEF IInv, TypeOK, MapOK, ClientOK, Entries, StopDhids, SetSharingDevices,
                    StopIndeed, RecordDhIds, procVars
<1>3. sharingDhIds' = sharingDhIds \ StopIndeed(s, D)
  BY DEF StopDhids, DeleteStopDhids, StopIndeed, IInv, TypeOK
<1>4. FlaggedIsReported'
  BY <1>3, <1>a, FlaggedIsInReported DEF IInv, StopDhids, SetSharingDevices
<1>5. switchVector \in Seq(Entries) /\ Live(switchVector, remoteSessions)
  BY TypeOKParts, LiveIsSwitchesAreLive DEF IInv
<1>6. StopSwitch(switchVector, s) \in Seq(Entries) /\ Live(StopSwitch(switchVector, s), remoteSessions)
  BY <1>5, SetSwitchLive DEF StopSwitch
<1>7. /\ StopAllSwitch(StopSwitch(switchVector, s)) \in Seq(Entries)
      /\ Live(StopAllSwitch(StopSwitch(switchVector, s)), remoteSessions)
  BY <1>6, SetSwitchLive
<1>8. /\ SwitchesAfterStop(s, D) \in Seq(Entries)
      /\ Live(SwitchesAfterStop(s, D), remoteSessions)
  BY <1>5, <1>7 DEF SwitchesAfterStop
<1> QED
  BY <1>1, <1>2, <1>4, <1>8, <1>a DEF StopDhids, procVars

\* A successful start by type keeps the invariant, whichever message asks for it.
LEMMA StartTypesIInv ==
    ASSUME IInv, NEW s \in Sessions, NEW T \in SUBSET Types, StartTypes(s, T)
    PROVE  IInv'
<1> DEFINE all == inputTypes \cup T
           D == DevicesOf(all)
           mice == IF Mouse \in all THEN DevicesOf({Mouse}) ELSE {}
<1>1. /\ StoreStartDhids(s, D)
      /\ switchVector' = StartSwitch(switchVector, s)
      /\ inputTypes' = all
      /\ SetSupportInputType(TRUE, all)
      /\ ReportSharing(D)
      /\ isStartTrans' = "SINK"
      /\ UNCHANGED << procVars, devices >>
  BY DEF StartTypes
<1>2. D \subseteq devices /\ D \in SUBSET DhIds /\ mice \subseteq DhIds
  BY DEF DevicesOf, IInv, TypeOK
<1>3. throughOut' \subseteq DhIds /\ lastSessionId' \in Sessions \cup {NoSession}
  BY <1>2 DEF StartTypes, RecordMice, RecordDhIds, stateVars, IInv, TypeOK
<1> HIDE DEF D
<1>4. MapOK' /\ SharingIsOwned' /\ sharingDhIds' = sharingDhIds \cup D
  BY <1>1, <1>2, StoreStartDhidsOwned, TypeOKParts DEF StoreStartDhids, IInv
<1>5. switchVector' \in Seq(Entries) /\ Live(switchVector', remoteSessions)
  BY <1>1, SetSwitchLive, TypeOKParts, LiveIsSwitchesAreLive DEF StartSwitch, IInv
<1>6. isShare' = isShare \cup D /\ sharedDHIds' = sharedDHIds
  BY <1>1 DEF SetSupportInputType, D
<1>a. ClientOK' /\ Deaf' /\ Reported' = Reported \cup D
  <2>1. ReportSharing(D) /\ ClientOK /\ Deaf
    BY <1>1, TypeOKParts DEF IInv
  <2> QED
    BY <1>2, <2>1, ReportSharingReported
<1>7. TypeOK'
  BY <1>1, <1>2, <1>3, <1>4, <1>5, <1>6, <1>a DEF IInv, TypeOK, MapOK, ClientOK, Entries, procVars
<1>8. FlaggedIsReported'
  BY <1>1, <1>2, <1>4, <1>6, <1>a, FlaggedIsInReported DEF IInv
<1> QED
  BY <1>1, <1>4, <1>5, <1>7, <1>8, <1>a, LiveIsSwitchesAreLive DEF IInv, procVars

\* Every step keeps the invariant.
LEMMA NextIInv == IInv /\ [Next]_vars => IInv'
<1> SUFFICES ASSUME IInv, [Next]_vars PROVE IInv'
  OBVIOUS
<1>a. /\ MapOK
      /\ SharingIsOwned
      /\ switchVector \in Seq(Entries)
      /\ Live(switchVector, remoteSessions)
      /\ ClientOK /\ Deaf
  BY TypeOKParts, LiveIsSwitchesAreLive DEF IInv
<1>1. ASSUME NEW s \in Sessions, OnPrepareRemoteInput(s)
      PROVE  IInv'
  <2>1. /\ switchVector' \in Seq(Entries)
        /\ Live(switchVector', remoteSessions')
    BY <1>a, <1>1, AddSessionLive DEF OnPrepareRemoteInput, Receives, procVars
  <2>2. UNCHANGED << sharingDhIdsMap, sharingDhIds, isShare, clientVars, devices >>
    BY <1>1 DEF OnPrepareRemoteInput, managerVars, hubVars
  <2>3. TypeOK'
    BY <1>1, <2>1 DEF IInv, TypeOK, Entries, OnPrepareRemoteInput, procVars, managerVars,
                      hubVars, clientVars, stateVars
  <2> QED
    BY <2>1, <2>2, <2>3, LiveIsSwitchesAreLive
       DEF IInv, SharingIsOwned, Owned, FlaggedIsReported, clientVars, Deaf
<1>2. ASSUME NEW s \in Sessions, OnUnprepareRemoteInput(s)
      PROVE  IInv'
  <2>1. CASE isShare # {}
    <3>1. /\ StopDhids(s, isShare)
          /\ switchVector' = RemoveSession(SwitchesAfterStop(s, isShare), s)
      BY <1>2, <2>1 DEF OnUnprepareRemoteInput
    <3>2. /\ SwitchesAfterStop(s, isShare) \in Seq(Entries)
          /\ Live(SwitchesAfterStop(s, isShare), remoteSessions)
          /\ remoteSessions' = remoteSessions
          /\ (switchVector' \in Seq(Entries)) => TypeOK'
          /\ SharingIsOwned' /\ FlaggedIsReported' /\ Deaf'
      BY <3>1, StopDhidsIInv DEF IInv, TypeOK
    <3>3. /\ switchVector' \in Seq(Entries)
          /\ Live(switchVector', remoteSessions \ {s})
      BY <3>1, <3>2, RemoveSessionLive
    <3> QED
      BY <3>2, <3>3, LiveIsSwitchesAreLive DEF IInv, Live
  <2>2. CASE isShare = {}
    <3>1. /\ switchVector' = RemoveSession(switchVector, s)
          /\ UNCHANGED << procVars, managerVars, hubVars, clientVars, stateVars >>
      BY <1>2, <2>2 DEF OnUnprepareRemoteInput
    <3>2. /\ switchVector' \in Seq(Entries)
          /\ Live(switchVector', remoteSessions \ {s})
      BY <1>a, <3>1, RemoveSessionLive
    <3>3. TypeOK'
      BY <3>1, <3>2 DEF IInv, TypeOK, Entries, procVars, managerVars, hubVars, clientVars,
                        stateVars
    <3>4. SharingIsOwned' /\ FlaggedIsReported' /\ Deaf'
      BY <3>1 DEF IInv, SharingIsOwned, Owned, FlaggedIsReported, Deaf, managerVars, hubVars,
                  clientVars
    <3>5. SwitchesAreLive'
      BY <3>1, <3>2, LiveIsSwitchesAreLive DEF Live, procVars
    <3> QED
      BY <3>3, <3>4, <3>5 DEF IInv
  <2> QED
    BY <2>1, <2>2
<1>3. ASSUME NEW s \in Sessions, NEW D \in SUBSET DhIds, OnStartRemoteInputDhid(s, D)
      PROVE  IInv'
  <2>1. CASE StartSwitchSucceeds(switchVector, s)
    <3>1. /\ StoreStartDhids(s, D \cap devices)
          /\ switchVector' = StartSwitch(switchVector, s)
          /\ UNCHANGED procVars
      BY <1>3, <2>1 DEF OnStartRemoteInputDhid
    <3>2. MapOK' /\ SharingIsOwned' /\ sharingDhIds' = sharingDhIds \cup (D \cap devices)
      BY <1>a, <3>1, StoreStartDhidsOwned DEF StoreStartDhids
    <3>3. switchVector' \in Seq(Entries) /\ Live(switchVector', remoteSessions)
      BY <1>a, <3>1, SetSwitchLive DEF StartSwitch
    <3>a. ClientOK' /\ Deaf' /\ Reported' = Reported \cup (D \cap devices)
      <4>1. ReportSharing(D \cap devices) /\ D \cap devices \in SUBSET DhIds
        BY <1>3, <2>1 DEF OnStartRemoteInputDhid
      <4> QED
        BY <1>a, <4>1, ReportSharingReported
    <3>4. TypeOK'
      BY <1>3, <2>1, <3>2, <3>3, <3>a
         DEF IInv, TypeOK, MapOK, ClientOK, Entries, OnStartRemoteInputDhid,
             SetSharingDevices, RecordDhIds, procVars
    <3>5. FlaggedIsReported'
      BY <1>3, <2>1, <3>2, <3>a, FlaggedIsInReported
         DEF IInv, OnStartRemoteInputDhid, SetSharingDevices
    <3> QED
      BY <3>1, <3>2, <3>3, <3>4, <3>5, <3>a, LiveIsSwitchesAreLive DEF IInv, procVars
  <2>2. CASE ~StartSwitchSucceeds(switchVector, s)
    <3>1. UNCHANGED vars
      BY <1>3, <2>2 DEF OnStartRemoteInputDhid
    <3> QED
      BY <3>1 DEF vars, procVars, managerVars, hubVars, clientVars, stateVars, IInv, TypeOK,
                  SharingIsOwned, Owned, FlaggedIsReported, SwitchesAreLive, Deaf
  <2> QED
    BY <2>1, <2>2
<1>4. ASSUME NEW s \in Sessions, NEW D \in SUBSET DhIds, OnStopRemoteInputDhid(s, D)
      PROVE  IInv'
  <2>1. StopDhids(s, D) /\ switchVector' = SwitchesAfterStop(s, D)
    BY <1>4 DEF OnStopRemoteInputDhid
  <2> QED
    BY <2>1, StopDhidsIInv, LiveIsSwitchesAreLive DEF IInv
<1>5. ASSUME NEW s \in Sessions, NEW T \in SUBSET Types,
             OnStartRemoteInput(s, T) \/ OnRelayStartTypeRemoteInput(s, T)
      PROVE  IInv'
  <2>1. CASE StartTypes(s, T)
    BY <2>1, StartTypesIInv
  <2>2. CASE ~StartTypes(s, T)
    <3>1. /\ isStartTrans' = "NULL"
          /\ RecordMice(inputTypes, s) \/ UNCHANGED stateVars
          /\ UNCHANGED << procVars, switchVector, inputTypes, sharingDhIdsMap,
                          sharingDhIds, hubVars, clientVars >>
      BY <1>5, <2>2 DEF OnStartRemoteInput, OnRelayStartTypeRemoteInput
    <3>2. throughOut' \subseteq DhIds /\ lastSessionId' \in Sessions \cup {NoSession}
      BY <3>1 DEF RecordMice, RecordDhIds, DevicesOf, stateVars, IInv, TypeOK
    <3>3. TypeOK'
      BY <3>1, <3>2 DEF IInv, TypeOK, procVars, hubVars, clientVars
    <3> QED
      BY <3>1, <3>3 DEF IInv, SharingIsOwned, Owned, FlaggedIsReported, SwitchesAreLive, Deaf,
                        procVars, hubVars, clientVars
  <2> QED
    BY <2>1, <2>2
<1>6. ASSUME NEW s \in Sessions, NEW T \in SUBSET Types, OnStopRemoteInput(s, T)
      PROVE  IInv'
  <2> DEFINE off == DevicesOf(T)
  <2>1. off \in SUBSET DhIds /\ off \subseteq devices
    BY DEF DevicesOf, IInv, TypeOK
  <2>2. DeleteStopDhids(s, off)
    BY <1>6 DEF OnStopRemoteInput
  <2>3. MapOK' /\ SharingIsOwned' /\ sharingDhIds' = sharingDhIds \ StopIndeed(s, off)
    BY <1>a, <2>1, <2>2, DeleteStopDhidsOwned DEF DeleteStopDhids, StopIndeed
  <2>4. /\ isShare' = isShare \ off
        /\ ReportNoSharing(StopIndeed(s, off))
        /\ UNCHANGED << procVars, devices, stateVars, sharedDHIds >>
        /\ inputTypes' = inputTypes \ T
    BY <1>6 DEF OnStopRemoteInput, SetSupportInputType
  <2>a. ClientOK' /\ Deaf' /\ Reported' = Reported \ StopIndeed(s, off)
    BY <1>a, <2>4, ReportNoSharingReported
  <2>5. /\ switchVector' \in Seq(Entries)
        /\ Live(switchVector', remoteSessions)
        /\ isStartTrans' \in {"NULL", "SINK"}
    BY <1>6, <1>a, SetSwitchLive DEF OnStopRemoteInput, IInv, TypeOK
  <2> HIDE DEF off
  <2>6. TypeOK'
    BY <2>3, <2>4, <2>5, <2>a DEF IInv, TypeOK, MapOK, ClientOK, Entries, procVars, stateVars
  <2>7. FlaggedIsReported'
    BY <2>3, <2>4, <2>a, FlaggedIsInReported DEF IInv, StopIndeed
  <2> QED
    BY <2>3, <2>4, <2>5, <2>6, <2>7, <2>a, LiveIsSwitchesAreLive DEF IInv, procVars
<1>7. ASSUME NEW s \in Sessions, SessionOpened(s)
      PROVE  IInv'
  BY <1>7 DEF IInv, TypeOK, SharingIsOwned, Owned, FlaggedIsReported, SwitchesAreLive, Deaf,
              SessionOpened, managerVars, hubVars, clientVars, stateVars
<1>8. ASSUME NEW s \in Sessions, SessionClosed(s)
      PROVE  IInv'
  <2>1. /\ switchVector' = RemoveSession(switchVector, s)
        /\ remoteSessions' = remoteSessions \ {s}
        /\ UNCHANGED << running, sourceLoaded, inputTypes, isStartTrans, hubVars,
                        clientVars, stateVars >>
        /\ ClearResourcesStatus \/ UNCHANGED << sharingDhIdsMap, sharingDhIds >>
    BY <1>8 DEF SessionClosed
  <2>2. switchVector' \in Seq(Entries) /\ Live(switchVector', remoteSessions')
    BY <1>a, <2>1, RemoveSessionLive
  <2>3. MapOK' /\ SharingIsOwned' /\ sharingDhIds' \subseteq sharingDhIds
    BY <1>a, <2>1, ClearResourcesStatusOwned
       DEF ClearResourcesStatus, MapOK, SharingIsOwned, Owned
  <2>4. TypeOK'
    BY <2>1, <2>2, <2>3 DEF IInv, TypeOK, MapOK, Entries, hubVars, clientVars, stateVars
  <2>5. FlaggedIsReported' /\ Deaf'
    BY <2>1, <2>3 DEF IInv, FlaggedIsReported, Deaf, hubVars, clientVars
  <2> QED
    BY <2>2, <2>3, <2>4, <2>5, LiveIsSwitchesAreLive DEF IInv
<1>9. ASSUME LoadSource
      PROVE  IInv'
  BY <1>9 DEF IInv, TypeOK, SharingIsOwned, Owned, FlaggedIsReported, SwitchesAreLive, Deaf,
              LoadSource, managerVars, hubVars, clientVars, stateVars
<1>10. ASSUME NEW d \in DhIds, PlugDevice(d) \/ UnplugDevice(d)
       PROVE  IInv'
  BY <1>10 DEF IInv, TypeOK, SharingIsOwned, Owned, FlaggedIsReported, SwitchesAreLive, Deaf,
               PlugDevice, UnplugDevice, procVars, managerVars, clientVars, stateVars
<1>11. ASSUME Release
       PROVE  IInv'
  <2>1. MapOK' /\ SharingIsOwned' /\ sharingDhIds' = {}
    BY <1>11, ClearResourcesStatusOwned DEF Release, ClearResourcesStatus
  <2>2. switchVector' \in Seq(Entries) /\ switchVector' = << >>
    BY <1>11, EmptySeq DEF Release, InitSwitch
  <2>3. TypeOK'
    BY <1>11, <2>1, <2>2 DEF IInv, TypeOK, MapOK, Entries, Release, hubVars, clientVars,
                             stateVars
  <2>4. FlaggedIsReported' /\ SwitchesAreLive' /\ Deaf'
    BY <1>11, <2>1, <2>2 DEF IInv, FlaggedIsReported, SwitchesAreLive, Deaf, Release, hubVars,
                             clientVars
  <2> QED
    BY <2>1, <2>3, <2>4 DEF IInv
<1>12. ASSUME InitAgain
       PROVE  IInv'
  BY <1>12 DEF IInv, TypeOK, SharingIsOwned, Owned, FlaggedIsReported, SwitchesAreLive, Deaf,
               InitAgain, hubVars, clientVars, stateVars
<1>13. CASE UNCHANGED vars
  BY <1>13 DEF vars, procVars, managerVars, hubVars, clientVars, stateVars, IInv, TypeOK,
               SharingIsOwned, Owned, FlaggedIsReported, SwitchesAreLive, Deaf
<1>14. ASSUME RegisterSharingDhIdListener
       PROVE  IInv'
  BY <1>14 DEF IInv, TypeOK, SharingIsOwned, Owned, FlaggedIsReported, SwitchesAreLive, Deaf,
               RegisterSharingDhIdListener, procVars, managerVars, hubVars, stateVars
<1> QED
  BY <1>1, <1>2, <1>3, <1>4, <1>5, <1>6, <1>7, <1>8, <1>9, <1>10, <1>11, <1>12, <1>13, <1>14
     DEF Next, SourceMessage, OnRelayPrepareRemoteInput, OnRelayUnprepareRemoteInput,
         OnRelayStartDhidRemoteInput, OnRelayStopDhidRemoteInput, OnRelayStopTypeRemoteInput

\* The conjunction is an invariant of the service in every environment.
THEOREM Invariance == Spec => []IInv
<1>1. Init => IInv
  BY InitIInv
<1>2. IInv /\ [Next]_vars => IInv'
  BY NextIInv
<1> QED
  BY <1>1, <1>2, PTL DEF Spec

\* Type correctness, for any number of sessions, devices and types.
THEOREM TypeCorrect == Spec => []TypeOK
<1>1. IInv => TypeOK
  BY DEF IInv
<1> QED
  BY <1>1, Invariance, PTL

\* However starts, stops, unprepares, lost sessions and Release interleave, the
\* manager's set of shared dhIds is covered by its map.
THEOREM SharingOwned == Spec => []SharingIsOwned
<1>1. IInv => SharingIsOwned
  BY DEF IInv
<1> QED
  BY <1>1, Invariance, PTL

\* A flagged device is plugged, and the local client filters its input unless the
\* report of its start found no listener.
THEOREM FlaggedReported == Spec => []FlaggedIsReported
<1>1. IInv => FlaggedIsReported
  BY DEF IInv
<1> QED
  BY <1>1, Invariance, PTL

\* A client whose listener is there before the first session misses no report.
Heard == listening /\ missed = {}

LEMMA NextHeard ==
    ASSUME "client" \notin Env
    PROVE  Heard /\ [Next]_vars => Heard'
<1> SUFFICES ASSUME Heard, [Next]_vars PROVE Heard'
  OBVIOUS
<1>1. ASSUME NEW D, ReportSharing(D) \/ ReportNoSharing(D)
      PROVE  Heard'
  BY <1>1 DEF Heard, ReportSharing, ReportNoSharing
<1>2. ASSUME UNCHANGED clientVars
      PROVE  Heard'
  BY <1>2 DEF Heard, clientVars
<1>3. ASSUME NEW s \in Sessions, NEW D, StopDhids(s, D)
      PROVE  Heard'
  BY <1>1, <1>3 DEF StopDhids
<1>4. ASSUME NEW s \in Sessions, OnPrepareRemoteInput(s) \/ OnUnprepareRemoteInput(s)
      PROVE  Heard'
  BY <1>2, <1>3, <1>4 DEF OnPrepareRemoteInput, OnUnprepareRemoteInput
<1>5. ASSUME NEW s \in Sessions, NEW D \in SUBSET DhIds, OnStartRemoteInputDhid(s, D)
      PROVE  Heard'
  <2>1. ReportSharing(D \cap devices) \/ UNCHANGED vars
    BY <1>5 DEF OnStartRemoteInputDhid
  <2> QED
    BY <1>1, <1>2, <2>1 DEF vars
<1>6. ASSUME NEW s \in Sessions, NEW D \in SUBSET DhIds, OnStopRemoteInputDhid(s, D)
      PROVE  Heard'
  BY <1>3, <1>6 DEF OnStopRemoteInputDhid
<1>7. ASSUME NEW s \in Sessions, NEW T \in SUBSET Types,
             OnStartRemoteInput(s, T) \/ OnRelayStartTypeRemoteInput(s, T)
      PROVE  Heard'
  <2>1. StartTypes(s, T) \/ UNCHANGED clientVars
    BY <1>7 DEF OnStartRemoteInput, OnRelayStartTypeRemoteInput
  <2> QED
    BY <1>1, <1>2, <2>1 DEF StartTypes
<1>8. ASSUME NEW s \in Sessions, NEW T \in SUBSET Types, OnStopRemoteInput(s, T)
      PROVE  Heard'
  BY <1>1, <1>8 DEF OnStopRemoteInput
<1>9. ASSUME \/ \E s \in Sessions : SessionOpened(s) \/ SessionClosed(s)
             \/ LoadSource
             \/ \E d \in DhIds : PlugDevice(d) \/ UnplugDevice(d)
             \/ Release
             \/ InitAgain
      PROVE  Heard'
  BY <1>2, <1>9 DEF SessionOpened, SessionClosed, LoadSource, PlugDevice, UnplugDevice,
                    Release, InitAgain
<1>10. ~RegisterSharingDhIdListener
  BY DEF RegisterSharingDhIdListener
<1>11. CASE UNCHANGED vars
  BY <1>2, <1>11 DEF vars
<1> QED
  BY <1>4, <1>5, <1>6, <1>7, <1>8, <1>9, <1>10, <1>11
     DEF Next, SourceMessage, OnRelayPrepareRemoteInput, OnRelayUnprepareRemoteInput,
         OnRelayStartDhidRemoteInput, OnRelayStopDhidRemoteInput, OnRelayStopTypeRemoteInput

\* Such a client has been told of every flagged and every recorded dhId, so that
\* IsStartDistributedInput is right about them.
THEOREM AllIsTold ==
    ASSUME "client" \notin Env
    PROVE  Spec => [](isShare \cup sharingDhIds \subseteq listenerDhIds)
<1>1. Init => IInv /\ Heard
  BY InitIInv DEF Init, Heard
<1>2. IInv /\ Heard /\ [Next]_vars => (IInv /\ Heard)'
  BY NextIInv, NextHeard
<1>3. IInv /\ Heard => isShare \cup sharingDhIds \subseteq listenerDhIds
  BY DEF IInv, FlaggedIsReported, Heard
<1> QED
  BY <1>1, <1>2, <1>3, PTL DEF Spec

\* The switch vector has open sessions only, each once.
THEOREM SwitchesLive == Spec => []SwitchesAreLive
<1>1. IInv => SwitchesAreLive
  BY DEF IInv
<1> QED
  BY <1>1, Invariance, PTL

(***************************************************************************)
(* Who may stop the forwarding of a device.                                *)
(***************************************************************************)

StopIsByOwner == sharedDHIds \ sharedDHIds' # {} =>
                   lastSessionId' \in DOMAIN sharingDhIdsMap \cap remoteSessions

\* A stop takes a dhId from sharedDHIds_ only for a session with an entry, and
\* RecordDhIds names the session that stopped.
LEMMA StopDhidsByOwner ==
    ASSUME NEW s \in Sessions, NEW D, StopDhids(s, D), s \in remoteSessions
    PROVE  StopIsByOwner
<1>1. sharedDHIds' = sharedDHIds \ StopIndeed(s, D) /\ lastSessionId' = s
  BY DEF StopDhids, SetSharingDevices, RecordDhIds
<1> QED
  BY <1>1 DEF StopIsByOwner, StopIndeed

\* No step of the service stops the forwarding of a device but on the order of an
\* open session that has started something: a type correct argument is not needed,
\* each handler does it on its own.
THEOREM OnlyOwnersStop == Spec => OnlyOwnersStopForwarding
<1>1. [Next]_vars => [StopIsByOwner]_vars
  <2> SUFFICES ASSUME [Next]_vars PROVE StopIsByOwner \/ UNCHANGED vars
    OBVIOUS
  <2>1. ASSUME NEW s \in Sessions, OnUnprepareRemoteInput(s)
        PROVE  StopIsByOwner
    BY <2>1, StopDhidsByOwner DEF OnUnprepareRemoteInput, Receives, hubVars, StopIsByOwner
  <2>2. ASSUME NEW s \in Sessions, NEW D \in SUBSET DhIds, OnStopRemoteInputDhid(s, D)
        PROVE  StopIsByOwner
    BY <2>2, StopDhidsByOwner DEF OnStopRemoteInputDhid, Receives
  <2>3. ASSUME NEW s \in Sessions, NEW D \in SUBSET DhIds, OnStartRemoteInputDhid(s, D)
        PROVE  StopIsByOwner \/ UNCHANGED vars
    BY <2>3 DEF OnStartRemoteInputDhid, SetSharingDevices, StopIsByOwner
  <2>4. ASSUME NEW s \in Sessions, OnPrepareRemoteInput(s)
        PROVE  StopIsByOwner
    BY <2>4 DEF OnPrepareRemoteInput, hubVars, StopIsByOwner
  <2>5. ASSUME NEW s \in Sessions, NEW T \in SUBSET Types,
               \/ OnStartRemoteInput(s, T)
               \/ OnRelayStartTypeRemoteInput(s, T)
               \/ OnStopRemoteInput(s, T)
        PROVE  StopIsByOwner
    BY <2>5 DEF OnStartRemoteInput, OnRelayStartTypeRemoteInput, OnStopRemoteInput,
                StartTypes, SetSupportInputType, hubVars, StopIsByOwner
  <2>6. ASSUME \/ \E s \in Sessions : SessionOpened(s) \/ SessionClosed(s)
               \/ LoadSource
               \/ RegisterSharingDhIdListener
               \/ \E d \in DhIds : PlugDevice(d) \/ UnplugDevice(d)
               \/ Release
               \/ InitAgain
        PROVE  StopIsByOwner
    BY <2>6 DEF SessionOpened, SessionClosed, LoadSource, RegisterSharingDhIdListener, PlugDevice, UnplugDevice, Release,
                InitAgain, hubVars, StopIsByOwner
  <2> QED
    BY <2>1, <2>2, <2>3, <2>4, <2>5, <2>6
       DEF Next, SourceMessage, OnRelayPrepareRemoteInput, OnRelayUnprepareRemoteInput,
           OnRelayStartDhidRemoteInput, OnRelayStopDhidRemoteInput, OnRelayStopTypeRemoteInput
<1> QED
  BY <1>1, PTL DEF Spec, OnlyOwnersStopForwarding, StopIsByOwner

(***************************************************************************)
(* Sources that start and stop dhIds only, devices that stay plugged and   *)
(* sessions that end prepared sources only after an unprepare: the four    *)
(* records of what is shared agree, and what is shared has a receiver.     *)
(* By induction, together: that an unprepare finds every shared device in  *)
(* the flags rests on the agreement, and that no device is shared without  *)
(* a receiver rests on the unprepare stopping all of them.                 *)
(***************************************************************************)
AgreeInv ==
    /\ devices = DhIds
    /\ ~sourceLoaded
    /\ ViewsAgree
    /\ SharedHasReceiver

\* Removing a session, or adding one, leaves the other switches as they were.
LEMMA OtherSwitches ==
    ASSUME NEW v \in Seq(Entries), NEW R, Live(v, R),
           NEW s \in Sessions, NEW t \in Sessions, SwitchOn(v, t)
    PROVE  /\ SwitchOn(AddSession(v, s), t)
           /\ SwitchOn(StartSwitch(v, s), t)
           /\ t # s \/ ~HasSession(v, s) => SwitchOn(RemoveSession(v, s), t)
<1>1. DOMAIN v = 1 .. Len(v) /\ Len(v) \in Nat
  BY LenProperties
<1>2. PICK i \in 1 .. Len(v) : v[i] = SwitchStateData(t, TRUE)
  BY <1>1 DEF SwitchOn
<1>3. SwitchOn(AddSession(v, s), t)
  <2>1. CASE HasSession(v, s)
    BY <2>1 DEF AddSession
  <2>2. CASE ~HasSession(v, s)
    <3>1. SwitchStateData(s, FALSE) \in Entries
      BY DEF SwitchStateData, Entries
    <3>2. /\ i \in DOMAIN Append(v, SwitchStateData(s, FALSE))
          /\ Append(v, SwitchStateData(s, FALSE))[i] = v[i]
      BY <1>1, <1>2, <3>1, AppendProperties, LenProperties
    <3> QED
      BY <1>2, <2>2, <3>2 DEF AddSession, SwitchOn
  <2> QED
    BY <2>1, <2>2
<1>4. SwitchOn(StartSwitch(v, s), t)
  <2>1. v[i].sessionId = t
    BY <1>2 DEF SwitchStateData
  <2>2. i \in DOMAIN StartSwitch(v, s) /\ StartSwitch(v, s)[i] = SwitchStateData(t, TRUE)
    BY <1>1, <1>2, <2>1 DEF StartSwitch, SetSwitch
  <2> QED
    BY <2>2 DEF SwitchOn
<1>5. ASSUME t # s \/ ~HasSession(v, s)
      PROVE  SwitchOn(RemoveSession(v, s), t)
  <2>1. CASE ~HasSession(v, s)
    BY <2>1 DEF RemoveSession
  <2>2. CASE HasSession(v, s) /\ t # s
    <3> DEFINE k == CHOOSE j \in IndexOfSession(v, s) :
                      \A l \in IndexOfSession(v, s) : j <= l
               w == [j \in 1 .. (Len(v) - 1) |-> IF j < k THEN v[j] ELSE v[j + 1]]
    <3>1. CASE k \in 1 .. Len(v) /\ i # k
      <4> HIDE DEF k
      <4>1. CASE i < k
        <5>1. i \in DOMAIN w /\ w[i] = v[i]
          BY <1>1, <3>1, <4>1
        <5> QED
          BY <1>2, <2>2, <5>1 DEF RemoveSession, SwitchOn, k
      <4>2. CASE i > k
        <5>1. i - 1 \in DOMAIN w /\ w[i - 1] = v[i]
          BY <1>1, <3>1, <4>2
        <5> QED
          BY <1>2, <2>2, <5>1 DEF RemoveSession, SwitchOn, k
      <4> QED
        BY <1>1, <3>1, <4>1, <4>2
    <3>2. k \in IndexOfSession(v, s)
      <4>1. PICK m \in IndexOfSession(v, s) : \A l \in IndexOfSession(v, s) : m <= l
        BY <1>1, <2>2 DEF IndexOfSession, HasSession, Live
      <4> QED
        BY <4>1
    <3>3. k \in 1 .. Len(v) /\ i # k
      <4>1. v[i].sessionId = t
        BY <1>2 DEF SwitchStateData
      <4> HIDE DEF k
      <4> QED
        BY <1>1, <2>2, <3>2, <4>1 DEF IndexOfSession
    <3> QED
      BY <3>1, <3>3
  <2> QED
    BY <1>5, <2>1, <2>2
<1> QED
  BY <1>3, <1>4, <1>5

LEMMA ViewsAreReported ==
    /\ Deaf => (ViewsAgree <=> /\ sharedDHIds = isShare
                               /\ sharedDHIds = sharingDhIds
                               /\ sharedDHIds = Reported)
    /\ Deaf' => (ViewsAgree' <=> /\ sharedDHIds' = isShare'
                                 /\ sharedDHIds' = sharingDhIds'
                                 /\ sharedDHIds' = Reported')
  BY DEF ViewsAgree, Reported, Deaf

\* What a stop of D by s leaves: the views agree, and what is still shared is still
\* owned by a session whose switch the stop left alone.
LEMMA StopDhidsAgree ==
    ASSUME IInv, AgreeInv, NEW s \in Sessions, NEW D \in SUBSET DhIds, StopDhids(s, D)
    PROVE  /\ devices' = DhIds /\ ~sourceLoaded' /\ ViewsAgree'
           /\ sharedDHIds' = {} \/ SwitchesAfterStop(s, D) = switchVector
           /\ \A d \in sharedDHIds' : \E t \in DOMAIN sharingDhIdsMap' :
                d \in sharingDhIdsMap'[t] /\ SwitchOn(switchVector, t)
           /\ s \in DOMAIN sharingDhIdsMap => sharedDHIds' = sharedDHIds \ D
           /\ s \notin DOMAIN sharingDhIdsMap => sharingDhIdsMap' = sharingDhIdsMap
<1> DEFINE I == StopIndeed(s, D)
<1>1. /\ DeleteStopDhids(s, D)
      /\ SetSharingDevices(FALSE, I)
      /\ ReportNoSharing(I)
      /\ UNCHANGED << procVars, devices >>
      /\ ClientOK /\ Deaf
  BY TypeOKParts DEF StopDhids, IInv
<1>2. I \subseteq devices
  BY DEF StopIndeed, AgreeInv
<1>3. /\ sharedDHIds' = sharedDHIds \ I
      /\ isShare' = isShare \ I
      /\ sharingDhIds' = sharingDhIds \ I
      /\ devices' = DhIds /\ ~sourceLoaded'
  BY <1>1, <1>2 DEF SetSharingDevices, DeleteStopDhids, StopIndeed, procVars, AgreeInv
<1>a. Deaf' /\ Reported' = Reported \ I
  <2> HIDE DEF I
  <2> QED
    BY <1>1, ReportNoSharingReported
<1>4. ViewsAgree'
  BY <1>3, <1>a, ViewsAreReported DEF AgreeInv, IInv
<1>5. sharedDHIds' = {} \/ SwitchesAfterStop(s, D) = switchVector
  BY <1>3 DEF SwitchesAfterStop, LeavesNoneShared, AllDevicesStopped
<1>6. ASSUME NEW d \in sharedDHIds'
      PROVE  \E t \in DOMAIN sharingDhIdsMap' :
                d \in sharingDhIdsMap'[t] /\ SwitchOn(switchVector, t)
  <2>1. d \in sharedDHIds /\ d \notin I
    BY <1>3
  <2>2. PICK t \in DOMAIN sharingDhIdsMap :
               d \in sharingDhIdsMap[t] /\ SwitchOn(switchVector, t)
    BY <2>1 DEF AgreeInv, SharedHasReceiver
  <2>3. CASE s \notin DOMAIN sharingDhIdsMap
    BY <1>1, <2>2, <2>3 DEF DeleteStopDhids
  <2>4. CASE s \in DOMAIN sharingDhIdsMap
    <3>1. d \notin D
      BY <2>1, <2>4 DEF StopIndeed
    <3>2. t \in DOMAIN sharingDhIdsMap' /\ d \in sharingDhIdsMap'[t]
      BY <1>1, <2>2, <2>4, <3>1 DEF DeleteStopDhids, IInv, TypeOK
    <3> QED
      BY <2>2, <3>2
  <2> QED
    BY <2>3, <2>4
<1>7. /\ s \in DOMAIN sharingDhIdsMap => sharedDHIds' = sharedDHIds \ D
      /\ s \notin DOMAIN sharingDhIdsMap => sharingDhIdsMap' = sharingDhIdsMap
  BY <1>1, <1>3 DEF StopIndeed, DeleteStopDhids
<1> QED
  BY <1>3, <1>4, <1>5, <1>6, <1>7

LEMMA NextAgree ==
    ASSUME Env \subseteq {"client"}
    PROVE  IInv /\ AgreeInv /\ [Next]_vars => AgreeInv'
<1> SUFFICES ASSUME IInv, AgreeInv, [Next]_vars PROVE AgreeInv'
  OBVIOUS
<1>a. switchVector \in Seq(Entries) /\ Live(switchVector, remoteSessions)
  BY TypeOKParts, LiveIsSwitchesAreLive DEF IInv
<1>b. DOMAIN sharingDhIdsMap \subseteq Sessions
  BY DEF IInv, TypeOK
<1>1. ASSUME NEW s \in Sessions, OnPrepareRemoteInput(s)
      PROVE  AgreeInv'
  <2>1. UNCHANGED << procVars, managerVars, hubVars, clientVars >>
        /\ switchVector' = AddSession(switchVector, s)
    BY <1>1 DEF OnPrepareRemoteInput
  <2>2. SharedHasReceiver'
    BY <1>a, <1>b, <2>1, OtherSwitches DEF AgreeInv, SharedHasReceiver, managerVars, hubVars
  <2> QED
    BY <2>1, <2>2 DEF AgreeInv, ViewsAgree, procVars, managerVars, hubVars, clientVars
<1>2. ASSUME NEW s \in Sessions, OnUnprepareRemoteInput(s)
      PROVE  AgreeInv'
  <2>1. CASE isShare # {}
    <3>1. /\ StopDhids(s, isShare)
          /\ switchVector' = RemoveSession(SwitchesAfterStop(s, isShare), s)
      BY <1>2, <2>1 DEF OnUnprepareRemoteInput
    <3>2. isShare \in SUBSET DhIds
      BY DEF IInv, TypeOK
    <3>3. /\ devices' = DhIds /\ ~sourceLoaded' /\ ViewsAgree'
          /\ sharedDHIds' = {} \/ SwitchesAfterStop(s, isShare) = switchVector
          /\ s \in DOMAIN sharingDhIdsMap => sharedDHIds' = sharedDHIds \ isShare
          /\ s \notin DOMAIN sharingDhIdsMap => sharingDhIdsMap' = sharingDhIdsMap
          /\ \A d \in sharedDHIds' : \E t \in DOMAIN sharingDhIdsMap' :
                d \in sharingDhIdsMap'[t] /\ SwitchOn(switchVector, t)
      BY <3>1, <3>2, StopDhidsAgree
    <3>4. SharedHasReceiver'
      <4>1. CASE sharedDHIds' = {}
        BY <4>1 DEF SharedHasReceiver
      <4>2. CASE sharedDHIds' # {}
        <5>1. s \notin DOMAIN sharingDhIdsMap
          BY <3>3, <4>2 DEF AgreeInv, ViewsAgree
        <5>2. switchVector' = RemoveSession(switchVector, s)
          BY <3>1, <3>3, <4>2
        <5>3. \A t \in DOMAIN sharingDhIdsMap :
                 SwitchOn(switchVector, t) => SwitchOn(switchVector', t)
          BY <1>a, <1>b, <5>1, <5>2, OtherSwitches
        <5> QED
          BY <3>3, <5>1, <5>3 DEF SharedHasReceiver
      <4> QED
        BY <4>1, <4>2
    <3> QED
      BY <3>3, <3>4 DEF AgreeInv
  <2>2. CASE isShare = {}
    <3>1. UNCHANGED << procVars, managerVars, hubVars, clientVars >>
      BY <1>2, <2>2 DEF OnUnprepareRemoteInput
    <3>2. devices' = DhIds /\ ~sourceLoaded' /\ ViewsAgree' /\ isShare' = {}
      BY <2>2, <3>1 DEF AgreeInv, ViewsAgree, procVars, managerVars, hubVars, clientVars
    <3> QED
      BY <3>2 DEF AgreeInv, ViewsAgree, SharedHasReceiver
  <2> QED
    BY <2>1, <2>2
<1>3. ASSUME NEW s \in Sessions, NEW D \in SUBSET DhIds, OnStartRemoteInputDhid(s, D)
      PROVE  AgreeInv'
  <2>1. CASE StartSwitchSucceeds(switchVector, s)
    <3>1. /\ switchVector' = StartSwitch(switchVector, s)
          /\ SetSharingDevices(TRUE, D)
          /\ StoreStartDhids(s, D)
          /\ ReportSharing(D)
          /\ UNCHANGED << procVars, devices >>
      <4>1. D \cap devices = D
        BY DEF AgreeInv
      <4> QED
        BY <1>3, <2>1, <4>1 DEF OnStartRemoteInputDhid
    <3>a. Deaf' /\ Reported' = Reported \cup D
      <4>1. ClientOK /\ Deaf
        BY TypeOKParts DEF IInv
      <4> QED
        BY <3>1, <4>1, ReportSharingReported
    <3>2. devices' = DhIds /\ ~sourceLoaded' /\ ViewsAgree' /\ sharedDHIds' = sharedDHIds \cup D
      BY <3>1, <3>a, ViewsAreReported DEF IInv, AgreeInv, procVars, SetSharingDevices,
                                          StoreStartDhids
    <3>3. SwitchOn(switchVector', s)
      <4>1. PICK i \in DOMAIN switchVector : switchVector[i].sessionId = s
        BY <2>1 DEF StartSwitchSucceeds, HasSession, IndexOfSession
      <4> QED
        BY <3>1, <4>1 DEF StartSwitch, SetSwitch, SwitchOn
    <3>4. /\ DOMAIN sharingDhIdsMap' = DOMAIN sharingDhIdsMap \cup {s}
          /\ \A t \in DOMAIN sharingDhIdsMap : sharingDhIdsMap[t] \subseteq sharingDhIdsMap'[t]
          /\ D \subseteq sharingDhIdsMap'[s]
      BY <3>1 DEF StoreStartDhids
    <3>5. \A t \in DOMAIN sharingDhIdsMap :
             SwitchOn(switchVector, t) => SwitchOn(switchVector', t)
      BY <1>a, <1>b, <3>1, OtherSwitches
    <3>6. SharedHasReceiver'
      BY <3>2, <3>3, <3>4, <3>5 DEF AgreeInv, SharedHasReceiver
    <3> QED
      BY <3>2, <3>6 DEF AgreeInv
  <2>2. CASE ~StartSwitchSucceeds(switchVector, s)
    BY <1>3, <2>2 DEF OnStartRemoteInputDhid, vars, procVars, managerVars, hubVars,
                      clientVars, AgreeInv, ViewsAgree, SharedHasReceiver
  <2> QED
    BY <2>1, <2>2
<1>4. ASSUME NEW s \in Sessions, NEW D \in SUBSET DhIds, OnStopRemoteInputDhid(s, D)
      PROVE  AgreeInv'
  BY <1>4, StopDhidsAgree DEF OnStopRemoteInputDhid, AgreeInv, SharedHasReceiver
<1>5. ASSUME NEW s \in Sessions, SessionOpened(s)
      PROVE  AgreeInv'
  BY <1>5 DEF SessionOpened, AgreeInv, ViewsAgree, SharedHasReceiver, managerVars, hubVars,
              clientVars
<1>6. ASSUME NEW s \in Sessions, SessionClosed(s)
      PROVE  AgreeInv'
  <2>1. RemoveSession(switchVector, s) = switchVector
    BY <1>6 DEF SessionClosed, RemoveSession
  <2>2. UNCHANGED << switchVector, sourceLoaded, sharingDhIdsMap, sharingDhIds, hubVars,
                     clientVars >>
    BY <1>6, <2>1 DEF SessionClosed, AgreeInv
  <2> QED
    BY <2>2 DEF AgreeInv, ViewsAgree, SharedHasReceiver, SwitchOn, hubVars, clientVars
<1>7. ASSUME InitAgain
      PROVE  AgreeInv'
  BY <1>7 DEF InitAgain, AgreeInv, ViewsAgree, SharedHasReceiver, hubVars, clientVars
<1>8. CASE UNCHANGED vars
  BY <1>8 DEF vars, procVars, managerVars, hubVars, clientVars, AgreeInv, ViewsAgree,
              SharedHasReceiver
<1>9. ASSUME RegisterSharingDhIdListener
      PROVE  AgreeInv'
  BY <1>9 DEF RegisterSharingDhIdListener, procVars, managerVars, hubVars, AgreeInv,
              ViewsAgree, SharedHasReceiver
<1> QED
  BY <1>1, <1>2, <1>3, <1>4, <1>5, <1>6, <1>7, <1>8, <1>9
     DEF Next, SourceMessage, OnRelayPrepareRemoteInput, OnRelayUnprepareRemoteInput,
         OnRelayStartDhidRemoteInput, OnRelayStopDhidRemoteInput, OnRelayStopTypeRemoteInput,
         OnStartRemoteInput, OnRelayStartTypeRemoteInput, OnStopRemoteInput, LoadSource,
         PlugDevice, UnplugDevice, Release

\* The manager, the hub and the local client agree on what is shared, apart from
\* what a client that listens late has missed.
THEOREM ViewsAgreeing ==
    ASSUME Env \subseteq {"client"}
    PROVE  Spec => []ViewsAgree
<1>1. Init => IInv /\ AgreeInv
  BY InitIInv DEF Init, AgreeInv, ViewsAgree, SharedHasReceiver
<1>2. IInv /\ AgreeInv /\ [Next]_vars => (IInv /\ AgreeInv)'
  BY NextIInv, NextAgree
<1>3. IInv /\ AgreeInv => ViewsAgree
  BY DEF AgreeInv
<1> QED
  BY <1>1, <1>2, <1>3, PTL DEF Spec

\* Every shared device has a session that started it and whose switch is on.
THEOREM SharedReceived ==
    ASSUME Env \subseteq {"client"}
    PROVE  Spec => []SharedHasReceiver
<1>1. Init => IInv /\ AgreeInv
  BY InitIInv DEF Init, AgreeInv, ViewsAgree, SharedHasReceiver
<1>2. IInv /\ AgreeInv /\ [Next]_vars => (IInv /\ AgreeInv)'
  BY NextIInv, NextAgree
<1>3. IInv /\ AgreeInv => SharedHasReceiver
  BY DEF AgreeInv
<1> QED
  BY <1>1, <1>2, <1>3, PTL DEF Spec

(***************************************************************************)
(* The counters of the source transport.                                   *)
(***************************************************************************)

\* What a caller can be at when n sessions were opened.
Calls(n) == [at : CallerStates, dev : Devices \cup {NoDevice}, toSrc : BOOLEAN, session : 0 .. n]

BusCalls == [at : BusStates, dev : Devices \cup {NoDevice}, toSrc : BOOLEAN, locked : BOOLEAN]

\* A caller that opens a session, and a stop, have a device.
WithDevice ==
    /\ \A c \in Callers :
           caller[c].at \notin {"idle", "releaseLatency", "releaseJoin"} => caller[c].dev \in Devices
    /\ \A c \in Callers : caller[c].at = "open" => caller[c].session # 0
    /\ bus.at = "stop" => bus.dev \in Devices

\* At most one of the callers and the callback thread is in a call.
OneAtATime ==
    /\ bus.at # "idle" => \A c \in Callers : caller[c].at = "idle"
    /\ \A c1, c2 \in Callers : caller[c1].at # "idle" /\ caller[c2].at # "idle" => c1 = c2

InjectMatch == injectThreadNum >= 0 /\ (injectRunning <=> injectThreadNum > 0)

LatencyMatch ==
    /\ latencyThreadNum >= 0
    /\ latencyRunning <=> latencyThreadNum > 0
    /\ latencyThread = "none" <=> latencyThreadNum = 0
    /\ latencyRunning => latencyThread # "done"

\* Where nobody is between a test of a counter and its change.
Settled ==
    /\ bus.at \in {"idle", "stop", "erase", "inject"}
    /\ \A c \in Callers : caller[c].at \in {"idle", "connect", "open", "latency"}

SettledMatch == InjectMatch /\ LatencyMatch /\ injectThreadNum = latencyThreadNum

\* What holds at each point between a test and its count.
CallerMatch(c) ==
    /\ caller[c].at = "latencyInc" =>
           /\ InjectMatch /\ injectThreadNum = latencyThreadNum
           /\ latencyRunning /\ latencyThread \in {"test", "count"}
    /\ caller[c].at = "inject" =>
           InjectMatch /\ LatencyMatch /\ latencyThreadNum = injectThreadNum + 1
    /\ caller[c].at = "injectInc" =>
           /\ injectRunning /\ injectThreadNum >= 0
           /\ LatencyMatch /\ latencyThreadNum = injectThreadNum + 1
    /\ caller[c].at = "releaseLatency" => InjectMatch /\ injectThreadNum = 0 /\ LatencyMatch
    /\ caller[c].at = "releaseJoin" =>
           /\ InjectMatch /\ injectThreadNum = 0
           /\ ~latencyRunning /\ latencyThreadNum > 0 /\ latencyThread # "none"

BusMatch ==
    /\ bus.at = "injectDec" =>
           /\ LatencyMatch /\ injectThreadNum = latencyThreadNum /\ injectThreadNum >= 1
           /\ injectRunning <=> injectThreadNum > 1
    /\ bus.at = "latency" =>
           /\ InjectMatch /\ LatencyMatch
           /\ \/ latencyThreadNum = injectThreadNum + 1
              \/ latencyThreadNum = 0 /\ injectThreadNum = 0
    /\ bus.at = "latencyJoin" =>
           /\ InjectMatch /\ injectThreadNum = 0 /\ latencyThreadNum = 1
           /\ ~latencyRunning /\ latencyThread # "none"
    /\ bus.at = "latencyDec" =>
           /\ InjectMatch /\ latencyThreadNum = injectThreadNum + 1
           /\ latencyRunning <=> latencyThreadNum > 1
           /\ latencyThread = "none" <=> latencyThreadNum = 1
           /\ latencyRunning => latencyThread # "done"

Match ==
    /\ ~terminated
    /\ Settled => SettledMatch
    /\ \A c \in Callers : CallerMatch(c)
    /\ BusMatch

\* The end of a session that was taken off inUse and not off the counter yet.
Due == IF bus.at \in {"inject", "injectDec"} THEN 1 ELSE 0

Covered ==
    /\ IsFiniteSet(inUse)
    /\ ~strangers => injectThreadNum - Due >= Cardinality(inUse)
    /\ ~strangers /\ ~overCounted => injectThreadNum - Due = Cardinality(inUse)

TInv == SourceTypeOK /\ WithDevice

CountersIInv == TInv /\ OneAtATime /\ Match /\ Covered

(***************************************************************************)
(* Types.                                                                  *)
(***************************************************************************)

LEMMA InitTInv == SourceInit => TInv
<1> SUFFICES ASSUME SourceInit PROVE TInv
  OBVIOUS
<1>1. caller \in [Callers -> Calls(opened)]
  BY DEF SourceInit, Idle, CallerStates, Calls
<1>2. bus \in [at : BusStates, dev : Devices \cup {NoDevice}, toSrc : BOOLEAN, locked : BOOLEAN]
  BY DEF SourceInit, BusIdle, BusStates
<1>3. WithDevice
  BY DEF SourceInit, WithDevice, Idle, BusIdle
<1>4. sessionMap \in [Devices -> 0 .. opened] /\ opened \in Nat
  BY DEF SourceInit
<1>5. /\ sessions \in SUBSET [id : 1 .. opened, dev : Devices]
      /\ replies \subseteq [session : 1 .. opened, dev : Devices, toSrc : BOOLEAN]
      /\ inUse \subseteq Devices
  BY DEF SourceInit
<1>6. /\ injectRunning \in BOOLEAN /\ latencyRunning \in BOOLEAN /\ terminated \in BOOLEAN
      /\ sinkLoaded \in BOOLEAN /\ overCounted \in BOOLEAN /\ strangers \in BOOLEAN
  BY DEF SourceInit
<1> QED
  BY <1>1, <1>2, <1>3, <1>4, <1>5, <1>6 DEF SourceInit, TInv, SourceTypeOK, Calls

LEMMA DevIdType == ASSUME NEW i PROVE DevIdOf(i) \in Devices \cup {NoDevice}
BY DEF DevIdOf

\* Every step keeps the types, whether or not calls overlap.
LEMMA NextTInv == TInv /\ [SourceNext]_sourceVars => TInv'
<1> SUFFICES ASSUME TInv, [SourceNext]_sourceVars PROVE TInv'
  OBVIOUS
<1> USE DEF TInv, SourceTypeOK, WithDevice, CallerStates, BusStates, Idle, BusIdle, At, Goto, Return,
            BusGoto, sessionVars, counters, threads, histories
<1>1. ASSUME NEW c \in Callers, NEW d \in Devices, NEW toSrc \in BOOLEAN, OpenInputSoftbus(c, d, toSrc)
     PROVE  TInv'
  BY <1>1 DEF OpenInputSoftbus
<1>2. ASSUME NEW c \in Callers, Bind(c) PROVE TInv'
  <2>1. opened' \in Nat /\ opened <= opened' /\ sessionMap' \in [Devices -> 0 .. opened']
    BY <1>2 DEF Bind
  <2>2. replies' \subseteq [session : 1 .. opened', dev : Devices, toSrc : BOOLEAN]
    BY <1>2, <2>1 DEF Bind
  <2>3. sessions' \in SUBSET [id : 1 .. opened', dev : Devices]
    <3>1. \A x \in sessions : x \in [id : 1 .. opened', dev : Devices]
      BY <2>1
    <3>2. CASE sessions' = sessions \cup {[id |-> opened + 1, dev |-> caller[c].dev]} /\ opened' = opened + 1
      BY <1>2, <3>1, <3>2 DEF Bind
    <3>3. CASE sessions' = sessions
      BY <3>1, <3>3
    <3> QED
      BY <1>2, <3>2, <3>3 DEF Bind
  <2>4. caller' \in [Callers -> Calls(opened')]
    <3>1. CASE caller' = [caller EXCEPT ![c].at = "open", ![c].session = opened + 1]
               /\ opened' = opened + 1
      <4>1. [caller[c] EXCEPT !.at = "open", !.session = opened + 1] \in Calls(opened')
        BY <3>1 DEF Calls
      <4>2. caller' = [caller EXCEPT ![c] = [caller[c] EXCEPT !.at = "open", !.session = opened + 1]]
        BY <3>1
      <4> QED
        BY <2>1, <4>1, <4>2 DEF Calls
    <3>2. CASE caller' = [caller EXCEPT ![c] = Idle] /\ opened' = opened
      BY <3>2 DEF Calls
    <3> QED
      BY <1>2, <3>1, <3>2 DEF Bind
  <2>5. WithDevice'
    BY <1>2 DEF Bind
  <2> QED
    BY <1>2, <2>1, <2>2, <2>3, <2>4, <2>5 DEF Bind, Calls
<1>3. ASSUME NEW c \in Callers, OnSessionOpened(c) PROVE TInv'
  <2>1. sessionMap' \in [Devices -> 0 .. opened]
    BY <1>3 DEF OnSessionOpened
  <2>2. caller' \in [Callers -> Calls(opened)]
    <3>1. CASE caller' = [caller EXCEPT ![c] = Idle]
      BY <3>1 DEF Calls
    <3>2. CASE caller' = [caller EXCEPT ![c].at = "latency"]
      BY <3>2 DEF Calls
    <3> QED
      BY <1>3, <3>1, <3>2 DEF OnSessionOpened
  <2>3. WithDevice'
    BY <1>3 DEF OnSessionOpened
  <2> QED
    BY <1>3, <2>1, <2>2, <2>3 DEF OnSessionOpened, Calls
<1>4. ASSUME NEW c \in Callers, StartLatencyThread(c) PROVE TInv'
  <2>1. caller' \in [Callers -> Calls(opened)] /\ WithDevice'
    BY <1>4 DEF StartLatencyThread, Calls
  <2>2. terminated' \in BOOLEAN /\ latencyRunning' \in BOOLEAN
    BY <1>4, Zenon DEF StartLatencyThread
  <2>3. latencyThread' \in {"none", "test", "count", "done"}
    BY <1>4 DEF StartLatencyThread
  <2> QED
    BY <1>4, <2>1, <2>2, <2>3 DEF StartLatencyThread, Calls
<1>5. ASSUME NEW c \in Callers, CountLatency(c) PROVE TInv'
  BY <1>5 DEF CountLatency
<1>6. ASSUME NEW c \in Callers, StartInjectThread(c) PROVE TInv'
  BY <1>6 DEF StartInjectThread
<1>7. ASSUME NEW c \in Callers, CountInject(c) PROVE TInv'
  BY <1>7 DEF CountInject
<1>8. ASSUME NEW c \in Callers, ReleaseInject(c) PROVE TInv'
  BY <1>8 DEF ReleaseInject
<1>9. ASSUME NEW c \in Callers, ReleaseLatency(c) PROVE TInv'
  <2>1. caller' \in [Callers -> Calls(opened)] /\ WithDevice'
    <3>1. CASE caller' = [caller EXCEPT ![c] = Idle]
      BY <1>9, <3>1 DEF ReleaseLatency, Calls
    <3>2. CASE caller' = [caller EXCEPT ![c].at = "releaseJoin"]
      BY <1>9, <3>2 DEF ReleaseLatency, Calls
    <3> QED
      BY <1>9, <3>1, <3>2 DEF ReleaseLatency
  <2>2. latencyRunning' \in BOOLEAN
    BY <1>9, Zenon DEF ReleaseLatency
  <2> QED
    BY <1>9, <2>1, <2>2 DEF ReleaseLatency, Calls
<1>10. ASSUME NEW c \in Callers, ReleaseJoin(c) PROVE TInv'
  BY <1>10 DEF ReleaseJoin, LatencyJoined
<1>11. ASSUME NEW d \in Devices, NEW toSrc \in BOOLEAN, UnprepareRemoteInput(d, toSrc) PROVE TInv'
  BY <1>11 DEF UnprepareRemoteInput
<1>12. ASSUME NEW d \in Devices, PeerOpens(d) PROVE TInv'
  BY <1>12 DEF PeerOpens, BusFree
<1>13. ASSUME NEW r \in replies, NotifyResponseUnprepare(r) PROVE TInv'
  BY <1>13, DevIdType DEF NotifyResponseUnprepare, BusFree
<1>14. ASSUME NEW x \in sessions, OnSessionClosed(x) PROVE TInv'
  BY <1>14, DevIdType DEF OnSessionClosed, BusFree
<1>15. CASE StopSession
  <2>1. sessionMap' \in [Devices -> 0 .. opened] /\ sessions' \in SUBSET [id : 1 .. opened, dev : Devices]
    BY <1>15 DEF StopSession
  <2>2. bus' \in BusCalls /\ WithDevice'
    <3>1. CASE bus' = BusIdle
      BY <1>15, <3>1 DEF StopSession, BusCalls
    <3>2. CASE bus' = [bus EXCEPT !.at = "inject"]
      BY <1>15, <3>2 DEF StopSession, BusCalls
    <3> QED
      BY <1>15, <3>1, <3>2 DEF StopSession
  <2>3. overCounted' \in BOOLEAN /\ strangers' \in BOOLEAN
    BY <1>15, Zenon DEF StopSession
  <2>4. inUse' \subseteq Devices
    BY <1>15 DEF StopSession
  <2> QED
    BY <1>15, <2>1, <2>2, <2>3, <2>4 DEF StopSession, BusCalls
<1>16. CASE EraseSession
  <2>1. sessionMap' \in [Devices -> 0 .. opened] /\ sessions' \in SUBSET [id : 1 .. opened, dev : Devices]
    BY <1>16 DEF EraseSession
  <2>2. bus' \in BusCalls /\ WithDevice'
    <3>1. CASE bus' = BusIdle
      BY <1>16, <3>1 DEF EraseSession, BusCalls
    <3>2. CASE bus' = [bus EXCEPT !.at = "inject", !.locked = TRUE]
      BY <1>16, <3>2 DEF EraseSession, BusCalls
    <3> QED
      BY <1>16, <3>1, <3>2 DEF EraseSession
  <2>3. overCounted' \in BOOLEAN /\ strangers' \in BOOLEAN
    BY <1>16, Zenon DEF EraseSession
  <2>4. inUse' \subseteq Devices
    BY <1>16 DEF EraseSession
  <2> QED
    BY <1>16, <2>1, <2>2, <2>3, <2>4 DEF EraseSession, BusCalls
<1>17. CASE CloseInject
  BY <1>17 DEF CloseInject
<1>18. CASE CloseInjectCount
  BY <1>18 DEF CloseInjectCount
<1>19. CASE CloseLatency
  BY <1>19 DEF CloseLatency
<1>20. CASE CloseJoin
  BY <1>20 DEF CloseJoin, LatencyJoined
<1>21. CASE CloseLatencyCount
  BY <1>21 DEF CloseLatencyCount
<1>22. CASE TestLatencyRunning
  BY <1>22 DEF TestLatencyRunning
<1>23. CASE LatencyCount
  BY <1>23 DEF LatencyCount
<1>24. CASE LoadSink
  BY <1>24 DEF LoadSink
<1>25. CASE StopAllSession
  BY <1>25 DEF StopAllSession
<1>26. CASE UNCHANGED sourceVars
  BY <1>26 DEF sourceVars
<1> HIDE DEF TInv, SourceTypeOK, WithDevice, CallerStates, BusStates, Idle, BusIdle, At, Goto, Return,
            BusGoto, sessionVars, counters, threads, histories
<1> QED
  BY <1>1, <1>2, <1>3, <1>4, <1>5, <1>6, <1>7, <1>8, <1>9, <1>10, <1>11, <1>12, <1>13, <1>14, <1>15, <1>16, <1>17, <1>18, <1>19, <1>20, <1>21, <1>22, <1>23, <1>24, <1>25, <1>26
     DEF SourceNext, CallerStep, BusStep, LatencyStep

(***************************************************************************)
(* The counters, when calls do not overlap.                                *)
(***************************************************************************)

\* One call ends before the next begins.
LEMMA NextOne ==
    ASSUME Serial, TInv, OneAtATime, [SourceNext]_sourceVars
    PROVE  OneAtATime'
<1> USE DEF TInv, SourceTypeOK, WithDevice, OneAtATime, CallerStates, BusStates, Idle, BusIdle, At, Goto, Return,
            BusGoto, MayBegin, Quiet, sessionVars, counters, threads, histories
<1>1. ASSUME NEW c \in Callers, NEW d \in Devices, NEW toSrc \in BOOLEAN, OpenInputSoftbus(c, d, toSrc)
     PROVE  OneAtATime'
  BY <1>1 DEF OpenInputSoftbus
<1>2. ASSUME NEW c \in Callers, Bind(c) PROVE OneAtATime'
  BY <1>2 DEF Bind
<1>3. ASSUME NEW c \in Callers, OnSessionOpened(c) PROVE OneAtATime'
  BY <1>3 DEF OnSessionOpened
<1>4. ASSUME NEW c \in Callers, StartLatencyThread(c) PROVE OneAtATime'
  BY <1>4 DEF StartLatencyThread
<1>5. ASSUME NEW c \in Callers, CountLatency(c) PROVE OneAtATime'
  BY <1>5 DEF CountLatency
<1>6. ASSUME NEW c \in Callers, StartInjectThread(c) PROVE OneAtATime'
  BY <1>6 DEF StartInjectThread
<1>7. ASSUME NEW c \in Callers, CountInject(c) PROVE OneAtATime'
  BY <1>7 DEF CountInject
<1>8. ASSUME NEW c \in Callers, ReleaseInject(c) PROVE OneAtATime'
  BY <1>8 DEF ReleaseInject
<1>9. ASSUME NEW c \in Callers, ReleaseLatency(c) PROVE OneAtATime'
  BY <1>9 DEF ReleaseLatency
<1>10. ASSUME NEW c \in Callers, ReleaseJoin(c) PROVE OneAtATime'
  BY <1>10 DEF ReleaseJoin, LatencyJoined
<1>11. ASSUME NEW d \in Devices, NEW toSrc \in BOOLEAN, UnprepareRemoteInput(d, toSrc) PROVE OneAtATime'
  BY <1>11 DEF UnprepareRemoteInput
<1>12. ASSUME NEW d \in Devices, PeerOpens(d) PROVE OneAtATime'
  BY <1>12 DEF PeerOpens, BusFree
<1>13. ASSUME NEW r \in replies, NotifyResponseUnprepare(r) PROVE OneAtATime'
  BY <1>13 DEF NotifyResponseUnprepare, BusFree
<1>14. ASSUME NEW x \in sessions, OnSessionClosed(x) PROVE OneAtATime'
  BY <1>14 DEF OnSessionClosed, BusFree
<1>15. CASE StopSession
  BY <1>15 DEF StopSession
<1>16. CASE EraseSession
  BY <1>16 DEF EraseSession
<1>17. CASE CloseInject
  BY <1>17 DEF CloseInject
<1>18. CASE CloseInjectCount
  BY <1>18 DEF CloseInjectCount
<1>19. CASE CloseLatency
  BY <1>19 DEF CloseLatency
<1>20. CASE CloseJoin
  BY <1>20 DEF CloseJoin, LatencyJoined
<1>21. CASE CloseLatencyCount
  BY <1>21 DEF CloseLatencyCount
<1>22. CASE TestLatencyRunning
  BY <1>22 DEF TestLatencyRunning
<1>23. CASE LatencyCount
  BY <1>23 DEF LatencyCount
<1>24. CASE LoadSink
  BY <1>24 DEF LoadSink
<1>25. CASE StopAllSession
  BY <1>25 DEF StopAllSession
<1>26. CASE UNCHANGED sourceVars
  BY <1>26 DEF sourceVars
<1> HIDE DEF TInv, SourceTypeOK, WithDevice, OneAtATime, CallerStates, BusStates, Idle, BusIdle, At, Goto, Return,
            BusGoto, MayBegin, Quiet, sessionVars, counters, threads, histories
<1> QED
  BY <1>1, <1>2, <1>3, <1>4, <1>5, <1>6, <1>7, <1>8, <1>9, <1>10, <1>11, <1>12, <1>13, <1>14, <1>15, <1>16, <1>17, <1>18, <1>19, <1>20, <1>21, <1>22, <1>23, <1>24, <1>25, <1>26
     DEF SourceNext, CallerStep, BusStep, LatencyStep

\* Each step keeps the threads and the counters in step.
LEMMA NextMatch ==
    ASSUME Serial, TInv, OneAtATime, Match, [SourceNext]_sourceVars
    PROVE  Match'
<1> USE DEF TInv, SourceTypeOK, WithDevice, OneAtATime, CallerStates, BusStates, Idle, BusIdle, At, Goto, Return,
            BusGoto, MayBegin, Quiet, sessionVars, counters, threads, histories,
            Match, Settled, SettledMatch, InjectMatch, LatencyMatch, CallerMatch, BusMatch
<1>1. ASSUME NEW c \in Callers, NEW d \in Devices, NEW toSrc \in BOOLEAN, OpenInputSoftbus(c, d, toSrc)
     PROVE  Match'
  BY <1>1 DEF OpenInputSoftbus
<1>2. ASSUME NEW c \in Callers, Bind(c) PROVE Match'
  BY <1>2 DEF Bind
<1>3. ASSUME NEW c \in Callers, OnSessionOpened(c) PROVE Match'
  BY <1>3 DEF OnSessionOpened
<1>4. ASSUME NEW c \in Callers, StartLatencyThread(c) PROVE Match'
  BY <1>4 DEF StartLatencyThread
<1>5. ASSUME NEW c \in Callers, CountLatency(c) PROVE Match'
  BY <1>5 DEF CountLatency
<1>6. ASSUME NEW c \in Callers, StartInjectThread(c) PROVE Match'
  BY <1>6 DEF StartInjectThread
<1>7. ASSUME NEW c \in Callers, CountInject(c) PROVE Match'
  BY <1>7 DEF CountInject
<1>8. ASSUME NEW c \in Callers, ReleaseInject(c) PROVE Match'
  BY <1>8 DEF ReleaseInject
<1>9. ASSUME NEW c \in Callers, ReleaseLatency(c) PROVE Match'
  BY <1>9 DEF ReleaseLatency
<1>10. ASSUME NEW c \in Callers, ReleaseJoin(c) PROVE Match'
  BY <1>10 DEF ReleaseJoin, LatencyJoined
<1>11. ASSUME NEW d \in Devices, NEW toSrc \in BOOLEAN, UnprepareRemoteInput(d, toSrc) PROVE Match'
  BY <1>11 DEF UnprepareRemoteInput
<1>12. ASSUME NEW d \in Devices, PeerOpens(d) PROVE Match'
  BY <1>12 DEF PeerOpens, BusFree
<1>13. ASSUME NEW r \in replies, NotifyResponseUnprepare(r) PROVE Match'
  BY <1>13 DEF NotifyResponseUnprepare, BusFree
<1>14. ASSUME NEW x \in sessions, OnSessionClosed(x) PROVE Match'
  BY <1>14 DEF OnSessionClosed, BusFree
<1>15. CASE StopSession
  BY <1>15 DEF StopSession
<1>16. CASE EraseSession
  <2>1. SettledMatch /\ \A c \in Callers : caller[c].at = "idle"
    BY <1>16 DEF EraseSession
  <2>2. bus'.at \in {"idle", "inject"}
    <3>1. CASE bus' = BusIdle
      BY <3>1
    <3>2. CASE bus' = [bus EXCEPT !.at = "inject", !.locked = TRUE]
      BY <3>2
    <3> QED
      BY <1>16, <3>1, <3>2 DEF EraseSession
  <2>3. UNCHANGED << caller, counters, threads >>
    BY <1>16 DEF EraseSession
  <2> QED
    BY <2>1, <2>2, <2>3
<1>17. CASE CloseInject
  BY <1>17 DEF CloseInject
<1>18. CASE CloseInjectCount
  BY <1>18 DEF CloseInjectCount
<1>19. CASE CloseLatency
  BY <1>19 DEF CloseLatency
<1>20. CASE CloseJoin
  BY <1>20 DEF CloseJoin, LatencyJoined
<1>21. CASE CloseLatencyCount
  BY <1>21 DEF CloseLatencyCount
<1>22. CASE TestLatencyRunning
  BY <1>22 DEF TestLatencyRunning
<1>23. CASE LatencyCount
  BY <1>23 DEF LatencyCount
<1>24. CASE LoadSink
  BY <1>24 DEF LoadSink
<1>25. CASE StopAllSession
  BY <1>25 DEF StopAllSession
<1>26. CASE UNCHANGED sourceVars
  BY <1>26 DEF sourceVars
<1> HIDE DEF TInv, SourceTypeOK, WithDevice, OneAtATime, CallerStates, BusStates, Idle, BusIdle, At, Goto, Return,
            BusGoto, MayBegin, Quiet, sessionVars, counters, threads, histories,
            Match, Settled, SettledMatch, InjectMatch, LatencyMatch, CallerMatch, BusMatch
<1> QED
  BY <1>1, <1>2, <1>3, <1>4, <1>5, <1>6, <1>7, <1>8, <1>9, <1>10, <1>11, <1>12, <1>13, <1>14, <1>15, <1>16, <1>17, <1>18, <1>19, <1>20, <1>21, <1>22, <1>23, <1>24, <1>25, <1>26
     DEF SourceNext, CallerStep, BusStep, LatencyStep


\* Each prepared device stays counted until its end is counted.
LEMMA NextCovered ==
    ASSUME Serial, TInv, OneAtATime, Match, Covered, [SourceNext]_sourceVars
    PROVE  Covered'
<1> USE DEF Covered, Due, TInv, SourceTypeOK, WithDevice, OneAtATime, CallerStates, BusStates, Idle, BusIdle,
            At, Goto, Return, BusGoto, MayBegin, Quiet, sessionVars, counters, threads, histories
<1>1. Cardinality(inUse) \in Nat /\ Cardinality({}) = 0 /\ IsFiniteSet({})
  BY FS_CardinalityType, FS_EmptySet
<1>2. ASSUME NEW c \in Callers, NEW d \in Devices, NEW toSrc \in BOOLEAN, OpenInputSoftbus(c, d, toSrc)
     PROVE  Covered'
  BY <1>1, <1>2 DEF OpenInputSoftbus
<1>3. ASSUME NEW c \in Callers, Bind(c) PROVE Covered'
  BY <1>1, <1>3 DEF Bind
<1>4. ASSUME NEW c \in Callers, OnSessionOpened(c) PROVE Covered'
  BY <1>1, <1>4 DEF OnSessionOpened
<1>5. ASSUME NEW c \in Callers, StartLatencyThread(c) PROVE Covered'
  BY <1>1, <1>5 DEF StartLatencyThread
<1>6. ASSUME NEW c \in Callers, CountLatency(c) PROVE Covered'
  BY <1>1, <1>6 DEF CountLatency
<1>7. ASSUME NEW c \in Callers, StartInjectThread(c) PROVE Covered'
  BY <1>1, <1>7 DEF StartInjectThread
<1>8. ASSUME NEW c \in Callers, CountInject(c) PROVE Covered'
  <2>1. /\ IsFiniteSet(inUse \cup {caller[c].dev})
        /\ Cardinality(inUse \cup {caller[c].dev}) =
               IF caller[c].dev \in inUse THEN Cardinality(inUse) ELSE Cardinality(inUse) + 1
    BY FS_AddElement
  <2>2. injectThreadNum' = injectThreadNum + 1 /\ inUse' = inUse \cup {caller[c].dev} /\ bus' = bus
    BY <1>8 DEF CountInject
  <2>3. /\ ~strangers' => ~strangers
        /\ ~overCounted' => ~overCounted /\ caller[c].dev \notin inUse
    BY <1>8, Zenon DEF CountInject
  <2>4. Due' = Due /\ Due \in {0, 1}
    BY <2>2
  <2> HIDE DEF Due
  <2>5. ~strangers' => injectThreadNum' - Due' >= Cardinality(inUse')
    BY <1>1, <2>1, <2>2, <2>3, <2>4
  <2>6. ~strangers' /\ ~overCounted' => injectThreadNum' - Due' = Cardinality(inUse')
    BY <1>1, <2>1, <2>2, <2>3, <2>4
  <2> QED
    BY <2>1, <2>2, <2>5, <2>6
<1>9. ASSUME NEW c \in Callers, ReleaseInject(c) PROVE Covered'
  BY <1>1, <1>9 DEF ReleaseInject, Match, Settled, SettledMatch, InjectMatch
<1>10. ASSUME NEW c \in Callers, ReleaseLatency(c) PROVE Covered'
  BY <1>1, <1>10 DEF ReleaseLatency
<1>11. ASSUME NEW c \in Callers, ReleaseJoin(c) PROVE Covered'
  BY <1>1, <1>11 DEF ReleaseJoin, LatencyJoined
<1>12. ASSUME NEW d \in Devices, NEW toSrc \in BOOLEAN, UnprepareRemoteInput(d, toSrc) PROVE Covered'
  BY <1>1, <1>12 DEF UnprepareRemoteInput
<1>13. ASSUME NEW d \in Devices, PeerOpens(d) PROVE Covered'
  BY <1>1, <1>13 DEF PeerOpens, BusFree
<1>14. ASSUME NEW r \in replies, NotifyResponseUnprepare(r) PROVE Covered'
  BY <1>1, <1>14 DEF NotifyResponseUnprepare, BusFree
<1>15. ASSUME NEW x \in sessions, OnSessionClosed(x) PROVE Covered'
  BY <1>1, <1>15 DEF OnSessionClosed, BusFree
<1>16. CASE StopSession
  <2>1. /\ IsFiniteSet(inUse \ {bus.dev})
        /\ Cardinality(inUse \ {bus.dev}) =
               IF bus.dev \in inUse THEN Cardinality(inUse) - 1 ELSE Cardinality(inUse)
    BY FS_RemoveElement
  <2>2. inUse' = inUse \ {bus.dev} /\ injectThreadNum' = injectThreadNum /\ Due = 0
    BY <1>16 DEF StopSession
  <2>3. \/ /\ Due' = 1 /\ overCounted' = overCounted
           /\ strangers' = (strangers \/ bus.dev \notin inUse)
        \/ /\ Due' = 0 /\ Due' # 1 /\ strangers' = strangers
           /\ overCounted' = (overCounted \/ bus.dev \in inUse)
    <3>1. CASE bus.toSrc
      <4>1. bus'.at = "idle"
        BY <1>16, <3>1 DEF StopSession
      <4>2. Due' = 0 /\ Due' # 1
        BY <4>1
      <4> QED
        BY <1>16, <3>1, <4>2, Zenon DEF StopSession
    <3>2. CASE ~bus.toSrc
      <4>1. bus'.at = "inject"
        BY <1>16, <3>2 DEF StopSession
      <4> QED
        BY <1>16, <3>2, <4>1, Zenon DEF StopSession
    <3> QED
      BY <3>1, <3>2
  <2>4. /\ ~strangers' /\ Due' = 1 => ~strangers /\ bus.dev \in inUse
        /\ ~strangers' /\ Due' # 1 => ~strangers /\ Due' = 0
        /\ ~overCounted' => ~overCounted /\ (Due' # 1 => bus.dev \notin inUse)
    <3> HIDE DEF Due
    <3> QED
      BY <2>3, Zenon
  <2> HIDE DEF Due
  <2>5. ~strangers' => injectThreadNum' - Due' >= Cardinality(inUse')
    BY <1>1, <2>1, <2>2, <2>4
  <2>6. ~strangers' /\ ~overCounted' => injectThreadNum' - Due' = Cardinality(inUse')
    BY <1>1, <2>1, <2>2, <2>4
  <2> QED
    BY <2>1, <2>2, <2>5, <2>6
<1>17. CASE EraseSession
  <2>1. /\ IsFiniteSet(inUse \ {bus.dev})
        /\ Cardinality(inUse \ {bus.dev}) =
               IF bus.dev \in inUse THEN Cardinality(inUse) - 1 ELSE Cardinality(inUse)
    BY FS_RemoveElement
  <2>2. inUse' = inUse \ {bus.dev} /\ injectThreadNum' = injectThreadNum /\ Due = 0
    BY <1>17 DEF EraseSession
  <2>3. \/ /\ Due' = 1 /\ overCounted' = overCounted
           /\ strangers' = (strangers \/ bus.dev \notin inUse)
        \/ /\ Due' = 0 /\ Due' # 1 /\ strangers' = strangers
           /\ overCounted' = (overCounted \/ bus.dev \in inUse)
    <3>1. CASE ~sinkLoaded
      <4>1. bus'.at = "idle"
        BY <1>17, <3>1 DEF EraseSession
      <4>2. Due' = 0 /\ Due' # 1
        BY <4>1
      <4> QED
        BY <1>17, <3>1, <4>2, Zenon DEF EraseSession
    <3>2. CASE sinkLoaded
      <4>1. bus'.at = "inject"
        BY <1>17, <3>2 DEF EraseSession
      <4> QED
        BY <1>17, <3>2, <4>1, Zenon DEF EraseSession
    <3> QED
      BY <3>1, <3>2
  <2>4. /\ ~strangers' /\ Due' = 1 => ~strangers /\ bus.dev \in inUse
        /\ ~strangers' /\ Due' # 1 => ~strangers /\ Due' = 0
        /\ ~overCounted' => ~overCounted /\ (Due' # 1 => bus.dev \notin inUse)
    <3> HIDE DEF Due
    <3> QED
      BY <2>3, Zenon
  <2> HIDE DEF Due
  <2>5. ~strangers' => injectThreadNum' - Due' >= Cardinality(inUse')
    BY <1>1, <2>1, <2>2, <2>4
  <2>6. ~strangers' /\ ~overCounted' => injectThreadNum' - Due' = Cardinality(inUse')
    BY <1>1, <2>1, <2>2, <2>4
  <2> QED
    BY <2>1, <2>2, <2>5, <2>6
<1>18. CASE CloseInject
  BY <1>1, <1>18 DEF CloseInject, Match, Settled, SettledMatch, InjectMatch
<1>19. CASE CloseInjectCount
  BY <1>1, <1>19 DEF CloseInjectCount
<1>20. CASE CloseLatency
  BY <1>1, <1>20 DEF CloseLatency
<1>21. CASE CloseJoin
  BY <1>1, <1>21 DEF CloseJoin, LatencyJoined
<1>22. CASE CloseLatencyCount
  BY <1>1, <1>22 DEF CloseLatencyCount
<1>23. CASE TestLatencyRunning
  BY <1>1, <1>23 DEF TestLatencyRunning
<1>24. CASE LatencyCount
  BY <1>1, <1>24 DEF LatencyCount
<1>25. CASE LoadSink
  BY <1>1, <1>25 DEF LoadSink
<1>26. CASE StopAllSession
  <2>1. inUse = {} \/ overCounted'
    BY <1>26, Zenon DEF StopAllSession
  <2>2. inUse' = {} /\ UNCHANGED << bus, injectThreadNum, strangers >> /\ bus.at = "idle"
    BY <1>26 DEF StopAllSession
  <2>3. ~overCounted' => ~overCounted
    BY <1>26, Zenon DEF StopAllSession
  <2>4. Due = 0 /\ Due' = 0
    BY <2>2
  <2> HIDE DEF Due
  <2>5. ~strangers' => injectThreadNum' - Due' >= Cardinality(inUse')
    BY <1>1, <2>2, <2>4
  <2>6. ~strangers' /\ ~overCounted' => injectThreadNum' - Due' = Cardinality(inUse')
    BY <1>1, <2>1, <2>2, <2>3, <2>4
  <2> QED
    BY <1>1, <2>2, <2>5, <2>6
<1>27. CASE UNCHANGED sourceVars
  BY <1>1, <1>27 DEF sourceVars
<1> HIDE DEF Covered, Due, TInv, SourceTypeOK, WithDevice, OneAtATime, CallerStates, BusStates, Idle, BusIdle,
            At, Goto, Return, BusGoto, MayBegin, Quiet, sessionVars, counters, threads, histories
<1> QED
  BY <1>2, <1>3, <1>4, <1>5, <1>6, <1>7, <1>8, <1>9, <1>10, <1>11, <1>12, <1>13, <1>14, <1>15, <1>16, <1>17, <1>18, <1>19, <1>20, <1>21, <1>22, <1>23, <1>24, <1>25, <1>26, <1>27
     DEF SourceNext, CallerStep, BusStep, LatencyStep

LEMMA InitCounters == SourceInit => OneAtATime /\ Match /\ Covered
<1>1. SourceInit => OneAtATime /\ Match
  BY DEF SourceInit, OneAtATime, Match, Settled, SettledMatch, InjectMatch, LatencyMatch, CallerMatch,
         BusMatch, Idle, BusIdle
<1>2. SourceInit => Covered
  BY FS_EmptySet DEF SourceInit, Covered, Due, BusIdle
<1> QED
  BY <1>1, <1>2

(***************************************************************************)
(* The theorems.                                                           *)
(***************************************************************************)

\* The types hold in every behaviour, overlapping calls included.
THEOREM SourceTypeCorrect == SourceSpec => []SourceTypeOK
<1>1. SourceInit => TInv
  BY InitTInv
<1>2. TInv /\ [SourceNext]_sourceVars => TInv'
  BY NextTInv
<1>3. TInv => SourceTypeOK
  BY DEF TInv
<1> QED
  BY <1>1, <1>2, <1>3, PTL DEF SourceSpec

\* When calls do not overlap, the threads and counters stay in step at every
\* point of every call, and the prepared devices are counted.
THEOREM CountersInvariance == ASSUME Serial PROVE SourceSpec => []CountersIInv
<1>1. SourceInit => CountersIInv
  BY InitTInv, InitCounters DEF CountersIInv
<1>2. CountersIInv /\ [SourceNext]_sourceVars => CountersIInv'
  BY NextTInv, NextOne, NextMatch, NextCovered DEF CountersIInv
<1> QED
  BY <1>1, <1>2, PTL DEF SourceSpec

\* At rest each thread runs exactly while its counter is positive.
THEOREM ThreadsMatch == ASSUME Serial PROVE SourceSpec => []ThreadsMatchCounters
<1>1. CountersIInv => ThreadsMatchCounters
  BY DEF CountersIInv, Match, Settled, SettledMatch, InjectMatch, LatencyMatch, ThreadsMatchCounters, Quiet
<1> QED
  BY <1>1, CountersInvariance, PTL

\* The counters agree at rest and cover the prepared devices.
THEOREM Counted == ASSUME Serial PROVE SourceSpec => []CountersCover
<1>1. CountersIInv => CountersCover
  BY FS_CardinalityType
     DEF CountersIInv, TInv, SourceTypeOK, Match, Covered, Due, Settled, SettledMatch, CountersCover, Quiet
<1> QED
  BY <1>1, CountersInvariance, PTL

\* A prepared device has its threads, as long as only sessions of prepared
\* devices end.
THEOREM Served == ASSUME Serial PROVE SourceSpec => []PreparedIsServed
<1>1. CountersIInv => PreparedIsServed
  <2> SUFFICES ASSUME CountersIInv, Quiet, ~strangers, inUse # {}
               PROVE  injectRunning /\ latencyRunning /\ latencyThread \in {"test", "count"}
    BY DEF PreparedIsServed
  <2>1. Cardinality(inUse) \in Nat /\ Cardinality(inUse) # 0
    BY FS_CardinalityType, FS_EmptySet DEF CountersIInv, Covered
  <2>2. injectThreadNum >= Cardinality(inUse) /\ injectThreadNum \in Int
    BY <2>1 DEF CountersIInv, TInv, SourceTypeOK, Covered, Due, Quiet
  <2>3. SettledMatch
    BY DEF CountersIInv, Match, Settled, Quiet
  <2> QED
    BY <2>1, <2>2, <2>3 DEF SettledMatch, InjectMatch, LatencyMatch, CountersIInv, TInv, SourceTypeOK
<1> QED
  BY <1>1, CountersInvariance, PTL
=============================================================================
