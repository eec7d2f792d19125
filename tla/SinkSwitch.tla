------------------------------ MODULE SinkSwitch ------------------------------
(***************************************************************************)
(* The switch vector of the sink: which sessions have prepared this device *)
(* and for which of them the switch is on                                  *)
(* (services/sink/transport/src/distributed_input_sink_switch.cpp).  The   *)
(* class is a vector behind a mutex with a dozen one-lock operations, so   *)
(* it is modelled by operators on the vector.  The order of the entries is *)
(* the order of AddSession and it matters: input events go to the first    *)
(* session whose switch is on.                                             *)
(***************************************************************************)
EXTENDS Integers, Sequences

\* SwitchStateData: a session id and its switch.
SwitchStateData(s, on) == [sessionId |-> s, switchState |-> on]

\* What a search of the vector finds.
IndexOfSession(v, s) == {i \in DOMAIN v : v[i].sessionId = s}

HasSession(v, s) == IndexOfSession(v, s) # {}

InitSwitch == << >>

\* A faulty AddSession that does not look for the session first (a mutant).
AddSessionAgain(v, s) == Append(v, SwitchStateData(s, FALSE))

AddSession(v, s) ==
    IF HasSession(v, s) THEN v ELSE Append(v, SwitchStateData(s, FALSE))

\* Erases the first entry of the session.
RemoveSession(v, s) ==
    IF HasSession(v, s)
    THEN LET k == CHOOSE i \in IndexOfSession(v, s) :
                    \A j \in IndexOfSession(v, s) : i <= j
         IN  [i \in 1 .. (Len(v) - 1) |-> IF i < k THEN v[i] ELSE v[i + 1]]
    ELSE v

\* The code sets the first entry of the session; AddSession keeps it the only one.
SetSwitch(v, s, on) ==
    [i \in DOMAIN v |-> IF v[i].sessionId = s THEN SwitchStateData(s, on) ELSE v[i]]

StartSwitch(v, s) == SetSwitch(v, s, TRUE)

StartSwitchSucceeds(v, s) == HasSession(v, s)

StopSwitch(v, s) == SetSwitch(v, s, FALSE)

StopAllSwitch(v) == [i \in DOMAIN v |-> SwitchStateData(v[i].sessionId, FALSE)]

SwitchOn(v, s) == \E i \in DOMAIN v : v[i] = SwitchStateData(s, TRUE)

(***************************************************************************)
(* GetSwitchOpenedSession is the first session whose switch is on.         *)
(* Destination(v, s) says that it is s; there is none when no switch is on *)
(* (the code then returns an error code).                                  *)
(***************************************************************************)
Destination(v, s) ==
    \E i \in DOMAIN v : /\ v[i] = SwitchStateData(s, TRUE)
                        /\ \A j \in 1 .. (i - 1) : ~v[j].switchState
===============================================================================
