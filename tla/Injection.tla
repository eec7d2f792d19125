------------------------------ MODULE Injection ------------------------------
(***************************************************************************)
(* What the injection of events promises whoever reports them              *)
(* (DistributedInputInject, as used by the source transport): a channel    *)
(* from the reports to the virtual devices.  Events are numbered as they   *)
(* are reported.  They are written one by one, the oldest first; the       *)
(* channel may give up some of the oldest instead; between the return of a *)
(* stop and the next start it does neither, and keeps what it has.         *)
(***************************************************************************)
EXTENDS Integers, Sequences

VARIABLES
    given,     (* how many events were reported                             *)
    waiting,   (* the numbers of those that are neither written nor given up *)
    written,   (* the numbers of those that were written, in order          *)
    quiet      (* nothing was started since the last stop returned          *)

channel == << given, waiting, written, quiet >>

Init == given = 0 /\ waiting = {} /\ written = << >> /\ quiet = TRUE

Oldest(n) == n \in waiting /\ \A m \in waiting : n <= m

(* A message of k events. *)
Report(k) ==
    /\ k > 0
    /\ given' = given + k
    /\ waiting' = waiting \cup (given + 1 .. given + k)
    /\ UNCHANGED << written, quiet >>

Write(n) ==
    /\ ~quiet /\ Oldest(n)
    /\ written' = Append(written, n)
    /\ waiting' = waiting \ {n}
    /\ UNCHANGED << given, quiet >>

(* The events up to n are given up: their device is not there, or one before *)
(* them in the same message had none.                                        *)
GiveUp(n) ==
    /\ ~quiet /\ n \in waiting
    /\ waiting' = {m \in waiting : n < m}
    /\ UNCHANGED << given, written, quiet >>

Resume == quiet /\ quiet' = FALSE /\ UNCHANGED << given, waiting, written >>
Pause  == ~quiet /\ quiet' = TRUE /\ UNCHANGED << given, waiting, written >>

Next ==
    \/ Report(given' - given)
    \/ \E n \in waiting : Write(n) \/ GiveUp(n)
    \/ Resume \/ Pause

Spec == Init /\ [][Next]_channel
==============================================================================
