---------------------------- MODULE MCSinkManager ----------------------------
(***************************************************************************)
(* Instances of SinkManager for TLC: two or three sessions, a mouse, a     *)
(* keyboard, with only the mouse reachable by type in the largest run.     *)
(***************************************************************************)
EXTENDS SinkManager, TLC

CONSTANTS s1, s2, s3, mouse, keyboard

MCClass == mouse :> {"MOUSE"} @@ keyboard :> {"KEYBOARD"}

\* For runs whose only type is MOUSE.
MCMouseClass == mouse :> {"MOUSE"} @@ keyboard :> {}

SessionSymmetry == Permutations(Sessions)
==============================================================================
