------------------------------- MODULE Delivery -------------------------------
(***************************************************************************)
(* What a stream promises over a reliable transport: the receiver is given *)
(* the message from its first byte on, some bytes at a time, and is told   *)
(* of the end only when it has all of it.                                  *)
(***************************************************************************)
EXTENDS Naturals

CONSTANT Lengths

VARIABLES length, given, ended

vars == <<length, given, ended>>

Init ==
  /\ length \in Lengths
  /\ given = 0
  /\ ended = FALSE

Give ==
  /\ ~ended
  /\ \E n \in given + 1 .. length : given' = n
  /\ UNCHANGED <<length, ended>>

End ==
  /\ ~ended
  /\ given = length
  /\ ended' = TRUE
  /\ UNCHANGED <<length, given>>

(* Bytes may come with the news of the end. *)
GiveAndEnd ==
  /\ ~ended
  /\ given' = length
  /\ ended' = TRUE
  /\ UNCHANGED length

Next == Give \/ End \/ GiveAndEnd

Spec == Init /\ [][Next]_vars
=============================================================================
