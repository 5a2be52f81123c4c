------------------------------ MODULE BallotBox ------------------------------
(***************************************************************************)
(* What a poll promises its voters, with no tallies and no receipts: every *)
(* identity casts at most one ballot, a ballot once cast is never altered  *)
(* or withdrawn, and nothing is cast after the box is sealed.              *)
(***************************************************************************)
CONSTANTS Ids, Ballots, NoBallot

VARIABLES ballots, sealed

vars == <<ballots, sealed>>

Init ==
  /\ ballots = [id \in Ids |-> NoBallot]
  /\ sealed = FALSE

Cast(id, b) ==
  /\ ~sealed
  /\ ballots[id] = NoBallot
  /\ ballots' = [ballots EXCEPT ![id] = b]
  /\ UNCHANGED sealed

Seal ==
  /\ ~sealed
  /\ sealed' = TRUE
  /\ UNCHANGED ballots

Next ==
  \/ \E id \in Ids, b \in Ballots : Cast(id, b)
  \/ Seal

Spec == Init /\ [][Next]_vars
=============================================================================
