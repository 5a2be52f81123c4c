----------------------------- MODULE MCVotingPoll -----------------------------
(* Small instances of VotingPoll: two Member objects share one identity.   *)
EXTENDS VotingPoll

CONSTANTS m1, m2, m3, alice, bob

MCIdOf == [m \in Members |-> IF m = m3 THEN bob ELSE alice]
=============================================================================
