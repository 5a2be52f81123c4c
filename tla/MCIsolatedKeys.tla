----------------------------- MODULE MCIsolatedKeys -----------------------------
EXTENDS IsolatedKeys, TLC

(* Two identities; the first has lost a leading zero.  Candidates that are *)
(* composite come before the primes, one draw has bits above the size.     *)
MCIdentities == {<<5>>, <<0, 5>>, <<7, 7>>}

MCDraws == (<<0, 5>> :> <<9, 7, 5, 0>>) @@ (<<7, 7>> :> <<4, 37, 1>>)
=============================================================================
