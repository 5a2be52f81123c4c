------------------------------ MODULE MCVoteLog ------------------------------
(* Small instances of VoteLog.  The cells of ids, timestamps and values    *)
(* are small numbers, so that a misplaced read takes them for sizes.       *)
EXTENDS VoteLog

CONSTANTS precinct1, precinct2, log0, log1, log2

MCPathOfId == [j \in Jurisdictions |-> IF j = precinct1 THEN log1 ELSE log2]

ShortVote == [id |-> <<1>>, timestamp |-> 3, values |-> <<<<2>>>>]
LongVote  == [id |-> <<2, 0>>, timestamp |-> 9, values |-> <<<<0>>, <<6>>>>]
WideVote  == [id |-> <<1>>, timestamp |-> 3, values |-> <<<<2, 5>>>>]

NarrowVotes == {ShortVote, LongVote}
OneVote     == {ShortVote}
WideVotes   == {WideVote}
=============================================================================
