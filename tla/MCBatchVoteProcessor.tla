------------------------- MODULE MCBatchVoteProcessor -------------------------
(* Small instances of BatchVoteProcessor.                                  *)
EXTENDS BatchVoteProcessor

CONSTANTS v1, v2, v3, call1, call2
=============================================================================
