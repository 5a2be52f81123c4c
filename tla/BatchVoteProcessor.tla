-------------------------- MODULE BatchVoteProcessor --------------------------
(***************************************************************************)
(* BatchVoteProcessor of src/lib/voting/persistent-state.ts: votes are     *)
(* collected in a batch, logged, counted and handed to a processor, and    *)
(* the count is saved in checkpoints.                                      *)
(*                                                                         *)
(* The batch itself is kept by the base class, which is a dependency.      *)
(* What this class relies on: addVote appends to the batch; processBatch   *)
(* hands its array to a callback and puts an empty one in its place.       *)
(* Whether it does so before the callback or after it has returned cannot  *)
(* be seen here, so either may be the case (clearsFirst).  The array is    *)
(* not copied: a loop over it sees the votes added meanwhile.              *)
(*                                                                         *)
(* The log is a journal as VoteLog implements it: a vote is in it when     *)
(* appendVote returns, and may or may not be in it when appendVote fails.  *)
(***************************************************************************)
EXTENDS Integers, FiniteSets, SequencesExt

CONSTANTS
  Votes,       \* votes to be cast, each of them once
  Calls,       \* calls of processBatch that may be under way at a time
  MayFail,     \* may appendVote or the processor reject?
  MaxLogged    \* bound: entries in the log

ASSUME VotesAssumption == IsFiniteSet(Votes)
ASSUME FailureAssumption == MayFail \in BOOLEAN
ASSUME BoundAssumption == MaxLogged \in Nat

VARIABLES
  clearsFirst,  \* the base class: is the batch replaced before the callback?
  batch,        \* the batch of the base class
  calls,        \* call -> where it is in processBatch
  totalVotes,
  log,          \* the votes in the vote log
  checkpoint,   \* voterCount of the last checkpoint saved
  added,        \* history: votes given to addVote or to processBatch
  failed,       \* history: has a call failed?
  overlapped,   \* history: has anything been called while a call was suspended?
  entries,      \* history: call -> positions in the log its loop has filled
  counted       \* history: positions in the log whose votes are counted

vars == <<clearsFirst, batch, calls, totalVotes, log, checkpoint, added, failed, overlapped,
          entries, counted>>

Idle == [at |-> "idle", own |-> <<>>, live |-> FALSE, next |-> 0]

(* The array a call loops over: its own, or the batch as it is now. *)
VotesOf(c) == IF calls[c].live THEN batch ELSE calls[c].own

Busy == \E c \in Calls : calls[c].at # "idle"

TypeOK ==
  /\ clearsFirst \in BOOLEAN
  /\ batch \in Seq(Votes)
  /\ calls \in [Calls -> [at : {"idle", "direct", "batch", "processor"},
                          own : Seq(Votes), live : BOOLEAN, next : Nat]]
  /\ \A c \in Calls : calls[c].next \in 0 .. Len(VotesOf(c)) + 1
  /\ totalVotes \in Nat
  /\ log \in Seq(Votes)
  /\ checkpoint \in Nat
  /\ added \subseteq Votes
  /\ failed \in BOOLEAN /\ overlapped \in BOOLEAN
  /\ entries \in [Calls -> SUBSET DOMAIN log]
  /\ counted \subseteq DOMAIN log

Init ==
  /\ clearsFirst \in BOOLEAN
  /\ batch = <<>>
  /\ calls = [c \in Calls |-> Idle]
  /\ totalVotes = 0
  /\ log = <<>>
  /\ checkpoint = 0
  /\ added = {}
  /\ failed = FALSE
  /\ overlapped = FALSE
  /\ entries = [c \in Calls |-> {}]
  /\ counted = {}

-----------------------------------------------------------------------------
AddVote(v) ==
  /\ v \notin added
  /\ batch' = Append(batch, v)
  /\ added' = added \union {v}
  /\ overlapped' = (overlapped \/ Busy)
  /\ UNCHANGED <<clearsFirst, calls, totalVotes, log, checkpoint, failed, entries, counted>>

(* processBatch with an array of votes. *)
ProcessVotes(c, vs) ==
  /\ calls[c].at = "idle"
  /\ ToSet(vs) \intersect added = {}
  /\ calls' = [calls EXCEPT ![c] = [at |-> "direct", own |-> vs, live |-> FALSE, next |-> 1]]
  /\ added' = added \union ToSet(vs)
  /\ overlapped' = (overlapped \/ Busy)
  /\ UNCHANGED <<clearsFirst, batch, totalVotes, log, checkpoint, failed, entries, counted>>

(* processBatch with a processor; it does nothing with an empty batch. *)
ProcessBatch(c) ==
  /\ calls[c].at = "idle"
  /\ batch # <<>>
  /\ calls' = [calls EXCEPT ![c] =
                [at |-> "batch", own |-> batch, live |-> ~clearsFirst, next |-> 1]]
  /\ batch' = IF clearsFirst THEN <<>> ELSE batch
  /\ overlapped' = (overlapped \/ Busy)
  /\ UNCHANGED <<clearsFirst, totalVotes, log, checkpoint, added, failed, entries, counted>>

(* Mistake the runs must notice: the loop ends after its first vote. *)
LogVoteOnce(c) ==
  /\ calls[c].at \in {"direct", "batch"}
  /\ calls[c].next <= Len(VotesOf(c))
  /\ Len(log) < MaxLogged
  /\ log' = Append(log, VotesOf(c)[calls[c].next])
  /\ calls' = [calls EXCEPT ![c].next = Len(VotesOf(c)) + 1]
  /\ entries' = [entries EXCEPT ![c] = @ \union {Len(log) + 1}]
  /\ UNCHANGED <<clearsFirst, batch, totalVotes, checkpoint, added, failed, overlapped, counted>>

(* appendVote returns: the loop goes on to the next vote. *)
LogVote(c) ==
  /\ calls[c].at \in {"direct", "batch"}
  /\ calls[c].next <= Len(VotesOf(c))
  /\ Len(log) < MaxLogged
  /\ log' = Append(log, VotesOf(c)[calls[c].next])
  /\ calls' = [calls EXCEPT ![c].next = @ + 1]
  /\ entries' = [entries EXCEPT ![c] = @ \union {Len(log) + 1}]
  /\ UNCHANGED <<clearsFirst, batch, totalVotes, checkpoint, added, failed, overlapped, counted>>

Counted(c) ==
  IF calls[c].at = "direct" THEN Idle ELSE [calls[c] EXCEPT !.at = "processor"]

(* Mistake: the votes are counted before the loop has logged them. *)
CountVotesEarly(c) ==
  /\ calls[c].at \in {"direct", "batch"}
  /\ totalVotes' = totalVotes + Len(VotesOf(c))
  /\ calls' = [calls EXCEPT ![c] = Counted(c)]
  /\ counted' = counted \union entries[c]
  /\ entries' = [entries EXCEPT ![c] = {}]
  /\ UNCHANGED <<clearsFirst, batch, log, checkpoint, added, failed, overlapped>>

(* The loop is over: with no await since the last vote, the votes are      *)
(* counted, and the processor is called.                                   *)
CountVotes(c) ==
  /\ calls[c].at \in {"direct", "batch"}
  /\ calls[c].next > Len(VotesOf(c))
  /\ totalVotes' = totalVotes + Len(VotesOf(c))
  /\ calls' = [calls EXCEPT ![c] = Counted(c)]
  /\ counted' = counted \union entries[c]
  /\ entries' = [entries EXCEPT ![c] = {}]
  /\ UNCHANGED <<clearsFirst, batch, log, checkpoint, added, failed, overlapped>>

(* The processor returns.  Once the batch is replaced, another call that   *)
(* loops over the old array keeps it.                                      *)
FinishBatch(c) ==
  /\ calls[c].at = "processor"
  /\ calls' = [d \in Calls |->
                IF d = c THEN Idle
                ELSE [calls[d] EXCEPT !.own = VotesOf(d), !.live = FALSE]]
  /\ batch' = IF clearsFirst THEN batch ELSE <<>>
  /\ UNCHANGED <<clearsFirst, totalVotes, log, checkpoint, added, failed, overlapped,
                 entries, counted>>

(* appendVote or the processor rejects, and with it processBatch. *)
Fail(c) ==
  /\ MayFail
  /\ calls[c].at # "idle"
  /\ calls[c].at = "processor" \/ calls[c].next <= Len(VotesOf(c))
  /\ \/ UNCHANGED log
     \/ /\ calls[c].at # "processor"
        /\ Len(log) < MaxLogged
        /\ log' = Append(log, VotesOf(c)[calls[c].next])
  /\ calls' = [calls EXCEPT ![c] = Idle]
  /\ failed' = TRUE
  /\ entries' = [entries EXCEPT ![c] = {}]
  /\ UNCHANGED <<clearsFirst, batch, totalVotes, checkpoint, added, overlapped, counted>>

Checkpoint ==
  /\ checkpoint' = totalVotes
  /\ UNCHANGED <<clearsFirst, batch, calls, totalVotes, log, added, failed, overlapped,
                 entries, counted>>

Next ==
  \/ \E v \in Votes : AddVote(v)
  \/ \E c \in Calls :
       \/ \E V \in SUBSET Votes : ProcessVotes(c, SetToSeq(V))
       \/ ProcessBatch(c)
       \/ LogVote(c)
       \/ CountVotes(c)
       \/ FinishBatch(c)
       \/ Fail(c)
  \/ Checkpoint

Spec == Init /\ [][Next]_vars

-----------------------------------------------------------------------------
(* A checkpoint never claims a vote the log cannot give back, whatever     *)
(* fails and however calls overlap: a vote is logged before it is counted, *)
(* also when the batch grows under the loop over it.                       *)
CountedVotesAreLogged == checkpoint <= totalVotes /\ totalVotes <= Len(log)

(* As long as nothing fails, whenever no call is under way the count and   *)
(* the log are in step, even if calls overlapped; and if they did not,     *)
(* every vote given to the processor is in the log once, or still in the   *)
(* batch.                                                                  *)
NoVoteLostOrRepeated ==
  ~failed /\ ~Busy =>
    /\ totalVotes = Len(log)
    /\ ~overlapped =>
         /\ IsInjective(log)
         /\ ToSet(log) \union ToSet(batch) = added
         /\ ToSet(log) \intersect ToSet(batch) = {}
=============================================================================
