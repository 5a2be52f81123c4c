------------------------------ MODULE VotingPoll ------------------------------
(***************************************************************************)
(* The class VotingPoll of src/lib/voting/poll.ts: encrypted tallies, one  *)
(* receipt per member id, and the four ways of voting.                     *)
(*                                                                         *)
(* Every voting function runs without suspending up to its final await of  *)
(* generateEncryptedReceipt, which itself suspends nowhere, so a call is   *)
(* one step.  It is not all-or-nothing though: the tallies are changed     *)
(* first, and signing or encrypting the receipt may still throw, which     *)
(* leaves the ballot counted and the voter without a receipt               *)
(* (ReceiptsMayFail); so may an encryption in the loop over the tallies,   *)
(* which leaves part of the ballot counted.  A call that is refused, or    *)
(* throws before it has added a point, changes nothing and is a            *)
(* stuttering step.                                                        *)
(*                                                                         *)
(* A member is known to the poll by its serialised id alone, so several    *)
(* Member objects (Members) may stand for one identity (IdOf).  A receipt  *)
(* is the position at which it was issued: the random nonce and the        *)
(* timestamp in the code make every receipt different from all others.     *)
(***************************************************************************)
EXTENDS PollResults, SequencesExt

CONSTANTS
  Members,          \* Member objects in the hands of callers
  Ids,              \* serialised member ids
  IdOf,             \* the id of each Member object
  Weights,          \* weights callers pass to voteWeighted
  ReceiptsMayFail,  \* may a call throw once the tallies have changed?
  DirectReceipts,   \* is the public generateEncryptedReceipt called directly?
  MaxReceipts,      \* bound: receipts issued
  MaxBallots        \* bound: ballots counted for one identity

ASSUME IdsAssumption == IsFiniteSet(Ids)   \* ids have a fixed number of bytes
ASSUME IdOfAssumption == IdOf \in [Members -> Ids]
ASSUME WeightsAssumption == Weights \subseteq Int
ASSUME ModeAssumption == ReceiptsMayFail \in BOOLEAN /\ DirectReceipts \in BOOLEAN
ASSUME BoundsAssumption == MaxReceipts \in Nat /\ MaxBallots \in Nat

VARIABLES
  votes,      \* plaintext of each encrypted tally
  receipts,   \* id -> the receipt stored for it, or NoReceipt
  closed,     \* closedAt is set
  issued,     \* history: the id each receipt was issued to, in order
  ledger      \* history: the ballots added to the tallies on behalf of each id

vars == <<votes, receipts, closed, issued, ledger>>

NoReceipt == 0

(* Points a ballot gives to each choice. *)
Ballots == [ChoiceIndices -> Nat]

TypeOK ==
  /\ votes \in [ChoiceIndices -> Plaintexts]
  /\ receipts \in [Ids -> 0 .. Len(issued)]
  /\ closed \in BOOLEAN
  /\ issued \in Seq(Ids)
  /\ ledger \in [Ids -> Seq(Ballots)]

-----------------------------------------------------------------------------
(* newPoll: every tally is an encryption of zero. *)
Init ==
  /\ votes = [c \in ChoiceIndices |-> 0]
  /\ receipts = [id \in Ids |-> NoReceipt]
  /\ closed = FALSE
  /\ issued = <<>>
  /\ ledger = [id \in Ids |-> <<>>]

MemberVoted(m) == receipts[IdOf[m]] # NoReceipt

(* The answer of verifyReceipt(m, r).  Receipts enter the map only through *)
(* GenerateEncryptedReceipt, so the stored one always decrypts and carries *)
(* the poll's own signature.                                               *)
VerifyReceipt(m, r) == MemberVoted(m) /\ receipts[IdOf[m]] = r

(* Mistakes the runs must notice: the receipt is returned but not stored;  *)
(* the first receipt of an id is kept when a second one is issued.         *)
GenerateReceiptUnstored(m) ==
  /\ Len(issued) < MaxReceipts
  /\ issued' = Append(issued, IdOf[m])
  /\ UNCHANGED receipts

GenerateReceiptKeepingFirst(m) ==
  /\ Len(issued) < MaxReceipts
  /\ issued' = Append(issued, IdOf[m])
  /\ receipts' = [receipts EXCEPT ![IdOf[m]] =
                    IF @ = NoReceipt THEN Len(issued) + 1 ELSE @]

(* generateEncryptedReceipt: a fresh receipt replaces whatever the map     *)
(* holds for the id; neither closedAt nor an earlier receipt is looked at. *)
GenerateEncryptedReceipt(m) ==
  /\ Len(issued) < MaxReceipts
  /\ issued' = Append(issued, IdOf[m])
  /\ receipts' = [receipts EXCEPT ![IdOf[m]] = Len(issued) + 1]

(* Mistake: a weight counted as one point. *)
AddBallotOnePoint(b) ==
  [c \in ChoiceIndices |-> (votes[c] + (IF b[c] > 0 THEN 1 ELSE 0)) % Modulus]

(* Homomorphic addition of a ballot to every tally. *)
AddBallot(b) == [c \in ChoiceIndices |-> (votes[c] + b[c]) % Modulus]

(* Mistakes: the already-voted guard or the closed guard is dropped. *)
CastBallotAgain(m, b) ==
  /\ ~closed
  /\ Len(ledger[IdOf[m]]) < MaxBallots
  /\ votes' = AddBallot(b)
  /\ ledger' = [ledger EXCEPT ![IdOf[m]] = Append(@, b)]
  /\ GenerateEncryptedReceipt(m)
  /\ UNCHANGED closed

CastBallotWhenClosed(m, b) ==
  /\ ~MemberVoted(m)
  /\ Len(ledger[IdOf[m]]) < MaxBallots
  /\ votes' = AddBallot(b)
  /\ ledger' = [ledger EXCEPT ![IdOf[m]] = Append(@, b)]
  /\ GenerateEncryptedReceipt(m)
  /\ UNCHANGED closed

(* What the four voting functions share: the closed and already-voted      *)
(* guards, the tallies, then the receipt.                                  *)
CastBallot(m, b) ==
  /\ ~closed
  /\ ~MemberVoted(m)
  /\ Len(ledger[IdOf[m]]) < MaxBallots
  /\ votes' = AddBallot(b)
  /\ ledger' = [ledger EXCEPT ![IdOf[m]] = Append(@, b)]
  /\ \/ GenerateEncryptedReceipt(m)
     \/ /\ ReceiptsMayFail
        /\ UNCHANGED <<receipts, issued>>
  /\ UNCHANGED closed

(* An encryption throws when the points of the first k choices of s have   *)
(* been added.                                                             *)
BreakOff(m, b, s, k) ==
  /\ ReceiptsMayFail
  /\ ~closed
  /\ ~MemberVoted(m)
  /\ Len(ledger[IdOf[m]]) < MaxBallots
  /\ LET part == [c \in ChoiceIndices |-> IF \E j \in 1 .. k : s[j] = c THEN b[c] ELSE 0]
     IN  /\ votes' = AddBallot(part)
         /\ ledger' = [ledger EXCEPT ![IdOf[m]] = Append(@, part)]
  /\ UNCHANGED <<receipts, closed, issued>>

Single(i, w) == [c \in ChoiceIndices |-> IF c = i THEN w ELSE 0]

(* The k-th ranked choice gets Len(r) - k + 1 points. *)
RankPoints(r) ==
  [c \in ChoiceIndices |->
     IF \E k \in DOMAIN r : r[k] = c
     THEN Len(r) + 1 - (CHOOSE k \in DOMAIN r : r[k] = c)
     ELSE 0]

ApprovalPoints(a) ==
  [c \in ChoiceIndices |-> IF \E k \in DOMAIN a : a[k] = c THEN 1 ELSE 0]

(* Mistake: the check for duplicates is dropped. *)
ValidSelectionWithDuplicates(s) ==
  s # <<>> /\ \A k \in DOMAIN s : s[k] \in ChoiceIndices

(* The validation shared by voteRanked and voteApproval: not empty, every  *)
(* index in range, none twice.                                             *)
ValidSelection(s) ==
  /\ s # <<>>
  /\ \A k \in DOMAIN s : s[k] \in ChoiceIndices
  /\ IsInjective(s)

Vote(m, i) == i \in ChoiceIndices /\ CastBallot(m, Single(i, 1))

VoteWeighted(m, i, w) ==
  /\ i \in ChoiceIndices
  /\ w > 0
  /\ CastBallot(m, Single(i, w))

VoteRanked(m, r) ==
  /\ ValidSelection(r)
  /\ \/ CastBallot(m, RankPoints(r))
     \/ \E k \in 1 .. Len(r) - 1 : BreakOff(m, RankPoints(r), r, k)

VoteApproval(m, a) ==
  /\ ValidSelection(a)
  /\ \/ CastBallot(m, ApprovalPoints(a))
     \/ \E k \in 1 .. Len(a) - 1 : BreakOff(m, ApprovalPoints(a), a, k)

CallGenerateEncryptedReceipt(m) ==
  /\ DirectReceipts
  /\ GenerateEncryptedReceipt(m)
  /\ UNCHANGED <<votes, closed, ledger>>

Close ==
  /\ ~closed
  /\ closed' = TRUE
  /\ UNCHANGED <<votes, receipts, issued, ledger>>

(* Arguments callers pass, the ones the validation must refuse included.   *)
(* A longer selection has an index out of range or a duplicate.            *)
Indices == -1 .. NumChoices
Selections == BoundedSeq(Indices, NumChoices)

Next ==
  \/ \E m \in Members, i \in Indices : Vote(m, i)
  \/ \E m \in Members, i \in Indices, w \in Weights : VoteWeighted(m, i, w)
  \/ \E m \in Members, r \in Selections : VoteRanked(m, r)
  \/ \E m \in Members, a \in Selections : VoteApproval(m, a)
  \/ \E m \in Members : CallGenerateEncryptedReceipt(m)
  \/ Close

Spec == Init /\ [][Next]_vars

-----------------------------------------------------------------------------
VoterCount == Cardinality({id \in Ids : receipts[id] # NoReceipt})

(* Points the ballots in the ledger give to c, with nothing reduced. *)
LedgerPoints(c) ==
  SumFunction([id \in Ids |->
    SumFunction([k \in DOMAIN ledger[id] |-> ledger[id][k][c]])])

(* The decrypted tallies are the sum of every ballot that was ever added,  *)
(* modulo n: no call loses, repeats or misplaces points, whichever of the  *)
(* voting functions made it, whether or not its receipt was issued, and    *)
(* also when another call was broken off half-way.                         *)
TalliesMatchLedger ==
  \A c \in ChoiceIndices : votes[c] = LedgerPoints(c) % Modulus

(* Double-vote prevention: no identity has two ballots in the tallies,     *)
(* through however many Member objects it calls.                           *)
OneBallotPerId == \A id \in Ids : Len(ledger[id]) <= 1

(* voterCount counts receipts; it stands for "unique voters" only if the   *)
(* receipts and the counted ballots belong to the same identities.         *)
VotersAreCounted == \A id \in Ids : receipts[id] # NoReceipt <=> ledger[id] # <<>>

(* With generateEncryptedReceipt called directly as well, exactly the most *)
(* recent receipt of an identity verifies.                                 *)
LatestReceiptVerifies ==
  \A k \in DOMAIN issued, m \in Members :
    VerifyReceipt(m, k) <=>
      /\ issued[k] = IdOf[m]
      /\ \A j \in k + 1 .. Len(issued) : issued[j] # IdOf[m]

(* As long as all the points cast stay below n, the results are the true   *)
(* ones: the two totals agree with the ledger and the winner has the most  *)
(* points in it.  Beyond n the tallies wrap and nothing of this holds.     *)
ResultsTrueBelowModulus ==
  LET true == [c \in ChoiceIndices |-> LedgerPoints(c)]
  IN  Total(true) < Modulus =>
        /\ GetTotalVotes(votes) = Total(true)
        /\ GetResults(votes, VoterCount).totalVotes = Total(true)
        /\ \A c \in ChoiceIndices : true[c] <= true[LeadingChoiceIndex(votes)]

(* The reports of one state agree with each other: the sorted results lead *)
(* with the winner, a tie is seen exactly when the runner-up has as many   *)
(* points, the tied choices are the ones level with the winner, and the    *)
(* percentages follow the tallies and lose less than 0.01% per choice.     *)
(* They agree with what was cast as well, as long as that fits n.          *)
ReportsAgree ==
  LET p    == Percentages(votes)
      s    == GetSortedResults(votes)
      lead == LeadingChoiceIndex(votes)
  IN  /\ s[0] = lead
      /\ HasTie(votes) <=> NumChoices > 1 /\ votes[s[1]] = votes[lead]
      /\ HasTie(votes) =>
            TiedChoices(votes) = {c \in ChoiceIndices : votes[c] = votes[lead]}
      /\ \A c, d \in ChoiceIndices : votes[c] <= votes[d] => p[c] <= p[d]
      /\ Total(votes) > 0 => Total(p) \in 10001 - NumChoices .. 10000
      /\ ResultsTrueBelowModulus

(* A poll that is closed stays closed, and neither its tallies nor the     *)
(* ballots counted in them change any more, whatever fails.  Its voter     *)
(* count is not final: a receipt that is issued directly to an identity    *)
(* without one counts it as a voter (poll.ts:84 does not look at closedAt),*)
(* and nothing else moves the count.                                       *)
ResultsFinalOnceClosed ==
  [][closed =>
       /\ closed' /\ UNCHANGED <<votes, ledger>>
       /\ VoterCount' # VoterCount =>
            /\ VoterCount' = VoterCount + 1
            /\ \E m \in Members : ~MemberVoted(m) /\ CallGenerateEncryptedReceipt(m)]_vars

(* Whatever fails or is called directly, an identity that holds a receipt  *)
(* keeps one and never gets another ballot into the tallies.               *)
ReceiptEndsVoting ==
  [][\A id \in Ids : receipts[id] # NoReceipt =>
       receipts'[id] # NoReceipt /\ ledger'[id] = ledger[id]]_vars

-----------------------------------------------------------------------------
(* The ballots the four voting functions stand for, said without the code. *)
SingleBallots ==
  LET marks == {1} \union {w \in Weights : w > 0}
  IN  {b \in [ChoiceIndices -> marks \union {0}] :
         Cardinality({c \in ChoiceIndices : b[c] # 0}) = 1}

RankedBallots ==
  {b \in [ChoiceIndices -> 0 .. NumChoices] :
     LET ranked == {c \in ChoiceIndices : b[c] # 0}
     IN  ranked # {} /\ {b[c] : c \in ranked} = 1 .. Cardinality(ranked)}

ApprovalBallots ==
  {b \in [ChoiceIndices -> {0, 1}] : \E c \in ChoiceIndices : b[c] = 1}

LegalBallots == SingleBallots \union RankedBallots \union ApprovalBallots

Box == INSTANCE BallotBox WITH
  Ballots  <- LegalBallots,
  NoBallot <- <<>>,
  ballots  <- [id \in Ids |-> IF ledger[id] = <<>> THEN <<>> ELSE ledger[id][1]],
  sealed   <- closed

(* As long as no receipt fails, the poll implements the ballot box: a step *)
(* that changes the tallies casts one legal ballot for an identity that    *)
(* had none, while the box is open.                                        *)
ImplementsBallotBox == Box!Spec
=============================================================================
