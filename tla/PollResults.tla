----------------------------- MODULE PollResults -----------------------------
(***************************************************************************)
(* The reports VotingPoll (src/lib/voting/poll.ts) computes from its       *)
(* decrypted tallies.  A tally vector is a function from ChoiceIndices,    *)
(* the code's array indices, to numbers.  Paillier encryption is           *)
(* abstracted: a ciphertext is its plaintext, addition of ciphertexts is   *)
(* addition modulo the public key's n (Modulus).                           *)
(***************************************************************************)
EXTENDS Integers, FiniteSetsExt, Functions

CONSTANTS
  NumChoices,   \* choices.length
  Modulus       \* n of the Paillier key pair

ASSUME NumChoicesAssumption == NumChoices \in Nat \ {0}
ASSUME ModulusAssumption == Modulus \in Nat \ {0}

ChoiceIndices == 0 .. NumChoices - 1

(* What an encrypted tally can decrypt to. *)
Plaintexts == 0 .. Modulus - 1

Total(t) == SumFunction(t)

(* getTotalVotes: the ciphertexts are added first, then decrypted once. *)
GetTotalVotes(t) == Total(t) % Modulus

(* Mistake the runs must notice: ties go to the later choice. *)
LeadingChoiceIndexLast(t) ==
  LET lead[i \in ChoiceIndices] ==
        IF i = 0 THEN 0
        ELSE IF t[i] >= t[lead[i - 1]] THEN i ELSE lead[i - 1]
  IN  lead[NumChoices - 1]

(* The scan of leadingChoice and leadingChoiceIndex: a later choice takes  *)
(* the lead only with a strictly larger tally.                             *)
LeadingChoiceIndex(t) ==
  LET lead[i \in ChoiceIndices] ==
        IF i = 0 THEN 0
        ELSE IF t[i] > t[lead[i - 1]] THEN i ELSE lead[i - 1]
  IN  lead[NumChoices - 1]

(* Percentages of getResults, in hundredths of a percent, rounded down. *)
Percentages(t) ==
  [c \in ChoiceIndices |-> IF Total(t) > 0 THEN (t[c] * 10000) \div Total(t) ELSE 0]

GetResults(t, voters) ==
  [totalVotes  |-> Total(t),
   percentages |-> Percentages(t),
   winnerIndex |-> LeadingChoiceIndex(t),
   voterCount  |-> voters]

(* getSortedResults: Array.sort is stable, the comparator orders by tally  *)
(* alone, so equal tallies keep the order of the choices.                  *)
GetSortedResults(t) ==
  CHOOSE p \in Bijection(ChoiceIndices, ChoiceIndices) :
    \A i, j \in ChoiceIndices : i < j =>
      \/ t[p[i]] > t[p[j]]
      \/ t[p[i]] = t[p[j]] /\ p[i] < p[j]

MaxTally(t) == Max({0} \union Range(t))

HasTie(t) == Cardinality({c \in ChoiceIndices : t[c] = MaxTally(t)}) > 1

TiedChoices(t) ==
  IF HasTie(t) THEN {c \in ChoiceIndices : t[c] = MaxTally(t)} ELSE {}
=============================================================================
