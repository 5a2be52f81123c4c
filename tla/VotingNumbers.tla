----------------------------- MODULE VotingNumbers -----------------------------
(***************************************************************************)
(* The arithmetic of src/services/voting.service.ts: modular powers and    *)
(* inverses, the primality test, and the derivation of a Paillier key pair *)
(* from the output of a deterministic generator.                           *)
(*                                                                         *)
(* A generator is here the sequence of the numbers it draws; KeyDraws says *)
(* how it draws them.  The further witnesses of the primality test are any *)
(* numbers.  Sizes are scaled down by the constants.                       *)
(***************************************************************************)
EXTENDS Integers, Sequences, FiniteSets

CONSTANTS
  KeyBits,        \* size of a Paillier modulus
  MinKeyBits,     \* smallest size accepted, 2048 in the code
  TestRounds,     \* rounds of the primality test, 256 in the code
  MaxAttempts,    \* draws before a prime is given up
  PrivateLength,  \* length of a private key, 32 bytes in the code
  TestPlaintext   \* what a new key pair is tried with, 42 in the code

ASSUME SizeAssumption ==
  /\ KeyBits \in Nat /\ MinKeyBits \in Nat \ {0}
  /\ TestRounds \in Nat \ {0} /\ MaxAttempts \in Nat
  /\ PrivateLength \in Nat \ {0, 1} /\ TestPlaintext \in Nat

Failure(error) == [ok |-> FALSE, error |-> error]

-----------------------------------------------------------------------------
(* A product of bigints below 2^20, within the integers of TLC. *)
MulMod(a, b, m) == (((a * (b \div 1024)) % m) * 1024 + a * (b % 1024)) % m

(* The variables of a loop are the argument of a function: here            *)
(* <<result, base, exp>>.                                                  *)
ModPow(base, exp, mod) ==
  LET Loop[s \in Nat \X Nat \X Nat] ==
        IF s[3] = 0 THEN s[1]
        ELSE Loop[<<IF s[3] % 2 = 1 THEN MulMod(s[1], s[2], mod) ELSE s[1],
                    MulMod(s[2], s[2], mod), s[3] \div 2>>]
  IN  IF mod = 1 THEN 0 ELSE Loop[<<1, base % mod, exp>>]

Gcd(a, b) ==
  LET Loop[s \in Nat \X Nat] == IF s[2] = 0 THEN s[1] ELSE Loop[<<s[2], s[1] % s[2]>>]
  IN  Loop[<<a, b>>]

Lcm(a, b) == (a * b) \div Gcd(a, b)

(* A division by zero ends the loop when a and m have a common divisor. *)
DivisionByZero == -1

(* <<a0, m, x0, x1>> of the loop; m is its value at the call.              *)
ModInverse(a, m) ==
  LET Loop[s \in Nat \X Nat \X Int \X Int] ==
        IF s[1] <= 1 THEN IF s[4] < 0 THEN s[4] + m ELSE s[4]
        ELSE IF s[2] = 0 THEN DivisionByZero
        ELSE Loop[<<s[2], s[1] % s[2], s[4] - (s[1] \div s[2]) * s[3], s[3]>>]
  IN  IF m = 1 THEN 0 ELSE Loop[<<a, m, 0, 1>>]

-----------------------------------------------------------------------------
PowerOfTwo[k \in Nat] == IF k = 0 THEN 1 ELSE 2 * PowerOfTwo[k - 1]

WitnessPrimes == <<2, 3, 5, 7, 11, 13, 17, 19, 23, 29, 31, 37>>

(* The first twelve witnesses are taken modulo n - 2, the others come from *)
(* digests.                                                                *)
Witnesses(n, k, digests) ==
  {(WitnessPrimes[i] % (n - 2)) + 2 : i \in 1 .. (IF k < 12 THEN k ELSE 12)}
    \union {(h % (n - 3)) + 2 : h \in digests}

(* Does the witness a leave n possibly prime?  n - 1 = 2^r * d. *)
WitnessLoop(a, n) ==
  LET Twos[m \in Nat \ {0}] == IF m % 2 = 0 THEN 1 + Twos[m \div 2] ELSE 0
      r == Twos[n - 1]
      d == (n - 1) \div PowerOfTwo[r]
  IN  \/ ModPow(a, d, n) \in {1, n - 1}
      \/ \E i \in 1 .. r - 1 : ModPow(a, d * PowerOfTwo[i], n) = n - 1

(* Mistake the runs must notice: one witness is enough. *)
MillerRabinTestOnce(n, k, digests) ==
  CASE n <= 1 \/ n = 4 -> FALSE
    [] n \in {2, 3}    -> TRUE
    [] OTHER           -> WitnessLoop(4, n)

MillerRabinTest(n, k, digests) ==
  CASE n <= 1 \/ n = 4 -> FALSE
    [] n \in {2, 3}    -> TRUE
    [] OTHER           -> \A a \in Witnesses(n, k, digests) : WitnessLoop(a, n)

IsPrime(n) == n > 1 /\ \A d \in 2 .. n - 1 : d * d > n \/ n % d # 0

SmallPrimes == {p \in 2 .. 251 : IsPrime(p)}

-----------------------------------------------------------------------------
(* bytes[0] |= 1 << ((numBits - 1) % 8) and bytes[last] |= 1.  Bits above  *)
(* the top one stay as they were drawn.                                    *)
WithBit(n, weight) == IF (n \div weight) % 2 = 1 THEN n ELSE n + weight

Candidate(draw, numBits) == WithBit(WithBit(draw, PowerOfTwo[numBits - 1]), 1)

Accepted(candidate) ==
  /\ \A p \in SmallPrimes : candidate % p = 0 => candidate = p
  /\ MillerRabinTest(candidate, TestRounds, {})

(* The first acceptable candidate, and the draws that are left behind it. *)
GenerateDeterministicPrime(draws, numBits) ==
  LET tried == {i \in DOMAIN draws : i <= MaxAttempts}
      good  == {i \in tried : Accepted(Candidate(draws[i], numBits))}
      first == CHOOSE i \in good : \A j \in good : i <= j
  IN  IF good = {} THEN Failure("no prime")
      ELSE [ok |-> TRUE, prime |-> Candidate(draws[first], numBits),
            rest |-> SubSeq(draws, first + 1, Len(draws))]

(* Paillier encryption with the random factor r, and decryption. *)
Encrypt(n, m, r) == MulMod(ModPow(n + 1, m % n, n * n), ModPow(r, n, n * n), n * n)

Decrypt(n, lambda, mu, c) ==
  MulMod(((ModPow(c, lambda, n * n) - 1) \div n) % n, mu, n)

KeyPair(p, q) ==
  LET n == p * q
      lambda == Lcm(p - 1, q - 1)
      mu == ModInverse((ModPow(n + 1, lambda, n * n) - 1) \div n, n)
  IN  CASE p = q -> Failure("identical primes")
        [] p # q /\ (IF p > q THEN p - q ELSE q - p) < PowerOfTwo[KeyBits \div 4] ->
             Failure("primes too close")
        [] OTHER ->
             IF Gcd(n, lambda) # 1 \/ mu = DivisionByZero THEN Failure("degenerate primes")
             ELSE IF Decrypt(n, lambda, mu, Encrypt(n, TestPlaintext, 2)) # TestPlaintext
                  THEN Failure("validation failed")
             ELSE [ok |-> TRUE, n |-> n, lambda |-> lambda, mu |-> mu]

(* Both primes are taken from one generator, one after the other. *)
GenerateDeterministicKeyPair(draws) ==
  LET p == GenerateDeterministicPrime(draws, KeyBits \div 2)
      q == GenerateDeterministicPrime(p.rest, KeyBits \div 2)
  IN  CASE KeyBits < MinKeyBits -> Failure("key too small")
        [] KeyBits >= MinKeyBits /\ KeyBits % 2 # 0 -> Failure("odd key size")
        [] OTHER -> IF ~p.ok THEN p ELSE IF ~q.ok THEN q ELSE KeyPair(p.prime, q.prime)

-----------------------------------------------------------------------------
(* Forms of an ECDH public key.  An uncompressed key has its prefix or     *)
(* has lost it; with another first byte it is refused.                     *)
PublicForms == {"compressed", "uncompressed", "raw", "wrong prefix", "other length"}

(* createECDH drops a leading zero of a private key. *)
Normalized(private) ==
  IF Len(private) = PrivateLength - 1 THEN <<0>> \o private ELSE private

(* The shared secret of a key with itself determines what the generator    *)
(* draws: drawsOf is the digest chain from a private key to the draws.     *)
DeriveVotingKeysFromECDH(private, form, drawsOf) ==
  CASE Len(Normalized(private)) # PrivateLength -> Failure("private key length")
    [] Len(Normalized(private)) = PrivateLength /\ form \in {"wrong prefix", "other length"} ->
         Failure("public key length")
    [] OTHER -> GenerateDeterministicKeyPair(drawsOf[Normalized(private)])
=============================================================================
