----------------------------- MODULE IsolatedKeys -----------------------------
(***************************************************************************)
(* Isolated voting keys, src/isolated-public.ts and src/isolated-private.ts,*)
(* made from derived key pairs and stored with VotingService.              *)
(*                                                                         *)
(* A public key is an object whose instance id can be renewed; ciphertexts *)
(* carry a tag under the key id and the instance id of their time, and a   *)
(* private key remembers the instance its public key had when it was made. *)
(* A tag is an HMAC: nobody makes one for other contents or another key.   *)
(***************************************************************************)
EXTENDS VotingNumbers, VotingKeyFormat, KeyDraws

CONSTANTS
  Identities,   \* ECDH private keys, as createECDH returns them
  Draws,        \* what the generator draws for each normalized private key
  Messages,     \* plaintexts
  MaxKeys,      \* bounds: key objects of each kind
  MaxCiphertexts,
  MaxInstances  \* bound: instance ids made

ASSUME BoundAssumption ==
  MaxKeys \in Nat /\ MaxCiphertexts \in Nat /\ MaxInstances \in Nat

ASSUME DrawsAssumption ==
  \A p \in Identities : Len(Normalized(p)) = PrivateLength => Draws[Normalized(p)] \in Seq(Nat)

ASSUME MessagesAssumption == Messages \subseteq Nat

VARIABLES
  publics,      \* public key objects
  privates,     \* private key objects; public is the object they were made with;
                \* history: pairOf is the modulus lambda and mu belong to
  ciphertexts,  \* tagged ciphertexts, with the plaintext they stand for
  instances     \* instance ids made so far: salts are never drawn twice

keyVars == <<publics, privates, ciphertexts, instances>>

Unknown == -1   \* the plaintext of a ciphertext that was changed

TypeOK ==
  /\ \A i \in DOMAIN publics :
       publics[i].n \in Nat /\ publics[i].instanceId \in 1 .. instances
  /\ \A i \in DOMAIN privates :
       /\ privates[i].public \in DOMAIN publics
       /\ privates[i].originalInstanceId \in 1 .. instances
       /\ privates[i].mu \in Nat /\ privates[i].lambda \in Nat
  /\ \A t \in ciphertexts : t.c \in Nat /\ t.plain \in Nat \union {Unknown}
  /\ instances \in Nat

KeyInit ==
  /\ publics = <<>>
  /\ privates = <<>>
  /\ ciphertexts = {}
  /\ instances = 0

-----------------------------------------------------------------------------
Pairs == [p \in Identities |-> DeriveVotingKeysFromECDH(p, "compressed", Draws)]

Pair(private) == Pairs[private]

(* IsolatedPublicKey.create, with the key id of n or with another. *)
Create(private, keyId) ==
  /\ Pair(private).ok
  /\ Len(publics) < MaxKeys /\ instances < MaxInstances
  /\ instances' = instances + 1
  /\ publics' = Append(publics, [n |-> Pair(private).n, keyId |-> keyId,
                                 instanceId |-> instances + 1])
  /\ UNCHANGED <<privates, ciphertexts>>

(* A private key is made with any public key object: nothing asks whether  *)
(* it is of the same pair.  It takes its modulus from the object, keeps    *)
(* the ids the object has now and refers to the object.                    *)
CreatePrivate(private, i) ==
  /\ Pair(private).ok
  /\ Len(privates) < MaxKeys
  /\ privates' = Append(privates,
       [lambda |-> Pair(private).lambda, mu |-> Pair(private).mu, n |-> publics[i].n,
        public |-> i, originalKeyId |-> publics[i].keyId,
        originalInstanceId |-> publics[i].instanceId, pairOf |-> Pair(private).n])
  /\ UNCHANGED <<publics, ciphertexts, instances>>

(* Mistake: without the salt an id comes back after two updates.          *)
UpdateInstanceIdUnsalted(i) ==
  /\ instances < MaxInstances
  /\ instances' = instances + 1
  /\ publics' = [publics EXCEPT ![i].instanceId = IF @ = 1 THEN 2 ELSE 1]
  /\ UNCHANGED <<privates, ciphertexts>>

UpdateInstanceId(i) ==
  /\ instances < MaxInstances
  /\ instances' = instances + 1
  /\ publics' = [publics EXCEPT ![i].instanceId = instances + 1]
  /\ UNCHANGED <<privates, ciphertexts>>

(* A public key is stored and read back: another object with its ids. *)
StorePublic(i) ==
  LET read == BufferToIsolatedPublicKey(IsolatedPublicKeyToBuffer(publics[i]))
  IN  /\ read.ok /\ Len(publics) < MaxKeys
      /\ publics' = Append(publics, read.key)
      /\ UNCHANGED <<privates, ciphertexts, instances>>

(* A private key is stored and read back for any public key object.        *)
(* Nothing of the modulus or of the instance is stored with it.            *)
StorePrivate(j, i) ==
  LET read == BufferToVotingPrivateKey(VotingPrivateKeyToBuffer(privates[j].lambda, privates[j].mu))
  IN  /\ read.ok /\ Len(privates) < MaxKeys
      /\ privates' = Append(privates,
           [lambda |-> read.lambda, mu |-> read.mu, n |-> publics[i].n, public |-> i,
            originalKeyId |-> publics[i].keyId, originalInstanceId |-> publics[i].instanceId,
            pairOf |-> privates[j].pairOf])
      /\ UNCHANGED <<publics, ciphertexts, instances>>

-----------------------------------------------------------------------------
(* verifyKeyId, called before every use of a public key. *)
KeyIdVerified(key) == key.keyId = KeyIdOf(key.n)

Tag(key) == <<key.keyId, key.instanceId>>

TagCiphertext(key, c, plain) ==
  [c |-> c, taggedFor |-> c, tag |-> Tag(key), plain |-> plain]

(* Mistake: only the contents are tagged, not who tagged them. *)
ExtractInstanceIdAnyTag(key, t) == t.taggedFor = t.c

(* Does extractInstanceId return the current instance id? *)
ExtractInstanceId(key, t) == t.taggedFor = t.c /\ t.tag = Tag(key)

Keep(t) ==
  /\ Cardinality(ciphertexts \union {t}) <= MaxCiphertexts
  /\ ciphertexts' = ciphertexts \union {t}
  /\ UNCHANGED <<publics, privates, instances>>

EncryptIsolated(i, m) ==
  LET key == publics[i]
  IN  KeyIdVerified(key) /\ Keep(TagCiphertext(key, Encrypt(key.n, m, 2), m % key.n))

Plus(a, b, n) == IF a = Unknown \/ b = Unknown THEN Unknown ELSE (a + b) % n

AdditionIsolated(i, a, b) ==
  LET key == publics[i]
  IN  /\ KeyIdVerified(key) /\ ExtractInstanceId(key, a) /\ ExtractInstanceId(key, b)
      /\ Keep(TagCiphertext(key, MulMod(a.c, b.c, key.n * key.n), Plus(a.plain, b.plain, key.n)))

MultiplyIsolated(i, t, constant) ==
  LET key == publics[i]
  IN  /\ KeyIdVerified(key) /\ ExtractInstanceId(key, t)
      /\ Keep(TagCiphertext(key, ModPow(t.c, constant, key.n * key.n),
                            IF t.plain = Unknown THEN Unknown ELSE (t.plain * constant) % key.n))

(* A ciphertext is changed while it is stored. *)
Change(t) ==
  Keep([t EXCEPT !.c = @ + 1, !.plain = Unknown])

(* decryptIsolated: the object must still have the instance it had, and    *)
(* the tag must be of that instance.                                       *)
DecryptIsolated(k, t) ==
  IF publics[k.public].instanceId # k.originalInstanceId THEN Failure("instance id mismatch")
  ELSE IF ~(t.taggedFor = t.c /\ t.tag = <<k.originalKeyId, k.originalInstanceId>>)
  THEN Failure("ciphertext HMAC")
  ELSE [ok |-> TRUE, plain |-> Decrypt(k.n, k.lambda, k.mu, t.c)]

(* Sums and multiples of two are what a tally and a weighted vote need. *)
KeyNext ==
  \/ \E p \in Identities :
       \/ \E keyId \in {KeyIdOf(Pair(p).n), KeyIdOf(0)} : Create(p, keyId)
       \/ \E i \in DOMAIN publics : CreatePrivate(p, i)
  \/ \E i \in DOMAIN publics :
       \/ UpdateInstanceId(i)
       \/ StorePublic(i)
       \/ \E j \in DOMAIN privates : StorePrivate(j, i)
       \/ \E m \in Messages : EncryptIsolated(i, m)
       \/ \E a, b \in ciphertexts : AdditionIsolated(i, a, b)
       \/ \E t \in ciphertexts : MultiplyIsolated(i, t, 2)
  \/ \E t \in ciphertexts : Change(t)

KeySpec == KeyInit /\ [][KeyNext]_keyVars

-----------------------------------------------------------------------------
(* The primality test is right about every number up to 2500, with the     *)
(* twelve fixed witnesses alone, which the code does not use as they are   *)
(* but modulo n - 2; and what the candidates are made of never repeats     *)
(* itself.  Both are looked at once, in the initial state.                 *)
PrimesComeFromFreshDraws ==
  publics = <<>> =>
    /\ \A n \in 0 .. 2500 : MillerRabinTest(n, 12, {}) = IsPrime(n)
    /\ DrawsNeverRepeat

(* What a private key decrypts is the sum and multiple of what was         *)
(* encrypted, through stored keys and all orders of calls, as long as it   *)
(* was made or read back for a public key of its own pair: with another    *)
(* one it gives some number without an error.  No private key decrypts a   *)
(* ciphertext that was changed.                                            *)
DecryptsWhatWasEncrypted ==
  \A j \in DOMAIN privates, t \in ciphertexts :
    LET k == privates[j]
        d == DecryptIsolated(k, t)
    IN  d.ok => t.plain # Unknown /\ (k.pairOf = k.n => d.plain = t.plain)

(* A private key whose public key has taken another instance id never      *)
(* decrypts again: instance ids do not come back.                          *)
RevocationIsFinal ==
  [][\A j \in DOMAIN privates :
       publics[privates[j].public].instanceId # privates[j].originalInstanceId =>
         publics'[privates'[j].public].instanceId # privates'[j].originalInstanceId]_keyVars

(* A buffer that was cut or changed is never taken for a key, and one that *)
(* was not gives the key back.                                             *)
StoredKeysAreWhole ==
  /\ \A i \in DOMAIN publics :
       LET isolated == IsolatedPublicKeyToBuffer(publics[i])
           plain    == VotingPublicKeyToBuffer(publics[i].n)
       IN  /\ BufferToIsolatedPublicKey(isolated).key = publics[i]
           /\ BufferToVotingPublicKey(plain).n = publics[i].n
           /\ \A b \in Damaged(isolated) : BufferToIsolatedPublicKey(b).ok => b = isolated
           /\ \A b \in Damaged(plain) : BufferToVotingPublicKey(b).ok => b = plain
  /\ \A j \in DOMAIN privates :
       LET buffer == VotingPrivateKeyToBuffer(privates[j].lambda, privates[j].mu)
       IN  /\ BufferToVotingPrivateKey(buffer) =
                [ok |-> TRUE, lambda |-> privates[j].lambda, mu |-> privates[j].mu]
           /\ \A b \in Damaged(buffer) : BufferToVotingPrivateKey(b).ok => b = buffer
=============================================================================
