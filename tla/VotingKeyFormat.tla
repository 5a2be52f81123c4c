---------------------------- MODULE VotingKeyFormat ----------------------------
(***************************************************************************)
(* The serialised forms of voting keys, src/services/voting.service.ts.    *)
(* A buffer is its payload, a sequence of cells, and the payload that the  *)
(* checksum behind it was computed from; <<>> stands for a checksum that   *)
(* was cut off.  A number is written with as many digits as it needs, and  *)
(* at least Padding.  Digests are injective.                               *)
(***************************************************************************)
EXTENDS Integers, Sequences

Base == 32
Padding == 2
KeyMagic == 77
KeyVersion == 2
Junk == 99   \* a cell that is no digit, no magic and no version

Digits(n) ==
  LET Rest[m \in Nat] == IF m = 0 THEN <<>> ELSE Append(Rest[m \div Base], m % Base)
      s == Rest[n]
  IN  [i \in 1 .. Padding - Len(s) |-> 0] \o s

(* BigInt('0x' + hex): throws when there is no digit or one that is none. *)
IsNumber(s) == s # <<>> /\ \A i \in DOMAIN s : s[i] < Base

Number(s) ==
  LET Value[i \in 0 .. Len(s)] == IF i = 0 THEN 0 ELSE Value[i - 1] * Base + s[i]
  IN  Value[Len(s)]

(* SHA-256 of the digits of n. *)
KeyIdOf(n) == 1000000 + n

WithChecksum(payload) == [payload |-> payload, digestOf |-> payload]

BufferLength(buffer) == Len(buffer.payload) + (IF buffer.digestOf = <<>> THEN 0 ELSE 1)

(* length bytes from offset on, as many as there are. *)
Slice(s, offset, length) ==
  SubSeq(s, offset + 1, IF offset + length < Len(s) THEN offset + length ELSE Len(s))

(* The checksum is looked for behind the payload the lengths add up to. *)
ChecksumMatches(buffer, payloadLength) ==
  payloadLength = Len(buffer.payload) /\ buffer.digestOf = buffer.payload

Refused(error) == [ok |-> FALSE, error |-> error]

(* What all readers look at first. *)
HeaderError(buffer, headerLength) ==
  CASE BufferLength(buffer) < headerLength + 1 -> "too short"
    [] OTHER -> IF buffer.payload[1] # KeyMagic THEN "wrong magic"
                ELSE IF buffer.payload[2] # KeyVersion THEN "unsupported version"
                ELSE "none"

-----------------------------------------------------------------------------
VotingPublicKeyToBuffer(n) ==
  WithChecksum(<<KeyMagic, KeyVersion, KeyIdOf(n), Len(Digits(n))>> \o Digits(n))

BufferToVotingPublicKey(buffer) ==
  LET error  == HeaderError(buffer, 4)
      length == buffer.payload[4]
      digits == Slice(buffer.payload, 4, length)
  IN  IF error # "none" THEN Refused(error)
      ELSE IF ~IsNumber(digits) THEN Refused("no number")
      ELSE IF ~ChecksumMatches(buffer, 4 + length) THEN Refused("checksum")
      ELSE IF buffer.payload[3] # KeyIdOf(Number(digits)) THEN Refused("key id")
      ELSE [ok |-> TRUE, n |-> Number(digits)]

IsolatedPublicKeyToBuffer(key) ==
  WithChecksum(<<KeyMagic, KeyVersion, key.keyId, key.instanceId, Len(Digits(key.n))>>
                 \o Digits(key.n))

(* Mistake the runs must notice: the checksum is not compared. *)
BufferToIsolatedPublicKeyUnchecked(buffer) ==
  LET error  == HeaderError(buffer, 5)
      length == buffer.payload[5]
      digits == Slice(buffer.payload, 5, length)
  IN  IF error # "none" THEN Refused(error)
      ELSE IF ~IsNumber(digits) THEN Refused("no number")
      ELSE [ok |-> TRUE, key |-> [n |-> Number(digits), keyId |-> buffer.payload[3],
                                  instanceId |-> buffer.payload[4]]]

(* The ids of an isolated key are taken from the buffer as they are. *)
BufferToIsolatedPublicKey(buffer) ==
  LET error  == HeaderError(buffer, 5)
      length == buffer.payload[5]
      digits == Slice(buffer.payload, 5, length)
  IN  IF error # "none" THEN Refused(error)
      ELSE IF ~IsNumber(digits) THEN Refused("no number")
      ELSE IF ~ChecksumMatches(buffer, 5 + length) THEN Refused("checksum")
      ELSE [ok |-> TRUE, key |-> [n |-> Number(digits), keyId |-> buffer.payload[3],
                                  instanceId |-> buffer.payload[4]]]

VotingPrivateKeyToBuffer(lambda, mu) ==
  WithChecksum(<<KeyMagic, KeyVersion, Len(Digits(lambda))>> \o Digits(lambda)
                 \o <<Len(Digits(mu))>> \o Digits(mu))

(* A length that points behind the buffer throws when the next is read. *)
BufferToVotingPrivateKey(buffer) ==
  LET error    == HeaderError(buffer, 4)
      length   == buffer.payload[3]
      lambda   == Slice(buffer.payload, 3, length)
      muLength == buffer.payload[4 + length]
      mu       == Slice(buffer.payload, 4 + length, muLength)
  IN  IF error # "none" THEN Refused(error)
      ELSE IF ~IsNumber(lambda) THEN Refused("no number")
      ELSE IF 4 + length > Len(buffer.payload) THEN Refused("out of range")
      ELSE IF ~IsNumber(mu) THEN Refused("no number")
      ELSE IF ~ChecksumMatches(buffer, 4 + length + muLength) THEN Refused("checksum")
      ELSE [ok |-> TRUE, lambda |-> Number(lambda), mu |-> Number(mu)]

-----------------------------------------------------------------------------
(* What storage may do to a buffer: cut it anywhere or change a cell. *)
Damaged(buffer) ==
  {[payload |-> SubSeq(buffer.payload, 1, i), digestOf |-> <<>>] : i \in 0 .. Len(buffer.payload)}
    \union UNION {{[buffer EXCEPT !.payload[i] = x] : x \in {0, 1, Junk}} : i \in DOMAIN buffer.payload}
=============================================================================
