-------------------------------- MODULE KeyDraws --------------------------------
(***************************************************************************)
(* hkdf and SecureDeterministicDRBG of src/services/voting.service.ts, the *)
(* way from the shared secret of an ECDH key to the bytes its primes are   *)
(* made of.  An HMAC is a term that tells what it was made of; buffers are *)
(* sequences of cells, a digest being HashLength of them.                  *)
(***************************************************************************)
EXTENDS Integers, Sequences, FiniteSets

HashLength == 2

Hmac(key, data) == <<"hmac", key, data>>

(* Digests one after the other, cut to a length.                           *)
BytesOf(digests, length) ==
  [i \in 1 .. length |-> <<digests[(i - 1) \div HashLength + 1], (i - 1) % HashLength>>]

DigestsFor(length) == (length + HashLength - 1) \div HashLength

Constant(byte) == <<"constant", byte>>

(* A salt that is not given or empty is as many zeros as a digest has.     *)
ActualSalt(salt) == IF salt = <<>> THEN Constant(0) ELSE salt

(* The number of a block is one byte.                                      *)
Hkdf(secret, salt, info, length) ==
  LET prk == Hmac(ActualSalt(salt), secret)
      t[i \in 0 .. DigestsFor(length)] ==
        IF i = 0 THEN <<>> ELSE Hmac(prk, <<t[i - 1], info, i % 256>>)
  IN  BytesOf(t, length)

-----------------------------------------------------------------------------
(* The generator, [k, v].  update without data and with a seed.            *)
Stirred(g, data) ==
  LET k == Hmac(g.k, <<g.v>> \o data) IN [k |-> k, v |-> Hmac(k, <<g.v>>)]

(* Mistake the runs must notice: generate leaves the generator as it is.   *)
UpdateForgotten(g) == g

Update(g) == Stirred(g, <<0>>)

Seeded(seed) ==
  Stirred(Stirred([k |-> Constant(0), v |-> Constant(1)], <<0, seed>>), <<1, seed>>)

(* generate: [bytes, generator].                                           *)
Generate(g, numBytes) ==
  LET v[i \in 0 .. DigestsFor(numBytes)] == IF i = 0 THEN g.v ELSE Hmac(g.k, <<v[i - 1]>>)
  IN  [bytes |-> BytesOf(v, numBytes), generator |-> Update([g EXCEPT !.v = v[DigestsFor(numBytes)]])]

(* What calls with these sizes draw from one generator, one after another. *)
Drawn(seed, sizes) ==
  LET after[i \in 0 .. Len(sizes)] ==
        IF i = 0 THEN [bytes |-> <<>>, generator |-> Seeded(seed)]
        ELSE LET next == Generate(after[i - 1].generator, sizes[i])
             IN  [bytes |-> after[i - 1].bytes \o next.bytes, generator |-> next.generator]
  IN  after[Len(sizes)]

-----------------------------------------------------------------------------
CellsOf(bytes) == {bytes[i] : i \in DOMAIN bytes}

(* No byte of a digest is drawn twice, and none is of the value the        *)
(* generator goes on from.                                                 *)
DrawsFresh(drawn) ==
  /\ Cardinality(CellsOf(drawn.bytes)) = Len(drawn.bytes)
  /\ \A cell \in CellsOf(drawn.bytes) : cell[1] # drawn.generator.v

(* However the bytes are drawn, in small or large portions, they never     *)
(* come again, and not from another seed either; a shorter hkdf is the     *)
(* beginning of a longer one, and another info or secret has no byte in    *)
(* common with it.                                                         *)
DrawsNeverRepeat ==
  /\ \A a, b, c \in 1 .. 3 :
       LET drawn == Drawn("seed", <<a, b, c>>)
       IN  DrawsFresh(drawn) /\ CellsOf(drawn.bytes) \cap CellsOf(Drawn("other", <<a, b, c>>).bytes) = {}
  /\ \A n \in 0 .. 5 :
       LET okm == Hkdf("secret", <<>>, "primes", n)
       IN  /\ okm = SubSeq(Hkdf("secret", <<>>, "primes", 6), 1, n)
           /\ Cardinality(CellsOf(okm)) = n
           /\ CellsOf(okm) \cap (CellsOf(Hkdf("secret", <<>>, "other", n))
                                   \union CellsOf(Hkdf("another", <<>>, "primes", n))) = {}
=============================================================================
