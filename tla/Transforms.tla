------------------------------- MODULE Transforms -------------------------------
(***************************************************************************)
(* The stream transforms of src/transforms/: a pipeline of an              *)
(* EciesEncryptTransform, a ChecksumTransform with a CrcService reading    *)
(* beside it, a connection that cuts the bytes into any pieces and may     *)
(* break off, and an EciesDecryptionTransform; and, apart from it,         *)
(* XorStreams and an XorTransform.  Blocks are the basic messages of       *)
(* SingleRecipient.                                                        *)
(***************************************************************************)
EXTENDS SingleRecipient, XorStreams, CrcStreams, FiniteSetsExt

CONSTANTS
  Lengths,      \* of the message
  MaxWrite,     \* bound: the most bytes written at a time
  Pieces,       \* bound: the sizes of the pieces that are delivered
  BlockSizes,   \* blockSize of the encrypting transform
  Mismatch,     \* what the decrypting one's may differ by
  XorPlans      \* chunk sizes for the XorTransform

ASSUME XorPlansAssumption == XorPlans \subseteq Seq(Nat)

(* A size of blocks that is not positive has no blocks.                    *)
ASSUME SizesAssumption ==
  /\ Lengths \subseteq Nat /\ Pieces \subseteq Nat /\ MaxWrite \in Nat
  /\ BlockSizes \subseteq Nat \ {0} /\ Mismatch \subseteq Int
  /\ \A size \in BlockSizes, d \in Mismatch : size + d > 0

VARIABLES
  message,
  blockSize,
  written,      \* bytes of message given to the encrypting transform
  encrypting,   \* [state, buffer, blocks pushed and not yet taken, count]
  hashing,      \* the ChecksumTransform: what it has hashed; the checksum, when flushed
  wire,         \* what the connection has to carry, and how much has arrived
  decrypting,   \* [state, blockSize, buffer, output]
  folding       \* the XorTransform, and the chunks it will get

cipherVars == <<message, blockSize, written, encrypting, hashing, wire, decrypting>>
vars == <<cipherVars, crc, folding, xorVars>>

Key == "receiver"

(* Bound: one of the three has input in a behaviour, and the block sizes   *)
(* vary only where they are used.                                          *)
Init ==
  /\ XorInit /\ CrcInit
  /\ \E n \in Lengths : message = [i \in 1 .. n |-> <<"byte", i>>]
  /\ blockSize \in BlockSizes
  /\ written = 0
  /\ encrypting = [state |-> "open", buffer |-> <<>>, blocks |-> <<>>, count |-> 0]
  /\ hashing = [state |-> "open", seen |-> <<>>]
  /\ wire = [state |-> "open", sent |-> <<>>, arrived |-> 0]
  /\ \E d \in Mismatch : decrypting = [state |-> "open", blockSize |-> blockSize + d,
                                       buffer |-> <<>>, output |-> <<>>]
  /\ \E p \in XorPlans : folding = [plan |-> p, given |-> <<>>, first |-> TRUE,
                                    chunk |-> <<>>, state |-> "open"]
  /\ LET noFold == folding.plan = <<>>
         noXor  == \A s \in Sources : plans[s] = <<>>
     IN  \/ noFold /\ noXor
         \/ /\ message = <<>> /\ (noFold \/ noXor)
            /\ decrypting.blockSize = Max(BlockSizes) /\ blockSize = Max(BlockSizes)

-----------------------------------------------------------------------------
CapacityPerBlock ==
  blockSize - (ComputeEncryptedLengthFromDataLength(blockSize, "basic") - blockSize)

Block(data, k) == EncryptSingle("basic", k, Key, data, <<>>)

(* All complete blocks are encrypted at once; all have the same size, so   *)
(* the first one is refused or none is.  Without room for a byte the loop  *)
(* ends at an empty block; with a capacity below zero it first pushes one  *)
(* of all but the last bytes.                                              *)
EncryptWrite(n) ==
  LET buffer == encrypting.buffer \o SubSeq(message, written + 1, written + n)
      size   == CapacityPerBlock
      full   == IF size > 0 THEN Len(buffer) \div size ELSE 1
      block(k) == Block(SubSeq(buffer, (k - 1) * size + 1, k * size), encrypting.count + k)
      spill  == Block(SubSeq(buffer, 1, Len(buffer) + size), encrypting.count + 1)
  IN  /\ encrypting.state = "open" /\ n \in 1 .. MaxWrite /\ written + n <= Len(message)
      /\ written' = written + n
      /\ IF full > 0 /\ ~block(1).ok
         THEN encrypting' = [encrypting EXCEPT !.state = "failed",
                !.blocks = IF size < 0 /\ spill.ok THEN Append(@, spill.cells) ELSE @,
                !.count = IF size < 0 /\ spill.ok THEN @ + 1 ELSE @]
         ELSE encrypting' = [encrypting EXCEPT
                !.buffer = SubSeq(buffer, full * size + 1, Len(buffer)),
                !.blocks = @ \o [k \in 1 .. full |-> block(k).cells],
                !.count = @ + full]
      /\ UNCHANGED <<message, blockSize, hashing, wire, decrypting, crc, folding, xorVars>>

(* Mistake the runs must notice: nothing is left to flush.                 *)
EncryptFlushNothing ==
  /\ encrypting.state = "open" /\ written = Len(message)
  /\ encrypting' = [encrypting EXCEPT !.state = "flushed", !.buffer = <<>>]
  /\ UNCHANGED <<message, blockSize, written, hashing, wire, decrypting, crc, folding, xorVars>>

EncryptFlush ==
  LET rest == Block(encrypting.buffer, encrypting.count + 1)
  IN  /\ encrypting.state = "open" /\ written = Len(message)
      /\ encrypting' =
           IF encrypting.buffer = <<>> THEN [encrypting EXCEPT !.state = "flushed"]
           ELSE IF rest.ok
                THEN [encrypting EXCEPT !.state = "flushed", !.buffer = <<>>,
                                        !.blocks = Append(@, rest.cells), !.count = @ + 1]
                ELSE [encrypting EXCEPT !.state = "failed"]
      /\ UNCHANGED <<message, blockSize, written, hashing, wire, decrypting, crc, folding, xorVars>>

(* Mistake the runs must notice: the first chunk is all that is hashed.    *)
ChecksumOfFirst ==
  /\ encrypting.blocks # <<>> /\ hashing.state = "open"
  /\ hashing' = [hashing EXCEPT !.seen = IF @ = <<>> THEN Head(encrypting.blocks) ELSE @]
  /\ wire' = [wire EXCEPT !.sent = @ \o Head(encrypting.blocks)]
  /\ encrypting' = [encrypting EXCEPT !.blocks = Tail(@)]
  /\ UNCHANGED <<message, blockSize, written, decrypting, crc, folding, xorVars>>

(* ChecksumTransform passes on what it hashes.                             *)
Checksum ==
  /\ encrypting.blocks # <<>> /\ hashing.state = "open"
  /\ hashing' = [hashing EXCEPT !.seen = @ \o Head(encrypting.blocks)]
  /\ wire' = [wire EXCEPT !.sent = @ \o Head(encrypting.blocks)]
  /\ encrypting' = [encrypting EXCEPT !.blocks = Tail(@)]
  /\ UNCHANGED <<message, blockSize, written, decrypting, crc, folding, xorVars>>

ChecksumFlush ==
  /\ encrypting.state = "flushed" /\ encrypting.blocks = <<>> /\ hashing.state = "open"
  /\ hashing' = [hashing EXCEPT !.state = "flushed"]
  /\ UNCHANGED <<message, blockSize, written, encrypting, wire, decrypting, crc, folding, xorVars>>

-----------------------------------------------------------------------------
Undelivered == SubSeq(wire.sent, wire.arrived + 1, Len(wire.sent))

(* Mistake the runs must notice: the rest of a piece is not kept.          *)
OpenedForgettingRest(buffer, size) ==
  LET full == Len(buffer) \div size
      d(k) == DecryptWithHeaderEx("basic", Key, SubSeq(buffer, (k - 1) * size + 1, k * size), 0, NoLength)
      good == \A k \in 1 .. full : d(k).ok
  IN  [ok |-> TRUE,
       output |-> IF good THEN FlattenSeq([k \in 1 .. full |-> d(k).decrypted]) ELSE <<>>,
       rest |-> <<>>]

(* The complete blocks in a buffer, opened up to the first that is not     *)
(* for this key.                                                           *)
Opened(buffer, size) ==
  LET full == Len(buffer) \div size
      open[k \in 0 .. full] ==
        IF k = 0 THEN [ok |-> TRUE, output |-> <<>>]
        ELSE LET before == open[k - 1]
                 d == DecryptWithHeaderEx("basic", Key,
                        SubSeq(buffer, (k - 1) * size + 1, k * size), 0, NoLength)
             IN  IF ~before.ok THEN before
                 ELSE IF d.ok THEN [ok |-> TRUE, output |-> before.output \o d.decrypted]
                 ELSE [before EXCEPT !.ok = FALSE]
  IN  [ok |-> open[full].ok, output |-> open[full].output,
       rest |-> SubSeq(buffer, full * size + 1, Len(buffer))]

DecryptPiece(n) ==
  LET piece == Slice(Undelivered, 0, n)
      o == Opened(decrypting.buffer \o piece, decrypting.blockSize)
  IN  /\ wire.state = "open" /\ decrypting.state = "open" /\ n \in Pieces /\ Undelivered # <<>>
      /\ wire' = [wire EXCEPT !.arrived = @ + Len(piece)]
      /\ decrypting' = [decrypting EXCEPT !.buffer = o.rest, !.output = @ \o o.output,
                                          !.state = IF o.ok THEN "open" ELSE "failed"]
      /\ CrcData(piece)
      /\ UNCHANGED <<message, blockSize, written, encrypting, hashing, folding, xorVars>>

(* The connection breaks off: the decrypting transform sees an end.        *)
Break ==
  /\ wire.state = "open" /\ message # <<>>
  /\ wire' = [wire EXCEPT !.state = "broken"]
  /\ UNCHANGED <<message, blockSize, written, encrypting, hashing, decrypting, crc, folding, xorVars>>

DecryptFlush ==
  LET d == DecryptWithHeaderEx("basic", Key, decrypting.buffer, 0, NoLength)
  IN  /\ decrypting.state = "open"
      /\ \/ wire.state = "broken"
         \/ hashing.state = "flushed" /\ Undelivered = <<>>
      /\ decrypting' =
           IF decrypting.buffer = <<>> THEN [decrypting EXCEPT !.state = "flushed"]
           ELSE IF d.ok
                THEN [decrypting EXCEPT !.state = "flushed", !.buffer = <<>>,
                                        !.output = @ \o d.decrypted]
                ELSE [decrypting EXCEPT !.state = "failed"]
      /\ UNCHANGED <<message, blockSize, written, encrypting, hashing, wire, crc, folding, xorVars>>

(* The CrcService sees the end of what it reads, or an error.              *)
SumUp ==
  /\ wire.state = "broken" \/ (hashing.state = "flushed" /\ Undelivered = <<>>)
  /\ CrcEnd \/ (wire.state = "broken" /\ CrcError)
  /\ UNCHANGED <<cipherVars, folding, xorVars>>

-----------------------------------------------------------------------------
(* XorTransform: the first chunk is kept, not copied, and the others are   *)
(* added to it; bytes behind its end are assigned to nothing.              *)
FoldedChunk(k) == [i \in 1 .. folding.plan[k] |-> {<<k, i>>}]

FoldWrite ==
  LET k == Len(folding.given) + 1
      chunk == FoldedChunk(k)
      sum == [i \in DOMAIN folding.chunk |->
                IF i \in DOMAIN chunk THEN folding.chunk[i] \union chunk[i] ELSE folding.chunk[i]]
  IN  /\ folding.state = "open" /\ k <= Len(folding.plan)
      /\ folding' = IF folding.first
                    THEN [folding EXCEPT !.first = FALSE, !.chunk = chunk,
                                         !.given = <<chunk>>]
                    ELSE [folding EXCEPT !.chunk = sum, !.given = Append(@, chunk)]
      /\ UNCHANGED <<cipherVars, crc, xorVars>>

FoldFlush ==
  /\ folding.state = "open" /\ Len(folding.given) = Len(folding.plan)
  /\ folding' = [folding EXCEPT !.state = "flushed"]
  /\ UNCHANGED <<cipherVars, crc, xorVars>>

Pipeline ==
  \/ \E n \in 1 .. MaxWrite : EncryptWrite(n)
  \/ EncryptFlush
  \/ Checksum
  \/ ChecksumFlush
  \/ \E n \in Pieces : DecryptPiece(n)
  \/ DecryptFlush

Next ==
  \/ Pipeline
  \/ Break
  \/ SumUp
  \/ FoldWrite
  \/ FoldFlush
  \/ XorNext /\ UNCHANGED <<cipherVars, crc, folding>>

Spec == Init /\ [][Next]_vars

(* The event loop goes on as long as a transform has something to do; no   *)
(* transform is favoured, and nothing makes the connection break off.      *)
Fairness == WF_vars(Pipeline)

FairSpec == Spec /\ Fairness

-----------------------------------------------------------------------------
TypeOK ==
  /\ XorTypeOK
  /\ written \in 0 .. Len(message)
  /\ encrypting.state \in {"open", "flushed", "failed"}
  /\ decrypting.state \in {"open", "flushed", "failed"}
  /\ wire.state \in {"open", "broken"}

(* Whatever sizes the message is written and delivered in, wherever the    *)
(* connection breaks off, and also with a block size on the other side     *)
(* that is not the one of this side: the output is a beginning of the      *)
(* message.                                                                *)
OutputIsPrefix == IsPrefix(decrypting.output, message)

(* A connection that breaks off between two blocks is an end like any      *)
(* other for the decrypting transform: only the checksum, compared with    *)
(* what has arrived, tells that the message is whole.  A sum of the        *)
(* CrcService tells it as well, in whatever pieces it got the bytes.       *)
ChecksumTellsWhole ==
  LET arrived == Slice(wire.sent, 0, wire.arrived)
      own     == <<CrcOfBuffer(hashing.seen)>>
      whole   == decrypting.output = message
  IN  /\ SumsAgree(arrived, own)
      /\ decrypting.state = "flushed" /\ hashing.state = "flushed" =>
           /\ hashing.seen = arrived => whole
           /\ crc.state = "resolved" /\ VerifyCrcAsync(RunningValue, own) => whole

(* Unless the connection breaks off, the block sizes differ or a block has *)
(* no room for data or too much, the whole message comes out.              *)
EventuallyWhole ==
  /\ blockSize = decrypting.blockSize
  /\ CapacityPerBlock \in 1 .. MaxDataSize
  => <>(wire.state = "broken" \/ (decrypting.state = "flushed" /\ decrypting.output = message))

(* The XorTransform pushes the XOR of all chunks, as long as the first     *)
(* one: what longer chunks have behind its end is lost.                    *)
FoldOfChunks ==
  folding.given # <<>> =>
    folding.chunk = [i \in DOMAIN folding.given[1] |->
      UNION {folding.given[k][i] : k \in {j \in DOMAIN folding.given : i \in DOMAIN folding.given[j]}}]

(* Both forms of XOR give the XOR of what they were given, and the form of *)
(* several sources neither withholds any of it nor ends without a cause:   *)
(* see XorOfSources, EndsForWant and FoldOfChunks for what it still loses. *)
XorOfAll == [](XorOfSources /\ FoldOfChunks) /\ EndsForWant
=============================================================================
