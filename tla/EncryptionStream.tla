--------------------------- MODULE EncryptionStream ---------------------------
(***************************************************************************)
(* EncryptionStream and ChunkProcessor of src/services: a message that     *)
(* comes in pieces is cut into chunks of equal size, each encrypted by     *)
(* itself and numbered, and the chunks are decrypted one by one at the     *)
(* other end.  Both ends are async generators: between two steps of one,   *)
(* the source, the transport, the other end and an AbortController run.    *)
(*                                                                         *)
(* A generator looks at its signal, awaits the processor and then yields,  *)
(* so that a signal may be aborted, or anything else happen, in between.   *)
(*                                                                         *)
(* Bytes are their positions in the message: a chunk holds the bytes from  *)
(* from + 1 to to.  Encryption is the identity on them, and a chunk that   *)
(* arrives is a chunk that was sent: what a chunk cipher guarantees is     *)
(* left to it, what the stream adds is modelled.  Between the two ends the *)
(* chunks are out of this code's hands: stored, sent, cut off, or given to *)
(* the decrypting end twice or in another order.                           *)
(***************************************************************************)
EXTENDS Integers, SequencesExt

CONSTANTS
  Lengths,      \* lengths of messages
  Pieces,       \* sizes of the pieces the source gives
  ChunkSize,
  MaxPiece,     \* the size above which a piece is refused
  MayAbort,     \* may a caller abort an end?
  MaxFaults     \* bound: chunks lost, repeated or moved between the ends

ASSUME SizesAssumption ==
  /\ Lengths \subseteq Nat
  /\ Pieces \subseteq Nat
  /\ ChunkSize \in Nat \ {0}
  /\ MaxPiece \in Nat
ASSUME BoundsAssumption == MayAbort \in BOOLEAN /\ MaxFaults \in Nat

VARIABLES
  multiple,    \* is it encrypted for several recipients?
  length,      \* of this message
  read,        \* bytes taken from the source
  sender,      \* state of the encrypting generator
  chunks,      \* the chunk objects yielded
  channel,     \* chunk data on its way
  faults,
  receiver,    \* state of the decrypting generator
  held,        \* the chunk it has in hand
  expected,    \* the index it expects
  given,       \* what it has yielded: from and to of each chunk
  sAbort, rAbort  \* the signals of the two ends

vars == <<multiple, length, read, sender, chunks, channel, faults,
          receiver, held, expected, given, sAbort, rAbort>>

(* A chunk's header has its index and the last flag; isLast is a property  *)
(* of the object that is yielded, not of the data.                         *)
Chunk == [index : Nat, from : Nat, to : Nat, flag : BOOLEAN, isLast : BOOLEAN]
Data  == [index : Nat, from : Nat, to : Nat, flag : BOOLEAN]

DataOf(c) == [index |-> c.index, from |-> c.from, to |-> c.to, flag |-> c.flag]

(* Bytes encrypted so far, and bytes waiting in the buffer. *)
Sent     == IF chunks = <<>> THEN 0 ELSE Last(chunks).to
Buffered == read - Sent

(* Where a generator is: between two chunks (at an await of the source or  *)
(* at its yield), at the await of the processor with a full chunk or with  *)
(* the rest, or past its end.                                              *)
SenderStates   == {"open", "full", "rest", "ended", "threw"}
ReceiverStates == {"open", "decrypting", "ended", "last", "threw"}

TypeOK ==
  /\ multiple \in BOOLEAN
  /\ length \in Nat
  /\ read \in 0 .. length
  /\ Buffered \in Nat
  /\ sender \in SenderStates
  /\ chunks \in Seq(Chunk)
  /\ channel \in Seq(Data)
  /\ faults \in Nat
  /\ receiver \in ReceiverStates
  /\ held \in Seq(Data)
  /\ expected \in Nat
  /\ given \in Seq([from : Nat, to : Nat])
  /\ sAbort \in BOOLEAN /\ rAbort \in BOOLEAN

Init ==
  /\ multiple \in BOOLEAN
  /\ length \in Lengths
  /\ read = 0
  /\ sender = "open"
  /\ chunks = <<>>
  /\ channel = <<>>
  /\ faults = 0
  /\ receiver = "open"
  /\ held = <<>>
  /\ expected = 0
  /\ given = <<>>
  /\ sAbort = FALSE /\ rAbort = FALSE

senderVars   == <<read, sender, chunks>>
receiverVars == <<receiver, held, expected, given>>

-----------------------------------------------------------------------------
(* The loop has drained the buffer to less than a chunk and awaits the     *)
(* source, which gives a piece.                                            *)
TakePiece(size) ==
  /\ sender = "open"
  /\ Buffered < ChunkSize
  /\ read + size <= length
  /\ IF sAbort \/ size > MaxPiece
     THEN sender' = "threw" /\ UNCHANGED read
     ELSE read' = read + size /\ UNCHANGED sender
  /\ UNCHANGED <<multiple, length, chunks, channel, faults, sAbort, rAbort, receiverVars>>

(* The signal is looked at, the chunk cut off and given to the processor.  *)
EncryptFull ==
  /\ sender = "open"
  /\ Buffered >= ChunkSize
  /\ sender' = IF sAbort THEN "threw" ELSE "full"
  /\ UNCHANGED <<multiple, length, read, chunks, channel, faults, sAbort, rAbort, receiverVars>>

(* Mistakes the runs must notice: the rest is dropped; the signal is not   *)
(* looked at.                                                              *)
EncryptRestDropping ==
  /\ ~multiple
  /\ sender = "open"
  /\ read = length
  /\ Buffered < ChunkSize
  /\ sender' = "ended"
  /\ UNCHANGED <<multiple, length, read, chunks, channel, faults, sAbort, rAbort, receiverVars>>

EncryptRestUnaborted ==
  /\ ~multiple
  /\ sender = "open"
  /\ read = length
  /\ Buffered < ChunkSize
  /\ sender' = IF Buffered > 0 THEN "rest" ELSE "ended"
  /\ UNCHANGED <<multiple, length, read, chunks, channel, faults, sAbort, rAbort, receiverVars>>

(* The source ends.  What is left becomes the last chunk; with nothing     *)
(* left, the object yielded last is marked, its data long gone.            *)
EncryptRest ==
  /\ ~multiple
  /\ sender = "open"
  /\ read = length
  /\ Buffered < ChunkSize
  /\ sender' = IF Buffered = 0 THEN "ended" ELSE IF sAbort THEN "threw" ELSE "rest"
  /\ chunks' = IF Buffered > 0 \/ chunks = <<>> THEN chunks
               ELSE [chunks EXCEPT ![Len(chunks)].isLast = TRUE]
  /\ UNCHANGED <<multiple, length, read, channel, faults, sAbort, rAbort, receiverVars>>

(* For several recipients no object is marked.                             *)
EncryptRestMultiple ==
  /\ multiple
  /\ sender = "open"
  /\ read = length
  /\ Buffered < ChunkSize
  /\ sender' = IF Buffered = 0 THEN "ended" ELSE IF sAbort THEN "threw" ELSE "rest"
  /\ UNCHANGED <<multiple, length, read, chunks, channel, faults, sAbort, rAbort, receiverVars>>

(* The processor returns, and yield: the consumer has the chunk's data at  *)
(* once.                                                                   *)
Yield(size, last) ==
  LET chunk == [index |-> Len(chunks), from |-> Sent, to |-> Sent + size,
                flag |-> last, isLast |-> last]
  IN  /\ chunks' = Append(chunks, chunk)
      /\ channel' = Append(channel, DataOf(chunk))
      /\ UNCHANGED <<multiple, length, read, faults, sAbort, rAbort, receiverVars>>

(* Mistake: a chunk that empties the buffer is taken for the last one. *)
YieldFullFlagging ==
  sender = "full" /\ Yield(ChunkSize, Buffered = ChunkSize) /\ sender' = "open"

YieldFull == sender = "full" /\ Yield(ChunkSize, FALSE) /\ sender' = "open"

YieldRest == sender = "rest" /\ Yield(Buffered, TRUE) /\ sender' = "ended"

-----------------------------------------------------------------------------
(* A chunk arrives, the signal is looked at, and the processor decrypts.   *)
DecryptChunk ==
  /\ receiver = "open"
  /\ channel # <<>>
  /\ channel' = Tail(channel)
  /\ IF rAbort
     THEN receiver' = "threw" /\ UNCHANGED held
     ELSE receiver' = "decrypting" /\ held' = <<Head(channel)>>
  /\ UNCHANGED <<multiple, length, faults, expected, given, sAbort, rAbort, senderVars>>

(* Mistake: the index is not compared. *)
GiveDataUnordered ==
  LET data == Head(held)
  IN  /\ receiver = "decrypting"
      /\ held' = <<>>
      /\ expected' = expected + 1
      /\ given' = Append(given, [from |-> data.from, to |-> data.to])
      /\ receiver' = IF data.flag THEN "last" ELSE "open"
      /\ UNCHANGED <<multiple, length, channel, faults, sAbort, rAbort, senderVars>>

(* The processor returns: it must be the chunk expected; the last one ends *)
(* the stream, whatever else the source holds.                             *)
GiveData ==
  LET data == Head(held)
  IN  /\ receiver = "decrypting"
      /\ held' = <<>>
      /\ IF data.index # expected
         THEN receiver' = "threw" /\ UNCHANGED <<expected, given>>
         ELSE /\ expected' = expected + 1
              /\ given' = Append(given, [from |-> data.from, to |-> data.to])
              /\ receiver' = IF data.flag THEN "last" ELSE "open"
      /\ UNCHANGED <<multiple, length, channel, faults, sAbort, rAbort, senderVars>>

(* The source of the decrypting end ends, however the encrypting end did:  *)
(* no last chunk is asked for.                                             *)
EndOfInput ==
  /\ receiver = "open"
  /\ sender \in {"ended", "threw"}
  /\ channel = <<>>
  /\ receiver' = "ended"
  /\ UNCHANGED <<multiple, length, channel, faults, sAbort, rAbort, senderVars, held, expected, given>>

-----------------------------------------------------------------------------
AbortSender ==
  /\ MayAbort /\ ~sAbort
  /\ sAbort' = TRUE
  /\ UNCHANGED <<multiple, length, channel, faults, rAbort, senderVars, receiverVars>>

AbortReceiver ==
  /\ MayAbort /\ ~rAbort
  /\ rAbort' = TRUE
  /\ UNCHANGED <<multiple, length, channel, faults, sAbort, senderVars, receiverVars>>

(* What may happen to chunks between the ends. *)
Fault(after) ==
  /\ faults < MaxFaults
  /\ faults' = faults + 1
  /\ channel' = after
  /\ UNCHANGED <<multiple, length, sAbort, rAbort, senderVars, receiverVars>>

Lose(i)   == Fault(RemoveAt(channel, i))
Repeat(i) == Fault(InsertAt(channel, i, channel[i]))
Move(i, j) == Fault(InsertAt(RemoveAt(channel, i), j, channel[i]))

Encrypt == \/ \E size \in Pieces : TakePiece(size)
           \/ EncryptFull \/ YieldFull \/ YieldRest

Decrypt == DecryptChunk \/ GiveData \/ EndOfInput

EncryptStream         == ~multiple /\ (Encrypt \/ EncryptRest)
EncryptStreamMultiple == multiple /\ (Encrypt \/ EncryptRestMultiple)
DecryptStream         == ~multiple /\ Decrypt
DecryptStreamMultiple == multiple /\ Decrypt

Next ==
  \/ EncryptStream \/ EncryptStreamMultiple
  \/ DecryptStream \/ DecryptStreamMultiple
  \/ AbortSender
  \/ AbortReceiver
  \/ \E i, j \in DOMAIN channel : Lose(i) \/ Repeat(i) \/ (j < i /\ Move(i, j))

Spec == Init /\ [][Next]_vars

(* The source gives its bytes and the consumer asks for the next chunk.    *)
FairSpec ==
  /\ Spec
  /\ WF_vars(\E size \in Pieces \ {0} : TakePiece(size))
  /\ WF_vars(EncryptFull) /\ WF_vars(YieldFull)
  /\ WF_vars(EncryptRest) /\ WF_vars(EncryptRestMultiple) /\ WF_vars(YieldRest)
  /\ WF_vars(DecryptChunk) /\ WF_vars(GiveData) /\ WF_vars(EndOfInput)

-----------------------------------------------------------------------------
(* What the receiver has is the beginning of the message: contiguous, from *)
(* its first byte, whatever happens to the chunks between the ends.        *)
GivenIsPrefix ==
  \A k \in DOMAIN given :
    given[k].from = (IF k = 1 THEN 0 ELSE given[k - 1].to) /\ given[k].to <= length

BytesGiven == IF given = <<>> THEN 0 ELSE Last(given).to

(* A receiver that was told of the end by a chunk has the whole message,   *)
(* even over a faulty transport.                                           *)
LastMeansWhole == receiver = "last" => BytesGiven = length

(* After its signal is aborted an end lets no data through but the chunk   *)
(* the processor has in hand at that moment: the signal is not looked at   *)
(* again after the await.                                                  *)
AbortStops ==
  [][/\ sAbort /\ sender \notin {"full", "rest"} =>
          Len(chunks') = Len(chunks) /\ sender' \notin {"full", "rest"}
     /\ rAbort /\ receiver # "decrypting" =>
          given' = given /\ receiver' # "decrypting"]_vars

(* A stream that nobody aborts and nothing happens to is delivered to its  *)
(* end.                                                                    *)
EventuallyWhole ==
  <>(\/ BytesGiven = length /\ receiver \in {"ended", "last"}
     \/ faults > 0 \/ sAbort \/ rAbort)

Promise == INSTANCE Delivery WITH
  given <- BytesGiven,
  ended <- \/ receiver = "last"
           \/ receiver = "ended" /\ faults = 0 /\ sender = "ended"

(* The stream implements the delivery: a flag tells of the end even over a *)
(* faulty transport, the end of the input only over a reliable one.        *)
ImplementsDelivery == Promise!Spec
=============================================================================
