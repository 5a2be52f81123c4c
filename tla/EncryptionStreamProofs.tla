------------------------ MODULE EncryptionStreamProofs ------------------------
(***************************************************************************)
(* Theorems about EncryptionStream, for all lengths, piece and chunk sizes *)
(* and any number of faults between the ends.                              *)
(*                                                                         *)
(* The receiver checks nothing but the index, so its safety rests on what  *)
(* an index means: the chunks yielded are contiguous and numbered in       *)
(* order, the last flag is on the chunk that reaches the end of the        *)
(* message and on no other, and whatever is on its way is the data of some *)
(* chunk that was yielded.  Then a chunk with the index that is expected   *)
(* is the chunk that follows the ones already given.                       *)
(***************************************************************************)
EXTENDS EncryptionStream, SequenceTheorems, TLAPS

(* Chunks are numbered from zero, each begins where the one before ended.  *)
Contiguous ==
  \A k \in 1 .. Len(chunks) :
    /\ chunks[k].index = k - 1
    /\ chunks[k].from = (IF k = 1 THEN 0 ELSE chunks[k - 1].to)
    /\ chunks[k].to <= length

(* Only the chunk that ends the message carries the flag. *)
FlagEndsMessage ==
  \A k \in 1 .. Len(chunks) :
    chunks[k].flag => k = Len(chunks) /\ sender = "ended" /\ chunks[k].to = length

(* What was found before the await of the processor holds after it.        *)
ReadyToYield ==
  /\ sender = "full" => ChunkSize <= Buffered
  /\ sender = "rest" => read = length

Yielded == {DataOf(chunks[k]) : k \in 1 .. Len(chunks)}

OnItsWay ==
  /\ channel \in Seq(Yielded)
  /\ held \in Seq(Yielded)
  /\ receiver = "decrypting" => held # <<>>

(* The receiver has been given the first chunks, in order. *)
GivenInOrder ==
  /\ expected = Len(given)
  /\ Len(given) <= Len(chunks)
  /\ \A k \in 1 .. Len(given) :
       given[k] = [from |-> chunks[k].from, to |-> chunks[k].to]

LastGiven == receiver = "last" => given # <<>> /\ given[Len(given)].to = length

Inv ==
  /\ TypeOK
  /\ Contiguous
  /\ FlagEndsMessage
  /\ ReadyToYield
  /\ OnItsWay
  /\ GivenInOrder
  /\ LastGiven

-----------------------------------------------------------------------------
(* Where the next chunk begins, with Last replaced by its definition.      *)
LEMMA SentIs ==
  ASSUME TypeOK
  PROVE  /\ Len(chunks) \in Nat
         /\ Sent = IF Len(chunks) = 0 THEN 0 ELSE chunks[Len(chunks)].to
         /\ Sent \in Nat
<1>1. chunks \in Seq(Chunk)
  BY DEF TypeOK
<1>2. Len(chunks) \in Nat /\ (chunks = <<>> <=> Len(chunks) = 0)
  BY <1>1, EmptySeq
<1>3. chunks # <<>> => chunks[Len(chunks)] \in Chunk
  BY <1>1, <1>2, ElementOfSeq
<1> QED
  BY <1>2, <1>3 DEF Sent, Last, Chunk

(* The faults between the ends only rearrange what is on its way.          *)
LEMMA FaultsRearrange ==
  ASSUME NEW S, channel \in Seq(S), NEW i \in DOMAIN channel, NEW j \in DOMAIN channel,
         Lose(i) \/ Repeat(i) \/ Move(i, j)
  PROVE  channel' \in Seq(S)
<1> DEFINE n == Len(channel)
<1>1. n \in Nat /\ i \in 1 .. n /\ j \in 1 .. n /\ \A k \in 1 .. n : channel[k] \in S
  BY LenProperties, ElementOfSeq
<1>2. RemoveAt(channel, i) \in Seq(S) /\ Len(RemoveAt(channel, i)) = n - 1
  <2> DEFINE a == SubSeq(channel, 1, i - 1)
             b == SubSeq(channel, i + 1, n)
  <2>1. a \in Seq(S) /\ Len(a) = i - 1
    BY <1>1, SubSeqProperties
  <2>2. b \in Seq(S) /\ Len(b) = n - i
    BY <1>1, SubSeqProperties
  <2>3. RemoveAt(channel, i) = a \o b
    BY DEF RemoveAt
  <2>4. a \o b \in Seq(S) /\ Len(a \o b) = Len(a) + Len(b)
    BY <2>1, <2>2, ConcatProperties
  <2> HIDE DEF a, b
  <2> QED
    BY <1>1, <2>1, <2>2, <2>3, <2>4
<1>3. ASSUME NEW s \in Seq(S), NEW k \in 1 .. Len(s) + 1, NEW e \in S
      PROVE  InsertAt(s, k, e) \in Seq(S)
  <2>1. Len(s) \in Nat /\ \A m \in 1 .. Len(s) : s[m] \in S
    BY LenProperties, ElementOfSeq
  <2>2. /\ k \in Int /\ k - 1 \in Int /\ Len(s) \in Int
        /\ \A m \in 1 .. k - 1 : s[m] \in S
        /\ \A m \in k .. Len(s) : s[m] \in S
    BY <2>1
  <2>5. SubSeq(s, 1, k - 1) \in Seq(S)
    BY <2>2, SubSeqProperties
  <2>6. SubSeq(s, k, Len(s)) \in Seq(S)
    BY <2>2, SubSeqProperties
  <2>3. <<e>> \in Seq(S)
    OBVIOUS
  <2>4. SubSeq(s, 1, k - 1) \o <<e>> \in Seq(S)
    BY <2>3, <2>5, ConcatProperties
  <2> QED
    BY <2>4, <2>6, ConcatProperties DEF InsertAt
<1>4. CASE Lose(i)
  BY <1>2, <1>4 DEF Lose, Fault
<1>5. CASE Repeat(i)
  <2>1. i \in 1 .. Len(channel) + 1 /\ channel[i] \in S
    BY <1>1
  <2> QED
    BY <1>3, <1>5, <2>1 DEF Repeat, Fault
<1>6. CASE Move(i, j)
  <2>1. j \in 1 .. Len(RemoveAt(channel, i)) + 1 /\ channel[i] \in S
    BY <1>1, <1>2
  <2> QED
    BY <1>2, <1>3, <1>6, <2>1 DEF Move, Fault
<1> QED
  BY <1>4, <1>5, <1>6

-----------------------------------------------------------------------------
(* A chunk that is yielded continues the ones before, and leaves what is   *)
(* on its way and what was given in place.                                 *)
LEMMA YieldKeeps ==
  ASSUME Inv, sender \in {"full", "rest"},
         NEW size \in Nat, NEW last \in BOOLEAN, Yield(size, last), size <= Buffered,
         sender' \in {"open", "ended"},
         last => sender' = "ended" /\ size = Buffered /\ read = length
  PROVE  Inv'
<1> DEFINE n == Len(chunks)
           chunk == [index |-> n, from |-> Sent, to |-> Sent + size,
                     flag |-> last, isLast |-> last]
<1>1. /\ n \in Nat /\ Sent \in Nat /\ length \in Nat /\ read \in 0 .. length
      /\ Sent = IF n = 0 THEN 0 ELSE chunks[n].to
  BY SentIs DEF Inv, TypeOK
<1>2. Sent + size <= length
  BY <1>1 DEF Buffered
<1>3. chunk \in Chunk
  BY <1>1 DEF Chunk
<1>4. /\ chunks' = Append(chunks, chunk)
      /\ channel' = Append(channel, DataOf(chunk))
      /\ UNCHANGED <<multiple, length, read, faults, sAbort, rAbort, receiver, held, expected, given>>
  BY DEF Yield, receiverVars
<1>5. /\ chunks' \in Seq(Chunk)
      /\ Len(chunks') = n + 1
      /\ chunks'[n + 1] = chunk
      /\ \A k \in 1 .. n : chunks'[k] = chunks[k]
  BY <1>1, <1>3, <1>4 DEF Inv, TypeOK
<1>6. chunks' # <<>> /\ Sent' = Sent + size
  BY <1>1, <1>5 DEF Sent, Last
<1>7. Buffered' \in Nat
  <2>1. Sent + size <= read
    BY <1>1 DEF Buffered
  <2>2. \A r, s \in Nat : s <= r => r - s \in Nat
    OBVIOUS
  <2>3. read \in Nat /\ Sent + size \in Nat /\ read' = read
    BY <1>1, <1>4
  <2> QED
    BY <1>6, <2>1, <2>2, <2>3 DEF Buffered
<1>8. Contiguous'
  <2> SUFFICES ASSUME NEW k \in 1 .. n + 1
               PROVE  /\ chunks'[k].index = k - 1
                      /\ chunks'[k].from = (IF k = 1 THEN 0 ELSE chunks'[k - 1].to)
                      /\ chunks'[k].to <= length
    BY <1>4, <1>5 DEF Contiguous
  <2>1. CASE k = n + 1
    BY <2>1, <1>1, <1>2, <1>5
  <2>2. CASE k \in 1 .. n
    BY <2>2, <1>1, <1>5 DEF Inv, Contiguous
  <2> QED
    BY <2>1, <2>2, <1>1
<1>9. FlagEndsMessage'
  <2> SUFFICES ASSUME NEW k \in 1 .. n + 1, chunks'[k].flag
               PROVE  k = n + 1 /\ sender' = "ended" /\ chunks'[k].to = length
    BY <1>4, <1>5 DEF FlagEndsMessage
  <2>1. CASE k = n + 1
    BY <2>1, <1>1, <1>5 DEF Buffered
  <2>2. CASE k \in 1 .. n
    BY <2>2, <1>5 DEF Inv, FlagEndsMessage
  <2> QED
    BY <2>1, <2>2, <1>1
<1>10. DataOf(chunk) \in Data
  BY <1>3 DEF DataOf, Data, Chunk
<1>11. OnItsWay'
  <2>1. Yielded \subseteq Yielded'
    BY <1>1, <1>5 DEF Yielded
  <2>2. DataOf(chunk) \in Yielded'
    BY <1>1, <1>5 DEF Yielded
  <2>3. channel \in Seq(Yielded') /\ held \in Seq(Yielded')
    BY <2>1, SeqMonotonic DEF Inv, OnItsWay
  <2>4. channel' \in Seq(Yielded')
    BY <2>2, <2>3, <1>4, AppendProperties
  <2>5. held' \in Seq(Yielded') /\ (receiver' = "decrypting" => held' # <<>>)
    BY <2>3, <1>4 DEF Inv, OnItsWay
  <2> QED
    BY <2>4, <2>5 DEF OnItsWay
<1>12. GivenInOrder'
  <2>1. Len(given) \in Nat
    BY DEF Inv, TypeOK
  <2> QED
    BY <2>1, <1>1, <1>4, <1>5 DEF Inv, GivenInOrder
<1>13. ReadyToYield' /\ LastGiven'
  BY <1>4 DEF Inv, ReadyToYield, LastGiven
<1>14. TypeOK'
  <2>1. channel' \in Seq(Data)
    BY <1>4, <1>10 DEF Inv, TypeOK
  <2>2. sender' \in SenderStates
    BY DEF SenderStates
  <2> QED
    BY <2>1, <2>2, <1>4, <1>5, <1>7 DEF Inv, TypeOK
<1> QED
  BY <1>8, <1>9, <1>11, <1>12, <1>13, <1>14 DEF Inv

(* Nothing is given, nothing under way and nothing yielded at first.       *)
LEMMA InitInv == Init => Inv
<1> SUFFICES ASSUME Init PROVE Inv
  OBVIOUS
<1>1. chunks = <<>> /\ Len(chunks) = 0 /\ Sent = 0 /\ Buffered = 0
  BY DEF Init, Sent, Buffered
<1>2. length \in Nat
  BY SizesAssumption DEF Init
<1>3. TypeOK
  <2>1. /\ chunks \in Seq(Chunk)
        /\ channel \in Seq(Data)
        /\ held \in Seq(Data)
        /\ given \in Seq([from : Nat, to : Nat])
    BY EmptySeq DEF Init
  <2>2. read \in 0 .. length /\ Buffered \in Nat
    BY <1>1, <1>2 DEF Init
  <2>3. sender \in SenderStates /\ faults \in Nat /\ receiver \in ReceiverStates
        /\ expected \in Nat
    BY DEF Init, SenderStates, ReceiverStates
  <2>4. sAbort \in BOOLEAN /\ rAbort \in BOOLEAN /\ multiple \in BOOLEAN
    BY DEF Init
  <2> QED
    BY <1>2, <2>1, <2>2, <2>3, <2>4, Zenon DEF TypeOK
<1>4. OnItsWay
  BY DEF Init, OnItsWay
<1>5. Contiguous /\ FlagEndsMessage /\ ReadyToYield /\ GivenInOrder /\ LastGiven
  BY <1>1 DEF Init, Contiguous, FlagEndsMessage, ReadyToYield, GivenInOrder, LastGiven
<1> QED
  BY <1>3, <1>4, <1>5 DEF Inv

(* A step of the sender that yields nothing may take bytes from the source *)
(* and go on to any state, as long as what it found before an await holds. *)
LEMMA NothingYieldedKeeps ==
  ASSUME Inv, sender = "open",
         UNCHANGED <<multiple, length, chunks, channel, faults, sAbort, rAbort, receiverVars>>,
         read' \in read .. length, sender' \in SenderStates,
         sender' = "full" => read' = read /\ ChunkSize <= Buffered,
         sender' = "rest" => read' = length
  PROVE  Inv'
<1>1. Sent' = Sent /\ Sent \in Nat
  BY SentIs DEF Sent, Inv
<1>2. read \in 0 .. length /\ length \in Nat /\ read - Sent \in Nat
  BY DEF Buffered, Inv, TypeOK
<1>3. read' \in 0 .. length /\ read' - Sent \in Nat
  <2>1. read \in Nat /\ read' \in Nat /\ read <= read' /\ read' <= length
    BY <1>2
  <2>2. Sent <= read
    BY <1>1, <1>2, <2>1
  <2>3. Sent <= read'
    BY <1>1, <2>1, <2>2
  <2>4. read' \in 0 .. length
    BY <1>2, <2>1
  <2>5. \A r, s \in Nat : s <= r => r - s \in Nat
    OBVIOUS
  <2> QED
    BY <1>1, <2>1, <2>3, <2>4, <2>5
<1>4. Buffered' \in Nat /\ read' \in 0 .. length' /\ Buffered' = read' - Sent
  <2>1. length' = length /\ Buffered' = read' - Sent'
    BY DEF Buffered
  <2> QED
    BY <1>1, <1>3, <2>1
<1>5. UNCHANGED <<receiver, held, expected, given>>
  BY DEF receiverVars
<1>6. TypeOK'
  BY <1>4, <1>5 DEF Inv, TypeOK
<1>7. FlagEndsMessage'
  BY DEF Inv, FlagEndsMessage
<1>8. ReadyToYield'
  BY <1>4 DEF ReadyToYield, Buffered
<1>9. Yielded' = Yielded
  BY DEF Yielded
<1>10. Contiguous' /\ OnItsWay' /\ GivenInOrder' /\ LastGiven'
  BY <1>5, <1>9 DEF Inv, Contiguous, OnItsWay, GivenInOrder, LastGiven
<1> QED
  BY <1>6, <1>7, <1>8, <1>10 DEF Inv

(* A piece that is taken, or refused, yields nothing.                      *)
LEMMA TakePieceKeeps ==
  ASSUME Inv, NEW size \in Pieces, TakePiece(size)
  PROVE  Inv'
<1>1. size \in Nat /\ read \in Nat /\ length \in Nat
  BY SizesAssumption DEF Inv, TypeOK
<1>2. read' \in read .. length /\ sender' \in {"open", "threw"}
  BY <1>1 DEF TakePiece, Inv, TypeOK
<1> QED
  BY <1>2, NothingYieldedKeeps DEF TakePiece, SenderStates

(* Handing a full chunk to the processor yields nothing yet.               *)
LEMMA EncryptFullKeeps == ASSUME Inv, EncryptFull PROVE Inv'
<1>1. read \in 0 .. length /\ length \in Nat /\ Buffered \in Nat
  BY DEF Inv, TypeOK
<1>2. read' = read /\ read' \in read .. length /\ sender' \in {"threw", "full"}
  BY <1>1 DEF EncryptFull
<1>3. ChunkSize <= Buffered
  BY <1>1, SizesAssumption DEF EncryptFull
<1> QED
  BY <1>2, <1>3, NothingYieldedKeeps DEF EncryptFull, SenderStates

(* The object yielded last is marked: only isLast changes, which nothing   *)
(* depends on.                                                             *)
LEMMA MarkingKeeps ==
  ASSUME Inv, sender = "open", sender' = "ended", chunks # <<>>,
         chunks' = [chunks EXCEPT ![Len(chunks)].isLast = TRUE],
         UNCHANGED <<multiple, length, read, channel, faults, sAbort, rAbort, receiverVars>>
  PROVE  Inv'
<1> DEFINE n == Len(chunks)
<1>1. n \in 1 .. n /\ n \in Nat /\ chunks \in Seq(Chunk) /\ chunks[n] \in Chunk
  BY EmptySeq, ElementOfSeq DEF Inv, TypeOK
<1>2. /\ chunks' \in Seq(Chunk)
      /\ Len(chunks') = n
      /\ \A k \in 1 .. n : chunks'[k] = IF k = n THEN [chunks[n] EXCEPT !.isLast = TRUE]
                                         ELSE chunks[k]
  <2>1. [chunks[n] EXCEPT !.isLast = TRUE] \in Chunk
    BY <1>1 DEF Chunk
  <2>2. chunks' = [chunks EXCEPT ![n] = [chunks[n] EXCEPT !.isLast = TRUE]]
    OBVIOUS
  <2> QED
    BY <1>1, <2>1, <2>2, ExceptSeq
<1>3. \A k \in 1 .. n : /\ chunks[k] \in Chunk
                        /\ chunks'[k].index = chunks[k].index
                        /\ chunks'[k].from = chunks[k].from
                        /\ chunks'[k].to = chunks[k].to
                        /\ chunks'[k].flag = chunks[k].flag
  <2> TAKE k \in 1 .. n
  <2>1. chunks[k] \in Chunk
    BY <1>1, ElementOfSeq
  <2>2. CASE k = n
    BY <1>1, <1>2, <2>2 DEF Chunk
  <2>3. CASE k # n
    BY <1>2, <2>1, <2>3
  <2> QED
    BY <2>1, <2>2, <2>3
<1>4. UNCHANGED <<receiver, held, expected, given>>
  BY DEF receiverVars
<1>5. Sent' = Sent /\ Buffered' = Buffered
  <2>1. chunks' # <<>>
    BY <1>1, <1>2
  <2>2. Sent' = Sent
    BY <1>1, <1>2, <1>3, <2>1 DEF Sent, Last
  <2> QED
    BY <2>2 DEF Buffered
<1>6. TypeOK'
  BY <1>2, <1>4, <1>5 DEF Inv, TypeOK, SenderStates
<1>7. Contiguous'
  <2> SUFFICES ASSUME NEW k \in 1 .. n
               PROVE  /\ chunks'[k].index = k - 1
                      /\ chunks'[k].from = (IF k = 1 THEN 0 ELSE chunks'[k - 1].to)
                      /\ chunks'[k].to <= length
    BY <1>2 DEF Contiguous
  <2>1. k = 1 \/ k - 1 \in 1 .. n
    BY <1>1
  <2> QED
    BY <1>3, <2>1 DEF Inv, Contiguous
<1>8. FlagEndsMessage' /\ ReadyToYield'
  BY <1>2, <1>3 DEF Inv, FlagEndsMessage, ReadyToYield
<1>9. OnItsWay'
  <2>1. Yielded' = Yielded
    BY <1>2, <1>3 DEF Yielded, DataOf
  <2> QED
    BY <1>4, <2>1 DEF Inv, OnItsWay
<1>10. GivenInOrder'
  <2>1. Len(given) \in Nat
    BY DEF Inv, TypeOK
  <2> QED
    BY <1>1, <1>2, <1>3, <1>4, <2>1 DEF Inv, GivenInOrder
<1>11. LastGiven'
  BY <1>4 DEF Inv, LastGiven
<1> QED
  BY <1>6, <1>7, <1>8, <1>9, <1>10, <1>11 DEF Inv

(* At the end of the source the rest is handed over, or the object yielded *)
(* last is marked.                                                         *)
LEMMA EncryptRestKeeps == ASSUME Inv, EncryptRest PROVE Inv'
<1>1. /\ sender = "open" /\ read \in 0 .. length /\ length \in Nat /\ read = length
      /\ Buffered \in Nat
  BY DEF EncryptRest, Inv, TypeOK
<1>2. CASE chunks' = chunks
  <2>1. /\ read' = read /\ read' \in read .. length /\ read' = length
        /\ sender' \in {"ended", "threw", "rest"}
    BY <1>1 DEF EncryptRest
  <2> QED
    BY <1>1, <1>2, <2>1, NothingYieldedKeeps DEF EncryptRest, SenderStates
<1>3. CASE /\ sender' = "ended" /\ chunks # <<>>
           /\ chunks' = [chunks EXCEPT ![Len(chunks)].isLast = TRUE]
  BY <1>1, <1>3, MarkingKeeps DEF EncryptRest
<1>4. \/ chunks' = chunks
      \/ /\ sender' = "ended" /\ chunks # <<>>
         /\ chunks' = [chunks EXCEPT ![Len(chunks)].isLast = TRUE]
  BY <1>1 DEF EncryptRest
<1> QED
  BY <1>2, <1>3, <1>4

(* For several recipients the rest is handed over and nothing is marked.   *)
LEMMA EncryptRestMultipleKeeps == ASSUME Inv, EncryptRestMultiple PROVE Inv'
<1>1. /\ sender = "open" /\ read \in 0 .. length /\ length \in Nat /\ read = length
      /\ Buffered \in Nat
  BY DEF EncryptRestMultiple, Inv, TypeOK
<1>2. /\ read' = read /\ read' \in read .. length /\ read' = length
      /\ sender' \in {"ended", "threw", "rest"}
  BY <1>1 DEF EncryptRestMultiple
<1> QED
  BY <1>1, <1>2, NothingYieldedKeeps DEF EncryptRestMultiple, SenderStates

(* A full chunk continues the ones before and does not end the message.    *)
LEMMA YieldFullKeeps == ASSUME Inv, YieldFull PROVE Inv'
<1>1. sender = "full" /\ Yield(ChunkSize, FALSE) /\ sender' = "open"
  BY DEF YieldFull
<1>2. ChunkSize \in Nat /\ ChunkSize <= Buffered
  BY <1>1, SizesAssumption DEF Inv, ReadyToYield
<1>3. FALSE \in BOOLEAN
  OBVIOUS
<1> QED
  BY <1>1, <1>2, <1>3, YieldKeeps, Zenon

(* The rest continues the chunks before and ends the message.              *)
LEMMA YieldRestKeeps == ASSUME Inv, YieldRest PROVE Inv'
<1>1. sender = "rest" /\ Yield(Buffered, TRUE) /\ sender' = "ended"
  BY DEF YieldRest
<1>2. Buffered \in Nat /\ Buffered <= Buffered /\ read = length
  BY <1>1 DEF Inv, TypeOK, ReadyToYield
<1>3. TRUE \in BOOLEAN
  OBVIOUS
<1> QED
  BY <1>1, <1>2, <1>3, YieldKeeps, Zenon

-----------------------------------------------------------------------------
(* A chunk that is taken in hand is still one of those yielded.            *)
LEMMA DecryptChunkKeeps == ASSUME Inv, DecryptChunk PROVE Inv'
<1>1. channel \in Seq(Yielded) /\ channel \in Seq(Data) /\ channel # <<>>
  BY DEF DecryptChunk, Inv, TypeOK, OnItsWay
<1>2. /\ Head(channel) \in Yielded /\ Head(channel) \in Data
      /\ Tail(channel) \in Seq(Yielded) /\ Tail(channel) \in Seq(Data)
  BY <1>1, HeadTailProperties
<1>3. UNCHANGED <<multiple, length, read, sender, chunks, faults, expected, given, sAbort, rAbort>>
  BY DEF DecryptChunk, senderVars
<1>4. Yielded' = Yielded /\ Buffered' = Buffered
  BY <1>3 DEF Yielded, Sent, Buffered
<1>5. /\ channel' = Tail(channel)
      /\ receiver' \in {"threw", "decrypting"}
      /\ held' \in {held, <<Head(channel)>>}
      /\ receiver' = "decrypting" => held' = <<Head(channel)>>
  BY DEF DecryptChunk
<1>6. held' \in Seq(Data) /\ held' \in Seq(Yielded)
  <2> DEFINE one == <<Head(channel)>>
  <2>1. one \in Seq(Data) /\ one \in Seq(Yielded)
    BY <1>2
  <2>2. held \in Seq(Data) /\ held \in Seq(Yielded)
    BY DEF Inv, TypeOK, OnItsWay
  <2>3. held' = held \/ held' = one
    BY <1>5
  <2> HIDE DEF one
  <2> QED
    BY <2>1, <2>2, <2>3, Zenon
<1>7. TypeOK'
  BY <1>2, <1>3, <1>4, <1>5, <1>6 DEF Inv, TypeOK, ReceiverStates
<1>8. OnItsWay'
  <2>1. \A e : <<e>> # <<>>
    OBVIOUS
  <2>2. channel' \in Seq(Yielded') /\ held' \in Seq(Yielded')
    BY <1>2, <1>4, <1>5, <1>6
  <2>3. receiver' = "decrypting" => held' # <<>>
    BY <1>5, <2>1
  <2> QED
    BY <2>2, <2>3 DEF OnItsWay
<1>9. Contiguous' /\ FlagEndsMessage' /\ ReadyToYield' /\ GivenInOrder' /\ LastGiven'
  BY <1>3, <1>4, <1>5
     DEF Inv, Contiguous, FlagEndsMessage, ReadyToYield, GivenInOrder, LastGiven
<1> QED
  BY <1>7, <1>8, <1>9 DEF Inv

(* The chunk in hand is one that was yielded, so its index says which one, *)
(* and the one expected is the one after those already given.              *)
LEMMA GiveDataKeeps == ASSUME Inv, GiveData PROVE Inv'
<1> DEFINE n == Len(chunks)
           g == Len(given)
           data == Head(held)
<1>1. /\ held \in Seq(Yielded) /\ held \in Seq(Data) /\ held # <<>>
      /\ given \in Seq([from : Nat, to : Nat]) /\ chunks \in Seq(Chunk)
      /\ n \in Nat /\ g \in Nat /\ expected \in Nat
  BY DEF GiveData, Inv, TypeOK, OnItsWay
<1>2. data \in Yielded /\ data \in Data
  BY <1>1, HeadTailProperties
<1>3. held' = <<>> /\ held' \in Seq(Yielded) /\ held' \in Seq(Data)
  BY EmptySeq DEF GiveData
<1>4. UNCHANGED <<multiple, length, channel, faults, sAbort, rAbort, read, sender, chunks>>
  BY DEF GiveData, senderVars
<1>5. Contiguous' /\ FlagEndsMessage'
  BY <1>4 DEF Inv, Contiguous, FlagEndsMessage
<1>6. Yielded' = Yielded /\ Buffered' = Buffered
  BY <1>4 DEF Yielded, Sent, Buffered
<1>7. ReadyToYield'
  BY <1>4, <1>6 DEF Inv, ReadyToYield
<1>8. receiver' \in {"threw", "last", "open"}
  BY DEF GiveData
<1>9. OnItsWay'
  BY <1>3, <1>4, <1>6, <1>8 DEF Inv, OnItsWay
<1>10. CASE data.index # expected
  <2>1. receiver' = "threw" /\ expected' = expected /\ given' = given
    BY <1>10 DEF GiveData
  <2>2. TypeOK'
    BY <1>3, <1>4, <1>6, <2>1 DEF Inv, TypeOK, ReceiverStates
  <2>3. GivenInOrder' /\ LastGiven'
    BY <1>4, <2>1 DEF Inv, GivenInOrder, LastGiven
  <2> QED
    BY <1>5, <1>7, <1>9, <2>2, <2>3 DEF Inv
<1>11. CASE data.index = expected
  <2> DEFINE span == [from |-> data.from, to |-> data.to]
  <2>1. /\ expected' = expected + 1
        /\ given' = Append(given, span)
        /\ receiver' = IF data.flag THEN "last" ELSE "open"
    BY <1>11 DEF GiveData
  <2>2. PICK k \in 1 .. n : data = DataOf(chunks[k])
    BY <1>2 DEF Yielded
  <2>3. /\ data.index = chunks[k].index /\ data.from = chunks[k].from
        /\ data.to = chunks[k].to /\ data.flag = chunks[k].flag
    BY <2>2 DEF DataOf
  <2>4. k = g + 1
    BY <1>1, <1>11, <2>2, <2>3 DEF Inv, Contiguous, GivenInOrder
  <2>5. span \in [from : Nat, to : Nat]
    BY <1>2 DEF Data
  <2>6. /\ given' \in Seq([from : Nat, to : Nat])
        /\ Len(given') = g + 1
        /\ given'[g + 1] = span
        /\ \A m \in 1 .. g : given'[m] = given[m]
    BY <1>1, <2>1, <2>5
  <2>7. TypeOK'
    <3>1. receiver' \in ReceiverStates /\ expected' \in Nat
      BY <1>1, <2>1 DEF ReceiverStates
    <3> QED
      BY <1>3, <1>4, <1>6, <2>6, <3>1 DEF Inv, TypeOK
  <2>8. GivenInOrder'
    <3>1. expected = g
      BY DEF Inv, GivenInOrder
    <3>2. expected' = Len(given') /\ Len(given') <= Len(chunks')
      BY <1>1, <1>4, <2>1, <2>4, <2>6, <3>1
    <3>3. ASSUME NEW m \in 1 .. Len(given')
          PROVE  given'[m] = [from |-> chunks'[m].from, to |-> chunks'[m].to]
      <4>1. CASE m = g + 1
        BY <4>1, <1>4, <2>3, <2>4, <2>6
      <4>2. CASE m \in 1 .. g
        BY <4>2, <1>4, <2>6 DEF Inv, GivenInOrder
      <4> QED
        BY <4>1, <4>2, <1>1, <2>6
    <3> QED
      BY <3>2, <3>3 DEF GivenInOrder
  <2>9. LastGiven'
    <3>1. receiver' = "last" => data.flag
      BY <2>1
    <3>2. data.flag => data.to = length
      BY <2>2, <2>3 DEF Inv, FlagEndsMessage
    <3>3. given'[Len(given')].to = data.to /\ given' # <<>>
      BY <1>1, <2>6
    <3> QED
      BY <1>4, <3>1, <3>2, <3>3 DEF LastGiven
  <2> QED
    BY <1>5, <1>7, <1>9, <2>7, <2>8, <2>9 DEF Inv
<1> QED
  BY <1>10, <1>11

(* The end of the input, the two signals and a step of nothing touch       *)
(* nothing the invariant speaks of but the state of the receiver.          *)
LEMMA EndsAndSignalsKeep ==
  ASSUME Inv,
         UNCHANGED <<multiple, length, read, sender, chunks, channel, faults, held, expected, given>>,
         receiver' \in {receiver, "ended"},
         sAbort' \in {sAbort, TRUE}, rAbort' \in {rAbort, TRUE}
  PROVE  Inv'
<1>1. Buffered' = Buffered /\ Yielded' = Yielded
  BY DEF Buffered, Sent, Yielded
<1>2. sAbort' \in BOOLEAN /\ rAbort' \in BOOLEAN
  BY DEF Inv, TypeOK
<1>3. TypeOK'
  BY <1>1, <1>2 DEF Inv, TypeOK, ReceiverStates
<1>4. Contiguous' /\ FlagEndsMessage' /\ ReadyToYield' /\ OnItsWay' /\ GivenInOrder'
  BY <1>1 DEF Inv, Contiguous, FlagEndsMessage, ReadyToYield, OnItsWay, GivenInOrder
<1>5. LastGiven'
  BY DEF Inv, LastGiven
<1> QED
  BY <1>3, <1>4, <1>5 DEF Inv

(* A fault changes what is on its way and nothing else.                    *)
LEMMA FaultKeeps ==
  ASSUME Inv, NEW i \in DOMAIN channel, NEW j \in DOMAIN channel,
         Lose(i) \/ Repeat(i) \/ Move(i, j)
  PROVE  Inv'
<1>1. /\ UNCHANGED <<multiple, length, read, sender, chunks, receiver, held, expected, given,
                     sAbort, rAbort>>
      /\ faults' = faults + 1
  BY DEF Lose, Repeat, Move, Fault, senderVars, receiverVars
<1>2. Buffered' = Buffered /\ Yielded' = Yielded
  BY <1>1 DEF Buffered, Sent, Yielded
<1>3. channel' \in Seq(Data)
  BY FaultsRearrange DEF Inv, TypeOK
<1>4. channel' \in Seq(Yielded)
  BY FaultsRearrange DEF Inv, OnItsWay
<1>5. TypeOK'
  BY <1>1, <1>2, <1>3 DEF Inv, TypeOK
<1>6. Contiguous' /\ FlagEndsMessage' /\ ReadyToYield' /\ OnItsWay' /\ GivenInOrder'
      /\ LastGiven'
  BY <1>1, <1>2, <1>4
     DEF Inv, Contiguous, FlagEndsMessage, ReadyToYield, OnItsWay, GivenInOrder, LastGiven
<1> QED
  BY <1>5, <1>6 DEF Inv

(* Every reachable state satisfies the invariant.                          *)
LEMMA InvHolds == Spec => []Inv
<1>1. ASSUME Inv, [Next]_vars PROVE Inv'
  <2>1. CASE UNCHANGED vars
    BY <1>1, <2>1, EndsAndSignalsKeep DEF vars
  <2>2. ASSUME NEW size \in Pieces, TakePiece(size) PROVE Inv'
    BY <1>1, <2>2, TakePieceKeeps
  <2>3. CASE EncryptFull
    BY <1>1, <2>3, EncryptFullKeeps
  <2>4. CASE YieldFull
    BY <1>1, <2>4, YieldFullKeeps
  <2>5. CASE EncryptRest
    BY <1>1, <2>5, EncryptRestKeeps
  <2>6. CASE YieldRest
    BY <1>1, <2>6, YieldRestKeeps
  <2>12. CASE EncryptRestMultiple
    BY <1>1, <2>12, EncryptRestMultipleKeeps
  <2>7. CASE DecryptChunk
    BY <1>1, <2>7, DecryptChunkKeeps
  <2>8. CASE GiveData
    BY <1>1, <2>8, GiveDataKeeps
  <2>9. CASE EndOfInput
    BY <1>1, <2>9, EndsAndSignalsKeep DEF EndOfInput, senderVars
  <2>10. CASE AbortSender \/ AbortReceiver
    BY <1>1, <2>10, EndsAndSignalsKeep DEF AbortSender, AbortReceiver, senderVars, receiverVars
  <2>11. ASSUME NEW i \in DOMAIN channel, NEW j \in DOMAIN channel,
                Lose(i) \/ Repeat(i) \/ Move(i, j)
         PROVE  Inv'
    BY <1>1, <2>11, FaultKeeps
  <2> QED
    BY <1>1, <2>1, <2>2, <2>3, <2>4, <2>5, <2>6, <2>7, <2>8, <2>9, <2>10, <2>11, <2>12
    DEF Next, EncryptStream, EncryptStreamMultiple, DecryptStream, DecryptStreamMultiple, Encrypt, Decrypt
<1> QED
  BY <1>1, InitInv, PTL DEF Spec

-----------------------------------------------------------------------------
(* The two generators keep their buffers, indices and states well formed.  *)
THEOREM TypeCorrect == Spec => []TypeOK
<1>1. Inv => TypeOK
  BY DEF Inv
<1> QED
  BY <1>1, InvHolds, PTL

(* Whatever is lost, repeated or moved between the ends, the receiver      *)
(* yields the beginning of the message, chunk after chunk.                 *)
THEOREM GivenAlwaysPrefix == Spec => []GivenIsPrefix
<1>1. ASSUME Inv PROVE GivenIsPrefix
  <2>1. /\ DOMAIN given = 1 .. Len(given) /\ Len(given) \in Nat /\ Len(chunks) \in Nat
        /\ Len(given) <= Len(chunks)
    BY <1>1 DEF Inv, TypeOK, GivenInOrder
  <2>2. \A m \in 1 .. Len(given) :
          given[m] = [from |-> chunks[m].from, to |-> chunks[m].to]
    BY <1>1 DEF Inv, GivenInOrder
  <2>3. \A m \in 1 .. Len(given) :
          given[m].from = chunks[m].from /\ given[m].to = chunks[m].to
    <3> TAKE m \in 1 .. Len(given)
    <3> DEFINE span == [from |-> chunks[m].from, to |-> chunks[m].to]
    <3>1. given[m] = span
      BY <2>2
    <3>2. span.from = chunks[m].from /\ span.to = chunks[m].to
      OBVIOUS
    <3> HIDE DEF span
    <3> QED
      BY <3>1, <3>2, Zenon
  <2> SUFFICES ASSUME NEW k \in 1 .. Len(given)
               PROVE  /\ given[k].from = (IF k = 1 THEN 0 ELSE given[k - 1].to)
                      /\ given[k].to <= length
    BY <2>1 DEF GivenIsPrefix
  <2>4. given[k].from = chunks[k].from /\ given[k].to = chunks[k].to
    BY <2>3
  <2>5. k # 1 => given[k - 1].to = chunks[k - 1].to
    BY <2>1, <2>3
  <2> QED
    BY <1>1, <2>1, <2>4, <2>5 DEF Inv, Contiguous
<1> QED
  BY <1>1, InvHolds, PTL

(* A receiver that a chunk told of the end has every byte of the message,  *)
(* also when chunks were lost, repeated or moved on their way.             *)
THEOREM LastAlwaysMeansWhole == Spec => []LastMeansWhole
<1>1. Inv => LastMeansWhole
  BY DEF Inv, LastGiven, LastMeansWhole, BytesGiven, Last
<1> QED
  BY <1>1, InvHolds, PTL

(* Once its signal is aborted, an end lets at most the chunk through that  *)
(* the processor has in hand.                                              *)
THEOREM AbortAlwaysStops == Spec => AbortStops
<1> DEFINE Stops == /\ sAbort /\ sender \notin {"full", "rest"} =>
                         Len(chunks') = Len(chunks) /\ sender' \notin {"full", "rest"}
                    /\ rAbort /\ receiver # "decrypting" =>
                         given' = given /\ receiver' # "decrypting"
<1>1. ASSUME Inv, [Next]_vars PROVE Stops
  <2>1. chunks \in Seq(Chunk) /\ Buffered \in Nat
    BY <1>1 DEF Inv, TypeOK
  <2>2. CASE UNCHANGED vars
    BY <2>2 DEF vars
  <2>3. CASE \E size \in Pieces : TakePiece(size)
    BY <2>3 DEF TakePiece, receiverVars
  <2>4. CASE EncryptFull
    BY <2>4 DEF EncryptFull, receiverVars
  <2>5. CASE EncryptRest
    <3>1. given' = given /\ receiver' = receiver
      BY <2>5 DEF EncryptRest, receiverVars
    <3>2. sAbort => sender' \in {"ended", "threw"}
      BY <2>5 DEF EncryptRest
    <3>3. Len([chunks EXCEPT ![Len(chunks)].isLast = TRUE]) = Len(chunks)
      BY <2>1
    <3>4. Len(chunks') = Len(chunks)
      BY <2>5, <3>3 DEF EncryptRest
    <3> QED
      BY <3>1, <3>2, <3>4
  <2>6. CASE YieldFull \/ YieldRest
    BY <2>6 DEF YieldFull, YieldRest, Yield, receiverVars
  <2>11. CASE EncryptRestMultiple
    BY <2>11 DEF EncryptRestMultiple, receiverVars
  <2>7. CASE DecryptChunk
    BY <2>7 DEF DecryptChunk, senderVars
  <2>8. CASE GiveData
    BY <2>8 DEF GiveData, senderVars
  <2>9. CASE EndOfInput \/ AbortSender \/ AbortReceiver
    BY <2>9 DEF EndOfInput, AbortSender, AbortReceiver, senderVars, receiverVars
  <2>10. CASE \E i, j \in DOMAIN channel : Lose(i) \/ Repeat(i) \/ (j < i /\ Move(i, j))
    BY <2>10 DEF Lose, Repeat, Move, Fault, senderVars, receiverVars
  <2> QED
    BY <1>1, <2>2, <2>3, <2>4, <2>5, <2>6, <2>7, <2>8, <2>9, <2>10, <2>11
    DEF Next, EncryptStream, EncryptStreamMultiple, DecryptStream, DecryptStreamMultiple, Encrypt, Decrypt
<1> QED
  BY <1>1, InvHolds, PTL DEF Spec, AbortStops

-----------------------------------------------------------------------------
(* What the refinement rests on besides: whoever ends has sent everything, *)
(* and what was sent and not given is still on its way.                    *)

(* No chunk is empty. *)
NoneEmpty == \A k \in 1 .. Len(chunks) : chunks[k].from < chunks[k].to

(* An encrypting end that ended has sent everything.                       *)
EndSendsAll ==
  /\ sender = "rest" => Buffered > 0
  /\ sender = "ended" => Sent = length

(* As long as nothing happens on the way, what was not given is coming.    *)
NoneMissing ==
  faults = 0 =>
    /\ receiver \in {"open", "ended"} => Len(given) + Len(channel) = Len(chunks)
    /\ receiver = "decrypting" => Len(given) + 1 + Len(channel) = Len(chunks)

(* Nothing comes after the end of the input.                               *)
NothingAfterEnd ==
  receiver = "ended" => channel = <<>> /\ sender \in {"ended", "threw"}

DeliveryInv == NoneEmpty /\ EndSendsAll /\ NoneMissing /\ NothingAfterEnd

(* Nothing is missing at first. *)
LEMMA DeliveryInitially == Init => DeliveryInv
<1> SUFFICES ASSUME Init PROVE DeliveryInv
  OBVIOUS
<1>1. Len(chunks) = 0 /\ Len(given) = 0 /\ Len(channel) = 0
  BY DEF Init
<1> QED
  BY <1>1 DEF Init, DeliveryInv, NoneEmpty, EndSendsAll, NoneMissing, NothingAfterEnd

(* The encrypting end between two chunks.                                  *)
LEMMA PreparingDelivers ==
  ASSUME Inv, DeliveryInv, sender = "open",
         UNCHANGED <<length, chunks, channel, faults, receiverVars>>,
         sender' = "rest" => Buffered > 0 /\ read' = read,
         sender' = "ended" => Buffered = 0 /\ read = length
  PROVE  DeliveryInv'
<1>1. UNCHANGED <<receiver, given>> /\ Sent' = Sent /\ Sent \in Nat
  BY SentIs DEF receiverVars, Sent, Inv
<1>2. receiver # "ended"
  BY DEF DeliveryInv, NothingAfterEnd
<1>3. EndSendsAll'
  <2>1. read \in Nat /\ read - Sent = Buffered
    BY DEF Inv, TypeOK, Buffered
  <2>2. sender' = "rest" => Buffered' = Buffered
    BY <1>1 DEF Buffered
  <2>3. sender' = "ended" => Sent = length
    BY <1>1, <2>1
  <2> QED
    BY <1>1, <2>2, <2>3 DEF EndSendsAll
<1> QED
  BY <1>1, <1>2, <1>3 DEF DeliveryInv, NoneEmpty, NoneMissing, NothingAfterEnd

(* The object yielded last is marked at the end of the source.             *)
LEMMA MarkingDelivers ==
  ASSUME Inv, DeliveryInv, sender = "open", sender' = "ended", chunks # <<>>,
         Buffered = 0, read = length,
         chunks' = [chunks EXCEPT ![Len(chunks)].isLast = TRUE],
         UNCHANGED <<length, channel, faults, receiverVars>>
  PROVE  DeliveryInv'
<1> DEFINE n == Len(chunks)
<1>1. n \in 1 .. n /\ n \in Nat /\ chunks \in Seq(Chunk) /\ chunks[n] \in Chunk
  BY EmptySeq, ElementOfSeq DEF Inv, TypeOK
<1>2. /\ Len(chunks') = n
      /\ \A k \in 1 .. n : chunks'[k] = IF k = n THEN [chunks[n] EXCEPT !.isLast = TRUE]
                                         ELSE chunks[k]
  <2>1. [chunks[n] EXCEPT !.isLast = TRUE] \in Chunk
    BY <1>1 DEF Chunk
  <2>2. chunks' = [chunks EXCEPT ![n] = [chunks[n] EXCEPT !.isLast = TRUE]]
    OBVIOUS
  <2> QED
    BY <1>1, <2>1, <2>2, ExceptSeq
<1>3. \A k \in 1 .. n : /\ chunks'[k].from = chunks[k].from
                        /\ chunks'[k].to = chunks[k].to
  <2> TAKE k \in 1 .. n
  <2>1. chunks[k] \in Chunk
    BY <1>1, ElementOfSeq
  <2>2. CASE k = n
    BY <1>1, <1>2, <2>2 DEF Chunk
  <2>3. CASE k # n
    BY <1>2, <2>1, <2>3
  <2> QED
    BY <2>2, <2>3
<1>4. Sent' = Sent /\ Sent \in Nat
  BY <1>1, <1>2, <1>3, SentIs DEF Inv, Sent, Last
<1>5. UNCHANGED <<receiver, given>> /\ receiver # "ended"
  BY DEF receiverVars, DeliveryInv, NothingAfterEnd
<1>6. EndSendsAll'
  <2>1. read \in Nat /\ read - Sent = 0
    BY DEF Inv, TypeOK, Buffered
  <2> QED
    BY <1>4, <2>1 DEF EndSendsAll
<1>7. NoneEmpty'
  BY <1>2, <1>3 DEF DeliveryInv, NoneEmpty
<1> QED
  BY <1>2, <1>5, <1>6, <1>7 DEF DeliveryInv, NoneMissing, NothingAfterEnd

(* A chunk that is yielded is on its way at once.                          *)
LEMMA YieldDelivers ==
  ASSUME Inv, DeliveryInv, sender \in {"full", "rest"},
         NEW size \in Nat, NEW last \in BOOLEAN, Yield(size, last), size > 0,
         sender' \in {"open", "ended"},
         sender' = "ended" => size = Buffered /\ read = length
  PROVE  DeliveryInv'
<1> DEFINE n == Len(chunks)
           chunk == [index |-> n, from |-> Sent, to |-> Sent + size,
                     flag |-> last, isLast |-> last]
<1>1. n \in Nat /\ Sent \in Nat /\ chunks \in Seq(Chunk) /\ channel \in Seq(Data)
  BY SentIs DEF Inv, TypeOK
<1>2. /\ chunks' = Append(chunks, chunk)
      /\ channel' = Append(channel, DataOf(chunk))
      /\ UNCHANGED <<length, read, faults, receiver, given>>
  BY DEF Yield, receiverVars
<1>3. chunk \in Chunk /\ DataOf(chunk) \in Data
  BY <1>1 DEF Chunk, DataOf, Data
<1>4. /\ Len(chunks') = n + 1 /\ chunks'[n + 1] = chunk
      /\ \A k \in 1 .. n : chunks'[k] = chunks[k]
      /\ Len(channel') = Len(channel) + 1 /\ Len(channel) \in Nat
  BY <1>1, <1>2, <1>3
<1>5. Sent' = Sent + size
  <2>1. chunks' # <<>>
    BY <1>1, <1>4
  <2> QED
    BY <1>1, <1>4, <2>1 DEF Sent, Last
<1>6. NoneEmpty'
  <2> SUFFICES ASSUME NEW k \in 1 .. n + 1 PROVE chunks'[k].from < chunks'[k].to
    BY <1>4 DEF NoneEmpty
  <2>1. CASE k = n + 1
    BY <1>1, <1>4, <2>1
  <2>2. CASE k \in 1 .. n
    BY <1>4, <2>2 DEF DeliveryInv, NoneEmpty
  <2> QED
    BY <1>1, <2>1, <2>2
<1>7. EndSendsAll'
  <2>1. read \in Nat
    BY DEF Inv, TypeOK
  <2>2. sender' = "ended" => Sent + size = length
    BY <1>1, <2>1 DEF Buffered
  <2> QED
    BY <1>2, <1>5, <2>2 DEF EndSendsAll
<1>8. NoneMissing'
  <2>1. Len(given) \in Nat
    BY DEF Inv, TypeOK
  <2>2. Len(chunks') = n + 1 /\ Len(channel') = Len(channel) + 1
    BY <1>4
  <2>3. UNCHANGED <<faults, receiver, given>>
    BY <1>2
  <2>4. n \in Nat /\ Len(channel) \in Nat /\ NoneMissing
    BY <1>1, <1>4 DEF DeliveryInv
  <2> QED
    BY <2>1, <2>2, <2>3, <2>4 DEF NoneMissing
<1>9. NothingAfterEnd'
  BY <1>2 DEF DeliveryInv, NothingAfterEnd
<1> QED
  BY <1>6, <1>7, <1>8, <1>9 DEF DeliveryInv

(* The decrypting end takes a chunk from the channel and gives it, or      *)
(* throws; or its input has ended.                                         *)
LEMMA DecryptDelivers ==
  ASSUME Inv, DeliveryInv, Decrypt
  PROVE  DeliveryInv'
<1>1. UNCHANGED <<length, faults, read, sender, chunks>>
  BY DEF Decrypt, DecryptChunk, GiveData, EndOfInput, senderVars
<1>2. NoneEmpty' /\ EndSendsAll'
  BY <1>1 DEF DeliveryInv, NoneEmpty, EndSendsAll, Sent, Buffered
<1>3. channel \in Seq(Data) /\ Len(channel) \in Nat /\ Len(given) \in Nat /\ Len(chunks) \in Nat
  BY DEF Inv, TypeOK
<1>4. CASE DecryptChunk
  <2>1. Len(channel') = Len(channel) - 1
    BY <1>3, <1>4, HeadTailProperties DEF DecryptChunk
  <2>2. receiver = "open" /\ receiver' \in {"threw", "decrypting"} /\ given' = given
    BY <1>4 DEF DecryptChunk
  <2> QED
    BY <1>1, <1>2, <1>3, <2>1, <2>2 DEF DeliveryInv, NoneMissing, NothingAfterEnd
<1>5. CASE GiveData
  <2>1. receiver = "decrypting" /\ channel' = channel /\ receiver' \in {"threw", "last", "open"}
    BY <1>5 DEF GiveData
  <2>2. receiver' # "threw" => Len(given') = Len(given) + 1
    <3>1. receiver' # "threw" =>
            given' = Append(given, [from |-> Head(held).from, to |-> Head(held).to])
      BY <1>5 DEF GiveData
    <3>2. given \in Seq([from : Nat, to : Nat])
      BY DEF Inv, TypeOK
    <3> QED
      BY <3>1, <3>2, AppendProperties
  <2> QED
    BY <1>1, <1>2, <1>3, <2>1, <2>2 DEF DeliveryInv, NoneMissing, NothingAfterEnd
<1>6. CASE EndOfInput
  BY <1>1, <1>2, <1>6 DEF EndOfInput, DeliveryInv, NoneMissing, NothingAfterEnd
<1> QED
  BY <1>4, <1>5, <1>6 DEF Decrypt

(* Every step keeps what the refinement rests on.                          *)
LEMMA DeliveryStep ==
  ASSUME Inv, DeliveryInv, [Next]_vars
  PROVE  DeliveryInv'
<1> USE DEF DeliveryInv
<1>1. Buffered \in Nat /\ read \in Nat /\ length \in Nat
  BY DEF Inv, TypeOK
<1>2. CASE UNCHANGED <<length, read, sender, chunks, channel, faults, receiver, given>>
  BY <1>2 DEF NoneEmpty, EndSendsAll, NoneMissing, NothingAfterEnd, Sent, Buffered
<1>3. ASSUME NEW size \in Pieces, TakePiece(size) PROVE DeliveryInv'
  BY <1>3, PreparingDelivers DEF TakePiece
<1>4. CASE EncryptFull
  BY <1>4, PreparingDelivers DEF EncryptFull
<1>5. CASE EncryptRestMultiple
  BY <1>1, <1>5, PreparingDelivers DEF EncryptRestMultiple
<1>6. CASE EncryptRest
  <2>1. CASE chunks' = chunks
    BY <1>1, <1>6, <2>1, PreparingDelivers DEF EncryptRest
  <2>2. CASE chunks' # chunks
    BY <1>1, <1>6, <2>2, MarkingDelivers DEF EncryptRest
  <2> QED
    BY <2>1, <2>2
<1>7. CASE YieldFull
  <2>1. sender = "full" /\ Yield(ChunkSize, FALSE) /\ sender' = "open"
    BY <1>7 DEF YieldFull
  <2>2. ChunkSize \in Nat /\ ChunkSize > 0 /\ FALSE \in BOOLEAN
    BY SizesAssumption
  <2> QED
    BY <2>1, <2>2, YieldDelivers
<1>8. CASE YieldRest
  <2>1. sender = "rest" /\ Yield(Buffered, TRUE) /\ sender' = "ended"
    BY <1>8 DEF YieldRest
  <2>2. Buffered > 0 /\ read = length /\ TRUE \in BOOLEAN
    BY <2>1 DEF EndSendsAll, Inv, ReadyToYield
  <2> QED
    BY <1>1, <2>1, <2>2, YieldDelivers
<1>9. CASE Decrypt
  BY <1>9, DecryptDelivers
<1>10. ASSUME NEW i \in DOMAIN channel, NEW j \in DOMAIN channel,
              Lose(i) \/ Repeat(i) \/ Move(i, j)
       PROVE  DeliveryInv'
  <2>1. UNCHANGED <<length, read, sender, chunks, receiver, given>> /\ faults' = faults + 1
    BY <1>10 DEF Lose, Repeat, Move, Fault, senderVars, receiverVars
  <2>2. faults' # 0
    BY <2>1 DEF Inv, TypeOK
  <2>3. channel # <<>>
    OBVIOUS
  <2>4. receiver # "ended"
    BY <2>3 DEF NothingAfterEnd
  <2> QED
    BY <2>1, <2>2, <2>4 DEF NoneEmpty, EndSendsAll, NoneMissing, NothingAfterEnd, Sent, Buffered
<1>11. CASE AbortSender \/ AbortReceiver
  BY <1>2, <1>11 DEF AbortSender, AbortReceiver, senderVars, receiverVars
<1>12. CASE UNCHANGED vars
  BY <1>2, <1>12 DEF vars
<1> QED
  BY <1>3, <1>4, <1>5, <1>6, <1>7, <1>8, <1>9, <1>10, <1>11, <1>12
  DEF Next, EncryptStream, EncryptStreamMultiple, DecryptStream, DecryptStreamMultiple, Encrypt, Decrypt

-----------------------------------------------------------------------------
(* What the end of the stream is for the delivery. *)
Ended == \/ receiver = "last"
         \/ receiver = "ended" /\ faults = 0 /\ sender = "ended"

(* How much was given, and that it grows with every chunk.                 *)
LEMMA BytesGivenIs ==
  ASSUME Inv
  PROVE  /\ Len(given) \in Nat /\ Len(given) <= Len(chunks)
         /\ BytesGiven = IF Len(given) = 0 THEN 0 ELSE chunks[Len(given)].to
<1>1. given \in Seq([from : Nat, to : Nat]) /\ Len(given) \in Nat
  BY DEF Inv, TypeOK
<1>2. given = <<>> <=> Len(given) = 0
  BY <1>1, EmptySeq
<1>3. Len(given) # 0 =>
        given[Len(given)] = [from |-> chunks[Len(given)].from, to |-> chunks[Len(given)].to]
  BY <1>1 DEF Inv, GivenInOrder
<1> QED
  BY <1>1, <1>2, <1>3 DEF BytesGiven, Last, Inv, GivenInOrder

(* A chunk that is given is a step of the delivery.                        *)
LEMMA GivingDelivers ==
  ASSUME Inv, Inv', DeliveryInv, GiveData, receiver' # "threw"
  PROVE  Promise!Next
<1> DEFINE g == Len(given)
<1>1. /\ UNCHANGED <<length, faults, sender, chunks>> /\ receiver = "decrypting"
      /\ receiver' \in {"last", "open"}
  BY DEF GiveData, senderVars
<1>2. Len(given') = g + 1
  <2>1. given' = Append(given, [from |-> Head(held).from, to |-> Head(held).to])
    BY DEF GiveData
  <2>2. given \in Seq([from : Nat, to : Nat])
    BY DEF Inv, TypeOK
  <2> QED
    BY <2>1, <2>2, AppendProperties
<1>3. g \in Nat /\ BytesGiven = IF g = 0 THEN 0 ELSE chunks[g].to
  BY BytesGivenIs
<1>4. g + 1 <= Len(chunks) /\ BytesGiven' = chunks[g + 1].to
  <2>1. /\ Len(given') <= Len(chunks')
        /\ \A k \in 1 .. Len(given') :
             given'[k] = [from |-> chunks'[k].from, to |-> chunks'[k].to]
        /\ given' \in Seq([from : Nat, to : Nat])
    BY DEF Inv, GivenInOrder, TypeOK
  <2>2. given' # <<>> /\ given'[g + 1] = [from |-> chunks[g + 1].from, to |-> chunks[g + 1].to]
    BY <1>1, <1>2, <1>3, <2>1
  <2> QED
    BY <1>1, <1>2, <1>3, <2>1, <2>2 DEF BytesGiven, Last
<1>5. /\ Len(chunks) \in Nat /\ g + 1 \in 1 .. Len(chunks) /\ length \in Nat
      /\ chunks[g + 1] \in Chunk /\ (g # 0 => chunks[g] \in Chunk)
  <2>1. chunks \in Seq(Chunk) /\ Len(chunks) \in Nat /\ length \in Nat
    BY DEF Inv, TypeOK
  <2> QED
    BY <1>3, <1>4, <2>1, ElementOfSeq
<1>6. BytesGiven < BytesGiven' /\ BytesGiven' <= length /\ BytesGiven \in Nat /\ BytesGiven' \in Nat
  <2>1. /\ chunks[g + 1].from = (IF g + 1 = 1 THEN 0 ELSE chunks[(g + 1) - 1].to)
        /\ chunks[g + 1].to <= length /\ chunks[g + 1].from < chunks[g + 1].to
    BY <1>5 DEF Inv, Contiguous, DeliveryInv, NoneEmpty
  <2>2. (g + 1) - 1 = g /\ (g + 1 = 1 <=> g = 0)
    BY <1>3
  <2>3. chunks[g + 1].from = BytesGiven
    BY <1>3, <2>1, <2>2
  <2> QED
    BY <1>3, <1>4, <1>5, <2>1, <2>3 DEF Chunk
<1>7. BytesGiven' \in BytesGiven + 1 .. length
  BY <1>5, <1>6
<1>8. CASE receiver' = "open"
  BY <1>1, <1>7, <1>8 DEF Promise!Next, Promise!Give
<1>9. CASE receiver' = "last"
  <2>1. BytesGiven' = length'
    BY <1>9 DEF Inv, LastGiven, BytesGiven, Last
  <2> QED
    BY <1>1, <1>9, <2>1 DEF Promise!Next, Promise!GiveAndEnd
<1> QED
  BY <1>1, <1>8, <1>9

(* Every step is one of the delivery, or none.                             *)
LEMMA StepDelivers ==
  ASSUME Inv, Inv', DeliveryInv, [Next]_vars
  PROVE  [Promise!Next]_(Promise!vars)
<1> DEFINE Stutter == UNCHANGED <<length, BytesGiven, Ended>>
<1>1. Stutter => [Promise!Next]_(Promise!vars)
  BY DEF Ended, Promise!vars
<1>2. CASE UNCHANGED <<length, given, receiver, faults, sender>>
  BY <1>1, <1>2 DEF Ended, BytesGiven
<1>3. CASE /\ UNCHANGED <<length, faults, receiverVars>>
           /\ sender \notin {"ended", "threw"}
  <2>1. UNCHANGED <<given, receiver>> /\ receiver # "ended"
    BY <1>3 DEF receiverVars, DeliveryInv, NothingAfterEnd
  <2> QED
    BY <1>1, <1>3, <2>1 DEF Ended, BytesGiven
<1>4. CASE DecryptChunk
  BY <1>1, <1>4 DEF DecryptChunk, senderVars, Ended, BytesGiven
<1>5. CASE GiveData
  <2>1. CASE receiver' = "threw"
    BY <1>1, <1>5, <2>1 DEF GiveData, senderVars, Ended, BytesGiven
  <2> QED
    BY <1>5, <2>1, GivingDelivers
<1>6. CASE EndOfInput
  <2>1. /\ UNCHANGED <<length, faults, sender, given>> /\ BytesGiven' = BytesGiven
        /\ receiver = "open" /\ receiver' = "ended" /\ channel = <<>>
    BY <1>6 DEF EndOfInput, senderVars, BytesGiven
  <2>2. CASE faults = 0 /\ sender = "ended"
    <3>1. Len(given) = Len(chunks)
      BY <2>1, <2>2, BytesGivenIs DEF DeliveryInv, NoneMissing
    <3>2. BytesGiven = Sent
      BY <3>1, BytesGivenIs, SentIs DEF Inv
    <3>3. BytesGiven = length
      BY <2>2, <3>2 DEF DeliveryInv, EndSendsAll
    <3> QED
      BY <2>1, <2>2, <3>3 DEF Promise!Next, Promise!End
  <2>3. CASE ~(faults = 0 /\ sender = "ended")
    BY <1>1, <2>1, <2>3 DEF Ended
  <2> QED
    BY <2>2, <2>3
<1>7. ASSUME NEW i \in DOMAIN channel, NEW j \in DOMAIN channel,
             Lose(i) \/ Repeat(i) \/ Move(i, j)
      PROVE  Stutter
  <2>1. UNCHANGED <<length, sender, receiver, given>>
    BY <1>7 DEF Lose, Repeat, Move, Fault, senderVars, receiverVars
  <2>2. receiver # "ended"
    BY DEF DeliveryInv, NothingAfterEnd
  <2> QED
    BY <2>1, <2>2 DEF Ended, BytesGiven
<1>8. CASE EncryptStream \/ EncryptStreamMultiple
  BY <1>3, <1>8 DEF EncryptStream, EncryptStreamMultiple, Encrypt, TakePiece, EncryptFull, YieldFull,
     YieldRest, Yield, EncryptRest, EncryptRestMultiple
<1>9. CASE DecryptStream \/ DecryptStreamMultiple
  BY <1>4, <1>5, <1>6, <1>9 DEF DecryptStream, DecryptStreamMultiple, Decrypt
<1>10. CASE AbortSender \/ AbortReceiver
  BY <1>2, <1>10 DEF AbortSender, AbortReceiver, senderVars, receiverVars
<1>11. CASE UNCHANGED vars
  BY <1>2, <1>11 DEF vars
<1> HIDE DEF Stutter
<1>12. CASE \E i, j \in DOMAIN channel : Lose(i) \/ Repeat(i) \/ (j < i /\ Move(i, j))
  BY <1>1, <1>7, <1>12
<1> QED
  BY <1>8, <1>9, <1>10, <1>11, <1>12 DEF Next

(* The stream implements the delivery: bytes are given from the first one  *)
(* on, and the receiver is told of the end, by a chunk over any transport  *)
(* or by the end of the input over a reliable one, exactly when it has     *)
(* them all.                                                               *)
THEOREM StreamImplementsDelivery == Spec => ImplementsDelivery
<1>1. Init => Promise!Init
  <2> SUFFICES ASSUME Init PROVE Promise!Init
    OBVIOUS
  <2>1. given = <<>> /\ receiver = "open" /\ length \in Lengths
    BY DEF Init
  <2> QED
    BY <2>1 DEF Promise!Init, BytesGiven
<1>2. Spec => []Inv
  BY InvHolds
<1>3. Inv /\ DeliveryInv /\ [Next]_vars => DeliveryInv'
  BY DeliveryStep
<1>4. Inv /\ Inv' /\ DeliveryInv /\ [Next]_vars => [Promise!Next]_(Promise!vars)
  BY StepDelivers
<1> QED
  BY <1>1, <1>2, <1>3, <1>4, DeliveryInitially, PTL DEF Spec, ImplementsDelivery, Promise!Spec
=============================================================================
