----------------------------- MODULE EncryptedFile -----------------------------
(***************************************************************************)
(* The layout of an encrypted file, src/services/ecies/file.ts: a header   *)
(* and chunks, each a message with length of its own.                      *)
(***************************************************************************)
EXTENDS MultiRecipient

CONSTANT ChunkSize   \* config.chunkSize

ASSUME ChunkSizeAssumption == ChunkSize \in Nat \ {0}

FileHeaderSize == 5   \* four numbers and padding, 20 bytes

SerializeHeader(totalChunks, originalSize) ==
  <<<<"number", 1>>, <<"number", ChunkSize>>, <<"number", totalChunks>>,
    <<"number", originalSize>>, Cell("zero")>>

(* Math.ceil(stats.size / chunkSize) *)
TotalChunks(size) == (size + ChunkSize - 1) \div ChunkSize

(* Chunk i, counted from zero, of a file that had the given size when it   *)
(* was looked at.  The buffer is filled with zeros behind the end of what  *)
(* is read.                                                                *)
ReadChunk(content, size, i) ==
  LET offset == i * ChunkSize
      length == IF ChunkSize < size - offset THEN ChunkSize ELSE size - offset
  IN  [k \in 1 .. length |->
         IF offset + k <= Len(content) THEN content[offset + k] ELSE Cell("zero")]

(* Mistake the runs must notice: a last chunk that is full is taken for an *)
(* empty one.                                                              *)
ChunkLengthModulo(header, i) ==
  IF i = header.totalChunks - 1 THEN header.originalSize % header.chunkSize ELSE header.chunkSize

ChunkLength(header, i) ==
  IF i = header.totalChunks - 1 /\ header.originalSize % header.chunkSize # 0
  THEN header.originalSize % header.chunkSize
  ELSE header.chunkSize

(* deserializeHeader reads four numbers. *)
DeserializeHeader(data) ==
  IF Len(data) < 4 THEN Refused
  ELSE [ok |-> TRUE, chunkSize |-> NumberIn(data[2]), totalChunks |-> NumberIn(data[3]),
        originalSize |-> NumberIn(data[4])]

HeaderLength == ComputeEncryptedLengthFromDataLength(FileHeaderSize, "withLength")

OpenedHeader(opened) == IF opened.ok THEN DeserializeHeader(opened.decrypted) ELSE Refused

(* parseEncryptedFile: the header, and where the chunks are expected. *)
ParseEncryptedFile(p, data) ==
  OpenedHeader(DecryptWithLengthAndHeader(p, Slice(data, 0, HeaderLength)))

FileChunk(p, data, header, i) ==
  LET step   == ComputeEncryptedLengthFromDataLength(header.chunkSize, "withLength")
      offset == HeaderLength + i * step
      length == ComputeEncryptedLengthFromDataLength(ChunkLength(header, i), "withLength")
  IN  DecryptWithLengthAndHeader(p, Slice(data, offset, offset + length))

(* What decryptFileToPath leaves in the output: the chunks up to the first *)
(* that is refused, cut at the original size.                              *)
WrittenChunks(p, data, header) ==
  LET chunk[i \in Nat] == FileChunk(p, data, header, i)
      Written[i \in Nat] ==
        IF i = header.totalChunks THEN [ok |-> TRUE, output |-> <<>>]
        ELSE IF ~chunk[i].ok THEN [ok |-> FALSE, output |-> <<>>]
        ELSE [Written[i + 1] EXCEPT !.output = chunk[i].decrypted \o @]
  IN  IF ~header.ok THEN [ok |-> FALSE, output |-> <<>>]
      ELSE [Written[0] EXCEPT !.output = Slice(@, 0, header.originalSize)]

DecryptFileToPath(p, data) == WrittenChunks(p, data, ParseEncryptedFile(p, data))

(* decryptFile gives the same chunks in a buffer of the original size, or  *)
(* throws.                                                                 *)
Filled(written, header) ==
  IF ~written.ok THEN Refused
  ELSE [ok |-> TRUE, decrypted |-> written.output \o
          [k \in 1 .. header.originalSize - Len(written.output) |-> Cell("zero")]]

DecryptFile(p, data) == Filled(DecryptFileToPath(p, data), ParseEncryptedFile(p, data))
=============================================================================
