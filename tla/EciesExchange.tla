----------------------------- MODULE EciesExchange -----------------------------
(***************************************************************************)
(* Members encrypt messages, chunks and a file for each other with the     *)
(* formats of SingleRecipient, MultiRecipient and EncryptedFile.  What     *)
(* arrives may be cut, changed or put together from several messages, and  *)
(* whoever holds it may take it for any of the formats.  Another process   *)
(* writes the file while it is encrypted.                                  *)
(***************************************************************************)
EXTENDS EncryptedFile

CONSTANTS
  Members,        \* owners of a key and an id
  Recipients,     \* sequences of members a message is encrypted for
  Messages,       \* sequences of cells
  Preambles,
  Signers,        \* members who sign, and Nobody
  Contents,       \* contents the file may have
  IdSize,         \* MULTIPLE.RECIPIENT_ID_SIZE of the service
  MaxSent,        \* bounds: messages, and changes of the file
  MaxChanges

ASSUME SizeAssumption ==
  /\ IdSize \in Nat /\ MaxSent \in Nat /\ MaxChanges \in Nat
  /\ MaxDataSize \in Nat /\ FileHeaderSize <= MaxDataSize /\ ChunkSize <= MaxDataSize

(* Ids are not empty, and what members write are bytes, and no tags that a *)
(* message has been sealed with.                                           *)
ASSUME BytesAssumption ==
  /\ \A s \in Messages \union Preambles \union Contents : IsBytes(s)
  /\ \A r \in Recipients : r \in Seq(Range(r))
  /\ \A m \in Members \union UNION {Range(r) : r \in Recipients} : IsBytes(Id(m)) /\ Id(m) # <<>>

(* Ids are told apart however much of them is kept: they are drawn at      *)
(* random, and none is the beginning of another's.                         *)
ASSUME IdAssumption ==
  \A m, o \in Members \union UNION {Range(r) : r \in Recipients} : IsPrefix(Id(m), Id(o)) => m = o

VARIABLES
  sent,       \* what was encrypted; parts are the messages it consists of
  arrived,    \* the buffer at the receiving end, <<>> until it is there
  encryption  \* the call of encryptFileFromPath, and the file it reads

vars == <<sent, arrived, encryption>>

Idle == [state |-> "idle"]

TypeOK ==
  /\ \A i \in DOMAIN sent :
       sent[i].form \in {"single", "multiple", "chunk", "key", "file"} /\ sent[i].cells # <<>>
  /\ \/ encryption = Idle
     \/ /\ encryption.file \in Contents /\ encryption.changes \in 0 .. MaxChanges
        /\ Len(encryption.read) \in 1 .. TotalChunks(encryption.size) + 1

Init ==
  /\ sent = <<>>
  /\ arrived = <<>>
  /\ encryption = Idle

-----------------------------------------------------------------------------
Fresh == 10 * (Len(sent) + 1)   \* keys that are drawn: numbers never used before

(* Symmetric keys a caller of the processor may bring: a new one, or the   *)
(* one of a chunk or key before, as encryptStreamMultiple does for all the *)
(* chunks of a stream.                                                     *)
CallersKeys == {Fresh} \union {sent[i].symmetricKey : i \in DOMAIN sent}

(* Bounds: messages of one form are sent in a behaviour. *)
MaySend(form) ==
  arrived = <<>> /\ Len(sent) < MaxSent /\ \A i \in DOMAIN sent : sent[i].form = form

Send(record) ==
  /\ encryption.state = "idle" /\ MaySend(record.form)
  /\ sent' = Append(sent, record)
  /\ UNCHANGED <<arrived, encryption>>

Part(preamble, data) == [preamble |-> preamble, data |-> data]

Encrypt(type, p, message, preamble) ==
  LET e == EncryptSingle(type, Fresh, p, message, preamble)
  IN  e.ok /\ Send([form |-> "single", type |-> type, to |-> {p}, signer |-> Nobody,
                    parts |-> <<Part(preamble, message)>>, cells |-> e.cells])

(* The caller puts the header in front of the message. *)
EncryptForMany(recipients, message, preamble, signer) ==
  LET m == EncryptMultiple(IdSize, Fresh, recipients, message, preamble, signer)
  IN  m.ok /\ Send([form |-> "multiple", to |-> Range(recipients), signer |-> signer,
                    parts |-> <<Part(preamble, message)>>, symmetricKey |-> Fresh,
                    cells |-> BuildHeader(IdSize, m).cells \o m.encryptedMessage])

EncryptChunkForMany(k, recipients, data, index, isLast, signer) ==
  LET c == EncryptChunk(IdSize, Fresh, k, recipients, data, index, isLast, signer)
  IN  c.ok /\ Send([form |-> "chunk", to |-> Range(recipients), signer |-> signer,
                    parts |-> <<Part(<<>>, data)>>, index |-> index, isLast |-> isLast,
                    symmetricKey |-> k, cells |-> c.cells])

(* The processor's encryptKey. *)
EncryptSymmetricKey(k, p) ==
  Send([form |-> "key", to |-> {p}, signer |-> Nobody,
        parts |-> <<Part(<<>>, SymmetricCell(k))>>, symmetricKey |-> k,
        cells |-> EncryptKeyAlone(p, Fresh, k)])

(* encryptFileFromPath: the size is read first, then chunk after chunk. *)
StatFile(p, content) ==
  LET size   == Len(content)
      header == SerializeHeader(TotalChunks(size), size)
  IN  /\ encryption.state = "idle" /\ MaySend("file")
      /\ encryption' = [state |-> "reading", to |-> p, size |-> size, read |-> <<header>>,
                        cells |-> EncryptSingle("withLength", Fresh, p, header, <<>>).cells,
                        file |-> content, content |-> content, changes |-> 0]
      /\ UNCHANGED <<sent, arrived>>

NextChunk == Len(encryption.read) - 1

ReadFileChunk ==
  /\ encryption.state = "reading" /\ NextChunk < TotalChunks(encryption.size)
  /\ LET data == ReadChunk(encryption.file, encryption.size, NextChunk)
         e    == Fresh + Len(encryption.read)
     IN  encryption' = [encryption EXCEPT
           !.read = Append(@, data),
           !.cells = @ \o EncryptSingle("withLength", e, encryption.to, data, <<>>).cells]
  /\ UNCHANGED <<sent, arrived>>

FinishFile ==
  /\ encryption.state = "reading" /\ NextChunk = TotalChunks(encryption.size)
  /\ sent' = Append(sent, [form |-> "file", to |-> {encryption.to}, signer |-> Nobody,
                           parts |-> [i \in DOMAIN encryption.read |-> Part(<<>>, encryption.read[i])],
                           cells |-> encryption.cells, content |-> encryption.content,
                           changed |-> encryption.changes > 0])
  /\ encryption' = Idle
  /\ UNCHANGED arrived

WriteFile(content) ==
  /\ encryption.state = "reading" /\ encryption.changes < MaxChanges
  /\ encryption' = [encryption EXCEPT !.file = content, !.changes = @ + 1]
  /\ UNCHANGED <<sent, arrived>>

(* One buffer arrives in a behaviour: a message, the beginning of one and  *)
(* the end of another, or, to keep the number of states down when it is    *)
(* the only one, a message that was cut, has lost or repeated a cell, or   *)
(* has another cell in a place.                                            *)
Splice(a, b, i, j) ==
  /\ arrived = <<>> /\ encryption.state = "idle"
  /\ arrived' = Slice(sent[a].cells, 0, i) \o Slice(sent[b].cells, j, Len(sent[b].cells))
  /\ UNCHANGED <<sent, encryption>>

Cut(a, i) ==
  /\ arrived = <<>> /\ encryption.state = "idle"
  /\ arrived' = Slice(sent[a].cells, 0, i)
  /\ UNCHANGED <<sent, encryption>>

Alter(a, i, cell) ==
  /\ arrived = <<>> /\ encryption.state = "idle"
  /\ arrived' = [sent[a].cells EXCEPT ![i] = cell]
  /\ UNCHANGED <<sent, encryption>>

Next ==
  \/ \E p \in Members, m \in Messages, pre \in Preambles :
       \E type \in {"basic", "withLength"} : Encrypt(type, p, m, pre)
  \/ \E r \in Recipients, m \in Messages, s \in Signers :
       \/ \E pre \in Preambles : EncryptForMany(r, m, pre, s)
       \/ MaySend("chunk") /\ \E k \in CallersKeys, index \in 0 .. 1 :
            EncryptChunkForMany(k, r, m, index, index = 1, s)
  \/ MaySend("key") /\ \E k \in CallersKeys, p \in Members : EncryptSymmetricKey(k, p)
  \/ \E p \in Members, content \in Contents : StatFile(p, content)
  \/ ReadFileChunk
  \/ FinishFile
  \/ \E content \in Contents : WriteFile(content)
  \/ \E a, b \in DOMAIN sent :
       a # b /\ \E i \in 0 .. Len(sent[a].cells) : Splice(a, b, i, i)
  \/ /\ Len(sent) = 1
     /\ \/ \E i \in 0 .. Len(sent[1].cells), d \in {-1, 0, 1} : i + d >= 0 /\ Splice(1, 1, i, i + d)
        \/ \E i \in 0 .. Len(sent[1].cells) : Cut(1, i)
        \/ \E i \in DOMAIN sent[1].cells, cell \in {<<"number", 1>>, <<"sizes", 0, 1>>} :
             Alter(1, i, cell)

Spec == Init /\ [][Next]_vars

-----------------------------------------------------------------------------
Was(form, p, data, preamble) ==
  \E i \in DOMAIN sent :
    /\ sent[i].form \in form /\ p \in sent[i].to
    /\ \E k \in DOMAIN sent[i].parts : sent[i].parts[k] = Part(preamble, data)

SingleWasSent(p, opened, preamble) ==
  opened.ok => Was({"single", "file"}, p, opened.decrypted, preamble)

SignedBy(s, record, decrypted) ==
  /\ s # Nobody => record.signer = s
  /\ decrypted \in {record.parts[1].data, Signed(record.signer, record.parts[1].data)}

MultipleWasSent(p, s, opened) ==
  opened.ok => \E i \in DOMAIN sent :
    sent[i].form = "multiple" /\ p \in sent[i].to /\ SignedBy(s, sent[i], opened.decrypted)

ChunkWasSent(p, s, opened) ==
  opened.ok => \E i \in DOMAIN sent :
    /\ sent[i].form = "chunk" /\ p \in sent[i].to /\ SignedBy(s, sent[i], opened.decrypted)
    /\ opened.index = sent[i].index /\ opened.isLast = sent[i].isLast

KeyWasSent(p, opened) ==
  opened.ok => \E i \in DOMAIN sent :
    sent[i].form = "key" /\ p \in sent[i].to /\ opened.key = sent[i].parts[1].data

(* Whatever arrives and however a member reads it, as any form, with any   *)
(* preamble size and expected length: what opens is a message that was     *)
(* encrypted for this member, whole, with this preamble; a chunk has the   *)
(* index and the flag it was given, and with a sender named the sender     *)
(* signed it.                                                              *)
OpenedWasSent ==
  \A p \in Members :
    /\ \A type \in {"any", "basic", "withLength"}, n \in 0 .. 1, length \in -1 .. 2 :
         SingleWasSent(p, DecryptWithHeader(type, p, arrived, n, length), Slice(arrived, 0, n))
    /\ \A s \in Signers :
         /\ MultipleWasSent(p, s, DecryptMultipleForRecipient(IdSize, arrived, p, s))
         /\ ChunkWasSent(p, s, DecryptChunk(IdSize, arrived, p, s))
    /\ KeyWasSent(p, DecryptKeyAlone(p, arrived))

SingleOpens(record, opened, length) ==
  /\ opened.ok /\ opened.decrypted = record.parts[1].data
  /\ length = ComputeEncryptedLengthFromDataLength(Len(opened.decrypted), record.type)
  /\ record.type = "withLength" => opened.consumedBytes = length

MultipleOpens(p, record, m) ==
  LET data == record.parts[1].data
  IN  IF record.parts[1].preamble # <<>> \/ Signed(record.signer, data) = <<>>
      THEN m.ok => ~DecryptMultiple(IdSize, m, p, TRUE, record.signer).ok
      ELSE /\ m.ok /\ m.headerSize = GetMultiHeaderSize(IdSize, Len(m.ids))
           /\ DecryptMultiple(IdSize, m, p, TRUE, record.signer) = [ok |-> TRUE, decrypted |-> data]
           /\ DecryptMultipleParts(IdSize, m.encryptedMessage, m.ids, m.keys, m.key, p, record.signer)
                = [ok |-> TRUE, decrypted |-> data]

ChunkOpens(p, record, opened) ==
  IF Len(Id(p)) # IdSize THEN ~opened.ok
  ELSE opened.ok /\ opened.decrypted = record.parts[1].data

(* A message that arrives as it was sent opens for every recipient who     *)
(* names its sender, and the size of its header and the bytes it takes are *)
(* the computed ones.  The exceptions are the code's: a preamble keeps a   *)
(* message for several recipients from being opened, and such a message    *)
(* without data cannot be parsed; a preamble is not among the bytes        *)
(* consumed; a chunk is made without a complaint for a recipient whose id  *)
(* has another size, who will never open it.                               *)
WholeMessagesOpen ==
  \A i \in DOMAIN sent : arrived = sent[i].cells =>
    \A p \in sent[i].to :
      LET n == Len(sent[i].parts[1].preamble)
      IN  CASE sent[i].form = "single" ->
                 SingleOpens(sent[i], DecryptWithHeaderEx("any", p, arrived, n, NoLength),
                             Len(arrived) - n)
            [] sent[i].form = "multiple" ->
                 MultipleOpens(p, sent[i], ParseMultiEncryptedBuffer(IdSize, arrived))
            [] sent[i].form = "chunk" ->
                 ChunkOpens(p, sent[i], DecryptChunk(IdSize, arrived, p, sent[i].signer))
            [] sent[i].form = "key" -> DecryptKeyAlone(p, arrived).ok
            [] sent[i].form = "file" -> DecryptFileToPath(p, arrived).ok

FileOpens(record, data, written, inMemory) ==
  /\ IsPrefix(written.output, data)
  /\ written.ok <=> arrived = record.cells
  /\ written.ok => inMemory = [ok |-> TRUE, decrypted |-> data]
  /\ ~record.changed => data = record.content

(* An encrypted file comes back as the chunks that were read, whatever its *)
(* length, and as the file when nobody wrote it meanwhile.  One that was   *)
(* cut off is never taken for a whole one, and what decryptFileToPath has  *)
(* written until then is a beginning of the file.                          *)
FileComesBack ==
  \A i \in DOMAIN sent : sent[i].form = "file" /\ IsPrefix(arrived, sent[i].cells) =>
    \A p \in sent[i].to :
      FileOpens(sent[i], FlattenSeq([k \in 1 .. Len(sent[i].parts) - 1 |-> sent[i].parts[k + 1].data]),
                DecryptFileToPath(p, arrived), DecryptFile(p, arrived))
=============================================================================
