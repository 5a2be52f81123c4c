---------------------------- MODULE MultiRecipient ----------------------------
(***************************************************************************)
(* The message format for several recipients,                              *)
(* src/services/ecies/multi-recipient.ts, and the chunks of                *)
(* src/services/multi-recipient-processor.ts, which have a header of their *)
(* own and share the encryption of the symmetric key.                      *)
(*                                                                         *)
(* e is the ephemeral key of a call, k the symmetric key: the one of a     *)
(* message is drawn with its ephemeral key, the one of a chunk is brought  *)
(* by the caller.  IVs are drawn in every call and named after e.          *)
(***************************************************************************)
EXTENDS SingleRecipient, SequencesExt

CONSTANTS
  MaxRecipients,   \* MULTIPLE.MAX_RECIPIENTS
  Id(_)            \* the id of a member, a sequence of cells

SymmetricCell(k) == <<"symmetric key", k>>
SignatureCell(signer, message) == <<"signature", signer, message>>
Nobody == "nobody"

EncryptedKeySize == 3   \* iv, tag and key: 60 bytes
HeaderSize == 6         \* version, suite, type, key, length, count: 46 bytes

(* getHeaderSize and calculateECIESMultipleRecipientOverhead differ by the *)
(* ephemeral key.                                                          *)
GetMultiHeaderSize(idSize, count) == HeaderSize + count * (idSize + EncryptedKeySize)

CalculateOverhead(idSize, count) ==
  HeaderSize - 1 + count * idSize + count * EncryptedKeySize

EncryptKey(p, e, k, aad) ==
  <<IvCell(e), TagCell(SharedKey(e, p), aad, IvCell(e), <<SymmetricCell(k)>>), SymmetricCell(k)>>

DecryptKey(p, encryptedKey, e, aad) ==
  IF /\ Len(encryptedKey) = EncryptedKeySize
     /\ encryptedKey[2] = TagCell(SharedKey(e, p), aad, encryptedKey[1], <<encryptedKey[3]>>)
  THEN [ok |-> TRUE, key |-> encryptedKey[3]]
  ELSE Refused

(* Mistake the runs must notice: the signature behind the message. *)
SignedBehind(signer, message) ==
  IF signer = Nobody THEN message ELSE message \o <<SignatureCell(signer, message)>>

Signed(signer, message) ==
  IF signer = Nobody THEN message ELSE <<SignatureCell(signer, message)>> \o message

(* The signature is looked for only when a sender is named. *)
VerifiedMessage(sender, text) ==
  CASE sender = Nobody -> [ok |-> TRUE, decrypted |-> text]
    [] sender # Nobody /\ text = <<>> -> Refused
    [] OTHER -> IF Head(text) = SignatureCell(sender, Tail(text))
                THEN [ok |-> TRUE, decrypted |-> Tail(text)] ELSE Refused

-----------------------------------------------------------------------------
(* buildECIESMultipleRecipientHeader: the size of an id is kept in the top *)
(* byte of the length.                                                     *)
BuildHeader(idSize, m) ==
  IF \/ Len(m.ids) > MaxRecipients \/ Len(m.ids) # Len(m.keys)
     \/ m.dataLength > MaxDataSize
     \/ \E i \in DOMAIN m.ids : Len(m.ids[i]) # idSize
     \/ \E i \in DOMAIN m.keys : Len(m.keys[i]) # EncryptedKeySize
  THEN Refused
  ELSE [ok |-> TRUE, cells |->
          <<VersionCell, SuiteCell, Cell("multiple"), KeyCell(m.key),
            <<"sizes", idSize, m.dataLength>>, <<"number", Len(m.ids)>>>>
            \o FlattenSeq(m.ids) \o FlattenSeq(m.keys)]

KeysFor(recipients, e) ==
  [i \in DOMAIN recipients |-> EncryptKey(recipients[i], e, e, Id(recipients[i]))]

SealMessage(m, header, preamble, text, overhead) ==
  IF ~header.ok THEN Refused
  ELSE [ok |-> TRUE, dataLength |-> m.dataLength, ids |-> m.ids, keys |-> m.keys, key |-> m.key,
        headerSize |-> overhead,
        encryptedMessage |->
          preamble \o <<IvCell(m.key), TagCell(SymmetricCell(m.key), header.cells, IvCell(m.key), text)>>
            \o text]

(* recipients is a sequence of members.  The preamble goes in front of the *)
(* IV and is not looked for by anybody who decrypts.                       *)
EncryptMultiple(idSize, e, recipients, message, preamble, signer) ==
  LET text == Signed(signer, message)
      m    == [dataLength |-> Len(text), ids |-> [i \in DOMAIN recipients |-> Id(recipients[i])],
               keys |-> KeysFor(recipients, e), key |-> e]
  IN  IF Len(text) > MaxDataSize \/ recipients = <<>> THEN Refused
      ELSE SealMessage(m, BuildHeader(idSize, m), preamble, text,
                       CalculateOverhead(idSize, Len(recipients)))

(* An id size of zero stands for an old message and gives way to the       *)
(* configured one.                                                         *)
SizesIn(idSize, data) ==
  LET sizes == data[5]
  IN  [id |-> IF sizes[1] # "sizes" THEN Garbage ELSE IF sizes[2] > 0 THEN sizes[2] ELSE idSize,
       text |-> IF sizes[1] = "sizes" THEN sizes[3] ELSE Garbage,
       count |-> NumberIn(data[6])]

(* A message without data is refused. *)
HeaderParts(data, size) ==
  LET keysAt == HeaderSize + size.count * size.id
      end    == keysAt + size.count * EncryptedKeySize
      entries(from, length) ==
        [i \in 1 .. size.count |-> Slice(data, from + (i - 1) * length, from + i * length)]
  IN  IF \/ size.text <= 0 \/ size.text > MaxDataSize
         \/ size.count <= 0 \/ size.count > MaxRecipients \/ Len(data) < end
      THEN Refused
      ELSE [ok |-> TRUE, dataLength |-> size.text,
            ids |-> entries(HeaderSize, size.id), keys |-> entries(keysAt, EncryptedKeySize),
            key |-> IF data[4][1] = "key" THEN data[4][2] ELSE Garbage, headerSize |-> end]

ParseMultiEncryptedHeader(idSize, data) ==
  IF /\ Len(data) >= HeaderSize
     /\ data[1] = VersionCell /\ data[2] = SuiteCell /\ data[3] = Cell("multiple")
  THEN HeaderParts(data, SizesIn(idSize, data)) ELSE Refused

WithMessage(header, data) ==
  IF ~header.ok THEN Refused
  ELSE [ok |-> TRUE, dataLength |-> header.dataLength, ids |-> header.ids, keys |-> header.keys,
        key |-> header.key, headerSize |-> header.headerSize,
        encryptedMessage |-> Slice(data, header.headerSize, Len(data))]

ParseMultiEncryptedBuffer(idSize, data) ==
  WithMessage(ParseMultiEncryptedHeader(idSize, data), data)

(* The position of the first entry with the id of p, 0 when there is none. *)
RecipientIndex(ids, p) ==
  LET found == {i \in DOMAIN ids : ids[i] = Id(p)}
  IN  IF found = {} THEN 0 ELSE CHOOSE i \in found : \A j \in found : i <= j

(* The tag is compared with the one the key and the header give. *)
OpenSealed(key, header, sealed, dataLength, sender) ==
  LET text == Slice(sealed, 2, Len(sealed))
  IN  IF ~key.ok \/ ~header.ok \/ Len(sealed) < 2 THEN Refused
      ELSE IF sealed[2] # TagCell(key.key, header.cells, sealed[1], text) THEN Refused
      ELSE IF Len(text) # dataLength THEN Refused
      ELSE VerifiedMessage(sender, text)

(* decryptMultipleECIEForRecipient by member p, whose private key may not  *)
(* be loaded.  The header is built again from what was parsed, with the    *)
(* id size of this service.                                                *)
DecryptMultiple(idSize, m, p, keyLoaded, sender) ==
  LET index == RecipientIndex(m.ids, p)
  IN  IF ~keyLoaded \/ index = 0 THEN Refused
      ELSE OpenSealed(DecryptKey(p, m.keys[index], m.key, Id(p)), BuildHeader(idSize, m),
                      m.encryptedMessage, m.dataLength, sender)

(* The form that is given the parts takes the length from the message and  *)
(* the private key with them.                                              *)
DecryptMultipleParts(idSize, encryptedMessage, ids, keys, e, p, sender) ==
  LET index == RecipientIndex(ids, p)
      m     == [dataLength |-> Len(encryptedMessage) - 2, ids |-> ids, keys |-> keys, key |-> e]
  IN  IF index = 0 THEN Refused
      ELSE OpenSealed(DecryptKey(p, keys[index], e, Id(p)), BuildHeader(idSize, m),
                      encryptedMessage, m.dataLength, sender)

(* decryptMultipleForRecipient of the processor: the caller brings the     *)
(* private key.  parseMessage is ParseMultiEncryptedBuffer.                *)
DecryptMultipleForRecipient(idSize, data, p, sender) ==
  LET m == ParseMultiEncryptedBuffer(idSize, data)
  IN  IF m.ok THEN DecryptMultiple(idSize, m, p, TRUE, sender) ELSE Refused

(* The processor's encryptKey and decryptKey: a key for one recipient,     *)
(* with no id authenticated beside it.                                     *)
EncryptKeyAlone(p, e, k) == <<KeyCell(e)>> \o EncryptKey(p, e, k, <<>>)

DecryptKeyAlone(p, data) ==
  IF data = <<>> THEN Refused
  ELSE IF data[1][1] # "key" THEN Refused
  ELSE DecryptKey(p, Tail(data), data[1][2], <<>>)

-----------------------------------------------------------------------------
(* Chunks: magic, version, recipient count, index, size, encrypted size,   *)
(* flags, key and padding: 64 bytes.                                       *)
ChunkHeaderSize == 9

(* An id is copied into the room there is for it. *)
Fitted(id, idSize) ==
  [i \in 1 .. idSize |-> IF i <= Len(id) THEN id[i] ELSE Cell("zero")]

ChunkHeader(idSize, e, k, recipients, length, index, isLast) ==
  <<Cell("ECIE"), VersionCell, <<"number", Len(recipients)>>, <<"number", index>>,
    <<"number", length>>, <<"number", length + 1>>, <<"number", IF isLast THEN 1 ELSE 0>>,
    KeyCell(e), Cell("zero")>>
    \o FlattenSeq([i \in DOMAIN recipients |->
         Fitted(Id(recipients[i]), idSize) \o <<<<"number", EncryptedKeySize>>>>
           \o EncryptKey(recipients[i], e, k, Id(recipients[i]))])

SealChunk(header, e, k, text) ==
  [ok |-> TRUE, cells |-> header \o <<IvCell(e)>> \o text
                           \o <<TagCell(SymmetricCell(k), header, IvCell(e), text)>>]

EncryptChunk(idSize, e, k, recipients, data, index, isLast, signer) ==
  LET text == Signed(signer, data)
  IN  IF index < 0 \/ Len(text) > MaxDataSize THEN Refused
      ELSE SealChunk(ChunkHeader(idSize, e, k, recipients, Len(text), index, isLast), e, k, text)

(* Where the recipient header at an offset ends. *)
EntryEnd(idSize, data, offset) ==
  LET keyAt == offset + idSize + 1
  IN  IF keyAt > Len(data) THEN offset ELSE keyAt + NumberIn(data[keyAt])

(* The recipient headers of a chunk: where they end, and their entries.    *)
(* Reading a key size behind the end throws.                               *)
RecipientHeaders(idSize, data, count) ==
  LET End[i \in 0 .. count] ==
        IF i = 0 THEN ChunkHeaderSize ELSE EntryEnd(idSize, data, End[i - 1])
  IN  [ok |-> \A i \in 1 .. count : End[i - 1] + idSize + 1 <= Len(data),
       end |-> End[count],
       entries |-> [i \in 1 .. count |->
                     [id |-> Slice(data, End[i - 1], End[i - 1] + idSize),
                      key |-> Slice(data, End[i - 1] + idSize + 1, End[i])]]]

(* Every entry with the id is opened; the key of the last one is taken. *)
KeyFromEntries(p, entries, key) ==
  LET mine    == {i \in DOMAIN entries : entries[i].id = Id(p)}
      last    == CHOOSE i \in mine : \A j \in mine : j <= i
      keyAt(i) == DecryptKey(p, entries[i].key, key[2], Id(p))
  IN  IF mine = {} \/ key[1] # "key" \/ \E i \in mine : ~keyAt(i).ok THEN Refused
      ELSE keyAt(last)

(* What lies between the headers and the size written in them: IV, text    *)
(* and tag.                                                                *)
OpenBody(key, header, iv, body, sender) ==
  IF ~key.ok \/ body = <<>> THEN Refused
  ELSE IF Last(body) # TagCell(key.key, header, iv, Front(body)) THEN Refused
  ELSE VerifiedMessage(sender, Front(body))

DecryptAfterHeaders(data, headers, p, sender) ==
  IF ~headers.ok \/ headers.end >= Len(data) THEN Refused
  ELSE OpenBody(KeyFromEntries(p, headers.entries, data[8]), Slice(data, 0, headers.end),
                data[headers.end + 1],
                Slice(data, headers.end + 1, headers.end + 1 + NumberIn(data[6])), sender)

ChunkResult(opened, data) ==
  IF opened.ok
  THEN [ok |-> TRUE, decrypted |-> opened.decrypted, index |-> NumberIn(data[4]),
        isLast |-> data[7] = <<"number", 1>>]
  ELSE Refused

DecryptChunk(idSize, data, p, sender) ==
  IF Len(data) < ChunkHeaderSize THEN Refused
  ELSE IF data[1] # Cell("ECIE") \/ data[2] # VersionCell THEN Refused
  ELSE IF NumberIn(data[3]) > Len(data) THEN Refused
  ELSE ChunkResult(DecryptAfterHeaders(data, RecipientHeaders(idSize, data, NumberIn(data[3])),
                                       p, sender), data)
=============================================================================
