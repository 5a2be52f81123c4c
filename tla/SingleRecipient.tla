---------------------------- MODULE SingleRecipient ----------------------------
(***************************************************************************)
(* The message format for one recipient,                                   *)
(* src/services/ecies/single-recipient.ts, and the sizes the service       *)
(* computes for it.                                                        *)
(*                                                                         *)
(* A buffer is a sequence of cells, a cell being a header field or a byte  *)
(* of data, written <<kind, ...>>.  AES-GCM and ECDH are what they         *)
(* promise: a tag is made for one key, IV, header and text, and the key is *)
(* the one of an ephemeral and a recipient key.  Every operator returns    *)
(* Refused where the code throws.                                          *)
(***************************************************************************)
EXTENDS Integers, Sequences

CONSTANT MaxDataSize   \* MAX_RAW_DATA_SIZE

Refused == [ok |-> FALSE]

Cell(kind) == <<kind>>
VersionCell == Cell("version 1")
SuiteCell == Cell("secp256k1 aes256gcm")
KeyCell(e) == <<"key", e>>
IvCell(e) == <<"iv", e>>
TagCell(key, aad, iv, text) == <<"tag", key, aad, iv, text>>

(* Bytes of users, none of which is a field or a digest of a format. *)
FormatKinds ==
  {"version 1", "secp256k1 aes256gcm", "basic", "withLength", "multiple", "ECIE", "zero", "key",
   "iv", "tag", "number", "sizes", "symmetric key", "signature"}

IsBytes(s) == s \in Seq({s[i] : i \in DOMAIN s}) /\ \A i \in DOMAIN s : s[i][1] \notin FormatKinds

(* What is read as a number where no number was written: too large. *)
Garbage == 1000
NumberIn(cell) == IF cell[1] = "number" THEN cell[2] ELSE Garbage

(* buffer.subarray(from, to), which stops at the end of the buffer. *)
Slice(s, from, to) == SubSeq(s, from + 1, IF to < Len(s) THEN to ELSE Len(s))

(* computeSharedSecret and deriveSharedKey: the same from both sides. *)
SharedKey(e, p) == <<"shared", e, p>>

-----------------------------------------------------------------------------
(* version, suite, type, key, iv and tag: 64 bytes; with length 72. *)
GetHeaderSize(type) == IF type = "withLength" THEN 7 ELSE 6

ComputeEncryptedLengthFromDataLength(dataLength, type) == dataLength + GetHeaderSize(type)

ComputeDecryptedLengthFromEncryptedDataLength(encryptedLength, padding) ==
  encryptedLength - GetHeaderSize("withLength") - padding

(* Mistake the runs must notice: the preamble is not authenticated. *)
AadWithoutPreamble(preamble, type, e) == <<VersionCell, SuiteCell, Cell(type), KeyCell(e)>>

Aad(preamble, type, e) ==
  preamble \o <<VersionCell, SuiteCell, Cell(type), KeyCell(e)>>

SealSingle(type, e, p, message, preamble) ==
  preamble
    \o <<VersionCell, SuiteCell, Cell(type), KeyCell(e), IvCell(e),
         TagCell(SharedKey(e, p), Aad(preamble, type, e), IvCell(e), message)>>
    \o (IF type = "withLength" THEN <<<<"number", Len(message)>>>> ELSE <<>>)
    \o message

(* encrypt for the owner of key p with the ephemeral key e. *)
EncryptSingle(type, e, p, message, preamble) ==
  IF type = "multiple" \/ message = <<>> \/ Len(message) > MaxDataSize THEN Refused
  ELSE [ok |-> TRUE, cells |-> SealSingle(type, e, p, message, preamble)]

NoLength == -1   \* options.dataLength not given

(* Version, suite and type are read before the size is looked at, and the  *)
(* smallest size asked for does not include the preamble; type "any"       *)
(* stands for undefined.                                                   *)
AcceptsHeader(type, data, preambleSize) ==
  /\ Len(data) >= preambleSize + 3
  /\ data[preambleSize + 1] = VersionCell /\ data[preambleSize + 2] = SuiteCell
  /\ data[preambleSize + 3] \in {Cell("basic"), Cell("withLength")}
  /\ type = "any" \/ data[preambleSize + 3] = Cell(type)
  /\ Len(data) >= GetHeaderSize(data[preambleSize + 3][1])

(* The length written in a message must be the expected one, if there is   *)
(* one, and the text must be that long.                                    *)
Parsed(type, data, preambleSize, dataLength) ==
  LET at(k)  == data[preambleSize + k]
      start  == preambleSize + GetHeaderSize(type)
      length == IF type = "withLength" THEN NumberIn(at(7)) ELSE dataLength
      end    == IF length > 0 THEN start + length ELSE Len(data)
  IN  IF Len(data) < start \/ at(4)[1] # "key" THEN Refused
      ELSE IF type = "withLength"
              /\ (dataLength \notin {NoLength, length} \/ Len(Slice(data, start, end)) # length)
      THEN Refused
      ELSE [ok |-> TRUE, preamble |-> Slice(data, 0, preambleSize), type |-> type,
            key |-> at(4)[2], iv |-> at(5), tag |-> at(6), dataLength |-> length,
            headerSize |-> GetHeaderSize(type), data |-> Slice(data, start, end),
            remainder |-> IF type = "withLength" THEN Slice(data, start + length, Len(data)) ELSE <<>>]

ParseEncryptedMessage(type, data, preambleSize, dataLength) ==
  IF AcceptsHeader(type, data, preambleSize)
  THEN Parsed(data[preambleSize + 3][1], data, preambleSize, dataLength) ELSE Refused

DecryptWithComponents(p, e, iv, tag, encrypted, aad) ==
  IF encrypted # <<>> /\ tag = TagCell(SharedKey(e, p), aad, iv, encrypted)
  THEN [ok |-> TRUE, decrypted |-> encrypted]
  ELSE Refused

(* consumedBytes counts neither the preamble nor, for a basic message      *)
(* whose length was not given, the data.                                   *)
OpenParsed(p, parsed) ==
  IF /\ parsed.ok
     /\ DecryptWithComponents(p, parsed.key, parsed.iv, parsed.tag, parsed.data,
                              Aad(parsed.preamble, parsed.type, parsed.key)).ok
  THEN [ok |-> TRUE, decrypted |-> parsed.data,
        consumedBytes |-> parsed.dataLength + parsed.headerSize]
  ELSE Refused

DecryptWithHeaderEx(type, p, data, preambleSize, dataLength) ==
  OpenParsed(p, ParseEncryptedMessage(type, data, preambleSize, dataLength))

(* decryptWithHeader, the form that gives the text only. *)
Plain(opened) == IF opened.ok THEN [ok |-> TRUE, decrypted |-> opened.decrypted] ELSE Refused

DecryptWithHeader(type, p, data, preambleSize, dataLength) ==
  Plain(DecryptWithHeaderEx(type, p, data, preambleSize, dataLength))

(* The service's decryptWithLengthAndHeader and decryptBasicWithHeader. *)
DecryptWithLengthAndHeader(p, data) == DecryptWithHeader("withLength", p, data, 0, NoLength)

DecryptBasicWithHeader(p, data) == DecryptWithHeader("basic", p, data, 0, NoLength)
=============================================================================
