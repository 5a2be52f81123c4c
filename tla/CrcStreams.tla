------------------------------ MODULE CrcStreams ------------------------------
(***************************************************************************)
(* src/services/crc.ts: checksums of buffers and of what a Readable gives. *)
(* The crc package is taken to tell any two sequences of cells apart,      *)
(* which a CRC does only as far as its width goes, and to go on from a     *)
(* value it gave before; a value is a cell.                                *)
(***************************************************************************)
EXTENDS Integers, Sequences

VARIABLE crc   \* one call of crc8Async, crc16Async or crc32Async on a Readable

(* The value of data when the value of what came before is known.          *)
Crc(data, previous) == <<"crc", previous[2] \o data>>

NothingYet == <<"crc", <<>>>>

(* crc8, crc16 and crc32 of a buffer.                                      *)
CrcOfBuffer(data) == Crc(data, NothingYet)

(* crc8 and crc16 keep the value so far, crc32 keeps the chunks, which are *)
(* joined here as they come.                                               *)
CrcInit == crc = [state |-> "open", value |-> NothingYet, chunks |-> <<>>]

CrcData(chunk) ==
  crc' = IF crc.state = "open"
         THEN [crc EXCEPT !.value = Crc(chunk, @), !.chunks = @ \o chunk]
         ELSE crc

CrcEnd == crc.state = "open" /\ crc' = [crc EXCEPT !.state = "resolved"]

CrcError == crc.state = "open" /\ crc' = [crc EXCEPT !.state = "rejected"]

(* What crc8Async and crc16Async resolve to, and crc32Async.               *)
RunningValue == crc.value

Crc32Value == CrcOfBuffer(crc.chunks)

(* verifyCrc with a buffer: only its first bytes are read, and a short one *)
(* throws.  verifyCrcAsync compares the whole buffer.                      *)
VerifyCrc(data, expected) == expected # <<>> /\ CrcOfBuffer(data) = Head(expected)

VerifyCrcAsync(value, expected) == <<value>> = expected

(* However the data is cut into chunks, the three sums of a stream are     *)
(* those of the whole buffer, and whatever the asynchronous form accepts   *)
(* the other one accepts too.                                              *)
SumsAgree(data, expected) ==
  crc.state = "resolved" =>
    /\ RunningValue = CrcOfBuffer(data) /\ Crc32Value = CrcOfBuffer(data)
    /\ VerifyCrcAsync(RunningValue, expected) => VerifyCrc(data, expected)
=============================================================================
