------------------------------ MODULE SecureBuffers ------------------------------
(***************************************************************************)
(* src/secure-buffer.ts.  The key that obfuscates a SecureBuffer is its    *)
(* id, in the same Buffer that idBuffer hands out.                         *)
(*                                                                         *)
(* The XOR of things is their symmetric difference, with {} for zeros.     *)
(***************************************************************************)
EXTENDS Integers, Sequences

CONSTANTS
  Data,            \* what is put into buffers
  MaxBuffers       \* bound: buffers that are made

VARIABLES
  secures,         \* the SecureBuffers
  ids              \* what the Buffer _id of each holds

secureVars == <<secures, ids>>

Nothing == "nothing"
Zeros == {}

Xor(a, b) == (a \ b) \union (b \ a)

(* What was put in, and its checksum.                                      *)
Put(d) == IF d = Nothing THEN {} ELSE {<<"data", d>>}
Sum(put) == {<<"checksum", put>>}

SecureInit == secures = <<>> /\ ids = <<>>

(* A buffer without data has an id and an empty key; data, handed and      *)
(* copied are history.                                                     *)
CreateSecure(d) ==
  LET key == {<<"id", Len(secures) + 1>>}
  IN  /\ Len(secures) < MaxBuffers
      /\ ids' = Append(ids, key)
      /\ secures' = Append(secures,
           [data |-> d, disposed |-> FALSE, handed |-> FALSE, copied |-> FALSE,
            value |-> IF d = Nothing THEN Zeros ELSE Xor(Put(d), key),
            checksum |-> IF d = Nothing THEN Zeros ELSE Xor(Sum(Put(d)), key)])

(* dispose may be called again, and works on a buffer without data, whose  *)
(* id stays.                                                               *)
DisposeSecure(b) ==
  /\ secures' = [secures EXCEPT ![b].value = Zeros, ![b].checksum = Zeros, ![b].disposed = TRUE]
  /\ ids' = IF secures[b].data = Nothing THEN ids ELSE [ids EXCEPT ![b] = Zeros]

(* Mistake the runs must notice: only the key is overwritten.              *)
DisposeSecureKeyOnly(b) ==
  /\ secures' = [secures EXCEPT ![b].disposed = TRUE]
  /\ ids' = IF secures[b].data = Nothing THEN ids ELSE [ids EXCEPT ![b] = Zeros]

(* id and idUint8Array are copies, idBuffer is the Buffer itself.          *)
CopyId(b) ==
  /\ ~secures[b].disposed
  /\ secures' = [secures EXCEPT ![b].copied = TRUE]
  /\ UNCHANGED ids

HandOutId(b) ==
  /\ ~secures[b].disposed
  /\ secures' = [secures EXCEPT ![b].handed = TRUE]
  /\ UNCHANGED ids

(* Somebody writes to what idBuffer has given.                             *)
WriteId(b) ==
  /\ secures[b].handed
  /\ ids' = [ids EXCEPT ![b] = {<<"written", b>>}]
  /\ UNCHANGED secures

SecureNext ==
  \/ \E d \in Data \union {Nothing} : CreateSecure(d)
  \/ \E b \in DOMAIN secures : DisposeSecure(b) \/ CopyId(b) \/ HandOutId(b) \/ WriteId(b)

-----------------------------------------------------------------------------
Disposed == {"disposed"}
Mismatch == {"checksum mismatch"}

(* The getter value: what is read must have the checksum it was put in     *)
(* with.                                                                   *)
ValueOf(b) ==
  LET s == secures[b]
      read == Xor(s.value, ids[b])
  IN  CASE s.disposed -> Disposed
        [] ~s.disposed /\ s.data = Nothing -> {}
        [] OTHER -> IF Xor(s.checksum, ids[b]) = Sum(read) THEN read ELSE Mismatch

(* A buffer gives what was put in or an error, and always what was put in  *)
(* while nobody has written to its id.  After dispose nothing that is left *)
(* gives the data, not even with a copy of the id, which is the key.       *)
SecuresHold ==
  \A b \in DOMAIN secures :
    LET s == secures[b]
        id == {<<"id", b>>}
        copies == IF s.copied THEN {id} ELSE {}
    IN  /\ ~s.disposed /\ ids[b] = id => ValueOf(b) = Put(s.data)
        /\ ~s.disposed => ValueOf(b) \in {Put(s.data), Mismatch}
        /\ s.disposed /\ s.data # Nothing => \A k \in copies \union {ids[b], Zeros} :
             /\ Xor(s.value, k) # Put(s.data)
             /\ Xor(s.checksum, k) # Sum(Put(s.data))
=============================================================================
