---------------------------------- MODULE Guids ----------------------------------
(***************************************************************************)
(* src/lib/guid.ts and the providers that use it.  A GuidBuffer is a       *)
(* Buffer: its bytes can be written by everybody who holds it, while its   *)
(* string forms and its version are kept from the first time on.  What is  *)
(* a valid GUID is decided by GuidUint8Array of @digitaldefiance/ecies-lib. *)
(*                                                                         *)
(* A value stands for 16 bytes, a form of it is <<format, value>>.         *)
(***************************************************************************)
EXTENDS Integers, Sequences

CONSTANTS
  MaxGuids,     \* bound: GuidBuffers that are made
  Given         \* bound: the values they are made of and written with

VARIABLES
  memory,             \* the bytes of each cell of memory
  guids,              \* the GuidBuffers
  emptyGuid           \* GuidBuffer._empty, or 0

guidVars == <<memory, guids, emptyGuid>>

Unread == "unread"
NoVersion == -1

(* "v4 digits" is one whose hex form has no letter.                        *)
GuidValues == {"nil", "max", "v1", "v4", "v4 digits"}

GetVersion(v) == CASE v = "v1" -> 1 [] v \in {"v4", "v4 digits"} -> 4 [] OTHER -> 0

IsValidV4(v) == v \in {"nil", "max"} \/ GetVersion(v) = 4

(* GuidBuffer.parse of a form; a hex form of digits is still 32 or 36      *)
(* characters long.                                                        *)
Parse(form) == IF form[1] = "url-safe base64" THEN Unread ELSE form[2]

FromUrlSafeBase64(form) == form[2]

(* parseSafe: digits are a number before they are anything else.           *)
ParseSafe(form) ==
  CASE form[1] = "url-safe base64" -> FromUrlSafeBase64(form)
    [] form[1] = "hex" /\ form[2] = "v4 digits" -> "another"
    [] OTHER -> Parse(form)

(* The GuidV4Provider.                                                     *)
Serialize(v) == <<"base64", v>>
Deserialize(form) == Parse(form)
IdToString(v) == <<"hex", v>>
OnlyV4(v) == IF GetVersion(v) = 4 THEN v ELSE Unread
IdFromString(form) == OnlyV4(Parse(form))
FromBytes(v) == OnlyV4(v)

-----------------------------------------------------------------------------
GuidInit ==
  /\ memory = <<>> /\ guids = <<>> /\ emptyGuid = 0

(* A GuidBuffer on a cell; given, written are history.                     *)
GuidOn(cell, v, version) ==
  [cell |-> cell, fullHex |-> Unread, shortHex |-> Unread, base64 |-> Unread,
   version |-> version, given |-> v, written |-> FALSE]

CreateFromBytes(v, version) ==
  /\ Len(guids) < MaxGuids
  /\ memory' = Append(memory, v)
  /\ guids' = Append(guids, GuidOn(Len(memory) + 1, v, version))

(* The constructor and create attach no version; parse, the factories and  *)
(* generate do.                                                            *)
NewGuid(v) == CreateFromBytes(v, NoVersion) /\ UNCHANGED emptyGuid

ParseGuid(v) == CreateFromBytes(v, GetVersion(v)) /\ UNCHANGED emptyGuid

Bytes(g) == memory[guids[g].cell]

Cached(g, field) == IF guids[g][field] = Unread THEN Bytes(g) ELSE guids[g][field]

(* asFullHexGuid, asShortHexGuid or asBase64Guid, and what reads them:     *)
(* isValidV4, toDebugString, toString, serialize, toJson, idToString.      *)
Ask(g, field) ==
  /\ guids' = [guids EXCEPT ![g][field] = Cached(g, field)]
  /\ UNCHANGED <<memory, emptyGuid>>

(* Mistake the runs must notice: the clone is a view of the same memory.   *)
CloneGuidSharing(g) ==
  /\ Len(guids) < MaxGuids
  /\ guids' = Append(guids, GuidOn(guids[g].cell, Bytes(g), GetVersion(Bytes(g))))
  /\ UNCHANGED <<memory, emptyGuid>>

CloneGuid(g) == CreateFromBytes(Bytes(g), GetVersion(Bytes(g))) /\ UNCHANGED emptyGuid

(* The provider's clone parses the hex form, which may be kept from        *)
(* before.                                                                 *)
ProviderClone(g) ==
  LET v == Cached(g, "fullHex")
  IN  /\ Len(guids) < MaxGuids
      /\ memory' = Append(memory, v)
      /\ guids' = Append([guids EXCEPT ![g].fullHex = v],
                         GuidOn(Len(memory) + 1, v, GetVersion(v)))
      /\ UNCHANGED emptyGuid

(* GuidBuffer.Empty: made at the first use, and then everybody's.          *)
Empty ==
  /\ emptyGuid = 0
  /\ CreateFromBytes("nil", NoVersion)
  /\ emptyGuid' = Len(guids')

(* A holder writes to it, or to what asBuffer, asPlatformBuffer,           *)
(* asRawGuidPlatformBufferUnsafe or toRawGuidBuffer give.                  *)
WriteBytes(g, v) ==
  /\ v # Bytes(g)
  /\ memory' = [memory EXCEPT ![guids[g].cell] = v]
  /\ guids' = [guids EXCEPT ![g].written = TRUE]
  /\ UNCHANGED emptyGuid

GuidNext ==
  \/ \E v \in Given : NewGuid(v) \/ ParseGuid(v)
  \/ Empty
  \/ \E g \in DOMAIN guids :
       \/ \E field \in {"fullHex", "shortHex", "base64"} : Ask(g, field)
       \/ CloneGuid(g)
       \/ ProviderClone(g)
       \/ \E v \in Given : WriteBytes(g, v)

-----------------------------------------------------------------------------
(* guidEquals, equals, compareTo and hashCode look at the bytes.           *)
GuidEquals(g, h) == Bytes(g) = Bytes(h)

(* A GuidBuffer nobody has written to keeps its value, whatever is done to *)
(* the ones it was cloned from or that were cloned from it; its string     *)
(* forms and its version are those of its bytes, so that two that are      *)
(* equal have the same forms.                                              *)
GuidsKeepTheirValue ==
  /\ \A g \in DOMAIN guids : ~guids[g].written =>
       /\ Bytes(g) = guids[g].given
       /\ guids[g].version \in {NoVersion, GetVersion(Bytes(g))}
  /\ \A g, h \in DOMAIN guids :
       ~guids[g].written /\ ~guids[h].written /\ GuidEquals(g, h) =>
         \A field \in {"fullHex", "shortHex", "base64"} : Cached(g, field) = Cached(h, field)

(* What the provider writes it reads again, in every format, for the       *)
(* values it takes as ids; nil and the maximal value pass validate and are *)
(* refused by fromBytes.  A hex form of digits comes back from             *)
(* idFromString and is another GUID to parseSafe.                          *)
FormsComeBack ==
  \A v \in GuidValues :
    /\ Deserialize(Serialize(v)) = v
    /\ FromBytes(v) # Unread => IsValidV4(v) /\ IdFromString(IdToString(v)) = v
    /\ \A format \in {"hex", "base64", "int"} :
         v # "v4 digits" \/ format # "hex" => ParseSafe(<<format, v>>) = v
=============================================================================
