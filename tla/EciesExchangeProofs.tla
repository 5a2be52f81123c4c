-------------------------- MODULE EciesExchangeProofs --------------------------
(***************************************************************************)
(* Proof that whatever opens was sent.  AllMade is the invariant: every    *)
(* tag in a message, in the file being encrypted and in the buffer that    *)
(* arrives was made for a message that is listed, with its key, header and *)
(* text.  The rest reads the formats: to open anything is to find a tag    *)
(* among the cells that arrived, and a tag tells what it was made for.     *)
(* Then, that an encrypted file comes back from what arrives of it.        *)
(***************************************************************************)
EXTENDS EciesExchange, SequenceTheorems, WellFoundedInduction, TLAPS

(* Sequences and their parts. *)
IsSequence(s) == s \in Seq(Range(s))

(* A sequence over a set is one over its range.                            *)
LEMMA SequenceOver ==
  ASSUME NEW T, NEW s \in Seq(T)
  PROVE  IsSequence(s) /\ Range(s) \subseteq T
BY SeqOfRange, RangeOfSeq DEF IsSequence

(* Length, domain and elements of a sequence.                              *)
LEMMA SequenceIs ==
  ASSUME NEW s, IsSequence(s)
  PROVE  /\ Len(s) \in Nat /\ DOMAIN s = 1 .. Len(s)
         /\ \A i \in 1 .. Len(s) : s[i] \in Range(s)
         /\ Range(s) = {s[i] : i \in 1 .. Len(s)}
         /\ \A T : Range(s) \subseteq T => s \in Seq(T)
<1>1. s \in Seq(Range(s))
  BY DEF IsSequence
<1>2. Len(s) \in Nat /\ DOMAIN s = 1 .. Len(s) /\ \A i \in 1 .. Len(s) : s[i] \in Range(s)
  BY <1>1, LenProperties, ElementOfSeq
<1>3. Range(s) = {s[i] : i \in 1 .. Len(s)}
  BY <1>1, RangeEquality
<1>4. ASSUME NEW T, Range(s) \subseteq T PROVE s \in Seq(T)
  BY <1>1, <1>4, SeqMonotonic
<1> QED
  BY <1>2, <1>3, <1>4

(* What two sequences one after the other consist of.                      *)
LEMMA Joined ==
  ASSUME NEW s, NEW t, IsSequence(s), IsSequence(t)
  PROVE  /\ IsSequence(s \o t) /\ Range(s \o t) = Range(s) \union Range(t)
         /\ Len(s \o t) = Len(s) + Len(t)
         /\ \A i \in 1 .. Len(s) : (s \o t)[i] = s[i]
         /\ \A i \in 1 .. Len(t) : (s \o t)[Len(s) + i] = t[i]
<1> DEFINE T == Range(s) \union Range(t)
<1>1. s \in Seq(T) /\ t \in Seq(T)
  BY SequenceIs
<1> HIDE DEF T
<1>2. /\ s \o t \in Seq(T) /\ Len(s \o t) = Len(s) + Len(t)
      /\ \A i \in 1 .. Len(s) + Len(t) :
           (s \o t)[i] = IF i <= Len(s) THEN s[i] ELSE t[i - Len(s)]
  BY <1>1, ConcatProperties
<1>3. Range(s \o t) = Range(s) \union Range(t)
  BY <1>1, RangeConcatenation
<1>4. IsSequence(s \o t)
  BY <1>2, SequenceOver
<1> DEFINE u == s \o t
           m == Len(s)
           n == Len(t)
<1>5. m \in Nat /\ n \in Nat
  BY SequenceIs
<1>6. \A i \in 1 .. m + n : u[i] = IF i <= m THEN s[i] ELSE t[i - m]
  BY <1>2
<1> HIDE DEF u, m, n
<1>7. \A i \in 1 .. m : u[i] = s[i]
  BY <1>5, <1>6
<1>8. \A i \in 1 .. n : u[m + i] = t[i]
  <2> SUFFICES ASSUME NEW i \in 1 .. n PROVE u[m + i] = t[i]
    OBVIOUS
  <2>1. m + i \in 1 .. m + n /\ ~(m + i <= m) /\ (m + i) - m = i
    BY <1>5
  <2> QED
    BY <1>6, <2>1
<1> QED
  BY <1>2, <1>3, <1>4, <1>7, <1>8, Zenon DEF u, m, n

(* How many cells a slice has, and which.                                  *)
LEMMA Sliced ==
  ASSUME NEW s, IsSequence(s), NEW from \in Nat, NEW to \in Int
  PROVE  LET end == IF to < Len(s) THEN to ELSE Len(s)
             p   == Slice(s, from, to)
         IN  /\ IsSequence(p) /\ Range(p) \subseteq Range(s)
             /\ Len(p) = IF from < end THEN end - from ELSE 0
             /\ \A i \in 1 .. Len(p) : p[i] = s[from + i] /\ from + i \in 1 .. Len(s)
<1> DEFINE n == Len(s)
           end == IF to < n THEN to ELSE n
           m == from + 1
           p == SubSeq(s, m, end)
<1>1. n \in Nat /\ \A i \in 1 .. n : s[i] \in Range(s)
  BY SequenceIs
<1> HIDE DEF n
<1>2. m \in Int /\ end \in Int /\ end <= n /\ m >= 1
  BY <1>1
<1>3. end - m + 1 = end - from /\ (m <= end <=> from < end)
      /\ \A i \in 1 .. end - from : m + i - 1 = from + i /\ from + i \in 1 .. n
  BY <1>1, <1>2
<1> HIDE DEF m, end
<1>4. \A i \in m .. end : i \in 1 .. n
  BY <1>1, <1>2
<1>5. /\ p \in Seq(Range(s)) /\ Len(p) = IF m <= end THEN end - m + 1 ELSE 0
      /\ \A i \in 1 .. end - m + 1 : p[i] = s[m + i - 1]
  BY <1>1, <1>2, <1>4, SubSeqProperties
<1> HIDE DEF p
<1>6. Len(p) = IF from < end THEN end - from ELSE 0
  BY <1>3, <1>5
<1>7. \A i \in 1 .. Len(p) : p[i] = s[from + i] /\ from + i \in 1 .. n
  <2> SUFFICES ASSUME NEW i \in 1 .. Len(p) PROVE p[i] = s[from + i] /\ from + i \in 1 .. n
    OBVIOUS
  <2>1. i \in 1 .. end - from
    BY <1>2, <1>6
  <2> QED
    BY <1>3, <1>5, <2>1
<1>8. IsSequence(p) /\ Range(p) \subseteq Range(s)
  BY <1>5, SequenceOver
<1>9. p = Slice(s, from, to)
  BY Zenon DEF p, m, end, n, Slice
<1> QED
  BY <1>6, <1>7, <1>8, <1>9, Zenon DEF end, n

(* Sequences written out.                                                  *)
LEMMA Shorts ==
  /\ IsSequence(<<>>) /\ Len(<<>>) = 0 /\ Range(<<>>) = {}
  /\ \A a : IsSequence(<<a>>) /\ Len(<<a>>) = 1 /\ Range(<<a>>) = {a}
  /\ \A a, b, c : IsSequence(<<a, b, c>>) /\ Len(<<a, b, c>>) = 3 /\ Range(<<a, b, c>>) = {a, b, c}
<1>1. IsSequence(<<>>) /\ Len(<<>>) = 0 /\ Range(<<>>) = {}
  BY DEF IsSequence, Range
<1>2. ASSUME NEW a PROVE IsSequence(<<a>>) /\ Len(<<a>>) = 1 /\ Range(<<a>>) = {a}
  <2>1. <<a>> \in Seq({a}) /\ Len(<<a>>) = 1
    OBVIOUS
  <2>2. Range(<<a>>) = {a}
    BY DEF Range
  <2> QED
    BY <2>1, <2>2, SequenceOver
<1>3. ASSUME NEW a, NEW b, NEW c
      PROVE  IsSequence(<<a, b, c>>) /\ Len(<<a, b, c>>) = 3 /\ Range(<<a, b, c>>) = {a, b, c}
  <2>1. <<a, b, c>> \in Seq({a, b, c}) /\ Len(<<a, b, c>>) = 3
    OBVIOUS
  <2>2. Range(<<a, b, c>>) = {a, b, c}
    BY DEF Range
  <2> QED
    BY <2>1, <2>2, SequenceOver
<1> QED
  BY <1>1, <1>2, <1>3

(* A set of numbers that has 0, and n + 1 with n, has all numbers.          *)
LEMMA LeastNumber ==
  ASSUME NEW T \in SUBSET Nat, T # {}
  PROVE  \E x \in T : \A y \in T : x <= y
<1> DEFINE R == OpToRel(<, Nat)
<1>1. IsWellFoundedOn(R, Nat)
  BY NatLessThanWellFounded
<1>2. \A x, y \in Nat : y < x => <<y, x>> \in R
  BY DEF OpToRel
<1> HIDE DEF R
<1>3. PICK x \in T : \A y \in T : ~(<<y, x>> \in R)
  BY <1>1, WFMin
<1>4. ASSUME NEW y \in T PROVE x <= y
  <2>1. x \in Nat /\ y \in Nat /\ ~(<<y, x>> \in R)
    BY <1>3
  <2>2. ~(y < x)
    BY <1>2, <2>1
  <2> QED
    BY <2>1, <2>2
<1> QED
  BY <1>4

(* Induction, stated of a set of numbers.                                  *)
LEMMA NumbersInduction ==
  ASSUME NEW P, 0 \in P, \A n \in Nat : n \in P => n + 1 \in P
  PROVE  \A n \in Nat : n \in P
<1> DEFINE T == Nat \ P
<1>1. SUFFICES ASSUME T # {} PROVE FALSE
  OBVIOUS
<1>2. PICK x \in T : \A y \in T : x <= y
  BY <1>1, LeastNumber
<1>3. x # 0 /\ x \in Nat
  OBVIOUS
<1>4. x - 1 \in Nat /\ x - 1 \in P
  BY <1>2, <1>3
<1> QED
  BY <1>4, <1>3, (x - 1) + 1 = x

-----------------------------------------------------------------------------
(* FlattenSeq: f holds what is flattened of the first i parts.             *)
Flattens(f, seqs, n) ==
  /\ f = [i \in 1 .. n |-> f[i]]
  /\ \A i \in 1 .. n : f[i] = IF i = 1 THEN seqs[i] ELSE f[i - 1] \o seqs[i]

(* There is a function that flattens the first parts, for any number.      *)
LEMMA FlatteningExists ==
  ASSUME NEW seqs, NEW n \in Nat
  PROVE  \E f : f = [i \in 1 .. n |-> IF i = 1 THEN seqs[i] ELSE f[i - 1] \o seqs[i]]
<1> DEFINE P == {k \in Nat : \E f : Flattens(f, seqs, k)}
<1>1. 0 \in P
  <2>1. Flattens([i \in 1 .. 0 |-> 0], seqs, 0)
    BY DEF Flattens
  <2> QED
    BY <2>1
<1>2. ASSUME NEW k \in Nat, k \in P PROVE k + 1 \in P
  <2>1. PICK f : Flattens(f, seqs, k)
    BY <1>2
  <2> DEFINE g == [i \in 1 .. k + 1 |-> IF i <= k THEN f[i]
                                        ELSE IF i = 1 THEN seqs[i] ELSE f[i - 1] \o seqs[i]]
  <2>2. g = [i \in 1 .. k + 1 |-> g[i]]
    OBVIOUS
  <2>3. \A i \in 1 .. k + 1 : g[i] = IF i <= k THEN f[i]
                                     ELSE IF i = 1 THEN seqs[i] ELSE f[i - 1] \o seqs[i]
    OBVIOUS
  <2> HIDE DEF g
  <2>4. ASSUME NEW i \in 1 .. k + 1
        PROVE  g[i] = IF i = 1 THEN seqs[i] ELSE g[i - 1] \o seqs[i]
    <3>1. i # 1 => i - 1 \in 1 .. k + 1 /\ i - 1 <= k /\ i - 1 \in 1 .. k
      OBVIOUS
    <3>2. i # 1 => g[i - 1] = f[i - 1]
      BY <2>3, <3>1
    <3>3. CASE i <= k
      <4>1. i \in 1 .. k
        BY <3>3
      <4>2. g[i] = f[i]
        BY <2>3, <3>3
      <4> QED
        BY <2>1, <3>2, <4>1, <4>2 DEF Flattens
    <3>4. CASE ~(i <= k)
      BY <2>3, <3>2, <3>4
    <3> QED
      BY <3>3, <3>4
  <2>5. Flattens(g, seqs, k + 1)
    BY <2>2, <2>4 DEF Flattens
  <2> QED
    BY <2>5
<1> HIDE DEF P
<1>3. n \in P
  BY <1>1, <1>2, NumbersInduction
<1>4. PICK f : Flattens(f, seqs, n)
  BY <1>3 DEF P
<1> DEFINE g == [i \in 1 .. n |-> IF i = 1 THEN seqs[i] ELSE f[i - 1] \o seqs[i]]
<1>5. \A i \in 1 .. n : f[i] = g[i]
  BY <1>4 DEF Flattens
<1>6. f = [i \in 1 .. n |-> f[i]]
  BY <1>4 DEF Flattens
<1>8. f = g
  BY <1>5, <1>6
<1> QED
  BY <1>8

(* FlattenSeq is the last value of such a function.                        *)
LEMMA FlattenByDefinition ==
  ASSUME NEW seqs, IsSequence(seqs), seqs # <<>>
  PROVE  \E f : Flattens(f, seqs, Len(seqs)) /\ FlattenSeq(seqs) = f[Len(seqs)]
<1> DEFINE n == Len(seqs)
<1>1. n \in Nat /\ n # 0
  BY EmptySeq DEF IsSequence
<1> DEFINE F == CHOOSE f : f = [i \in 1 .. n |-> IF i = 1 THEN seqs[i] ELSE f[i - 1] \o seqs[i]]
<1>2. F = [i \in 1 .. n |-> IF i = 1 THEN seqs[i] ELSE F[i - 1] \o seqs[i]]
  <2> HIDE DEF n
  <2>1. \E f : f = [i \in 1 .. n |-> IF i = 1 THEN seqs[i] ELSE f[i - 1] \o seqs[i]]
    BY <1>1, FlatteningExists
  <2> QED
    BY <2>1, Zenon
<1>3. FlattenSeq(seqs) = F[n]
  <2>1. Len(seqs) # 0
    BY <1>1
  <2> QED
    BY <2>1, Zenon DEF FlattenSeq
<1> HIDE DEF F, n
<1>4. Flattens(F, seqs, n)
  <2>1. F = [i \in 1 .. n |-> F[i]]
    BY <1>2
  <2>2. \A i \in 1 .. n : F[i] = IF i = 1 THEN seqs[i] ELSE F[i - 1] \o seqs[i]
    BY <1>2
  <2> QED
    BY <2>1, <2>2 DEF Flattens
<1> QED
  BY <1>3, <1>4, Zenon DEF n

(* The cells of a flattened sequence are cells of its parts.               *)
LEMMA Flattened ==
  ASSUME NEW seqs, IsSequence(seqs), NEW T, \A i \in 1 .. Len(seqs) : seqs[i] \in Seq(T)
  PROVE  FlattenSeq(seqs) \in Seq(T)
<1>1. CASE seqs = <<>>
  <2>1. FlattenSeq(seqs) = <<>>
    BY <1>1 DEF FlattenSeq
  <2> QED
    BY <2>1
<1>2. CASE seqs # <<>>
  <2> DEFINE n == Len(seqs)
  <2>1. n \in Nat /\ n # 0
    BY <1>2, EmptySeq DEF IsSequence
  <2>2. PICK f : Flattens(f, seqs, Len(seqs)) /\ FlattenSeq(seqs) = f[Len(seqs)]
    BY <1>2, FlattenByDefinition
  <2>3. Flattens(f, seqs, n) /\ FlattenSeq(seqs) = f[n] /\ \A i \in 1 .. n : seqs[i] \in Seq(T)
    BY <2>2
  <2> HIDE DEF n
  <2> DEFINE P == {k \in Nat : k \in 1 .. n => f[k] \in Seq(T)}
  <2>4. 0 \in P
    OBVIOUS
  <2>5. ASSUME NEW k \in Nat, k \in P PROVE k + 1 \in P
    <3> SUFFICES ASSUME k + 1 \in 1 .. n PROVE f[k + 1] \in Seq(T)
      OBVIOUS
    <3>1. (k + 1) - 1 = k /\ (k + 1 = 1 <=> k = 0)
      OBVIOUS
    <3>2. f[k + 1] = IF k = 0 THEN seqs[k + 1] ELSE f[k] \o seqs[k + 1]
      BY <2>3, <3>1 DEF Flattens
    <3>3. seqs[k + 1] \in Seq(T)
      BY <2>3
    <3>4. k # 0 => f[k] \in Seq(T)
      BY <2>1, <2>5
    <3> QED
      BY <3>2, <3>3, <3>4, ConcatProperties
  <2> HIDE DEF P
  <2>6. n \in P
    BY <2>1, <2>4, <2>5, NumbersInduction
  <2> QED
    BY <2>1, <2>3, <2>6 DEF P
<1> QED
  BY <1>1, <1>2

-----------------------------------------------------------------------------
(* The tags a message may have, by what they are made of: the tag of a     *)
(* message for one recipient, of a key for one of several, and of a text   *)
(* for all of them.                                                        *)
SingleTag(record, t) ==
  /\ record.form \in {"single", "file"}
  /\ \E e, type, preamble, data : \E p \in record.to, k \in DOMAIN record.parts :
       /\ IsSequence(preamble) /\ record.parts[k] = Part(preamble, data)
       /\ t = TagCell(SharedKey(e, p), Aad(preamble, type, e), IvCell(e), data)

KeyTag(record, e, t) ==
  /\ record.form \in {"multiple", "chunk", "key"}
  /\ \E p \in record.to :
       /\ record.form # "key" => IsBytes(Id(p)) /\ Id(p) # <<>>
       /\ t = TagCell(SharedKey(e, p), IF record.form = "key" THEN <<>> ELSE Id(p), IvCell(e),
                      <<SymmetricCell(record.symmetricKey)>>)

(* The ephemeral key in a header.  The symmetric key of a text may have    *)
(* sealed other texts, so this is what ties a header to its record.        *)
Ephemeral(header) == IF header[1] = VersionCell THEN header[4][2] ELSE header[8][2]

HeaderOf(record, e, header) ==
  \/ record.form = "multiple" /\ header[1] = VersionCell /\ header[4] = KeyCell(e)
  \/ /\ record.form = "chunk" /\ header[1] = Cell("ECIE") /\ header[8] = KeyCell(e)
     /\ header[4] = <<"number", record.index>>
     /\ header[7] = <<"number", IF record.isLast THEN 1 ELSE 0>>

BodyTag(record, e, t) ==
  \E header : HeaderOf(record, e, header)
    /\ t = TagCell(SymmetricCell(record.symmetricKey), header, IvCell(e),
                   Signed(record.signer, record.parts[1].data))

TagMade(record, e, t) == SingleTag(record, t) \/ KeyTag(record, e, t) \/ BodyTag(record, e, t)

Sized(c) ==
  /\ c[1] = "number" => c[2] \in Nat
  /\ c[1] = "sizes" => c[2] \in Nat /\ c[3] \in Nat

CellMade(record, e, c) == Sized(c) /\ (c[1] = "tag" => TagMade(record, e, c))

CellsMade(record, e, s) == IsSequence(s) /\ \A c \in Range(s) : CellMade(record, e, c)

(* What goes through a format as text: no tag, and numbers that are some.  *)
Plain0(c) == Sized(c) /\ c[1] # "tag"

IsText(s) == IsSequence(s) /\ \A c \in Range(s) : Plain0(c)

(* What members write can go through a format.                             *)
LEMMA BytesAreText == ASSUME NEW s, IsBytes(s) PROVE IsText(s)
<1>1. {s[i] : i \in DOMAIN s} = Range(s)
  BY DEF Range
<1>2. IsSequence(s)
  BY <1>1 DEF IsBytes, IsSequence
<1>3. \A c \in Range(s) : c[1] \notin FormatKinds
  BY <1>1 DEF IsBytes
<1>4. \A c \in Range(s) : Plain0(c)
  BY <1>3 DEF FormatKinds, Plain0, Sized
<1> QED
  BY <1>2, <1>4 DEF IsText

(* Text has no tag to account for.                                         *)
LEMMA TextMade ==
  ASSUME NEW r, NEW e, NEW s, IsText(s)
  PROVE  CellsMade(r, e, s)
BY DEF IsText, CellsMade, CellMade, Plain0

(* Cells of two sequences one after the other.                             *)
LEMMA JoinedMade ==
  ASSUME NEW r, NEW e, NEW s, NEW t, CellsMade(r, e, s), CellsMade(r, e, t)
  PROVE  CellsMade(r, e, s \o t)
<1>1. IsSequence(s \o t) /\ Range(s \o t) = Range(s) \union Range(t)
  BY Joined DEF CellsMade
<1> QED
  BY <1>1 DEF CellsMade

(* Cells one after the other, all of which may be there.                   *)
LEMMA FixedMade ==
  ASSUME NEW r, NEW e
  PROVE  /\ CellsMade(r, e, <<>>)
         /\ \A a : CellMade(r, e, a) => CellsMade(r, e, <<a>>)
         /\ \A a, b : CellMade(r, e, a) /\ CellMade(r, e, b) => CellsMade(r, e, <<a, b>>)
         /\ \A a, b, c : CellMade(r, e, a) /\ CellMade(r, e, b) /\ CellMade(r, e, c) =>
              CellsMade(r, e, <<a, b, c>>)
         /\ \A a, b, c, d, f, g :
              CellMade(r, e, a) /\ CellMade(r, e, b) /\ CellMade(r, e, c) /\ CellMade(r, e, d)
                /\ CellMade(r, e, f) /\ CellMade(r, e, g) => CellsMade(r, e, <<a, b, c, d, f, g>>)
<1>1. CellsMade(r, e, <<>>)
  BY Shorts DEF CellsMade
<1>2. ASSUME NEW T, \A x \in T : CellMade(r, e, x), NEW s \in Seq(T) PROVE CellsMade(r, e, s)
  BY <1>2, SequenceOver DEF CellsMade
<1>3. ASSUME NEW a, CellMade(r, e, a) PROVE CellsMade(r, e, <<a>>)
  <2>1. <<a>> \in Seq({a})
    OBVIOUS
  <2>2. \A x \in {a} : CellMade(r, e, x)
    BY <1>3
  <2> QED
    BY <1>2, <2>1, <2>2
<1>4. ASSUME NEW a, NEW b, CellMade(r, e, a), CellMade(r, e, b) PROVE CellsMade(r, e, <<a, b>>)
  <2>1. <<a, b>> \in Seq({a, b})
    OBVIOUS
  <2>2. \A x \in {a, b} : CellMade(r, e, x)
    BY <1>4
  <2> QED
    BY <1>2, <2>1, <2>2
<1>5. ASSUME NEW a, NEW b, NEW c, CellMade(r, e, a), CellMade(r, e, b), CellMade(r, e, c)
      PROVE  CellsMade(r, e, <<a, b, c>>)
  <2>1. <<a, b, c>> \in Seq({a, b, c})
    OBVIOUS
  <2>2. \A x \in {a, b, c} : CellMade(r, e, x)
    BY <1>5
  <2> QED
    BY <1>2, <2>1, <2>2
<1>6. ASSUME NEW a, NEW b, NEW c, NEW d, NEW f, NEW g, CellMade(r, e, a), CellMade(r, e, b),
             CellMade(r, e, c), CellMade(r, e, d), CellMade(r, e, f), CellMade(r, e, g)
      PROVE  CellsMade(r, e, <<a, b, c, d, f, g>>)
  <2>1. <<a, b, c, d, f, g>> \in Seq({a, b, c, d, f, g})
    OBVIOUS
  <2>2. \A x \in {a, b, c, d, f, g} : CellMade(r, e, x)
    BY <1>6
  <2> QED
    BY <1>2, <2>1, <2>2
<1> QED
  BY <1>1, <1>3, <1>4, <1>5, <1>6

(* Fields of the formats.                                                  *)
LEMMA FieldsMade ==
  ASSUME NEW r, NEW e
  PROVE  /\ CellMade(r, e, VersionCell) /\ CellMade(r, e, SuiteCell)
         /\ \A type \in {"basic", "withLength", "multiple", "ECIE", "zero"} : CellMade(r, e, Cell(type))
         /\ \A x : /\ CellMade(r, e, KeyCell(x)) /\ CellMade(r, e, IvCell(x))
                   /\ CellMade(r, e, SymmetricCell(x))
         /\ \A x, y : CellMade(r, e, SignatureCell(x, y))
         /\ \A n \in Nat : CellMade(r, e, <<"number", n>>)
         /\ \A m, n \in Nat : CellMade(r, e, <<"sizes", m, n>>)
BY DEF CellMade, Sized, VersionCell, SuiteCell, Cell, KeyCell, IvCell, SymmetricCell, SignatureCell

(* A tag is known by its parts.                                            *)
LEMMA TagCells ==
  ASSUME NEW key, NEW aad, NEW iv, NEW text
  PROVE  /\ TagCell(key, aad, iv, text)[1] = "tag" /\ Sized(TagCell(key, aad, iv, text))
         /\ \A k2, a2, i2, t2 : TagCell(key, aad, iv, text) = TagCell(k2, a2, i2, t2) =>
              key = k2 /\ aad = a2 /\ iv = i2 /\ text = t2
BY DEF TagCell, Sized

-----------------------------------------------------------------------------
(* A message for one recipient has the cells of a record that lists it.    *)
LEMMA SingleMade ==
  ASSUME NEW r, NEW x, NEW type \in {"basic", "withLength"}, NEW e, NEW p, NEW message, NEW preamble,
         IsText(message), IsText(preamble),
         r.form \in {"single", "file"}, p \in r.to,
         \E k \in DOMAIN r.parts : r.parts[k] = Part(preamble, message)
  PROVE  CellsMade(r, x, SealSingle(type, e, p, message, preamble))
<1> DEFINE tag == TagCell(SharedKey(e, p), Aad(preamble, type, e), IvCell(e), message)
           head == <<VersionCell, SuiteCell, Cell(type), KeyCell(e), IvCell(e), tag>>
           length == IF type = "withLength" THEN <<<<"number", Len(message)>>>> ELSE <<>>
<1>1. CellMade(r, x, tag)
  <2>1. PICK k \in DOMAIN r.parts : r.parts[k] = Part(preamble, message)
    OBVIOUS
  <2>2. IsSequence(preamble)
    BY DEF IsText
  <2>3. tag = TagCell(SharedKey(e, p), Aad(preamble, type, e), IvCell(e), message)
    OBVIOUS
  <2>4. SingleTag(r, tag)
    <3> HIDE DEF tag
    <3> QED
      BY <2>1, <2>2, <2>3, Zenon DEF SingleTag
  <2>5. Sized(tag)
    BY TagCells
  <2> QED
    BY <2>4, <2>5 DEF CellMade, TagMade
<1> HIDE DEF tag
<1>2. CellsMade(r, x, head)
  BY <1>1, FieldsMade, FixedMade
<1>3. CellsMade(r, x, length)
  <2>1. Len(message) \in Nat
    BY SequenceIs DEF IsText
  <2>2. CellMade(r, x, <<"number", Len(message)>>)
    BY <2>1, FieldsMade
  <2> QED
    BY <2>2, FixedMade
<1>4. CellsMade(r, x, preamble) /\ CellsMade(r, x, message)
  BY TextMade
<1>5. SealSingle(type, e, p, message, preamble) = preamble \o head \o length \o message
  BY Zenon DEF SealSingle, tag
<1> HIDE DEF head, length
<1> QED
  BY <1>2, <1>3, <1>4, <1>5, JoinedMade

(* The cells of sequences one after the other.                             *)
LEMMA FlattenedMade ==
  ASSUME NEW r, NEW e, NEW seqs, IsSequence(seqs),
         \A i \in 1 .. Len(seqs) : CellsMade(r, e, seqs[i])
  PROVE  CellsMade(r, e, FlattenSeq(seqs))
<1> DEFINE T == UNION {Range(seqs[i]) : i \in 1 .. Len(seqs)}
<1>1. ASSUME NEW i \in 1 .. Len(seqs) PROVE seqs[i] \in Seq(T)
  <2>1. IsSequence(seqs[i]) /\ Range(seqs[i]) \subseteq T
    BY DEF CellsMade
  <2> QED
    BY <2>1, SequenceIs
<1>2. \A c \in T : CellMade(r, e, c)
  BY DEF CellsMade
<1> HIDE DEF T
<1>3. FlattenSeq(seqs) \in Seq(T)
  BY <1>1, Flattened
<1> QED
  BY <1>2, <1>3, SequenceOver DEF CellsMade

(* The encrypted key of a recipient.                                       *)
LEMMA KeyMade ==
  ASSUME NEW r, NEW e, NEW p, p \in r.to, NEW aad,
         NEW sym,
         KeyTag(r, e, TagCell(SharedKey(e, p), aad, IvCell(e), <<SymmetricCell(sym)>>))
  PROVE  CellsMade(r, e, EncryptKey(p, e, sym, aad)) /\ Len(EncryptKey(p, e, sym, aad)) = 3
<1> DEFINE tag == TagCell(SharedKey(e, p), aad, IvCell(e), <<SymmetricCell(sym)>>)
<1>1. CellMade(r, e, tag)
  BY TagCells DEF CellMade, TagMade
<1> HIDE DEF tag
<1>2. CellsMade(r, e, <<IvCell(e), tag, SymmetricCell(sym)>>)
  BY <1>1, FieldsMade, FixedMade
<1>3. EncryptKey(p, e, sym, aad) = <<IvCell(e), tag, SymmetricCell(sym)>>
  BY Zenon DEF EncryptKey, tag
<1> QED
  BY <1>2, <1>3

SymmetricOf(record) == record.symmetricKey

(* The key of a member of the list, sealed beside the id.                  *)
LEMMA KeyForMember ==
  ASSUME NEW r, r.form \in {"multiple", "chunk"}, NEW e, NEW p \in r.to, IsBytes(Id(p)),
         Id(p) # <<>>
  PROVE  /\ CellsMade(r, e, EncryptKey(p, e, SymmetricOf(r), Id(p)))
         /\ Len(EncryptKey(p, e, SymmetricOf(r), Id(p))) = 3
<1> DEFINE sym == r.symmetricKey
           tag == TagCell(SharedKey(e, p), Id(p), IvCell(e), <<SymmetricCell(sym)>>)
<1>1. r.form # "key" /\ r.form \in {"multiple", "chunk", "key"}
  OBVIOUS
<1>2. tag = TagCell(SharedKey(e, p), IF r.form = "key" THEN <<>> ELSE Id(p), IvCell(e),
                    <<SymmetricCell(sym)>>)
  BY <1>1
<1> HIDE DEF tag
<1>3. KeyTag(r, e, tag)
  BY <1>1, <1>2 DEF KeyTag
<1>4. KeyTag(r, e, TagCell(SharedKey(e, p), Id(p), IvCell(e), <<SymmetricCell(sym)>>))
  BY <1>3 DEF tag
<1> HIDE DEF sym
<1>5. CellsMade(r, e, EncryptKey(p, e, sym, Id(p))) /\ Len(EncryptKey(p, e, sym, Id(p))) = 3
  BY <1>4, KeyMade
<1> QED
  BY <1>5 DEF sym, SymmetricOf

(* A signature in front adds no tag.                                       *)
LEMMA SignedMade ==
  ASSUME NEW r, NEW e, NEW signer, NEW message, IsText(message)
  PROVE  CellsMade(r, e, Signed(signer, message)) /\ IsSequence(Signed(signer, message))
<1>1. CellsMade(r, e, message)
  BY TextMade
<1>2. CellsMade(r, e, <<SignatureCell(signer, message)>>)
  BY FieldsMade, FixedMade
<1>3. CellsMade(r, e, Signed(signer, message))
  BY <1>1, <1>2, JoinedMade DEF Signed
<1> QED
  BY <1>3 DEF CellsMade

(* A list of members, and the function that gives each its entry.          *)
LEMMA ListOf ==
  ASSUME NEW list, IsSequence(list), NEW f, DOMAIN f = DOMAIN list,
         f = [i \in DOMAIN list |-> f[i]]
  PROVE  IsSequence(f) /\ Len(f) = Len(list)
<1>1. Len(list) \in Nat /\ DOMAIN list = 1 .. Len(list)
  BY SequenceIs
<1>2. f = [i \in 1 .. Len(list) |-> f[i]] /\ \A i \in 1 .. Len(list) : f[i] \in Range(f)
  BY <1>1 DEF Range
<1> DEFINE n == Len(list)
<1> HIDE DEF n
<1>3. n \in Nat /\ f = [i \in 1 .. n |-> f[i]] /\ \A i \in 1 .. n : f[i] \in Range(f)
  BY <1>1, <1>2 DEF n
<1>4. f \in Seq(Range(f)) /\ Len(f) = n
  BY <1>3
<1> QED
  BY <1>4 DEF n, IsSequence

IsList(list) == IsSequence(list) /\ \A i \in DOMAIN list : IsBytes(Id(list[i])) /\ Id(list[i]) # <<>>

IdsOf(list) == [i \in DOMAIN list |-> Id(list[i])]

(* The header of a message for several.                                    *)
LEMMA HeaderMade ==
  ASSUME NEW r, NEW e, NEW list, IsList(list), r.form = "multiple", r.to = Range(list),
         r.symmetricKey = e,
         NEW m, m.ids = IdsOf(list), m.keys = KeysFor(list, e), m.key = e,
         m.dataLength \in Nat, NEW h, h = BuildHeader(IdSize, m), h.ok
  PROVE  CellsMade(r, e, h.cells) /\ h.cells[1] = VersionCell /\ h.cells[4] = KeyCell(e)
<1> DEFINE fields == <<VersionCell, SuiteCell, Cell("multiple"), KeyCell(e),
                       <<"sizes", IdSize, m.dataLength>>, <<"number", Len(m.ids)>>>>
<1>1. h.cells = fields \o FlattenSeq(m.ids) \o FlattenSeq(m.keys)
  BY DEF BuildHeader, Refused
<1>2. IsSequence(m.ids) /\ Len(m.ids) = Len(list)
  <2>1. DOMAIN m.ids = DOMAIN list /\ m.ids = [i \in DOMAIN list |-> m.ids[i]]
    BY DEF IdsOf
  <2> QED
    BY <2>1, ListOf DEF IsList
<1>3. IsSequence(m.keys) /\ Len(m.keys) = Len(list)
  <2>1. DOMAIN m.keys = DOMAIN list /\ m.keys = [i \in DOMAIN list |-> m.keys[i]]
    BY DEF KeysFor
  <2> QED
    BY <2>1, ListOf DEF IsList
<1>4. Len(list) \in Nat /\ DOMAIN list = 1 .. Len(list)
  BY SequenceIs DEF IsList
<1>5. ASSUME NEW i \in 1 .. Len(list)
      PROVE  CellsMade(r, e, m.ids[i]) /\ CellsMade(r, e, m.keys[i])
  <2>1. list[i] \in r.to /\ IsBytes(Id(list[i])) /\ Id(list[i]) # <<>>
    BY <1>4 DEF IsList, Range
  <2>2. CellsMade(r, e, Id(list[i]))
    BY <2>1, BytesAreText, TextMade
  <2>3. CellsMade(r, e, EncryptKey(list[i], e, e, Id(list[i])))
    <3>1. r.form \in {"multiple", "chunk"}
      OBVIOUS
    <3> DEFINE q == list[i]
    <3>2. q \in r.to /\ IsBytes(Id(q)) /\ Id(q) # <<>>
      BY <2>1
    <3> HIDE DEF q
    <3>3. CellsMade(r, e, EncryptKey(q, e, SymmetricOf(r), Id(q)))
      BY <3>1, <3>2, KeyForMember
    <3> QED
      BY <3>3 DEF q, SymmetricOf
  <2>4. m.ids[i] = Id(list[i]) /\ m.keys[i] = EncryptKey(list[i], e, e, Id(list[i]))
    BY <1>4 DEF KeysFor, IdsOf
  <2> QED
    BY <2>2, <2>3, <2>4
<1>6. CellsMade(r, e, FlattenSeq(m.ids)) /\ CellsMade(r, e, FlattenSeq(m.keys))
  BY <1>2, <1>3, <1>5, FlattenedMade
<1>7. CellsMade(r, e, fields)
  BY <1>2, <1>4, FieldsMade, FixedMade, SizeAssumption
<1>8. fields[1] = VersionCell /\ fields[4] = KeyCell(e) /\ Len(fields) = 6
  OBVIOUS
<1> HIDE DEF fields
<1>9. CellsMade(r, e, fields \o FlattenSeq(m.ids))
  BY <1>6, <1>7, JoinedMade
<1>10. CellsMade(r, e, h.cells)
  BY <1>1, <1>6, <1>9, JoinedMade
<1>11. h.cells[1] = VersionCell /\ h.cells[4] = KeyCell(e)
  <2> DEFINE s == FlattenSeq(m.ids)
             t == FlattenSeq(m.keys)
  <2>1. IsSequence(fields) /\ IsSequence(s) /\ IsSequence(t)
    BY <1>6, <1>7 DEF CellsMade
  <2> HIDE DEF s, t
  <2>2. IsSequence(fields \o s) /\ (fields \o s)[1] = fields[1]
        /\ (fields \o s)[4] = fields[4] /\ Len(fields \o s) = 6 + Len(s)
    <3>1. IsSequence(fields \o s) /\ Len(fields \o s) = Len(fields) + Len(s)
          /\ \A i \in 1 .. Len(fields) : (fields \o s)[i] = fields[i]
      BY <2>1, Joined
    <3>2. 1 \in 1 .. 6 /\ 4 \in 1 .. 6
      OBVIOUS
    <3> QED
      BY <1>8, <3>1, <3>2
  <2>3. Len(s) \in Nat
    BY <2>1, SequenceIs
  <2>4. ((fields \o s) \o t)[1] = fields[1] /\ ((fields \o s) \o t)[4] = fields[4]
    <3> DEFINE u == fields \o s
    <3>1. IsSequence(u) /\ Len(u) = 6 + Len(s) /\ u[1] = fields[1] /\ u[4] = fields[4]
      BY <2>2
    <3> HIDE DEF u
    <3>2. \A i \in 1 .. Len(u) : (u \o t)[i] = u[i]
      BY <2>1, <3>1, Joined
    <3>3. 1 \in 1 .. Len(u) /\ 4 \in 1 .. Len(u)
      BY <2>3, <3>1
    <3>4. (u \o t)[1] = fields[1] /\ (u \o t)[4] = fields[4]
      BY <3>1, <3>2, <3>3
    <3> QED
      BY <3>4, Zenon DEF u
  <2> QED
    BY <1>1, <1>8, <2>4 DEF s, t
<1> QED
  BY <1>10, <1>11

(* A message for several, header and all.                                  *)
LEMMA MultipleMade ==
  ASSUME NEW r, NEW e, NEW list, IsList(list), NEW message, IsText(message), NEW preamble,
         IsText(preamble), NEW signer, NEW m, m.ok,
         m = EncryptMultiple(IdSize, e, list, message, preamble, signer),
         r.form = "multiple", r.symmetricKey = e, r.to = Range(list), r.signer = signer, r.parts[1] = Part(preamble, message)
  PROVE  CellsMade(r, e, BuildHeader(IdSize, m).cells \o m.encryptedMessage)
<1> DEFINE text  == Signed(signer, message)
           inner == [dataLength |-> Len(text), ids |-> [i \in DOMAIN list |-> Id(list[i])],
                     keys |-> KeysFor(list, e), key |-> e]
           h     == BuildHeader(IdSize, inner)
           tag   == TagCell(SymmetricCell(e), h.cells, IvCell(e), text)
<1>1. /\ h.ok
      /\ m.dataLength = inner.dataLength /\ m.ids = inner.ids /\ m.keys = inner.keys /\ m.key = e
      /\ m.encryptedMessage = preamble \o <<IvCell(e), tag>> \o text
  <2>1. m = SealMessage(inner, h, preamble, text, CalculateOverhead(IdSize, Len(list)))
    <3>1. m = IF Len(text) > MaxDataSize \/ list = <<>> THEN Refused
              ELSE SealMessage(inner, h, preamble, text, CalculateOverhead(IdSize, Len(list)))
      BY Zenon DEF EncryptMultiple
    <3> HIDE DEF text, inner, h
    <3> QED
      BY <3>1 DEF Refused
  <2>2. inner.key = e
    OBVIOUS
  <2>3. tag = TagCell(SymmetricCell(inner.key), h.cells, IvCell(inner.key), text)
    BY <2>2
  <2> HIDE DEF text, inner, h, tag
  <2>4. m = IF ~h.ok THEN Refused
            ELSE [ok |-> TRUE, dataLength |-> inner.dataLength, ids |-> inner.ids, keys |-> inner.keys,
                  key |-> inner.key, headerSize |-> CalculateOverhead(IdSize, Len(list)),
                  encryptedMessage |-> preamble \o <<IvCell(e), tag>> \o text]
    BY <2>1, <2>2, <2>3, Zenon DEF SealMessage
  <2>5. h.ok
    BY <2>4 DEF Refused
  <2> DEFINE sealed == preamble \o <<IvCell(e), tag>> \o text
             overhead == CalculateOverhead(IdSize, Len(list))
  <2> HIDE DEF sealed, overhead
  <2>6. m = [ok |-> TRUE, dataLength |-> inner.dataLength, ids |-> inner.ids, keys |-> inner.keys,
             key |-> inner.key, headerSize |-> overhead, encryptedMessage |-> sealed]
    BY <2>4, <2>5 DEF sealed, overhead
  <2>7. m.encryptedMessage = sealed /\ m.dataLength = inner.dataLength /\ m.ids = inner.ids
        /\ m.keys = inner.keys /\ m.key = inner.key
    BY <2>6
  <2> QED
    BY <2>2, <2>5, <2>7 DEF sealed
<1>2. BuildHeader(IdSize, m) = h
  <2> HIDE DEF text
  <2>1. inner.key = e
    OBVIOUS
  <2> HIDE DEF inner
  <2> QED
    BY <1>1, <2>1 DEF BuildHeader
<1>3. CellsMade(r, e, text) /\ IsSequence(text)
  BY SignedMade
<1>4. CellsMade(r, e, h.cells) /\ h.cells[1] = VersionCell /\ h.cells[4] = KeyCell(e)
  <2>1. inner.ids = IdsOf(list) /\ inner.keys = KeysFor(list, e)
        /\ inner.key = e /\ inner.dataLength = Len(text)
    BY DEF IdsOf
  <2>2. inner.dataLength \in Nat
    <3> HIDE DEF inner, text
    <3> QED
      BY <1>3, <2>1, SequenceIs
  <2>3. h = BuildHeader(IdSize, inner)
    OBVIOUS
  <2> HIDE DEF inner, text, h
  <2> QED
    BY <1>1, <2>1, <2>2, <2>3, HeaderMade
<1>5. CellMade(r, e, tag)
  <2>1. r.parts[1].data = message
    BY DEF Part
  <2> DEFINE header == h.cells
  <2>2. tag = TagCell(SymmetricCell(r.symmetricKey), header, IvCell(e),
                      Signed(r.signer, r.parts[1].data))
    BY <2>1
  <2>3. HeaderOf(r, e, header)
    BY <1>4 DEF HeaderOf
  <2> HIDE DEF header, tag
  <2>4. BodyTag(r, e, tag)
    BY <2>2, <2>3 DEF BodyTag
  <2> QED
    BY <2>4, TagCells DEF CellMade, TagMade, tag
<1> HIDE DEF tag, h, text, inner
<1>6. CellsMade(r, e, <<IvCell(e), tag>>)
  BY <1>5, FieldsMade, FixedMade
<1>7. CellsMade(r, e, preamble)
  BY TextMade
<1>8. CellsMade(r, e, preamble \o <<IvCell(e), tag>> \o text)
  BY <1>3, <1>6, <1>7, JoinedMade
<1> QED
  BY <1>1, <1>2, <1>4, <1>8, JoinedMade

-----------------------------------------------------------------------------
(* An id copied into the room for it.                                      *)
LEMMA FittedMade ==
  ASSUME NEW r, NEW e, NEW id, IsBytes(id)
  PROVE  CellsMade(r, e, Fitted(id, IdSize))
<1>1. IsText(id)
  BY BytesAreText
<1> DEFINE f == Fitted(id, IdSize)
           T == Range(id) \union {Cell("zero")}
<1>2. Len(id) \in Nat /\ \A i \in 1 .. Len(id) : id[i] \in Range(id)
  BY <1>1, SequenceIs DEF IsText
<1>3. f = [i \in 1 .. IdSize |-> IF i <= Len(id) THEN id[i] ELSE Cell("zero")]
  BY Zenon DEF Fitted
<1>4. \A i \in 1 .. IdSize : f[i] \in T
  BY <1>2, <1>3, SizeAssumption
<1>5. f \in Seq(T)
  <2>1. f = [i \in 1 .. IdSize |-> f[i]]
    BY <1>3
  <2> HIDE DEF f, T
  <2>2. f \in [1 .. IdSize -> T]
    BY <1>4, <2>1
  <2> QED
    BY <2>2, SizeAssumption, SeqDef
<1>6. ASSUME NEW c \in T PROVE CellMade(r, e, c)
  BY <1>1, TextMade, FieldsMade DEF CellsMade
<1> HIDE DEF f, T
<1>7. CellsMade(r, e, f)
  BY <1>5, <1>6, SequenceOver DEF CellsMade
<1> QED
  BY <1>7 DEF f

(* The header of a chunk; index and flag are its fourth and seventh cells. *)
LEMMA ChunkHeaderMade ==
  ASSUME NEW r, NEW e, NEW list, IsList(list), NEW length \in Nat, NEW index \in Nat, NEW isLast \in BOOLEAN,
         NEW sym, r.symmetricKey = sym,
         r.form = "chunk", r.to = Range(list), r.index = index, r.isLast = isLast,
         NEW h, h = ChunkHeader(IdSize, e, sym, list, length, index, isLast)
  PROVE  CellsMade(r, e, h) /\ HeaderOf(r, e, h)
<1> DEFINE flag == IF isLast THEN 1 ELSE 0
           count == Len(list)
           more == length + 1
           fields == <<Cell("ECIE"), VersionCell, <<"number", count>>, <<"number", index>>,
                       <<"number", length>>, <<"number", more>>, <<"number", flag>>,
                       KeyCell(e), Cell("zero")>>
           entry(i) == Fitted(Id(list[i]), IdSize) \o <<<<"number", EncryptedKeySize>>>>
                         \o EncryptKey(list[i], e, sym, Id(list[i]))
           f == [i \in DOMAIN list |-> entry(i)]
           T == {Cell("ECIE"), VersionCell, <<"number", count>>, <<"number", index>>,
                 <<"number", length>>, <<"number", more>>, <<"number", flag>>,
                 KeyCell(e), Cell("zero")}
<1>1. h = fields \o FlattenSeq(f)
  BY Zenon DEF ChunkHeader
<1>2. Len(list) \in Nat /\ DOMAIN list = 1 .. Len(list)
  BY SequenceIs DEF IsList
<1>3. IsSequence(f) /\ Len(f) = Len(list)
  <2>1. f = [i \in DOMAIN list |-> f[i]] /\ DOMAIN f = DOMAIN list
    OBVIOUS
  <2> HIDE DEF f
  <2> QED
    BY <2>1, ListOf DEF IsList
<1>4. ASSUME NEW i \in 1 .. Len(list) PROVE CellsMade(r, e, f[i])
  <2> DEFINE q == list[i]
             a == Fitted(Id(q), IdSize)
             b == <<<<"number", EncryptedKeySize>>>>
             c == EncryptKey(q, e, sym, Id(q))
  <2>1. q \in r.to /\ IsBytes(Id(q)) /\ Id(q) # <<>>
    BY <1>2 DEF IsList, Range
  <2>2. f[i] = a \o b \o c
    BY <1>2
  <2> HIDE DEF f, q
  <2>3. CellsMade(r, e, a) /\ CellsMade(r, e, c)
    <3>1. CellsMade(r, e, EncryptKey(q, e, SymmetricOf(r), Id(q)))
      BY <2>1, KeyForMember
    <3> QED
      BY <2>1, <3>1, FittedMade DEF SymmetricOf
  <2>4. CellsMade(r, e, b)
    BY FieldsMade, FixedMade DEF EncryptedKeySize
  <2> HIDE DEF a, b, c
  <2> QED
    BY <2>2, <2>3, <2>4, JoinedMade
<1>5. CellsMade(r, e, FlattenSeq(f))
  <2> HIDE DEF f
  <2> QED
    BY <1>3, <1>4, FlattenedMade
<1>6. count \in Nat /\ more \in Nat /\ flag \in Nat
  BY <1>2
<1> HIDE DEF count, more, flag, f
<1>7. \A c \in T : CellMade(r, e, c)
  BY <1>6, FieldsMade
<1>8. fields \in Seq(T) /\ Len(fields) = 9
  OBVIOUS
<1>9. fields[1] = Cell("ECIE") /\ fields[8] = KeyCell(e) /\ fields[4] = <<"number", index>> /\ fields[7] = <<"number", flag>>
  OBVIOUS
<1> HIDE DEF fields, T
<1>10. CellsMade(r, e, fields)
  BY <1>7, <1>8, SequenceOver DEF CellsMade
<1>11. CellsMade(r, e, h)
  BY <1>1, <1>5, <1>10, JoinedMade
<1>12. h[1] = fields[1] /\ h[8] = fields[8] /\ h[4] = fields[4] /\ h[7] = fields[7]
  <2> DEFINE s == FlattenSeq(f)
  <2>1. IsSequence(fields) /\ IsSequence(s)
    BY <1>5, <1>10 DEF CellsMade
  <2> HIDE DEF s
  <2>2. \A i \in 1 .. Len(fields) : (fields \o s)[i] = fields[i]
    BY <2>1, Joined
  <2> DEFINE u == fields \o s
  <2>5. \A i \in 1 .. 9 : u[i] = fields[i]
    BY <1>8, <2>2
  <2>3. 1 \in 1 .. 9 /\ 4 \in 1 .. 9 /\ 7 \in 1 .. 9 /\ 8 \in 1 .. 9
    OBVIOUS
  <2>4. h = u
    BY <1>1 DEF s
  <2> HIDE DEF u
  <2> QED
    BY <2>3, <2>4, <2>5
<1>13. HeaderOf(r, e, h)
  BY <1>9, <1>12 DEF HeaderOf, flag
<1> QED
  BY <1>11, <1>13

(* A chunk, header and all.                                                *)
LEMMA ChunkMade ==
  ASSUME NEW r, NEW e, NEW list, IsList(list), NEW data, IsText(data), NEW index \in Nat,
         NEW isLast \in BOOLEAN, NEW signer, NEW c,
         NEW sym, r.symmetricKey = sym,
         c = EncryptChunk(IdSize, e, sym, list, data, index, isLast, signer), c.ok,
         r.form = "chunk", r.to = Range(list), r.signer = signer, r.index = index,
         r.isLast = isLast, r.parts[1] = Part(<<>>, data)
  PROVE  CellsMade(r, e, c.cells)
<1> DEFINE text == Signed(signer, data)
           length == Len(text)
           h == ChunkHeader(IdSize, e, sym, list, length, index, isLast)
           tag == TagCell(SymmetricCell(sym), h, IvCell(e), text)
           cells == h \o <<IvCell(e)>> \o text \o <<tag>>
<1>1. c.cells = cells
  <2>1. c = IF index < 0 \/ Len(text) > MaxDataSize THEN Refused ELSE [ok |-> TRUE, cells |-> cells]
    BY Zenon DEF EncryptChunk, SealChunk
  <2> HIDE DEF cells, text
  <2> QED
    BY <2>1 DEF Refused
<1>2. CellsMade(r, e, text) /\ IsSequence(text)
  BY SignedMade
<1>3. length \in Nat
  <2> HIDE DEF text
  <2> QED
    BY <1>2, SequenceIs
<1>4. CellsMade(r, e, h) /\ HeaderOf(r, e, h)
  <2> HIDE DEF length
  <2> QED
    BY <1>3, ChunkHeaderMade
<1>5. CellMade(r, e, tag)
  <2>1. r.parts[1].data = data
    BY DEF Part
  <2>2. tag = TagCell(SymmetricCell(r.symmetricKey), h, IvCell(e),
                      Signed(r.signer, r.parts[1].data))
    BY <2>1
  <2> HIDE DEF h, tag
  <2>3. BodyTag(r, e, tag)
    BY <1>4, <2>2 DEF BodyTag
  <2> QED
    BY <2>3, TagCells DEF CellMade, TagMade, tag
<1> HIDE DEF h, tag, text
<1>6. CellsMade(r, e, <<IvCell(e)>>) /\ CellsMade(r, e, <<tag>>)
  BY <1>5, FieldsMade, FixedMade
<1>7. CellsMade(r, e, cells)
  BY <1>2, <1>4, <1>6, JoinedMade
<1> QED
  BY <1>1, <1>7

(* The key that is sent alone.                                             *)
LEMMA KeyAloneMade ==
  ASSUME NEW r, NEW e, NEW p \in r.to, r.form = "key", NEW sym, r.symmetricKey = sym
  PROVE  CellsMade(r, e, EncryptKeyAlone(p, e, sym))
<1> DEFINE tag == TagCell(SharedKey(e, p), <<>>, IvCell(e), <<SymmetricCell(sym)>>)
<1>1. tag = TagCell(SharedKey(e, p), IF r.form = "key" THEN <<>> ELSE Id(p), IvCell(e),
                    <<SymmetricCell(sym)>>)
  OBVIOUS
<1> HIDE DEF tag
<1>2. KeyTag(r, e, tag)
  BY <1>1 DEF KeyTag
<1>3. CellsMade(r, e, EncryptKey(p, e, sym, <<>>))
  BY <1>2, KeyMade DEF tag
<1>4. CellsMade(r, e, <<KeyCell(e)>>)
  BY FieldsMade, FixedMade
<1> QED
  BY <1>3, <1>4, JoinedMade DEF EncryptKeyAlone

-----------------------------------------------------------------------------
(* A record with its key e: its cells, and the parts that are compared     *)
(* with what was opened.                                                   *)
RecordMade(r, e) ==
  /\ CellsMade(r, e, r.cells)
  /\ r.form \in {"multiple", "chunk"} => IsBytes(r.parts[1].data)
  /\ r.form = "key" => r.parts[1].data = SymmetricCell(r.symmetricKey)
  /\ r.form = "chunk" => r.isLast \in BOOLEAN

SentMade(s) == IsSequence(s) /\ \A i \in 1 .. Len(s) : RecordMade(s[i], 10 * i)

(* The tags in the buffer are ones somebody made.                          *)
Known(s, c) == Sized(c) /\ (c[1] = "tag" => \E i \in 1 .. Len(s) : TagMade(s[i], 10 * i, c))

ArrivedMade(s, a) == IsSequence(a) /\ \A c \in Range(a) : Known(s, c)

FileRecord(enc) ==
  [form |-> "file", to |-> {enc.to}, parts |-> [i \in DOMAIN enc.read |-> Part(<<>>, enc.read[i])]]

Reading(enc) ==
  [state |-> "reading", to |-> enc.to, size |-> enc.size, read |-> enc.read, cells |-> enc.cells,
   file |-> enc.file, content |-> enc.content, changes |-> enc.changes]

FileMade(enc) ==
  \/ enc = Idle
  \/ /\ enc = Reading(enc) /\ enc.size \in Nat /\ enc.file \in Contents
     /\ IsSequence(enc.read) /\ Len(enc.read) >= 1
     /\ CellsMade(FileRecord(enc), 0, enc.cells)

AllMade == SentMade(sent) /\ ArrivedMade(sent, arrived) /\ FileMade(encryption)

-----------------------------------------------------------------------------
(* A sequence and one more.                                                *)
LEMMA Appended ==
  ASSUME NEW s, IsSequence(s), NEW x
  PROVE  /\ IsSequence(Append(s, x)) /\ Len(Append(s, x)) = Len(s) + 1
         /\ \A i \in 1 .. Len(s) : Append(s, x)[i] = s[i]
         /\ Append(s, x)[Len(s) + 1] = x
<1> DEFINE T == Range(s) \union {x}
<1>1. s \in Seq(T) /\ x \in T
  BY SequenceIs
<1> HIDE DEF T
<1>2. /\ Append(s, x) \in Seq(T) /\ Len(Append(s, x)) = Len(s) + 1
      /\ \A i \in 1 .. Len(s) : Append(s, x)[i] = s[i]
      /\ Append(s, x)[Len(s) + 1] = x
  BY <1>1, AppendProperties
<1> QED
  BY <1>2, SequenceOver

(* One more record.                                                        *)
LEMMA SentGrows ==
  ASSUME NEW s, SentMade(s), NEW r, RecordMade(r, 10 * (Len(s) + 1))
  PROVE  SentMade(Append(s, r))
<1> DEFINE u == Append(s, r)
           n == Len(s)
<1>1. IsSequence(u) /\ Len(u) = n + 1 /\ (\A i \in 1 .. n : u[i] = s[i]) /\ u[n + 1] = r
  BY Appended DEF SentMade
<1>2. n \in Nat
  BY SequenceIs DEF SentMade
<1>3. RecordMade(r, 10 * (n + 1)) /\ \A i \in 1 .. n : RecordMade(s[i], 10 * i)
  BY DEF SentMade
<1> HIDE DEF u, n
<1>4. ASSUME NEW i \in 1 .. n + 1 PROVE RecordMade(u[i], 10 * i)
  <2>1. CASE i = n + 1
    BY <1>1, <1>3, <2>1
  <2>2. CASE i \in 1 .. n
    BY <1>1, <1>3, <2>2
  <2> QED
    BY <1>2, <2>1, <2>2
<1>5. SentMade(u)
  BY <1>1, <1>4 DEF SentMade
<1> QED
  BY <1>5 DEF u

(* Tags that were known stay so when a message is sent.                    *)
LEMMA KnownStays ==
  ASSUME NEW s, IsSequence(s), NEW r, NEW a, ArrivedMade(s, a)
  PROVE  ArrivedMade(Append(s, r), a)
<1> DEFINE u == Append(s, r)
           n == Len(s)
<1>1. Len(u) = n + 1 /\ (\A i \in 1 .. n : u[i] = s[i]) /\ n \in Nat
  BY Appended, SequenceIs
<1> SUFFICES ASSUME NEW c \in Range(a), c[1] = "tag"
             PROVE  \E i \in 1 .. Len(u) : TagMade(u[i], 10 * i, c)
  BY DEF ArrivedMade, Known
<1>2. PICK i \in 1 .. n : TagMade(s[i], 10 * i, c)
  BY DEF ArrivedMade, Known
<1> HIDE DEF u, n
<1>3. i \in 1 .. Len(u) /\ u[i] = s[i]
  BY <1>1, <1>2
<1> QED
  BY <1>2, <1>3

(* Cells of a record of a file are cells of one with more parts.           *)
LEMMA FileGrows ==
  ASSUME NEW r, NEW x, NEW s, NEW y, NEW cells, CellsMade(r, x, cells),
         r.form = "file", s.form = "file", r.to = s.to,
         \A k \in DOMAIN r.parts : \E j \in DOMAIN s.parts : s.parts[j] = r.parts[k]
  PROVE  CellsMade(s, y, cells)
<1> SUFFICES ASSUME NEW c \in Range(cells), c[1] = "tag" PROVE SingleTag(s, c)
  BY DEF CellsMade, CellMade, TagMade
<1>1. TagMade(r, x, c)
  BY DEF CellsMade, CellMade
<1>2. ~KeyTag(r, x, c) /\ ~BodyTag(r, x, c)
  BY DEF KeyTag, BodyTag, HeaderOf
<1>3. PICK e, type, preamble, data : \E p \in r.to, k \in DOMAIN r.parts :
        /\ IsSequence(preamble) /\ r.parts[k] = Part(preamble, data)
        /\ c = TagCell(SharedKey(e, p), Aad(preamble, type, e), IvCell(e), data)
  BY <1>1, <1>2, Zenon DEF TagMade, SingleTag
<1>4. PICK p \in r.to, k \in DOMAIN r.parts :
        /\ IsSequence(preamble) /\ r.parts[k] = Part(preamble, data)
        /\ c = TagCell(SharedKey(e, p), Aad(preamble, type, e), IvCell(e), data)
  BY <1>3
<1>5. PICK j \in DOMAIN s.parts : s.parts[j] = r.parts[k]
  BY <1>4
<1>6. p \in s.to /\ s.parts[j] = Part(preamble, data) /\ s.form \in {"single", "file"}
  BY <1>4, <1>5
<1> QED
  BY <1>4, <1>6, Zenon DEF SingleTag

(* Known cells of two buffers one after the other.                         *)
LEMMA JoinedKnown ==
  ASSUME NEW s, NEW a, NEW b, ArrivedMade(s, a), ArrivedMade(s, b)
  PROVE  ArrivedMade(s, a \o b)
<1>1. IsSequence(a \o b) /\ Range(a \o b) = Range(a) \union Range(b)
  BY Joined DEF ArrivedMade
<1> QED
  BY <1>1 DEF ArrivedMade

(* Known cells of a part of a buffer.                                      *)
LEMMA SlicedKnown ==
  ASSUME NEW s, NEW a, ArrivedMade(s, a), NEW from \in Nat, NEW to \in Int
  PROVE  ArrivedMade(s, Slice(a, from, to))
<1>1. IsSequence(Slice(a, from, to)) /\ Range(Slice(a, from, to)) \subseteq Range(a)
  BY Sliced, Zenon DEF ArrivedMade
<1> QED
  BY <1>1 DEF ArrivedMade

(* The cells of what was sent are known.                                   *)
LEMMA SentKnown ==
  ASSUME NEW s, SentMade(s), NEW i \in 1 .. Len(s)
  PROVE  ArrivedMade(s, s[i].cells)
<1>1. CellsMade(s[i], 10 * i, s[i].cells)
  BY DEF SentMade, RecordMade
<1> QED
  BY <1>1 DEF CellsMade, CellMade, ArrivedMade, Known

(* A buffer with another cell in a place.                                  *)
LEMMA AlteredKnown ==
  ASSUME NEW s, NEW a, ArrivedMade(s, a), NEW i \in DOMAIN a, NEW c, Known(s, c)
  PROVE  ArrivedMade(s, [a EXCEPT ![i] = c])
<1> DEFINE u == [a EXCEPT ![i] = c]
           T == Range(a) \union {c}
           n == Len(a)
<1>1. n \in Nat /\ DOMAIN a = 1 .. n /\ \A k \in 1 .. n : a[k] \in Range(a)
  BY SequenceIs DEF ArrivedMade
<1>2. a \in Seq(T)
  BY SequenceIs DEF ArrivedMade
<1>3. c \in T
  OBVIOUS
<1>4. \A d \in T : Known(s, d)
  BY DEF ArrivedMade
<1> HIDE DEF T
<1>5. u \in Seq(T)
  BY <1>1, <1>2, <1>3, ExceptSeq
<1> HIDE DEF u
<1>6. ArrivedMade(s, u)
  BY <1>4, <1>5, SequenceOver DEF ArrivedMade
<1> QED
  BY <1>6 DEF u

(* Sending a record that is made keeps the invariant.                      *)
LEMMA SentAndArrived ==
  ASSUME AllMade, NEW r, RecordMade(r, Fresh), Send(r)
  PROVE  AllMade'
<1>1. SentMade(sent) /\ sent' = Append(sent, r) /\ arrived' = arrived /\ encryption' = encryption
  BY DEF AllMade, Send
<1>2. RecordMade(r, 10 * (Len(sent) + 1))
  BY DEF Fresh
<1>3. SentMade(Append(sent, r))
  BY <1>1, <1>2, SentGrows
<1>4. IsSequence(sent)
  BY <1>1 DEF SentMade
<1>5. ArrivedMade(Append(sent, r), arrived)
  BY <1>4, KnownStays DEF AllMade
<1>6. FileMade(encryption)
  BY DEF AllMade
<1> QED
  BY <1>1, <1>3, <1>5, <1>6 DEF AllMade

(* The assumption, in the words of the proof.                              *)
LEMMA MembersHaveIds ==
  /\ \A s \in Messages \union Preambles \union Contents : IsBytes(s) /\ IsText(s)
  /\ \A list \in Recipients : IsList(list)
<1>1. \A s \in Messages \union Preambles \union Contents : IsBytes(s) /\ IsText(s)
  BY BytesAssumption, BytesAreText
<1>2. ASSUME NEW list \in Recipients PROVE IsList(list)
  <2>1. IsSequence(list)
    BY BytesAssumption DEF IsSequence
  <2>2. ASSUME NEW i \in DOMAIN list PROVE IsBytes(Id(list[i])) /\ Id(list[i]) # <<>>
    <3>1. list[i] \in Range(list)
      BY DEF Range
    <3>2. list[i] \in UNION {Range(r) : r \in Recipients}
      BY <3>1
    <3> QED
      BY <3>2, BytesAssumption
  <2> QED
    BY <2>1, <2>2 DEF IsList
<1> QED
  BY <1>1, <1>2

(* Encrypt: a message for one recipient.                                   *)
LEMMA EncryptKeeps ==
  ASSUME AllMade, NEW p \in Members, NEW m \in Messages, NEW pre \in Preambles,
         NEW type \in {"basic", "withLength"}, Encrypt(type, p, m, pre)
  PROVE  AllMade'
<1> DEFINE c == EncryptSingle(type, Fresh, p, m, pre)
           r == [form |-> "single", type |-> type, to |-> {p}, signer |-> Nobody,
                 parts |-> <<Part(pre, m)>>, cells |-> c.cells]
<1>1. c.ok /\ Send(r)
  BY DEF Encrypt
<1>2. c.cells = SealSingle(type, Fresh, p, m, pre)
  <2>1. c = IF type = "multiple" \/ m = <<>> \/ Len(m) > MaxDataSize THEN Refused
            ELSE [ok |-> TRUE, cells |-> SealSingle(type, Fresh, p, m, pre)]
    BY DEF EncryptSingle
  <2> HIDE DEF c
  <2> QED
    BY <1>1, <2>1 DEF Refused
<1>3. r.form = "single" /\ r.to = {p} /\ r.parts = <<Part(pre, m)>> /\ r.cells = c.cells
  OBVIOUS
<1>4. IsText(m) /\ IsText(pre)
  BY MembersHaveIds
<1> HIDE DEF r, c
<1>5. \E k \in DOMAIN r.parts : r.parts[k] = Part(pre, m)
  <2>1. DOMAIN r.parts = {1} /\ r.parts[1] = Part(pre, m)
    BY <1>3
  <2> QED
    BY <2>1
<1>6. CellsMade(r, Fresh, r.cells)
  <2>1. r.form \in {"single", "file"} /\ p \in r.to
    BY <1>3
  <2> DEFINE x == Fresh
  <2> HIDE DEF x
  <2>2. CellsMade(r, x, SealSingle(type, x, p, m, pre))
    BY <1>4, <1>5, <2>1, SingleMade
  <2> QED
    BY <1>2, <1>3, <2>2 DEF x
<1>7. RecordMade(r, Fresh)
  BY <1>3, <1>6 DEF RecordMade
<1> QED
  BY <1>1, <1>7, SentAndArrived

(* EncryptForMany: a message for several.                                  *)
LEMMA EncryptForManyKeeps ==
  ASSUME AllMade, NEW list \in Recipients, NEW m \in Messages, NEW pre \in Preambles, NEW s,
         EncryptForMany(list, m, pre, s)
  PROVE  AllMade'
<1> DEFINE c == EncryptMultiple(IdSize, Fresh, list, m, pre, s)
           all == BuildHeader(IdSize, c).cells \o c.encryptedMessage
           r == [form |-> "multiple", to |-> Range(list), signer |-> s,
                 parts |-> <<Part(pre, m)>>, symmetricKey |-> Fresh, cells |-> all]
<1>1. c.ok /\ Send(r)
  BY DEF EncryptForMany
<1>3. r.form = "multiple" /\ r.to = Range(list) /\ r.signer = s /\ r.parts[1] = Part(pre, m)
      /\ r.cells = all /\ r.symmetricKey = Fresh
  OBVIOUS
<1>4. IsText(m) /\ IsText(pre) /\ IsBytes(m) /\ IsList(list)
  BY MembersHaveIds
<1>5. r.parts[1].data = m
  BY <1>3 DEF Part
<1> DEFINE x == Fresh
<1>6. x = Fresh /\ c = EncryptMultiple(IdSize, x, list, m, pre, s)
  OBVIOUS
<1> HIDE DEF r, c, x
<1>7. CellsMade(r, x, r.cells)
  BY <1>1, <1>3, <1>4, <1>6, MultipleMade
<1>8. RecordMade(r, x)
  BY <1>3, <1>4, <1>5, <1>7 DEF RecordMade
<1> QED
  BY <1>1, <1>8, SentAndArrived DEF x

(* EncryptChunkForMany: a chunk for several.                               *)
LEMMA EncryptChunkForManyKeeps ==
  ASSUME AllMade, NEW k, NEW list \in Recipients, NEW m \in Messages, NEW index \in Nat,
         NEW isLast \in BOOLEAN, NEW s, EncryptChunkForMany(k, list, m, index, isLast, s)
  PROVE  AllMade'
<1> DEFINE c == EncryptChunk(IdSize, Fresh, k, list, m, index, isLast, s)
           r == [form |-> "chunk", to |-> Range(list), signer |-> s,
                 parts |-> <<Part(<<>>, m)>>, index |-> index, isLast |-> isLast,
                 symmetricKey |-> k, cells |-> c.cells]
<1>1. c.ok /\ Send(r)
  BY DEF EncryptChunkForMany
<1>3. r.form = "chunk" /\ r.to = Range(list) /\ r.signer = s /\ r.parts[1] = Part(<<>>, m)
      /\ r.index = index /\ r.isLast = isLast /\ r.symmetricKey = k /\ r.cells = c.cells
  OBVIOUS
<1>4. IsText(m) /\ IsBytes(m) /\ IsList(list)
  BY MembersHaveIds
<1>5. r.parts[1].data = m
  BY <1>3 DEF Part
<1> DEFINE x == Fresh
<1>6. c = EncryptChunk(IdSize, x, k, list, m, index, isLast, s)
  OBVIOUS
<1> HIDE DEF r, c, x
<1>7. CellsMade(r, x, r.cells)
  BY <1>1, <1>3, <1>4, <1>6, ChunkMade
<1>8. RecordMade(r, x)
  BY <1>3, <1>4, <1>5, <1>7 DEF RecordMade
<1> QED
  BY <1>1, <1>8, SentAndArrived DEF x

(* EncryptSymmetricKey: the key alone.                                     *)
LEMMA EncryptSymmetricKeyKeeps ==
  ASSUME AllMade, NEW k, NEW p \in Members, EncryptSymmetricKey(k, p)
  PROVE  AllMade'
<1> DEFINE x == Fresh
           r == [form |-> "key", to |-> {p}, signer |-> Nobody,
                 parts |-> <<Part(<<>>, SymmetricCell(k))>>, symmetricKey |-> k, cells |-> EncryptKeyAlone(p, x, k)]
<1>1. Send(r)
  BY DEF EncryptSymmetricKey
<1>2. r.form = "key" /\ p \in r.to /\ r.parts[1] = Part(<<>>, SymmetricCell(k))
      /\ r.symmetricKey = k /\ r.cells = EncryptKeyAlone(p, x, k)
  OBVIOUS
<1>3. r.parts[1].data = SymmetricCell(k)
  BY <1>2 DEF Part
<1> HIDE DEF r, x
<1>4. CellsMade(r, x, r.cells)
  BY <1>2, KeyAloneMade
<1>5. RecordMade(r, x)
  BY <1>2, <1>3, <1>4 DEF RecordMade
<1> QED
  BY <1>1, <1>5, SentAndArrived DEF x

(* A product grows with its factor.                                        *)
LEMMA ProductOrder ==
  ASSUME NEW a \in Nat, NEW b \in Nat, NEW step \in Nat, a <= b
  PROVE  a * step <= b * step
<1>1. (b - a) * step >= 0 /\ b * step = a * step + (b - a) * step
  OBVIOUS
<1>2. a * step \in Int /\ b * step \in Int /\ (b - a) * step \in Int
  OBVIOUS
<1> DEFINE x == a * step
           y == b * step
           z == (b - a) * step
<1> HIDE DEF x, y, z
<1>3. x \in Int /\ y \in Int /\ z \in Int /\ z >= 0 /\ y = x + z
  BY <1>1, <1>2 DEF x, y, z
<1> QED
  BY <1>3 DEF x, y

(* There are as many chunks as begin before the end.                       *)
LEMMA ChunksBegin ==
  ASSUME NEW size \in Nat
  PROVE  /\ TotalChunks(size) \in Nat
         /\ \A i \in Nat : i < TotalChunks(size) => i * ChunkSize \in Nat /\ i * ChunkSize < size
<1> DEFINE n == TotalChunks(size)
           c == ChunkSize
<1>1. c \in Nat /\ c >= 1
  BY ChunkSizeAssumption
<1>2. n \in Nat /\ n * c <= size + c - 1
  <2> HIDE DEF c
  <2>1. size + c - 1 \in Nat
    BY <1>1
  <2> DEFINE a == size + c - 1
  <2> HIDE DEF a
  <2>2. a \div c \in Nat /\ (a \div c) * c <= a
    BY <1>1, <2>1 DEF a
  <2>3. n = a \div c
    BY DEF TotalChunks, a, c
  <2> HIDE DEF n
  <2> QED
    BY <2>2, <2>3 DEF a
<1> HIDE DEF n, c
<1>3. ASSUME NEW i \in Nat, i < n PROVE i * c \in Nat /\ i * c < size
  <2>1. (i + 1) * c <= n * c
    BY <1>1, <1>2, <1>3, ProductOrder
  <2>2. (i + 1) * c = i * c + c /\ i * c \in Nat /\ n * c \in Nat
    BY <1>1, <1>2
  <2> DEFINE x == i * c
             y == n * c
             z == (i + 1) * c
  <2> HIDE DEF x, y, z
  <2>3. z <= y /\ z = x + c /\ x \in Nat /\ y \in Nat /\ y <= size + c - 1
    BY <1>2, <2>1, <2>2 DEF x, y, z
  <2>4. x \in Nat /\ x < size
    BY <1>1, <2>3
  <2> QED
    BY <2>4 DEF x
<1> QED
  BY <1>2, <1>3 DEF n, c

(* A function on 1 .. n whose values are text.                             *)
LEMMA TextOf ==
  ASSUME NEW n \in Nat, NEW f, f = [k \in 1 .. n |-> f[k]], \A k \in 1 .. n : Plain0(f[k])
  PROVE  IsText(f) /\ Len(f) = n
<1>1. \A k \in 1 .. n : f[k] \in Range(f)
  BY DEF Range
<1>2. f \in Seq(Range(f)) /\ Len(f) = n
  BY <1>1
<1>3. \A c \in Range(f) : Plain0(c)
  BY DEF Range
<1> QED
  BY <1>2, <1>3 DEF IsText, IsSequence

(* A chunk of a file is text, and neither empty nor too long.              *)
LEMMA ChunkIsText ==
  ASSUME NEW content, IsText(content), NEW size \in Nat, NEW i \in Nat, i < TotalChunks(size)
  PROVE  IsText(ReadChunk(content, size, i)) /\ Len(ReadChunk(content, size, i)) \in 1 .. ChunkSize
<1> DEFINE offset == i * ChunkSize
           length == IF ChunkSize < size - offset THEN ChunkSize ELSE size - offset
           f == [k \in 1 .. length |->
                  IF offset + k <= Len(content) THEN content[offset + k] ELSE Cell("zero")]
<1>1. offset \in Nat /\ offset < size
  BY ChunksBegin
<1> HIDE DEF offset
<1>2. length \in 1 .. ChunkSize
  BY <1>1, ChunkSizeAssumption
<1>3. Len(content) \in Nat /\ \A k \in 1 .. Len(content) : Plain0(content[k])
  BY SequenceIs DEF IsText
<1> HIDE DEF length
<1>4. \A k \in 1 .. length : f[k] = IF offset + k <= Len(content) THEN content[offset + k]
                                    ELSE Cell("zero")
  OBVIOUS
<1>5. f = [k \in 1 .. length |-> f[k]]
  OBVIOUS
<1> HIDE DEF f
<1>6. Plain0(Cell("zero"))
  BY DEF Plain0, Sized, Cell
<1>7. ASSUME NEW k \in 1 .. length PROVE Plain0(f[k])
  <2>1. CASE offset + k <= Len(content)
    <3>1. offset + k \in 1 .. Len(content)
      BY <1>1, <1>2, <1>3, <2>1
    <3> QED
      BY <1>3, <1>4, <2>1, <3>1
  <2>2. CASE ~(offset + k <= Len(content))
    BY <1>4, <1>6, <2>2
  <2> QED
    BY <2>1, <2>2
<1>8. IsText(f) /\ Len(f) = length
  <2>1. length \in Nat
    BY <1>2, ChunkSizeAssumption
  <2> QED
    BY <1>5, <1>7, <2>1, TextOf
<1>9. ReadChunk(content, size, i) = f
  BY Zenon DEF ReadChunk, f, length, offset
<1> QED
  BY <1>2, <1>8, <1>9

(* So is the header of a file.                                             *)
LEMMA FileHeaderIsText ==
  ASSUME NEW size \in Nat
  PROVE  /\ IsText(SerializeHeader(TotalChunks(size), size))
         /\ Len(SerializeHeader(TotalChunks(size), size)) = FileHeaderSize
<1> DEFINE n == TotalChunks(size)
           f == SerializeHeader(n, size)
<1>1. n \in Nat /\ ChunkSize \in Nat
  BY ChunksBegin, ChunkSizeAssumption
<1> HIDE DEF n
<1>2. f = <<<<"number", 1>>, <<"number", ChunkSize>>, <<"number", n>>, <<"number", size>>, Cell("zero")>>
  BY DEF SerializeHeader
<1>3. f = [k \in 1 .. 5 |-> f[k]] /\ \A k \in 1 .. 5 : Plain0(f[k])
  <2>1. f = [k \in 1 .. 5 |-> f[k]]
    BY <1>2
  <2>2. \A k \in 1 .. 5 : f[k] \in {<<"number", 1>>, <<"number", ChunkSize>>, <<"number", n>>,
                                    <<"number", size>>, Cell("zero")}
    BY <1>2
  <2> HIDE DEF f
  <2>3. /\ Plain0(<<"number", 1>>) /\ Plain0(<<"number", ChunkSize>>) /\ Plain0(<<"number", n>>)
        /\ Plain0(<<"number", size>>) /\ Plain0(Cell("zero"))
    BY <1>1 DEF Plain0, Sized, Cell
  <2> QED
    BY <2>1, <2>2, <2>3
<1> HIDE DEF f
<1>4. IsText(f) /\ Len(f) = 5
  BY <1>3, TextOf
<1> QED
  BY <1>4 DEF f, n, FileHeaderSize

(* A part of a file, sealed.                                               *)
LEMMA FilePartMade ==
  ASSUME NEW r, r.form = "file", NEW p, p \in r.to, NEW e, NEW data, IsText(data),
         Len(data) \in 1 .. MaxDataSize, \E k \in DOMAIN r.parts : r.parts[k] = Part(<<>>, data)
  PROVE  CellsMade(r, 0, EncryptSingle("withLength", e, p, data, <<>>).cells)
<1> DEFINE c == EncryptSingle("withLength", e, p, data, <<>>)
           sealed == SealSingle("withLength", e, p, data, <<>>)
<1>1. c = IF "withLength" = "multiple" \/ data = <<>> \/ Len(data) > MaxDataSize THEN Refused
          ELSE [ok |-> TRUE, cells |-> sealed]
  BY Zenon DEF EncryptSingle
<1>2. data # <<>> /\ ~(Len(data) > MaxDataSize)
  BY SizeAssumption
<1> HIDE DEF c, sealed
<1>3. c.cells = sealed
  BY <1>1, <1>2
<1>4. IsText(<<>>)
  <2>1. IsSequence(<<>>) /\ Range(<<>>) = {}
    BY Shorts
  <2> QED
    BY <2>1 DEF IsText
<1> DEFINE none == <<>>
           type == "withLength"
<1>5. /\ type \in {"basic", "withLength"} /\ IsText(none) /\ r.form \in {"single", "file"}
      /\ \E k \in DOMAIN r.parts : r.parts[k] = Part(none, data)
  BY <1>4
<1> HIDE DEF none, type
<1>6. CellsMade(r, 0, SealSingle(type, e, p, data, none))
  BY <1>5, SingleMade
<1> QED
  BY <1>3, <1>6 DEF c, sealed, none, type

(* StatFile: the header is the first part.                                 *)
LEMMA StatFileKeeps ==
  ASSUME AllMade, NEW p \in Members, NEW content \in Contents, StatFile(p, content)
  PROVE  AllMade'
<1> DEFINE size == Len(content)
           header == SerializeHeader(TotalChunks(size), size)
           new == [state |-> "reading", to |-> p, size |-> size, read |-> <<header>>,
                   cells |-> EncryptSingle("withLength", Fresh, p, header, <<>>).cells,
                   file |-> content, content |-> content, changes |-> 0]
           x == Fresh
<1>1. encryption' = new /\ sent' = sent /\ arrived' = arrived
  BY DEF StatFile
<1>2. size \in Nat
  <2>1. IsText(content)
    BY MembersHaveIds
  <2> QED
    BY <2>1, SequenceIs DEF IsText
<1>3. IsText(header) /\ Len(header) \in 1 .. MaxDataSize
  <2> HIDE DEF size
  <2> QED
    <3>1. IsText(header) /\ Len(header) = FileHeaderSize
      BY <1>2, FileHeaderIsText
    <3>2. FileHeaderSize \in 1 .. MaxDataSize
      BY SizeAssumption DEF FileHeaderSize
    <3> QED
      BY <3>1, <3>2
<1>4. /\ new = Reading(new) /\ new.to = p /\ new.size = size /\ new.read = <<header>>
      /\ new.cells = EncryptSingle("withLength", x, p, header, <<>>).cells /\ new.file = content
  BY DEF Reading
<1> HIDE DEF new, header, size, x
<1>5. FileRecord(new).form = "file" /\ p \in FileRecord(new).to
      /\ FileRecord(new).parts = [i \in DOMAIN new.read |-> Part(<<>>, new.read[i])]
  BY <1>4 DEF FileRecord
<1>6. \E k \in DOMAIN FileRecord(new).parts : FileRecord(new).parts[k] = Part(<<>>, header)
  <2>1. 1 \in DOMAIN new.read /\ new.read[1] = header
    BY <1>4
  <2> QED
    BY <1>5, <2>1
<1> DEFINE r == FileRecord(new)
<1>7. CellsMade(r, 0, new.cells)
  <2>1. r.form = "file" /\ p \in r.to /\ \E k \in DOMAIN r.parts : r.parts[k] = Part(<<>>, header)
    BY <1>5, <1>6
  <2> HIDE DEF r
  <2> QED
    BY <1>3, <1>4, <2>1, FilePartMade
<1>8. IsSequence(new.read) /\ Len(new.read) = 1
  BY <1>4, Shorts
<1>9. FileMade(new)
  BY <1>2, <1>4, <1>7, <1>8 DEF FileMade
<1> QED
  BY <1>1, <1>9 DEF AllMade

(* ReadFileChunk: one part more, sealed with a key of its own.             *)
LEMMA ReadFileChunkKeeps == ASSUME AllMade, ReadFileChunk PROVE AllMade'
<1> DEFINE enc == encryption
           i == NextChunk
           data == ReadChunk(enc.file, enc.size, i)
           x == Fresh + Len(enc.read)
           more == EncryptSingle("withLength", x, enc.to, data, <<>>).cells
           new == encryption'
<1>1. /\ enc # Idle /\ i < TotalChunks(enc.size)
      /\ new = [enc EXCEPT !.read = Append(@, data), !.cells = @ \o more]
      /\ sent' = sent /\ arrived' = arrived
  BY DEF ReadFileChunk, Idle
<1>2. /\ enc = Reading(enc) /\ enc.size \in Nat /\ enc.file \in Contents /\ IsSequence(enc.read) /\ Len(enc.read) >= 1
      /\ CellsMade(FileRecord(enc), 0, enc.cells)
  BY <1>1 DEF AllMade, FileMade
<1>3. i \in Nat
  BY <1>2, SequenceIs DEF NextChunk
<1>4. IsText(data) /\ Len(data) \in 1 .. MaxDataSize
  <2>1. IsText(enc.file)
    BY <1>2, MembersHaveIds
  <2> DEFINE size == enc.size
             file == enc.file
  <2>2. size \in Nat /\ IsText(file) /\ i < TotalChunks(size)
    BY <1>1, <1>2, <2>1
  <2> HIDE DEF size, file, i
  <2>3. IsText(ReadChunk(file, size, i)) /\ Len(ReadChunk(file, size, i)) \in 1 .. ChunkSize
    BY <1>3, <2>2, ChunkIsText
  <2> QED
    BY <2>3, SizeAssumption, ChunkSizeAssumption DEF size, file
<1> DEFINE all == enc.cells \o more
           reads == Append(enc.read, data)
<1> HIDE DEF data, more, x, i
<1>5. /\ new = Reading(new) /\ new.read = reads /\ new.cells = all
      /\ new.to = enc.to /\ new.size = enc.size /\ new.file = enc.file
  <2>1. enc = [state |-> "reading", to |-> enc.to, size |-> enc.size, read |-> enc.read,
               cells |-> enc.cells, file |-> enc.file, content |-> enc.content, changes |-> enc.changes]
    BY <1>2 DEF Reading
  <2>2. new = [enc EXCEPT !.read = reads, !.cells = all]
    BY <1>1
  <2> HIDE DEF new, reads, all, enc
  <2>3. new = [state |-> "reading", to |-> enc.to, size |-> enc.size, read |-> reads,
               cells |-> all, file |-> enc.file, content |-> enc.content, changes |-> enc.changes]
    <3> SUFFICES ASSUME NEW q, q = [state |-> "reading", to |-> enc.to, size |-> enc.size,
                          read |-> enc.read, cells |-> enc.cells, file |-> enc.file,
                          content |-> enc.content, changes |-> enc.changes],
                        NEW u, u = [q EXCEPT !.read = reads, !.cells = all]
                 PROVE  u = [state |-> "reading", to |-> enc.to, size |-> enc.size, read |-> reads,
                             cells |-> all, file |-> enc.file, content |-> enc.content,
                             changes |-> enc.changes]
      BY <2>1, <2>2
    <3> QED
      OBVIOUS
  <2> QED
    BY <2>3 DEF Reading
<1> DEFINE r == FileRecord(enc)
           s == FileRecord(new)
<1>6. /\ IsSequence(new.read) /\ Len(new.read) = Len(enc.read) + 1
      /\ \A k \in 1 .. Len(enc.read) : new.read[k] = enc.read[k]
      /\ new.read[Len(enc.read) + 1] = data
  <2>1. new.read = Append(enc.read, data)
    BY <1>5
  <2> HIDE DEF new, reads
  <2> QED
    BY <1>2, <2>1, Appended
<1>7. /\ s.form = "file" /\ r.form = "file" /\ r.to = {enc.to} /\ s.to = {enc.to}
      /\ r.parts = [k \in DOMAIN enc.read |-> Part(<<>>, enc.read[k])]
      /\ s.parts = [k \in DOMAIN new.read |-> Part(<<>>, new.read[k])]
  <2> HIDE DEF new, reads, all
  <2> QED
    BY <1>5 DEF FileRecord
<1>8. /\ DOMAIN enc.read = 1 .. Len(enc.read) /\ DOMAIN new.read = 1 .. Len(enc.read) + 1
      /\ Len(enc.read) \in Nat
  <2> HIDE DEF new
  <2> QED
    BY <1>2, <1>6, SequenceIs
<1> DEFINE n == Len(enc.read)
           old == enc.read
           now == new.read
<1> HIDE DEF r, s
<1>9. /\ \A k \in DOMAIN r.parts : \E j \in DOMAIN s.parts : s.parts[j] = r.parts[k]
      /\ \E k \in DOMAIN s.parts : s.parts[k] = Part(<<>>, data)
  <2>1. /\ r.parts = [k \in 1 .. n |-> Part(<<>>, old[k])]
        /\ s.parts = [k \in 1 .. n + 1 |-> Part(<<>>, now[k])]
        /\ n \in Nat /\ now[n + 1] = data /\ \A k \in 1 .. n : now[k] = old[k]
    BY <1>6, <1>7, <1>8
  <2> HIDE DEF n, old, now
  <2>2. \A k \in 1 .. n : k \in 1 .. n + 1
    BY <2>1
  <2>3. n + 1 \in 1 .. n + 1
    BY <2>1
  <2> QED
    BY <2>1, <2>2, <2>3
<1>10. CellsMade(s, 0, enc.cells)
  <2>1. CellsMade(r, 0, enc.cells)
    BY <1>2 DEF r
  <2>2. r.to = s.to
    BY <1>7
  <2> QED
    BY <1>7, <1>9, <2>1, <2>2, FileGrows
<1>11. CellsMade(s, 0, more)
  <2> DEFINE p == enc.to
  <2>1. p \in s.to /\ s.form = "file"
    BY <1>7
  <2>2. more = EncryptSingle("withLength", x, p, data, <<>>).cells
    BY DEF more
  <2> HIDE DEF p
  <2> QED
    BY <1>4, <1>9, <2>1, <2>2, FilePartMade
<1>12. CellsMade(s, 0, new.cells)
  <2>1. new.cells = enc.cells \o more
    BY <1>5
  <2> QED
    BY <1>10, <1>11, <2>1, JoinedMade
<1>13. FileMade(new)
  <2>1. Len(new.read) >= 1
    BY <1>6, <1>8
  <2> HIDE DEF new
  <2> QED
    BY <1>2, <1>5, <1>6, <1>12, <2>1 DEF FileMade, s
<1> QED
  BY <1>1, <1>13 DEF AllMade

(* FinishFile: the record of the file is listed.                           *)
LEMMA FinishFileKeeps == ASSUME AllMade, FinishFile PROVE AllMade'
<1> DEFINE enc == encryption
           r == [form |-> "file", to |-> {enc.to}, signer |-> Nobody,
                 parts |-> [i \in DOMAIN enc.read |-> Part(<<>>, enc.read[i])],
                 cells |-> enc.cells, content |-> enc.content, changed |-> enc.changes > 0]
           q == FileRecord(enc)
<1>1. enc # Idle /\ sent' = Append(sent, r) /\ encryption' = Idle /\ arrived' = arrived
  BY DEF FinishFile, Idle
<1>2. CellsMade(q, 0, enc.cells)
  BY <1>1 DEF AllMade, FileMade
<1>3. r.form = "file" /\ q.form = "file" /\ r.to = q.to /\ r.parts = q.parts /\ r.cells = enc.cells
  BY DEF FileRecord
<1> HIDE DEF r, q
<1>4. CellsMade(r, 10 * (Len(sent) + 1), r.cells)
  <2>1. \A k \in DOMAIN q.parts : \E j \in DOMAIN r.parts : r.parts[j] = q.parts[k]
    BY <1>3
  <2> DEFINE y == 10 * (Len(sent) + 1)
  <2> HIDE DEF y
  <2>2. CellsMade(r, y, enc.cells)
    BY <1>2, <1>3, <2>1, FileGrows
  <2> QED
    BY <1>3, <2>2 DEF y
<1>5. RecordMade(r, 10 * (Len(sent) + 1))
  BY <1>3, <1>4 DEF RecordMade
<1>6. SentMade(sent) /\ ArrivedMade(sent, arrived) /\ IsSequence(sent)
  BY DEF AllMade, SentMade
<1>7. SentMade(Append(sent, r)) /\ ArrivedMade(Append(sent, r), arrived)
  BY <1>5, <1>6, SentGrows, KnownStays
<1> QED
  BY <1>1, <1>7 DEF AllMade, FileMade

(* WriteFile: what was read stays.                                         *)
LEMMA WriteFileKeeps == ASSUME AllMade, NEW content \in Contents, WriteFile(content) PROVE AllMade'
<1> DEFINE enc == encryption
           new == encryption'
           count == enc.changes + 1
<1>1. /\ enc # Idle /\ new = [enc EXCEPT !.file = content, !.changes = count]
      /\ sent' = sent /\ arrived' = arrived
  BY DEF WriteFile, Idle
<1>2. /\ enc = Reading(enc) /\ enc.size \in Nat /\ IsSequence(enc.read) /\ Len(enc.read) >= 1
      /\ CellsMade(FileRecord(enc), 0, enc.cells)
  BY <1>1 DEF AllMade, FileMade
<1>3. /\ new = Reading(new) /\ new.read = enc.read /\ new.cells = enc.cells
      /\ new.to = enc.to /\ new.size = enc.size /\ new.file = content
  <2>1. enc = [state |-> "reading", to |-> enc.to, size |-> enc.size, read |-> enc.read,
               cells |-> enc.cells, file |-> enc.file, content |-> enc.content, changes |-> enc.changes]
    BY <1>2 DEF Reading
  <2> HIDE DEF new, enc, count
  <2>3. new = [state |-> "reading", to |-> enc.to, size |-> enc.size, read |-> enc.read,
               cells |-> enc.cells, file |-> content, content |-> enc.content, changes |-> count]
    <3> SUFFICES ASSUME NEW q, q = [state |-> "reading", to |-> enc.to, size |-> enc.size,
                          read |-> enc.read, cells |-> enc.cells, file |-> enc.file,
                          content |-> enc.content, changes |-> enc.changes],
                        NEW u, u = [q EXCEPT !.file = content, !.changes = count]
                 PROVE  u = [state |-> "reading", to |-> enc.to, size |-> enc.size,
                             read |-> enc.read, cells |-> enc.cells, file |-> content,
                             content |-> enc.content, changes |-> count]
      BY <1>1, <2>1
    <3> QED
      OBVIOUS
  <2> QED
    BY <2>3 DEF Reading
<1>4. FileRecord(new) = FileRecord(enc)
  <2> HIDE DEF new, enc
  <2> QED
    BY <1>3 DEF FileRecord
<1>5. FileMade(new)
  <2> HIDE DEF new, enc
  <2> QED
    BY <1>2, <1>3, <1>4 DEF FileMade
<1> QED
  BY <1>1, <1>5 DEF AllMade

-----------------------------------------------------------------------------
(* A buffer of known cells may arrive.                                     *)
LEMMA ArrivesKnown ==
  ASSUME AllMade, ArrivedMade(sent, arrived'), sent' = sent, encryption' = encryption
  PROVE  AllMade'
BY DEF AllMade

(* Splice: the beginning of one message, the end of another.               *)
LEMMA SpliceKeeps ==
  ASSUME AllMade, NEW a \in DOMAIN sent, NEW b \in DOMAIN sent, NEW i \in Nat, NEW j \in Nat,
         Splice(a, b, i, j)
  PROVE  AllMade'
<1>1. SentMade(sent) /\ DOMAIN sent = 1 .. Len(sent)
  BY SequenceIs DEF AllMade, SentMade
<1> DEFINE s == sent[a].cells
           t == sent[b].cells
<1>2. ArrivedMade(sent, s) /\ ArrivedMade(sent, t)
  BY <1>1, SentKnown
<1>3. Len(t) \in Int /\ i \in Int /\ 0 \in Nat
  <2> HIDE DEF t
  <2> QED
    BY <1>2, SequenceIs DEF ArrivedMade
<1>4. arrived' = Slice(s, 0, i) \o Slice(t, j, Len(t)) /\ sent' = sent /\ encryption' = encryption
  BY DEF Splice
<1> HIDE DEF s, t
<1>5. ArrivedMade(sent, Slice(s, 0, i)) /\ ArrivedMade(sent, Slice(t, j, Len(t)))
  BY <1>2, <1>3, SlicedKnown
<1>6. ArrivedMade(sent, arrived')
  BY <1>4, <1>5, JoinedKnown
<1> QED
  BY <1>4, <1>6, ArrivesKnown

(* Cut: the beginning of a message.                                        *)
LEMMA CutKeeps ==
  ASSUME AllMade, NEW a \in DOMAIN sent, NEW i \in Nat, Cut(a, i)
  PROVE  AllMade'
<1>1. SentMade(sent) /\ DOMAIN sent = 1 .. Len(sent)
  BY SequenceIs DEF AllMade, SentMade
<1> DEFINE s == sent[a].cells
<1>2. ArrivedMade(sent, s)
  BY <1>1, SentKnown
<1>3. arrived' = Slice(s, 0, i) /\ sent' = sent /\ encryption' = encryption
  BY DEF Cut
<1> HIDE DEF s
<1>4. ArrivedMade(sent, Slice(s, 0, i))
  <2>1. i \in Int /\ 0 \in Nat
    OBVIOUS
  <2> QED
    BY <1>2, <2>1, SlicedKnown
<1> QED
  BY <1>3, <1>4, ArrivesKnown

(* Alter: a message with another cell, which is no tag.                    *)
LEMMA AlterKeeps ==
  ASSUME AllMade, NEW a \in DOMAIN sent, NEW i \in DOMAIN sent[a].cells,
         NEW cell \in {<<"number", 1>>, <<"sizes", 0, 1>>}, Alter(a, i, cell)
  PROVE  AllMade'
<1>1. SentMade(sent) /\ DOMAIN sent = 1 .. Len(sent)
  BY SequenceIs DEF AllMade, SentMade
<1> DEFINE s == sent[a].cells
<1>2. ArrivedMade(sent, s)
  BY <1>1, SentKnown
<1>3. arrived' = [s EXCEPT ![i] = cell] /\ i \in DOMAIN s /\ sent' = sent /\ encryption' = encryption
  BY DEF Alter
<1>4. Known(sent, cell)
  BY DEF Known, Sized
<1> HIDE DEF s
<1>5. ArrivedMade(sent, [s EXCEPT ![i] = cell])
  BY <1>2, <1>3, <1>4, AlteredKnown
<1> QED
  BY <1>3, <1>5, ArrivesKnown

-----------------------------------------------------------------------------
(* Every step of the exchange: no tag comes from nowhere.                  *)
LEMMA AllMadeFirst == Init => AllMade
<1> SUFFICES ASSUME Init PROVE AllMade
  OBVIOUS
<1>1. sent = <<>> /\ arrived = <<>> /\ encryption = Idle
  BY DEF Init
<1>2. IsSequence(<<>>) /\ Len(<<>>) = 0 /\ Range(<<>>) = {}
  BY Shorts
<1>3. SentMade(<<>>) /\ ArrivedMade(<<>>, <<>>)
  BY <1>2 DEF SentMade, ArrivedMade
<1> QED
  BY <1>1, <1>3 DEF AllMade, FileMade

(* One case for each action.                                               *)
LEMMA AllMadeKept == AllMade /\ [Next]_vars => AllMade'
<1> SUFFICES ASSUME AllMade, [Next]_vars PROVE AllMade'
  OBVIOUS
<1>1. ASSUME NEW p \in Members, NEW m \in Messages, NEW pre \in Preambles,
             NEW type \in {"basic", "withLength"}, Encrypt(type, p, m, pre)
      PROVE  AllMade'
  BY <1>1, EncryptKeeps
<1>2. ASSUME NEW r \in Recipients, NEW m \in Messages, NEW s \in Signers, NEW pre \in Preambles,
             EncryptForMany(r, m, pre, s)
      PROVE  AllMade'
  BY <1>2, EncryptForManyKeeps
<1>3. ASSUME NEW r \in Recipients, NEW m \in Messages, NEW s \in Signers, NEW k \in CallersKeys,
             NEW index \in 0 .. 1, EncryptChunkForMany(k, r, m, index, index = 1, s)
      PROVE  AllMade'
  <2> DEFINE isLast == index = 1
  <2>1. isLast \in BOOLEAN /\ index \in Nat /\ EncryptChunkForMany(k, r, m, index, isLast, s)
    BY <1>3
  <2> HIDE DEF isLast
  <2> QED
    BY <2>1, EncryptChunkForManyKeeps
<1>4. ASSUME NEW k \in CallersKeys, NEW p \in Members, EncryptSymmetricKey(k, p) PROVE AllMade'
  BY <1>4, EncryptSymmetricKeyKeeps
<1>5. ASSUME NEW p \in Members, NEW content \in Contents, StatFile(p, content) PROVE AllMade'
  BY <1>5, StatFileKeeps
<1>6. CASE ReadFileChunk
  BY <1>6, ReadFileChunkKeeps
<1>7. CASE FinishFile
  BY <1>7, FinishFileKeeps
<1>8. ASSUME NEW content \in Contents, WriteFile(content) PROVE AllMade'
  BY <1>8, WriteFileKeeps
<1>9. \A a \in DOMAIN sent : Len(sent[a].cells) \in Nat
  <2>1. \A a \in 1 .. Len(sent) : IsSequence(sent[a].cells)
    BY DEF AllMade, SentMade, RecordMade, CellsMade
  <2>2. DOMAIN sent = 1 .. Len(sent)
    BY SequenceIs DEF AllMade, SentMade
  <2> QED
    BY <2>1, <2>2, SequenceIs
<1>10. ASSUME NEW a \in DOMAIN sent, NEW b \in DOMAIN sent,
              NEW i \in 0 .. Len(sent[a].cells), Splice(a, b, i, i)
       PROVE  AllMade'
  <2>1. i \in Nat
    BY <1>9
  <2> QED
    BY <1>10, <2>1, SpliceKeeps
<1>11. ASSUME Len(sent) = 1, \E i \in 0 .. Len(sent[1].cells), d \in {-1, 0, 1} :
                               i + d >= 0 /\ Splice(1, 1, i, i + d)
       PROVE  AllMade'
  <2>1. 1 \in DOMAIN sent
    BY <1>11, SequenceIs DEF AllMade, SentMade
  <2>2. PICK i \in 0 .. Len(sent[1].cells), d \in {-1, 0, 1} : i + d >= 0 /\ Splice(1, 1, i, i + d)
    BY <1>11
  <2> DEFINE j == i + d
  <2>3. i \in Nat /\ j \in Nat /\ Splice(1, 1, i, j)
    BY <1>9, <2>1, <2>2
  <2> HIDE DEF j
  <2> QED
    BY <2>1, <2>3, SpliceKeeps
<1>12. ASSUME Len(sent) = 1, NEW i \in 0 .. Len(sent[1].cells), Cut(1, i) PROVE AllMade'
  <2>1. 1 \in DOMAIN sent
    BY <1>12, SequenceIs DEF AllMade, SentMade
  <2>2. i \in Nat
    BY <1>9, <2>1
  <2> QED
    BY <1>12, <2>1, <2>2, CutKeeps
<1>13. ASSUME Len(sent) = 1, NEW i \in DOMAIN sent[1].cells,
              NEW cell \in {<<"number", 1>>, <<"sizes", 0, 1>>}, Alter(1, i, cell)
       PROVE  AllMade'
  <2>1. 1 \in DOMAIN sent
    BY <1>13, SequenceIs DEF AllMade, SentMade
  <2> QED
    BY <1>13, <2>1, AlterKeeps
<1>14. CASE UNCHANGED vars
  BY <1>14 DEF AllMade, vars
<1> QED
  BY <1>1, <1>2, <1>3, <1>4, <1>5, <1>6, <1>7, <1>8, <1>10, <1>11, <1>12, <1>13, <1>14, Zenon DEF Next

-----------------------------------------------------------------------------
(* What a tag tells of the record it was made for.                         *)
LEMMA SameCells ==
  ASSUME NEW s, NEW t, IsSequence(s), IsSequence(t), Len(s) = Len(t),
         \A i \in 1 .. Len(s) : s[i] = t[i]
  PROVE  s = t
<1> DEFINE T == Range(s) \union Range(t)
<1>1. s \in Seq(T) /\ t \in Seq(T)
  BY SequenceIs
<1> HIDE DEF T
<1> QED
  BY <1>1, SeqEqual

(* What is authenticated with a message for one recipient.                 *)
LEMMA AadHas ==
  ASSUME NEW pre, IsSequence(pre), NEW type, NEW e
  PROVE  /\ IsSequence(Aad(pre, type, e)) /\ Len(Aad(pre, type, e)) = Len(pre) + 4
         /\ \A i \in 1 .. Len(pre) : Aad(pre, type, e)[i] = pre[i]
         /\ Aad(pre, type, e)[Len(pre) + 1] = VersionCell
<1> DEFINE four == <<VersionCell, SuiteCell, Cell(type), KeyCell(e)>>
           T == {VersionCell, SuiteCell, Cell(type), KeyCell(e)}
<1>1. four \in Seq(T) /\ Len(four) = 4 /\ four[1] = VersionCell
  OBVIOUS
<1>2. Aad(pre, type, e) = pre \o four
  BY DEF Aad
<1> HIDE DEF four, T
<1>3. IsSequence(four)
  BY <1>1, SequenceOver
<1> DEFINE all == pre \o four
           n == Len(pre)
<1>4. /\ IsSequence(all) /\ Len(all) = n + Len(four)
      /\ (\A i \in 1 .. n : all[i] = pre[i]) /\ \A i \in 1 .. Len(four) : all[n + i] = four[i]
  BY <1>3, Joined
<1> HIDE DEF all, n
<1>5. 1 \in 1 .. Len(four)
  BY <1>1
<1>6. all[n + 1] = VersionCell
  BY <1>1, <1>4, <1>5
<1> QED
  BY <1>1, <1>2, <1>4, <1>6 DEF all, n

(* It tells the preamble.                                                  *)
LEMMA AadTells ==
  ASSUME NEW pre, IsSequence(pre), NEW pre2, IsSequence(pre2), NEW type, NEW type2, NEW e, NEW e2,
         Aad(pre, type, e) = Aad(pre2, type2, e2)
  PROVE  pre = pre2
<1> DEFINE a == Aad(pre, type, e)
           b == Aad(pre2, type2, e2)
<1>1. Len(a) = Len(pre) + 4 /\ \A i \in 1 .. Len(pre) : a[i] = pre[i]
  BY AadHas
<1>2. Len(b) = Len(pre2) + 4 /\ \A i \in 1 .. Len(pre2) : b[i] = pre2[i]
  BY AadHas
<1>3. Len(pre) \in Nat /\ Len(pre2) \in Nat
  BY SequenceIs
<1>4. a = b
  OBVIOUS
<1> HIDE DEF a, b
<1>5. Len(pre) = Len(pre2) /\ \A i \in 1 .. Len(pre) : pre[i] = pre2[i]
  BY <1>1, <1>2, <1>3, <1>4
<1> QED
  BY <1>5, SameCells

(* No id, and no missing one, stands where the header of a message is      *)
(* authenticated.                                                          *)
LEMMA AadIsNoId ==
  ASSUME NEW pre, IsSequence(pre), NEW type, NEW e, NEW id, id = <<>> \/ IsBytes(id)
  PROVE  Aad(pre, type, e) # id
<1> DEFINE a == Aad(pre, type, e)
           n == Len(pre)
<1>1. IsSequence(a) /\ Len(a) = n + 4 /\ a[n + 1] = VersionCell /\ n \in Nat
  BY AadHas, SequenceIs
<1> HIDE DEF a, n
<1>2. a # <<>>
  BY <1>1, Shorts
<1>3. DOMAIN a = 1 .. n + 4
  BY <1>1, SequenceIs
<1>4. n + 1 \in DOMAIN a /\ a[n + 1][1] \in FormatKinds
  <2>1. n + 1 \in 1 .. n + 4
    BY <1>1
  <2>2. VersionCell[1] \in FormatKinds
    BY DEF VersionCell, Cell, FormatKinds
  <2> QED
    BY <1>1, <1>3, <2>1, <2>2
<1>5. ~IsBytes(a)
  BY <1>4 DEF IsBytes
<1> QED
  BY <1>2, <1>5 DEF a

(* Keys shared with a recipient and keys drawn for a message.              *)
LEMMA KeysDiffer ==
  /\ \A e, p, x : SharedKey(e, p) # SymmetricCell(x)
  /\ \A e, p, e2, p2 : SharedKey(e, p) = SharedKey(e2, p2) => e = e2 /\ p = p2
  /\ \A x, y : SymmetricCell(x) = SymmetricCell(y) => x = y
BY DEF SharedKey, SymmetricCell

(* The tag of a text under a shared key: recipient, preamble and text.     *)
LEMMA SingleTagTells ==
  ASSUME NEW r, NEW x, NEW t, TagMade(r, x, t), NEW e, NEW p, NEW pre, IsSequence(pre), NEW type,
         NEW iv, NEW text, t = TagCell(SharedKey(e, p), Aad(pre, type, e), iv, text)
  PROVE  /\ r.form \in {"single", "file"} /\ p \in r.to
         /\ \E k \in DOMAIN r.parts : r.parts[k] = Part(pre, text)
<1>1. ~BodyTag(r, x, t)
  <2> SUFFICES ASSUME NEW header,
                      t = TagCell(SymmetricCell(r.symmetricKey), header, IvCell(x),
                                  Signed(r.signer, r.parts[1].data))
               PROVE  FALSE
    BY Zenon DEF BodyTag
  <2>1. SharedKey(e, p) = SymmetricCell(r.symmetricKey)
    BY DEF TagCell
  <2> QED
    BY <2>1, KeysDiffer
<1>2. ~KeyTag(r, x, t)
  <2> SUFFICES ASSUME NEW q \in r.to, r.form # "key" => IsBytes(Id(q)) /\ Id(q) # <<>>,
                      t = TagCell(SharedKey(x, q), IF r.form = "key" THEN <<>> ELSE Id(q), IvCell(x),
                                  <<SymmetricCell(r.symmetricKey)>>)
               PROVE  FALSE
    BY Zenon DEF KeyTag
  <2> DEFINE id == IF r.form = "key" THEN <<>> ELSE Id(q)
  <2>1. id = <<>> \/ IsBytes(id)
    OBVIOUS
  <2>2. t = TagCell(SharedKey(x, q), id, IvCell(x), <<SymmetricCell(r.symmetricKey)>>)
    OBVIOUS
  <2> HIDE DEF id
  <2>3. Aad(pre, type, e) = id
    BY <2>2 DEF TagCell
  <2> QED
    BY <2>1, <2>3, AadIsNoId
<1>3. SingleTag(r, t)
  BY <1>1, <1>2 DEF TagMade
<1>4. PICK e2, type2, pre2, data : \E q \in r.to, k \in DOMAIN r.parts :
        /\ IsSequence(pre2) /\ r.parts[k] = Part(pre2, data)
        /\ t = TagCell(SharedKey(e2, q), Aad(pre2, type2, e2), IvCell(e2), data)
  BY <1>3, Zenon DEF SingleTag
<1>5. PICK q \in r.to, k \in DOMAIN r.parts :
        /\ IsSequence(pre2) /\ r.parts[k] = Part(pre2, data)
        /\ t = TagCell(SharedKey(e2, q), Aad(pre2, type2, e2), IvCell(e2), data)
  BY <1>4
<1>6. SharedKey(e2, q) = SharedKey(e, p) /\ Aad(pre2, type2, e2) = Aad(pre, type, e) /\ data = text
  BY <1>5 DEF TagCell
<1>7. q = p /\ pre2 = pre
  BY <1>5, <1>6, KeysDiffer, AadTells
<1> QED
  BY <1>3, <1>5, <1>6, <1>7 DEF SingleTag

MayBeId(id) == id = <<>> \/ IsBytes(id)

(* The tag of a key under a shared key: recipient and key.                 *)
LEMMA KeyTagTells ==
  ASSUME NEW r, NEW x, NEW t, TagMade(r, x, t), NEW e, NEW p, NEW id, MayBeId(id),
         NEW iv, NEW one, t = TagCell(SharedKey(e, p), id, iv, one)
  PROVE  /\ r.form \in {"multiple", "chunk", "key"} /\ p \in r.to /\ x = e
         /\ one = <<SymmetricCell(r.symmetricKey)>>
         /\ r.form = "key" <=> id = <<>>
<1>1. ~BodyTag(r, x, t)
  <2> SUFFICES ASSUME NEW header,
                      t = TagCell(SymmetricCell(r.symmetricKey), header, IvCell(x),
                                  Signed(r.signer, r.parts[1].data))
               PROVE  FALSE
    BY Zenon DEF BodyTag
  <2>1. SharedKey(e, p) = SymmetricCell(r.symmetricKey)
    BY DEF TagCell
  <2> QED
    BY <2>1, KeysDiffer
<1>2. ~SingleTag(r, t)
  <2> SUFFICES ASSUME NEW e2, NEW type2, NEW pre2, NEW data, NEW q \in r.to, IsSequence(pre2),
                      t = TagCell(SharedKey(e2, q), Aad(pre2, type2, e2), IvCell(e2), data)
               PROVE  FALSE
    BY Zenon DEF SingleTag
  <2>1. Aad(pre2, type2, e2) = id
    BY DEF TagCell
  <2> QED
    BY <2>1, AadIsNoId DEF MayBeId
<1>3. KeyTag(r, x, t)
  BY <1>1, <1>2 DEF TagMade
<1>4. PICK q \in r.to : /\ r.form # "key" => IsBytes(Id(q)) /\ Id(q) # <<>>
                        /\ t = TagCell(SharedKey(x, q), IF r.form = "key" THEN <<>> ELSE Id(q), IvCell(x),
                                       <<SymmetricCell(r.symmetricKey)>>)
  BY <1>3, Zenon DEF KeyTag
<1> DEFINE own == IF r.form = "key" THEN <<>> ELSE Id(q)
           text == <<SymmetricCell(r.symmetricKey)>>
<1>5. t = TagCell(SharedKey(x, q), own, IvCell(x), text)
  BY <1>4
<1> HIDE DEF own, text
<1>6. SharedKey(e, p) = SharedKey(x, q) /\ id = own /\ one = text
  BY <1>5 DEF TagCell
<1>7. p = q /\ e = x /\ one = <<SymmetricCell(r.symmetricKey)>>
  BY <1>6, KeysDiffer DEF text
<1>8. r.form = "key" <=> own = <<>>
  BY <1>4 DEF own
<1> QED
  BY <1>3, <1>6, <1>7, <1>8 DEF KeyTag

(* The tag of a text under a drawn key: the record, its header and text.   *)
LEMMA BodyTagTells ==
  ASSUME NEW r, NEW x, NEW t, TagMade(r, x, t), NEW sym, NEW header, NEW iv, NEW text,
         t = TagCell(SymmetricCell(sym), header, iv, text)
  PROVE  HeaderOf(r, x, header) /\ text = Signed(r.signer, r.parts[1].data)
<1>1. ~KeyTag(r, x, t)
  <2> SUFFICES ASSUME NEW q \in r.to,
                      t = TagCell(SharedKey(x, q), IF r.form = "key" THEN <<>> ELSE Id(q), IvCell(x),
                                  <<SymmetricCell(r.symmetricKey)>>)
               PROVE  FALSE
    BY Zenon DEF KeyTag
  <2> DEFINE id == IF r.form = "key" THEN <<>> ELSE Id(q)
             c == <<SymmetricCell(r.symmetricKey)>>
  <2>1. t = TagCell(SharedKey(x, q), id, IvCell(x), c)
    OBVIOUS
  <2> HIDE DEF id, c
  <2>2. SymmetricCell(sym) = SharedKey(x, q)
    BY <2>1 DEF TagCell
  <2> QED
    BY <2>2, KeysDiffer
<1>2. ~SingleTag(r, t)
  <2> SUFFICES ASSUME NEW e2, NEW type2, NEW pre2, NEW data, NEW q \in r.to,
                      t = TagCell(SharedKey(e2, q), Aad(pre2, type2, e2), IvCell(e2), data)
               PROVE  FALSE
    BY Zenon DEF SingleTag
  <2>1. SymmetricCell(sym) = SharedKey(e2, q)
    BY DEF TagCell
  <2> QED
    BY <2>1, KeysDiffer
<1>3. PICK own : HeaderOf(r, x, own)
                 /\ t = TagCell(SymmetricCell(r.symmetricKey), own, IvCell(x),
                                Signed(r.signer, r.parts[1].data))
  BY <1>1, <1>2, Zenon DEF TagMade, BodyTag
<1>4. own = header /\ text = Signed(r.signer, r.parts[1].data)
  BY <1>3 DEF TagCell
<1> QED
  BY <1>3, <1>4

-----------------------------------------------------------------------------
(* What opens a message has found its tag among the cells that arrived.    *)
LEMMA CellsOf ==
  ASSUME NEW data, IsSequence(data), NEW n \in Nat, n >= 1, n <= Len(data)
  PROVE  data[n] \in Range(data)
<1>1. Len(data) \in Nat /\ \A i \in 1 .. Len(data) : data[i] \in Range(data)
  BY SequenceIs
<1>2. n \in 1 .. Len(data)
  BY <1>1
<1> QED
  BY <1>1, <1>2

(* decryptWithHeader.                                                      *)
LEMMA SingleTagFound ==
  ASSUME NEW data, IsSequence(data), NEW type, NEW p, NEW n \in Nat, NEW length,
         NEW opened, opened = DecryptWithHeader(type, p, data, n, length), opened.ok
  PROVE  \E e, kind, iv : TagCell(SharedKey(e, p), Aad(Slice(data, 0, n), kind, e), iv, opened.decrypted)
                            \in Range(data)
<1> DEFINE parsed == ParseEncryptedMessage(type, data, n, length)
           inner  == DecryptWithComponents(p, parsed.key, parsed.iv, parsed.tag, parsed.data,
                                           Aad(parsed.preamble, parsed.type, parsed.key))
           whole  == OpenParsed(p, parsed)
           consumed == parsed.dataLength + parsed.headerSize
<1>1. opened = IF whole.ok THEN [ok |-> TRUE, decrypted |-> whole.decrypted] ELSE Refused
  BY Zenon DEF DecryptWithHeader, DecryptWithHeaderEx, Plain
<1>2. whole = IF parsed.ok /\ inner.ok
              THEN [ok |-> TRUE, decrypted |-> parsed.data, consumedBytes |-> consumed] ELSE Refused
  BY Zenon DEF OpenParsed
<1>3. inner = IF /\ parsed.data # <<>>
                 /\ parsed.tag = TagCell(SharedKey(parsed.key, p), Aad(parsed.preamble, parsed.type, parsed.key),
                                         parsed.iv, parsed.data)
              THEN [ok |-> TRUE, decrypted |-> parsed.data] ELSE Refused
  BY Zenon DEF DecryptWithComponents
<1> DEFINE kind == data[n + 3][1]
           result == Parsed(kind, data, n, length)
<1>4. parsed = IF AcceptsHeader(type, data, n) THEN result ELSE Refused
  BY Zenon DEF ParseEncryptedMessage
<1> HIDE DEF whole, parsed, inner, consumed
<1>5. /\ parsed.ok /\ opened.decrypted = parsed.data
      /\ parsed.tag = TagCell(SharedKey(parsed.key, p), Aad(parsed.preamble, parsed.type, parsed.key),
                              parsed.iv, parsed.data)
  <2>1. whole.ok /\ opened.decrypted = whole.decrypted
    BY <1>1 DEF Refused
  <2>2. parsed.ok /\ inner.ok /\ whole.decrypted = parsed.data
    BY <1>2, <2>1 DEF Refused
  <2>3. parsed.tag = TagCell(SharedKey(parsed.key, p), Aad(parsed.preamble, parsed.type, parsed.key),
                             parsed.iv, parsed.data)
    BY <1>3, <2>2, Zenon DEF Refused
  <2> QED
    BY <2>1, <2>2, <2>3
<1>6. parsed = result
  <2> HIDE DEF result
  <2> QED
    BY <1>4, <1>5 DEF Refused
<1>7. /\ Len(data) >= n + GetHeaderSize(kind)
      /\ parsed.tag = data[n + 6] /\ parsed.preamble = Slice(data, 0, n)
  <2> DEFINE start == n + GetHeaderSize(kind)
             size == IF kind = "withLength" THEN NumberIn(data[n + 7]) ELSE length
             end == IF size > 0 THEN start + size ELSE Len(data)
             body == Slice(data, start, end)
             pre == Slice(data, 0, n)
             rest == IF kind = "withLength" THEN Slice(data, start + size, Len(data)) ELSE <<>>
             key == data[n + 4][2]
             iv == data[n + 5]
             tag == data[n + 6]
             small == Len(data) < start \/ data[n + 4][1] # "key"
             wrong == kind = "withLength" /\ (length \notin {NoLength, size} \/ Len(body) # size)
             header == GetHeaderSize(kind)
  <2>1. result = IF small THEN Refused
                 ELSE IF wrong THEN Refused
                 ELSE [ok |-> TRUE, preamble |-> pre, type |-> kind, key |-> key, iv |-> iv,
                       tag |-> tag, dataLength |-> size, headerSize |-> header,
                       data |-> body, remainder |-> rest]
    BY Zenon DEF Parsed
  <2>2. result.ok
    BY <1>5, <1>6
  <2> HIDE DEF result, small, wrong, pre, key, iv, size, header, body, rest, tag
  <2>3. ~small /\ result.tag = tag /\ result.preamble = pre
    BY <2>1, <2>2 DEF Refused
  <2>4. ~(Len(data) < start)
    BY <2>3 DEF small
  <2>5. Len(data) \in Nat /\ start \in Nat
    BY SequenceIs DEF GetHeaderSize
  <2> QED
    BY <1>6, <2>3, <2>4, <2>5 DEF tag, pre
<1>8. data[n + 6] \in Range(data)
  <2>1. n + 6 \in Nat /\ n + 6 >= 1 /\ n + 6 <= Len(data)
    BY <1>7, SequenceIs DEF GetHeaderSize
  <2> QED
    BY <2>1, CellsOf
<1>9. TagCell(SharedKey(parsed.key, p), Aad(Slice(data, 0, n), parsed.type, parsed.key),
              parsed.iv, opened.decrypted) \in Range(data)
  BY <1>5, <1>7, <1>8
<1> QED
  BY <1>9

(* decryptKey of the symmetric key.                                        *)
LEMMA KeyTagFound ==
  ASSUME NEW key, IsSequence(key), NEW p, NEW e, NEW aad, NEW opened,
         opened = DecryptKey(p, key, e, aad), opened.ok
  PROVE  \E iv : TagCell(SharedKey(e, p), aad, iv, <<opened.key>>) \in Range(key)
<1>1. opened = IF /\ Len(key) = EncryptedKeySize
                  /\ key[2] = TagCell(SharedKey(e, p), aad, key[1], <<key[3]>>)
               THEN [ok |-> TRUE, key |-> key[3]] ELSE Refused
  BY Zenon DEF DecryptKey
<1>2. Len(key) = 3 /\ key[2] = TagCell(SharedKey(e, p), aad, key[1], <<key[3]>>) /\ opened.key = key[3]
  BY <1>1 DEF Refused, EncryptedKeySize
<1>3. key[2] \in Range(key)
  BY <1>2, CellsOf
<1> QED
  BY <1>2, <1>3

(* decryptKey of the processor.                                            *)
LEMMA KeyAloneFound ==
  ASSUME NEW data, IsSequence(data), NEW p, NEW opened, opened = DecryptKeyAlone(p, data), opened.ok
  PROVE  \E e, iv : TagCell(SharedKey(e, p), <<>>, iv, <<opened.key>>) \in Range(data)
<1> DEFINE e == data[1][2]
           t == Tail(data)
           none == <<>>
<1>1. data # <<>> /\ opened = DecryptKey(p, t, e, none)
  BY DEF DecryptKeyAlone, Refused
<1>2. IsSequence(t) /\ Range(t) \subseteq Range(data)
  <2>1. data \in Seq(Range(data))
    BY DEF IsSequence
  <2>2. t \in Seq(Range(data))
    BY <1>1, <2>1, HeadTailProperties
  <2> HIDE DEF t
  <2> QED
    BY <2>2, SequenceOver
<1> HIDE DEF t, e, none
<1>3. \E iv : TagCell(SharedKey(e, p), none, iv, <<opened.key>>) \in Range(t)
  BY <1>1, <1>2, KeyTagFound
<1> QED
  BY <1>2, <1>3 DEF none

-----------------------------------------------------------------------------
(* The signature in front of a message is the one it was signed with.      *)
LEMMA VerifiedTells ==
  ASSUME NEW d, IsBytes(d), NEW signer, NEW text, text = Signed(signer, d), NEW s,
         NEW v, v = VerifiedMessage(s, text), v.ok
  PROVE  (s # Nobody => signer = s) /\ v.decrypted \in {d, Signed(signer, d)}
<1>1. IsText(d) /\ IsSequence(d)
  BY BytesAreText DEF IsText
<1>2. CASE s = Nobody
  <2>1. v = [ok |-> TRUE, decrypted |-> text]
    BY <1>2 DEF VerifiedMessage
  <2> QED
    BY <1>2, <2>1
<1>3. CASE s # Nobody
  <2>1. text # <<>> /\ Head(text) = SignatureCell(s, Tail(text)) /\ v.decrypted = Tail(text)
    <3>1. v = IF text = <<>> THEN Refused
              ELSE IF Head(text) = SignatureCell(s, Tail(text))
                   THEN [ok |-> TRUE, decrypted |-> Tail(text)] ELSE Refused
      BY <1>3 DEF VerifiedMessage
    <3> QED
      BY <3>1 DEF Refused
  <2>2. Head(text)[1] = "signature" /\ Head(text)[2] = s
    BY <2>1 DEF SignatureCell
  <2>3. CASE signer = Nobody
    <3>1. text = d
      BY <2>3 DEF Signed
    <3>2. d \in Seq(Range(d)) /\ d # <<>>
      BY <1>1, <2>1, <3>1 DEF IsSequence
    <3>3. Head(d) = d[1] /\ 1 \in DOMAIN d
      BY <3>2, EmptySeq
    <3>4. Head(d)[1] \notin FormatKinds
      BY <3>3 DEF IsBytes
    <3> QED
      BY <2>2, <3>1, <3>4 DEF FormatKinds
  <2>4. CASE signer # Nobody
    <3> DEFINE c == SignatureCell(signer, d)
               T == Range(d) \union {c}
    <3>1. text = <<c>> \o d
      BY <2>4 DEF Signed
    <3>2. d \in Seq(T) /\ c \in T
      BY <1>1, SequenceIs
    <3> HIDE DEF c, T
    <3>3. Head(text) = c /\ Tail(text) = d
      BY <3>1, <3>2
    <3>4. signer = s
      BY <2>2, <3>3 DEF c, SignatureCell
    <3> QED
      BY <2>1, <3>3, <3>4
  <2> QED
    BY <2>3, <2>4
<1> QED
  BY <1>2, <1>3

(* Entries one after the other are a sequence again.                       *)
LEMMA EntriesFlatten ==
  ASSUME NEW n \in Nat, NEW f, f = [i \in 1 .. n |-> f[i]], NEW T, \A i \in 1 .. n : f[i] \in Seq(T)
  PROVE  IsSequence(f) /\ Len(f) = n /\ IsSequence(FlattenSeq(f))
<1>1. \A i \in 1 .. n : f[i] \in Range(f)
  BY DEF Range
<1>2. f \in Seq(Range(f)) /\ Len(f) = n
  BY <1>1
<1>3. IsSequence(f)
  BY <1>2 DEF IsSequence
<1>4. FlattenSeq(f) \in Seq(T)
  BY <1>2, <1>3, Flattened
<1> QED
  BY <1>2, <1>3, <1>4, SequenceOver

(* A slice has cells of the buffer.                                        *)
LEMMA SlicesAre ==
  ASSUME NEW data, IsSequence(data), NEW from \in Nat, NEW to \in Int
  PROVE  /\ IsSequence(Slice(data, from, to)) /\ Range(Slice(data, from, to)) \subseteq Range(data)
         /\ Slice(data, from, to) \in Seq(Range(data))
<1> DEFINE s == Slice(data, from, to)
<1>1. IsSequence(s) /\ Range(s) \subseteq Range(data)
  BY Sliced, Zenon
<1> HIDE DEF s
<1>2. s \in Seq(Range(data))
  BY <1>1, SequenceIs
<1> QED
  BY <1>1, <1>2 DEF s

(* What parsing a message for several gives.                               *)
LEMMA ParsedMultiple ==
  ASSUME NEW data, IsSequence(data), \A c \in Range(data) : Sized(c),
         NEW m, m = ParseMultiEncryptedBuffer(IdSize, data), m.ok
  PROVE  \E n \in Nat :
           /\ m.ids = [i \in 1 .. n |-> m.ids[i]] /\ m.keys = [i \in 1 .. n |-> m.keys[i]]
           /\ \A i \in 1 .. n : m.ids[i] \in Seq(Range(data)) /\ m.keys[i] \in Seq(Range(data))
           /\ \E at \in Nat : m.encryptedMessage = Slice(data, at, Len(data))
<1> DEFINE h == ParseMultiEncryptedHeader(IdSize, data)
           size == SizesIn(IdSize, data)
           n == size.count
           width == size.id
           keysAt == HeaderSize + n * width
           end == keysAt + n * EncryptedKeySize
           ids == [i \in 1 .. n |-> Slice(data, HeaderSize + (i - 1) * width, HeaderSize + i * width)]
           keys == [i \in 1 .. n |-> Slice(data, keysAt + (i - 1) * EncryptedKeySize,
                                           keysAt + i * EncryptedKeySize)]
           refusal == \/ size.text <= 0 \/ size.text > MaxDataSize
                      \/ size.count <= 0 \/ size.count > MaxRecipients \/ Len(data) < end
           key == IF data[4][1] = "key" THEN data[4][2] ELSE Garbage
           text == size.text
           result == [ok |-> TRUE, dataLength |-> text, ids |-> ids, keys |-> keys, key |-> key,
                      headerSize |-> end]
           sealed == Slice(data, end, Len(data))
           more == Slice(data, h.headerSize, Len(data))
<1>1. h.ok /\ m.ids = h.ids /\ m.keys = h.keys /\ m.encryptedMessage = more
  <2>1. m = IF ~h.ok THEN Refused
            ELSE [ok |-> TRUE, dataLength |-> h.dataLength, ids |-> h.ids, keys |-> h.keys,
                  key |-> h.key, headerSize |-> h.headerSize, encryptedMessage |-> more]
    BY Zenon DEF ParseMultiEncryptedBuffer, WithMessage
  <2> HIDE DEF h, more
  <2> QED
    BY <2>1 DEF Refused
<1>2. /\ h = HeaderParts(data, size) /\ Len(data) >= HeaderSize
  <2>1. h = IF /\ Len(data) >= HeaderSize
               /\ data[1] = VersionCell /\ data[2] = SuiteCell /\ data[3] = Cell("multiple")
            THEN HeaderParts(data, size) ELSE Refused
    BY Zenon DEF ParseMultiEncryptedHeader
  <2> HIDE DEF h, size
  <2> QED
    BY <1>1, <2>1 DEF Refused
<1>3. HeaderParts(data, size) = IF refusal THEN Refused ELSE result
  BY Zenon DEF HeaderParts
<1>4. h = result
  <2> HIDE DEF h, refusal, result, size
  <2> QED
    BY <1>1, <1>2, <1>3 DEF Refused
<1>5. width \in Nat /\ n \in Nat
  <2>1. 6 \in Nat /\ 5 \in Nat /\ 5 >= 1 /\ 5 <= Len(data) /\ 6 >= 1 /\ 6 <= Len(data)
    BY <1>2, SequenceIs DEF HeaderSize
  <2>2. Sized(data[5]) /\ Sized(data[6])
    BY <2>1, CellsOf
  <2>3. n = NumberIn(data[6])
    BY DEF SizesIn
  <2>4. width = IF data[5][1] # "sizes" THEN Garbage ELSE IF data[5][2] > 0 THEN data[5][2] ELSE IdSize
    BY DEF SizesIn
  <2> HIDE DEF n, width
  <2> QED
    BY <2>2, <2>3, <2>4, SizeAssumption DEF Sized, NumberIn, Garbage
<1> HIDE DEF n, width
<1>6. /\ HeaderSize = 6 /\ EncryptedKeySize = 3 /\ n * width \in Nat
      /\ \A i \in 1 .. n : (i - 1) * width \in Nat /\ i * width \in Nat
  BY <1>5 DEF HeaderSize, EncryptedKeySize
<1>7. keysAt \in Nat /\ end \in Nat
  BY <1>5, <1>6
<1> HIDE DEF keysAt, end
<1>8. ASSUME NEW i \in 1 .. n
      PROVE  ids[i] \in Seq(Range(data)) /\ keys[i] \in Seq(Range(data))
  <2> DEFINE a == HeaderSize + (i - 1) * width
             b == HeaderSize + i * width
             c == keysAt + (i - 1) * EncryptedKeySize
             d == keysAt + i * EncryptedKeySize
  <2>1. ids[i] = Slice(data, a, b) /\ keys[i] = Slice(data, c, d)
    OBVIOUS
  <2>2. a \in Nat /\ b \in Int
    BY <1>6
  <2>3. c \in Nat /\ d \in Int
    BY <1>5, <1>6, <1>7
  <2> HIDE DEF a, b, c, d, ids, keys
  <2> QED
    <3>1. Slice(data, a, b) \in Seq(Range(data))
      BY <2>2, SlicesAre
    <3>2. Slice(data, c, d) \in Seq(Range(data))
      BY <2>3, SlicesAre
    <3> QED
      BY <2>1, <3>1, <3>2
<1>9. ids = [i \in 1 .. n |-> ids[i]] /\ keys = [i \in 1 .. n |-> keys[i]]
  OBVIOUS
<1> HIDE DEF ids, keys, key, text
<1>10. m.ids = ids /\ m.keys = keys /\ m.encryptedMessage = sealed
  <2>1. h.headerSize = end /\ h.ids = ids /\ h.keys = keys
    <3> HIDE DEF h
    <3> QED
      BY <1>4
  <2> HIDE DEF h
  <2> QED
    BY <1>1, <2>1
<1> HIDE DEF h, size, result, refusal
<1> QED
  BY <1>5, <1>7, <1>8, <1>9, <1>10

(* The entry that is found is one of those parsed.                         *)
LEMMA IndexFound ==
  ASSUME NEW n \in Nat, NEW ids, DOMAIN ids = 1 .. n, NEW p, RecipientIndex(ids, p) # 0
  PROVE  RecipientIndex(ids, p) \in 1 .. n
<1> DEFINE found == {i \in DOMAIN ids : ids[i] = Id(p)}
           least == CHOOSE i \in found : \A j \in found : i <= j
<1>1. RecipientIndex(ids, p) = IF found = {} THEN 0 ELSE least
  BY Zenon DEF RecipientIndex
<1>2. found \in SUBSET Nat /\ found \subseteq 1 .. n
  OBVIOUS
<1> HIDE DEF found
<1>3. found # {} => least \in found
  BY <1>2, LeastNumber
<1> QED
  BY <1>1, <1>2, <1>3

(* A header begins with the version.                                       *)
LEMMA BuiltHeader ==
  ASSUME NEW m, NEW n \in Nat, m.ids = [i \in 1 .. n |-> m.ids[i]], m.keys = [i \in 1 .. n |-> m.keys[i]],
         NEW T, \A i \in 1 .. n : m.ids[i] \in Seq(T) /\ m.keys[i] \in Seq(T),
         NEW h, h = BuildHeader(IdSize, m), h.ok
  PROVE  h.cells[1] = VersionCell /\ h.cells[4] = KeyCell(m.key)
<1> DEFINE fields == <<VersionCell, SuiteCell, Cell("multiple"), KeyCell(m.key),
                       <<"sizes", IdSize, m.dataLength>>, <<"number", Len(m.ids)>>>>
           s == FlattenSeq(m.ids)
           t == FlattenSeq(m.keys)
           all == fields \o s \o t
           Q == {VersionCell, SuiteCell, Cell("multiple"), KeyCell(m.key),
                 <<"sizes", IdSize, m.dataLength>>, <<"number", Len(m.ids)>>}
           refusal == \/ Len(m.ids) > MaxRecipients \/ Len(m.ids) # Len(m.keys)
                      \/ m.dataLength > MaxDataSize
                      \/ \E i \in DOMAIN m.ids : Len(m.ids[i]) # IdSize
                      \/ \E i \in DOMAIN m.keys : Len(m.keys[i]) # EncryptedKeySize
<1>1. h = IF refusal THEN Refused ELSE [ok |-> TRUE, cells |-> all]
  BY Zenon DEF BuildHeader
<1>2. fields \in Seq(Q) /\ Len(fields) = 6 /\ fields[1] = VersionCell /\ fields[4] = KeyCell(m.key)
  OBVIOUS
<1>3. IsSequence(s) /\ IsSequence(t)
  <2> DEFINE ids == m.ids
             keys == m.keys
  <2>1. ids = [i \in 1 .. n |-> ids[i]] /\ \A i \in 1 .. n : ids[i] \in Seq(T)
    OBVIOUS
  <2>2. keys = [i \in 1 .. n |-> keys[i]] /\ \A i \in 1 .. n : keys[i] \in Seq(T)
    OBVIOUS
  <2> HIDE DEF ids, keys
  <2>3. IsSequence(FlattenSeq(ids))
    BY <2>1, EntriesFlatten
  <2>4. IsSequence(FlattenSeq(keys))
    BY <2>2, EntriesFlatten
  <2> QED
    BY <2>3, <2>4 DEF ids, keys
<1> HIDE DEF fields, s, t, Q, refusal
<1>4. IsSequence(fields)
  BY <1>2, SequenceOver
<1> DEFINE u == fields \o s
<1>5. IsSequence(u) /\ Len(u) = Len(fields) + Len(s) /\ \A i \in 1 .. Len(fields) : u[i] = fields[i]
  BY <1>3, <1>4, Joined
<1>6. Len(s) \in Nat
  BY <1>3, SequenceIs
<1> HIDE DEF u
<1>7. \A i \in 1 .. Len(u) : (u \o t)[i] = u[i]
  BY <1>3, <1>5, Joined
<1>8. 1 \in 1 .. Len(fields) /\ 1 \in 1 .. Len(u) /\ 4 \in 1 .. Len(fields) /\ 4 \in 1 .. Len(u)
  BY <1>2, <1>5, <1>6
<1>9. (u \o t)[1] = VersionCell /\ (u \o t)[4] = KeyCell(m.key)
  BY <1>2, <1>5, <1>7, <1>8
<1>10. h.cells = u \o t
  <2>1. all = u \o t
    BY DEF u
  <2> HIDE DEF all
  <2> QED
    BY <1>1, <2>1 DEF Refused
<1> QED
  BY <1>9, <1>10

(* The two tags a message for several is opened with.                      *)
MultipleTags(data, p, s, opened) ==
  \E e, k, header, text :
    /\ \E iv : TagCell(SharedKey(e, p), Id(p), iv, <<k>>) \in Range(data)
    /\ \E iv : TagCell(k, header, iv, text) \in Range(data)
    /\ header[1] = VersionCell /\ Ephemeral(header) = e
    /\ opened = VerifiedMessage(s, text)

(* decryptMultipleECIEForRecipient: a key and a text.                      *)
LEMMA MultipleTagsFound ==
  ASSUME NEW data, IsSequence(data), \A c \in Range(data) : Sized(c), NEW p, NEW s,
         NEW opened, opened = DecryptMultipleForRecipient(IdSize, data, p, s), opened.ok
  PROVE  MultipleTags(data, p, s, opened)
<1> DEFINE m == ParseMultiEncryptedBuffer(IdSize, data)
           index == RecipientIndex(m.ids, p)
           e == m.key
           entry == m.keys[index]
           key == DecryptKey(p, entry, e, Id(p))
           header == BuildHeader(IdSize, m)
           sealed == m.encryptedMessage
           text == Slice(sealed, 2, Len(sealed))
<1>1. m.ok /\ opened = DecryptMultiple(IdSize, m, p, TRUE, s)
  BY DEF DecryptMultipleForRecipient, Refused
<1>2. index # 0 /\ opened = OpenSealed(key, header, sealed, m.dataLength, s)
  <2> DEFINE whole == OpenSealed(key, header, sealed, m.dataLength, s)
  <2>1. opened = IF ~TRUE \/ index = 0 THEN Refused ELSE whole
    BY <1>1, Zenon DEF DecryptMultiple
  <2> HIDE DEF whole, index
  <2> QED
    BY <2>1 DEF Refused, whole
<1>3. /\ key.ok /\ header.ok /\ Len(sealed) >= 2
      /\ sealed[2] = TagCell(key.key, header.cells, sealed[1], text)
      /\ opened = VerifiedMessage(s, text)
  <2> DEFINE verified == VerifiedMessage(s, text)
             short == ~key.ok \/ ~header.ok \/ Len(sealed) < 2
             tag == TagCell(key.key, header.cells, sealed[1], text)
             wrong == Len(text) # m.dataLength
  <2>1. opened = IF short THEN Refused
                 ELSE IF sealed[2] # tag THEN Refused
                 ELSE IF wrong THEN Refused
                 ELSE verified
    BY <1>2, Zenon DEF OpenSealed
  <2> HIDE DEF short, tag, wrong, verified
  <2>2. ~short /\ sealed[2] = tag /\ opened = verified
    BY <2>1 DEF Refused
  <2>3. key.ok /\ header.ok /\ ~(Len(sealed) < 2)
    BY <2>2 DEF short
  <2>4. Len(sealed) >= 2
    <3>1. PICK n \in Nat : \E at \in Nat : sealed = Slice(data, at, Len(data))
      BY <1>1, ParsedMultiple
    <3>2. PICK at \in Nat : sealed = Slice(data, at, Len(data))
      BY <3>1
    <3> HIDE DEF sealed
    <3>3. IsSequence(sealed)
      BY <3>2, SlicesAre, SequenceIs
    <3> QED
      BY <2>3, <3>3, SequenceIs
  <2> QED
    BY <2>2, <2>3, <2>4 DEF tag, verified
<1>4. PICK n \in Nat :
        /\ m.ids = [i \in 1 .. n |-> m.ids[i]] /\ m.keys = [i \in 1 .. n |-> m.keys[i]]
        /\ \A i \in 1 .. n : m.ids[i] \in Seq(Range(data)) /\ m.keys[i] \in Seq(Range(data))
        /\ \E at \in Nat : sealed = Slice(data, at, Len(data))
  BY <1>1, ParsedMultiple
<1> HIDE DEF m
<1>5. index \in 1 .. n
  <2> DEFINE ids == m.ids
  <2>1. DOMAIN ids = 1 .. n
    BY <1>4
  <2> HIDE DEF ids
  <2>2. RecipientIndex(ids, p) # 0 => RecipientIndex(ids, p) \in 1 .. n
    BY <2>1, IndexFound
  <2> QED
    BY <1>2, <2>2 DEF ids
<1>6. entry \in Seq(Range(data))
  BY <1>4, <1>5
<1>7. header.cells[1] = VersionCell /\ Ephemeral(header.cells) = e
  <2> HIDE DEF index, key, sealed, text
  <2> QED
    <3>1. header.cells[1] = VersionCell /\ header.cells[4] = KeyCell(e)
      BY <1>3, <1>4, BuiltHeader
    <3> QED
      BY <3>1 DEF Ephemeral, KeyCell
<1>8. IsSequence(sealed) /\ Range(sealed) \subseteq Range(data)
  <2>1. PICK at \in Nat : sealed = Slice(data, at, Len(data))
    BY <1>4
  <2> DEFINE end == Len(data)
  <2>2. end \in Int /\ sealed = Slice(data, at, end)
    BY <2>1, SequenceIs
  <2> HIDE DEF sealed, end
  <2> QED
    BY <2>2, SlicesAre
<1> HIDE DEF entry, e, sealed, header, index
<1>9. \E iv : TagCell(SharedKey(e, p), Id(p), iv, <<key.key>>) \in Range(data)
  <2>1. IsSequence(entry) /\ Range(entry) \subseteq Range(data)
    BY <1>6, SequenceOver
  <2> DEFINE aad == Id(p)
  <2>2. key = DecryptKey(p, entry, e, aad)
    OBVIOUS
  <2> HIDE DEF aad, key
  <2>3. \E iv : TagCell(SharedKey(e, p), aad, iv, <<key.key>>) \in Range(entry)
    BY <1>3, <2>1, <2>2, KeyTagFound
  <2> QED
    BY <2>1, <2>3 DEF aad
<1> HIDE DEF key
<1>10. TagCell(key.key, header.cells, sealed[1], text) \in Range(data)
  <2>1. sealed[2] \in Range(sealed)
    BY <1>3, <1>8, CellsOf
  <2> QED
    BY <1>3, <1>8, <2>1
<1> DEFINE k == key.key
           aad == header.cells
<1>11. /\ \E iv : TagCell(SharedKey(e, p), Id(p), iv, <<k>>) \in Range(data)
       /\ \E iv : TagCell(k, aad, iv, text) \in Range(data)
       /\ aad[1] = VersionCell /\ Ephemeral(aad) = e
       /\ opened = VerifiedMessage(s, text)
  BY <1>3, <1>7, <1>9, <1>10
<1> HIDE DEF k, aad, text
<1> QED
  BY <1>11 DEF MultipleTags

(* Where the recipient headers of a chunk end, one after the other.        *)
Ends(f, data, n) ==
  /\ f = [i \in 0 .. n |-> f[i]]
  /\ \A i \in 0 .. n : f[i] = IF i = 0 THEN ChunkHeaderSize ELSE EntryEnd(IdSize, data, f[i - 1])

(* The ends can be told one from the other, for any count.                 *)
LEMMA EndsExist ==
  ASSUME NEW data, NEW n \in Nat
  PROVE  \E f : f = [i \in 0 .. n |-> IF i = 0 THEN ChunkHeaderSize
                                      ELSE EntryEnd(IdSize, data, f[i - 1])]
<1> DEFINE P == {k \in Nat : \E f : Ends(f, data, k)}
<1>1. 0 \in P
  <2>1. Ends([i \in 0 .. 0 |-> ChunkHeaderSize], data, 0)
    BY DEF Ends
  <2> QED
    BY <2>1
<1>2. ASSUME NEW k \in Nat, k \in P PROVE k + 1 \in P
  <2>1. PICK f : Ends(f, data, k)
    BY <1>2
  <2> DEFINE g == [i \in 0 .. k + 1 |-> IF i <= k THEN f[i] ELSE EntryEnd(IdSize, data, f[k])]
  <2>2. g = [i \in 0 .. k + 1 |-> g[i]]
    OBVIOUS
  <2>3. \A i \in 0 .. k + 1 : g[i] = IF i <= k THEN f[i] ELSE EntryEnd(IdSize, data, f[k])
    OBVIOUS
  <2> HIDE DEF g
  <2>4. ASSUME NEW i \in 0 .. k + 1
        PROVE  g[i] = IF i = 0 THEN ChunkHeaderSize ELSE EntryEnd(IdSize, data, g[i - 1])
    <3>1. i # 0 => i - 1 \in 0 .. k + 1 /\ i - 1 <= k
      OBVIOUS
    <3>2. i # 0 => g[i - 1] = f[i - 1]
      BY <2>3, <3>1
    <3>3. CASE i <= k
      <4>1. i \in 0 .. k /\ g[i] = f[i]
        BY <2>3, <3>3
      <4>2. f[i] = IF i = 0 THEN ChunkHeaderSize ELSE EntryEnd(IdSize, data, f[i - 1])
        BY <2>1, <4>1 DEF Ends
      <4> QED
        BY <3>2, <4>1, <4>2
    <3>4. CASE ~(i <= k)
      <4>1. i = k + 1 /\ i # 0 /\ i - 1 = k
        BY <3>4
      <4> QED
        BY <2>3, <3>2, <3>4, <4>1
    <3> QED
      BY <3>3, <3>4
  <2>5. Ends(g, data, k + 1)
    BY <2>2, <2>4 DEF Ends
  <2> QED
    BY <2>5
<1> HIDE DEF P
<1>3. n \in P
  BY <1>1, <1>2, NumbersInduction
<1>4. PICK f : Ends(f, data, n)
  BY <1>3 DEF P
<1> DEFINE g == [i \in 0 .. n |-> IF i = 0 THEN ChunkHeaderSize ELSE EntryEnd(IdSize, data, f[i - 1])]
<1>5. \A i \in 0 .. n : f[i] = g[i]
  BY <1>4 DEF Ends
<1>6. f = [i \in 0 .. n |-> f[i]]
  BY <1>4 DEF Ends
<1>7. f = g
  BY <1>5, <1>6
<1> QED
  BY <1>7

(* No header ends before the fixed fields.                                 *)
LEMMA EndsAreNumbers ==
  ASSUME NEW data, IsSequence(data), \A c \in Range(data) : Sized(c), NEW n \in Nat,
         NEW f, Ends(f, data, n)
  PROVE  \A i \in 0 .. n : f[i] \in Nat /\ f[i] >= 9
<1> DEFINE P == {k \in Nat : k \in 0 .. n => f[k] \in Nat /\ f[k] >= 9}
<1>1. 0 \in P
  <2>1. 0 \in 0 .. n
    OBVIOUS
  <2>2. f[0] = 9
    BY <2>1, Zenon DEF Ends, ChunkHeaderSize
  <2> QED
    BY <2>2
<1>2. ASSUME NEW k \in Nat, k \in P PROVE k + 1 \in P
  <2> SUFFICES ASSUME k + 1 \in 0 .. n PROVE f[k + 1] \in Nat /\ f[k + 1] >= 9
    OBVIOUS
  <2>1. k \in 0 .. n /\ k + 1 # 0 /\ (k + 1) - 1 = k
    OBVIOUS
  <2> DEFINE o == f[k]
             keyAt == o + IdSize + 1
  <2>2. o \in Nat /\ o >= 9
    BY <1>2, <2>1
  <2>3. f[k + 1] = EntryEnd(IdSize, data, o)
    BY <2>1 DEF Ends
  <2> HIDE DEF o
  <2>4. keyAt \in Nat /\ keyAt >= 9
    BY <2>2, SizeAssumption
  <2>5. EntryEnd(IdSize, data, o) = IF keyAt > Len(data) THEN o ELSE keyAt + NumberIn(data[keyAt])
    BY DEF EntryEnd
  <2> HIDE DEF keyAt
  <2>6. ASSUME ~(keyAt > Len(data)) PROVE NumberIn(data[keyAt]) \in Nat
    <3>1. keyAt >= 1 /\ keyAt <= Len(data)
      BY <2>4, <2>6, SequenceIs
    <3>2. Sized(data[keyAt])
      BY <2>4, <3>1, CellsOf
    <3> QED
      BY <3>2 DEF Sized, NumberIn, Garbage
  <2> QED
    BY <2>2, <2>3, <2>4, <2>5, <2>6
<1> HIDE DEF P
<1>3. \A k \in Nat : k \in P
  BY <1>1, <1>2, NumbersInduction
<1> QED
  BY <1>3 DEF P

(* What is read of the recipient headers.                                  *)
LEMMA HeadersRead ==
  ASSUME NEW data, IsSequence(data), \A c \in Range(data) : Sized(c), NEW n \in Nat,
         NEW headers, headers = RecipientHeaders(IdSize, data, n)
  PROVE  /\ headers.end \in Nat /\ headers.end >= 9
         /\ DOMAIN headers.entries = 1 .. n
         /\ \A i \in 1 .. n : headers.entries[i].key \in Seq(Range(data))
<1> DEFINE F == CHOOSE f : f = [i \in 0 .. n |-> IF i = 0 THEN ChunkHeaderSize
                                                ELSE EntryEnd(IdSize, data, f[i - 1])]
<1>1. F = [i \in 0 .. n |-> IF i = 0 THEN ChunkHeaderSize ELSE EntryEnd(IdSize, data, F[i - 1])]
  <2>1. \E f : f = [i \in 0 .. n |-> IF i = 0 THEN ChunkHeaderSize
                                     ELSE EntryEnd(IdSize, data, f[i - 1])]
    BY EndsExist
  <2> QED
    BY <2>1, Zenon
<1> DEFINE entries == [i \in 1 .. n |->
                        [id |-> Slice(data, F[i - 1], F[i - 1] + IdSize),
                         key |-> Slice(data, F[i - 1] + IdSize + 1, F[i])]]
           fine == \A i \in 1 .. n : F[i - 1] + IdSize + 1 <= Len(data)
<1>2. headers = [ok |-> fine, end |-> F[n], entries |-> entries]
  BY Zenon DEF RecipientHeaders
<1> HIDE DEF F
<1>3. Ends(F, data, n)
  <2>1. F = [i \in 0 .. n |-> F[i]]
    BY <1>1
  <2>2. \A i \in 0 .. n : F[i] = IF i = 0 THEN ChunkHeaderSize ELSE EntryEnd(IdSize, data, F[i - 1])
    BY <1>1
  <2> QED
    BY <2>1, <2>2 DEF Ends
<1>4. \A i \in 0 .. n : F[i] \in Nat /\ F[i] >= 9
  BY <1>3, EndsAreNumbers
<1>5. ASSUME NEW i \in 1 .. n PROVE entries[i].key \in Seq(Range(data))
  <2> DEFINE from == F[i - 1] + IdSize + 1
             to == F[i]
  <2>1. entries[i].key = Slice(data, from, to)
    OBVIOUS
  <2>2. from \in Nat /\ to \in Int
    <3>1. i - 1 \in 0 .. n /\ i \in 0 .. n
      OBVIOUS
    <3> QED
      BY <1>4, <3>1, SizeAssumption
  <2> HIDE DEF from, to, entries
  <2> QED
    BY <2>1, <2>2, SlicesAre
<1>6. DOMAIN entries = 1 .. n
  OBVIOUS
<1> HIDE DEF entries, fine
<1>7. headers.end = F[n] /\ headers.entries = entries
  BY <1>2
<1>8. n \in 0 .. n
  OBVIOUS
<1> QED
  BY <1>4, <1>5, <1>6, <1>7, <1>8

(* A set of numbers up to a bound has a greatest.                          *)
LEMMA GreatestNumber ==
  ASSUME NEW n \in Nat, NEW T \in SUBSET (1 .. n), T # {}
  PROVE  \E x \in T : \A y \in T : y <= x
<1> DEFINE Q == {k \in Nat : \A y \in T : y <= k}
<1>1. Q \in SUBSET Nat /\ n \in Q
  OBVIOUS
<1>2. PICK k \in Q : \A j \in Q : k <= j
  BY <1>1, LeastNumber
<1>3. k \in Nat /\ \A y \in T : y <= k
  OBVIOUS
<1>4. k # 0
  <2>1. PICK y \in T : TRUE
    OBVIOUS
  <2>2. y \in 1 .. n /\ y <= k
    BY <1>3, <2>1
  <2> QED
    BY <1>3, <2>2
<1>5. ~(k - 1 \in Q)
  <2>1. ~(k <= k - 1)
    BY <1>3
  <2> HIDE DEF Q
  <2> QED
    BY <1>2, <2>1
<1>6. k - 1 \in Nat
  BY <1>3, <1>4
<1>7. PICK y \in T : ~(y <= k - 1)
  BY <1>5, <1>6
<1>8. y = k
  BY <1>3, <1>7
<1> QED
  BY <1>3, <1>8

(* The key is the one of an entry that is read.                            *)
LEMMA EntryKeyFound ==
  ASSUME NEW data, IsSequence(data), NEW n \in Nat, NEW entries, DOMAIN entries = 1 .. n,
         \A i \in 1 .. n : entries[i].key \in Seq(Range(data)), NEW p, NEW key,
         NEW opened, opened = KeyFromEntries(p, entries, key), opened.ok
  PROVE  \E iv : TagCell(SharedKey(key[2], p), Id(p), iv, <<opened.key>>) \in Range(data)
<1> DEFINE mine == {i \in DOMAIN entries : entries[i].id = Id(p)}
           last == CHOOSE i \in mine : \A j \in mine : j <= i
           e == key[2]
           aad == Id(p)
           cells == entries[last].key
           found == DecryptKey(p, cells, e, aad)
           refusal == mine = {} \/ key[1] # "key" \/ \E i \in mine : ~DecryptKey(p, entries[i].key, e, aad).ok
<1>1. opened = IF refusal THEN Refused ELSE found
  BY Zenon DEF KeyFromEntries
<1>2. ~refusal /\ opened = found
  <2> HIDE DEF refusal, found
  <2> QED
    BY <1>1 DEF Refused
<1>3. last \in 1 .. n
  <2>1. mine \in SUBSET (1 .. n) /\ mine # {}
    BY <1>2
  <2> HIDE DEF mine
  <2>2. \E i \in mine : \A j \in mine : j <= i
    BY <2>1, GreatestNumber
  <2> QED
    BY <2>1, <2>2
<1> HIDE DEF last, mine, refusal
<1>4. cells \in Seq(Range(data))
  BY <1>3
<1> HIDE DEF cells, e, aad
<1>5. IsSequence(cells) /\ Range(cells) \subseteq Range(data)
  BY <1>4, SequenceOver
<1>6. \E iv : TagCell(SharedKey(e, p), aad, iv, <<opened.key>>) \in Range(cells)
  BY <1>2, <1>5, KeyTagFound
<1>7. PICK iv : TagCell(SharedKey(e, p), aad, iv, <<opened.key>>) \in Range(cells)
  BY <1>6
<1>8. TagCell(SharedKey(e, p), aad, iv, <<opened.key>>) \in Range(data)
  BY <1>5, <1>7
<1> QED
  BY <1>8 DEF aad, e

(* The two tags a chunk is opened with.                                    *)
ChunkTags(data, p, s, opened) ==
  \E e, k, header, text, v :
    /\ \E iv : TagCell(SharedKey(e, p), Id(p), iv, <<k>>) \in Range(data)
    /\ \E iv : TagCell(k, header, iv, text) \in Range(data)
    /\ header[1] = Cell("ECIE") /\ Ephemeral(header) = e
    /\ v = VerifiedMessage(s, text) /\ v.ok /\ opened.decrypted = v.decrypted
    /\ opened.index = NumberIn(header[4]) /\ opened.isLast = (header[7] = <<"number", 1>>)

(* decryptChunk: a key and a text, and the header they belong to.          *)
LEMMA ChunkTagsFound ==
  ASSUME NEW data, IsSequence(data), \A c \in Range(data) : Sized(c), NEW p, NEW s,
         NEW opened, opened = DecryptChunk(IdSize, data, p, s), opened.ok
  PROVE  ChunkTags(data, p, s, opened)
<1> DEFINE n == NumberIn(data[3])
           headers == RecipientHeaders(IdSize, data, n)
           end == headers.end
           found == KeyFromEntries(p, headers.entries, data[8])
           header == Slice(data, 0, end)
           to == end + 1 + NumberIn(data[6])
           body == Slice(data, end + 1, to)
           text == Front(body)
           iv == data[end + 1]
           v == VerifiedMessage(s, text)
           whole == DecryptAfterHeaders(data, headers, p, s)
           inner == OpenBody(found, header, iv, body, s)
           index == NumberIn(data[4])
           isLast == data[7] = <<"number", 1>>
<1>1. /\ ~(Len(data) < 9) /\ data[1] = Cell("ECIE")
      /\ opened = ChunkResult(whole, data)
  <2> DEFINE result == ChunkResult(whole, data)
  <2>1. opened = IF Len(data) < ChunkHeaderSize THEN Refused
                 ELSE IF data[1] # Cell("ECIE") \/ data[2] # VersionCell THEN Refused
                 ELSE IF n > Len(data) THEN Refused
                 ELSE result
    BY Zenon DEF DecryptChunk
  <2> HIDE DEF result, n
  <2> QED
    BY <2>1 DEF Refused, ChunkHeaderSize, result
<1>2. whole.ok /\ opened.decrypted = whole.decrypted /\ opened.index = index /\ opened.isLast = isLast
  <2>1. opened = IF whole.ok THEN [ok |-> TRUE, decrypted |-> whole.decrypted, index |-> index,
                                   isLast |-> isLast]
                 ELSE Refused
    BY <1>1, Zenon DEF ChunkResult
  <2> HIDE DEF whole, index, isLast
  <2> QED
    BY <2>1 DEF Refused
<1>3. Len(data) \in Nat /\ Len(data) >= 9 /\ \A i \in 1 .. 9 : Sized(data[i])
  <2>1. Len(data) \in Nat /\ Len(data) >= 9
    BY <1>1, SequenceIs
  <2>2. ASSUME NEW i \in 1 .. 9 PROVE Sized(data[i])
    <3>1. i \in Nat /\ i >= 1 /\ i <= Len(data)
      BY <2>1
    <3> QED
      BY <3>1, CellsOf
  <2> QED
    BY <2>1, <2>2
<1>4. n \in Nat /\ NumberIn(data[6]) \in Nat
  <2>1. Sized(data[3]) /\ Sized(data[6])
    BY <1>3
  <2> QED
    BY <2>1 DEF NumberIn, Garbage, Sized
<1>5. /\ end \in Nat /\ end >= 9 /\ DOMAIN headers.entries = 1 .. n
      /\ \A i \in 1 .. n : headers.entries[i].key \in Seq(Range(data))
  <2> HIDE DEF n
  <2>1. headers = RecipientHeaders(IdSize, data, n)
    OBVIOUS
  <2> HIDE DEF headers
  <2> QED
    BY <1>4, <2>1, HeadersRead
<1> HIDE DEF n, headers
<1>6. headers.ok /\ end < Len(data) /\ whole = inner
  <2>1. whole = IF ~headers.ok \/ headers.end >= Len(data) THEN Refused ELSE inner
    BY Zenon DEF DecryptAfterHeaders
  <2> HIDE DEF whole, inner
  <2> QED
    BY <1>2, <1>3, <1>5, <2>1 DEF Refused
<1>7. /\ found.ok /\ body # <<>> /\ Last(body) = TagCell(found.key, header, iv, text)
      /\ inner = v
  <2>1. inner = IF ~found.ok \/ body = <<>> THEN Refused
                ELSE IF Last(body) # TagCell(found.key, header, iv, Front(body)) THEN Refused
                ELSE v
    BY Zenon DEF OpenBody
  <2> HIDE DEF inner, found, body, header, iv, v
  <2> QED
    BY <1>2, <1>6, <2>1 DEF Refused
<1> HIDE DEF end
<1>8. IsSequence(body) /\ Range(body) \subseteq Range(data)
  <2> DEFINE from == end + 1
  <2>1. from \in Nat /\ to \in Int
    BY <1>4, <1>5
  <2> HIDE DEF from, to
  <2> QED
    BY <2>1, SlicesAre DEF from
<1> HIDE DEF body
<1>9. Last(body) \in Range(data)
  <2>1. Len(body) \in Nat /\ Len(body) # 0
    <3>1. body \in Seq(Range(body))
      BY <1>8 DEF IsSequence
    <3> QED
      BY <1>7, <3>1, EmptySeq
  <2> DEFINE at == Len(body)
  <2>2. at \in Nat /\ at >= 1 /\ at <= Len(body)
    BY <2>1
  <2> HIDE DEF at
  <2>3. body[at] \in Range(body)
    BY <1>8, <2>2, CellsOf
  <2> QED
    BY <1>8, <2>3 DEF Last, at
<1>10. header[1] = data[1] /\ header[8] = data[8] /\ header[4] = data[4] /\ header[7] = data[7]
  <2> DEFINE last == IF end < Len(data) THEN end ELSE Len(data)
  <2>1. 0 \in Nat /\ end \in Int
    BY <1>5
  <2>2. /\ Len(header) = IF 0 < last THEN last - 0 ELSE 0
        /\ \A i \in 1 .. Len(header) : header[i] = data[0 + i]
    BY <2>1, Sliced, Zenon
  <2> HIDE DEF header
  <2>3. Len(header) = end
    BY <1>5, <1>6, <2>2
  <2>4. 1 \in 1 .. end /\ 4 \in 1 .. end /\ 7 \in 1 .. end /\ 8 \in 1 .. end
    BY <1>5
  <2> QED
    BY <2>2, <2>3, <2>4
<1> DEFINE k == found.key
<1> DEFINE e == data[8][2]
<1>11. \E i : TagCell(SharedKey(e, p), Id(p), i, <<k>>) \in Range(data)
  <2> DEFINE entries == headers.entries
             cell == data[8]
  <2>1. found = KeyFromEntries(p, entries, cell) /\ DOMAIN entries = 1 .. n
        /\ \A i \in 1 .. n : entries[i].key \in Seq(Range(data))
    BY <1>5
  <2> HIDE DEF entries, cell, found
  <2> QED
    <3>1. \E i : TagCell(SharedKey(cell[2], p), Id(p), i, <<found.key>>) \in Range(data)
      BY <1>4, <1>7, <2>1, EntryKeyFound
    <3> QED
      BY <3>1 DEF cell
<1>12. header[8][2] = e
  BY <1>10
<1> HIDE DEF e
<1> HIDE DEF found, header, iv, whole, inner
<1>13. TagCell(k, header, iv, text) \in Range(data)
  BY <1>7, <1>9
<1> HIDE DEF k, text
<1>14. v.ok /\ opened.decrypted = v.decrypted
  BY <1>2, <1>6, <1>7
<1>15. header[1] = Cell("ECIE") /\ Ephemeral(header) = e /\ opened.index = NumberIn(header[4])
       /\ opened.isLast = (header[7] = <<"number", 1>>)
  BY <1>1, <1>2, <1>10, <1>12 DEF Ephemeral, VersionCell, Cell
<1>16. v = VerifiedMessage(s, text)
  OBVIOUS
<1> HIDE DEF v
<1>17. \E i : TagCell(k, header, i, text) \in Range(data)
  BY <1>13
<1> DEFINE last == header[7] = <<"number", 1>>
           Found(e2, k2, header2, text2, v2) ==
             /\ \E i : TagCell(SharedKey(e2, p), Id(p), i, <<k2>>) \in Range(data)
             /\ \E i : TagCell(k2, header2, i, text2) \in Range(data)
             /\ header2[1] = Cell("ECIE") /\ Ephemeral(header2) = e2
             /\ v2 = VerifiedMessage(s, text2) /\ v2.ok /\ opened.decrypted = v2.decrypted
             /\ opened.index = NumberIn(header2[4]) /\ opened.isLast = (header2[7] = <<"number", 1>>)
<1>18. Found(e, k, header, text, v)
  BY <1>11, <1>14, <1>15, <1>16, <1>17
<1>19. \E e2, k2, header2, text2, v2 : Found(e2, k2, header2, text2, v2)
  <2> HIDE DEF Found
  <2> QED
    BY <1>18
<1> QED
  BY <1>19 DEF ChunkTags

-----------------------------------------------------------------------------
(* A tag among the cells that arrived was made for some record.            *)
LEMMA TagWasMade ==
  ASSUME AllMade, NEW key, NEW aad, NEW iv, NEW text, TagCell(key, aad, iv, text) \in Range(arrived)
  PROVE  \E i \in DOMAIN sent : TagMade(sent[i], 10 * i, TagCell(key, aad, iv, text))
                                /\ RecordMade(sent[i], 10 * i)
<1> DEFINE t == TagCell(key, aad, iv, text)
<1>1. t[1] = "tag"
  BY TagCells
<1>2. SentMade(sent) /\ ArrivedMade(sent, arrived)
  BY DEF AllMade
<1>3. DOMAIN sent = 1 .. Len(sent)
  BY <1>2, SequenceIs DEF SentMade
<1> HIDE DEF t
<1>4. \E i \in 1 .. Len(sent) : TagMade(sent[i], 10 * i, t)
  <2>1. t \in Range(arrived)
    BY DEF t
  <2> QED
    BY <1>1, <1>2, <2>1 DEF ArrivedMade, Known
<1>5. \A i \in 1 .. Len(sent) : RecordMade(sent[i], 10 * i)
  BY <1>2 DEF SentMade
<1> QED
  BY <1>3, <1>4, <1>5 DEF t

(* What the invariant says of the buffer.                                  *)
LEMMA CellsArrived ==
  ASSUME AllMade
  PROVE  IsSequence(arrived) /\ \A c \in Range(arrived) : Sized(c)
BY DEF AllMade, ArrivedMade, Known

(* Reading as a message for one recipient.                                 *)
LEMMA SingleOpenedWasSent ==
  ASSUME AllMade, NEW p, NEW type, NEW n \in Nat, NEW length
  PROVE  SingleWasSent(p, DecryptWithHeader(type, p, arrived, n, length), Slice(arrived, 0, n))
<1> DEFINE opened == DecryptWithHeader(type, p, arrived, n, length)
           pre == Slice(arrived, 0, n)
           text == opened.decrypted
<1> SUFFICES ASSUME opened.ok PROVE Was({"single", "file"}, p, text, pre)
  BY DEF SingleWasSent
<1>1. PICK e, kind, iv : TagCell(SharedKey(e, p), Aad(pre, kind, e), iv, text) \in Range(arrived)
  <2> DEFINE data == arrived
  <2>1. IsSequence(data) /\ opened = DecryptWithHeader(type, p, data, n, length) /\ opened.ok
    BY CellsArrived
  <2> HIDE DEF data, opened
  <2>2. \E e, kind, iv : TagCell(SharedKey(e, p), Aad(Slice(data, 0, n), kind, e), iv, opened.decrypted)
                           \in Range(data)
    BY <2>1, SingleTagFound
  <2> QED
    BY <2>2 DEF data
<1>2. IsSequence(pre)
  <2>1. 0 \in Nat /\ n \in Int
    OBVIOUS
  <2> QED
    BY <2>1, CellsArrived, SlicesAre
<1> HIDE DEF opened, pre, text
<1> DEFINE key == SharedKey(e, p)
           aad == Aad(pre, kind, e)
<1>3. \E i \in DOMAIN sent : TagMade(sent[i], 10 * i, TagCell(key, aad, iv, text))
  <2> HIDE DEF key, aad
  <2>1. TagCell(key, aad, iv, text) \in Range(arrived)
    BY <1>1 DEF key, aad
  <2> QED
    BY <2>1, TagWasMade
<1>4. PICK i \in DOMAIN sent : TagMade(sent[i], 10 * i, TagCell(key, aad, iv, text))
  BY <1>3
<1> DEFINE r == sent[i]
           x == 10 * i
           t == TagCell(key, aad, iv, text)
<1>5. TagMade(r, x, t) /\ t = TagCell(SharedKey(e, p), Aad(pre, kind, e), iv, text)
  BY <1>4
<1> HIDE DEF r, x, t
<1>6. r.form \in {"single", "file"} /\ p \in r.to /\ \E k \in DOMAIN r.parts : r.parts[k] = Part(pre, text)
  BY <1>2, <1>5, SingleTagTells
<1> QED
  BY <1>4, <1>6 DEF Was, r

(* The record the two tags of a message for several were made for.         *)
LEMMA SealedForSeveral ==
  ASSUME AllMade, NEW p, IsBytes(Id(p)), Id(p) # <<>>, NEW e, NEW iv, NEW k, NEW header, NEW iv2,
         NEW text, TagCell(SharedKey(e, p), Id(p), iv, <<k>>) \in Range(arrived),
         TagCell(k, header, iv2, text) \in Range(arrived),
         Ephemeral(header) = e
  PROVE  \E i \in DOMAIN sent :
           /\ p \in sent[i].to /\ HeaderOf(sent[i], 10 * i, header) /\ RecordMade(sent[i], 10 * i)
           /\ text = Signed(sent[i].signer, sent[i].parts[1].data)
<1> DEFINE key == SharedKey(e, p)
           id == Id(p)
           one == <<k>>
           t == TagCell(key, id, iv, one)
<1>1. \E i \in DOMAIN sent : TagMade(sent[i], 10 * i, t)
  <2> HIDE DEF key, id, one
  <2>1. TagCell(key, id, iv, one) \in Range(arrived)
    BY DEF key, id, one
  <2> QED
    BY <2>1, TagWasMade
<1>2. PICK i \in DOMAIN sent : TagMade(sent[i], 10 * i, t)
  BY <1>1
<1> DEFINE r == sent[i]
           x == 10 * i
<1>3. p \in r.to /\ x = e /\ k = SymmetricCell(r.symmetricKey)
  <2>1. TagMade(r, x, t) /\ t = TagCell(SharedKey(e, p), id, iv, one) /\ MayBeId(id)
    BY <1>2 DEF MayBeId
  <2> HIDE DEF r, x, t, id, one
  <2>2. p \in r.to /\ x = e /\ one = <<SymmetricCell(r.symmetricKey)>>
    BY <2>1, KeyTagTells
  <2> QED
    BY <2>2 DEF one
<1> DEFINE u == TagCell(k, header, iv2, text)
<1>4. \E j \in DOMAIN sent : TagMade(sent[j], 10 * j, u) /\ RecordMade(sent[j], 10 * j)
  BY TagWasMade
<1>5. PICK j \in DOMAIN sent : TagMade(sent[j], 10 * j, u) /\ RecordMade(sent[j], 10 * j)
  BY <1>4
<1> DEFINE s == sent[j]
           y == 10 * j
           sym == r.symmetricKey
<1>6. HeaderOf(s, y, header) /\ text = Signed(s.signer, s.parts[1].data)
  <2>1. TagMade(s, y, u) /\ u = TagCell(SymmetricCell(sym), header, iv2, text)
    BY <1>3, <1>5
  <2> HIDE DEF s, y, u, sym
  <2> QED
    BY <2>1, BodyTagTells
<1>7. i = j
  <2>0. y = e
    <3> HIDE DEF s, y, x, r
    <3> QED
      <4>1. Cell("ECIE") # VersionCell /\ KeyCell(y)[2] = y
        BY DEF KeyCell, VersionCell, Cell
      <4>2. CASE header[1] = VersionCell /\ header[4] = KeyCell(y)
        BY <4>1, <4>2 DEF Ephemeral
      <4>3. CASE header[1] = Cell("ECIE") /\ header[8] = KeyCell(y)
        BY <4>1, <4>3 DEF Ephemeral
      <4> QED
        BY <1>6, <4>2, <4>3 DEF HeaderOf
  <2>1. i \in Nat /\ j \in Nat
    BY SequenceIs DEF AllMade, SentMade
  <2> QED
    BY <1>3, <2>0, <2>1
<1> HIDE DEF t, u, key, id, one
<1> QED
  BY <1>3, <1>5, <1>6, <1>7

(* Reading as a message for several.                                       *)
LEMMA MultipleOpenedWasSent ==
  ASSUME AllMade, NEW p, IsBytes(Id(p)), Id(p) # <<>>, NEW s
  PROVE  MultipleWasSent(p, s, DecryptMultipleForRecipient(IdSize, arrived, p, s))
<1> DEFINE opened == DecryptMultipleForRecipient(IdSize, arrived, p, s)
           data == arrived
<1> SUFFICES ASSUME opened.ok
             PROVE  \E i \in DOMAIN sent :
                      sent[i].form = "multiple" /\ p \in sent[i].to
                        /\ SignedBy(s, sent[i], opened.decrypted)
  BY DEF MultipleWasSent
<1>1. PICK e, k, header, text :
        /\ \E iv : TagCell(SharedKey(e, p), Id(p), iv, <<k>>) \in Range(data)
        /\ \E iv : TagCell(k, header, iv, text) \in Range(data)
        /\ header[1] = VersionCell /\ Ephemeral(header) = e
        /\ opened = VerifiedMessage(s, text)
  <2>1. IsSequence(data) /\ (\A c \in Range(data) : Sized(c)) /\ opened.ok
        /\ opened = DecryptMultipleForRecipient(IdSize, data, p, s)
    BY CellsArrived
  <2> HIDE DEF data, opened
  <2> QED
    <3>1. MultipleTags(data, p, s, opened)
      BY <2>1, MultipleTagsFound
    <3> QED
      BY <3>1 DEF MultipleTags
<1>2. PICK iv : TagCell(SharedKey(e, p), Id(p), iv, <<k>>) \in Range(arrived)
  BY <1>1
<1>3. PICK iv2 : TagCell(k, header, iv2, text) \in Range(arrived)
  BY <1>1
<1> HIDE DEF opened
<1>4. PICK i \in DOMAIN sent :
        /\ p \in sent[i].to /\ HeaderOf(sent[i], 10 * i, header) /\ RecordMade(sent[i], 10 * i)
        /\ text = Signed(sent[i].signer, sent[i].parts[1].data)
  BY <1>1, <1>2, <1>3, SealedForSeveral
<1>5. sent[i].form = "multiple"
  <2>1. VersionCell # Cell("ECIE")
    BY DEF VersionCell, Cell
  <2> QED
    BY <1>1, <1>4, <2>1 DEF HeaderOf
<1> DEFINE r == sent[i]
           d == r.parts[1].data
           signer == r.signer
<1>6. IsBytes(d)
  BY <1>4, <1>5 DEF RecordMade
<1>7. (s # Nobody => signer = s) /\ opened.decrypted \in {d, Signed(signer, d)}
  <2>1. text = Signed(signer, d) /\ opened = VerifiedMessage(s, text) /\ opened.ok
    BY <1>1, <1>4
  <2> HIDE DEF d, signer
  <2> QED
    BY <1>6, <2>1, VerifiedTells
<1> QED
  BY <1>4, <1>5, <1>7 DEF SignedBy

(* Reading as a chunk.                                                     *)
LEMMA ChunkOpenedWasSent ==
  ASSUME AllMade, NEW p, IsBytes(Id(p)), Id(p) # <<>>, NEW s
  PROVE  ChunkWasSent(p, s, DecryptChunk(IdSize, arrived, p, s))
<1> DEFINE opened == DecryptChunk(IdSize, arrived, p, s)
           data == arrived
<1> SUFFICES ASSUME opened.ok
             PROVE  \E i \in DOMAIN sent :
                      /\ sent[i].form = "chunk" /\ p \in sent[i].to
                      /\ SignedBy(s, sent[i], opened.decrypted)
                      /\ opened.index = sent[i].index /\ opened.isLast = sent[i].isLast
  BY DEF ChunkWasSent
<1>1. PICK e, k, header, text, v :
        /\ \E iv : TagCell(SharedKey(e, p), Id(p), iv, <<k>>) \in Range(data)
        /\ \E iv : TagCell(k, header, iv, text) \in Range(data)
        /\ header[1] = Cell("ECIE") /\ Ephemeral(header) = e
        /\ v = VerifiedMessage(s, text) /\ v.ok /\ opened.decrypted = v.decrypted
        /\ opened.index = NumberIn(header[4]) /\ opened.isLast = (header[7] = <<"number", 1>>)
  <2>1. IsSequence(data) /\ (\A c \in Range(data) : Sized(c)) /\ opened.ok
        /\ opened = DecryptChunk(IdSize, data, p, s)
    BY CellsArrived
  <2> HIDE DEF data, opened
  <2> QED
    <3>1. ChunkTags(data, p, s, opened)
      BY <2>1, ChunkTagsFound
    <3> QED
      BY <3>1 DEF ChunkTags
<1>2. PICK iv : TagCell(SharedKey(e, p), Id(p), iv, <<k>>) \in Range(arrived)
  BY <1>1
<1>3. PICK iv2 : TagCell(k, header, iv2, text) \in Range(arrived)
  BY <1>1
<1> HIDE DEF opened
<1>4. PICK i \in DOMAIN sent :
        /\ p \in sent[i].to /\ HeaderOf(sent[i], 10 * i, header) /\ RecordMade(sent[i], 10 * i)
        /\ text = Signed(sent[i].signer, sent[i].parts[1].data)
  BY <1>1, <1>2, <1>3, SealedForSeveral
<1> DEFINE r == sent[i]
           d == r.parts[1].data
           signer == r.signer
           flag == IF r.isLast THEN 1 ELSE 0
<1>5. /\ r.form = "chunk" /\ header[4] = <<"number", r.index>> /\ header[7] = <<"number", flag>>
  <2>1. VersionCell # Cell("ECIE")
    BY DEF VersionCell, Cell
  <2> QED
    BY <1>1, <1>4, <2>1 DEF HeaderOf
<1>6. IsBytes(d) /\ r.isLast \in BOOLEAN
  BY <1>4, <1>5 DEF RecordMade
<1>7. (s # Nobody => signer = s) /\ v.decrypted \in {d, Signed(signer, d)}
  <2>1. text = Signed(signer, d) /\ v = VerifiedMessage(s, text) /\ v.ok
    BY <1>1, <1>4
  <2> HIDE DEF d, signer
  <2> QED
    BY <1>6, <2>1, VerifiedTells
<1>8. opened.index = r.index
  BY <1>1, <1>5 DEF NumberIn
<1>9. opened.isLast = r.isLast
  <2>1. opened.isLast = (flag = 1)
    BY <1>1, <1>5
  <2> QED
    BY <1>6, <2>1
<1> QED
  BY <1>1, <1>4, <1>5, <1>7, <1>8, <1>9 DEF SignedBy

(* Reading as a key.                                                       *)
LEMMA KeyOpenedWasSent ==
  ASSUME AllMade, NEW p
  PROVE  KeyWasSent(p, DecryptKeyAlone(p, arrived))
<1> DEFINE opened == DecryptKeyAlone(p, arrived)
           data == arrived
           c == opened.key
           none == <<>>
<1> SUFFICES ASSUME opened.ok
             PROVE  \E i \in DOMAIN sent : sent[i].form = "key" /\ p \in sent[i].to
                                           /\ c = sent[i].parts[1].data
  BY DEF KeyWasSent
<1>1. PICK e, iv : TagCell(SharedKey(e, p), none, iv, <<c>>) \in Range(arrived)
  <2>1. IsSequence(data) /\ opened.ok /\ opened = DecryptKeyAlone(p, data)
    BY CellsArrived
  <2> HIDE DEF data, opened
  <2>2. \E e, iv : TagCell(SharedKey(e, p), <<>>, iv, <<opened.key>>) \in Range(data)
    BY <2>1, KeyAloneFound
  <2> QED
    BY <2>2 DEF data
<1> HIDE DEF opened, c
<1> DEFINE key == SharedKey(e, p)
           one == <<c>>
           t == TagCell(key, none, iv, one)
<1>2. \E i \in DOMAIN sent : TagMade(sent[i], 10 * i, t) /\ RecordMade(sent[i], 10 * i)
  <2> HIDE DEF key, none, one
  <2>1. TagCell(key, none, iv, one) \in Range(arrived)
    BY <1>1 DEF key, one
  <2> QED
    BY <2>1, TagWasMade
<1>3. PICK i \in DOMAIN sent : TagMade(sent[i], 10 * i, t) /\ RecordMade(sent[i], 10 * i)
  BY <1>2
<1> DEFINE r == sent[i]
           x == 10 * i
<1>4. /\ r.form \in {"multiple", "chunk", "key"} /\ p \in r.to /\ c = SymmetricCell(r.symmetricKey)
      /\ r.form = "key" <=> none = <<>>
  <2>1. TagMade(r, x, t) /\ t = TagCell(SharedKey(e, p), none, iv, one) /\ MayBeId(none)
    BY <1>3 DEF MayBeId
  <2> HIDE DEF r, x, t, none, one
  <2>2. /\ r.form \in {"multiple", "chunk", "key"} /\ p \in r.to /\ one = <<SymmetricCell(r.symmetricKey)>>
        /\ r.form = "key" <=> none = <<>>
    BY <2>1, KeyTagTells
  <2> QED
    BY <2>2 DEF one
<1>5. r.form = "key"
  BY <1>4
<1>6. r.parts[1].data = SymmetricCell(r.symmetricKey)
  BY <1>3, <1>5 DEF RecordMade
<1> HIDE DEF t
<1> QED
  BY <1>4, <1>5, <1>6

-----------------------------------------------------------------------------
(* Whatever arrives and however a member reads it: what decryptWithHeader, *)
(* decryptMultipleECIEForRecipient, decryptChunk and decryptKey open is    *)
(* what was encrypted for this member, with its preamble, index, flag and  *)
(* signer.                                                                 *)
THEOREM OpenedWasAlwaysSent == Spec => []OpenedWasSent
<1>1. Init => AllMade
  BY AllMadeFirst
<1>2. AllMade /\ [Next]_vars => AllMade'
  BY AllMadeKept
<1>3. AllMade => OpenedWasSent
  <2> SUFFICES ASSUME AllMade, NEW p \in Members
               PROVE  /\ \A type \in {"any", "basic", "withLength"}, n \in 0 .. 1, length \in -1 .. 2 :
                           SingleWasSent(p, DecryptWithHeader(type, p, arrived, n, length),
                                         Slice(arrived, 0, n))
                      /\ \A s \in Signers :
                           /\ MultipleWasSent(p, s, DecryptMultipleForRecipient(IdSize, arrived, p, s))
                           /\ ChunkWasSent(p, s, DecryptChunk(IdSize, arrived, p, s))
                      /\ KeyWasSent(p, DecryptKeyAlone(p, arrived))
    BY DEF OpenedWasSent
  <2>1. IsBytes(Id(p)) /\ Id(p) # <<>>
    BY BytesAssumption
  <2>2. ASSUME NEW type \in {"any", "basic", "withLength"}, NEW n \in 0 .. 1, NEW length \in -1 .. 2
        PROVE  SingleWasSent(p, DecryptWithHeader(type, p, arrived, n, length), Slice(arrived, 0, n))
    <3>1. n \in Nat
      OBVIOUS
    <3> QED
      BY <3>1, SingleOpenedWasSent
  <2>3. ASSUME NEW s \in Signers
        PROVE  /\ MultipleWasSent(p, s, DecryptMultipleForRecipient(IdSize, arrived, p, s))
               /\ ChunkWasSent(p, s, DecryptChunk(IdSize, arrived, p, s))
    BY <2>1, MultipleOpenedWasSent, ChunkOpenedWasSent
  <2>4. KeyWasSent(p, DecryptKeyAlone(p, arrived))
    BY KeyOpenedWasSent
  <2> QED
    BY <2>2, <2>3, <2>4
<1> QED
  BY <1>1, <1>2, <1>3, PTL DEF Spec

-----------------------------------------------------------------------------
(* What was sent, and the file that is being encrypted, laid out cell by   *)
(* cell: AllWhole is the invariant.  It says for every record which call   *)
(* made its cells, and for a file where the header and each chunk lie; a   *)
(* reader that slices where the format says finds exactly them.            *)

(* Where a part lies in a sequence.                                        *)
LiesAt(part, s, at) == at + Len(part) <= Len(s) /\ \A i \in 1 .. Len(part) : s[at + i] = part[i]

(* A part is a slice.                                                      *)
LEMMA PartIsSlice ==
  ASSUME NEW s, IsSequence(s), NEW part, IsSequence(part), NEW at \in Nat, LiesAt(part, s, at),
         NEW to \in Int, to = at + Len(part)
  PROVE  Slice(s, at, to) = part
<1> DEFINE n == Len(part)
           p == Slice(s, at, to)
           end == IF to < Len(s) THEN to ELSE Len(s)
<1>1. n \in Nat /\ Len(s) \in Nat
  BY SequenceIs
<1>2. to = at + n /\ at + n <= Len(s) /\ \A i \in 1 .. n : s[at + i] = part[i]
  BY DEF LiesAt
<1>3. /\ IsSequence(p) /\ Len(p) = IF at < end THEN end - at ELSE 0
      /\ \A i \in 1 .. Len(p) : p[i] = s[at + i]
  BY Sliced, Zenon
<1> HIDE DEF p, n
<1>4. end = at + n
  BY <1>1, <1>2
<1> HIDE DEF end
<1>5. Len(p) = n
  BY <1>1, <1>3, <1>4
<1>6. \A i \in 1 .. n : p[i] = part[i]
  BY <1>2, <1>3, <1>5
<1> QED
  BY <1>3, <1>5, <1>6, SameCells DEF p, n

(* The two halves of a joined sequence.                                    *)
LEMMA HalvesLie ==
  ASSUME NEW s, NEW t, IsSequence(s), IsSequence(t)
  PROVE  /\ LiesAt(s, s \o t, 0) /\ LiesAt(t, s \o t, Len(s))
         /\ IsSequence(s \o t) /\ Len(s \o t) = Len(s) + Len(t)
<1>1. /\ IsSequence(s \o t) /\ Len(s \o t) = Len(s) + Len(t)
      /\ \A i \in 1 .. Len(s) : (s \o t)[i] = s[i]
      /\ \A i \in 1 .. Len(t) : (s \o t)[Len(s) + i] = t[i]
  BY Joined
<1>2. Len(s) \in Nat /\ Len(t) \in Nat
  BY SequenceIs
<1> DEFINE u == s \o t
<1> HIDE DEF u
<1>3. LiesAt(s, u, 0)
  BY <1>1, <1>2 DEF LiesAt, u
<1>4. LiesAt(t, u, Len(s))
  BY <1>1, <1>2 DEF LiesAt, u
<1> QED
  BY <1>1, <1>3, <1>4 DEF u

(* A part of a part.                                                       *)
LEMMA PartOfPart ==
  ASSUME NEW a, NEW b, NEW c, IsSequence(a), IsSequence(b), IsSequence(c),
         NEW i \in Nat, NEW j \in Nat, LiesAt(a, b, i), LiesAt(b, c, j), NEW k, k = i + j
  PROVE  LiesAt(a, c, k)
<1>1. Len(a) \in Nat /\ Len(b) \in Nat /\ Len(c) \in Nat
  BY SequenceIs
<1>2. i + Len(a) <= Len(b) /\ j + Len(b) <= Len(c)
  BY DEF LiesAt
<1>3. ASSUME NEW x \in 1 .. Len(a) PROVE c[k + x] = a[x]
  <2>1. i + x \in 1 .. Len(b) /\ k + x = j + (i + x)
    BY <1>1, <1>2
  <2>2. b[i + x] = a[x]
    BY DEF LiesAt
  <2>3. c[j + (i + x)] = b[i + x]
    BY <2>1 DEF LiesAt
  <2> QED
    BY <2>1, <2>2, <2>3
<1> QED
  BY <1>1, <1>2, <1>3 DEF LiesAt

-----------------------------------------------------------------------------
(* A message for one recipient, cell by cell.                              *)
SealedLayout(data, type, e, p, msg, n, aad) ==
  /\ IsSequence(data) /\ Len(data) = n + GetHeaderSize(type) + Len(msg)
  /\ data[n + 1] = VersionCell /\ data[n + 2] = SuiteCell /\ data[n + 3] = Cell(type)
  /\ data[n + 4] = KeyCell(e) /\ data[n + 5] = IvCell(e)
  /\ data[n + 6] = TagCell(SharedKey(e, p), aad, IvCell(e), msg)
  /\ type = "withLength" => data[n + 7] = <<"number", Len(msg)>>
  /\ LiesAt(msg, data, n + GetHeaderSize(type))

(* What is sealed is laid out as a message is.                             *)
LEMMA SealedIs ==
  ASSUME NEW type \in {"basic", "withLength"}, NEW e, NEW p, NEW msg, IsSequence(msg),
         NEW pre, IsSequence(pre)
  PROVE  /\ SealedLayout(SealSingle(type, e, p, msg, pre), type, e, p, msg, Len(pre), Aad(pre, type, e))
         /\ LiesAt(pre, SealSingle(type, e, p, msg, pre), 0)
<1> DEFINE tag == TagCell(SharedKey(e, p), Aad(pre, type, e), IvCell(e), msg)
           h == <<VersionCell, SuiteCell, Cell(type), KeyCell(e), IvCell(e), tag>>
           l == IF type = "withLength" THEN <<<<"number", Len(msg)>>>> ELSE <<>>
           n == Len(pre)
           ph == pre \o h
           phl == ph \o l
           data == phl \o msg
<1>1. SealSingle(type, e, p, msg, pre) = data
  BY Zenon DEF SealSingle
<1>2. IsSequence(h) /\ Len(h) = 6
  <2>1. h \in Seq({VersionCell, SuiteCell, Cell(type), KeyCell(e), IvCell(e), tag}) /\ Len(h) = 6
    OBVIOUS
  <2> QED
    BY <2>1, SequenceOver
<1>3. /\ h[1] = VersionCell /\ h[2] = SuiteCell /\ h[3] = Cell(type) /\ h[4] = KeyCell(e)
      /\ h[5] = IvCell(e) /\ h[6] = tag
  OBVIOUS
<1>4. IsSequence(l) /\ Len(l) = GetHeaderSize(type) - 6 /\ (type = "withLength" => l[1] = <<"number", Len(msg)>>)
  <2> DEFINE c == <<"number", Len(msg)>>
  <2>1. l = IF type = "withLength" THEN <<c>> ELSE <<>>
    OBVIOUS
  <2> HIDE DEF c, l
  <2>2. IsSequence(<<c>>) /\ Len(<<c>>) = 1 /\ IsSequence(<<>>) /\ Len(<<>>) = 0
    BY Shorts
  <2> QED
    BY <2>1, <2>2 DEF GetHeaderSize, c
<1> HIDE DEF h, l, tag
<1>5. /\ IsSequence(ph) /\ Len(ph) = n + 6 /\ LiesAt(pre, ph, 0) /\ LiesAt(h, ph, n)
  BY <1>2, HalvesLie
<1> HIDE DEF ph
<1>6. IsSequence(phl) /\ Len(phl) = Len(ph) + Len(l) /\ LiesAt(ph, phl, 0) /\ LiesAt(l, phl, Len(ph))
  BY <1>4, <1>5, HalvesLie
<1> HIDE DEF phl
<1>7. IsSequence(data) /\ Len(data) = Len(phl) + Len(msg) /\ LiesAt(phl, data, 0) /\ LiesAt(msg, data, Len(phl))
  BY <1>6, HalvesLie
<1> HIDE DEF data
<1>8. n \in Nat /\ Len(msg) \in Nat /\ GetHeaderSize(type) \in {6, 7}
  BY SequenceIs DEF GetHeaderSize
<1> HIDE DEF n
<1>9. LiesAt(pre, phl, 0) /\ LiesAt(h, phl, n)
  BY <1>2, <1>5, <1>6, <1>8, PartOfPart
<1>10. LiesAt(pre, data, 0) /\ LiesAt(h, data, n) /\ LiesAt(l, data, n + 6)
  BY <1>2, <1>4, <1>5, <1>6, <1>7, <1>8, <1>9, PartOfPart
<1>11. \A i \in 1 .. 6 : data[n + i] = h[i]
  BY <1>2, <1>10 DEF LiesAt
<1>12. type = "withLength" => data[n + 7] = <<"number", Len(msg)>>
  <2>1. type = "withLength" => Len(l) = 1
    BY <1>4 DEF GetHeaderSize
  <2>2. n + 6 + 1 = n + 7
    BY <1>8
  <2> QED
    BY <1>4, <1>10, <2>1, <2>2 DEF LiesAt
<1>13. Len(phl) = n + GetHeaderSize(type) /\ Len(data) = n + GetHeaderSize(type) + Len(msg)
  BY <1>4, <1>5, <1>6, <1>7, <1>8
<1>14. SealedLayout(data, type, e, p, msg, n, Aad(pre, type, e))
  BY <1>3, <1>7, <1>11, <1>12, <1>13 DEF SealedLayout, tag
<1> QED
  BY <1>1, <1>10, <1>14 DEF n

(* A message opens for its recipient, with the length it was given.        *)
LEMMA SealedOpens ==
  ASSUME NEW type \in {"basic", "withLength"}, NEW e, NEW p, NEW msg, IsSequence(msg), msg # <<>>,
         NEW n \in Nat, NEW data, NEW aad, SealedLayout(data, type, e, p, msg, n, aad),
         aad = Aad(Slice(data, 0, n), type, e), NEW t \in {"any", type}
  PROVE  DecryptWithHeaderEx(t, p, data, n, NoLength) =
           [ok |-> TRUE, decrypted |-> msg,
            consumedBytes |-> (IF type = "withLength" THEN Len(msg) ELSE NoLength) + GetHeaderSize(type)]
<1>1. /\ IsSequence(data) /\ Len(data) = n + GetHeaderSize(type) + Len(msg)
      /\ data[n + 1] = VersionCell /\ data[n + 2] = SuiteCell /\ data[n + 3] = Cell(type)
      /\ data[n + 4] = KeyCell(e) /\ data[n + 5] = IvCell(e)
      /\ data[n + 6] = TagCell(SharedKey(e, p), aad, IvCell(e), msg)
      /\ LiesAt(msg, data, n + GetHeaderSize(type))
  BY DEF SealedLayout
<1>2. type = "withLength" => data[n + 7] = <<"number", Len(msg)>>
  BY DEF SealedLayout
<1>3. Len(msg) \in Nat \ {0} /\ GetHeaderSize(type) \in {6, 7} /\ Len(data) \in Nat
  <2>1. Len(msg) # 0
    BY EmptySeq DEF IsSequence
  <2> QED
    BY <1>1, <2>1, SequenceIs DEF GetHeaderSize
<1>4. Cell(type)[1] = type /\ KeyCell(e)[1] = "key" /\ KeyCell(e)[2] = e
  BY DEF Cell, KeyCell
<1>5. AcceptsHeader(t, data, n)
  <2>1. data[n + 3] \in {Cell("basic"), Cell("withLength")} /\ (t = "any" \/ data[n + 3] = Cell(t))
    BY <1>1
  <2>2. Len(data) >= n + 3 /\ Len(data) >= GetHeaderSize(data[n + 3][1])
    BY <1>1, <1>3, <1>4
  <2> QED
    BY <1>1, <2>1, <2>2, Zenon DEF AcceptsHeader
<1> DEFINE size == IF type = "withLength" THEN NumberIn(data[n + 7]) ELSE NoLength
           start == n + GetHeaderSize(type)
           end == IF size > 0 THEN start + size ELSE Len(data)
           body == Slice(data, start, end)
           pre == Slice(data, 0, n)
           rest == IF type = "withLength" THEN Slice(data, start + size, Len(data)) ELSE <<>>
           key == data[n + 4][2]
           iv == data[n + 5]
           tag == data[n + 6]
           small == Len(data) < start \/ data[n + 4][1] # "key"
           wrong == type = "withLength" /\ (NoLength \notin {NoLength, size} \/ Len(body) # size)
           header == GetHeaderSize(type)
           result == [ok |-> TRUE, preamble |-> pre, type |-> type, key |-> key, iv |-> iv, tag |-> tag,
                      dataLength |-> size, headerSize |-> header, data |-> body, remainder |-> rest]
           parsed == ParseEncryptedMessage(t, data, n, NoLength)
<1>6. parsed = Parsed(type, data, n, NoLength)
  BY <1>1, <1>4, <1>5 DEF ParseEncryptedMessage
<1>7. Parsed(type, data, n, NoLength) =
        IF small THEN Refused ELSE IF wrong THEN Refused ELSE result
  BY Zenon DEF Parsed
<1>8. size = IF type = "withLength" THEN Len(msg) ELSE NoLength
  BY <1>2, <1>3 DEF NumberIn
<1> HIDE DEF size
<1>9. end = Len(data) /\ start + Len(msg) = Len(data) /\ start \in Nat /\ end \in Int
  BY <1>1, <1>3, <1>8 DEF NoLength
<1>10. body = msg
  <2> HIDE DEF start, end
  <2>1. end = start + Len(msg)
    BY <1>9
  <2>2. LiesAt(msg, data, start)
    BY <1>1 DEF start
  <2> QED
    BY <1>1, <1>9, <2>1, <2>2, PartIsSlice
<1>11. ~small /\ ~wrong
  <2>1. ~(Len(data) < start)
    BY <1>3, <1>9
  <2> HIDE DEF start, body
  <2> QED
    BY <1>1, <1>4, <1>8, <1>10, <2>1
<1> HIDE DEF small, wrong, result, parsed, body
<1>12. parsed = result
  BY <1>6, <1>7, <1>11
<1>13. /\ parsed.ok /\ parsed.key = e /\ parsed.iv = IvCell(e) /\ parsed.preamble = pre /\ parsed.type = type
       /\ parsed.tag = TagCell(SharedKey(e, p), aad, IvCell(e), msg) /\ parsed.data = msg
       /\ parsed.dataLength = size /\ parsed.headerSize = header
  <2> HIDE DEF pre, key, iv, tag, rest, header
  <2>1. /\ parsed.ok /\ parsed.key = key /\ parsed.iv = iv /\ parsed.preamble = pre /\ parsed.type = type
        /\ parsed.tag = tag /\ parsed.data = body /\ parsed.dataLength = size /\ parsed.headerSize = header
    BY <1>12 DEF result
  <2> QED
    BY <1>1, <1>4, <1>10, <2>1 DEF key, iv, tag
<1> DEFINE inner == DecryptWithComponents(p, parsed.key, parsed.iv, parsed.tag, parsed.data,
                                          Aad(parsed.preamble, parsed.type, parsed.key))
<1>14. inner.ok
  <2>1. inner = DecryptWithComponents(p, e, IvCell(e), TagCell(SharedKey(e, p), aad, IvCell(e), msg), msg, aad)
    BY <1>13, Zenon
  <2>2. inner = [ok |-> TRUE, decrypted |-> msg]
    BY <2>1, Zenon DEF DecryptWithComponents
  <2> HIDE DEF inner
  <2> QED
    BY <2>2
<1>15. OpenParsed(p, parsed) = [ok |-> TRUE, decrypted |-> parsed.data,
                                consumedBytes |-> parsed.dataLength + parsed.headerSize]
  BY <1>13, <1>14, Zenon DEF OpenParsed
<1>16. DecryptWithHeaderEx(t, p, data, n, NoLength) = OpenParsed(p, parsed)
  BY Zenon DEF DecryptWithHeaderEx, parsed
<1> HIDE DEF inner
<1> QED
  BY <1>8, <1>13, <1>15, <1>16 DEF header

(* A message with length that was cut off is refused.                      *)
LEMMA CutIsRefused ==
  ASSUME NEW e, NEW p, NEW msg, IsSequence(msg), NEW data, NEW aad,
         SealedLayout(data, "withLength", e, p, msg, 0, aad), NEW q,
         NEW cut, IsSequence(cut), Len(cut) < Len(data), \A i \in 1 .. Len(cut) : cut[i] = data[i]
  PROVE  DecryptWithLengthAndHeader(q, cut) = Refused
<1> DEFINE n == 0
           type == "withLength"
           length == NoLength
           k == cut[n + 3][1]
           size == NumberIn(cut[n + 7])
           start == n + GetHeaderSize(type)
           end == IF size > 0 THEN start + size ELSE Len(cut)
           body == Slice(cut, start, end)
           pre == Slice(cut, 0, n)
           rest == Slice(cut, start + size, Len(cut))
           result == [ok |-> TRUE, preamble |-> pre, type |-> type, key |-> cut[n + 4][2], iv |-> cut[n + 5],
                      tag |-> cut[n + 6], dataLength |-> size, headerSize |-> GetHeaderSize(type),
                      data |-> body, remainder |-> rest]
           small == Len(cut) < start \/ cut[n + 4][1] # "key"
           wrong == length \notin {NoLength, size} \/ Len(body) # size
           parsed == ParseEncryptedMessage(type, cut, n, length)
<1>1. /\ Len(cut) \in Nat /\ Len(data) = 7 + Len(msg) /\ Len(msg) \in Nat /\ Len(cut) < 7 + Len(msg)
      /\ data[3] = Cell(type) /\ data[7] = <<"number", Len(msg)>>
  BY SequenceIs DEF SealedLayout, GetHeaderSize
<1>2. parsed = IF AcceptsHeader(type, cut, n) THEN Parsed(k, cut, n, length) ELSE Refused
  BY Zenon DEF ParseEncryptedMessage
<1>3. ASSUME AcceptsHeader(type, cut, n) PROVE k = type /\ Len(cut) >= 7
  <2>1. cut[n + 3] = Cell(type) /\ Len(cut) >= GetHeaderSize(cut[n + 3][1])
    BY <1>3, Zenon DEF AcceptsHeader
  <2> QED
    BY <1>1, <2>1 DEF Cell, GetHeaderSize
<1>4. Parsed(type, cut, n, length) = IF small THEN Refused ELSE IF wrong THEN Refused ELSE result
  BY DEF Parsed
<1>5. ASSUME Len(cut) >= 7 PROVE wrong
  <2>1. 7 \in 1 .. Len(cut) /\ n + 7 = 7
    BY <1>1, <1>5
  <2>2. cut[7] = <<"number", Len(msg)>>
    BY <1>1, <2>1
  <2>3. size = Len(msg)
    BY <2>1, <2>2 DEF NumberIn
  <2>4. start = 7 /\ end \in Int
    BY <1>1, <2>3 DEF GetHeaderSize
  <2> HIDE DEF size, start
  <2>5. (IF end < Len(cut) THEN end ELSE Len(cut)) - 7 < size /\ (IF end < Len(cut) THEN end ELSE Len(cut)) - 7 >= 0
        /\ size \in Nat
    BY <1>1, <1>5, <2>3, <2>4
  <2> HIDE DEF end
  <2>6. LET to == IF end < Len(cut) THEN end ELSE Len(cut)
        IN  Len(body) = IF start < to THEN to - start ELSE 0
    BY <2>4, Sliced, Zenon
  <2> HIDE DEF body
  <2>7. Len(body) # size
    BY <1>1, <2>4, <2>5, <2>6
  <2> QED
    BY <2>7
<1> HIDE DEF wrong, small, result, parsed, k, type, length, n
<1>6. parsed = Refused
  BY <1>2, <1>3, <1>4, <1>5
<1>7. OpenParsed(q, Refused) = Refused
  BY DEF OpenParsed, Refused
<1>8. DecryptWithHeaderEx(type, q, cut, n, length) = Refused
  BY <1>6, <1>7, Zenon DEF DecryptWithHeaderEx, parsed
<1>9. DecryptWithHeader(type, q, cut, n, length) = Refused
  BY <1>8 DEF DecryptWithHeader, Plain, Refused
<1> QED
  BY <1>9, Zenon DEF DecryptWithLengthAndHeader, type, length, n

(* The ends of n sequences put one after the other.                        *)
EndsOf(off, seqs, n) ==
  /\ IsSequence(seqs) /\ n \in Nat /\ n = Len(seqs) /\ off[0] = 0
  /\ \A i \in 1 .. n : IsSequence(seqs[i]) /\ off[i] = off[i - 1] + Len(seqs[i])

(* Where the parts of a flattened sequence lie, given their ends.          *)
LEMMA FlattenLies ==
  ASSUME NEW seqs, NEW n, NEW off, EndsOf(off, seqs, n)
  PROVE  /\ IsSequence(FlattenSeq(seqs)) /\ Len(FlattenSeq(seqs)) = off[n]
         /\ \A i \in 1 .. n : LiesAt(seqs[i], FlattenSeq(seqs), off[i - 1])
         /\ \A i \in 0 .. n : off[i] \in Nat
<1> USE DEF EndsOf
<1>1. CASE seqs = <<>>
  <2>1. FlattenSeq(seqs) = <<>> /\ n = 0
    BY <1>1 DEF FlattenSeq
  <2> QED
    BY <2>1, Shorts
<1>2. CASE seqs # <<>>
  <2>1. n # 0
    BY <1>2, EmptySeq DEF IsSequence
  <2>2. PICK f : Flattens(f, seqs, Len(seqs)) /\ FlattenSeq(seqs) = f[Len(seqs)]
    BY <1>2, FlattenByDefinition
  <2>3. /\ Flattens(f, seqs, n) /\ FlattenSeq(seqs) = f[n]
        /\ \A i \in 1 .. n : Len(seqs[i]) \in Nat
    BY <2>2, SequenceIs
  <2> DEFINE Good(k) == /\ IsSequence(f[k]) /\ Len(f[k]) = off[k]
                        /\ \A i \in 1 .. k : LiesAt(seqs[i], f[k], off[i - 1])
             P == {k \in Nat : k \in 0 .. n => off[k] \in Nat /\ (k # 0 => Good(k))
                                  /\ \A i \in 0 .. k : off[i] \in Nat}
  <2> HIDE DEF Good
  <2>4. 0 \in P
    OBVIOUS
  <2>5. ASSUME NEW k \in Nat, k \in P PROVE k + 1 \in P
    <3> SUFFICES ASSUME k + 1 \in 0 .. n
                 PROVE  off[k + 1] \in Nat /\ Good(k + 1) /\ \A i \in 0 .. k + 1 : off[i] \in Nat
      OBVIOUS
    <3>1. (k + 1) - 1 = k /\ (k + 1 = 1 <=> k = 0) /\ k + 1 \in 1 .. n /\ k \in 0 .. n
      OBVIOUS
    <3>2. f[k + 1] = IF k = 0 THEN seqs[k + 1] ELSE f[k] \o seqs[k + 1]
      BY <2>3, <3>1 DEF Flattens
    <3>3. /\ off[k + 1] = off[k] + Len(seqs[k + 1]) /\ off[k] \in Nat
          /\ IsSequence(seqs[k + 1]) /\ Len(seqs[k + 1]) \in Nat
      BY <2>3, <2>5, <3>1
    <3>4. CASE k = 0
      <4>1. f[1] = seqs[1] /\ off[1] = Len(seqs[1])
        BY <3>2, <3>3, <3>4
      <4>2. LiesAt(seqs[1], f[1], off[0])
        BY <3>3, <3>4, <4>1 DEF LiesAt
      <4>3. \A i \in 1 .. 1 : i = 1 /\ i - 1 = 0
        OBVIOUS
      <4>4. Good(1)
        BY <3>3, <3>4, <4>1, <4>2, <4>3 DEF Good
      <4>5. \A i \in 0 .. 0 + 1 : i = 0 \/ i = 1
        OBVIOUS
      <4> QED
        BY <3>3, <3>4, <4>4, <4>5
    <3>5. CASE k # 0
      <4>1. Good(k) /\ f[k + 1] = f[k] \o seqs[k + 1]
        BY <2>5, <3>1, <3>2, <3>5
      <4>2. IsSequence(f[k]) /\ Len(f[k]) = off[k] /\ \A i \in 1 .. k : LiesAt(seqs[i], f[k], off[i - 1])
        BY <4>1 DEF Good
      <4>3. /\ LiesAt(f[k], f[k + 1], 0) /\ LiesAt(seqs[k + 1], f[k + 1], off[k])
            /\ IsSequence(f[k + 1]) /\ Len(f[k + 1]) = off[k + 1]
        <5> DEFINE a == f[k]
                   b == seqs[k + 1]
        <5>1. IsSequence(a) /\ IsSequence(b) /\ f[k + 1] = a \o b /\ Len(a) = off[k]
          BY <3>3, <4>1, <4>2
        <5> HIDE DEF a, b
        <5>2. /\ LiesAt(a, a \o b, 0) /\ LiesAt(b, a \o b, Len(a))
              /\ IsSequence(a \o b) /\ Len(a \o b) = Len(a) + Len(b)
          BY <5>1, HalvesLie
        <5>3. /\ LiesAt(a, f[k + 1], 0) /\ LiesAt(b, f[k + 1], off[k])
              /\ IsSequence(f[k + 1]) /\ Len(f[k + 1]) = off[k] + Len(b)
          BY <5>1, <5>2
        <5> QED
          BY <3>3, <5>3 DEF a, b
      <4>4. ASSUME NEW i \in 1 .. k + 1 PROVE LiesAt(seqs[i], f[k + 1], off[i - 1])
        <5>1. CASE i = k + 1
          BY <3>1, <4>3, <5>1
        <5>2. CASE i # k + 1
          <6>1. i \in 1 .. k /\ i \in 1 .. n /\ i - 1 \in 0 .. k
            BY <5>2, <3>1
          <6> DEFINE a == seqs[i]
                     b == f[k]
                     c == f[k + 1]
                     j == off[i - 1]
          <6>2. /\ IsSequence(a) /\ IsSequence(b) /\ IsSequence(c) /\ LiesAt(a, b, j)
                /\ LiesAt(b, c, 0) /\ j \in Nat
            BY <2>5, <3>1, <4>2, <4>3, <6>1
          <6> HIDE DEF a, b, c, j
          <6>3. j = j + 0 /\ 0 \in Nat
            BY <6>2
          <6>4. LiesAt(a, c, j)
            BY <6>2, <6>3, PartOfPart
          <6> QED
            BY <6>4 DEF a, c, j
        <5> QED
          BY <5>1, <5>2
      <4>5. off[k + 1] \in Nat
        BY <3>3
      <4>6. ASSUME NEW i \in 0 .. k + 1 PROVE off[i] \in Nat
        <5>1. i \in 0 .. k \/ i = k + 1
          OBVIOUS
        <5> QED
          BY <2>5, <3>1, <4>5, <5>1
      <4>7. Good(k + 1)
        BY <4>3, <4>4 DEF Good
      <4> QED
        BY <4>5, <4>6, <4>7
    <3> QED
      BY <3>4, <3>5
  <2> HIDE DEF P
  <2>6. n \in P
    BY <2>4, <2>5, NumbersInduction
  <2>7. Good(n) /\ \A i \in 0 .. n : off[i] \in Nat
    BY <2>1, <2>6 DEF P
  <2> QED
    BY <2>3, <2>7 DEF Good
<1> QED
  BY <1>1, <1>2

(* Two sequences that consist of the same parts are the same.              *)
LEMMA SameParts ==
  ASSUME NEW n \in Nat, NEW off, off[0] = 0, \A i \in 0 .. n : off[i] \in Nat,
         NEW seqs, \A i \in 1 .. n : off[i] = off[i - 1] + Len(seqs[i]) /\ IsSequence(seqs[i]),
         NEW s, NEW t, IsSequence(s), IsSequence(t), Len(s) = off[n], Len(t) = off[n],
         \A i \in 1 .. n : LiesAt(seqs[i], s, off[i - 1]) /\ LiesAt(seqs[i], t, off[i - 1])
  PROVE  s = t
<1> DEFINE P == {k \in Nat : k \in 0 .. n => \A j \in 1 .. off[k] : s[j] = t[j]}
<1>1. 0 \in P
  OBVIOUS
<1>2. ASSUME NEW k \in Nat, k \in P PROVE k + 1 \in P
  <2> SUFFICES ASSUME k + 1 \in 0 .. n, NEW j \in 1 .. off[k + 1] PROVE s[j] = t[j]
    OBVIOUS
  <2>1. k + 1 \in 1 .. n /\ k \in 0 .. n /\ (k + 1) - 1 = k
    OBVIOUS
  <2> DEFINE a == off[k]
             b == off[k + 1]
             l == Len(seqs[k + 1])
  <2>2. a \in Nat /\ b \in Nat /\ b = a + l /\ j \in 1 .. b
    BY <2>1
  <2>3. \A i \in 1 .. l : s[a + i] = seqs[k + 1][i] /\ t[a + i] = seqs[k + 1][i]
    BY <2>1 DEF LiesAt
  <2>4. \A i \in 1 .. a : s[i] = t[i]
    BY <1>2, <2>1
  <2> HIDE DEF a, b, l
  <2>5. l \in Int
    BY <2>1, SequenceIs DEF l
  <2>6. CASE j <= a
    BY <2>2, <2>4, <2>6
  <2>7. CASE ~(j <= a)
    <3>1. j - a \in 1 .. l /\ a + (j - a) = j
      BY <2>2, <2>5, <2>7
    <3> QED
      BY <2>3, <3>1
  <2> QED
    BY <2>6, <2>7
<1> HIDE DEF P
<1>3. n \in P
  BY <1>1, <1>2, NumbersInduction
<1>4. \A j \in 1 .. Len(s) : s[j] = t[j]
  BY <1>3 DEF P
<1> QED
  BY <1>4, SameCells

(* Where the chunks before chunk i, counted from zero, end in a file.      *)
ChunkEnd(i, size) == IF i * ChunkSize < size THEN i * ChunkSize ELSE size

(* What is left over by a division.                                        *)
LEMMA Remainder ==
  ASSUME NEW c \in Nat \ {0}, NEW a \in Nat, NEW x \in Nat, NEW r \in 1 .. c, x = a * c + r
  PROVE  x % c = IF r = c THEN 0 ELSE r
<1> DEFINE q == x \div c
           m == x % c
           d == q - a
<1>1. q \in Nat /\ m \in 0 .. c - 1 /\ x = q * c + m
  OBVIOUS
<1> HIDE DEF q, m
<1>2. d \in Int /\ q * c = a * c + d * c
  BY <1>1
<1> HIDE DEF d
<1> DEFINE qc == q * c
           ac == a * c
           dc == d * c
<1>3. qc \in Int /\ ac \in Int /\ dc \in Int
  BY <1>1, <1>2
<1>4. qc = ac + dc /\ x = qc + m /\ x = ac + r
  BY <1>1, <1>2
<1>5. d >= 1 => dc >= c
  <2> SUFFICES ASSUME d >= 1 PROVE dc >= c
    OBVIOUS
  <2>1. 1 * c <= d * c
    BY <1>2, ProductOrder
  <2> QED
    BY <2>1, 1 * c = c
<1>6. d <= -1 => dc <= -c
  <2> SUFFICES ASSUME d <= -1 PROVE dc <= -c
    OBVIOUS
  <2>1. -d \in Nat /\ 1 <= -d
    BY <1>2
  <2>2. 1 * c <= (-d) * c
    BY <2>1, ProductOrder
  <2>3. (-d) * c = -(d * c) /\ 1 * c = c
    BY <1>2
  <2> QED
    BY <1>3, <2>2, <2>3
<1>7. d = 0 => dc = 0
  OBVIOUS
<1> HIDE DEF qc, ac, dc
<1>8. m = IF r = c THEN 0 ELSE r
  BY <1>1, <1>2, <1>3, <1>4, <1>5, <1>6, <1>7
<1> QED
  BY <1>8 DEF m

(* The chunks of a file follow each other and end with it.                 *)
LEMMA ChunkEnds ==
  ASSUME NEW size \in Nat, NEW n, n = TotalChunks(size)
  PROVE  /\ n \in Nat /\ ChunkEnd(0, size) = 0 /\ ChunkEnd(n, size) = size
         /\ \A i \in Nat : ChunkEnd(i, size) \in Nat /\ ChunkEnd(i, size) <= size
         /\ \A i \in Nat : i * ChunkSize \in Nat /\ (i >= n => i * ChunkSize >= size)
         /\ \A i, j \in Nat : i <= j => ChunkEnd(i, size) <= ChunkEnd(j, size)
         /\ \A i \in Nat : i < n =>
              /\ i * ChunkSize = ChunkEnd(i, size)
              /\ ChunkEnd(i, size) < ChunkEnd(i + 1, size)
              /\ ChunkEnd(i + 1, size) - ChunkEnd(i, size) =
                   IF ChunkSize < size - i * ChunkSize THEN ChunkSize ELSE size - i * ChunkSize
<1> DEFINE c == ChunkSize
<1>1. c \in Nat /\ c >= 1
  BY ChunkSizeAssumption
<1>2. n \in Nat /\ \A i \in Nat : i < n => i * c \in Nat /\ i * c < size
  BY ChunksBegin
<1>3. n * c >= size
  <2> DEFINE a == size + c - 1
             nc == n * c
  <2>1. a \in Nat
    BY <1>1
  <2>2. n = a \div c
    BY DEF TotalChunks
  <2> HIDE DEF a, c
  <2>3. a < (n + 1) * c
    BY <1>1, <2>1, <2>2
  <2>4. (n + 1) * c = n * c + c /\ n * c \in Nat
    BY <1>1, <1>2
  <2>5. a < nc + c /\ nc \in Nat
    BY <2>3, <2>4
  <2> HIDE DEF nc
  <2>6. nc >= size
    BY <1>1, <2>5 DEF a
  <2> QED
    BY <2>6 DEF nc
<1>4. \A i \in Nat : i * c \in Nat
  BY <1>1
<1>5. \A i, j \in Nat : i <= j => i * c <= j * c
  BY <1>1, ProductOrder
<1>6. \A i \in Nat : (i + 1) * c = i * c + c
  <2> HIDE DEF c
  <2> QED
    BY <1>1
<1>7. 0 * c = 0
  BY <1>1
<1> DEFINE e(i) == ChunkEnd(i, size)
<1>8. \A i : e(i) = IF i * c < size THEN i * c ELSE size
  BY DEF ChunkEnd
<1> DEFINE p(i) == i * c
<1>9. /\ \A i \in Nat : p(i) \in Nat /\ (i < n => p(i) < size) /\ p(i + 1) = p(i) + c
      /\ \A i, j \in Nat : i <= j => p(i) <= p(j)
      /\ p(0) = 0 /\ p(n) >= size /\ \A i : e(i) = IF p(i) < size THEN p(i) ELSE size
  BY <1>2, <1>3, <1>4, <1>5, <1>6, <1>7, <1>8
<1> HIDE DEF p, e, c
<1>10. e(0) = 0 /\ e(n) = size
  BY <1>2, <1>9
<1>11. \A i \in Nat : e(i) \in Nat /\ e(i) <= size
  BY <1>9
<1>12. \A i \in Nat : p(i) \in Nat /\ (i >= n => p(i) >= size)
  <2> SUFFICES ASSUME NEW i \in Nat, i >= n PROVE p(i) >= size
    BY <1>9
  <2>1. p(n) <= p(i) /\ p(n) \in Nat /\ p(i) \in Nat
    BY <1>2, <1>9
  <2> QED
    BY <1>9, <2>1
<1>13. ASSUME NEW i \in Nat, NEW j \in Nat, i <= j PROVE e(i) <= e(j)
  <2>1. p(i) <= p(j) /\ p(i) \in Nat /\ p(j) \in Nat
    BY <1>9, <1>13
  <2>2. e(i) = IF p(i) < size THEN p(i) ELSE size
    BY <1>9
  <2>3. e(j) = IF p(j) < size THEN p(j) ELSE size
    BY <1>9
  <2> DEFINE x == p(i)
             y == p(j)
  <2> HIDE DEF x, y
  <2>4. (IF x < size THEN x ELSE size) <= (IF y < size THEN y ELSE size)
    BY <2>1 DEF x, y
  <2> QED
    BY <2>2, <2>3, <2>4 DEF x, y
<1>14. ASSUME NEW i \in Nat, i < n
       PROVE  /\ p(i) = e(i) /\ e(i) < e(i + 1)
              /\ e(i + 1) - e(i) = IF c < size - p(i) THEN c ELSE size - p(i)
  <2>1. p(i) \in Nat /\ p(i) < size /\ p(i + 1) = p(i) + c
    BY <1>9, <1>14
  <2>2. e(i) = p(i) /\ e(i + 1) = IF p(i) + c < size THEN p(i) + c ELSE size
    BY <1>9, <2>1
  <2> QED
    BY <1>1, <2>1, <2>2
<1> QED
  BY <1>2, <1>10, <1>11, <1>12, <1>13, <1>14 DEF e, p, c

(* So long is a chunk when it is read, and it starts where the last ended. *)
LEMMA ChunkRead ==
  ASSUME NEW size \in Nat, NEW i \in Nat, i < TotalChunks(size), NEW content
  PROVE  ReadChunk(content, size, i) =
           [k \in 1 .. ChunkEnd(i + 1, size) - ChunkEnd(i, size) |->
              IF ChunkEnd(i, size) + k <= Len(content)
              THEN content[ChunkEnd(i, size) + k] ELSE Cell("zero")]
<1> DEFINE n == TotalChunks(size)
           c == ChunkSize
           a == ChunkEnd(i, size)
           b == ChunkEnd(i + 1, size)
           f(l, o) == [k \in 1 .. l |-> IF o + k <= Len(content) THEN content[o + k] ELSE Cell("zero")]
<1>1. i * c = a /\ b - a = IF c < size - i * c THEN c ELSE size - i * c
  BY ChunkEnds
<1>2. ReadChunk(content, size, i) = f(IF c < size - i * c THEN c ELSE size - i * c, i * c)
  BY Zenon DEF ReadChunk, f, c
<1> HIDE DEF f, a, b, c, n
<1>3. ReadChunk(content, size, i) = f(b - a, a)
  BY <1>1, <1>2
<1> QED
  BY <1>3 DEF f, a, b

(* And so long it is taken for when it is opened.                          *)
LEMMA ChunkLengths ==
  ASSUME NEW size \in Nat, NEW i \in Nat, i < TotalChunks(size),
         NEW header, header.totalChunks = TotalChunks(size), header.originalSize = size,
         header.chunkSize = ChunkSize
  PROVE  ChunkLength(header, i) = ChunkEnd(i + 1, size) - ChunkEnd(i, size)
<1> DEFINE n == TotalChunks(size)
           c == ChunkSize
           a == ChunkEnd(i, size)
           b == ChunkEnd(i + 1, size)
<1>1. c \in Nat /\ c >= 1
  BY ChunkSizeAssumption
<1>2. /\ n \in Nat /\ a \in Nat /\ b \in Nat /\ b <= size /\ i * c = a /\ a < b
      /\ b - a = IF c < size - i * c THEN c ELSE size - i * c
      /\ (i + 1 < n => (i + 1) * c < size)
      /\ (i = n - 1 => b = size)
  <2>1. /\ n \in Nat /\ a \in Nat /\ b \in Nat /\ b <= size /\ i * c = a /\ a < b
        /\ b - a = IF c < size - i * c THEN c ELSE size - i * c
        /\ ChunkEnd(n, size) = size
    BY ChunkEnds
  <2>2. i + 1 < n => (i + 1) * c < size
    BY ChunksBegin
  <2>3. i = n - 1 => i + 1 = n
    BY <2>1
  <2> QED
    BY <2>1, <2>2, <2>3
<1>3. (i + 1) * c = i * c + c
  <2> HIDE DEF c
  <2> QED
    BY <1>1
<1> DEFINE m == size % c
<1>5. ChunkLength(header, i) = IF i = n - 1 /\ m # 0 THEN m ELSE c
  BY DEF ChunkLength
<1>6. CASE i = n - 1
  <2> DEFINE r == b - a
  <2> HIDE DEF a, b, n, c
  <2>1. size = i * c + r /\ r \in 1 .. c
    BY <1>1, <1>2, <1>6
  <2> HIDE DEF r
  <2>2. m = IF r = c THEN 0 ELSE r
    <3>1. c \in Nat \ {0}
      BY <1>1
    <3> QED
      BY <2>1, <3>1, Remainder
  <2>3. (IF i = n - 1 /\ m # 0 THEN m ELSE c) = r
    BY <1>6, <2>1, <2>2
  <2> QED
    BY <1>5, <2>3 DEF r, a, b
<1>7. CASE i # n - 1
  <2> HIDE DEF m
  <2> DEFINE x == i * c
  <2> HIDE DEF a, b, n, c
  <2>1. i + 1 < n
    <3>1. n \in Nat /\ i < n
      BY <1>2 DEF n
    <3> QED
      BY <1>7, <3>1
  <2>2. a + c < size
    BY <1>2, <1>3, <2>1
  <2>3. b - a = c
    BY <1>1, <1>2, <2>2
  <2> QED
    BY <1>5, <1>7, <2>3 DEF a, b
<1> QED
  BY <1>6, <1>7

(* A message with length lies in a buffer.                                 *)
SealedIn(cells, at, p, data) ==
  \E e : LiesAt(SealSingle("withLength", e, p, data, <<>>), cells, at)

(* Where the first i chunks end in an encrypted file.                      *)
FileEnd(i, size) == HeaderLength + 7 * i + ChunkEnd(i, size)

(* What was read and encrypted of a file: the header, and chunk by chunk.  *)
FileLaidOut(read, cells, p, size) ==
  /\ size \in Nat /\ IsSequence(read) /\ Len(read) \in 1 .. TotalChunks(size) + 1
  /\ read[1] = SerializeHeader(TotalChunks(size), size)
  /\ IsSequence(cells) /\ Len(cells) = FileEnd(Len(read) - 1, size)
  /\ SealedIn(cells, 0, p, read[1])
  /\ \A k \in 1 .. Len(read) - 1 :
       /\ IsSequence(read[k + 1])
       /\ Len(read[k + 1]) = ChunkEnd(k, size) - ChunkEnd(k - 1, size)
       /\ SealedIn(cells, FileEnd(k - 1, size), p, read[k + 1])

(* The chunks are those of one content.                                    *)
FromContent(read, content, size) ==
  /\ IsSequence(content) /\ size = Len(content)
  /\ \A k \in 1 .. Len(read) - 1 : read[k + 1] = ReadChunk(content, size, k - 1)

(* What a part of a file is encrypted to.                                  *)
LEMMA EncryptedPart ==
  ASSUME NEW e, NEW p, NEW data, IsSequence(data), Len(data) \in 1 .. MaxDataSize
  PROVE  \E cells :
           /\ cells = EncryptSingle("withLength", e, p, data, <<>>).cells
           /\ cells = SealSingle("withLength", e, p, data, <<>>)
           /\ IsSequence(cells) /\ Len(cells) = 7 + Len(data)
<1> DEFINE c == EncryptSingle("withLength", e, p, data, <<>>)
           sealed == SealSingle("withLength", e, p, data, <<>>)
           aad == Aad(<<>>, "withLength", e)
<1>1. c = IF "withLength" = "multiple" \/ data = <<>> \/ Len(data) > MaxDataSize THEN Refused
          ELSE [ok |-> TRUE, cells |-> sealed]
  BY Zenon DEF EncryptSingle
<1>2. data # <<>> /\ ~(Len(data) > MaxDataSize) /\ Len(data) \in Nat
  BY SizeAssumption
<1>3. SealedLayout(sealed, "withLength", e, p, data, 0, aad)
  <2>1. "withLength" \in {"basic", "withLength"} /\ IsSequence(<<>>) /\ Len(<<>>) = 0
    BY Shorts
  <2> DEFINE none == <<>>
             type == "withLength"
  <2>2. type \in {"basic", "withLength"} /\ IsSequence(none) /\ Len(none) = 0
    BY <2>1
  <2> HIDE DEF none, type
  <2>3. SealedLayout(SealSingle(type, e, p, data, none), type, e, p, data, Len(none), Aad(none, type, e))
    BY <2>2, SealedIs
  <2> QED
    BY <2>2, <2>3 DEF none, type
<1> HIDE DEF c, sealed, aad
<1>4. c.cells = sealed
  BY <1>1, <1>2
<1>5. IsSequence(sealed) /\ Len(sealed) = 7 + Len(data)
  BY <1>2, <1>3 DEF SealedLayout, GetHeaderSize
<1> QED
  BY <1>4, <1>5 DEF c, sealed

(* So a part that lies in a buffer is laid out.                            *)
LEMMA SealedInIs ==
  ASSUME NEW data, IsSequence(data), NEW cells, NEW at, NEW p, SealedIn(cells, at, p, data)
  PROVE  \E e, s : /\ SealedLayout(s, "withLength", e, p, data, 0, Aad(<<>>, "withLength", e))
                   /\ IsSequence(s) /\ Len(s) = 7 + Len(data) /\ LiesAt(s, cells, at)
<1>1. PICK e : LiesAt(SealSingle("withLength", e, p, data, <<>>), cells, at)
  BY DEF SealedIn
<1> DEFINE none == <<>>
           type == "withLength"
           s == SealSingle(type, e, p, data, none)
<1>2. type \in {"basic", "withLength"} /\ IsSequence(none) /\ Len(none) = 0 /\ LiesAt(s, cells, at)
  <2>1. LiesAt(s, cells, at)
    BY <1>1
  <2> QED
    BY <2>1, Shorts
<1> HIDE DEF none, type
<1>3. SealedLayout(s, type, e, p, data, Len(none), Aad(none, type, e))
  BY <1>2, SealedIs
<1> HIDE DEF s
<1>4. IsSequence(s) /\ Len(s) = 7 + Len(data)
  <2>1. IsSequence(s) /\ Len(s) = Len(none) + GetHeaderSize(type) + Len(data)
    BY <1>3 DEF SealedLayout
  <2>2. GetHeaderSize(type) = 7 /\ Len(data) \in Nat
    BY SequenceIs DEF GetHeaderSize, type
  <2> QED
    BY <1>2, <2>1, <2>2
<1> QED
  BY <1>2, <1>3, <1>4 DEF none, type

(* What lies in a buffer stays when more is put behind it.                 *)
LEMMA SealedStays ==
  ASSUME NEW data, IsSequence(data), NEW cells, IsSequence(cells), NEW more, IsSequence(more),
         NEW at \in Nat, NEW p, SealedIn(cells, at, p, data)
  PROVE  SealedIn(cells \o more, at, p, data)
<1>1. PICK e : LiesAt(SealSingle("withLength", e, p, data, <<>>), cells, at)
  BY DEF SealedIn
<1> DEFINE s == SealSingle("withLength", e, p, data, <<>>)
           u == cells \o more
<1>2. LiesAt(s, cells, at)
  BY <1>1
<1>3. LiesAt(cells, u, 0) /\ Len(u) = Len(cells) + Len(more) /\ \A i \in 1 .. Len(cells) : u[i] = cells[i]
  BY HalvesLie, Joined
<1> DEFINE l == Len(s)
<1>4. l \in Nat /\ Len(cells) \in Nat /\ Len(more) \in Nat
  <2> DEFINE none == <<>>
             type == "withLength"
  <2>1. type \in {"basic", "withLength"} /\ IsSequence(none) /\ s = SealSingle(type, e, p, data, none)
    BY Shorts
  <2> HIDE DEF none, type, s
  <2>2. IsSequence(s)
    BY <2>1, SealedIs DEF SealedLayout
  <2> QED
    BY <2>2, SequenceIs DEF l
<1> HIDE DEF u, s, l
<1>5. at + l <= Len(cells) /\ \A i \in 1 .. l : cells[at + i] = s[i]
  BY <1>2 DEF LiesAt, l
<1>6. at + l <= Len(u) /\ \A i \in 1 .. l : u[at + i] = s[i]
  <2>1. at + l <= Len(u)
    BY <1>3, <1>4, <1>5
  <2>2. ASSUME NEW i \in 1 .. l PROVE u[at + i] = s[i]
    <3>1. at + i \in 1 .. Len(cells)
      BY <1>4, <1>5
    <3>2. u[at + i] = cells[at + i]
      BY <1>3, <3>1
    <3> QED
      BY <1>5, <3>2
  <2> QED
    BY <2>1, <2>2
<1>7. LiesAt(s, u, at)
  BY <1>6 DEF LiesAt, l
<1> QED
  BY <1>7 DEF SealedIn, s, u

(* The header is the first part.                                           *)
LEMMA HeaderLaidOut ==
  ASSUME NEW size \in Nat, NEW header, header = SerializeHeader(TotalChunks(size), size), NEW e, NEW p
  PROVE  FileLaidOut(<<header>>, EncryptSingle("withLength", e, p, header, <<>>).cells, p, size)
<1> DEFINE cells == EncryptSingle("withLength", e, p, header, <<>>).cells
           read == <<header>>
<1>1. IsSequence(header) /\ Len(header) \in 1 .. MaxDataSize /\ Len(header) = 5
  <2>1. IsText(header) /\ Len(header) = FileHeaderSize
    BY FileHeaderIsText
  <2>2. FileHeaderSize \in 1 .. MaxDataSize
    BY SizeAssumption DEF FileHeaderSize
  <2> QED
    BY <2>1, <2>2 DEF IsText, FileHeaderSize
<1>2. /\ cells = SealSingle("withLength", e, p, header, <<>>)
      /\ IsSequence(cells) /\ Len(cells) = 12
  <2>1. PICK c : /\ c = EncryptSingle("withLength", e, p, header, <<>>).cells
                 /\ c = SealSingle("withLength", e, p, header, <<>>)
                 /\ IsSequence(c) /\ Len(c) = 7 + Len(header)
    <3>1. ASSUME NEW h, IsSequence(h), Len(h) \in 1 .. MaxDataSize
          PROVE  \E c : /\ c = EncryptSingle("withLength", e, p, h, <<>>).cells
                        /\ c = SealSingle("withLength", e, p, h, <<>>)
                        /\ IsSequence(c) /\ Len(c) = 7 + Len(h)
      BY <3>1, EncryptedPart
    <3> QED
      BY <1>1, <3>1
  <2> QED
    BY <1>1, <2>1
<1> HIDE DEF cells
<1>3. LiesAt(cells, cells, 0)
  BY <1>2 DEF LiesAt
<1>4. SealedIn(cells, 0, p, header)
  BY <1>2, <1>3 DEF SealedIn
<1>5. IsSequence(read) /\ Len(read) = 1 /\ read[1] = header
  BY Shorts
<1> HIDE DEF read
<1>6. FileEnd(0, size) = 12
  BY ChunkEnds DEF FileEnd, HeaderLength, ComputeEncryptedLengthFromDataLength, GetHeaderSize, FileHeaderSize
<1>7. TotalChunks(size) \in Nat
  BY ChunkEnds
<1>8. Len(read) \in 1 .. TotalChunks(size) + 1 /\ Len(read) - 1 = 0 /\ 1 .. Len(read) - 1 = {}
  BY <1>5, <1>7
<1>9. Len(cells) = FileEnd(Len(read) - 1, size)
  BY <1>2, <1>6, <1>8
<1> QED
  BY <1>2, <1>4, <1>5, <1>8, <1>9 DEF FileLaidOut, cells, read

(* One chunk more.                                                         *)
LEMMA ChunkLaidOut ==
  ASSUME NEW read, NEW cells, NEW p, NEW size, FileLaidOut(read, cells, p, size),
         NEW i, i = Len(read) - 1, i < TotalChunks(size),
         NEW data, IsSequence(data), Len(data) = ChunkEnd(i + 1, size) - ChunkEnd(i, size),
         Len(data) \in 1 .. MaxDataSize, NEW e
  PROVE  FileLaidOut(Append(read, data), cells \o EncryptSingle("withLength", e, p, data, <<>>).cells, p, size)
<1> DEFINE n == Len(read)
           more == EncryptSingle("withLength", e, p, data, <<>>).cells
           reads == Append(read, data)
           all == cells \o more
<1>1. /\ size \in Nat /\ IsSequence(read) /\ Len(read) \in 1 .. TotalChunks(size) + 1
      /\ read[1] = SerializeHeader(TotalChunks(size), size)
      /\ IsSequence(cells) /\ Len(cells) = FileEnd(Len(read) - 1, size)
      /\ SealedIn(cells, 0, p, read[1])
  BY DEF FileLaidOut
<1>2. ASSUME NEW k \in 1 .. Len(read) - 1
      PROVE  /\ IsSequence(read[k + 1])
             /\ Len(read[k + 1]) = ChunkEnd(k, size) - ChunkEnd(k - 1, size)
             /\ SealedIn(cells, FileEnd(k - 1, size), p, read[k + 1])
  BY DEF FileLaidOut
<1>3. /\ more = SealSingle("withLength", e, p, data, <<>>)
      /\ IsSequence(more) /\ Len(more) = 7 + Len(data)
  BY EncryptedPart
<1> HIDE DEF more
<1>4. /\ IsSequence(reads) /\ Len(reads) = n + 1
      /\ \A k \in 1 .. n : reads[k] = read[k]
      /\ reads[n + 1] = data
  BY <1>1, Appended
<1> HIDE DEF reads
<1>5. /\ IsSequence(all) /\ Len(all) = Len(cells) + Len(more) /\ LiesAt(more, all, Len(cells))
  BY <1>1, <1>3, HalvesLie
<1> HIDE DEF all
<1>6. /\ TotalChunks(size) \in Nat /\ n \in Nat /\ n >= 1 /\ n - 1 = i /\ n = i + 1 /\ i \in Nat
      /\ n <= TotalChunks(size)
  <2>1. TotalChunks(size) \in Nat
    BY <1>1, ChunkEnds
  <2> QED
    BY <1>1, <2>1
<1>7. \A k \in Nat : ChunkEnd(k, size) \in Nat /\ FileEnd(k, size) = 12 + 7 * k + ChunkEnd(k, size)
      /\ FileEnd(k, size) \in Nat
  <2> SUFFICES ASSUME NEW k \in Nat
               PROVE  /\ ChunkEnd(k, size) \in Nat /\ FileEnd(k, size) = 12 + 7 * k + ChunkEnd(k, size)
                      /\ FileEnd(k, size) \in Nat
    OBVIOUS
  <2>1. ChunkEnd(k, size) \in Nat
    BY <1>1, ChunkEnds
  <2>2. HeaderLength = 12
    BY DEF HeaderLength, ComputeEncryptedLengthFromDataLength, GetHeaderSize, FileHeaderSize
  <2>3. FileEnd(k, size) = 12 + 7 * k + ChunkEnd(k, size)
    BY <2>2 DEF FileEnd
  <2> QED
    BY <2>1, <2>3
<1>8. Len(all) = FileEnd(Len(reads) - 1, size)
  <2>1. Len(all) = FileEnd(i, size) + 7 + (ChunkEnd(i + 1, size) - ChunkEnd(i, size))
    <3>1. Len(all) = FileEnd(i, size) + (7 + (ChunkEnd(i + 1, size) - ChunkEnd(i, size)))
      BY <1>1, <1>3, <1>5
    <3>2. FileEnd(i, size) \in Nat /\ ChunkEnd(i, size) \in Nat /\ ChunkEnd(i + 1, size) \in Nat
      BY <1>6, <1>7
    <3> QED
      BY <3>1, <3>2
  <2>2. Len(reads) - 1 = i + 1
    BY <1>4, <1>6
  <2>3. /\ FileEnd(i, size) = 12 + 7 * i + ChunkEnd(i, size) /\ ChunkEnd(i, size) \in Nat
        /\ FileEnd(i + 1, size) = 12 + 7 * (i + 1) + ChunkEnd(i + 1, size)
        /\ ChunkEnd(i + 1, size) \in Nat
    BY <1>6, <1>7
  <2> QED
    BY <1>6, <2>1, <2>2, <2>3
<1>9. SealedIn(all, 0, p, reads[1])
  <2>1. reads[1] = read[1]
    BY <1>4, <1>6
  <2>2. IsSequence(read[1])
    BY <1>1, FileHeaderIsText DEF IsText
  <2> DEFINE h == read[1]
  <2>3. IsSequence(h) /\ SealedIn(cells, 0, p, h) /\ 0 \in Nat
    BY <1>1, <2>2
  <2> HIDE DEF h
  <2>4. SealedIn(cells \o more, 0, p, h)
    BY <1>1, <1>3, <2>3, SealedStays
  <2> QED
    BY <2>1, <2>4 DEF h, all
<1>10. ASSUME NEW k \in 1 .. Len(reads) - 1
       PROVE  /\ IsSequence(reads[k + 1])
              /\ Len(reads[k + 1]) = ChunkEnd(k, size) - ChunkEnd(k - 1, size)
              /\ SealedIn(all, FileEnd(k - 1, size), p, reads[k + 1])
  <2>1. k \in 1 .. n
    BY <1>4, <1>6
  <2>2. CASE k = n
    <3>1. reads[k + 1] = data /\ k - 1 = i /\ k = i + 1
      BY <1>4, <1>6, <2>2
    <3>2. LiesAt(SealSingle("withLength", e, p, data, <<>>), all, FileEnd(i, size))
      BY <1>1, <1>3, <1>5
    <3>3. SealedIn(all, FileEnd(i, size), p, data)
      BY <3>2 DEF SealedIn
    <3> QED
      BY <3>1, <3>3
  <2>3. CASE k # n
    <3>1. k \in 1 .. Len(read) - 1 /\ k + 1 \in 1 .. n /\ k - 1 \in Nat
      BY <1>6, <2>1, <2>3
    <3>2. reads[k + 1] = read[k + 1] /\ FileEnd(k - 1, size) \in Nat
      BY <1>4, <1>7, <3>1
    <3>3. /\ IsSequence(read[k + 1])
          /\ Len(read[k + 1]) = ChunkEnd(k, size) - ChunkEnd(k - 1, size)
          /\ SealedIn(cells, FileEnd(k - 1, size), p, read[k + 1])
      BY <1>2, <3>1
    <3> DEFINE x == read[k + 1]
               at == FileEnd(k - 1, size)
    <3>4. IsSequence(x) /\ at \in Nat /\ SealedIn(cells, at, p, x)
      BY <3>2, <3>3
    <3> HIDE DEF x, at
    <3>5. SealedIn(cells \o more, at, p, x)
      BY <1>1, <1>3, <3>4, SealedStays
    <3> QED
      BY <3>2, <3>3, <3>5 DEF x, at, all
  <2> QED
    BY <2>2, <2>3
<1>11. Len(reads) \in 1 .. TotalChunks(size) + 1 /\ reads[1] = SerializeHeader(TotalChunks(size), size)
  BY <1>1, <1>4, <1>6
<1>12. FileLaidOut(reads, all, p, size)
  BY <1>1, <1>4, <1>5, <1>8, <1>9, <1>10, <1>11 DEF FileLaidOut
<1> QED
  BY <1>12 DEF reads, all, more

(* What a record says of its cells, form by form.                          *)
SingleWhole(r) ==
  \E e, p : \E type \in {"basic", "withLength"}, m \in Messages, pre \in Preambles :
    /\ m # <<>> /\ r.type = type /\ r.to = {p} /\ r.parts = <<Part(pre, m)>>
    /\ r.cells = SealSingle(type, e, p, m, pre)

MultipleWhole(r) ==
  \E e, m : \E list \in Recipients, data \in Messages, pre \in Preambles :
    /\ r.to = Range(list) /\ r.parts = <<Part(pre, data)>>
    /\ m = EncryptMultiple(IdSize, e, list, data, pre, r.signer) /\ m.ok
    /\ r.cells = BuildHeader(IdSize, m).cells \o m.encryptedMessage

ChunkWhole(r) ==
  \E e, sym, c : \E list \in Recipients, data \in Messages, index \in Nat, isLast \in BOOLEAN :
    /\ r.to = Range(list) /\ r.parts = <<Part(<<>>, data)>>
    /\ c = EncryptChunk(IdSize, e, sym, list, data, index, isLast, r.signer) /\ c.ok
    /\ r.cells = c.cells

KeyWhole(r) == \E e, sym, p : r.to = {p} /\ r.cells = EncryptKeyAlone(p, e, sym)

FileWhole(r) ==
  \E p, size, read :
    /\ r.to = {p} /\ r.parts = [i \in DOMAIN read |-> Part(<<>>, read[i])]
    /\ FileLaidOut(read, r.cells, p, size) /\ Len(read) = TotalChunks(size) + 1
    /\ ~r.changed => FromContent(read, r.content, size)

RecordWhole(r) ==
  \/ r.form = "single" /\ SingleWhole(r)
  \/ r.form = "multiple" /\ MultipleWhole(r)
  \/ r.form = "chunk" /\ ChunkWhole(r)
  \/ r.form = "key" /\ KeyWhole(r)
  \/ r.form = "file" /\ FileWhole(r)

ReadingWhole(enc) ==
  enc # Idle =>
    /\ FileLaidOut(enc.read, enc.cells, enc.to, enc.size) /\ enc.changes \in Nat
    /\ enc.changes = 0 => enc.file = enc.content /\ FromContent(enc.read, enc.content, enc.size)

AllWhole == (\A i \in 1 .. Len(sent) : RecordWhole(sent[i])) /\ ReadingWhole(encryption)

(* One record more.                                                        *)
LEMMA WholeGrows ==
  ASSUME AllMade, AllWhole, NEW r, RecordWhole(r), sent' = Append(sent, r), ReadingWhole(encryption')
  PROVE  AllWhole'
<1> DEFINE s == sent
           u == Append(s, r)
           n == Len(s)
<1>1. IsSequence(s) /\ \A i \in 1 .. n : RecordWhole(s[i])
  BY DEF AllMade, SentMade, AllWhole
<1> HIDE DEF s
<1>2. n \in Nat
  BY <1>1, SequenceIs
<1>3. Len(u) = n + 1 /\ (\A i \in 1 .. n : u[i] = s[i]) /\ u[n + 1] = r
  BY <1>1, Appended
<1> HIDE DEF u, n
<1>4. ASSUME NEW i \in 1 .. Len(u) PROVE RecordWhole(u[i])
  <2>1. i \in 1 .. n \/ i = n + 1
    BY <1>2, <1>3
  <2> QED
    BY <1>1, <1>3, <2>1
<1>5. sent' = u
  BY DEF u, s
<1>6. \A i \in 1 .. Len(sent') : RecordWhole(sent'[i])
  BY <1>4, <1>5
<1> QED
  BY <1>6 DEF AllWhole

(* Sending adds a record and leaves the file that is read alone.           *)
LEMMA SendWhole ==
  ASSUME AllMade, AllWhole, NEW r, RecordWhole(r), Send(r)
  PROVE  AllWhole'
<1>1. sent' = Append(sent, r) /\ encryption' = encryption
  BY DEF Send
<1>2. ReadingWhole(encryption')
  BY <1>1 DEF AllWhole
<1> QED
  BY <1>1, <1>2, WholeGrows

(* encryptBasic and encryptWithLength record the message they seal.        *)
LEMMA EncryptWhole ==
  ASSUME AllMade, AllWhole, NEW p \in Members, NEW m \in Messages, NEW pre \in Preambles,
         NEW type \in {"basic", "withLength"}, Encrypt(type, p, m, pre)
  PROVE  AllWhole'
<1> DEFINE c == EncryptSingle(type, Fresh, p, m, pre)
           x == Fresh
           parts == <<Part(pre, m)>>
           r == [form |-> "single", type |-> type, to |-> {p}, signer |-> Nobody,
                 parts |-> parts, cells |-> c.cells]
<1>1. c.ok /\ Send(r)
  BY DEF Encrypt
<1>2. c.cells = SealSingle(type, x, p, m, pre) /\ m # <<>>
  <2>1. c = IF type = "multiple" \/ m = <<>> \/ Len(m) > MaxDataSize THEN Refused
            ELSE [ok |-> TRUE, cells |-> SealSingle(type, x, p, m, pre)]
    BY DEF EncryptSingle
  <2> HIDE DEF c
  <2> QED
    BY <1>1, <2>1 DEF Refused
<1> HIDE DEF c, x
<1>3. r.form = "single" /\ r.type = type /\ r.to = {p} /\ r.parts = parts /\ r.cells = c.cells
  OBVIOUS
<1> HIDE DEF r
<1>4. SingleWhole(r)
  BY <1>2, <1>3 DEF SingleWhole
<1> QED
  BY <1>1, <1>3, <1>4, SendWhole DEF RecordWhole

(* encryptMultiple records the header and the message behind it.           *)
LEMMA EncryptForManyWhole ==
  ASSUME AllMade, AllWhole, NEW list \in Recipients, NEW m \in Messages, NEW pre \in Preambles, NEW s,
         EncryptForMany(list, m, pre, s)
  PROVE  AllWhole'
<1> DEFINE c == EncryptMultiple(IdSize, Fresh, list, m, pre, s)
           all == BuildHeader(IdSize, c).cells \o c.encryptedMessage
           x == Fresh
           parts == <<Part(pre, m)>>
           r == [form |-> "multiple", to |-> Range(list), signer |-> s, parts |-> parts,
                 symmetricKey |-> Fresh, cells |-> all]
<1>1. c.ok /\ Send(r)
  BY DEF EncryptForMany
<1>2. c = EncryptMultiple(IdSize, x, list, m, pre, s)
  OBVIOUS
<1> HIDE DEF c, x
<1>3. r.form = "multiple" /\ r.to = Range(list) /\ r.signer = s /\ r.parts = parts
      /\ r.cells = BuildHeader(IdSize, c).cells \o c.encryptedMessage
  OBVIOUS
<1> HIDE DEF r
<1>4. MultipleWhole(r)
  <2>1. c = EncryptMultiple(IdSize, x, list, m, pre, r.signer)
    BY <1>2, <1>3
  <2> QED
    BY <1>1, <1>3, <2>1 DEF MultipleWhole
<1> QED
  BY <1>1, <1>3, <1>4, SendWhole DEF RecordWhole

(* encryptChunk records the chunk it returns.                              *)
LEMMA EncryptChunkForManyWhole ==
  ASSUME AllMade, AllWhole, NEW k, NEW list \in Recipients, NEW m \in Messages, NEW index \in Nat,
         NEW isLast \in BOOLEAN, NEW s, EncryptChunkForMany(k, list, m, index, isLast, s)
  PROVE  AllWhole'
<1> DEFINE c == EncryptChunk(IdSize, Fresh, k, list, m, index, isLast, s)
           x == Fresh
           parts == <<Part(<<>>, m)>>
           r == [form |-> "chunk", to |-> Range(list), signer |-> s, parts |-> parts,
                 index |-> index, isLast |-> isLast, symmetricKey |-> k, cells |-> c.cells]
<1>1. c.ok /\ Send(r)
  BY DEF EncryptChunkForMany
<1>2. c = EncryptChunk(IdSize, x, k, list, m, index, isLast, s)
  OBVIOUS
<1> HIDE DEF c, x
<1>3. r.form = "chunk" /\ r.to = Range(list) /\ r.signer = s /\ r.parts = parts /\ r.cells = c.cells
  OBVIOUS
<1> HIDE DEF r
<1>4. ChunkWhole(r)
  <2>1. c = EncryptChunk(IdSize, x, k, list, m, index, isLast, r.signer)
    BY <1>2, <1>3
  <2> QED
    BY <1>1, <1>3, <2>1 DEF ChunkWhole
<1> QED
  BY <1>1, <1>3, <1>4, SendWhole DEF RecordWhole

(* A key encrypted alone is recorded.                                      *)
LEMMA EncryptSymmetricKeyWhole ==
  ASSUME AllMade, AllWhole, NEW k, NEW p \in Members, EncryptSymmetricKey(k, p)
  PROVE  AllWhole'
<1> DEFINE x == Fresh
           r == [form |-> "key", to |-> {p}, signer |-> Nobody,
                 parts |-> <<Part(<<>>, SymmetricCell(k))>>, symmetricKey |-> k, cells |-> EncryptKeyAlone(p, x, k)]
<1>1. Send(r)
  BY DEF EncryptSymmetricKey
<1> HIDE DEF x
<1>2. r.form = "key" /\ r.to = {p} /\ r.cells = EncryptKeyAlone(p, x, k)
  OBVIOUS
<1> HIDE DEF r
<1>3. KeyWhole(r)
  BY <1>2 DEF KeyWhole
<1> QED
  BY <1>1, <1>2, <1>3, SendWhole DEF RecordWhole

(* The header of a file is read and laid out first.                        *)
LEMMA StatFileWhole ==
  ASSUME AllMade, AllWhole, NEW p \in Members, NEW content \in Contents, StatFile(p, content)
  PROVE  AllWhole'
<1> DEFINE size == Len(content)
           header == SerializeHeader(TotalChunks(size), size)
           cells == EncryptSingle("withLength", Fresh, p, header, <<>>).cells
           read == <<header>>
           x == Fresh
           new == [state |-> "reading", to |-> p, size |-> size, read |-> read, cells |-> cells,
                   file |-> content, content |-> content, changes |-> 0]
<1>1. encryption' = new /\ sent' = sent
  BY DEF StatFile
<1>2. size \in Nat /\ IsSequence(content)
  <2>1. IsText(content)
    BY MembersHaveIds
  <2> QED
    BY <2>1, SequenceIs DEF IsText
<1> HIDE DEF size
<1>3. FileLaidOut(read, cells, p, size)
  <2> HIDE DEF x
  <2>1. FileLaidOut(<<header>>, EncryptSingle("withLength", x, p, header, <<>>).cells, p, size)
    BY <1>2, HeaderLaidOut
  <2> QED
    BY <2>1 DEF x
<1>4. Len(read) = 1
  BY Shorts
<1> HIDE DEF cells, read
<1>5. /\ new.read = read /\ new.cells = cells /\ new.to = p /\ new.size = size
      /\ new.file = content /\ new.content = content /\ new.changes = 0
  OBVIOUS
<1> HIDE DEF new
<1>6. FromContent(read, content, size)
  <2>1. 1 .. Len(read) - 1 = {}
    BY <1>4
  <2> QED
    BY <1>2, <2>1 DEF FromContent, size
<1>7. ReadingWhole(new)
  BY <1>3, <1>5, <1>6 DEF ReadingWhole
<1> QED
  BY <1>1, <1>7 DEF AllWhole

(* A chunk that is read is laid out behind the others.                     *)
LEMMA ReadFileChunkWhole == ASSUME AllMade, AllWhole, ReadFileChunk PROVE AllWhole'
<1> DEFINE enc == encryption
           i == NextChunk
           data == ReadChunk(enc.file, enc.size, i)
           x == Fresh + Len(enc.read)
           more == EncryptSingle("withLength", x, enc.to, data, <<>>).cells
           all == enc.cells \o more
           reads == Append(enc.read, data)
           new == encryption'
<1>1. /\ enc # Idle /\ i < TotalChunks(enc.size)
      /\ new = [enc EXCEPT !.read = reads, !.cells = all]
      /\ sent' = sent
  BY DEF ReadFileChunk, Idle
<1>2. enc = Reading(enc) /\ enc.size \in Nat /\ enc.file \in Contents /\ IsSequence(enc.read) /\ Len(enc.read) >= 1
  BY <1>1 DEF AllMade, FileMade
<1>3. i \in Nat /\ i = Len(enc.read) - 1 /\ Len(enc.read) \in Nat
  BY <1>2, SequenceIs DEF NextChunk
<1> DEFINE size == enc.size
           file == enc.file
           old == enc.cells
           read == enc.read
           p == enc.to
<1>4. /\ FileLaidOut(read, old, p, size) /\ enc.changes \in Nat
      /\ enc.changes = 0 => file = enc.content /\ FromContent(read, enc.content, size)
  BY <1>1 DEF AllWhole, ReadingWhole
<1>5. /\ new.read = reads /\ new.cells = all /\ new.to = p /\ new.size = size
      /\ new.file = file /\ new.content = enc.content /\ new.changes = enc.changes
  <2> DEFINE content == enc.content
             changes == enc.changes
  <2> SUFFICES /\ new.read = reads /\ new.cells = all /\ new.to = p /\ new.size = size
               /\ new.file = file /\ new.content = content /\ new.changes = changes
    OBVIOUS
  <2>1. enc = [state |-> "reading", to |-> p, size |-> size, read |-> read, cells |-> old,
               file |-> file, content |-> content, changes |-> changes]
    BY <1>2 DEF Reading
  <2>2. new = [enc EXCEPT !.read = reads, !.cells = all]
    BY <1>1
  <2> HIDE DEF p, size, read, old, file, content, changes, reads, all, enc, new
  <2> QED
    BY <2>1, <2>2
<1>6. IsText(data) /\ Len(data) \in 1 .. MaxDataSize /\ Len(data) = ChunkEnd(i + 1, size) - ChunkEnd(i, size)
  <2>1. size \in Nat /\ IsText(file) /\ i < TotalChunks(size)
    BY <1>1, <1>2, MembersHaveIds
  <2> HIDE DEF i, size, file
  <2>2. IsText(ReadChunk(file, size, i)) /\ Len(ReadChunk(file, size, i)) \in 1 .. ChunkSize
    BY <1>3, <2>1, ChunkIsText
  <2> DEFINE l == ChunkEnd(i + 1, size) - ChunkEnd(i, size)
  <2>4. ReadChunk(file, size, i) =
          [k \in 1 .. ChunkEnd(i + 1, size) - ChunkEnd(i, size) |->
             IF ChunkEnd(i, size) + k <= Len(file) THEN file[ChunkEnd(i, size) + k] ELSE Cell("zero")]
    <3>1. i \in Nat
      BY <1>3
    <3>2. size \in Nat /\ i < TotalChunks(size)
      BY <2>1
    <3> QED
      BY <3>1, <3>2, ChunkRead
  <2>5. l \in Nat
    <3>1. ChunkEnd(i, size) \in Nat /\ ChunkEnd(i + 1, size) \in Nat /\ ChunkEnd(i, size) < ChunkEnd(i + 1, size)
      <4> DEFINE n == TotalChunks(size)
      <4>1. n = TotalChunks(size) /\ i < n
        BY <2>1
      <4> HIDE DEF n
      <4> QED
        <5>1. i \in Nat
          BY <1>3
        <5>2. size \in Nat
          BY <2>1
        <5> QED
          BY <4>1, <5>1, <5>2, ChunkEnds
    <3> QED
      BY <3>1
  <2> HIDE DEF l
  <2>6. \E f : ReadChunk(file, size, i) = [k \in 1 .. l |-> f[k]]
    BY <2>4 DEF l
  <2>7. Len(ReadChunk(file, size, i)) = l
    BY <2>5, <2>6
  <2> QED
    BY <2>2, <2>7, SizeAssumption, ChunkSizeAssumption DEF l, size, file
<1> HIDE DEF x
<1>7. FileLaidOut(reads, all, p, size)
  <2>1. IsSequence(data)
    BY <1>6 DEF IsText
  <2>2. i < TotalChunks(size)
    BY <1>1
  <2>3. reads = Append(read, data) /\ all = old \o EncryptSingle("withLength", x, p, data, <<>>).cells
    OBVIOUS
  <2> HIDE DEF read, old, p, size, data, i, reads, all
  <2>4. i = Len(read) - 1
    BY <1>3 DEF read
  <2> QED
    BY <1>4, <1>6, <2>1, <2>2, <2>3, <2>4, ChunkLaidOut
<1>8. ASSUME enc.changes = 0 PROVE FromContent(reads, enc.content, size)
  <2> DEFINE content == enc.content
             n == Len(read)
  <2>1. file = content /\ IsSequence(content) /\ size = Len(content)
        /\ \A k \in 1 .. n - 1 : read[k + 1] = ReadChunk(content, size, k - 1)
    BY <1>4, <1>8 DEF FromContent
  <2>2. /\ Len(reads) = n + 1 /\ (\A k \in 1 .. n : reads[k] = read[k]) /\ reads[n + 1] = data
    BY <1>2, Appended
  <2>3. data = ReadChunk(content, size, i)
    BY <2>1
  <2>4. n \in Nat /\ i = n - 1
    BY <1>3
  <2> HIDE DEF reads, data, i, n, read, content, size, enc
  <2>5. ASSUME NEW k \in 1 .. Len(reads) - 1 PROVE reads[k + 1] = ReadChunk(content, size, k - 1)
    <3>1. k \in 1 .. n
      BY <2>2, <2>4
    <3>2. CASE k = n
      BY <2>2, <2>3, <2>4, <3>2
    <3>3. CASE k # n
      <4>1. k \in 1 .. n - 1 /\ k + 1 \in 1 .. n
        BY <2>4, <3>1, <3>3
      <4> QED
        BY <2>1, <2>2, <4>1
    <3> QED
      BY <3>2, <3>3
  <2>6. FromContent(reads, content, size)
    BY <2>1, <2>5 DEF FromContent
  <2> QED
    BY <2>6 DEF content
<1> HIDE DEF reads, all
<1>9. ReadingWhole(new)
  <2> HIDE DEF new, enc
  <2>1. new.changes = 0 => new.file = new.content /\ FromContent(new.read, new.content, new.size)
    BY <1>4, <1>5, <1>8
  <2> QED
    BY <1>4, <1>5, <1>7, <2>1 DEF ReadingWhole
<1> QED
  BY <1>1, <1>9 DEF AllWhole

(* The record of a file is what was read of it.                            *)
LEMMA FinishFileWhole == ASSUME AllMade, AllWhole, FinishFile PROVE AllWhole'
<1> DEFINE enc == encryption
           parts == [i \in DOMAIN enc.read |-> Part(<<>>, enc.read[i])]
           changed == enc.changes > 0
           r == [form |-> "file", to |-> {enc.to}, signer |-> Nobody, parts |-> parts,
                 cells |-> enc.cells, content |-> enc.content, changed |-> changed]
<1>1. /\ enc # Idle /\ sent' = Append(sent, r) /\ encryption' = Idle
      /\ NextChunk = TotalChunks(enc.size)
  BY DEF FinishFile, Idle
<1>2. /\ FileLaidOut(enc.read, enc.cells, enc.to, enc.size) /\ enc.changes \in Nat
      /\ enc.changes = 0 => FromContent(enc.read, enc.content, enc.size)
  BY <1>1 DEF AllWhole, ReadingWhole
<1>3. Len(enc.read) = TotalChunks(enc.size) + 1
  <2>1. Len(enc.read) \in Nat
    BY <1>2, SequenceIs DEF FileLaidOut
  <2> QED
    BY <1>1, <2>1 DEF NextChunk
<1>4. /\ r.form = "file" /\ r.to = {enc.to} /\ r.parts = parts /\ r.cells = enc.cells
      /\ r.content = enc.content /\ r.changed = changed
  <2> HIDE DEF parts, enc, changed
  <2> QED
    OBVIOUS
<1>5. ~changed => enc.changes = 0
  BY <1>2
<1> DEFINE p == enc.to
           size == enc.size
           read == enc.read
<1>6. parts = [i \in DOMAIN read |-> Part(<<>>, read[i])]
  OBVIOUS
<1> HIDE DEF r, parts, changed
<1>7. /\ r.to = {p} /\ r.parts = [i \in DOMAIN read |-> Part(<<>>, read[i])]
      /\ FileLaidOut(read, r.cells, p, size) /\ Len(read) = TotalChunks(size) + 1
      /\ ~r.changed => FromContent(read, r.content, size)
  <2> HIDE DEF enc
  <2> QED
    BY <1>2, <1>3, <1>4, <1>5, <1>6
<1> HIDE DEF p, size, read
<1>8. FileWhole(r)
  BY <1>7 DEF FileWhole
<1>9. ReadingWhole(encryption')
  BY <1>1 DEF ReadingWhole
<1>10. RecordWhole(r)
  BY <1>4, <1>8 DEF RecordWhole
<1> QED
  BY <1>1, <1>9, <1>10, WholeGrows

(* Another content changes nothing of what was read.                       *)
LEMMA WriteFileWhole ==
  ASSUME AllMade, AllWhole, NEW content \in Contents, WriteFile(content)
  PROVE  AllWhole'
<1> DEFINE enc == encryption
           new == encryption'
           count == enc.changes + 1
<1>1. enc # Idle /\ new = [enc EXCEPT !.file = content, !.changes = count] /\ sent' = sent
  BY DEF WriteFile, Idle
<1>2. enc = Reading(enc)
  BY <1>1 DEF AllMade, FileMade
<1>3. FileLaidOut(enc.read, enc.cells, enc.to, enc.size) /\ enc.changes \in Nat
  BY <1>1 DEF AllWhole, ReadingWhole
<1>4. count \in Nat /\ count # 0
  BY <1>3
<1>5. /\ new.read = enc.read /\ new.cells = enc.cells /\ new.to = enc.to
      /\ new.size = enc.size /\ new.changes = count
  <2> DEFINE a == enc.read
             b == enc.cells
             c == enc.to
             d == enc.size
             f == enc.file
             g == enc.content
             h == enc.changes
  <2> SUFFICES new.read = a /\ new.cells = b /\ new.to = c /\ new.size = d /\ new.changes = count
    OBVIOUS
  <2>1. enc = [state |-> "reading", to |-> c, size |-> d, read |-> a, cells |-> b,
               file |-> f, content |-> g, changes |-> h]
    BY <1>2 DEF Reading
  <2>2. new = [enc EXCEPT !.file = content, !.changes = count]
    BY <1>1
  <2> HIDE DEF a, b, c, d, f, g, h, enc, new, count
  <2> QED
    BY <2>1, <2>2
<1>6. ReadingWhole(new)
  <2> HIDE DEF enc, new, count
  <2> QED
    BY <1>3, <1>4, <1>5 DEF ReadingWhole
<1> QED
  BY <1>1, <1>6 DEF AllWhole

(* Nothing is sent or read at first.                                       *)
LEMMA AllWholeFirst == Init => AllWhole
<1> SUFFICES ASSUME Init PROVE AllWhole
  OBVIOUS
<1>1. sent = <<>> /\ encryption = Idle
  BY DEF Init
<1>2. 1 .. Len(<<>>) = {}
  OBVIOUS
<1> QED
  BY <1>1, <1>2 DEF AllWhole, ReadingWhole

(* Every step keeps the records whole.                                     *)
LEMMA AllWholeKept == AllMade /\ AllWhole /\ [Next]_vars => AllWhole'
<1> SUFFICES ASSUME AllMade, AllWhole, [Next]_vars PROVE AllWhole'
  OBVIOUS
<1>1. ASSUME NEW p \in Members, NEW m \in Messages, NEW pre \in Preambles,
             NEW type \in {"basic", "withLength"}, Encrypt(type, p, m, pre)
      PROVE  AllWhole'
  BY <1>1, EncryptWhole
<1>2. ASSUME NEW r \in Recipients, NEW m \in Messages, NEW s \in Signers, NEW pre \in Preambles,
             EncryptForMany(r, m, pre, s)
      PROVE  AllWhole'
  BY <1>2, EncryptForManyWhole
<1>3. ASSUME NEW r \in Recipients, NEW m \in Messages, NEW s \in Signers, NEW k \in CallersKeys,
             NEW index \in 0 .. 1, EncryptChunkForMany(k, r, m, index, index = 1, s)
      PROVE  AllWhole'
  <2> DEFINE isLast == index = 1
  <2>1. isLast \in BOOLEAN /\ index \in Nat /\ EncryptChunkForMany(k, r, m, index, isLast, s)
    BY <1>3
  <2> HIDE DEF isLast
  <2> QED
    BY <2>1, EncryptChunkForManyWhole
<1>4. ASSUME NEW k \in CallersKeys, NEW p \in Members, EncryptSymmetricKey(k, p) PROVE AllWhole'
  BY <1>4, EncryptSymmetricKeyWhole
<1>5. ASSUME NEW p \in Members, NEW content \in Contents, StatFile(p, content) PROVE AllWhole'
  BY <1>5, StatFileWhole
<1>6. CASE ReadFileChunk
  BY <1>6, ReadFileChunkWhole
<1>7. CASE FinishFile
  BY <1>7, FinishFileWhole
<1>8. ASSUME NEW content \in Contents, WriteFile(content) PROVE AllWhole'
  BY <1>8, WriteFileWhole
<1>9. ASSUME UNCHANGED <<sent, encryption>> PROVE AllWhole'
  BY <1>9 DEF AllWhole
<1>10. \A a, b, i, j : Splice(a, b, i, j) => UNCHANGED <<sent, encryption>>
  BY DEF Splice
<1>11. \A a, i : Cut(a, i) => UNCHANGED <<sent, encryption>>
  BY DEF Cut
<1>12. \A a, i, cell : Alter(a, i, cell) => UNCHANGED <<sent, encryption>>
  BY DEF Alter
<1>13. vars' = vars => UNCHANGED <<sent, encryption>>
  BY DEF vars
<1> QED
  BY <1>1, <1>2, <1>3, <1>4, <1>5, <1>6, <1>7, <1>8, <1>9, <1>10, <1>11, <1>12, <1>13, Zenon DEF Next

(* What it is to be the beginning of a sequence.                           *)
LEMMA PrefixIs ==
  ASSUME NEW s, NEW t, IsSequence(s), IsSequence(t)
  PROVE  IsPrefix(s, t) <=> Len(s) <= Len(t) /\ \A i \in 1 .. Len(s) : s[i] = t[i]
<1> DEFINE n == Len(s)
           a == SubSeq(s, 1, n)
           b == SubSeq(t, 1, n)
<1>1. n \in Nat /\ Len(t) \in Nat
  BY SequenceIs
<1>2. IsPrefix(s, t) <=> n <= Len(t) /\ a = b
  BY DEF IsPrefix
<1>3. ASSUME n <= Len(t) PROVE a = b <=> \A i \in 1 .. n : s[i] = t[i]
  <2>1. \A i \in 1 .. n : s[i] \in Range(s) /\ t[i] \in Range(t)
    BY <1>1, <1>3, SequenceIs
  <2> DEFINE one == 1
  <2>2. one = 1 /\ one \in Int /\ n \in Int /\ \A i \in one .. n : s[i] \in Range(s) /\ t[i] \in Range(t)
    BY <1>1, <2>1
  <2> DEFINE c == SubSeq(s, one, n)
             d == SubSeq(t, one, n)
  <2> HIDE DEF one, n
  <2>3. /\ c \in Seq(Range(s)) /\ Len(c) = (IF one <= n THEN n - one + 1 ELSE 0)
        /\ \A i \in 1 .. n - one + 1 : c[i] = s[one + i - 1]
    BY <2>2, SubSeqProperties
  <2>4. /\ d \in Seq(Range(t)) /\ Len(d) = (IF one <= n THEN n - one + 1 ELSE 0)
        /\ \A i \in 1 .. n - one + 1 : d[i] = t[one + i - 1]
    BY <2>2, SubSeqProperties
  <2> HIDE DEF c, d
  <2>5. n - one + 1 = n /\ (IF one <= n THEN n - one + 1 ELSE 0) = n /\ \A i \in 1 .. n : one + i - 1 = i
    BY <1>1, <2>2
  <2>6. Len(c) = n /\ Len(d) = n /\ \A i \in 1 .. n : c[i] = s[i] /\ d[i] = t[i]
    BY <2>3, <2>4, <2>5
  <2>7. IsSequence(c) /\ IsSequence(d)
    BY <2>3, <2>4, SequenceOver
  <2>8. c = d <=> \A i \in 1 .. n : s[i] = t[i]
    <3>1. ASSUME c = d PROVE \A i \in 1 .. n : s[i] = t[i]
      BY <2>6, <3>1
    <3>2. ASSUME \A i \in 1 .. n : s[i] = t[i] PROVE c = d
      <4>1. \A i \in 1 .. Len(c) : c[i] = d[i]
        BY <2>6, <3>2
      <4> QED
        BY <2>6, <2>7, <4>1, SameCells
    <3> QED
      BY <3>1, <3>2
  <2>9. a = c /\ b = d
    BY <2>2 DEF c, d
  <2> QED
    BY <2>8, <2>9
<1> HIDE DEF a, b
<1> QED
  BY <1>2, <1>3 DEF n

(* Two slices, one after the other, and a slice up to the end.             *)
LEMMA SlicesJoin ==
  ASSUME NEW s, IsSequence(s), NEW x \in Nat, NEW y \in Nat, NEW z \in Nat,
         x <= y, y <= z, z <= Len(s)
  PROVE  /\ Slice(s, x, y) \o Slice(s, y, z) = Slice(s, x, z)
         /\ Slice(s, z, z) = <<>>
         /\ Slice(s, 0, Len(s)) = s
<1>1. Len(s) \in Nat
  BY SequenceIs
<1>2. ASSUME NEW from \in Nat, NEW to \in Nat, from <= to, to <= Len(s)
      PROVE  /\ IsSequence(Slice(s, from, to)) /\ Len(Slice(s, from, to)) = to - from
             /\ \A i \in 1 .. to - from : Slice(s, from, to)[i] = s[from + i]
  <2> DEFINE end == IF to < Len(s) THEN to ELSE Len(s)
             p == Slice(s, from, to)
  <2>0. to \in Int
    OBVIOUS
  <2>1. /\ IsSequence(p) /\ Len(p) = IF from < end THEN end - from ELSE 0
        /\ \A i \in 1 .. Len(p) : p[i] = s[from + i]
    BY <2>0, Sliced, Zenon
  <2>2. end = to
    BY <1>1, <1>2
  <2> HIDE DEF p, end
  <2>3. Len(p) = to - from
    BY <1>2, <2>1, <2>2
  <2> QED
    BY <2>1, <2>3 DEF p
<1> DEFINE a == Slice(s, x, y)
           b == Slice(s, y, z)
           c == Slice(s, x, z)
<1>3. /\ IsSequence(a) /\ Len(a) = y - x /\ \A i \in 1 .. y - x : a[i] = s[x + i]
      /\ IsSequence(b) /\ Len(b) = z - y /\ \A i \in 1 .. z - y : b[i] = s[y + i]
      /\ IsSequence(c) /\ Len(c) = z - x /\ \A i \in 1 .. z - x : c[i] = s[x + i]
  <2>1. y <= Len(s) /\ x <= z
    BY <1>1
  <2> QED
    BY <1>2, <2>1
<1> HIDE DEF a, b, c
<1>4. /\ IsSequence(a \o b) /\ Len(a \o b) = Len(a) + Len(b)
      /\ \A i \in 1 .. Len(a) : (a \o b)[i] = a[i]
      /\ \A i \in 1 .. Len(b) : (a \o b)[Len(a) + i] = b[i]
  <2>1. IsSequence(a) /\ IsSequence(b)
    BY <1>3
  <2> QED
    BY <2>1, Joined
<1>5. a \o b = c
  <2> DEFINE u == a \o b
  <2>1. /\ IsSequence(u) /\ Len(u) = z - x
        /\ \A i \in 1 .. y - x : u[i] = s[x + i]
        /\ \A i \in 1 .. z - y : u[(y - x) + i] = s[y + i]
    <3>1. Len(u) = (y - x) + (z - y)
      BY <1>3, <1>4
    <3>2. Len(a) = y - x /\ Len(b) = z - y
      BY <1>3
    <3> HIDE DEF u
    <3>3. \A i \in 1 .. y - x : u[i] = a[i]
      BY <1>4, <3>2 DEF u
    <3>4. \A i \in 1 .. z - y : u[(y - x) + i] = b[i]
      BY <1>4, <3>2 DEF u
    <3>5. IsSequence(u)
      BY <1>4 DEF u
    <3>6. Len(u) = z - x
      BY <3>1
    <3>7. \A i \in 1 .. y - x : a[i] = s[x + i]
      BY <1>3
    <3>8. \A i \in 1 .. z - y : b[i] = s[y + i]
      BY <1>3
    <3> QED
      BY <3>3, <3>4, <3>5, <3>6, <3>7, <3>8
  <2> HIDE DEF u
  <2>2. ASSUME NEW i \in 1 .. z - x PROVE u[i] = c[i]
    <3>1. CASE i <= y - x
      BY <1>3, <2>1, <3>1
    <3>2. CASE ~(i <= y - x)
      <4>1. i - (y - x) \in 1 .. z - y /\ (y - x) + (i - (y - x)) = i /\ y + (i - (y - x)) = x + i
        BY <3>2
      <4>2. u[(y - x) + (i - (y - x))] = s[y + (i - (y - x))]
        BY <2>1, <4>1
      <4> QED
        BY <1>3, <4>1, <4>2
    <3> QED
      BY <3>1, <3>2
  <2>3. Len(u) = Len(c) /\ \A i \in 1 .. Len(u) : u[i] = c[i]
    BY <1>3, <2>1, <2>2
  <2>4. u = c
    BY <1>3, <2>1, <2>3, SameCells
  <2> QED
    BY <2>4 DEF u
<1>6. Slice(s, z, z) = <<>>
  <2>1. IsSequence(Slice(s, z, z)) /\ Len(Slice(s, z, z)) = z - z
    BY <1>2
  <2> QED
    BY <2>1, EmptySeq DEF IsSequence
<1>7. Slice(s, 0, Len(s)) = s
  <2> DEFINE w == Slice(s, 0, Len(s))
             n == Len(s)
  <2>0. 0 \in Nat /\ n \in Nat /\ 0 <= n /\ n <= Len(s)
    BY <1>1
  <2>1. IsSequence(w) /\ Len(w) = n - 0 /\ \A i \in 1 .. n - 0 : w[i] = s[0 + i]
    BY <1>2, <2>0
  <2> HIDE DEF w
  <2>2. Len(w) = n /\ \A i \in 1 .. n : w[i] = s[i]
    BY <1>1, <2>1
  <2> QED
    BY <2>1, <2>2, SameCells DEF w
<1> QED
  BY <1>5, <1>6, <1>7 DEF a, b, c

(* A part of what was sent, in the beginning of it that arrived.           *)
LEMMA PartOfPrefix ==
  ASSUME NEW a, NEW cells, IsSequence(a), IsSequence(cells), IsPrefix(a, cells),
         NEW s, IsSequence(s), Len(s) # 0, NEW at \in Nat, LiesAt(s, cells, at), NEW to \in Nat, to = at + Len(s)
  PROVE  /\ to <= Len(a) => Slice(a, at, to) = s
         /\ ~(to <= Len(a)) => /\ IsSequence(Slice(a, at, to)) /\ Len(Slice(a, at, to)) < Len(s)
                               /\ \A i \in 1 .. Len(Slice(a, at, to)) : Slice(a, at, to)[i] = s[i]
<1>1. Len(a) \in Nat /\ Len(s) \in Nat /\ Len(cells) \in Nat
  BY SequenceIs
<1>2. Len(a) <= Len(cells) /\ \A i \in 1 .. Len(a) : a[i] = cells[i]
  BY PrefixIs
<1>3. at + Len(s) <= Len(cells) /\ \A i \in 1 .. Len(s) : cells[at + i] = s[i]
  BY DEF LiesAt
<1>4. ASSUME to <= Len(a) PROVE Slice(a, at, to) = s
  <2>1. LiesAt(s, a, at)
    <3>1. \A i \in 1 .. Len(s) : at + i \in 1 .. Len(a)
      BY <1>1, <1>4
    <3>2. \A i \in 1 .. Len(s) : a[at + i] = s[i]
      BY <1>2, <1>3, <3>1
    <3> QED
      BY <1>4, <3>2 DEF LiesAt
  <2>2. to \in Int
    OBVIOUS
  <2> QED
    BY <2>1, <2>2, PartIsSlice
<1>5. ASSUME ~(to <= Len(a))
      PROVE  /\ IsSequence(Slice(a, at, to)) /\ Len(Slice(a, at, to)) < Len(s)
             /\ \A i \in 1 .. Len(Slice(a, at, to)) : Slice(a, at, to)[i] = s[i]
  <2> DEFINE end == IF to < Len(a) THEN to ELSE Len(a)
             p == Slice(a, at, to)
  <2>1. /\ IsSequence(p) /\ Len(p) = IF at < end THEN end - at ELSE 0
        /\ \A i \in 1 .. Len(p) : p[i] = a[at + i] /\ at + i \in 1 .. Len(a)
    <3>1. to \in Int
      OBVIOUS
    <3> QED
      BY <3>1, Sliced, Zenon
  <2>2. end = Len(a)
    BY <1>1, <1>5
  <2> HIDE DEF p, end
  <2>3. Len(p) < Len(s) /\ Len(p) \in Nat
    <3>1. Len(p) = IF at < end THEN end - at ELSE 0
      BY <2>1
    <3> DEFINE l == Len(a)
               m == Len(s)
    <3>2. l \in Nat /\ m \in Nat /\ end = l /\ to = at + m /\ l < to /\ Len(p) = IF at < end THEN end - at ELSE 0
      BY <1>1, <1>5, <2>2, <3>1
    <3> HIDE DEF l, m
    <3>3. m # 0
      BY DEF m
    <3>4. Len(p) < m /\ Len(p) \in Nat
      BY <3>2, <3>3
    <3> QED
      BY <3>4 DEF m
  <2>4. ASSUME NEW i \in 1 .. Len(p) PROVE p[i] = s[i]
    <3>1. i \in 1 .. Len(s)
      BY <1>1, <2>3
    <3>2. p[i] = a[at + i] /\ at + i \in 1 .. Len(a)
      BY <2>1
    <3> QED
      BY <1>2, <1>3, <3>1, <3>2
  <2> QED
    BY <2>1, <2>3, <2>4 DEF p
<1> QED
  BY <1>4, <1>5

(* The beginning of what was sent has arrived, and a part belongs in a place. *)
PartAt(a, cells, p, data, at, to) ==
  /\ IsSequence(a) /\ IsSequence(cells) /\ IsPrefix(a, cells) /\ IsSequence(data) /\ data # <<>>
  /\ SealedIn(cells, at, p, data) /\ at \in Nat /\ to \in Nat /\ to = at + 7 + Len(data)

(* A part opens when it has arrived whole, and not before.                 *)
LEMMA PartOpens ==
  ASSUME NEW a, NEW cells, NEW p, NEW data, NEW at, NEW to, PartAt(a, cells, p, data, at, to)
  PROVE  /\ to <= Len(a) =>
              DecryptWithLengthAndHeader(p, Slice(a, at, to)) = [ok |-> TRUE, decrypted |-> data]
         /\ ~(to <= Len(a)) => DecryptWithLengthAndHeader(p, Slice(a, at, to)) = Refused
<1> USE DEF PartAt
<1> DEFINE aad(e) == Aad(<<>>, "withLength", e)
<1>1. PICK e, s : /\ SealedLayout(s, "withLength", e, p, data, 0, aad(e))
                  /\ IsSequence(s) /\ Len(s) = 7 + Len(data) /\ LiesAt(s, cells, at)
  BY SealedInIs
<1>2. Len(data) \in Nat
  BY SequenceIs
<1> DEFINE cut == Slice(a, at, to)
<1>3. /\ to <= Len(a) => cut = s
      /\ ~(to <= Len(a)) => /\ IsSequence(cut) /\ Len(cut) < Len(s)
                            /\ \A i \in 1 .. Len(cut) : cut[i] = s[i]
  <2>1. to = at + Len(s) /\ Len(s) # 0
    BY <1>1, <1>2
  <2> QED
    BY <1>1, <2>1, PartOfPrefix
<1> HIDE DEF cut
<1>4. ASSUME to <= Len(a) PROVE DecryptWithLengthAndHeader(p, cut) = [ok |-> TRUE, decrypted |-> data]
  <2> DEFINE type == "withLength"
             ex == DecryptWithHeaderEx(type, p, s, 0, NoLength)
             n == IF type = "withLength" THEN Len(data) ELSE NoLength
             used == n + GetHeaderSize(type)
  <2>1. Slice(s, 0, 0) = <<>>
    <3>1. 0 \in Nat /\ 0 <= Len(s)
      BY <1>1, <1>2
    <3> QED
      BY <1>1, <3>1, SlicesJoin
  <2>2. aad(e) = Aad(Slice(s, 0, 0), type, e)
    BY <2>1
  <2>3. SealedLayout(s, type, e, p, data, 0, aad(e)) /\ type \in {"basic", "withLength"} /\ 0 \in Nat
    BY <1>1
  <2> HIDE DEF type, aad
  <2>4. ex = [ok |-> TRUE, decrypted |-> data, consumedBytes |-> used]
    <3>1. type \in {"any", type}
      OBVIOUS
    <3> DEFINE zero == 0
    <3>2. /\ zero \in Nat /\ SealedLayout(s, type, e, p, data, zero, aad(e))
          /\ aad(e) = Aad(Slice(s, 0, zero), type, e)
      BY <2>2, <2>3
    <3> HIDE DEF zero
    <3>3. DecryptWithHeaderEx(type, p, s, zero, NoLength) =
            [ok |-> TRUE, decrypted |-> data,
             consumedBytes |-> (IF type = "withLength" THEN Len(data) ELSE NoLength) + GetHeaderSize(type)]
      BY <2>3, <3>1, <3>2, SealedOpens
    <3> QED
      BY <3>3, Zenon DEF zero
  <2> HIDE DEF ex, used
  <2>5. Plain(ex) = [ok |-> TRUE, decrypted |-> data]
    BY <2>4 DEF Plain
  <2>6. DecryptWithLengthAndHeader(p, s) = Plain(ex)
    BY Zenon DEF DecryptWithLengthAndHeader, DecryptWithHeader, ex, type
  <2> QED
    BY <1>3, <1>4, <2>5, <2>6
<1>5. ASSUME ~(to <= Len(a)) PROVE DecryptWithLengthAndHeader(p, cut) = Refused
  <2>1. IsSequence(cut) /\ Len(cut) < Len(s) /\ \A i \in 1 .. Len(cut) : cut[i] = s[i]
    BY <1>3, <1>5
  <2>2. SealedLayout(s, "withLength", e, p, data, 0, aad(e))
    BY <1>1
  <2> HIDE DEF aad
  <2> QED
    BY <2>1, <2>2, CutIsRefused
<1> QED
  BY <1>4, <1>5 DEF cut

(* The recursion of WrittenChunks over chunks that are opened or not.      *)
WrittenBy(f, chunk, n) ==
  f = [i \in Nat |->
        IF i = n THEN [ok |-> TRUE, output |-> <<>>]
        ELSE IF ~chunk[i].ok THEN [ok |-> FALSE, output |-> <<>>]
        ELSE [f[i + 1] EXCEPT !.output = chunk[i].decrypted \o @]]

(* The first k chunks open and no other does, and out[i] are those from i. *)
OpensUpTo(chunk, k, n, out) ==
  /\ n \in Nat /\ k \in 0 .. n /\ out[k] = <<>>
  /\ \A i \in Nat : i < k => chunk[i].ok /\ out[i] = chunk[i].decrypted \o out[i + 1]
  /\ \A i \in Nat : i >= k /\ i # n => ~chunk[i].ok

(* When the first k chunks open and no other does, it comes to an end, and *)
(* what it gives is them.                                                  *)
LEMMA WrittenValue ==
  ASSUME NEW n, NEW k, NEW chunk, NEW out, OpensUpTo(chunk, k, n, out)
  PROVE  /\ \E f : WrittenBy(f, chunk, n)
         /\ \A f : WrittenBy(f, chunk, n) => f[0] = [ok |-> k = n, output |-> out[0]]
<1> SUFFICES ASSUME n \in Nat, k \in 0 .. n, out[k] = <<>>,
                    \A i \in Nat : i < k => chunk[i].ok,
                    \A i \in Nat : i >= k /\ i # n => ~chunk[i].ok,
                    \A i \in Nat : i < k => out[i] = chunk[i].decrypted \o out[i + 1]
             PROVE  /\ \E f : WrittenBy(f, chunk, n)
                    /\ \A f : WrittenBy(f, chunk, n) => f[0] = [ok |-> k = n, output |-> out[0]]
  BY DEF OpensUpTo
<1> DEFINE done == [ok |-> TRUE, output |-> <<>>]
           failed == [ok |-> FALSE, output |-> <<>>]
           value(i) == [ok |-> k = n, output |-> out[i]]
           before(i, w) == [w EXCEPT !.output = chunk[i].decrypted \o @]
<1>1. ASSUME NEW i \in Nat, i < k PROVE before(i, value(i + 1)) = value(i)
  <2>1. out[i] = chunk[i].decrypted \o out[i + 1]
    BY <1>1
  <2> DEFINE a == out[i + 1]
             b == chunk[i].decrypted
             c == k = n
  <2>2. value(i) = [ok |-> c, output |-> b \o a]
    BY <2>1
  <2>3. before(i, value(i + 1)) = [[ok |-> c, output |-> a] EXCEPT !.output = b \o @]
    OBVIOUS
  <2> HIDE DEF a, b, c, before, value
  <2>4. [[ok |-> c, output |-> a] EXCEPT !.output = b \o @] = [ok |-> c, output |-> b \o a]
    <3> SUFFICES ASSUME NEW d, NEW e, NEW w, w = [ok |-> d, output |-> e]
                 PROVE  [w EXCEPT !.output = b \o @] = [ok |-> d, output |-> b \o e]
      OBVIOUS
    <3>1. w.output = e
      OBVIOUS
    <3> DEFINE g == b \o e
    <3>2. [w EXCEPT !.output = b \o @] = [w EXCEPT !.output = g]
      BY <3>1
    <3> HIDE DEF g
    <3>3. [w EXCEPT !.output = g] = [ok |-> d, output |-> g]
      OBVIOUS
    <3> QED
      BY <3>2, <3>3 DEF g
  <2> QED
    BY <2>2, <2>3, <2>4
<1>2. k = n => value(k) = done
  OBVIOUS
<1>3. k # n => value(k) = failed
  OBVIOUS
<1> DEFINE step(f, i) == IF i = n THEN done ELSE IF ~chunk[i].ok THEN failed ELSE before(i, f[i + 1])
<1>4. \A f : WrittenBy(f, chunk, n) <=> f = [i \in Nat |-> step(f, i)]
  BY Zenon DEF WrittenBy
<1> HIDE DEF value, before, done, failed
<1>5. \E f : f = [i \in Nat |-> step(f, i)]
  <2> DEFINE g == [i \in Nat |-> IF i = n THEN done ELSE IF i < k THEN value(i) ELSE failed]
  <2>1. \A i \in Nat : g[i] = IF i = n THEN done ELSE IF i < k THEN value(i) ELSE failed
    OBVIOUS
  <2>2. g = [i \in Nat |-> g[i]]
    OBVIOUS
  <2> HIDE DEF g
  <2>3. ASSUME NEW i \in Nat PROVE g[i] = step(g, i)
    <3>1. CASE i = n
      BY <2>1, <3>1
    <3>2. CASE i # n /\ i < k
      <4>1. chunk[i].ok /\ g[i] = value(i) /\ i + 1 \in Nat /\ i + 1 <= k
        BY <2>1, <3>2
      <4>2. g[i + 1] = value(i + 1)
        <5>1. CASE i + 1 = n
          <6>1. k = n /\ i + 1 = k
            BY <4>1, <5>1
          <6> QED
            BY <1>2, <2>1, <4>1, <5>1, <6>1
        <5>2. CASE i + 1 # n /\ i + 1 < k
          BY <2>1, <4>1, <5>2
        <5>3. CASE i + 1 # n /\ ~(i + 1 < k)
          <6>1. i + 1 = k /\ k # n
            BY <4>1, <5>3
          <6> QED
            BY <1>3, <2>1, <4>1, <5>3, <6>1
        <5> QED
          BY <5>1, <5>2, <5>3
      <4>3. step(g, i) = before(i, g[i + 1])
        BY <3>2, <4>1
      <4> QED
        BY <1>1, <3>2, <4>1, <4>2, <4>3
    <3>3. CASE i # n /\ ~(i < k)
      <4>1. ~chunk[i].ok /\ g[i] = failed
        BY <2>1, <3>3
      <4> QED
        BY <3>3, <4>1
    <3> QED
      BY <3>1, <3>2, <3>3
  <2>4. g = [i \in Nat |-> step(g, i)]
    <3> HIDE DEF step
    <3> QED
      BY <2>2, <2>3
  <2> QED
    BY <2>4
<1>6. ASSUME NEW f, f = [i \in Nat |-> step(f, i)] PROVE f[0] = value(0)
  <2> DEFINE P == {d \in Nat : d <= k => f[k - d] = value(k - d)}
  <2>1. \A i \in Nat : f[i] = step(f, i)
    <3> DEFINE u(i) == step(f, i)
    <3> HIDE DEF step
    <3>1. f = [i \in Nat |-> u(i)]
      BY <1>6
    <3> HIDE DEF u
    <3>2. \A i \in Nat : f[i] = u(i)
      BY <3>1
    <3> QED
      BY <3>2 DEF u
  <2>2. 0 \in P
    <3>1. k - 0 = k /\ k \in Nat
      OBVIOUS
    <3>2. f[k] = value(k)
      <4>1. CASE k = n
        BY <1>2, <2>1, <3>1, <4>1
      <4>2. CASE k # n
        BY <1>3, <2>1, <3>1, <4>2
      <4> QED
        BY <4>1, <4>2
    <3> QED
      BY <3>1, <3>2
  <2>3. ASSUME NEW d \in Nat, d \in P PROVE d + 1 \in P
    <3> SUFFICES ASSUME d + 1 <= k PROVE f[k - (d + 1)] = value(k - (d + 1))
      OBVIOUS
    <3> DEFINE i == k - (d + 1)
    <3>1. i \in Nat /\ i < k /\ i # n /\ i + 1 = k - d /\ d <= k
      OBVIOUS
    <3>2. f[k - d] = value(k - d)
      BY <2>3, <3>1
    <3> HIDE DEF i
    <3>3. f[i + 1] = value(i + 1)
      BY <3>1, <3>2
    <3>4. chunk[i].ok
      BY <3>1
    <3>5. f[i] = before(i, f[i + 1])
      BY <2>1, <3>1, <3>4
    <3>6. f[i] = value(i)
      BY <1>1, <3>1, <3>3, <3>5
    <3> QED
      BY <3>6 DEF i
  <2> HIDE DEF P
  <2>4. k \in Nat /\ k \in P
    <3>1. k \in Nat
      OBVIOUS
    <3> QED
      BY <2>2, <2>3, <3>1, NumbersInduction
  <2>5. f[k - k] = value(k - k)
    BY <2>4 DEF P
  <2> QED
    BY <2>4, <2>5, k - k = 0
<1>7. ASSUME NEW f, WrittenBy(f, chunk, n) PROVE f[0] = value(0)
  BY <1>4, <1>6, <1>7
<1>8. \E f : WrittenBy(f, chunk, n)
  BY <1>4, <1>5
<1> QED
  BY <1>7, <1>8 DEF value

(* The header of a file, read again.                                       *)
FileHeader(size) ==
  [ok |-> TRUE, chunkSize |-> ChunkSize, totalChunks |-> TotalChunks(size), originalSize |-> size]

(* The header of a file reads back as it was written.                      *)
LEMMA HeaderReads ==
  ASSUME NEW size
  PROVE  DeserializeHeader(SerializeHeader(TotalChunks(size), size)) = FileHeader(size)
<1> DEFINE n == TotalChunks(size)
           c == ChunkSize
           data == <<<<"number", 1>>, <<"number", c>>, <<"number", n>>, <<"number", size>>, Cell("zero")>>
<1>1. SerializeHeader(n, size) = data
  BY Zenon DEF SerializeHeader
<1> HIDE DEF n, c
<1>2. /\ Len(data) = 5 /\ NumberIn(data[2]) = c /\ NumberIn(data[3]) = n /\ NumberIn(data[4]) = size
  BY DEF NumberIn
<1> HIDE DEF data
<1>3. DeserializeHeader(data) =
        [ok |-> TRUE, chunkSize |-> NumberIn(data[2]), totalChunks |-> NumberIn(data[3]),
         originalSize |-> NumberIn(data[4])]
  <2>1. ~(Len(data) < 4)
    BY <1>2
  <2> QED
    BY <2>1, Zenon DEF DeserializeHeader
<1> QED
  BY <1>1, <1>2, <1>3 DEF FileHeader, n, c

(* A chunk of a file opens when it has arrived whole, and not before; what *)
(* would be behind the last does not open.                                 *)
LEMMA FileChunkOpens ==
  ASSUME NEW read, NEW cells, NEW p, NEW size, FileLaidOut(read, cells, p, size),
         Len(read) = TotalChunks(size) + 1,
         NEW a, IsSequence(a), IsPrefix(a, cells), NEW i \in Nat
  PROVE  /\ i < TotalChunks(size) /\ FileEnd(i + 1, size) <= Len(a) =>
              FileChunk(p, a, FileHeader(size), i) = [ok |-> TRUE, decrypted |-> read[i + 2]]
         /\ i # TotalChunks(size) /\ ~(i < TotalChunks(size) /\ FileEnd(i + 1, size) <= Len(a)) =>
              ~FileChunk(p, a, FileHeader(size), i).ok
<1> DEFINE n == TotalChunks(size)
           header == FileHeader(size)
           c == ChunkSize
           x == ChunkEnd(i, size)
           y == ChunkEnd(i + 1, size)
           l == ChunkLength(header, i)
           offset == HeaderLength + i * (c + 7)
           length == l + 7
<1>1. /\ size \in Nat /\ IsSequence(cells) /\ Len(cells) = FileEnd(n, size) /\ c \in Nat /\ c >= 1
  <2>1. /\ size \in Nat /\ IsSequence(cells) /\ Len(cells) = FileEnd(Len(read) - 1, size)
    BY DEF FileLaidOut
  <2>2. n \in Nat
    BY <2>1, ChunkEnds
  <2>3. Len(read) - 1 = n
    BY <2>2
  <2> QED
    BY <2>1, <2>3, ChunkSizeAssumption
<1>2. /\ header.chunkSize = c /\ header.totalChunks = n /\ header.originalSize = size
  BY DEF FileHeader
<1>3. HeaderLength = 12
  BY DEF HeaderLength, ComputeEncryptedLengthFromDataLength, GetHeaderSize, FileHeaderSize
<1>4. FileChunk(p, a, header, i) = DecryptWithLengthAndHeader(p, Slice(a, offset, offset + length))
  <2> DEFINE step == ComputeEncryptedLengthFromDataLength(header.chunkSize, "withLength")
             o == HeaderLength + i * step
             m == ComputeEncryptedLengthFromDataLength(l, "withLength")
  <2>1. FileChunk(p, a, header, i) = DecryptWithLengthAndHeader(p, Slice(a, o, o + m))
    BY Zenon DEF FileChunk
  <2>2. step = c + 7 /\ m = length
    BY <1>2 DEF ComputeEncryptedLengthFromDataLength, GetHeaderSize
  <2> HIDE DEF l, c, step, m, length
  <2> QED
    BY <2>1, <2>2
<1> HIDE DEF header
<1>5. n \in Nat /\ x \in Nat /\ y \in Nat /\ (i < n => i * c = x /\ x < y)
  <2>1. size \in Nat /\ i + 1 \in Nat
    BY <1>1
  <2> QED
    BY <2>1, ChunkEnds
<1>6. i * (c + 7) = i * c + 7 * i /\ i * c \in Nat
  <2> HIDE DEF c
  <2> QED
    BY <1>1
<1>7. CASE i < n
  <2>1. l = y - x
    <3>1. /\ header.chunkSize = ChunkSize /\ header.totalChunks = TotalChunks(size) /\ header.originalSize = size
      BY <1>2
    <3>2. i < TotalChunks(size)
      BY <1>7
    <3> QED
      BY <1>1, <3>1, <3>2, ChunkLengths
  <2> DEFINE data == read[i + 2]
             k == i + 1
  <2>2. /\ IsSequence(data) /\ Len(data) = y - x /\ SealedIn(cells, FileEnd(i, size), p, data)
    <3>1. k \in 1 .. Len(read) - 1 /\ k + 1 = i + 2 /\ k - 1 = i
      BY <1>5, <1>7
    <3>2. /\ IsSequence(read[k + 1])
          /\ Len(read[k + 1]) = ChunkEnd(k, size) - ChunkEnd(k - 1, size)
          /\ SealedIn(cells, FileEnd(k - 1, size), p, read[k + 1])
      BY <3>1 DEF FileLaidOut
    <3> QED
      BY <3>1, <3>2
  <2> DEFINE at == FileEnd(i, size)
             to == FileEnd(i + 1, size)
  <2>3. at = 12 + 7 * i + x /\ to = 12 + 7 * (i + 1) + y
    BY <1>3 DEF FileEnd
  <2> DEFINE ic == i * c
  <2>4. ic = x /\ offset = 12 + (ic + 7 * i)
    <3>1. ic = x
      BY <1>5, <1>7
    <3>2. offset = 12 + i * (c + 7)
      BY <1>3
    <3> QED
      BY <1>6, <3>1, <3>2
  <2> HIDE DEF l, at, to, ic, offset, data, x, y
  <2>5. at \in Nat /\ to \in Nat /\ to = at + 7 + Len(data) /\ offset = at /\ offset + length = to
    BY <1>5, <2>1, <2>2, <2>3, <2>4
  <2>6. data # <<>>
    <3>1. Len(data) # 0
      BY <1>5, <1>7, <2>2
    <3> QED
      BY <3>1
  <2>7. SealedIn(cells, at, p, data)
    BY <2>2 DEF at
  <2> HIDE DEF length
  <2>8. /\ to <= Len(a) =>
             DecryptWithLengthAndHeader(p, Slice(a, at, to)) = [ok |-> TRUE, decrypted |-> data]
        /\ ~(to <= Len(a)) => DecryptWithLengthAndHeader(p, Slice(a, at, to)) = Refused
    <3>1. IsSequence(cells) /\ IsSequence(data) /\ at \in Nat /\ to \in Nat
      BY <1>1, <2>2, <2>5
    <3>2. to = at + 7 + Len(data)
      BY <2>5
    <3>3. PartAt(a, cells, p, data, at, to)
      BY <2>6, <2>7, <3>1, <3>2 DEF PartAt
    <3> QED
      BY <3>3, PartOpens
  <2>9. FileChunk(p, a, header, i) = DecryptWithLengthAndHeader(p, Slice(a, at, to))
    BY <1>4, <2>5
  <2>10. ~Refused.ok
    BY DEF Refused
  <2> QED
    BY <1>7, <2>8, <2>9, <2>10 DEF header, data, to
<1>8. CASE ~(i < n)
  <2> SUFFICES ASSUME i # n PROVE ~FileChunk(p, a, header, i).ok
    BY <1>8 DEF header
  <2>1. i > n
    BY <1>5, <1>8
  <2>2. l = c
    <3>1. ~(i = n - 1)
      BY <1>5, <2>1
    <3> QED
      BY <1>2, <3>1 DEF ChunkLength
  <2> DEFINE ic == i * c
             z == Len(a)
             to == offset + length
  <2>3. ic >= size /\ ic \in Nat
    <3>1. n = TotalChunks(size) /\ i >= n
      BY <1>5, <2>1
    <3> HIDE DEF n
    <3> QED
      BY <1>1, <3>1, ChunkEnds
  <2>4. z \in Nat /\ z <= 12 + 7 * n + size
    <3>1. z \in Nat /\ Len(cells) \in Nat /\ z <= Len(cells)
      BY <1>1, SequenceIs, PrefixIs
    <3>2. ChunkEnd(n, size) = size
      BY <1>1, ChunkEnds
    <3>3. FileEnd(n, size) = 12 + 7 * n + size
      BY <1>3, <3>2 DEF FileEnd
    <3> QED
      BY <1>1, <3>1, <3>3
  <2>5. offset = 12 + (ic + 7 * i)
    <3>1. offset = 12 + i * (c + 7)
      BY <1>3
    <3> QED
      BY <1>6, <3>1
  <2> HIDE DEF ic, offset, l
  <2>6. offset \in Nat /\ offset >= z
    <3>1. n \in Nat
      BY <1>5
    <3> HIDE DEF n, z
    <3> QED
      BY <1>1, <2>1, <2>3, <2>4, <2>5, <3>1
  <2>7. to \in Int
    BY <1>1, <2>2, <2>6
  <2> HIDE DEF to, length, z
  <2> DEFINE cut == Slice(a, offset, to)
  <2>8. Len(cut) = 0
    <3> DEFINE end == IF to < Len(a) THEN to ELSE Len(a)
    <3>1. Len(cut) = IF offset < end THEN end - offset ELSE 0
      BY <2>6, <2>7, Sliced, Zenon
    <3>2. ~(offset < end)
      BY <2>4, <2>6, <2>7 DEF z
    <3> QED
      BY <3>1, <3>2
  <2> HIDE DEF cut
  <2>9. DecryptWithLengthAndHeader(p, cut) = Refused
    <3> DEFINE type == "withLength"
               ex == ParseEncryptedMessage(type, cut, 0, NoLength)
    <3>1. ~AcceptsHeader(type, cut, 0)
      BY <2>8 DEF AcceptsHeader
    <3>2. ex = Refused
      BY <3>1, Zenon DEF ParseEncryptedMessage
    <3>3. DecryptWithLengthAndHeader(p, cut) = Plain(OpenParsed(p, ex))
      BY Zenon DEF DecryptWithLengthAndHeader, DecryptWithHeader, DecryptWithHeaderEx
    <3> HIDE DEF ex
    <3>4. OpenParsed(p, Refused) = Refused /\ Plain(Refused) = Refused
      BY DEF OpenParsed, Refused, Plain
    <3> QED
      BY <3>2, <3>3, <3>4
  <2>10. FileChunk(p, a, header, i) = Refused
    BY <1>4, <2>9 DEF cut, to
  <2> QED
    BY <2>10 DEF Refused
<1> QED
  BY <1>7, <1>8

(* The first k of n chunks open, and no other.                             *)
ChunksOpenUpTo(p, a, header, n, k, out) ==
  /\ header.ok /\ n \in Nat /\ header.totalChunks = n /\ k \in 0 .. n /\ out[k] = <<>>
  /\ \A i \in Nat : i < k => FileChunk(p, a, header, i).ok
  /\ \A i \in Nat : i >= k /\ i # n => ~FileChunk(p, a, header, i).ok
  /\ \A i \in Nat : i < k => out[i] = FileChunk(p, a, header, i).decrypted \o out[i + 1]

(* What decryptFileToPath writes, when k chunks open of n.                 *)
LEMMA WrittenIs ==
  ASSUME NEW p, NEW a, NEW header, NEW n, NEW k, NEW out, ChunksOpenUpTo(p, a, header, n, k, out)
  PROVE  WrittenChunks(p, a, header) =
           [ok |-> k = n, output |-> Slice(out[0], 0, header.originalSize)]
<1> SUFFICES ASSUME header.ok, n \in Nat, header.totalChunks = n, k \in 0 .. n, out[k] = <<>>,
                    \A i \in Nat : i < k => FileChunk(p, a, header, i).ok,
                    \A i \in Nat : i >= k /\ i # n => ~FileChunk(p, a, header, i).ok,
                    \A i \in Nat : i < k => out[i] = FileChunk(p, a, header, i).decrypted \o out[i + 1]
             PROVE  WrittenChunks(p, a, header) =
                      [ok |-> k = n, output |-> Slice(out[0], 0, header.originalSize)]
  BY DEF ChunksOpenUpTo
<1> DEFINE chunk == [i \in Nat |-> FileChunk(p, a, header, i)]
           F == CHOOSE f : f =
                  [i \in Nat |->
                    IF i = header.totalChunks THEN [ok |-> TRUE, output |-> <<>>]
                    ELSE IF ~chunk[i].ok THEN [ok |-> FALSE, output |-> <<>>]
                    ELSE [f[i + 1] EXCEPT !.output = chunk[i].decrypted \o @]]
           cut(w) == [w EXCEPT !.output = Slice(@, 0, header.originalSize)]
<1>1. WrittenChunks(p, a, header) =
        IF ~header.ok THEN [ok |-> FALSE, output |-> <<>>] ELSE cut(F[0])
  BY Zenon DEF WrittenChunks
<1>2. \A i \in Nat : chunk[i] = FileChunk(p, a, header, i)
  OBVIOUS
<1> HIDE DEF chunk
<1>3. /\ \E f : WrittenBy(f, chunk, n)
      /\ \A f : WrittenBy(f, chunk, n) => f[0] = [ok |-> k = n, output |-> out[0]]
  <2>1. \A i \in Nat : i < k => chunk[i].ok
    BY <1>2
  <2>2. \A i \in Nat : i >= k /\ i # n => ~chunk[i].ok
    BY <1>2
  <2>3. \A i \in Nat : i < k => out[i] = chunk[i].decrypted \o out[i + 1]
    BY <1>2
  <2>4. OpensUpTo(chunk, k, n, out)
    BY <2>1, <2>2, <2>3 DEF OpensUpTo
  <2> QED
    BY <2>4, WrittenValue
<1>4. WrittenBy(F, chunk, n)
  <2> DEFINE G == CHOOSE f : WrittenBy(f, chunk, header.totalChunks)
  <2>1. F = G
    BY Zenon DEF WrittenBy
  <2> HIDE DEF F
  <2>2. \E f : WrittenBy(f, chunk, header.totalChunks)
    BY <1>3
  <2>3. WrittenBy(G, chunk, header.totalChunks)
    <3> HIDE DEF chunk
    <3> QED
      BY <2>2, Zenon
  <2> QED
    BY <2>1, <2>3
<1> HIDE DEF F
<1>5. F[0] = [ok |-> k = n, output |-> out[0]]
  BY <1>3, <1>4
<1>6. cut(F[0]) = [ok |-> k = n, output |-> Slice(out[0], 0, header.originalSize)]
  <2> DEFINE s == Slice(out[0], 0, header.originalSize)
             c == k = n
             w == F[0]
             o == out[0]
  <2>1. w = [ok |-> c, output |-> o]
    BY <1>5
  <2> HIDE DEF c, w, o
  <2>2. w.output = o
    BY <2>1
  <2>3. cut(w) = [w EXCEPT !.output = s]
    BY <2>2 DEF o
  <2> HIDE DEF s, cut
  <2>4. cut(w) = [ok |-> c, output |-> s]
    BY <2>1, <2>3
  <2> QED
    BY <2>4 DEF w, c, s
<1> QED
  BY <1>1, <1>6

(* A whole file: its n chunks, and what they are one after the other.      *)
FileRead(read, cells, p, size, n, chunks, all) ==
  /\ FileLaidOut(read, cells, p, size) /\ n = TotalChunks(size) /\ Len(read) = n + 1
  /\ chunks = [k \in 1 .. n |-> read[k + 1]] /\ all = FlattenSeq(chunks)

(* The chunks of a file, one after the other.                              *)
LEMMA ChunksFlatten ==
  ASSUME NEW read, NEW cells, NEW p, NEW size, NEW n, NEW chunks, NEW all,
         FileRead(read, cells, p, size, n, chunks, all)
  PROVE  /\ n \in Nat /\ IsSequence(all) /\ Len(all) = size
         /\ \A i \in 1 .. n : LiesAt(read[i + 1], all, ChunkEnd(i - 1, size))
         /\ \A content : FromContent(read, content, size) => all = content
<1> SUFFICES ASSUME FileLaidOut(read, cells, p, size), n = TotalChunks(size), Len(read) = n + 1,
                    chunks = [k \in 1 .. n |-> read[k + 1]], all = FlattenSeq(chunks)
             PROVE  /\ n \in Nat /\ IsSequence(all) /\ Len(all) = size
                    /\ \A i \in 1 .. n : LiesAt(read[i + 1], all, ChunkEnd(i - 1, size))
                    /\ \A content : FromContent(read, content, size) => all = content
  BY DEF FileRead
<1>1. /\ size \in Nat /\ n \in Nat /\ IsSequence(read)
      /\ \A i \in 1 .. n : /\ IsSequence(read[i + 1])
                           /\ Len(read[i + 1]) = ChunkEnd(i, size) - ChunkEnd(i - 1, size)
  <2>1. size \in Nat
    BY DEF FileLaidOut
  <2>2. n \in Nat
    BY <2>1, ChunkEnds
  <2>3. Len(read) - 1 = n
    BY <2>2
  <2> QED
    BY <2>1, <2>2, <2>3 DEF FileLaidOut
<1> DEFINE off == [i \in Nat |-> ChunkEnd(i, size)]
<1>2. \A i \in Nat : off[i] = ChunkEnd(i, size)
  OBVIOUS
<1> HIDE DEF off
<1>3. /\ off[0] = 0 /\ off[n] = size
      /\ \A i \in Nat : off[i] \in Nat
  <2>1. ChunkEnd(0, size) = 0 /\ ChunkEnd(n, size) = size /\ \A i \in Nat : ChunkEnd(i, size) \in Nat
    BY <1>1, ChunkEnds
  <2> QED
    BY <1>1, <1>2, <2>1
<1>4. \A i \in 1 .. n : /\ chunks[i] = read[i + 1] /\ IsSequence(chunks[i])
                        /\ off[i] = off[i - 1] + Len(chunks[i])
  <2> SUFFICES ASSUME NEW i \in 1 .. n
               PROVE  /\ chunks[i] = read[i + 1] /\ IsSequence(chunks[i])
                      /\ off[i] = off[i - 1] + Len(chunks[i])
    OBVIOUS
  <2>1. chunks[i] = read[i + 1]
    OBVIOUS
  <2>2. i \in Nat /\ i - 1 \in Nat
    BY <1>1
  <2>3. Len(chunks[i]) = off[i] - off[i - 1] /\ off[i] \in Nat /\ off[i - 1] \in Nat
    BY <1>1, <1>2, <1>3, <2>1, <2>2
  <2> QED
    BY <1>1, <2>1, <2>3
<1>5. IsSequence(chunks) /\ Len(chunks) = n
  <2>1. chunks \in Seq({read[i + 1] : i \in 1 .. n}) /\ Len(chunks) = n
    BY <1>1
  <2> QED
    BY <2>1, SequenceOver
<1>6. /\ IsSequence(all) /\ Len(all) = off[n]
      /\ \A i \in 1 .. n : LiesAt(chunks[i], all, off[i - 1])
  <2>1. /\ IsSequence(FlattenSeq(chunks)) /\ Len(FlattenSeq(chunks)) = off[n]
        /\ \A i \in 1 .. n : LiesAt(chunks[i], FlattenSeq(chunks), off[i - 1])
    <3>1. \A i \in 1 .. n : IsSequence(chunks[i]) /\ off[i] = off[i - 1] + Len(chunks[i])
      BY <1>4
    <3>2. off[0] = 0
      BY <1>3
    <3>3. EndsOf(off, chunks, n)
      BY <1>1, <1>5, <3>1, <3>2 DEF EndsOf
    <3> QED
      BY <3>3, FlattenLies
  <2> QED
    BY <2>1
<1>7. \A i \in 1 .. n : LiesAt(read[i + 1], all, ChunkEnd(i - 1, size))
  <2> SUFFICES ASSUME NEW i \in 1 .. n PROVE LiesAt(read[i + 1], all, ChunkEnd(i - 1, size))
    OBVIOUS
  <2>1. i - 1 \in Nat
    BY <1>1
  <2>2. chunks[i] = read[i + 1] /\ off[i - 1] = ChunkEnd(i - 1, size) /\ LiesAt(chunks[i], all, off[i - 1])
    BY <1>2, <1>4, <1>6, <2>1
  <2> QED
    BY <2>2
<1>8. ASSUME NEW content, FromContent(read, content, size) PROVE all = content
  <2>1. /\ IsSequence(content) /\ size = Len(content)
        /\ \A k \in 1 .. n : read[k + 1] = ReadChunk(content, size, k - 1)
    <3>1. Len(read) - 1 = n
      BY <1>1
    <3> QED
      BY <1>8, <3>1 DEF FromContent
  <2>2. ASSUME NEW i \in 1 .. n PROVE LiesAt(chunks[i], content, off[i - 1])
    <3> DEFINE j == i - 1
               x == ChunkEnd(j, size)
               y == ChunkEnd(j + 1, size)
               c == ReadChunk(content, size, j)
    <3>1. j \in Nat /\ j < TotalChunks(size) /\ j + 1 = i
      BY <1>1
    <3>2. x \in Nat /\ y \in Nat /\ x < y /\ y <= size
      <4>1. j < n /\ n = TotalChunks(size) /\ j + 1 \in Nat
        BY <3>1
      <4> HIDE DEF j
      <4>2. size \in Nat /\ j \in Nat
        BY <1>1, <3>1
      <4> QED
        BY <4>1, <4>2, ChunkEnds
    <3>3. c = [k \in 1 .. y - x |-> IF x + k <= Len(content) THEN content[x + k] ELSE Cell("zero")]
      <4> HIDE DEF j
      <4>1. size \in Nat
        BY <1>1
      <4> QED
        BY <3>1, <4>1, ChunkRead
    <3>4. chunks[i] = c /\ off[i - 1] = x
      BY <1>2, <1>4, <2>1, <3>1
    <3> HIDE DEF c, x, y, j
    <3>5. Len(c) = y - x /\ \A k \in 1 .. y - x : c[k] = content[x + k]
      <4>1. y - x \in Nat
        BY <3>2
      <4>2. Len(c) = y - x
        BY <3>3, <4>1
      <4>3. ASSUME NEW k \in 1 .. y - x PROVE c[k] = content[x + k]
        <5>1. x + k <= Len(content)
          BY <2>1, <3>2
        <5> QED
          BY <3>3, <5>1
      <4> QED
        BY <4>2, <4>3
    <3>6. x + (y - x) <= Len(content)
      BY <2>1, <3>2
    <3> QED
      BY <3>4, <3>5, <3>6 DEF LiesAt
  <2>3. \A i \in 1 .. n : off[i] = off[i - 1] + Len(chunks[i]) /\ IsSequence(chunks[i])
    BY <1>4
  <2>4. \A i \in 1 .. n : LiesAt(chunks[i], all, off[i - 1]) /\ LiesAt(chunks[i], content, off[i - 1])
    BY <1>6, <2>2
  <2>5. Len(all) = off[n] /\ Len(content) = off[n] /\ off[0] = 0
    BY <1>3, <1>6, <2>1
  <2>6. \A i \in 0 .. n : off[i] \in Nat
    <3>1. \A i \in 0 .. n : i \in Nat
      BY <1>1
    <3> QED
      BY <1>3, <3>1
  <2> QED
    BY <1>1, <1>6, <2>1, <2>3, <2>4, <2>5, <2>6, SameParts, Zenon
<1> QED
  BY <1>1, <1>3, <1>6, <1>7, <1>8

(* Where chunks end in an encrypted file.                                  *)
LEMMA FileEnds ==
  ASSUME NEW size \in Nat, NEW n, n = TotalChunks(size)
  PROVE  /\ \A i \in Nat : FileEnd(i, size) \in Nat
         /\ \A i, j \in Nat : i <= j => FileEnd(i, size) <= FileEnd(j, size)
         /\ FileEnd(0, size) = 12
<1>1. HeaderLength = 12
  BY DEF HeaderLength, ComputeEncryptedLengthFromDataLength, GetHeaderSize, FileHeaderSize
<1>2. /\ ChunkEnd(0, size) = 0 /\ \A i \in Nat : ChunkEnd(i, size) \in Nat
      /\ \A i, j \in Nat : i <= j => ChunkEnd(i, size) <= ChunkEnd(j, size)
  BY ChunkEnds
<1>3. \A i : FileEnd(i, size) = 12 + 7 * i + ChunkEnd(i, size)
  BY <1>1 DEF FileEnd
<1>4. ASSUME NEW i \in Nat PROVE FileEnd(i, size) \in Nat
  <2>1. ChunkEnd(i, size) \in Nat /\ FileEnd(i, size) = 12 + 7 * i + ChunkEnd(i, size)
    BY <1>2, <1>3
  <2> QED
    BY <2>1
<1>5. ASSUME NEW i \in Nat, NEW j \in Nat, i <= j PROVE FileEnd(i, size) <= FileEnd(j, size)
  <2> DEFINE x == ChunkEnd(i, size)
             y == ChunkEnd(j, size)
  <2>1. x \in Nat /\ y \in Nat /\ x <= y /\ FileEnd(i, size) = 12 + 7 * i + x /\ FileEnd(j, size) = 12 + 7 * j + y
    BY <1>2, <1>3, <1>5
  <2> HIDE DEF x, y
  <2> QED
    BY <1>5, <2>1
<1>6. FileEnd(0, size) = 12
  BY <1>2, <1>3
<1> QED
  BY <1>4, <1>5, <1>6

(* A slice that ends behind the end.                                       *)
LEMMA SliceBeyond ==
  ASSUME NEW s, IsSequence(s), NEW to \in Nat, Len(s) <= to
  PROVE  Slice(s, 0, to) = s
<1>1. Len(s) \in Nat
  BY SequenceIs
<1> DEFINE n == Len(s)
           a == IF to < n THEN to ELSE n
           b == IF n < n THEN n ELSE n
<1>2. Slice(s, 0, to) = SubSeq(s, 0 + 1, a) /\ Slice(s, 0, n) = SubSeq(s, 0 + 1, b)
  BY Zenon DEF Slice
<1>3. a = b
  BY <1>1
<1> HIDE DEF a, b
<1>4. Slice(s, 0, to) = Slice(s, 0, n)
  BY <1>2, <1>3
<1>5. Slice(s, 0, n) = s
  <2>1. n \in Nat /\ 0 \in Nat /\ 0 <= n /\ n <= Len(s)
    BY <1>1
  <2> QED
    BY <2>1, SlicesJoin
<1> QED
  BY <1>4, <1>5

(* The header of a file opens when it has arrived.                         *)
LEMMA HeaderOpens ==
  ASSUME NEW read, NEW cells, NEW p, NEW size, FileLaidOut(read, cells, p, size),
         NEW a, IsSequence(a), IsPrefix(a, cells)
  PROVE  ParseEncryptedFile(p, a) = IF 12 <= Len(a) THEN FileHeader(size) ELSE Refused
<1> DEFINE data == read[1]
           n == TotalChunks(size)
           at == 0
           to == 12
<1>1. /\ size \in Nat /\ IsSequence(cells) /\ data = SerializeHeader(n, size) /\ SealedIn(cells, at, p, data)
  BY DEF FileLaidOut
<1>2. IsSequence(data) /\ Len(data) = 5
  <2>1. IsText(SerializeHeader(n, size)) /\ Len(SerializeHeader(n, size)) = FileHeaderSize
    BY <1>1, FileHeaderIsText
  <2> HIDE DEF data, n
  <2> QED
    BY <1>1, <2>1 DEF IsText, FileHeaderSize
<1>3. DeserializeHeader(data) = FileHeader(size)
  BY <1>1, HeaderReads
<1> HIDE DEF data
<1>4. data # <<>>
  <2>1. Len(data) # 0
    BY <1>2
  <2> QED
    BY <2>1
<1>5. PartAt(a, cells, p, data, at, to)
  <2>1. at \in Nat /\ to \in Nat /\ to = at + 7 + Len(data)
    BY <1>2
  <2> HIDE DEF at, to
  <2> QED
    BY <1>1, <1>2, <1>4, <2>1 DEF PartAt
<1> DEFINE opened == DecryptWithLengthAndHeader(p, Slice(a, at, to))
<1>6. /\ to <= Len(a) => opened = [ok |-> TRUE, decrypted |-> data]
      /\ ~(to <= Len(a)) => opened = Refused
  <2> HIDE DEF at, to
  <2> QED
    BY <1>5, PartOpens
<1>7. ParseEncryptedFile(p, a) = OpenedHeader(opened)
  <2>1. HeaderLength = to
    BY DEF HeaderLength, ComputeEncryptedLengthFromDataLength, GetHeaderSize, FileHeaderSize
  <2> HIDE DEF to
  <2>2. ParseEncryptedFile(p, a) = OpenedHeader(DecryptWithLengthAndHeader(p, Slice(a, 0, HeaderLength)))
    BY Zenon DEF ParseEncryptedFile
  <2> QED
    BY <2>1, <2>2
<1> HIDE DEF opened
<1>8. CASE to <= Len(a)
  <2>1. opened.ok /\ opened.decrypted = data
    BY <1>6, <1>8
  <2>2. OpenedHeader(opened) = FileHeader(size)
    BY <1>3, <2>1, Zenon DEF OpenedHeader
  <2> QED
    BY <1>7, <1>8, <2>2
<1>9. CASE ~(to <= Len(a))
  <2>1. ~opened.ok
    BY <1>6, <1>9 DEF Refused
  <2>2. OpenedHeader(opened) = Refused
    BY <2>1, Zenon DEF OpenedHeader
  <2> QED
    BY <1>7, <1>9, <2>2
<1> QED
  BY <1>8, <1>9

(* What decryptFileToPath writes of a file the beginning of which arrived. *)
LEMMA FileWrites ==
  ASSUME NEW read, NEW cells, NEW p, NEW size, NEW n, NEW chunks, NEW all,
         FileRead(read, cells, p, size, n, chunks, all),
         NEW a, IsSequence(a), IsPrefix(a, cells), 12 <= Len(a)
  PROVE  \E k \in 0 .. n :
           /\ DecryptFileToPath(p, a) = [ok |-> k = n, output |-> Slice(all, 0, ChunkEnd(k, size))]
           /\ k = n <=> a = cells
<1> DEFINE header == FileHeader(size)
<1>0. FileLaidOut(read, cells, p, size) /\ n = TotalChunks(size) /\ Len(read) = n + 1
  BY DEF FileRead
<1>1. size \in Nat /\ IsSequence(cells)
  BY <1>0 DEF FileLaidOut
<1>2. n \in Nat /\ Len(a) \in Nat
  BY <1>0, <1>1, ChunkEnds, SequenceIs
<1>3. Len(cells) = FileEnd(n, size)
  <2>1. Len(read) - 1 = n
    BY <1>0, <1>2
  <2> QED
    BY <1>0, <2>1 DEF FileLaidOut
<1>4. /\ \A i \in Nat : FileEnd(i, size) \in Nat
      /\ \A i, j \in Nat : i <= j => FileEnd(i, size) <= FileEnd(j, size)
      /\ FileEnd(0, size) = 12
  BY <1>0, <1>1, FileEnds
<1> DEFINE T == {i \in Nat : i = n \/ ~(FileEnd(i + 1, size) <= Len(a))}
<1>5. PICK k \in T : \A i \in T : k <= i
  <2>1. n \in T /\ T \in SUBSET Nat
    BY <1>2
  <2> HIDE DEF T
  <2>2. T # {}
    BY <2>1
  <2> QED
    BY <2>1, <2>2, LeastNumber
<1>6. k \in 0 .. n
  <2>1. n \in T /\ k \in Nat
    BY <1>2, <1>5
  <2>2. k <= n
    BY <1>5, <2>1
  <2> QED
    BY <1>2, <2>1, <2>2
<1>7. ASSUME NEW i \in Nat, i < k PROVE i < n /\ FileEnd(i + 1, size) <= Len(a)
  <2>1. i \notin T
    <3>1. k \in Nat /\ (i \in T => k <= i)
      BY <1>5
    <3> HIDE DEF T
    <3> QED
      BY <1>7, <3>1
  <2>2. i # n /\ FileEnd(i + 1, size) <= Len(a)
    BY <2>1
  <2> QED
    BY <1>2, <1>6, <1>7, <2>2
<1>8. ASSUME NEW i \in Nat, i >= k, i < n PROVE ~(FileEnd(i + 1, size) <= Len(a))
  <2>1. k # n /\ k \in Nat
    BY <1>2, <1>6, <1>8
  <2>2. ~(FileEnd(k + 1, size) <= Len(a))
    BY <1>5, <2>1
  <2> DEFINE x == FileEnd(k + 1, size)
             y == FileEnd(i + 1, size)
  <2>3. x \in Nat /\ y \in Nat /\ x <= y
    <3>1. k + 1 \in Nat /\ i + 1 \in Nat /\ k + 1 <= i + 1
      BY <1>8, <2>1
    <3> QED
      BY <1>4, <3>1
  <2> HIDE DEF x, y
  <2>4. ~(x <= Len(a))
    BY <2>2 DEF x
  <2>5. ~(y <= Len(a))
    BY <1>2, <2>3, <2>4
  <2> QED
    BY <2>5 DEF y
<1> HIDE DEF T
<1>9. /\ \A i \in Nat : i < k => FileChunk(p, a, header, i) = [ok |-> TRUE, decrypted |-> read[i + 2]]
      /\ \A i \in Nat : i >= k /\ i # n => ~FileChunk(p, a, header, i).ok
  <2>1. ASSUME NEW i \in Nat
        PROVE  /\ i < n /\ FileEnd(i + 1, size) <= Len(a) =>
                    FileChunk(p, a, header, i) = [ok |-> TRUE, decrypted |-> read[i + 2]]
               /\ i # n /\ ~(i < n /\ FileEnd(i + 1, size) <= Len(a)) => ~FileChunk(p, a, header, i).ok
    BY <1>0, FileChunkOpens
  <2> HIDE DEF header
  <2> QED
    BY <1>7, <1>8, <2>1
<1> DEFINE e == ChunkEnd(k, size)
           out == [i \in Nat |-> Slice(all, ChunkEnd(i, size), e)]
<1>10. /\ IsSequence(all) /\ Len(all) = size
       /\ \A i \in 1 .. n : LiesAt(read[i + 1], all, ChunkEnd(i - 1, size))
  BY ChunksFlatten
<1>11. /\ ChunkEnd(0, size) = 0 /\ \A i \in Nat : ChunkEnd(i, size) \in Nat /\ ChunkEnd(i, size) <= size
       /\ \A i, j \in Nat : i <= j => ChunkEnd(i, size) <= ChunkEnd(j, size)
  BY <1>0, <1>1, ChunkEnds
<1>12. \A i \in Nat : out[i] = Slice(all, ChunkEnd(i, size), e)
  OBVIOUS
<1>13. e \in Nat /\ e <= size /\ k \in Nat
  BY <1>6, <1>11
<1> HIDE DEF out, e
<1>14. out[k] = <<>>
  <2>1. Slice(all, e, e) = <<>>
    <3>1. e <= Len(all)
      BY <1>10, <1>13
    <3>2. e <= e
      BY <1>13
    <3> QED
      BY <1>10, <1>13, <3>1, <3>2, SlicesJoin
  <2> QED
    BY <1>12, <1>13, <2>1 DEF e
<1>15. ASSUME NEW i \in Nat, i < k PROVE out[i] = read[i + 2] \o out[i + 1]
  <2> DEFINE x == ChunkEnd(i, size)
             y == ChunkEnd(i + 1, size)
             part == read[i + 2]
  <2>1. x \in Nat /\ y \in Nat /\ x <= y /\ y <= e /\ e <= Len(all)
    <3>1. i + 1 \in Nat /\ i <= i + 1 /\ i + 1 <= k
      BY <1>13, <1>15
    <3> QED
      BY <1>10, <1>11, <1>13, <3>1 DEF e
  <2>2. Slice(all, x, y) \o Slice(all, y, e) = Slice(all, x, e)
    <3>1. IsSequence(all) /\ e \in Nat /\ e <= Len(all)
      BY <1>10, <1>13, <2>1
    <3> HIDE DEF x, y
    <3> QED
      BY <2>1, <3>1, SlicesJoin
  <2>3. LiesAt(part, all, x) /\ IsSequence(part) /\ Len(part) = y - x
    <3> DEFINE j == i + 1
    <3>1. j \in 1 .. n /\ j + 1 = i + 2 /\ j - 1 = i /\ j \in 1 .. Len(read) - 1
      BY <1>0, <1>2, <1>7, <1>15
    <3>2. LiesAt(read[j + 1], all, ChunkEnd(j - 1, size))
      BY <1>10, <3>1
    <3>3. IsSequence(read[j + 1]) /\ Len(read[j + 1]) = ChunkEnd(j, size) - ChunkEnd(j - 1, size)
      BY <1>0, <3>1 DEF FileLaidOut
    <3> QED
      BY <3>1, <3>2, <3>3
  <2>4. Slice(all, x, y) = part
    <3>1. y = x + Len(part) /\ y \in Int
      BY <2>1, <2>3
    <3> HIDE DEF x, y, part
    <3> QED
      BY <1>10, <2>1, <2>3, <3>1, PartIsSlice
  <2>5. out[i] = Slice(all, x, e) /\ out[i + 1] = Slice(all, y, e)
    BY <1>12
  <2> QED
    BY <2>2, <2>4, <2>5
<1>16. WrittenChunks(p, a, header) = [ok |-> k = n, output |-> Slice(out[0], 0, size)]
  <2>1. header.ok /\ header.totalChunks = n /\ header.originalSize = size
    BY <1>0 DEF FileHeader
  <2> HIDE DEF header
  <2>2. \A i \in Nat : i < k => FileChunk(p, a, header, i).ok
    BY <1>9
  <2>3. \A i \in Nat : i >= k /\ i # n => ~FileChunk(p, a, header, i).ok
    BY <1>9
  <2>4. \A i \in Nat : i < k => out[i] = FileChunk(p, a, header, i).decrypted \o out[i + 1]
    <3> SUFFICES ASSUME NEW i \in Nat, i < k
                 PROVE  out[i] = FileChunk(p, a, header, i).decrypted \o out[i + 1]
      OBVIOUS
    <3>1. FileChunk(p, a, header, i).decrypted = read[i + 2]
      BY <1>9
    <3>2. out[i] = read[i + 2] \o out[i + 1]
      BY <1>15
    <3> QED
      BY <3>1, <3>2
  <2>5. WrittenChunks(p, a, header) = [ok |-> k = n, output |-> Slice(out[0], 0, header.originalSize)]
    <3>1. ChunksOpenUpTo(p, a, header, n, k, out)
      BY <1>2, <1>6, <1>14, <2>1, <2>2, <2>3, <2>4 DEF ChunksOpenUpTo
    <3> QED
      BY <3>1, WrittenIs
  <2> QED
    BY <2>1, <2>5
<1>17. Slice(out[0], 0, size) = Slice(all, 0, e)
  <2> DEFINE s == Slice(all, 0, e)
  <2>1. out[0] = s
    BY <1>11, <1>12
  <2>2. IsSequence(s) /\ Len(s) <= size
    <3> DEFINE end == IF e < Len(all) THEN e ELSE Len(all)
               none == 0
    <3>1. IsSequence(all) /\ e \in Int /\ none \in Nat
      BY <1>10, <1>13
    <3>2. IsSequence(s) /\ Len(s) = IF none < end THEN end - none ELSE none
      <4> HIDE DEF none
      <4>1. IsSequence(Slice(all, none, e)) /\ Len(Slice(all, none, e)) = IF none < end THEN end - none ELSE 0
        BY <3>1, Sliced, Zenon
      <4> QED
        BY <4>1 DEF none
    <3> HIDE DEF s
    <3> QED
      BY <1>1, <1>10, <1>13, <3>2
  <2> HIDE DEF s
  <2>3. Slice(s, 0, size) = s
    BY <1>1, <2>2, SliceBeyond
  <2> QED
    BY <2>1, <2>3 DEF s
<1>18. DecryptFileToPath(p, a) = [ok |-> k = n, output |-> Slice(all, 0, e)]
  <2>1. ParseEncryptedFile(p, a) = header
    BY <1>0, HeaderOpens
  <2> HIDE DEF header
  <2> QED
    BY <1>16, <1>17, <2>1, Zenon DEF DecryptFileToPath
<1>19. k = n <=> a = cells
  <2>1. Len(a) <= Len(cells) /\ \A i \in 1 .. Len(a) : a[i] = cells[i]
    BY <1>1, PrefixIs
  <2>2. ASSUME k = n PROVE a = cells
    <3>1. FileEnd(n, size) <= Len(a)
      <4>1. CASE n = 0
        BY <1>4, <4>1
      <4>2. CASE n # 0
        <5>1. n - 1 \in Nat /\ n - 1 < k /\ (n - 1) + 1 = n
          BY <1>2, <2>2, <4>2
        <5>2. FileEnd((n - 1) + 1, size) <= Len(a)
          BY <1>7, <5>1
        <5> QED
          BY <5>1, <5>2
      <4> QED
        BY <4>1, <4>2
    <3>2. Len(a) = Len(cells)
      <4>1. FileEnd(n, size) \in Nat
        BY <1>2, <1>4
      <4> QED
        BY <1>2, <1>3, <2>1, <3>1, <4>1
    <3> QED
      BY <1>1, <2>1, <3>2, SameCells
  <2>3. ASSUME a = cells PROVE k = n
    <3> SUFFICES ASSUME k # n PROVE FALSE
      OBVIOUS
    <3>1. k < n /\ k >= k /\ k + 1 <= n /\ k + 1 \in Nat
      BY <1>2, <1>6, <1>13
    <3>2. ~(FileEnd(k + 1, size) <= Len(a))
      BY <1>8, <1>13, <3>1
    <3>3. FileEnd(k + 1, size) <= FileEnd(n, size)
      BY <1>2, <1>4, <3>1
    <3>4. Len(a) = FileEnd(n, size)
      BY <1>3, <2>3
    <3> QED
      BY <3>2, <3>3, <3>4
  <2> QED
    BY <2>2, <2>3
<1> QED
  BY <1>6, <1>18, <1>19 DEF e

(* The record of a file that was read.                                     *)
Told(read, n, parts) ==
  /\ IsSequence(read) /\ n \in Nat /\ Len(read) = n + 1
  /\ parts = [i \in DOMAIN read |-> Part(<<>>, read[i])]

ChunksTold(parts) == [k \in 1 .. Len(parts) - 1 |-> parts[k + 1].data]

ChunksRead(read, n) == [k \in 1 .. n |-> read[k + 1]]

(* The chunks a record tells of are those that were read.                  *)
LEMMA ToldWhatWasRead ==
  ASSUME NEW read, NEW n, NEW parts, Told(read, n, parts)
  PROVE  ChunksTold(parts) = ChunksRead(read, n)
<1> SUFFICES ASSUME IsSequence(read), n \in Nat, Len(read) = n + 1,
                    parts = [i \in DOMAIN read |-> Part(<<>>, read[i])]
             PROVE  [k \in 1 .. Len(parts) - 1 |-> parts[k + 1].data] = [k \in 1 .. n |-> read[k + 1]]
  BY DEF Told, ChunksTold, ChunksRead
<1>1. DOMAIN read = 1 .. n + 1
  BY SequenceIs
<1>2. ASSUME NEW i \in 1 .. n + 1 PROVE parts[i].data = read[i]
  <2>1. parts[i] = Part(<<>>, read[i])
    BY <1>1
  <2> DEFINE d == read[i]
             q == parts[i]
  <2> HIDE DEF d
  <2>2. q = Part(<<>>, d)
    BY <2>1 DEF d
  <2> HIDE DEF q
  <2>3. q.data = d
    BY <2>2 DEF Part
  <2> QED
    BY <2>3 DEF d, q
<1> DEFINE T == {Part(<<>>, read[i]) : i \in 1 .. n + 1}
<1>3. Len(parts) = n + 1
  <2>1. parts \in [1 .. n + 1 -> T]
    BY <1>1
  <2> HIDE DEF T
  <2>2. parts \in Seq(T) /\ DOMAIN parts = 1 .. n + 1
    BY <2>1
  <2> QED
    BY <2>2, LenProperties
<1> DEFINE c == [k \in 1 .. Len(parts) - 1 |-> parts[k + 1].data]
           d == [k \in 1 .. n |-> read[k + 1]]
<1>4. Len(parts) - 1 = n
  BY <1>3
<1>5. ASSUME NEW k \in 1 .. n PROVE parts[k + 1].data = read[k + 1]
  <2>1. k + 1 \in 1 .. n + 1
    OBVIOUS
  <2> QED
    BY <1>2, <2>1
<1>6. c = [k \in 1 .. n |-> parts[k + 1].data]
  BY <1>4
<1> QED
  BY <1>5, <1>6

(* Nothing is filled up behind a text of the original size.                *)
LEMMA NothingFilled ==
  ASSUME NEW all, IsSequence(all), NEW written, written.ok, written.output = all,
         NEW header, header.originalSize = Len(all)
  PROVE  Filled(written, header) = [ok |-> TRUE, decrypted |-> all]
<1> DEFINE zeros == [k \in 1 .. header.originalSize - Len(written.output) |-> Cell("zero")]
<1>1. Len(all) \in Nat
  BY SequenceIs
<1>2. zeros = <<>>
  <2>1. header.originalSize - Len(written.output) = 0
    BY <1>1
  <2> DEFINE top == header.originalSize - Len(written.output)
  <2> HIDE DEF top
  <2>2. 1 .. top = {}
    BY <2>1 DEF top
  <2>3. zeros = [k \in {} |-> Cell("zero")]
    BY <2>2 DEF top
  <2> QED
    BY <2>3
<1> HIDE DEF zeros
<1>3. Filled(written, header) = [ok |-> TRUE, decrypted |-> all \o zeros]
  BY DEF Filled, zeros
<1>4. all \o <<>> = all
  <2>1. all \in Seq(Range(all))
    BY DEF IsSequence
  <2> QED
    BY <2>1
<1> QED
  BY <1>2, <1>3, <1>4

(* What comes out of a file of which the beginning a arrived.              *)
FileOut(read, cells, p, size, all, a) ==
  LET w == DecryptFileToPath(p, a)
  IN  /\ IsPrefix(w.output, all)
      /\ w.ok <=> a = cells
      /\ w.ok => w.output = all /\ ParseEncryptedFile(p, a) = FileHeader(size)

(* What is written of the beginning of a file, and when it is whole.       *)
LEMMA FileOutIs ==
  ASSUME NEW read, NEW cells, NEW p, NEW size, NEW n, NEW chunks, NEW all,
         FileRead(read, cells, p, size, n, chunks, all),
         NEW a, IsSequence(a), IsPrefix(a, cells)
  PROVE  FileOut(read, cells, p, size, all, a)
<1> DEFINE w == DecryptFileToPath(p, a)
<1>0. FileLaidOut(read, cells, p, size) /\ n = TotalChunks(size) /\ Len(read) = n + 1
  BY DEF FileRead
<1>1. size \in Nat /\ n \in Nat /\ IsSequence(all) /\ Len(all) = size
  <2>1. size \in Nat
    BY <1>0 DEF FileLaidOut
  <2> QED
    BY <2>1, ChunksFlatten
<1>2. Len(a) \in Nat
  BY SequenceIs
<1>3. CASE 12 <= Len(a)
  <2>1. PICK k \in 0 .. n :
           /\ w = [ok |-> k = n, output |-> Slice(all, 0, ChunkEnd(k, size))]
           /\ k = n <=> a = cells
    BY <1>3, FileWrites
  <2> DEFINE e == ChunkEnd(k, size)
  <2>2. e \in Nat /\ e <= size /\ (k = n => e = size)
    BY <1>0, <1>1, ChunkEnds
  <2> HIDE DEF e
  <2>3. IsPrefix(Slice(all, 0, e), all)
    <3> DEFINE none == 0
    <3>1. none \in Nat /\ none <= e /\ e <= Len(all) /\ e \in Int
      BY <1>1, <2>2
    <3>2. none = 0
      OBVIOUS
    <3> HIDE DEF none
    <3> DEFINE s == Slice(all, none, e)
               end == IF e < Len(all) THEN e ELSE Len(all)
    <3>3. /\ IsSequence(s) /\ Len(s) = IF none < end THEN end - none ELSE 0
          /\ \A i \in 1 .. Len(s) : s[i] = all[none + i]
      BY <1>1, <3>1, Sliced, Zenon
    <3> HIDE DEF s
    <3>4. Len(s) <= Len(all)
      BY <1>1, <2>2, <3>2, <3>3
    <3>5. \A i \in 1 .. Len(s) : s[i] = all[i]
      <4> SUFFICES ASSUME NEW i \in 1 .. Len(s) PROVE s[i] = all[i]
        OBVIOUS
      <4>1. i \in Int /\ s[i] = all[none + i]
        BY <3>3
      <4>2. none + i = i
        BY <3>2, <4>1
      <4> QED
        BY <4>1, <4>2
    <3>6. IsPrefix(s, all)
      BY <1>1, <3>3, <3>4, <3>5, PrefixIs
    <3> QED
      BY <3>2, <3>6 DEF s
  <2>4. ASSUME k = n PROVE Slice(all, 0, e) = all /\ ParseEncryptedFile(p, a) = FileHeader(size)
    <3>1. Slice(all, 0, e) = all
      <4>1. Len(all) <= e
        BY <1>1, <2>2, <2>4
      <4> QED
        BY <1>1, <2>2, <4>1, SliceBeyond
    <3>2. ParseEncryptedFile(p, a) = FileHeader(size)
      BY <1>0, <1>3, HeaderOpens
    <3> QED
      BY <3>1, <3>2
  <2> DEFINE s == Slice(all, 0, e)
  <2>5. (w.ok <=> k = n) /\ w.output = s
    <3> DEFINE c == k = n
    <3>1. w = [ok |-> c, output |-> s]
      BY <2>1 DEF e
    <3>2. c \in BOOLEAN
      OBVIOUS
    <3> HIDE DEF w, c, s
    <3>3. (w.ok <=> c) /\ w.output = s
      BY <3>1, <3>2
    <3> QED
      BY <3>3 DEF c
  <2> HIDE DEF w, s
  <2>6. IsPrefix(w.output, all)
    BY <2>3, <2>5 DEF s
  <2>7. w.ok <=> a = cells
    BY <2>1, <2>5
  <2>8. w.ok => w.output = all /\ ParseEncryptedFile(p, a) = FileHeader(size)
    BY <2>4, <2>5 DEF s
  <2> QED
    BY <2>6, <2>7, <2>8, Zenon DEF FileOut, w
<1>4. CASE ~(12 <= Len(a))
  <2>1. ParseEncryptedFile(p, a) = Refused
    BY <1>0, <1>4, HeaderOpens
  <2>2. w = [ok |-> FALSE, output |-> <<>>]
    <3> DEFINE header == ParseEncryptedFile(p, a)
    <3>1. ~header.ok
      BY <2>1 DEF Refused
    <3>2. w = WrittenChunks(p, a, header)
      BY Zenon DEF DecryptFileToPath
    <3> HIDE DEF header
    <3>3. WrittenChunks(p, a, header) = [ok |-> FALSE, output |-> <<>>]
      BY <3>1, Zenon DEF WrittenChunks
    <3> QED
      BY <3>2, <3>3
  <2>3. a # cells
    <3>1. Len(cells) = FileEnd(n, size)
      <4>1. Len(read) - 1 = n
        BY <1>0, <1>1
      <4> QED
        BY <1>0, <4>1 DEF FileLaidOut
    <3>2. FileEnd(n, size) \in Nat /\ FileEnd(0, size) = 12 /\ FileEnd(0, size) <= FileEnd(n, size)
      <4>1. 0 \in Nat /\ 0 <= n
        BY <1>1
      <4> QED
        BY <1>0, <1>1, <4>1, FileEnds
    <3> QED
      BY <1>2, <1>4, <3>1, <3>2
  <2>4. IsPrefix(<<>>, all)
    <3>1. Len(<<>>) <= Len(all) /\ \A i \in 1 .. Len(<<>>) : <<>>[i] = all[i]
      BY <1>1, Shorts
    <3> QED
      BY <1>1, <3>1, Shorts, PrefixIs
  <2>5. ~w.ok /\ w.output = <<>>
    BY <2>2
  <2> HIDE DEF w
  <2> QED
    BY <2>3, <2>4, <2>5, Zenon DEF FileOut, w
<1> QED
  BY <1>3, <1>4

(* So a file comes back from any beginning of it that arrives.             *)
LEMMA WholeFileOpens ==
  ASSUME NEW r, FileWhole(r), IsSequence(arrived), IsPrefix(arrived, r.cells), NEW p \in r.to
  PROVE  FileOpens(r, FlattenSeq([k \in 1 .. Len(r.parts) - 1 |-> r.parts[k + 1].data]),
                   DecryptFileToPath(p, arrived), DecryptFile(p, arrived))
<1>1. PICK q, size, read :
        /\ r.to = {q} /\ r.parts = [i \in DOMAIN read |-> Part(<<>>, read[i])]
        /\ FileLaidOut(read, r.cells, q, size) /\ Len(read) = TotalChunks(size) + 1
        /\ ~r.changed => FromContent(read, r.content, size)
  BY DEF FileWhole
<1>2. p = q
  BY <1>1
<1> DEFINE n == TotalChunks(size)
           cells == r.cells
           parts == r.parts
           chunks == [k \in 1 .. n |-> read[k + 1]]
           all == FlattenSeq(chunks)
           w == DecryptFileToPath(p, arrived)
           header == ParseEncryptedFile(p, arrived)
<1>3. FileRead(read, cells, p, size, n, chunks, all)
  BY <1>1, <1>2 DEF FileRead
<1>4. FileLaidOut(read, cells, p, size) /\ Len(read) = n + 1 /\ parts = [i \in DOMAIN read |-> Part(<<>>, read[i])]
  BY <1>1, <1>2
<1>5. size \in Nat /\ IsSequence(read) /\ n \in Nat
  <2>1. size \in Nat /\ IsSequence(read)
    BY <1>4 DEF FileLaidOut
  <2> QED
    BY <2>1, ChunkEnds
<1>6. [k \in 1 .. Len(parts) - 1 |-> parts[k + 1].data] = chunks
  <2>1. Told(read, n, parts)
    BY <1>4, <1>5, Zenon DEF Told
  <2> HIDE DEF n, parts
  <2>2. ChunksTold(parts) = ChunksRead(read, n)
    BY <2>1, ToldWhatWasRead
  <2> QED
    BY <2>2, Zenon DEF ChunksTold, ChunksRead
<1> HIDE DEF n, chunks, all, w, header, cells, parts
<1>7. FileOut(read, cells, p, size, all, arrived)
  BY <1>3, FileOutIs DEF cells
<1>8. IsSequence(all) /\ Len(all) = size /\ (FromContent(read, r.content, size) => all = r.content)
  BY <1>3, ChunksFlatten
<1>9. /\ IsPrefix(w.output, all) /\ (w.ok <=> arrived = cells)
      /\ w.ok => w.output = all /\ header = FileHeader(size)
  BY <1>7, Zenon DEF FileOut, w, header
<1>10. w.ok => DecryptFile(p, arrived) = [ok |-> TRUE, decrypted |-> all]
  <2> SUFFICES ASSUME w.ok PROVE DecryptFile(p, arrived) = [ok |-> TRUE, decrypted |-> all]
    OBVIOUS
  <2>1. DecryptFile(p, arrived) = Filled(w, header)
    BY Zenon DEF DecryptFile, w, header
  <2>2. header.originalSize = Len(all)
    BY <1>8, <1>9 DEF FileHeader
  <2> QED
    BY <1>8, <1>9, <2>1, <2>2, NothingFilled
<1>11. ~r.changed => all = r.content
  BY <1>1, <1>8
<1>12. FileOpens(r, all, w, DecryptFile(p, arrived))
  BY <1>9, <1>10, <1>11, Zenon DEF FileOpens, cells
<1>13. FlattenSeq([k \in 1 .. Len(r.parts) - 1 |-> r.parts[k + 1].data]) = all
  BY <1>6, Zenon DEF parts, all
<1> QED
  BY <1>12, <1>13 DEF w

(* What decryptFile and decryptFileToPath give of an encrypted file, whole *)
(* or cut off anywhere, is what was read of it: for files of any length.   *)
THEOREM FileAlwaysComesBack == Spec => []FileComesBack
<1>1. Init => AllMade /\ AllWhole
  BY AllMadeFirst, AllWholeFirst
<1>2. AllMade /\ AllWhole /\ [Next]_vars => (AllMade /\ AllWhole)'
  BY AllMadeKept, AllWholeKept
<1>3. AllMade /\ AllWhole => FileComesBack
  <2> SUFFICES ASSUME AllMade, AllWhole, NEW i \in DOMAIN sent, sent[i].form = "file",
                      IsPrefix(arrived, sent[i].cells), NEW p \in sent[i].to
               PROVE  FileOpens(sent[i], FlattenSeq([k \in 1 .. Len(sent[i].parts) - 1 |->
                                                      sent[i].parts[k + 1].data]),
                                DecryptFileToPath(p, arrived), DecryptFile(p, arrived))
    BY Zenon DEF FileComesBack
  <2> DEFINE r == sent[i]
  <2>1. IsSequence(sent) /\ IsSequence(arrived)
    BY DEF AllMade, SentMade, ArrivedMade
  <2>2. i \in 1 .. Len(sent)
    BY <2>1, SequenceIs
  <2>3. RecordWhole(r)
    BY <2>2 DEF AllWhole
  <2>4. r.form = "file" /\ IsPrefix(arrived, r.cells) /\ p \in r.to
    OBVIOUS
  <2> HIDE DEF r
  <2>5. FileWhole(r)
    BY <2>3, <2>4 DEF RecordWhole
  <2>6. FileOpens(r, FlattenSeq([k \in 1 .. Len(r.parts) - 1 |-> r.parts[k + 1].data]),
                  DecryptFileToPath(p, arrived), DecryptFile(p, arrived))
    BY <2>1, <2>4, <2>5, WholeFileOpens, Zenon
  <2> QED
    BY <2>6, Zenon DEF r
<1> QED
  BY <1>1, <1>2, <1>3, PTL DEF Spec

-----------------------------------------------------------------------------
(* What lies in front is the first slice.                                  *)
LEMMA FrontIs ==
  ASSUME NEW s, IsSequence(s), NEW part, IsSequence(part), LiesAt(part, s, 0)
  PROVE  Slice(s, 0, Len(part)) = part
<1> DEFINE at == 0
           to == Len(part)
<1>1. at \in Nat /\ to \in Int /\ to = at + Len(part) /\ LiesAt(part, s, at)
  BY SequenceIs
<1> HIDE DEF at, to
<1>2. Slice(s, at, to) = part
  BY <1>1, PartIsSlice
<1> QED
  BY <1>2 DEF at, to

(* What was sealed opens, and its length is the computed one.              *)
LEMMA SealedMessageOpens ==
  ASSUME NEW type \in {"basic", "withLength"}, NEW e, NEW p, NEW msg, IsSequence(msg), msg # <<>>,
         NEW pre, IsSequence(pre),
         NEW data, data = SealSingle(type, e, p, msg, pre), NEW n, n = Len(pre)
  PROVE  /\ DecryptWithHeaderEx("any", p, data, n, NoLength) =
             [ok |-> TRUE, decrypted |-> msg,
              consumedBytes |-> (IF type = "withLength" THEN Len(msg) ELSE NoLength)
                                  + GetHeaderSize(type)]
         /\ Len(data) = n + GetHeaderSize(type) + Len(msg)
<1> DEFINE aad == Aad(pre, type, e)
<1>1. n \in Nat
  BY SequenceIs
<1>2. SealedLayout(data, type, e, p, msg, n, aad) /\ LiesAt(pre, data, 0)
  BY SealedIs
<1>3. IsSequence(data) /\ Len(data) = n + GetHeaderSize(type) + Len(msg)
  BY <1>2 DEF SealedLayout
<1>4. Slice(data, 0, n) = pre
  BY <1>2, <1>3, FrontIs
<1>5. aad = Aad(Slice(data, 0, n), type, e)
  BY <1>4
<1> HIDE DEF aad
<1>6. DecryptWithHeaderEx("any", p, data, n, NoLength) =
           [ok |-> TRUE, decrypted |-> msg,
            consumedBytes |-> (IF type = "withLength" THEN Len(msg) ELSE NoLength) + GetHeaderSize(type)]
  <2> SUFFICES ASSUME NEW t \in {"any", type}
               PROVE  DecryptWithHeaderEx(t, p, data, n, NoLength) =
                        [ok |-> TRUE, decrypted |-> msg,
                         consumedBytes |-> (IF type = "withLength" THEN Len(msg) ELSE NoLength)
                                             + GetHeaderSize(type)]
    OBVIOUS
  <2> QED
    BY <1>1, <1>2, <1>5, SealedOpens
<1> QED
  BY <1>3, <1>6

(* A message for one recipient opens, and its sizes are the computed ones. *)
LEMMA WholeSingleOpens ==
  ASSUME NEW r, SingleWhole(r), NEW p \in r.to, NEW n, n = Len(r.parts[1].preamble),
         NEW data, data = r.cells
  PROVE  SingleOpens(r, DecryptWithHeaderEx("any", p, data, n, NoLength), Len(data) - n)
<1>1. PICK e, q : \E t \in {"basic", "withLength"}, m \in Messages, b \in Preambles :
        /\ m # <<>> /\ r.type = t /\ r.to = {q} /\ r.parts = <<Part(b, m)>>
        /\ r.cells = SealSingle(t, e, q, m, b)
  BY DEF SingleWhole
<1>2. PICK type \in {"basic", "withLength"}, msg \in Messages, pre \in Preambles :
        /\ msg # <<>> /\ r.type = type /\ r.to = {q} /\ r.parts = <<Part(pre, msg)>>
        /\ r.cells = SealSingle(type, e, q, msg, pre)
  BY <1>1
<1>3. r.parts[1].preamble = pre /\ r.parts[1].data = msg /\ p = q /\ n = Len(pre)
  BY <1>2 DEF Part
<1>4. IsSequence(msg) /\ IsSequence(pre) /\ msg # <<>> /\ n \in Nat
  <2>1. IsText(msg) /\ IsText(pre)
    BY MembersHaveIds
  <2> QED
    BY <1>2, <1>3, <2>1, SequenceIs DEF IsText
<1> DEFINE opened == DecryptWithHeaderEx("any", p, data, n, NoLength)
           size == IF type = "withLength" THEN Len(msg) ELSE NoLength
<1>5. /\ opened = [ok |-> TRUE, decrypted |-> msg, consumedBytes |-> size + GetHeaderSize(type)]
      /\ Len(data) = n + GetHeaderSize(type) + Len(msg)
  <2>1. type \in {"basic", "withLength"} /\ IsSequence(msg) /\ msg # <<>>
        /\ IsSequence(pre)
    BY <1>4
  <2>2. data = SealSingle(type, e, p, msg, pre) /\ n = Len(pre)
    BY <1>2, <1>3
  <2>3. /\ DecryptWithHeaderEx("any", p, data, n, NoLength) =
             [ok |-> TRUE, decrypted |-> msg, consumedBytes |-> size + GetHeaderSize(type)]
        /\ Len(data) = n + GetHeaderSize(type) + Len(msg)
    BY <2>1, <2>2, SealedMessageOpens
  <2> QED
    BY <2>3
<1> HIDE DEF opened
<1>9. GetHeaderSize(type) \in Nat /\ Len(msg) \in Nat
  BY <1>4, SequenceIs DEF GetHeaderSize
<1>10. opened.ok /\ opened.decrypted = msg /\ opened.consumedBytes = size + GetHeaderSize(type)
  BY <1>5
<1>11. Len(data) - n = ComputeEncryptedLengthFromDataLength(Len(msg), type)
  BY <1>4, <1>5, <1>9 DEF ComputeEncryptedLengthFromDataLength
<1>12. r.type = "withLength" => opened.consumedBytes = Len(data) - n
  <2> SUFFICES ASSUME r.type = "withLength" PROVE opened.consumedBytes = Len(data) - n
    OBVIOUS
  <2>1. size = Len(msg)
    BY <1>2
  <2> HIDE DEF size
  <2> QED
    BY <1>4, <1>5, <1>9, <1>10, <2>1
<1> QED
  BY <1>2, <1>3, <1>10, <1>11, <1>12, Zenon DEF SingleOpens, opened

(* The entry for a member is opened by this member's key.                  *)
LEMMA KeyOpens ==
  ASSUME NEW p, NEW e, NEW sym, NEW aad
  PROVE  /\ DecryptKey(p, EncryptKey(p, e, sym, aad), e, aad) = [ok |-> TRUE, key |-> SymmetricCell(sym)]
         /\ IsSequence(EncryptKey(p, e, sym, aad)) /\ Len(EncryptKey(p, e, sym, aad)) = 3
<1> DEFINE a == IvCell(e)
           c == SymmetricCell(sym)
           b == TagCell(SharedKey(e, p), aad, a, <<c>>)
           k == EncryptKey(p, e, sym, aad)
<1>1. k = <<a, b, c>>
  BY DEF EncryptKey
<1> HIDE DEF k
<1>2. b = TagCell(SharedKey(e, p), aad, a, <<c>>)
  OBVIOUS
<1> HIDE DEF a, b, c
<1>3. Len(k) = 3 /\ k[1] = a /\ k[2] = b /\ k[3] = c /\ IsSequence(k)
  BY <1>1, Shorts
<1>4. DecryptKey(p, k, e, aad) =
        IF Len(k) = EncryptedKeySize /\ k[2] = TagCell(SharedKey(e, p), aad, k[1], <<k[3]>>)
        THEN [ok |-> TRUE, key |-> k[3]] ELSE Refused
  BY Zenon DEF DecryptKey
<1>5. Len(k) = EncryptedKeySize /\ k[2] = TagCell(SharedKey(e, p), aad, k[1], <<k[3]>>)
  BY <1>2, <1>3 DEF EncryptedKeySize
<1>6. DecryptKey(p, k, e, aad) = [ok |-> TRUE, key |-> c]
  BY <1>3, <1>4, <1>5
<1> QED
  BY <1>3, <1>6 DEF k, c

(* Head and tail of one cell and more.                                     *)
LEMMA OneAndMore ==
  ASSUME NEW c, NEW s, IsSequence(s)
  PROVE  /\ <<c>> \o s # <<>> /\ Head(<<c>> \o s) = c /\ (<<c>> \o s)[1] = c
         /\ Tail(<<c>> \o s) = s
         /\ IsSequence(<<c>> \o s) /\ Len(<<c>> \o s) = Len(s) + 1
<1> DEFINE T == Range(s) \union {c}
<1>1. s \in Seq(T) /\ c \in T
  BY SequenceIs
<1> HIDE DEF T
<1>2. /\ <<c>> \o s # <<>> /\ Head(<<c>> \o s) = c /\ (<<c>> \o s)[1] = c
      /\ Tail(<<c>> \o s) = s
  BY <1>1
<1>3. <<c>> \o s \in Seq(T) /\ Len(<<c>> \o s) = Len(s) + 1
  BY <1>1
<1> QED
  BY <1>2, <1>3, SequenceOver

(* A key that was encrypted alone opens.                                   *)
LEMMA WholeKeyOpens ==
  ASSUME NEW r, KeyWhole(r), NEW p \in r.to
  PROVE  DecryptKeyAlone(p, r.cells).ok
<1>1. PICK e, sym, q : r.to = {q} /\ r.cells = EncryptKeyAlone(q, e, sym)
  BY DEF KeyWhole
<1> DEFINE none == <<>>
           k == EncryptKey(p, e, sym, none)
           c == KeyCell(e)
           data == <<c>> \o k
<1>2. r.cells = data
  BY <1>1, Zenon DEF EncryptKeyAlone
<1>3. DecryptKey(p, k, e, none).ok /\ IsSequence(k)
  <2> HIDE DEF none
  <2>1. DecryptKey(p, k, e, none) = [ok |-> TRUE, key |-> SymmetricCell(sym)] /\ IsSequence(k)
    BY KeyOpens
  <2> QED
    BY <2>1
<1>4. c[1] = "key" /\ c[2] = e
  BY DEF KeyCell
<1> HIDE DEF k, c, none
<1>5. data # <<>> /\ data[1] = c /\ Tail(data) = k
  BY <1>3, OneAndMore
<1> HIDE DEF data
<1>6. DecryptKeyAlone(p, data) = DecryptKey(p, Tail(data), data[1][2], none)
  BY <1>4, <1>5, Zenon DEF DecryptKeyAlone, none
<1> QED
  BY <1>2, <1>3, <1>4, <1>5, <1>6

(* Parts of one width, one after the other.                                *)
EqualParts(seqs, n, width) ==
  /\ IsSequence(seqs) /\ n \in Nat /\ n = Len(seqs) /\ width \in Nat
  /\ \A i \in 1 .. n : IsSequence(seqs[i]) /\ Len(seqs[i]) = width

(* Each is found at a multiple of the width.                               *)
LEMMA EqualPartsLie ==
  ASSUME NEW seqs, NEW n, NEW width, EqualParts(seqs, n, width)
  PROVE  /\ IsSequence(FlattenSeq(seqs)) /\ Len(FlattenSeq(seqs)) = n * width
         /\ \A i \in 1 .. n : LiesAt(seqs[i], FlattenSeq(seqs), (i - 1) * width)
<1> DEFINE off == [i \in Nat |-> i * width]
<1>1. /\ IsSequence(seqs) /\ n \in Nat /\ n = Len(seqs) /\ width \in Nat
      /\ \A i \in 1 .. n : IsSequence(seqs[i]) /\ Len(seqs[i]) = width
  BY DEF EqualParts
<1>2. \A i \in Nat : off[i] = i * width
  OBVIOUS
<1> HIDE DEF off
<1>3. off[0] = 0
  BY <1>1, <1>2
<1>4. ASSUME NEW i \in 1 .. n PROVE off[i] = off[i - 1] + Len(seqs[i]) /\ off[i - 1] = (i - 1) * width
  <2>1. i \in Nat /\ i - 1 \in Nat
    OBVIOUS
  <2>2. off[i] = i * width /\ off[i - 1] = (i - 1) * width
    BY <1>2, <2>1
  <2>3. i * width = (i - 1) * width + width
    BY <1>1, <2>1
  <2> QED
    BY <1>1, <2>2, <2>3
<1>5. EndsOf(off, seqs, n)
  BY <1>1, <1>3, <1>4 DEF EndsOf
<1>6. /\ IsSequence(FlattenSeq(seqs)) /\ Len(FlattenSeq(seqs)) = off[n]
      /\ \A i \in 1 .. n : LiesAt(seqs[i], FlattenSeq(seqs), off[i - 1])
  BY <1>5, FlattenLies
<1>7. off[n] = n * width
  BY <1>1, <1>2
<1>8. ASSUME NEW i \in 1 .. n PROVE LiesAt(seqs[i], FlattenSeq(seqs), (i - 1) * width)
  BY <1>4, <1>6
<1> QED
  BY <1>6, <1>7, <1>8

(* Such parts inside a longer sequence.                                    *)
PartsAt(seqs, n, width, data, at) ==
  EqualParts(seqs, n, width) /\ IsSequence(data) /\ at \in Nat /\ LiesAt(FlattenSeq(seqs), data, at)

(* The slices of this width give the parts.                                *)
LEMMA PartsCutOut ==
  ASSUME NEW seqs, NEW n, NEW width, NEW data, NEW at, PartsAt(seqs, n, width, data, at)
  PROVE  \A i \in 1 .. n : Slice(data, at + (i - 1) * width, at + i * width) = seqs[i]
<1> SUFFICES ASSUME NEW i \in 1 .. n
             PROVE  Slice(data, at + (i - 1) * width, at + i * width) = seqs[i]
  OBVIOUS
<1> DEFINE all == FlattenSeq(seqs)
           part == seqs[i]
           from == (i - 1) * width
           to == i * width
<1>1. EqualParts(seqs, n, width) /\ IsSequence(data) /\ at \in Nat /\ LiesAt(all, data, at)
  BY DEF PartsAt
<1>2. IsSequence(all) /\ LiesAt(part, all, from)
  BY <1>1, EqualPartsLie
<1>3. width \in Nat /\ IsSequence(part) /\ Len(part) = width
  BY <1>1 DEF EqualParts
<1>4. from \in Nat /\ to = from + width
  <2>1. i \in Nat /\ i - 1 \in Nat
    OBVIOUS
  <2> QED
    BY <1>3, <2>1
<1> HIDE DEF all, part, from, to
<1>5. LiesAt(part, data, at + from)
  <2>1. at + from = from + at
    BY <1>1, <1>4
  <2> QED
    BY <1>1, <1>2, <1>3, <1>4, <2>1, PartOfPart
<1>6. at + from \in Nat /\ at + to \in Int /\ at + to = (at + from) + Len(part)
  BY <1>1, <1>3, <1>4
<1>7. Slice(data, at + from, at + to) = part
  <2> DEFINE x == at + from
             y == at + to
  <2>1. x \in Nat /\ y \in Int /\ y = x + Len(part) /\ LiesAt(part, data, x)
    BY <1>5, <1>6
  <2> HIDE DEF x, y
  <2>2. Slice(data, x, y) = part
    BY <1>1, <1>3, <2>1, PartIsSlice
  <2> QED
    BY <2>2 DEF x, y
<1> QED
  BY <1>7 DEF part, from, to

-----------------------------------------------------------------------------
(* The header of a message for n recipients, cell by cell.                 *)
HeaderFields(h, m, n) ==
  /\ h[1] = VersionCell /\ h[2] = SuiteCell /\ h[3] = Cell("multiple") /\ h[4] = KeyCell(m.key)
  /\ h[5] = <<"sizes", IdSize, m.dataLength>> /\ h[6] = <<"number", n>>

MultipleHeader(h, m, n) ==
  /\ n \in Nat \ {0} /\ ~(n > MaxRecipients) /\ m.dataLength \in Nat /\ ~(m.dataLength > MaxDataSize)
  /\ IdSize \in Nat \ {0} /\ HeaderFields(h, m, n)
  /\ Len(h) = 6 + n * IdSize + n * 3
  /\ m.ids = [i \in 1 .. n |-> m.ids[i]] /\ m.keys = [i \in 1 .. n |-> m.keys[i]]
  /\ PartsAt(m.ids, n, IdSize, h, 6) /\ PartsAt(m.keys, n, 3, h, 6 + n * IdSize)

(* Three sequences one after the other.                                    *)
Three(a, b, c, s) == IsSequence(a) /\ IsSequence(b) /\ IsSequence(c) /\ s = a \o b \o c

(* Where each of them lies.                                                *)
LEMMA ThreeLie ==
  ASSUME NEW a, NEW b, NEW c, NEW s, Three(a, b, c, s)
  PROVE  /\ IsSequence(s) /\ Len(s) = Len(a) + Len(b) + Len(c)
         /\ LiesAt(a, s, 0) /\ LiesAt(b, s, Len(a)) /\ LiesAt(c, s, Len(a) + Len(b))
<1> SUFFICES ASSUME IsSequence(a), IsSequence(b), IsSequence(c), s = a \o b \o c
             PROVE  /\ IsSequence(s) /\ Len(s) = Len(a) + Len(b) + Len(c)
                    /\ LiesAt(a, s, 0) /\ LiesAt(b, s, Len(a)) /\ LiesAt(c, s, Len(a) + Len(b))
  BY DEF Three
<1> DEFINE ab == a \o b
<1>1. /\ LiesAt(a, ab, 0) /\ LiesAt(b, ab, Len(a)) /\ IsSequence(ab) /\ Len(ab) = Len(a) + Len(b)
  BY HalvesLie
<1>2. s = ab \o c
  OBVIOUS
<1> HIDE DEF ab
<1>3. LiesAt(ab, s, 0) /\ LiesAt(c, s, Len(ab)) /\ IsSequence(s) /\ Len(s) = Len(ab) + Len(c)
  BY <1>1, <1>2, HalvesLie
<1>4. Len(a) \in Nat /\ Len(b) \in Nat /\ Len(c) \in Nat
  BY SequenceIs
<1> DEFINE zero == 0
           at == Len(a)
<1>5. zero \in Nat /\ zero = zero + zero /\ at \in Nat /\ at = at + zero
  BY <1>4
<1>6. LiesAt(a, ab, zero) /\ LiesAt(ab, s, zero) /\ LiesAt(b, ab, at)
  BY <1>1, <1>3
<1> HIDE DEF zero, at
<1>7. LiesAt(a, s, zero)
  BY <1>1, <1>3, <1>5, <1>6, PartOfPart
<1>8. LiesAt(b, s, at)
  BY <1>1, <1>3, <1>5, <1>6, PartOfPart
<1> QED
  BY <1>1, <1>3, <1>4, <1>7, <1>8 DEF zero, at

(* What BuildHeader gives for a list is such a header.                     *)
LEMMA MultipleHeaderBuilt ==
  ASSUME NEW e, NEW list, IsList(list), list # <<>>, NEW n, n = Len(list),
         NEW m, m.ids = IdsOf(list), m.keys = KeysFor(list, e), m.dataLength \in Nat,
         NEW h, h = BuildHeader(IdSize, m), h.ok
  PROVE  MultipleHeader(h.cells, m, n)
<1> DEFINE fields == <<VersionCell, SuiteCell, Cell("multiple"), KeyCell(m.key),
                       <<"sizes", IdSize, m.dataLength>>, <<"number", Len(m.ids)>>>>
           f1 == FlattenSeq(m.ids)
           f2 == FlattenSeq(m.keys)
           refusal == \/ Len(m.ids) > MaxRecipients \/ Len(m.ids) # Len(m.keys)
                      \/ m.dataLength > MaxDataSize
                      \/ \E i \in DOMAIN m.ids : Len(m.ids[i]) # IdSize
                      \/ \E i \in DOMAIN m.keys : Len(m.keys[i]) # EncryptedKeySize
<1>1. ~refusal /\ h.cells = fields \o f1 \o f2
  <2>1. h = IF refusal THEN Refused ELSE [ok |-> TRUE, cells |-> fields \o f1 \o f2]
    BY Zenon DEF BuildHeader
  <2> HIDE DEF refusal, fields, f1, f2
  <2> QED
    BY <2>1 DEF Refused
<1>2. n \in Nat /\ DOMAIN list = 1 .. n /\ IsSequence(list) /\ n # 0
  <2>1. IsSequence(list)
    BY DEF IsList
  <2>2. n \in Nat /\ DOMAIN list = 1 .. n
    BY <2>1, SequenceIs
  <2>3. n # 0
    BY <2>1, EmptySeq DEF IsSequence
  <2> QED
    BY <2>1, <2>2, <2>3
<1>3. IsSequence(m.ids) /\ Len(m.ids) = n /\ m.ids = [i \in 1 .. n |-> m.ids[i]] /\ DOMAIN m.ids = 1 .. n
  <2>1. DOMAIN m.ids = DOMAIN list /\ m.ids = [i \in DOMAIN list |-> m.ids[i]]
    BY DEF IdsOf
  <2>2. IsSequence(m.ids) /\ Len(m.ids) = n
    BY <1>2, <2>1, ListOf
  <2> QED
    BY <1>2, <2>1, <2>2
<1>4. IsSequence(m.keys) /\ Len(m.keys) = n /\ m.keys = [i \in 1 .. n |-> m.keys[i]] /\ DOMAIN m.keys = 1 .. n
  <2>1. DOMAIN m.keys = DOMAIN list /\ m.keys = [i \in DOMAIN list |-> m.keys[i]]
    BY DEF KeysFor
  <2>2. IsSequence(m.keys) /\ Len(m.keys) = n
    BY <1>2, <2>1, ListOf
  <2> QED
    BY <1>2, <2>1, <2>2
<1>5. ASSUME NEW i \in 1 .. n
      PROVE  /\ IsSequence(m.ids[i]) /\ Len(m.ids[i]) = IdSize /\ m.ids[i] # <<>>
             /\ IsSequence(m.keys[i]) /\ Len(m.keys[i]) = 3
  <2>1. m.ids[i] = Id(list[i]) /\ m.keys[i] = EncryptKey(list[i], e, e, Id(list[i]))
    BY <1>2 DEF IdsOf, KeysFor
  <2>2. IsSequence(Id(list[i])) /\ Id(list[i]) # <<>>
    <3> DEFINE id == Id(list[i])
    <3>1. IsBytes(id) /\ id # <<>>
      BY <1>2 DEF IsList
    <3> HIDE DEF id
    <3>2. IsSequence(id)
      BY <3>1, BytesAreText DEF IsText
    <3> QED
      BY <3>1, <3>2 DEF id
  <2>3. IsSequence(EncryptKey(list[i], e, e, Id(list[i]))) /\ Len(EncryptKey(list[i], e, e, Id(list[i]))) = 3
    BY KeyOpens
  <2>4. Len(m.ids[i]) = IdSize
    BY <1>1, <1>3
  <2> QED
    BY <2>1, <2>2, <2>3, <2>4
<1>6. IdSize \in Nat \ {0}
  <2>1. 1 \in 1 .. n
    BY <1>2
  <2>2. IsSequence(m.ids[1]) /\ Len(m.ids[1]) = IdSize /\ m.ids[1] # <<>>
    BY <1>5, <2>1
  <2> DEFINE id == m.ids[1]
  <2> HIDE DEF id
  <2>3. IsSequence(id) /\ Len(id) = IdSize /\ id # <<>>
    BY <2>2 DEF id
  <2>4. Len(id) # 0
    BY <2>3, EmptySeq DEF IsSequence
  <2> QED
    BY <2>3, <2>4, SizeAssumption
<1>7. EqualParts(m.ids, n, IdSize) /\ EqualParts(m.keys, n, 3)
  BY <1>2, <1>3, <1>4, <1>5, <1>6 DEF EqualParts
<1>8. IsSequence(f1) /\ Len(f1) = n * IdSize /\ IsSequence(f2) /\ Len(f2) = n * 3
  BY <1>7, EqualPartsLie
<1>9. /\ fields[1] = VersionCell /\ fields[2] = SuiteCell /\ fields[3] = Cell("multiple")
      /\ fields[4] = KeyCell(m.key) /\ fields[5] = <<"sizes", IdSize, m.dataLength>>
      /\ fields[6] = <<"number", n>> /\ Len(fields) = 6
  BY <1>3
<1>10. IsSequence(fields)
  <2> DEFINE a == VersionCell
             b == SuiteCell
             c == Cell("multiple")
             d == KeyCell(m.key)
             f == <<"sizes", IdSize, m.dataLength>>
             g == <<"number", Len(m.ids)>>
  <2> HIDE DEF a, b, c, d, f, g
  <2>1. <<a, b, c, d, f, g>> \in Seq({a, b, c, d, f, g})
    OBVIOUS
  <2> QED
    BY <2>1, SequenceOver DEF a, b, c, d, f, g
<1> HIDE DEF fields, f1, f2
<1> DEFINE cells == h.cells
<1>11. /\ IsSequence(cells) /\ Len(cells) = Len(fields) + Len(f1) + Len(f2)
       /\ LiesAt(fields, cells, 0) /\ LiesAt(f1, cells, Len(fields)) /\ LiesAt(f2, cells, Len(fields) + Len(f1))
  <2>1. cells = fields \o f1 \o f2
    BY <1>1
  <2> HIDE DEF cells
  <2>2. IsSequence(fields) /\ IsSequence(f1) /\ IsSequence(f2)
    BY <1>8, <1>10
  <2> QED
    <3>1. Three(fields, f1, f2, cells)
      BY <2>1, <2>2 DEF Three
    <3> QED
      BY <3>1, ThreeLie
<1> HIDE DEF cells
<1>12. HeaderFields(cells, m, n)
  <2>1. \A i \in 1 .. 6 : cells[0 + i] = fields[i]
    BY <1>9, <1>11 DEF LiesAt
  <2>2. \A i \in 1 .. 6 : cells[i] = fields[i]
    <3> SUFFICES ASSUME NEW i \in 1 .. 6 PROVE cells[i] = fields[i]
      OBVIOUS
    <3>1. 0 + i = i
      OBVIOUS
    <3> QED
      BY <2>1, <3>1
  <2>3. 1 \in 1 .. 6 /\ 2 \in 1 .. 6 /\ 3 \in 1 .. 6 /\ 4 \in 1 .. 6 /\ 5 \in 1 .. 6 /\ 6 \in 1 .. 6
    OBVIOUS
  <2> QED
    BY <1>9, <2>2, <2>3 DEF HeaderFields
<1>13. PartsAt(m.ids, n, IdSize, cells, 6) /\ PartsAt(m.keys, n, 3, cells, 6 + n * IdSize)
  <2>1. n * IdSize \in Nat
    BY <1>2, <1>6
  <2>2. 6 \in Nat /\ 6 + n * IdSize \in Nat
    BY <2>1
  <2>3. LiesAt(f1, cells, 6) /\ LiesAt(f2, cells, 6 + n * IdSize)
    BY <1>8, <1>9, <1>11
  <2> QED
    BY <1>7, <1>11, <2>2, <2>3 DEF PartsAt, f1, f2
<1>14. Len(cells) = 6 + n * IdSize + n * 3
  BY <1>8, <1>9, <1>11
<1>15. ~(n > MaxRecipients) /\ ~(m.dataLength > MaxDataSize)
  BY <1>1, <1>3
<1>16. MultipleHeader(cells, m, n)
  <2>1. n \in Nat \ {0} /\ m.dataLength \in Nat
    BY <1>2
  <2>2. m.ids = [i \in 1 .. n |-> m.ids[i]] /\ m.keys = [i \in 1 .. n |-> m.keys[i]]
    BY <1>3, <1>4
  <2> QED
    BY <1>6, <1>12, <1>13, <1>14, <1>15, <2>1, <2>2 DEF MultipleHeader
<1> QED
  BY <1>16, Zenon DEF cells

(* A header is read back as what it was built of; without data it is       *)
(* refused.                                                                *)
LEMMA MultipleHeaderParses ==
  ASSUME NEW h, NEW m, NEW n, MultipleHeader(h, m, n), IsSequence(h),
         NEW data, IsSequence(data), LiesAt(h, data, 0)
  PROVE  ParseMultiEncryptedHeader(IdSize, data) =
           IF m.dataLength = 0 THEN Refused
           ELSE [ok |-> TRUE, dataLength |-> m.dataLength, ids |-> m.ids, keys |-> m.keys,
                 key |-> m.key, headerSize |-> Len(h)]
<1>1. /\ n \in Nat \ {0} /\ ~(n > MaxRecipients) /\ m.dataLength \in Nat /\ ~(m.dataLength > MaxDataSize)
      /\ IdSize \in Nat \ {0} /\ HeaderFields(h, m, n)
      /\ Len(h) = 6 + n * IdSize + n * 3
  BY DEF MultipleHeader
<1>2. /\ m.ids = [i \in 1 .. n |-> m.ids[i]] /\ m.keys = [i \in 1 .. n |-> m.keys[i]]
  BY DEF MultipleHeader
<1>3. PartsAt(m.ids, n, IdSize, h, 6) /\ PartsAt(m.keys, n, 3, h, 6 + n * IdSize)
  BY DEF MultipleHeader
<1>4. n * IdSize \in Nat /\ Len(h) \in Nat /\ Len(data) \in Nat /\ Len(h) <= Len(data) /\ Len(h) >= 6
  <2>1. n * IdSize \in Nat /\ n * 3 \in Nat
    BY <1>1
  <2>2. 0 + Len(h) <= Len(data)
    BY DEF LiesAt
  <2>3. Len(data) \in Nat
    BY SequenceIs
  <2> QED
    BY <1>1, <2>1, <2>2, <2>3
<1>5. ASSUME NEW i \in 1 .. Len(h) PROVE data[i] = h[i]
  <2>1. data[0 + i] = h[i] /\ 0 + i = i
    BY <1>4 DEF LiesAt
  <2> QED
    BY <2>1
<1>6. HeaderFields(data, m, n)
  <2>1. 1 \in 1 .. Len(h) /\ 2 \in 1 .. Len(h) /\ 3 \in 1 .. Len(h) /\ 4 \in 1 .. Len(h)
        /\ 5 \in 1 .. Len(h) /\ 6 \in 1 .. Len(h)
    BY <1>4
  <2>2. data[1] = h[1] /\ data[2] = h[2] /\ data[3] = h[3] /\ data[4] = h[4] /\ data[5] = h[5] /\ data[6] = h[6]
    BY <1>5, <2>1
  <2> QED
    BY <1>1, <2>2 DEF HeaderFields
<1> DEFINE size == SizesIn(IdSize, data)
           count == size.count
           width == size.id
           keysAt == HeaderSize + count * width
           end == keysAt + count * EncryptedKeySize
           ids == [i \in 1 .. count |-> Slice(data, HeaderSize + (i - 1) * width, HeaderSize + i * width)]
           keys == [i \in 1 .. count |-> Slice(data, keysAt + (i - 1) * EncryptedKeySize,
                                               keysAt + i * EncryptedKeySize)]
           refusal == \/ size.text <= 0 \/ size.text > MaxDataSize
                      \/ size.count <= 0 \/ size.count > MaxRecipients \/ Len(data) < end
           key == IF data[4][1] = "key" THEN data[4][2] ELSE Garbage
           parsed == ParseMultiEncryptedHeader(IdSize, data)
           result == [ok |-> TRUE, dataLength |-> size.text, ids |-> ids, keys |-> keys, key |-> key,
                      headerSize |-> end]
<1>7. parsed = HeaderParts(data, size)
  <2>1. parsed = IF /\ Len(data) >= HeaderSize
                    /\ data[1] = VersionCell /\ data[2] = SuiteCell /\ data[3] = Cell("multiple")
                 THEN HeaderParts(data, size) ELSE Refused
    BY Zenon DEF ParseMultiEncryptedHeader
  <2>2. Len(data) >= HeaderSize
    BY <1>4 DEF HeaderSize
  <2>3. data[1] = VersionCell /\ data[2] = SuiteCell /\ data[3] = Cell("multiple")
    BY <1>6 DEF HeaderFields
  <2> HIDE DEF parsed, size
  <2> QED
    BY <2>1, <2>2, <2>3
<1>8. HeaderParts(data, size) = IF refusal THEN Refused ELSE result
  BY Zenon DEF HeaderParts
<1>9. count = n /\ width = IdSize /\ size.text = m.dataLength /\ key = m.key
  <2> DEFINE sizes == data[5]
             number == data[6]
  <2>1. sizes = <<"sizes", IdSize, m.dataLength>> /\ number = <<"number", n>> /\ data[4] = KeyCell(m.key)
    BY <1>6 DEF HeaderFields
  <2>2. size = [id |-> IF sizes[1] # "sizes" THEN Garbage ELSE IF sizes[2] > 0 THEN sizes[2] ELSE IdSize,
                text |-> IF sizes[1] = "sizes" THEN sizes[3] ELSE Garbage,
                count |-> NumberIn(number)]
    BY Zenon DEF SizesIn
  <2> HIDE DEF size, sizes, number
  <2>3. sizes[1] = "sizes" /\ sizes[2] = IdSize /\ sizes[3] = m.dataLength /\ NumberIn(number) = n
    BY <2>1 DEF NumberIn
  <2>4. size.count = n /\ size.text = m.dataLength
    BY <2>2, <2>3
  <2>5. size.id = IdSize
    BY <1>1, <2>2, <2>3
  <2>6. key = m.key
    BY <2>1 DEF KeyCell
  <2> QED
    BY <2>4, <2>5, <2>6
<1>10. keysAt = 6 + n * IdSize /\ end = Len(h)
  BY <1>1, <1>9 DEF HeaderSize, EncryptedKeySize
<1>11. refusal <=> m.dataLength = 0
  <2>1. ~(count <= 0) /\ ~(count > MaxRecipients) /\ ~(Len(data) < end) /\ ~(size.text > MaxDataSize)
    BY <1>1, <1>4, <1>9, <1>10
  <2>2. size.text <= 0 <=> m.dataLength = 0
    BY <1>1, <1>9
  <2> QED
    BY <2>1, <2>2
<1>12. ids = m.ids
  <2>1. PartsAt(m.ids, n, IdSize, data, 6)
    <3> DEFINE all == FlattenSeq(m.ids)
               at == 6
               zero == 0
    <3>1. EqualParts(m.ids, n, IdSize) /\ at \in Nat /\ LiesAt(all, h, at) /\ LiesAt(h, data, zero)
          /\ zero \in Nat /\ at = at + zero
      BY <1>3 DEF PartsAt
    <3>2. IsSequence(all)
      BY <3>1, EqualPartsLie
    <3> HIDE DEF all, at, zero
    <3>3. LiesAt(all, data, at)
      BY <3>1, <3>2, PartOfPart
    <3>4. PartsAt(m.ids, n, IdSize, data, at)
      BY <3>1, <3>3 DEF PartsAt, all
    <3> QED
      BY <3>4 DEF at
  <2>2. \A i \in 1 .. n : Slice(data, 6 + (i - 1) * IdSize, 6 + i * IdSize) = m.ids[i]
    BY <2>1, PartsCutOut
  <2>3. ids = [i \in 1 .. n |-> Slice(data, 6 + (i - 1) * IdSize, 6 + i * IdSize)]
    BY <1>9 DEF HeaderSize
  <2> HIDE DEF ids
  <2>4. ids = [i \in 1 .. n |-> m.ids[i]]
    BY <2>2, <2>3
  <2> QED
    BY <1>2, <2>4
<1>13. keys = m.keys
  <2> DEFINE at == 6 + n * IdSize
  <2>1. PartsAt(m.keys, n, 3, data, at)
    <3> DEFINE all == FlattenSeq(m.keys)
               zero == 0
    <3>1. EqualParts(m.keys, n, 3) /\ at \in Nat /\ LiesAt(all, h, at) /\ LiesAt(h, data, zero)
          /\ zero \in Nat /\ at = at + zero
      BY <1>3, <1>4 DEF PartsAt
    <3>2. IsSequence(all)
      BY <3>1, EqualPartsLie
    <3> HIDE DEF all, at, zero
    <3>3. LiesAt(all, data, at)
      BY <3>1, <3>2, PartOfPart
    <3> QED
      BY <3>1, <3>3 DEF PartsAt, all
  <2>2. at = keysAt
    BY <1>10
  <2> HIDE DEF at
  <2>3. \A i \in 1 .. n : Slice(data, at + (i - 1) * 3, at + i * 3) = m.keys[i]
    BY <2>1, PartsCutOut
  <2>4. keys = [i \in 1 .. n |-> Slice(data, at + (i - 1) * 3, at + i * 3)]
    <3> HIDE DEF keysAt
    <3> QED
      BY <1>9, <2>2 DEF EncryptedKeySize
  <2> HIDE DEF keys
  <2>5. keys = [i \in 1 .. n |-> m.keys[i]]
    BY <2>3, <2>4
  <2> QED
    BY <1>2, <2>5
<1>14. result = [ok |-> TRUE, dataLength |-> m.dataLength, ids |-> m.ids, keys |-> m.keys,
                 key |-> m.key, headerSize |-> Len(h)]
  <2> DEFINE text == size.text
             mi == m.ids
             mk == m.keys
  <2>1. text = m.dataLength
    BY <1>9
  <2> HIDE DEF ids, keys, key, end, text
  <2>2. result = [ok |-> TRUE, dataLength |-> text, ids |-> ids, keys |-> keys, key |-> key,
                  headerSize |-> end]
    BY DEF text
  <2> HIDE DEF result
  <2> QED
    BY <1>9, <1>10, <1>12, <1>13, <2>1, <2>2
<1> HIDE DEF result, refusal, parsed, size
<1> QED
  BY <1>7, <1>8, <1>11, <1>14 DEF parsed

(* A message that was encrypted for several: its header h, and what is     *)
(* sealed behind it.                                                       *)
SealedText(h, e, text) == <<IvCell(e), TagCell(SymmetricCell(e), h.cells, IvCell(e), text)>>

Several(m, h, e, list, pre, text) ==
  /\ IsList(list) /\ list # <<>> /\ IsSequence(pre) /\ IsSequence(text)
  /\ m.ids = IdsOf(list) /\ m.keys = KeysFor(list, e) /\ m.key = e /\ m.dataLength = Len(text)
  /\ h = BuildHeader(IdSize, m) /\ h.ok
  /\ m.encryptedMessage = pre \o SealedText(h, e, text) \o text

(* The header depends on ids, keys, key and length only.                   *)
LEMMA SameHeader ==
  ASSUME NEW m, NEW w, m.ids = w.ids, m.keys = w.keys, m.key = w.key, m.dataLength = w.dataLength
  PROVE  BuildHeader(IdSize, m) = BuildHeader(IdSize, w)
BY DEF BuildHeader

(* What EncryptMultiple gives.                                             *)
LEMMA EncryptedForSeveral ==
  ASSUME NEW e, NEW list, IsList(list), NEW message, IsText(message), NEW pre,
         IsSequence(pre), NEW signer, NEW text, text = Signed(signer, message), NEW m, m.ok,
         m = EncryptMultiple(IdSize, e, list, message, pre, signer)
  PROVE  Several(m, BuildHeader(IdSize, m), e, list, pre, text)
<1> DEFINE ids == IdsOf(list)
           keys == KeysFor(list, e)
           length == Len(text)
           inner == [dataLength |-> length, ids |-> ids, keys |-> keys, key |-> e]
           h == BuildHeader(IdSize, inner)
           sealed == pre \o SealedText(h, e, text) \o text
           overhead == CalculateOverhead(IdSize, Len(list))
<1>1. m = IF Len(text) > MaxDataSize \/ list = <<>> THEN Refused
          ELSE SealMessage(inner, h, pre, text, overhead)
  BY Zenon DEF EncryptMultiple, IdsOf
<1>2. list # <<>> /\ m = SealMessage(inner, h, pre, text, overhead)
  <2> HIDE DEF inner, h, overhead
  <2> QED
    BY <1>1 DEF Refused
<1>3. inner.dataLength = length /\ inner.ids = ids /\ inner.keys = keys /\ inner.key = e
  OBVIOUS
<1> HIDE DEF length, ids, keys, inner, overhead
<1>4. SealMessage(inner, h, pre, text, overhead) =
        IF ~h.ok THEN Refused
        ELSE [ok |-> TRUE, dataLength |-> length, ids |-> ids, keys |-> keys, key |-> e,
              headerSize |-> overhead, encryptedMessage |-> sealed]
  <2>1. SealMessage(inner, h, pre, text, overhead) =
        IF ~h.ok THEN Refused
        ELSE [ok |-> TRUE, dataLength |-> inner.dataLength, ids |-> inner.ids, keys |-> inner.keys,
              key |-> inner.key, headerSize |-> overhead,
              encryptedMessage |-> pre \o <<IvCell(inner.key),
                 TagCell(SymmetricCell(inner.key), h.cells, IvCell(inner.key), text)>> \o text]
    BY Zenon DEF SealMessage
  <2> QED
    BY <1>3, <2>1, Zenon DEF SealedText
<1> HIDE DEF h, sealed
<1>5. h.ok
  BY <1>2, <1>4 DEF Refused
<1>6. m = [ok |-> TRUE, dataLength |-> length, ids |-> ids, keys |-> keys, key |-> e,
           headerSize |-> overhead, encryptedMessage |-> sealed]
  BY <1>2, <1>4, <1>5
<1>7. m.dataLength = length /\ m.ids = ids /\ m.keys = keys /\ m.key = e /\ m.encryptedMessage = sealed
  BY <1>6
<1>8. h = BuildHeader(IdSize, m)
  <2>1. h = BuildHeader(IdSize, inner)
    BY DEF h
  <2>2. BuildHeader(IdSize, inner) = BuildHeader(IdSize, m)
    BY <1>3, <1>7, SameHeader
  <2> QED
    BY <2>1, <2>2
<1>9. IsSequence(text)
  BY SignedMade
<1>10. m.encryptedMessage = pre \o SealedText(h, e, text) \o text
  BY <1>7 DEF sealed
<1>11. Several(m, h, e, list, pre, text)
  BY <1>2, <1>5, <1>7, <1>8, <1>9, <1>10, Zenon DEF Several, length, ids, keys
<1> QED
  BY <1>8, <1>11

(* Its layout.                                                             *)
LEMMA SeveralLaidOut ==
  ASSUME NEW m, NEW h, NEW e, NEW list, NEW pre, NEW text, Several(m, h, e, list, pre, text),
         NEW n, n = Len(list)
  PROVE  MultipleHeader(h.cells, m, n) /\ IsSequence(h.cells) /\ IsSequence(m.encryptedMessage)
<1>1. /\ IsList(list) /\ list # <<>> /\ m.ids = IdsOf(list) /\ m.keys = KeysFor(list, e)
      /\ h = BuildHeader(IdSize, m) /\ h.ok
  BY DEF Several
<1>2. IsSequence(text) /\ IsSequence(pre) /\ m.dataLength = Len(text)
  BY DEF Several
<1>3. m.dataLength \in Nat
  BY <1>2, SequenceIs
<1>4. MultipleHeader(h.cells, m, n)
  BY <1>1, <1>3, MultipleHeaderBuilt
<1>5. IsSequence(h.cells)
  <2>1. PartsAt(m.ids, n, IdSize, h.cells, 6)
    BY <1>4 DEF MultipleHeader
  <2> QED
    BY <2>1 DEF PartsAt
<1>6. IsSequence(m.encryptedMessage)
  <2> DEFINE tagged == SealedText(h, e, text)
             s == pre \o tagged \o text
  <2>1. IsSequence(tagged)
    <3> DEFINE a == IvCell(e)
               b == TagCell(SymmetricCell(e), h.cells, IvCell(e), text)
    <3> HIDE DEF a, b
    <3>1. <<a, b>> \in Seq({a, b})
      OBVIOUS
    <3> QED
      BY <3>1, SequenceOver DEF a, b, SealedText
  <2> HIDE DEF tagged
  <2>2. Three(pre, tagged, text, s)
    BY <1>2, <2>1 DEF Three
  <2>3. IsSequence(s)
    BY <2>2, ThreeLie
  <2>4. m.encryptedMessage = s
    BY DEF Several, tagged
  <2> QED
    BY <2>3, <2>4
<1> QED
  BY <1>4, <1>5, <1>6

(* Parsed again, it is the message that was encrypted; without data it is  *)
(* refused.                                                                *)
LEMMA SeveralParse ==
  ASSUME NEW m, NEW h, NEW e, NEW list, NEW pre, NEW text, Several(m, h, e, list, pre, text),
         NEW w, w = ParseMultiEncryptedBuffer(IdSize, h.cells \o m.encryptedMessage)
  PROVE  /\ text = <<>> => ~w.ok
         /\ text # <<>> => /\ w.ok /\ w.ids = m.ids /\ w.keys = m.keys /\ w.key = m.key
                           /\ w.dataLength = m.dataLength /\ w.encryptedMessage = m.encryptedMessage
                           /\ w.headerSize = GetMultiHeaderSize(IdSize, Len(w.ids))
<1> DEFINE n == Len(list)
           c == h.cells
           rest == m.encryptedMessage
           data == c \o rest
           header == ParseMultiEncryptedHeader(IdSize, data)
           parsed == [ok |-> TRUE, dataLength |-> m.dataLength, ids |-> m.ids, keys |-> m.keys,
                      key |-> m.key, headerSize |-> Len(c)]
<1>1. MultipleHeader(c, m, n) /\ IsSequence(c) /\ IsSequence(rest)
  BY SeveralLaidOut
<1>2. w = WithMessage(header, data)
  BY Zenon DEF ParseMultiEncryptedBuffer
<1>3. IsSequence(text) /\ m.dataLength = Len(text)
  BY DEF Several
<1> HIDE DEF c, rest, n
<1>4. LiesAt(c, data, 0) /\ LiesAt(rest, data, Len(c)) /\ IsSequence(data) /\ Len(data) = Len(c) + Len(rest)
  BY <1>1, HalvesLie
<1> HIDE DEF data
<1>5. header = IF m.dataLength = 0 THEN Refused ELSE parsed
  BY <1>1, <1>4, MultipleHeaderParses
<1>6. m.dataLength = 0 <=> text = <<>>
  BY <1>3, EmptySeq DEF IsSequence
<1> DEFINE more == Slice(data, header.headerSize, Len(data))
<1>7. WithMessage(header, data) =
        IF ~header.ok THEN Refused
        ELSE [ok |-> TRUE, dataLength |-> header.dataLength, ids |-> header.ids, keys |-> header.keys,
              key |-> header.key, headerSize |-> header.headerSize, encryptedMessage |-> more]
  BY Zenon DEF WithMessage
<1>8. ASSUME text = <<>> PROVE ~w.ok
  <2>1. header = Refused
    BY <1>5, <1>6, <1>8
  <2> HIDE DEF header, more
  <2>2. ~header.ok
    BY <2>1 DEF Refused
  <2>3. w = Refused
    BY <1>2, <1>7, <2>2
  <2> QED
    BY <2>3 DEF Refused
<1>9. ASSUME text # <<>>
      PROVE  /\ w.ok /\ w.ids = m.ids /\ w.keys = m.keys /\ w.key = m.key
             /\ w.dataLength = m.dataLength /\ w.encryptedMessage = rest
             /\ w.headerSize = GetMultiHeaderSize(IdSize, Len(w.ids))
  <2> DEFINE a == m.dataLength
             b == m.ids
             d == m.keys
             f == m.key
             g == Len(c)
  <2>1. header = parsed
    BY <1>5, <1>6, <1>9
  <2> HIDE DEF header
  <2>2. /\ header.ok /\ header.dataLength = a /\ header.ids = b /\ header.keys = d
        /\ header.key = f /\ header.headerSize = g
    <3> HIDE DEF a, b, d, f, g
    <3>1. header = [ok |-> TRUE, dataLength |-> a, ids |-> b, keys |-> d, key |-> f, headerSize |-> g]
      BY <2>1 DEF a, b, d, f, g
    <3> QED
      BY <3>1
  <2>3. more = rest
    <3>1. Len(c) \in Nat /\ Len(data) \in Int /\ Len(data) = Len(c) + Len(rest)
      <4>1. Len(c) \in Nat /\ Len(data) \in Nat
        BY <1>1, <1>4, SequenceIs
      <4> QED
        BY <1>4, <4>1
    <3> DEFINE to == Len(data)
    <3>2. to \in Int /\ to = g + Len(rest) /\ g \in Nat /\ LiesAt(rest, data, g)
      BY <1>4, <3>1
    <3> HIDE DEF to, g
    <3>3. Slice(data, g, to) = rest
      BY <1>1, <1>4, <3>2, PartIsSlice
    <3> QED
      BY <2>2, <3>3 DEF to
  <2> HIDE DEF more, parsed
  <2>4. w = [ok |-> TRUE, dataLength |-> a, ids |-> b, keys |-> d, key |-> f, headerSize |-> g,
             encryptedMessage |-> rest]
    <3> HIDE DEF a, b, d, f, g
    <3> QED
      BY <1>2, <1>7, <2>2, <2>3
  <2>5. w.ok /\ w.ids = b /\ w.keys = d /\ w.key = f /\ w.dataLength = a /\ w.encryptedMessage = rest
        /\ w.headerSize = g
    <3> HIDE DEF a, b, d, f, g
    <3> QED
      BY <2>4
  <2>6. g = GetMultiHeaderSize(IdSize, Len(w.ids))
    <3>1. g = 6 + n * IdSize + n * 3 /\ n \in Nat /\ IdSize \in Nat /\ Len(m.ids) = n
      BY <1>1 DEF MultipleHeader, PartsAt, EqualParts
    <3>2. n * (IdSize + 3) = n * IdSize + n * 3
      BY <3>1
    <3>3. n * IdSize \in Nat /\ n * 3 \in Nat
      BY <3>1
    <3> QED
      BY <2>5, <3>1, <3>2, <3>3 DEF GetMultiHeaderSize, HeaderSize, EncryptedKeySize
  <2> QED
    BY <2>5, <2>6
<1> QED
  BY <1>8, <1>9 DEF rest

(* No other recipient has the id of p.                                     *)
OwnId(p, list) == p \in Range(list) /\ \A q \in Range(list) : Id(q) = Id(p) => q = p

(* The first entry with the id of p is one that was made for p.            *)
LEMMA IndexIs ==
  ASSUME NEW list, IsList(list), NEW p, OwnId(p, list), NEW n, n = Len(list),
         NEW k, k = RecipientIndex(IdsOf(list), p)
  PROVE  n \in Nat /\ k \in 1 .. n /\ list[k] = p
<1> DEFINE ids == IdsOf(list)
           found == {i \in DOMAIN ids : ids[i] = Id(p)}
           least == CHOOSE i \in found : \A j \in found : i <= j
<1>1. n \in Nat /\ DOMAIN list = 1 .. n /\ Range(list) = {list[i] : i \in 1 .. n}
  BY SequenceIs DEF IsList
<1>2. DOMAIN ids = 1 .. n /\ \A i \in 1 .. n : ids[i] = Id(list[i])
  BY <1>1 DEF IdsOf
<1>3. k = IF found = {} THEN 0 ELSE least
  BY Zenon DEF RecipientIndex
<1> HIDE DEF ids
<1>4. PICK i \in 1 .. n : list[i] = p
  BY <1>1 DEF OwnId
<1>5. i \in found
  BY <1>2, <1>4
<1>6. found \in SUBSET Nat /\ found # {}
  BY <1>2, <1>5
<1>7. \E x \in found : \A y \in found : x <= y
  <2> HIDE DEF found
  <2> QED
    BY <1>6, LeastNumber
<1>8. k \in found
  <2> HIDE DEF found
  <2>1. least \in found
    BY <1>7
  <2> QED
    BY <1>3, <1>6, <2>1
<1>9. k \in 1 .. n /\ ids[k] = Id(p)
  BY <1>2, <1>8
<1>10. list[k] \in Range(list) /\ Id(list[k]) = Id(p)
  BY <1>1, <1>2, <1>9
<1> QED
  BY <1>1, <1>9, <1>10 DEF OwnId

(* What is signed is verified, with the sender named.                      *)
LEMMA SignedVerifies ==
  ASSUME NEW d, IsSequence(d), NEW s
  PROVE  VerifiedMessage(s, Signed(s, d)) = [ok |-> TRUE, decrypted |-> d]
<1> DEFINE text == Signed(s, d)
           c == SignatureCell(s, d)
           signed == <<c>> \o d
<1>1. CASE s = Nobody
  <2>1. text = d
    BY <1>1 DEF Signed
  <2> HIDE DEF text
  <2>2. VerifiedMessage(s, text) = [ok |-> TRUE, decrypted |-> text]
    BY <1>1 DEF VerifiedMessage
  <2> QED
    BY <2>1, <2>2 DEF text
<1>2. CASE s # Nobody
  <2>1. text = signed
    BY <1>2, Zenon DEF Signed
  <2>2. c = SignatureCell(s, d)
    OBVIOUS
  <2> HIDE DEF text, c
  <2>3. signed # <<>> /\ Head(signed) = c /\ Tail(signed) = d
    BY OneAndMore
  <2> HIDE DEF signed
  <2>4. VerifiedMessage(s, signed) =
          IF signed = <<>> THEN Refused
          ELSE IF Head(signed) = SignatureCell(s, Tail(signed))
               THEN [ok |-> TRUE, decrypted |-> Tail(signed)] ELSE Refused
    BY <1>2 DEF VerifiedMessage
  <2> QED
    BY <2>1, <2>2, <2>3, <2>4 DEF text
<1> QED
  BY <1>1, <1>2

(* Two cells and more.                                                     *)
TwoThen(a, b, s, both) == IsSequence(s) /\ both = <<a, b>> \o s

(* They are found in front, and the rest behind them.                      *)
LEMMA TwoAndMore ==
  ASSUME NEW a, NEW b, NEW s, NEW both, TwoThen(a, b, s, both)
  PROVE  /\ IsSequence(both) /\ Len(both) = Len(s) + 2 /\ both[1] = a /\ both[2] = b
         /\ Slice(both, 2, Len(both)) = s
<1> DEFINE T == Range(s) \union {a, b}
           two == <<a, b>>
<1>0. IsSequence(s) /\ both = two \o s
  BY DEF TwoThen
<1>1. s \in Seq(T) /\ a \in T /\ b \in T
  BY <1>0, SequenceIs
<1>2. two \in Seq(T) /\ Len(two) = 2 /\ two[1] = a /\ two[2] = b
  <2> HIDE DEF T
  <2> QED
    BY <1>1
<1>3. both = two \o s /\ IsSequence(s)
  BY <1>0
<1> HIDE DEF two, T
<1>4. IsSequence(two)
  BY <1>2, SequenceOver
<1>5. /\ LiesAt(two, both, 0) /\ LiesAt(s, both, Len(two)) /\ IsSequence(both)
      /\ Len(both) = Len(two) + Len(s)
  BY <1>3, <1>4, HalvesLie
<1>6. \A i \in 1 .. Len(two) : both[i] = two[i]
  BY <1>3, <1>4, Joined
<1>7. Len(s) \in Nat
  BY <1>3, SequenceIs
<1>8. Slice(both, 2, Len(both)) = s
  <2> DEFINE at == 2
             to == Len(both)
  <2>1. at \in Nat /\ to \in Int /\ to = at + Len(s) /\ LiesAt(s, both, at)
    BY <1>2, <1>5, <1>7
  <2> HIDE DEF at, to
  <2>2. Slice(both, at, to) = s
    BY <1>3, <1>5, <2>1, PartIsSlice
  <2> QED
    BY <2>2 DEF at, to
<1>9. both[1] = a /\ both[2] = b
  <2>1. 1 \in 1 .. Len(two) /\ 2 \in 1 .. Len(two)
    BY <1>2
  <2> QED
    BY <1>2, <1>6, <2>1
<1> QED
  BY <1>2, <1>5, <1>7, <1>8, <1>9

(* What is sealed without a preamble.                                      *)
SealedWith(h, e, text, sealed) == IsSequence(text) /\ sealed = SealedText(h, e, text) \o text

(* It is opened with its key.                                              *)
LEMMA SealedTextOpens ==
  ASSUME NEW h, h.ok, NEW e, NEW text, NEW key, key.ok, key.key = SymmetricCell(e),
         NEW sealed, SealedWith(h, e, text, sealed), NEW length, length = Len(text), NEW s
  PROVE  OpenSealed(key, h, sealed, length, s) = VerifiedMessage(s, text)
<1> DEFINE a == IvCell(e)
           b == TagCell(SymmetricCell(e), h.cells, a, text)
           rest == Slice(sealed, 2, Len(sealed))
<1>1. TwoThen(a, b, text, sealed) /\ b = TagCell(key.key, h.cells, a, text)
  BY DEF SealedText, TwoThen, SealedWith
<1>6. IsSequence(text)
  BY DEF SealedWith
<1> HIDE DEF a, b
<1>2. Len(sealed) = Len(text) + 2 /\ sealed[1] = a /\ sealed[2] = b /\ rest = text
  BY <1>1, TwoAndMore
<1>3. OpenSealed(key, h, sealed, length, s) =
        IF ~key.ok \/ ~h.ok \/ Len(sealed) < 2 THEN Refused
        ELSE IF sealed[2] # TagCell(key.key, h.cells, sealed[1], rest) THEN Refused
        ELSE IF Len(rest) # length THEN Refused
        ELSE VerifiedMessage(s, rest)
  BY Zenon DEF OpenSealed
<1> HIDE DEF rest
<1>4. ~(Len(sealed) < 2)
  BY <1>2, <1>6, SequenceIs
<1>5. sealed[2] = TagCell(key.key, h.cells, sealed[1], rest)
  BY <1>1, <1>2
<1> QED
  BY <1>2, <1>3, <1>4, <1>5

(* Behind a preamble the tag is not where it is looked for.                *)
LEMMA PreambleHides ==
  ASSUME NEW pre, IsBytes(pre), pre # <<>>, NEW h, NEW e, NEW text, IsSequence(text),
         NEW sealed, sealed = pre \o SealedText(h, e, text) \o text,
         NEW key, NEW header, NEW length, NEW s
  PROVE  OpenSealed(key, header, sealed, length, s) = Refused
<1> DEFINE a == IvCell(e)
           b == TagCell(SymmetricCell(e), h.cells, a, text)
           two == <<a, b>>
           rest == Slice(sealed, 2, Len(sealed))
           tag == TagCell(key.key, header.cells, sealed[1], rest)
<1>1. tag[1] = "tag" /\ a[1] = "iv"
  BY DEF TagCell, IvCell
<1>2. two = SealedText(h, e, text)
  BY DEF SealedText
<1> HIDE DEF b, a
<1>3. IsSequence(two) /\ two[1] = a /\ Len(two) = 2
  <2>1. two \in Seq({a, b}) /\ two[1] = a /\ Len(two) = 2
    OBVIOUS
  <2> HIDE DEF two
  <2> QED
    BY <2>1, SequenceOver
<1> HIDE DEF two, tag
<1>4. IsSequence(pre) /\ Len(pre) \in Nat \ {0} /\ DOMAIN pre = 1 .. Len(pre)
  <2>1. IsSequence(pre)
    BY BytesAreText DEF IsText
  <2>2. Len(pre) # 0
    BY <2>1, EmptySeq DEF IsSequence
  <2> QED
    BY <2>1, <2>2, SequenceIs
<1>5. Three(pre, two, text, sealed)
  BY <1>2, <1>3, <1>4 DEF Three
<1>6. LiesAt(pre, sealed, 0) /\ LiesAt(two, sealed, Len(pre))
  BY <1>5, ThreeLie
<1>7. sealed[2][1] # "tag"
  <2>1. CASE Len(pre) = 1
    <3>1. 1 \in 1 .. Len(two) /\ Len(pre) + 1 = 2
      BY <1>3, <2>1
    <3>2. sealed[Len(pre) + 1] = two[1]
      BY <1>6, <3>1 DEF LiesAt
    <3> QED
      BY <1>1, <1>3, <3>1, <3>2
  <2>2. CASE Len(pre) # 1
    <3>1. 2 \in 1 .. Len(pre) /\ 0 + 2 = 2
      BY <1>4, <2>2
    <3>2. sealed[0 + 2] = pre[2]
      BY <1>6, <3>1 DEF LiesAt
    <3>3. pre[2][1] \notin FormatKinds
      BY <1>4, <3>1 DEF IsBytes
    <3> QED
      BY <3>1, <3>2, <3>3 DEF FormatKinds
  <2> QED
    BY <2>1, <2>2
<1>8. OpenSealed(key, header, sealed, length, s) =
        IF ~key.ok \/ ~header.ok \/ Len(sealed) < 2 THEN Refused
        ELSE IF sealed[2] # tag THEN Refused
        ELSE IF Len(rest) # length THEN Refused
        ELSE VerifiedMessage(s, rest)
  BY Zenon DEF OpenSealed, tag
<1>9. sealed[2] # tag
  BY <1>1, <1>7
<1> QED
  BY <1>8, <1>9

(* A message with the fields of another.                                   *)
SameMessage(w, m) ==
  /\ w.ids = m.ids /\ w.keys = m.keys /\ w.key = m.key /\ w.dataLength = m.dataLength
  /\ w.encryptedMessage = m.encryptedMessage

(* The entry a recipient finds, the header that is built again, and what   *)
(* was sealed.                                                             *)
KeyFound(w, p, e) ==
  LET k == RecipientIndex(w.ids, p)
  IN  k # 0 /\ DecryptKey(p, w.keys[k], w.key, Id(p)) = [ok |-> TRUE, key |-> SymmetricCell(e)]

MessageFound(w, h, e, pre, text) ==
  /\ BuildHeader(IdSize, w) = h /\ h.ok /\ w.dataLength = Len(text) /\ IsSequence(text)
  /\ w.encryptedMessage = pre \o SealedText(h, e, text) \o text

(* What a recipient finds in a message for several.                        *)
LEMMA SeveralFound ==
  ASSUME NEW m, NEW h, NEW e, NEW list, NEW pre, NEW text, Several(m, h, e, list, pre, text),
         NEW p, OwnId(p, list), NEW w, SameMessage(w, m)
  PROVE  KeyFound(w, p, e) /\ MessageFound(w, h, e, pre, text)
<1> DEFINE k == RecipientIndex(w.ids, p)
<1>1. /\ IsList(list) /\ list # <<>> /\ IsSequence(pre) /\ IsSequence(text)
      /\ m.ids = IdsOf(list) /\ m.keys = KeysFor(list, e) /\ m.key = e /\ m.dataLength = Len(text)
      /\ h = BuildHeader(IdSize, m) /\ h.ok
  BY DEF Several
<1>2. m.encryptedMessage = pre \o SealedText(h, e, text) \o text
  BY DEF Several
<1>3. w.ids = m.ids /\ w.keys = m.keys /\ w.key = m.key /\ w.dataLength = m.dataLength
  BY DEF SameMessage
<1>4. BuildHeader(IdSize, m) = BuildHeader(IdSize, w)
  BY <1>3, SameHeader
<1>5. k = RecipientIndex(IdsOf(list), p)
  BY <1>1, <1>3
<1> HIDE DEF k
<1>6. k \in 1 .. Len(list) /\ list[k] = p /\ Len(list) \in Nat
  BY <1>1, <1>5, IndexIs
<1>7. w.keys[k] = EncryptKey(p, e, e, Id(p))
  <2>1. k \in DOMAIN list
    BY <1>1, <1>6, SequenceIs DEF IsList
  <2>2. KeysFor(list, e)[k] = EncryptKey(list[k], e, e, Id(list[k]))
    BY <2>1 DEF KeysFor
  <2> QED
    BY <1>1, <1>3, <1>6, <2>2
<1>8. DecryptKey(p, EncryptKey(p, e, e, Id(p)), e, Id(p)) = [ok |-> TRUE, key |-> SymmetricCell(e)]
  BY KeyOpens
<1>9. DecryptKey(p, w.keys[k], w.key, Id(p)) = [ok |-> TRUE, key |-> SymmetricCell(e)]
  BY <1>1, <1>3, <1>7, <1>8
<1>10. w.encryptedMessage = m.encryptedMessage
  BY DEF SameMessage
<1>11. k # 0
  BY <1>6
<1>12. BuildHeader(IdSize, w) = h /\ h.ok /\ w.dataLength = Len(text) /\ IsSequence(text)
  BY <1>1, <1>3, <1>4
<1>13. w.encryptedMessage = pre \o SealedText(h, e, text) \o text
  BY <1>2, <1>10
<1> QED
  BY <1>9, <1>11, <1>12, <1>13, Zenon DEF KeyFound, MessageFound, k

(* It opens, whole or in parts.                                            *)
OpensFor(w, p, s, text) ==
  /\ DecryptMultiple(IdSize, w, p, TRUE, s) = VerifiedMessage(s, text)
  /\ DecryptMultipleParts(IdSize, w.encryptedMessage, w.ids, w.keys, w.key, p, s)
       = VerifiedMessage(s, text)

(* Without a preamble a recipient opens it.                                *)
LEMMA SeveralOpens ==
  ASSUME NEW m, NEW h, NEW e, NEW list, NEW pre, NEW text, Several(m, h, e, list, pre, text),
         NEW p, OwnId(p, list), NEW w, SameMessage(w, m), NEW s
  PROVE  pre = <<>> => OpensFor(w, p, s, text)
<1> DEFINE k == RecipientIndex(w.ids, p)
           key == DecryptKey(p, w.keys[k], w.key, Id(p))
           header == BuildHeader(IdSize, w)
           sealed == w.encryptedMessage
           length == w.dataLength
           short == Len(sealed) - 2
           u == [dataLength |-> short, ids |-> w.ids, keys |-> w.keys, key |-> w.key]
<1>1. /\ k # 0 /\ key = [ok |-> TRUE, key |-> SymmetricCell(e)]
      /\ header = h /\ h.ok /\ length = Len(text) /\ IsSequence(text)
      /\ sealed = pre \o SealedText(h, e, text) \o text
  <2>1. KeyFound(w, p, e) /\ MessageFound(w, h, e, pre, text)
    BY SeveralFound
  <2>2. k # 0 /\ key = [ok |-> TRUE, key |-> SymmetricCell(e)]
    BY <2>1, Zenon DEF KeyFound
  <2>3. /\ header = h /\ h.ok /\ length = Len(text) /\ IsSequence(text)
        /\ sealed = pre \o SealedText(h, e, text) \o text
    BY <2>1, Zenon DEF MessageFound
  <2> HIDE DEF k, key, header, sealed, length
  <2> QED
    BY <2>2, <2>3
<1>0. SUFFICES ASSUME pre = <<>> PROVE OpensFor(w, p, s, text)
  OBVIOUS
<1>2. DecryptMultiple(IdSize, w, p, TRUE, s) =
        IF ~TRUE \/ k = 0 THEN Refused ELSE OpenSealed(key, header, sealed, length, s)
  BY Zenon DEF DecryptMultiple
<1>3. DecryptMultipleParts(IdSize, sealed, w.ids, w.keys, w.key, p, s) =
        IF k = 0 THEN Refused ELSE OpenSealed(key, BuildHeader(IdSize, u), sealed, u.dataLength, s)
  BY Zenon DEF DecryptMultipleParts
<1>4. SealedWith(h, e, text, sealed)
  <2> DEFINE tagged == SealedText(h, e, text)
  <2>1. IsSequence(tagged)
    <3> DEFINE a == IvCell(e)
               b == TagCell(SymmetricCell(e), h.cells, IvCell(e), text)
    <3> HIDE DEF a, b
    <3>1. <<a, b>> \in Seq({a, b})
      OBVIOUS
    <3> QED
      BY <3>1, SequenceOver DEF a, b, SealedText
  <2> HIDE DEF tagged
  <2>2. <<>> \o tagged = tagged
    BY <2>1, SequenceIs
  <2>3. sealed = <<>> \o tagged \o text
    BY <1>0, <1>1 DEF tagged
  <2>4. sealed = tagged \o text
    BY <2>2, <2>3
  <2> QED
    BY <1>1, <2>4 DEF SealedWith, tagged
<1>5. Len(sealed) = Len(text) + 2
  <2> DEFINE a == IvCell(e)
             b == TagCell(SymmetricCell(e), h.cells, a, text)
  <2>1. TwoThen(a, b, text, sealed)
    BY <1>4 DEF SealedWith, TwoThen, SealedText
  <2> HIDE DEF a, b, sealed
  <2> QED
    BY <2>1, TwoAndMore
<1>6. short = length
  <2>1. Len(text) \in Nat
    BY <1>1, SequenceIs
  <2> HIDE DEF sealed, length
  <2> QED
    BY <1>1, <1>5, <2>1
<1>7. u.dataLength = short /\ u.ids = w.ids /\ u.keys = w.keys /\ u.key = w.key
  OBVIOUS
<1> HIDE DEF u, short
<1>8. BuildHeader(IdSize, u) = header
  <2>1. u.ids = w.ids /\ u.keys = w.keys /\ u.key = w.key /\ u.dataLength = w.dataLength
    BY <1>6, <1>7
  <2> QED
    BY <2>1, SameHeader
<1>9. key.ok /\ key.key = SymmetricCell(e)
  BY <1>1
<1> HIDE DEF key, k, header
<1>10. OpenSealed(key, h, sealed, length, s) = VerifiedMessage(s, text)
  <2>1. h.ok /\ length = Len(text)
    BY <1>1
  <2> HIDE DEF length, sealed
  <2> QED
    BY <1>4, <1>9, <2>1, SealedTextOpens
<1>11. k # 0 /\ header = h
  BY <1>1
<1> HIDE DEF sealed, length
<1>12. DecryptMultiple(IdSize, w, p, TRUE, s) = VerifiedMessage(s, text)
  BY <1>2, <1>10, <1>11
<1>13. DecryptMultipleParts(IdSize, sealed, w.ids, w.keys, w.key, p, s) = VerifiedMessage(s, text)
  BY <1>3, <1>6, <1>7, <1>8, <1>10, <1>11
<1> QED
  BY <1>12, <1>13, Zenon DEF sealed, OpensFor

(* Behind a preamble nobody opens it.                                      *)
LEMMA SeveralHidden ==
  ASSUME NEW m, NEW h, NEW e, NEW list, NEW pre, NEW text, Several(m, h, e, list, pre, text),
         IsBytes(pre), pre # <<>>, NEW p, NEW w, SameMessage(w, m), NEW s
  PROVE  ~DecryptMultiple(IdSize, w, p, TRUE, s).ok
<1> DEFINE k == RecipientIndex(w.ids, p)
           key == DecryptKey(p, w.keys[k], w.key, Id(p))
           header == BuildHeader(IdSize, w)
           sealed == w.encryptedMessage
           length == w.dataLength
<1>1. DecryptMultiple(IdSize, w, p, TRUE, s) =
        IF ~TRUE \/ k = 0 THEN Refused ELSE OpenSealed(key, header, sealed, length, s)
  BY Zenon DEF DecryptMultiple
<1>2. sealed = pre \o SealedText(h, e, text) \o text /\ IsSequence(text)
  BY DEF SameMessage, Several
<1> HIDE DEF k, key, header, sealed, length
<1>3. OpenSealed(key, header, sealed, length, s) = Refused
  BY <1>2, PreambleHides
<1>4. DecryptMultiple(IdSize, w, p, TRUE, s) = Refused
  BY <1>1, <1>3
<1> DEFINE opened == DecryptMultiple(IdSize, w, p, TRUE, s)
<1> HIDE DEF opened
<1>5. opened = Refused
  BY <1>4 DEF opened
<1>6. ~opened.ok
  BY <1>5 DEF Refused
<1> QED
  BY <1>6 DEF opened

(* Ids tell the recipients of a list apart.                                *)
LEMMA RecipientsOwnIds ==
  ASSUME NEW list \in Recipients, NEW p \in Range(list)
  PROVE  /\ OwnId(p, list) /\ IsSequence(Id(p)) /\ Id(p) # <<>> /\ IsBytes(Id(p))
         /\ \A q \in Range(list) : IsSequence(Id(q)) /\ IsBytes(Id(q))
                                   /\ (IsPrefix(Id(p), Id(q)) \/ IsPrefix(Id(q), Id(p)) => q = p)
<1> DEFINE all == Members \union UNION {Range(r) : r \in Recipients}
<1>1. \A m \in all : IsBytes(Id(m)) /\ Id(m) # <<>>
  BY BytesAssumption
<1>2. \A m, o \in all : IsPrefix(Id(m), Id(o)) => m = o
  BY IdAssumption
<1>3. \A q \in Range(list) : q \in all
  OBVIOUS
<1> HIDE DEF all
<1>4. ASSUME NEW q \in Range(list)
      PROVE  IsSequence(Id(q)) /\ IsBytes(Id(q)) /\ Id(q) # <<>>
  <2> DEFINE id == Id(q)
  <2>1. IsBytes(id) /\ id # <<>>
    BY <1>1, <1>3
  <2> HIDE DEF id
  <2>2. IsSequence(id)
    BY <2>1, BytesAreText DEF IsText
  <2> QED
    BY <2>1, <2>2 DEF id
<1>5. ASSUME NEW q \in Range(list), IsPrefix(Id(p), Id(q)) \/ IsPrefix(Id(q), Id(p))
      PROVE  q = p
  BY <1>2, <1>3, <1>5
<1>6. ASSUME NEW q \in Range(list), Id(q) = Id(p)
      PROVE  q = p
  <2> DEFINE id == Id(p)
  <2>1. IsSequence(id)
    BY <1>4
  <2> HIDE DEF id
  <2>2. Len(id) \in Nat
    BY <2>1, SequenceIs
  <2>3. IsPrefix(id, id)
    BY <2>1, <2>2, PrefixIs
  <2>4. IsPrefix(Id(p), Id(q))
    BY <1>6, <2>3 DEF id
  <2> QED
    BY <1>5, <2>4
<1>7. OwnId(p, list)
  BY <1>6 DEF OwnId
<1> QED
  BY <1>4, <1>5, <1>7

(* A message for several, as it is parsed again.                           *)
LEMMA WholeMultipleOpens ==
  ASSUME NEW r, MultipleWhole(r), NEW p \in r.to, NEW data, data = r.cells
  PROVE  MultipleOpens(p, r, ParseMultiEncryptedBuffer(IdSize, data))
<1>1. PICK e, m : \E list \in Recipients, message \in Messages, pre \in Preambles :
        /\ r.to = Range(list) /\ r.parts = <<Part(pre, message)>>
        /\ m = EncryptMultiple(IdSize, e, list, message, pre, r.signer) /\ m.ok
        /\ r.cells = BuildHeader(IdSize, m).cells \o m.encryptedMessage
  BY DEF MultipleWhole
<1>2. PICK list \in Recipients, message \in Messages, pre \in Preambles :
        /\ r.to = Range(list) /\ r.parts = <<Part(pre, message)>>
        /\ m = EncryptMultiple(IdSize, e, list, message, pre, r.signer) /\ m.ok
        /\ r.cells = BuildHeader(IdSize, m).cells \o m.encryptedMessage
  BY <1>1
<1>3. r.parts[1].preamble = pre /\ r.parts[1].data = message
  BY <1>2 DEF Part
<1> DEFINE s == r.signer
           text == Signed(s, message)
           h == BuildHeader(IdSize, m)
           w == ParseMultiEncryptedBuffer(IdSize, data)
<1>4. IsList(list) /\ IsText(message) /\ IsSequence(message) /\ IsBytes(pre) /\ IsSequence(pre)
  <2>1. IsList(list) /\ IsText(message) /\ IsBytes(pre) /\ IsText(pre)
    BY MembersHaveIds
  <2> QED
    BY <2>1 DEF IsText
<1>5. OwnId(p, list)
  <2>1. p \in Range(list)
    BY <1>2
  <2> QED
    BY <2>1, RecipientsOwnIds
<1>6. Several(m, h, e, list, pre, text)
  <2>1. m.ok /\ m = EncryptMultiple(IdSize, e, list, message, pre, s)
    BY <1>2
  <2> QED
    BY <1>4, <2>1, EncryptedForSeveral
<1>7. w = ParseMultiEncryptedBuffer(IdSize, h.cells \o m.encryptedMessage)
  BY <1>2
<1>8. VerifiedMessage(s, text) = [ok |-> TRUE, decrypted |-> message]
  BY <1>4, SignedVerifies
<1> DEFINE opened == DecryptMultiple(IdSize, w, p, TRUE, s)
           inParts == DecryptMultipleParts(IdSize, w.encryptedMessage, w.ids, w.keys, w.key, p, s)
           plain == [ok |-> TRUE, decrypted |-> message]
<1>9. MultipleOpens(p, r, w) <=>
        IF r.parts[1].preamble # <<>> \/ Signed(s, r.parts[1].data) = <<>>
        THEN w.ok => ~opened.ok
        ELSE /\ w.ok /\ w.headerSize = GetMultiHeaderSize(IdSize, Len(w.ids))
             /\ opened = [ok |-> TRUE, decrypted |-> r.parts[1].data]
             /\ inParts = [ok |-> TRUE, decrypted |-> r.parts[1].data]
  BY Zenon DEF MultipleOpens
<1>10. MultipleOpens(p, r, w) <=>
        IF pre # <<>> \/ text = <<>>
        THEN w.ok => ~opened.ok
        ELSE /\ w.ok /\ w.headerSize = GetMultiHeaderSize(IdSize, Len(w.ids))
             /\ opened = plain /\ inParts = plain
  <2> HIDE DEF w, opened, inParts
  <2> QED
    BY <1>3, <1>9
<1>15. /\ pre # <<>> \/ text = <<>> => (MultipleOpens(p, r, w) <=> (w.ok => ~opened.ok))
       /\ ~(pre # <<>> \/ text = <<>>) =>
            (MultipleOpens(p, r, w) <=>
               /\ w.ok /\ w.headerSize = GetMultiHeaderSize(IdSize, Len(w.ids))
               /\ opened = plain /\ inParts = plain)
  <2> HIDE DEF w, opened, inParts, text, plain
  <2> QED
    BY <1>10, Zenon
<1> HIDE DEF s, text, h
<1>11. /\ text = <<>> => ~w.ok
       /\ text # <<>> => /\ w.ok /\ w.ids = m.ids /\ w.keys = m.keys /\ w.key = m.key
                         /\ w.dataLength = m.dataLength /\ w.encryptedMessage = m.encryptedMessage
                         /\ w.headerSize = GetMultiHeaderSize(IdSize, Len(w.ids))
  <2> HIDE DEF w
  <2> QED
    BY <1>6, <1>7, SeveralParse
<1>16. SUFFICES MultipleOpens(p, r, w)
  OBVIOUS
<1> HIDE DEF w
<1>12. CASE text = <<>>
  BY <1>11, <1>12, <1>15, Zenon
<1>13. CASE text # <<>> /\ pre # <<>>
  <2>1. SameMessage(w, m)
    BY <1>11, <1>13 DEF SameMessage
  <2>2. pre # <<>>
    BY <1>13
  <2>3. ~opened.ok
    BY <1>4, <1>6, <2>1, <2>2, SeveralHidden
  <2> QED
    BY <1>13, <1>15, <2>3, Zenon
<1>14. CASE text # <<>> /\ pre = <<>>
  <2>1. SameMessage(w, m)
    BY <1>11, <1>14 DEF SameMessage
  <2>2. pre = <<>> => OpensFor(w, p, s, text)
    BY <1>5, <1>6, <2>1, SeveralOpens
  <2>5. opened = VerifiedMessage(s, text) /\ inParts = VerifiedMessage(s, text)
    BY <1>14, <2>2, Zenon DEF OpensFor
  <2>3. opened = plain /\ inParts = plain
    <3> HIDE DEF opened, inParts
    <3> QED
      BY <1>8, <2>5
  <2>4. w.ok /\ w.headerSize = GetMultiHeaderSize(IdSize, Len(w.ids))
    BY <1>11, <1>14
  <2> HIDE DEF opened, inParts, plain
  <2> QED
    BY <1>14, <1>15, <2>3, <2>4, Zenon
<1> QED
  BY <1>12, <1>13, <1>14

(* The entry of a chunk for a member, and those of a list.                 *)
EntryOf(q, e, sym) ==
  Fitted(Id(q), IdSize) \o <<<<"number", EncryptedKeySize>>>> \o EncryptKey(q, e, sym, Id(q))

EntriesOf(list, e, sym) == [i \in DOMAIN list |-> EntryOf(list[i], e, sym)]

EntryWidth == IdSize + 4

(* What lies where in an entry.                                            *)
EntryAt(q, e, sym, s, at) ==
  /\ IsSequence(Fitted(Id(q), IdSize)) /\ Len(Fitted(Id(q), IdSize)) = IdSize
  /\ LiesAt(Fitted(Id(q), IdSize), s, at)
  /\ s[at + IdSize + 1] = <<"number", 3>> /\ at + IdSize + 1 <= Len(s)
  /\ IsSequence(EncryptKey(q, e, sym, Id(q))) /\ Len(EncryptKey(q, e, sym, Id(q))) = 3
  /\ LiesAt(EncryptKey(q, e, sym, Id(q)), s, at + IdSize + 1)

(* An id in the room for it is a sequence of this length.                  *)
LEMMA FittedIs ==
  ASSUME NEW id, IsSequence(id)
  PROVE  /\ IsSequence(Fitted(id, IdSize)) /\ Len(Fitted(id, IdSize)) = IdSize
         /\ \A i \in 1 .. IdSize : Fitted(id, IdSize)[i] = IF i <= Len(id) THEN id[i] ELSE Cell("zero")
<1> DEFINE f == Fitted(id, IdSize)
           T == Range(id) \union {Cell("zero")}
<1>1. Len(id) \in Nat /\ \A i \in 1 .. Len(id) : id[i] \in Range(id)
  BY SequenceIs
<1>2. f = [i \in 1 .. IdSize |-> IF i <= Len(id) THEN id[i] ELSE Cell("zero")]
  BY Zenon DEF Fitted
<1>3. \A i \in 1 .. IdSize : f[i] \in T
  BY <1>1, <1>2, SizeAssumption
<1>4. f = [i \in 1 .. IdSize |-> f[i]]
  BY <1>2
<1>5. \A i \in 1 .. IdSize : f[i] = IF i <= Len(id) THEN id[i] ELSE Cell("zero")
  BY <1>2
<1> HIDE DEF f, T
<1>6. f \in Seq(T) /\ Len(f) = IdSize
  BY <1>3, <1>4, SizeAssumption
<1>7. IsSequence(f)
  BY <1>6, SequenceOver
<1> QED
  BY <1>5, <1>6, <1>7 DEF f

(* An entry by itself.                                                     *)
LEMMA EntryIs ==
  ASSUME NEW q, IsSequence(Id(q)), NEW e, NEW sym
  PROVE  /\ IsSequence(EntryOf(q, e, sym)) /\ Len(EntryOf(q, e, sym)) = EntryWidth
         /\ EntryAt(q, e, sym, EntryOf(q, e, sym), 0)
<1> DEFINE a == Fitted(Id(q), IdSize)
           c == EncryptKey(q, e, sym, Id(q))
           number == <<"number", EncryptedKeySize>>
           b == <<number>>
           s == EntryOf(q, e, sym)
<1>1. IsSequence(a) /\ Len(a) = IdSize
  BY FittedIs
<1>2. IsSequence(c) /\ Len(c) = 3
  BY KeyOpens
<1>3. s = a \o b \o c
  BY Zenon DEF EntryOf
<1>4. number = <<"number", 3>>
  BY DEF EncryptedKeySize
<1> HIDE DEF number
<1>5. IsSequence(b) /\ Len(b) = 1 /\ b[1] = number
  BY Shorts
<1> HIDE DEF a, b, c, s
<1>6. Three(a, b, c, s)
  BY <1>1, <1>2, <1>3, <1>5 DEF Three
<1>7. /\ IsSequence(s) /\ Len(s) = Len(a) + Len(b) + Len(c)
      /\ LiesAt(a, s, 0) /\ LiesAt(b, s, Len(a)) /\ LiesAt(c, s, Len(a) + Len(b))
  BY <1>6, ThreeLie
<1>8. IdSize \in Nat
  BY SizeAssumption
<1>9. Len(s) = IdSize + 4
  BY <1>1, <1>2, <1>5, <1>7, <1>8
<1>10. s[IdSize + 1] = number /\ 0 + IdSize + 1 = IdSize + 1 /\ IdSize + 1 <= Len(s)
  <2>1. 1 \in 1 .. Len(b) /\ Len(a) + 1 = IdSize + 1
    BY <1>1, <1>5
  <2>2. s[Len(a) + 1] = b[1]
    BY <1>7, <2>1 DEF LiesAt
  <2> QED
    BY <1>5, <1>8, <1>9, <2>1, <2>2
<1>11. LiesAt(c, s, 0 + IdSize + 1)
  <2>1. Len(a) + Len(b) = 0 + IdSize + 1
    BY <1>1, <1>5, <1>8
  <2> QED
    BY <1>7, <2>1
<1>12. s[0 + IdSize + 1] = <<"number", 3>> /\ 0 + IdSize + 1 <= Len(s)
  BY <1>4, <1>10
<1>13. EntryAt(q, e, sym, s, 0)
  BY <1>1, <1>2, <1>7, <1>11, <1>12, Zenon DEF EntryAt, a, c
<1> QED
  BY <1>7, <1>9, <1>13 DEF EntryWidth, s

(* In a sequence an entry is part of it is the same further on.            *)
LEMMA EntryInside ==
  ASSUME NEW q, NEW e, NEW sym, NEW s, IsSequence(s), EntryAt(q, e, sym, s, 0),
         NEW data, IsSequence(data), NEW at \in Nat, LiesAt(s, data, at)
  PROVE  EntryAt(q, e, sym, data, at)
<1> DEFINE a == Fitted(Id(q), IdSize)
           c == EncryptKey(q, e, sym, Id(q))
           from == 0 + IdSize + 1
           to == at + IdSize + 1
           zero == 0
<1>1. /\ IsSequence(a) /\ Len(a) = IdSize /\ LiesAt(a, s, 0)
      /\ s[from] = <<"number", 3>> /\ from <= Len(s)
      /\ IsSequence(c) /\ Len(c) = 3 /\ LiesAt(c, s, from)
  BY Zenon DEF EntryAt
<1>2. IdSize \in Nat /\ Len(s) \in Nat /\ Len(data) \in Nat
  BY SequenceIs, SizeAssumption
<1> HIDE DEF a, c
<1>3. from \in Nat /\ to = from + at /\ zero \in Nat /\ at = zero + at /\ from \in 1 .. Len(s)
      /\ at + from = to
  BY <1>1, <1>2
<1>4. LiesAt(a, s, zero)
  BY <1>1
<1> HIDE DEF from, to, zero
<1>5. LiesAt(a, data, at)
  BY <1>1, <1>3, <1>4, PartOfPart
<1>6. LiesAt(c, data, to)
  BY <1>1, <1>3, PartOfPart
<1>7. data[to] = <<"number", 3>> /\ to <= Len(data)
  <2>1. data[at + from] = s[from] /\ at + Len(s) <= Len(data)
    BY <1>3 DEF LiesAt
  <2>2. to <= Len(data)
    BY <1>1, <1>2, <1>3, <2>1
  <2> QED
    BY <1>1, <1>3, <2>1, <2>2
<1> QED
  BY <1>1, <1>5, <1>6, <1>7, Zenon DEF EntryAt, a, c, to

(* The entries for a list, behind the fixed fields of a chunk.             *)
ListedAt(list, n, e, sym, data) ==
  /\ IsSequence(list) /\ n \in Nat /\ n = Len(list) /\ \A i \in 1 .. n : IsSequence(Id(list[i]))
  /\ IsSequence(data) /\ LiesAt(FlattenSeq(EntriesOf(list, e, sym)), data, 9)

(* How they are counted.                                                   *)
LEMMA EntriesAre ==
  ASSUME NEW list, IsSequence(list), NEW n, n = Len(list), \A i \in 1 .. n : IsSequence(Id(list[i])), NEW e, NEW sym
  PROVE  EqualParts(EntriesOf(list, e, sym), n, EntryWidth) /\ n \in Nat
         /\ \A i \in 1 .. n : EntriesOf(list, e, sym)[i] = EntryOf(list[i], e, sym)
<1> DEFINE f == EntriesOf(list, e, sym)
<1>1. n \in Nat /\ DOMAIN list = 1 .. n
  BY SequenceIs
<1>2. DOMAIN f = DOMAIN list /\ f = [i \in DOMAIN list |-> f[i]]
      /\ \A i \in DOMAIN list : f[i] = EntryOf(list[i], e, sym)
  BY DEF EntriesOf
<1> HIDE DEF f
<1>3. IsSequence(f) /\ Len(f) = n
  BY <1>2, ListOf
<1>4. \A i \in 1 .. n : f[i] = EntryOf(list[i], e, sym)
  BY <1>1, <1>2
<1>5. ASSUME NEW i \in 1 .. n PROVE IsSequence(f[i]) /\ Len(f[i]) = EntryWidth
  <2> DEFINE q == list[i]
  <2>1. IsSequence(Id(q)) /\ f[i] = EntryOf(q, e, sym)
    BY <1>4
  <2> HIDE DEF q
  <2>2. IsSequence(EntryOf(q, e, sym)) /\ Len(EntryOf(q, e, sym)) = EntryWidth
    BY <2>1, EntryIs
  <2> QED
    BY <2>1, <2>2
<1>6. EntryWidth \in Nat
  BY SizeAssumption DEF EntryWidth
<1>7. EqualParts(f, n, EntryWidth)
  BY <1>1, <1>3, <1>5, <1>6 DEF EqualParts
<1> QED
  BY <1>1, <1>4, <1>7 DEF f

(* Each is where the count says.                                           *)
LEMMA EntryListed ==
  ASSUME NEW list, NEW n, NEW e, NEW sym, NEW data, ListedAt(list, n, e, sym, data),
         NEW i \in 1 .. n, NEW at, at = 9 + (i - 1) * EntryWidth
  PROVE  at \in Nat /\ EntryAt(list[i], e, sym, data, at)
<1> DEFINE all == FlattenSeq(EntriesOf(list, e, sym))
           q == list[i]
           s == EntryOf(q, e, sym)
           from == (i - 1) * EntryWidth
<1>1. IsSequence(list) /\ n = Len(list) /\ \A j \in 1 .. n : IsSequence(Id(list[j]))
  BY DEF ListedAt
<1>2. IsSequence(data) /\ LiesAt(all, data, 9) /\ n \in Nat
  BY DEF ListedAt
<1>3. EqualParts(EntriesOf(list, e, sym), n, EntryWidth)
  BY <1>1, EntriesAre
<1>4. \A j \in 1 .. n : EntriesOf(list, e, sym)[j] = EntryOf(list[j], e, sym)
  BY <1>1, EntriesAre
<1>5. IsSequence(all) /\ LiesAt(s, all, from)
  <2>1. IsSequence(FlattenSeq(EntriesOf(list, e, sym)))
        /\ \A j \in 1 .. n : LiesAt(EntriesOf(list, e, sym)[j], FlattenSeq(EntriesOf(list, e, sym)), (j - 1) * EntryWidth)
    BY <1>3, EqualPartsLie
  <2>2. EntriesOf(list, e, sym)[i] = s
    BY <1>4
  <2> QED
    BY <2>1, <2>2
<1>6. IsSequence(Id(q))
  BY <1>1
<1> DEFINE zero == 0
<1>7. IsSequence(s) /\ EntryAt(q, e, sym, s, 0)
  BY <1>6, EntryIs
<1>8. from \in Nat
  <2>1. i - 1 \in Nat /\ EntryWidth \in Nat
    BY <1>2, <1>3 DEF EqualParts
  <2> QED
    BY <2>1
<1>9. at = from + 9
  BY <1>8
<1> HIDE DEF all, s, from, q
<1>10. at \in Nat
  BY <1>8, <1>9
<1>11. LiesAt(s, data, at)
  <2> DEFINE nine == 9
  <2>1. nine \in Nat /\ at = from + nine /\ LiesAt(all, data, nine)
    BY <1>2, <1>9
  <2> HIDE DEF nine
  <2> QED
    BY <1>2, <1>5, <1>7, <1>8, <2>1, PartOfPart
<1>12. EntryAt(q, e, sym, data, at)
  BY <1>2, <1>7, <1>10, <1>11, EntryInside
<1> QED
  BY <1>10, <1>12 DEF q

(* What an entry gives when it is read where it begins.                    *)
LEMMA EntryRead ==
  ASSUME NEW q, NEW e, NEW sym, NEW data, IsSequence(data), NEW at \in Nat, EntryAt(q, e, sym, data, at)
  PROVE  /\ EntryEnd(IdSize, data, at) = at + EntryWidth /\ at + IdSize + 1 <= Len(data)
         /\ Slice(data, at, at + IdSize) = Fitted(Id(q), IdSize)
         /\ Slice(data, at + IdSize + 1, at + EntryWidth) = EncryptKey(q, e, sym, Id(q))
<1> DEFINE a == Fitted(Id(q), IdSize)
           c == EncryptKey(q, e, sym, Id(q))
           from == at + IdSize + 1
           middle == at + IdSize
           to == at + EntryWidth
<1>1. /\ IsSequence(a) /\ Len(a) = IdSize /\ LiesAt(a, data, at)
      /\ data[from] = <<"number", 3>> /\ from <= Len(data)
      /\ IsSequence(c) /\ Len(c) = 3 /\ LiesAt(c, data, from)
  BY Zenon DEF EntryAt
<1>2. IdSize \in Nat /\ Len(data) \in Nat
  BY SequenceIs, SizeAssumption
<1>3. EntryEnd(IdSize, data, at) = IF from > Len(data) THEN at ELSE from + NumberIn(data[from])
  BY Zenon DEF EntryEnd
<1> HIDE DEF a, c
<1>4. from \in Nat /\ from \in Int /\ middle \in Int /\ middle = at + Len(a)
      /\ to = from + Len(c) /\ to \in Int /\ to = from + 3
  BY <1>1, <1>2 DEF EntryWidth
<1> HIDE DEF from, to, middle
<1>5. Slice(data, at, middle) = a
  BY <1>1, <1>4, PartIsSlice
<1>6. Slice(data, from, to) = c
  BY <1>1, <1>4, PartIsSlice
<1>7. EntryEnd(IdSize, data, at) = to
  <2>1. NumberIn(data[from]) = 3
    BY <1>1 DEF NumberIn
  <2>2. ~(from > Len(data))
    BY <1>1, <1>2, <1>4
  <2> QED
    BY <1>3, <1>4, <2>1, <2>2
<1> QED
  BY <1>1, <1>5, <1>6, <1>7 DEF a, c, from, to, middle

(* The recipient headers as they were written.                             *)
ReadBack(headers, list, n, e, sym, data) ==
  /\ headers.ok /\ headers.end = 9 + n * EntryWidth /\ DOMAIN headers.entries = 1 .. n
  /\ \A i \in 1 .. n : /\ headers.entries[i].id = Fitted(Id(list[i]), IdSize)
                       /\ headers.entries[i].key = EncryptKey(list[i], e, sym, Id(list[i]))

(* So they are read.                                                       *)
LEMMA HeadersReadBack ==
  ASSUME NEW list, NEW n, NEW e, NEW sym, NEW data, ListedAt(list, n, e, sym, data)
  PROVE  ReadBack(RecipientHeaders(IdSize, data, n), list, n, e, sym, data)
<1> DEFINE F == CHOOSE f : f = [i \in 0 .. n |-> IF i = 0 THEN ChunkHeaderSize
                                                ELSE EntryEnd(IdSize, data, f[i - 1])]
           off == [i \in Nat |-> 9 + i * EntryWidth]
           headers == RecipientHeaders(IdSize, data, n)
<1>0. n \in Nat /\ IsSequence(data)
  BY DEF ListedAt
<1>1. F = [i \in 0 .. n |-> IF i = 0 THEN ChunkHeaderSize ELSE EntryEnd(IdSize, data, F[i - 1])]
  <2>1. \E f : f = [i \in 0 .. n |-> IF i = 0 THEN ChunkHeaderSize
                                     ELSE EntryEnd(IdSize, data, f[i - 1])]
    BY <1>0, EndsExist
  <2> QED
    BY <2>1, Zenon
<1> DEFINE entries == [i \in 1 .. n |->
                        [id |-> Slice(data, F[i - 1], F[i - 1] + IdSize),
                         key |-> Slice(data, F[i - 1] + IdSize + 1, F[i])]]
           fine == \A i \in 1 .. n : F[i - 1] + IdSize + 1 <= Len(data)
<1>2. headers = [ok |-> fine, end |-> F[n], entries |-> entries]
  BY Zenon DEF RecipientHeaders
<1> HIDE DEF F
<1>3. F[0] = 9 /\ \A i \in 1 .. n : F[i] = EntryEnd(IdSize, data, F[i - 1])
  <2>1. \A i \in 0 .. n : F[i] = IF i = 0 THEN ChunkHeaderSize ELSE EntryEnd(IdSize, data, F[i - 1])
    BY <1>1
  <2>2. 0 \in 0 .. n /\ \A i \in 1 .. n : i \in 0 .. n /\ i # 0
    BY <1>0
  <2> QED
    BY <2>1, <2>2 DEF ChunkHeaderSize
<1>4. EntryWidth \in Nat /\ EntryWidth = IdSize + 4 /\ IdSize \in Nat
  BY SizeAssumption DEF EntryWidth
<1>5. off[0] = 9 /\ \A i \in Nat : off[i] = 9 + i * EntryWidth
  BY <1>4
<1> HIDE DEF off
<1>6. ASSUME NEW i \in 1 .. n PROVE off[i - 1] \in Nat /\ off[i] = off[i - 1] + EntryWidth
  <2>1. i \in Nat /\ i - 1 \in Nat
    OBVIOUS
  <2>2. off[i] = 9 + i * EntryWidth /\ off[i - 1] = 9 + (i - 1) * EntryWidth
    BY <1>5, <2>1
  <2>3. i * EntryWidth = (i - 1) * EntryWidth + EntryWidth /\ (i - 1) * EntryWidth \in Nat
    BY <1>4, <2>1
  <2> QED
    BY <1>4, <2>2, <2>3
<1>7. ASSUME NEW i \in 1 .. n
      PROVE  /\ EntryEnd(IdSize, data, off[i - 1]) = off[i] /\ off[i - 1] + IdSize + 1 <= Len(data)
             /\ Slice(data, off[i - 1], off[i - 1] + IdSize) = Fitted(Id(list[i]), IdSize)
             /\ Slice(data, off[i - 1] + IdSize + 1, off[i]) = EncryptKey(list[i], e, sym, Id(list[i]))
  <2> DEFINE at == off[i - 1]
             q == list[i]
  <2>1. at = 9 + (i - 1) * EntryWidth
    <3>1. i - 1 \in Nat
      OBVIOUS
    <3> QED
      BY <1>5, <3>1
  <2>2. at \in Nat /\ off[i] = at + EntryWidth
    BY <1>6
  <2> HIDE DEF at
  <2>3. EntryAt(q, e, sym, data, at)
    BY <2>1, EntryListed
  <2> HIDE DEF q
  <2>4. /\ EntryEnd(IdSize, data, at) = at + EntryWidth /\ at + IdSize + 1 <= Len(data)
        /\ Slice(data, at, at + IdSize) = Fitted(Id(q), IdSize)
        /\ Slice(data, at + IdSize + 1, at + EntryWidth) = EncryptKey(q, e, sym, Id(q))
    BY <1>0, <2>2, <2>3, EntryRead
  <2> DEFINE to == at + EntryWidth
  <2>5. off[i] = to
    BY <2>2
  <2>6. /\ EntryEnd(IdSize, data, at) = to /\ at + IdSize + 1 <= Len(data)
        /\ Slice(data, at, at + IdSize) = Fitted(Id(q), IdSize)
        /\ Slice(data, at + IdSize + 1, to) = EncryptKey(q, e, sym, Id(q))
    BY <2>4
  <2> HIDE DEF to
  <2> QED
    BY <2>5, <2>6 DEF at, q
<1>8. \A k \in 0 .. n : F[k] = off[k]
  <2> DEFINE P == {k \in Nat : k \in 0 .. n => F[k] = off[k]}
  <2>1. 0 \in P
    BY <1>3, <1>5
  <2>2. ASSUME NEW k \in Nat, k \in P PROVE k + 1 \in P
    <3> SUFFICES ASSUME k + 1 \in 0 .. n PROVE F[k + 1] = off[k + 1]
      OBVIOUS
    <3>1. k \in 0 .. n /\ k + 1 \in 1 .. n /\ (k + 1) - 1 = k
      BY <1>0
    <3>2. F[k] = off[k]
      BY <2>2, <3>1
    <3>3. F[k + 1] = EntryEnd(IdSize, data, F[k])
      BY <1>3, <3>1
    <3>4. EntryEnd(IdSize, data, off[k]) = off[k + 1]
      BY <1>7, <3>1
    <3> QED
      BY <3>2, <3>3, <3>4
  <2> HIDE DEF P
  <2>3. \A k \in Nat : k \in P
    BY <2>1, <2>2, NumbersInduction
  <2> QED
    BY <2>3 DEF P
<1>9. ASSUME NEW i \in 1 .. n
      PROVE  /\ F[i - 1] + IdSize + 1 <= Len(data) /\ entries[i].id = Fitted(Id(list[i]), IdSize)
             /\ entries[i].key = EncryptKey(list[i], e, sym, Id(list[i]))
  <2>1. F[i - 1] = off[i - 1] /\ F[i] = off[i]
    BY <1>0, <1>8
  <2>2. /\ entries[i].id = Slice(data, F[i - 1], F[i - 1] + IdSize)
        /\ entries[i].key = Slice(data, F[i - 1] + IdSize + 1, F[i])
    OBVIOUS
  <2> HIDE DEF entries
  <2> QED
    BY <1>7, <2>1, <2>2
<1>10. F[n] = 9 + n * EntryWidth
  BY <1>0, <1>5, <1>8
<1>11. fine
  BY <1>9
<1>12. DOMAIN entries = 1 .. n
  OBVIOUS
<1> HIDE DEF entries, fine, headers
<1>13. headers.ok = fine /\ headers.end = F[n] /\ headers.entries = entries
  <2> DEFINE c == fine
  <2> HIDE DEF c
  <2>1. headers = [ok |-> c, end |-> F[n], entries |-> entries]
    BY <1>2 DEF c
  <2>2. headers.ok = c /\ headers.end = F[n] /\ headers.entries = entries
    BY <2>1
  <2> QED
    BY <2>2 DEF c
<1>14. headers.ok /\ headers.end = 9 + n * EntryWidth
  BY <1>10, <1>11, <1>13
<1>15. DOMAIN headers.entries = 1 .. n
  BY <1>12, <1>13
<1>16. \A i \in 1 .. n : /\ headers.entries[i].id = Fitted(Id(list[i]), IdSize)
                         /\ headers.entries[i].key = EncryptKey(list[i], e, sym, Id(list[i]))
  BY <1>9, <1>13
<1>17. ReadBack(headers, list, n, e, sym, data)
  BY <1>14, <1>15, <1>16 DEF ReadBack
<1> QED
  BY <1>17 DEF headers

(* Only the id of a member itself, and of the configured size, fills the   *)
(* room with this member's id.                                             *)
LEMMA FittedTells ==
  ASSUME NEW list \in Recipients, NEW p \in Range(list), NEW q \in Range(list)
  PROVE  Fitted(Id(q), IdSize) = Id(p) <=> q = p /\ Len(Id(p)) = IdSize
<1> DEFINE a == Id(p)
           b == Id(q)
           f == Fitted(b, IdSize)
<1>1. /\ IsSequence(a) /\ IsBytes(a) /\ IsSequence(b)
      /\ (IsPrefix(a, b) \/ IsPrefix(b, a) => q = p)
  BY RecipientsOwnIds
<1>2. Len(a) \in Nat /\ Len(b) \in Nat /\ DOMAIN a = 1 .. Len(a) /\ IdSize \in Nat
  BY <1>1, SequenceIs, SizeAssumption
<1>3. IsSequence(f) /\ Len(f) = IdSize
      /\ \A i \in 1 .. IdSize : f[i] = IF i <= Len(b) THEN b[i] ELSE Cell("zero")
  BY <1>1, FittedIs
<1>4. q = p => a = b
  OBVIOUS
<1> HIDE DEF a, b, f
<1>5. ASSUME f = a PROVE q = p /\ Len(a) = IdSize
  <2>1. Len(a) = IdSize
    BY <1>3, <1>5
  <2>2. CASE IdSize <= Len(b)
    <3>1. ASSUME NEW i \in 1 .. Len(a) PROVE a[i] = b[i]
      BY <1>2, <1>3, <1>5, <2>1, <2>2
    <3>2. IsPrefix(a, b)
      BY <1>1, <2>1, <2>2, <3>1, PrefixIs
    <3> QED
      BY <1>1, <2>1, <3>2
  <2>3. CASE ~(IdSize <= Len(b))
    <3> DEFINE i == Len(b) + 1
    <3>1. i \in 1 .. IdSize /\ ~(i <= Len(b))
      BY <1>2, <2>3
    <3> HIDE DEF i
    <3>2. a[i] = Cell("zero")
      BY <1>3, <1>5, <3>1
    <3>3. a[i][1] \notin FormatKinds
      BY <1>1, <1>2, <2>1, <3>1 DEF IsBytes
    <3> QED
      BY <3>2, <3>3 DEF FormatKinds, Cell
  <2> QED
    BY <2>2, <2>3
<1>6. ASSUME q = p, Len(a) = IdSize PROVE f = a
  <2>1. a = b
    BY <1>4, <1>6
  <2>2. Len(f) = Len(a) /\ Len(a) = Len(b)
    BY <1>3, <1>6, <2>1
  <2>3. ASSUME NEW i \in 1 .. Len(f) PROVE f[i] = a[i]
    <3>1. i \in 1 .. IdSize /\ i <= Len(b)
      BY <1>2, <1>3, <2>2
    <3> QED
      BY <1>3, <2>1, <3>1
  <2> QED
    BY <1>1, <1>3, <2>2, <2>3, SameCells
<1> QED
  BY <1>5, <1>6 DEF a, b, f

(* The key a recipient finds in the entries, when the id fits.             *)
LEMMA ChunkKeyFound ==
  ASSUME NEW list \in Recipients, NEW p \in Range(list), NEW n, n = Len(list), NEW e, NEW sym, NEW data,
         NEW headers, ReadBack(headers, list, n, e, sym, data), NEW cell, cell = KeyCell(e),
         NEW found, found = KeyFromEntries(p, headers.entries, cell)
  PROVE  IF Len(Id(p)) # IdSize THEN ~found.ok ELSE found.ok /\ found.key = SymmetricCell(sym)
<1> DEFINE entries == headers.entries
           mine == {i \in DOMAIN entries : entries[i].id = Id(p)}
           last == CHOOSE i \in mine : \A j \in mine : j <= i
           aad == Id(p)
           refusal == mine = {} \/ cell[1] # "key"
                      \/ \E i \in mine : ~DecryptKey(p, entries[i].key, cell[2], aad).ok
           opened == DecryptKey(p, entries[last].key, cell[2], aad)
<1>1. found = IF refusal THEN Refused ELSE opened
  BY Zenon DEF KeyFromEntries
<1>2. n \in Nat /\ DOMAIN list = 1 .. n /\ Range(list) = {list[i] : i \in 1 .. n}
  <2>1. IsSequence(list)
    BY MembersHaveIds DEF IsList
  <2> QED
    BY <2>1, SequenceIs
<1>3. DOMAIN entries = 1 .. n /\ \A i \in 1 .. n : /\ entries[i].id = Fitted(Id(list[i]), IdSize)
                                                  /\ entries[i].key = EncryptKey(list[i], e, sym, Id(list[i]))
  BY DEF ReadBack
<1>4. cell[1] = "key" /\ cell[2] = e
  BY DEF KeyCell
<1> HIDE DEF entries
<1>5. \A i \in 1 .. n : i \in mine <=> list[i] = p /\ Len(Id(p)) = IdSize
  <2> SUFFICES ASSUME NEW i \in 1 .. n PROVE i \in mine <=> list[i] = p /\ Len(Id(p)) = IdSize
    OBVIOUS
  <2> DEFINE q == list[i]
  <2>1. q \in Range(list)
    BY <1>2
  <2> HIDE DEF q
  <2>2. Fitted(Id(q), IdSize) = Id(p) <=> q = p /\ Len(Id(p)) = IdSize
    BY <2>1, FittedTells
  <2>3. entries[i].id = Fitted(Id(q), IdSize)
    BY <1>3 DEF q
  <2>4. i \in mine <=> Fitted(Id(q), IdSize) = Id(p)
    BY <1>3, <2>3
  <2> QED
    BY <2>2, <2>4 DEF q
<1>6. mine \in SUBSET (1 .. n)
  BY <1>3
<1>7. \A i \in mine : i \in 1 .. n /\ list[i] = p /\ Len(Id(p)) = IdSize
  BY <1>5, <1>6
<1>8. CASE Len(Id(p)) # IdSize
  <2>1. mine = {}
    BY <1>7, <1>8
  <2>2. refusal
    BY <2>1
  <2> HIDE DEF refusal, opened
  <2>3. found = Refused
    BY <1>1, <2>2
  <2>4. ~found.ok
    BY <2>3 DEF Refused
  <2> QED
    BY <1>8, <2>4
<1>9. CASE Len(Id(p)) = IdSize
  <2>1. mine # {}
    <3>1. PICK i \in 1 .. n : list[i] = p
      BY <1>2
    <3>2. i \in mine
      BY <1>5, <1>9, <3>1
    <3> QED
      BY <3>2
  <2>2. ASSUME NEW i \in mine
        PROVE  /\ DecryptKey(p, entries[i].key, e, aad).ok
               /\ DecryptKey(p, entries[i].key, e, aad).key = SymmetricCell(sym)
    <3>1. i \in 1 .. n /\ list[i] = p
      BY <1>7
    <3> HIDE DEF mine
    <3>2. entries[i].key = EncryptKey(p, e, sym, Id(p))
      BY <1>3, <3>1
    <3>3. DecryptKey(p, EncryptKey(p, e, sym, Id(p)), e, Id(p)) = [ok |-> TRUE, key |-> SymmetricCell(sym)]
      BY KeyOpens
    <3>4. DecryptKey(p, entries[i].key, e, aad) = [ok |-> TRUE, key |-> SymmetricCell(sym)]
      BY <3>2, <3>3
    <3> QED
      BY <3>4
  <2>3. last \in mine
    <3> HIDE DEF mine
    <3>1. \E i \in mine : \A j \in mine : j <= i
      BY <1>2, <1>6, <2>1, GreatestNumber
    <3> QED
      BY <3>1
  <2> HIDE DEF mine, last, aad
  <2>4. ~refusal
    BY <1>4, <2>1, <2>2
  <2>5. found = opened
    <3> HIDE DEF refusal, opened
    <3> QED
      BY <1>1, <2>4
  <2>6. opened.ok /\ opened.key = SymmetricCell(sym)
    BY <1>4, <2>2, <2>3
  <2> HIDE DEF opened
  <2> QED
    BY <1>9, <2>5, <2>6
<1> QED
  BY <1>8, <1>9

(* A chunk: fixed fields, entries, IV, text and tag.                       *)
ChunkFields(data, n, e, length) ==
  /\ data[1] = Cell("ECIE") /\ data[2] = VersionCell /\ data[3] = <<"number", n>>
  /\ data[6] = <<"number", length + 1>> /\ data[8] = KeyCell(e)

ChunkTagOf(h, e, sym, text) == TagCell(SymmetricCell(sym), h, IvCell(e), text)

ChunkLaid(data, h, list, n, e, sym, text) ==
  /\ ListedAt(list, n, e, sym, data) /\ ChunkFields(data, n, e, Len(text))
  /\ IsSequence(h) /\ Len(h) = 9 + n * EntryWidth /\ LiesAt(h, data, 0)
  /\ IsSequence(text) /\ LiesAt(text, data, Len(h) + 1) /\ Len(data) = Len(h) + Len(text) + 2
  /\ data[Len(h) + 1] = IvCell(e) /\ data[Len(h) + Len(text) + 2] = ChunkTagOf(h, e, sym, text)

(* Nine fields and the entries behind them.                                *)
HeadedBy(h, n, e, length, entries) ==
  /\ IsSequence(h) /\ Len(h) = 9 + Len(entries) /\ IsSequence(entries) /\ LiesAt(entries, h, 9)
  /\ ChunkFields(h, n, e, length)

(* The header of a chunk is laid out like that.                            *)
LEMMA ChunkHeaderIs ==
  ASSUME NEW e, NEW sym, NEW list, NEW n, n = Len(list), NEW length, NEW index, NEW isLast,
         IsSequence(FlattenSeq(EntriesOf(list, e, sym)))
  PROVE  HeadedBy(ChunkHeader(IdSize, e, sym, list, length, index, isLast), n, e, length,
                  FlattenSeq(EntriesOf(list, e, sym)))
<1> DEFINE flag == IF isLast THEN 1 ELSE 0
           more == length + 1
           all == FlattenSeq(EntriesOf(list, e, sym))
           h == ChunkHeader(IdSize, e, sym, list, length, index, isLast)
           c1 == Cell("ECIE")
           c2 == VersionCell
           c3 == <<"number", n>>
           c4 == <<"number", index>>
           c5 == <<"number", length>>
           c6 == <<"number", more>>
           c7 == <<"number", flag>>
           c8 == KeyCell(e)
           c9 == Cell("zero")
           fields == <<c1, c2, c3, c4, c5, c6, c7, c8, c9>>
<1>1. h = fields \o all
  BY Zenon DEF ChunkHeader, EntriesOf, EntryOf
<1>2. c1 = Cell("ECIE") /\ c2 = VersionCell /\ c3 = <<"number", n>> /\ c6 = <<"number", length + 1>>
      /\ c8 = KeyCell(e)
  OBVIOUS
<1> HIDE DEF c1, c2, c3, c4, c5, c6, c7, c8, c9, all, h
<1>3. /\ fields \in Seq({c1, c2, c3, c4, c5, c6, c7, c8, c9}) /\ Len(fields) = 9
      /\ fields[1] = c1 /\ fields[2] = c2 /\ fields[3] = c3 /\ fields[6] = c6 /\ fields[8] = c8
  OBVIOUS
<1> HIDE DEF fields
<1>4. IsSequence(fields)
  BY <1>3, SequenceOver
<1>5. IsSequence(all)
  BY DEF all
<1>6. /\ LiesAt(fields, h, 0) /\ LiesAt(all, h, Len(fields)) /\ IsSequence(h)
      /\ Len(h) = Len(fields) + Len(all)
  BY <1>1, <1>4, <1>5, HalvesLie
<1>7. \A i \in 1 .. 9 : h[i] = fields[i]
  <2> SUFFICES ASSUME NEW i \in 1 .. 9 PROVE h[i] = fields[i]
    OBVIOUS
  <2>1. h[0 + i] = fields[i] /\ 0 + i = i
    BY <1>3, <1>6 DEF LiesAt
  <2> QED
    BY <2>1
<1>8. h[1] = c1 /\ h[2] = c2 /\ h[3] = c3 /\ h[6] = c6 /\ h[8] = c8
  BY <1>3, <1>7
<1>9. ChunkFields(h, n, e, length)
  BY <1>2, <1>8 DEF ChunkFields
<1>10. LiesAt(all, h, 9) /\ Len(h) = 9 + Len(all)
  BY <1>3, <1>6
<1>11. HeadedBy(h, n, e, length, all)
  BY <1>5, <1>6, <1>9, <1>10 DEF HeadedBy
<1> QED
  BY <1>11 DEF h, all

(* What EncryptChunk gives.                                                *)
LEMMA EncryptedChunkLies ==
  ASSUME NEW e, NEW sym, NEW list \in Recipients, NEW n, n = Len(list), NEW data, IsText(data), NEW index,
         NEW isLast, NEW signer, NEW c, c = EncryptChunk(IdSize, e, sym, list, data, index, isLast, signer),
         c.ok
  PROVE  \E h : ChunkLaid(c.cells, h, list, n, e, sym, Signed(signer, data))
<1> DEFINE text == Signed(signer, data)
           length == Len(text)
           h == ChunkHeader(IdSize, e, sym, list, length, index, isLast)
           iv == IvCell(e)
           tag == ChunkTagOf(h, e, sym, text)
           cells == h \o <<iv>> \o text \o <<tag>>
           entries == EntriesOf(list, e, sym)
           all == FlattenSeq(entries)
<1>1. c.cells = cells
  <2> DEFINE refusal == index < 0 \/ Len(text) > MaxDataSize
  <2>1. c = IF refusal THEN Refused ELSE [ok |-> TRUE, cells |-> cells]
    BY Zenon DEF EncryptChunk, SealChunk, ChunkTagOf
  <2> HIDE DEF cells, refusal
  <2> QED
    BY <2>1 DEF Refused
<1>2. IsSequence(text)
  BY SignedMade
<1>3. IsSequence(list) /\ \A i \in 1 .. n : IsSequence(Id(list[i]))
  <2>1. IsSequence(list)
    BY MembersHaveIds DEF IsList
  <2>2. ASSUME NEW i \in 1 .. n PROVE IsSequence(Id(list[i]))
    <3> DEFINE q == list[i]
    <3>1. q \in Range(list)
      BY <2>1, SequenceIs
    <3> HIDE DEF q
    <3>2. IsSequence(Id(q))
      BY <3>1, RecipientsOwnIds
    <3> QED
      BY <3>2 DEF q
  <2> QED
    BY <2>1, <2>2
<1>4. EqualParts(entries, n, EntryWidth) /\ n \in Nat
  BY <1>3, EntriesAre
<1> HIDE DEF entries
<1>5. IsSequence(all) /\ Len(all) = n * EntryWidth
  BY <1>4, EqualPartsLie
<1> HIDE DEF length, text
<1>6. HeadedBy(h, n, e, length, all)
  BY <1>5, ChunkHeaderIs DEF entries
<1>7. /\ IsSequence(h) /\ Len(h) = 9 + Len(all) /\ LiesAt(all, h, 9) /\ ChunkFields(h, n, e, length)
  BY <1>6 DEF HeadedBy
<1>8. length = Len(text)
  BY DEF length
<1>20. tag = ChunkTagOf(h, e, sym, text) /\ iv = IvCell(e)
  OBVIOUS
<1> HIDE DEF h, all, tag, iv
<1> DEFINE a == h \o <<iv>>
           b == <<tag>>
           one == <<iv>>
<1>9. IsSequence(b) /\ Len(b) = 1 /\ b[1] = tag /\ IsSequence(one) /\ Len(one) = 1 /\ one[1] = iv
  BY Shorts
<1> HIDE DEF one
<1>10. LiesAt(h, a, 0) /\ LiesAt(one, a, Len(h)) /\ IsSequence(a) /\ Len(a) = Len(h) + Len(one)
  BY <1>7, <1>9, HalvesLie DEF one
<1>11. cells = a \o text \o b
  OBVIOUS
<1> HIDE DEF a, b, cells
<1>12. Three(a, text, b, cells)
  BY <1>2, <1>9, <1>10, <1>11 DEF Three
<1>13. /\ IsSequence(cells) /\ Len(cells) = Len(a) + Len(text) + Len(b)
       /\ LiesAt(a, cells, 0) /\ LiesAt(text, cells, Len(a)) /\ LiesAt(b, cells, Len(a) + Len(text))
  BY <1>12, ThreeLie
<1>14. Len(h) \in Nat /\ Len(text) \in Nat /\ Len(all) \in Nat
  BY <1>2, <1>5, <1>7, SequenceIs
<1>15. Len(a) = Len(h) + 1 /\ Len(cells) = Len(h) + Len(text) + 2
  BY <1>9, <1>10, <1>13, <1>14
<1>16. LiesAt(h, cells, 0)
  <2> DEFINE zero == 0
  <2>1. LiesAt(h, a, zero) /\ LiesAt(a, cells, zero) /\ zero \in Nat /\ zero = zero + zero
    BY <1>10, <1>13
  <2> HIDE DEF zero
  <2>2. LiesAt(h, cells, zero)
    BY <1>7, <1>10, <1>13, <2>1, PartOfPart
  <2> QED
    BY <2>2 DEF zero
<1>17. cells[Len(h) + 1] = iv
  <2>1. Len(h) + 1 \in 1 .. Len(a) /\ 0 + (Len(h) + 1) = Len(h) + 1
    BY <1>14, <1>15
  <2>2. cells[0 + (Len(h) + 1)] = a[Len(h) + 1]
    BY <1>13, <2>1 DEF LiesAt
  <2>3. 1 \in 1 .. Len(one)
    BY <1>9
  <2>4. a[Len(h) + 1] = one[1]
    BY <1>10, <2>3 DEF LiesAt
  <2> QED
    BY <1>9, <2>1, <2>2, <2>4
<1>18. cells[Len(h) + Len(text) + 2] = tag
  <2>1. 1 \in 1 .. Len(b) /\ Len(a) + Len(text) + 1 = Len(h) + Len(text) + 2
    BY <1>9, <1>14, <1>15
  <2>2. cells[Len(a) + Len(text) + 1] = b[1]
    BY <1>13, <2>1 DEF LiesAt
  <2> QED
    BY <1>9, <2>1, <2>2
<1>19. ChunkFields(cells, n, e, Len(text)) /\ LiesAt(all, cells, 9)
  <2>1. ASSUME NEW i \in 1 .. Len(h) PROVE cells[i] = h[i]
    <3>1. cells[0 + i] = h[i] /\ 0 + i = i
      BY <1>14, <1>16 DEF LiesAt
    <3> QED
      BY <3>1
  <2>2. 1 \in 1 .. Len(h) /\ 2 \in 1 .. Len(h) /\ 3 \in 1 .. Len(h) /\ 6 \in 1 .. Len(h) /\ 8 \in 1 .. Len(h)
    BY <1>7, <1>14
  <2>3. ChunkFields(cells, n, e, Len(text))
    BY <1>7, <1>8, <2>1, <2>2 DEF ChunkFields
  <2> DEFINE zero == 0
             nine == 9
  <2>4. zero \in Nat /\ nine \in Nat /\ nine = nine + zero /\ LiesAt(all, h, nine) /\ LiesAt(h, cells, zero)
    BY <1>7, <1>16
  <2> HIDE DEF zero, nine
  <2>5. LiesAt(all, cells, nine)
    BY <1>5, <1>7, <1>13, <2>4, PartOfPart
  <2> QED
    BY <2>3, <2>5 DEF nine
<1>21. ListedAt(list, n, e, sym, cells)
  BY <1>3, <1>4, <1>13, <1>19 DEF ListedAt, all, entries
<1>22. LiesAt(text, cells, Len(h) + 1) /\ Len(h) = 9 + n * EntryWidth
  BY <1>5, <1>7, <1>13, <1>15
<1>23. ChunkLaid(cells, h, list, n, e, sym, text)
  BY <1>2, <1>7, <1>15, <1>16, <1>17, <1>18, <1>19, <1>20, <1>21, <1>22 DEF ChunkLaid
<1>24. \E x : ChunkLaid(cells, x, list, n, e, sym, text)
  BY <1>23
<1> QED
  BY <1>1, <1>24 DEF text

(* A text and one cell behind it.                                          *)
LEMMA FrontAndLast ==
  ASSUME NEW b, IsSequence(b), NEW s, IsSequence(s), Len(b) = Len(s) + 1, LiesAt(s, b, 0)
  PROVE  b # <<>> /\ Front(b) = s /\ Last(b) = b[Len(s) + 1]
<1>1. Len(s) \in Nat /\ Len(b) \in Nat
  BY SequenceIs
<1>2. Slice(b, 0, Len(s)) = s
  BY FrontIs
<1> DEFINE n == Len(s)
           m == IF n < Len(b) THEN n ELSE Len(b)
<1>3. Slice(b, 0, n) = SubSeq(b, 0 + 1, m)
  BY Zenon DEF Slice
<1>4. m = n /\ Len(b) - 1 = n /\ 0 + 1 = 1
  BY <1>1
<1> HIDE DEF m, n
<1>5. Slice(b, 0, n) = SubSeq(b, 1, n)
  BY <1>3, <1>4
<1>6. Front(b) = SubSeq(b, 1, n)
  BY <1>4 DEF Front
<1>7. Last(b) = b[n + 1]
  BY <1>1 DEF Last, n
<1>8. b # <<>>
  BY <1>1, Shorts
<1> QED
  BY <1>2, <1>5, <1>6, <1>7, <1>8 DEF n

(* What is read of a chunk: the headers, the cells they are authenticated  *)
(* by, IV and body.                                                        *)
LEMMA ChunkReads ==
  ASSUME NEW data, NEW h, NEW list, NEW n, NEW e, NEW sym, NEW text, ChunkLaid(data, h, list, n, e, sym, text),
         NEW end, end = Len(h), NEW body, body = Slice(data, end + 1, end + 1 + NumberIn(data[6]))
  PROVE  /\ end < Len(data) /\ Slice(data, 0, end) = h /\ data[end + 1] = IvCell(e)
         /\ body # <<>> /\ Front(body) = text /\ Last(body) = ChunkTagOf(h, e, sym, text)
<1>1. /\ IsSequence(h) /\ LiesAt(h, data, 0)
      /\ IsSequence(text) /\ LiesAt(text, data, Len(h) + 1) /\ Len(data) = Len(h) + Len(text) + 2
  BY DEF ChunkLaid
<1>2. data[Len(h) + 1] = IvCell(e) /\ data[Len(h) + Len(text) + 2] = ChunkTagOf(h, e, sym, text)
  BY DEF ChunkLaid
<1>3. IsSequence(data) /\ data[6] = <<"number", Len(text) + 1>>
  BY DEF ChunkLaid, ListedAt, ChunkFields
<1>4. Len(h) \in Nat /\ Len(text) \in Nat
  BY <1>1, SequenceIs
<1>5. Slice(data, 0, end) = h
  BY <1>1, <1>3, FrontIs
<1> DEFINE size == NumberIn(data[6])
           at == end + 1
           to == end + 1 + size
<1>6. size = Len(text) + 1
  BY <1>3 DEF NumberIn
<1> HIDE DEF size
<1>7. at \in Nat /\ to \in Int /\ to = at + Len(text) + 1 /\ to = Len(data) /\ at + Len(text) + 1 = Len(h) + Len(text) + 2
  BY <1>1, <1>4, <1>6
<1>8. body = Slice(data, at, to) /\ LiesAt(text, data, at)
  BY <1>1 DEF size
<1>9. data[at + Len(text) + 1] = ChunkTagOf(h, e, sym, text)
  BY <1>2, <1>7
<1> HIDE DEF at, to
<1> DEFINE stop == IF to < Len(data) THEN to ELSE Len(data)
<1>10. /\ IsSequence(Slice(data, at, to)) /\ Len(Slice(data, at, to)) = IF at < stop THEN stop - at ELSE 0
       /\ \A i \in 1 .. Len(Slice(data, at, to)) : Slice(data, at, to)[i] = data[at + i]
  BY <1>3, <1>7, Sliced, Zenon
<1>11. /\ IsSequence(body) /\ Len(body) = IF at < stop THEN stop - at ELSE 0
       /\ \A i \in 1 .. Len(body) : body[i] = data[at + i]
  BY <1>8, <1>10
<1>12. Len(body) = Len(text) + 1
  BY <1>4, <1>7, <1>11
<1>13. LiesAt(text, body, 0)
  <2>1. 0 + Len(text) <= Len(body)
    BY <1>4, <1>12
  <2>2. ASSUME NEW i \in 1 .. Len(text) PROVE body[0 + i] = text[i]
    <3>1. i \in 1 .. Len(body) /\ 0 + i = i
      BY <1>4, <1>12
    <3>2. data[at + i] = text[i]
      BY <1>8 DEF LiesAt
    <3> QED
      BY <1>11, <3>1, <3>2
  <2> QED
    BY <2>1, <2>2 DEF LiesAt
<1>14. body # <<>> /\ Front(body) = text /\ Last(body) = body[Len(text) + 1]
  BY <1>1, <1>11, <1>12, <1>13, FrontAndLast
<1>15. body[Len(text) + 1] = ChunkTagOf(h, e, sym, text)
  <2>1. Len(text) + 1 \in 1 .. Len(body) /\ at + (Len(text) + 1) = at + Len(text) + 1
    BY <1>4, <1>7, <1>12
  <2>2. body[Len(text) + 1] = data[at + (Len(text) + 1)]
    BY <1>11, <2>1
  <2> QED
    BY <1>9, <2>1, <2>2
<1>16. end < Len(data)
  BY <1>1, <1>4
<1> QED
  BY <1>2, <1>5, <1>14, <1>15, <1>16

(* So a chunk opens for a recipient whose id fits, and for no other.       *)
LEMMA LaidChunkOpens ==
  ASSUME NEW list \in Recipients, NEW p \in Range(list), NEW n, NEW e, NEW sym, NEW h, NEW text, NEW data,
         ChunkLaid(data, h, list, n, e, sym, text), NEW s, NEW message, IsSequence(message),
         text = Signed(s, message), NEW opened, opened = DecryptChunk(IdSize, data, p, s)
  PROVE  IF Len(Id(p)) # IdSize THEN ~opened.ok ELSE opened.ok /\ opened.decrypted = message
<1> DEFINE headers == RecipientHeaders(IdSize, data, n)
           found == KeyFromEntries(p, headers.entries, data[8])
           end == headers.end
           iv == data[end + 1]
           body == Slice(data, end + 1, end + 1 + NumberIn(data[6]))
           front == Slice(data, 0, end)
           inner == OpenBody(found, front, iv, body, s)
           whole == DecryptAfterHeaders(data, headers, p, s)
           v == VerifiedMessage(s, text)
           index == NumberIn(data[4])
           last == data[7] = <<"number", 1>>
<1>1. ListedAt(list, n, e, sym, data) /\ ChunkFields(data, n, e, Len(text))
      /\ IsSequence(h) /\ Len(h) = 9 + n * EntryWidth /\ IsSequence(text)
      /\ Len(data) = Len(h) + Len(text) + 2
  BY DEF ChunkLaid
<1>2. n \in Nat /\ n = Len(list)
  BY <1>1 DEF ListedAt
<1>3. data[1] = Cell("ECIE") /\ data[2] = VersionCell /\ data[3] = <<"number", n>> /\ data[8] = KeyCell(e)
  BY <1>1 DEF ChunkFields
<1>4. NumberIn(data[3]) = n
  BY <1>3 DEF NumberIn
<1>5. ReadBack(headers, list, n, e, sym, data)
  BY <1>1, HeadersReadBack
<1>6. headers.ok /\ end = Len(h)
  BY <1>1, <1>5, Zenon DEF ReadBack
<1> HIDE DEF headers
<1>7. IF Len(Id(p)) # IdSize THEN ~found.ok ELSE found.ok /\ found.key = SymmetricCell(sym)
  <2> DEFINE cell == data[8]
  <2>1. cell = KeyCell(e)
    BY <1>3
  <2> HIDE DEF cell
  <2> DEFINE k == KeyFromEntries(p, headers.entries, cell)
  <2>2. k = KeyFromEntries(p, headers.entries, cell)
    OBVIOUS
  <2> HIDE DEF k
  <2>3. IF Len(Id(p)) # IdSize THEN ~k.ok ELSE k.ok /\ k.key = SymmetricCell(sym)
    BY <1>2, <1>5, <2>1, <2>2, ChunkKeyFound
  <2> QED
    BY <2>3 DEF k, cell
<1> HIDE DEF end, found
<1>8. /\ end < Len(data) /\ front = h /\ iv = IvCell(e)
      /\ body # <<>> /\ Front(body) = text /\ Last(body) = ChunkTagOf(h, e, sym, text)
  <2> HIDE DEF body
  <2>1. body = Slice(data, end + 1, end + 1 + NumberIn(data[6]))
    BY DEF body
  <2> QED
    BY <1>6, <2>1, ChunkReads
<1>9. Len(data) \in Nat /\ n * EntryWidth \in Nat /\ n <= n * EntryWidth /\ Len(h) \in Nat /\ Len(text) \in Nat
  <2>1. EntryWidth \in Nat /\ EntryWidth >= 1
    BY SizeAssumption DEF EntryWidth
  <2>2. n * EntryWidth \in Nat /\ n <= n * EntryWidth
    BY <1>2, <2>1
  <2>3. IsSequence(data)
    BY <1>1 DEF ListedAt
  <2> QED
    BY <1>1, <2>2, <2>3, SequenceIs
<1>10. ~(Len(data) < ChunkHeaderSize) /\ ~(NumberIn(data[3]) > Len(data))
  BY <1>1, <1>2, <1>4, <1>9 DEF ChunkHeaderSize
<1>11. opened = ChunkResult(whole, data)
  <2> DEFINE count == NumberIn(data[3])
             result == ChunkResult(DecryptAfterHeaders(data, RecipientHeaders(IdSize, data, count), p, s), data)
  <2>1. opened = IF Len(data) < ChunkHeaderSize THEN Refused
                 ELSE IF data[1] # Cell("ECIE") \/ data[2] # VersionCell THEN Refused
                 ELSE IF count > Len(data) THEN Refused ELSE result
    BY Zenon DEF DecryptChunk
  <2>2. ~(count > Len(data)) /\ count = n
    BY <1>4, <1>10
  <2> HIDE DEF result, count
  <2>3. opened = result
    BY <1>3, <1>10, <2>1, <2>2
  <2> QED
    BY <2>2, <2>3, Zenon DEF result, headers
<1>12. opened = IF whole.ok THEN [ok |-> TRUE, decrypted |-> whole.decrypted, index |-> index,
                                  isLast |-> last]
                ELSE Refused
  BY <1>11, Zenon DEF ChunkResult
<1>13. whole = inner
  <2>1. whole = IF ~headers.ok \/ end >= Len(data) THEN Refused ELSE inner
    BY Zenon DEF DecryptAfterHeaders, end, found
  <2>2. ~(end >= Len(data))
    BY <1>6, <1>8, <1>9
  <2> HIDE DEF whole, inner
  <2> QED
    BY <1>6, <2>1, <2>2
<1>14. inner = IF ~found.ok \/ body = <<>> THEN Refused
               ELSE IF Last(body) # TagCell(found.key, front, iv, Front(body)) THEN Refused
               ELSE VerifiedMessage(s, Front(body))
  BY Zenon DEF OpenBody
<1>15. v = [ok |-> TRUE, decrypted |-> message]
  BY SignedVerifies
<1> HIDE DEF inner, whole, body, front, iv, v, index, last
<1>16. CASE Len(Id(p)) # IdSize
  <2>1. ~found.ok
    BY <1>7, <1>16
  <2>2. inner = Refused
    BY <1>14, <2>1
  <2>3. ~whole.ok
    BY <1>13, <2>2 DEF Refused
  <2>4. opened = Refused
    BY <1>12, <2>3
  <2>5. ~opened.ok
    BY <2>4 DEF Refused
  <2> QED
    BY <1>16, <2>5
<1>17. CASE Len(Id(p)) = IdSize
  <2>1. found.ok /\ found.key = SymmetricCell(sym)
    BY <1>7, <1>17
  <2>2. Last(body) = TagCell(found.key, front, iv, Front(body))
    BY <1>8, <2>1 DEF ChunkTagOf
  <2>3. inner = VerifiedMessage(s, Front(body))
    BY <1>8, <1>14, <2>1, <2>2
  <2>4. inner = v
    BY <1>8, <2>3, Zenon DEF v
  <2>5. whole.ok /\ whole.decrypted = message
    BY <1>13, <1>15, <2>4
  <2> DEFINE d == whole.decrypted
             x == last
  <2>6. opened = [ok |-> TRUE, decrypted |-> d, index |-> index, isLast |-> x]
    BY <1>12, <2>5
  <2> HIDE DEF d, x
  <2>7. opened.ok /\ opened.decrypted = d
    BY <2>6
  <2>8. opened.ok /\ opened.decrypted = message
    BY <2>5, <2>7 DEF d
  <2> QED
    BY <1>17, <2>8
<1> QED
  BY <1>16, <1>17

(* A chunk that was encrypted for several opens.                           *)
LEMMA WholeChunkOpens ==
  ASSUME NEW r, ChunkWhole(r), NEW p \in r.to, NEW data, data = r.cells
  PROVE  ChunkOpens(p, r, DecryptChunk(IdSize, data, p, r.signer))
<1>1. PICK e, sym, c : \E list \in Recipients, message \in Messages, index \in Nat, isLast \in BOOLEAN :
        /\ r.to = Range(list) /\ r.parts = <<Part(<<>>, message)>>
        /\ c = EncryptChunk(IdSize, e, sym, list, message, index, isLast, r.signer) /\ c.ok
        /\ r.cells = c.cells
  BY DEF ChunkWhole
<1>2. PICK list \in Recipients, message \in Messages, index \in Nat, isLast \in BOOLEAN :
        /\ r.to = Range(list) /\ r.parts = <<Part(<<>>, message)>>
        /\ c = EncryptChunk(IdSize, e, sym, list, message, index, isLast, r.signer) /\ c.ok
        /\ r.cells = c.cells
  BY <1>1
<1>3. r.parts[1].data = message
  BY <1>2 DEF Part
<1>4. IsText(message) /\ IsSequence(message)
  BY MembersHaveIds DEF IsText
<1> DEFINE s == r.signer
           n == Len(list)
           text == Signed(s, message)
           opened == DecryptChunk(IdSize, data, p, s)
<1>5. \E h : ChunkLaid(c.cells, h, list, n, e, sym, text)
  <2>1. c.ok /\ c = EncryptChunk(IdSize, e, sym, list, message, index, isLast, s) /\ IsText(message)
    BY <1>2, <1>4
  <2> HIDE DEF s
  <2> QED
    BY <2>1, EncryptedChunkLies
<1>6. PICK h : ChunkLaid(data, h, list, n, e, sym, text)
  BY <1>2, <1>5
<1>7. p \in Range(list)
  BY <1>2
<1>8. IF Len(Id(p)) # IdSize THEN ~opened.ok ELSE opened.ok /\ opened.decrypted = message
  <2> DEFINE o == DecryptChunk(IdSize, data, p, s)
             t == Signed(s, message)
  <2>1. t = Signed(s, message) /\ o = DecryptChunk(IdSize, data, p, s) /\ ChunkLaid(data, h, list, n, e, sym, t)
    BY <1>6
  <2> HIDE DEF s, o, t, n
  <2>2. IF Len(Id(p)) # IdSize THEN ~o.ok ELSE o.ok /\ o.decrypted = message
    BY <1>4, <1>7, <2>1, LaidChunkOpens
  <2> QED
    BY <2>2 DEF o, s
<1> QED
  BY <1>3, <1>8, Zenon DEF ChunkOpens

(* An encrypted file that arrives whole is decrypted.                      *)
LEMMA WholeFileDecrypts ==
  ASSUME NEW r, FileWhole(r), IsSequence(arrived), arrived = r.cells, NEW p \in r.to
  PROVE  DecryptFileToPath(p, arrived).ok
<1> DEFINE w == DecryptFileToPath(p, arrived)
           data == FlattenSeq([k \in 1 .. Len(r.parts) - 1 |-> r.parts[k + 1].data])
           inMemory == DecryptFile(p, arrived)
<1>1. IsPrefix(arrived, r.cells)
  <2> DEFINE a == arrived
  <2>1. IsSequence(a) /\ a = r.cells
    OBVIOUS
  <2> HIDE DEF a
  <2>2. Len(a) \in Nat
    BY <2>1, SequenceIs
  <2>3. IsPrefix(a, a)
    BY <2>1, <2>2, PrefixIs
  <2> QED
    BY <2>1, <2>3 DEF a
<1>2. FileOpens(r, data, w, inMemory)
  BY <1>1, WholeFileOpens
<1> HIDE DEF w, data, inMemory
<1>3. w.ok <=> arrived = r.cells
  BY <1>2, Zenon DEF FileOpens
<1>4. w.ok
  BY <1>3
<1> QED
  BY <1>4 DEF w

(* Whatever was encrypted opens for everybody it was encrypted for, when   *)
(* it arrives as it was sent, with the sizes the code computes; the        *)
(* exceptions are those the property names.                                *)
THEOREM WholeMessagesAlwaysOpen == Spec => []WholeMessagesOpen
<1>1. Init => AllMade /\ AllWhole
  BY AllMadeFirst, AllWholeFirst
<1>2. AllMade /\ AllWhole /\ [Next]_vars => (AllMade /\ AllWhole)'
  BY AllMadeKept, AllWholeKept
<1>3. AllMade /\ AllWhole => WholeMessagesOpen
  <2> SUFFICES ASSUME AllMade, AllWhole, NEW i \in DOMAIN sent, arrived = sent[i].cells, NEW p \in sent[i].to
               PROVE  LET n == Len(sent[i].parts[1].preamble)
                      IN  CASE sent[i].form = "single" ->
                                 SingleOpens(sent[i], DecryptWithHeaderEx("any", p, arrived, n, NoLength),
                                             Len(arrived) - n)
                            [] sent[i].form = "multiple" ->
                                 MultipleOpens(p, sent[i], ParseMultiEncryptedBuffer(IdSize, arrived))
                            [] sent[i].form = "chunk" ->
                                 ChunkOpens(p, sent[i], DecryptChunk(IdSize, arrived, p, sent[i].signer))
                            [] sent[i].form = "key" -> DecryptKeyAlone(p, arrived).ok
                            [] sent[i].form = "file" -> DecryptFileToPath(p, arrived).ok
    BY Zenon DEF WholeMessagesOpen
  <2> DEFINE r == sent[i]
             n == Len(r.parts[1].preamble)
             single == SingleOpens(r, DecryptWithHeaderEx("any", p, arrived, n, NoLength), Len(arrived) - n)
             multiple == MultipleOpens(p, r, ParseMultiEncryptedBuffer(IdSize, arrived))
             chunk == ChunkOpens(p, r, DecryptChunk(IdSize, arrived, p, r.signer))
             key == DecryptKeyAlone(p, arrived).ok
             file == DecryptFileToPath(p, arrived).ok
  <2>1. IsSequence(sent) /\ IsSequence(arrived)
    BY DEF AllMade, SentMade, ArrivedMade
  <2>2. i \in 1 .. Len(sent)
    BY <2>1, SequenceIs
  <2>3. RecordWhole(r)
    BY <2>2 DEF AllWhole
  <2>4. arrived = r.cells /\ p \in r.to
    OBVIOUS
  <2> SUFFICES CASE r.form = "single" -> single [] r.form = "multiple" -> multiple
                 [] r.form = "chunk" -> chunk [] r.form = "key" -> key [] r.form = "file" -> file
    BY Zenon
  <2> HIDE DEF r
  <2>5. ASSUME r.form = "single" PROVE single
    <3>1. SingleWhole(r)
      BY <2>3, <2>5, Zenon DEF RecordWhole
    <3> DEFINE length == Len(r.parts[1].preamble)
               a == arrived
    <3>2. length = Len(r.parts[1].preamble) /\ a = r.cells
      BY <2>4
    <3> HIDE DEF length, a
    <3>3. SingleOpens(r, DecryptWithHeaderEx("any", p, a, length, NoLength), Len(a) - length)
      BY <2>4, <3>1, <3>2, WholeSingleOpens
    <3> QED
      BY <3>3, Zenon DEF length, a
  <2>6. ASSUME r.form = "multiple" PROVE multiple
    <3>1. MultipleWhole(r)
      BY <2>3, <2>6, Zenon DEF RecordWhole
    <3> QED
      BY <2>4, <3>1, WholeMultipleOpens
  <2>7. ASSUME r.form = "chunk" PROVE chunk
    <3>1. ChunkWhole(r)
      BY <2>3, <2>7, Zenon DEF RecordWhole
    <3> QED
      BY <2>4, <3>1, WholeChunkOpens
  <2>8. ASSUME r.form = "key" PROVE key
    <3>1. KeyWhole(r)
      BY <2>3, <2>8, Zenon DEF RecordWhole
    <3>2. DecryptKeyAlone(p, r.cells).ok
      BY <2>4, <3>1, WholeKeyOpens
    <3> QED
      BY <2>4, <3>2
  <2>9. ASSUME r.form = "file" PROVE file
    <3>1. FileWhole(r)
      BY <2>3, <2>9, Zenon DEF RecordWhole
    <3> QED
      BY <2>1, <2>4, <3>1, WholeFileDecrypts
  <2>10. r.form \in {"single", "multiple", "chunk", "key", "file"}
    BY <2>3, Zenon DEF RecordWhole
  <2> HIDE DEF single, multiple, chunk, key, file
  <2> QED
    BY <2>5, <2>6, <2>7, <2>8, <2>9, <2>10
<1> QED
  BY <1>1, <1>2, <1>3, PTL DEF Spec
================================================================================
