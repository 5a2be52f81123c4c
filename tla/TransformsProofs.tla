---------------------------- MODULE TransformsProofs ----------------------------
(***************************************************************************)
(* Theorems about the stream transforms.                                   *)
(*                                                                         *)
(* The two XOR transforms, for any number of sources, any chunks and any   *)
(* order of their events: what is pushed is the XOR of all that was given. *)
(* As long as no chunk replaces bytes that were not used, the buffer of a  *)
(* source holds the bytes behind the ones used, and as many are used of    *)
(* each source as were pushed (XorInv, FoldInv).                           *)
(*                                                                         *)
(* The pipeline, for any message, sizes and breaks: the message is cut     *)
(* into the texts of the blocks, and the receiver, however its pieces fall *)
(* and whatever its own block size is, has always given out the message up *)
(* to one of these cuts and holds what lies behind it (PipeInv); for what  *)
(* opens where a block begins is that block and no more (OpensExactly).    *)
(***************************************************************************)
EXTENDS Transforms, SequenceTheorems, WellFoundedInduction, TLAPS

ByteType == Nat \X Nat

(* A set of numbers has a least one.                                       *)
LEMMA LeastNumber ==
  ASSUME NEW T \in SUBSET Nat, T # {}
  PROVE  \E x \in T : \A y \in T : x <= y
<1> DEFINE R == OpToRel(<, Nat)
<1>1. IsWellFoundedOn(R, Nat)
  BY NatLessThanWellFounded
<1>2. \A x, y \in Nat : y < x => <<y, x>> \in R
  BY DEF OpToRel
<1> HIDE DEF R
<1>3. PICK x \in T : \A y \in T : ~(<<y, x>> \in R)
  BY <1>1, WFMin
<1>4. ASSUME NEW y \in T PROVE x <= y
  <2>1. x \in Nat /\ y \in Nat /\ ~(<<y, x>> \in R)
    BY <1>3
  <2>2. ~(y < x)
    BY <1>2, <2>1
  <2> QED
    BY <2>1, <2>2
<1> QED
  BY <1>4

(* Induction over the numbers, for a set of numbers in the place of a predicate. *)
LEMMA NumbersInduction ==
  ASSUME NEW P, 0 \in P, \A n \in Nat : n \in P => n + 1 \in P
  PROVE  \A n \in Nat : n \in P
<1> DEFINE T == Nat \ P
<1>1. SUFFICES ASSUME T # {} PROVE FALSE
  OBVIOUS
<1>2. PICK x \in T : \A y \in T : x <= y
  BY <1>1, LeastNumber
<1>3. x # 0 /\ x \in Nat
  OBVIOUS
<1>4. x - 1 \in Nat /\ x - 1 \in P
  BY <1>2, <1>3
<1> QED
  BY <1>4, <1>3, (x - 1) + 1 = x

LEMMA LengthOfConcatenation ==
  ASSUME NEW X, NEW a \in Seq(X), NEW b \in Seq(X)
  PROVE  Len(a \o b) = Len(a) + Len(b)
  OBVIOUS

-----------------------------------------------------------------------------
(* The XorMultipleTransformStream.                                         *)
Used == Len(xored)

(* What the buffer of s holds: nothing yet, or the bytes behind the used.  *)
Behind(b, s, used, got) ==
  /\ used <= got
  /\ \/ b = Null /\ got = 0
     \/ b = [i \in 1 .. got - used |-> <<s, used + i>>]

XorTypes ==
  /\ plans \in [Sources -> Seq(Nat)]
  /\ buffers \in [Sources -> Seq(ByteType)]
  /\ streamEnded \in [Sources -> BOOLEAN]
  /\ xored \in Seq(SUBSET ByteType)
  /\ replaced \in BOOLEAN
  /\ taken \in [Sources -> Nat]

XorInv ==
  /\ XorTypes
  /\ ~replaced => /\ \A i \in 1 .. Used : xored[i] = {<<s, i>> : s \in Sources}
                  /\ \A s \in Sources : Used <= taken[s]
                  /\ xorState = "open" => \E s \in Sources : taken[s] = Used
  /\ ~replaced /\ xorState \notin {"ended", "failed"} =>
       \A s \in Sources : ~streamEnded[s] => Behind(buffers[s], s, Used, taken[s])

LEMMA XorInitially == XorInit => XorInv
<1> SUFFICES ASSUME XorInit PROVE XorInv
  OBVIOUS
<1>1. Null \in Seq(ByteType)
  BY DEF Null, ByteType
<1>2. XorTypes
  <2>1. plans \in [Sources -> Seq(Nat)]
    BY PlansAssumption DEF XorInit
  <2>2. buffers \in [Sources -> Seq(ByteType)]
    BY <1>1 DEF XorInit
  <2>3. xored \in Seq(SUBSET ByteType)
    BY DEF XorInit
  <2> QED
    BY <2>1, <2>2, <2>3 DEF XorInit, XorTypes
<1>3. Used = 0
  BY DEF XorInit, Used
<1>4. \A s \in Sources : Behind(buffers[s], s, Used, taken[s])
  BY <1>3 DEF XorInit, Behind
<1>5. /\ \A s \in Sources : Used <= taken[s]
      /\ \E s \in Sources : taken[s] = Used
  <2>1. taken = [s \in Sources |-> 0] /\ 1 \in Sources
    BY PlansAssumption DEF XorInit, Sources
  <2>2. \A s \in Sources : taken[s] = 0
    BY <2>1
  <2> QED
    BY <1>3, <2>1, <2>2
<1> QED
  BY <1>2, <1>3, <1>4, <1>5 DEF XorInv

(* The number of bytes every source has.                                   *)
LEMMA MinLengthIsMin ==
  ASSUME NEW bs \in [Sources -> Seq(ByteType)], Sources # {}
  PROVE  /\ MinLength(bs) \in Nat
         /\ \A s \in Sources : MinLength(bs) <= Available(bs, s)
         /\ \E s \in Sources : MinLength(bs) = Available(bs, s)
<1> DEFINE T == {Available(bs, s) : s \in Sources}
<1>1. \A s \in Sources : Available(bs, s) \in Nat
  BY DEF Available
<1>2. T \in SUBSET Nat /\ T # {}
  BY <1>1
<1>3. \E n \in T : \A y \in T : n <= y
  BY <1>2, LeastNumber
<1>4. \E n \in T : \A s \in Sources : n <= Available(bs, s)
  BY <1>3
<1>5. MinLength(bs) \in T /\ \A s \in Sources : MinLength(bs) <= Available(bs, s)
  BY <1>4 DEF MinLength
<1> QED
  BY <1>2, <1>5

(* A step that ends the stream does so for the want of some source.        *)
EndsForWantStep ==
  ~replaced' /\ xorState = "open" /\ xorState' # "open" =>
    \E s \in Sources : streamEnded'[s] \/ taken'[s] = Len(xored')

(* The first byte of Null is no byte of a source.                          *)
LEMMA NullIsNoBuffer ==
  ASSUME NEW b, NEW s \in Sources, NEW used \in Nat, NEW got \in Nat, Behind(b, s, used, got)
  PROVE  /\ b = Null => got = 0 /\ used = 0
         /\ b # Null => Len(b) = got - used
<1>1. used <= got
  BY DEF Behind
<1>2. CASE b = Null /\ got = 0
  BY <1>1, <1>2
<1>3. CASE b = [i \in 1 .. got - used |-> <<s, used + i>>]
  <2> DEFINE m == got - used
  <2>m. m \in Nat
    BY <1>1
  <2>1. Len(b) = got - used
    <3>1. b = [i \in 1 .. m |-> <<s, used + i>>]
      BY <1>3
    <3> HIDE DEF m
    <3>2. b \in Seq(ByteType)
      <4>1. \A i \in 1 .. m : <<s, used + i>> \in ByteType
        <5>1. s \in Nat
          BY DEF Sources
        <5>2. \A i \in 1 .. m : used + i \in Nat
          BY <2>m
        <5> QED
          BY <5>1, <5>2 DEF ByteType
      <4>2. b \in [1 .. m -> ByteType]
        BY <3>1, <4>1, Zenon
      <4> QED
        BY <4>2, <2>m, SeqDef
    <3>4. DOMAIN b = 1 .. m
      BY <3>1
    <3>3. Len(b) = m
      BY <3>2, <3>4, <2>m
    <3> QED
      BY <3>3 DEF m
  <2>2. ASSUME b = Null PROVE FALSE
    <3>1. Len(b) = 1 /\ b[1] = <<0, 0>>
      BY <2>2 DEF Null
    <3>2. 1 \in 1 .. got - used
      BY <2>1, <3>1
    <3>3. b[1] = <<s, used + 1>>
      BY <1>3, <3>2
    <3> QED
      BY <3>1, <3>3
  <2> QED
    BY <2>1, <2>2
<1> QED
  BY <1>2, <1>3 DEF Behind

(* processData, after a chunk took its place in the buffers.               *)
LEMMA ProcessKeeps ==
  ASSUME XorTypes, Sources # {},
         NEW bs \in [Sources -> Seq(ByteType)], ProcessData(bs),
         taken' \in [Sources -> Nat], plans' \in [Sources -> Seq(Nat)], replaced' \in BOOLEAN,
         streamEnded' = streamEnded,
         ~replaced' => /\ \A i \in 1 .. Used : xored[i] = {<<s, i>> : s \in Sources}
                       /\ \A s \in Sources : Used <= taken'[s],
         ~replaced' /\ xorState \notin {"ended", "failed"} =>
           \A s \in Sources : ~streamEnded[s] => Behind(bs[s], s, Used, taken'[s])
  PROVE  XorInv' /\ EndsForWantStep
<1> DEFINE n == MinLength(bs)
<1>n. n \in Nat /\ \A s \in Sources : n <= Available(bs, s)
  BY MinLengthIsMin
<1>m. \E s \in Sources : n = Available(bs, s)
  BY MinLengthIsMin
<1> HIDE DEF n
<1>t. /\ xored \in Seq(SUBSET ByteType) /\ streamEnded \in [Sources -> BOOLEAN]
      /\ Used \in Nat
  BY DEF XorTypes, Used
<1>1. CASE ~Usable(bs) \/ n = 0
  <2>1. /\ buffers' = bs /\ xored' = xored
        /\ xorState' \notin {"ended", "failed"} => xorState \notin {"ended", "failed"}
    BY <1>1 DEF ProcessData, n
  <2>2. XorTypes'
    BY <1>t, <2>1 DEF XorTypes
  <2>3. ASSUME ~replaced', xorState = "open", NEW s \in Sources, ~streamEnded[s]
        PROVE  /\ bs[s] = Null => taken'[s] = Used
               /\ Len(bs[s]) = 0 => taken'[s] = Used
    <3>1. Behind(bs[s], s, Used, taken'[s]) /\ taken'[s] \in Nat
      BY <2>3
    <3>2. /\ bs[s] = Null => taken'[s] = 0 /\ Used = 0
          /\ bs[s] # Null => Len(bs[s]) = taken'[s] - Used
      BY <3>1, <1>t, NullIsNoBuffer
    <3> QED
      BY <3>1, <3>2, <1>t DEF Null
  <2>4. ASSUME ~replaced', xorState' = "open" PROVE \E s \in Sources : taken'[s] = Used
    <3>1. ~Usable(bs) /\ xorState = "open"
      BY <1>1, <2>4 DEF ProcessData, n
    <3>2. PICK s \in Sources : bs[s] = Null /\ ~streamEnded[s]
      BY <3>1 DEF Usable
    <3> QED
      BY <2>3, <2>4, <3>1, <3>2
  <2>5. EndsForWantStep
    <3> SUFFICES ASSUME ~replaced', xorState = "open", xorState' # "open"
                 PROVE  \E s \in Sources : streamEnded'[s] \/ taken'[s] = Len(xored')
      BY DEF EndsForWantStep
    <3>1. n = 0
      BY <1>1 DEF ProcessData
    <3>2. PICK s \in Sources : Available(bs, s) = 0
      BY <3>1, <1>m
    <3> QED
      BY <2>1, <2>3, <3>2 DEF Available, Used
  <2> QED
    BY <2>1, <2>2, <2>4, <2>5 DEF XorInv, Used
<1>2. CASE Usable(bs) /\ n > 0
  <2> DEFINE cut == [s \in Sources |-> SubSeq(bs[s], n + 1, Len(bs[s]))]
             more == [i \in 1 .. n |-> {bs[s][i] : s \in Sources}]
  <2>1. \A s \in Sources : ~streamEnded[s] /\ n <= Len(bs[s])
    BY <1>n, <1>2, <1>t DEF Available
  <2>2. {s \in Sources : ~streamEnded[s]} = Sources
    BY <2>1
  <2>3. /\ buffers' = cut
        /\ \/ xorState # "open" /\ xorState' = "failed" /\ xored' = xored
           \/ xorState \notin {"ended", "failed"} /\ xored' = xored \o more /\ xorState' = xorState
    <3>1. n # 0
      BY <1>2, <1>n
    <3>2. buffers' = [s \in Sources |->
            IF s \in {t \in Sources : ~streamEnded[t]} THEN SubSeq(bs[s], n + 1, Len(bs[s])) ELSE bs[s]]
      BY <1>2, <3>1 DEF ProcessData, n
    <3>3. IF xorState \in {"ended", "failed"}
          THEN xorState' = "failed" /\ UNCHANGED xored
          ELSE /\ xored' = xored \o [i \in 1 .. n |->
                             {bs[s][i] : s \in {t \in Sources : ~streamEnded[t]}}]
               /\ UNCHANGED xorState
      BY <1>2, <3>1 DEF ProcessData, n
    <3>4. buffers' = cut
      BY <3>2, <2>2
    <3>5. [i \in 1 .. n |-> {bs[s][i] : s \in {t \in Sources : ~streamEnded[t]}}] = more
      BY <2>2
    <3> QED
      BY <3>3, <3>4, <3>5
  <2>4. cut \in [Sources -> Seq(ByteType)]
    <3>1. ASSUME NEW b \in Seq(ByteType) PROVE SubSeq(b, n + 1, Len(b)) \in Seq(ByteType)
      BY <1>n
    <3> QED
      BY <3>1
  <2>5. more \in Seq(SUBSET ByteType) /\ Len(more) = n
    <3>1. ASSUME NEW i \in 1 .. n PROVE {bs[s][i] : s \in Sources} \in SUBSET ByteType
      <4>1. ASSUME NEW s \in Sources PROVE bs[s][i] \in ByteType
        <5>1. bs[s] \in Seq(ByteType) /\ i \in 1 .. Len(bs[s])
          BY <2>1, <1>n
        <5> QED
          BY <5>1
      <4> QED
        BY <4>1
    <3> QED
      BY <3>1, <1>n
  <2>6. XorTypes'
    <3>1. xored' \in Seq(SUBSET ByteType)
      <4> HIDE DEF more
      <4>1. xored \o more \in Seq(SUBSET ByteType)
        BY <1>t, <2>5
      <4> QED
        BY <1>t, <2>3, <4>1
    <3> QED
      BY <1>t, <2>3, <2>4, <3>1 DEF XorTypes
  <2>o. EndsForWantStep
    BY <2>3 DEF EndsForWantStep
  <2>7. CASE xored' = xored /\ xorState' = "failed"
    BY <2>6, <2>7, <2>o DEF XorInv, Used
  <2>8. CASE xorState \notin {"ended", "failed"} /\ xored' = xored \o more /\ xorState' = xorState
    <3>1. /\ Used' = Used + n
          /\ \A i \in 1 .. Used : xored'[i] = xored[i]
          /\ \A i \in 1 .. n : xored'[Used + i] = more[i]
      <4> HIDE DEF more
      <4>1. xored \in Seq(SUBSET ByteType) /\ more \in Seq(SUBSET ByteType) /\ Len(more) = n
        BY <1>t, <2>5
      <4>2. Len(xored') = Len(xored) + n
        <5>1. Len(xored \o more) = Len(xored) + Len(more)
          BY <4>1, LengthOfConcatenation
        <5> QED
          BY <5>1, <4>1, <2>8
      <4>3. \A i \in 1 .. Len(xored) : xored'[i] = xored[i]
        BY <4>1, <2>8
      <4>4. \A i \in 1 .. n : xored'[Len(xored) + i] = more[i]
        BY <4>1, <2>8, <1>n
      <4> QED
        BY <4>2, <4>3, <4>4 DEF Used
    <3>2. ASSUME ~replaced', NEW s \in Sources
          PROVE  /\ \A i \in 1 .. n : bs[s][i] = <<s, Used + i>>
                 /\ Behind(cut[s], s, Used + n, taken'[s])
      <4>1. bs[s] = [i \in 1 .. taken'[s] - Used |-> <<s, Used + i>>] /\ Used <= taken'[s]
        <5>1. bs[s] # Null
          BY <1>2, <2>1 DEF Usable
        <5> QED
          BY <2>1, <2>8, <3>2, <5>1 DEF Behind
      <4>2. taken'[s] - Used \in Nat /\ Len(bs[s]) = taken'[s] - Used
        BY <4>1, <1>t
      <4>3. n <= taken'[s] - Used
        BY <2>1, <4>2
      <4>4. \A i \in 1 .. n : bs[s][i] = <<s, Used + i>>
        BY <4>1, <4>2, <4>3, <1>n
      <4>5. cut[s] = [i \in 1 .. taken'[s] - (Used + n) |-> <<s, Used + n + i>>]
        <5> DEFINE m == taken'[s] - (Used + n)
                   rest == [i \in 1 .. m |-> <<s, Used + n + i>>]
        <5>1. m \in Nat /\ Len(bs[s]) = n + m
          BY <4>2, <4>3, <1>n, <1>t
        <5>2. cut[s] = [i \in 1 .. m |-> bs[s][n + i]]
          BY <5>1, <1>n
        <5>3. ASSUME NEW i \in 1 .. m PROVE bs[s][n + i] = <<s, Used + n + i>>
          <6>1. n + i \in 1 .. taken'[s] - Used
            BY <5>1, <4>2, <1>n
          <6>2. bs[s][n + i] = <<s, Used + (n + i)>>
            BY <4>1, <6>1
          <6>3. Used + (n + i) = Used + n + i
            BY <1>n, <1>t, <5>1
          <6> QED
            BY <6>2, <6>3
        <5> QED
          BY <5>2, <5>3
      <4>6. Used + n <= taken'[s]
        <5>1. taken'[s] \in Nat
          OBVIOUS
        <5> QED
          BY <5>1, <4>3, <1>n, <1>t
      <4> HIDE DEF cut
      <4> QED
        BY <4>4, <4>5, <4>6 DEF Behind
    <3>3. ASSUME ~replaced', NEW i \in 1 .. Used'
          PROVE  xored'[i] = {<<s, i>> : s \in Sources}
      <4>1. CASE i <= Used
        <5>1. i \in 1 .. Used
          BY <4>1, <1>t, <1>n, <3>1
        <5>2. xored'[i] = xored[i]
          BY <3>1, <5>1
        <5>3. xored[i] = {<<s, i>> : s \in Sources}
          BY <3>3, <5>1
        <5> QED
          BY <5>2, <5>3
      <4>2. CASE i > Used
        <5>1. i - Used \in 1 .. n /\ i = Used + (i - Used)
          BY <3>1, <4>2, <1>t, <1>n
        <5>2. xored'[i] = more[i - Used]
          BY <3>1, <5>1
        <5>3. \A s \in Sources : bs[s][i - Used] = <<s, i>>
          BY <3>2, <3>3, <5>1
        <5> QED
          BY <5>1, <5>2, <5>3
      <4> QED
        BY <4>1, <4>2, <1>t, <1>n, <3>1
    <3>4. ~replaced' => \A s \in Sources : Behind(buffers'[s], s, Used', taken'[s])
      BY <2>3, <3>1, <3>2
    <3>5. ASSUME ~replaced', NEW s \in Sources PROVE Used' <= taken'[s]
      BY <3>1, <3>2, <3>5 DEF Behind
    <3>6. ASSUME ~replaced' PROVE \E s \in Sources : taken'[s] = Used'
      <4>1. PICK s \in Sources : n = Len(bs[s])
        BY <1>m, <2>1 DEF Available
      <4>2. Behind(bs[s], s, Used, taken'[s]) /\ taken'[s] \in Nat
        BY <2>1, <2>8, <3>6
      <4>3. bs[s] # Null
        BY <1>2, <2>1 DEF Usable
      <4>4. Len(bs[s]) = taken'[s] - Used
        BY <4>2, <4>3, <1>t, NullIsNoBuffer
      <4>5. taken'[s] = Used + n
        BY <4>1, <4>2, <4>4, <1>t, <1>n
      <4> QED
        BY <4>5, <3>1
    <3> QED
      BY <2>6, <2>o, <3>3, <3>4, <3>5, <3>6 DEF XorInv
  <2> QED
    BY <2>3, <2>7, <2>8
<1> QED
  BY <1>1, <1>2, <1>n

LEMMA XorStep == XorInv /\ [XorNext]_xorVars => XorInv' /\ EndsForWantStep
<1> SUFFICES ASSUME XorInv, [XorNext]_xorVars PROVE XorInv' /\ EndsForWantStep
  OBVIOUS
<1>t. XorTypes /\ Used \in Nat
  BY DEF XorInv, XorTypes, Used
<1>1. ASSUME NEW s \in Sources, SourceData(s) PROVE XorInv' /\ EndsForWantStep
  <2> DEFINE h == Head(plans[s])
             chunk == Chunk(s)
             bs == [buffers EXCEPT ![s] = chunk]
  <2>1. h \in Nat /\ Tail(plans[s]) \in Seq(Nat)
    <3>1. plans[s] \in Seq(Nat) /\ plans[s] # <<>>
      BY <1>1, <1>t DEF SourceData, XorTypes
    <3> QED
      BY <3>1
  <2>2. chunk = [i \in 1 .. h |-> <<s, taken[s] + i>>]
    BY DEF Chunk
  <2>3. /\ ProcessData(bs) /\ streamEnded' = streamEnded
        /\ taken' = [taken EXCEPT ![s] = taken[s] + h]
        /\ plans' = [plans EXCEPT ![s] = Tail(plans[s])]
        /\ replaced' = (replaced \/ (buffers[s] # Null /\ buffers[s] # NoBytes))
    BY <1>1 DEF SourceData
  <2>4. taken[s] \in Nat /\ s \in Nat
    BY <1>t, PlansAssumption DEF XorTypes, Sources
  <2> HIDE DEF h
  <2>5. chunk \in Seq(ByteType)
    <3>1. \A i \in 1 .. h : <<s, taken[s] + i>> \in ByteType
      BY <2>1, <2>4 DEF ByteType
    <3> QED
      BY <3>1, <2>1, <2>2
  <2> HIDE DEF chunk
  <2>6. bs \in [Sources -> Seq(ByteType)]
    BY <2>5, <1>t DEF XorTypes
  <2>7. /\ taken' \in [Sources -> Nat] /\ plans' \in [Sources -> Seq(Nat)] /\ replaced' \in BOOLEAN
        /\ taken'[s] = taken[s] + h
        /\ \A r \in Sources : r # s => taken'[r] = taken[r]
    <3>1. taken[s] + h \in Nat
      BY <2>1, <2>4
    <3> QED
      BY <2>1, <2>3, <3>1, <1>t DEF XorTypes
  <2>8. ~replaced' => ~replaced /\ (buffers[s] = Null \/ buffers[s] = <<>>)
    BY <2>3, <1>t DEF XorTypes, NoBytes
  <2>9. ASSUME ~replaced', xorState \notin {"ended", "failed"}, NEW r \in Sources, ~streamEnded[r]
        PROVE  Behind(bs[r], r, Used, taken'[r])
    <3>1. Behind(buffers[r], r, Used, taken[r])
      BY <2>8, <2>9 DEF XorInv
    <3>2. CASE r # s
      BY <2>6, <2>7, <3>1, <3>2, <1>t DEF XorTypes
    <3>3. CASE r = s
      <4>1. taken[s] = Used
        <5>1. CASE buffers[s] = Null /\ taken[s] = 0
          BY <5>1, <3>1, <3>3, <1>t DEF Behind
        <5>2. CASE buffers[s] = [i \in 1 .. taken[s] - Used |-> <<s, Used + i>>]
          <6>1. Used <= taken[s]
            BY <3>1, <3>3 DEF Behind
          <6>2. CASE buffers[s] = <<>>
            <7>1. Len(buffers[s]) = 0 /\ Len(buffers[s]) = taken[s] - Used
              BY <6>1, <6>2, <5>2, <2>4, <1>t
            <7> QED
              BY <7>1, <2>4, <1>t
          <6>3. CASE buffers[s] = Null
            <7>1. Len(buffers[s]) = 1 /\ buffers[s][1] = <<0, 0>>
              BY <6>3 DEF Null
            <7>2. Len(buffers[s]) = taken[s] - Used
              BY <5>2, <6>1, <2>4, <1>t
            <7>3. buffers[s][1] = <<s, Used + 1>>
              <8>1. 1 \in 1 .. taken[s] - Used
                BY <7>1, <7>2
              <8> QED
                BY <5>2, <8>1
            <7>4. Used + 1 # 0
              BY <1>t
            <7> QED
              BY <7>1, <7>3, <7>4
          <6> QED
            BY <2>8, <2>9, <6>2, <6>3
        <5> QED
          BY <3>1, <3>3, <5>1, <5>2 DEF Behind
      <4>2. taken'[s] - Used = h /\ Used <= taken'[s]
        BY <4>1, <2>1, <2>4, <2>7, <1>t
      <4>3. bs[s] = [i \in 1 .. h |-> <<s, Used + i>>]
        BY <4>1, <2>2, <1>t DEF XorTypes
      <4> HIDE DEF bs
      <4> QED
        BY <3>3, <4>2, <4>3 DEF Behind
    <3> QED
      BY <3>2, <3>3
  <2>10. ~replaced' => \A i \in 1 .. Used : xored[i] = {<<r, i>> : r \in Sources}
    BY <2>8 DEF XorInv
  <2>11. ASSUME ~replaced', NEW r \in Sources PROVE Used <= taken'[r]
    <3>1. Used <= taken[r]
      BY <2>8, <2>11 DEF XorInv
    <3>2. taken[r] \in Nat /\ taken'[r] \in Nat
      BY <2>7, <1>t DEF XorTypes
    <3>3. taken[r] <= taken'[r]
      <4>1. CASE r = s
        BY <2>1, <2>7, <3>2, <4>1
      <4>2. CASE r # s
        <5>1. taken'[r] = taken[r]
          BY <2>7, <4>2
        <5> QED
          BY <5>1, <3>2
      <4> QED
        BY <4>1, <4>2
    <3> QED
      BY <3>1, <3>2, <3>3, <1>t
  <2> HIDE DEF bs
  <2> QED
    BY <1>t, <2>3, <2>6, <2>7, <2>9, <2>10, <2>11, ProcessKeeps
<1>2. ASSUME NEW s \in Sources, SourceEnd(s) PROVE XorInv' /\ EndsForWantStep
  <2>1. /\ streamEnded' = [streamEnded EXCEPT ![s] = TRUE]
        /\ UNCHANGED <<plans, buffers, xored, replaced, taken>>
        /\ xorState' \notin {"ended", "failed"} => xorState \notin {"ended", "failed"}
    BY <1>2 DEF SourceEnd
  <2>2. XorTypes' /\ \A r \in Sources : ~streamEnded'[r] => ~streamEnded[r]
    BY <1>t, <2>1 DEF XorTypes
  <2>3. EndsForWantStep
    <3>1. streamEnded'[s]
      BY <1>t, <2>1 DEF XorTypes
    <3> QED
      BY <3>1 DEF EndsForWantStep
  <2>4. xorState' = "open" => xorState = "open"
    BY <1>2 DEF SourceEnd
  <2> QED
    BY <2>1, <2>2, <2>3, <2>4 DEF XorInv, Used
<1>3. CASE XorFlush
  BY <1>3 DEF XorFlush, XorInv, XorTypes, Used, EndsForWantStep
<1>4. CASE UNCHANGED xorVars
  BY <1>4 DEF xorVars, XorInv, XorTypes, Used, EndsForWantStep
<1> QED
  BY <1>1, <1>2, <1>3, <1>4 DEF XorNext

LEMMA XorHolds == XorInv => XorOfSources
<1> SUFFICES ASSUME XorInv, ~replaced
             PROVE  /\ xored = [i \in 1 .. Len(xored) |-> {<<s, i>> : s \in Sources}]
                    /\ \A s \in Sources : Len(xored) <= taken[s]
                    /\ xorState = "open" => \E s \in Sources : taken[s] = Len(xored)
  BY DEF XorOfSources
<1>1. xored \in Seq(SUBSET ByteType)
  BY DEF XorInv, XorTypes
<1>2. \A i \in 1 .. Len(xored) : xored[i] = {<<s, i>> : s \in Sources}
  BY DEF XorInv, Used
<1>3. /\ \A s \in Sources : Len(xored) <= taken[s]
      /\ xorState = "open" => \E s \in Sources : taken[s] = Len(xored)
  BY DEF XorInv, Used
<1> QED
  BY <1>1, <1>2, <1>3

-----------------------------------------------------------------------------
(* The XorTransform.                                                       *)
ChunkType == Seq(SUBSET ByteType)

FoldType ==
  [plan : XorPlans, given : Seq(ChunkType), first : BOOLEAN, chunk : ChunkType,
   state : {"open", "flushed"}]

Givers(given, i) == {j \in DOMAIN given : i \in DOMAIN given[j]}

FoldInv ==
  /\ folding \in FoldType
  /\ folding.first <=> folding.given = <<>>
  /\ ~folding.first => /\ DOMAIN folding.chunk = DOMAIN folding.given[1]
                       /\ \A i \in DOMAIN folding.chunk : folding.chunk[i] =
                            UNION {folding.given[k][i] : k \in Givers(folding.given, i)}

LEMMA FoldStep == FoldInv /\ [FoldWrite \/ FoldFlush]_folding => FoldInv'
<1> SUFFICES ASSUME FoldInv, [FoldWrite \/ FoldFlush]_folding PROVE FoldInv'
  OBVIOUS
<1>t. folding \in FoldType /\ folding.given \in Seq(ChunkType) /\ folding.chunk \in ChunkType
      /\ folding.plan \in Seq(Nat)
  BY XorPlansAssumption DEF FoldInv, FoldType
<1>1. CASE FoldWrite
  <2> DEFINE given == folding.given
             k == Len(given) + 1
             chunk == FoldedChunk(k)
             sum == [i \in DOMAIN folding.chunk |->
                       IF i \in DOMAIN chunk THEN folding.chunk[i] \union chunk[i]
                       ELSE folding.chunk[i]]
  <2>1. /\ k \in Nat /\ k \in DOMAIN folding.plan
    BY <1>1, <1>t DEF FoldWrite
  <2>2. chunk \in ChunkType
    <3>1. folding.plan[k] \in Nat
      BY <2>1, <1>t
    <3>2. chunk = [i \in 1 .. folding.plan[k] |-> {<<k, i>>}]
      BY DEF FoldedChunk
    <3>3. \A i \in 1 .. folding.plan[k] : {<<k, i>>} \in SUBSET ByteType
      BY <2>1, <3>1 DEF ByteType
    <3> HIDE DEF chunk, k
    <3> QED
      BY <3>1, <3>2, <3>3 DEF ChunkType
  <2> HIDE DEF chunk
  <2>3. CASE folding.first
    <3>1. folding' = [folding EXCEPT !.first = FALSE, !.chunk = chunk, !.given = <<chunk>>]
      BY <1>1, <2>3 DEF FoldWrite, chunk
    <3>2. folding' \in FoldType /\ folding'.first = FALSE /\ folding'.chunk = chunk
          /\ folding'.given = <<chunk>>
      <4>1. <<chunk>> \in Seq(ChunkType)
        BY <2>2
      <4> QED
        BY <3>1, <4>1, <1>t, <2>2 DEF FoldType
    <3>3. ASSUME NEW i \in DOMAIN chunk
          PROVE  chunk[i] = UNION {<<chunk>>[j][i] : j \in Givers(<<chunk>>, i)}
      <4>1. Givers(<<chunk>>, i) = {1}
        BY <3>3 DEF Givers
      <4> QED
        BY <4>1
    <3>4. <<chunk>> # <<>> /\ <<chunk>>[1] = chunk
      OBVIOUS
    <3> QED
      BY <3>2, <3>3, <3>4 DEF FoldInv
  <2>4. CASE ~folding.first
    <3>1. folding' = [folding EXCEPT !.chunk = sum, !.given = Append(given, chunk)]
      BY <1>1, <2>4 DEF FoldWrite, chunk
    <3>2. sum \in ChunkType /\ DOMAIN sum = DOMAIN folding.chunk
      <4>1. \A i \in DOMAIN folding.chunk : sum[i] \in SUBSET ByteType
        BY <1>t, <2>2 DEF ChunkType
      <4>2. DOMAIN folding.chunk = 1 .. Len(folding.chunk) /\ Len(folding.chunk) \in Nat
        BY <1>t DEF ChunkType
      <4> QED
        BY <4>1, <4>2 DEF ChunkType
    <3>3. \A i \in DOMAIN sum :
            sum[i] = folding.chunk[i] \union (IF i \in DOMAIN chunk THEN chunk[i] ELSE {})
      OBVIOUS
    <3> HIDE DEF sum
    <3>4. /\ Append(given, chunk) \in Seq(ChunkType) /\ Append(given, chunk) # <<>>
          /\ DOMAIN Append(given, chunk) = DOMAIN given \union {k} /\ k \notin DOMAIN given
          /\ Append(given, chunk)[k] = chunk
          /\ \A j \in DOMAIN given : Append(given, chunk)[j] = given[j]
      BY <1>t, <2>2
    <3>5. folding' \in FoldType /\ folding'.first = FALSE /\ folding'.chunk = sum
          /\ folding'.given = Append(given, chunk)
      BY <3>1, <3>2, <3>4, <1>t, <2>4 DEF FoldType
    <3>6. 1 \in DOMAIN given
      <4>1. given # <<>> /\ given \in Seq(ChunkType)
        BY <2>4, <1>t DEF FoldInv
      <4> QED
        BY <4>1
    <3> DEFINE all == Append(given, chunk)
    <3> HIDE DEF all, k
    <3>7. ASSUME NEW i \in DOMAIN sum
          PROVE  sum[i] = UNION {all[j][i] : j \in Givers(all, i)}
      <4>1. folding.chunk[i] = UNION {given[j][i] : j \in Givers(given, i)}
        BY <2>4, <3>2, <3>7 DEF FoldInv
      <4>2. \A j \in Givers(given, i) : all[j] = given[j]
        BY <3>4 DEF Givers, all
      <4>3. Givers(all, i) = Givers(given, i) \union (IF i \in DOMAIN chunk THEN {k} ELSE {})
        BY <3>4 DEF Givers, all
      <4>4. all[k] = chunk
        BY <3>4 DEF all
      <4>5. UNION {all[j][i] : j \in Givers(all, i)}
              = (UNION {given[j][i] : j \in Givers(given, i)})
                  \union (IF i \in DOMAIN chunk THEN chunk[i] ELSE {})
        <5>1. CASE i \in DOMAIN chunk
          BY <4>2, <4>3, <4>4, <5>1
        <5>2. CASE i \notin DOMAIN chunk
          BY <4>2, <4>3, <5>2
        <5> QED
          BY <5>1, <5>2
      <4> QED
        BY <3>3, <4>1, <4>5
    <3>8. DOMAIN sum = DOMAIN all[1]
      BY <2>4, <3>2, <3>4, <3>6 DEF FoldInv, all
    <3>9. folding'.given = all /\ all # <<>>
      BY <3>4, <3>5 DEF all
    <3> QED
      BY <3>5, <3>7, <3>8, <3>9 DEF FoldInv
  <2> QED
    BY <2>3, <2>4
<1>2. CASE FoldFlush
  <2>1. folding' = [folding EXCEPT !.state = "flushed"]
    BY <1>2 DEF FoldFlush
  <2>2. folding' \in FoldType /\ folding'.given = folding.given /\ folding'.first = folding.first
        /\ folding'.chunk = folding.chunk
    BY <2>1, <1>t DEF FoldType
  <2> QED
    BY <2>2 DEF FoldInv
<1>3. CASE UNCHANGED folding
  BY <1>3 DEF FoldInv
<1> QED
  BY <1>1, <1>2, <1>3

-----------------------------------------------------------------------------
(* Until it ends, the transform of several sources has pushed the XOR of   *)
(* all that every source has given, as long as no chunk took the place of  *)
(* bytes not used; it ends only when a source has ended or has no byte     *)
(* left; and the XorTransform holds the XOR of all chunks, as long as the  *)
(* first (xorMultipleTransform.ts, xorTransform.ts).  For any sources,     *)
(* chunks and order of events.                                             *)
THEOREM XorAlwaysOfAll == Spec => XorOfAll
<1>1. Init => XorInv /\ FoldInv
  <2> SUFFICES ASSUME Init PROVE XorInv /\ FoldInv
    OBVIOUS
  <2>1. PICK p \in XorPlans : folding = [plan |-> p, given |-> <<>>, first |-> TRUE,
                                         chunk |-> <<>>, state |-> "open"]
    BY DEF Init
  <2>2. FoldInv
    BY <2>1 DEF FoldInv, FoldType, ChunkType
  <2> QED
    BY <2>2, XorInitially DEF Init
<1>2. [Next]_vars => [XorNext]_xorVars /\ [FoldWrite \/ FoldFlush]_folding
  BY DEF Next, vars, cipherVars, Pipeline, EncryptWrite, EncryptFlush, Checksum, ChecksumFlush,
         DecryptPiece, DecryptFlush, Break, SumUp, FoldWrite, FoldFlush
<1>3. FoldInv => FoldOfChunks
  <2> SUFFICES ASSUME FoldInv, folding.given # <<>>
               PROVE  folding.chunk = [i \in DOMAIN folding.given[1] |->
                        UNION {folding.given[k][i] : k \in Givers(folding.given, i)}]
    BY DEF FoldOfChunks, Givers
  <2>1. /\ folding.chunk \in ChunkType /\ ~folding.first
    BY DEF FoldInv, FoldType
  <2>2. folding.chunk = [i \in DOMAIN folding.chunk |-> folding.chunk[i]]
    BY <2>1 DEF ChunkType
  <2>3. DOMAIN folding.chunk = DOMAIN folding.given[1]
    BY <2>1 DEF FoldInv
  <2>4. \A i \in DOMAIN folding.chunk :
          folding.chunk[i] = UNION {folding.given[k][i] : k \in Givers(folding.given, i)}
    BY <2>1 DEF FoldInv
  <2> QED
    BY <2>2, <2>3, <2>4
<1>4. EndsForWantStep =>
        [~replaced' /\ xorState = "open" /\ xorState' # "open" =>
           \E s \in Sources : streamEnded'[s] \/ taken'[s] = Len(xored')]_xorVars
  BY DEF EndsForWantStep
<1> QED
  BY <1>1, <1>2, <1>3, <1>4, XorStep, XorHolds, FoldStep, PTL DEF Spec, XorOfAll, EndsForWant

-----------------------------------------------------------------------------
(* Parts of sequences.                                                     *)

(* The elements of s behind the first a, up to the b-th.                   *)
Part(s, a, b) == SubSeq(s, a + 1, b)

(* A part, element by element. *)
LEMMA PartIs ==
  ASSUME NEW T, NEW s \in Seq(T), NEW b \in 0 .. Len(s), NEW a \in 0 .. b
  PROVE  /\ Part(s, a, b) \in Seq(T) /\ Len(Part(s, a, b)) = b - a
         /\ \A i \in 1 .. b - a : Part(s, a, b)[i] = s[a + i]
<1> DEFINE m == a + 1
<1>1. Len(s) \in Nat
  BY LenProperties
<1>2. m \in Int /\ b \in Int /\ b - m + 1 = b - a /\ (m <= b <=> a # b)
      /\ \A i \in 1 .. b - a : m + i - 1 = a + i
  BY <1>1
<1>3. \A i \in m .. b : s[i] \in T
  <2>1. \A i \in m .. b : i \in 1 .. Len(s)
    BY <1>1
  <2> QED
    BY <2>1, ElementOfSeq
<1> HIDE DEF m
<1>4. /\ SubSeq(s, m, b) \in Seq(T)
      /\ Len(SubSeq(s, m, b)) = IF m <= b THEN b - m + 1 ELSE 0
      /\ \A i \in 1 .. b - m + 1 : SubSeq(s, m, b)[i] = s[m + i - 1]
  BY <1>2, <1>3, SubSeqProperties
<1> DEFINE p == SubSeq(s, m, b)
<1>5. p = Part(s, a, b)
  BY Zenon DEF Part, p, m
<1> HIDE DEF p
<1>6. p \in Seq(T) /\ Len(p) = b - a /\ \A i \in 1 .. b - a : p[i] = s[a + i]
  <2>1. Len(p) = IF m <= b THEN b - m + 1 ELSE 0
    BY <1>4, Zenon DEF p
  <2>2. Len(p) = b - a
    BY <1>2, <2>1
  <2>3. p \in Seq(T) /\ \A i \in 1 .. b - m + 1 : p[i] = s[m + i - 1]
    BY <1>4, Zenon DEF p
  <2> QED
    BY <1>2, <2>2, <2>3
<1> QED
  BY <1>5, <1>6

(* A part of a part is a part. *)
LEMMA PartOfPart ==
  ASSUME NEW T, NEW s \in Seq(T), NEW b \in 0 .. Len(s), NEW a \in 0 .. b,
         NEW y \in 0 .. b - a, NEW x \in 0 .. y
  PROVE  Part(Part(s, a, b), x, y) = Part(s, a + x, a + y)
<1> DEFINE p == Part(s, a, b)
<1>1. Len(s) \in Nat /\ a + y \in 0 .. Len(s) /\ a + x \in 0 .. a + y /\ (a + y) - (a + x) = y - x
  BY LenProperties
<1>2. p \in Seq(T) /\ Len(p) = b - a /\ \A i \in 1 .. b - a : p[i] = s[a + i]
  BY PartIs
<1> HIDE DEF p
<1>3. y \in 0 .. Len(p)
  BY <1>2
<1> DEFINE q == Part(p, x, y)
           c == a + x
           d == a + y
<1>4. q \in Seq(T) /\ Len(q) = y - x /\ \A i \in 1 .. y - x : q[i] = p[x + i]
  BY <1>2, <1>3, PartIs
<1> HIDE DEF q
<1> DEFINE r == Part(s, c, d)
<1>5. c \in 0 .. d /\ d \in 0 .. Len(s) /\ d - c = y - x
  BY <1>1
<1>6. \A i \in 1 .. y - x : x + i \in 1 .. b - a /\ a + (x + i) = c + i
  BY <1>1
<1> HIDE DEF c, d
<1>7. r \in Seq(T) /\ Len(r) = d - c /\ \A i \in 1 .. d - c : r[i] = s[c + i]
  BY <1>5, PartIs
<1> HIDE DEF r
<1>8. \A i \in 1 .. Len(q) : q[i] = r[i]
  BY <1>2, <1>4, <1>5, <1>6, <1>7
<1>9. q = r
  BY <1>4, <1>5, <1>7, <1>8, SeqEqual
<1> QED
  BY <1>9, Zenon DEF q, p, r, c, d

(* Two parts that follow each other make one. *)
LEMMA PartsJoin ==
  ASSUME NEW T, NEW s \in Seq(T), NEW c \in 0 .. Len(s), NEW b \in 0 .. c, NEW a \in 0 .. b
  PROVE  Part(s, a, b) \o Part(s, b, c) = Part(s, a, c)
<1> DEFINE p == Part(s, a, b)
           q == Part(s, b, c)
           r == Part(s, a, c)
<1>1. Len(s) \in Nat /\ b \in 0 .. Len(s) /\ a \in 0 .. c
  BY LenProperties
<1>2. p \in Seq(T) /\ Len(p) = b - a /\ \A i \in 1 .. b - a : p[i] = s[a + i]
  BY <1>1, PartIs
<1>3. q \in Seq(T) /\ Len(q) = c - b /\ \A i \in 1 .. c - b : q[i] = s[b + i]
  BY <1>1, PartIs
<1>4. r \in Seq(T) /\ Len(r) = c - a /\ \A i \in 1 .. c - a : r[i] = s[a + i]
  BY <1>1, PartIs
<1> HIDE DEF p, q, r
<1>5. /\ p \o q \in Seq(T) /\ Len(p \o q) = Len(p) + Len(q)
      /\ \A i \in 1 .. Len(p) + Len(q) :
           (p \o q)[i] = IF i <= Len(p) THEN p[i] ELSE q[i - Len(p)]
  BY <1>2, <1>3, ConcatProperties
<1> DEFINE t == p \o q
<1>6. t \in Seq(T) /\ Len(t) = Len(r) /\ Len(t) = c - a
  BY <1>2, <1>3, <1>4, <1>5
<1>7. ASSUME NEW i \in 1 .. Len(t) PROVE t[i] = r[i]
  <2>0. i \in 1 .. c - a /\ i \in 1 .. Len(p) + Len(q)
    BY <1>2, <1>3, <1>6
  <2>1. CASE i <= b - a
    BY <1>2, <1>4, <1>5, <2>0, <2>1
  <2>2. CASE ~(i <= b - a)
    <3>1. i - (b - a) \in 1 .. c - b /\ b + (i - (b - a)) = a + i
      BY <2>0, <2>2
    <3>2. t[i] = q[i - (b - a)]
      BY <1>2, <1>5, <2>0, <2>2
    <3> QED
      BY <1>3, <1>4, <2>0, <3>1, <3>2
  <2> QED
    BY <2>1, <2>2
<1> HIDE DEF t
<1>8. t = r
  BY <1>4, <1>6, <1>7, SeqEqual
<1> QED
  BY <1>8, Zenon DEF t, p, q, r

(* What is appended does not change a part. *)
LEMMA PartOfLonger ==
  ASSUME NEW T, NEW s \in Seq(T), NEW t \in Seq(T), NEW b \in 0 .. Len(s), NEW a \in 0 .. b
  PROVE  Part(s \o t, a, b) = Part(s, a, b)
<1> DEFINE u == s \o t
<1>1. Len(s) \in Nat /\ Len(t) \in Nat
  BY LenProperties
<1>2. /\ u \in Seq(T) /\ Len(u) = Len(s) + Len(t)
      /\ \A i \in 1 .. Len(s) + Len(t) : u[i] = IF i <= Len(s) THEN s[i] ELSE t[i - Len(s)]
  BY ConcatProperties
<1> HIDE DEF u
<1>3. b \in 0 .. Len(u)
  BY <1>1, <1>2
<1> DEFINE p == Part(u, a, b)
           q == Part(s, a, b)
<1>4. p \in Seq(T) /\ Len(p) = b - a /\ \A i \in 1 .. b - a : p[i] = u[a + i]
  BY <1>2, <1>3, PartIs
<1>5. q \in Seq(T) /\ Len(q) = b - a /\ \A i \in 1 .. b - a : q[i] = s[a + i]
  BY PartIs
<1> HIDE DEF p, q
<1>6. \A i \in 1 .. b - a : a + i \in 1 .. Len(s) + Len(t) /\ a + i <= Len(s)
  BY <1>1
<1>7. \A i \in 1 .. Len(p) : p[i] = q[i]
  BY <1>2, <1>4, <1>5, <1>6
<1>8. p = q
  BY <1>4, <1>5, <1>7, SeqEqual
<1> QED
  BY <1>8, Zenon DEF p, q, u

(* The whole, and nothing. *)
LEMMA WholePart ==
  ASSUME NEW T, NEW s \in Seq(T)
  PROVE  /\ Part(s, 0, Len(s)) = s
         /\ \A a \in 0 .. Len(s) : Part(s, a, a) = <<>>
<1>1. Len(s) \in Nat
  BY LenProperties
<1>2. Part(s, 0, Len(s)) = s
  <2> DEFINE p == Part(s, 0, Len(s))
             n == Len(s)
  <2>1. n \in 0 .. Len(s) /\ 0 \in 0 .. n /\ n - 0 = n /\ \A i \in 1 .. n : 0 + i = i
    BY <1>1
  <2> HIDE DEF n
  <2>2. Part(s, 0, n) \in Seq(T) /\ Len(Part(s, 0, n)) = n - 0
        /\ \A i \in 1 .. n - 0 : Part(s, 0, n)[i] = s[0 + i]
    BY <2>1, PartIs
  <2>3. p = Part(s, 0, n)
    BY DEF n
  <2> HIDE DEF p
  <2>4. p \in Seq(T) /\ Len(p) = n /\ \A i \in 1 .. n : p[i] = s[i]
    BY <2>1, <2>2, <2>3
  <2>5. p = s
    BY <2>4, SeqEqual DEF n
  <2> QED
    BY <2>5 DEF p
<1>3. ASSUME NEW a \in 0 .. Len(s) PROVE Part(s, a, a) = <<>>
  <2> DEFINE m == a + 1
  <2>1. m \in Int /\ a \in Int /\ a < m
    BY <1>1
  <2> HIDE DEF m
  <2>2. SubSeq(s, m, a) = <<>>
    BY <2>1, SubSeqEmpty
  <2> QED
    BY <2>2, Zenon DEF Part, m
<1> QED
  BY <1>2, <1>3

-----------------------------------------------------------------------------
(* Blocks.                                                                 *)

(* The cells of messages and blocks.                                       *)
Bytes == {<<"byte", i>> : i \in Nat}

BlockTag(e, text) == TagCell(SharedKey(e, Key), Aad(<<>>, "basic", e), IvCell(e), text)

Cells == Bytes \union {VersionCell, SuiteCell, Cell("basic")}
           \union {KeyCell(e) : e \in Nat} \union {IvCell(e) : e \in Nat}
           \union {BlockTag(e, text) : e \in Nat, text \in Seq(Bytes)}

(* The length of a block and the tag in it, which is made for its text.    *)
IsBlock(b, text) == b \in Seq(Cells) /\ Len(b) = 6 + Len(text) /\ b[6][5] = text

LEMMA BytesAreCells == \A s \in Seq(Bytes) : s \in Seq(Cells)
<1> SUFFICES ASSUME NEW s \in Seq(Bytes) PROVE s \in Seq(Cells)
  OBVIOUS
<1>1. Len(s) \in Nat /\ s \in [1 .. Len(s) -> Bytes]
  BY LenProperties
<1>2. s = [i \in 1 .. Len(s) |-> s[i]] /\ \A i \in 1 .. Len(s) : s[i] \in Cells
  BY <1>1 DEF Cells
<1> QED
  BY <1>1, <1>2

(* EncryptSingle gives a block of the text. *)
LEMMA SealIsBlock ==
  ASSUME NEW e \in Nat, NEW text \in Seq(Bytes), Block(text, e).ok
  PROVE  IsBlock(Block(text, e).cells, text)
<1> DEFINE head == <<VersionCell, SuiteCell, Cell("basic"), KeyCell(e), IvCell(e), BlockTag(e, text)>>
<1>1. Block(text, e).cells = <<>> \o head \o <<>> \o text
  BY DEF Block, EncryptSingle, SealSingle, Refused, BlockTag
<1>2. /\ VersionCell \in Cells /\ SuiteCell \in Cells /\ Cell("basic") \in Cells
      /\ KeyCell(e) \in Cells /\ IvCell(e) \in Cells /\ BlockTag(e, text) \in Cells
  BY DEF Cells
<1>3. head \in Seq(Cells) /\ Len(head) = 6 /\ head[6] = BlockTag(e, text)
  BY <1>2
<1>4. text \in Seq(Cells)
  BY BytesAreCells
<1> HIDE DEF head
<1>5. <<>> \o head = head /\ head \o <<>> = head
  BY <1>3, ConcatEmptySeq
<1>6. /\ head \o text \in Seq(Cells) /\ Len(head \o text) = Len(head) + Len(text)
      /\ \A i \in 1 .. Len(head) + Len(text) :
           (head \o text)[i] = IF i <= Len(head) THEN head[i] ELSE text[i - Len(head)]
  <2>1. head \in Seq(Cells) /\ text \in Seq(Cells)
    BY <1>3, <1>4
  <2> QED
    BY <2>1, ConcatProperties, Zenon
<1>7. Len(text) \in Nat
  BY LenProperties
<1>8. (head \o text)[6] = head[6]
  BY <1>3, <1>6, <1>7
<1>9. BlockTag(e, text)[5] = text
  BY DEF BlockTag, TagCell
<1>10. Block(text, e).cells = head \o text
  BY <1>1, <1>5
<1> QED
  BY <1>3, <1>6, <1>8, <1>9, <1>10 DEF IsBlock

(* What opens as a block is one with the tag of the text that comes out.   *)
LEMMA OpensAsBlock ==
  ASSUME NEW data \in Seq(Cells), DecryptWithHeaderEx("basic", Key, data, 0, NoLength).ok
  PROVE  /\ Len(data) >= 6 /\ data[6][5] = Part(data, 6, Len(data))
         /\ DecryptWithHeaderEx("basic", Key, data, 0, NoLength).decrypted = Part(data, 6, Len(data))
<1> DEFINE parsed == ParseEncryptedMessage("basic", data, 0, NoLength)
<1>1. Len(data) \in Nat
  BY LenProperties
<1>2. /\ parsed.ok
      /\ DecryptWithComponents(Key, parsed.key, parsed.iv, parsed.tag, parsed.data,
                               Aad(parsed.preamble, parsed.type, parsed.key)).ok
      /\ DecryptWithHeaderEx("basic", Key, data, 0, NoLength).decrypted = parsed.data
  BY DEF DecryptWithHeaderEx, OpenParsed, Refused
<1>3. AcceptsHeader("basic", data, 0) /\ parsed = Parsed(data[0 + 3][1], data, 0, NoLength)
  BY <1>2, Zenon DEF ParseEncryptedMessage, Refused
<1>4. data[0 + 3][1] = "basic" /\ Len(data) >= 6
  <2>1. data[0 + 3] = Cell("basic") /\ Len(data) >= GetHeaderSize(data[0 + 3][1])
    BY <1>3 DEF AcceptsHeader
  <2>2. data[0 + 3][1] = "basic"
    BY <2>1 DEF Cell
  <2> QED
    BY <2>1, <2>2 DEF GetHeaderSize
<1>5. parsed = Parsed("basic", data, 0, NoLength)
  BY <1>3, <1>4
<1>6. parsed.tag = data[6] /\ parsed.data = Slice(data, 6, Len(data))
  <2>1. Parsed("basic", data, 0, NoLength) # Refused
    <3> HIDE DEF parsed
    <3>1. parsed # Refused
      BY <1>2 DEF Refused
    <3> QED
      BY <1>5, <3>1, Zenon
  <2> QED
    BY <1>1, <1>4, <1>5, <2>1 DEF Parsed, GetHeaderSize, NoLength
<1>7. Slice(data, 6, Len(data)) = Part(data, 6, Len(data))
  BY <1>1 DEF Slice, Part
<1>8. parsed.tag[5] = parsed.data
  <2>1. parsed.tag = TagCell(SharedKey(parsed.key, Key), Aad(parsed.preamble, parsed.type, parsed.key),
                             parsed.iv, parsed.data)
    BY <1>2, Zenon DEF DecryptWithComponents, Refused
  <2> HIDE DEF parsed
  <2> QED
    BY <2>1 DEF TagCell
<1> QED
  BY <1>2, <1>4, <1>6, <1>7, <1>8, Zenon


-----------------------------------------------------------------------------
(* What is sent and opened.  The k-th cut of the message is c[k]: the      *)
(* blocks are made of what is between two cuts.                            *)
IsCuts(c) ==
  /\ c \in [Nat -> Nat] /\ c[0] = 0
  /\ \A i, k \in Nat : i <= k => c[i] <= c[k]

(* Where the block behind the k-th cut begins, and its text.               *)
At(c, k) == c[k] + 6 * k
Text(c, k) == Part(message, c[k], c[k + 1])

(* s is made of the first n blocks.                                        *)
Carries(s, c, n) ==
  /\ n \in Nat /\ s \in Seq(Cells) /\ Len(s) = At(c, n) /\ c[n] <= Len(message)
  /\ \A k \in 0 .. n - 1 : s[At(c, k) + 6][5] = Text(c, k)

(* The first block lies behind the cut before it, and so on. *)
LEMMA CutsInOrder ==
  ASSUME NEW c, IsCuts(c), NEW n \in Nat, NEW k \in 0 .. n
  PROVE  /\ c[k] \in Nat /\ c[n] \in Nat /\ c[k] <= c[n]
         /\ At(c, k) \in Nat /\ At(c, n) \in Nat /\ At(c, k) <= At(c, n)
         /\ At(c, k) - c[k] = 6 * k
         /\ At(c, k + 1) = At(c, k) + 6 + (c[k + 1] - c[k])
         /\ k # n => At(c, k) + 6 <= At(c, n)
<1>1. k \in Nat /\ k + 1 \in Nat /\ k <= n
  OBVIOUS
<1>2. c[k] \in Nat /\ c[n] \in Nat /\ c[k + 1] \in Nat /\ c[k] <= c[n]
  BY <1>1 DEF IsCuts
<1> QED
  BY <1>1, <1>2 DEF At

Opening(data) == DecryptWithHeaderEx("basic", Key, data, 0, NoLength)

(* What opens at the beginning of a block is exactly that block.           *)
LEMMA OpensExactly ==
  ASSUME message \in Seq(Bytes), NEW c, IsCuts(c), NEW s, NEW n, Carries(s, c, n),
         NEW k \in 0 .. n, NEW z \in At(c, k) .. Len(s),
         Opening(Part(s, At(c, k), z)).ok
  PROVE  /\ k \in 0 .. n - 1 /\ z = At(c, k + 1)
         /\ Opening(Part(s, At(c, k), z)).decrypted = Text(c, k)
<1> DEFINE a == At(c, k)
           data == Part(s, a, z)
<1>1. s \in Seq(Cells) /\ Len(s) \in Nat /\ n \in Nat /\ Len(s) = At(c, n) /\ Len(message) \in Nat
  BY LenProperties DEF Carries
<1>2. /\ c[k] \in Nat /\ a \in Nat /\ a - c[k] = 6 * k
      /\ At(c, k + 1) = a + 6 + (c[k + 1] - c[k])
  BY <1>1, CutsInOrder
<1>3. a \in 0 .. z /\ z \in 0 .. Len(s)
  BY <1>1, <1>2
<1> HIDE DEF a
<1>4. data \in Seq(Cells) /\ Len(data) = z - a /\ \A i \in 1 .. z - a : data[i] = s[a + i]
  BY <1>1, <1>3, PartIs
<1> HIDE DEF data
<1>5. /\ Len(data) >= 6 /\ data[6][5] = Part(data, 6, Len(data))
      /\ Opening(data).decrypted = Part(data, 6, Len(data))
  <2>1. Opening(data).ok
    BY Zenon DEF data, a
  <2> QED
    BY <1>4, <2>1, OpensAsBlock DEF Opening
<1>6. k \in 0 .. n - 1
  <2>1. k # n
    BY <1>1, <1>3, <1>4, <1>5 DEF a
  <2> QED
    BY <1>1, <2>1
<1>7. data[6] = s[a + 6]
  BY <1>3, <1>4, <1>5
<1>8. Part(data, 6, Len(data)) = Text(c, k)
  <2>1. s[At(c, k) + 6][5] = Text(c, k)
    BY <1>6 DEF Carries
  <2> QED
    BY <1>5, <1>7, <2>1 DEF a
<1>9. c[k + 1] \in Nat /\ c[k + 1] <= Len(message) /\ c[k] <= c[k + 1]
  <2>1. k + 1 \in 0 .. n /\ k \in 0 .. k + 1 /\ k + 1 \in Nat
    BY <1>1, <1>6
  <2>2. c[k + 1] \in Nat /\ c[k + 1] <= c[n] /\ c[n] \in Nat
    BY <1>1, <2>1, CutsInOrder
  <2>3. c[k] <= c[k + 1]
    BY <2>1, CutsInOrder
  <2> QED
    BY <1>1, <2>2, <2>3 DEF Carries
<1>10. Len(Text(c, k)) = c[k + 1] - c[k]
  <2> DEFINE x == c[k]
             y == c[k + 1]
  <2>1. y \in 0 .. Len(message) /\ x \in 0 .. y
    BY <1>1, <1>2, <1>9
  <2> HIDE DEF x, y
  <2>2. Len(Part(message, x, y)) = y - x
    BY <2>1, PartIs
  <2> QED
    BY <2>2, Zenon DEF x, y, Text
<1>11. Len(Part(data, 6, Len(data))) = Len(data) - 6
  <2> DEFINE m == Len(data)
  <2>1. m \in 0 .. Len(data) /\ 6 \in 0 .. m
    BY <1>3, <1>4, <1>5
  <2> HIDE DEF m
  <2>2. Len(Part(data, 6, m)) = m - 6
    BY <1>4, <2>1, PartIs
  <2> QED
    BY <2>2, Zenon DEF m
<1>12. z = At(c, k + 1)
  <2>1. Len(data) - 6 = c[k + 1] - c[k]
    BY <1>8, <1>10, <1>11, Zenon
  <2>2. Len(data) = z - a
    BY <1>4
  <2> QED
    BY <1>2, <1>3, <1>9, <2>1, <2>2
<1> QED
  BY <1>5, <1>6, <1>8, <1>12, Zenon DEF data, a

-----------------------------------------------------------------------------
(* Multiples of the size of a block.                                       *)
LEMMA Multiples ==
  ASSUME NEW size \in Nat \ {0}, NEW length \in Nat
  PROVE  /\ length \div size \in Nat /\ (length \div size) * size \in 0 .. length
         /\ \A k \in 1 .. length \div size :
              /\ k * size \in 0 .. length /\ (k - 1) * size \in 0 .. k * size
              /\ k * size = (k - 1) * size + size
<1> DEFINE full == length \div size
<1>1. full \in Nat /\ full * size <= length
  OBVIOUS
<1>2. full * size \in Nat
  BY <1>1
<1> HIDE DEF full
<1>3. ASSUME NEW k \in 1 .. full
      PROVE  /\ k * size \in 0 .. length /\ (k - 1) * size \in 0 .. k * size
             /\ k * size = (k - 1) * size + size
  <2>1. (full - k) * size >= 0 /\ full * size = k * size + (full - k) * size
    BY <1>1
  <2>2. (k - 1) * size >= 0 /\ k * size = (k - 1) * size + size
    BY <1>1
  <2>3. k * size \in Int /\ (k - 1) * size \in Int
    BY <1>1
  <2> QED
    BY <1>1, <1>2, <2>1, <2>2, <2>3
<1> QED
  BY <1>1, <1>2, <1>3 DEF full

(* The function the definition of Opened is about: one block more from     *)
(* what was opened before, and that from block to block.                   *)
OneMore(before, opened) ==
  IF ~before.ok THEN before
  ELSE IF opened.ok THEN [ok |-> TRUE, output |-> before.output \o opened.decrypted]
  ELSE [before EXCEPT !.ok = FALSE]

NothingOpened == [ok |-> TRUE, output |-> <<>>]

BlockIn(b, size, k) == Part(b, (k - 1) * size, k * size)

IsOpening(f, b, size, full) ==
  f = [k \in 0 .. full |->
         IF k = 0 THEN NothingOpened ELSE OneMore(f[k - 1], Opening(BlockIn(b, size, k)))]

(* There is such a function for every number of blocks. *)
LEMMA OpeningExists ==
  ASSUME NEW b, NEW size
  PROVE  \A full \in Nat : \E f : IsOpening(f, b, size, full)
<1> DEFINE P == {n \in Nat : \E f : IsOpening(f, b, size, n)}
<1>1. 0 \in P
  <2> DEFINE g == [k \in 0 .. 0 |-> NothingOpened]
  <2>1. IsOpening(g, b, size, 0)
    <3>1. \A k \in 0 .. 0 : k = 0
      OBVIOUS
    <3> QED
      BY <3>1 DEF IsOpening
  <2> QED
    BY <2>1
<1>2. ASSUME NEW n \in Nat, n \in P PROVE n + 1 \in P
  <2>1. PICK f : IsOpening(f, b, size, n)
    BY <1>2
  <2> DEFINE g == [k \in 0 .. n + 1 |->
                     IF k <= n THEN f[k] ELSE OneMore(f[n], Opening(BlockIn(b, size, n + 1)))]
             more(k) == IF k = 0 THEN NothingOpened
                        ELSE OneMore(g[k - 1], Opening(BlockIn(b, size, k)))
  <2>2. ASSUME NEW k \in 0 .. n + 1 PROVE g[k] = more(k)
    <3>1. CASE k = n + 1
      <4>1. k # 0 /\ k - 1 = n /\ ~(k <= n) /\ n \in 0 .. n + 1
        BY <3>1
      <4>2. g[k - 1] = f[n] /\ g[k] = OneMore(f[n], Opening(BlockIn(b, size, n + 1)))
        BY <4>1
      <4> QED
        BY <3>1, <4>1, <4>2, Zenon
    <3>2. CASE k # n + 1
      <4>1. k \in 0 .. n /\ k <= n
        BY <3>2
      <4>2. g[k] = f[k]
        BY <4>1
      <4>3. f[k] = IF k = 0 THEN NothingOpened ELSE OneMore(f[k - 1], Opening(BlockIn(b, size, k)))
        BY <2>1, <4>1 DEF IsOpening
      <4>4. k # 0 => k - 1 \in 0 .. n + 1 /\ k - 1 <= n
        BY <4>1
      <4>5. k # 0 => g[k - 1] = f[k - 1]
        BY <4>4
      <4> QED
        BY <4>2, <4>3, <4>5, Zenon
    <3> QED
      BY <3>1, <3>2
  <2>3. g = [k \in 0 .. n + 1 |-> g[k]]
    OBVIOUS
  <2> HIDE DEF g
  <2>4. g = [k \in 0 .. n + 1 |-> more(k)]
    <3> HIDE DEF more
    <3> QED
      BY <2>2, <2>3, Zenon
  <2>5. IsOpening(g, b, size, n + 1)
    BY <2>4, Zenon DEF IsOpening
  <2> QED
    BY <2>5
<1> HIDE DEF P
<1>3. \A n \in Nat : n \in P
  BY <1>1, <1>2, NumbersInduction
<1> QED
  BY <1>3, Zenon DEF P

(* So Opened is the value of one at the last complete block. *)
LEMMA OpenedByDefinition ==
  ASSUME NEW b \in Seq(Cells), NEW size \in Nat \ {0}
  PROVE  \E f : /\ IsOpening(f, b, size, Len(b) \div size)
                /\ Opened(b, size) = [ok |-> f[Len(b) \div size].ok, output |-> f[Len(b) \div size].output,
                                      rest |-> Part(b, (Len(b) \div size) * size, Len(b))]
<1> DEFINE full == Len(b) \div size
           F == CHOOSE f : IsOpening(f, b, size, full)
<1>1. Len(b) \in Nat
  BY LenProperties
<1>2. full \in Nat
  BY <1>1, Multiples
<1> HIDE DEF full
<1>3. IsOpening(F, b, size, full)
  BY <1>2, OpeningExists, Zenon
<1>4. Opened(b, size) = [ok |-> F[full].ok, output |-> F[full].output, rest |-> Part(b, full * size, Len(b))]
  BY Zenon DEF Opened, F, IsOpening, OneMore, NothingOpened, BlockIn, Opening, Part, full
<1> QED
  BY <1>3, <1>4, Zenon DEF full

(* The message is given out up to the r-th cut, after p bytes.             *)
Reached(o, c, q, r, p) ==
  /\ o \in [ok : BOOLEAN, output : {Part(message, c[q], c[r])}]
  /\ o.ok => At(c, r) = p

(* From cut to cut: one more block that opens is the next one. *)
LEMMA OneMoreReaches ==
  ASSUME message \in Seq(Bytes), NEW c, IsCuts(c), NEW s, NEW n, Carries(s, c, n),
         NEW q \in 0 .. n, NEW r \in q .. n, NEW x \in Nat, NEW y \in x .. Len(s),
         NEW o, Reached(o, c, q, r, x)
  PROVE  \E t \in q .. n : Reached(OneMore(o, Opening(Part(s, x, y))), c, q, t, y)
<1> DEFINE d == Opening(Part(s, x, y))
           out == Part(message, c[q], c[r])
<1>1. /\ o.ok \in BOOLEAN /\ o.output = out /\ o = [ok |-> o.ok, output |-> out]
      /\ o.ok => At(c, r) = x
  BY DEF Reached
<1>2. CASE ~o.ok
  <2>1. OneMore(o, d) = o
    BY <1>2 DEF OneMore
  <2>2. Reached(o, c, q, r, y)
    BY <1>2 DEF Reached
  <2> QED
    BY <2>1, <2>2
<1>3. CASE o.ok /\ ~d.ok
  <2>1. OneMore(o, d) = [ok |-> FALSE, output |-> out]
    <3> HIDE DEF d, out
    <3>1. OneMore(o, d) = [o EXCEPT !.ok = FALSE]
      BY <1>3, Zenon DEF OneMore
    <3> QED
      BY <3>1, <1>1
  <2>2. Reached([ok |-> FALSE, output |-> out], c, q, r, y)
    <3> HIDE DEF d
    <3> QED
      BY DEF Reached
  <2> QED
    BY <2>1, <2>2
<1>4. CASE o.ok /\ d.ok
  <2>1. At(c, r) = x
    BY <1>1, <1>4
  <2>2. r \in 0 .. n /\ n \in Nat /\ q \in 0 .. r
    BY DEF Carries
  <2>3. /\ r \in 0 .. n - 1 /\ y = At(c, r + 1) /\ d.decrypted = Text(c, r)
    <3>1. y \in At(c, r) .. Len(s)
      BY <2>1
    <3>2. Opening(Part(s, At(c, r), y)).ok
      BY <1>4, <2>1
    <3>3. /\ r \in 0 .. n - 1 /\ y = At(c, r + 1)
          /\ Opening(Part(s, At(c, r), y)).decrypted = Text(c, r)
      BY <2>2, <3>1, <3>2, OpensExactly
    <3> QED
      BY <2>1, <3>3, Zenon
  <2>4. OneMore(o, d) = [ok |-> TRUE, output |-> out \o Text(c, r)]
    <3> HIDE DEF d, out
    <3> QED
      BY <1>1, <1>4, <2>3, Zenon DEF OneMore
  <2>5. out \o Text(c, r) = Part(message, c[q], c[r + 1])
    <3>1. r + 1 \in 0 .. n /\ q \in 0 .. r + 1 /\ r \in 0 .. r + 1 /\ r + 1 \in Nat /\ r \in Nat
      BY <2>2, <2>3
    <3>2. c[q] \in Nat /\ c[r] \in Nat /\ c[r + 1] \in Nat /\ c[q] <= c[r] /\ c[r] <= c[r + 1]
      BY <2>2, <3>1, CutsInOrder
    <3>3. c[r + 1] <= c[n] /\ c[n] \in Nat
      BY <2>2, <3>1, CutsInOrder
    <3>4. Len(message) \in Nat /\ c[n] <= Len(message)
      BY LenProperties DEF Carries
    <3> DEFINE a == c[q]
               b == c[r]
               e == c[r + 1]
    <3>5. e \in 0 .. Len(message) /\ b \in 0 .. e /\ a \in 0 .. b
      BY <3>2, <3>3, <3>4
    <3> HIDE DEF a, b, e
    <3>6. Part(message, a, b) \o Part(message, b, e) = Part(message, a, e)
      BY <3>5, PartsJoin
    <3> QED
      BY <3>6, Zenon DEF a, b, e, out, Text
  <2>6. Reached([ok |-> TRUE, output |-> out \o Text(c, r)], c, q, r + 1, y)
    <3> HIDE DEF d, out
    <3> QED
      BY <2>3, <2>5 DEF Reached
  <2>7. r + 1 \in q .. n
    BY <2>2, <2>3
  <2> QED
    BY <2>4, <2>6, <2>7
<1> QED
  BY <1>1, <1>2, <1>3, <1>4

(* Opening the complete blocks of a piece that begins at a cut ends at a   *)
(* cut, unless it fails, and gives the message in between.                 *)
LEMMA OpenedBetweenCuts ==
  ASSUME message \in Seq(Bytes), NEW c, IsCuts(c), NEW s, NEW n, Carries(s, c, n),
         NEW q \in 0 .. n, NEW z \in At(c, q) .. Len(s), NEW size \in Nat \ {0}
  PROVE  LET o == Opened(Part(s, At(c, q), z), size)
         IN  /\ o.ok \in BOOLEAN /\ o.rest \in Seq(Cells)
             /\ \E r \in q .. n : /\ o.output = Part(message, c[q], c[r])
                                  /\ o.ok => /\ At(c, r) \in At(c, q) .. z
                                             /\ o.rest = Part(s, At(c, r), z)
<1> DEFINE a == At(c, q)
           b == Part(s, a, z)
           full == Len(b) \div size
<1>1. n \in Nat /\ s \in Seq(Cells) /\ Len(s) \in Nat
  BY LenProperties DEF Carries
<1>2. a \in 0 .. z /\ z \in 0 .. Len(s) /\ a \in Nat
  <2>1. a \in Nat
    BY <1>1, CutsInOrder, Zenon
  <2> HIDE DEF a
  <2>2. z \in a .. Len(s)
    BY DEF a
  <2> QED
    BY <1>1, <2>1, <2>2
<1> HIDE DEF a
<1>3. b \in Seq(Cells) /\ Len(b) = z - a
  BY <1>1, <1>2, PartIs
<1>4. Len(b) \in Nat
  BY <1>2, <1>3
<1> HIDE DEF b
<1>5. /\ full \in Nat /\ full * size \in 0 .. Len(b)
      /\ \A k \in 1 .. full : /\ k * size \in 0 .. Len(b) /\ (k - 1) * size \in 0 .. k * size
                              /\ k * size = (k - 1) * size + size
  BY <1>4, Multiples
<1>6. PICK f : /\ IsOpening(f, b, size, full)
               /\ Opened(b, size) = [ok |-> f[full].ok, output |-> f[full].output,
                                     rest |-> Part(b, full * size, Len(b))]
  BY <1>3, OpenedByDefinition, Zenon
<1> HIDE DEF full
<1> DEFINE ReachedAfter(k) == \E r \in q .. n : Reached(f[k], c, q, r, a + k * size)
           P == {k \in Nat : k <= full => ReachedAfter(k)}
<1>7. 0 \in P
  <2>1. f[0] = NothingOpened
    BY <1>5, <1>6 DEF IsOpening
  <2>2. q \in q .. n /\ Part(message, c[q], c[q]) = <<>>
    <3>1. c[q] \in 0 .. Len(message)
      <4>1. c[q] \in Nat /\ c[n] \in Nat /\ c[q] <= c[n]
        BY <1>1, CutsInOrder
      <4>2. Len(message) \in Nat /\ c[n] <= Len(message)
        BY LenProperties DEF Carries
      <4> QED
        BY <4>1, <4>2
    <3> QED
      BY <1>1, <3>1, WholePart
  <2>3. a + 0 * size = a
    BY <1>2
  <2>4. Reached(NothingOpened, c, q, q, a)
    BY <2>2 DEF Reached, NothingOpened, a
  <2> QED
    BY <2>1, <2>2, <2>3, <2>4
<1>8. ASSUME NEW k \in Nat, k \in P PROVE k + 1 \in P
  <2> SUFFICES ASSUME k + 1 <= full PROVE ReachedAfter(k + 1)
    OBVIOUS
  <2>1. PICK r \in q .. n : Reached(f[k], c, q, r, a + k * size)
    BY <1>5, <1>8
  <2> DEFINE u == k * size
             v == (k + 1) * size
             x == a + u
             y == a + v
  <2>2. k + 1 \in 1 .. full /\ k + 1 \in 0 .. full /\ k + 1 # 0 /\ (k + 1) - 1 = k
    BY <1>5
  <2>3. v \in 0 .. Len(b) /\ u \in 0 .. v
    BY <1>5, <2>2, Zenon
  <2> HIDE DEF u, v
  <2>4. BlockIn(b, size, k + 1) = Part(s, x, y)
    <3>1. v \in 0 .. z - a
      BY <1>3, <2>3
    <3>2. Part(Part(s, a, z), u, v) = Part(s, x, y)
      BY <1>1, <1>2, <2>3, <3>1, PartOfPart
    <3> QED
      BY <2>2, <3>2, Zenon DEF BlockIn, b, u, v
  <2>5. f[k + 1] = OneMore(f[k], Opening(BlockIn(b, size, k + 1)))
    BY <1>6, <2>2 DEF IsOpening
  <2>6. x \in Nat /\ y \in x .. Len(s)
    BY <1>1, <1>2, <1>3, <2>3
  <2> HIDE DEF x, y
  <2>7. Reached(f[k], c, q, r, x)
    BY <2>1, Zenon DEF x, u
  <2>8. \E t \in q .. n : Reached(OneMore(f[k], Opening(Part(s, x, y))), c, q, t, y)
    BY <2>6, <2>7, OneMoreReaches
  <2> QED
    BY <2>4, <2>5, <2>8, Zenon DEF y, v
<1> HIDE DEF P
<1>9. full \in P
  BY <1>5, <1>7, <1>8, NumbersInduction
<1>10. PICK r \in q .. n : Reached(f[full], c, q, r, a + full * size)
  BY <1>5, <1>9 DEF P
<1> DEFINE o == Opened(b, size)
           w == full * size
<1>11. o.ok = f[full].ok /\ o.output = f[full].output /\ o.rest = Part(b, w, Len(b))
  BY <1>6
<1>12. o.ok \in BOOLEAN /\ o.output = Part(message, c[q], c[r])
  BY <1>10, <1>11 DEF Reached
<1>13. w \in 0 .. Len(b)
  BY <1>5
<1> HIDE DEF w
<1>14. o.rest \in Seq(Cells)
  <2> DEFINE m == Len(b)
  <2>1. m \in 0 .. Len(b) /\ w \in 0 .. m
    BY <1>4, <1>13
  <2> HIDE DEF m
  <2>2. Part(b, w, m) \in Seq(Cells)
    BY <1>3, <2>1, PartIs
  <2> QED
    BY <1>11, <2>2, Zenon DEF m
<1>15. o.rest = Part(s, a + w, z) /\ a + w \in a .. z
  <2> DEFINE m == z - a
  <2>1. m \in 0 .. z - a /\ w \in 0 .. m /\ a + m = z /\ m = Len(b)
    BY <1>2, <1>3, <1>13
  <2> HIDE DEF m
  <2>2. Part(Part(s, a, z), w, m) = Part(s, a + w, a + m)
    BY <1>1, <1>2, <2>1, PartOfPart
  <2>3. o.rest = Part(s, a + w, z)
    BY <1>11, <2>1, <2>2, Zenon DEF b
  <2> QED
    BY <1>2, <1>3, <1>13, <2>3
<1>16. o.ok => At(c, r) = a + w
  BY <1>10, <1>11, Zenon DEF Reached, w
<1> HIDE DEF o
<1>17. /\ o.ok \in BOOLEAN /\ o.rest \in Seq(Cells)
       /\ \E t \in q .. n : /\ o.output = Part(message, c[q], c[t])
                            /\ o.ok => At(c, t) \in a .. z /\ o.rest = Part(s, At(c, t), z)
  BY <1>12, <1>15, <1>16, <1>14
<1> QED
  BY <1>17, Zenon DEF o, b, a

-----------------------------------------------------------------------------
(* The inductive invariant of the pipeline.                                *)

(* The blocks that were passed on; the others wait to be hashed.           *)
Taken == encrypting.count - Len(encrypting.blocks)

(* Nothing more arrives.                                                   *)
Over == wire.state = "broken" \/ (hashing.state = "flushed" /\ wire.arrived = Len(wire.sent))

Arrived == Part(wire.sent, 0, wire.arrived)

PipeTypes ==
  /\ message \in Seq(Bytes) /\ written \in 0 .. Len(message) /\ blockSize \in Nat
  /\ encrypting \in [state : {"open", "flushed", "failed"}, buffer : Seq(Bytes),
                     blocks : Seq(Seq(Cells)), count : Nat]
  /\ hashing \in [state : {"open", "flushed"}, seen : Seq(Cells)]
  /\ wire \in [state : {"open", "broken"}, sent : Seq(Cells), arrived : Nat]
  /\ wire.arrived <= Len(wire.sent)
  /\ decrypting \in [state : {"open", "flushed", "failed"}, blockSize : Nat \ {0},
                     buffer : Seq(Cells), output : Seq(Bytes)]
  /\ crc.state \in {"open", "resolved", "rejected"}

(* The blocks that wait are those behind the ones passed on.               *)
Queued(c) ==
  \A k \in 1 .. Len(encrypting.blocks) : IsBlock(encrypting.blocks[k], Text(c, Taken + k - 1))

EncryptingInv(c) ==
  /\ Len(encrypting.blocks) <= encrypting.count
  /\ Queued(c)
  /\ c[encrypting.count] <= written
  /\ encrypting.state # "failed" =>
       encrypting.buffer = Part(message, c[encrypting.count], written)
  /\ encrypting.state = "flushed" => c[encrypting.count] = Len(message)

SendingInv(c) ==
  /\ Carries(wire.sent, c, Taken)
  /\ hashing.seen = wire.sent
  /\ hashing.state = "flushed" => encrypting.state = "flushed" /\ encrypting.blocks = <<>>

ReceivingInv(c) ==
  /\ \E q \in 0 .. Taken :
       /\ decrypting.output = Part(message, 0, c[q])
       /\ decrypting.state # "failed" =>
            /\ At(c, q) <= wire.arrived
            /\ decrypting.buffer = Part(wire.sent, At(c, q), wire.arrived)
  /\ decrypting.state = "flushed" => decrypting.buffer = <<>>

SummingInv ==
  /\ crc = [state |-> crc.state, value |-> <<"crc", Arrived>>, chunks |-> Arrived]
  /\ crc.state # "open" => Over

PipeInvFor(c) == EncryptingInv(c) /\ SendingInv(c) /\ ReceivingInv(c)

PipeInv == PipeTypes /\ SummingInv /\ \E c : IsCuts(c) /\ PipeInvFor(c)

(* Nothing is encrypted, sent or received: the only cut is 0. *)
LEMMA PipeInitially == Init => PipeInv
<1> SUFFICES ASSUME Init PROVE PipeInv
  OBVIOUS
<1>1. PICK n \in Lengths : message = [i \in 1 .. n |-> <<"byte", i>>]
  BY DEF Init
<1>2. message \in Seq(Bytes)
  <2>1. n \in Nat
    BY SizesAssumption
  <2>2. \A i \in 1 .. n : <<"byte", i>> \in Bytes
    BY <2>1 DEF Bytes
  <2> QED
    BY <1>1, <2>1, <2>2
<1>3. blockSize \in Nat \ {0} /\ written = 0
  BY SizesAssumption DEF Init
<1>4. encrypting = [state |-> "open", buffer |-> <<>>, blocks |-> <<>>, count |-> 0]
      /\ hashing = [state |-> "open", seen |-> <<>>]
      /\ wire = [state |-> "open", sent |-> <<>>, arrived |-> 0]
      /\ crc = [state |-> "open", value |-> NothingYet, chunks |-> <<>>]
  BY DEF Init, CrcInit
<1>5. PICK d \in Mismatch :
        decrypting = [state |-> "open", blockSize |-> blockSize + d, buffer |-> <<>>, output |-> <<>>]
  BY DEF Init
<1>6. blockSize + d \in Nat \ {0}
  <2>1. blockSize \in BlockSizes
    BY DEF Init
  <2> QED
    BY <2>1, SizesAssumption
<1>7. Len(message) \in Nat
  BY <1>2, LenProperties
<1>8. \A T : <<>> \in Seq(T) /\ Len(<<>>) = 0
  BY EmptySeq
<1>9. PipeTypes
  <2>1. encrypting \in [state : {"open", "flushed", "failed"}, buffer : Seq(Bytes),
                        blocks : Seq(Seq(Cells)), count : Nat]
    BY <1>4, <1>8
  <2>2. hashing \in [state : {"open", "flushed"}, seen : Seq(Cells)]
        /\ wire \in [state : {"open", "broken"}, sent : Seq(Cells), arrived : Nat]
        /\ wire.arrived <= Len(wire.sent)
    BY <1>4, <1>8
  <2>3. decrypting \in [state : {"open", "flushed", "failed"}, blockSize : Nat \ {0},
                        buffer : Seq(Cells), output : Seq(Bytes)]
    BY <1>5, <1>6, <1>8
  <2> QED
    BY <1>2, <1>3, <1>4, <1>7, <2>1, <2>2, <2>3 DEF PipeTypes
<1>10. Part(<<>>, 0, 0) = <<>>
  <2>1. <<>> \in Seq(Cells) /\ Len(<<>>) = 0
    BY <1>8
  <2> QED
    BY <2>1, WholePart
<1>11. Part(message, 0, 0) = <<>>
  <2>1. 0 \in 0 .. Len(message)
    BY <1>7
  <2> QED
    BY <1>2, <2>1, WholePart
<1>12. SummingInv
  BY <1>4, <1>10 DEF SummingInv, Arrived, NothingYet
<1> DEFINE c == [k \in Nat |-> 0]
<1>13. IsCuts(c) /\ c[0] = 0 /\ At(c, 0) = 0
  BY DEF IsCuts, At
<1> HIDE DEF c
<1>14. Taken = 0 /\ Len(encrypting.blocks) = 0 /\ encrypting.count = 0
  BY <1>4, <1>8 DEF Taken
<1>15. EncryptingInv(c)
  BY <1>3, <1>4, <1>11, <1>13, <1>14 DEF EncryptingInv, Queued
<1>16. SendingInv(c)
  BY <1>4, <1>7, <1>8, <1>13, <1>14 DEF SendingInv, Carries
<1>17. ReceivingInv(c)
  BY <1>4, <1>5, <1>10, <1>11, <1>13, <1>14 DEF ReceivingInv
<1> QED
  BY <1>9, <1>12, <1>13, <1>15, <1>16, <1>17 DEF PipeInv, PipeInvFor

-----------------------------------------------------------------------------
(* The encrypting transform adds blocks.                                   *)

(* Cuts behind the m-th, in equal distances. *)
MoreCuts(c, m, step) == [k \in Nat |-> IF k <= m THEN c[k] ELSE c[m] + (k - m) * step]

(* What is used of them.                                                   *)
Continues(d, c, m, step) ==
  /\ IsCuts(d)
  /\ \A k \in 0 .. m : d[k] = c[k]
  /\ \A k \in Nat : d[m + k] = c[m] + k * step

(* Products, one at a time. *)
LEMMA Product == \A a, b \in Nat : a * b \in Nat
  OBVIOUS

(* A product grows with its factor. *)
LEMMA ProductOrder ==
  ASSUME NEW a \in Nat, NEW b \in Nat, NEW step \in Nat, a <= b
  PROVE  a * step <= b * step
<1>1. (b - a) * step >= 0 /\ b * step = a * step + (b - a) * step
  OBVIOUS
<1>2. a * step \in Int /\ b * step \in Int /\ (b - a) * step \in Int
  OBVIOUS
<1> DEFINE x == a * step
           y == b * step
           z == (b - a) * step
<1> HIDE DEF x, y, z
<1>3. x \in Int /\ y \in Int /\ z \in Int /\ z >= 0 /\ y = x + z
  BY <1>1, <1>2 DEF x, y, z
<1>4. x <= y
  BY <1>3
<1> QED
  BY <1>4 DEF x, y

LEMMA MoreCutsAreCuts ==
  ASSUME NEW c, IsCuts(c), NEW m \in Nat, NEW step \in Nat
  PROVE  Continues(MoreCuts(c, m, step), c, m, step)
<1> DEFINE d == MoreCuts(c, m, step)
<1>0. /\ c \in [Nat -> Nat] /\ c[0] = 0 /\ \A i, k \in Nat : i <= k => c[i] <= c[k]
  BY DEF IsCuts
<1>1. \A k \in Nat : k <= m => d[k] = c[k]
  BY DEF MoreCuts
<1>2. \A k \in Nat : ~(k <= m) => d[k] = c[m] + (k - m) * step
  BY DEF MoreCuts
<1>3. DOMAIN d = Nat /\ d = [k \in Nat |-> d[k]]
  BY DEF MoreCuts
<1> HIDE DEF d
<1>4. \A k \in Nat : ~(k <= m) => k - m \in Nat /\ (k - m) * step \in Nat
  <2>1. \A k \in Nat : ~(k <= m) => k - m \in Nat
    OBVIOUS
  <2> QED
    BY <2>1, Product
<1>5. ASSUME NEW k \in Nat PROVE d[k] \in Nat
  <2>1. CASE k <= m
    BY <1>0, <1>1, <2>1
  <2>2. CASE ~(k <= m)
    <3> DEFINE w == (k - m) * step
    <3>1. w \in Nat /\ d[k] = c[m] + w /\ c[m] \in Nat
      BY <1>0, <1>2, <1>4, <2>2
    <3> HIDE DEF w
    <3> QED
      BY <3>1
  <2> QED
    BY <2>1, <2>2
<1>6. ASSUME NEW i \in Nat, NEW k \in Nat, i <= k PROVE d[i] <= d[k]
  <2>1. CASE k <= m
    <3>1. d[k] = c[k] /\ d[i] = c[i] /\ c[i] <= c[k]
      BY <1>0, <1>1, <1>6, <2>1
    <3> QED
      BY <3>1
  <2>2. CASE i <= m /\ ~(k <= m)
    <3>1. d[i] = c[i] /\ c[i] <= c[m] /\ c[i] \in Nat /\ c[m] \in Nat
      BY <1>0, <1>1, <2>2
    <3> DEFINE w == (k - m) * step
    <3>2. w \in Nat /\ d[k] = c[m] + w
      BY <1>2, <1>4, <2>2
    <3> HIDE DEF w
    <3> QED
      BY <3>1, <3>2
  <2>3. CASE ~(i <= m)
    <3>1. ~(k <= m) /\ i - m \in Nat /\ k - m \in Nat /\ i - m <= k - m
      BY <1>6, <2>3
    <3> DEFINE v == (i - m) * step
               w == (k - m) * step
    <3>2. v \in Nat /\ w \in Nat /\ v <= w
      BY <3>1, Product, ProductOrder
    <3>3. d[i] = c[m] + v /\ d[k] = c[m] + w
      BY <1>2, <2>3, <3>1
    <3> HIDE DEF v, w
    <3>4. c[m] \in Nat
      BY <1>0
    <3> QED
      BY <3>2, <3>3, <3>4
  <2> QED
    BY <1>6, <2>1, <2>2, <2>3
<1>7. IsCuts(d)
  <2>1. d[0] = 0
    BY <1>0, <1>1
  <2>2. d \in [Nat -> Nat]
    BY <1>3, <1>5
  <2> QED
    BY <1>6, <2>1, <2>2 DEF IsCuts
<1>8. ASSUME NEW k \in Nat PROVE d[m + k] = c[m] + k * step
  <2>1. CASE k = 0
    <3>1. m + k = m /\ k * step = 0
      BY <2>1
    <3>2. d[m] = c[m] /\ c[m] \in Nat
      BY <1>0, <1>1
    <3> QED
      BY <3>1, <3>2
  <2>2. CASE k # 0
    <3>1. m + k \in Nat /\ ~(m + k <= m) /\ (m + k) - m = k
      BY <2>2
    <3> QED
      BY <1>2, <3>1
  <2> QED
    BY <2>1, <2>2
<1>9. \A k \in 0 .. m : d[k] = c[k]
  BY <1>1
<1>10. Continues(d, c, m, step)
  BY <1>7, <1>8, <1>9, Zenon DEF Continues
<1> QED
  BY <1>10 DEF d

(* What was sent and received does not depend on cuts that come later.     *)
LEMMA LaterCuts ==
  ASSUME PipeTypes, NEW c, IsCuts(c), PipeInvFor(c), NEW d,
         \A k \in 0 .. encrypting.count : d[k] = c[k],
         encrypting.state = "open", encrypting'.count \in Nat, Taken' = Taken,
         UNCHANGED <<message, hashing, wire, decrypting>>
  PROVE  SendingInv(d)' /\ ReceivingInv(d)'
<1> DEFINE n == Taken
<1>1. encrypting.count \in Nat /\ Len(encrypting.blocks) \in Nat /\ n \in 0 .. encrypting.count
  <2>1. encrypting.blocks \in Seq(Seq(Cells)) /\ encrypting.count \in Nat
    BY DEF PipeTypes
  <2>2. Len(encrypting.blocks) \in Nat /\ Len(encrypting.blocks) <= encrypting.count
    BY <2>1, LenProperties DEF PipeInvFor, EncryptingInv
  <2> QED
    BY <2>1, <2>2 DEF Taken
<1>2. /\ Carries(wire.sent, c, n) /\ hashing.seen = wire.sent
      /\ hashing.state # "flushed"
  BY DEF PipeInvFor, SendingInv
<1>3. n' = n
  OBVIOUS
<1> HIDE DEF n
<1>4. \A k \in 0 .. n : d[k] = c[k] /\ At(d, k) = At(c, k)
  BY <1>1 DEF At
<1>5. \A k \in 0 .. n - 1 : Text(d, k) = Text(c, k) /\ At(d, k) = At(c, k)
  <2>1. \A k \in 0 .. n - 1 : k \in 0 .. n /\ k + 1 \in 0 .. n
    BY <1>1
  <2> QED
    BY <1>4, <2>1, Zenon DEF Text
<1>6. Carries(wire.sent, d, n)
  <2>1. n \in 0 .. n
    BY <1>1
  <2> QED
    BY <1>2, <1>4, <1>5, <2>1 DEF Carries
<1>7. Carries(wire.sent, d, n)'
  <2>1. wire' = wire /\ message' = message
    OBVIOUS
  <2> QED
    BY <1>6, <1>3, <2>1 DEF Carries, At, Text
<1>8. SendingInv(d)'
  BY <1>2, <1>7 DEF SendingInv, n
<1>9. PICK q \in 0 .. n :
        /\ decrypting.output = Part(message, 0, c[q])
        /\ decrypting.state # "failed" =>
             /\ At(c, q) <= wire.arrived
             /\ decrypting.buffer = Part(wire.sent, At(c, q), wire.arrived)
  BY DEF PipeInvFor, ReceivingInv, n
<1>10. d[q] = c[q] /\ At(d, q) = At(c, q)
  BY <1>4
<1>11. decrypting.state = "flushed" => decrypting.buffer = <<>>
  BY DEF PipeInvFor, ReceivingInv
<1>12. /\ q \in 0 .. n' /\ decrypting'.output = Part(message', 0, d[q])
       /\ decrypting'.state # "failed" =>
             /\ At(d, q) <= wire'.arrived
             /\ decrypting'.buffer = Part(wire'.sent, At(d, q), wire'.arrived)
  BY <1>3, <1>9, <1>10
<1>13. ReceivingInv(d)'
  BY <1>11, <1>12 DEF ReceivingInv, n, At
<1> QED
  BY <1>8, <1>13

(* The blocks that are there and the new ones behind them. *)
LEMMA BlocksAdded ==
  ASSUME PipeTypes, NEW c, IsCuts(c), EncryptingInv(c),
         NEW full \in Nat, NEW step \in Nat, NEW new \in Seq(Seq(Cells)), Len(new) = full,
         \A k \in 1 .. full :
           IsBlock(new[k], Part(message, c[encrypting.count] + (k - 1) * step,
                                         c[encrypting.count] + k * step)),
         encrypting'.count = encrypting.count + full,
         encrypting'.blocks = encrypting.blocks \o new,
         UNCHANGED message,
         NEW d, Continues(d, c, encrypting.count, step)
  PROVE  /\ Taken' = Taken /\ encrypting'.blocks \in Seq(Seq(Cells))
         /\ encrypting'.count \in Nat /\ Len(encrypting'.blocks) <= encrypting'.count
         /\ Queued(d)'
<1> DEFINE m == encrypting.count
           bs == encrypting.blocks
           l == Len(bs)
           all == bs \o new
<1>1. m \in Nat /\ bs \in Seq(Seq(Cells))
  BY DEF PipeTypes
<1>2. l \in Nat /\ l <= m
  BY <1>1, LenProperties DEF EncryptingInv
<1>3. \A k \in 1 .. l : IsBlock(bs[k], Text(c, Taken + k - 1))
  BY DEF EncryptingInv, Queued
<1>4. Taken = m - l
  BY DEF Taken
<1>5. /\ all \in Seq(Seq(Cells)) /\ Len(all) = l + full
      /\ \A i \in 1 .. l + full : all[i] = IF i <= l THEN bs[i] ELSE new[i - l]
  <2> HIDE DEF bs
  <2>1. /\ bs \o new \in Seq(Seq(Cells)) /\ Len(bs \o new) = Len(bs) + Len(new)
        /\ \A i \in 1 .. Len(bs) + Len(new) :
             (bs \o new)[i] = IF i <= Len(bs) THEN bs[i] ELSE new[i - Len(bs)]
    BY <1>1, ConcatProperties
  <2> QED
    BY <2>1
<1>6. encrypting'.blocks = all /\ encrypting'.count = m + full
  OBVIOUS
<1>7. /\ \A k \in 0 .. m : d[k] = c[k]
      /\ \A k \in Nat : d[m + k] = c[m] + k * step
  BY Zenon DEF Continues
<1>8. \A k \in 1 .. full : IsBlock(new[k], Part(message, c[m] + (k - 1) * step, c[m] + k * step))
  OBVIOUS
<1> HIDE DEF m, bs, l, all
<1>9. Taken' = Taken
  <2>1. Taken' = encrypting'.count - Len(encrypting'.blocks)
    BY DEF Taken
  <2> QED
    BY <1>1, <1>2, <1>4, <1>5, <1>6, <2>1
<1>11. ASSUME NEW i \in 1 .. l + full PROVE IsBlock(all[i], Part(message, d[m - l + i - 1], d[m - l + i - 1 + 1]))
  <2>1. CASE i <= l
    <3>1. m - l + i - 1 \in 0 .. m /\ m - l + i - 1 + 1 \in 0 .. m /\ i \in 1 .. l
      BY <1>1, <1>2, <2>1
    <3>2. all[i] = bs[i]
      BY <1>5, <2>1
    <3>3. IsBlock(bs[i], Part(message, c[m - l + i - 1], c[m - l + i - 1 + 1]))
      BY <1>3, <1>4, <3>1, Zenon DEF Text
    <3> QED
      BY <1>7, <3>1, <3>2, <3>3, Zenon
  <2>2. CASE ~(i <= l)
    <3> DEFINE k == i - l
    <3>1. k \in 1 .. full /\ k \in Nat /\ k - 1 \in Nat
          /\ m - l + i - 1 = m + (k - 1) /\ m - l + i - 1 + 1 = m + k
      BY <1>1, <1>2, <2>2
    <3>2. all[i] = new[k]
      BY <1>5, <2>2
    <3> HIDE DEF k
    <3>3. d[m + k] = c[m] + k * step /\ d[m + (k - 1)] = c[m] + (k - 1) * step
      BY <1>7, <3>1
    <3> QED
      BY <1>8, <3>1, <3>2, <3>3, Zenon
  <2> QED
    BY <2>1, <2>2
<1>12. Queued(d)'
  <2>1. Len(encrypting'.blocks) = l + full
    BY <1>5, <1>6
  <2>2. ASSUME NEW i \in 1 .. l + full
        PROVE  IsBlock(encrypting'.blocks[i], Part(message', d[Taken' + i - 1], d[Taken' + i - 1 + 1]))
    BY <1>4, <1>6, <1>9, <1>11, Zenon
  <2> QED
    BY <2>1, <2>2, Zenon DEF Queued, Text, IsBlock
<1>13. encrypting'.blocks \in Seq(Seq(Cells)) /\ encrypting'.count \in Nat
       /\ Len(encrypting'.blocks) <= encrypting'.count /\ Len(encrypting'.blocks) = l + full
  BY <1>1, <1>2, <1>5, <1>6
<1> QED
  BY <1>6, <1>9, <1>12, <1>13, Zenon

(* There are such cuts. *)
LEMMA MoreCutsExist ==
  ASSUME NEW c, IsCuts(c), NEW m \in Nat, NEW step \in Nat
  PROVE  \E d : IsCuts(d) /\ Continues(d, c, m, step)
<1>1. Continues(MoreCuts(c, m, step), c, m, step)
  BY MoreCutsAreCuts
<1> QED
  BY <1>1, Zenon DEF Continues

(* What is there before a step, with the lengths it has. *)
LEMMA Before ==
  ASSUME PipeTypes, NEW c, IsCuts(c), PipeInvFor(c)
  PROVE  /\ Len(message) \in Nat /\ encrypting.count \in Nat /\ Len(encrypting.blocks) \in Nat
         /\ Len(encrypting.blocks) <= encrypting.count /\ Taken \in 0 .. encrypting.count
         /\ c[encrypting.count] \in 0 .. written /\ written \in 0 .. Len(message)
         /\ wire.arrived \in 0 .. Len(wire.sent) /\ Len(wire.sent) \in Nat
<1>1. Len(message) \in Nat /\ encrypting.count \in Nat /\ written \in 0 .. Len(message)
  BY LenProperties DEF PipeTypes
<1>2. Len(encrypting.blocks) \in Nat /\ Len(encrypting.blocks) <= encrypting.count
  <2>1. encrypting.blocks \in Seq(Seq(Cells))
    BY DEF PipeTypes
  <2> QED
    BY <2>1, LenProperties DEF PipeInvFor, EncryptingInv
<1>3. c[encrypting.count] \in 0 .. written
  BY <1>1 DEF IsCuts, PipeInvFor, EncryptingInv
<1>4. wire.arrived \in 0 .. Len(wire.sent) /\ Len(wire.sent) \in Nat
  <2>1. wire.sent \in Seq(Cells) /\ wire.arrived \in Nat /\ wire.arrived <= Len(wire.sent)
    BY DEF PipeTypes
  <2> QED
    BY <2>1, LenProperties
<1> QED
  BY <1>1, <1>2, <1>3, <1>4 DEF Taken

(* A block can be made of a text that is neither empty nor too long. *)
LEMMA BlockOk ==
  ASSUME NEW text, NEW e
  PROVE  Block(text, e).ok <=> text # <<>> /\ ~(Len(text) > MaxDataSize)
BY DEF Block, EncryptSingle, Refused

(* The blocks of one write, encrypted. *)
LEMMA BlocksOfWrite ==
  ASSUME message \in Seq(Bytes), NEW u \in 0 .. Len(message), NEW v \in u .. Len(message),
         NEW size \in Nat \ {0}, NEW e \in Nat,
         LET b == Part(message, u, v)
         IN  Len(b) \div size > 0 => Block(Part(b, 0, size), e + 1).ok
  PROVE  LET b == Part(message, u, v)
             full == Len(b) \div size
             new == [k \in 1 .. full |-> Block(Part(b, (k - 1) * size, k * size), e + k).cells]
         IN  /\ full \in Nat /\ u + full * size \in u .. v
             /\ new \in Seq(Seq(Cells)) /\ Len(new) = full
             /\ \A k \in 1 .. full :
                  IsBlock(new[k], Part(message, u + (k - 1) * size, u + k * size))
             /\ Part(b, full * size, Len(b)) = Part(message, u + full * size, v)
             /\ Part(message, u + full * size, v) \in Seq(Bytes)
<1> DEFINE b == Part(message, u, v)
           full == Len(b) \div size
           new == [k \in 1 .. full |-> Block(Part(b, (k - 1) * size, k * size), e + k).cells]
<1>1. Len(message) \in Nat /\ v \in 0 .. Len(message) /\ u \in 0 .. v
  BY LenProperties
<1>2. b \in Seq(Bytes) /\ Len(b) = v - u
  BY <1>1, PartIs
<1>3. Len(b) \in Nat /\ v - u \in Nat
  BY <1>1, <1>2
<1>0. full > 0 => Block(Part(b, 0, size), e + 1).ok
  OBVIOUS
<1> HIDE DEF b
<1>4. /\ full \in Nat /\ full * size \in 0 .. Len(b)
      /\ \A k \in 1 .. full : /\ k * size \in 0 .. Len(b) /\ (k - 1) * size \in 0 .. k * size
                              /\ k * size = (k - 1) * size + size
  BY <1>3, Multiples
<1> HIDE DEF full
<1>5. ASSUME NEW k \in 1 .. full
      PROVE  /\ Part(b, (k - 1) * size, k * size) \in Seq(Bytes)
             /\ Len(Part(b, (k - 1) * size, k * size)) = size
             /\ Part(b, (k - 1) * size, k * size) = Part(message, u + (k - 1) * size, u + k * size)
  <2> DEFINE x == (k - 1) * size
             y == k * size
  <2>1. y \in 0 .. Len(b) /\ x \in 0 .. y /\ y = x + size
    BY <1>4
  <2> HIDE DEF x, y
  <2>2. Part(b, x, y) \in Seq(Bytes) /\ Len(Part(b, x, y)) = y - x
    BY <1>2, <2>1, PartIs
  <2>3. y - x = size
    BY <1>3, <2>1
  <2>4. y \in 0 .. v - u
    BY <1>2, <2>1
  <2>5. Part(Part(message, u, v), x, y) = Part(message, u + x, u + y)
    BY <1>1, <2>1, <2>4, PartOfPart
  <2> QED
    BY <2>2, <2>3, <2>5, Zenon DEF x, y, b
<1>6. ASSUME NEW k \in 1 .. full
      PROVE  Block(Part(b, (k - 1) * size, k * size), e + k).ok
  <2> DEFINE t == Part(b, (k - 1) * size, k * size)
             h == Part(b, 0, size)
  <2>1. 1 \in 1 .. full /\ full > 0 /\ (1 - 1) * size = 0 /\ 1 * size = size
    BY <1>4
  <2>2. h \in Seq(Bytes) /\ Len(h) = size
    BY <1>5, <2>1
  <2>3. h # <<>> /\ ~(size > MaxDataSize)
    BY <1>0, <2>1, <2>2, BlockOk
  <2>4. t \in Seq(Bytes) /\ Len(t) = size
    BY <1>5
  <2> HIDE DEF t
  <2>5. t # <<>>
    BY <2>4
  <2>6. Block(t, e + k).ok
    BY <2>3, <2>4, <2>5, BlockOk
  <2> QED
    BY <2>6 DEF t
<1>7. ASSUME NEW k \in 1 .. full
      PROVE  IsBlock(new[k], Part(message, u + (k - 1) * size, u + k * size))
  <2> DEFINE t == Part(b, (k - 1) * size, k * size)
             i == e + k
  <2>1. i \in Nat
    BY <1>4
  <2>2. t \in Seq(Bytes) /\ Block(t, i).ok
    BY <1>5, <1>6
  <2>3. new[k] = Block(t, i).cells
    OBVIOUS
  <2> HIDE DEF t, i
  <2>4. IsBlock(Block(t, i).cells, t)
    BY <2>1, <2>2, SealIsBlock
  <2>5. t = Part(message, u + (k - 1) * size, u + k * size)
    BY <1>5 DEF t
  <2> HIDE DEF new
  <2> QED
    BY <2>3, <2>4, <2>5
<1>8. new \in Seq(Seq(Cells)) /\ Len(new) = full
  <2>1. \A k \in 1 .. full : new[k] \in Seq(Cells)
    BY <1>7 DEF IsBlock
  <2>2. DOMAIN new = 1 .. full /\ new = [k \in 1 .. full |-> new[k]]
    OBVIOUS
  <2> HIDE DEF new
  <2>3. new \in [1 .. full -> Seq(Cells)]
    BY <2>1, <2>2, Zenon
  <2> QED
    BY <1>4, <2>3
<1> DEFINE w == full * size
<1>9. w \in 0 .. Len(b)
  BY <1>4
<1> HIDE DEF w, new
<1>10. u + w \in u .. v
  BY <1>1, <1>2, <1>9
<1>11. Part(b, w, Len(b)) = Part(message, u + w, v)
  <2> DEFINE m == v - u
  <2>1. m \in 0 .. v - u /\ w \in 0 .. m /\ u + m = v /\ m = Len(b)
    BY <1>1, <1>2, <1>3, <1>9
  <2> HIDE DEF m
  <2>2. w \in 0 .. m /\ m \in 0 .. v - u
    BY <2>1
  <2>4. Part(Part(message, u, v), w, m) = Part(message, u + w, u + m)
    BY <1>1, <2>2, PartOfPart
  <2> QED
    BY <2>1, <2>4, Zenon DEF b
<1>12. Part(message, u + w, v) \in Seq(Bytes)
  <2>1. u + w \in 0 .. v
    BY <1>1, <1>10
  <2> QED
    BY <1>1, <2>1, PartIs
<1> QED
  BY <1>4, <1>7, <1>8, <1>10, <1>11, <1>12, Zenon DEF w, new, full, b

EncryptingTypes ==
  [state : {"open", "flushed", "failed"}, buffer : Seq(Bytes), blocks : Seq(Seq(Cells)), count : Nat]

(* What is left to show of a step of the encrypting transform. *)
LEMMA EncryptingMoved ==
  ASSUME PipeTypes, SummingInv, NEW c, IsCuts(c), PipeInvFor(c), encrypting.state = "open",
         NEW d, IsCuts(d), \A k \in 0 .. encrypting.count : d[k] = c[k],
         encrypting' \in EncryptingTypes, written' \in 0 .. Len(message), Taken' = Taken,
         EncryptingInv(d)',
         UNCHANGED <<message, blockSize, hashing, wire, decrypting, crc>>
  PROVE  PipeInv'
<1>1. PipeTypes'
  BY DEF PipeTypes, EncryptingTypes
<1>2. SummingInv'
  BY DEF SummingInv, Arrived, Over
<1>3. encrypting'.count \in Nat
  BY DEF EncryptingTypes
<1>4. SendingInv(d)' /\ ReceivingInv(d)'
  BY <1>3, LaterCuts
<1> QED
  BY <1>1, <1>2, <1>4, Zenon DEF PipeInv, PipeInvFor

(* Appending is joining a sequence of one.                                 *)
LEMMA AppendIsJoin ==
  ASSUME NEW T, NEW s \in Seq(T), NEW x \in T
  PROVE  Append(s, x) = s \o <<x>>
OBVIOUS

(* A write: cuts in the distance of a block, as many as fit; or a refusal. *)
LEMMA WriteStep ==
  ASSUME PipeInv, NEW n \in 1 .. MaxWrite, EncryptWrite(n)
  PROVE  PipeInv'
<1>1. PipeTypes /\ SummingInv
  BY DEF PipeInv
<1>2. PICK c : IsCuts(c) /\ PipeInvFor(c)
  BY DEF PipeInv
<1> DEFINE m == encrypting.count
           u == c[m]
           v == written + n
           buffer == encrypting.buffer \o SubSeq(message, written + 1, written + n)
           size == CapacityPerBlock
           full == IF size > 0 THEN Len(buffer) \div size ELSE 1
           block(k) == Block(Part(buffer, (k - 1) * size, k * size), m + k)
           new == [k \in 1 .. full |-> block(k).cells]
           step == Len(buffer) + size
           spill == Block(Part(buffer, 0, step), m + 1)
           spilled == size < 0 /\ spill.ok
<1>3. /\ encrypting.state = "open" /\ v <= Len(message) /\ written' = v /\ n \in Nat
      /\ UNCHANGED <<message, blockSize, hashing, wire, decrypting, crc>>
  BY SizesAssumption DEF EncryptWrite
<1>4. IF full > 0 /\ ~block(1).ok
      THEN encrypting' = [encrypting EXCEPT !.state = "failed",
             !.blocks = IF spilled THEN Append(@, spill.cells) ELSE @,
             !.count = IF spilled THEN @ + 1 ELSE @]
      ELSE encrypting' = [encrypting EXCEPT !.buffer = Part(buffer, full * size, Len(buffer)),
                                            !.blocks = @ \o new, !.count = @ + full]
  <2>1. 0 + 1 = 1
    OBVIOUS
  <2> QED
    BY <2>1, Zenon DEF EncryptWrite, Part
<1>5. /\ Len(message) \in Nat /\ m \in Nat /\ u \in 0 .. written /\ written \in 0 .. Len(message)
      /\ encrypting \in EncryptingTypes /\ message \in Seq(Bytes)
      /\ Len(encrypting.blocks) \in Nat /\ Len(encrypting.blocks) <= m
  BY <1>1, <1>2, Before DEF PipeTypes, EncryptingTypes
<1>6. EncryptingInv(c)
  BY <1>2 DEF PipeInvFor
<1>7. u \in 0 .. Len(message) /\ v \in u .. Len(message) /\ v \in 0 .. Len(message)
  BY <1>3, <1>5
<1>8. buffer = Part(message, u, v)
  <2>1. encrypting.buffer = Part(message, u, written)
    BY <1>3, <1>6 DEF EncryptingInv
  <2>2. written \in 0 .. v
    BY <1>3, <1>5
  <2> HIDE DEF u, v
  <2>3. Part(message, u, written) \o Part(message, written, v) = Part(message, u, v)
    BY <1>5, <1>7, <2>2, PartsJoin
  <2> QED
    BY <2>1, <2>3, Zenon DEF Part, v
<1>s. size \in Int
  BY <1>1 DEF PipeTypes, size, CapacityPerBlock, ComputeEncryptedLengthFromDataLength, GetHeaderSize
<1> HIDE DEF u, v, buffer, size, full, new, step, spill
<1>9. CASE full > 0 /\ ~block(1).ok /\ ~spilled
  <2>1. encrypting' = [encrypting EXCEPT !.state = "failed"]
    <3>1. encrypting' = [encrypting EXCEPT !.state = "failed", !.blocks = @, !.count = @]
      BY <1>4, <1>9, Zenon
    <3> QED
      BY <3>1, <1>5 DEF EncryptingTypes
  <2>2. /\ encrypting' \in EncryptingTypes /\ encrypting'.state = "failed"
        /\ encrypting'.blocks = encrypting.blocks /\ encrypting'.count = m
    BY <1>5, <2>1 DEF EncryptingTypes
  <2>3. Taken' = Taken
    BY <2>2 DEF Taken
  <2>4. Queued(c)'
    <3>1. Queued(c)
      BY <1>6 DEF EncryptingInv
    <3> QED
      BY <1>3, <2>2, <2>3, <3>1, Zenon DEF Queued, Text
  <2>5. c[m] <= written'
    BY <1>3, <1>5, <1>7 DEF u, v
  <2>6. EncryptingInv(c)'
    BY <1>5, <2>2, <2>4, <2>5 DEF EncryptingInv
  <2> QED
    BY <1>1, <1>2, <1>3, <1>5, <1>7, <2>2, <2>3, <2>6, EncryptingMoved
<1>11. CASE full > 0 /\ ~block(1).ok /\ spilled
  <2> DEFINE w == <<spill.cells>>
             more == Append(encrypting.blocks, spill.cells)
  <2>1. encrypting' = [encrypting EXCEPT !.state = "failed", !.blocks = more, !.count = m + 1]
    BY <1>4, <1>11, Zenon
  <2>2. buffer \in Seq(Bytes) /\ Len(buffer) = v - u /\ Len(buffer) \in Nat
    <3>1. u \in 0 .. v
      BY <1>7
    <3>2. Part(message, u, v) \in Seq(Bytes) /\ Len(Part(message, u, v)) = v - u
      BY <1>5, <1>7, <3>1, PartIs
    <3> QED
      BY <1>8, <3>2, LenProperties, Zenon
  <2>3. step \in Nat /\ step <= Len(buffer)
    <3>1. step \in Int /\ step <= Len(buffer)
      BY <1>11, <1>s, <2>2 DEF step
    <3>2. SUFFICES ASSUME step < 0 PROVE FALSE
      BY <3>1
    <3>3. Part(buffer, 0, step) = <<>>
      <4> DEFINE z == 0 + 1
      <4>1. z \in Int /\ step < z
        BY <3>1, <3>2
      <4> HIDE DEF z
      <4>2. SubSeq(buffer, z, step) = <<>>
        BY <3>1, <4>1, SubSeqEmpty
      <4> QED
        BY <4>2, Zenon DEF z, Part
    <3> QED
      BY <1>11, <3>3, BlockOk DEF spill
  <2>4. Part(buffer, 0, step) = Part(message, u, u + step) /\ Part(buffer, 0, step) \in Seq(Bytes)
    <3>1. step \in 0 .. v - u /\ 0 \in 0 .. step /\ u \in 0 .. v /\ v \in 0 .. Len(message)
      BY <1>7, <2>2, <2>3
    <3>2. Part(Part(message, u, v), 0, step) = Part(message, u + 0, u + step)
      BY <1>5, <3>1, PartOfPart
    <3>3. u + 0 = u
      BY <3>1
    <3>4. Part(buffer, 0, step) \in Seq(Bytes)
      BY <2>2, <3>1, PartIs
    <3> QED
      BY <1>8, <3>2, <3>3, <3>4, Zenon
  <2>5. IsBlock(spill.cells, Part(message, u, u + step))
    <3>1. m + 1 \in Nat
      BY <1>5
    <3>2. Block(Part(buffer, 0, step), m + 1).ok
      BY <1>11 DEF spill
    <3>3. IsBlock(Block(Part(buffer, 0, step), m + 1).cells, Part(buffer, 0, step))
      BY <2>4, <3>1, <3>2, SealIsBlock
    <3> QED
      BY <2>4, <3>3, Zenon DEF spill
  <2>6. w \in Seq(Seq(Cells)) /\ Len(w) = 1 /\ w[1] = spill.cells
    BY <2>5 DEF IsBlock
  <2>7. more = encrypting.blocks \o w
    <3>1. encrypting.blocks \in Seq(Seq(Cells)) /\ spill.cells \in Seq(Cells)
      BY <1>5, <2>5 DEF EncryptingTypes, IsBlock
    <3> QED
      BY <3>1, AppendIsJoin, Zenon
  <2> HIDE DEF w, more
  <2>8. PICK d : IsCuts(d) /\ Continues(d, c, m, step)
    BY <1>2, <1>5, <2>3, MoreCutsExist
  <2>9. u + step \in u .. v /\ 1 * step = step /\ (1 - 1) * step = 0
    BY <1>7, <2>2, <2>3
  <2>10. /\ \A k \in 0 .. m : d[k] = c[k]
         /\ d[m + 1] = u + step
    <3>1. d[m + 1] = c[m] + 1 * step /\ \A k \in 0 .. m : d[k] = c[k]
      BY <2>8 DEF Continues
    <3> QED
      BY <2>9, <3>1 DEF u
  <2>11. /\ encrypting'.count = m + 1 /\ encrypting'.blocks = encrypting.blocks \o w
         /\ encrypting'.state = "failed" /\ encrypting'.buffer = encrypting.buffer
    BY <1>5, <2>1, <2>7 DEF EncryptingTypes
  <2>12. /\ Taken' = Taken /\ encrypting'.blocks \in Seq(Seq(Cells))
         /\ encrypting'.count \in Nat /\ Len(encrypting'.blocks) <= encrypting'.count
         /\ Queued(d)'
    <3>1. Continues(d, c, encrypting.count, step)
      BY <2>8
    <3>2. UNCHANGED message /\ 1 \in Nat
      BY <1>3
    <3>3. \A k \in 1 .. 1 : IsBlock(w[k], Part(message, c[encrypting.count] + (k - 1) * step,
                                                        c[encrypting.count] + k * step))
      <4>1. c[encrypting.count] + (1 - 1) * step = u /\ c[encrypting.count] + 1 * step = u + step
        BY <1>5, <2>9 DEF u
      <4>2. \A k \in 1 .. 1 : k = 1
        OBVIOUS
      <4> QED
        BY <2>5, <2>6, <4>1, <4>2, Zenon
    <3>4. encrypting'.count = encrypting.count + 1
      BY <2>11
    <3> HIDE DEF m
    <3> QED
      BY <1>1, <1>2, <1>6, <2>3, <2>6, <2>11, <3>1, <3>2, <3>3, <3>4, BlocksAdded
  <2>13. encrypting' \in EncryptingTypes
    BY <1>5, <2>1, <2>11, <2>12 DEF EncryptingTypes
  <2>14. EncryptingInv(d)'
    <3>1. d[encrypting'.count] = u + step
      BY <2>10, <2>11
    <3>2. u + step <= written'
      BY <1>3, <1>7, <2>9
    <3> QED
      BY <2>11, <2>12, <3>1, <3>2 DEF EncryptingInv
  <2> QED
    BY <1>1, <1>2, <1>3, <1>7, <2>8, <2>10, <2>12, <2>13, <2>14, EncryptingMoved
<1>10. CASE ~(full > 0 /\ ~block(1).ok)
  <2>1. encrypting' = [encrypting EXCEPT !.buffer = Part(buffer, full * size, Len(buffer)),
                                         !.blocks = @ \o new, !.count = @ + full]
    BY <1>4, <1>10
  <2>2. size \in Nat \ {0}
    <3>1. size \in Int
      BY <1>s
    <3>2. SUFFICES ASSUME ~(size > 0) PROVE FALSE
      BY <3>1
    <3>3. full = 1
      BY <3>2 DEF full
    <3>4. (1 - 1) * size = 0 /\ 1 * size = size
      BY <3>1
    <3>5. block(1) = Block(Part(buffer, 0, size), m + 1)
      BY <3>4
    <3>6. Part(buffer, 0, size) = <<>>
      <4> DEFINE z == 0 + 1
      <4>1. z \in Int /\ size < z
        BY <3>1, <3>2
      <4> HIDE DEF z
      <4>2. SubSeq(buffer, z, size) = <<>>
        BY <3>1, <4>1, SubSeqEmpty
      <4> QED
        BY <4>2, Zenon DEF z, Part
    <3>7. ~block(1).ok
      BY <3>5, <3>6, BlockOk
    <3> QED
      BY <1>10, <3>3, <3>7
  <2>3. full = Len(buffer) \div size
    BY <2>2 DEF full
  <2>4. Len(buffer) \div size > 0 => Block(Part(buffer, 0, size), m + 1).ok
    <3>1. (1 - 1) * size = 0 /\ 1 * size = size
      BY <2>2
    <3>2. block(1) = Block(Part(buffer, 0, size), m + 1)
      BY <3>1
    <3> QED
      BY <1>10, <2>3, <3>2, Zenon
  <2>5. /\ full \in Nat /\ u + full * size \in u .. v
        /\ new \in Seq(Seq(Cells)) /\ Len(new) = full
        /\ \A k \in 1 .. full : IsBlock(new[k], Part(message, u + (k - 1) * size, u + k * size))
        /\ Part(buffer, full * size, Len(buffer)) = Part(message, u + full * size, v)
        /\ Part(message, u + full * size, v) \in Seq(Bytes)
    <3>1. Len(Part(message, u, v)) \div size > 0 => Block(Part(Part(message, u, v), 0, size), m + 1).ok
      BY <1>8, <2>4, Zenon
    <3> DEFINE b == Part(message, u, v)
               f == Len(b) \div size
               w == [k \in 1 .. f |-> Block(Part(b, (k - 1) * size, k * size), m + k).cells]
    <3>2. /\ f \in Nat /\ u + f * size \in u .. v
          /\ w \in Seq(Seq(Cells)) /\ Len(w) = f
          /\ \A k \in 1 .. f : IsBlock(w[k], Part(message, u + (k - 1) * size, u + k * size))
          /\ Part(b, f * size, Len(b)) = Part(message, u + f * size, v)
          /\ Part(message, u + f * size, v) \in Seq(Bytes)
      BY <1>5, <1>7, <2>2, <3>1, BlocksOfWrite
    <3>3. b = buffer /\ f = full
      BY <1>8, <2>3, Zenon
    <3>4. w = new
      BY <3>3, Zenon DEF new
    <3> HIDE DEF b, f, w
    <3> QED
      BY <3>2, <3>3, <3>4, Zenon
  <2> DEFINE x == full * size
  <2>6. PICK d : IsCuts(d) /\ Continues(d, c, m, size)
    BY <1>2, <1>5, <2>2, MoreCutsExist
  <2>7. /\ \A k \in 0 .. m : d[k] = c[k]
        /\ d[m + full] = u + x
    BY <2>5, <2>6, Zenon DEF Continues, u
  <2> HIDE DEF x
  <2>8. /\ encrypting'.count = m + full /\ encrypting'.blocks = encrypting.blocks \o new
        /\ encrypting'.buffer = Part(message, u + x, v) /\ encrypting'.state = "open"
        /\ encrypting' = [encrypting EXCEPT !.buffer = Part(message, u + x, v),
                                            !.blocks = encrypting.blocks \o new, !.count = m + full]
    <3>1. encrypting' = [encrypting EXCEPT !.buffer = Part(message, u + x, v),
                                            !.blocks = encrypting.blocks \o new, !.count = m + full]
      BY <2>1, <2>5, Zenon DEF x
    <3> QED
      BY <1>3, <1>5, <3>1 DEF EncryptingTypes
  <2>9. /\ Taken' = Taken /\ encrypting'.blocks \in Seq(Seq(Cells))
        /\ encrypting'.count \in Nat /\ Len(encrypting'.blocks) <= encrypting'.count
        /\ Queued(d)'
    <3>1. Continues(d, c, encrypting.count, size)
      BY <2>6
    <3>2. UNCHANGED message
      BY <1>3
    <3>3. \A k \in 1 .. full : IsBlock(new[k], Part(message, c[encrypting.count] + (k - 1) * size,
                                                             c[encrypting.count] + k * size))
      BY <2>5 DEF u
    <3> QED
      BY <1>1, <1>2, <1>6, <2>2, <2>5, <2>8, <3>1, <3>2, <3>3, BlocksAdded
  <2>10. encrypting' \in EncryptingTypes
    <3>1. Part(message, u + x, v) \in Seq(Bytes)
      BY <2>5 DEF x
    <3> QED
      BY <1>3, <1>5, <2>8, <2>9, <3>1 DEF EncryptingTypes
  <2>11. EncryptingInv(d)'
    <3>1. d[encrypting'.count] = u + x
      BY <2>7, <2>8
    <3>2. u + x <= written'
      BY <1>3, <1>5, <1>7, <2>5 DEF x
    <3>3. encrypting'.buffer = Part(message', d[encrypting'.count], written')
      BY <1>3, <2>8, <3>1
    <3> QED
      BY <2>8, <2>9, <3>1, <3>2, <3>3 DEF EncryptingInv
  <2> QED
    BY <1>1, <1>2, <1>3, <1>7, <2>6, <2>7, <2>9, <2>10, <2>11, EncryptingMoved
<1> QED
  BY <1>9, <1>10, <1>11

(* The flush: a last cut at the end of the message; or a refusal. *)
LEMMA FlushStep ==
  ASSUME PipeInv, EncryptFlush
  PROVE  PipeInv'
<1>1. PipeTypes /\ SummingInv
  BY DEF PipeInv
<1>2. PICK c : IsCuts(c) /\ PipeInvFor(c)
  BY DEF PipeInv
<1> DEFINE m == encrypting.count
           u == c[m]
           buffer == encrypting.buffer
           rest == Block(buffer, m + 1)
<1>3. /\ encrypting.state = "open" /\ written = Len(message) /\ written' = written
      /\ UNCHANGED <<message, blockSize, hashing, wire, decrypting, crc>>
  BY DEF EncryptFlush
<1>4. encrypting' =
        IF buffer = <<>> THEN [encrypting EXCEPT !.state = "flushed"]
        ELSE IF rest.ok
             THEN [encrypting EXCEPT !.state = "flushed", !.buffer = <<>>,
                                     !.blocks = Append(@, rest.cells), !.count = @ + 1]
             ELSE [encrypting EXCEPT !.state = "failed"]
  BY DEF EncryptFlush
<1>5. /\ Len(message) \in Nat /\ m \in Nat /\ u \in 0 .. written /\ written \in 0 .. Len(message)
      /\ encrypting \in EncryptingTypes /\ message \in Seq(Bytes)
      /\ Len(encrypting.blocks) \in Nat /\ Len(encrypting.blocks) <= m
  BY <1>1, <1>2, Before DEF PipeTypes, EncryptingTypes
<1>6. EncryptingInv(c)
  BY <1>2 DEF PipeInvFor
<1>7. buffer = Part(message, u, written) /\ buffer \in Seq(Bytes) /\ Len(buffer) = written - u
  <2>1. buffer = Part(message, u, written)
    BY <1>3, <1>6 DEF EncryptingInv
  <2> HIDE DEF u, buffer
  <2>2. Part(message, u, written) \in Seq(Bytes) /\ Len(Part(message, u, written)) = written - u
    BY <1>5, PartIs
  <2> QED
    BY <2>1, <2>2, Zenon
<1>8. CASE buffer = <<>> \/ ~rest.ok
  <2>1. PICK s \in {"flushed", "failed"} :
          encrypting' = [encrypting EXCEPT !.state = s] /\ (s = "flushed" => buffer = <<>>)
    BY <1>4, <1>8
  <2>2. /\ encrypting' \in EncryptingTypes /\ encrypting'.state = s /\ encrypting'.buffer = buffer
        /\ encrypting'.blocks = encrypting.blocks /\ encrypting'.count = m
    BY <1>5, <2>1 DEF EncryptingTypes
  <2>3. Taken' = Taken
    BY <2>2 DEF Taken
  <2>4. Queued(c)'
    <3>1. Queued(c)
      BY <1>6 DEF EncryptingInv
    <3> QED
      BY <1>3, <2>2, <2>3, <3>1, Zenon DEF Queued, Text
  <2>5. s = "flushed" => u = Len(message)
    <3>1. s = "flushed" => Len(buffer) = 0
      BY <2>1
    <3> HIDE DEF u, buffer
    <3> QED
      BY <1>3, <1>5, <1>7, <3>1
  <2>6. EncryptingInv(c)'
    BY <1>3, <1>5, <1>7, <2>2, <2>4, <2>5 DEF EncryptingInv
  <2> QED
    BY <1>1, <1>2, <1>3, <1>5, <2>2, <2>3, <2>6, EncryptingMoved
<1>9. CASE ~(buffer = <<>> \/ ~rest.ok)
  <2> DEFINE step == written - u
             new == <<rest.cells>>
  <2>1. step \in Nat /\ 1 * step = step /\ (1 - 1) * step = 0 /\ u + step = written
    BY <1>5
  <2>2. PICK d : IsCuts(d) /\ Continues(d, c, m, step)
    BY <1>2, <1>5, <2>1, MoreCutsExist
  <2>3. IsBlock(rest.cells, Part(message, u, written))
    <3>1. m + 1 \in Nat
      BY <1>5
    <3> QED
      BY <1>7, <1>9, <3>1, SealIsBlock
  <2>4. new \in Seq(Seq(Cells)) /\ Len(new) = 1 /\ new[1] = rest.cells
    BY <2>3 DEF IsBlock
  <2>5. Append(encrypting.blocks, rest.cells) = encrypting.blocks \o new
    <3>1. encrypting.blocks \in Seq(Seq(Cells)) /\ rest.cells \in Seq(Cells)
      BY <1>5, <2>3 DEF EncryptingTypes, IsBlock
    <3> HIDE DEF rest
    <3> QED
      BY <3>1
  <2> HIDE DEF step, new, rest
  <2>6. /\ \A k \in 0 .. m : d[k] = c[k]
        /\ d[m + 1] = written
    <3>1. d[m + 1] = c[m] + 1 * step /\ \A k \in 0 .. m : d[k] = c[k]
      BY <2>2 DEF Continues
    <3> QED
      BY <2>1, <3>1
  <2>7. /\ encrypting' = [encrypting EXCEPT !.state = "flushed", !.buffer = <<>>,
                              !.blocks = encrypting.blocks \o new, !.count = m + 1]
    BY <1>4, <1>9, <2>5
  <2>8. /\ encrypting'.count = m + 1 /\ encrypting'.blocks = encrypting.blocks \o new
        /\ encrypting'.buffer = <<>> /\ encrypting'.state = "flushed"
    BY <1>5, <2>7 DEF EncryptingTypes
  <2>9. /\ Taken' = Taken /\ encrypting'.blocks \in Seq(Seq(Cells))
        /\ encrypting'.count \in Nat /\ Len(encrypting'.blocks) <= encrypting'.count
        /\ Queued(d)'
    <3>1. Continues(d, c, encrypting.count, step)
      BY <2>2
    <3>2. UNCHANGED message /\ 1 \in Nat
      BY <1>3
    <3>3. \A k \in 1 .. 1 : IsBlock(new[k], Part(message, c[encrypting.count] + (k - 1) * step,
                                                          c[encrypting.count] + k * step))
      <4>1. c[encrypting.count] + (1 - 1) * step = u /\ c[encrypting.count] + 1 * step = written
        BY <1>5, <2>1
      <4>2. \A k \in 1 .. 1 : k = 1
        OBVIOUS
      <4> QED
        BY <2>3, <2>4, <4>1, <4>2, Zenon
    <3>4. encrypting'.count = encrypting.count + 1
      BY <2>8
    <3> HIDE DEF m
    <3> QED
      BY <1>1, <1>2, <1>6, <2>1, <2>4, <2>8, <3>1, <3>2, <3>3, <3>4, BlocksAdded
  <2>10. encrypting' \in EncryptingTypes
    <3>1. <<>> \in Seq(Bytes)
      OBVIOUS
    <3> QED
      BY <1>5, <2>7, <2>8, <2>9, <3>1 DEF EncryptingTypes
  <2>11. EncryptingInv(d)'
    <3>1. d[encrypting'.count] = written' /\ written' = Len(message') /\ message' = message
      BY <1>3, <2>6, <2>8
    <3>2. Part(message, written, written) = <<>>
      BY <1>5, WholePart
    <3>3. encrypting'.buffer = Part(message', d[encrypting'.count], written')
      BY <1>3, <2>8, <3>1, <3>2
    <3>4. written' <= written'
      BY <1>3, <1>5
    <3> QED
      BY <2>8, <2>9, <3>1, <3>3, <3>4 DEF EncryptingInv
  <2> QED
    BY <1>1, <1>2, <1>3, <1>5, <2>2, <2>6, <2>9, <2>10, <2>11, EncryptingMoved
<1> QED
  BY <1>8, <1>9

(* A block more is sent: s grows by the block behind the n-th cut. *)
LEMMA OneBlockMore ==
  ASSUME message \in Seq(Bytes), NEW c, IsCuts(c), NEW s, NEW n, Carries(s, c, n),
         c[n + 1] <= Len(message), NEW b, IsBlock(b, Text(c, n))
  PROVE  Carries(s \o b, c, n + 1)
<1>1. n \in Nat /\ s \in Seq(Cells) /\ Len(s) = At(c, n) /\ Len(message) \in Nat
  BY LenProperties DEF Carries
<1>2. n + 1 \in Nat /\ n \in 0 .. n + 1 /\ n \in 0 .. n
  BY <1>1
<1>3. /\ c[n] \in Nat /\ c[n + 1] \in Nat /\ c[n] <= c[n + 1]
      /\ At(c, n) \in Nat /\ At(c, n + 1) = At(c, n) + 6 + (c[n + 1] - c[n])
  BY <1>2, CutsInOrder
<1>4. Len(Text(c, n)) = c[n + 1] - c[n]
  <2> DEFINE x == c[n]
             y == c[n + 1]
  <2>1. y \in 0 .. Len(message) /\ x \in 0 .. y
    BY <1>1, <1>3
  <2> HIDE DEF x, y
  <2>2. Len(Part(message, x, y)) = y - x
    BY <2>1, PartIs
  <2> QED
    BY <2>2, Zenon DEF x, y, Text
<1>5. b \in Seq(Cells) /\ Len(b) = 6 + (c[n + 1] - c[n]) /\ b[6][5] = Text(c, n)
  BY <1>4 DEF IsBlock
<1> DEFINE g == c[n + 1] - c[n]
           p == At(c, n)
<1>10. g \in Nat /\ p \in Nat /\ Len(s) = p /\ Len(b) = 6 + g /\ At(c, n + 1) = p + 6 + g
  <2>1. g \in Nat
    BY <1>3
  <2> HIDE DEF g
  <2>2. Len(b) = 6 + g /\ At(c, n + 1) = p + 6 + g
    BY <1>3, <1>5, Zenon DEF g
  <2> QED
    BY <1>1, <1>3, <2>1, <2>2
<1> HIDE DEF g, p
<1> DEFINE t == s \o b
<1>6. /\ t \in Seq(Cells) /\ Len(t) = Len(s) + Len(b)
      /\ \A i \in 1 .. Len(s) + Len(b) : t[i] = IF i <= Len(s) THEN s[i] ELSE b[i - Len(s)]
  BY <1>1, <1>5, ConcatProperties
<1> HIDE DEF t
<1>7. Len(t) = At(c, n + 1)
  BY <1>6, <1>10
<1>8. ASSUME NEW k \in 0 .. n PROVE t[At(c, k) + 6][5] = Text(c, k)
  <2>1. CASE k = n
    <3> DEFINE i == At(c, n) + 6
    <3>0. i = p + 6
      BY DEF p
    <3>1. i \in 1 .. Len(s) + Len(b) /\ ~(i <= Len(s)) /\ i - Len(s) = 6
      BY <1>10, <3>0
    <3> HIDE DEF i
    <3>2. t[i] = b[6]
      BY <1>6, <3>1
    <3> QED
      BY <1>5, <2>1, <3>2 DEF i
  <2>2. CASE k # n
    <3> DEFINE i == At(c, k) + 6
    <3>1. At(c, k) \in Nat /\ At(c, k) + 6 <= At(c, n)
      BY <1>1, <2>2, CutsInOrder
    <3>2. i \in 1 .. Len(s) + Len(b) /\ i <= Len(s)
      BY <1>10, <3>1 DEF p
    <3> HIDE DEF i
    <3>3. t[i] = s[i]
      BY <1>6, <3>2
    <3>4. k \in 0 .. n - 1
      BY <1>1, <2>2
    <3>5. s[At(c, k) + 6][5] = Text(c, k)
      BY <3>4 DEF Carries
    <3> QED
      BY <3>3, <3>5 DEF i
  <2> QED
    BY <2>1, <2>2
<1>9. \A k \in 0 .. (n + 1) - 1 : t[At(c, k) + 6][5] = Text(c, k)
  <2>1. (n + 1) - 1 = n
    BY <1>1
  <2> QED
    BY <1>8, <2>1, Zenon
<1> QED
  BY <1>2, <1>6, <1>7, <1>9, Zenon DEF Carries, t

(* A block is hashed and sent. *)
LEMMA ChecksumStep ==
  ASSUME PipeInv, Checksum
  PROVE  PipeInv'
<1>1. PipeTypes /\ SummingInv
  BY DEF PipeInv
<1>2. PICK c : IsCuts(c) /\ PipeInvFor(c)
  BY DEF PipeInv
<1> DEFINE n == Taken
           s == wire.sent
           bs == encrypting.blocks
           b == Head(bs)
<1>3. /\ bs # <<>> /\ hashing.state = "open"
      /\ hashing' = [hashing EXCEPT !.seen = @ \o b]
      /\ wire' = [wire EXCEPT !.sent = @ \o b]
      /\ encrypting' = [encrypting EXCEPT !.blocks = Tail(@)]
      /\ UNCHANGED <<message, blockSize, written, decrypting, crc>>
  BY DEF Checksum
<1>4. /\ Len(message) \in Nat /\ encrypting.count \in Nat /\ Len(bs) \in Nat
      /\ Len(bs) <= encrypting.count /\ n \in 0 .. encrypting.count
      /\ c[encrypting.count] \in 0 .. written /\ written \in 0 .. Len(message)
      /\ wire.arrived \in 0 .. Len(s) /\ Len(s) \in Nat
  BY <1>1, <1>2, Before
<1>5. /\ encrypting \in EncryptingTypes /\ bs \in Seq(Seq(Cells))
      /\ message \in Seq(Bytes) /\ s \in Seq(Cells)
      /\ hashing \in [state : {"open", "flushed"}, seen : Seq(Cells)]
      /\ wire \in [state : {"open", "broken"}, sent : Seq(Cells), arrived : Nat]
  BY <1>1 DEF PipeTypes, EncryptingTypes
<1>6. EncryptingInv(c) /\ SendingInv(c) /\ ReceivingInv(c)
  BY <1>2 DEF PipeInvFor
<1>7. n = encrypting.count - Len(bs)
  BY DEF Taken
<1>8. /\ Tail(bs) \in Seq(Seq(Cells)) /\ Len(Tail(bs)) = Len(bs) - 1 /\ 1 \in 1 .. Len(bs)
      /\ b = bs[1] /\ \A k \in 1 .. Len(bs) - 1 : Tail(bs)[k] = bs[k + 1]
  <2> HIDE DEF bs
  <2> QED
    BY <1>3, <1>5
<1>9. IsBlock(b, Text(c, n))
  <2>1. IsBlock(bs[1], Text(c, Taken + 1 - 1))
    BY <1>6, <1>8, Zenon DEF EncryptingInv, Queued
  <2>2. Taken + 1 - 1 = n
    BY <1>4
  <2> QED
    BY <1>8, <2>1, <2>2
<1>10. /\ encrypting' \in EncryptingTypes /\ encrypting'.blocks = Tail(bs)
       /\ encrypting'.count = encrypting.count /\ encrypting'.state = encrypting.state
       /\ encrypting'.buffer = encrypting.buffer
  <2> HIDE DEF bs
  <2>1. encrypting' = [encrypting EXCEPT !.blocks = Tail(bs)]
    BY <1>3 DEF bs
  <2> QED
    BY <1>5, <1>8, <2>1 DEF EncryptingTypes
<1>11. Taken' = n + 1
  <2>1. Taken' = encrypting'.count - Len(encrypting'.blocks)
    BY DEF Taken
  <2> HIDE DEF n, bs
  <2> QED
    BY <1>4, <1>7, <1>8, <1>10, <2>1
<1>12. b \in Seq(Cells) /\ s \o b \in Seq(Cells) /\ Len(s \o b) = Len(s) + Len(b) /\ Len(b) \in Nat
  <2>1. b \in Seq(Cells)
    BY <1>9 DEF IsBlock
  <2> HIDE DEF b, s
  <2> QED
    BY <1>5, <2>1, ConcatProperties, LenProperties
<1>13. hashing.seen = s /\ Carries(s, c, n)
       /\ (hashing.state = "flushed" => encrypting.state = "flushed" /\ encrypting.blocks = <<>>)
  BY <1>6 DEF SendingInv
<1>14. /\ wire' \in [state : {"open", "broken"}, sent : Seq(Cells), arrived : Nat]
       /\ wire'.sent = s \o b /\ wire'.arrived = wire.arrived /\ wire'.state = wire.state
       /\ hashing' \in [state : {"open", "flushed"}, seen : Seq(Cells)]
       /\ hashing'.seen = s \o b /\ hashing'.state = "open"
  <2> HIDE DEF b
  <2> QED
    BY <1>3, <1>5, <1>12, <1>13
<1>15. c[n + 1] <= Len(message)
  <2>1. n + 1 \in 0 .. encrypting.count
    <3> HIDE DEF n
    <3> QED
      BY <1>4, <1>7, <1>8
  <2> HIDE DEF n
  <2>2. c[n + 1] \in Nat /\ c[n + 1] <= c[encrypting.count]
    BY <1>2, <1>4, <2>1, CutsInOrder
  <2> QED
    BY <1>4, <2>2
<1> HIDE DEF n, s, bs, b
<1>16. Carries(s \o b, c, n + 1)
  BY <1>2, <1>5, <1>9, <1>13, <1>15, OneBlockMore
<1>17. PipeTypes'
  <2>1. wire'.arrived <= Len(wire'.sent)
    BY <1>4, <1>12, <1>14
  <2>2. encrypting' \in [state : {"open", "flushed", "failed"}, buffer : Seq(Bytes),
                         blocks : Seq(Seq(Cells)), count : Nat]
    BY <1>10 DEF EncryptingTypes
  <2>3. /\ message' \in Seq(Bytes) /\ written' \in 0 .. Len(message') /\ blockSize' \in Nat
        /\ decrypting' \in [state : {"open", "flushed", "failed"}, blockSize : Nat \ {0},
                             buffer : Seq(Cells), output : Seq(Bytes)]
        /\ crc'.state \in {"open", "resolved", "rejected"}
    BY <1>1, <1>3 DEF PipeTypes
  <2> QED
    BY <1>14, <2>1, <2>2, <2>3 DEF PipeTypes
<1>18. \A a \in 0 .. wire.arrived : Part(s \o b, a, wire.arrived) = Part(s, a, wire.arrived)
  BY <1>4, <1>5, <1>12, PartOfLonger DEF s
<1>19. SummingInv'
  <2>1. Arrived' = Arrived
    <3>1. 0 \in 0 .. wire.arrived
      BY <1>4
    <3> QED
      BY <1>14, <1>18, <3>1, Zenon DEF Arrived, s
  <2>2. Over => Over'
    BY <1>3, <1>14 DEF Over
  <2> QED
    BY <1>1, <1>3, <2>1, <2>2 DEF SummingInv
<1>20. EncryptingInv(c)'
  <2>1. Queued(c)'
    <3>1. ASSUME NEW k \in 1 .. Len(bs) - 1
          PROVE  IsBlock(Tail(bs)[k], Part(message, c[(n + 1) + k - 1], c[(n + 1) + k - 1 + 1]))
      <4>1. k + 1 \in 1 .. Len(bs) /\ Tail(bs)[k] = bs[k + 1]
            /\ n + (k + 1) - 1 = (n + 1) + k - 1
        BY <1>4, <1>8
      <4>2. IsBlock(bs[k + 1], Text(c, n + (k + 1) - 1))
        BY <1>6, <4>1, Zenon DEF EncryptingInv, Queued, bs, n
      <4> QED
        BY <4>1, <4>2, Zenon DEF Text
    <3>2. Len(encrypting'.blocks) = Len(bs) - 1 /\ message' = message
      BY <1>3, <1>8, <1>10
    <3> QED
      BY <1>10, <1>11, <3>1, <3>2, Zenon DEF Queued, Text, IsBlock
  <2>2. Len(encrypting'.blocks) <= encrypting'.count
    BY <1>4, <1>8, <1>10
  <2>3. written' = written /\ message' = message
    BY <1>3
  <2> QED
    BY <1>6, <1>10, <2>1, <2>2, <2>3 DEF EncryptingInv
<1>21. SendingInv(c)'
  <2>1. Carries(wire.sent, c, Taken)'
    <3>1. wire'.sent = s \o b /\ message' = message
      BY <1>3, <1>14
    <3> QED
      BY <1>11, <1>16, <3>1 DEF Carries, Text
  <2>2. hashing'.seen = wire'.sent /\ hashing'.state # "flushed"
    BY <1>14
  <2> QED
    BY <2>1, <2>2, Zenon DEF SendingInv
<1>22. ReceivingInv(c)'
  <2>1. PICK q \in 0 .. n :
          /\ decrypting.output = Part(message, 0, c[q])
          /\ decrypting.state # "failed" =>
               /\ At(c, q) <= wire.arrived
               /\ decrypting.buffer = Part(s, At(c, q), wire.arrived)
    BY <1>6 DEF ReceivingInv, n, s
  <2>2. q \in 0 .. n + 1 /\ q \in Nat
    BY <1>4, <2>1
  <2>3. At(c, q) \in Nat
    <3>1. q \in 0 .. q
      BY <2>2
    <3> QED
      BY <1>2, <2>2, <3>1, CutsInOrder
  <2>4. At(c, q) <= wire.arrived => Part(s \o b, At(c, q), wire.arrived) = Part(s, At(c, q), wire.arrived)
    BY <1>4, <1>18, <2>3
  <2>5. decrypting.state = "flushed" => decrypting.buffer = <<>>
    BY <1>6 DEF ReceivingInv
  <2>6. /\ q \in 0 .. Taken' /\ decrypting'.output = Part(message', 0, c[q])
        /\ decrypting'.state # "failed" =>
             /\ At(c, q) <= wire'.arrived
             /\ decrypting'.buffer = Part(wire'.sent, At(c, q), wire'.arrived)
    BY <1>3, <1>11, <1>14, <2>1, <2>2, <2>4
  <2>7. decrypting' = decrypting
    BY <1>3
  <2> QED
    BY <2>5, <2>6, <2>7 DEF ReceivingInv, At
<1> QED
  BY <1>2, <1>17, <1>19, <1>20, <1>21, <1>22 DEF PipeInv, PipeInvFor

(* All blocks are hashed. *)
LEMMA ChecksumFlushStep ==
  ASSUME PipeInv, ChecksumFlush
  PROVE  PipeInv'
<1>1. PipeTypes /\ SummingInv
  BY DEF PipeInv
<1>2. PICK c : IsCuts(c) /\ PipeInvFor(c)
  BY DEF PipeInv
<1>3. /\ encrypting.state = "flushed" /\ encrypting.blocks = <<>> /\ hashing.state = "open"
      /\ hashing' = [hashing EXCEPT !.state = "flushed"]
      /\ UNCHANGED <<message, blockSize, written, encrypting, wire, decrypting, crc>>
  BY DEF ChecksumFlush
<1>4. /\ hashing' \in [state : {"open", "flushed"}, seen : Seq(Cells)]
      /\ hashing'.seen = hashing.seen
  BY <1>1, <1>3 DEF PipeTypes
<1>5. PipeTypes'
  BY <1>1, <1>3, <1>4 DEF PipeTypes
<1>6. Taken' = Taken
  BY <1>3 DEF Taken
<1>7. SummingInv'
  <2>1. Over => Over'
    BY <1>3 DEF Over
  <2> QED
    BY <1>1, <1>3, <2>1 DEF SummingInv, Arrived
<1>8. EncryptingInv(c)'
  BY <1>2, <1>3, <1>6 DEF PipeInvFor, EncryptingInv, Queued, Text
<1>9. SendingInv(c)'
  BY <1>2, <1>3, <1>4, <1>6 DEF PipeInvFor, SendingInv, Carries, Text
<1>10. ReceivingInv(c)'
  BY <1>2, <1>3, <1>6 DEF PipeInvFor, ReceivingInv
<1> QED
  BY <1>2, <1>5, <1>7, <1>8, <1>9, <1>10 DEF PipeInv, PipeInvFor

(* The cut up to which the message is given out. *)
LEMMA Received ==
  ASSUME PipeTypes, NEW c, IsCuts(c), PipeInvFor(c)
  PROVE  \E q \in 0 .. Taken :
           /\ q \in Nat /\ Taken \in Nat /\ c[q] \in 0 .. Len(message) /\ At(c, q) \in Nat
           /\ decrypting.output = Part(message, 0, c[q])
           /\ decrypting.state # "failed" =>
                /\ At(c, q) \in 0 .. wire.arrived
                /\ decrypting.buffer = Part(wire.sent, At(c, q), wire.arrived)
<1>1. PICK q \in 0 .. Taken :
        /\ decrypting.output = Part(message, 0, c[q])
        /\ decrypting.state # "failed" =>
             /\ At(c, q) <= wire.arrived
             /\ decrypting.buffer = Part(wire.sent, At(c, q), wire.arrived)
  BY DEF PipeInvFor, ReceivingInv
<1>2. Taken \in Nat /\ q \in Nat /\ wire.arrived \in Nat
  BY Before, <1>1 DEF PipeTypes
<1>3. c[q] \in Nat /\ At(c, q) \in Nat /\ c[q] <= c[Taken] /\ c[Taken] \in Nat
  BY <1>1, <1>2, CutsInOrder
<1>4. c[Taken] <= Len(message) /\ Len(message) \in Nat
  BY Before DEF PipeInvFor, SendingInv, Carries
<1> QED
  BY <1>1, <1>2, <1>3, <1>4

(* What is left to show of a step of the receiving side: how much has      *)
(* arrived, and a cut up to which the message is given out.                *)
LEMMA ReceivingMoved ==
  ASSUME PipeTypes, NEW c, IsCuts(c), PipeInvFor(c), SummingInv',
         PipeTypes', NEW q \in 0 .. Taken,
         decrypting'.output = Part(message, 0, c[q]),
         decrypting'.state # "failed" =>
           /\ At(c, q) <= wire'.arrived
           /\ decrypting'.buffer = Part(wire.sent, At(c, q), wire'.arrived),
         decrypting'.state = "flushed" => decrypting'.buffer = <<>>,
         wire'.sent = wire.sent,
         UNCHANGED <<message, written, encrypting, hashing>>
  PROVE  PipeInv'
<1>1. Taken' = Taken
  BY DEF Taken
<1>2. EncryptingInv(c)'
  BY <1>1 DEF PipeInvFor, EncryptingInv, Queued, Text
<1>3. SendingInv(c)'
  BY <1>1 DEF PipeInvFor, SendingInv, Carries, Text
<1>4. ReceivingInv(c)'
  BY <1>1 DEF ReceivingInv
<1> QED
  BY <1>2, <1>3, <1>4 DEF PipeInv, PipeInvFor

(* A piece of any size arrives: from a cut to a later one, or a refusal. *)
LEMMA PieceStep ==
  ASSUME PipeInv, NEW n \in Pieces, DecryptPiece(n)
  PROVE  PipeInv'
<1>1. PipeTypes /\ SummingInv
  BY DEF PipeInv
<1>2. PICK c : IsCuts(c) /\ PipeInvFor(c)
  BY DEF PipeInv
<1> DEFINE s == wire.sent
           h == wire.arrived
           piece == Slice(Undelivered, 0, n)
           size == decrypting.blockSize
           o == Opened(decrypting.buffer \o piece, size)
<1>3. /\ wire.state = "open" /\ decrypting.state = "open" /\ Undelivered # <<>>
      /\ wire' = [wire EXCEPT !.arrived = @ + Len(piece)]
      /\ decrypting' = [decrypting EXCEPT !.buffer = o.rest, !.output = @ \o o.output,
                                          !.state = IF o.ok THEN "open" ELSE "failed"]
      /\ CrcData(piece)
      /\ UNCHANGED <<message, blockSize, written, encrypting, hashing>>
  BY Zenon DEF DecryptPiece
<1>4. /\ s \in Seq(Cells) /\ Len(s) \in Nat /\ h \in 0 .. Len(s) /\ n \in Nat /\ h \in Nat
      /\ message \in Seq(Bytes) /\ Len(message) \in Nat /\ size \in Nat \ {0}
      /\ wire \in [state : {"open", "broken"}, sent : Seq(Cells), arrived : Nat]
      /\ decrypting \in [state : {"open", "flushed", "failed"}, blockSize : Nat \ {0},
                         buffer : Seq(Cells), output : Seq(Bytes)]
  <2>1. Len(s) \in Nat /\ h \in 0 .. Len(s) /\ Len(message) \in Nat
    BY <1>1, <1>2, Before
  <2> QED
    BY <1>1, <2>1, SizesAssumption DEF PipeTypes
<1>s. s \in Seq(Cells) /\ message \in Seq(Bytes)
  BY <1>4
<1>5. Carries(s, c, Taken)
  BY <1>2 DEF PipeInvFor, SendingInv
<1> HIDE DEF s, h, size, o, piece
<1>6. Undelivered = Part(s, h, Len(s)) /\ Len(Undelivered) = Len(s) - h
  <2>1. Undelivered = Part(s, h, Len(s))
    BY Zenon DEF Undelivered, Part, s, h
  <2> DEFINE l == Len(s)
  <2>2. l \in 0 .. Len(s) /\ h \in 0 .. l
    BY <1>4
  <2> HIDE DEF l
  <2>3. Len(Part(s, h, l)) = l - h
    BY <1>s, <2>2, PartIs
  <2> QED
    BY <2>1, <2>3, Zenon DEF l
<1> DEFINE a == IF n < Len(Undelivered) THEN n ELSE Len(Undelivered)
           z == h + a
<1>7. a \in 0 .. Len(s) - h /\ z \in h .. Len(s)
  BY <1>4, <1>6
<1>8. piece = Part(s, h, z) /\ Len(piece) = a
  <2>1. piece = Part(Undelivered, 0, a)
    <3>1. 0 + 1 = 1
      OBVIOUS
    <3> QED
      BY <3>1, Zenon DEF piece, Slice, Part
  <2> HIDE DEF a
  <2> DEFINE l == Len(s)
  <2>2. l \in 0 .. Len(s) /\ h \in 0 .. l /\ a \in 0 .. l - h /\ 0 \in 0 .. a /\ h + 0 = h
    BY <1>4, <1>7
  <2> HIDE DEF l
  <2>3. Part(Part(s, h, l), 0, a) = Part(s, h + 0, h + a)
    BY <1>4, <2>2, PartOfPart
  <2>4. piece = Part(s, h, z)
    BY <1>6, <2>1, <2>2, <2>3, Zenon DEF l
  <2> HIDE DEF z
  <2>5. z \in 0 .. Len(s) /\ h \in 0 .. z
    BY <1>4, <1>7
  <2>6. Len(Part(s, h, z)) = z - h
    BY <1>s, <2>5, PartIs
  <2>7. z - h = a
    BY <1>4, <1>7 DEF z
  <2> QED
    BY <2>4, <2>6, <2>7, Zenon
<1> HIDE DEF a, z
<1>9. PICK q \in 0 .. Taken :
        /\ q \in Nat /\ Taken \in Nat /\ c[q] \in 0 .. Len(message) /\ At(c, q) \in Nat
        /\ decrypting.output = Part(message, 0, c[q])
        /\ At(c, q) \in 0 .. h
        /\ decrypting.buffer = Part(s, At(c, q), h)
  BY <1>1, <1>2, <1>3, Received DEF s, h
<1>10. decrypting.buffer \o piece = Part(s, At(c, q), z)
  <2>1. z \in 0 .. Len(s) /\ h \in 0 .. z
    BY <1>4, <1>7
  <2> DEFINE x == At(c, q)
  <2>2. x \in 0 .. h
    BY <1>9
  <2> HIDE DEF x
  <2>3. Part(s, x, h) \o Part(s, h, z) = Part(s, x, z)
    BY <1>s, <2>1, <2>2, PartsJoin
  <2> QED
    BY <1>8, <1>9, <2>3, Zenon DEF x
<1>11. z \in At(c, q) .. Len(s)
  BY <1>4, <1>7, <1>9
<1>12. /\ o.ok \in BOOLEAN /\ o.rest \in Seq(Cells)
       /\ \E r \in q .. Taken : /\ o.output = Part(message, c[q], c[r])
                                /\ o.ok => /\ At(c, r) \in At(c, q) .. z
                                           /\ o.rest = Part(s, At(c, r), z)
  <2>1. o = Opened(Part(s, At(c, q), z), size)
    BY <1>10, Zenon DEF o
  <2>2. size \in Nat \ {0}
    BY <1>4
  <2> DEFINE w == Opened(Part(s, At(c, q), z), size)
  <2>3. /\ w.ok \in BOOLEAN /\ w.rest \in Seq(Cells)
        /\ \E r \in q .. Taken : /\ w.output = Part(message, c[q], c[r])
                                 /\ w.ok => /\ At(c, r) \in At(c, q) .. z
                                            /\ w.rest = Part(s, At(c, r), z)
    BY <1>s, <1>2, <1>5, <1>11, <2>2, OpenedBetweenCuts
  <2> HIDE DEF w
  <2>4. w = o
    BY <2>1, Zenon DEF w
  <2> QED
    BY <2>3, <2>4, Zenon
<1>13. PICK r \in q .. Taken : /\ o.output = Part(message, c[q], c[r])
                               /\ o.ok => /\ At(c, r) \in At(c, q) .. z
                                          /\ o.rest = Part(s, At(c, r), z)
  BY <1>12
<1>14. r \in 0 .. Taken /\ r \in Nat /\ At(c, r) \in Nat /\ c[r] \in 0 .. Len(message) /\ c[q] \in 0 .. c[r]
  <2>1. r \in 0 .. Taken /\ r \in Nat /\ q \in 0 .. r
    BY <1>9
  <2>2. c[r] \in Nat /\ At(c, r) \in Nat /\ c[r] <= c[Taken] /\ c[Taken] \in Nat
    BY <1>2, <1>9, <2>1, CutsInOrder
  <2>3. c[q] <= c[r] /\ c[q] \in Nat
    BY <1>2, <2>1, CutsInOrder
  <2>4. c[Taken] <= Len(message)
    BY <1>5 DEF Carries
  <2> QED
    BY <1>4, <2>1, <2>2, <2>3, <2>4
<1>15. decrypting.output \o o.output = Part(message, 0, c[r]) /\ Part(message, 0, c[r]) \in Seq(Bytes)
  <2> DEFINE x == c[q]
             y == c[r]
  <2>1. y \in 0 .. Len(message) /\ x \in 0 .. y /\ 0 \in 0 .. x /\ 0 \in 0 .. y
    BY <1>4, <1>14
  <2> HIDE DEF x, y
  <2>2. Part(message, 0, x) \o Part(message, x, y) = Part(message, 0, y)
    BY <1>4, <2>1, PartsJoin
  <2>3. Part(message, 0, y) \in Seq(Bytes)
    BY <1>4, <2>1, PartIs
  <2> QED
    BY <1>9, <1>13, <2>2, <2>3, Zenon DEF x, y
<1>16. /\ wire' \in [state : {"open", "broken"}, sent : Seq(Cells), arrived : Nat]
       /\ wire'.sent = s /\ wire'.arrived = z /\ wire'.state = "open"
  <2>1. wire' = [wire EXCEPT !.arrived = wire.arrived + Len(piece)]
    BY <1>3
  <2>2. wire.arrived + Len(piece) = z
    BY <1>8, Zenon DEF z, h
  <2>3. z \in Nat /\ wire.state = "open" /\ wire.sent = s
    BY <1>3, <1>4, <1>7 DEF s
  <2>4. wire' = [wire EXCEPT !.arrived = z]
    BY <2>1, <2>2, Zenon
  <2>5. wire \in [state : {"open", "broken"}, sent : Seq(Cells), arrived : Nat]
    BY <1>4
  <2> HIDE DEF s
  <2> QED
    BY <2>3, <2>4, <2>5
<1>17. /\ decrypting' \in [state : {"open", "flushed", "failed"}, blockSize : Nat \ {0},
                           buffer : Seq(Cells), output : Seq(Bytes)]
       /\ decrypting'.output = Part(message, 0, c[r]) /\ decrypting'.buffer = o.rest
       /\ decrypting'.state = IF o.ok THEN "open" ELSE "failed"
  BY <1>3, <1>4, <1>12, <1>15
<1>18. crc.state = "open"
  <2>1. SUFFICES ASSUME crc.state # "open" PROVE FALSE
    OBVIOUS
  <2>2. h = Len(s)
    BY <1>1, <1>3, <2>1 DEF SummingInv, Over, h, s
  <2>3. h \in 0 .. Len(s)
    BY <1>4
  <2>4. Part(s, h, h) = <<>>
    BY <1>4, <2>3, WholePart
  <2> QED
    BY <1>3, <1>6, <2>2, <2>4
<1>19. SummingInv' /\ crc'.state = "open"
  <2>1. crc = [state |-> crc.state, value |-> <<"crc", Arrived>>, chunks |-> Arrived]
    BY <1>1 DEF SummingInv
  <2>2. Arrived \o piece = Arrived'
    <3>1. z \in 0 .. Len(s) /\ h \in 0 .. z /\ 0 \in 0 .. h
      BY <1>4, <1>7
    <3>2. Part(s, 0, h) \o Part(s, h, z) = Part(s, 0, z)
      BY <1>4, <3>1, PartsJoin
    <3> QED
      BY <1>8, <1>16, <3>2, Zenon DEF Arrived, s, h
  <2>3. crc' = [crc EXCEPT !.value = Crc(piece, @), !.chunks = @ \o piece]
    BY <1>3, <1>18, Zenon DEF CrcData
  <2>4. Crc(piece, <<"crc", Arrived>>) = <<"crc", Arrived \o piece>>
    BY DEF Crc
  <2>5. crc' = [state |-> "open", value |-> <<"crc", Arrived'>>, chunks |-> Arrived']
    <3> DEFINE v == Arrived
               t == v \o piece
    <3>1. crc = [state |-> "open", value |-> <<"crc", v>>, chunks |-> v]
      BY <1>18, <2>1
    <3>2. Crc(piece, <<"crc", v>>) = <<"crc", t>>
      BY <2>4
    <3> HIDE DEF v
    <3>3. crc' = [state |-> "open", value |-> Crc(piece, <<"crc", v>>), chunks |-> t]
      BY <2>3, <3>1
    <3>4. crc' = [state |-> "open", value |-> <<"crc", t>>, chunks |-> t]
      BY <3>2, <3>3, Zenon
    <3>5. t = Arrived'
      BY <2>2 DEF v
    <3> HIDE DEF t
    <3> QED
      BY <3>4, <3>5, Zenon
  <2>6. crc'.state = "open"
    BY <2>5
  <2> QED
    BY <2>5, <2>6 DEF SummingInv
<1>20. PipeTypes'
  <2>1. wire'.arrived <= Len(wire'.sent)
    BY <1>4, <1>7, <1>16
  <2> QED
    BY <1>1, <1>3, <1>16, <1>17, <1>19, <2>1 DEF PipeTypes
<1> QED
  <2>1. PipeTypes /\ IsCuts(c) /\ PipeInvFor(c) /\ SummingInv' /\ PipeTypes'
    BY <1>1, <1>2, <1>19, <1>20
  <2>2. r \in 0 .. Taken /\ decrypting'.output = Part(message, 0, c[r]) /\ wire'.sent = wire.sent
    BY <1>14, <1>16, <1>17 DEF s
  <2>3. decrypting'.state = "open" \/ decrypting'.state = "failed"
    BY <1>17
  <2>4. decrypting'.state # "failed" =>
          /\ At(c, r) <= wire'.arrived
          /\ decrypting'.buffer = Part(wire.sent, At(c, r), wire'.arrived)
    <3>1. o.ok => At(c, r) <= z
      BY <1>4, <1>7, <1>13, <1>14
    <3>2. wire.sent = s
      BY DEF s
    <3> QED
      BY <1>13, <1>16, <1>17, <3>1, <3>2, Zenon
  <2>5. UNCHANGED <<message, written, encrypting, hashing>>
    BY <1>3
  <2>6. decrypting'.state = "flushed" => decrypting'.buffer = <<>>
    BY <2>3
  <2> QED
    BY <2>1, <2>2, <2>4, <2>5, <2>6, ReceivingMoved

(* The end for the receiver: what is left is one block, or refused. *)
LEMMA DecryptFlushStep ==
  ASSUME PipeInv, DecryptFlush
  PROVE  PipeInv'
<1>1. PipeTypes /\ SummingInv
  BY DEF PipeInv
<1>2. PICK c : IsCuts(c) /\ PipeInvFor(c)
  BY DEF PipeInv
<1> DEFINE buffer == decrypting.buffer
           d == Opening(buffer)
           s == wire.sent
           h == wire.arrived
<1>3. /\ decrypting.state = "open"
      /\ decrypting' =
           IF buffer = <<>> THEN [decrypting EXCEPT !.state = "flushed"]
           ELSE IF d.ok
                THEN [decrypting EXCEPT !.state = "flushed", !.buffer = <<>>,
                                        !.output = @ \o d.decrypted]
                ELSE [decrypting EXCEPT !.state = "failed"]
      /\ UNCHANGED <<message, blockSize, written, encrypting, hashing, wire, crc>>
  BY DEF DecryptFlush, Opening
<1>4. /\ decrypting \in [state : {"open", "flushed", "failed"}, blockSize : Nat \ {0},
                         buffer : Seq(Cells), output : Seq(Bytes)]
      /\ s \in Seq(Cells) /\ message \in Seq(Bytes)
  BY <1>1 DEF PipeTypes
<1>5. Len(s) \in Nat /\ h \in 0 .. Len(s) /\ Len(message) \in Nat
  BY <1>1, <1>2, Before
<1>6. Carries(s, c, Taken)
  BY <1>2 DEF PipeInvFor, SendingInv
<1>7. PICK q \in 0 .. Taken :
        /\ q \in Nat /\ Taken \in Nat /\ c[q] \in 0 .. Len(message) /\ At(c, q) \in Nat
        /\ decrypting.output = Part(message, 0, c[q])
        /\ At(c, q) \in 0 .. h
        /\ buffer = Part(s, At(c, q), h)
  BY <1>1, <1>2, <1>3, Received
<1>8. SummingInv'
  BY <1>1, <1>3 DEF SummingInv, Arrived, Over
<1> HIDE DEF s, h
<1>9. ASSUME NEW r \in 0 .. Taken,
             decrypting' \in [state : {"open", "flushed", "failed"}, blockSize : Nat \ {0},
                              buffer : Seq(Cells), output : Seq(Bytes)],
             decrypting'.output = Part(message, 0, c[r]), At(c, r) <= h,
             decrypting'.state # "failed" => decrypting'.buffer = Part(s, At(c, r), h),
             decrypting'.state = "flushed" => decrypting'.buffer = <<>>
      PROVE  PipeInv'
  <2>1. PipeTypes'
    BY <1>1, <1>3, <1>9 DEF PipeTypes
  <2>2. wire' = wire /\ wire.arrived = h /\ wire.sent = s
    BY <1>3 DEF h, s
  <2> QED
    BY <1>1, <1>2, <1>3, <1>8, <1>9, <2>1, <2>2, ReceivingMoved
<1>10. CASE buffer = <<>> \/ ~d.ok
  <2> HIDE DEF d
  <2>1. PICK x \in {"flushed", "failed"} :
          decrypting' = [decrypting EXCEPT !.state = x] /\ (x = "flushed" => buffer = <<>>)
    BY <1>3, <1>10
  <2>2. /\ decrypting' \in [state : {"open", "flushed", "failed"}, blockSize : Nat \ {0},
                            buffer : Seq(Cells), output : Seq(Bytes)]
        /\ decrypting'.state = x /\ decrypting'.buffer = buffer
        /\ decrypting'.output = decrypting.output
    BY <1>4, <2>1
  <2>3. At(c, q) <= h
    BY <1>7
  <2> QED
    BY <1>7, <1>9, <2>1, <2>2, <2>3
<1>11. CASE ~(buffer = <<>> \/ ~d.ok)
  <2>1. h \in At(c, q) .. Len(s)
    BY <1>5, <1>7
  <2>2. Opening(Part(s, At(c, q), h)).ok /\ d = Opening(Part(s, At(c, q), h))
    BY <1>7, <1>11
  <2>3. q \in 0 .. Taken - 1 /\ h = At(c, q + 1) /\ d.decrypted = Text(c, q)
    <3> DEFINE w == Opening(Part(s, At(c, q), h))
    <3>1. q \in 0 .. Taken - 1 /\ h = At(c, q + 1) /\ w.decrypted = Text(c, q)
      BY <1>2, <1>4, <1>6, <2>1, <2>2, OpensExactly
    <3> QED
      BY <2>2, <3>1, Zenon
  <2>4. q + 1 \in 0 .. Taken /\ q + 1 \in Nat /\ q \in 0 .. q + 1
    BY <1>7, <2>3
  <2>5. c[q + 1] \in 0 .. Len(message) /\ c[q] \in 0 .. c[q + 1]
    <3>1. c[q + 1] \in Nat /\ c[q + 1] <= c[Taken] /\ c[Taken] \in Nat
      BY <1>2, <1>7, <2>4, CutsInOrder
    <3>2. c[q] <= c[q + 1] /\ c[q] \in Nat
      BY <1>2, <2>4, CutsInOrder
    <3>3. c[Taken] <= Len(message)
      BY <1>6 DEF Carries
    <3> QED
      BY <1>5, <3>1, <3>2, <3>3
  <2>6. /\ decrypting.output \o d.decrypted = Part(message, 0, c[q + 1])
        /\ Part(message, 0, c[q + 1]) \in Seq(Bytes)
    <3> DEFINE x == c[q]
               y == c[q + 1]
    <3>1. y \in 0 .. Len(message) /\ x \in 0 .. y /\ 0 \in 0 .. x /\ 0 \in 0 .. y
      BY <1>5, <2>5
    <3> HIDE DEF x, y, d
    <3>2. Part(message, 0, x) \o Part(message, x, y) = Part(message, 0, y)
      BY <1>4, <3>1, PartsJoin
    <3>3. Part(message, 0, y) \in Seq(Bytes)
      BY <1>4, <3>1, PartIs
    <3> QED
      BY <1>7, <2>3, <3>2, <3>3, Zenon DEF x, y, Text
  <2>7. Part(s, At(c, q + 1), h) = <<>>
    <3>1. Part(s, h, h) = <<>>
      BY <1>4, <1>5, WholePart
    <3> QED
      BY <2>3, <3>1
  <2> DEFINE out == decrypting.output \o d.decrypted
  <2>8. decrypting' = [decrypting EXCEPT !.state = "flushed", !.buffer = <<>>, !.output = out]
    BY <1>3, <1>11
  <2>9. out \in Seq(Bytes) /\ out = Part(message, 0, c[q + 1])
    BY <2>6
  <2> HIDE DEF out
  <2>10. /\ decrypting' \in [state : {"open", "flushed", "failed"}, blockSize : Nat \ {0},
                             buffer : Seq(Cells), output : Seq(Bytes)]
         /\ decrypting'.buffer = <<>> /\ decrypting'.output = out
    <3> HIDE DEF buffer, d
    <3>1. <<>> \in Seq(Cells)
      OBVIOUS
    <3>2. decrypting \in [state : {"open", "flushed", "failed"}, blockSize : Nat \ {0},
                          buffer : Seq(Cells), output : Seq(Bytes)]
      BY <1>4
    <3>3. out \in Seq(Bytes)
      BY <2>9
    <3> QED
      BY <2>8, <3>1, <3>2, <3>3
  <2>11. At(c, q + 1) <= h
    BY <1>5, <2>3
  <2> QED
    BY <1>9, <2>4, <2>7, <2>9, <2>10, <2>11
<1> QED
  BY <1>10, <1>11

(* The CrcService ends. *)
LEMMA SumUpStep ==
  ASSUME PipeInv, SumUp
  PROVE  PipeInv'
<1>1. PipeTypes /\ SummingInv
  BY DEF PipeInv
<1>2. PICK c : IsCuts(c) /\ PipeInvFor(c)
  BY DEF PipeInv
<1>3. /\ wire.state = "broken" \/ (hashing.state = "flushed" /\ Undelivered = <<>>)
      /\ UNCHANGED <<message, blockSize, written, encrypting, hashing, wire, decrypting>>
      /\ \E x \in {"resolved", "rejected"} : crc' = [crc EXCEPT !.state = x]
  BY DEF SumUp, CrcEnd, CrcError, cipherVars
<1>4. PICK x \in {"resolved", "rejected"} : crc' = [crc EXCEPT !.state = x]
  BY <1>3
<1>5. Over
  <2> DEFINE s == wire.sent
             h == wire.arrived
             l == Len(s)
  <2>1. s \in Seq(Cells) /\ h \in 0 .. Len(s) /\ l \in Nat
    BY <1>1, <1>2, Before DEF PipeTypes
  <2>2. Undelivered = Part(s, h, l)
    BY Zenon DEF Undelivered, Part
  <2>3. l \in 0 .. Len(s) /\ h \in 0 .. l
    BY <2>1
  <2> HIDE DEF s, h, l
  <2>4. Len(Part(s, h, l)) = l - h
    BY <2>1, <2>3, PartIs
  <2>5. Undelivered = <<>> => h = l
    <3>1. Undelivered = <<>> => l - h = 0
      BY <2>2, <2>4
    <3> QED
      BY <2>1, <2>3, <3>1
  <2> QED
    BY <1>3, <2>5 DEF Over, s, h, l
<1>6. SummingInv' /\ crc'.state = x
  <2>1. crc = [state |-> crc.state, value |-> <<"crc", Arrived>>, chunks |-> Arrived]
    BY <1>1 DEF SummingInv
  <2>2. crc' = [state |-> x, value |-> <<"crc", Arrived>>, chunks |-> Arrived]
    BY <1>4, <2>1
  <2>3. Arrived' = Arrived /\ Over'
    BY <1>3, <1>5 DEF Arrived, Over
  <2>4. crc'.state = x
    BY <2>2
  <2> QED
    BY <2>2, <2>3, <2>4 DEF SummingInv
<1>7. PipeTypes'
  BY <1>1, <1>3, <1>6 DEF PipeTypes
<1>8. Taken' = Taken
  BY <1>3 DEF Taken
<1>9. PipeInvFor(c)'
  BY <1>2, <1>3, <1>8 DEF PipeInvFor, EncryptingInv, Queued, Text, SendingInv, Carries, ReceivingInv
<1> QED
  BY <1>2, <1>6, <1>7, <1>9 DEF PipeInv

(* The connection breaks off. *)
LEMMA BreakStep ==
  ASSUME PipeInv, Break
  PROVE  PipeInv'
<1>1. PipeTypes /\ SummingInv
  BY DEF PipeInv
<1>2. PICK c : IsCuts(c) /\ PipeInvFor(c)
  BY DEF PipeInv
<1>3. /\ wire' = [wire EXCEPT !.state = "broken"]
      /\ UNCHANGED <<message, blockSize, written, encrypting, hashing, decrypting, crc>>
  BY DEF Break
<1>4. /\ wire' \in [state : {"open", "broken"}, sent : Seq(Cells), arrived : Nat]
      /\ wire'.state = "broken" /\ wire'.sent = wire.sent /\ wire'.arrived = wire.arrived
  BY <1>1, <1>3 DEF PipeTypes
<1>5. PipeTypes'
  BY <1>1, <1>3, <1>4 DEF PipeTypes
<1>6. SummingInv'
  BY <1>1, <1>3, <1>4 DEF SummingInv, Arrived, Over
<1>7. Taken' = Taken
  BY <1>3 DEF Taken
<1>8. PipeInvFor(c)'
  BY <1>2, <1>3, <1>4, <1>7 DEF PipeInvFor, EncryptingInv, Queued, Text, SendingInv, Carries, ReceivingInv
<1> QED
  BY <1>2, <1>5, <1>6, <1>8 DEF PipeInv

(* All steps together. *)
LEMMA PipeStep == PipeInv /\ [Next]_vars => PipeInv'
<1> SUFFICES ASSUME PipeInv, [Next]_vars PROVE PipeInv'
  OBVIOUS
<1>1. ASSUME NEW n \in 1 .. MaxWrite, EncryptWrite(n) PROVE PipeInv'
  BY <1>1, WriteStep
<1>2. CASE EncryptFlush
  BY <1>2, FlushStep
<1>3. CASE Checksum
  BY <1>3, ChecksumStep
<1>4. CASE ChecksumFlush
  BY <1>4, ChecksumFlushStep
<1>5. ASSUME NEW n \in Pieces, DecryptPiece(n) PROVE PipeInv'
  BY <1>5, PieceStep
<1>6. CASE DecryptFlush
  BY <1>6, DecryptFlushStep
<1>7. CASE Break
  BY <1>7, BreakStep
<1>8. CASE SumUp
  BY <1>8, SumUpStep
<1>9. CASE UNCHANGED <<cipherVars, crc>>
  <2>1. UNCHANGED <<message, blockSize, written, encrypting, hashing, wire, decrypting, crc>>
    BY <1>9 DEF cipherVars
  <2>2. Taken' = Taken
    BY <2>1 DEF Taken
  <2>3. PICK c : IsCuts(c) /\ PipeInvFor(c)
    BY DEF PipeInv
  <2>4. PipeInvFor(c)'
    BY <2>1, <2>2, <2>3 DEF PipeInvFor, EncryptingInv, Queued, Text, SendingInv, Carries, ReceivingInv
  <2>5. PipeTypes' /\ SummingInv'
    BY <2>1 DEF PipeInv, PipeTypes, SummingInv, Arrived, Over
  <2> QED
    BY <2>3, <2>4, <2>5 DEF PipeInv
<1>10. Next \/ UNCHANGED vars
  OBVIOUS
<1> QED
  <2>1. FoldWrite \/ FoldFlush \/ (XorNext /\ UNCHANGED <<cipherVars, crc, folding>>) \/ UNCHANGED vars
          => UNCHANGED <<cipherVars, crc>>
    BY DEF FoldWrite, FoldFlush, vars
  <2> QED
    BY <1>1, <1>2, <1>3, <1>4, <1>5, <1>6, <1>7, <1>8, <1>9, <1>10, <2>1, Zenon DEF Next, Pipeline

-----------------------------------------------------------------------------
(* The output is the message up to a cut.                                  *)
LEMMA PipeGivesPrefix == PipeInv => OutputIsPrefix
<1> SUFFICES ASSUME PipeInv PROVE OutputIsPrefix
  OBVIOUS
<1>1. PipeTypes
  BY DEF PipeInv
<1>2. PICK c : IsCuts(c) /\ PipeInvFor(c)
  BY DEF PipeInv
<1>3. PICK q \in 0 .. Taken :
        c[q] \in 0 .. Len(message) /\ decrypting.output = Part(message, 0, c[q])
  BY <1>1, <1>2, Received
<1> DEFINE x == c[q]
           out == decrypting.output
<1>4. x \in 0 .. Len(message) /\ 0 \in 0 .. x /\ message \in Seq(Bytes) /\ Len(message) \in Nat
  BY <1>1, <1>3, LenProperties DEF PipeTypes
<1> HIDE DEF x
<1>5. Part(message, 0, x) \in Seq(Bytes) /\ Len(Part(message, 0, x)) = x - 0
  BY <1>4, PartIs
<1>6. out = Part(message, 0, x)
  BY <1>3 DEF x
<1> HIDE DEF out
<1>7. out \in Seq(Bytes) /\ Len(out) = x
  BY <1>4, <1>5, <1>6
<1>8. Part(out, 0, Len(out)) = out
  BY <1>7, WholePart
<1>9. SubSeq(out, 1, Len(out)) = SubSeq(message, 1, Len(out))
  <2>1. 0 + 1 = 1
    OBVIOUS
  <2>2. Part(out, 0, Len(out)) = Part(message, 0, Len(out))
    BY <1>6, <1>7, <1>8, Zenon
  <2> QED
    BY <2>1, <2>2, Zenon DEF Part
<1>10. Len(out) <= Len(message)
  BY <1>4, <1>7
<1> QED
  BY <1>9, <1>10, Zenon DEF OutputIsPrefix, IsPrefix, out

(* When everything has arrived, the last cut is the end of the message.    *)
LEMMA PipeGivesWhole ==
  ASSUME PipeInv, decrypting.state = "flushed", hashing.state = "flushed",
         wire.arrived = Len(wire.sent)
  PROVE  decrypting.output = message
<1>1. PipeTypes
  BY DEF PipeInv
<1>2. PICK c : IsCuts(c) /\ PipeInvFor(c)
  BY DEF PipeInv
<1>3. PICK q \in 0 .. Taken :
        /\ q \in Nat /\ Taken \in Nat /\ c[q] \in 0 .. Len(message) /\ At(c, q) \in Nat
        /\ decrypting.output = Part(message, 0, c[q])
        /\ At(c, q) \in 0 .. wire.arrived
        /\ decrypting.buffer = Part(wire.sent, At(c, q), wire.arrived)
  BY <1>1, <1>2, Received
<1> DEFINE s == wire.sent
           h == wire.arrived
<1>4. s \in Seq(Cells) /\ h \in 0 .. Len(s) /\ Len(s) \in Nat
  BY <1>1, <1>2, Before DEF PipeTypes
<1>5. At(c, q) = h
  <2> DEFINE x == At(c, q)
  <2>1. x \in 0 .. h /\ Part(s, x, h) = <<>>
    BY <1>2, <1>3 DEF PipeInvFor, ReceivingInv
  <2> HIDE DEF x, s, h
  <2>2. Len(Part(s, x, h)) = h - x
    BY <1>4, <2>1, PartIs
  <2>3. h - x = 0
    BY <2>1, <2>2
  <2>4. x = h
    BY <1>4, <2>1, <2>3
  <2> QED
    BY <2>4 DEF x
<1>6. Len(s) = At(c, Taken)
  BY <1>2 DEF PipeInvFor, SendingInv, Carries
<1>7. q = Taken
  <2>1. SUFFICES ASSUME q # Taken PROVE FALSE
    OBVIOUS
  <2>2. At(c, q) + 6 <= At(c, Taken)
    BY <1>2, <1>3, <2>1, CutsInOrder
  <2> QED
    BY <1>3, <1>4, <1>5, <1>6, <2>2
<1>8. Taken = encrypting.count /\ c[encrypting.count] = Len(message)
  <2>1. encrypting.state = "flushed" /\ encrypting.blocks = <<>>
    BY <1>2 DEF PipeInvFor, SendingInv
  <2>2. encrypting.count \in Nat
    BY <1>1 DEF PipeTypes
  <2> QED
    BY <1>2, <2>1, <2>2 DEF PipeInvFor, EncryptingInv, Taken
<1>9. Part(message, 0, Len(message)) = message
  BY <1>1, WholePart DEF PipeTypes
<1> QED
  BY <1>3, <1>7, <1>8, <1>9, Zenon

(* Equal sums are sums of equal buffers, so everything has arrived. *)
LEMMA PipeChecks == PipeInv => ChecksumTellsWhole
<1> SUFFICES ASSUME PipeInv PROVE ChecksumTellsWhole
  OBVIOUS
<1> DEFINE s == wire.sent
           h == wire.arrived
           arrived == Slice(s, 0, h)
           own == <<CrcOfBuffer(hashing.seen)>>
<1>1. PipeTypes /\ SummingInv
  BY DEF PipeInv
<1>2. PICK c : IsCuts(c) /\ PipeInvFor(c)
  BY DEF PipeInv
<1>3. s \in Seq(Cells) /\ h \in 0 .. Len(s) /\ Len(s) \in Nat /\ hashing.seen = s
  BY <1>1, <1>2, Before DEF PipeTypes, PipeInvFor, SendingInv
<1>4. arrived = Arrived
  <2>1. 0 + 1 = 1 /\ (IF h < Len(s) THEN h ELSE Len(s)) = h
    BY <1>3
  <2> QED
    BY <2>1, Zenon DEF Slice, Arrived, Part
<1> HIDE DEF s, h, arrived
<1>5. /\ Arrived \in Seq(Cells) /\ Len(Arrived) = h
      /\ <<>> \o Arrived = Arrived /\ <<>> \o s = s
  <2>1. 0 \in 0 .. h
    BY <1>3
  <2>2. Part(s, 0, h) \in Seq(Cells) /\ Len(Part(s, 0, h)) = h - 0
    BY <1>3, <2>1, PartIs
  <2>3. Arrived = Part(s, 0, h)
    BY Zenon DEF Arrived, s, h
  <2>4. Arrived \in Seq(Cells) /\ Len(Arrived) = h
    BY <1>3, <2>2, <2>3
  <2> QED
    BY <1>3, <2>4, ConcatEmptySeq
<1>6. CrcOfBuffer(Arrived) = <<"crc", Arrived>> /\ CrcOfBuffer(s) = <<"crc", s>>
  BY <1>5, Zenon DEF CrcOfBuffer, Crc, NothingYet
<1>7. crc.value = <<"crc", Arrived>> /\ crc.chunks = Arrived
  BY <1>1 DEF SummingInv
<1>8. SumsAgree(arrived, own)
  <2>1. RunningValue = CrcOfBuffer(arrived) /\ Crc32Value = CrcOfBuffer(arrived)
    BY <1>4, <1>6, <1>7 DEF RunningValue, Crc32Value
  <2>2. own # <<>> /\ Head(own) = CrcOfBuffer(hashing.seen)
    OBVIOUS
  <2>3. VerifyCrcAsync(RunningValue, own) => RunningValue = CrcOfBuffer(hashing.seen)
    BY DEF VerifyCrcAsync
  <2> QED
    BY <2>1, <2>2, <2>3, Zenon DEF SumsAgree, VerifyCrc
<1>9. ASSUME decrypting.state = "flushed", hashing.state = "flushed", hashing.seen = Arrived
      PROVE  decrypting.output = message
  <2>1. Len(s) = h
    BY <1>3, <1>5, <1>9, Zenon
  <2> QED
    BY <1>9, <2>1, PipeGivesWhole DEF s, h
<1>10. VerifyCrcAsync(RunningValue, own) => hashing.seen = Arrived
  <2>1. VerifyCrcAsync(RunningValue, own) => RunningValue = CrcOfBuffer(hashing.seen)
    BY DEF VerifyCrcAsync
  <2>2. CrcOfBuffer(hashing.seen) = <<"crc", s>> /\ RunningValue = <<"crc", Arrived>>
    BY <1>3, <1>6, <1>7 DEF RunningValue
  <2>3. <<"crc", s>> = <<"crc", Arrived>> => s = Arrived
    OBVIOUS
  <2> QED
    BY <1>3, <2>1, <2>2, <2>3
<1> QED
  BY <1>4, <1>8, <1>9, <1>10, Zenon DEF ChecksumTellsWhole, s, h, arrived

-----------------------------------------------------------------------------
(* Whatever the sizes of the message, of the writes, of the blocks on both *)
(* sides and of the pieces that are delivered, and wherever the connection *)
(* breaks off: EciesDecryptionTransform pushes a beginning of what was     *)
(* written to EciesEncryptTransform (eciesEncryptTransform.ts,             *)
(* eciesDecryptTransform.ts).                                              *)
THEOREM OutputAlwaysPrefix == Spec => []OutputIsPrefix
<1>1. PipeInv => OutputIsPrefix
  BY PipeGivesPrefix
<1> QED
  BY <1>1, PipeInitially, PipeStep, PTL DEF Spec

(* Whatever those sizes, a checksum, or a sum of CrcService, that is equal *)
(* on both sides tells that the whole message was given out, and the sums  *)
(* of a stream are those of the buffer (checksumTransform.ts, crc.ts).     *)
THEOREM ChecksumAlwaysTells == Spec => []ChecksumTellsWhole
<1>1. PipeInv => ChecksumTellsWhole
  BY PipeChecks
<1> QED
  BY <1>1, PipeInitially, PipeStep, PTL DEF Spec
=============================================================================
