---------------------------- MODULE VoteLogProofs ----------------------------
(***************************************************************************)
(* Theorems about VoteLog, for every number of jurisdictions, votes, reads *)
(* and crashes.  The way to them: what the loop of replayVotes finds in a  *)
(* buffer does not depend on where the buffer is cut (ReadInPieces), and   *)
(* an entry is read as the vote it is of (SerializedComesBack).  So a file *)
(* that grows keeps its votes, and a reader that is given chunks is given  *)
(* what is found in the part of the file it has read (LogInv).             *)
(***************************************************************************)
EXTENDS VoteLog, SequenceTheorems, WellFoundedInduction, TLAPS

-----------------------------------------------------------------------------
(* Recursion over numbers, with sets in the place of predicates.           *)

(* A set of numbers that is not empty has a least one.                     *)
LEMMA LeastNumber ==
  ASSUME NEW T \in SUBSET Nat, T # {}
  PROVE  \E x \in T : \A y \in T : x <= y
<1> DEFINE R == OpToRel(<, Nat)
<1>1. IsWellFoundedOn(R, Nat)
  BY NatLessThanWellFounded
<1>2. \A x, y \in Nat : y < x => <<y, x>> \in R
  BY DEF OpToRel
<1> HIDE DEF R
<1>3. PICK x \in T : \A y \in T : ~(<<y, x>> \in R)
  BY <1>1, WFMin
<1>4. ASSUME NEW y \in T PROVE x <= y
  <2>1. x \in Nat /\ y \in Nat /\ ~(<<y, x>> \in R)
    BY <1>3
  <2>2. ~(y < x)
    BY <1>2, <2>1
  <2> QED
    BY <2>1, <2>2
<1> QED
  BY <1>4

(* Induction over the numbers, for a set of numbers in the place of a predicate. *)
LEMMA NumbersInduction ==
  ASSUME NEW P, 0 \in P, \A n \in Nat : n \in P => n + 1 \in P
  PROVE  \A n \in Nat : n \in P
<1> DEFINE T == Nat \ P
<1>1. SUFFICES ASSUME T # {} PROVE FALSE
  OBVIOUS
<1>2. PICK x \in T : \A y \in T : x <= y
  BY <1>1, LeastNumber
<1>3. x # 0 /\ x \in Nat
  OBVIOUS
<1>4. x - 1 \in Nat /\ x - 1 \in P
  BY <1>2, <1>3
<1> QED
  BY <1>4, <1>3, (x - 1) + 1 = x

(* D gives the value at x from a function; it looks only at lower ranks.   *)
IsRecursion(D, X, V, rank, N) ==
  /\ N \in Nat /\ rank \in [X -> 0 .. N] /\ V # {}
  /\ D \in [X -> [[X -> V] -> V]]
  /\ \A g, h \in [X -> V], x \in X :
       (\A y \in X : rank[y] < rank[x] => g[y] = h[y]) => D[x][g] = D[x][h]

Follows(f, D, X, V) == f \in [X -> V] /\ \A x \in X : f[x] = D[x][f]

(* A function that follows a recursion over ranks exists.                  *)
LEMMA Recursion ==
  ASSUME NEW D, NEW X, NEW V, NEW rank, NEW N, IsRecursion(D, X, V, rank, N)
  PROVE  \E f : Follows(f, D, X, V)
<1> USE DEF IsRecursion, Follows
<1> DEFINE Upto(f, n) == \A x \in X : rank[x] < n => f[x] = D[x][f]
           P == {n \in Nat : \E f \in [X -> V] : Upto(f, n)}
<1>1. 0 \in P
  <2>1. [x \in X |-> CHOOSE v \in V : TRUE] \in [X -> V]
    OBVIOUS
  <2>2. Upto([x \in X |-> CHOOSE v \in V : TRUE], 0)
    OBVIOUS
  <2> QED
    BY <2>1, <2>2
<1>2. ASSUME NEW n \in Nat, n \in P PROVE n + 1 \in P
  <2>1. PICK f \in [X -> V] : Upto(f, n)
    BY <1>2
  <2> DEFINE g == [x \in X |-> IF rank[x] < n THEN f[x] ELSE D[x][f]]
  <2>2. \A x \in X : D[x][f] \in V
    BY <2>1
  <2>3. g \in [X -> V]
    BY <2>2
  <2>4. ASSUME NEW x \in X, rank[x] < n + 1 PROVE g[x] = D[x][g]
    <3>1. g[x] = D[x][f]
      BY <2>1
    <3>2. \A y \in X : rank[y] < rank[x] => g[y] = f[y]
      BY <2>4
    <3> HIDE DEF g
    <3>3. D[x][g] = D[x][f]
      BY <2>3, <3>2
    <3> QED
      BY <3>1, <3>3
  <2>5. Upto(g, n + 1)
    BY <2>4
  <2> HIDE DEF g, Upto
  <2> QED
    BY <2>3, <2>5
<1>3. N + 1 \in P
  BY <1>1, <1>2, NumbersInduction
<1>4. PICK f \in [X -> V] : Upto(f, N + 1)
  BY <1>3
<1> QED
  BY <1>4

(* Induction in which all smaller numbers may be used. *)
LEMMA StrongInduction ==
  ASSUME NEW P, \A n \in Nat : (\A m \in 0 .. n - 1 : m \in P) => n \in P
  PROVE  \A n \in Nat : n \in P
<1> DEFINE T == Nat \ P
<1>1. SUFFICES ASSUME T # {} PROVE FALSE
  OBVIOUS
<1>2. PICK x \in T : \A y \in T : x <= y
  BY <1>1, LeastNumber
<1>3. ASSUME NEW m \in 0 .. x - 1 PROVE m \in P
  BY <1>2
<1> QED
  BY <1>3

-----------------------------------------------------------------------------
(* Parts of sequences.                                                     *)
LEMMA PartOf ==
  ASSUME NEW T, NEW s \in Seq(T), NEW m \in 1 .. Len(s) + 1, NEW n \in m - 1 .. Len(s)
  PROVE  /\ SubSeq(s, m, n) \in Seq(T) /\ Len(SubSeq(s, m, n)) = n - m + 1
         /\ \A i \in 1 .. n - m + 1 : SubSeq(s, m, n)[i] = s[m + i - 1]
<1>1. Len(s) \in Nat /\ m \in Int /\ n \in Int
  BY LenProperties
<1>2. \A i \in m .. n : s[i] \in T
  BY <1>1, ElementOfSeq
<1>3. /\ SubSeq(s, m, n) \in Seq(T)
      /\ Len(SubSeq(s, m, n)) = IF m <= n THEN n - m + 1 ELSE 0
      /\ \A i \in 1 .. n - m + 1 : SubSeq(s, m, n)[i] = s[m + i - 1]
  BY <1>1, <1>2, SubSeqProperties
<1> QED
  BY <1>1, <1>3

(* What a replay has before it and behind it at a place in the buffer.     *)
Leading(b, n) == SubSeq(b, 1, n)
Behind(b, o) == SubSeq(b, o + 1, Len(b))

(* The front of a buffer, cell by cell. *)
LEMMA LeadingIs ==
  ASSUME NEW T, NEW b \in Seq(T), NEW n \in 0 .. Len(b)
  PROVE  /\ Leading(b, n) \in Seq(T) /\ Len(Leading(b, n)) = n
         /\ \A i \in 1 .. n : Leading(b, n)[i] = b[i]
<1>1. Len(b) \in Nat
  BY LenProperties
<1>2. 1 \in 1 .. Len(b) + 1 /\ n \in 1 - 1 .. Len(b) /\ n - 1 + 1 = n
      /\ \A i \in 1 .. n : 1 + i - 1 = i
  BY <1>1
<1> QED
  BY <1>2, PartOf DEF Leading

(* What is behind a place, cell by cell. *)
LEMMA BehindIs ==
  ASSUME NEW T, NEW b \in Seq(T), NEW o \in 0 .. Len(b)
  PROVE  /\ Behind(b, o) \in Seq(T) /\ Len(Behind(b, o)) = Len(b) - o
         /\ \A i \in 1 .. Len(b) - o : Behind(b, o)[i] = b[o + i]
<1>1. Len(b) \in Nat
  BY LenProperties
<1>2. o + 1 \in 1 .. Len(b) + 1 /\ Len(b) \in (o + 1) - 1 .. Len(b) /\ Len(b) - (o + 1) + 1 = Len(b) - o
      /\ \A i \in 1 .. Len(b) - o : (o + 1) + i - 1 = o + i
  BY <1>1
<1> DEFINE c == SubSeq(b, o + 1, Len(b))
<1>3. /\ c \in Seq(T) /\ Len(c) = Len(b) - (o + 1) + 1
      /\ \A i \in 1 .. Len(b) - (o + 1) + 1 : c[i] = b[(o + 1) + i - 1]
  <2> DEFINE m == o + 1
             n == Len(b)
  <2>1. m \in 1 .. Len(b) + 1 /\ n \in m - 1 .. Len(b)
    BY <1>2
  <2> HIDE DEF m, n
  <2>2. /\ SubSeq(b, m, n) \in Seq(T) /\ Len(SubSeq(b, m, n)) = n - m + 1
        /\ \A i \in 1 .. n - m + 1 : SubSeq(b, m, n)[i] = b[m + i - 1]
    BY <2>1, PartOf
  <2> QED
    BY <2>2, Zenon DEF m, n
<1> HIDE DEF c
<1>4. /\ c \in Seq(T) /\ Len(c) = Len(b) - o
      /\ \A i \in 1 .. Len(b) - o : c[i] = b[o + i]
  BY <1>2, <1>3
<1> QED
  BY <1>4 DEF c, Behind

(* Behind a place behind a place; the entry there is a front. *)
LEMMA BehindBehind ==
  ASSUME NEW T, NEW b \in Seq(T), NEW o \in 0 .. Len(b), NEW n \in 0 .. Len(b) - o
  PROVE  /\ Behind(Behind(b, o), n) = Behind(b, o + n)
         /\ SubSeq(b, o + 1, o + n) = Leading(Behind(b, o), n)
<1> DEFINE c == Behind(b, o)
           p == SubSeq(b, o + 1, o + n)
<1>1. Len(b) \in Nat /\ o + n \in 0 .. Len(b)
  BY LenProperties
<1>2. c \in Seq(T) /\ Len(c) = Len(b) - o /\ \A i \in 1 .. Len(b) - o : c[i] = b[o + i]
  BY BehindIs
<1> HIDE DEF c
<1>3. n \in 0 .. Len(c)
  BY <1>2
<1>4. /\ Behind(c, n) \in Seq(T) /\ Len(Behind(c, n)) = Len(c) - n
      /\ \A i \in 1 .. Len(c) - n : Behind(c, n)[i] = c[n + i]
  BY <1>2, <1>3, BehindIs
<1>5. /\ Behind(b, o + n) \in Seq(T) /\ Len(Behind(b, o + n)) = Len(b) - (o + n)
      /\ \A i \in 1 .. Len(b) - (o + n) : Behind(b, o + n)[i] = b[(o + n) + i]
  BY <1>1, BehindIs
<1>6. Behind(c, n) = Behind(b, o + n)
  <2>1. Len(Behind(c, n)) = Len(Behind(b, o + n))
    <3>1. Len(b) - o - n = Len(b) - (o + n)
      BY <1>1
    <3>2. Len(Behind(c, n)) = Len(b) - o - n /\ Len(Behind(b, o + n)) = Len(b) - (o + n)
      BY <1>2, <1>4, <1>5, Zenon
    <3> QED
      BY <3>1, <3>2, Zenon
  <2>2. ASSUME NEW i \in 1 .. Len(Behind(c, n)) PROVE Behind(c, n)[i] = Behind(b, o + n)[i]
    <3>1. i \in 1 .. Len(c) - n /\ n + i \in 1 .. Len(b) - o /\ i \in 1 .. Len(b) - (o + n)
          /\ o + (n + i) = (o + n) + i
      BY <1>1, <1>2, <1>4
    <3> QED
      BY <1>2, <1>4, <1>5, <3>1
  <2> QED
    BY <1>4, <1>5, <2>1, <2>2, SeqEqual
<1>7. /\ Leading(c, n) \in Seq(T) /\ Len(Leading(c, n)) = n
      /\ \A i \in 1 .. n : Leading(c, n)[i] = c[i]
  BY <1>2, <1>3, LeadingIs
<1>8. /\ p \in Seq(T) /\ Len(p) = n /\ \A i \in 1 .. n : p[i] = b[o + i]
  <2>1. o + 1 \in 1 .. Len(b) + 1 /\ o + n \in (o + 1) - 1 .. Len(b) /\ (o + n) - (o + 1) + 1 = n
        /\ \A i \in 1 .. n : (o + 1) + i - 1 = o + i
    BY <1>1
  <2> DEFINE m == o + 1
             z == o + n
  <2>2. m \in 1 .. Len(b) + 1 /\ z \in m - 1 .. Len(b)
    BY <2>1
  <2>3. z - m + 1 = n /\ \A i \in 1 .. n : m + i - 1 = o + i
    BY <2>1
  <2> HIDE DEF m, z
  <2>4. /\ SubSeq(b, m, z) \in Seq(T) /\ Len(SubSeq(b, m, z)) = z - m + 1
        /\ \A i \in 1 .. z - m + 1 : SubSeq(b, m, z)[i] = b[m + i - 1]
    BY <2>2, PartOf
  <2>5. p = SubSeq(b, m, z)
    BY Zenon DEF m, z, p
  <2> HIDE DEF p
  <2> QED
    BY <2>3, <2>4, <2>5
<1> HIDE DEF p
<1>9. p = Leading(c, n)
  <2>1. \A i \in 1 .. n : i \in 1 .. Len(b) - o
    BY <1>1
  <2>2. \A i \in 1 .. Len(p) : p[i] = Leading(c, n)[i]
    BY <1>2, <1>7, <1>8, <2>1
  <2> QED
    BY <1>7, <1>8, <2>2, SeqEqual
<1> QED
  BY <1>6, <1>9 DEF c, p

(* Both at the ends of the buffer. *)
LEMMA BehindNothing ==
  ASSUME NEW T, NEW b \in Seq(T)
  PROVE  /\ Behind(b, 0) = b /\ Leading(b, Len(b)) = b
         /\ Behind(b, Len(b)) = <<>> /\ Leading(b, 0) = <<>>
<1>1. Len(b) \in Nat
  BY LenProperties
<1> QED
  BY <1>1, SubSeqFull, SubSeqEmpty DEF Behind, Leading

(* A buffer in two parts.                                                  *)
LEMMA LeadingAndBehind ==
  ASSUME NEW T, NEW b \in Seq(T), NEW n \in 0 .. Len(b)
  PROVE  b = Leading(b, n) \o Behind(b, n)
<1>1. Len(b) \in Nat /\ 1 \in 1 .. Len(b) + 1 /\ n \in 1 - 1 .. Len(b) /\ Len(b) \in n .. Len(b)
  BY LenProperties
<1>2. SubSeq(b, 1, n) \o SubSeq(b, n + 1, Len(b)) = SubSeq(b, 1, Len(b))
  BY <1>1, ConcatAdjacentSubSeq
<1> QED
  BY <1>2, SubSeqFull DEF Leading, Behind

(* A buffer that grows keeps its front, and has more behind it. *)
LEMMA PartsOfConcat ==
  ASSUME NEW T, NEW b \in Seq(T), NEW x \in Seq(T), NEW n \in 0 .. Len(b)
  PROVE  /\ Leading(b \o x, n) = Leading(b, n)
         /\ Behind(b \o x, n) = Behind(b, n) \o x
<1> DEFINE c == b \o x
<1>1. Len(b) \in Nat /\ Len(x) \in Nat
  BY LenProperties
<1>2. /\ c \in Seq(T) /\ Len(c) = Len(b) + Len(x)
      /\ \A i \in 1 .. Len(b) + Len(x) : c[i] = IF i <= Len(b) THEN b[i] ELSE x[i - Len(b)]
  BY ConcatProperties
<1> HIDE DEF c
<1>3. n \in 0 .. Len(c)
  BY <1>1, <1>2
<1>4. Leading(c, n) = Leading(b, n)
  <2>1. /\ Leading(c, n) \in Seq(T) /\ Len(Leading(c, n)) = n
        /\ \A i \in 1 .. n : Leading(c, n)[i] = c[i]
    BY <1>2, <1>3, LeadingIs
  <2>2. /\ Leading(b, n) \in Seq(T) /\ Len(Leading(b, n)) = n
        /\ \A i \in 1 .. n : Leading(b, n)[i] = b[i]
    BY LeadingIs
  <2>3. \A i \in 1 .. n : c[i] = b[i]
    BY <1>1, <1>2
  <2>4. \A i \in 1 .. Len(Leading(c, n)) : Leading(c, n)[i] = Leading(b, n)[i]
    BY <2>1, <2>2, <2>3
  <2> QED
    BY <2>1, <2>2, <2>4, SeqEqual
<1>5. Behind(c, n) = Behind(b, n) \o x
  <2> DEFINE r == Behind(b, n)
             t == r \o x
             u == Behind(c, n)
  <2>1. /\ u \in Seq(T) /\ Len(u) = Len(c) - n
        /\ \A i \in 1 .. Len(c) - n : u[i] = c[n + i]
    BY <1>2, <1>3, BehindIs
  <2>2. /\ r \in Seq(T) /\ Len(r) = Len(b) - n
        /\ \A i \in 1 .. Len(b) - n : r[i] = b[n + i]
    BY BehindIs
  <2> HIDE DEF r, u
  <2>3. /\ t \in Seq(T) /\ Len(t) = Len(r) + Len(x)
        /\ \A i \in 1 .. Len(r) + Len(x) : t[i] = IF i <= Len(r) THEN r[i] ELSE x[i - Len(r)]
    BY <2>2, ConcatProperties
  <2> HIDE DEF t
  <2>4. Len(u) = Len(t) /\ Len(u) = Len(b) + Len(x) - n
    BY <1>1, <1>2, <2>1, <2>2, <2>3
  <2>5. ASSUME NEW i \in 1 .. Len(u) PROVE u[i] = t[i]
    <3>1. i \in 1 .. Len(b) + Len(x) - n /\ i \in Nat /\ n \in Nat
      BY <2>4, <1>1
    <3>2. u[i] = c[n + i] /\ n + i \in 1 .. Len(b) + Len(x)
      BY <1>1, <1>2, <2>1, <3>1
    <3>3. CASE i <= Len(b) - n
      <4>1. t[i] = r[i] /\ r[i] = b[n + i] /\ c[n + i] = b[n + i]
        BY <1>1, <1>2, <2>2, <2>3, <3>1, <3>2, <3>3
      <4> QED
        BY <3>2, <4>1
    <3>4. CASE ~(i <= Len(b) - n)
      <4>1. t[i] = x[i - (Len(b) - n)]
        BY <1>1, <2>2, <2>3, <3>1, <3>4
      <4>2. c[n + i] = x[(n + i) - Len(b)]
        BY <1>1, <1>2, <3>1, <3>2, <3>4
      <4>3. i - (Len(b) - n) = (n + i) - Len(b)
        BY <1>1, <3>1
      <4> QED
        BY <3>2, <4>1, <4>2, <4>3
    <3> QED
      BY <3>3, <3>4
  <2>6. u = t
    BY <2>1, <2>3, <2>4, <2>5, SeqEqual
  <2> QED
    BY <2>6 DEF u, t, r
<1> QED
  BY <1>4, <1>5 DEF c

-----------------------------------------------------------------------------
(* What the loop of replayVotes does with a buffer.                        *)
OneCell  == {<<n>> : n \in Nat}
Readable == [id : Seq(Nat), timestamp : Nat, values : Seq(OneCell)]
Found    == [votes : Seq(Readable), rest : Seq(Nat), threw : BOOLEAN]

Partial(b) == Len(b) < 2 \/ Len(b) < b[1]
Entry(b)   == Leading(b, b[1])

WithVote(v, found) == [found EXCEPT !.votes = <<v>> \o @]

(* What deserializeVote makes of an entry it can read is a vote with one   *)
(* cell per value.                                                         *)
LEMMA DeserializedIsReadable ==
  ASSUME NEW e \in Seq(Nat), CanDeserialize(e)
  PROVE  DeserializeVote(e) \in Readable
<1> DEFINE c == 4 + e[3]
<1>1. Len(e) \in Nat /\ e[3] \in Nat /\ e[2] \in Nat
  <2>1. Len(e) \in Nat /\ Len(e) >= 3
    BY LenProperties DEF CanDeserialize
  <2>2. 2 \in 1 .. Len(e) /\ 3 \in 1 .. Len(e)
    BY <2>1
  <2> QED
    BY <2>1, <2>2, ElementOfSeq
<1>2. c \in 4 .. Len(e) /\ c + e[c] <= Len(e)
  BY <1>1 DEF CanDeserialize
<1>3. e[c] \in Nat
  <2>1. c \in 1 .. Len(e)
    BY <1>2
  <2> HIDE DEF c
  <2> QED
    BY <2>1, ElementOfSeq
<1>4. SubSeq(e, 4, c - 1) \in Seq(Nat)
  <2>1. 4 \in 1 .. Len(e) + 1 /\ c - 1 \in 4 - 1 .. Len(e)
    <3> HIDE DEF c
    <3> QED
      BY <1>1, <1>2
  <2> HIDE DEF c
  <2> QED
    BY <2>1, PartOf
<1> DEFINE n == e[c]
           values == [i \in 1 .. n |-> <<e[c + i]>>]
<1>5. values \in Seq(OneCell)
  <2>1. ASSUME NEW i \in 1 .. n PROVE e[c + i] \in Nat
    <3>2. i \in 1 .. n /\ n \in Nat /\ c + n <= Len(e)
      BY <1>2, <1>3
    <3> HIDE DEF c, n
    <3>1. c + i \in 1 .. Len(e)
      BY <1>1, <1>2, <3>2
    <3> QED
      BY <3>1, ElementOfSeq
  <2>2. \A i \in 1 .. n : <<e[c + i]>> \in OneCell
    BY <2>1 DEF OneCell
  <2> HIDE DEF c, n
  <2>3. n \in Nat
    BY <1>3 DEF n
  <2> QED
    BY <2>2, <2>3
<1>6. DeserializeVote(e) = [id |-> SubSeq(e, 4, c - 1), timestamp |-> e[2], values |-> values]
  BY DEF DeserializeVote
<1> HIDE DEF c, values
<1> QED
  BY <1>1, <1>4, <1>5, <1>6 DEF Readable

(* The function the definition of ReadEntries is about. *)
IsReading(from, buffer) ==
  from = [o \in 0 .. Len(buffer) |->
        IF Len(buffer) - o < 2 \/ Len(buffer) - o < buffer[o + 1]
        THEN [votes |-> <<>>, rest |-> SubSeq(buffer, o + 1, Len(buffer)), threw |-> FALSE]
        ELSE LET entry == SubSeq(buffer, o + 1, o + buffer[o + 1])
             IN  IF ~CanDeserialize(entry)
                 THEN [votes |-> <<>>, rest |-> <<>>, threw |-> TRUE]
                 ELSE LET tail == from[o + Len(entry)]
                      IN  [tail EXCEPT !.votes = <<DeserializeVote(entry)>> \o @]]

(* ReadEntries is the value at 0 of a function of that kind, if there is   *)
(* one.                                                                    *)
LEMMA ReadByDefinition ==
  ASSUME NEW b, \E f : IsReading(f, b)
  PROVE  \E f : IsReading(f, b) /\ ReadEntries(b) = f[0]
<1> DEFINE F == CHOOSE f : IsReading(f, b)
<1>1. ReadEntries(b) = F[0]
  BY Zenon DEF ReadEntries, IsReading
<1>2. IsReading(F, b)
  BY Zenon
<1> QED
  BY <1>1, <1>2, Zenon

(* What it finds behind a place depends on what is there only.             *)
FindsBehind(f, b) ==
  \A o \in 0 .. Len(b) :
    LET c == Behind(b, o)
    IN  /\ Partial(c) => f[o] = [votes |-> <<>>, rest |-> c, threw |-> FALSE]
        /\ ~Partial(c) /\ ~CanDeserialize(Entry(c)) =>
             f[o] = [votes |-> <<>>, rest |-> <<>>, threw |-> TRUE]
        /\ ~Partial(c) /\ CanDeserialize(Entry(c)) =>
             f[o] = WithVote(DeserializeVote(Entry(c)), f[o + c[1]])

(* An entry that can be read has three cells or more and fits the buffer.  *)
LEMMA EntryFits ==
  ASSUME NEW b \in Seq(Nat), ~Partial(b)
  PROVE  /\ Len(b) \in Nat /\ b[1] \in Nat /\ b[1] <= Len(b)
         /\ Entry(b) \in Seq(Nat) /\ Len(Entry(b)) = b[1]
         /\ CanDeserialize(Entry(b)) => b[1] >= 3 /\ DeserializeVote(Entry(b)) \in Readable
<1>1. Len(b) \in Nat /\ b[1] \in Nat /\ b[1] <= Len(b)
  <2>1. Len(b) \in Nat
    BY LenProperties
  <2>2. Len(b) >= 2
    BY <2>1 DEF Partial
  <2>3. b[1] \in Nat
    BY <2>1, <2>2, ElementOfSeq
  <2> QED
    BY <2>1, <2>3 DEF Partial
<1>2. Entry(b) \in Seq(Nat) /\ Len(Entry(b)) = b[1]
  <2>1. b[1] \in 0 .. Len(b)
    BY <1>1
  <2> QED
    BY <2>1, LeadingIs DEF Entry
<1>3. CanDeserialize(Entry(b)) => b[1] >= 3
  BY <1>2 DEF CanDeserialize
<1> QED
  BY <1>1, <1>2, <1>3, DeserializedIsReadable

(* The entry at a place is the first one behind it.                        *)
LEMMA AtPlace ==
  ASSUME NEW b \in Seq(Nat), NEW o \in 0 .. Len(b)
  PROVE  LET c == Behind(b, o)
         IN  /\ Partial(c) <=> Len(b) - o < 2 \/ Len(b) - o < b[o + 1]
             /\ ~Partial(c) => /\ c[1] = b[o + 1]
                               /\ SubSeq(b, o + 1, o + b[o + 1]) = Entry(c)
                               /\ o + c[1] \in 0 .. Len(b)
<1> DEFINE c == Behind(b, o)
<1>1. Len(b) \in Nat /\ c \in Seq(Nat) /\ Len(c) = Len(b) - o
      /\ \A i \in 1 .. Len(b) - o : c[i] = b[o + i]
  BY BehindIs, LenProperties
<1>2. Len(b) - o >= 2 => c[1] = b[o + 1]
  <2> HIDE DEF c
  <2>1. Len(b) - o >= 2 => 1 \in 1 .. Len(b) - o
    BY <1>1
  <2> QED
    BY <1>1, <2>1
<1>3. Partial(c) <=> Len(b) - o < 2 \/ Len(b) - o < b[o + 1]
  <2> HIDE DEF c
  <2>1. Len(b) - o < 2 \/ Len(b) - o >= 2
    BY <1>1
  <2> QED
    BY <1>1, <1>2, <2>1 DEF Partial
<1>4. ASSUME ~Partial(c)
      PROVE  /\ c[1] = b[o + 1]
             /\ SubSeq(b, o + 1, o + b[o + 1]) = Entry(c)
             /\ o + c[1] \in 0 .. Len(b)
  <2>1. c[1] = b[o + 1]
    BY <1>1, <1>2, <1>3, <1>4
  <2>2. c[1] \in 0 .. Len(b) - o
    <3> HIDE DEF c
    <3>1. c[1] \in Nat /\ c[1] <= Len(c)
      BY <1>1, <1>4, EntryFits
    <3> QED
      BY <1>1, <3>1
  <2>3. SubSeq(b, o + 1, o + c[1]) = Leading(c, c[1])
    <3> DEFINE n == c[1]
    <3>1. n \in 0 .. Len(b) - o
      BY <2>2
    <3> HIDE DEF n
    <3>2. SubSeq(b, o + 1, o + n) = Leading(Behind(b, o), n)
      BY <3>1, BehindBehind
    <3> QED
      BY <3>2 DEF n
  <2> HIDE DEF c
  <2>4. o + c[1] \in 0 .. Len(b)
    BY <1>1, <2>2
  <2> QED
    BY <2>1, <2>3, <2>4 DEF Entry
<1> QED
  BY <1>3, <1>4

(* There is a function for ReadEntries to choose, and all it finds is of   *)
(* one form.                                                               *)
LEMMA ReadingExists ==
  ASSUME NEW b \in Seq(Nat)
  PROVE  \E f \in [0 .. Len(b) -> Found] : IsReading(f, b)
<1> DEFINE N == Len(b)
           X == 0 .. N
           rank == [o \in X |-> N - o]
           entry(o) == SubSeq(b, o + 1, o + b[o + 1])
           none(o) == [votes |-> <<>>, rest |-> SubSeq(b, o + 1, Len(b)), threw |-> FALSE]
           part(o) == Len(b) - o < 2 \/ Len(b) - o < b[o + 1]
           D == [o \in X |-> [g \in [X -> Found] |->
                  IF part(o) THEN none(o)
                  ELSE IF ~CanDeserialize(entry(o))
                       THEN [votes |-> <<>>, rest |-> <<>>, threw |-> TRUE]
                       ELSE [g[o + Len(entry(o))] EXCEPT !.votes = <<DeserializeVote(entry(o))>> \o @]]]
<1>1. N \in Nat
  BY LenProperties
<1>2. ASSUME NEW o \in X
      PROVE  /\ none(o) \in Found
             /\ ~part(o) /\ CanDeserialize(entry(o)) =>
                  /\ o + Len(entry(o)) \in X /\ Len(entry(o)) >= 3 /\ Len(entry(o)) \in Nat
                  /\ DeserializeVote(entry(o)) \in Readable
  <2> DEFINE c == Behind(b, o)
  <2>1. c \in Seq(Nat)
    BY BehindIs
  <2>2. none(o) \in Found
    BY <2>1 DEF Found, Behind
  <2>3. ASSUME ~part(o), CanDeserialize(entry(o))
        PROVE  /\ o + Len(entry(o)) \in X /\ Len(entry(o)) >= 3 /\ Len(entry(o)) \in Nat
               /\ DeserializeVote(entry(o)) \in Readable
    <3>1. ~Partial(c) /\ entry(o) = Entry(c) /\ o + c[1] \in X
      BY <2>3, AtPlace
    <3> HIDE DEF c, X
    <3>2. /\ c[1] \in Nat /\ Len(Entry(c)) = c[1] /\ c[1] >= 3
          /\ DeserializeVote(Entry(c)) \in Readable
      BY <2>1, <2>3, <3>1, EntryFits
    <3> QED
      BY <3>1, <3>2
  <2> QED
    BY <2>2, <2>3
<1>3. ASSUME NEW v \in Readable, NEW t \in Found PROVE [t EXCEPT !.votes = <<v>> \o @] \in Found
  <2>1. <<v>> \in Seq(Readable) /\ t.votes \in Seq(Readable)
    BY DEF Found
  <2>2. <<v>> \o t.votes \in Seq(Readable)
    BY <2>1, ConcatProperties
  <2> DEFINE w == <<v>> \o t.votes
  <2>3. [t EXCEPT !.votes = <<v>> \o @] = [t EXCEPT !.votes = w]
    OBVIOUS
  <2> HIDE DEF w
  <2>4. w \in Seq(Readable)
    BY <2>2 DEF w
  <2> QED
    BY <2>3, <2>4 DEF Found
<1>4. [votes |-> <<>>, rest |-> <<>>, threw |-> TRUE] \in Found
  BY DEF Found
<1>5. rank \in [X -> 0 .. N] /\ N \in Nat
  BY <1>1
<1>6. ASSUME NEW o \in X, NEW g \in [X -> Found]
      PROVE  D[o][g] = IF part(o) THEN none(o)
                  ELSE IF ~CanDeserialize(entry(o))
                       THEN [votes |-> <<>>, rest |-> <<>>, threw |-> TRUE]
                       ELSE [g[o + Len(entry(o))] EXCEPT !.votes = <<DeserializeVote(entry(o))>> \o @]
  BY DEF D
<1>7. D \in [X -> [[X -> Found] -> Found]]
  <2>1. ASSUME NEW o \in X, NEW g \in [X -> Found] PROVE D[o][g] \in Found
    <3>1. CASE part(o)
      BY <1>2, <1>6, <3>1, Zenon
    <3>2. CASE ~part(o) /\ ~CanDeserialize(entry(o))
      BY <1>4, <1>6, <3>2, Zenon
    <3>3. CASE ~part(o) /\ CanDeserialize(entry(o))
      <4>1. g[o + Len(entry(o))] \in Found /\ DeserializeVote(entry(o)) \in Readable
        BY <1>2, <3>3
      <4> QED
        BY <1>3, <1>6, <3>3, <4>1, Zenon
    <3> QED
      BY <3>1, <3>2, <3>3
  <2>2. \A o \in X : D[o] = [g \in [X -> Found] |-> D[o][g]]
    OBVIOUS
  <2>3. D = [o \in X |-> D[o]]
    OBVIOUS
  <2> HIDE DEF D, X
  <2> QED
    BY <2>1, <2>2, <2>3
<1>8. ASSUME NEW g \in [X -> Found], NEW h \in [X -> Found], NEW o \in X,
             \A p \in X : rank[p] < rank[o] => g[p] = h[p]
      PROVE  D[o][g] = D[o][h]
  <2>1. CASE part(o) \/ ~CanDeserialize(entry(o))
    BY <1>6, <2>1, Zenon
  <2>2. CASE ~part(o) /\ CanDeserialize(entry(o))
    <3> DEFINE p == o + Len(entry(o))
    <3>1. p \in X /\ Len(entry(o)) >= 3 /\ Len(entry(o)) \in Nat
      BY <1>2, <2>2
    <3>2. rank[p] < rank[o]
      <4> DEFINE l == Len(entry(o))
      <4>1. l \in Nat /\ l >= 3 /\ o + l \in X
        BY <3>1
      <4> HIDE DEF l
      <4>2. N - (o + l) < N - o /\ rank[o + l] = N - (o + l) /\ rank[o] = N - o
        BY <4>1, <1>1
      <4> QED
        BY <4>2 DEF l
    <3>3. g[p] = h[p]
      BY <1>8, <3>1, <3>2
    <3> QED
      BY <1>6, <3>3, Zenon
  <2> QED
    BY <2>1, <2>2
<1>9. \E f : Follows(f, D, X, Found)
  <2> HIDE DEF X, D, rank, N
  <2>1. Found # {}
    BY <1>4
  <2>2. IsRecursion(D, X, Found, rank, N)
    BY <1>5, <1>7, <1>8, <2>1 DEF IsRecursion
  <2> QED
    BY <2>2, Recursion
<1>10. PICK f : f \in [X -> Found] /\ \A o \in X : f[o] = D[o][f]
  BY <1>9 DEF Follows
<1>11. f = [o \in X |-> D[o][f]]
  <2> HIDE DEF D
  <2> QED
    BY <1>10
<1>12. IsReading(f, b)
  <2>1. f = [o \in X |-> IF part(o) THEN none(o)
                  ELSE IF ~CanDeserialize(entry(o))
                       THEN [votes |-> <<>>, rest |-> <<>>, threw |-> TRUE]
                       ELSE [f[o + Len(entry(o))] EXCEPT !.votes = <<DeserializeVote(entry(o))>> \o @]]
    <3>1. \A o \in X : D[o][f] = IF part(o) THEN none(o)
                  ELSE IF ~CanDeserialize(entry(o))
                       THEN [votes |-> <<>>, rest |-> <<>>, threw |-> TRUE]
                       ELSE [f[o + Len(entry(o))] EXCEPT !.votes = <<DeserializeVote(entry(o))>> \o @]
      BY <1>6, <1>10
    <3> HIDE DEF D
    <3> QED
      BY <1>11, <3>1, Zenon
  <2> QED
    BY <2>1, Zenon DEF IsReading
<1> QED
  BY <1>10, <1>12

(* The functions of all buffers find the same behind the same.             *)
LEMMA ReadingFinds ==
  ASSUME NEW b \in Seq(Nat), NEW f, IsReading(f, b)
  PROVE  FindsBehind(f, b)
<1> SUFFICES ASSUME NEW o \in 0 .. Len(b)
             PROVE  LET c == Behind(b, o)
                    IN  /\ Partial(c) => f[o] = [votes |-> <<>>, rest |-> c, threw |-> FALSE]
                        /\ ~Partial(c) /\ ~CanDeserialize(Entry(c)) =>
                             f[o] = [votes |-> <<>>, rest |-> <<>>, threw |-> TRUE]
                        /\ ~Partial(c) /\ CanDeserialize(Entry(c)) =>
                             f[o] = WithVote(DeserializeVote(Entry(c)), f[o + c[1]])
  BY DEF FindsBehind
<1> DEFINE c == Behind(b, o)
           entry == SubSeq(b, o + 1, o + b[o + 1])
           part == Len(b) - o < 2 \/ Len(b) - o < b[o + 1]
<1>1. f[o] = IF part THEN [votes |-> <<>>, rest |-> SubSeq(b, o + 1, Len(b)), threw |-> FALSE]
             ELSE IF ~CanDeserialize(entry)
                  THEN [votes |-> <<>>, rest |-> <<>>, threw |-> TRUE]
                  ELSE [f[o + Len(entry)] EXCEPT !.votes = <<DeserializeVote(entry)>> \o @]
  BY Zenon DEF IsReading
<1>2. /\ Partial(c) <=> part
      /\ ~Partial(c) => c[1] = b[o + 1] /\ entry = Entry(c) /\ Len(Entry(c)) = c[1]
  <2>1. c \in Seq(Nat)
    BY BehindIs
  <2>2. ~Partial(c) => Len(Entry(c)) = c[1]
    <3> HIDE DEF c
    <3> QED
      BY <2>1, EntryFits
  <2> QED
    BY <2>2, AtPlace
<1>3. SubSeq(b, o + 1, Len(b)) = c
  BY DEF Behind
<1> HIDE DEF c, entry, part
<1>4. Partial(c) => f[o] = [votes |-> <<>>, rest |-> c, threw |-> FALSE]
  BY <1>1, <1>2, <1>3, Zenon
<1>5. ~Partial(c) /\ ~CanDeserialize(Entry(c)) =>
        f[o] = [votes |-> <<>>, rest |-> <<>>, threw |-> TRUE]
  BY <1>1, <1>2, Zenon
<1>6. ~Partial(c) /\ CanDeserialize(Entry(c)) =>
        f[o] = WithVote(DeserializeVote(Entry(c)), f[o + c[1]])
  BY <1>1, <1>2, Zenon DEF WithVote
<1> QED
  BY <1>4, <1>5, <1>6, Zenon DEF c

(* With the same cells behind it, a place gives the same in any two        *)
(* buffers.                                                                *)
LEMMA SameBehind ==
  ASSUME NEW b \in Seq(Nat), NEW c \in Seq(Nat), NEW f, NEW g, FindsBehind(f, b), FindsBehind(g, c),
         NEW o \in 0 .. Len(b), NEW p \in 0 .. Len(c), Behind(b, o) = Behind(c, p)
  PROVE  f[o] = g[p]
<1> DEFINE P == {n \in Nat : \A i \in 0 .. Len(b), j \in 0 .. Len(c) :
                   Len(b) - i = n /\ Behind(b, i) = Behind(c, j) => f[i] = g[j]}
<1>1. Len(b) \in Nat /\ Len(c) \in Nat
  BY LenProperties
<1>2. ASSUME NEW n \in Nat, \A m \in 0 .. n - 1 : m \in P PROVE n \in P
  <2> SUFFICES ASSUME NEW i \in 0 .. Len(b), NEW j \in 0 .. Len(c),
                      Len(b) - i = n, Behind(b, i) = Behind(c, j)
               PROVE  f[i] = g[j]
    OBVIOUS
  <2> DEFINE d == Behind(b, i)
  <2>1. /\ Partial(d) => f[i] = [votes |-> <<>>, rest |-> d, threw |-> FALSE]
        /\ ~Partial(d) /\ ~CanDeserialize(Entry(d)) =>
             f[i] = [votes |-> <<>>, rest |-> <<>>, threw |-> TRUE]
        /\ ~Partial(d) /\ CanDeserialize(Entry(d)) =>
             f[i] = WithVote(DeserializeVote(Entry(d)), f[i + d[1]])
    BY DEF FindsBehind
  <2>2. /\ Partial(d) => g[j] = [votes |-> <<>>, rest |-> d, threw |-> FALSE]
        /\ ~Partial(d) /\ ~CanDeserialize(Entry(d)) =>
             g[j] = [votes |-> <<>>, rest |-> <<>>, threw |-> TRUE]
        /\ ~Partial(d) /\ CanDeserialize(Entry(d)) =>
             g[j] = WithVote(DeserializeVote(Entry(d)), g[j + d[1]])
    BY DEF FindsBehind
  <2>3. d \in Seq(Nat) /\ Len(d) = Len(b) - i /\ Len(d) = Len(c) - j
    BY BehindIs
  <2>4. d = Behind(b, i) /\ d = Behind(c, j)
    OBVIOUS
  <2> HIDE DEF d
  <2>5. ASSUME ~Partial(d), CanDeserialize(Entry(d)) PROVE f[i + d[1]] = g[j + d[1]]
    <3>1. d[1] \in Nat /\ d[1] <= Len(d) /\ d[1] >= 3
      BY <2>3, <2>5, EntryFits
    <3> DEFINE s == d[1]
    <3>2. s \in 0 .. Len(b) - i /\ s \in 0 .. Len(c) - j
      BY <2>3, <3>1
    <3> HIDE DEF s
    <3>3. i + s \in 0 .. Len(b) /\ j + s \in 0 .. Len(c)
      BY <3>2, <1>1
    <3>4. Behind(b, i + s) = Behind(d, s) /\ Behind(c, j + s) = Behind(d, s)
      <4>1. Behind(Behind(b, i), s) = Behind(b, i + s)
        BY <3>2, BehindBehind
      <4>2. Behind(Behind(c, j), s) = Behind(c, j + s)
        BY <3>2, BehindBehind
      <4> QED
        BY <2>4, <4>1, <4>2
    <3>5. Len(b) - (i + s) \in 0 .. n - 1
      <4>1. s >= 3 /\ s \in Nat
        BY <3>1 DEF s
      <4> HIDE DEF P
      <4> QED
        BY <1>1, <4>1, <3>2
    <3>6. Len(b) - (i + s) \in P
      BY <1>2, <3>5
    <3>7. f[i + s] = g[j + s]
      BY <3>3, <3>4, <3>6
    <3> QED
      BY <3>7 DEF s
  <2> QED
    BY <2>1, <2>2, <2>5
<1>3. \A n \in Nat : n \in P
  <2> HIDE DEF P
  <2> QED
    BY <1>2, StrongInduction
<1>4. Len(b) - o \in P
  <2> HIDE DEF P
  <2>1. Len(b) - o \in Nat
    BY <1>1
  <2> QED
    BY <1>3, <2>1
<1> QED
  BY <1>4

(* ReadEntries step by step: the first entry, and what is behind it.       *)
Reads(b) ==
  /\ ReadEntries(b) \in Found
  /\ Partial(b) => ReadEntries(b) = [votes |-> <<>>, rest |-> b, threw |-> FALSE]
  /\ ~Partial(b) /\ ~CanDeserialize(Entry(b)) =>
       ReadEntries(b) = [votes |-> <<>>, rest |-> <<>>, threw |-> TRUE]
  /\ ~Partial(b) /\ CanDeserialize(Entry(b)) =>
       ReadEntries(b) = WithVote(DeserializeVote(Entry(b)), ReadEntries(Behind(b, b[1])))

(* So the loop can be followed entry by entry, each time on the buffer     *)
(* that is left.                                                           *)
LEMMA ReadsStepByStep ==
  ASSUME NEW b \in Seq(Nat)
  PROVE  Reads(b)
<1>1. ASSUME NEW c \in Seq(Nat)
      PROVE  \E f : FindsBehind(f, c) /\ ReadEntries(c) = f[0] /\ f[0] \in Found
  <2>1. PICK g \in [0 .. Len(c) -> Found] : IsReading(g, c)
    BY ReadingExists
  <2>2. PICK f : IsReading(f, c) /\ ReadEntries(c) = f[0]
    BY <2>1, ReadByDefinition
  <2>3. FindsBehind(f, c) /\ FindsBehind(g, c)
    BY <2>1, <2>2, ReadingFinds
  <2>4. 0 \in 0 .. Len(c)
    BY LenProperties
  <2>5. f[0] = g[0]
    BY <2>3, <2>4, SameBehind
  <2> QED
    BY <2>1, <2>2, <2>3, <2>4, <2>5
<1>2. PICK f : FindsBehind(f, b) /\ ReadEntries(b) = f[0] /\ f[0] \in Found
  BY <1>1
<1>3. 0 \in 0 .. Len(b) /\ Behind(b, 0) = b
  BY LenProperties, BehindNothing
<1>4. /\ Partial(b) => f[0] = [votes |-> <<>>, rest |-> b, threw |-> FALSE]
      /\ ~Partial(b) /\ ~CanDeserialize(Entry(b)) =>
           f[0] = [votes |-> <<>>, rest |-> <<>>, threw |-> TRUE]
      /\ ~Partial(b) /\ CanDeserialize(Entry(b)) =>
           f[0] = WithVote(DeserializeVote(Entry(b)), f[0 + b[1]])
  BY <1>2, <1>3 DEF FindsBehind
<1>5. ASSUME ~Partial(b), CanDeserialize(Entry(b))
      PROVE  f[0 + b[1]] = ReadEntries(Behind(b, b[1]))
  <2> DEFINE s == b[1]
             c == Behind(b, s)
  <2>1. s \in 0 .. Len(b) /\ 0 + s = s
    BY <1>5, EntryFits
  <2> HIDE DEF s
  <2>2. c \in Seq(Nat) /\ 0 \in 0 .. Len(c)
    BY <2>1, BehindIs, LenProperties
  <2>3. PICK g : FindsBehind(g, c) /\ ReadEntries(c) = g[0]
    BY <1>1, <2>2
  <2>4. Behind(b, s) = Behind(c, 0)
    BY <2>2, BehindNothing
  <2> HIDE DEF c
  <2>5. f[s] = g[0]
    BY <1>2, <2>1, <2>2, <2>3, <2>4, SameBehind
  <2> QED
    BY <2>1, <2>3, <2>5 DEF s, c
<1> QED
  BY <1>2, <1>4, <1>5 DEF Reads

-----------------------------------------------------------------------------
(* Where a buffer is cut does not matter: what is found in it whole is     *)
(* what is found in its front, and then in the rest with what is behind.   *)
InPieces(b, x) ==
  LET r == ReadEntries(b)
      s == ReadEntries(r.rest \o x)
      w == ReadEntries(b \o x)
  IN  /\ ~r.threw => w.votes = r.votes \o s.votes /\ w.rest = s.rest /\ w.threw = s.threw
      /\ r.threw => w.threw /\ w.votes = r.votes

(* One vote more in front leaves the rest as it is. *)
LEMMA WithVoteIs ==
  ASSUME NEW v, NEW t \in Found
  PROVE  /\ WithVote(v, t).votes = <<v>> \o t.votes
         /\ WithVote(v, t).rest = t.rest /\ WithVote(v, t).threw = t.threw
  BY DEF WithVote, Found

(* Three lots of votes, in order. *)
LEMMA VotesAssociate ==
  ASSUME NEW r \in Seq(Readable), NEW s \in Seq(Readable), NEW t \in Seq(Readable)
  PROVE  (r \o s) \o t = r \o (s \o t)
  BY ConcatAssociative

(* By induction on the length: the entry in front is read first, whole or  *)
(* cut.                                                                    *)
LEMMA ReadInPieces ==
  ASSUME NEW a \in Seq(Nat), NEW x \in Seq(Nat)
  PROVE  InPieces(a, x)
<1> DEFINE P == {n \in Nat : \A b \in Seq(Nat) : Len(b) = n => InPieces(b, x)}
<1>1. ASSUME NEW n \in Nat, \A m \in 0 .. n - 1 : m \in P PROVE n \in P
  <2> SUFFICES ASSUME NEW b \in Seq(Nat), Len(b) = n PROVE InPieces(b, x)
    OBVIOUS
  <2> DEFINE c == b \o x
  <2>1. Reads(b) /\ Reads(c) /\ c \in Seq(Nat) /\ ReadEntries(c) \in Found
    <3>1. c \in Seq(Nat)
      BY ConcatProperties
    <3> QED
      BY <3>1, ReadsStepByStep DEF Reads
  <2>2. CASE Partial(b)
    <3>1. ReadEntries(b) = [votes |-> <<>>, rest |-> b, threw |-> FALSE]
      BY <2>1, <2>2 DEF Reads
    <3>2. ReadEntries(c).votes \in Seq(Readable)
      BY <2>1 DEF Found
    <3> DEFINE w == ReadEntries(c)
               v == w.votes
    <3>3. <<>> \o v = v
      BY <3>2, ConcatEmptySeq
    <3>4. /\ ReadEntries(b).rest = b /\ ReadEntries(b).votes = <<>> /\ ReadEntries(b).threw = FALSE
      BY <3>1
    <3> QED
      BY <3>3, <3>4 DEF InPieces
  <2>3. CASE ~Partial(b)
    <3> DEFINE s == b[1]
    <3>1. /\ Len(b) \in Nat /\ s \in Nat /\ s <= Len(b) /\ 2 <= Len(b)
          /\ CanDeserialize(Entry(b)) => s >= 3 /\ DeserializeVote(Entry(b)) \in Readable
      BY <2>3, EntryFits DEF Partial
    <3>2. c[1] = s /\ Len(c) = Len(b) + Len(x) /\ Len(x) \in Nat
      <4>1. /\ Len(c) = Len(b) + Len(x)
            /\ \A i \in 1 .. Len(b) + Len(x) : c[i] = IF i <= Len(b) THEN b[i] ELSE x[i - Len(b)]
        BY ConcatProperties
      <4>2. Len(x) \in Nat
        BY LenProperties
      <4> HIDE DEF c
      <4>3. 1 \in 1 .. Len(b) + Len(x) /\ 1 <= Len(b)
        BY <3>1, <4>2
      <4> QED
        BY <4>1, <4>2, <4>3
    <3>3. ~Partial(c)
      BY <3>1, <3>2 DEF Partial
    <3>4. s \in 0 .. Len(b)
      BY <3>1
    <3> HIDE DEF s, c
    <3>5. Entry(c) = Entry(b) /\ Behind(c, s) = Behind(b, s) \o x
      BY <3>2, <3>4, PartsOfConcat DEF Entry, c, s
    <3>6. CASE ~CanDeserialize(Entry(b))
      <4>1. /\ ReadEntries(b) = [votes |-> <<>>, rest |-> <<>>, threw |-> TRUE]
            /\ ReadEntries(c) = [votes |-> <<>>, rest |-> <<>>, threw |-> TRUE]
        BY <2>1, <2>3, <3>3, <3>5, <3>6 DEF Reads
      <4> QED
        BY <4>1 DEF InPieces, c
    <3>7. CASE CanDeserialize(Entry(b))
      <4> DEFINE v == DeserializeVote(Entry(b))
                 d == Behind(b, s)
                 t == ReadEntries(d)
                 u == ReadEntries(d \o x)
                 z == ReadEntries(t.rest \o x)
                 r == ReadEntries(b)
                 w == ReadEntries(c)
      <4>1. d \in Seq(Nat) /\ Len(d) = Len(b) - s
        BY <3>4, BehindIs
      <4>2. InPieces(d, x)
        <5>1. Len(d) \in 0 .. n - 1
          BY <3>1, <3>7, <4>1
        <5> QED
          BY <1>1, <4>1, <5>1
      <4>3. r = WithVote(v, t) /\ w = WithVote(v, u)
        BY <2>1, <2>3, <3>2, <3>3, <3>5, <3>7 DEF Reads, s
      <4>4. d \o x \in Seq(Nat)
        BY <4>1, ConcatProperties
      <4>5. t \in Found /\ u \in Found
        BY <4>1, <4>4, ReadsStepByStep DEF Reads
      <4>6. t.rest \o x \in Seq(Nat)
        <5>1. t.rest \in Seq(Nat)
          BY <4>5 DEF Found
        <5> HIDE DEF t
        <5> QED
          BY <5>1, ConcatProperties
      <4>7. z \in Found
        BY <4>6, ReadsStepByStep DEF Reads
      <4>8. /\ t.votes \in Seq(Readable) /\ u.votes \in Seq(Readable) /\ z.votes \in Seq(Readable)
            /\ <<v>> \in Seq(Readable) /\ t.threw \in BOOLEAN
        BY <3>1, <3>7, <4>5, <4>7 DEF Found
      <4>9. /\ ~t.threw => u.votes = t.votes \o z.votes /\ u.rest = z.rest /\ u.threw = z.threw
            /\ t.threw => u.threw /\ u.votes = t.votes
        BY <4>2 DEF InPieces
      <4> HIDE DEF v, d, t, u, z, r, w
      <4>10. /\ r.votes = <<v>> \o t.votes /\ r.rest = t.rest /\ r.threw = t.threw
             /\ w.votes = <<v>> \o u.votes /\ w.rest = u.rest /\ w.threw = u.threw
        BY <4>3, <4>5, WithVoteIs
      <4>11. (<<v>> \o t.votes) \o z.votes = <<v>> \o (t.votes \o z.votes)
        <5> DEFINE one == <<v>>
                   tv == t.votes
                   zv == z.votes
        <5>1. one \in Seq(Readable) /\ tv \in Seq(Readable) /\ zv \in Seq(Readable)
          BY <4>8
        <5> HIDE DEF one, tv, zv
        <5>2. (one \o tv) \o zv = one \o (tv \o zv)
          BY <5>1, VotesAssociate
        <5> QED
          BY <5>2 DEF one, tv, zv
      <4>12. z = ReadEntries(r.rest \o x)
        BY <4>10 DEF z
      <4>13. /\ ~r.threw => w.votes = r.votes \o z.votes /\ w.rest = z.rest /\ w.threw = z.threw
             /\ r.threw => w.threw /\ w.votes = r.votes
        BY <4>9, <4>10, <4>11, Zenon
      <4> QED
        BY <4>12, <4>13, Zenon DEF InPieces, r, w, c
    <3> QED
      BY <3>6, <3>7
  <2> QED
    BY <2>2, <2>3
<1>2. \A n \in Nat : n \in P
  <2> HIDE DEF P
  <2> QED
    BY <1>1, StrongInduction
<1>3. Len(a) \in P
  <2>1. Len(a) \in Nat
    BY LenProperties
  <2> HIDE DEF P
  <2> QED
    BY <1>2, <2>1
<1> QED
  BY <1>3

(* A sequence is a prefix of what has it in front.                         *)
LEMMA FrontIsPrefix ==
  ASSUME NEW T, NEW s \in Seq(T), NEW t \in Seq(T)
  PROVE  IsPrefix(s, s \o t)
<1>1. Len(s) \in Nat /\ Len(t) \in Nat /\ Len(s \o t) = Len(s) + Len(t)
  BY LenProperties, ConcatProperties
<1>2. Leading(s \o t, Len(s)) = Leading(s, Len(s))
  BY <1>1, PartsOfConcat
<1>3. SubSeq(s \o t, 1, Len(s)) = SubSeq(s, 1, Len(s))
  BY <1>2 DEF Leading
<1>4. Len(s) <= Len(s \o t)
  BY <1>1
<1> QED
  BY <1>3, <1>4 DEF IsPrefix

(* The votes a replay would yield are only ever extended.                  *)
LEMMA VotesAreExtended ==
  ASSUME NEW b \in Seq(Nat), NEW x \in Seq(Nat)
  PROVE  IsPrefix(ReadEntries(b).votes, ReadEntries(b \o x).votes)
<1> DEFINE r == ReadEntries(b)
           s == ReadEntries(r.rest \o x)
           w == ReadEntries(b \o x)
<1>1. r \in Found
  BY ReadsStepByStep DEF Reads
<1>2. r.rest \in Seq(Nat) /\ r.votes \in Seq(Readable) /\ r.threw \in BOOLEAN
  BY <1>1 DEF Found
<1>3. s.votes \in Seq(Readable)
  <2>1. r.rest \o x \in Seq(Nat)
    BY <1>2, ConcatProperties
  <2>2. s \in Found
    BY <2>1, ReadsStepByStep DEF Reads
  <2> QED
    BY <2>2 DEF Found
<1>4. w.votes = r.votes \o s.votes \/ w.votes = r.votes
  BY <1>2, ReadInPieces DEF InPieces
<1> HIDE DEF r, s, w
<1>5. IsPrefix(r.votes, r.votes)
  <2>1. Len(r.votes) \in Nat
    BY <1>2, LenProperties
  <2> QED
    BY <2>1 DEF IsPrefix
<1>6. IsPrefix(r.votes, w.votes)
  BY <1>2, <1>3, <1>4, <1>5, FrontIsPrefix
<1> QED
  BY <1>6 DEF r, w

-----------------------------------------------------------------------------
(* Entries.                                                                *)
IsFlattening(f, seqs) ==
  f = [i \in 1 .. Len(seqs) |-> IF i = 1 THEN seqs[i] ELSE f[i - 1] \o seqs[i]]

(* FlattenSeq is the last value of such a function, if there is one. *)
LEMMA FlattenByDefinition ==
  ASSUME NEW seqs, Len(seqs) # 0, \E f : IsFlattening(f, seqs)
  PROVE  \E f : IsFlattening(f, seqs) /\ FlattenSeq(seqs) = f[Len(seqs)]
<1> DEFINE F == CHOOSE f : IsFlattening(f, seqs)
<1>1. FlattenSeq(seqs) = F[Len(seqs)]
  BY Zenon DEF FlattenSeq, IsFlattening
<1>2. IsFlattening(F, seqs)
  BY Zenon
<1> QED
  BY <1>1, <1>2, Zenon

(* There is one. *)
LEMMA FlatteningExists ==
  ASSUME NEW seqs \in Seq(Seq(Nat))
  PROVE  \E f : IsFlattening(f, seqs)
<1> DEFINE N == Len(seqs)
           X == 1 .. N
           V == Seq(Nat)
           rank == [i \in X |-> i]
           D == [i \in X |-> [g \in [X -> V] |-> IF i = 1 THEN seqs[i] ELSE g[i - 1] \o seqs[i]]]
<1>1. N \in Nat
  BY LenProperties
<1>2. ASSUME NEW i \in X, NEW g \in [X -> V]
      PROVE  D[i][g] = IF i = 1 THEN seqs[i] ELSE g[i - 1] \o seqs[i]
  BY DEF D
<1>3. ASSUME NEW i \in X PROVE seqs[i] \in V /\ (i # 1 => i - 1 \in X)
  BY <1>1, ElementOfSeq
<1>4. D \in [X -> [[X -> V] -> V]]
  <2>1. ASSUME NEW i \in X, NEW g \in [X -> V] PROVE D[i][g] \in V
    <3>1. CASE i = 1
      BY <1>2, <1>3, <3>1
    <3>2. CASE i # 1
      <4>1. g[i - 1] \in V /\ seqs[i] \in V
        BY <1>3, <3>2
      <4>2. g[i - 1] \o seqs[i] \in V
        BY <4>1, ConcatProperties
      <4> QED
        BY <1>2, <3>2, <4>2, Zenon
    <3> QED
      BY <3>1, <3>2
  <2>2. \A i \in X : D[i] = [g \in [X -> V] |-> D[i][g]]
    OBVIOUS
  <2>3. D = [i \in X |-> D[i]]
    OBVIOUS
  <2> HIDE DEF D, X, V
  <2> QED
    BY <2>1, <2>2, <2>3
<1>5. ASSUME NEW g \in [X -> V], NEW h \in [X -> V], NEW i \in X,
             \A j \in X : rank[j] < rank[i] => g[j] = h[j]
      PROVE  D[i][g] = D[i][h]
  <2>1. CASE i = 1
    BY <1>2, <2>1
  <2>2. CASE i # 1
    <3>1. i - 1 \in X /\ rank[i - 1] < rank[i]
      BY <1>3, <2>2
    <3>2. g[i - 1] = h[i - 1]
      BY <1>5, <3>1
    <3> QED
      BY <1>2, <2>2, <3>2, Zenon
  <2> QED
    BY <2>1, <2>2
<1>6. \E f : Follows(f, D, X, V)
  <2>1. rank \in [X -> 0 .. N]
    BY <1>1
  <2>2. V # {}
    BY EmptySeq
  <2> HIDE DEF X, V, D, rank, N
  <2>3. IsRecursion(D, X, V, rank, N)
    BY <1>1, <1>4, <1>5, <2>1, <2>2 DEF IsRecursion
  <2> QED
    BY <2>3, Recursion
<1>7. PICK f : f \in [X -> V] /\ \A i \in X : f[i] = D[i][f]
  BY <1>6 DEF Follows
<1>8. \A i \in X : f[i] = IF i = 1 THEN seqs[i] ELSE f[i - 1] \o seqs[i]
  BY <1>2, <1>7
<1>9. f = [i \in X |-> f[i]]
  BY <1>7
<1> HIDE DEF D
<1>10. f = [i \in X |-> IF i = 1 THEN seqs[i] ELSE f[i - 1] \o seqs[i]]
  BY <1>8, <1>9, Zenon
<1> QED
  BY <1>10, Zenon DEF IsFlattening

(* What flattening gives: cells, and of one-cell sequences these cells.    *)
LEMMA FlattenIs ==
  ASSUME NEW seqs \in Seq(Seq(Nat))
  PROVE  /\ FlattenSeq(seqs) \in Seq(Nat)
         /\ seqs \in Seq(OneCell) =>
              /\ Len(FlattenSeq(seqs)) = Len(seqs)
              /\ \A i \in 1 .. Len(seqs) : seqs[i] = <<FlattenSeq(seqs)[i]>>
<1>1. Len(seqs) \in Nat
  BY LenProperties
<1>2. CASE Len(seqs) = 0
  <2>1. seqs = <<>>
    BY <1>2, EmptySeq
  <2>2. FlattenSeq(seqs) = seqs
    BY <1>2 DEF FlattenSeq
  <2>3. FlattenSeq(seqs) = <<>> /\ <<>> \in Seq(Nat) /\ Len(<<>>) = 0
    BY <2>1, <2>2, EmptySeq
  <2>4. 1 .. Len(seqs) = {}
    BY <1>2
  <2> QED
    BY <1>2, <2>3, <2>4, Zenon
<1>3. CASE Len(seqs) # 0
  <2>1. PICK f : IsFlattening(f, seqs) /\ FlattenSeq(seqs) = f[Len(seqs)]
    BY <1>3, FlatteningExists, FlattenByDefinition
  <2>2. \A i \in 1 .. Len(seqs) : f[i] = IF i = 1 THEN seqs[i] ELSE f[i - 1] \o seqs[i]
    BY <2>1 DEF IsFlattening
  <2> DEFINE Flat(i) == /\ f[i] \in Seq(Nat)
                        /\ seqs \in Seq(OneCell) =>
                             Len(f[i]) = i /\ \A j \in 1 .. i : seqs[j] = <<f[i][j]>>
             P == {n \in Nat : n \in 1 .. Len(seqs) => Flat(n)}
  <2>3. 0 \in P
    OBVIOUS
  <2>4. ASSUME NEW n \in Nat, n \in P PROVE n + 1 \in P
    <3> SUFFICES ASSUME n + 1 \in 1 .. Len(seqs) PROVE Flat(n + 1)
      OBVIOUS
    <3>1. seqs[n + 1] \in Seq(Nat)
      BY ElementOfSeq
    <3>2. ASSUME seqs \in Seq(OneCell) PROVE Len(seqs[n + 1]) = 1 /\ seqs[n + 1] = <<seqs[n + 1][1]>>
      <4>1. seqs[n + 1] \in OneCell
        BY <3>2, ElementOfSeq
      <4> QED
        BY <4>1 DEF OneCell
    <3>3. CASE n = 0
      <4>1. f[n + 1] = seqs[n + 1]
        BY <2>2, <3>3
      <4> QED
        BY <3>1, <3>2, <3>3, <4>1
    <3>4. CASE n # 0
      <4> DEFINE s == f[n]
                 t == seqs[n + 1]
                 u == s \o t
      <4>1. n \in 1 .. Len(seqs) /\ Flat(n)
        BY <1>1, <2>4, <3>4
      <4>2. f[n + 1] = u
        <5>1. n + 1 # 1 /\ (n + 1) - 1 = n
          BY <3>4
        <5> QED
          BY <2>2, <5>1
      <4>3. s \in Seq(Nat) /\ t \in Seq(Nat)
        BY <3>1, <4>1
      <4>4. ASSUME seqs \in Seq(OneCell)
            PROVE  /\ Len(s) = n /\ \A j \in 1 .. n : seqs[j] = <<s[j]>>
                   /\ Len(t) = 1 /\ t = <<t[1]>>
        BY <3>2, <4>1, <4>4
      <4> HIDE DEF s
      <4>5. /\ u \in Seq(Nat) /\ Len(u) = Len(s) + Len(t)
            /\ \A i \in 1 .. Len(s) + Len(t) : u[i] = IF i <= Len(s) THEN s[i] ELSE t[i - Len(s)]
        BY <4>3, ConcatProperties
      <4>6. ASSUME seqs \in Seq(OneCell)
            PROVE  Len(u) = n + 1 /\ \A j \in 1 .. n + 1 : seqs[j] = <<u[j]>>
        <5> HIDE DEF u, t, P
        <5>1. Len(u) = n + 1
          BY <4>4, <4>5, <4>6
        <5>3. \A i \in 1 .. n + 1 : u[i] = IF i <= n THEN s[i] ELSE t[i - n]
          BY <4>4, <4>5, <4>6
        <5>2. ASSUME NEW j \in 1 .. n + 1 PROVE seqs[j] = <<u[j]>>
          <6>1. CASE j = n + 1
            <7>1. u[j] = t[1]
              <8>1. n + 1 \in 1 .. n + 1 /\ ~(n + 1 <= n) /\ (n + 1) - n = 1
                OBVIOUS
              <8> QED
                BY <5>3, <6>1, <8>1, Zenon
            <7>2. t = seqs[n + 1] /\ t = <<t[1]>>
              BY <4>4, <4>6 DEF t
            <7> QED
              BY <6>1, <7>1, <7>2
          <6>2. CASE j \in 1 .. n
            <7>1. u[j] = s[j]
              BY <5>3, <6>2
            <7> QED
              BY <4>4, <4>6, <6>2, <7>1
          <6> QED
            BY <6>1, <6>2
        <5> QED
          BY <5>1, <5>2
      <4> HIDE DEF u
      <4> QED
        BY <4>2, <4>5, <4>6
    <3> QED
      BY <3>3, <3>4
  <2>5. \A n \in Nat : n \in P
    <3> HIDE DEF P
    <3> QED
      BY <2>3, <2>4, NumbersInduction
  <2>6. Flat(Len(seqs))
    <3>1. Len(seqs) \in P /\ Len(seqs) \in 1 .. Len(seqs)
      <4>1. Len(seqs) \in 1 .. Len(seqs)
        BY <1>1, <1>3
      <4> HIDE DEF P
      <4> QED
        BY <1>1, <2>5, <4>1
    <3> QED
      BY <3>1
  <2> QED
    BY <2>1, <2>6
<1> QED
  BY <1>2, <1>3

(* An entry is the cells of its vote, its size first.                      *)
VoteType == [id : Seq(Nat), timestamp : Nat, values : Seq(Seq(Nat))]

Layout(e, v, flat) ==
  LET l == Len(v.id)
      n == Len(flat)
  IN  /\ e \in Seq(Nat) /\ Len(e) = (4 + l) + n
      /\ e[1] = Len(e) /\ e[2] = v.timestamp /\ e[3] = l /\ e[4 + l] = Len(v.values)
      /\ \A i \in 1 .. l : e[3 + i] = v.id[i]
      /\ \A i \in 1 .. n : e[(4 + l) + i] = flat[i]

Joined(u, s, t) ==
  /\ u \in Seq(Nat) /\ Len(u) = Len(s) + Len(t)
  /\ \A i \in 1 .. Len(s) + Len(t) : u[i] = IF i <= Len(s) THEN s[i] ELSE t[i - Len(s)]

(* Two sequences behind each other. *)
LEMMA JoinedIs ==
  ASSUME NEW s \in Seq(Nat), NEW t \in Seq(Nat)
  PROVE  Joined(s \o t, s, t)
  BY ConcatProperties DEF Joined

(* serializeVote writes the fields at these places. *)
LEMMA SerializedLayout ==
  ASSUME NEW v \in VoteType
  PROVE  Layout(SerializeVote(v), v, FlattenSeq(v.values))
<1> DEFINE id == v.id
           flat == FlattenSeq(v.values)
           l == Len(id)
           n == Len(flat)
           two == <<v.timestamp, Len(v.id)>>
           count == <<Len(v.values)>>
           a == two \o id
           c == a \o count
           body == c \o flat
           size == <<Len(body) + 1>>
           e == size \o body
<1>1. /\ id \in Seq(Nat) /\ v.timestamp \in Nat /\ flat \in Seq(Nat) /\ v.values \in Seq(Seq(Nat))
      /\ l \in Nat /\ n \in Nat /\ Len(v.values) \in Nat
  <2>1. id \in Seq(Nat) /\ v.timestamp \in Nat /\ v.values \in Seq(Seq(Nat))
    BY DEF VoteType
  <2>2. flat \in Seq(Nat)
    BY <2>1, FlattenIs
  <2> QED
    BY <2>1, <2>2, LenProperties
<1>2. two \in Seq(Nat) /\ Len(two) = 2 /\ two[1] = v.timestamp /\ two[2] = l
  BY <1>1
<1>3. count \in Seq(Nat) /\ Len(count) = 1 /\ count[1] = Len(v.values)
  BY <1>1
<1>4. SerializeVote(v) = e
  BY Zenon DEF SerializeVote
<1> HIDE DEF two, count, flat, l, n, id
<1>6. /\ a \in Seq(Nat) /\ Len(a) = 2 + l
      /\ \A i \in 1 .. 2 + l : a[i] = IF i <= 2 THEN two[i] ELSE id[i - 2]
  <2>1. Joined(a, two, id)
    BY <1>1, <1>2, JoinedIs
  <2> HIDE DEF a
  <2> QED
    BY <1>1, <1>2, <2>1 DEF Joined, l
<1> HIDE DEF a
<1>7. /\ c \in Seq(Nat) /\ Len(c) = (2 + l) + 1
      /\ \A i \in 1 .. (2 + l) + 1 : c[i] = IF i <= 2 + l THEN a[i] ELSE count[i - (2 + l)]
  <2>1. Joined(c, a, count)
    BY <1>3, <1>6, JoinedIs
  <2> HIDE DEF c
  <2> QED
    BY <1>3, <1>6, <2>1 DEF Joined
<1> HIDE DEF c
<1>8. /\ body \in Seq(Nat) /\ Len(body) = ((2 + l) + 1) + n
      /\ \A i \in 1 .. ((2 + l) + 1) + n :
           body[i] = IF i <= (2 + l) + 1 THEN c[i] ELSE flat[i - ((2 + l) + 1)]
  <2>1. Joined(body, c, flat)
    BY <1>1, <1>7, JoinedIs
  <2> HIDE DEF body
  <2> QED
    BY <1>1, <1>7, <2>1 DEF Joined, n
<1> HIDE DEF body
<1>9. size \in Seq(Nat) /\ Len(size) = 1 /\ size[1] = Len(body) + 1
  <2>1. Len(body) + 1 \in Nat
    BY <1>1, <1>8
  <2> QED
    BY <2>1
<1> HIDE DEF size
<1>10. /\ e \in Seq(Nat) /\ Len(e) = 1 + Len(body)
       /\ \A i \in 1 .. 1 + Len(body) : e[i] = IF i <= 1 THEN size[i] ELSE body[i - 1]
  <2>1. Joined(e, size, body)
    BY <1>8, <1>9, JoinedIs
  <2> HIDE DEF e
  <2> QED
    BY <1>8, <1>9, <2>1 DEF Joined
<1> HIDE DEF e
<1>11. Len(e) = (4 + l) + n /\ Len(body) = (3 + l) + n
  BY <1>1, <1>8, <1>10
<1>12. e[1] = Len(e)
  BY <1>1, <1>9, <1>10, <1>11
<1>13. /\ \A i \in 1 .. 2 + l : e[i + 1] = IF i <= 2 THEN two[i] ELSE id[i - 2]
       /\ e[4 + l] = Len(v.values)
       /\ \A i \in 1 .. n : e[(4 + l) + i] = flat[i]
  <2>1. ASSUME NEW i \in 1 .. (3 + l) + n PROVE e[i + 1] = body[i]
    <3>1. i + 1 \in 1 .. 1 + Len(body) /\ ~(i + 1 <= 1) /\ (i + 1) - 1 = i
      BY <1>1, <1>11
    <3> QED
      BY <1>10, <3>1
  <2>2. ASSUME NEW i \in 1 .. 2 + l PROVE e[i + 1] = IF i <= 2 THEN two[i] ELSE id[i - 2]
    <3>1. /\ i \in 1 .. (3 + l) + n /\ i \in 1 .. ((2 + l) + 1) + n /\ i <= (2 + l) + 1
          /\ i \in 1 .. (2 + l) + 1 /\ i <= 2 + l
      BY <1>1
    <3>2. body[i] = c[i]
      BY <1>8, <3>1
    <3>3. c[i] = a[i]
      BY <1>7, <3>1
    <3> QED
      BY <1>6, <2>1, <3>1, <3>2, <3>3
  <2>3. e[4 + l] = Len(v.values)
    <3> DEFINE i == 3 + l
    <3>1. /\ i \in 1 .. (3 + l) + n /\ i \in 1 .. ((2 + l) + 1) + n /\ i <= (2 + l) + 1
          /\ i \in 1 .. (2 + l) + 1 /\ ~(i <= 2 + l) /\ i - (2 + l) = 1 /\ i + 1 = 4 + l
      BY <1>1
    <3> HIDE DEF i
    <3>2. e[i + 1] = body[i] /\ body[i] = c[i] /\ c[i] = count[1]
      BY <1>7, <1>8, <2>1, <3>1
    <3> QED
      BY <1>3, <3>1, <3>2
  <2>4. ASSUME NEW i \in 1 .. n PROVE e[(4 + l) + i] = flat[i]
    <3> DEFINE j == (3 + l) + i
    <3>1. /\ j \in 1 .. (3 + l) + n /\ j \in 1 .. ((2 + l) + 1) + n /\ ~(j <= (2 + l) + 1)
          /\ j - ((2 + l) + 1) = i /\ j + 1 = (4 + l) + i
      BY <1>1
    <3> HIDE DEF j
    <3>2. e[j + 1] = body[j] /\ body[j] = flat[i]
      BY <1>8, <2>1, <3>1
    <3> QED
      BY <3>1, <3>2
  <2> QED
    BY <2>2, <2>3, <2>4
<1>14. e[2] = v.timestamp /\ e[3] = l
  <2>1. 1 \in 1 .. 2 + l /\ 2 \in 1 .. 2 + l
    BY <1>1
  <2>2. e[1 + 1] = two[1] /\ e[2 + 1] = two[2]
    BY <1>13, <2>1
  <2> QED
    BY <1>2, <2>2
<1>15. ASSUME NEW i \in 1 .. l PROVE e[3 + i] = id[i]
  <2> DEFINE j == 2 + i
  <2>1. j \in 1 .. 2 + l /\ ~(j <= 2) /\ j - 2 = i /\ j + 1 = 3 + i
    BY <1>1
  <2> HIDE DEF j
  <2>2. e[j + 1] = id[i]
    BY <1>13, <2>1
  <2> QED
    BY <2>1, <2>2
<1>16. Layout(e, v, flat)
  BY <1>10, <1>11, <1>12, <1>13, <1>14, <1>15 DEF Layout, l, n, id
<1> QED
  BY <1>4, <1>16 DEF flat

(* An entry whose values are one cell each is read as the vote it is of.   *)
IsEntryOf(e, v) ==
  /\ e \in Seq(Nat) /\ Len(e) \in Nat /\ Len(e) >= 4 /\ e[1] = Len(e)
  /\ CanDeserialize(e) /\ DeserializeVote(e) = v

(* deserializeVote finds them there again. *)
LEMMA SerializedComesBack ==
  ASSUME NEW v \in VoteType, v.values \in Seq(OneCell)
  PROVE  IsEntryOf(SerializeVote(v), v)
<1> DEFINE e == SerializeVote(v)
           flat == FlattenSeq(v.values)
           l == Len(v.id)
           n == Len(v.values)
           count == 4 + e[3]
<1>1. /\ flat \in Seq(Nat) /\ Len(flat) = n /\ \A i \in 1 .. n : v.values[i] = <<flat[i]>>
      /\ v.id \in Seq(Nat) /\ v.timestamp \in Nat /\ l \in Nat /\ n \in Nat
  <2>1. v.id \in Seq(Nat) /\ v.timestamp \in Nat /\ v.values \in Seq(Seq(Nat))
    BY DEF VoteType
  <2>2. l \in Nat /\ n \in Nat
    BY <2>1, LenProperties
  <2> QED
    BY <2>1, <2>2, FlattenIs
<1>2. Layout(e, v, flat)
  BY SerializedLayout
<1> HIDE DEF e, flat
<1>3. /\ e \in Seq(Nat) /\ Len(e) = (4 + l) + n
      /\ e[1] = Len(e) /\ e[2] = v.timestamp /\ e[3] = l /\ e[4 + l] = n
      /\ \A i \in 1 .. l : e[3 + i] = v.id[i]
      /\ \A i \in 1 .. n : e[(4 + l) + i] = flat[i]
  BY <1>1, <1>2 DEF Layout
<1> HIDE DEF l, n
<1>4. count = 4 + l /\ e[count] = n
  BY <1>3
<1>5. CanDeserialize(e) /\ Len(e) \in Nat /\ Len(e) >= 4
  BY <1>1, <1>3, <1>4 DEF CanDeserialize
<1>6. SubSeq(e, 4, count - 1) = v.id
  <2> DEFINE s == SubSeq(e, 4, 3 + l)
  <2>1. /\ 4 \in 1 .. Len(e) + 1 /\ 3 + l \in 4 - 1 .. Len(e) /\ (3 + l) - 4 + 1 = l
        /\ count - 1 = 3 + l /\ \A i \in 1 .. l : 4 + i - 1 = 3 + i
    BY <1>1, <1>3, <1>4
  <2>2. s \in Seq(Nat) /\ Len(s) = l /\ \A i \in 1 .. l : s[i] = e[3 + i]
    <3>1. /\ s \in Seq(Nat) /\ Len(s) = (3 + l) - 4 + 1
          /\ \A i \in 1 .. (3 + l) - 4 + 1 : s[i] = e[4 + i - 1]
      <4> DEFINE k == 3 + l
      <4>1. 4 \in 1 .. Len(e) + 1 /\ k \in 4 - 1 .. Len(e)
        BY <2>1
      <4> HIDE DEF k
      <4>2. /\ SubSeq(e, 4, k) \in Seq(Nat) /\ Len(SubSeq(e, 4, k)) = k - 4 + 1
            /\ \A i \in 1 .. k - 4 + 1 : SubSeq(e, 4, k)[i] = e[4 + i - 1]
        BY <1>3, <4>1, PartOf
      <4> QED
        BY <4>2, Zenon DEF k
    <3> HIDE DEF s
    <3> QED
      BY <2>1, <3>1
  <2> HIDE DEF s
  <2>3. s = v.id
    <3>1. Len(s) = Len(v.id) /\ \A i \in 1 .. Len(s) : s[i] = v.id[i]
      BY <1>3, <2>2 DEF l
    <3> QED
      BY <1>1, <2>2, <3>1, SeqEqual
  <2> QED
    BY <2>1, <2>3 DEF s
<1>7. [i \in 1 .. e[count] |-> <<e[count + i]>>] = v.values
  <2>1. v.values = [i \in 1 .. n |-> v.values[i]]
    BY LenProperties DEF n
  <2>2. \A i \in 1 .. n : v.values[i] = <<e[(4 + l) + i]>>
    BY <1>1, <1>3
  <2> HIDE DEF count
  <2>3. [i \in 1 .. n |-> <<e[count + i]>>] = [i \in 1 .. n |-> v.values[i]]
    BY <1>4, <2>2
  <2> QED
    BY <1>4, <2>1, <2>3
<1>8. DeserializeVote(e) = [id |-> v.id, timestamp |-> v.timestamp, values |-> v.values]
  BY <1>3, <1>6, <1>7 DEF DeserializeVote
<1>9. v = [id |-> v.id, timestamp |-> v.timestamp, values |-> v.values]
  BY DEF VoteType
<1> QED
  BY <1>3, <1>5, <1>8, <1>9, Zenon DEF IsEntryOf, e

-----------------------------------------------------------------------------
(* What a buffer holds: its votes, and the cells left over behind them.    *)
Finds(b, votes, rest) ==
  /\ b \in Seq(Nat) /\ votes \in Seq(Readable) /\ rest \in Seq(Nat)
  /\ ReadEntries(b) = [votes |-> votes, rest |-> rest, threw |-> FALSE]

(* Everything read without a throw is found. *)
LEMMA FoundUnlessThrown ==
  ASSUME NEW b \in Seq(Nat)
  PROVE  LET r == ReadEntries(b)
         IN  /\ r \in Found
             /\ ~r.threw => Finds(b, r.votes, r.rest)
<1> DEFINE r == ReadEntries(b)
<1>1. r \in Found
  BY ReadsStepByStep DEF Reads
<1> HIDE DEF r
<1>2. ~r.threw => /\ r.votes \in Seq(Readable) /\ r.rest \in Seq(Nat)
                  /\ r = [votes |-> r.votes, rest |-> r.rest, threw |-> FALSE]
  BY <1>1 DEF Found
<1> QED
  BY <1>1, <1>2, Zenon DEF Finds, r

(* Reading on from what was left over gives the rest of the votes.         *)
LEMMA FindsOn ==
  ASSUME NEW b, NEW x \in Seq(Nat), NEW votes, NEW rest, Finds(b, votes, rest),
         NEW more, NEW left, Finds(rest \o x, more, left)
  PROVE  Finds(b \o x, votes \o more, left)
<1> DEFINE r == ReadEntries(b)
           s == ReadEntries(rest \o x)
           w == ReadEntries(b \o x)
<1>1. /\ b \in Seq(Nat) /\ votes \in Seq(Readable) /\ more \in Seq(Readable) /\ left \in Seq(Nat)
      /\ r = [votes |-> votes, rest |-> rest, threw |-> FALSE]
      /\ s = [votes |-> more, rest |-> left, threw |-> FALSE]
  BY DEF Finds
<1>2. InPieces(b, x)
  BY <1>1, ReadInPieces
<1>3. b \o x \in Seq(Nat)
  BY <1>1, ConcatProperties
<1>4. w \in Found
  BY <1>3, ReadsStepByStep DEF Reads
<1>5. r.rest = rest /\ r.votes = votes /\ r.threw = FALSE
  BY <1>1
<1>6. w.votes = votes \o s.votes /\ w.rest = s.rest /\ w.threw = s.threw
  BY <1>2, <1>5 DEF InPieces
<1> HIDE DEF r, s, w
<1>7. w.votes = votes \o more /\ w.rest = left /\ w.threw = FALSE
  BY <1>1, <1>6
<1>8. votes \o more \in Seq(Readable)
  BY <1>1, ConcatProperties
<1>9. w = [votes |-> votes \o more, rest |-> left, threw |-> FALSE]
  BY <1>4, <1>7 DEF Found
<1> QED
  BY <1>1, <1>3, <1>8, <1>9 DEF Finds, w

(* A buffer that is found whole is found up to any place in it, and from   *)
(* there on.                                                               *)
LEMMA FoundInPart ==
  ASSUME NEW b \in Seq(Nat), NEW x \in Seq(Nat), NEW all, NEW left, Finds(b \o x, all, left)
  PROVE  LET r == ReadEntries(b)
             s == ReadEntries(r.rest \o x)
         IN  /\ Finds(b, r.votes, r.rest)
             /\ Finds(r.rest \o x, s.votes, left)
             /\ all = r.votes \o s.votes
<1> DEFINE r == ReadEntries(b)
           s == ReadEntries(r.rest \o x)
           w == ReadEntries(b \o x)
<1>1. w.votes = all /\ w.rest = left /\ w.threw = FALSE
  BY DEF Finds
<1>2. r \in Found /\ (~r.threw => Finds(b, r.votes, r.rest))
  BY FoundUnlessThrown
<1>3. ~r.threw
  <2>1. r.threw => w.threw
    BY ReadInPieces DEF InPieces
  <2> QED
    BY <1>1, <2>1
<1>4. w.votes = r.votes \o s.votes /\ w.rest = s.rest /\ w.threw = s.threw
  BY <1>3, ReadInPieces DEF InPieces
<1>5. r.rest \o x \in Seq(Nat)
  <2>1. r.rest \in Seq(Nat)
    BY <1>2 DEF Found
  <2> HIDE DEF r
  <2> QED
    BY <2>1, ConcatProperties
<1>6. ~s.threw => Finds(r.rest \o x, s.votes, s.rest)
  BY <1>5, FoundUnlessThrown
<1> HIDE DEF r, s, w
<1>7. Finds(b, r.votes, r.rest) /\ Finds(r.rest \o x, s.votes, left) /\ all = r.votes \o s.votes
  BY <1>1, <1>2, <1>3, <1>4, <1>6
<1> QED
  BY <1>7, Zenon DEF r, s

(* The parts of what is found. *)
LEMMA FoundOnce ==
  ASSUME NEW b, NEW votes, NEW rest, Finds(b, votes, rest)
  PROVE  ReadEntries(b).votes = votes /\ ReadEntries(b).rest = rest /\ ~ReadEntries(b).threw
  BY DEF Finds

(* In an empty buffer there is nothing, in an entry its vote, and in a     *)
(* part of an entry nothing yet.                                           *)
LEMMA NothingInPartial ==
  ASSUME NEW b \in Seq(Nat), Partial(b)
  PROVE  Finds(b, <<>>, b)
<1>1. ReadEntries(b) = [votes |-> <<>>, rest |-> b, threw |-> FALSE]
  BY ReadsStepByStep DEF Reads
<1>2. <<>> \in Seq(Readable)
  BY EmptySeq
<1> QED
  BY <1>1, <1>2 DEF Finds

(* An empty buffer. *)
LEMMA NothingInNothing ==
  Finds(<<>>, <<>>, <<>>)
<1>1. <<>> \in Seq(Nat) /\ Len(<<>>) = 0
  BY EmptySeq
<1>2. Partial(<<>>)
  BY <1>1 DEF Partial
<1> QED
  BY <1>1, <1>2, NothingInPartial

(* A front of an entry, shorter than its size says. *)
LEMMA NothingInPartOfEntry ==
  ASSUME NEW e, NEW v, IsEntryOf(e, v), NEW k \in Nat, k < Len(e)
  PROVE  Finds(Leading(e, k), <<>>, Leading(e, k))
<1> DEFINE b == Leading(e, k)
<1>1. e \in Seq(Nat) /\ Len(e) \in Nat /\ e[1] = Len(e)
  BY DEF IsEntryOf
<1>2. k \in 0 .. Len(e)
  BY <1>1
<1>3. b \in Seq(Nat) /\ Len(b) = k /\ \A i \in 1 .. k : b[i] = e[i]
  BY <1>1, <1>2, LeadingIs
<1> HIDE DEF b
<1>4. Partial(b)
  <2>1. CASE k < 2
    BY <1>3, <2>1 DEF Partial
  <2>2. CASE ~(k < 2)
    <3>1. 1 \in 1 .. k
      BY <2>2
    <3>2. b[1] = Len(e)
      BY <1>1, <1>3, <3>1
    <3> QED
      BY <1>3, <3>2 DEF Partial
  <2> QED
    BY <2>1, <2>2
<1>5. Finds(b, <<>>, b)
  BY <1>3, <1>4, NothingInPartial
<1> QED
  BY <1>5 DEF b

(* A whole entry. *)
LEMMA VoteInEntry ==
  ASSUME NEW e, NEW v \in Readable, IsEntryOf(e, v)
  PROVE  Finds(e, <<v>>, <<>>)
<1>1. /\ e \in Seq(Nat) /\ Len(e) \in Nat /\ e[1] = Len(e) /\ Len(e) >= 4
      /\ CanDeserialize(e) /\ DeserializeVote(e) = v
  BY DEF IsEntryOf
<1>2. ~Partial(e)
  BY <1>1 DEF Partial
<1>3. Entry(e) = e /\ Behind(e, e[1]) = <<>>
  BY <1>1, BehindNothing DEF Entry
<1>4. ReadEntries(e) = WithVote(v, ReadEntries(<<>>))
  BY <1>1, <1>2, <1>3, ReadsStepByStep DEF Reads
<1>5. ReadEntries(<<>>) = [votes |-> <<>>, rest |-> <<>>, threw |-> FALSE]
  BY NothingInNothing DEF Finds
<1>6. <<v>> \in Seq(Readable) /\ <<>> \in Seq(Nat) /\ <<v>> \o <<>> = <<v>>
  BY EmptySeq, ConcatEmptySeq
<1> DEFINE r == ReadEntries(e)
           t == ReadEntries(<<>>)
<1>7. t \in Found /\ t.votes = <<>> /\ t.rest = <<>> /\ t.threw = FALSE
  <2>1. t \in Found
    BY <1>6, FoundUnlessThrown
  <2> HIDE DEF t
  <2>2. t = [votes |-> <<>>, rest |-> <<>>, threw |-> FALSE]
    BY <1>5 DEF t
  <2> QED
    BY <2>1, <2>2
<1>8. r \in Found
  BY <1>1, ReadsStepByStep DEF Reads
<1>9. r = WithVote(v, t)
  BY <1>4
<1> HIDE DEF r, t
<1>10. r.votes = <<v>> /\ r.rest = <<>> /\ r.threw = FALSE
  BY <1>6, <1>7, <1>9, WithVoteIs
<1>11. r = [votes |-> <<v>>, rest |-> <<>>, threw |-> FALSE]
  BY <1>8, <1>10 DEF Found
<1> QED
  BY <1>1, <1>6, <1>11 DEF Finds, r

-----------------------------------------------------------------------------
(* Types.  They hold whatever the votes are and whoever shares a file.     *)
Reader == [status : {"none", "reading", "done", "threw"}, position : Nat,
           buffer : Seq(Nat), given : Seq(Readable), floor : Nat]

TypeInv ==
  /\ files \in [Paths -> Seq(Nat)]
  /\ stream \in [Jurisdictions -> {"none", "open", "ending", "closed"}]
  /\ pending \in [Jurisdictions -> Seq(Votes)]
  /\ voteCount \in [Jurisdictions -> Nat]
  /\ replay \in [Jurisdictions -> Reader]
  /\ appended \in [Jurisdictions -> Seq(Votes)]
  /\ torn \in SUBSET Paths
  /\ buried \in SUBSET Paths

(* A reader is within its file, and counts no vote that is not there.      *)
WithinFile ==
  \A j \in Jurisdictions : /\ replay[j].position <= Len(files[LogPath(j)])
                           /\ replay[j].floor <= Len(appended[j])

(* A logger works on one of the files. *)
LEMMA LogPathIsPath ==
  ASSUME NEW j \in Jurisdictions
  PROVE  LogPath(j) \in Paths
  BY PathsAssumption DEF LogPath

(* The votes callers append, and their entries. *)
LEMMA VotesAreTyped ==
  ASSUME NEW v \in Votes
  PROVE  v \in VoteType /\ SerializeVote(v) \in Seq(Nat)
<1>1. v \in VoteType
  BY VotesAssumption DEF VoteType
<1> QED
  BY <1>1, SerializedLayout DEF Layout

(* A reader before its first replay. *)
LEMMA NewReader ==
  NotReplaying \in Reader /\ NotReplaying = [status |-> "none", position |-> 0, buffer |-> <<>>,
                                             given |-> <<>>, floor |-> 0]
<1>1. <<>> \in Seq(Nat) /\ <<>> \in Seq(Readable)
  BY EmptySeq
<1> QED
  BY <1>1 DEF NotReplaying, Reader

(* What Written does, in the words of the proofs.                          *)
Writes(j, v, e) ==
  LET p == LogPath(j)
  IN  /\ v \in Votes /\ e = SerializeVote(v) /\ e \in Seq(Nat)
      /\ files' = [files EXCEPT ![p] = files[p] \o e]
      /\ pending'[j] = Tail(pending[j]) /\ Tail(pending[j]) \in Seq(Votes)
      /\ pending' = [pending EXCEPT ![j] = Tail(pending[j])]
      /\ voteCount' = [voteCount EXCEPT ![j] = voteCount[j] + 1]
      /\ appended' = [appended EXCEPT ![j] = Append(appended[j], v)]
      /\ buried' = IF p \in torn THEN buried \union {p} ELSE buried
      /\ UNCHANGED <<stream, replay, torn>>

(* That is what Written does. *)
LEMMA WrittenWrites ==
  ASSUME TypeInv, NEW j \in Jurisdictions, Written(j)
  PROVE  Writes(j, Head(pending[j]), SerializeVote(Head(pending[j])))
<1>1. pending[j] \in Seq(Votes) /\ pending[j] # <<>>
  BY DEF TypeInv, Written
<1>2. Head(pending[j]) \in Votes /\ Tail(pending[j]) \in Seq(Votes)
  BY <1>1, HeadTailProperties
<1>3. SerializeVote(Head(pending[j])) \in Seq(Nat)
  BY <1>2, VotesAreTyped
<1> QED
  BY <1>2, <1>3 DEF Writes, Written, TypeInv

(* What Crash does: the log gains all of the entry being written, a part   *)
(* of it or nothing.                                                       *)
CrashState ==
  /\ stream' = [k \in Jurisdictions |-> "none"]
  /\ pending' = [k \in Jurisdictions |-> <<>>]
  /\ voteCount' = [k \in Jurisdictions |-> 0]
  /\ replay' = [k \in Jurisdictions |-> NotReplaying]

Tears(j, v, e, kept) ==
  LET p == LogPath(j)
  IN  /\ v \in Votes /\ e = SerializeVote(v) /\ e \in Seq(Nat) /\ kept \in 1 .. Len(e)
      /\ files' = [files EXCEPT ![p] = files[p] \o Leading(e, kept)]
      /\ appended' = IF kept = Len(e) THEN [appended EXCEPT ![j] = Append(appended[j], v)] ELSE appended
      /\ torn' = IF kept # Len(e) THEN torn \union {p} ELSE torn
      /\ buried' = IF p \in torn THEN buried \union {p} ELSE buried

(* That is what Crash does. *)
LEMMA CrashTears ==
  ASSUME TypeInv, NEW j \in Jurisdictions, NEW kept \in 0 .. Len(BeingWritten(j)), Crash(j, kept)
  PROVE  /\ CrashState
         /\ \/ UNCHANGED <<files, appended, torn, buried>>
            \/ Tears(j, Head(pending[j]), SerializeVote(Head(pending[j])), kept)
<1> DEFINE p == LogPath(j)
           entry == BeingWritten(j)
           x == SubSeq(entry, 1, kept)
           v == Head(pending[j])
           e == SerializeVote(v)
<1>1. p \in Paths /\ files \in [Paths -> Seq(Nat)] /\ files[p] \in Seq(Nat)
      /\ appended \in [Jurisdictions -> Seq(Votes)] /\ pending[j] \in Seq(Votes)
  BY LogPathIsPath DEF TypeInv
<1>2. /\ files' = [files EXCEPT ![p] = files[p] \o x]
      /\ appended' = [appended EXCEPT ![j] =
                        IF kept > 0 /\ kept = Len(entry) THEN Append(appended[j], v) ELSE appended[j]]
      /\ torn' = IF kept \in 1 .. Len(entry) - 1 THEN torn \union {p} ELSE torn
      /\ buried' = IF kept > 0 /\ p \in torn THEN buried \union {p} ELSE buried
      /\ CrashState
  BY DEF Crash, CrashState
<1>3. CASE kept = 0
  <2>1. x = <<>>
    BY <1>3, SubSeqEmpty
  <2>2. files[p] \o <<>> = files[p]
    BY <1>1, ConcatEmptySeq
  <2> HIDE DEF p, x, entry, v
  <2>3. UNCHANGED files
    BY <1>1, <1>2, <2>1, <2>2
  <2>4. UNCHANGED <<appended, torn, buried>>
    BY <1>1, <1>2, <1>3
  <2> QED
    BY <1>2, <2>3, <2>4
<1>4. CASE kept # 0
  <2>1. pending[j] # <<>> /\ entry = e
    <3>1. Len(<<>>) = 0
      OBVIOUS
    <3> QED
      BY <1>4, <3>1 DEF BeingWritten
  <2>2. v \in Votes /\ e \in Seq(Nat) /\ Len(e) \in Nat
    <3>1. v \in Votes
      BY <1>1, <2>1, HeadTailProperties
    <3> HIDE DEF v
    <3>2. e \in Seq(Nat)
      BY <3>1, VotesAreTyped
    <3> HIDE DEF e
    <3> QED
      BY <3>1, <3>2, LenProperties
  <2>3. kept \in 1 .. Len(e)
    <3>1. kept \in 0 .. Len(e)
      BY <2>1
    <3> HIDE DEF e, entry
    <3> QED
      BY <1>4, <2>2, <3>1
  <2>4. x = Leading(e, kept)
    BY <2>1 DEF Leading
  <2> HIDE DEF v, entry, e, p, x
  <2>5. appended' = IF kept = Len(e) THEN [appended EXCEPT ![j] = Append(appended[j], v)] ELSE appended
    <3>1. appended' = [appended EXCEPT ![j] =
                         IF kept > 0 /\ kept = Len(entry) THEN Append(appended[j], v) ELSE appended[j]]
      BY <1>2
    <3>2. kept > 0 /\ Len(entry) = Len(e)
      BY <2>1, <2>3
    <3>3. [appended EXCEPT ![j] = appended[j]] = appended
      BY <1>1
    <3> QED
      BY <3>1, <3>2, <3>3
  <2>6. torn' = IF kept # Len(e) THEN torn \union {p} ELSE torn
    BY <1>2, <2>1, <2>2, <2>3
  <2>7. buried' = IF p \in torn THEN buried \union {p} ELSE buried
    BY <1>2, <2>3
  <2>8. Tears(j, v, e, kept)
    BY <1>2, <2>2, <2>3, <2>4, <2>5, <2>6, <2>7, Zenon DEF Tears, p, e
  <2> QED
    BY <1>2, <2>8 DEF v, e
<1> QED
  BY <1>3, <1>4

(* What ReadChunk does: it moves on in the file, and takes what is found.  *)
Moves(j, upTo, found) ==
  LET r == replay[j]
      p == LogPath(j)
  IN  /\ r.status = "reading"
      /\ upTo \in r.position .. Len(files[p])
      /\ found = ReadEntries(r.buffer \o Leading(Behind(files[p], r.position), upTo - r.position))
      /\ found \in Found
      /\ replay' = [replay EXCEPT ![j] =
                      [r EXCEPT !.position = upTo,
                                !.buffer   = found.rest,
                                !.given    = r.given \o found.votes,
                                !.status   = IF found.threw THEN "threw" ELSE "reading"]]
      /\ UNCHANGED <<files, stream, pending, voteCount, appended, torn, buried>>

(* That is what ReadChunk does. *)
LEMMA ChunkMoves ==
  ASSUME TypeInv, WithinFile,
         NEW j \in Jurisdictions, NEW n \in ChunkSizes, ReadChunk(j, n)
  PROVE  \E upTo, found : Moves(j, upTo, found)
<1> DEFINE r == replay[j]
           p == LogPath(j)
           file == files[p]
           pos == r.position
           upTo == IF pos + n < Len(file) THEN pos + n ELSE Len(file)
           x == SubSeq(file, pos + 1, upTo)
           found == ReadEntries(r.buffer \o x)
<1>1. /\ file \in Seq(Nat) /\ pos \in Nat /\ r.buffer \in Seq(Nat)
  BY LogPathIsPath DEF TypeInv, Reader
<1>2. Len(file) \in Nat /\ pos <= Len(file) /\ n \in Nat
  <2>1. pos <= Len(file)
    BY DEF WithinFile
  <2> HIDE DEF file, pos
  <2> QED
    BY <1>1, <2>1, LenProperties, ChunksAssumption
<1>3. /\ r.status = "reading"
      /\ replay' = [replay EXCEPT ![j] =
                      [r EXCEPT !.position = upTo,
                                !.buffer   = found.rest,
                                !.given    = r.given \o found.votes,
                                !.status   = IF found.threw THEN "threw" ELSE "reading"]]
      /\ UNCHANGED <<files, stream, pending, voteCount, appended, torn, buried>>
  BY DEF ReadChunk
<1> HIDE DEF file, pos, r
<1>4. upTo \in pos .. Len(file) /\ pos \in 0 .. Len(file) /\ upTo - pos \in 0 .. Len(file) - pos
      /\ pos + (upTo - pos) = upTo
  BY <1>1, <1>2
<1> HIDE DEF upTo
<1>5. x = Leading(Behind(file, pos), upTo - pos)
  <2> DEFINE m == upTo - pos
  <2>1. m \in 0 .. Len(file) - pos /\ pos + m = upTo
    BY <1>4
  <2> HIDE DEF m
  <2>2. SubSeq(file, pos + 1, pos + m) = Leading(Behind(file, pos), m)
    BY <1>1, <1>4, <2>1, BehindBehind
  <2> QED
    BY <2>1, <2>2 DEF m
<1>6. x \in Seq(Nat)
  <2>1. Behind(file, pos) \in Seq(Nat) /\ Len(Behind(file, pos)) = Len(file) - pos
    BY <1>1, <1>4, BehindIs
  <2>2. upTo - pos \in 0 .. Len(Behind(file, pos))
    BY <1>4, <2>1
  <2> QED
    BY <1>5, <2>1, <2>2, LeadingIs
<1>7. found \in Found
  <2> HIDE DEF x
  <2>1. r.buffer \o x \in Seq(Nat)
    BY <1>1, <1>6, ConcatProperties
  <2> QED
    BY <2>1, FoundUnlessThrown
<1>8. found = ReadEntries(r.buffer \o Leading(Behind(file, pos), upTo - pos))
  BY <1>5
<1> HIDE DEF found, x
<1>9. Moves(j, upTo, found)
  BY <1>3, <1>4, <1>7, <1>8, Zenon DEF Moves, r, file, pos, p
<1> QED
  BY <1>9

(* Steps that touch neither a file nor a reader.                           *)
Quiet ==
  /\ UNCHANGED <<files, replay, appended, torn, buried>>
  /\ stream' \in [Jurisdictions -> {"none", "open", "ending", "closed"}]
  /\ pending' \in [Jurisdictions -> Seq(Votes)]
  /\ voteCount' \in [Jurisdictions -> Nat]
  /\ \A j \in Jurisdictions : voteCount'[j] <= voteCount[j]

(* Creating, closing and handing an entry to the stream are such steps. *)
LEMMA QuietSteps ==
  ASSUME TypeInv, NEW j \in Jurisdictions,
         Create(j) \/ (\E v \in Votes : AppendVote(j, v)) \/ Close(j) \/ Closed(j) \/ UNCHANGED vars
  PROVE  Quiet
<1>1. /\ stream \in [Jurisdictions -> {"none", "open", "ending", "closed"}]
      /\ pending \in [Jurisdictions -> Seq(Votes)] /\ voteCount \in [Jurisdictions -> Nat]
  BY DEF TypeInv
<1>2. CASE Create(j)
  BY <1>1, <1>2 DEF Create, Quiet
<1>3. ASSUME NEW v \in Votes, AppendVote(j, v) PROVE Quiet
  <2>1. Append(pending[j], v) \in Seq(Votes)
    BY <1>1, AppendProperties
  <2> QED
    BY <1>1, <1>3, <2>1 DEF AppendVote, Quiet
<1>4. CASE Close(j)
  BY <1>1, <1>4 DEF Close, Quiet
<1>5. CASE Closed(j)
  BY <1>1, <1>5 DEF Closed, Quiet
<1>6. CASE UNCHANGED vars
  BY <1>1, <1>6 DEF vars, Quiet
<1> QED
  BY <1>2, <1>3, <1>4, <1>5, <1>6

(* Every step is one of these. *)
Steps ==
  \/ Quiet
  \/ \E j \in Jurisdictions :
       \/ \E v, e : Writes(j, v, e)
       \/ CrashState /\ UNCHANGED <<files, appended, torn, buried>>
       \/ CrashState /\ \E v, e, kept : Tears(j, v, e, kept)
       \/ StartReplay(j)
       \/ \E upTo, found : Moves(j, upTo, found)
       \/ EndReplay(j)

(* No action is left out. *)
LEMMA EveryStep ==
  ASSUME TypeInv, WithinFile, [Next]_vars
  PROVE  Steps
<1>1. CASE UNCHANGED vars
  <2>1. Quiet
    BY <1>1 DEF TypeInv, vars, Quiet
  <2> QED
    BY <2>1 DEF Steps
<1>2. ASSUME NEW j \in Jurisdictions,
             \/ Create(j)
             \/ \E v \in Votes : AppendVote(j, v)
             \/ Close(j)
             \/ Closed(j)
      PROVE  Steps
  BY <1>2, QuietSteps DEF Steps
<1>3. ASSUME NEW j \in Jurisdictions, Written(j) PROVE Steps
  BY <1>3, WrittenWrites DEF Steps
<1>4. ASSUME NEW j \in Jurisdictions, NEW kept \in 0 .. Len(BeingWritten(j)), Crash(j, kept) PROVE Steps
  BY <1>4, CrashTears DEF Steps
<1>5. ASSUME NEW j \in Jurisdictions, NEW n \in ChunkSizes, ReadChunk(j, n) PROVE Steps
  BY <1>5, ChunkMoves DEF Steps
<1>6. ASSUME NEW j \in Jurisdictions, StartReplay(j) \/ EndReplay(j) PROVE Steps
  BY <1>6 DEF Steps
<1> QED
  BY <1>1, <1>2, <1>3, <1>4, <1>5, <1>6 DEF Next

(* Files only grow, and at their end. *)
FilesGrow ==
  \A p \in Paths : \E x \in Seq(Nat) : files'[p] = files[p] \o x

(* One file that grows. *)
LEMMA GrowthByOne ==
  ASSUME TypeInv, NEW p \in Paths, NEW x \in Seq(Nat),
         files' = [files EXCEPT ![p] = files[p] \o x]
  PROVE  FilesGrow /\ files' \in [Paths -> Seq(Nat)]
<1>1. files \in [Paths -> Seq(Nat)] /\ <<>> \in Seq(Nat)
  BY EmptySeq DEF TypeInv
<1>2. files[p] \o x \in Seq(Nat)
  BY <1>1, ConcatProperties
<1>3. \A q \in Paths : files[q] \o <<>> = files[q]
  BY <1>1, ConcatEmptySeq
<1>4. \A q \in Paths : files'[q] = IF q = p THEN files[p] \o x ELSE files[q]
  BY <1>1
<1>5. ASSUME NEW q \in Paths PROVE \E y \in Seq(Nat) : files'[q] = files[q] \o y
  BY <1>1, <1>3, <1>4
<1> QED
  BY <1>1, <1>2, <1>5 DEF FilesGrow

(* No file that grows. *)
LEMMA NoGrowth ==
  ASSUME TypeInv, UNCHANGED files
  PROVE  FilesGrow /\ files' \in [Paths -> Seq(Nat)]
<1>1. files \in [Paths -> Seq(Nat)] /\ <<>> \in Seq(Nat)
  BY EmptySeq DEF TypeInv
<1>2. \A q \in Paths : files[q] \o <<>> = files[q]
  BY <1>1, ConcatEmptySeq
<1> QED
  BY <1>1, <1>2 DEF FilesGrow

(* No step does anything else to a file. *)
LEMMA StepsGrow ==
  ASSUME TypeInv, Steps
  PROVE  FilesGrow /\ files' \in [Paths -> Seq(Nat)]
<1>1. ASSUME NEW j \in Jurisdictions, NEW v, NEW e, Writes(j, v, e)
      PROVE  FilesGrow /\ files' \in [Paths -> Seq(Nat)]
  BY <1>1, GrowthByOne, LogPathIsPath DEF Writes
<1>2. ASSUME NEW j \in Jurisdictions, NEW v, NEW e, NEW kept, Tears(j, v, e, kept)
      PROVE  FilesGrow /\ files' \in [Paths -> Seq(Nat)]
  <2>1. e \in Seq(Nat) /\ kept \in 0 .. Len(e) /\ files' = [files EXCEPT ![LogPath(j)] = @ \o Leading(e, kept)]
    BY <1>2, LenProperties DEF Tears
  <2>2. Leading(e, kept) \in Seq(Nat)
    BY <2>1, LeadingIs
  <2> QED
    BY <2>1, <2>2, GrowthByOne, LogPathIsPath
<1>3. CASE UNCHANGED files
  BY <1>3, NoGrowth
<1> QED
  BY <1>1, <1>2, <1>3 DEF Steps, Quiet, StartReplay, EndReplay, Moves

(* A sequence with more behind it is longer. *)
LEMMA LengthGrows ==
  ASSUME NEW T, NEW s \in Seq(T), NEW t \in Seq(T)
  PROVE  Len(s) \in Nat /\ Len(s \o t) \in Nat /\ Len(s) <= Len(s \o t)
<1>1. Len(s) \in Nat /\ Len(t) \in Nat /\ Len(s \o t) = Len(s) + Len(t)
  BY LenProperties, ConcatProperties
<1> QED
  BY <1>1

(* The types, at first. *)
LEMMA TypesInitially ==
  ASSUME Init
  PROVE  TypeInv /\ WithinFile
<1>1. <<>> \in Seq(Nat) /\ <<>> \in Seq(Votes) /\ Len(<<>>) = 0
  BY EmptySeq
<1>2. \A j \in Jurisdictions : replay[j] = NotReplaying
  BY DEF Init
<1>3. TypeInv
  BY <1>1, NewReader DEF Init, TypeInv
<1>4. ASSUME NEW j \in Jurisdictions
      PROVE  /\ replay[j].position <= Len(files[LogPath(j)])
             /\ replay[j].floor <= Len(appended[j])
  <2>1. files[LogPath(j)] = <<>> /\ appended[j] = <<>>
    BY LogPathIsPath DEF Init
  <2>2. replay[j].position = 0 /\ replay[j].floor = 0
    BY <1>2, NewReader
  <2> QED
    BY <1>1, <2>1, <2>2
<1> QED
  BY <1>3, <1>4 DEF WithinFile

(* What a reader has to be for its file and its votes. *)
LEMMA WithinAfterGrowth ==
  ASSUME TypeInv, WithinFile, FilesGrow, files' \in [Paths -> Seq(Nat)],
         NEW j \in Jurisdictions,
         \/ appended'[j] = appended[j]
         \/ \E v \in Votes : appended'[j] = Append(appended[j], v),
         \/ replay'[j] = replay[j]
         \/ replay'[j] = NotReplaying
  PROVE  /\ replay'[j].position <= Len(files'[LogPath(j)])
         /\ replay'[j].floor <= Len(appended'[j])
<1> DEFINE p == LogPath(j)
<1>1. p \in Paths /\ files[p] \in Seq(Nat) /\ appended[j] \in Seq(Votes) /\ replay[j] \in Reader
  BY LogPathIsPath DEF TypeInv
<1>2. Len(files[p]) \in Nat /\ Len(files'[p]) \in Nat /\ Len(files[p]) <= Len(files'[p])
  <2>1. PICK x \in Seq(Nat) : files'[p] = files[p] \o x
    BY <1>1 DEF FilesGrow
  <2> QED
    BY <1>1, <2>1, LengthGrows
<1>3. Len(appended[j]) \in Nat /\ Len(appended'[j]) \in Nat /\ Len(appended[j]) <= Len(appended'[j])
  <2>1. Len(appended[j]) \in Nat
    BY <1>1, LenProperties
  <2>2. ASSUME NEW v \in Votes, appended'[j] = Append(appended[j], v)
        PROVE  Len(appended'[j]) = Len(appended[j]) + 1
    BY <1>1, <2>2, AppendProperties
  <2> QED
    BY <2>1, <2>2
<1>4. CASE replay'[j] = replay[j]
  <2>1. /\ replay[j].position <= Len(files[p]) /\ replay[j].floor <= Len(appended[j])
        /\ replay[j].position \in Nat /\ replay[j].floor \in Nat
    BY <1>1 DEF WithinFile, Reader
  <2> QED
    BY <1>2, <1>3, <1>4, <2>1
<1>5. CASE replay'[j] = NotReplaying
  BY <1>2, <1>3, <1>5, NewReader
<1> QED
  BY <1>4, <1>5

(* The types after an entry has been written. *)
LEMMA WritesKeepsTypes ==
  ASSUME TypeInv, WithinFile, NEW j \in Jurisdictions, NEW v, NEW e, Writes(j, v, e)
  PROVE  TypeInv' /\ WithinFile'
<1>1. FilesGrow /\ files' \in [Paths -> Seq(Nat)]
  BY StepsGrow DEF Steps
<1>2. Append(appended[j], v) \in Seq(Votes)
  BY AppendProperties DEF TypeInv, Writes
<1>3. buried' \in SUBSET Paths
  BY LogPathIsPath DEF TypeInv, Writes
<1>4. TypeInv'
  BY <1>1, <1>2, <1>3 DEF TypeInv, Writes
<1>5. ASSUME NEW k \in Jurisdictions
      PROVE  /\ replay'[k].position <= Len(files'[LogPath(k)])
             /\ replay'[k].floor <= Len(appended'[k])
  <2>1. replay'[k] = replay[k]
    BY DEF Writes
  <2>2. appended'[k] = appended[k] \/ \E u \in Votes : appended'[k] = Append(appended[k], u)
    BY DEF Writes, TypeInv
  <2> QED
    BY <1>1, <2>1, <2>2, WithinAfterGrowth
<1> QED
  BY <1>4, <1>5 DEF WithinFile, LogPath

(* The types after a crash. *)
LEMMA CrashKeepsTypes ==
  ASSUME TypeInv, WithinFile, Steps, NEW j \in Jurisdictions, CrashState,
         UNCHANGED <<files, appended, torn, buried>> \/ \E v, e, kept : Tears(j, v, e, kept)
  PROVE  TypeInv' /\ WithinFile'
<1>1. FilesGrow /\ files' \in [Paths -> Seq(Nat)]
  BY StepsGrow
<1>2. ASSUME NEW v, NEW e, NEW kept, Tears(j, v, e, kept)
      PROVE  /\ appended' \in [Jurisdictions -> Seq(Votes)]
             /\ torn' \in SUBSET Paths /\ buried' \in SUBSET Paths
             /\ \A k \in Jurisdictions :
                  appended'[k] = appended[k] \/ \E u \in Votes : appended'[k] = Append(appended[k], u)
  <2>1. v \in Votes /\ Append(appended[j], v) \in Seq(Votes)
    BY <1>2, AppendProperties DEF TypeInv, Tears
  <2> QED
    BY <1>2, <2>1, LogPathIsPath DEF TypeInv, Tears
<1>3. /\ appended' \in [Jurisdictions -> Seq(Votes)]
      /\ torn' \in SUBSET Paths /\ buried' \in SUBSET Paths
      /\ \A k \in Jurisdictions :
           appended'[k] = appended[k] \/ \E u \in Votes : appended'[k] = Append(appended[k], u)
  BY <1>2 DEF TypeInv
<1>4. <<>> \in Seq(Votes)
  BY EmptySeq
<1>5. TypeInv'
  BY <1>1, <1>3, <1>4, NewReader DEF TypeInv, CrashState
<1>6. ASSUME NEW k \in Jurisdictions
      PROVE  /\ replay'[k].position <= Len(files'[LogPath(k)])
             /\ replay'[k].floor <= Len(appended'[k])
  <2>1. replay'[k] = NotReplaying
    BY DEF CrashState
  <2> QED
    BY <1>1, <1>3, <2>1, WithinAfterGrowth
<1> QED
  BY <1>5, <1>6 DEF WithinFile, LogPath

(* The types after a step that touches no file. *)
LEMMA QuietKeepsTypes ==
  ASSUME TypeInv, WithinFile, Quiet
  PROVE  TypeInv' /\ WithinFile'
  BY DEF TypeInv, WithinFile, Quiet, LogPath

Moved(r, upTo, found) ==
  [r EXCEPT !.position = upTo, !.buffer = found.rest, !.given = r.given \o found.votes,
            !.status = IF found.threw THEN "threw" ELSE "reading"]

(* The types after a chunk, and where its reader is then. *)
LEMMA MovesKeepsTypes ==
  ASSUME TypeInv, WithinFile, NEW j \in Jurisdictions, NEW upTo, NEW found, Moves(j, upTo, found)
  PROVE  /\ TypeInv' /\ WithinFile'
         /\ replay'[j] = Moved(replay[j], upTo, found)
         /\ \A k \in Jurisdictions \ {j} : replay'[k] = replay[k]
<1> DEFINE r == replay[j]
           p == LogPath(j)
           all == r.given \o found.votes
           new == [r EXCEPT !.position = upTo, !.buffer = found.rest, !.given = all,
                            !.status = IF found.threw THEN "threw" ELSE "reading"]
<1>1. r \in Reader /\ r.position \in Nat /\ files[p] \in Seq(Nat) /\ Len(files[p]) \in Nat
      /\ r.given \in Seq(Readable) /\ r.floor <= Len(appended[j])
  <2>1. r \in Reader /\ files[p] \in Seq(Nat) /\ r.floor <= Len(appended[j])
    BY LogPathIsPath DEF TypeInv, WithinFile
  <2>2. Len(files[p]) \in Nat
    BY <2>1, LenProperties
  <2> QED
    BY <2>1, <2>2 DEF Reader
<1>2. upTo \in Nat /\ upTo <= Len(files[p])
  <2>1. upTo \in r.position .. Len(files[p])
    BY DEF Moves
  <2> HIDE DEF r, p
  <2> QED
    BY <1>1, <2>1
<1>3. found.votes \in Seq(Readable) /\ found.rest \in Seq(Nat) /\ found.threw \in BOOLEAN
  BY DEF Moves, Found
<1>4. all \in Seq(Readable)
  <2> HIDE DEF r
  <2> QED
    BY <1>1, <1>3, ConcatProperties
<1>5. replay' = [replay EXCEPT ![j] = new] /\ UNCHANGED <<files, stream, pending, voteCount, appended, torn, buried>>
  BY DEF Moves
<1>6. new \in Reader /\ new.position = upTo /\ new.floor = r.floor
  <2> HIDE DEF all, r
  <2> QED
    BY <1>1, <1>2, <1>3, <1>4 DEF Reader
<1>7. replay'[j] = new /\ \A k \in Jurisdictions \ {j} : replay'[k] = replay[k]
  <2> HIDE DEF new
  <2> QED
    BY <1>5 DEF TypeInv
<1> HIDE DEF new, r
<1>8. TypeInv'
  BY <1>5, <1>6 DEF TypeInv
<1>9. ASSUME NEW k \in Jurisdictions
      PROVE  /\ replay'[k].position <= Len(files'[LogPath(k)])
             /\ replay'[k].floor <= Len(appended'[k])
  <2>1. CASE k = j
    BY <1>1, <1>2, <1>5, <1>6, <1>7, <2>1
  <2>2. CASE k # j
    BY <1>5, <1>7, <2>2 DEF WithinFile
  <2> QED
    BY <2>1, <2>2
<1>10. WithinFile'
  BY <1>9 DEF WithinFile, LogPath
<1> QED
  BY <1>7, <1>8, <1>10, Zenon DEF new, r, Moved

(* The types after a replay has begun or ended, and its reader then. *)
LEMMA ReplaysKeepTypes ==
  ASSUME TypeInv, WithinFile, NEW j \in Jurisdictions, StartReplay(j) \/ EndReplay(j)
  PROVE  /\ TypeInv' /\ WithinFile'
         /\ StartReplay(j) => replay'[j] = [NotReplaying EXCEPT !.status = "reading", !.floor = Len(appended[j])]
         /\ EndReplay(j) => replay'[j] = [replay[j] EXCEPT !.status = "done"]
         /\ \A k \in Jurisdictions \ {j} : replay'[k] = replay[k]
<1> DEFINE new == IF StartReplay(j)
                  THEN [NotReplaying EXCEPT !.status = "reading", !.floor = Len(appended[j])]
                  ELSE [replay[j] EXCEPT !.status = "done"]
<1>1. ~(StartReplay(j) /\ EndReplay(j))
  BY DEF StartReplay, EndReplay
<1>2. /\ replay' = [replay EXCEPT ![j] = new]
      /\ UNCHANGED <<files, stream, pending, voteCount, appended, torn, buried>>
  BY <1>1 DEF StartReplay, EndReplay
<1>3. /\ Len(appended[j]) \in Nat /\ Len(files[LogPath(j)]) \in Nat /\ replay[j] \in Reader
      /\ replay[j].position <= Len(files[LogPath(j)]) /\ replay[j].floor <= Len(appended[j])
  <2>1. /\ appended[j] \in Seq(Votes) /\ files[LogPath(j)] \in Seq(Nat) /\ replay[j] \in Reader
        /\ replay[j].position <= Len(files[LogPath(j)]) /\ replay[j].floor <= Len(appended[j])
    BY LogPathIsPath DEF TypeInv, WithinFile
  <2> QED
    BY <2>1, LenProperties
<1>4. /\ new \in Reader /\ new.position <= Len(files[LogPath(j)]) /\ new.floor <= Len(appended[j])
  <2>1. CASE StartReplay(j)
    <3>1. /\ new.position = 0 /\ new.floor = Len(appended[j]) /\ new \in Reader
      BY <1>3, <2>1, NewReader DEF Reader
    <3> QED
      BY <1>3, <3>1
  <2>2. CASE ~StartReplay(j)
    <3>1. /\ new.position = replay[j].position /\ new.floor = replay[j].floor /\ new \in Reader
      BY <1>3, <2>2 DEF Reader
    <3> QED
      BY <1>3, <3>1
  <2> QED
    BY <2>1, <2>2
<1>5. replay'[j] = new /\ \A k \in Jurisdictions \ {j} : replay'[k] = replay[k]
  <2> HIDE DEF new
  <2> QED
    BY <1>2 DEF TypeInv
<1>6. StartReplay(j) => new = [NotReplaying EXCEPT !.status = "reading", !.floor = Len(appended[j])]
  OBVIOUS
<1>7. EndReplay(j) => new = [replay[j] EXCEPT !.status = "done"]
  BY <1>1
<1> HIDE DEF new
<1>8. TypeInv'
  BY <1>2, <1>4 DEF TypeInv
<1>9. ASSUME NEW k \in Jurisdictions
      PROVE  /\ replay'[k].position <= Len(files'[LogPath(k)])
             /\ replay'[k].floor <= Len(appended'[k])
  <2>1. CASE k = j
    BY <1>2, <1>4, <1>5, <2>1
  <2>2. CASE k # j
    BY <1>2, <1>5, <2>2 DEF WithinFile
  <2> QED
    BY <2>1, <2>2
<1>10. WithinFile'
  BY <1>9 DEF WithinFile, LogPath
<1> QED
  BY <1>5, <1>6, <1>7, <1>8, <1>10

(* The types after any step. *)
LEMMA TypesStep ==
  ASSUME TypeInv, WithinFile, Steps
  PROVE  TypeInv' /\ WithinFile'
  BY WritesKeepsTypes, CrashKeepsTypes, QuietKeepsTypes, MovesKeepsTypes, ReplaysKeepTypes DEF Steps

(* The types, always. *)
LEMMA TypesHold == Spec => [](TypeInv /\ WithinFile)
<1>1. Init => TypeInv /\ WithinFile
  BY TypesInitially
<1>2. TypeInv /\ WithinFile /\ [Next]_vars => (TypeInv /\ WithinFile)'
  BY EveryStep, TypesStep
<1> QED
  BY <1>1, <1>2, PTL DEF Spec

(* Values keep their types, whatever is appended, read, torn or shared: a  *)
(* reader's place stays within its file, which a crash never makes shorter.*)
THEOREM TypeCorrect == Spec => []TypeOK
<1>1. TypeInv /\ WithinFile => TypeOK
  <2> SUFFICES ASSUME TypeInv, WithinFile PROVE TypeOK
    OBVIOUS
  <2>1. ASSUME NEW j \in Jurisdictions
        PROVE  /\ pending[j] \in Seq(Votes) /\ appended[j] \in Seq(Votes) /\ voteCount[j] \in Nat
               /\ replay[j].status \in {"none", "reading", "done", "threw"}
               /\ replay[j].position \in 0 .. Len(files[LogPath(j)])
               /\ replay[j].floor \in 0 .. Len(appended[j])
    <3>1. /\ pending[j] \in Seq(Votes) /\ appended[j] \in Seq(Votes) /\ voteCount[j] \in Nat
          /\ replay[j] \in Reader /\ files[LogPath(j)] \in Seq(Nat)
      BY LogPathIsPath DEF TypeInv
    <3>2. Len(appended[j]) \in Nat /\ Len(files[LogPath(j)]) \in Nat
      BY <3>1, LenProperties
    <3>3. replay[j].position \in Nat /\ replay[j].floor \in Nat /\ replay[j].status \in {"none", "reading", "done", "threw"}
      BY <3>1 DEF Reader
    <3> QED
      BY <3>1, <3>2, <3>3 DEF WithinFile
  <2> QED
    BY <2>1 DEF TypeInv, TypeOK
<1> QED
  BY <1>1, TypesHold, PTL

(* No step takes a vote away that a replay of the file would yield, or     *)
(* changes one: not a write, not a crash that leaves a part of an entry,   *)
(* not a logger whose file is another's as well.                           *)
THEOREM ReadableVotesAlwaysStay == Spec => ReadableVotesStay
<1> DEFINE Kept == \A p \in Paths : IsPrefix(ReadEntries(files[p]).votes, ReadEntries(files'[p]).votes)
<1>1. TypeInv /\ WithinFile /\ [Next]_vars => [Kept]_vars
  <2> SUFFICES ASSUME TypeInv, WithinFile, [Next]_vars, NEW p \in Paths
               PROVE  IsPrefix(ReadEntries(files[p]).votes, ReadEntries(files'[p]).votes)
    OBVIOUS
  <2>1. FilesGrow
    BY EveryStep, StepsGrow
  <2>2. PICK x \in Seq(Nat) : files'[p] = files[p] \o x
    BY <2>1 DEF FilesGrow
  <2>3. files[p] \in Seq(Nat)
    BY DEF TypeInv
  <2> QED
    BY <2>2, <2>3, VotesAreExtended
<1> HIDE DEF Kept
<1>2. Spec => [][Kept]_vars
  BY <1>1, TypesHold, PTL DEF Spec
<1> QED
  BY <1>2 DEF Kept, ReadableVotesStay

-----------------------------------------------------------------------------
(* What the readers of a log find.  From here on no two jurisdictions      *)
(* share a file, and every value fits its 32 bytes: where they do not, a   *)
(* replay yields other votes than the ones appended.                       *)
OwnPaths == \A j, k \in Jurisdictions : j # k => LogPath(j) # LogPath(k)
Narrow   == \A v \in Votes : v.values \in Seq(OneCell)

(* The file holds the votes appended, with nothing behind them unless a    *)
(* crash has torn an entry.                                                *)
LogHolds(j) ==
  \E rest : /\ Finds(files[LogPath(j)], appended[j], rest)
            /\ LogPath(j) \notin torn => rest = <<>>

(* A reader has been given what is found in the part of the file it has    *)
(* read, and has the cells left over from it; at its end it has all that   *)
(* it has to have.                                                         *)
ReaderKeepsUp(j) ==
  LET r == replay[j]
  IN  /\ r.status # "threw"
      /\ r.status = "none" => r.given = <<>>
      /\ r.status = "reading" => Finds(Leading(files[LogPath(j)], r.position), r.given, r.buffer)
      /\ r.status = "done" => IsPrefix(r.given, appended[j]) /\ Len(r.given) >= r.floor

LogInv ==
  \A j \in Jurisdictions :
    /\ voteCount[j] <= Len(appended[j])
    /\ LogPath(j) \notin buried => LogHolds(j) /\ ReaderKeepsUp(j)

(* A narrow vote is read as itself. *)
LEMMA NarrowIsReadable ==
  ASSUME Narrow, NEW v \in Votes
  PROVE  v \in Readable /\ IsEntryOf(SerializeVote(v), v)
<1>1. v \in VoteType /\ v.values \in Seq(OneCell)
  BY VotesAreTyped DEF Narrow
<1> QED
  BY <1>1, SerializedComesBack DEF VoteType, Readable

(* So are sequences of them. *)
LEMMA NarrowVotesAreReadable ==
  ASSUME Narrow, NEW s \in Seq(Votes)
  PROVE  s \in Seq(Readable)
<1>1. \A v \in Votes : v \in Readable
  BY NarrowIsReadable
<1>2. \A i \in 1 .. Len(s) : s[i] \in Votes
  BY ElementOfSeq
<1>3. Len(s) \in Nat /\ s = [i \in 1 .. Len(s) |-> s[i]]
  BY LenProperties
<1>4. [i \in 1 .. Len(s) |-> s[i]] \in Seq(Readable)
  BY <1>1, <1>2, <1>3
<1> QED
  BY <1>3, <1>4

(* Prefixes. *)
LEMMA PrefixIs ==
  ASSUME NEW T, NEW s \in Seq(T), NEW t \in Seq(T), IsPrefix(s, t)
  PROVE  \E u \in Seq(T) : t = s \o u
<1>1. Len(s) \in Nat /\ Len(t) \in Nat /\ Len(s) <= Len(t) /\ SubSeq(s, 1, Len(s)) = SubSeq(t, 1, Len(s))
  BY LenProperties DEF IsPrefix
<1>2. Len(s) \in 0 .. Len(t)
  BY <1>1
<1>3. Leading(t, Len(s)) = s
  BY <1>1, SubSeqFull DEF Leading
<1>4. t = Leading(t, Len(s)) \o Behind(t, Len(s)) /\ Behind(t, Len(s)) \in Seq(T)
  BY <1>2, LeadingAndBehind, BehindIs
<1> QED
  BY <1>3, <1>4

(* A prefix stays one when more is put behind. *)
LEMMA PrefixOfMore ==
  ASSUME NEW T, NEW s \in Seq(T), NEW t \in Seq(T), NEW x \in Seq(T), IsPrefix(s, t)
  PROVE  IsPrefix(s, t \o x)
<1>1. PICK u \in Seq(T) : t = s \o u
  BY PrefixIs
<1>2. (s \o u) \o x = s \o (u \o x)
  BY ConcatAssociative
<1>3. u \o x \in Seq(T)
  BY ConcatProperties
<1>4. IsPrefix(s, s \o (u \o x))
  BY <1>3, FrontIsPrefix
<1> QED
  BY <1>1, <1>2, <1>4

(* It stays one when a vote is appended. *)
LEMMA PrefixOfAppended ==
  ASSUME Narrow, NEW s \in Seq(Readable), NEW t \in Seq(Votes), NEW v \in Votes, IsPrefix(s, t)
  PROVE  IsPrefix(s, Append(t, v))
<1>1. t \in Seq(Readable) /\ v \in Readable /\ <<v>> \in Seq(Readable)
  BY NarrowVotesAreReadable, NarrowIsReadable
<1>2. Append(t, v) = t \o <<v>>
  BY <1>1, AppendIsConcat
<1> QED
  BY <1>1, <1>2, PrefixOfMore

(* The part of a file that has been read is the same when the file grows.  *)
LEMMA ReadPartStays ==
  ASSUME NEW b \in Seq(Nat), NEW x \in Seq(Nat), NEW n \in Nat, n <= Len(b)
  PROVE  Leading(b \o x, n) = Leading(b, n)
<1>1. n \in 0 .. Len(b)
  BY LenProperties
<1> QED
  BY <1>1, PartsOfConcat

(* An entry, or a part of one, behind entries that are whole.              *)
LEMMA HoldsOneMore ==
  ASSUME NEW b, NEW votes, Finds(b, votes, <<>>), NEW v \in Readable, NEW e, IsEntryOf(e, v)
  PROVE  Finds(b \o e, Append(votes, v), <<>>)
<1>1. e \in Seq(Nat) /\ votes \in Seq(Readable)
  BY DEF IsEntryOf, Finds
<1>2. Finds(e, <<v>>, <<>>) /\ <<>> \o e = e
  BY <1>1, VoteInEntry, ConcatEmptySeq
<1>3. Finds(b \o e, votes \o <<v>>, <<>>)
  BY <1>1, <1>2, FindsOn
<1> QED
  BY <1>1, <1>3, AppendIsConcat

(* A part of an entry behind whole ones is left over. *)
LEMMA HoldsAPartMore ==
  ASSUME NEW b, NEW votes, Finds(b, votes, <<>>), NEW v, NEW e, IsEntryOf(e, v), NEW k \in Nat, k < Len(e)
  PROVE  Finds(b \o Leading(e, k), votes, Leading(e, k))
<1> DEFINE x == Leading(e, k)
<1>1. Finds(x, <<>>, x)
  BY NothingInPartOfEntry
<1> HIDE DEF x
<1>2. x \in Seq(Nat) /\ votes \in Seq(Readable)
  BY <1>1 DEF Finds
<1>3. <<>> \o x = x /\ votes \o <<>> = votes
  BY <1>2, ConcatEmptySeq
<1>4. Finds(b \o x, votes \o <<>>, x)
  BY <1>1, <1>2, <1>3, FindsOn
<1> QED
  BY <1>3, <1>4 DEF x

(* The logs, at first. *)
LEMMA LogInitially ==
  ASSUME Init
  PROVE  LogInv
<1> SUFFICES ASSUME NEW j \in Jurisdictions
             PROVE  /\ voteCount[j] <= Len(appended[j])
                    /\ LogHolds(j) /\ ReaderKeepsUp(j)
  BY DEF LogInv
<1>1. files[LogPath(j)] = <<>> /\ appended[j] = <<>> /\ voteCount[j] = 0 /\ replay[j] = NotReplaying
  BY LogPathIsPath DEF Init
<1>2. Finds(<<>>, <<>>, <<>>) /\ Len(<<>>) = 0
  BY NothingInNothing, EmptySeq
<1>3. LogHolds(j)
  BY <1>1, <1>2 DEF LogHolds
<1>4. ReaderKeepsUp(j)
  BY <1>1, NewReader DEF ReaderKeepsUp
<1> QED
  BY <1>1, <1>2, <1>3, <1>4

(* A log whose file, votes and reader stay as they are. *)
LEMMA LogStays ==
  ASSUME LogInv, NEW k \in Jurisdictions,
         files'[LogPath(k)] = files[LogPath(k)], appended'[k] = appended[k],
         replay'[k] = replay[k] \/ replay'[k] = NotReplaying,
         voteCount'[k] <= Len(appended[k]),
         LogPath(k) \in torn' <=> LogPath(k) \in torn,
         LogPath(k) \in buried' <=> LogPath(k) \in buried
  PROVE  /\ voteCount'[k] <= Len(appended'[k])
         /\ LogPath(k) \notin buried' => LogHolds(k)' /\ ReaderKeepsUp(k)'
<1>1. ASSUME LogPath(k) \notin buried' PROVE LogHolds(k)' /\ ReaderKeepsUp(k)'
  <2>1. LogHolds(k) /\ ReaderKeepsUp(k)
    BY <1>1 DEF LogInv
  <2>2. LogHolds(k)'
    BY <2>1 DEF LogHolds, LogPath
  <2>3. ReaderKeepsUp(k)'
    <3>1. CASE replay'[k] = replay[k]
      BY <2>1, <3>1 DEF ReaderKeepsUp, LogPath
    <3>2. CASE replay'[k] = NotReplaying
      BY <3>2, NewReader DEF ReaderKeepsUp
    <3> QED
      BY <3>1, <3>2
  <2> QED
    BY <2>2, <2>3
<1> QED
  BY <1>1

(* A reader keeps up with a log that grows behind it. *)
LEMMA ReaderStays ==
  ASSUME Narrow, TypeInv, WithinFile, NEW j \in Jurisdictions, ReaderKeepsUp(j),
         NEW v \in Votes, NEW x \in Seq(Nat),
         files'[LogPath(j)] = files[LogPath(j)] \o x, appended'[j] = Append(appended[j], v),
         replay'[j] = replay[j]
  PROVE  ReaderKeepsUp(j)'
<1> DEFINE r == replay[j]
           file == files[LogPath(j)]
<1>1. /\ file \in Seq(Nat) /\ r \in Reader /\ appended[j] \in Seq(Votes)
      /\ r.position \in Nat /\ r.given \in Seq(Readable) /\ r.position <= Len(file)
  BY LogPathIsPath DEF TypeInv, Reader, WithinFile
<1>2. r.status # "threw" /\ (r.status = "none" => r.given = <<>>)
  BY DEF ReaderKeepsUp
<1>3. r.status = "reading" => Finds(Leading(files'[LogPath(j)], r.position), r.given, r.buffer)
  <2>1. Leading(files'[LogPath(j)], r.position) = Leading(file, r.position)
    <3> HIDE DEF r, file
    <3>1. files'[LogPath(j)] = file \o x
      BY DEF file
    <3> QED
      BY <1>1, <3>1, ReadPartStays
  <2> QED
    BY <2>1 DEF ReaderKeepsUp
<1>4. r.status = "done" => IsPrefix(r.given, appended'[j]) /\ Len(r.given) >= r.floor
  BY <1>1, PrefixOfAppended DEF ReaderKeepsUp
<1> QED
  BY <1>2, <1>3, <1>4 DEF ReaderKeepsUp, LogPath

(* The logs after an entry has been written behind whole ones. *)
LEMMA WritesKeepsLogs ==
  ASSUME OwnPaths, Narrow, TypeInv, WithinFile, LogInv,
         NEW j \in Jurisdictions, NEW v, NEW e, Writes(j, v, e)
  PROVE  LogInv'
<1> DEFINE p == LogPath(j)
<1>1. /\ v \in Votes /\ e \in Seq(Nat) /\ e = SerializeVote(v)
      /\ files'[p] = files[p] \o e /\ appended'[j] = Append(appended[j], v)
      /\ voteCount'[j] = voteCount[j] + 1 /\ voteCount[j] \in Nat /\ appended[j] \in Seq(Votes)
      /\ replay' = replay /\ torn' = torn
      /\ buried' = IF p \in torn THEN buried \union {p} ELSE buried
  BY LogPathIsPath DEF Writes, TypeInv
<1>2. ASSUME NEW k \in Jurisdictions, k # j
      PROVE  /\ voteCount'[k] <= Len(appended'[k])
             /\ LogPath(k) \notin buried' => LogHolds(k)' /\ ReaderKeepsUp(k)'
  <2>1. LogPath(k) # p
    BY <1>2 DEF OwnPaths
  <2>2. /\ files'[LogPath(k)] = files[LogPath(k)] /\ appended'[k] = appended[k]
        /\ voteCount'[k] = voteCount[k]
    BY <1>2, <2>1, LogPathIsPath DEF Writes, TypeInv
  <2>3. voteCount[k] <= Len(appended[k])
    BY DEF LogInv
  <2> QED
    BY <1>1, <2>1, <2>2, <2>3, LogStays
<1>3. voteCount'[j] <= Len(appended'[j])
  <2>1. Len(Append(appended[j], v)) = Len(appended[j]) + 1 /\ Len(appended[j]) \in Nat
    BY <1>1, AppendProperties, LenProperties
  <2>2. voteCount[j] <= Len(appended[j])
    BY DEF LogInv
  <2> QED
    BY <1>1, <2>1, <2>2
<1>4. ASSUME p \notin buried' PROVE LogHolds(j)' /\ ReaderKeepsUp(j)'
  <2>1. p \notin torn /\ p \notin buried /\ LogHolds(j) /\ ReaderKeepsUp(j)
    BY <1>1, <1>4 DEF LogInv
  <2>2. Finds(files[p], appended[j], <<>>)
    BY <2>1 DEF LogHolds
  <2>3. Finds(files'[p], appended'[j], <<>>)
    BY <1>1, <2>2, NarrowIsReadable, HoldsOneMore
  <2>4. LogHolds(j)'
    BY <2>3 DEF LogHolds, LogPath
  <2> QED
    BY <1>1, <2>1, <2>4, ReaderStays
<1> QED
  BY <1>2, <1>3, <1>4 DEF LogInv, LogPath

(* The logs after a crash has kept a part of an entry, all of it or        *)
(* nothing.                                                                *)
LEMMA CrashKeepsLogs ==
  ASSUME OwnPaths, Narrow, TypeInv, WithinFile, LogInv, CrashState,
         \/ UNCHANGED <<files, appended, torn, buried>>
         \/ \E j \in Jurisdictions : \E v, e, kept : Tears(j, v, e, kept)
  PROVE  LogInv'
<1>1. ASSUME NEW k \in Jurisdictions PROVE Len(appended[k]) \in Nat /\ replay'[k] = NotReplaying /\ voteCount'[k] = 0
  <2>1. appended[k] \in Seq(Votes)
    BY DEF TypeInv
  <2> QED
    BY <2>1, LenProperties DEF CrashState
<1>2. CASE UNCHANGED <<files, appended, torn, buried>>
  <2>1. ASSUME NEW k \in Jurisdictions
        PROVE  /\ voteCount'[k] <= Len(appended'[k])
               /\ LogPath(k) \notin buried' => LogHolds(k)' /\ ReaderKeepsUp(k)'
    BY <1>1, <1>2, LogStays
  <2> QED
    BY <2>1 DEF LogInv, LogPath
<1>3. ASSUME NEW j \in Jurisdictions, NEW v, NEW e, NEW kept, Tears(j, v, e, kept)
      PROVE  LogInv'
  <2> DEFINE p == LogPath(j)
             x == Leading(e, kept)
  <2>1. /\ v \in Votes /\ e \in Seq(Nat) /\ e = SerializeVote(v) /\ kept \in 1 .. Len(e)
        /\ files'[p] = files[p] \o x
        /\ appended'[j] = IF kept = Len(e) THEN Append(appended[j], v) ELSE appended[j]
        /\ torn' = IF kept # Len(e) THEN torn \union {p} ELSE torn
        /\ buried' = IF p \in torn THEN buried \union {p} ELSE buried
        /\ appended[j] \in Seq(Votes)
    BY <1>3, LogPathIsPath DEF Tears, TypeInv
  <2>2. ASSUME NEW k \in Jurisdictions, k # j
        PROVE  /\ voteCount'[k] <= Len(appended'[k])
               /\ LogPath(k) \notin buried' => LogHolds(k)' /\ ReaderKeepsUp(k)'
    <3>1. LogPath(k) # p
      BY <2>2 DEF OwnPaths
    <3>2. files'[LogPath(k)] = files[LogPath(k)] /\ appended'[k] = appended[k]
      BY <1>3, <2>2, <3>1, LogPathIsPath DEF Tears, TypeInv
    <3> QED
      BY <1>1, <2>1, <3>1, <3>2, LogStays
  <2>3. voteCount'[j] <= Len(appended'[j])
    <3>1. Len(Append(appended[j], v)) = Len(appended[j]) + 1
      BY <2>1, AppendProperties
    <3> QED
      BY <1>1, <2>1, <3>1
  <2>4. ASSUME p \notin buried' PROVE LogHolds(j)' /\ ReaderKeepsUp(j)'
    <3>1. p \notin torn /\ p \notin buried /\ LogHolds(j)
      BY <2>1, <2>4 DEF LogInv
    <3>2. Finds(files[p], appended[j], <<>>)
      BY <3>1 DEF LogHolds
    <3>3. v \in Readable /\ IsEntryOf(e, v)
      BY <2>1, NarrowIsReadable
    <3>4. LogHolds(j)'
      <4>1. CASE kept = Len(e)
        <5>1. x = e
          BY <2>1, <4>1, BehindNothing
        <5>2. Finds(files'[p], appended'[j], <<>>)
          BY <2>1, <3>2, <3>3, <4>1, <5>1, HoldsOneMore
        <5> QED
          BY <5>2 DEF LogHolds, LogPath
      <4>2. CASE kept # Len(e)
        <5>1. kept \in Nat /\ kept < Len(e)
          BY <2>1, <4>2, LenProperties
        <5>2. Finds(files'[p], appended'[j], x) /\ p \in torn'
          BY <2>1, <3>2, <3>3, <4>2, <5>1, HoldsAPartMore
        <5> QED
          BY <5>2 DEF LogHolds, LogPath
      <4> QED
        BY <4>1, <4>2
    <3>5. ReaderKeepsUp(j)'
      BY <1>1, NewReader DEF ReaderKeepsUp
    <3> QED
      BY <3>4, <3>5
  <2> QED
    BY <2>2, <2>3, <2>4 DEF LogInv, LogPath
<1> QED
  BY <1>2, <1>3

(* The logs after a step that touches no file. *)
LEMMA QuietKeepsLogs ==
  ASSUME TypeInv, LogInv, Quiet
  PROVE  LogInv'
<1>1. ASSUME NEW k \in Jurisdictions
      PROVE  /\ voteCount'[k] <= Len(appended'[k])
             /\ LogPath(k) \notin buried' => LogHolds(k)' /\ ReaderKeepsUp(k)'
  <2>1. appended[k] \in Seq(Votes) /\ voteCount[k] \in Nat /\ voteCount'[k] \in Nat
        /\ voteCount'[k] <= voteCount[k] /\ voteCount[k] <= Len(appended[k])
    BY DEF TypeInv, Quiet, LogInv
  <2>2. voteCount'[k] <= Len(appended[k])
    BY <2>1, LenProperties
  <2> QED
    BY <2>2, LogStays DEF Quiet
<1> QED
  BY <1>1 DEF LogInv, LogPath

(* The part of a file up to a place, in two parts. *)
LEMMA FrontInParts ==
  ASSUME NEW b \in Seq(Nat), NEW m \in 0 .. Len(b), NEW n \in m .. Len(b)
  PROVE  LET x == Leading(Behind(b, m), n - m)
         IN  /\ x \in Seq(Nat)
             /\ Leading(b, n) = Leading(b, m) \o x
             /\ Leading(b, m) \in Seq(Nat)
<1>1. Len(b) \in Nat
  BY LenProperties
<1> DEFINE k == n - m
           c == Behind(b, m)
<1>2. k \in 0 .. Len(b) - m /\ m + k = n /\ n \in 0 .. Len(b)
  BY <1>1
<1>3. c \in Seq(Nat) /\ Len(c) = Len(b) - m
  BY BehindIs
<1> HIDE DEF k
<1>4. Leading(c, k) = SubSeq(b, m + 1, m + k)
  BY <1>2, BehindBehind
<1>5. Leading(c, k) \in Seq(Nat)
  <2> HIDE DEF c
  <2> QED
    BY <1>2, <1>3, LeadingIs
<1>6. SubSeq(b, 1, n) = SubSeq(b, 1, m) \o SubSeq(b, m + 1, n)
  <2>1. 1 \in 1 .. Len(b) + 1 /\ m \in 1 - 1 .. Len(b) /\ n \in m .. Len(b)
    BY <1>1
  <2> QED
    BY <2>1, ConcatAdjacentSubSeq
<1>7. Leading(b, m) \in Seq(Nat)
  BY LeadingIs
<1>8. Leading(b, n) = Leading(b, m) \o Leading(c, k)
  BY <1>2, <1>4, <1>6, Zenon DEF Leading
<1> QED
  BY <1>5, <1>7, <1>8 DEF k, c

(* Reading on in a file that holds whole entries throws nothing.           *)
LEMMA ReadingOn ==
  ASSUME NEW b, NEW all, NEW left, Finds(b, all, left),
         NEW m \in 0 .. Len(b), NEW n \in m .. Len(b),
         NEW votes, NEW rest, Finds(Leading(b, m), votes, rest)
  PROVE  LET found == ReadEntries(rest \o Leading(Behind(b, m), n - m))
         IN  /\ ~found.threw
             /\ Finds(Leading(b, n), votes \o found.votes, found.rest)
<1> DEFINE x == Leading(Behind(b, m), n - m)
           a == Leading(b, m)
           y == Leading(b, n)
           z == Behind(b, n)
           found == ReadEntries(rest \o x)
<1>1. b \in Seq(Nat)
  BY DEF Finds
<1>2. x \in Seq(Nat) /\ y = a \o x /\ a \in Seq(Nat)
  BY <1>1, FrontInParts
<1>3. n \in 0 .. Len(b)
  BY <1>1, LenProperties
<1>4. b = y \o z /\ y \in Seq(Nat) /\ z \in Seq(Nat)
  BY <1>1, <1>3, LeadingAndBehind, LeadingIs, BehindIs
<1> HIDE DEF x, a, y, z
<1>5. Finds(y, ReadEntries(y).votes, ReadEntries(y).rest)
  BY <1>4, FoundInPart
<1>6. ReadEntries(a).votes = votes /\ ReadEntries(a).rest = rest
  BY FoundOnce DEF a
<1>7. /\ Finds(rest \o x, found.votes, ReadEntries(y).rest)
      /\ ReadEntries(y).votes = votes \o found.votes
  BY <1>2, <1>5, <1>6, FoundInPart
<1>8. ~found.threw /\ found.rest = ReadEntries(y).rest
  <2> HIDE DEF found
  <2>1. Finds(rest \o x, found.votes, ReadEntries(y).rest)
    BY <1>7
  <2>2. ReadEntries(rest \o x).rest = ReadEntries(y).rest /\ ~ReadEntries(rest \o x).threw
    BY <2>1, FoundOnce
  <2> QED
    BY <2>2 DEF found
<1>9. Finds(y, votes \o found.votes, found.rest)
  BY <1>5, <1>7, <1>8
<1> QED
  BY <1>8, <1>9 DEF y, x

(* What has been given of a log is in front of what was appended to it.    *)
LEMMA GivenIsPrefix ==
  ASSUME NEW b, NEW all, NEW left, Finds(b, all, left),
         NEW m \in 0 .. Len(b), NEW votes, NEW rest, Finds(Leading(b, m), votes, rest)
  PROVE  IsPrefix(votes, all) /\ (m = Len(b) => votes = all)
<1> DEFINE a == Leading(b, m)
           x == Behind(b, m)
           s == ReadEntries(rest \o x)
<1>1. b \in Seq(Nat) /\ votes \in Seq(Readable)
  BY DEF Finds
<1>2. b = a \o x /\ a \in Seq(Nat) /\ x \in Seq(Nat)
  BY <1>1, LeadingAndBehind, LeadingIs, BehindIs
<1>3. m = Len(b) => a = b
  BY <1>1, BehindNothing
<1>4. ReadEntries(a).votes = votes /\ ReadEntries(a).rest = rest
  BY FoundOnce
<1> HIDE DEF a, x
<1>5. Finds(rest \o x, s.votes, left) /\ all = votes \o s.votes
  BY <1>2, <1>4, FoundInPart
<1> HIDE DEF s
<1>6. s.votes \in Seq(Readable)
  BY <1>5 DEF Finds
<1>7. IsPrefix(votes, all)
  BY <1>1, <1>5, <1>6, FrontIsPrefix
<1>8. m = Len(b) => votes = all
  BY <1>3, <1>4, FoundOnce
<1> QED
  BY <1>7, <1>8

(* The logs after a chunk has been read. *)
LEMMA MovesKeepsLogs ==
  ASSUME TypeInv, WithinFile, LogInv, NEW j \in Jurisdictions, NEW upTo, NEW found, Moves(j, upTo, found)
  PROVE  LogInv'
<1> DEFINE r == replay[j]
           p == LogPath(j)
<1>1. /\ replay'[j] = Moved(r, upTo, found)
      /\ \A k \in Jurisdictions \ {j} : replay'[k] = replay[k]
  BY MovesKeepsTypes
<1>2. ASSUME NEW k \in Jurisdictions PROVE voteCount'[k] <= Len(appended'[k])
  BY DEF LogInv, Moves
<1>3. ASSUME NEW k \in Jurisdictions, k # j, LogPath(k) \notin buried'
      PROVE  LogHolds(k)' /\ ReaderKeepsUp(k)'
  BY <1>1, <1>2, <1>3, LogStays DEF Moves
<1>4. ASSUME p \notin buried' PROVE LogHolds(j)' /\ ReaderKeepsUp(j)'
  <2>1. LogHolds(j) /\ ReaderKeepsUp(j) /\ r.status = "reading"
    BY <1>4 DEF LogInv, Moves
  <2>2. PICK left : Finds(files[p], appended[j], left)
    BY <2>1 DEF LogHolds
  <2>3. Finds(Leading(files[p], r.position), r.given, r.buffer)
    BY <2>1 DEF ReaderKeepsUp
  <2>4. r.position \in 0 .. Len(files[p]) /\ upTo \in r.position .. Len(files[p])
        /\ found = ReadEntries(r.buffer \o Leading(Behind(files[p], r.position), upTo - r.position))
    <3>1. r.position \in Nat /\ r.position <= Len(files[p]) /\ files[p] \in Seq(Nat)
      BY LogPathIsPath DEF TypeInv, WithinFile, Reader
    <3> HIDE DEF r, p
    <3>2. r.position \in 0 .. Len(files[p])
      BY <3>1, LenProperties
    <3> QED
      BY <3>2 DEF Moves, r, p
  <2> DEFINE m == r.position
             b == files[p]
             given == r.given
             buffer == r.buffer
  <2>5. /\ ~found.threw
        /\ Finds(Leading(files[p], upTo), r.given \o found.votes, found.rest)
    <3>1. /\ Finds(b, appended[j], left) /\ Finds(Leading(b, m), given, buffer)
          /\ m \in 0 .. Len(b) /\ upTo \in m .. Len(b)
          /\ found = ReadEntries(buffer \o Leading(Behind(b, m), upTo - m))
      BY <2>2, <2>3, <2>4
    <3> HIDE DEF m, b, given, buffer
    <3>2. ~found.threw /\ Finds(Leading(b, upTo), given \o found.votes, found.rest)
      BY <3>1, ReadingOn
    <3> QED
      BY <3>2 DEF m, b, given, buffer
  <2>6. /\ replay'[j].status = "reading" /\ replay'[j].position = upTo
        /\ replay'[j].given = r.given \o found.votes /\ replay'[j].buffer = found.rest
    <3>1. replay[j] \in Reader
      BY DEF TypeInv
    <3> QED
      BY <1>1, <2>5, <3>1 DEF Reader, Moved
  <2>7. files' = files /\ appended' = appended /\ torn' = torn
    BY DEF Moves
  <2>8. LogHolds(j)'
    BY <2>1, <2>7 DEF LogHolds, LogPath
  <2>9. ReaderKeepsUp(j)'
    BY <2>5, <2>6, <2>7 DEF ReaderKeepsUp, LogPath
  <2> QED
    BY <2>8, <2>9
<1> QED
  BY <1>2, <1>3, <1>4 DEF LogInv, LogPath

(* The logs after a replay has begun or ended. *)
LEMMA ReplaysKeepLogs ==
  ASSUME Narrow, TypeInv, WithinFile, LogInv, NEW j \in Jurisdictions, StartReplay(j) \/ EndReplay(j)
  PROVE  LogInv'
<1> DEFINE r == replay[j]
           p == LogPath(j)
<1>1. /\ StartReplay(j) => replay'[j] = [NotReplaying EXCEPT !.status = "reading", !.floor = Len(appended[j])]
      /\ EndReplay(j) => replay'[j] = [r EXCEPT !.status = "done"]
      /\ \A k \in Jurisdictions \ {j} : replay'[k] = replay[k]
  BY ReplaysKeepTypes
<1>2. UNCHANGED <<files, voteCount, appended, torn, buried>>
  BY DEF StartReplay, EndReplay
<1>3. ASSUME NEW k \in Jurisdictions PROVE voteCount'[k] <= Len(appended'[k])
  BY <1>2 DEF LogInv
<1>4. ASSUME NEW k \in Jurisdictions, k # j, LogPath(k) \notin buried'
      PROVE  LogHolds(k)' /\ ReaderKeepsUp(k)'
  BY <1>1, <1>2, <1>3, <1>4, LogStays
<1>5. ASSUME p \notin buried' PROVE LogHolds(j)' /\ ReaderKeepsUp(j)'
  <2>1. LogHolds(j) /\ ReaderKeepsUp(j)
    BY <1>2, <1>5 DEF LogInv
  <2>2. LogHolds(j)'
    BY <1>2, <2>1 DEF LogHolds, LogPath
  <2>3. files[p] \in Seq(Nat) /\ r \in Reader
    BY LogPathIsPath DEF TypeInv
  <2>4. CASE StartReplay(j)
    <3>1. /\ replay'[j].status = "reading" /\ replay'[j].position = 0
          /\ replay'[j].given = <<>> /\ replay'[j].buffer = <<>>
      BY <1>1, <2>4, NewReader
    <3>2. Leading(files[p], 0) = <<>>
      BY <2>3, BehindNothing
    <3>3. ReaderKeepsUp(j)'
      BY <1>2, <3>1, <3>2, NothingInNothing DEF ReaderKeepsUp, LogPath
    <3> QED
      BY <2>2, <3>3
  <2>5. CASE EndReplay(j)
    <3>1. /\ replay'[j].status = "done" /\ replay'[j].given = r.given /\ replay'[j].floor = r.floor
      BY <1>1, <2>3, <2>5 DEF Reader
    <3>2. r.status = "reading" /\ r.position = Len(files[p]) /\ r.floor <= Len(appended[j])
      BY <2>5 DEF EndReplay, WithinFile
    <3>3. PICK left : Finds(files[p], appended[j], left)
      BY <2>1 DEF LogHolds
    <3>4. Finds(Leading(files[p], r.position), r.given, r.buffer)
      BY <2>1, <3>2 DEF ReaderKeepsUp
    <3>5. r.given = appended[j]
      <4> DEFINE m == r.position
                 b == files[p]
                 given == r.given
                 buffer == r.buffer
      <4>1. Len(b) \in Nat /\ m = Len(b)
        BY <2>3, <3>2, LenProperties
      <4>2. m \in 0 .. Len(b) /\ Finds(b, appended[j], left) /\ Finds(Leading(b, m), given, buffer)
        BY <3>3, <3>4, <4>1
      <4> HIDE DEF m, b, given, buffer
      <4>3. given = appended[j]
        BY <4>1, <4>2, GivenIsPrefix
      <4> QED
        BY <4>3 DEF given
    <3>6. IsPrefix(r.given, appended[j]) /\ Len(r.given) >= r.floor
      <4>1. Len(appended[j]) \in Nat /\ r.floor \in Nat
        <5>1. appended[j] \in Seq(Votes) /\ r.floor \in Nat
          BY <2>3 DEF TypeInv, Reader
        <5> QED
          BY <5>1, LenProperties
      <4>2. IsPrefix(appended[j], appended[j])
        BY <4>1 DEF IsPrefix
      <4> QED
        BY <3>2, <3>5, <4>1, <4>2
    <3>7. ReaderKeepsUp(j)'
      BY <1>2, <3>1, <3>6 DEF ReaderKeepsUp
    <3> QED
      BY <2>2, <3>7
  <2> QED
    BY <2>4, <2>5
<1> QED
  BY <1>3, <1>4, <1>5 DEF LogInv, LogPath

(* The logs after any step. *)
LEMMA LogStep ==
  ASSUME OwnPaths, Narrow, TypeInv, WithinFile, LogInv, Steps
  PROVE  LogInv'
  BY WritesKeepsLogs, CrashKeepsLogs, QuietKeepsLogs, MovesKeepsLogs, ReplaysKeepLogs DEF Steps

(* The logs, always. *)
LEMMA LogHoldsAlways ==
  ASSUME OwnPaths, Narrow
  PROVE  Spec => [](TypeInv /\ WithinFile /\ LogInv)
<1>1. Init => TypeInv /\ WithinFile /\ LogInv
  BY TypesInitially, LogInitially
<1>2. TypeInv /\ WithinFile /\ LogInv /\ [Next]_vars => (TypeInv /\ WithinFile /\ LogInv)'
  BY EveryStep, TypesStep, LogStep
<1> QED
  BY <1>1, <1>2, PTL DEF Spec

(* The votes that have been given, of a log that is not buried.            *)
LEMMA GivenOf ==
  ASSUME TypeInv, WithinFile, LogInv, NEW j \in Jurisdictions, LogPath(j) \notin buried
  PROVE  /\ replay[j].status # "threw"
         /\ IsPrefix(replay[j].given, appended[j])
         /\ ReadEntries(files[LogPath(j)]).votes = appended[j]
<1> DEFINE r == replay[j]
           b == files[LogPath(j)]
           m == r.position
           given == r.given
           buffer == r.buffer
<1>1. LogHolds(j) /\ ReaderKeepsUp(j)
  BY DEF LogInv
<1>2. PICK left : Finds(b, appended[j], left)
  BY <1>1 DEF LogHolds
<1>3. r \in Reader /\ m \in Nat /\ m <= Len(b) /\ b \in Seq(Nat) /\ appended[j] \in Seq(Votes)
  BY LogPathIsPath DEF TypeInv, WithinFile, Reader
<1>4. r.status # "threw"
  BY <1>1 DEF ReaderKeepsUp
<1>5. IsPrefix(given, appended[j])
  <2>1. CASE r.status = "none"
    <3>1. given = <<>> /\ Len(<<>>) = 0 /\ Len(appended[j]) \in Nat
      BY <1>1, <1>3, <2>1, LenProperties DEF ReaderKeepsUp
    <3>2. SubSeq(<<>>, 1, 0) = <<>> /\ SubSeq(appended[j], 1, 0) = <<>>
      BY <1>3, SubSeqEmpty, EmptySeq
    <3> QED
      BY <3>1, <3>2 DEF IsPrefix
  <2>2. CASE r.status = "reading"
    <3>1. Finds(Leading(b, m), given, buffer)
      BY <1>1, <2>2 DEF ReaderKeepsUp
    <3> HIDE DEF b, m, given, buffer
    <3>2. m \in 0 .. Len(b)
      BY <1>3, LenProperties
    <3> QED
      BY <1>2, <3>1, <3>2, GivenIsPrefix
  <2>3. CASE r.status = "done"
    BY <1>1, <2>3 DEF ReaderKeepsUp
  <2> QED
    BY <1>3, <1>4, <2>1, <2>2, <2>3 DEF Reader
<1>6. ReadEntries(b).votes = appended[j]
  <2> HIDE DEF b
  <2> QED
    BY <1>2, FoundOnce
<1> QED
  BY <1>4, <1>5, <1>6

(* The invariant says that replays are faithful. *)
LEMMA Faithful == TypeInv /\ WithinFile /\ LogInv => ReplayFaithful
  BY GivenOf DEF ReplayFaithful

(* With a file for each jurisdiction and no value of more than 32 bytes, a *)
(* replay never throws and yields the votes that were appended, from the   *)
(* first one on, wherever the chunks are cut and whatever is appended      *)
(* while it reads, as long as nothing is written behind a torn entry.      *)
THEOREM ReplayAlwaysFaithful ==
  ASSUME OwnPaths, Narrow
  PROVE  Spec => []ReplayFaithful
  BY Faithful, LogHoldsAlways, PTL

(* Under the same conditions a replay that ends has all the votes that     *)
(* were in the file when it began, and getVoteCount never counts more than *)
(* the file would yield.                                                   *)
THEOREM ReplayAlwaysComplete ==
  ASSUME OwnPaths, Narrow
  PROVE  Spec => []ReplayComplete
<1>1. TypeInv /\ WithinFile /\ LogInv => ReplayComplete
  <2> SUFFICES ASSUME TypeInv, WithinFile, LogInv,
                      NEW j \in Jurisdictions, LogPath(j) \notin buried
               PROVE  /\ replay[j].status = "done" => Len(replay[j].given) >= replay[j].floor
                      /\ voteCount[j] <= Len(ReadEntries(files[LogPath(j)]).votes)
    BY DEF ReplayComplete
  <2>1. ReadEntries(files[LogPath(j)]).votes = appended[j]
    BY GivenOf
  <2>2. voteCount[j] <= Len(appended[j]) /\ ReaderKeepsUp(j)
    BY DEF LogInv
  <2> QED
    BY <2>1, <2>2 DEF ReaderKeepsUp
<1> QED
  BY <1>1, LogHoldsAlways, PTL

-----------------------------------------------------------------------------
(* The loggers implement one journal each.  What the journals are seen as: *)
LogEntries ==
  [j \in Jurisdictions |->
    IF LogPath(j) \in buried THEN appended[j]
    ELSE ReadEntries(files[LogPath(j)]).votes]
LogReading ==
  [j \in Jurisdictions |->
    CASE LogPath(j) \in buried \/ replay[j].status \in {"none", "threw"} -> Idle
      [] LogPath(j) \notin buried /\ replay[j].status = "done" -> Finished
      [] OTHER -> [given |-> Len(replay[j].given), floor |-> replay[j].floor]]

LogState == TypeInv /\ WithinFile /\ LogInv

EntriesMatch == LogEntries = appended

(* The entries of the journal are the votes appended. *)
LEMMA EntriesAre == LogState => EntriesMatch
<1> SUFFICES ASSUME LogState PROVE EntriesMatch
  OBVIOUS
<1>1. ASSUME NEW j \in Jurisdictions, LogPath(j) \notin buried
      PROVE  ReadEntries(files[LogPath(j)]).votes = appended[j]
  BY <1>1, GivenOf DEF LogState
<1>2. LogEntries = [j \in Jurisdictions |-> appended[j]]
  BY <1>1 DEF LogEntries
<1>3. appended = [j \in Jurisdictions |-> appended[j]]
  BY DEF LogState, TypeInv
<1> QED
  BY <1>2, <1>3 DEF EntriesMatch

(* They are after a step as well. *)
LEMMA EntriesAreNext == LogState' => EntriesMatch'
  BY EntriesAre, PTL

(* What a reader is seen as. *)
Shown(isBuried, r) ==
  IF isBuried \/ r.status = "none" THEN Idle
  ELSE IF r.status = "done" THEN Finished
  ELSE [given |-> Len(r.given), floor |-> r.floor]

Readings ==
  LogReading = [j \in Jurisdictions |-> Shown(LogPath(j) \in buried, replay[j])]

(* No reader of a log that is not buried has thrown, so a reader is seen   *)
(* as this.                                                                *)
LEMMA ReadingsAre == LogState => Readings
<1> SUFFICES ASSUME LogState PROVE Readings
  OBVIOUS
<1>1. ASSUME NEW j \in Jurisdictions
      PROVE  LogReading[j] = Shown(LogPath(j) \in buried, replay[j])
  <2>1. /\ replay[j].status \in {"none", "reading", "done", "threw"}
        /\ LogPath(j) \notin buried => replay[j].status # "threw"
    BY GivenOf DEF LogState, TypeInv, Reader
  <2>2. CASE LogPath(j) \in buried \/ replay[j].status = "none"
    BY <2>2 DEF LogReading, Shown
  <2>3. CASE LogPath(j) \notin buried /\ replay[j].status = "done"
    BY <2>3 DEF LogReading, Shown
  <2>4. CASE LogPath(j) \notin buried /\ replay[j].status = "reading"
    BY <2>4 DEF LogReading, Shown
  <2> QED
    BY <2>1, <2>2, <2>3, <2>4
<1>2. LogReading = [j \in Jurisdictions |-> LogReading[j]]
  BY DEF LogReading
<1> QED
  BY <1>1, <1>2 DEF Readings

(* It is after a step as well. *)
LEMMA ReadingsAreNext == LogState' => Readings'
  BY ReadingsAre, PTL

(* The journal's actions, in the words of the mapping. *)
JournalStep ==
  \/ UNCHANGED <<LogEntries, LogReading>>
  \/ /\ \E ended \in SUBSET Jurisdictions :
          LogReading' = [l \in Jurisdictions |-> IF l \in ended THEN Idle ELSE LogReading[l]]
     /\ \/ UNCHANGED LogEntries
        \/ \E l \in Jurisdictions, v \in Votes :
             LogEntries' = [LogEntries EXCEPT ![l] = Append(@, v)]
  \/ \E l \in Jurisdictions :
       /\ UNCHANGED LogEntries
       /\ \/ /\ LogReading[l] \in {Idle, Finished}
             /\ LogReading' = [LogReading EXCEPT ![l] = [given |-> 0, floor |-> Len(LogEntries[l])]]
          \/ /\ LogReading[l] \notin {Idle, Finished}
             /\ \E k \in LogReading[l].given + 1 .. Len(LogEntries[l]) :
                  LogReading' = [LogReading EXCEPT ![l].given = k]
          \/ /\ LogReading[l] \notin {Idle, Finished}
             /\ LogReading[l].given >= LogReading[l].floor
             /\ LogReading' = [LogReading EXCEPT ![l] = Finished]

(* These are the actions of Journal. *)
LEMMA JournalStepIsOne == JournalStep => [Log!Next]_(Log!vars)
<1> SUFFICES ASSUME JournalStep PROVE [Log!Next]_(Log!vars)
  OBVIOUS
<1>1. CASE UNCHANGED <<LogEntries, LogReading>>
  BY <1>1, Zenon DEF Log!vars, LogEntries, LogReading
<1>2. CASE /\ \E ended \in SUBSET Jurisdictions :
                LogReading' = [l \in Jurisdictions |-> IF l \in ended THEN Idle ELSE LogReading[l]]
           /\ \/ UNCHANGED LogEntries
              \/ \E l \in Jurisdictions, v \in Votes :
                   LogEntries' = [LogEntries EXCEPT ![l] = Append(@, v)]
  <2>1. Log!Interrupt
    BY <1>2, Zenon DEF Log!Interrupt, LogEntries, LogReading
  <2> QED
    BY <2>1 DEF Log!Next
<1>3. ASSUME NEW l \in Jurisdictions, UNCHANGED LogEntries,
             LogReading[l] \in {Idle, Finished},
             LogReading' = [LogReading EXCEPT ![l] = [given |-> 0, floor |-> Len(LogEntries[l])]]
      PROVE  [Log!Next]_(Log!vars)
  <2>1. Log!Start(l)
    BY <1>3, Zenon DEF Log!Start, LogEntries, LogReading
  <2> QED
    BY <2>1 DEF Log!Next
<1>4. ASSUME NEW l \in Jurisdictions, UNCHANGED LogEntries,
             LogReading[l] \notin {Idle, Finished},
             \E k \in LogReading[l].given + 1 .. Len(LogEntries[l]) :
               LogReading' = [LogReading EXCEPT ![l].given = k]
      PROVE  [Log!Next]_(Log!vars)
  <2>1. Log!Read(l)
    BY <1>4, Zenon DEF Log!Read, LogEntries, LogReading
  <2> QED
    BY <2>1 DEF Log!Next
<1>5. ASSUME NEW l \in Jurisdictions, UNCHANGED LogEntries,
             LogReading[l] \notin {Idle, Finished},
             LogReading[l].given >= LogReading[l].floor,
             LogReading' = [LogReading EXCEPT ![l] = Finished]
      PROVE  [Log!Next]_(Log!vars)
  <2>1. Log!Finish(l)
    BY <1>5, Zenon DEF Log!Finish, LogEntries, LogReading
  <2> QED
    BY <2>1 DEF Log!Next
<1> QED
  BY <1>1, <1>2, <1>3, <1>4, <1>5, Zenon DEF JournalStep

(* Replays are faithful after a step as well. *)
LEMMA FaithfulNext == LogState' => ReplayFaithful'
  BY Faithful, PTL DEF LogState

(* The mapped variables of a step, by the state of the loggers.            *)
MappedStep ==
  /\ LogEntries = appended /\ LogEntries' = appended'
  /\ LogReading = [k \in Jurisdictions |-> Shown(LogPath(k) \in buried, replay[k])]
  /\ LogReading' = [k \in Jurisdictions |-> Shown(LogPath(k) \in buried', replay'[k])]

(* The mapped variables are these. *)
LEMMA StepIsMapped ==
  ASSUME LogState, LogState'
  PROVE  MappedStep
<1>1. EntriesMatch /\ EntriesMatch' /\ Readings /\ Readings'
  BY EntriesAre, EntriesAreNext, ReadingsAre, ReadingsAreNext
<1> QED
  BY <1>1 DEF EntriesMatch, Readings, MappedStep, LogPath

(* A step that no reader and no log notices. *)
LEMMA QuietIsJournal ==
  ASSUME MappedStep, UNCHANGED <<appended, replay, buried>>
  PROVE  JournalStep
  BY DEF MappedStep, JournalStep

(* A write, or a crash: a vote more or none, and readers that end early. *)
LEMMA InterruptIsJournal ==
  ASSUME LogState, MappedStep, buried \subseteq buried',
         \A k \in Jurisdictions : replay'[k] = replay[k] \/ replay'[k].status = "none",
         \/ UNCHANGED appended
         \/ \E j \in Jurisdictions, v \in Votes : appended' = [appended EXCEPT ![j] = Append(appended[j], v)]
  PROVE  JournalStep
<1> DEFINE ended == {k \in Jurisdictions : LogPath(k) \in buried' \/ replay'[k].status = "none"}
<1>1. ended \in SUBSET Jurisdictions
  OBVIOUS
<1>2. ASSUME NEW k \in Jurisdictions
      PROVE  Shown(LogPath(k) \in buried', replay'[k]) = IF k \in ended THEN Idle ELSE LogReading[k]
  <2>1. CASE k \in ended
    BY <2>1 DEF Shown
  <2>2. CASE k \notin ended
    <3>1. LogPath(k) \notin buried' /\ LogPath(k) \notin buried /\ replay'[k] = replay[k]
      BY <2>2
    <3>2. LogReading[k] = Shown(LogPath(k) \in buried, replay[k])
      BY DEF MappedStep
    <3> QED
      BY <2>2, <3>1, <3>2 DEF Shown
  <2> QED
    BY <2>1, <2>2
<1> HIDE DEF ended
<1>3. LogReading' = [k \in Jurisdictions |-> IF k \in ended THEN Idle ELSE LogReading[k]]
  BY <1>2 DEF MappedStep
<1>4. \/ UNCHANGED LogEntries
      \/ \E l \in Jurisdictions, v \in Votes : LogEntries' = [LogEntries EXCEPT ![l] = Append(@, v)]
  BY DEF MappedStep
<1> QED
  BY <1>1, <1>3, <1>4 DEF JournalStep

(* A step of one reader. *)
LEMMA ReaderMapped ==
  ASSUME LogState, MappedStep, UNCHANGED <<appended, buried>>, NEW j \in Jurisdictions,
         \A k \in Jurisdictions \ {j} : replay'[k] = replay[k]
  PROVE  /\ UNCHANGED LogEntries
         /\ LogReading[j] = Shown(LogPath(j) \in buried, replay[j])
         /\ LogReading' = [LogReading EXCEPT ![j] = Shown(LogPath(j) \in buried, replay'[j])]
  BY DEF MappedStep

(* Nothing a reader is given is taken for its being idle or finished.      *)
LEMMA GivenIsNotIdle ==
  ASSUME NEW n \in Nat, NEW f
  PROVE  [given |-> n, floor |-> f] \notin {Idle, Finished} /\ Idle # Finished
<1>1. [given |-> n, floor |-> f].given = n /\ Idle.given = -1 /\ Finished.given = -2
  BY DEF Idle, Finished
<1> QED
  BY <1>1

(* A replay begins, or begins behind a torn entry, where nothing is        *)
(* promised.                                                               *)
LEMMA StartIsJournal ==
  ASSUME LogState, MappedStep, NEW j \in Jurisdictions, StartReplay(j)
  PROVE  JournalStep
<1>1. UNCHANGED <<appended, buried>> /\ replay[j].status # "reading"
  BY DEF StartReplay
<1>2. /\ replay'[j] = [NotReplaying EXCEPT !.status = "reading", !.floor = Len(appended[j])]
      /\ \A k \in Jurisdictions \ {j} : replay'[k] = replay[k]
  BY ReplaysKeepTypes DEF LogState
<1>3. /\ UNCHANGED LogEntries
      /\ LogReading[j] = Shown(LogPath(j) \in buried, replay[j])
      /\ LogReading' = [LogReading EXCEPT ![j] = Shown(LogPath(j) \in buried, replay'[j])]
  BY <1>1, <1>2, ReaderMapped
<1>4. CASE LogPath(j) \in buried
  <2>1. LogReading[j] = Idle /\ LogReading' = [LogReading EXCEPT ![j] = Idle]
    BY <1>3, <1>4 DEF Shown
  <2>2. LogReading' = LogReading
    BY <2>1 DEF MappedStep
  <2> QED
    BY <1>3, <2>2 DEF JournalStep
<1>5. CASE LogPath(j) \notin buried
  <2>1. LogReading[j] \in {Idle, Finished}
    <3>1. replay[j].status \in {"none", "done"}
      BY <1>1, <1>5, GivenOf DEF LogState, TypeInv, Reader
    <3> QED
      BY <1>3, <1>5, <3>1 DEF Shown
  <2>2. Shown(LogPath(j) \in buried, replay'[j]) = [given |-> 0, floor |-> Len(appended[j])]
    <3>1. /\ replay'[j].status = "reading" /\ replay'[j].floor = Len(appended[j])
          /\ replay'[j].given = <<>> /\ Len(<<>>) = 0
      BY <1>2, NewReader
    <3> QED
      BY <1>5, <3>1 DEF Shown
  <2>3. LogReading' = [LogReading EXCEPT ![j] = [given |-> 0, floor |-> Len(LogEntries[j])]]
    BY <1>3, <2>2 DEF MappedStep
  <2> QED
    BY <1>3, <2>1, <2>3 DEF JournalStep
<1> QED
  BY <1>4, <1>5

(* A chunk gives votes, or none. *)
LEMMA MoveIsJournal ==
  ASSUME LogState, LogState', MappedStep, NEW j \in Jurisdictions, NEW upTo, NEW found, Moves(j, upTo, found)
  PROVE  JournalStep
<1> DEFINE r == replay[j]
           s == replay'[j]
<1>1. UNCHANGED <<appended, buried>> /\ r.status = "reading" /\ found \in Found
  BY DEF Moves
<1>2. s = Moved(r, upTo, found) /\ \A k \in Jurisdictions \ {j} : replay'[k] = replay[k]
  BY MovesKeepsTypes DEF LogState
<1>3. /\ UNCHANGED LogEntries
      /\ LogReading[j] = Shown(LogPath(j) \in buried, r)
      /\ LogReading' = [LogReading EXCEPT ![j] = Shown(LogPath(j) \in buried, s)]
  BY <1>1, <1>2, ReaderMapped
<1>4. CASE LogPath(j) \in buried
  <2>1. LogReading[j] = Idle /\ LogReading' = [LogReading EXCEPT ![j] = Idle]
    BY <1>3, <1>4 DEF Shown
  <2>2. LogReading' = LogReading
    BY <2>1 DEF MappedStep
  <2> QED
    BY <1>3, <2>2 DEF JournalStep
<1>5. CASE LogPath(j) \notin buried
  <2> DEFINE g == r.given
             h == s.given
             all == appended[j]
  <2>1. s.status # "threw" /\ IsPrefix(h, all)
    <3>1. ReplayFaithful'
      BY FaithfulNext
    <3> QED
      BY <1>1, <1>5, <3>1 DEF ReplayFaithful, LogPath
  <2>2. /\ r \in Reader /\ g \in Seq(Readable) /\ found.votes \in Seq(Readable)
        /\ all \in Seq(Votes)
    BY <1>1 DEF LogState, TypeInv, Reader, Found
  <2>3. h = g \o found.votes /\ s.status = "reading" /\ s.floor = r.floor
    BY <1>2, <2>1, <2>2 DEF Moved, Reader
  <2>4. /\ Shown(LogPath(j) \in buried, r) = [given |-> Len(g), floor |-> r.floor]
        /\ Shown(LogPath(j) \in buried, s) = [given |-> Len(h), floor |-> r.floor]
    BY <1>1, <1>5, <2>3 DEF Shown
  <2> HIDE DEF r, s, g, h, all
  <2>5. Len(g) \in Nat /\ Len(h) \in Nat /\ Len(g) <= Len(h) /\ Len(h) <= Len(all) /\ Len(all) \in Nat
    <3>1. Len(all) \in Nat /\ Len(h) <= Len(all)
      BY <2>1, <2>2, LenProperties DEF IsPrefix
    <3> QED
      BY <2>2, <2>3, <3>1, LengthGrows
  <2>6. LogReading[j] = [given |-> Len(g), floor |-> r.floor] /\ LogReading[j] \notin {Idle, Finished}
    BY <1>3, <2>4, <2>5, GivenIsNotIdle DEF r
  <2>7. LogReading' = [LogReading EXCEPT ![j] = [given |-> Len(h), floor |-> r.floor]]
    BY <1>3, <2>4 DEF s
  <2>8. LogReading = [k \in Jurisdictions |-> LogReading[k]] /\ LogEntries[j] = all
    BY DEF MappedStep, all
  <2>9. CASE Len(g) = Len(h)
    <3>1. LogReading' = LogReading
      BY <2>6, <2>7, <2>8, <2>9
    <3> QED
      BY <1>3, <3>1 DEF JournalStep
  <2>10. CASE Len(g) # Len(h)
    <3> DEFINE k == Len(h)
    <3>1. k \in LogReading[j].given + 1 .. Len(LogEntries[j])
      BY <2>5, <2>6, <2>8, <2>10
    <3>2. LogReading' = [LogReading EXCEPT ![j].given = k]
      <4>1. [LogReading[j] EXCEPT !.given = k] = [given |-> Len(h), floor |-> r.floor]
        BY <2>6
      <4> QED
        BY <2>7, <4>1
    <3> QED
      BY <1>3, <2>6, <3>1, <3>2 DEF JournalStep
  <2> QED
    BY <2>9, <2>10
<1> QED
  BY <1>4, <1>5

(* A replay ends with all it has to have. *)
LEMMA EndIsJournal ==
  ASSUME LogState, LogState', MappedStep, NEW j \in Jurisdictions, EndReplay(j)
  PROVE  JournalStep
<1> DEFINE r == replay[j]
           s == replay'[j]
<1>1. UNCHANGED <<appended, buried>> /\ r.status = "reading" /\ r \in Reader
  BY DEF EndReplay, LogState, TypeInv
<1>2. s = [r EXCEPT !.status = "done"] /\ \A k \in Jurisdictions \ {j} : replay'[k] = replay[k]
  BY ReplaysKeepTypes DEF LogState
<1>3. /\ UNCHANGED LogEntries
      /\ LogReading[j] = Shown(LogPath(j) \in buried, r)
      /\ LogReading' = [LogReading EXCEPT ![j] = Shown(LogPath(j) \in buried, s)]
  BY <1>1, <1>2, ReaderMapped
<1>4. CASE LogPath(j) \in buried
  <2>1. LogReading[j] = Idle /\ LogReading' = [LogReading EXCEPT ![j] = Idle]
    BY <1>3, <1>4 DEF Shown
  <2>2. LogReading' = LogReading
    BY <2>1 DEF MappedStep
  <2> QED
    BY <1>3, <2>2 DEF JournalStep
<1>5. CASE LogPath(j) \notin buried
  <2>1. s.status = "done" /\ s.given = r.given /\ s.floor = r.floor
    BY <1>1, <1>2 DEF Reader
  <2>2. Len(s.given) >= s.floor
    <3>1. LogPath(j) \notin buried'
      BY <1>1, <1>5
    <3>2. ReaderKeepsUp(j)'
      BY <3>1 DEF LogState, LogInv, LogPath
    <3> QED
      BY <2>1, <3>2 DEF ReaderKeepsUp
  <2>3. Len(r.given) \in Nat
    <3>1. r.given \in Seq(Readable)
      BY <1>1 DEF Reader
    <3> QED
      BY <3>1, LenProperties
  <2>4. /\ Shown(LogPath(j) \in buried, r) = [given |-> Len(r.given), floor |-> r.floor]
        /\ Shown(LogPath(j) \in buried, s) = Finished
    BY <1>1, <1>5, <2>1 DEF Shown
  <2>5. LogReading[j] \notin {Idle, Finished} /\ LogReading[j].given >= LogReading[j].floor
    <3> HIDE DEF r, s
    <3> QED
      BY <1>3, <2>1, <2>2, <2>3, <2>4, GivenIsNotIdle
  <2> QED
    BY <1>3, <2>4, <2>5 DEF JournalStep
<1> QED
  BY <1>4, <1>5

(* Every step of the loggers is one of the journals or none. *)
LEMMA StepIsJournal ==
  ASSUME LogState, LogState', Steps
  PROVE  JournalStep
<1>1. MappedStep
  BY StepIsMapped
<1>2. CASE Quiet
  BY <1>1, <1>2, QuietIsJournal DEF Quiet
<1>3. ASSUME NEW j \in Jurisdictions, NEW v, NEW e, Writes(j, v, e) PROVE JournalStep
  <2>1. buried \subseteq buried' /\ replay' = replay /\ v \in Votes
        /\ appended' = [appended EXCEPT ![j] = Append(appended[j], v)]
    BY <1>3 DEF Writes
  <2> QED
    BY <1>1, <2>1, InterruptIsJournal
<1>4. ASSUME CrashState,
             UNCHANGED <<appended, buried>>
               \/ \E j \in Jurisdictions : \E v, e, kept : Tears(j, v, e, kept)
      PROVE  JournalStep
  <2>1. \A k \in Jurisdictions : replay'[k].status = "none"
    BY <1>4, NewReader DEF CrashState
  <2>2. /\ buried \subseteq buried'
        /\ \/ UNCHANGED appended
           \/ \E j \in Jurisdictions, v \in Votes : appended' = [appended EXCEPT ![j] = Append(appended[j], v)]
    BY <1>4 DEF Tears
  <2> QED
    BY <1>1, <2>1, <2>2, InterruptIsJournal
<1> QED
  BY <1>1, <1>2, <1>3, <1>4, StartIsJournal, MoveIsJournal, EndIsJournal DEF Steps

(* Under the same conditions the loggers implement the journal, through    *)
(* crashes as well: a vote is in the log at once or not at all, no vote    *)
(* leaves it, and a reader that finishes has all that were there when it   *)
(* began.                                                                  *)
THEOREM LogImplementsJournal ==
  ASSUME OwnPaths, Narrow
  PROVE  Spec => ImplementsJournal
<1>1. Init => Log!Init
  <2> SUFFICES ASSUME Init PROVE Log!Init
    OBVIOUS
  <2>1. LogState
    BY TypesInitially, LogInitially DEF LogState
  <2>2. LogEntries = appended /\ LogReading = [k \in Jurisdictions |-> Shown(LogPath(k) \in buried, replay[k])]
    BY <2>1, EntriesAre, ReadingsAre DEF EntriesMatch, Readings
  <2>3. \A k \in Jurisdictions : Shown(LogPath(k) \in buried, replay[k]) = Idle
    BY NewReader DEF Init, Shown
  <2>4. LogEntries = [l \in Jurisdictions |-> <<>>] /\ LogReading = [l \in Jurisdictions |-> Idle]
    BY <2>2, <2>3 DEF Init
  <2> QED
    BY <2>4, Zenon DEF Log!Init, LogEntries, LogReading
<1>2. Spec => []LogState
  BY LogHoldsAlways DEF LogState
<1>3. LogState /\ LogState' /\ [Next]_vars => [Log!Next]_(Log!vars)
  BY EveryStep, StepIsJournal, JournalStepIsOne DEF LogState
<1> QED
  BY <1>1, <1>2, <1>3, PTL DEF Spec, ImplementsJournal, Log!Spec
=============================================================================
