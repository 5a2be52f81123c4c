--------------------------- MODULE CheckpointsProofs ---------------------------
(***************************************************************************)
(* Theorems about Checkpoints, for any number of saves under way at a      *)
(* time, of snapshots (up to the bound the names are modelled for) and of  *)
(* restarts.                                                               *)
(*                                                                         *)
(* A save has its number from the moment it takes the snapshot, and so no  *)
(* other save of the same run of the process writes its file.  Until a     *)
(* restarted process gives numbers again, numbers and snapshots go         *)
(* together, hence what a file holds is known from its number, and what a  *)
(* save has returned for stays where it is while loads and listings wait.  *)
(***************************************************************************)
EXTENDS Checkpoints, WellFoundedInduction, TLAPS

(* Does the call have a number? *)
Numbered(c) == saves[c].at \in {"open", "write"}

(* The numbers of saves under way differ, and no file written since the    *)
(* process started is under one of them or one still to come.              *)
Numbering ==
  /\ \A c \in Calls : Numbered(c) => saves[c].number < checkpointNumber
  /\ \A c, d \in Calls : Numbered(c) /\ Numbered(d) /\ c # d => saves[c].number # saves[d].number
  /\ \A n \in DOMAIN directory : directory[n] > sinceStart =>
       n < checkpointNumber /\ \A c \in Calls : Numbered(c) => saves[c].number # n

Written(n) == n \in DOMAIN directory /\ directory[n] = n + 1

(* The counter goes with the snapshots, or the process was restarted and   *)
(* has given no number yet.                                                *)
CounterKeepsUp ==
  \/ sinceStart = 0 /\ checkpointNumber = taken
  \/ sinceStart = taken /\ checkpointNumber = 0 /\ \A c \in Calls : ~Numbered(c)

(* Until numbers are given again, the file of a number holds the snapshot  *)
(* of that number, or part of it, and wholly if its save has returned.     *)
NumbersAreSnapshots ==
  ~rewound =>
    /\ CounterKeepsUp
    /\ \A n \in DOMAIN directory : n < taken /\ directory[n] \in {Partial, n + 1}
    /\ \A c \in Calls : Numbered(c) =>
         saves[c].number < taken /\ saves[c].snapshot = saves[c].number + 1
    /\ \A n \in returned : Written(n)

(* What a load found, given what it has to find.                           *)
GoodEnd ==
  LET firstTen == load.before \intersect 0 .. 9
  IN  IF load.result # Null THEN \A n \in firstTen : load.result >= n + 1
      ELSE \/ load.before = {} \/ load.failed
           \/ \E m \in load.half : \A n \in firstTen : n < m

(* What had returned when a load was called is still there, and the name   *)
(* it has chosen is at least as late as each of the first ten of it.       *)
LoadOnItsWay ==
  ~rewound /\ load.at # "idle" =>
    /\ \A n \in load.before : Written(n)
    /\ load.at = "read" =>
         /\ \A n \in load.before \intersect 0 .. 9 : n <= load.number
         /\ Written(load.number) \/ load.number \in load.half
    /\ load.at = "done" => GoodEnd

ListOnItsWay ==
  ~rewound /\ list.at # "idle" =>
    /\ \A n \in list.before : Written(n)
    /\ list.at = "read" =>
         /\ list.before \subseteq list.unread \union list.read
         /\ \A n \in list.unread : Written(n) \/ n \in list.half
    /\ list.at = "done" =>
         \/ list.before \subseteq list.read
         \/ list.read = {} /\ (list.failed \/ list.half \ list.before # {})

(* The file a load has chosen stays where it is, and its result comes last. *)
ChosenIsThere ==
  /\ load.at = "read" => load.number \in DOMAIN directory
  /\ UnderWay(load) => load.result = Null

Inv ==
  /\ TypeOK /\ ChosenIsThere /\ Numbering /\ NumbersAreSnapshots
  /\ LoadOnItsWay /\ ListOnItsWay

-----------------------------------------------------------------------------
(* The order of the names.                                                 *)

(* A number that sorts as the names of checkpoints do.                     *)
Rank(n) == IF n < 10 THEN 11 * n ELSE 11 * (n \div 10) + 1 + (n % 10)

(* The digits of a number below 101, and what they make of its rank.       *)
LEMMA DigitsOfNumber ==
  ASSUME NEW n \in 0 .. 100
  PROVE  /\ n \div 10 \in 0 .. 10 /\ n % 10 \in 0 .. 9 /\ n = 10 * (n \div 10) + (n % 10)
         /\ n < 10 => Digits(n) = <<n>> /\ Rank(n) = 11 * n
         /\ n >= 10 => /\ Digits(n) = <<n \div 10, n % 10>>
                       /\ Rank(n) = 11 * (n \div 10) + 1 + (n % 10)
<1>1. n \div 10 \in Int /\ n % 10 \in 0 .. 9 /\ n = 10 * (n \div 10) + (n % 10)
  OBVIOUS
<1>2. n \div 10 \in 0 .. 10
  BY <1>1
<1> QED
  BY <1>1, <1>2 DEF Digits, Rank

(* A greater first digit puts a name behind another.                       *)
LEMMA FirstDigitDecides ==
  ASSUME NEW m, NEW n,
         1 \in DOMAIN Digits(m), 1 \in DOMAIN Digits(n), Digits(m)[1] > Digits(n)[1]
  PROVE  SortsAfter(m, n)
<1>1. \A k \in 1 .. 1 - 1 : Digits(m)[k] = Digits(n)[k]
  OBVIOUS
<1> QED
  BY <1>1 DEF SortsAfter

(* Numbers of one digit are before the longer ones that begin with it, and *)
(* before all that begin with a greater digit.                             *)
LEMMA NamesSortByRank ==
  ASSUME NEW m \in 0 .. 100, NEW n \in 0 .. 100, Rank(m) > Rank(n)
  PROVE  SortsAfter(m, n)
<1> DEFINE a == m \div 10
           b == m % 10
           c == n \div 10
           d == n % 10
<1>m. /\ a \in 0 .. 10 /\ b \in 0 .. 9 /\ m = 10 * a + b
      /\ m < 10 => Digits(m) = <<m>> /\ Rank(m) = 11 * m
      /\ m >= 10 => Digits(m) = <<a, b>> /\ Rank(m) = 11 * a + 1 + b
  BY DigitsOfNumber
<1>n. /\ c \in 0 .. 10 /\ d \in 0 .. 9 /\ n = 10 * c + d
      /\ n < 10 => Digits(n) = <<n>> /\ Rank(n) = 11 * n
      /\ n >= 10 => Digits(n) = <<c, d>> /\ Rank(n) = 11 * c + 1 + d
  BY DigitsOfNumber
<1> HIDE DEF a, b, c, d
<1>1. CASE m < 10 /\ n < 10
  <2>1. Digits(m) = <<m>> /\ Digits(n) = <<n>> /\ m > n
    BY <1>1, <1>m, <1>n
  <2> QED
    BY <2>1, FirstDigitDecides
<1>2. CASE m < 10 /\ n >= 10
  <2>1. Digits(m) = <<m>> /\ Digits(n) = <<c, d>> /\ m > c
    BY <1>2, <1>m, <1>n
  <2> QED
    BY <2>1, FirstDigitDecides
<1>3. CASE m >= 10 /\ n < 10 /\ a # n
  <2>1. Digits(m) = <<a, b>> /\ Digits(n) = <<n>> /\ a > n
    BY <1>3, <1>m, <1>n
  <2> QED
    BY <2>1, FirstDigitDecides
<1>4. CASE m >= 10 /\ n < 10 /\ a = n
  <2>1. Digits(m) = <<n, b>> /\ Digits(n) = <<n>> /\ n \in Nat /\ b \in Nat
    BY <1>4, <1>m, <1>n
  <2>2. Len(<<n>>) <= Len(<<n, b>>) /\ Len(<<n>>) = 1 /\ <<n>> # <<n, b>>
    OBVIOUS
  <2>3. SubSeq(<<n>>, 1, 1) = SubSeq(<<n, b>>, 1, 1)
    <3>1. <<n>> \in Seq(Nat) /\ <<n, b>> \in Seq(Nat)
      BY <2>1
    <3>2. /\ SubSeq(<<n>>, 1, 1) \in Seq(Nat) /\ Len(SubSeq(<<n>>, 1, 1)) = 1
          /\ SubSeq(<<n>>, 1, 1)[1] = n
      BY <3>1
    <3>3. /\ SubSeq(<<n, b>>, 1, 1) \in Seq(Nat) /\ Len(SubSeq(<<n, b>>, 1, 1)) = 1
          /\ SubSeq(<<n, b>>, 1, 1)[1] = n
      BY <3>1
    <3> QED
      BY <3>2, <3>3
  <2> QED
    BY <2>1, <2>2, <2>3 DEF SortsAfter, IsStrictPrefix, IsPrefix
<1>5. CASE m >= 10 /\ n >= 10 /\ a # c
  <2>1. /\ Digits(m) = <<a, b>> /\ Digits(n) = <<c, d>>
        /\ a > c
    BY <1>5, <1>m, <1>n
  <2> QED
    BY <2>1, FirstDigitDecides
<1>6. CASE m >= 10 /\ n >= 10 /\ a = c
  <2>1. /\ Digits(m) = <<c, b>> /\ Digits(n) = <<c, d>>
        /\ b > d
    BY <1>6, <1>m, <1>n
  <2>2. /\ 2 \in DOMAIN Digits(m) /\ 2 \in DOMAIN Digits(n) /\ Digits(m)[2] > Digits(n)[2]
        /\ Digits(m)[1] = Digits(n)[1]
    BY <2>1
  <2>3. \A k \in 1 .. 2 - 1 : Digits(m)[k] = Digits(n)[k]
    BY <2>2
  <2> QED
    BY <2>2, <2>3 DEF SortsAfter
<1> QED
  BY <1>1, <1>2, <1>3, <1>4, <1>5, <1>6

(* Different checkpoints have different ranks.                             *)
LEMMA RanksDiffer ==
  ASSUME NEW m \in 0 .. 100, NEW n \in 0 .. 100
  PROVE  /\ Rank(m) \in 0 .. 200
         /\ m # n => Rank(m) # Rank(n)
<1> DEFINE a == m \div 10
           b == m % 10
           c == n \div 10
           d == n % 10
<1>1. /\ a \in 0 .. 10 /\ b \in 0 .. 9 /\ m = 10 * a + b
      /\ m < 10 => Rank(m) = 11 * m
      /\ m >= 10 => Rank(m) = 11 * a + 1 + b
  BY DigitsOfNumber
<1>2. /\ c \in 0 .. 10 /\ d \in 0 .. 9 /\ n = 10 * c + d
      /\ n < 10 => Rank(n) = 11 * n
      /\ n >= 10 => Rank(n) = 11 * c + 1 + d
  BY DigitsOfNumber
<1> HIDE DEF a, b, c, d
<1> QED
  BY <1>1, <1>2

(* Every directory with checkpoints has a last name: among finitely many   *)
(* ranks there is a greatest one.                                          *)
LEMMA LastNameThere ==
  ASSUME NEW S \in SUBSET (0 .. 100), S # {}
  PROVE  /\ LastName(S) \in S
         /\ \A m \in S \ {LastName(S)} : SortsAfter(LastName(S), m)
<1> DEFINE T == {200 - Rank(n) : n \in S}
<1>a. \A n \in S : n \in 0 .. 100 /\ Rank(n) \in 0 .. 200
  <2> SUFFICES ASSUME NEW n \in S PROVE n \in 0 .. 100 /\ Rank(n) \in 0 .. 200
    OBVIOUS
  <2>1. n \in 0 .. 100
    OBVIOUS
  <2> QED
    BY <2>1, RanksDiffer
<1>b. \A m \in S, n \in S : m # n => Rank(m) # Rank(n)
  BY <1>a, RanksDiffer
<1>1. T \subseteq Nat /\ T # {}
  <2>1. \A n \in S : 200 - Rank(n) \in Nat
    BY <1>a
  <2> QED
    BY <2>1
<1>2. PICK x \in T : \A y \in T : ~(<<y, x>> \in OpToRel(<, Nat))
  <2> HIDE DEF T
  <2> QED
    BY <1>1, NatLessThanWellFounded, WFMin
<1>3. \A y \in T : ~(y < x)
  BY <1>1, <1>2 DEF OpToRel
<1>4. PICK n \in S : x = 200 - Rank(n)
  OBVIOUS
<1>5. \A m \in S : Rank(n) >= Rank(m)
  <2> SUFFICES ASSUME NEW m \in S PROVE Rank(n) >= Rank(m)
    OBVIOUS
  <2>1. ~(200 - Rank(m) < x)
    BY <1>3
  <2>2. Rank(m) \in 0 .. 200 /\ Rank(n) \in 0 .. 200
    BY <1>a
  <2>3. ~(200 - Rank(m) < 200 - Rank(n))
    BY <2>1, <1>4, Zenon
  <2>4. \A u, v \in 0 .. 200 : ~(200 - u < 200 - v) => v >= u
    OBVIOUS
  <2> QED
    BY <2>2, <2>3, <2>4, Zenon
<1>6. \A m \in S \ {n} : SortsAfter(n, m)
  <2> SUFFICES ASSUME NEW m \in S, m # n PROVE SortsAfter(n, m)
    OBVIOUS
  <2>1. Rank(n) >= Rank(m) /\ Rank(n) # Rank(m) /\ Rank(n) \in Int /\ Rank(m) \in Int
    BY <1>5, <1>a, <1>b
  <2>2. Rank(n) > Rank(m)
    BY <2>1
  <2> QED
    BY <2>2, <1>a, NamesSortByRank
<1> QED
  BY <1>6 DEF LastName

(* Of names that are compared, no one-digit number is before a smaller     *)
(* one: the last name is at least as great as each of the first ten.       *)
LEMMA LastNameIsLate ==
  ASSUME NEW S \in SUBSET (0 .. 100), NEW k \in S, k < 10
  PROVE  LastName(S) >= k
<1> DEFINE n == LastName(S)
<1>1. n \in S /\ \A m \in S \ {n} : SortsAfter(n, m)
  BY LastNameThere
<1>0. n \in 0 .. 100 /\ k \in 0 .. 100
  BY <1>1
<1> HIDE DEF n
<1>2. SUFFICES ASSUME n < k PROVE FALSE
  BY <1>0 DEF n
<1>3. SortsAfter(n, k)
  BY <1>0, <1>1, <1>2
<1>4. Digits(n) = <<n>> /\ Digits(k) = <<k>>
  BY <1>0, <1>2, DigitsOfNumber
<1>5. SubSeq(<<n>>, 1, 1) # SubSeq(<<k>>, 1, 1)
  <2>1. <<n>> \in Seq(Nat) /\ <<k>> \in Seq(Nat)
    BY <1>0
  <2>2. SubSeq(<<n>>, 1, 1)[1] = n /\ SubSeq(<<k>>, 1, 1)[1] = k
    BY <2>1
  <2> QED
    BY <2>2, <1>2, <1>0
<1>6. ~IsStrictPrefix(<<k>>, <<n>>)
  BY <1>5 DEF IsStrictPrefix, IsPrefix
<1>7. PICK i \in DOMAIN <<n>> \intersect DOMAIN <<k>> : <<n>>[i] > <<k>>[i]
  BY <1>3, <1>4, <1>6 DEF SortsAfter
<1>8. i = 1
  BY <1>7
<1> QED
  BY <1>7, <1>8, <1>2, <1>0

-----------------------------------------------------------------------------
(* Initially a number of checkpoints is saved, and nothing is under way.   *)
LEMMA InitInv == Init => Inv
<1> SUFFICES ASSUME Init PROVE Inv
  OBVIOUS
<1> USE BoundsAssumption DEF Init, IdleSave, IdleLoad, IdleList, Null, Numbers
<1>1. earlier \in Nat /\ earlier <= 100 /\ earlier \in Earlier /\ MaxMore \in Nat
  OBVIOUS
<1>2. TypeOK
  <2>1. DOMAIN directory = 0 .. earlier - 1 /\ DOMAIN directory \subseteq 0 .. 100
    BY <1>1
  <2>2. directory \in [DOMAIN directory -> 0 .. taken]
    BY <1>1, <2>1
  <2>3. returned \in SUBSET (0 .. 100)
    BY <1>1
  <2>4. /\ load \in [at : {"idle", "names", "read", "done"}, number : Numbers,
                    result : {Null} \union 1 .. taken,
                    before : SUBSET Numbers, half : SUBSET Numbers, failed : BOOLEAN]
        /\ list \in [at : {"idle", "names", "read", "done"},
                    unread : SUBSET Numbers, read : SUBSET Numbers,
                    before : SUBSET Numbers, half : SUBSET Numbers, failed : BOOLEAN]
    OBVIOUS
  <2>5. saves \in [Calls -> [at : {"idle", "mkdir", "open", "write"},
                            number : Numbers, snapshot : 0 .. taken]]
    BY <1>1
  <2>6. /\ checkpointNumber \in 0 .. taken /\ taken \in 0 .. earlier + MaxMore
        /\ sinceStart \in 0 .. taken
    BY <1>1
  <2> QED
    BY <1>1, <2>1, <2>2, <2>3, <2>4, <2>5, <2>6 DEF TypeOK
<1>3. NumbersAreSnapshots
  BY <1>1 DEF NumbersAreSnapshots, CounterKeepsUp, Numbered, Written
<1>4. ChosenIsThere /\ Numbering /\ LoadOnItsWay /\ ListOnItsWay
  BY <1>1 DEF ChosenIsThere, Numbering, Numbered, LoadOnItsWay, ListOnItsWay
<1> QED
  BY <1>2, <1>3, <1>4 DEF Inv

(* The name a load chooses is one of those there.                          *)
LEMMA LastNameInDirectory ==
  ASSUME TypeOK, DOMAIN directory # {}
  PROVE  /\ LastName(DOMAIN directory) \in DOMAIN directory
         /\ \A n \in DOMAIN directory \intersect 0 .. 9 : n <= LastName(DOMAIN directory)
<1>1. DOMAIN directory \in SUBSET (0 .. 100)
  BY DEF TypeOK, Numbers
<1>2. LastName(DOMAIN directory) \in DOMAIN directory
  BY <1>1, LastNameThere
<1>3. ASSUME NEW n \in DOMAIN directory, n \in 0 .. 9
      PROVE  n <= LastName(DOMAIN directory)
  <2>1. n < 10
    BY <1>3
  <2>2. LastName(DOMAIN directory) >= n
    BY <1>1, <2>1, LastNameIsLate
  <2>3. LastName(DOMAIN directory) \in 0 .. 100
    BY <1>1, <1>2
  <2> QED
    BY <1>3, <2>2, <2>3
<1> QED
  BY <1>2, <1>3

(* The counter is below the bound of the names.                            *)
LEMMA CounterBounded ==
  ASSUME TypeOK, taken < earlier + MaxMore
  PROVE  checkpointNumber \in Numbers /\ taken + 1 \in 0 .. earlier + MaxMore
<1>1. earlier \in Nat /\ MaxMore \in Nat /\ earlier + MaxMore <= 100
  BY BoundsAssumption DEF TypeOK
<1>2. taken \in 0 .. earlier + MaxMore /\ checkpointNumber \in 0 .. taken
  BY DEF TypeOK
<1> QED
  BY <1>1, <1>2 DEF Numbers

(* No step leaves the types.                                               *)
LEMMA TypeStep == TypeOK /\ ChosenIsThere /\ [Next]_vars => TypeOK'
<1> SUFFICES ASSUME TypeOK, ChosenIsThere, [Next]_vars PROVE TypeOK'
  OBVIOUS
<1>0. earlier \in Nat /\ MaxMore \in Nat /\ earlier + MaxMore <= 100
  BY BoundsAssumption DEF TypeOK
<1> USE DEF TypeOK, Numbers, history
<1>1. CASE UNCHANGED vars
  BY <1>1 DEF vars
<1>2. ASSUME NEW c \in Calls, SaveCheckpoint(c) PROVE TypeOK'
  BY <1>2 DEF SaveCheckpoint
<1>3. ASSUME NEW c \in Calls, TakeSnapshot(c) PROVE TypeOK'
  <2>1. checkpointNumber \in Numbers /\ taken + 1 \in 0 .. earlier + MaxMore
    BY <1>3, CounterBounded DEF TakeSnapshot
  <2>2. saves' \in [Calls -> [at : {"idle", "mkdir", "open", "write"},
                             number : Numbers, snapshot : 0 .. taken']]
    BY <1>3, <2>1, <1>0 DEF TakeSnapshot
  <2>3. directory' \in [DOMAIN directory' -> 0 .. taken']
    BY <1>3, <2>1, <1>0 DEF TakeSnapshot
  <2>4. load'.result \in {Null} \union 1 .. taken'
    BY <1>3, <2>1, <1>0 DEF TakeSnapshot, Null
  <2>5. load' = load /\ list' = list
    BY <1>3 DEF TakeSnapshot
  <2>6. load' \in [at : {"idle", "names", "read", "done"}, number : Numbers,
                  result : {Null} \union 1 .. taken',
                  before : SUBSET Numbers, half : SUBSET Numbers, failed : BOOLEAN]
    BY <2>4, <2>5
  <2>7. /\ DOMAIN directory' \subseteq Numbers
        /\ checkpointNumber' \in 0 .. taken'
        /\ taken' \in 0 .. earlier' + MaxMore
        /\ sinceStart' \in 0 .. taken'
        /\ earlier' = earlier /\ returned' = returned
    BY <1>3, <2>1, <1>0 DEF TakeSnapshot
  <2>8. rewound' \in BOOLEAN
    BY <1>3 DEF TakeSnapshot
  <2> QED
    BY <2>2, <2>3, <2>5, <2>6, <2>7, <2>8
<1>4. ASSUME NEW c \in Calls, OpenFile(c) PROVE TypeOK'
  BY <1>4 DEF OpenFile, Contents, Partial
<1>5. ASSUME NEW c \in Calls, WriteFile(c) PROVE TypeOK'
  <2>1. saves[c].number \in Numbers /\ saves[c].snapshot \in 0 .. taken
    OBVIOUS
  <2>3. /\ DOMAIN directory' \subseteq Numbers
        /\ directory' \in [DOMAIN directory' -> 0 .. taken]
    BY <1>5, <2>1 DEF WriteFile, Contents
  <2>4. saves' \in [Calls -> [at : {"idle", "mkdir", "open", "write"},
                             number : Numbers, snapshot : 0 .. taken]]
    BY <1>5 DEF WriteFile, IdleSave
  <2>5. returned' \in SUBSET Numbers
    BY <1>5, <2>1 DEF WriteFile
  <2> QED
    BY <1>5, <2>3, <2>4, <2>5 DEF WriteFile
<1>5a. ASSUME NEW c \in Calls, SaveFails(c) PROVE TypeOK'
  BY <1>5a DEF SaveFails, IdleSave
<1>6. CASE LoadLatestCheckpoint
  <2>1. /\ load' = [at |-> "names", number |-> 0, result |-> Null,
                   before |-> returned, half |-> {}, failed |-> FALSE]
        /\ list' = IdleList
    BY <1>6 DEF LoadLatestCheckpoint, IdleLoad
  <2> QED
    <3>1. load' \in [at : {"idle", "names", "read", "done"}, number : Numbers,
                    result : {Null} \union 1 .. taken,
                    before : SUBSET Numbers, half : SUBSET Numbers, failed : BOOLEAN]
      BY <2>1 DEF IdleLoad
    <3>2. list' \in [at : {"idle", "names", "read", "done"},
                    unread : SUBSET Numbers, read : SUBSET Numbers,
                    before : SUBSET Numbers, half : SUBSET Numbers, failed : BOOLEAN]
      BY <2>1 DEF IdleList
    <3>3. UNCHANGED <<directory, checkpointNumber, saves, history>>
      BY <1>6 DEF LoadLatestCheckpoint
    <3> QED
      BY <3>1, <3>2, <3>3
<1>6a. CASE ReadNames
  <2>2. DOMAIN directory # {} => LastName(DOMAIN directory) \in Numbers
    BY LastNameInDirectory
  <2>3. HalfWritten \in SUBSET Numbers
    BY DEF HalfWritten
  <2>4. UNCHANGED <<directory, checkpointNumber, saves, list, history>>
    BY <1>6a DEF ReadNames
  <2>5. load' \in [at : {"idle", "names", "read", "done"}, number : Numbers,
                  result : {Null} \union 1 .. taken,
                  before : SUBSET Numbers, half : SUBSET Numbers, failed : BOOLEAN]
    <3>1. PICK n, h : n = LastName(DOMAIN directory) /\ h = HalfWritten
      OBVIOUS
    <3>2. h \in SUBSET Numbers /\ (DOMAIN directory # {} => n \in Numbers)
      BY <2>2, <2>3, <3>1, Zenon
    <3>3. CASE DOMAIN directory = {}
      <4>1. load' = [load EXCEPT !.at = "done"]
        BY <1>6a, <3>3 DEF ReadNames
      <4> QED
        BY <4>1
    <3>4. CASE DOMAIN directory # {}
      <4>1. load' = [load EXCEPT !.at = "read", !.number = n, !.half = h]
        BY <1>6a, <3>1, <3>4 DEF ReadNames
      <4> QED
        BY <3>2, <3>4, <4>1
    <3> QED
      BY <3>3, <3>4
  <2> QED
    BY <2>4, <2>5
<1>7. CASE ReadLatest
  <2>1. directory[load.number] \in 0 .. taken
    BY <1>7 DEF ReadLatest, ChosenIsThere
  <2>2. load' \in [at : {"idle", "names", "read", "done"}, number : Numbers,
                  result : {Null} \union 1 .. taken,
                  before : SUBSET Numbers, half : SUBSET Numbers, failed : BOOLEAN]
    <3> DEFINE r == IF directory[load.number] = Partial THEN Null ELSE directory[load.number]
    <3>1. r \in {Null} \union 1 .. taken
      BY <2>1 DEF Partial
    <3>2. load' = [load EXCEPT !.at = "done", !.result = r]
      BY <1>7 DEF ReadLatest
    <3> HIDE DEF r
    <3> QED
      BY <3>1, <3>2
  <2> QED
    BY <1>7, <2>2 DEF ReadLatest
<1>7a. CASE LoadFails
  BY <1>7a DEF LoadFails
<1>8. CASE ListCheckpoints
  <2>1. /\ list' = [at |-> "names", unread |-> {}, read |-> {},
                   before |-> returned, half |-> {}, failed |-> FALSE]
        /\ load' = IdleLoad
    BY <1>8 DEF ListCheckpoints, IdleList
  <2> QED
    <3>1. load' \in [at : {"idle", "names", "read", "done"}, number : Numbers,
                    result : {Null} \union 1 .. taken,
                    before : SUBSET Numbers, half : SUBSET Numbers, failed : BOOLEAN]
      BY <2>1 DEF IdleLoad
    <3>2. list' \in [at : {"idle", "names", "read", "done"},
                    unread : SUBSET Numbers, read : SUBSET Numbers,
                    before : SUBSET Numbers, half : SUBSET Numbers, failed : BOOLEAN]
      BY <2>1 DEF IdleList
    <3>3. UNCHANGED <<directory, checkpointNumber, saves, history>>
      BY <1>8 DEF ListCheckpoints
    <3> QED
      BY <3>1, <3>2, <3>3
<1>8a. CASE ReadListNames
  <2>1. HalfWritten \in SUBSET Numbers
    BY DEF HalfWritten
  <2> QED
    BY <1>8a, <2>1 DEF ReadListNames
<1>9. ASSUME NEW n \in Numbers, ReadListed(n) PROVE TypeOK'
  BY <1>9 DEF ReadListed
<1>10. CASE FinishList
  BY <1>10 DEF FinishList
<1>10a. CASE ListFails
  BY <1>10a DEF ListFails
<1>11. CASE Restart
  BY <1>11 DEF Restart, IdleSave, IdleLoad, IdleList, Null
<1> QED
  BY <1>1, <1>2, <1>3, <1>4, <1>5, <1>5a, <1>6, <1>6a, <1>7, <1>7a, <1>8, <1>8a, <1>9, <1>10,
     <1>10a, <1>11 DEF Next

(* No file goes away, so the one a load has chosen is there to be read.    *)
LEMMA ChosenStep == TypeOK /\ ChosenIsThere /\ [Next]_vars => ChosenIsThere'
<1> SUFFICES ASSUME TypeOK, ChosenIsThere, [Next]_vars PROVE ChosenIsThere'
  OBVIOUS
<1> USE DEF ChosenIsThere, UnderWay
<1>1. CASE UNCHANGED <<load, directory>>
  BY <1>1
<1>2. ASSUME NEW c \in Calls, OpenFile(c) \/ WriteFile(c) PROVE ChosenIsThere'
  BY <1>2 DEF OpenFile, WriteFile, Contents
<1>3. CASE ReadNames
  BY <1>3, LastNameInDirectory DEF ReadNames, TypeOK
<1>4. CASE ReadLatest \/ LoadFails
  BY <1>4 DEF ReadLatest, LoadFails, TypeOK
<1>5. CASE Restart \/ ListCheckpoints
  BY <1>5 DEF Restart, ListCheckpoints, IdleLoad
<1>6. CASE LoadLatestCheckpoint
  <2>1. load'.at = "names" /\ load'.result = Null
    BY <1>6 DEF LoadLatestCheckpoint, IdleLoad
  <2> QED
    BY <2>1
<1> QED
  BY <1>1, <1>2, <1>3, <1>4, <1>5, <1>6 DEF Next, vars, SaveCheckpoint, TakeSnapshot, SaveFails,
     ReadListNames, ReadListed, FinishList, ListFails

(* The numbers given out go up, so a new one is no other save's and no     *)
(* file's; after a restart no file counts as written in this run.          *)
LEMMA NumberingStep == TypeOK /\ Numbering /\ [Next]_vars => Numbering'
<1> SUFFICES ASSUME TypeOK, Numbering, [Next]_vars PROVE Numbering'
  OBVIOUS
<1> USE DEF TypeOK, Numbering, Numbered, Numbers, history
<1>1. CASE UNCHANGED <<directory, checkpointNumber, saves, sinceStart>>
  BY <1>1
<1>2. ASSUME NEW c \in Calls, SaveCheckpoint(c) PROVE Numbering'
  BY <1>2 DEF SaveCheckpoint
<1>3. ASSUME NEW c \in Calls, TakeSnapshot(c) PROVE Numbering'
  <2>1. checkpointNumber \in Nat /\ checkpointNumber' = checkpointNumber + 1
    BY <1>3, CounterBounded DEF TakeSnapshot
  <2>2. /\ saves'[c].number = checkpointNumber
        /\ \A d \in Calls \ {c} : saves'[d] = saves[d]
        /\ \A d \in Calls : saves[d].number \in Nat
    <3>1. \A d \in Calls : saves[d].number \in Nat
      OBVIOUS
    <3>2. /\ saves'[c].number = checkpointNumber
          /\ \A d \in Calls \ {c} : saves'[d] = saves[d]
      BY <1>3, Zenon DEF TakeSnapshot
    <3> QED
      BY <3>1, <3>2
  <2>3. directory' = directory /\ sinceStart' = sinceStart
    BY <1>3 DEF TakeSnapshot
  <2>4. \A d \in Calls : Numbered(d)' => saves'[d].number < checkpointNumber'
    BY <2>1, <2>2
  <2>5. \A d, e \in Calls : Numbered(d)' /\ Numbered(e)' /\ d # e =>
          saves'[d].number # saves'[e].number
    BY <2>1, <2>2
  <2>6. \A n \in DOMAIN directory : n \in Nat
    OBVIOUS
  <2>7. \A n \in DOMAIN directory' : directory'[n] > sinceStart' =>
          n < checkpointNumber' /\ \A d \in Calls : Numbered(d)' => saves'[d].number # n
    BY <2>1, <2>2, <2>3, <2>6
  <2> QED
    BY <2>4, <2>5, <2>7
<1>4. ASSUME NEW c \in Calls, OpenFile(c) PROVE Numbering'
  BY <1>4 DEF OpenFile, Contents, Partial
<1>5. ASSUME NEW c \in Calls, WriteFile(c) PROVE Numbering'
  BY <1>5 DEF WriteFile, Contents, IdleSave
<1>5a. ASSUME NEW c \in Calls, SaveFails(c) PROVE Numbering'
  BY <1>5a DEF SaveFails, IdleSave
<1>6. CASE Restart
  BY <1>6 DEF Restart, IdleSave
<1> QED
  BY <1>1, <1>2, <1>3, <1>4, <1>5, <1>5a, <1>6 DEF Next, vars, LoadLatestCheckpoint, ReadNames,
     ReadLatest, LoadFails, ListCheckpoints, ReadListNames, ReadListed, FinishList, ListFails

-----------------------------------------------------------------------------
(* No save of this run touches a file written in it.                       *)
LEMMA FilesStay ==
  ASSUME TypeOK, Numbering, [Next]_vars, NEW n \in DOMAIN directory, directory[n] > sinceStart
  PROVE  n \in DOMAIN directory' /\ directory'[n] = directory[n]
<1> USE DEF TypeOK, Numbering, Numbered
<1>1. ASSUME NEW c \in Calls, OpenFile(c) \/ WriteFile(c)
      PROVE  n \in DOMAIN directory' /\ directory'[n] = directory[n]
  BY <1>1 DEF OpenFile, WriteFile, Contents
<1>2. CASE UNCHANGED directory
  BY <1>2
<1> QED
  BY <1>1, <1>2 DEF Next, vars, SaveCheckpoint, TakeSnapshot, SaveFails, LoadLatestCheckpoint,
     ReadNames, ReadLatest, LoadFails, ListCheckpoints, ReadListNames, ReadListed, FinishList,
     ListFails, Restart

(* A process that has given a number again does not forget it.             *)
LEMMA RewoundStays == [Next]_vars /\ ~rewound' => ~rewound
BY DEF Next, vars, history, SaveCheckpoint, TakeSnapshot, OpenFile, WriteFile, SaveFails,
   LoadLatestCheckpoint, ReadNames, ReadLatest, LoadFails, ListCheckpoints, ReadListNames,
   ReadListed, FinishList, ListFails, Restart

(* Until numbers are given again what is written stays written.            *)
LEMMA WrittenStays ==
  ASSUME TypeOK, Numbering, NumbersAreSnapshots, [Next]_vars, ~rewound', NEW n \in Nat, Written(n)
  PROVE  Written(n)'
<1>0. ~rewound
  BY RewoundStays
<1>1. CASE sinceStart = 0
  <2>1. n \in DOMAIN directory /\ directory[n] > sinceStart
    BY <1>1 DEF Written
  <2> QED
    BY <2>1, FilesStay DEF Written
<1>2. CASE \A c \in Calls : ~Numbered(c)
  <2>1. directory' = directory
    BY <1>2 DEF Numbered, Next, vars, SaveCheckpoint, TakeSnapshot, OpenFile, WriteFile,
       SaveFails, LoadLatestCheckpoint, ReadNames, ReadLatest, LoadFails, ListCheckpoints,
       ReadListNames, ReadListed, FinishList, ListFails, Restart
  <2> QED
    BY <2>1 DEF Written
<1> QED
  BY <1>0, <1>1, <1>2 DEF NumbersAreSnapshots, CounterKeepsUp

(* Until numbers are given again they go with the snapshots.               *)
LEMMA NumbersStep ==
  TypeOK /\ Numbering /\ NumbersAreSnapshots /\ [Next]_vars => NumbersAreSnapshots'
<1> SUFFICES ASSUME TypeOK, Numbering, NumbersAreSnapshots, [Next]_vars, ~rewound'
             PROVE  NumbersAreSnapshots'
  BY DEF NumbersAreSnapshots
<1>0. ~rewound
  BY RewoundStays
<1>r. \A n \in returned : Written(n) /\ Written(n)'
  <2> SUFFICES ASSUME NEW n \in returned PROVE Written(n) /\ Written(n)'
    OBVIOUS
  <2>1. n \in Nat /\ Written(n)
    BY <1>0 DEF NumbersAreSnapshots, TypeOK, Numbers
  <2> QED
    BY <2>1, WrittenStays
<1> USE DEF TypeOK, Numbering, NumbersAreSnapshots, CounterKeepsUp, Numbered, Numbers, history
<1>1. CASE UNCHANGED <<directory, checkpointNumber, saves, history>>
  BY <1>0, <1>1, <1>r
<1>2. ASSUME NEW c \in Calls, SaveCheckpoint(c) PROVE NumbersAreSnapshots'
  BY <1>0, <1>2, <1>r DEF SaveCheckpoint
<1>3. ASSUME NEW c \in Calls, TakeSnapshot(c) PROVE NumbersAreSnapshots'
  <2>0. /\ sinceStart = 0 /\ taken \in Nat /\ sinceStart' = sinceStart
    <3>1. earlier \in Nat /\ MaxMore \in Nat
      BY BoundsAssumption
    <3>2. taken \in Nat
      <4>1. taken \in 0 .. earlier + MaxMore
        OBVIOUS
      <4> QED
        BY <3>1, <4>1
    <3>3. sinceStart \in Nat /\ ~(sinceStart > 0)
      <4>1. sinceStart \in 0 .. taken
        OBVIOUS
      <4>2. ~(sinceStart > 0)
        BY <1>3 DEF TakeSnapshot
      <4> QED
        BY <3>2, <4>1, <4>2
    <3> QED
      BY <1>3, <3>2, <3>3 DEF TakeSnapshot
  <2>1. /\ sinceStart' = 0 /\ sinceStart = 0 /\ checkpointNumber = taken
        /\ checkpointNumber' = taken' /\ taken' = taken + 1 /\ taken \in Nat
        /\ directory' = directory /\ returned' = returned
    <3>1. checkpointNumber = taken
      BY <1>0, <2>0
    <3> QED
      BY <1>3, <2>0, <3>1 DEF TakeSnapshot
  <2>2. /\ saves'[c] = [at |-> "open", number |-> taken, snapshot |-> taken + 1]
        /\ \A d \in Calls \ {c} : saves'[d] = saves[d]
    BY <1>3, <2>1 DEF TakeSnapshot
  <2>3. \A n \in DOMAIN directory' : n < taken' /\ directory'[n] \in {Partial, n + 1}
    BY <1>0, <2>1
  <2>4. \A d \in Calls : Numbered(d)' =>
          saves'[d].number < taken' /\ saves'[d].snapshot = saves'[d].number + 1
    BY <1>0, <2>1, <2>2
  <2> QED
    BY <1>r, <2>1, <2>3, <2>4
<1>4. ASSUME NEW c \in Calls, OpenFile(c) PROVE NumbersAreSnapshots'
  BY <1>0, <1>4, <1>r DEF OpenFile, Contents, Partial
<1>5. ASSUME NEW c \in Calls, WriteFile(c) PROVE NumbersAreSnapshots'
  <2>0. PICK k \in Nat : k = saves[c].number
    OBVIOUS
  <2>1. /\ sinceStart' = 0 /\ checkpointNumber' = taken' /\ taken' = taken
        /\ k \in 0 .. taken - 1 /\ saves[c].snapshot = k + 1
    BY <1>0, <1>5, <2>0 DEF WriteFile
  <2>2. /\ saves'[c] = IdleSave
        /\ \A d \in Calls \ {c} : saves'[d] = saves[d]
    BY <1>5 DEF WriteFile
  <2>3. /\ DOMAIN directory' = DOMAIN directory \union {k}
        /\ directory'[k] = k + 1
        /\ \A n \in DOMAIN directory \ {k} : directory'[n] = directory[n]
    BY <1>5, <2>0, <2>1 DEF WriteFile, Contents
  <2>5. \A n \in DOMAIN directory' : n < taken' /\ directory'[n] \in {Partial, n + 1}
    BY <1>0, <2>1, <2>3
  <2>6. \A d \in Calls : Numbered(d)' =>
          saves'[d].number < taken' /\ saves'[d].snapshot = saves'[d].number + 1
    BY <1>0, <2>1, <2>2 DEF IdleSave
  <2>7. \A n \in returned' : Written(n)'
    <3>1. returned' = returned \union {k}
      BY <1>5, <2>0 DEF WriteFile
    <3>2. Written(k)'
      BY <2>3 DEF Written
    <3> QED
      BY <1>r, <3>1, <3>2
  <2> QED
    BY <2>1, <2>5, <2>6, <2>7
<1>5a. ASSUME NEW c \in Calls, SaveFails(c) PROVE NumbersAreSnapshots'
  BY <1>0, <1>5a, <1>r DEF SaveFails, IdleSave
<1>6. CASE Restart
  BY <1>0, <1>6, <1>r DEF Restart, IdleSave
<1> QED
  BY <1>1, <1>2, <1>3, <1>4, <1>5, <1>5a, <1>6 DEF Next, vars, LoadLatestCheckpoint, ReadNames,
     ReadLatest, LoadFails, ListCheckpoints, ReadListNames, ReadListed, FinishList, ListFails

-----------------------------------------------------------------------------
(* A load finds the last name among those that are there, and the file is  *)
(* whole when it reads it, unless it was not when it was chosen.           *)
LEMMA LoadStep ==
  TypeOK /\ ChosenIsThere /\ Numbering /\ NumbersAreSnapshots /\ LoadOnItsWay /\ [Next]_vars
    => LoadOnItsWay'
<1> SUFFICES ASSUME TypeOK, ChosenIsThere, Numbering, NumbersAreSnapshots, LoadOnItsWay,
                    [Next]_vars, ~rewound', load'.at # "idle"
             PROVE  LoadOnItsWay'
  BY DEF LoadOnItsWay
<1>0. ~rewound
  BY RewoundStays
<1>a. ASSUME NEW n \in Nat, Written(n) PROVE Written(n)'
  BY <1>a, WrittenStays
<1>b. load.at # "idle" => \A n \in load.before : n \in Nat /\ Written(n) /\ Written(n)'
  <2>1. \A n \in load.before : n \in Nat
    BY DEF TypeOK, Numbers
  <2> QED
    BY <1>0, <1>a, <2>1 DEF LoadOnItsWay
<1>1. CASE load' = load
  <2>1. PICK k \in Nat : k = load.number
    BY DEF TypeOK, Numbers
  <2>2. Written(load.number) => (Written(load.number))'
    <3>1. Written(k) => Written(k)'
      BY <1>a
    <3> QED
      BY <1>1, <2>1, <3>1 DEF Written
  <2>3. GoodEnd => GoodEnd'
    BY <1>1 DEF GoodEnd
  <2> QED
    BY <1>0, <1>1, <1>b, <2>2, <2>3 DEF LoadOnItsWay
<1>2. CASE LoadLatestCheckpoint
  <2>1. load'.at = "names" /\ load'.before = returned /\ directory' = directory
    BY <1>2 DEF LoadLatestCheckpoint, IdleLoad
  <2>2. \A n \in returned : Written(n)
    BY <1>0 DEF NumbersAreSnapshots
  <2> QED
    BY <2>1, <2>2 DEF LoadOnItsWay, Written
<1>3. CASE ReadNames
  <2>0. load.at = "names" /\ directory' = directory
    BY <1>3 DEF ReadNames
  <2>1. CASE DOMAIN directory = {}
    <3>1. load' = [load EXCEPT !.at = "done"]
      BY <1>3, <2>1 DEF ReadNames
    <3>2. /\ load'.at = "done" /\ load'.before = load.before /\ load'.result = load.result
          /\ load'.half = load.half /\ load'.failed = load.failed
      BY <3>1 DEF TypeOK
    <3>3. load.before = {}
      BY <1>b, <2>0, <2>1 DEF Written
    <3> QED
      BY <3>2, <3>3 DEF LoadOnItsWay, GoodEnd
  <2>2. CASE DOMAIN directory # {}
    <3>0. PICK l : l = LastName(DOMAIN directory)
      OBVIOUS
    <3>1. /\ load'.at = "read" /\ load'.before = load.before /\ load'.number = l
          /\ load'.half = HalfWritten
      BY <1>3, <2>2, <3>0 DEF ReadNames, TypeOK
    <3>2. l \in DOMAIN directory /\ \A n \in DOMAIN directory \intersect 0 .. 9 : n <= l
      BY <2>2, <3>0, LastNameInDirectory
    <3>3. \A n \in load.before : n \in DOMAIN directory
      BY <1>b, <2>0 DEF Written
    <3>4. Written(l) \/ l \in HalfWritten
      BY <1>0, <3>2 DEF NumbersAreSnapshots, Written, HalfWritten
    <3>7. \A n \in load'.before \intersect 0 .. 9 : n <= load'.number
      BY <3>1, <3>2, <3>3
    <3>8. \A n \in load'.before : Written(n)'
      BY <1>b, <2>0, <3>1
    <3>9. (Written(load.number) \/ load.number \in load.half)'
      BY <2>0, <3>1, <3>4 DEF Written
    <3> QED
      BY <3>1, <3>7, <3>8, <3>9 DEF LoadOnItsWay
  <2> QED
    BY <2>1, <2>2
<1>4. CASE ReadLatest
  <2> DEFINE k == load.number
             firstTen == load.before \intersect 0 .. 9
  <2>1. /\ load.at = "read" /\ directory' = directory
        /\ load'.at = "done" /\ load'.before = load.before /\ load'.half = load.half
        /\ load'.result = IF directory[k] = Partial THEN Null ELSE directory[k]
    BY <1>4 DEF ReadLatest, TypeOK
  <2>2. /\ k \in DOMAIN directory /\ k \in Nat
        /\ directory[k] \in {Partial, k + 1}
        /\ \A n \in firstTen : n <= k /\ n \in Nat /\ Written(n)
        /\ Written(k) \/ k \in load.half
    <3>1. k \in DOMAIN directory
      BY <2>1 DEF ChosenIsThere
    <3>2. k \in Nat
      BY DEF TypeOK, Numbers
    <3>3. directory[k] \in {Partial, k + 1}
      BY <1>0, <3>1 DEF NumbersAreSnapshots
    <3>4. \A n \in firstTen : n <= k /\ n \in Nat /\ Written(n)
      BY <1>0, <1>b, <2>1 DEF LoadOnItsWay
    <3>5. Written(k) \/ k \in load.half
      BY <1>0, <2>1 DEF LoadOnItsWay
    <3> QED
      BY <3>1, <3>2, <3>3, <3>4, <3>5
  <2> HIDE DEF k
  <2>3. CASE directory[k] = Partial
    <3>1. ~Written(k)
      BY <2>2, <2>3 DEF Written, Partial
    <3>2. k \in load.half /\ \A n \in firstTen : n < k
      BY <2>2, <3>1
    <3>3. load'.result = Null
      BY <2>1, <2>3
    <3> QED
      BY <1>b, <2>1, <3>2, <3>3 DEF LoadOnItsWay, GoodEnd
  <2>4. CASE directory[k] = k + 1 /\ directory[k] # Partial
    <3>1. load'.result = k + 1 /\ k + 1 # Null
      BY <2>1, <2>2, <2>4 DEF Null
    <3>2. \A n \in firstTen : k + 1 >= n + 1
      BY <2>2
    <3> QED
      BY <1>b, <2>1, <3>1, <3>2 DEF LoadOnItsWay, GoodEnd
  <2> QED
    BY <2>2, <2>3, <2>4
<1>5. CASE LoadFails
  <2>1. /\ load.at # "idle" /\ load'.at = "done" /\ load'.failed
        /\ load'.before = load.before /\ load'.result = load.result
    BY <1>5 DEF LoadFails, UnderWay, TypeOK
  <2>2. load.result = Null
    BY <1>5 DEF ChosenIsThere, LoadFails
  <2> QED
    BY <1>b, <2>1, <2>2 DEF LoadOnItsWay, GoodEnd
<1>6. CASE Restart \/ ListCheckpoints
  BY <1>6 DEF Restart, ListCheckpoints, IdleLoad
<1> QED
  BY <1>1, <1>2, <1>3, <1>4, <1>5, <1>6 DEF Next, vars, SaveCheckpoint, TakeSnapshot, OpenFile,
     WriteFile, SaveFails, ReadListNames, ReadListed, FinishList, ListFails

(* A listing reads the names that are there, and all parse that were whole *)
(* when it was given them.                                                 *)
LEMMA ListStep ==
  TypeOK /\ Numbering /\ NumbersAreSnapshots /\ ListOnItsWay /\ [Next]_vars => ListOnItsWay'
<1> SUFFICES ASSUME TypeOK, Numbering, NumbersAreSnapshots, ListOnItsWay, [Next]_vars,
                    ~rewound', list'.at # "idle"
             PROVE  ListOnItsWay'
  BY DEF ListOnItsWay
<1>0. ~rewound
  BY RewoundStays
<1>a. ASSUME NEW n \in Nat, Written(n) PROVE Written(n)'
  BY <1>a, WrittenStays
<1>b. list.at # "idle" => \A n \in list.before : n \in Nat /\ Written(n) /\ Written(n)'
  <2>1. \A n \in list.before : n \in Nat
    BY DEF TypeOK, Numbers
  <2> QED
    BY <1>0, <1>a, <2>1 DEF ListOnItsWay
<1>c. list.at = "read" => \A n \in list.unread : Written(n)' \/ n \in list.half
  <2>1. \A n \in list.unread : n \in Nat
    BY DEF TypeOK, Numbers
  <2> QED
    BY <1>0, <1>a, <2>1 DEF ListOnItsWay
<1>1. CASE list' = list
  BY <1>0, <1>1, <1>b, <1>c DEF ListOnItsWay
<1>2. CASE ListCheckpoints
  <2>1. list'.at = "names" /\ list'.before = returned /\ directory' = directory
    BY <1>2 DEF ListCheckpoints, IdleList
  <2>2. \A n \in returned : Written(n)
    BY <1>0 DEF NumbersAreSnapshots
  <2> QED
    BY <2>1, <2>2 DEF ListOnItsWay, Written
<1>3. CASE ReadListNames
  <2>1. /\ list.at = "names" /\ directory' = directory /\ list'.at = "read"
        /\ list'.before = list.before /\ list'.unread = DOMAIN directory
        /\ list'.half = HalfWritten
    BY <1>3 DEF ReadListNames, TypeOK
  <2>2. \A n \in DOMAIN directory : Written(n) \/ n \in HalfWritten
    BY <1>0 DEF NumbersAreSnapshots, Written, HalfWritten
  <2>3. \A n \in list.before : n \in DOMAIN directory
    BY <1>b, <2>1 DEF Written
  <2> QED
    BY <1>b, <2>1, <2>2, <2>3 DEF ListOnItsWay, Written
<1>4. ASSUME NEW n \in Numbers, ReadListed(n) PROVE ListOnItsWay'
  <2>1. list.at = "read" /\ n \in list.unread /\ directory' = directory
    BY <1>4 DEF ReadListed
  <2>2. CASE directory[n] = Partial
    <3>1. /\ list'.at = "done" /\ list'.read = {} /\ list'.half = list.half
          /\ list'.before = list.before
      BY <1>4, <2>2 DEF ReadListed, TypeOK
    <3>2. ~Written(n)
      BY <2>2 DEF Written, Partial, Numbers
    <3>3. n \in list.half /\ n \notin list.before
      BY <1>0, <1>b, <2>1, <3>2 DEF ListOnItsWay
    <3> QED
      BY <1>b, <2>1, <3>1, <3>3 DEF ListOnItsWay
  <2>3. CASE directory[n] # Partial
    <3>1. /\ list'.at = "read" /\ list'.half = list.half /\ list'.before = list.before
          /\ list'.unread = list.unread \ {n} /\ list'.read = list.read \union {n}
      BY <1>4, <2>1, <2>3 DEF ReadListed, TypeOK
    <3> QED
      BY <1>0, <1>b, <1>c, <2>1, <3>1 DEF ListOnItsWay
  <2> QED
    BY <2>2, <2>3
<1>5. CASE FinishList
  <2>1. /\ list.at = "read" /\ list.unread = {} /\ list'.at = "done"
        /\ list'.read = list.read /\ list'.before = list.before
    BY <1>5 DEF FinishList, TypeOK
  <2> QED
    BY <1>0, <1>b, <2>1 DEF ListOnItsWay
<1>6. CASE ListFails
  <2>1. /\ list.at # "idle" /\ list'.at = "done" /\ list'.read = {} /\ list'.failed
        /\ list'.before = list.before
    BY <1>6 DEF ListFails, UnderWay, TypeOK
  <2> QED
    BY <1>b, <2>1 DEF ListOnItsWay
<1>7. CASE Restart \/ LoadLatestCheckpoint
  BY <1>7 DEF Restart, LoadLatestCheckpoint, IdleList
<1> QED
  BY <1>1, <1>2, <1>3, <1>4, <1>5, <1>6, <1>7 DEF Next, vars, SaveCheckpoint, TakeSnapshot,
     OpenFile, WriteFile, SaveFails, ReadNames, ReadLatest, LoadFails

-----------------------------------------------------------------------------
(* The invariant.                                                          *)
LEMMA Invariance == Spec => []Inv
<1>1. Init => Inv
  BY InitInv
<1>2. Inv /\ [Next]_vars => Inv'
  BY TypeStep, ChosenStep, NumberingStep, NumbersStep, LoadStep, ListStep DEF Inv
<1> QED
  BY <1>1, <1>2, PTL DEF Spec

(* The types, for any bounds: files hold what was snapshotted, and a load  *)
(* reads a file that is there.                                             *)
THEOREM TypeCorrect == Spec => []TypeOK
<1>1. Inv => TypeOK
  BY DEF Inv
<1> QED
  BY <1>1, Invariance, PTL

(* NodeCheckpointManager.saveCheckpoint: however many saves overlap, none  *)
(* writes the file of another save of the same run of the process.         *)
THEOREM CheckpointsStay == Spec => OwnCheckpointsStay
<1> DEFINE Stay == \A n \in DOMAIN directory :
                     directory[n] > sinceStart =>
                       n \in DOMAIN directory' /\ directory'[n] = directory[n]
<1>1. Inv /\ [Next]_vars => Stay
  BY FilesStay DEF Inv
<1>2. Inv /\ [Next]_vars => [Stay]_vars
  BY <1>1
<1> QED
  BY <1>2, Invariance, PTL DEF Spec, OwnCheckpointsStay

(* NodeCheckpointManager.listCheckpoints: whatever is saved, fails or      *)
(* crashes while it reads, a listing has every checkpoint whose save had   *)
(* returned when it was called, or is empty for a file it names that is    *)
(* not whole or an operation that failed; until numbers are given again.   *)
THEOREM ListingsComplete == Spec => []ListComplete
<1>1. Inv => ListComplete
  BY DEF Inv, ListOnItsWay, ListComplete
<1> QED
  BY <1>1, Invariance, PTL

(* NodeCheckpointManager.loadLatestCheckpoint: whatever is saved, fails or *)
(* crashes while it reads, a load gives a snapshot at least as late as     *)
(* each of the first ten whose saves had returned when it was called; null *)
(* only for an operation of its own that failed or a later file that was   *)
(* not whole; until numbers are given again.                               *)
THEOREM SavedAreFound == Spec => []LoadFindsSaved
<1>1. Inv => LoadFindsSaved
  BY DEF Inv, LoadOnItsWay, GoodEnd, LoadFindsSaved
<1> QED
  BY <1>1, Invariance, PTL

=============================================================================
