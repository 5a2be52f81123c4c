----------------------- MODULE BatchVoteProcessorProofs -----------------------
(***************************************************************************)
(* Theorems about BatchVoteProcessor, for any votes, any number of calls   *)
(* of processBatch under way at a time, and any failures.                  *)
(*                                                                         *)
(* The count is a sum over all the calls there were.  The histories        *)
(* entries and counted make it a matter of sets: every call owns the       *)
(* entries its loop has written, nobody owns the entry of another, and     *)
(* what is counted are the entries a call owned when its loop was over.    *)
(***************************************************************************)
EXTENDS BatchVoteProcessor, FiniteSetTheorems, TLAPS

Looping(c) == calls[c].at \in {"direct", "batch"}

(* A loop owns as many entries as it has passed votes, and a call owns     *)
(* none when its loop is over or has failed.                               *)
EntriesOwned ==
  /\ \A c \in Calls : Looping(c) =>
       calls[c].next >= 1 /\ Cardinality(entries[c]) = calls[c].next - 1
  /\ \A c \in Calls : ~Looping(c) => entries[c] = {}

(* No entry has two owners or is counted twice.                            *)
EntriesApart ==
  /\ \A c \in Calls : entries[c] \intersect counted = {}
  /\ \A c, d \in Calls : c # d => entries[c] \intersect entries[d] = {}

CountIsTrue == totalVotes = Cardinality(counted) /\ checkpoint <= totalVotes

(* Only failures leave entries that are neither counted nor owned.         *)
NoneAbandoned ==
  ~failed => \A k \in DOMAIN log : k \in counted \/ \E c \in Calls : k \in entries[c]

(* A batch that is replaced first is never the one a loop goes over.       *)
OwnArrays == \A c \in Calls : calls[c].live => ~clearsFirst

CountInv == TypeOK /\ OwnArrays /\ EntriesOwned /\ EntriesApart /\ CountIsTrue /\ NoneAbandoned

(* What a call has still to log, and what waits for another one.           *)
Rest(c) == {VotesOf(c)[i] : i \in calls[c].next .. Len(VotesOf(c))}
Waiting(c) == IF calls[c].live THEN {} ELSE ToSet(batch)

AtRest == ToSet(log) \union ToSet(batch) = added /\ ToSet(log) \intersect ToSet(batch) = {}

OnlyCall(c) == \A d \in Calls : calls[d].at # "idle" => d = c

UnderWay(c) ==
  /\ calls[c].live <=> calls[c].at # "direct" /\ ~clearsFirst
  /\ calls[c].at = "processor" => calls[c].next > Len(VotesOf(c))
  /\ IsInjective(VotesOf(c))
  /\ ToSet(log) \union Rest(c) \union Waiting(c) = added
  /\ ToSet(log) \intersect Rest(c) = {}
  /\ ToSet(log) \intersect Waiting(c) = {}
  /\ Rest(c) \intersect Waiting(c) = {}

(* Of calls that neither fail nor overlap, every vote is in one place.     *)
EachVoteOnce ==
  ~failed /\ ~overlapped =>
    /\ IsInjective(log) /\ IsInjective(batch)
    /\ ~Busy => AtRest
    /\ \A c \in Calls : calls[c].at # "idle" => OnlyCall(c) /\ UnderWay(c)

Inv == CountInv /\ EachVoteOnce

-----------------------------------------------------------------------------
(* The sequence made of a set has each of its members once.                *)
LEMMA SequenceOfSet ==
  ASSUME NEW V \in SUBSET Votes
  PROVE  SetToSeq(V) \in Seq(Votes) /\ IsInjective(SetToSeq(V)) /\ ToSet(SetToSeq(V)) = V
<1> DEFINE n == Cardinality(V)
<1>1. IsFiniteSet(V)
  BY VotesAssumption, FS_Subset
<1>2. n \in Nat /\ ExistsBijection(1 .. n, V)
  BY <1>1, FS_CardinalityType
<1>3. PICK f \in [1 .. n -> V] :
        /\ \A a, b \in 1 .. n : f[a] = f[b] => a = b
        /\ \A v \in V : \E a \in 1 .. n : f[a] = v
  BY <1>2 DEF ExistsBijection, Bijection, Injection, Surjection, IsInjective
<1>4. IsInjective(f)
  BY <1>3 DEF IsInjective
<1> DEFINE s == SetToSeq(V)
<1>5. s \in [1 .. n -> V] /\ IsInjective(s)
  BY <1>3, <1>4 DEF SetToSeq
<1>6. s \in Surjection(1 .. n, V)
  <2>1. IsFiniteSet(1 .. n) /\ Cardinality(1 .. n) = n
    BY <1>2, FS_Interval
  <2>2. s \in Injection(1 .. n, V)
    BY <1>5 DEF Injection, IsInjective
  <2> HIDE DEF s
  <2> QED
    BY <1>1, <2>1, <2>2, FS_Injection
<1>7. ToSet(s) = V
  BY <1>5, <1>6 DEF ToSet, Surjection
<1> HIDE DEF n
<1>8. s \in Seq(Votes)
  BY <1>2, <1>5
<1> QED
  BY <1>5, <1>7, <1>8

(* The array of a call is an array of votes.                               *)
LEMMA ArrayOfCall ==
  ASSUME TypeOK, NEW c \in Calls
  PROVE  /\ VotesOf(c) \in Seq(Votes) /\ Len(VotesOf(c)) \in Nat
         /\ calls[c] \in [at : {"idle", "direct", "batch", "processor"},
                          own : Seq(Votes), live : BOOLEAN, next : Nat]
         /\ calls[c].next <= Len(VotesOf(c)) + 1
  BY DEF TypeOK, VotesOf

(* What the steps of a call do to the arrays of all.                       *)
LEMMA FinishKeepsArrays ==
  ASSUME TypeOK, OwnArrays, NEW c \in Calls, FinishBatch(c), NEW d \in Calls, d # c
  PROVE  /\ calls'[d].at = calls[d].at /\ calls'[d].next = calls[d].next
         /\ ~calls'[d].live /\ VotesOf(d)' = VotesOf(d)
<1>1. calls'[d] = [calls[d] EXCEPT !.own = VotesOf(d), !.live = FALSE]
  BY DEF FinishBatch
<1>2. calls[d] \in [at : {"idle", "direct", "batch", "processor"},
                    own : Seq(Votes), live : BOOLEAN, next : Nat]
  BY ArrayOfCall
<1>3. calls'[d].own = VotesOf(d) /\ calls'[d].live = FALSE
      /\ calls'[d].at = calls[d].at /\ calls'[d].next = calls[d].next
  BY <1>1, <1>2
<1> QED
  BY <1>3 DEF VotesOf

-----------------------------------------------------------------------------
(* Types.                                                                  *)

Positions == [at : {"idle", "direct", "batch", "processor"},
              own : Seq(Votes), live : BOOLEAN, next : Nat]

LEMMA InitInv == Init => Inv
<1> SUFFICES ASSUME Init PROVE Inv
  OBVIOUS
<1>1. /\ \A c \in Calls : calls[c] = Idle /\ entries[c] = {}
      /\ batch = <<>> /\ log = <<>> /\ totalVotes = 0 /\ checkpoint = 0
      /\ counted = {} /\ added = {} /\ clearsFirst \in BOOLEAN
      /\ calls = [c \in Calls |-> Idle] /\ entries = [c \in Calls |-> {}]
      /\ failed = FALSE /\ overlapped = FALSE
  BY DEF Init
<1>2. /\ Idle \in Positions /\ Idle.at = "idle" /\ Idle.own = <<>> /\ Idle.live = FALSE
      /\ Idle.next = 0
  BY DEF Idle, Positions
<1>3. \A c \in Calls : VotesOf(c) = <<>>
  BY <1>1, <1>2 DEF VotesOf
<1>4. TypeOK
  <2>1. calls \in [Calls -> Positions] /\ entries \in [Calls -> SUBSET DOMAIN log]
    BY <1>1, <1>2
  <2>2. \A c \in Calls : calls[c].next \in 0 .. Len(VotesOf(c)) + 1
    <3>1. Len(<<>>) = 0
      OBVIOUS
    <3> QED
      BY <1>1, <1>2, <1>3, <3>1
  <2>3. batch \in Seq(Votes) /\ log \in Seq(Votes)
    BY <1>1
  <2> QED
    BY <1>1, <2>1, <2>2, <2>3 DEF TypeOK, Positions
<1>5. OwnArrays
  BY <1>1, <1>2 DEF OwnArrays
<1>6. EntriesOwned /\ EntriesApart
  BY <1>1, <1>2 DEF EntriesOwned, EntriesApart, Looping
<1>7. CountIsTrue /\ NoneAbandoned
  BY <1>1, FS_EmptySet DEF CountIsTrue, NoneAbandoned
<1>8. EachVoteOnce
  <2>1. IsInjective(<<>>) /\ ToSet(<<>>) = {}
    BY DEF IsInjective, ToSet
  <2> QED
    BY <1>1, <1>2, <2>1 DEF EachVoteOnce, AtRest
<1> QED
  BY <1>4, <1>5, <1>6, <1>7, <1>8 DEF Inv, CountInv

LEMMA TypeStep == TypeOK /\ OwnArrays /\ EntriesOwned /\ [Next]_vars => TypeOK' /\ OwnArrays'
<1> SUFFICES ASSUME TypeOK, OwnArrays, EntriesOwned, [Next]_vars PROVE TypeOK' /\ OwnArrays'
  OBVIOUS
<1>t. /\ clearsFirst \in BOOLEAN /\ batch \in Seq(Votes) /\ calls \in [Calls -> Positions]
      /\ \A c \in Calls : /\ calls[c].next \in Nat /\ calls[c].next <= Len(VotesOf(c)) + 1
                          /\ VotesOf(c) \in Seq(Votes) /\ calls[c].own \in Seq(Votes)
                          /\ calls[c] \in Positions
      /\ totalVotes \in Nat /\ log \in Seq(Votes) /\ checkpoint \in Nat /\ added \subseteq Votes
      /\ failed \in BOOLEAN /\ overlapped \in BOOLEAN
      /\ entries \in [Calls -> SUBSET DOMAIN log] /\ counted \subseteq DOMAIN log
  BY ArrayOfCall DEF TypeOK, Positions
<1>i. Idle \in Positions /\ Idle.own = <<>> /\ Idle.live = FALSE /\ Idle.next = 0
  BY DEF Idle, Positions
<1>b. Busy \in BOOLEAN
  BY DEF Busy
<1>1. ASSUME NEW v \in Votes, AddVote(v) PROVE TypeOK' /\ OwnArrays'
  <2>1. \A c \in Calls : calls[c].next <= Len(VotesOf(c)') + 1
    <3> TAKE c \in Calls
    <3>1. CASE calls[c].live
      <4>1. VotesOf(c) = batch /\ VotesOf(c)' = Append(batch, v)
        BY <1>1, <3>1 DEF AddVote, VotesOf
      <4>2. Len(VotesOf(c)') = Len(batch) + 1
        BY <1>t, <4>1
      <4> QED
        BY <1>t, <4>1, <4>2
    <3>2. CASE ~calls[c].live
      <4>1. VotesOf(c)' = VotesOf(c)
        BY <1>1, <3>2 DEF AddVote, VotesOf
      <4> QED
        BY <1>t, <4>1
    <3> QED
      BY <3>1, <3>2
  <2> QED
    BY <1>1, <1>t, <1>b, <2>1 DEF AddVote, TypeOK, OwnArrays, Positions
<1>2. ASSUME NEW c \in Calls, NEW V \in SUBSET Votes, ProcessVotes(c, SetToSeq(V))
      PROVE  TypeOK' /\ OwnArrays'
  <2> DEFINE vs == SetToSeq(V)
             r == [at |-> "direct", own |-> vs, live |-> FALSE, next |-> 1]
  <2>1. vs \in Seq(Votes) /\ ToSet(vs) = V
    BY SequenceOfSet
  <2>2. calls' = [calls EXCEPT ![c] = r] /\ batch' = batch
    BY <1>2 DEF ProcessVotes
  <2>3. r \in Positions /\ r.own = vs /\ ~r.live /\ r.next = 1
    BY <2>1 DEF Positions
  <2> HIDE DEF vs, r
  <2>4. calls'[c] = r /\ \A d \in Calls : d # c => calls'[d] = calls[d]
    BY <2>2, <1>t
  <2>5. VotesOf(c)' = vs /\ \A d \in Calls : d # c => VotesOf(d)' = VotesOf(d)
    BY <2>2, <2>3, <2>4 DEF VotesOf
  <2>6. \A d \in Calls : calls'[d].next <= Len(VotesOf(d)') + 1
    <3>1. calls'[c].next <= Len(VotesOf(c)') + 1
      <4>1. Len(vs) \in Nat
        BY <2>1
      <4> QED
        BY <4>1, <2>3, <2>4, <2>5
    <3>2. \A d \in Calls : d # c => calls'[d].next <= Len(VotesOf(d)') + 1
      BY <2>4, <2>5, <1>t
    <3> QED
      BY <3>1, <3>2
  <2>7. calls' \in [Calls -> Positions]
    BY <2>2, <2>3, <1>t
  <2>7a. \A d \in Calls : calls'[d].next \in Nat
    BY <2>7 DEF Positions
  <2>8. TypeOK'
    BY <1>2, <1>t, <1>b, <2>1, <2>2, <2>6, <2>7, <2>7a DEF ProcessVotes, TypeOK, Positions, vs
  <2> QED
    BY <2>8, <1>2, <2>3, <2>4 DEF OwnArrays, ProcessVotes
<1>3. ASSUME NEW c \in Calls, ProcessBatch(c) PROVE TypeOK' /\ OwnArrays'
  <2> DEFINE r == [at |-> "batch", own |-> batch, live |-> ~clearsFirst, next |-> 1]
  <2>1. calls' = [calls EXCEPT ![c] = r] /\ clearsFirst' = clearsFirst
    BY <1>3 DEF ProcessBatch
  <2>2. /\ r \in Positions /\ r.own = batch /\ r.live = ~clearsFirst /\ r.next = 1
    BY <1>t DEF Positions
  <2> HIDE DEF r
  <2>3. calls'[c] = r /\ \A d \in Calls : d # c => calls'[d] = calls[d]
    BY <2>1, <1>t
  <2>4. /\ batch' \in Seq(Votes)
        /\ clearsFirst => \A d \in Calls : ~calls'[d].live
        /\ ~clearsFirst => batch' = batch
    <3>1. batch' = IF clearsFirst THEN <<>> ELSE batch
      BY <1>3 DEF ProcessBatch
    <3>2. batch' \in Seq(Votes)
      <4>1. <<>> \in Seq(Votes)
        OBVIOUS
      <4> QED
        BY <3>1, <4>1, <1>t
    <3>3. clearsFirst => \A d \in Calls : ~calls'[d].live
      BY <2>2, <2>3 DEF OwnArrays
    <3> QED
      BY <3>1, <3>2, <3>3
  <2>5. VotesOf(c)' = batch /\ \A d \in Calls : d # c => VotesOf(d)' = VotesOf(d)
    BY <2>2, <2>3, <2>4, <1>t DEF VotesOf
  <2>6. \A d \in Calls : calls'[d].next <= Len(VotesOf(d)') + 1
    <3>1. calls'[c].next <= Len(VotesOf(c)') + 1
      <4>1. Len(batch) \in Nat
        BY <1>t
      <4> QED
        BY <4>1, <2>2, <2>3, <2>5
    <3>2. \A d \in Calls : d # c => calls'[d].next <= Len(VotesOf(d)') + 1
      BY <2>3, <2>5, <1>t
    <3> QED
      BY <3>1, <3>2
  <2>7. calls' \in [Calls -> Positions]
    BY <2>1, <2>2, <1>t
  <2>7a. \A d \in Calls : calls'[d].next \in Nat
    BY <2>7 DEF Positions
  <2>8. TypeOK'
    BY <1>3, <1>t, <1>b, <2>4, <2>6, <2>7, <2>7a DEF ProcessBatch, TypeOK, Positions
  <2> QED
    BY <2>8, <2>1, <2>4 DEF OwnArrays
<1>4. ASSUME NEW c \in Calls, LogVote(c) PROVE TypeOK' /\ OwnArrays'
  <2> DEFINE r == [calls[c] EXCEPT !.next = calls[c].next + 1]
  <2>1. calls' = [calls EXCEPT ![c] = r] /\ batch' = batch /\ clearsFirst' = clearsFirst
    BY <1>4 DEF LogVote
  <2>2. /\ r \in Positions /\ r.own = calls[c].own /\ r.live = calls[c].live
        /\ r.next = calls[c].next + 1
    <3>1. calls[c].next \in Nat /\ calls[c] \in Positions
      BY <1>t
    <3>2. calls[c].next + 1 \in Nat
      BY <3>1
    <3>3. \A x \in Positions, n \in Nat :
            LET y == [x EXCEPT !.next = n]
            IN  y \in Positions /\ y.own = x.own /\ y.live = x.live /\ y.next = n
                /\ y.at = x.at
      BY DEF Positions
    <3> QED
      BY <3>1, <3>2, <3>3
  <2> HIDE DEF r
  <2>3. calls'[c] = r /\ \A d \in Calls : d # c => calls'[d] = calls[d]
    BY <2>1, <1>t
  <2>4. \A d \in Calls : VotesOf(d)' = VotesOf(d)
    BY <2>1, <2>2, <2>3 DEF VotesOf
  <2>5. calls[c].next >= 1 /\ calls[c].next <= Len(VotesOf(c))
    BY <1>4 DEF LogVote, EntriesOwned, Looping
  <2>6. \A d \in Calls : calls'[d].next <= Len(VotesOf(d)') + 1
    <3>1. calls'[c].next <= Len(VotesOf(c)') + 1
      <4>1. Len(VotesOf(c)) \in Nat /\ calls[c].next \in Nat
        BY <1>t
      <4> QED
        BY <4>1, <2>2, <2>3, <2>4, <2>5
    <3>2. \A d \in Calls : d # c => calls'[d].next <= Len(VotesOf(d)') + 1
      BY <2>3, <2>4, <1>t
    <3> QED
      BY <3>1, <3>2
  <2>7. VotesOf(c)[calls[c].next] \in Votes
    BY <2>5, <1>t
  <2>8. log' \in Seq(Votes) /\ DOMAIN log' = DOMAIN log \union {Len(log) + 1}
    BY <1>4, <2>7, <1>t DEF LogVote
  <2>9. entries' \in [Calls -> SUBSET DOMAIN log'] /\ counted' \subseteq DOMAIN log'
    BY <1>4, <2>8, <1>t DEF LogVote
  <2>10. calls' \in [Calls -> Positions]
    BY <2>1, <2>2, <1>t
  <2>11. \A d \in Calls : calls'[d].next \in Nat
    BY <2>10 DEF Positions
  <2>12. TypeOK'
    BY <1>4, <1>t, <2>6, <2>8, <2>9, <2>10, <2>11 DEF LogVote, TypeOK, Positions
  <2> QED
    BY <2>12, <2>1, <2>2, <2>3 DEF OwnArrays
<1>5. ASSUME NEW c \in Calls, CountVotes(c) PROVE TypeOK' /\ OwnArrays'
  <2> DEFINE r == Counted(c)
  <2>1. calls' = [calls EXCEPT ![c] = r] /\ batch' = batch /\ clearsFirst' = clearsFirst
    BY <1>5 DEF CountVotes
  <2>2. \/ r = Idle
        \/ /\ r \in Positions /\ r.own = calls[c].own /\ r.live = calls[c].live
           /\ r.next = calls[c].next
    BY <1>t DEF Positions, Counted
  <2>2a. r \in Positions
    BY <2>2, <1>i
  <2> HIDE DEF r
  <2>3. calls'[c] = r /\ \A d \in Calls : d # c => calls'[d] = calls[d]
    BY <2>1, <1>t
  <2>4. \A d \in Calls : VotesOf(d)' = VotesOf(d) \/ calls'[d] = Idle
    BY <2>1, <2>2, <2>3 DEF VotesOf
  <2>5. \A d \in Calls : calls'[d].next <= Len(VotesOf(d)') + 1
    <3> TAKE d \in Calls
    <3>1. CASE calls'[d] = Idle
      <4>1. VotesOf(d)' = <<>>
        BY <3>1, <1>i DEF VotesOf
      <4> QED
        BY <3>1, <4>1, <1>i
    <3>2. CASE calls'[d] # Idle
      BY <3>2, <2>2, <2>3, <2>4, <1>t
    <3> QED
      BY <3>1, <3>2
  <2>6. entries' \in [Calls -> SUBSET DOMAIN log] /\ counted' \subseteq DOMAIN log
    BY <1>5, <1>t DEF CountVotes
  <2>7. totalVotes' \in Nat
    BY <1>5, <1>t DEF CountVotes
  <2>8. calls' \in [Calls -> Positions]
    BY <2>1, <2>2a, <1>t
  <2>9. \A d \in Calls : calls'[d].next \in Nat
    BY <2>8 DEF Positions
  <2>10. TypeOK'
    BY <1>5, <1>t, <2>5, <2>6, <2>7, <2>8, <2>9 DEF CountVotes, TypeOK, Positions
  <2> QED
    BY <2>10, <2>1, <2>2, <2>3, <1>i DEF OwnArrays
<1>6. ASSUME NEW c \in Calls, FinishBatch(c) PROVE TypeOK' /\ OwnArrays'
  <2>1. calls'[c] = Idle /\ VotesOf(c)' = <<>>
    BY <1>6, <1>i DEF FinishBatch, VotesOf
  <2>2. \A d \in Calls : d # c =>
          calls'[d].next = calls[d].next /\ ~calls'[d].live /\ VotesOf(d)' = VotesOf(d)
    BY <1>6, FinishKeepsArrays
  <2>3. \A d \in Calls : calls'[d].next \in Nat /\ calls'[d].next <= Len(VotesOf(d)') + 1
    <3>1. calls'[c].next \in Nat /\ calls'[c].next <= Len(VotesOf(c)') + 1
      <4>1. calls'[c].next = 0
        BY <2>1, <1>i
      <4>2. Len(VotesOf(c)') = 0
        BY <2>1
      <4> QED
        BY <4>1, <4>2
    <3>2. ASSUME NEW d \in Calls, d # c
          PROVE  calls'[d].next \in Nat /\ calls'[d].next <= Len(VotesOf(d)') + 1
      <4>1. calls'[d].next = calls[d].next /\ VotesOf(d)' = VotesOf(d)
        BY <2>2, <3>2
      <4>2. calls[d].next \in Nat /\ calls[d].next <= Len(VotesOf(d)) + 1
        BY <1>t
      <4> QED
        BY <4>1, <4>2
    <3> QED
      BY <3>1, <3>2
  <2>4. \A d \in Calls : [calls[d] EXCEPT !.own = VotesOf(d), !.live = FALSE] \in Positions
    BY <1>t DEF Positions
  <2>5. calls' \in [Calls -> Positions]
    BY <1>6, <2>4, <1>i DEF FinishBatch
  <2>6. batch' \in Seq(Votes)
    <3>1. <<>> \in Seq(Votes)
      OBVIOUS
    <3> QED
      BY <1>6, <3>1, <1>t DEF FinishBatch
  <2>7. TypeOK'
    <3>1. UNCHANGED <<clearsFirst, totalVotes, log, checkpoint, added, failed, overlapped,
                      entries, counted>>
      BY <1>6 DEF FinishBatch
    <3>2. \A d \in Calls : calls'[d].next \in 0 .. Len(VotesOf(d)') + 1
      <4>1. \A d \in Calls : VotesOf(d)' \in Seq(Votes)
        <5>1. <<>> \in Seq(Votes)
          OBVIOUS
        <5>2. VotesOf(c)' \in Seq(Votes)
          BY <5>1, <2>1
        <5>3. \A d \in Calls : d # c => VotesOf(d)' \in Seq(Votes)
          BY <2>2, <1>t
        <5> QED
          BY <5>2, <5>3
      <4> QED
        BY <4>1, <2>3
    <3> QED
      BY <1>t, <2>5, <2>6, <3>1, <3>2 DEF TypeOK, Positions
  <2> QED
    BY <2>7, <2>1, <2>2, <1>i DEF OwnArrays
<1>7. ASSUME NEW c \in Calls, Fail(c) PROVE TypeOK' /\ OwnArrays'
  <2>1. calls' = [calls EXCEPT ![c] = Idle] /\ batch' = batch /\ clearsFirst' = clearsFirst
    BY <1>7 DEF Fail
  <2>2. calls'[c] = Idle /\ \A d \in Calls : d # c => calls'[d] = calls[d]
    BY <2>1, <1>t
  <2>3. VotesOf(c)' = <<>> /\ \A d \in Calls : d # c => VotesOf(d)' = VotesOf(d)
    BY <2>1, <2>2, <1>i DEF VotesOf
  <2>4. \A d \in Calls : calls'[d].next \in Nat /\ calls'[d].next <= Len(VotesOf(d)') + 1
    <3>1. calls'[c].next \in Nat /\ calls'[c].next <= Len(VotesOf(c)') + 1
      <4>1. calls'[c].next = 0
        BY <2>2, <1>i
      <4>2. Len(VotesOf(c)') = 0
        BY <2>3
      <4> QED
        BY <4>1, <4>2
    <3>2. ASSUME NEW d \in Calls, d # c
          PROVE  calls'[d].next \in Nat /\ calls'[d].next <= Len(VotesOf(d)') + 1
      <4>1. calls'[d].next = calls[d].next /\ VotesOf(d)' = VotesOf(d)
        BY <2>2, <2>3, <3>2
      <4>2. calls[d].next \in Nat /\ calls[d].next <= Len(VotesOf(d)) + 1
        BY <1>t
      <4> QED
        BY <4>1, <4>2
    <3> QED
      BY <3>1, <3>2
  <2>5. calls' \in [Calls -> Positions]
    BY <2>1, <1>t, <1>i
  <2>6. log' \in Seq(Votes) /\ DOMAIN log \subseteq DOMAIN log'
    <3>1. CASE log' = log
      BY <3>1, <1>t
    <3>2. CASE calls[c].at # "processor" /\ log' = Append(log, VotesOf(c)[calls[c].next])
      <4>1. Looping(c) /\ calls[c].next <= Len(VotesOf(c))
        BY <1>7, <3>2, <1>t DEF Fail, Looping, Positions
      <4>2. VotesOf(c)[calls[c].next] \in Votes
        BY <4>1, <1>t DEF EntriesOwned
      <4> QED
        BY <3>2, <4>2, <1>t
    <3> QED
      BY <1>7, <3>1, <3>2 DEF Fail
  <2>7. entries' \in [Calls -> SUBSET DOMAIN log'] /\ counted' \subseteq DOMAIN log'
    BY <1>7, <2>6, <1>t DEF Fail
  <2>8. TypeOK'
    BY <1>7, <1>t, <2>4, <2>5, <2>6, <2>7 DEF Fail, TypeOK, Positions
  <2> QED
    BY <2>8, <2>1, <2>2, <1>i DEF OwnArrays
<1>8. CASE Checkpoint
  <2>1. \A d \in Calls : VotesOf(d)' = VotesOf(d)
    BY <1>8 DEF Checkpoint, VotesOf
  <2> QED
    BY <1>8, <1>t, <2>1 DEF Checkpoint, TypeOK, OwnArrays, Positions
<1>9. CASE UNCHANGED vars
  <2>1. \A d \in Calls : VotesOf(d)' = VotesOf(d)
    BY <1>9 DEF vars, VotesOf
  <2> QED
    BY <1>9, <1>t, <2>1 DEF vars, TypeOK, OwnArrays, Positions
<1> QED
  BY <1>1, <1>2, <1>3, <1>4, <1>5, <1>6, <1>7, <1>8, <1>9 DEF Next

-----------------------------------------------------------------------------
(* The count.                                                              *)

(* Positions in the log can be counted. *)
LEMMA EntriesFinite ==
  ASSUME TypeOK, NEW S \in SUBSET DOMAIN log
  PROVE  IsFiniteSet(S) /\ Cardinality(S) \in Nat /\ Cardinality(S) <= Len(log)
<1>1. DOMAIN log = 1 .. Len(log) /\ Len(log) \in Nat
  BY DEF TypeOK
<1>2. IsFiniteSet(1 .. Len(log)) /\ Cardinality(1 .. Len(log)) = Len(log)
  BY <1>1, FS_Interval
<1> QED
  BY <1>1, <1>2, FS_Subset, FS_CardinalityType

(* The part of the invariant that the count needs survives a step that     *)
(* touches neither the histories nor what a loop has passed.               *)
LEMMA CountUndisturbed ==
  ASSUME EntriesOwned, EntriesApart, CountIsTrue, NoneAbandoned,
         UNCHANGED <<entries, counted, totalVotes, checkpoint, failed, log>>,
         \A c \in Calls : Looping(c) <=> Looping(c)',
         \A c \in Calls : Looping(c) => calls'[c].next = calls[c].next
  PROVE  EntriesOwned' /\ EntriesApart' /\ CountIsTrue' /\ NoneAbandoned'
<1>1. EntriesOwned'
  BY DEF EntriesOwned
<1>2. EntriesApart' /\ CountIsTrue' /\ NoneAbandoned'
  BY DEF EntriesApart, CountIsTrue, NoneAbandoned
<1> QED
  BY <1>1, <1>2

LEMMA CountStep == CountInv /\ [Next]_vars => CountInv'
<1> SUFFICES ASSUME CountInv, [Next]_vars PROVE CountInv'
  OBVIOUS
<1> DEFINE Goal == EntriesOwned' /\ EntriesApart' /\ CountIsTrue' /\ NoneAbandoned'
<1>i. TypeOK /\ OwnArrays /\ EntriesOwned /\ EntriesApart /\ CountIsTrue /\ NoneAbandoned
  BY DEF CountInv
<1>p. TypeOK' /\ OwnArrays'
  BY <1>i, TypeStep
<1>t. /\ calls \in [Calls -> Positions] /\ totalVotes \in Nat /\ checkpoint \in Nat
      /\ \A c \in Calls : /\ calls[c].next \in Nat /\ calls[c] \in Positions
                          /\ Len(VotesOf(c)) \in Nat
                          /\ calls[c].next <= Len(VotesOf(c)) + 1
      /\ log \in Seq(Votes) /\ Len(log) \in Nat /\ DOMAIN log = 1 .. Len(log)
      /\ entries \in [Calls -> SUBSET DOMAIN log] /\ counted \subseteq DOMAIN log
  BY <1>i, ArrayOfCall DEF TypeOK, Positions
<1>d. Idle.at = "idle"
  BY DEF Idle
<1>1. ASSUME NEW v \in Votes, AddVote(v) PROVE Goal
  BY <1>1, <1>i, CountUndisturbed DEF AddVote, Looping
<1>2. ASSUME NEW c \in Calls, NEW V \in SUBSET Votes, ProcessVotes(c, SetToSeq(V)) PROVE Goal
  <2>1. /\ ~Looping(c) /\ Looping(c)' /\ calls'[c].next = 1
        /\ \A d \in Calls : d # c => calls'[d] = calls[d]
    BY <1>2, <1>t DEF ProcessVotes, Looping
  <2>2. EntriesOwned'
    <3>1. entries' = entries /\ entries[c] = {}
      BY <1>2, <1>i, <2>1 DEF ProcessVotes, EntriesOwned
    <3>2. \A d \in Calls : d # c => (Looping(d)' <=> Looping(d)) /\ calls'[d] = calls[d]
      BY <2>1 DEF Looping
    <3> QED
      BY <1>i, <2>1, <3>1, <3>2, FS_EmptySet DEF EntriesOwned
  <2>3. EntriesApart' /\ CountIsTrue' /\ NoneAbandoned'
    BY <1>2, <1>i DEF ProcessVotes, EntriesApart, CountIsTrue, NoneAbandoned
  <2> QED
    BY <2>2, <2>3
<1>3. ASSUME NEW c \in Calls, ProcessBatch(c) PROVE Goal
  <2>1. /\ ~Looping(c) /\ Looping(c)' /\ calls'[c].next = 1
        /\ \A d \in Calls : d # c => calls'[d] = calls[d]
    BY <1>3, <1>t DEF ProcessBatch, Looping
  <2>2. EntriesOwned'
    <3>1. entries' = entries /\ entries[c] = {}
      BY <1>3, <1>i, <2>1 DEF ProcessBatch, EntriesOwned
    <3>2. \A d \in Calls : d # c => (Looping(d)' <=> Looping(d)) /\ calls'[d] = calls[d]
      BY <2>1 DEF Looping
    <3> QED
      BY <1>i, <2>1, <3>1, <3>2, FS_EmptySet DEF EntriesOwned
  <2>3. EntriesApart' /\ CountIsTrue' /\ NoneAbandoned'
    BY <1>3, <1>i DEF ProcessBatch, EntriesApart, CountIsTrue, NoneAbandoned
  <2> QED
    BY <2>2, <2>3
<1>4. ASSUME NEW c \in Calls, LogVote(c) PROVE Goal
  <2> DEFINE k == Len(log) + 1
             E == entries[c] \union {k}
  <2>1. /\ Looping(c) /\ calls'[c].next = calls[c].next + 1 /\ calls'[c].at = calls[c].at
        /\ \A d \in Calls : d # c => calls'[d] = calls[d]
    <3>1. calls' = [calls EXCEPT ![c] = [calls[c] EXCEPT !.next = calls[c].next + 1]]
      BY <1>4 DEF LogVote
    <3>2. calls'[c] = [calls[c] EXCEPT !.next = calls[c].next + 1]
      BY <3>1, <1>t
    <3>3. calls'[c].next = calls[c].next + 1 /\ calls'[c].at = calls[c].at
      BY <3>2, <1>t DEF Positions
    <3> QED
      BY <1>4, <1>t, <3>1, <3>3 DEF LogVote, Looping
  <2>2. /\ entries'[c] = E /\ \A d \in Calls : d # c => entries'[d] = entries[d]
        /\ counted' = counted /\ totalVotes' = totalVotes /\ checkpoint' = checkpoint
        /\ failed' = failed
    BY <1>4, <1>t DEF LogVote
  <2>3. k \notin counted /\ \A d \in Calls : k \notin entries[d]
    <3>1. k \notin DOMAIN log
      BY <1>t
    <3> QED
      BY <3>1, <1>t
  <2>4. DOMAIN log' = DOMAIN log \union {k}
    BY <1>4, <1>t DEF LogVote
  <2>5. Cardinality(E) = Cardinality(entries[c]) + 1
    BY <1>i, <1>t, <2>3, EntriesFinite, FS_AddElement
  <2> HIDE DEF k, E
  <2>6. EntriesOwned'
    <3>1. calls'[c].next >= 1 /\ Cardinality(entries'[c]) = calls'[c].next - 1
      BY <1>i, <1>t, <2>1, <2>2, <2>5 DEF EntriesOwned
    <3>2. Looping(c)' /\ \A d \in Calls : d # c => (Looping(d)' <=> Looping(d))
      BY <2>1 DEF Looping
    <3> QED
      BY <1>i, <2>1, <2>2, <3>1, <3>2 DEF EntriesOwned
  <2>7. EntriesApart'
    BY <1>i, <2>2, <2>3 DEF EntriesApart, E
  <2>8. CountIsTrue'
    BY <1>i, <2>2 DEF CountIsTrue
  <2>9. NoneAbandoned'
    BY <1>i, <2>2, <2>4 DEF NoneAbandoned, E
  <2> QED
    BY <2>6, <2>7, <2>8, <2>9
<1>5. ASSUME NEW c \in Calls, CountVotes(c) PROVE Goal
  <2>1. /\ Looping(c) /\ calls[c].next = Len(VotesOf(c)) + 1 /\ ~Looping(c)'
        /\ \A d \in Calls : d # c => calls'[d] = calls[d]
    <3>1. Looping(c) /\ calls[c].next = Len(VotesOf(c)) + 1
      BY <1>5, <1>t DEF CountVotes, Looping
    <3>2. Counted(c).at \in {"idle", "processor"}
      BY <1>d, <1>t DEF Counted, Positions
    <3>3. calls'[c] = Counted(c) /\ \A d \in Calls : d # c => calls'[d] = calls[d]
      BY <1>5, <1>t DEF CountVotes
    <3> QED
      BY <3>1, <3>2, <3>3 DEF Looping
  <2>2. /\ entries'[c] = {} /\ \A d \in Calls : d # c => entries'[d] = entries[d]
        /\ counted' = counted \union entries[c] /\ totalVotes' = totalVotes + Len(VotesOf(c))
        /\ checkpoint' = checkpoint /\ failed' = failed /\ log' = log
    BY <1>5, <1>t DEF CountVotes
  <2>3. Cardinality(entries[c]) = Len(VotesOf(c))
    BY <1>i, <1>t, <2>1 DEF EntriesOwned
  <2>4. EntriesOwned'
    <3>1. \A d \in Calls : d # c => (Looping(d)' <=> Looping(d))
      BY <2>1 DEF Looping
    <3> QED
      BY <1>i, <2>1, <2>2, <3>1 DEF EntriesOwned
  <2>5. EntriesApart'
    BY <1>i, <2>2 DEF EntriesApart
  <2>6. CountIsTrue'
    <3>1. counted \intersect entries[c] = {}
      BY <1>i DEF EntriesApart
    <3>2. Cardinality(counted') = Cardinality(counted) + Cardinality(entries[c])
      <4>1. /\ IsFiniteSet(counted) /\ IsFiniteSet(entries[c])
            /\ Cardinality(counted) \in Nat /\ Cardinality(entries[c]) \in Nat
        BY <1>i, <1>t, EntriesFinite
      <4>2. Cardinality(counted \union entries[c])
              = Cardinality(counted) + Cardinality(entries[c]) - Cardinality({})
        BY <4>1, <3>1, FS_Union
      <4> QED
        BY <4>1, <4>2, <2>2, FS_EmptySet
    <3> QED
      BY <1>i, <1>t, <2>2, <2>3, <3>2 DEF CountIsTrue
  <2>7. NoneAbandoned'
    BY <1>i, <2>2 DEF NoneAbandoned
  <2> QED
    BY <2>4, <2>5, <2>6, <2>7
<1>6. ASSUME NEW c \in Calls, FinishBatch(c) PROVE Goal
  <2>1. ~Looping(c) /\ ~Looping(c)'
    BY <1>6, <1>d DEF FinishBatch, Looping
  <2>2. \A d \in Calls : d # c => calls'[d].at = calls[d].at /\ calls'[d].next = calls[d].next
    BY <1>6, <1>i, FinishKeepsArrays
  <2>3. \A d \in Calls : Looping(d) <=> Looping(d)'
    BY <2>1, <2>2 DEF Looping
  <2>4. \A d \in Calls : Looping(d) => calls'[d].next = calls[d].next
    BY <2>1, <2>2
  <2>5. UNCHANGED <<entries, counted, totalVotes, checkpoint, failed, log>>
    BY <1>6 DEF FinishBatch
  <2> QED
    BY <1>i, <2>3, <2>4, <2>5, CountUndisturbed
<1>7. ASSUME NEW c \in Calls, Fail(c) PROVE Goal
  <2>1. /\ ~Looping(c)' /\ \A d \in Calls : d # c => calls'[d] = calls[d]
        /\ entries'[c] = {} /\ \A d \in Calls : d # c => entries'[d] = entries[d]
        /\ UNCHANGED <<counted, totalVotes, checkpoint>> /\ failed'
    BY <1>7, <1>t, <1>d DEF Fail, Looping
  <2>2. EntriesOwned'
    <3>1. \A d \in Calls : d # c => (Looping(d)' <=> Looping(d))
      BY <2>1 DEF Looping
    <3> QED
      BY <1>i, <2>1, <3>1 DEF EntriesOwned
  <2>3. EntriesApart' /\ CountIsTrue' /\ NoneAbandoned'
    BY <1>i, <2>1 DEF EntriesApart, CountIsTrue, NoneAbandoned
  <2> QED
    BY <2>2, <2>3
<1>8. ASSUME Checkpoint PROVE Goal
  <2>1. EntriesOwned' /\ EntriesApart' /\ NoneAbandoned'
    BY <1>8, <1>i DEF Checkpoint, EntriesOwned, EntriesApart, NoneAbandoned, Looping
  <2>2. CountIsTrue'
    BY <1>8, <1>i, <1>t DEF Checkpoint, CountIsTrue
  <2> QED
    BY <2>1, <2>2
<1>9. ASSUME UNCHANGED vars PROVE Goal
  BY <1>9, <1>i, CountUndisturbed DEF vars, Looping
<1>10. Goal
  BY <1>1, <1>2, <1>3, <1>4, <1>5, <1>6, <1>7, <1>8, <1>9 DEF Next
<1> QED
  BY <1>p, <1>10 DEF CountInv

-----------------------------------------------------------------------------
(* Where the votes are.                                                    *)

(* A vote that is appended to others is among them, and with them once if  *)
(* it was not there.                                                       *)
LEMMA AppendedOnce ==
  ASSUME NEW s \in Seq(Votes), NEW v \in Votes
  PROVE  /\ ToSet(Append(s, v)) = ToSet(s) \union {v}
         /\ IsInjective(s) /\ v \notin ToSet(s) => IsInjective(Append(s, v))
<1> DEFINE t == Append(s, v)
<1>1. /\ DOMAIN s = 1 .. Len(s) /\ Len(s) \in Nat /\ DOMAIN t = 1 .. Len(s) + 1
      /\ \A i \in 1 .. Len(s) : t[i] = s[i]
      /\ t[Len(s) + 1] = v
  OBVIOUS
<1> HIDE DEF t
<1>2. \A i \in DOMAIN t : i \in DOMAIN s \/ i = Len(s) + 1
  BY <1>1
<1>3. DOMAIN s \subseteq DOMAIN t /\ Len(s) + 1 \in DOMAIN t /\ Len(s) + 1 \notin DOMAIN s
  BY <1>1
<1>4. ToSet(t) = ToSet(s) \union {v}
  BY <1>1, <1>2, <1>3 DEF ToSet
<1>5. ASSUME IsInjective(s), v \notin ToSet(s) PROVE IsInjective(t)
  <2>1. \A i \in DOMAIN s : s[i] # v
    BY <1>5 DEF ToSet
  <2> QED
    BY <1>1, <1>2, <1>5, <2>1 DEF IsInjective
<1> QED
  BY <1>4, <1>5 DEF t

(* What is left of an array of different votes before and after one more   *)
(* of them.                                                                *)
LEMMA RestOfArray ==
  ASSUME NEW s \in Seq(Votes), NEW n \in Nat, n >= 1
  PROVE  /\ n > Len(s) => {s[i] : i \in n .. Len(s)} = {}
         /\ n = 1 => {s[i] : i \in n .. Len(s)} = ToSet(s)
         /\ n <= Len(s) /\ IsInjective(s) =>
              /\ s[n] \in {s[i] : i \in n .. Len(s)}
              /\ {s[i] : i \in n + 1 .. Len(s)} = {s[i] : i \in n .. Len(s)} \ {s[n]}
<1>1. DOMAIN s = 1 .. Len(s) /\ Len(s) \in Nat
  OBVIOUS
<1>2. n > Len(s) => n .. Len(s) = {}
  BY <1>1
<1>3. n = 1 => {s[i] : i \in n .. Len(s)} = ToSet(s)
  BY <1>1 DEF ToSet
<1>4. ASSUME n <= Len(s), IsInjective(s)
      PROVE  /\ s[n] \in {s[i] : i \in n .. Len(s)}
             /\ {s[i] : i \in n + 1 .. Len(s)} = {s[i] : i \in n .. Len(s)} \ {s[n]}
  <2>1. n .. Len(s) \subseteq DOMAIN s /\ n \in n .. Len(s)
    BY <1>1, <1>4
  <2>2. n + 1 .. Len(s) = (n .. Len(s)) \ {n}
    BY <1>1
  <2>3. \A i \in n .. Len(s) : s[i] = s[n] => i = n
    BY <1>4, <2>1 DEF IsInjective
  <2> QED
    BY <2>1, <2>2, <2>3
<1> QED
  BY <1>2, <1>3, <1>4

LEMMA PlacesStep == Inv /\ [Next]_vars => EachVoteOnce'
<1> SUFFICES ASSUME Inv, [Next]_vars, ~failed', ~overlapped'
             PROVE  /\ IsInjective(log') /\ IsInjective(batch')
                    /\ ~Busy' => AtRest'
                    /\ \A c \in Calls : calls'[c].at # "idle" => OnlyCall(c)' /\ UnderWay(c)'
  BY DEF EachVoteOnce
<1> DEFINE Goal == /\ IsInjective(log') /\ IsInjective(batch')
                   /\ ~Busy' => AtRest'
                   /\ \A c \in Calls : calls'[c].at # "idle" => OnlyCall(c)' /\ UnderWay(c)'
<1>i. TypeOK /\ OwnArrays /\ EntriesOwned /\ EachVoteOnce
  BY DEF Inv, CountInv
<1>t. /\ calls \in [Calls -> Positions]
      /\ \A c \in Calls : /\ calls[c].next \in Nat /\ calls[c] \in Positions
                          /\ VotesOf(c) \in Seq(Votes) /\ Len(VotesOf(c)) \in Nat
      /\ log \in Seq(Votes) /\ batch \in Seq(Votes) /\ clearsFirst \in BOOLEAN
  BY <1>i, ArrayOfCall DEF TypeOK, Positions
<1>d. Idle.at = "idle" /\ Idle.live = FALSE /\ Idle.own = <<>>
  BY DEF Idle
<1>b. Busy <=> \E c \in Calls : calls[c].at # "idle"
  BY DEF Busy
<1>e. IsInjective(<<>>) /\ ToSet(<<>>) = {}
  BY DEF IsInjective, ToSet
<1>h. ~failed /\ ~overlapped =>
        /\ IsInjective(log) /\ IsInjective(batch)
        /\ ~Busy => AtRest
        /\ \A c \in Calls : calls[c].at # "idle" => OnlyCall(c) /\ UnderWay(c)
  BY <1>i DEF EachVoteOnce
<1>1. ASSUME NEW v \in Votes, AddVote(v) PROVE Goal
  <2>1. ~failed /\ ~overlapped /\ ~Busy /\ calls' = calls
    BY <1>1 DEF AddVote
  <2>2. \A c \in Calls : calls'[c].at = "idle"
    BY <2>1, <1>b
  <2>3. v \notin ToSet(batch)
    BY <1>1, <1>h, <2>1 DEF AtRest, AddVote
  <2>4. IsInjective(batch') /\ ToSet(batch') = ToSet(batch) \union {v}
    BY <1>1, <1>h, <1>t, <2>1, <2>3, AppendedOnce DEF AddVote
  <2>5. log' = log /\ added' = added \union {v} /\ v \notin added
    BY <1>1 DEF AddVote
  <2>6. AtRest'
    BY <1>h, <2>1, <2>4, <2>5 DEF AtRest
  <2> QED
    BY <1>h, <2>1, <2>2, <2>4, <2>5, <2>6
<1>2. ASSUME NEW c \in Calls, NEW V \in SUBSET Votes, ProcessVotes(c, SetToSeq(V)) PROVE Goal
  <2> DEFINE vs == SetToSeq(V)
  <2>1. vs \in Seq(Votes) /\ IsInjective(vs) /\ ToSet(vs) = V
    BY SequenceOfSet
  <2>2. /\ ~failed /\ ~overlapped /\ ~Busy /\ log' = log /\ batch' = batch
        /\ added' = added \union V /\ V \intersect added = {} /\ clearsFirst' = clearsFirst
    BY <1>2, <2>1 DEF ProcessVotes
  <2>3. /\ calls'[c].at = "direct" /\ ~calls'[c].live /\ calls'[c].own = vs
        /\ calls'[c].next = 1
        /\ \A d \in Calls : d # c => calls'[d] = calls[d]
    BY <1>2, <1>t DEF ProcessVotes
  <2> HIDE DEF vs
  <2>4. \A d \in Calls : calls'[d].at # "idle" => d = c
    BY <2>2, <2>3, <1>b
  <2>5. Busy'
    BY <2>3 DEF Busy
  <2>6. VotesOf(c)' = vs /\ Waiting(c)' = ToSet(batch)
    BY <2>2, <2>3 DEF VotesOf, Waiting
  <2>7. Rest(c)' = V
    <3>1. Rest(c)' = {vs[i] : i \in 1 .. Len(vs)}
      BY <2>3, <2>6 DEF Rest
    <3> QED
      BY <2>1, <3>1, RestOfArray
  <2>8. UnderWay(c)'
    BY <1>h, <2>1, <2>2, <2>3, <2>6, <2>7 DEF UnderWay, AtRest
  <2> QED
    BY <1>h, <2>2, <2>4, <2>5, <2>8 DEF OnlyCall
<1>3. ASSUME NEW c \in Calls, ProcessBatch(c) PROVE Goal
  <2>1. /\ ~failed /\ ~overlapped /\ ~Busy /\ log' = log
        /\ batch' = IF clearsFirst THEN <<>> ELSE batch
        /\ added' = added /\ clearsFirst' = clearsFirst
    BY <1>3 DEF ProcessBatch
  <2>2. /\ calls'[c].at = "batch" /\ calls'[c].live = ~clearsFirst /\ calls'[c].own = batch
        /\ calls'[c].next = 1
        /\ \A d \in Calls : d # c => calls'[d] = calls[d]
    BY <1>3, <1>t DEF ProcessBatch
  <2>3. \A d \in Calls : calls'[d].at # "idle" => d = c
    BY <2>1, <2>2, <1>b
  <2>4. Busy'
    BY <2>2 DEF Busy
  <2>5. VotesOf(c)' = batch /\ Waiting(c)' = {}
    BY <1>e, <2>1, <2>2 DEF VotesOf, Waiting
  <2>6. Rest(c)' = ToSet(batch)
    <3>1. Rest(c)' = {batch[i] : i \in 1 .. Len(batch)}
      BY <2>2, <2>5 DEF Rest
    <3> QED
      BY <1>t, <3>1 DEF ToSet
  <2>7. UnderWay(c)'
    BY <1>h, <2>1, <2>2, <2>5, <2>6 DEF UnderWay, AtRest
  <2>8. IsInjective(batch')
    BY <1>h, <1>e, <2>1
  <2> QED
    BY <1>h, <2>1, <2>3, <2>4, <2>7, <2>8 DEF OnlyCall
<1>4. ASSUME NEW c \in Calls, LogVote(c) PROVE Goal
  <2> DEFINE s == VotesOf(c)
             n == calls[c].next
             x == s[n]
  <2>1. /\ ~failed /\ ~overlapped /\ batch' = batch /\ log' = Append(log, x)
        /\ added' = added /\ clearsFirst' = clearsFirst
        /\ Looping(c) /\ n <= Len(s)
    BY <1>4 DEF LogVote, Looping
  <2>2. /\ calls'[c].at = calls[c].at /\ calls'[c].live = calls[c].live
        /\ calls'[c].own = calls[c].own /\ calls'[c].next = n + 1
        /\ \A d \in Calls : d # c => calls'[d] = calls[d]
    <3>1. calls' = [calls EXCEPT ![c] = [calls[c] EXCEPT !.next = calls[c].next + 1]]
      BY <1>4 DEF LogVote
    <3>2. calls'[c] = [calls[c] EXCEPT !.next = calls[c].next + 1]
      BY <3>1, <1>t
    <3>3. /\ calls'[c].next = calls[c].next + 1 /\ calls'[c].at = calls[c].at
          /\ calls'[c].live = calls[c].live /\ calls'[c].own = calls[c].own
      BY <3>2, <1>t DEF Positions
    <3> QED
      BY <1>t, <3>1, <3>3
  <2>3. n >= 1 /\ s \in Seq(Votes) /\ n \in Nat
    BY <1>i, <1>t, <2>1 DEF EntriesOwned
  <2>4. calls[c].at # "idle" /\ calls[c].at # "processor" /\ OnlyCall(c) /\ UnderWay(c)
    BY <1>h, <2>1 DEF Looping
  <2>5. VotesOf(c)' = s
    BY <2>1, <2>2 DEF VotesOf
  <2>6. Waiting(c)' = Waiting(c)
    BY <2>1, <2>2 DEF Waiting
  <2>7. x \in Rest(c) /\ Rest(c)' = Rest(c) \ {x}
    <3>1. IsInjective(s)
      BY <2>4 DEF UnderWay
    <3>2. Rest(c) = {s[i] : i \in n .. Len(s)} /\ Rest(c)' = {s[i] : i \in n + 1 .. Len(s)}
      BY <2>2, <2>5 DEF Rest
    <3> HIDE DEF s, n
    <3> QED
      BY <2>1, <2>3, <3>1, <3>2, RestOfArray
  <2>8. x \in Votes /\ x \notin ToSet(log)
    BY <2>1, <2>3, <2>4, <2>7 DEF UnderWay
  <2>9. IsInjective(log') /\ ToSet(log') = ToSet(log) \union {x}
    <3> HIDE DEF x
    <3> QED
      BY <1>h, <1>t, <2>1, <2>8, AppendedOnce
  <2> HIDE DEF x, s, n
  <2>10. UnderWay(c)'
    <3>1. calls'[c].live <=> calls'[c].at # "direct" /\ ~clearsFirst'
      BY <2>1, <2>2, <2>4 DEF UnderWay
    <3>2. calls'[c].at # "processor" /\ IsInjective(VotesOf(c)')
      BY <2>2, <2>4, <2>5 DEF UnderWay, s
    <3>3. /\ ToSet(log') \union Rest(c)' \union Waiting(c)' = added'
          /\ ToSet(log') \intersect Rest(c)' = {}
          /\ ToSet(log') \intersect Waiting(c)' = {}
          /\ Rest(c)' \intersect Waiting(c)' = {}
      BY <2>1, <2>4, <2>6, <2>7, <2>9 DEF UnderWay
    <3> QED
      BY <3>1, <3>2, <3>3 DEF UnderWay
  <2>11. \A d \in Calls : calls'[d].at # "idle" => d = c
    BY <2>2, <2>4 DEF OnlyCall
  <2>12. Busy'
    BY <2>2, <2>4 DEF Busy
  <2> QED
    BY <1>h, <2>1, <2>9, <2>10, <2>11, <2>12 DEF OnlyCall
<1>5. ASSUME NEW c \in Calls, CountVotes(c) PROVE Goal
  <2>1. /\ ~failed /\ ~overlapped /\ batch' = batch /\ log' = log
        /\ added' = added /\ clearsFirst' = clearsFirst
        /\ calls[c].at # "idle" /\ calls[c].next > Len(VotesOf(c))
        /\ calls'[c] = Counted(c) /\ \A d \in Calls : d # c => calls'[d] = calls[d]
    BY <1>5, <1>t DEF CountVotes
  <2>2. OnlyCall(c) /\ UnderWay(c)
    BY <1>h, <2>1
  <2>3. \A d \in Calls : calls'[d].at # "idle" => d = c
    BY <2>1, <2>2 DEF OnlyCall
  <2>4. Rest(c) = {}
    <3>1. calls[c].next .. Len(VotesOf(c)) = {}
      BY <1>t, <2>1
    <3> QED
      BY <3>1 DEF Rest
  <2>5. CASE calls[c].at = "direct"
    <3>1. \A d \in Calls : calls'[d].at = "idle"
      BY <1>d, <2>1, <2>3, <2>5 DEF Counted
    <3>2. Waiting(c) = ToSet(batch)
      BY <2>2, <2>5 DEF UnderWay, Waiting
    <3>3. AtRest'
      BY <2>1, <2>2, <2>4, <3>2 DEF AtRest, UnderWay
    <3> QED
      BY <1>h, <2>1, <3>1, <3>3
  <2>6. CASE calls[c].at # "direct"
    <3>1. /\ calls'[c].at = "processor" /\ calls'[c].live = calls[c].live
          /\ calls'[c].own = calls[c].own /\ calls'[c].next = calls[c].next
      BY <1>t, <2>1, <2>6 DEF Counted, Positions
    <3>2. VotesOf(c)' = VotesOf(c) /\ Waiting(c)' = Waiting(c)
      BY <2>1, <3>1 DEF VotesOf, Waiting
    <3>3. Rest(c)' = {}
      BY <2>4, <3>1, <3>2 DEF Rest
    <3>4. UnderWay(c)'
      BY <2>1, <2>2, <2>4, <2>6, <3>1, <3>2, <3>3 DEF UnderWay
    <3>5. Busy'
      BY <3>1 DEF Busy
    <3> QED
      BY <1>h, <2>1, <2>3, <3>4, <3>5 DEF OnlyCall
  <2> QED
    BY <2>5, <2>6
<1>6. ASSUME NEW c \in Calls, FinishBatch(c) PROVE Goal
  <2>1. /\ ~failed /\ ~overlapped /\ log' = log /\ added' = added
        /\ batch' = IF clearsFirst THEN batch ELSE <<>>
        /\ calls[c].at = "processor" /\ calls'[c] = Idle
    BY <1>6 DEF FinishBatch
  <2>2. OnlyCall(c) /\ UnderWay(c)
    BY <1>h, <2>1
  <2>3. \A d \in Calls : calls'[d].at = "idle"
    <3>1. \A d \in Calls : d # c => calls'[d].at = calls[d].at
      BY <1>6, <1>i, FinishKeepsArrays
    <3> QED
      BY <1>d, <2>1, <2>2, <3>1 DEF OnlyCall
  <2>4. Rest(c) = {}
    <3>1. calls[c].next .. Len(VotesOf(c)) = {}
      BY <1>t, <2>1, <2>2 DEF UnderWay
    <3> QED
      BY <3>1 DEF Rest
  <2>5. Waiting(c) = ToSet(batch')
    BY <1>e, <2>1, <2>2 DEF Waiting, UnderWay
  <2>6. AtRest'
    BY <2>1, <2>2, <2>4, <2>5 DEF AtRest, UnderWay
  <2>7. IsInjective(batch')
    BY <1>h, <1>e, <2>1
  <2> QED
    BY <1>h, <2>1, <2>3, <2>6, <2>7
<1>7. ASSUME NEW c \in Calls, Fail(c) PROVE Goal
  BY <1>7 DEF Fail
<1>8. ASSUME UNCHANGED <<clearsFirst, batch, calls, log, added, failed, overlapped>> PROVE Goal
  <2>1. ~failed /\ ~overlapped
    BY <1>8
  <2>2. Busy' = Busy /\ AtRest' = AtRest
    BY <1>8 DEF Busy, AtRest
  <2>3. \A c \in Calls : VotesOf(c)' = VotesOf(c) /\ Waiting(c)' = Waiting(c)
    BY <1>8 DEF VotesOf, Waiting
  <2>4. \A c \in Calls : Rest(c)' = Rest(c)
    BY <1>8, <2>3 DEF Rest
  <2>5. \A c \in Calls : UnderWay(c) => UnderWay(c)'
    BY <1>8, <2>3, <2>4 DEF UnderWay
  <2> QED
    BY <1>h, <1>8, <2>1, <2>2, <2>5 DEF OnlyCall
<1>9. Checkpoint \/ UNCHANGED vars
        => UNCHANGED <<clearsFirst, batch, calls, log, added, failed, overlapped>>
  BY DEF Checkpoint, vars
<1> QED
  BY <1>1, <1>2, <1>3, <1>4, <1>5, <1>6, <1>7, <1>8, <1>9 DEF Next

-----------------------------------------------------------------------------
(* Theorems.                                                               *)

LEMMA InvStep == Inv /\ [Next]_vars => Inv'
  BY CountStep, PlacesStep DEF Inv

(* The code's values stay within their types. *)
THEOREM TypeCorrect == Spec => []TypeOK
<1>1. Inv => TypeOK
  BY DEF Inv, CountInv
<1> QED
  BY InitInv, InvStep, <1>1, PTL DEF Spec

(* Whatever fails and however calls overlap, a checkpoint claims no more   *)
(* votes than are counted, and no more are counted than the log holds.     *)
THEOREM CountedAreLogged == Spec => []CountedVotesAreLogged
<1>1. Inv => CountedVotesAreLogged
  <2> SUFFICES ASSUME Inv PROVE CountedVotesAreLogged
    OBVIOUS
  <2>1. TypeOK /\ CountIsTrue
    BY DEF Inv, CountInv
  <2>2. Cardinality(counted) <= Len(log)
    BY <2>1, EntriesFinite DEF TypeOK
  <2> QED
    BY <2>1, <2>2 DEF CountIsTrue, CountedVotesAreLogged
<1> QED
  BY InitInv, InvStep, <1>1, PTL DEF Spec

(* As long as nothing fails, count and log are in step between calls, and  *)
(* without overlapping calls each vote is logged once or still in the      *)
(* batch.                                                                  *)
THEOREM NoneLostOrRepeated == Spec => []NoVoteLostOrRepeated
<1>1. Inv => NoVoteLostOrRepeated
  <2> SUFFICES ASSUME Inv, ~failed, ~Busy
               PROVE  /\ totalVotes = Len(log)
                      /\ ~overlapped => IsInjective(log) /\ AtRest
    BY DEF NoVoteLostOrRepeated, AtRest
  <2>i. TypeOK /\ EntriesOwned /\ CountIsTrue /\ NoneAbandoned /\ EachVoteOnce
    BY DEF Inv, CountInv
  <2>1. \A c \in Calls : entries[c] = {}
    <3>1. \A c \in Calls : calls[c].at = "idle"
      BY DEF Busy
    <3>2. \A c \in Calls : ~Looping(c)
      BY <3>1 DEF Looping
    <3> QED
      BY <2>i, <3>2 DEF EntriesOwned
  <2>2. DOMAIN log = 1 .. Len(log) /\ Len(log) \in Nat /\ counted \subseteq DOMAIN log
    BY <2>i DEF TypeOK
  <2>3. counted = 1 .. Len(log)
    BY <2>i, <2>1, <2>2 DEF NoneAbandoned
  <2>4. totalVotes = Len(log)
    <3>1. Cardinality(1 .. Len(log)) = Len(log)
      BY <2>2, FS_Interval
    <3> QED
      BY <2>i, <2>3, <3>1 DEF CountIsTrue
  <2> QED
    BY <2>i, <2>4 DEF EachVoteOnce
<1> QED
  BY InitInv, InvStep, <1>1, PTL DEF Spec
=============================================================================
