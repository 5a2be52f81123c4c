------------------------------- MODULE XorStreams -------------------------------
(***************************************************************************)
(* XorMultipleTransformStream, src/transforms/xorMultipleTransform.ts: the *)
(* data and end events of several sources in any order, the buffer of each *)
(* source, and the end of the stream.                                      *)
(*                                                                         *)
(* A byte read from a source is <<source, position>>, and the XOR of bytes *)
(* is the set of them: every byte occurs once.                             *)
(***************************************************************************)
EXTENDS Integers, Sequences, SequencesExt

CONSTANTS
  NumSources,
  Plans        \* the sizes of the chunks a source may give

(* Without a source nothing ever happens.                                  *)
ASSUME PlansAssumption == NumSources \in Nat \ {0} /\ Plans \subseteq Seq(Nat)

VARIABLES
  plans,        \* what each source has still to give
  buffers,      \* this.buffers, Null before the first chunk
  streamEnded,
  xored,        \* what was pushed
  xorState,     \* "open", "ending" after this.end(), "ended", "failed"
  replaced,     \* history: a chunk has replaced bytes that were not used yet
  taken         \* history: the bytes each source has given

xorVars == <<plans, buffers, streamEnded, xored, xorState, replaced, taken>>

Sources == 1 .. NumSources
Null == <<<<0, 0>>>>   \* a byte of no source
NoBytes == <<>>

XorInit ==
  /\ plans \in [Sources -> Plans]
  /\ buffers = [s \in Sources |-> Null]
  /\ streamEnded = [s \in Sources |-> FALSE]
  /\ xored = <<>>
  /\ xorState = "open"
  /\ replaced = FALSE
  /\ taken = [s \in Sources |-> 0]

-----------------------------------------------------------------------------
(* processData with the buffers bs; ended sources keep their buffer.       *)
Usable(bs) == \A s \in Sources : bs[s] # Null \/ streamEnded[s]

Available(bs, s) == IF streamEnded[s] THEN 0 ELSE Len(bs[s])

MinLength(bs) == CHOOSE n \in {Available(bs, s) : s \in Sources} :
                   \A s \in Sources : n <= Available(bs, s)

ProcessData(bs) ==
  IF ~Usable(bs)
  THEN buffers' = bs /\ UNCHANGED <<xored, xorState>>
  ELSE LET n    == MinLength(bs)
           live == {s \in Sources : ~streamEnded[s]}
       IN  IF n = 0
           THEN /\ buffers' = bs
                /\ xorState' = IF xorState = "open" THEN "ending" ELSE xorState
                /\ UNCHANGED xored
           ELSE /\ buffers' = [s \in Sources |->
                     IF s \in live THEN SubSeq(bs[s], n + 1, Len(bs[s])) ELSE bs[s]]
                /\ IF xorState \in {"ended", "failed"}   \* push after EOF
                   THEN xorState' = "failed" /\ UNCHANGED xored
                   ELSE /\ xored' = xored \o [i \in 1 .. n |-> {bs[s][i] : s \in live}]
                        /\ UNCHANGED xorState

Chunk(s) == [i \in 1 .. Head(plans[s]) |-> <<s, taken[s] + i>>]

(* Mistake the runs must notice: a chunk loses its first byte.              *)
SourceDataShortened(s) ==
  /\ plans[s] # <<>>
  /\ plans' = [plans EXCEPT ![s] = Tail(@)]
  /\ taken' = [taken EXCEPT ![s] = @ + Head(plans[s])]
  /\ ProcessData([buffers EXCEPT ![s] = SubSeq(Chunk(s), 2, Head(plans[s]))])
  /\ UNCHANGED <<streamEnded, replaced>>

(* The data event of a source: the chunk takes the place of the buffer.    *)
SourceData(s) ==
  /\ plans[s] # <<>>
  /\ plans' = [plans EXCEPT ![s] = Tail(@)]
  /\ taken' = [taken EXCEPT ![s] = @ + Head(plans[s])]
  /\ replaced' = (replaced \/ (buffers[s] # Null /\ buffers[s] # NoBytes))
  /\ ProcessData([buffers EXCEPT ![s] = Chunk(s)])
  /\ UNCHANGED streamEnded

(* The end event of a source, and checkEndCondition.                       *)
SourceEnd(s) ==
  /\ plans[s] = <<>> /\ ~streamEnded[s]
  /\ streamEnded' = [streamEnded EXCEPT ![s] = TRUE]
  /\ xorState' = IF xorState = "open" /\ \A t \in Sources : streamEnded'[t]
                 THEN "ending" ELSE xorState
  /\ UNCHANGED <<plans, buffers, xored, replaced, taken>>

(* After this.end() the stream flushes, at once or later.                  *)
XorFlush ==
  /\ xorState = "ending"
  /\ xorState' = "ended"
  /\ UNCHANGED <<plans, buffers, streamEnded, xored, replaced, taken>>

XorNext ==
  \/ \E s \in Sources : SourceData(s) \/ SourceEnd(s)
  \/ XorFlush

-----------------------------------------------------------------------------
XorTypeOK ==
  /\ \A s \in Sources : buffers[s] = Null \/ Len(buffers[s]) <= taken[s]
  /\ xorState \in {"open", "ending", "ended", "failed"}

(* Until the stream ends, all that every source has given is pushed, and   *)
(* what is pushed is the XOR of all sources, byte for byte from the start  *)
(* of each, as long as no chunk has come for a source with bytes left: a   *)
(* chunk that does replaces them and shifts everything behind.  With one   *)
(* source nothing is ever left.                                            *)
XorOfSources ==
  ~replaced =>
    /\ xored = [i \in 1 .. Len(xored) |-> {<<s, i>> : s \in Sources}]
    /\ \A s \in Sources : Len(xored) <= taken[s]
    /\ xorState = "open" => \E s \in Sources : taken[s] = Len(xored)

(* The stream ends only when a source has ended, or has given nothing that *)
(* is not pushed.  A source that will go on counts as well: two that take  *)
(* turns with chunks of one size end the stream after the first of each,   *)
(* and what they give later is lost, or fails as a push after the end.     *)
EndsForWant ==
  [][~replaced' /\ xorState = "open" /\ xorState' # "open" =>
       \E s \in Sources : streamEnded'[s] \/ taken'[s] = Len(xored')]_xorVars
=============================================================================
