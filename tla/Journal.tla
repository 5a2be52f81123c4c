------------------------------- MODULE Journal -------------------------------
(***************************************************************************)
(* What a set of vote logs promises: a log is a sequence of votes that     *)
(* grows at its end, one vote at a time; a reader is given votes from the  *)
(* front and does not finish before it has all that were there when it     *)
(* began.  A crash ends readers before that; it takes no vote away.        *)
(***************************************************************************)
EXTENDS Naturals, Sequences

CONSTANTS Logs, Votes, Idle, Finished

VARIABLES
  entries,   \* log -> the votes in it
  reading    \* log -> Idle, Finished, or the votes given and to be given

vars == <<entries, reading>>

Init ==
  /\ entries = [l \in Logs |-> <<>>]
  /\ reading = [l \in Logs |-> Idle]

Extend(l, v) ==
  /\ entries' = [entries EXCEPT ![l] = Append(@, v)]
  /\ UNCHANGED reading

Start(l) ==
  /\ reading[l] \in {Idle, Finished}
  /\ reading' = [reading EXCEPT ![l] = [given |-> 0, floor |-> Len(entries[l])]]
  /\ UNCHANGED entries

Read(l) ==
  /\ reading[l] \notin {Idle, Finished}
  /\ \E k \in reading[l].given + 1 .. Len(entries[l]) :
       reading' = [reading EXCEPT ![l].given = k]
  /\ UNCHANGED entries

Finish(l) ==
  /\ reading[l] \notin {Idle, Finished}
  /\ reading[l].given >= reading[l].floor
  /\ reading' = [reading EXCEPT ![l] = Finished]
  /\ UNCHANGED entries

(* A crash, or a write behind what a crash has torn, ends readers early. *)
Interrupt ==
  /\ \E ended \in SUBSET Logs :
       reading' = [l \in Logs |-> IF l \in ended THEN Idle ELSE reading[l]]
  /\ \/ UNCHANGED entries
     \/ \E l \in Logs, v \in Votes :
          entries' = [entries EXCEPT ![l] = Append(@, v)]

Next ==
  \/ Interrupt
  \/ \E l \in Logs :
       \/ \E v \in Votes : Extend(l, v)
       \/ Start(l)
       \/ Read(l)
       \/ Finish(l)

Spec == Init /\ [][Next]_vars
=============================================================================
