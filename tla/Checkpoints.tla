----------------------------- MODULE Checkpoints -----------------------------
(***************************************************************************)
(* NodeCheckpointManager of src/lib/voting/node-persistent-state.ts: tally *)
(* snapshots saved as checkpoint-<number>.json, and the latest one loaded  *)
(* after a restart.  Every call suspends at each of its file operations,   *)
(* so saves, loads and listings interleave, and each operation may fail.   *)
(*                                                                         *)
(* A snapshot is the position of its save in the order in which the        *)
(* snapshots were taken.  writeFile truncates the file first; what is in a *)
(* file until it is wholly written does not parse.  Loads and listings     *)
(* change nothing, so one of them at a time is followed, and the next one  *)
(* may begin when it has ended.                                            *)
(***************************************************************************)
EXTENDS Integers, FiniteSetsExt, SequencesExt

CONSTANTS
  Calls,        \* calls of saveCheckpoint that may be under way at a time
  Earlier,      \* how many checkpoints the process has already saved
  MaxMore,      \* bound: snapshots taken after those
  MaxListed     \* bound: files of a directory whose listing is followed

ASSUME BoundsAssumption ==
  /\ Earlier \subseteq Nat /\ MaxMore \in Nat /\ MaxListed \in Nat
  /\ \A k \in Earlier : k + MaxMore <= 100

VARIABLES
  directory,         \* number -> contents, for the files there are
  checkpointNumber,  \* the manager's counter
  saves,             \* call -> where it is in saveCheckpoint
  load,              \* a call of loadLatestCheckpoint
  list,              \* a call of listCheckpoints
  earlier,           \* history: the checkpoints there were at first
  taken,             \* history: snapshots taken so far
  returned,          \* history: numbers of the saves that have returned
  sinceStart,        \* history: the last snapshot taken before this run of the process
  rewound            \* history: has a restarted process given a number again?

vars == <<directory, checkpointNumber, saves, load, list,
          earlier, taken, returned, sinceStart, rewound>>
history == <<earlier, taken, returned, sinceStart, rewound>>

Partial == 0                      \* contents that do not parse
Numbers == 0 .. 100               \* checkpoint numbers
Null    == -1                     \* what a load without a result returns

(* A load and a listing remember, for the properties, the saves that had   *)
(* returned when they were called (before) and the names they were given   *)
(* of files that were not wholly written (half).                           *)
IdleSave == [at |-> "idle", number |-> 0, snapshot |-> 0]
IdleLoad == [at |-> "idle", number |-> 0, result |-> Null,
             before |-> {}, half |-> {}, failed |-> FALSE]
IdleList == [at |-> "idle", unread |-> {}, read |-> {},
             before |-> {}, half |-> {}, failed |-> FALSE]

TypeOK ==
  /\ DOMAIN directory \subseteq Numbers
  /\ directory \in [DOMAIN directory -> 0 .. taken]
  /\ checkpointNumber \in 0 .. taken
  /\ saves \in [Calls -> [at : {"idle", "mkdir", "open", "write"},
                          number : Numbers, snapshot : 0 .. taken]]
  /\ load \in [at : {"idle", "names", "read", "done"}, number : Numbers,
               result : {Null} \union 1 .. taken,
               before : SUBSET Numbers, half : SUBSET Numbers, failed : BOOLEAN]
  /\ list \in [at : {"idle", "names", "read", "done"},
               unread : SUBSET Numbers, read : SUBSET Numbers,
               before : SUBSET Numbers, half : SUBSET Numbers, failed : BOOLEAN]
  /\ earlier \in Earlier
  /\ taken \in 0 .. earlier + MaxMore
  /\ returned \in SUBSET Numbers
  /\ sinceStart \in 0 .. taken
  /\ rewound \in BOOLEAN

-----------------------------------------------------------------------------
Digits(n) == IF n < 10 THEN <<n>> ELSE <<n \div 10, n % 10>>

(* Does the name of checkpoint m sort after the name of checkpoint n?      *)
(* Array.sort compares names as strings, and the dot that follows the      *)
(* number sorts before every digit.                                        *)
SortsAfter(m, n) ==
  LET a == Digits(m)
      b == Digits(n)
  IN  \/ IsStrictPrefix(b, a)
      \/ \E i \in DOMAIN a \intersect DOMAIN b :
           a[i] > b[i] /\ \A k \in 1 .. i - 1 : a[k] = b[k]

(* Mistake the runs must notice: the names sorted, but not reversed. *)
LastNameUnreversed(names) ==
  CHOOSE n \in names : \A m \in names \ {n} : SortsAfter(m, n)

LastName(names) ==
  CHOOSE n \in names : \A m \in names \ {n} : SortsAfter(n, m)

(* A process that has saved some checkpoints, one after the other.         *)
Init ==
  /\ earlier \in Earlier
  /\ directory = [n \in 0 .. earlier - 1 |-> n + 1]
  /\ checkpointNumber = earlier
  /\ taken = earlier
  /\ returned = 0 .. earlier - 1
  /\ saves = [c \in Calls |-> IdleSave]
  /\ load = IdleLoad
  /\ list = IdleList
  /\ sinceStart = 0
  /\ rewound = FALSE

(* saveCheckpoint up to the await of mkdir. *)
SaveCheckpoint(c) ==
  /\ saves[c].at = "idle"
  /\ saves' = [saves EXCEPT ![c].at = "mkdir"]
  /\ UNCHANGED <<directory, checkpointNumber, load, list, history>>

(* Mistake: the number moves on only when the file is written. *)
TakeSnapshotReusing(c) ==
  /\ saves[c].at = "mkdir"
  /\ taken < earlier + MaxMore
  /\ taken' = taken + 1
  /\ checkpointNumber' =
       IF \E d \in Calls : saves[d].at \in {"open", "write"}
       THEN checkpointNumber ELSE checkpointNumber + 1
  /\ rewound' = (rewound \/ sinceStart > 0)
  /\ saves' = [saves EXCEPT ![c] =
                [at |-> "open", number |-> checkpointNumber, snapshot |-> taken + 1]]
  /\ UNCHANGED <<directory, load, list, earlier, returned, sinceStart>>

(* The directory exists: the snapshot is taken and numbered, and writeFile *)
(* is called with it.  The counter of a restarted process is behind the    *)
(* snapshots taken.                                                        *)
TakeSnapshot(c) ==
  /\ saves[c].at = "mkdir"
  /\ taken < earlier + MaxMore
  /\ taken' = taken + 1
  /\ checkpointNumber' = checkpointNumber + 1
  /\ rewound' = (rewound \/ sinceStart > 0)
  /\ saves' = [saves EXCEPT ![c] =
                [at |-> "open", number |-> checkpointNumber, snapshot |-> taken + 1]]
  /\ UNCHANGED <<directory, load, list, earlier, returned, sinceStart>>

Contents(n, what) ==
  [m \in DOMAIN directory \union {n} |-> IF m = n THEN what ELSE directory[m]]

OpenFile(c) ==
  /\ saves[c].at = "open"
  /\ directory' = Contents(saves[c].number, Partial)
  /\ saves' = [saves EXCEPT ![c].at = "write"]
  /\ UNCHANGED <<checkpointNumber, load, list, history>>

(* Mistake: the call returns before the file is written. *)
WriteFileUnwritten(c) ==
  /\ saves[c].at = "write"
  /\ saves' = [saves EXCEPT ![c] = IdleSave]
  /\ returned' = returned \union {saves[c].number}
  /\ UNCHANGED <<directory, checkpointNumber, load, list, earlier, taken, sinceStart, rewound>>

WriteFile(c) ==
  /\ saves[c].at = "write"
  /\ directory' = Contents(saves[c].number, saves[c].snapshot)
  /\ saves' = [saves EXCEPT ![c] = IdleSave]
  /\ returned' = returned \union {saves[c].number}
  /\ UNCHANGED <<checkpointNumber, load, list, earlier, taken, sinceStart, rewound>>

(* mkdir or writeFile rejects, before the file is opened or later: the     *)
(* number is used up, and a file that was opened stays as it is.           *)
SaveFails(c) ==
  /\ saves[c].at # "idle"
  /\ saves' = [saves EXCEPT ![c] = IdleSave]
  /\ UNCHANGED <<directory, checkpointNumber, load, list, history>>

-----------------------------------------------------------------------------
UnderWay(call) == call.at \in {"names", "read"}
HalfWritten == {n \in DOMAIN directory : directory[n] = Partial}

(* loadLatestCheckpoint up to the await of readdir. *)
LoadLatestCheckpoint ==
  /\ ~UnderWay(load) /\ ~UnderWay(list)
  /\ load' = [IdleLoad EXCEPT !.at = "names", !.before = returned]
  /\ list' = IdleList
  /\ UNCHANGED <<directory, checkpointNumber, saves, history>>

(* readdir has the names: with none of a checkpoint the load ends, else    *)
(* readFile is called for the last.                                        *)
ReadNames ==
  /\ load.at = "names"
  /\ load' = IF DOMAIN directory = {}
             THEN [load EXCEPT !.at = "done"]
             ELSE [load EXCEPT !.at = "read", !.number = LastName(DOMAIN directory),
                               !.half = HalfWritten]
  /\ UNCHANGED <<directory, checkpointNumber, saves, list, history>>

(* The contents: null if they do not parse. *)
ReadLatest ==
  /\ load.at = "read"
  /\ load' = [load EXCEPT !.at = "done",
                          !.result = IF directory[load.number] = Partial
                                     THEN Null ELSE directory[load.number]]
  /\ UNCHANGED <<directory, checkpointNumber, saves, list, history>>

(* readdir or readFile rejects: null. *)
LoadFails ==
  /\ UnderWay(load)
  /\ load' = [load EXCEPT !.at = "done", !.failed = TRUE]
  /\ UNCHANGED <<directory, checkpointNumber, saves, list, history>>

(* listCheckpoints up to the await of readdir. *)
ListCheckpoints ==
  /\ ~UnderWay(load) /\ ~UnderWay(list)
  /\ list' = [IdleList EXCEPT !.at = "names", !.before = returned]
  /\ load' = IdleLoad
  /\ UNCHANGED <<directory, checkpointNumber, saves, history>>

ReadListNames ==
  /\ list.at = "names"
  /\ Cardinality(DOMAIN directory) <= MaxListed
  /\ list' = [list EXCEPT !.at = "read", !.unread = DOMAIN directory, !.half = HalfWritten]
  /\ UNCHANGED <<directory, checkpointNumber, saves, load, history>>

(* One file after the other, in the order readdir gives them; the first    *)
(* that does not parse makes the whole list empty.                         *)
ReadListed(n) ==
  /\ list.at = "read"
  /\ n \in list.unread
  /\ list' = IF directory[n] = Partial
             THEN [list EXCEPT !.at = "done", !.unread = {}, !.read = {}]
             ELSE [list EXCEPT !.unread = @ \ {n}, !.read = @ \union {n}]
  /\ UNCHANGED <<directory, checkpointNumber, saves, load, history>>

FinishList ==
  /\ list.at = "read"
  /\ list.unread = {}
  /\ list' = [list EXCEPT !.at = "done"]
  /\ UNCHANGED <<directory, checkpointNumber, saves, load, history>>

(* readdir or a readFile rejects: the list is empty. *)
ListFails ==
  /\ UnderWay(list)
  /\ list' = [list EXCEPT !.at = "done", !.unread = {}, !.read = {}, !.failed = TRUE]
  /\ UNCHANGED <<directory, checkpointNumber, saves, load, history>>

(* The process stops and starts again with a new manager: the directory    *)
(* stays as it is, the numbers start over.                                 *)
Restart ==
  /\ checkpointNumber' = 0
  /\ saves' = [c \in Calls |-> IdleSave]
  /\ load' = IdleLoad
  /\ list' = IdleList
  /\ sinceStart' = taken
  /\ UNCHANGED <<directory, earlier, taken, returned, rewound>>

Next ==
  \/ \E c \in Calls :
       \/ SaveCheckpoint(c) \/ TakeSnapshot(c) \/ OpenFile(c) \/ WriteFile(c)
       \/ SaveFails(c)
  \/ LoadLatestCheckpoint \/ ReadNames \/ ReadLatest \/ LoadFails
  \/ ListCheckpoints \/ ReadListNames \/ (\E n \in Numbers : ReadListed(n))
  \/ FinishList \/ ListFails
  \/ Restart

Spec == Init /\ [][Next]_vars

-----------------------------------------------------------------------------
(* A checkpoint written in this run of the process is not touched again:   *)
(* of the saves under way at a time, none writes the file of another.      *)
(* (Those of an earlier run are overwritten: the numbers start over.)      *)
OwnCheckpointsStay ==
  [][\A n \in DOMAIN directory :
       directory[n] > sinceStart =>
         n \in DOMAIN directory' /\ directory'[n] = directory[n]]_vars

(* What saveCheckpoint has returned for, loadLatestCheckpoint finds, after *)
(* a restart too: until numbers are given again, a load gives a snapshot   *)
(* at least as late as each of the first ten that were saved when it was   *)
(* called, whatever saves, failures and crashes come between.  (From the   *)
(* eleventh on the order of the names is not that of the numbers, and the  *)
(* tenth is given.)  It gives null only if a file operation of its own     *)
(* fails, or if of a later checkpoint it is given the name of a file that  *)
(* is not written yet, or never will be.                                   *)
LoadFindsSaved ==
  load.at = "done" /\ ~rewound =>
    LET firstTen == load.before \intersect 0 .. 9
    IN  IF load.result # Null THEN \A n \in firstTen : load.result >= n + 1
        ELSE \/ load.before = {} \/ load.failed
             \/ \E m \in load.half : \A n \in firstTen : n < m

(* Until numbers are given again, a listing has all the checkpoints whose  *)
(* saves had returned when it was called; or it is empty, because a file   *)
(* operation of its own failed or another checkpoint's file was not whole. *)
ListComplete ==
  list.at = "done" /\ ~rewound =>
    \/ list.before \subseteq list.read
    \/ list.read = {} /\ (list.failed \/ list.half \ list.before # {})

=============================================================================
