------------------------------- MODULE VoteLog -------------------------------
(***************************************************************************)
(* NodeVoteLogger of src/lib/voting/node-persistent-state.ts: votes        *)
(* appended to a file through a write stream, and replayed from it.        *)
(*                                                                         *)
(* A file is a sequence of cells, one per field of an entry: its size, the *)
(* timestamp, the length of the voter id, the cells of the id, the number  *)
(* of values, and 32 bytes of a value.  Sizes and lengths count cells      *)
(* where the code counts bytes, so an entry read at the wrong place takes  *)
(* any number for a size, as in the code.  A value is the sequence of its  *)
(* cells: one for up to 32 bytes, more for a longer one.                   *)
(*                                                                         *)
(* The stream writes one entry at a time, in order, and calls back after   *)
(* each.  A crash keeps any part of the entry being written and loses the  *)
(* ones behind it; a write that fails is a crash as well, for nobody       *)
(* listens to the stream's error event.                                    *)
(***************************************************************************)
EXTENDS Integers, SequencesExt

CONSTANTS
  Jurisdictions,   \* one logger each
  BufferIds,       \* the jurisdictions whose id is a Buffer
  Paths, SharedPath, PathOfId,   \* file names: of the id [0], and of each id
  Votes,           \* votes callers append: [id, timestamp, values]
  ChunkSizes,      \* cells a read may return
  MaxAppends,      \* bound: votes appended, per jurisdiction
  MaxCrashes,      \* bound: crashes
  MaxOpens         \* bound: loggers created, per jurisdiction

ASSUME PathsAssumption ==
  /\ BufferIds \subseteq Jurisdictions
  /\ SharedPath \in Paths
  /\ PathOfId \in [Jurisdictions -> Paths]
ASSUME VotesAssumption ==
  Votes \subseteq [id : Seq(Nat), timestamp : Nat, values : Seq(Seq(Nat))]
ASSUME ChunksAssumption == ChunkSizes \subseteq Nat \ {0}

VARIABLES
  files,      \* path -> cells
  stream,     \* jurisdiction -> state of the logger's write stream
  pending,    \* jurisdiction -> votes written to the stream, not yet to the file
  voteCount,  \* jurisdiction -> votes the logger has counted
  replay,     \* jurisdiction -> a call of replayVotes
  crashes, opens,   \* counters of the bounds
  appended,   \* history: jurisdiction -> its votes whose entry is whole in the file
  torn,       \* history: paths that end in a part of an entry
  buried      \* history: paths with an entry after a part of one

vars == <<files, stream, pending, voteCount, replay, crashes, opens,
          appended, torn, buried>>

(* The file a logger works on: the id in hexadecimal, where every id that  *)
(* is not a Buffer counts as the single byte 0.                            *)
LogPath(j) == IF j \in BufferIds THEN PathOfId[j] ELSE SharedPath

-----------------------------------------------------------------------------
(* Mistake the runs must notice: a size that does not count itself. *)
SerializeVoteSizeless(v) ==
  LET body == <<v.timestamp, Len(v.id)>> \o v.id
                \o <<Len(v.values)>> \o FlattenSeq(v.values)
  IN  <<Len(body)>> \o body

(* serializeVote: the size comes first and counts itself. *)
SerializeVote(v) ==
  LET body == <<v.timestamp, Len(v.id)>> \o v.id
                \o <<Len(v.values)>> \o FlattenSeq(v.values)
  IN  <<Len(body) + 1>> \o body

(* deserializeVote reads fields at computed places.  Reading a number past *)
(* the end of the entry throws, as does a value with no bytes left for it. *)
CanDeserialize(e) ==
  /\ Len(e) >= 3
  /\ LET count == 4 + e[3]
     IN  count <= Len(e) /\ count + e[count] <= Len(e)

(* Every value is taken to be a single cell. *)
DeserializeVote(e) ==
  LET count == 4 + e[3]
  IN  [id        |-> SubSeq(e, 4, count - 1),
       timestamp |-> e[2],
       values    |-> [i \in 1 .. e[count] |-> <<e[count + i]>>]]

(* Mistake: an entry that ends where the buffer ends is taken for partial. *)
ReadEntriesShort(buffer) ==
  LET from[o \in 0 .. Len(buffer)] ==
        IF Len(buffer) - o < 2 \/ Len(buffer) - o <= buffer[o + 1]
        THEN [votes |-> <<>>, rest |-> SubSeq(buffer, o + 1, Len(buffer)), threw |-> FALSE]
        ELSE LET tail  == from[o + buffer[o + 1]]
                 entry == SubSeq(buffer, o + 1, o + buffer[o + 1])
             IN  [tail EXCEPT !.votes = <<DeserializeVote(entry)>> \o @]
  IN  from[0]

(* The loop of replayVotes over what it has read so far: the votes it      *)
(* yields, the cells left over, and whether an entry made it throw.        *)
ReadEntries(buffer) ==
  LET from[o \in 0 .. Len(buffer)] ==
        IF Len(buffer) - o < 2 \/ Len(buffer) - o < buffer[o + 1]
        THEN [votes |-> <<>>, rest |-> SubSeq(buffer, o + 1, Len(buffer)), threw |-> FALSE]
        ELSE LET entry == SubSeq(buffer, o + 1, o + buffer[o + 1])
             IN  IF ~CanDeserialize(entry)
                 THEN [votes |-> <<>>, rest |-> <<>>, threw |-> TRUE]
                 ELSE LET tail == from[o + Len(entry)]
                      IN  [tail EXCEPT !.votes = <<DeserializeVote(entry)>> \o @]
  IN  from[0]

-----------------------------------------------------------------------------
NotReplaying == [status |-> "none", position |-> 0, buffer |-> <<>>,
                 given |-> <<>>, floor |-> 0]

TypeOK ==
  /\ files \in [Paths -> Seq(Nat)]
  /\ stream \in [Jurisdictions -> {"none", "open", "ending", "closed"}]
  /\ \A j \in Jurisdictions :
       /\ pending[j] \in Seq(Votes)
       /\ appended[j] \in Seq(Votes)
       /\ voteCount[j] \in Nat
       /\ replay[j].status \in {"none", "reading", "done", "threw"}
       /\ replay[j].position \in 0 .. Len(files[LogPath(j)])
       /\ replay[j].floor \in 0 .. Len(appended[j])
  /\ torn \subseteq Paths
  /\ buried \subseteq Paths

Init ==
  /\ files = [p \in Paths |-> <<>>]
  /\ stream = [j \in Jurisdictions |-> "none"]
  /\ pending = [j \in Jurisdictions |-> <<>>]
  /\ voteCount = [j \in Jurisdictions |-> 0]
  /\ replay = [j \in Jurisdictions |-> NotReplaying]
  /\ crashes = 0
  /\ opens = [j \in Jurisdictions |-> 0]
  /\ appended = [j \in Jurisdictions |-> <<>>]
  /\ torn = {}
  /\ buried = {}

(* Mistake: the file is opened for writing, not for appending. *)
CreateTruncating(j) ==
  /\ stream[j] \in {"none", "closed"}
  /\ opens[j] < MaxOpens
  /\ opens' = [opens EXCEPT ![j] = @ + 1]
  /\ stream' = [stream EXCEPT ![j] = "open"]
  /\ voteCount' = [voteCount EXCEPT ![j] = 0]
  /\ files' = [files EXCEPT ![LogPath(j)] = <<>>]
  /\ UNCHANGED <<pending, replay, crashes, appended, torn, buried>>

(* The constructor: the file is opened for appending, the count starts at  *)
(* zero whatever the file holds.                                           *)
Create(j) ==
  /\ stream[j] \in {"none", "closed"}
  /\ opens[j] < MaxOpens
  /\ opens' = [opens EXCEPT ![j] = @ + 1]
  /\ stream' = [stream EXCEPT ![j] = "open"]
  /\ voteCount' = [voteCount EXCEPT ![j] = 0]
  /\ UNCHANGED <<files, pending, replay, crashes, appended, torn, buried>>

(* appendVote up to its await: the entry is handed to the stream. *)
AppendVote(j, v) ==
  /\ stream[j] = "open"
  /\ Len(appended[j]) + Len(pending[j]) < MaxAppends
  /\ pending' = [pending EXCEPT ![j] = Append(@, v)]
  /\ UNCHANGED <<files, stream, voteCount, replay, crashes, opens, appended, torn, buried>>

(* Mistake: close discards what the stream has not written yet. *)
WrittenWhileOpen(j) ==
  LET p == LogPath(j)
      v == Head(pending[j])
  IN  /\ stream[j] = "open"
      /\ pending[j] # <<>>
      /\ files' = [files EXCEPT ![p] = @ \o SerializeVote(v)]
      /\ pending' = [pending EXCEPT ![j] = Tail(@)]
      /\ voteCount' = [voteCount EXCEPT ![j] = @ + 1]
      /\ appended' = [appended EXCEPT ![j] = Append(@, v)]
      /\ buried' = IF p \in torn THEN buried \union {p} ELSE buried
      /\ UNCHANGED <<stream, replay, crashes, opens, torn>>

(* The stream has written the oldest entry and calls back: the vote is     *)
(* counted and appendVote returns.                                         *)
Written(j) ==
  LET p == LogPath(j)
      v == Head(pending[j])
  IN  /\ pending[j] # <<>>
      /\ files' = [files EXCEPT ![p] = @ \o SerializeVote(v)]
      /\ pending' = [pending EXCEPT ![j] = Tail(@)]
      /\ voteCount' = [voteCount EXCEPT ![j] = @ + 1]
      /\ appended' = [appended EXCEPT ![j] = Append(@, v)]
      /\ buried' = IF p \in torn THEN buried \union {p} ELSE buried
      /\ UNCHANGED <<stream, replay, crashes, opens, torn>>

(* close: the stream ends once everything handed to it is written. *)
Close(j) ==
  /\ stream[j] = "open"
  /\ stream' = [stream EXCEPT ![j] = "ending"]
  /\ UNCHANGED <<files, pending, voteCount, replay, crashes, opens, appended, torn, buried>>

Closed(j) ==
  /\ stream[j] = "ending"
  /\ pending[j] = <<>>
  /\ stream' = [stream EXCEPT ![j] = "closed"]
  /\ UNCHANGED <<files, pending, voteCount, replay, crashes, opens, appended, torn, buried>>

BeingWritten(j) ==
  IF pending[j] = <<>> THEN <<>> ELSE SerializeVote(Head(pending[j]))

(* The process stops while the stream of j writes, or between writes when  *)
(* kept = 0: kept cells of the entry have reached the file.                *)
Crash(j, kept) ==
  LET p     == LogPath(j)
      entry == BeingWritten(j)
  IN  /\ crashes < MaxCrashes
      /\ crashes' = crashes + 1
      /\ files' = [files EXCEPT ![p] = @ \o SubSeq(entry, 1, kept)]
      /\ appended' = [appended EXCEPT ![j] =
                        IF kept > 0 /\ kept = Len(entry) THEN Append(@, Head(pending[j])) ELSE @]
      /\ torn' = IF kept \in 1 .. Len(entry) - 1 THEN torn \union {p} ELSE torn
      /\ buried' = IF kept > 0 /\ p \in torn THEN buried \union {p} ELSE buried
      /\ stream' = [k \in Jurisdictions |-> "none"]
      /\ pending' = [k \in Jurisdictions |-> <<>>]
      /\ voteCount' = [k \in Jurisdictions |-> 0]
      /\ replay' = [k \in Jurisdictions |-> NotReplaying]
      /\ UNCHANGED opens

-----------------------------------------------------------------------------
(* replayVotes: an iteration reads the file while it may still grow. *)
StartReplay(j) ==
  /\ stream[j] # "none"
  /\ replay[j].status # "reading"
  /\ replay' = [replay EXCEPT ![j] =
                  [NotReplaying EXCEPT !.status = "reading", !.floor = Len(appended[j])]]
  /\ UNCHANGED <<files, stream, pending, voteCount, crashes, opens, appended, torn, buried>>

(* Mistake: one entry is taken from a chunk, an if for the while. *)
ReadChunkOneEntry(j, n) ==
  LET r     == replay[j]
      file  == files[LogPath(j)]
      upTo  == IF r.position + n < Len(file) THEN r.position + n ELSE Len(file)
      found == ReadEntries(r.buffer \o SubSeq(file, r.position + 1, upTo))
  IN  /\ r.status = "reading"
      /\ r.position < Len(file)
      /\ replay' = [replay EXCEPT ![j] =
                      [r EXCEPT !.position = upTo,
                                !.buffer   = found.rest,
                                !.given    = @ \o (IF found.votes = <<>> THEN <<>> ELSE <<Head(found.votes)>>),
                                !.status   = IF found.threw THEN "threw" ELSE "reading"]]
      /\ UNCHANGED <<files, stream, pending, voteCount, crashes, opens, appended, torn, buried>>

(* A chunk arrives; every entry it completes is yielded. *)
ReadChunk(j, n) ==
  LET r     == replay[j]
      file  == files[LogPath(j)]
      upTo  == IF r.position + n < Len(file) THEN r.position + n ELSE Len(file)
      found == ReadEntries(r.buffer \o SubSeq(file, r.position + 1, upTo))
  IN  /\ r.status = "reading"
      /\ r.position < Len(file)
      /\ replay' = [replay EXCEPT ![j] =
                      [r EXCEPT !.position = upTo,
                                !.buffer   = found.rest,
                                !.given    = @ \o found.votes,
                                !.status   = IF found.threw THEN "threw" ELSE "reading"]]
      /\ UNCHANGED <<files, stream, pending, voteCount, crashes, opens, appended, torn, buried>>

(* Mistake: the end is reached only with nothing left over. *)
EndReplayWhenEmpty(j) ==
  /\ replay[j].status = "reading"
  /\ replay[j].position = Len(files[LogPath(j)])
  /\ replay[j].buffer = <<>>
  /\ replay' = [replay EXCEPT ![j].status = "done"]
  /\ UNCHANGED <<files, stream, pending, voteCount, crashes, opens, appended, torn, buried>>

(* The end of the file: what is left of the buffer is dropped in silence. *)
EndReplay(j) ==
  /\ replay[j].status = "reading"
  /\ replay[j].position = Len(files[LogPath(j)])
  /\ replay' = [replay EXCEPT ![j].status = "done"]
  /\ UNCHANGED <<files, stream, pending, voteCount, crashes, opens, appended, torn, buried>>

Next ==
  \E j \in Jurisdictions :
    \/ Create(j)
    \/ \E v \in Votes : AppendVote(j, v)
    \/ Written(j)
    \/ Close(j)
    \/ Closed(j)
    \/ \E kept \in 0 .. Len(BeingWritten(j)) : Crash(j, kept)
    \/ StartReplay(j)
    \/ \E n \in ChunkSizes : ReadChunk(j, n)
    \/ EndReplay(j)

Spec == Init /\ [][Next]_vars

(* The event loop completes writes, reads and closings that were begun. *)
FairSpec ==
  /\ Spec
  /\ \A j \in Jurisdictions :
       /\ WF_vars(Written(j)) /\ WF_vars(Closed(j)) /\ WF_vars(EndReplay(j))
       /\ WF_vars(\E n \in ChunkSizes : ReadChunk(j, n))

-----------------------------------------------------------------------------
(* A replay yields the jurisdiction's own votes, unaltered, none twice and *)
(* none skipped, in the order in which they were appended, wherever the    *)
(* chunks are cut and whatever is appended meanwhile.  A part of an entry  *)
(* left by a crash does no harm as long as nothing is appended after it.   *)
ReplayFaithful ==
  \A j \in Jurisdictions :
    LogPath(j) \notin buried =>
      /\ replay[j].status # "threw"
      /\ IsPrefix(replay[j].given, appended[j])

(* A replay that runs to its end has every vote that was whole in the file *)
(* when it began, whichever logger and whichever run of the process wrote  *)
(* it; getVoteCount counts none that is not there to be read.              *)
ReplayComplete ==
  \A j \in Jurisdictions : LogPath(j) \notin buried =>
    /\ replay[j].status = "done" => Len(replay[j].given) >= replay[j].floor
    /\ voteCount[j] <= Len(ReadEntries(files[LogPath(j)]).votes)

(* No step, a crash and a restart included, takes a readable vote away or  *)
(* changes one: what a replay would yield is only ever extended.           *)
ReadableVotesStay ==
  [][\A p \in Paths :
       IsPrefix(ReadEntries(files[p]).votes, ReadEntries(files'[p]).votes)]_vars

(* close() returns unless the process stops: the stream still writes what  *)
(* it was handed before.                                                   *)
CloseReturns ==
  \A j \in Jurisdictions :
    stream[j] = "ending" ~> stream[j] # "ending" /\ pending[j] = <<>>

(* A replay ends, also on a file that ends in a part of an entry.          *)
ReplayEnds ==
  \A j \in Jurisdictions :
    replay[j].status = "reading" ~> replay[j].status # "reading"

(* What the repository promises of recovery: the votes a finished replay   *)
(* yields are the ones that were appended, with no condition on their      *)
(* values or on earlier crashes.                                           *)
RecoveredVotesAreTheOnesAppended ==
  \A j \in Jurisdictions :
    replay[j].status \in {"done", "threw"} =>
      /\ Len(replay[j].given) >= replay[j].floor
      /\ IsPrefix(replay[j].given, appended[j])

Idle     == [given |-> -1, floor |-> -1]
Finished == [given |-> -2, floor |-> -2]

(* The log as a reader of the file finds it.  Behind an entry that a crash *)
(* has torn nothing is promised: there it is what has been appended.       *)
Log == INSTANCE Journal WITH
  Logs    <- Jurisdictions,
  entries <- [j \in Jurisdictions |->
               IF LogPath(j) \in buried THEN appended[j]
               ELSE ReadEntries(files[LogPath(j)]).votes],
  reading <- [j \in Jurisdictions |->
               CASE LogPath(j) \in buried \/ replay[j].status \in {"none", "threw"} -> Idle
                 [] LogPath(j) \notin buried /\ replay[j].status = "done" -> Finished
                 [] OTHER -> [given |-> Len(replay[j].given), floor |-> replay[j].floor]]

(* With no value longer than 32 bytes the loggers implement one journal    *)
(* each, through crashes as well.                                          *)
ImplementsJournal == Log!Spec
=============================================================================
