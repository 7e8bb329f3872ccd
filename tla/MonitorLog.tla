---------------------------- MODULE MonitorLog -----------------------------
(***************************************************************************)
(* src/src/monitor_log.rs: the task that appends every picture it catches  *)
(* to the current log file, an hour's worth per file, and the cursors that *)
(* replay the files to a page that has just been opened.                   *)
(*                                                                         *)
(* The writer and the cursors are tasks of one thread and interleave at    *)
(* their awaits: the locks, the opening of a file, each write_at and       *)
(* read_at.  A file is read without a lock, while it may be written to.    *)
(* The file system and the locks of z_sync are external.                   *)
(*                                                                         *)
(* A picture is its version; encoded, it is Units bytes that tell which    *)
(* record they belong to and where.  Instants: version v is published at   *)
(* 2v, and 2v+1 is any time between it and the next.                       *)
(***************************************************************************)
EXTENDS Integers, Sequences, FiniteSets

CONSTANTS
  Cursors,     \* streams replaying their history
  Units,       \* bytes of an encoded picture
  Chunk,       \* bytes a cursor reads at a time
  MaxFiles,    \* bound on the files: the hours the run lasts
  MaxVersion   \* bound on the pictures published

ASSUME ConstantsTyped ==
  /\ IsFiniteSet(Cursors)
  /\ Units \in Nat \ {0} /\ Chunk \in Nat \ {0}
  /\ MaxFiles \in Nat \ {0} /\ MaxVersion \in Nat

VARIABLES
  latest,    \* version in State.stats
  listener,  \* the writer's, on State.stats: "unarmed", "armed" or "notified"
  writer,    \* "starting", "ready", "rollover", "rolling", "writing" or "waiting"
  encoded,   \* version in its buffer, -1 before the first
  left,      \* bytes of it still to write
  files,     \* per file: what it holds, and its start_time
  at,        \* per cursor: "closed", "skipping", "decoding", "holding",
             \*   "reading", "ended", "done" or "failed"
  file, pos, buffer,  \* per cursor: file_index (from 1), pos, buffer
  from,      \* per cursor: the instant its history starts at
  out,       \* per cursor: the versions next() has returned
  begun,     \* per cursor: the file skip_to_hour chose
  due        \* per cursor: versions logged when it was opened that it owes

writing == <<writer, encoded, left, files>>
cursors == <<at, file, pos, buffer, from, out, begun, due>>
vars == <<latest, listener, writing, cursors>>

Now == 2 * latest + 1
Stamp(v) == 2 * v

Encoding(v) == [i \in 1 .. Units |-> <<v, i>>]

InFile(i, v) == \E k \in DOMAIN files[i].bytes : files[i].bytes[k] = <<v, Units>>

\* Versions whose record is complete, in the files from the i-th on.
LoggedFrom(i) == {v \in 0 .. latest : \E j \in i .. Len(files) : InFile(j, v)}

-----------------------------------------------------------------------------
(* The assembler publishes a picture. *)

Publish ==
  /\ latest < MaxVersion
  /\ latest' = latest + 1
  /\ listener' = IF listener = "armed" THEN "notified" ELSE listener
  /\ UNCHANGED <<writing, cursors>>

-----------------------------------------------------------------------------
(* log_updates. *)

\* Cursors that hold the list of files, for reading.
FilesRead == \E c \in Cursors : at[c] \in {"skipping", "holding"}

\* Fault: no file made before the loop.
StartBare == /\ writer = "starting"
             /\ writer' = "ready"
             /\ UNCHANGED <<latest, listener, encoded, left, files, cursors>>

Start == /\ writer = "starting" /\ ~FilesRead
         /\ writer' = "rolling"
         /\ UNCHANGED <<latest, listener, encoded, left, files, cursors>>

\* Fault: one version per wakeup, as if notifications were counted.
NextInLine == encoded + 1

Caught == latest

\* The listener, then the latest value, encoded.  Whether the file is an hour
\* old by now is anyone's guess, up to MaxFiles.
Observe ==
  /\ writer = "ready" \/ (writer = "waiting" /\ listener = "notified")
  /\ listener' = "armed"
  /\ encoded' = Caught /\ left' = Units
  /\ writer' \in {"writing"} \cup (IF Len(files) < MaxFiles THEN {"rollover"} ELSE {})
  /\ UNCHANGED <<latest, files, cursors>>

RollOver == /\ writer = "rollover" /\ ~FilesRead
            /\ writer' = "rolling"
            /\ UNCHANGED <<latest, listener, encoded, left, files, cursors>>

\* Fault: only the current hour kept.
CreatedReplacing ==
  /\ writer = "rolling"
  /\ files' = <<[bytes |-> <<>>, start |-> Now]>>
  /\ writer' = IF encoded = -1 THEN "ready" ELSE "writing"
  /\ UNCHANGED <<latest, listener, encoded, left, cursors>>

\* create_log_file is back, and the list of files is let go.
Created ==
  /\ writer = "rolling"
  /\ files' = Append(files, [bytes |-> <<>>, start |-> Now])
  /\ writer' = IF encoded = -1 THEN "ready" ELSE "writing"
  /\ UNCHANGED <<latest, listener, encoded, left, cursors>>

\* Fault: the bytes of a short write not drained from the buffer.
RemainingUndrained == Encoding(encoded)

\* What is left in the buffer.
Remaining == SubSeq(Encoding(encoded), Units - left + 1, Units)

\* One write_at, short or not, at the end of the last file, whose write lock is held.
Write(n) ==
  /\ writer = "writing"
  /\ files' = [files EXCEPT ![Len(files)].bytes = @ \o SubSeq(Remaining, 1, n)]
  /\ left' = left - n
  /\ writer' = IF n = left THEN "waiting" ELSE "writing"
  /\ UNCHANGED <<latest, listener, encoded, cursors>>

-----------------------------------------------------------------------------
(* LogCursor. *)

\* skip_to_hour has the list of files: it may wait for a file in it.
Open(c, instant) ==
  /\ at[c] = "closed" /\ writer # "rolling"
  /\ at' = [at EXCEPT ![c] = "skipping"]
  /\ from' = [from EXCEPT ![c] = instant]
  /\ due' = [due EXCEPT ![c] = {v \in LoggedFrom(1) \ {0} : Stamp(v) >= instant}]
  /\ UNCHANGED <<latest, listener, writing, file, pos, buffer, out, begun>>

\* Fault: the first file that starts after the instant, not the one before it.
TargetAfter(instant) ==
  LET later == {i \in DOMAIN files : files[i].start > instant} IN
  IF later = {} THEN 1 ELSE CHOOSE i \in later : \A j \in later : i <= j

\* The last file that had started by the instant, or the first of all.
Target(instant) ==
  LET earlier == {i \in DOMAIN files : files[i].start <= instant} IN
  IF earlier = {} THEN 1 ELSE CHOOSE i \in earlier : \A j \in earlier : j <= i

\* The last file is looked at unless one before it started later.
LooksAtLast(instant) == \A i \in 1 .. Len(files) - 1 : files[i].start <= instant

Skip(c) ==
  /\ at[c] = "skipping"
  /\ ~(writer = "writing" /\ LooksAtLast(from[c]))
  /\ at' = [at EXCEPT ![c] = "decoding"]
  /\ file' = [file EXCEPT ![c] = Target(from[c])]
  /\ begun' = [begun EXCEPT ![c] = Target(from[c])]
  /\ UNCHANGED <<latest, listener, writing, pos, buffer, from, out, due>>

\* A whole record in the buffer is returned; bytes of two of them are an error.
Decode(c) ==
  /\ at[c] = "decoding" /\ Len(buffer[c]) >= Units
  /\ LET v == buffer[c][1][1] IN
     IF SubSeq(buffer[c], 1, Units) = Encoding(v)
       THEN out' = [out EXCEPT ![c] = Append(@, v)] /\ UNCHANGED at
       ELSE at' = [at EXCEPT ![c] = "failed"] /\ UNCHANGED out
  /\ buffer' = [buffer EXCEPT ![c] = SubSeq(@, Units + 1, Len(@))]
  /\ UNCHANGED <<latest, listener, writing, file, pos, from, begun, due>>

\* next() needs more: the list of files first, which may not have its file yet,
Hold(c) ==
  /\ at[c] = "decoding" /\ Len(buffer[c]) < Units /\ writer # "rolling"
  /\ at' = [at EXCEPT ![c] = IF file[c] > Len(files) THEN "done" ELSE "holding"]
  /\ UNCHANGED <<latest, listener, writing, file, pos, buffer, from, out, begun, due>>

\* then the file, cloned under its lock; both are let go before the read.
Clone(c) ==
  /\ at[c] = "holding"
  /\ ~(writer = "writing" /\ file[c] = Len(files))
  /\ at' = [at EXCEPT ![c] = "reading"]
  /\ UNCHANGED <<latest, listener, writing, file, pos, buffer, from, out, begun, due>>

Ahead(c) == Len(files[file[c]].bytes) - pos[c]

\* read_at returns n bytes, or finds the end of the file.
Read(c, n) ==
  /\ at[c] = "reading"
  /\ n <= Ahead(c) /\ (n = 0 => Ahead(c) = 0)
  /\ buffer' = [buffer EXCEPT ![c] = @ \o SubSeq(files[file[c]].bytes, pos[c] + 1, pos[c] + n)]
  /\ pos' = [pos EXCEPT ![c] = @ + n]
  /\ at' = [at EXCEPT ![c] = IF n = 0 THEN "ended" ELSE "decoding"]
  /\ UNCHANGED <<latest, listener, writing, file, from, out, begun, due>>

\* Fault: the position kept from one file to the next.
PosInNext(c) == pos[c]

NextPos(c) == 0

\* Fault: at the end of the last file, read on.
AtEndFollowing(c) ==
  /\ at[c] = "ended" /\ writer # "rolling"
  /\ at' = [at EXCEPT ![c] = "decoding"]
  /\ IF file[c] = Len(files)
       THEN UNCHANGED <<file, pos>>
       ELSE /\ file' = [file EXCEPT ![c] = @ + 1]
            /\ pos' = [pos EXCEPT ![c] = NextPos(c)]
  /\ UNCHANGED <<latest, listener, writing, buffer, from, out, begun, due>>

\* The end of the last file is the end of the history.
AtEnd(c) ==
  /\ at[c] = "ended" /\ writer # "rolling"
  /\ IF file[c] = Len(files)
       THEN at' = [at EXCEPT ![c] = "done"] /\ UNCHANGED <<file, pos>>
       ELSE /\ at' = [at EXCEPT ![c] = "decoding"]
            /\ file' = [file EXCEPT ![c] = @ + 1]
            /\ pos' = [pos EXCEPT ![c] = NextPos(c)]
  /\ UNCHANGED <<latest, listener, writing, buffer, from, out, begun, due>>

-----------------------------------------------------------------------------
Init ==
  /\ latest = 0 /\ listener = "unarmed"
  /\ writer = "starting" /\ encoded = -1 /\ left = 0
  /\ files = <<>>
  /\ at = [c \in Cursors |-> "closed"]
  /\ file = [c \in Cursors |-> 1] /\ pos = [c \in Cursors |-> 0]
  /\ buffer = [c \in Cursors |-> <<>>]
  /\ from = [c \in Cursors |-> 0]
  /\ out = [c \in Cursors |-> <<>>]
  /\ begun = file /\ due = [c \in Cursors |-> {}]

LogUpdates == Start \/ Observe \/ RollOver \/ Created \/ \E n \in 1 .. left : Write(n)

Replay(c) ==
  \/ Skip(c) \/ Decode(c) \/ Hold(c) \/ Clone(c) \/ AtEnd(c)
  \/ \E n \in 0 .. Chunk : Read(c, n)

Next ==
  \/ Publish \/ LogUpdates
  \/ \E c \in Cursors : Replay(c) \/ \E instant \in 0 .. Now : Open(c, instant)

Spec == Init /\ [][Next]_vars

\* The runtime polls what is ready; pictures and pages come as they like.
FairSpec ==
  /\ Spec
  /\ WF_vars(LogUpdates)
  /\ \A c \in Cursors : WF_vars(Replay(c))

-----------------------------------------------------------------------------
(* Properties. *)

(* Every variable stays in its type, and a file is always at hand to write. *)
TypeOK ==
  /\ latest \in Nat
  /\ listener \in {"unarmed", "armed", "notified"}
  /\ writer \in {"starting", "ready", "rollover", "rolling", "writing", "waiting"}
  /\ encoded \in -1 .. latest /\ left \in 0 .. Units
  /\ \A i \in DOMAIN files :
       /\ files[i].start \in 0 .. Now
       /\ \A k \in DOMAIN files[i].bytes : files[i].bytes[k] \in (0 .. latest) \X (1 .. Units)
  /\ writer \in {"writing", "waiting"} => files # <<>>
  /\ \A c \in Cursors :
       /\ at[c] \in {"closed", "skipping", "decoding", "holding", "reading", "ended", "done",
                     "failed"}
       /\ file[c] \in 1 .. Len(files) + 1 /\ pos[c] \in Nat
       /\ begun[c] \in 1 .. file[c]

(* A cursor that reads a file while it is being written to, in pieces, never *)
(* decodes half of one record with half of another (LogCursor::next, whose   *)
(* failure would end the stream's producer).                                 *)
NoTornRecord == \A c \in Cursors : at[c] # "failed"

HasReturned(c, v) == \E i \in DOMAIN out[c] : out[c][i] = v

(* A cursor shows a "Snapshot of the log file" (monitor_log.rs:48): between  *)
(* two records that next() has returned, none is left out.                   *)
NothingSkipped ==
  \A c \in Cursors : \A v \in LoggedFrom(begun[c]), i, j \in DOMAIN out[c] :
    out[c][i] < v /\ v < out[c][j] => HasReturned(c, v)

(* next() returns records in the order they were written, none twice, and    *)
(* what it leaves out of a file is the end of it: of each file's records it  *)
(* returns the first ones, whatever is appended and created meanwhile.       *)
OnlyTailsSkipped ==
  \A c \in Cursors :
    /\ \A i, j \in DOMAIN out[c] : i < j => out[c][i] < out[c][j]
    /\ \A f \in begun[c] .. Len(files), v, w \in 0 .. latest :
         v < w /\ InFile(f, v) /\ InFile(f, w) /\ HasReturned(c, w) => HasReturned(c, v)

(* A page gets all of the history it asks for: whatever had been logged when *)
(* its cursor was opened and is no older than that, although skip_to_hour    *)
(* judges by when files were created and not by what is in them.             *)
HistoryIsWhole ==
  \A c \in Cursors :
    at[c] = "done" => \A v \in due[c] : HasReturned(c, v)

Logged == IF LoggedFrom(1) = {} THEN -1
          ELSE CHOOSE v \in LoggedFrom(1) : \A w \in LoggedFrom(1) : w <= v

Log == INSTANCE Feed
         WITH Keys <- {"log"}, latest <- [k \in {"log"} |-> latest],
              seen <- [k \in {"log"} |-> Logged]

(* The log follows the stats as Feed promises: in order, and nothing that    *)
(* was not published.                                                        *)
LogIsFeed == Log!Safe

(* Every picture, or a later one, is logged in the end.                      *)
LogCatchesUp == Log!CatchesUp(0 .. MaxVersion)

(* A history ends: no cursor and writer wait for each other's lock for good. *)
HistoryEnds == \A c \in Cursors : at[c] = "skipping" ~> at[c] \in {"done", "failed"}
=============================================================================
