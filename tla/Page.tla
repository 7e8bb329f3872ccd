------------------------------- MODULE Page --------------------------------
(***************************************************************************)
(* The script of src/src/index.html: the page's connection to /sse, the    *)
(* points of its charts, and the picture its tables show.                  *)
(*                                                                         *)
(* The stream is what SseStream shows it to be: the records of the log in  *)
(* order, in batches, then the newest picture and those that follow, some  *)
(* skipped, some late.  EventSource connects by itself again when it loses *)
(* the server, which may have been restarted meanwhile.  Events, frames    *)
(* and the reader's choice of a window are tasks of one browser thread.    *)
(*                                                                         *)
(* A picture is its version, and the second it was taken in.  Every chart  *)
(* gets the points of the same pictures, so one stands for all.  The       *)
(* server's clock only moves forward.  Browser and server are external.    *)
(***************************************************************************)
EXTENDS Integers, Sequences, FiniteSets, SequencesExt

CONSTANTS
  Windows,      \* what the reader may choose from, in seconds of the model
  MaxHistory,   \* MAX_HISTORY_MS, in seconds
  Batch,        \* records in a full history event: 1000
  Ahead,        \* how far the browser's clock may be ahead of the server's
  MaxVersion,   \* bound on the pictures published
  MaxSecond     \* bound on the server's clock

ASSUME ConstantsTyped ==
  /\ Windows \subseteq Nat /\ Windows # {} /\ \A w \in Windows : w <= MaxHistory
  /\ MaxHistory \in Nat /\ Ahead \in Nat /\ MaxSecond \in Nat
  /\ Batch \in Nat \ {0} /\ MaxVersion \in Nat \ {0}

VARIABLES
  clock,           \* the server's, in seconds
  takenAt,         \* per version published: its updated_at
  logged,          \* versions in the log
  eventSource,     \* "connecting", "replaying", "replayed" or "live"
  sentFrom,        \* the oldest version the connection may still send live
  replayed,        \* the last version of the log it has sent, while it replays
  historyMin,      \* history_min_time of the connection, while it replays
  currentWindow,
  chart,           \* data points: x is a second, y a version
  latestDataTime,
  latestStats,     \* version, 0 for null
  needsRender,
  rendered,        \* "recently", within RENDER_INTERVAL_MS, or "earlier"
  shown,           \* version the tables show, 0 for none
  handed,          \* versions handed over since the charts were cleared
  horizon          \* the latest second the charts have been pruned to

server == <<clock, takenAt, logged>>
connection == <<eventSource, sentFrom, replayed, historyMin>>
points == <<chart, handed, horizon>>
picture == <<latestDataTime, latestStats, needsRender>>
frame == <<rendered, shown>>
vars == <<server, connection, currentWindow, points, picture, frame>>

latest == Len(takenAt)

Larger(a, b) == IF a < b THEN b ELSE a

-----------------------------------------------------------------------------
(* The server. *)

Tick == clock < MaxSecond /\ clock' = clock + 1
        /\ UNCHANGED <<takenAt, logged, connection, currentWindow, points, picture, frame>>

Publish ==
  /\ latest < MaxVersion
  /\ takenAt' = Append(takenAt, clock)
  /\ UNCHANGED <<clock, logged, connection, currentWindow, points, picture, frame>>

LogPicture ==
  /\ latest \notin logged
  /\ logged' = logged \cup {latest}
  /\ UNCHANGED <<clock, takenAt, connection, currentWindow, points, picture, frame>>

\* What the server kept for the connection goes with it.
Closed == /\ eventSource' = "connecting"
          /\ sentFrom' = 1 /\ replayed' = 0 /\ historyMin' = 0

\* A new process: a first picture before it listens, and a log that starts over.
Restart ==
  /\ latest < MaxVersion
  /\ takenAt' = Append(takenAt, clock) /\ logged' = {}
  /\ Closed
  /\ UNCHANGED <<clock, currentWindow, points, picture, frame>>

-----------------------------------------------------------------------------
(* The connection. *)

Connect ==
  /\ eventSource = "connecting"
  /\ eventSource' = "replaying"
  /\ historyMin' = clock - currentWindow
  /\ sentFrom' = latest /\ replayed' = 0
  /\ UNCHANGED <<server, currentWindow, points, picture, frame>>

Lose ==
  /\ eventSource # "connecting"
  /\ Closed
  /\ UNCHANGED <<server, currentWindow, points, picture, frame>>

\* Fault: the charts left as they are.
KeepCharts == chart

\* ds.data = [], for every dataset of every chart.
ClearedCharts == <<>>

\* The reader chooses another window: initSse closes the source, clears the
\* charts and opens a new one.
ChangeWindow ==
  /\ \E w \in Windows \ {currentWindow} : currentWindow' = w
  /\ Closed
  /\ chart' = ClearedCharts
  /\ handed' = {} /\ horizon' = 0
  /\ UNCHANGED <<server, picture, frame>>

-----------------------------------------------------------------------------
(* Its events. *)

\* Fault: what is newer than the last point, or nothing.
InsertAfterLast(data, new) ==
  IF data # <<>> /\ data[Len(data)].x >= new.x THEN data ELSE Append(data, new)

\* Fault: a point pushed unless the last one is of its second.
PushOrReplaceLast(data, new) ==
  IF data # <<>> /\ data[Len(data)].x = new.x
    THEN [data EXCEPT ![Len(data)].y = new.y]
    ELSE Append(data, new)

InsertSortedAndDedup(data, new) ==
  LET i == Max({0} \cup {k \in 1 .. Len(data) : data[k].x <= new.x}) IN
  IF i > 0 /\ data[i].x = new.x
    THEN [data EXCEPT ![i].y = new.y]
    ELSE InsertAt(data, i + 1, new)

Point(v) == [x |-> takenAt[v], y |-> v]

\* The next records of the log in the window, a batch at most.
NextRecords ==
  LET ahead == {v \in logged : v > replayed /\ takenAt[v] >= historyMin} IN
  {v \in ahead : Cardinality({u \in ahead : u < v}) < Batch}

\* The order in which a cursor returns a set of records.
InOrder(S) == {s \in [1 .. Cardinality(S) -> S] : \A i, j \in DOMAIN s : i < j => s[i] < s[j]}

\* Each record of an event in turn.
Charted(data, records) ==
  LET upTo[i \in 0 .. Len(records)] ==
        IF i = 0 THEN data ELSE InsertSortedAndDedup(upTo[i - 1], Point(records[i]))
  IN  upTo[Len(records)]

\* All of them go to the charts; the last is left as the latest.
History ==
  /\ eventSource = "replaying"
  /\ \E records \in InOrder(NextRecords) :
       /\ chart' = Charted(chart, records)
       /\ handed' = handed \cup ToSet(records)
       /\ IF records = <<>>
            THEN UNCHANGED <<replayed, sentFrom, latestStats, latestDataTime>>
            ELSE /\ replayed' = Last(records)
                 /\ sentFrom' = Larger(sentFrom, Last(records))
                 /\ latestStats' = Last(records)
                 /\ latestDataTime' = Larger(latestDataTime, takenAt[Last(records)])
       /\ eventSource' = IF Len(records) < Batch THEN "replayed" ELSE eventSource
  /\ needsRender' = TRUE
  /\ UNCHANGED <<server, historyMin, currentWindow, horizon, frame>>

\* Fault: a picture of no later second taken for no news.
LatestIfLater(v) ==
  IF takenAt[v] <= latestDataTime THEN UNCHANGED <<latestStats, latestDataTime>>
  ELSE latestStats' = v /\ latestDataTime' = takenAt[v]

\* Fault: one clock in milliseconds, the other in seconds.
LatestInMillis(v) == latestStats' = v /\ latestDataTime' = takenAt[v] * 1000

\* A live picture is the latest, whatever the history has left behind.
Latest(v) == latestStats' = v /\ latestDataTime' = takenAt[v]

Stats ==
  /\ eventSource \in {"replayed", "live"}
  /\ \E v \in sentFrom .. latest :
       /\ Latest(v)
       /\ chart' = InsertSortedAndDedup(chart, Point(v))
       /\ handed' = handed \cup {v}
       /\ sentFrom' = v + 1
  /\ needsRender' = TRUE
  /\ eventSource' = "live" /\ replayed' = 0 /\ historyMin' = 0
  /\ UNCHANGED <<server, currentWindow, horizon, frame>>

-----------------------------------------------------------------------------
(* Frames. *)

MemoryCutoff == latestDataTime - MaxHistory

\* Points from the front, as long as they are older than the cutoff.
Pruned(data) ==
  LET recent == {i \in 1 .. Len(data) : data[i].x >= MemoryCutoff} IN
  IF recent = {} THEN <<>> ELSE SubSeq(data, Min(recent), Len(data))

Draw ==
  /\ needsRender /\ rendered = "earlier" /\ latestStats # 0
  /\ rendered' = "recently" /\ needsRender' = FALSE
  /\ chart' = Pruned(chart)
  /\ horizon' = Larger(horizon, MemoryCutoff)
  /\ shown' = latestStats
  /\ UNCHANGED <<server, connection, currentWindow, latestDataTime, latestStats, handed>>

\* Fault: the wish forgotten by a frame that comes too soon to grant it.
DrawOrForget ==
  \/ Draw
  \/ /\ needsRender /\ rendered = "recently"
     /\ needsRender' = FALSE
     /\ UNCHANGED <<server, connection, currentWindow, points, latestDataTime, latestStats, frame>>

\* renderLoop, on the frames that are not too soon and have something to draw.
RenderLoop == Draw

IntervalPasses ==
  /\ rendered = "recently" /\ rendered' = "earlier"
  /\ UNCHANGED <<server, connection, currentWindow, points, picture, shown>>

-----------------------------------------------------------------------------
Init ==
  /\ clock = 0 /\ takenAt = <<0>> /\ logged = {}
  /\ eventSource = "connecting" /\ sentFrom = 1 /\ replayed = 0 /\ historyMin = 0
  /\ currentWindow \in Windows
  /\ chart = <<>> /\ handed = {} /\ horizon = 0
  /\ latestDataTime \in 0 .. Ahead
  /\ latestStats = 0 /\ needsRender = FALSE
  /\ rendered = "earlier" /\ shown = 0

Next ==
  \/ Tick \/ Publish \/ LogPicture \/ Restart
  \/ Connect \/ Lose \/ ChangeWindow \/ History \/ Stats
  \/ RenderLoop \/ IntervalPasses

Spec == Init /\ [][Next]_vars

\* The browser connects again, hands over what it is sent, and calls for frames.
FairSpec ==
  /\ Spec
  /\ WF_vars(Connect) /\ WF_vars(History) /\ WF_vars(Stats)
  /\ WF_vars(RenderLoop) /\ WF_vars(IntervalPasses)

-----------------------------------------------------------------------------
(* Properties. *)

Versions == 1 .. latest

(* Every variable stays in its type. *)
TypeOK ==
  /\ clock \in 0 .. MaxSecond
  /\ latest \in 1 .. MaxVersion /\ \A v \in Versions : takenAt[v] \in 0 .. clock
  /\ logged \subseteq Versions
  /\ eventSource \in {"connecting", "replaying", "replayed", "live"}
  /\ sentFrom \in 1 .. latest + 1 /\ replayed \in 0 .. latest
  /\ historyMin \in (0 - MaxHistory) .. clock /\ currentWindow \in Windows
  /\ \A i \in DOMAIN chart : chart[i] \in [x : 0 .. clock, y : Versions]
  /\ latestDataTime \in 0 .. Larger(clock, Ahead) /\ latestStats \in 0 .. latest
  /\ needsRender \in BOOLEAN /\ rendered \in {"recently", "earlier"}
  /\ shown \in 0 .. latest
  /\ handed \subseteq Versions /\ horizon \in 0 .. Larger(clock, Ahead)

(* The chart's points are in order, one to a second, however replays and     *)
(* live pictures arrive over each other: Chart.js is told that the data is   *)
(* "already sorted and clean" (insertSortedAndDedup).                        *)
ChartIsClean == \A i \in 1 .. Len(chart) - 1 : chart[i].x < chart[i + 1].x

(* Every point is of a picture handed over since the window was chosen, in   *)
(* its second: nothing of an older window is mixed in (initSse).             *)
NoOldArrays == \A i \in DOMAIN chart : chart[i].y \in handed /\ chart[i] = Point(chart[i].y)

(* Every second of which a picture was handed over since the window was      *)
(* chosen has its point, unless it lies further back than MAX_HISTORY_MS:    *)
(* neither a replay over live points nor the pruning leaves a hole.          *)
NoHole == \A v \in handed : takenAt[v] >= horizon => \E i \in DOMAIN chart : chart[i].x = takenAt[v]

(* Once a connection is live, the picture kept is no older than any handed   *)
(* over or shown, and the axis ends with it: what the replay moved back, or  *)
(* ahead, and the browser's clock leave no trace (the two listeners).        *)
LiveIsCurrent ==
  eventSource = "live" =>
    /\ \A v \in handed \cup {shown} : v <= latestStats
    /\ latestDataTime = takenAt[latestStats]

(* A page that stays connected comes to show the newest picture, and no      *)
(* frame that comes too soon loses it (renderLoop).                          *)
TablesCatchUp == <>[](eventSource # "connecting") => <>[](shown = latest)
=============================================================================
