----------------------------- MODULE SseStream -----------------------------
(***************************************************************************)
(* src/src/http_server.rs: an event stream, from the request to the page   *)
(* that goes away.  Two tasks share the sending side of its one-slot       *)
(* queue: the producer, which replays the log and then follows the stats,  *)
(* and the keeper, whose keep-alive finds out that the page has gone and   *)
(* then cancels the producer.  The producer holds the listener guard that  *)
(* keeps the sources of Monitor at work.                                   *)
(*                                                                         *)
(* The tasks interleave at their awaits on one thread.  The log is what    *)
(* MonitorLog shows it to be: the versions logged, read in order.  axum,   *)
(* the queue and the browser are external.                                 *)
(***************************************************************************)
EXTENDS Integers, Sequences, FiniteSets

CONSTANTS
  Streams,
  Batch,       \* records in a full history event: 1000
  MaxVersion   \* bound on the pictures published

ASSUME ConstantsTyped ==
  IsFiniteSet(Streams) /\ Batch \in Nat \ {0} /\ MaxVersion \in Nat \ {0}

VARIABLES
  latest,          \* version in State.stats
  logged,          \* versions in the log
  listener_count,
  open,            \* per stream: "none", "open" or "gone": its receiver
  queue,           \* per stream: the events in its queue
  producer,        \* "none", "starting", "replaying", "sending", "live", "waiting", "ended"
  hand,            \* the event it is sending
  replayed,        \* the last version its cursor has returned
  prev,            \* what prev_hash is of, 0 before the first
  listener,        \* its listener on the stats: "unarmed", "armed" or "notified"
  keeper,          \* "none", "ticking", "sending", "cancelling" or "ended"
  seen             \* the newest version the page has been handed, 0 for none

stats == <<latest, logged>>
tasks == <<producer, hand, replayed, prev, listener>>
vars == <<stats, listener_count, open, queue, tasks, keeper, seen>>

History(versions, last) == [kind |-> "history", versions |-> versions, last |-> last]
Stats(v) == [kind |-> "stats", versions |-> {v}, last |-> FALSE]
KeepAlive == [kind |-> "comment", versions |-> {}, last |-> FALSE]

Guarded(s) == producer[s] \notin {"none", "starting", "ended"}

HasRoom(s) == open[s] = "open" /\ queue[s] = <<>>

-----------------------------------------------------------------------------
(* Around the stream: pictures published and logged, requests, pages. *)

Publish ==
  /\ latest < MaxVersion
  /\ latest' = latest + 1
  /\ listener' = [s \in Streams |-> IF listener[s] = "armed" THEN "notified" ELSE listener[s]]
  /\ UNCHANGED <<logged, listener_count, open, queue, producer, hand, replayed, prev, keeper, seen>>

LogPicture ==
  /\ latest \notin logged
  /\ logged' = logged \cup {latest}
  /\ UNCHANGED <<latest, listener_count, open, queue, tasks, keeper, seen>>

\* sse_handler: both tasks are spawned, and the stream is handed to axum.
Request(s) ==
  /\ open[s] = "none"
  /\ open' = [open EXCEPT ![s] = "open"]
  /\ producer' = [producer EXCEPT ![s] = "starting"]
  /\ keeper' = [keeper EXCEPT ![s] = "ticking"]
  /\ UNCHANGED <<stats, listener_count, queue, hand, replayed, prev, listener, seen>>

Newest(S) == CHOOSE v \in S : \A w \in S : w <= v

\* The page takes an event.
Take(s) ==
  /\ open[s] = "open" /\ queue[s] # <<>>
  /\ queue' = [queue EXCEPT ![s] = Tail(@)]
  /\ seen' = [seen EXCEPT ![s] = IF Head(queue[s]).versions = {} THEN @
                                 ELSE Newest(Head(queue[s]).versions)]
  /\ UNCHANGED <<stats, listener_count, open, tasks, keeper>>

Leave(s) ==
  /\ open[s] = "open"
  /\ open' = [open EXCEPT ![s] = "gone"]
  /\ queue' = [queue EXCEPT ![s] = <<>>]
  /\ UNCHANGED <<stats, listener_count, tasks, keeper, seen>>

-----------------------------------------------------------------------------
(* The producer. *)

\* Fault: let _ = state.add_listener(), a guard dropped at once.
BeginUnguarded(s) ==
  /\ producer[s] = "starting"
  /\ producer' = [producer EXCEPT ![s] = "replaying"]
  /\ UNCHANGED <<stats, listener_count, open, queue, hand, replayed, prev, listener, keeper, seen>>

\* Its first poll: add_listener, and the cursor.
Begin(s) ==
  /\ producer[s] = "starting"
  /\ producer' = [producer EXCEPT ![s] = "replaying"]
  /\ listener_count' = listener_count + 1
  /\ UNCHANGED <<stats, open, queue, hand, replayed, prev, listener, keeper, seen>>

\* Fault: the newest records first.
NewestFirst(n, v) ==
  {w \in logged : /\ v = 0 \/ w < v
                  /\ Cardinality({u \in logged : (v = 0 \/ u < v) /\ w <= u}) <= n}

\* The next n versions of the log after v.
NextRecords(n, v) == {w \in logged : w > v /\ Cardinality({u \in logged : v < u /\ u <= w}) <= n}

Sends(s, event) == /\ producer' = [producer EXCEPT ![s] = "sending"]
                   /\ hand' = [hand EXCEPT ![s] = event]

\* A full batch, or what is left of the log when the cursor comes to its end.
Replay(s) ==
  LET records == NextRecords(Batch, replayed[s]) IN
  /\ producer[s] = "replaying"
  /\ Sends(s, History(records, Cardinality(records) < Batch))
  /\ replayed' = [replayed EXCEPT ![s] = IF records = {} THEN @ ELSE Newest(records)]
  /\ UNCHANGED <<stats, listener_count, open, queue, prev, listener, keeper, seen>>

\* "Failed to read log": the task panics, and its guard goes with it.
Panic(s) ==
  /\ producer[s] = "replaying"
  /\ producer' = [producer EXCEPT ![s] = "ended"]
  /\ listener_count' = listener_count - 1
  /\ UNCHANGED <<stats, open, queue, hand, replayed, prev, listener, keeper, seen>>

\* One turn of the live loop: the listener, the latest value, and what to do with it.
Live(s) ==
  /\ producer[s] = "live" \/ (producer[s] = "waiting" /\ listener[s] = "notified")
  /\ listener' = [listener EXCEPT ![s] = "armed"]
  /\ IF latest # prev[s]
       THEN prev' = [prev EXCEPT ![s] = latest] /\ Sends(s, Stats(latest))
       ELSE producer' = [producer EXCEPT ![s] = "waiting"] /\ UNCHANGED <<prev, hand>>
  /\ UNCHANGED <<stats, listener_count, open, queue, replayed, keeper, seen>>

\* Fault: the listener made only when there is nothing left to send.
Rearmed(s) == "armed"

\* The listener armed before the value was read is the one waited for.
Kept(s) == listener[s]

Sent(s) ==
  /\ producer[s] = "sending" /\ HasRoom(s)
  /\ queue' = [queue EXCEPT ![s] = Append(@, hand[s])]
  /\ producer' = [producer EXCEPT ![s] = CASE hand[s].kind = "stats" -> "waiting"
                                           [] hand[s].last -> "live"
                                           [] OTHER -> "replaying"]
  /\ listener' = [listener EXCEPT ![s] = Kept(s)]
  /\ UNCHANGED <<stats, listener_count, open, hand, replayed, prev, keeper, seen>>

\* send_async fails: out of the history loop, or out of the live one for good.
NotSent(s) ==
  /\ producer[s] = "sending" /\ open[s] = "gone"
  /\ IF hand[s].kind = "stats"
       THEN /\ producer' = [producer EXCEPT ![s] = "ended"]
            /\ listener_count' = listener_count - 1
       ELSE /\ producer' = [producer EXCEPT ![s] = "live"]
            /\ UNCHANGED listener_count
  /\ UNCHANGED <<stats, open, queue, hand, replayed, prev, listener, keeper, seen>>

-----------------------------------------------------------------------------
(* The keeper. *)

\* Fifteen seconds, or the first tick, which is due at once.
KeepTick(s) ==
  /\ keeper[s] = "ticking"
  /\ keeper' = [keeper EXCEPT ![s] = "sending"]
  /\ UNCHANGED <<stats, listener_count, open, queue, tasks, seen>>

KeepSent(s) ==
  /\ keeper[s] = "sending" /\ HasRoom(s)
  /\ queue' = [queue EXCEPT ![s] = Append(@, KeepAlive)]
  /\ keeper' = [keeper EXCEPT ![s] = "ticking"]
  /\ UNCHANGED <<stats, listener_count, open, tasks, seen>>

KeepNotSent(s) ==
  /\ keeper[s] = "sending" /\ open[s] = "gone"
  /\ keeper' = [keeper EXCEPT ![s] = "cancelling"]
  /\ UNCHANGED <<stats, listener_count, open, queue, tasks, seen>>

\* Fault: the handle dropped, which in compio detaches the task.
Detach(s) ==
  /\ keeper[s] = "cancelling"
  /\ keeper' = [keeper EXCEPT ![s] = "ended"]
  /\ UNCHANGED <<stats, listener_count, open, queue, tasks, seen>>

\* Fault: the count taken down for a producer that has ended by itself as well.
CancelTwice(s) ==
  /\ keeper[s] = "cancelling"
  /\ keeper' = [keeper EXCEPT ![s] = "ended"]
  /\ producer' = [producer EXCEPT ![s] = "ended"]
  /\ listener_count' = listener_count - 1
  /\ UNCHANGED <<stats, open, queue, hand, replayed, prev, listener, seen>>

\* handle.cancel(): the producer goes, wherever it was, and its guard with it.
Cancel(s) ==
  /\ keeper[s] = "cancelling"
  /\ keeper' = [keeper EXCEPT ![s] = "ended"]
  /\ producer' = [producer EXCEPT ![s] = "ended"]
  /\ listener_count' = listener_count - (IF Guarded(s) THEN 1 ELSE 0)
  /\ UNCHANGED <<stats, open, queue, hand, replayed, prev, listener, seen>>

-----------------------------------------------------------------------------
Init ==
  /\ latest = 1 /\ logged = {}
  /\ listener_count = 0
  /\ open = [s \in Streams |-> "none"]
  /\ queue = [s \in Streams |-> <<>>]
  /\ producer = [s \in Streams |-> "none"]
  /\ hand = [s \in Streams |-> KeepAlive]
  /\ replayed = [s \in Streams |-> 0] /\ prev = [s \in Streams |-> 0]
  /\ listener = [s \in Streams |-> "unarmed"]
  /\ keeper = [s \in Streams |-> "none"]
  /\ seen = [s \in Streams |-> 0]

Produce(s) == Begin(s) \/ Replay(s) \/ Live(s) \/ Sent(s) \/ NotSent(s)

Keep(s) == KeepTick(s) \/ KeepSent(s) \/ KeepNotSent(s) \/ Cancel(s)

Next ==
  \/ Publish \/ LogPicture
  \/ \E s \in Streams : Request(s) \/ Take(s) \/ Leave(s) \/ Produce(s) \/ Panic(s) \/ Keep(s)

Spec == Init /\ [][Next]_vars

\* The runtime polls what is ready, the keeper's timer runs, and an open page
\* reads its stream.  The producer gets the slot in the end (strongly), because
\* the keeper takes it once in fifteen seconds and no more.
FairSpec ==
  /\ Spec
  /\ \A s \in Streams : /\ SF_vars(Produce(s)) /\ WF_vars(Keep(s))
                        /\ WF_vars(Take(s))

-----------------------------------------------------------------------------
(* Properties. *)

Events == [kind : {"history", "stats", "comment"}, versions : SUBSET (1 .. MaxVersion),
           last : BOOLEAN]

(* Every variable stays in its type; a queue holds no more than its slot. *)
TypeOK ==
  /\ latest \in 1 .. MaxVersion /\ logged \subseteq 1 .. latest
  /\ listener_count \in Nat
  /\ open \in [Streams -> {"none", "open", "gone"}]
  /\ \A s \in Streams : Len(queue[s]) <= 1 /\ \A i \in DOMAIN queue[s] : queue[s][i] \in Events
  /\ producer \in [Streams -> {"none", "starting", "replaying", "sending", "live", "waiting",
                               "ended"}]
  /\ hand \in [Streams -> Events]
  /\ replayed \in [Streams -> 0 .. latest] /\ prev \in [Streams -> 0 .. latest]
  /\ listener \in [Streams -> {"unarmed", "armed", "notified"}]
  /\ keeper \in [Streams -> {"none", "ticking", "sending", "cancelling", "ended"}]
  /\ seen \in [Streams -> 0 .. latest]

(* The count of listeners is that of the producers at work, however each of  *)
(* them ends: by itself, by a panic, or cancelled at any of its awaits, and  *)
(* never twice (the guard of add_listener in sse_handler).                   *)
EveryGuardCounts == listener_count = Cardinality({s \in Streams : Guarded(s)})

(* A page that has left stops keeping the sources at work in the end, though *)
(* nothing may be published that its producer could notice it by.            *)
GuardsReleased == \A s \in Streams : open[s] = "gone" ~> [](~Guarded(s))

(* A page's picture never goes back to an older one, from one history event  *)
(* to the next and from the history to the live events.                      *)
PageMovesForward == [][\A s \in Streams : seen[s] <= seen'[s] /\ seen'[s] <= latest]_vars

(* A page that stays gets every picture published, or a later one, unless    *)
(* its producer could not read the log.                                      *)
StreamCatchesUp ==
  \A s \in Streams, n \in 1 .. MaxVersion :
    latest >= n /\ open[s] = "open" ~> seen[s] >= n \/ open[s] = "gone" \/ producer[s] = "ended"
=============================================================================
