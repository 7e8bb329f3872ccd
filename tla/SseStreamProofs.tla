-------------------------- MODULE SseStreamProofs --------------------------
(***************************************************************************)
(* Theorems about SseStream, for every set of streams, every batch and any *)
(* number of pictures: types, the guards of the producers, and the order   *)
(* in which a page is shown pictures.                                      *)
(*                                                                         *)
(* The order is not inductive as it stands: whatever a page has been       *)
(* handed is no newer than what waits in its queue, that is no newer than  *)
(* what its producer is sending, and while the log is replayed all of it   *)
(* is no newer than the cursor's last record (InOrder).                    *)
(***************************************************************************)
EXTENDS SseStream, Extrema, TLAPS, FiniteSetTheorems

-----------------------------------------------------------------------------
(* What the operators return. *)

(* Newest picks the newest version of a set that has any. *)
LEMMA NewestOf ==
  ASSUME NEW n \in Nat, NEW S \in SUBSET (0 .. n), S # {}
  PROVE  Newest(S) \in S /\ \A w \in S : w <= Newest(S)
BY Largest DEF Newest

(* The records a cursor returns next are logged, and newer than its last. *)
LEMMA NextRecordsOf ==
  ASSUME TypeOK, NEW s \in Streams
  PROVE  LET records == NextRecords(Batch, replayed[s]) IN
         /\ records \subseteq 1 .. latest
         /\ \A w \in records : replayed[s] < w
         /\ records # {} => /\ Newest(records) \in records
                            /\ \A w \in records : w <= Newest(records)
<1> DEFINE records == NextRecords(Batch, replayed[s])
<1>1. records \subseteq 1 .. latest /\ \A w \in records : replayed[s] < w
  BY DEF NextRecords, TypeOK
<1>2. latest \in Nat /\ records \in SUBSET (0 .. latest)
  BY <1>1, ConstantsTyped DEF TypeOK
<1>3. CASE records # {}
  <2> HIDE DEF records
  <2>1. Newest(records) \in records /\ \A w \in records : w <= Newest(records)
    BY <1>2, <1>3, NewestOf
  <2> QED BY <1>1, <2>1 DEF records
<1> QED BY <1>1, <1>3

-----------------------------------------------------------------------------
(* Types. *)

(* A queue holds no event or one. *)
OneSlot == {<<>>} \cup {<<e>> : e \in Events}

StreamType == TypeOK /\ queue \in [Streams -> OneSlot]

(* The events the tasks send are events. *)
LEMMA EventTypes ==
  ASSUME TypeOK
  PROVE  /\ KeepAlive \in Events
         /\ Stats(latest) \in Events
         /\ \A s \in Streams, last \in BOOLEAN :
              History(NextRecords(Batch, replayed[s]), last) \in Events
<1>1. KeepAlive \in Events
  BY DEF KeepAlive, Events
<1>2. Stats(latest) \in Events
  BY DEF Stats, Events, TypeOK
<1>3. ASSUME NEW s \in Streams, NEW last \in BOOLEAN
      PROVE  History(NextRecords(Batch, replayed[s]), last) \in Events
  <2>1. NextRecords(Batch, replayed[s]) \subseteq 1 .. MaxVersion
    <3>1. NextRecords(Batch, replayed[s]) \subseteq logged
      BY DEF NextRecords
    <3>2. logged \subseteq 1 .. MaxVersion
      BY ConstantsTyped DEF TypeOK
    <3> QED BY <3>1, <3>2
  <2> QED BY <2>1 DEF History, Events
<1> QED BY <1>1, <1>2, <1>3

(* What is put into a free slot fits it, and so does what is left of it. *)
LEMMA SlotKept ==
  ASSUME NEW events \in OneSlot
  PROVE  /\ Len(events) <= 1 /\ \A i \in DOMAIN events : events[i] \in Events
         /\ events = <<>> => \A e \in Events : Append(events, e) = <<e>> /\ <<e>> \in OneSlot
         /\ events # <<>> => /\ Tail(events) = <<>> /\ Head(events) \in Events
                             /\ events = <<Head(events)>>
         /\ <<>> \in OneSlot
<1>1. CASE events = <<>>
  BY <1>1 DEF OneSlot
<1>2. CASE events # <<>>
  <2>1. PICK e \in Events : events = <<e>>
    BY <1>2 DEF OneSlot
  <2>2. /\ Len(<<e>>) = 1 /\ Tail(<<e>>) = <<>> /\ Head(<<e>>) = e
        /\ \A i \in DOMAIN <<e>> : <<e>>[i] = e
    OBVIOUS
  <2>3. <<>> \in OneSlot
    BY DEF OneSlot
  <2> QED BY <1>2, <2>1, <2>2, <2>3
<1> QED BY <1>1, <1>2

-----------------------------------------------------------------------------
(* The guards. *)

Guards == {s \in Streams : Guarded(s)}

AtWork(step) == step \notin {"none", "starting", "ended"}

(* One producer moves: the guards gain it, lose it, or stay the same. *)
LEMMA GuardsMove ==
  ASSUME TypeOK, NEW s \in Streams, NEW step,
         producer' = [producer EXCEPT ![s] = step]
  PROVE  /\ IsFiniteSet(Guards) /\ Cardinality(Guards) \in Nat
         /\ IsFiniteSet(Guards') /\ Cardinality(Guards') \in Nat
         /\ (Guarded(s) <=> AtWork(step)) => Guards' = Guards
         /\ ~Guarded(s) /\ AtWork(step) => Cardinality(Guards') = Cardinality(Guards) + 1
         /\ Guarded(s) /\ ~AtWork(step) => Cardinality(Guards') = Cardinality(Guards) - 1
<1>1. /\ IsFiniteSet(Guards) /\ Cardinality(Guards) \in Nat
      /\ IsFiniteSet(Guards') /\ Cardinality(Guards') \in Nat
  <2>1. Guards \in SUBSET Streams /\ Guards' \in SUBSET Streams
    BY DEF Guards
  <2> QED BY <2>1, ConstantsTyped, FS_Subset, FS_CardinalityType
<1>2. \A t \in Streams : producer'[t] = IF t = s THEN step ELSE producer[t]
  BY DEF TypeOK
<1>3. (Guarded(s) <=> AtWork(step)) => Guards' = Guards
  BY <1>2 DEF Guards, Guarded, AtWork
<1>4. ~Guarded(s) /\ AtWork(step) => Guards' = Guards \cup {s} /\ s \notin Guards
  BY <1>2 DEF Guards, Guarded, AtWork
<1>5. Guarded(s) /\ ~AtWork(step) => Guards' = Guards \ {s} /\ s \in Guards
  BY <1>2 DEF Guards, Guarded, AtWork
<1>6. ~Guarded(s) /\ AtWork(step) => Cardinality(Guards') = Cardinality(Guards) + 1
  BY <1>1, <1>4, FS_AddElement
<1>7. Guarded(s) /\ ~AtWork(step) => Cardinality(Guards') = Cardinality(Guards) - 1
  BY <1>1, <1>5, FS_RemoveElement
<1> QED BY <1>1, <1>3, <1>6, <1>7

(* No task has been spawned for a stream nobody has asked for. *)
Unasked ==
  \A s \in Streams : open[s] = "none" => producer[s] = "none" /\ keeper[s] = "none"

CountInv == EveryGuardCounts /\ Unasked

(* A step that leaves the producers and the count alone. *)
LEMMA GuardsStay ==
  ASSUME EveryGuardCounts, UNCHANGED <<producer, listener_count>>
  PROVE  EveryGuardCounts'
BY DEF EveryGuardCounts, Guarded

(* Every step of a stream counts: its producer adds its guard once, and gives *)
(* it back once, whichever way it ends.                                       *)
LEMMA StreamCounts ==
  ASSUME TypeOK, CountInv, NEW s \in Streams,
         Request(s) \/ Take(s) \/ Leave(s) \/ Produce(s) \/ Panic(s) \/ Keep(s)
  PROVE  EveryGuardCounts'
<1> USE DEF CountInv
<1>a. /\ ~AtWork("starting") /\ ~AtWork("ended")
      /\ \A step \in {"replaying", "sending", "waiting", "live"} : AtWork(step)
  BY DEF AtWork
<1>b. AtWork("replaying")
  BY <1>a
<1>0. /\ EveryGuardCounts <=> listener_count = Cardinality(Guards)
      /\ EveryGuardCounts' <=> listener_count' = Cardinality(Guards')
  BY DEF EveryGuardCounts, Guards
<1>1. CASE Take(s) \/ Leave(s) \/ KeepTick(s) \/ KeepSent(s) \/ KeepNotSent(s)
  BY <1>1, GuardsStay DEF Take, Leave, KeepTick, KeepSent, KeepNotSent, tasks
<1>2. CASE Request(s)
  <2>1. ~Guarded(s)
    BY <1>2 DEF Request, Unasked, Guarded
  <2> QED BY <1>0, <1>2, <2>1, <1>a, GuardsMove DEF Request
<1>3. CASE Begin(s)
  <2>1. ~Guarded(s)
    BY <1>3 DEF Begin, Guarded
  <2>2. /\ producer' = [producer EXCEPT ![s] = "replaying"]
        /\ listener_count' = listener_count + 1
    BY <1>3 DEF Begin
  <2>3. Cardinality(Guards') = Cardinality(Guards) + 1
    BY <2>1, <2>2, <1>b, GuardsMove
  <2> QED BY <1>0, <2>2, <2>3
<1>4. CASE Panic(s)
  <2>1. Guarded(s)
    BY <1>4 DEF Panic, Guarded
  <2>2. /\ producer' = [producer EXCEPT ![s] = "ended"]
        /\ listener_count' = listener_count - 1
    BY <1>4 DEF Panic
  <2>3. Cardinality(Guards') = Cardinality(Guards) - 1
    BY <2>1, <2>2, <1>a, GuardsMove
  <2> QED BY <1>0, <2>2, <2>3
<1>5. CASE Replay(s) \/ Live(s) \/ Sent(s)
  <2>1. Guarded(s)
    BY <1>5 DEF Replay, Live, Sent, Guarded
  <2>2. PICK step \in {"sending", "waiting", "live", "replaying"} :
             producer' = [producer EXCEPT ![s] = step]
    BY <1>5 DEF Replay, Live, Sent, Sends
  <2>3. Guards' = Guards
    BY <2>1, <2>2, <1>a, GuardsMove
  <2>4. UNCHANGED listener_count
    BY <1>5 DEF Replay, Live, Sent
  <2> QED BY <1>0, <2>3, <2>4
<1>6. CASE NotSent(s)
  <2>1. Guarded(s)
    BY <1>6 DEF NotSent, Guarded
  <2> QED BY <1>0, <1>6, <2>1, <1>a, GuardsMove DEF NotSent
<1>7. CASE Cancel(s)
  <2>1. producer' = [producer EXCEPT ![s] = "ended"]
    BY <1>7 DEF Cancel
  <2>2. CASE Guarded(s)
    BY <1>0, <1>7, <2>1, <2>2, <1>a, GuardsMove DEF Cancel
  <2>3. CASE ~Guarded(s)
    <3>1. Guards' = Guards
      BY <2>1, <2>3, <1>a, GuardsMove
    <3>2. Cardinality(Guards) \in Nat /\ listener_count' = listener_count - 0
      BY <1>7, <2>1, <2>3, <1>a, GuardsMove DEF Cancel
    <3> QED BY <1>0, <3>1, <3>2
  <2> QED BY <2>2, <2>3
<1> QED BY <1>1, <1>2, <1>3, <1>4, <1>5, <1>6, <1>7 DEF Produce, Keep

(* Only a request spawns a producer, and no stream is closed to be asked for again. *)
LEMMA StreamUnasked ==
  ASSUME TypeOK, CountInv, NEW s \in Streams,
         Request(s) \/ Take(s) \/ Leave(s) \/ Produce(s) \/ Panic(s) \/ Keep(s)
  PROVE  Unasked'
<1> SUFFICES ASSUME NEW t \in Streams, open'[t] = "none"
             PROVE  producer'[t] = "none" /\ keeper'[t] = "none"
  BY DEF Unasked
<1>1. open[t] = "none" /\ producer[t] = "none" /\ keeper[t] = "none"
  BY DEF CountInv, Unasked, TypeOK, Request, Take, Leave, Produce, Begin, Replay, Live, Sent,
         NotSent, Panic, Keep, KeepTick, KeepSent, KeepNotSent, Cancel
<1>2. CASE t = s
  BY <1>1, <1>2
  DEF TypeOK, Request, Take, Leave, Produce, Begin, Replay, Live, Sent, NotSent, Panic, Keep,
      KeepTick, KeepSent, KeepNotSent, Cancel, Sends, tasks
<1>3. CASE t # s
  BY <1>1, <1>3
  DEF TypeOK, Request, Take, Leave, Produce, Begin, Replay, Live, Sent, NotSent, Panic, Keep,
      KeepTick, KeepSent, KeepNotSent, Cancel, Sends, tasks
<1> QED BY <1>2, <1>3

LEMMA NextCounts ==
  ASSUME TypeOK, CountInv, [Next]_vars
  PROVE  CountInv'
<1>1. CASE UNCHANGED vars \/ Publish \/ LogPicture
  <2>1. UNCHANGED <<producer, listener_count, open, keeper>>
    BY <1>1 DEF vars, Publish, LogPicture, tasks
  <2> QED BY <2>1, GuardsStay DEF CountInv, Unasked
<1>2. ASSUME NEW s \in Streams,
             Request(s) \/ Take(s) \/ Leave(s) \/ Produce(s) \/ Panic(s) \/ Keep(s)
      PROVE  CountInv'
  BY <1>2, StreamCounts, StreamUnasked DEF CountInv
<1> QED BY <1>1, <1>2 DEF Next

-----------------------------------------------------------------------------
(* The order of what a page is shown. *)

(* The versions that wait in the queue of a stream. *)
Queued(s) == IF queue[s] = <<>> THEN {} ELSE Head(queue[s]).versions

Sending(s) == producer[s] = "sending"

(* The cursor is still to be read, or what it gave is still to be sent. *)
Replaying(s) ==
  \/ producer[s] \in {"none", "starting", "replaying"}
  \/ Sending(s) /\ hand[s].kind # "stats"

InOrderOf(s) ==
  /\ \A v \in Queued(s) : seen[s] <= v /\ v <= latest
  /\ Sending(s) => \A w \in hand[s].versions :
                     /\ seen[s] <= w /\ w <= latest
                     /\ \A v \in Queued(s) : v <= w
  /\ Replaying(s) => /\ seen[s] <= replayed[s]
                     /\ \A v \in Queued(s) : v <= replayed[s]
                     /\ Sending(s) => \A w \in hand[s].versions : w <= replayed[s]

InOrder == \A s \in Streams : InOrderOf(s)

(* What is queued are versions, and the newest of them can be told. *)
LEMMA QueuedVersions ==
  ASSUME StreamType, InOrder, NEW s \in Streams, queue[s] # <<>>
  PROVE  /\ queue[s] = <<Head(queue[s])>> /\ Tail(queue[s]) = <<>>
         /\ Queued(s) = Head(queue[s]).versions
         /\ Queued(s) \subseteq 1 .. latest
         /\ Queued(s) # {} => Newest(Queued(s)) \in Queued(s)
<1>1. queue[s] \in OneSlot
  BY DEF StreamType
<1>2. /\ Head(queue[s]) \in Events
      /\ queue[s] = <<Head(queue[s])>> /\ Tail(queue[s]) = <<>>
  BY <1>1, SlotKept
<1>3. Queued(s) = Head(queue[s]).versions
  BY DEF Queued
<1>4. Queued(s) \subseteq 1 .. MaxVersion
  BY <1>2, <1>3 DEF Events
<1>5. Queued(s) \subseteq 1 .. latest
  BY <1>4, ConstantsTyped DEF InOrder, InOrderOf, StreamType, TypeOK
<1>6. Queued(s) # {} => Newest(Queued(s)) \in Queued(s)
  <2>1. latest \in Nat /\ Queued(s) \in SUBSET (0 .. latest)
    BY <1>5, ConstantsTyped DEF StreamType, TypeOK
  <2> QED BY <2>1, NewestOf
<1> QED BY <1>2, <1>3, <1>5, <1>6

(* What a page is handed is no older than what it had, and was published. *)
LEMMA TakeMovesForward ==
  ASSUME StreamType, InOrder, NEW s \in Streams, Take(s)
  PROVE  /\ seen' \in [Streams -> 0 .. latest]
         /\ \A t \in Streams : seen[t] <= seen'[t]
         /\ Queued(s) = {} => seen'[s] = seen[s]
         /\ Queued(s) # {} => seen'[s] \in Queued(s)
         /\ \A t \in Streams \ {s} : seen'[t] = seen[t]
         /\ queue' = [queue EXCEPT ![s] = <<>>]
<1>1. /\ queue[s] # <<>>
      /\ queue' = [queue EXCEPT ![s] = Tail(@)]
      /\ seen' = [seen EXCEPT ![s] = IF Head(queue[s]).versions = {} THEN @
                                    ELSE Newest(Head(queue[s]).versions)]
  BY DEF Take
<1>2. seen' = [seen EXCEPT ![s] = IF Queued(s) = {} THEN @ ELSE Newest(Queued(s))]
  BY <1>1, QueuedVersions
<1>3. seen \in [Streams -> 0 .. latest] /\ latest \in Nat
  BY ConstantsTyped DEF StreamType, TypeOK
<1>4. /\ Queued(s) = {} => seen'[s] = seen[s]
      /\ Queued(s) # {} => seen'[s] \in Queued(s)
      /\ \A t \in Streams \ {s} : seen'[t] = seen[t]
  BY <1>1, <1>2, <1>3, QueuedVersions
<1>5. seen[s] <= seen'[s] /\ seen'[s] \in 0 .. latest
  BY <1>1, <1>3, <1>4, QueuedVersions DEF InOrder, InOrderOf
<1>6. seen' \in [Streams -> 0 .. latest]
  BY <1>2, <1>3, <1>5
<1>7. \A t \in Streams : seen[t] <= seen'[t]
  BY <1>3, <1>4, <1>5
<1>8. queue' = [queue EXCEPT ![s] = <<>>]
  BY <1>1, QueuedVersions
<1> QED BY <1>4, <1>6, <1>7, <1>8

(* Nothing that a step leaves alone can put a stream out of order. *)
LEMMA OrderStays ==
  ASSUME StreamType, NEW s \in Streams, InOrderOf(s),
         queue'[s] = queue[s], hand'[s] = hand[s], seen'[s] = seen[s],
         replayed'[s] = replayed[s], producer'[s] = producer[s],
         latest <= latest', latest' \in Nat
  PROVE  InOrderOf(s)'
<1>1. Queued(s)' = Queued(s) /\ (Sending(s)' <=> Sending(s))
      /\ (Replaying(s)' <=> Replaying(s))
  BY DEF Queued, Sending, Replaying
<1>2. /\ latest \in Nat
      /\ queue[s] \in OneSlot /\ hand[s].versions \subseteq Nat
  BY ConstantsTyped DEF StreamType, TypeOK, Events
<1>3. Queued(s) \subseteq Nat
  BY <1>2, SlotKept DEF Queued, Events
<1> QED BY <1>1, <1>2, <1>3 DEF InOrderOf

LEMMA StreamOrder ==
  ASSUME StreamType, CountInv, InOrder, NEW s \in Streams,
         Request(s) \/ Take(s) \/ Leave(s) \/ Produce(s) \/ Panic(s) \/ Keep(s)
  PROVE  InOrderOf(s)'
<1> USE DEF StreamType
<1>0. /\ latest' = latest /\ latest \in Nat
      /\ seen[s] \in 0 .. latest /\ replayed[s] \in 0 .. latest
      /\ queue[s] \in OneSlot /\ hand[s].versions \subseteq Nat
  BY ConstantsTyped DEF TypeOK, Events, Request, Take, Leave, Produce, Begin, Replay, Live, Sent,
         NotSent, Panic, Keep, KeepTick, KeepSent, KeepNotSent, Cancel, stats
<1>1. InOrderOf(s) /\ Queued(s) \subseteq Nat
  BY <1>0, SlotKept DEF InOrder, Queued, Events
<1>2. CASE Request(s)
  <2>1. producer[s] = "none" /\ producer'[s] = "starting"
    BY <1>2 DEF Request, CountInv, Unasked, TypeOK
  <2>2. UNCHANGED <<queue, hand, seen, replayed>>
    BY <1>2 DEF Request
  <2> QED BY <1>0, <1>1, <2>1, <2>2 DEF InOrderOf, Queued, Sending, Replaying
<1>3. CASE Take(s)
  <2>1. UNCHANGED <<producer, hand, replayed>>
    BY <1>3 DEF Take, tasks
  <2>2. Queued(s)' = {}
    BY <1>3, TakeMovesForward DEF Queued, TypeOK
  <2>3. seen'[s] \in 0 .. latest /\ (seen'[s] = seen[s] \/ seen'[s] \in Queued(s))
    BY <1>3, TakeMovesForward
  <2> QED BY <1>0, <1>1, <2>1, <2>2, <2>3 DEF InOrderOf, Sending, Replaying
<1>4. CASE Leave(s)
  <2>1. UNCHANGED <<producer, hand, replayed, seen>>
    BY <1>4 DEF Leave, tasks
  <2>2. Queued(s)' = {}
    BY <1>4 DEF Leave, Queued
  <2> QED BY <1>0, <1>1, <2>1, <2>2 DEF InOrderOf, Sending, Replaying
<1>5. CASE Begin(s) \/ Panic(s)
  <2>1. /\ UNCHANGED <<queue, hand, replayed, seen>>
        /\ producer'[s] \in {"replaying", "ended"}
        /\ producer[s] \in {"starting", "replaying"}
    BY <1>5 DEF Begin, Panic, TypeOK
  <2> QED BY <1>0, <1>1, <2>1 DEF InOrderOf, Queued, Sending, Replaying
<1>6. CASE Replay(s)
  <2> DEFINE records == NextRecords(Batch, replayed[s])
  <2>1. /\ UNCHANGED <<queue, seen>> /\ producer[s] = "replaying" /\ producer'[s] = "sending"
        /\ hand'[s].versions = records
        /\ replayed'[s] = IF records = {} THEN replayed[s] ELSE Newest(records)
    BY <1>6 DEF Replay, Sends, History, TypeOK
  <2>2. /\ records \subseteq 1 .. latest /\ \A w \in records : replayed[s] < w
        /\ records # {} => Newest(records) \in records /\ \A w \in records : w <= Newest(records)
    BY NextRecordsOf
  <2> HIDE DEF records
  <2>3. Queued(s)' = Queued(s)
    BY <2>1 DEF Queued
  <2>4. /\ seen[s] <= replayed[s] /\ \A v \in Queued(s) : v <= replayed[s]
        /\ \A v \in Queued(s) : seen[s] <= v /\ v <= latest
    BY <1>1, <2>1 DEF InOrderOf, Replaying
  <2>5. replayed[s] <= replayed'[s] /\ replayed'[s] \in Nat
        /\ \A w \in records : w <= replayed'[s] /\ w \in Nat
    BY <1>0, <2>1, <2>2
  <2>6. \A w \in records : seen[s] <= w /\ w <= latest /\ \A v \in Queued(s) : v <= w
    <3> SUFFICES ASSUME NEW w \in records
                 PROVE  seen[s] <= w /\ w <= latest /\ \A v \in Queued(s) : v <= w
      OBVIOUS
    <3>1. w \in 1 .. latest /\ replayed[s] < w
      BY <2>2
    <3> QED BY <1>0, <1>1, <2>4, <3>1
  <2>7. seen[s] <= replayed'[s] /\ \A v \in Queued(s) : v <= replayed'[s]
    BY <1>0, <1>1, <2>4, <2>5
  <2> QED BY <1>0, <2>1, <2>3, <2>4, <2>5, <2>6, <2>7 DEF InOrderOf
<1>7. CASE Live(s)
  <2>1. /\ UNCHANGED <<queue, seen, replayed>>
        /\ \/ producer'[s] = "sending" /\ hand'[s].versions = {latest} /\ hand'[s].kind = "stats"
           \/ producer'[s] = "waiting"
    BY <1>7 DEF Live, Sends, Stats, TypeOK
  <2> QED BY <1>0, <1>1, <2>1 DEF InOrderOf, Queued, Sending, Replaying
<1>8. CASE Sent(s)
  <2>1. /\ UNCHANGED <<seen, replayed, hand>> /\ producer[s] = "sending"
        /\ producer'[s] # "sending"
        /\ producer'[s] \in {"waiting", "live", "replaying"}
        /\ producer'[s] = "replaying" => hand[s].kind # "stats"
    BY <1>8 DEF Sent, TypeOK
  <2>2. hand[s] \in Events /\ queue[s] = <<>> /\ queue'[s] = Append(queue[s], hand[s])
    BY <1>8 DEF Sent, HasRoom, TypeOK
  <2>3. queue'[s] = <<hand[s]>>
    BY <1>0, <2>2, SlotKept
  <2>4. Queued(s)' = hand[s].versions
    BY <2>3 DEF Queued
  <2> QED BY <1>0, <1>1, <2>1, <2>4 DEF InOrderOf, Sending, Replaying
<1>9. CASE NotSent(s)
  <2>1. /\ UNCHANGED <<queue, seen, replayed, hand>>
        /\ producer'[s] \in {"ended", "live"}
    BY <1>9 DEF NotSent, TypeOK
  <2> QED BY <1>0, <1>1, <2>1 DEF InOrderOf, Queued, Sending, Replaying
<1>10. CASE KeepTick(s) \/ KeepNotSent(s)
  BY <1>0, <1>1, <1>10, OrderStays DEF KeepTick, KeepNotSent, tasks
<1>11. CASE KeepSent(s)
  <2>1. UNCHANGED <<producer, hand, replayed, seen>>
    BY <1>11 DEF KeepSent, tasks
  <2>2. queue[s] = <<>> /\ queue'[s] = Append(queue[s], KeepAlive)
    BY <1>11 DEF KeepSent, HasRoom
  <2>3. queue'[s] = <<KeepAlive>> /\ KeepAlive.versions = {}
    BY <1>0, <2>2, SlotKept, EventTypes DEF KeepAlive
  <2>4. Queued(s)' = {}
    BY <2>3 DEF Queued
  <2> QED BY <1>0, <1>1, <2>1, <2>4 DEF InOrderOf, Sending, Replaying
<1>12. CASE Cancel(s)
  <2>1. UNCHANGED <<queue, hand, replayed, seen>> /\ producer'[s] = "ended"
    BY <1>12 DEF Cancel, TypeOK
  <2> QED BY <1>0, <1>1, <2>1 DEF InOrderOf, Queued, Sending, Replaying
<1> QED BY <1>2, <1>3, <1>4, <1>5, <1>6, <1>7, <1>8, <1>9, <1>10, <1>11, <1>12
        DEF Produce, Keep

(* A step of one stream leaves the others as they are. *)
LEMMA OthersStay ==
  ASSUME StreamType, InOrder, NEW s \in Streams, NEW t \in Streams \ {s},
         Request(s) \/ Take(s) \/ Leave(s) \/ Produce(s) \/ Panic(s) \/ Keep(s)
  PROVE  InOrderOf(t)'
<1>1. latest' = latest /\ latest \in Nat
  BY ConstantsTyped DEF StreamType, TypeOK, Request, Take, Leave, Produce, Begin, Replay, Live,
         Sent, NotSent, Panic, Keep, KeepTick, KeepSent, KeepNotSent, Cancel, stats
<1>2. producer'[t] = producer[t] /\ hand'[t] = hand[t] /\ replayed'[t] = replayed[t]
  BY DEF StreamType, TypeOK, Request, Take, Leave, Produce, Begin, Replay, Live,
         Sent, NotSent, Panic, Keep, KeepTick, KeepSent, KeepNotSent, Cancel, Sends, tasks
<1>3. queue'[t] = queue[t]
  BY DEF StreamType, Request, Take, Leave, Produce, Begin, Replay, Live,
         Sent, NotSent, Panic, Keep, KeepTick, KeepSent, KeepNotSent, Cancel
<1>4. seen'[t] = seen[t]
  BY TakeMovesForward DEF Request, Leave, Produce, Begin, Replay, Live,
         Sent, NotSent, Panic, Keep, KeepTick, KeepSent, KeepNotSent, Cancel
<1> QED BY <1>1, <1>2, <1>3, <1>4, OrderStays DEF InOrder

LEMMA NextOrder ==
  ASSUME StreamType, CountInv, InOrder, [Next]_vars
  PROVE  InOrder'
<1> SUFFICES ASSUME NEW t \in Streams PROVE InOrderOf(t)'
  BY DEF InOrder
<1>1. CASE UNCHANGED vars \/ Publish \/ LogPicture
  <2>1. /\ UNCHANGED <<queue, producer, hand, replayed, seen>>
        /\ latest <= latest' /\ latest' \in Nat
    BY <1>1, ConstantsTyped DEF vars, stats, tasks, Publish, LogPicture, StreamType, TypeOK
  <2> QED BY <2>1, OrderStays DEF InOrder
<1>2. ASSUME NEW s \in Streams,
             Request(s) \/ Take(s) \/ Leave(s) \/ Produce(s) \/ Panic(s) \/ Keep(s)
      PROVE  InOrderOf(t)'
  BY <1>2, StreamOrder, OthersStay
<1> QED BY <1>1, <1>2 DEF Next

-----------------------------------------------------------------------------
(* Types, kept by every step. *)

(* The parts of the type invariant that no other invariant is needed for. *)
LEMMA QueueType ==
  ASSUME NEW q \in [Streams -> OneSlot]
  PROVE  \A s \in Streams : Len(q[s]) <= 1 /\ \A i \in DOMAIN q[s] : q[s][i] \in Events
BY SlotKept

LEMMA CountType == ASSUME EveryGuardCounts PROVE listener_count \in Nat
<1>1. {s \in Streams : Guarded(s)} \in SUBSET Streams
  OBVIOUS
<1> QED BY <1>1, ConstantsTyped, FS_Subset, FS_CardinalityType DEF EveryGuardCounts

LEMMA StreamTypes ==
  ASSUME StreamType, InOrder, NEW s \in Streams,
         Request(s) \/ Take(s) \/ Leave(s) \/ Produce(s) \/ Panic(s) \/ Keep(s)
  PROVE  /\ latest' = latest /\ logged' = logged
         /\ open' \in [Streams -> {"none", "open", "gone"}]
         /\ queue' \in [Streams -> OneSlot]
         /\ producer' \in [Streams -> {"none", "starting", "replaying", "sending", "live",
                                       "waiting", "ended"}]
         /\ hand' \in [Streams -> Events]
         /\ replayed' \in [Streams -> 0 .. latest] /\ prev' \in [Streams -> 0 .. latest]
         /\ listener' \in [Streams -> {"unarmed", "armed", "notified"}]
         /\ keeper' \in [Streams -> {"none", "ticking", "sending", "cancelling", "ended"}]
         /\ seen' \in [Streams -> 0 .. latest]
<1> USE DEF StreamType
<1>1. latest' = latest /\ logged' = logged
  BY DEF Request, Take, Leave, Produce, Begin, Replay, Live, Sent, NotSent, Panic,
         Keep, KeepTick, KeepSent, KeepNotSent, Cancel, stats
<1>2. open' \in [Streams -> {"none", "open", "gone"}]
  BY DEF TypeOK, Request, Take, Leave, Produce, Begin, Replay, Live, Sent, NotSent, Panic,
         Keep, KeepTick, KeepSent, KeepNotSent, Cancel
<1>3. producer' \in [Streams -> {"none", "starting", "replaying", "sending", "live",
                                "waiting", "ended"}]
  <2>1. CASE Produce(s)
    <3>1. \E step \in {"replaying", "sending", "live", "waiting", "ended"} :
            producer' = [producer EXCEPT ![s] = step]
      BY <2>1 DEF Produce, Begin, Replay, Live, Sent, NotSent, Sends
    <3> QED BY <3>1 DEF TypeOK
  <2>2. CASE Request(s) \/ Panic(s) \/ Cancel(s)
    BY <2>2 DEF TypeOK, Request, Panic, Cancel
  <2>3. CASE Take(s) \/ Leave(s) \/ KeepTick(s) \/ KeepSent(s) \/ KeepNotSent(s)
    BY <2>3 DEF TypeOK, Take, Leave, KeepTick, KeepSent, KeepNotSent, tasks
  <2> QED BY <2>1, <2>2, <2>3 DEF Keep
<1>4. keeper' \in [Streams -> {"none", "ticking", "sending", "cancelling", "ended"}]
  BY DEF TypeOK, Request, Take, Leave, Produce, Begin, Replay, Live, Sent, NotSent, Panic,
         Keep, KeepTick, KeepSent, KeepNotSent, Cancel
<1>5. listener' \in [Streams -> {"unarmed", "armed", "notified"}]
  <2>1. CASE Live(s) \/ Sent(s)
    <3>1. \E to \in {"unarmed", "armed", "notified"} : listener' = [listener EXCEPT ![s] = to]
      BY <2>1 DEF TypeOK, Live, Sent, Kept
    <3> QED BY <3>1 DEF TypeOK
  <2>2. CASE ~Live(s) /\ ~Sent(s)
    BY <2>2 DEF TypeOK, Request, Take, Leave, Produce, Begin, Replay, NotSent, Panic,
         Keep, KeepTick, KeepSent, KeepNotSent, Cancel, tasks
  <2> QED BY <2>1, <2>2
<1>6. queue' \in [Streams -> OneSlot]
  <2>1. CASE Request(s) \/ Begin(s) \/ Replay(s) \/ Live(s) \/ NotSent(s) \/ Panic(s)
             \/ KeepTick(s) \/ KeepNotSent(s) \/ Cancel(s)
    BY <2>1 DEF Request, Begin, Replay, Live, NotSent, Panic, KeepTick, KeepNotSent, Cancel
  <2>2. CASE Take(s) \/ Leave(s)
    <3>1. queue' = [queue EXCEPT ![s] = <<>>] /\ <<>> \in OneSlot
      BY <2>2, TakeMovesForward DEF Leave, OneSlot
    <3> QED BY <3>1
  <2>3. CASE Sent(s) \/ KeepSent(s)
    <3>1. PICK e \in Events : queue' = [queue EXCEPT ![s] = Append(@, e)] /\ queue[s] = <<>>
      BY <2>3, EventTypes DEF Sent, KeepSent, HasRoom, TypeOK
    <3>2. Append(queue[s], e) \in OneSlot
      BY <3>1, SlotKept
    <3> QED BY <3>1, <3>2
  <2> QED BY <2>1, <2>2, <2>3 DEF Produce, Keep
<1>7. hand' \in [Streams -> Events]
  <2>1. CASE Replay(s)
    <3> DEFINE records == NextRecords(Batch, replayed[s])
               last == Cardinality(records) < Batch
    <3>1. hand' = [hand EXCEPT ![s] = History(records, last)]
      BY <2>1 DEF Replay, Sends
    <3>2. last \in BOOLEAN
      OBVIOUS
    <3>3. History(records, last) \in Events
      <4> HIDE DEF last
      <4> QED BY <3>2, EventTypes
    <3> HIDE DEF records, last
    <3> QED BY <3>1, <3>3 DEF TypeOK
  <2>2. CASE Live(s)
    BY <2>2, EventTypes DEF Live, Sends, TypeOK
  <2>3. CASE ~Replay(s) /\ ~Live(s)
    BY <2>3 DEF TypeOK, Request, Take, Leave, Produce, Begin, Sent, NotSent, Panic,
         Keep, KeepTick, KeepSent, KeepNotSent, Cancel, tasks
  <2> QED BY <2>1, <2>2, <2>3
<1>8. replayed' \in [Streams -> 0 .. latest]
  <2>1. CASE Replay(s)
    <3> DEFINE records == NextRecords(Batch, replayed[s])
    <3>1. replayed' = [replayed EXCEPT ![s] = IF records = {} THEN @ ELSE Newest(records)]
      BY <2>1 DEF Replay
    <3>2. records # {} => Newest(records) \in 0 .. latest
      BY ConstantsTyped, NextRecordsOf DEF TypeOK
    <3> QED BY <3>1, <3>2 DEF TypeOK
  <2>2. CASE ~Replay(s)
    BY <2>2 DEF TypeOK, Request, Take, Leave, Produce, Begin, Live, Sent, NotSent, Panic,
         Keep, KeepTick, KeepSent, KeepNotSent, Cancel, tasks
  <2> QED BY <2>1, <2>2
<1>9. prev' \in [Streams -> 0 .. latest]
  <2>1. CASE Live(s)
    <3>1. latest \in 0 .. latest
      BY ConstantsTyped DEF TypeOK
    <3>2. prev' = [prev EXCEPT ![s] = latest] \/ prev' = prev
      BY <2>1 DEF Live
    <3> QED BY <3>1, <3>2 DEF TypeOK
  <2>2. CASE ~Live(s)
    BY <2>2 DEF TypeOK, Request, Take, Leave, Produce, Begin, Replay, Sent, NotSent, Panic,
         Keep, KeepTick, KeepSent, KeepNotSent, Cancel, tasks
  <2> QED BY <2>1, <2>2
<1>10. seen' \in [Streams -> 0 .. latest]
  BY TakeMovesForward DEF TypeOK, Request, Leave, Produce, Begin, Replay, Live, Sent,
         NotSent, Panic, Keep, KeepTick, KeepSent, KeepNotSent, Cancel
<1> QED BY <1>1, <1>2, <1>3, <1>4, <1>5, <1>6, <1>7, <1>8, <1>9, <1>10

LEMMA NextTypes ==
  ASSUME StreamType, CountInv, InOrder, [Next]_vars
  PROVE  StreamType'
<1>1. listener_count' \in Nat
  <2>1. EveryGuardCounts'
    BY NextCounts DEF CountInv, StreamType
  <2>2. EveryGuardCounts' => listener_count' \in Nat
    <3>1. {s \in Streams : Guarded(s)}' \in SUBSET Streams
      OBVIOUS
    <3> QED BY <3>1, ConstantsTyped, FS_Subset, FS_CardinalityType DEF EveryGuardCounts
  <2> QED BY <2>1, <2>2
<1>2. CASE UNCHANGED vars
  BY <1>2 DEF vars, stats, tasks, StreamType, TypeOK
<1>3. CASE Publish
  <2>1. latest' \in 1 .. MaxVersion /\ latest' = latest + 1 /\ latest \in Nat
    BY <1>3, ConstantsTyped DEF Publish, StreamType, TypeOK
  <2>2. 0 .. latest \subseteq 0 .. latest' /\ 1 .. latest \subseteq 1 .. latest'
    BY <2>1
  <2>3. listener' \in [Streams -> {"unarmed", "armed", "notified"}]
    BY <1>3 DEF Publish, StreamType, TypeOK
  <2> QED BY <1>1, <1>3, <2>1, <2>2, <2>3 DEF Publish, StreamType, TypeOK
<1>4. CASE LogPicture
  <2>1. logged' \subseteq 1 .. latest
    BY <1>4, ConstantsTyped DEF LogPicture, StreamType, TypeOK
  <2> QED BY <1>1, <1>4, <2>1 DEF LogPicture, tasks, StreamType, TypeOK
<1>5. ASSUME NEW s \in Streams,
             Request(s) \/ Take(s) \/ Leave(s) \/ Produce(s) \/ Panic(s) \/ Keep(s)
      PROVE  StreamType'
  <2>1. \A t \in Streams :
          Len(queue'[t]) <= 1 /\ \A i \in DOMAIN queue'[t] : queue'[t][i] \in Events
    BY <1>5, StreamTypes, QueueType
  <2> QED BY <1>1, <1>5, <2>1, StreamTypes DEF StreamType, TypeOK
<1> QED BY <1>2, <1>3, <1>4, <1>5 DEF Next

-----------------------------------------------------------------------------
(* Theorems. *)

StreamInv == StreamType /\ CountInv /\ InOrder

LEMMA InitStreams == Init => StreamInv
<1> SUFFICES ASSUME Init PROVE StreamInv
  OBVIOUS
<1>1. KeepAlive \in Events
  BY DEF KeepAlive, Events
<1>2. queue \in [Streams -> OneSlot]
  BY DEF Init, OneSlot
<1>3. TypeOK
  BY <1>1, <1>2, QueueType, ConstantsTyped DEF Init, TypeOK
<1>4. CountInv
  <2>1. {s \in Streams : Guarded(s)} = {}
    BY DEF Init, Guarded
  <2> QED BY <2>1, FS_EmptySet DEF Init, CountInv, EveryGuardCounts, Unasked
<1>5. InOrder
  BY DEF Init, InOrder, InOrderOf, Queued, Sending, Replaying
<1> QED BY <1>2, <1>3, <1>4, <1>5 DEF StreamInv, StreamType

LEMMA StreamInvariant == Spec => []StreamInv
<1>1. StreamInv /\ [Next]_vars => StreamInv'
  BY NextTypes, NextCounts, NextOrder DEF StreamInv, StreamType
<1> QED BY InitStreams, <1>1, PTL DEF Spec

(* No queue ever holds two events, and no cursor, page or producer is ahead *)
(* of what was published.                                                   *)
THEOREM TypeCorrect == Spec => []TypeOK
<1>1. StreamInv => TypeOK
  BY DEF StreamInv, StreamType
<1> QED BY <1>1, StreamInvariant, PTL

(* The count of listeners is that of the producers at work: every way a     *)
(* producer ends gives its guard back, and cancelling one that has ended by *)
(* itself does not give it back again (sse_handler, add_listener).          *)
THEOREM GuardsCounted == Spec => []EveryGuardCounts
<1>1. StreamInv => EveryGuardCounts
  BY DEF StreamInv, CountInv
<1> QED BY <1>1, StreamInvariant, PTL

(* A page's picture never goes back to an older one, while the log is       *)
(* replayed, when the live loop takes over, and after.                      *)
THEOREM PagesMoveForward == Spec => PageMovesForward
<1>1. StreamInv /\ [Next]_vars => [\A s \in Streams : seen[s] <= seen'[s] /\ seen'[s] <= latest]_vars
  <2> SUFFICES ASSUME StreamInv, Next
               PROVE  \A t \in Streams : seen[t] <= seen'[t] /\ seen'[t] <= latest
    OBVIOUS
  <2>1. seen \in [Streams -> 0 .. latest] /\ latest \in Nat
    BY ConstantsTyped DEF StreamInv, StreamType, TypeOK
  <2>2. ASSUME NEW s \in Streams, Take(s)
        PROVE  \A t \in Streams : seen[t] <= seen'[t] /\ seen'[t] <= latest
    BY <2>1, <2>2, TakeMovesForward DEF StreamInv
  <2>3. (\A s \in Streams : ~Take(s)) => seen' = seen
    BY DEF Next, Publish, LogPicture, Request, Leave, Produce, Begin, Replay, Live, Sent,
           NotSent, Panic, Keep, KeepTick, KeepSent, KeepNotSent, Cancel
  <2> QED BY <2>1, <2>2, <2>3
<1> QED BY <1>1, StreamInvariant, PTL DEF Spec, PageMovesForward
=============================================================================
