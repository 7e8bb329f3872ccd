------------------------- MODULE MonitorTimeProofs -------------------------
(***************************************************************************)
(* What Monitor's staleness is worth, for every set of sources and every   *)
(* choice of intervals and bounds: a source that answers in time is never  *)
(* called stale, a section nobody fills is, and what the page shows is     *)
(* behind the sections by no more than the pacing of the pictures.         *)
(*                                                                         *)
(* They are about how far apart two readings of the clock can be, and rest *)
(* on the clock waiting for whatever can run.  A source's next answer is   *)
(* due within one interval and one gather of its last one, or of the       *)
(* arrival that unparked it (InTime); the statuses the page shows were     *)
(* judged at most a heartbeat ago (Judged).  Both fail when a gather keeps *)
(* the thread: where a theorem needs it, ThreadComesBack is an assumption  *)
(* of it, in its statement.                                                *)
(***************************************************************************)
EXTENDS MonitorProofs

(* What the operators over time are for. *)

(* No threshold is below what a source that works may take. *)
LEMMA Thresholds ==
  ASSUME NEW sec \in Sections
  PROVE  /\ Owner[sec] \in Sources
         /\ Interval[Owner[sec]] \in Nat \ {0} /\ GatherLimit[Owner[sec]] \in Nat
         /\ StaleAfter(sec) \in Nat
         /\ Owner[sec] \notin Faulty
              => Interval[Owner[sec]] + GatherLimit[Owner[sec]] <= StaleAfter(sec)
<1>1. /\ Owner[sec] \in Sources /\ MinStaleAfter \in Nat
      /\ Interval[Owner[sec]] \in Nat \ {0} /\ GatherLimit[Owner[sec]] \in Nat
  BY ConstantsTyped
<1>2. /\ StaleAfter(sec) \in Nat /\ StaleAfter(sec) >= MinStaleAfter
      /\ StaleAfter(sec) >= 3 * Interval[Owner[sec]]
  BY <1>1 DEF StaleAfter
<1>3. Owner[sec] \notin Faulty
        => \/ GatherLimit[Owner[sec]] <= 2 * Interval[Owner[sec]]
           \/ Interval[Owner[sec]] + GatherLimit[Owner[sec]] <= MinStaleAfter
  BY <1>1, WorkingSourcesAreQuick
<1> QED BY <1>1, <1>2, <1>3

-----------------------------------------------------------------------------
(* Every viewer's arrival, and every answer, lies in the past; a source that  *)
(* keeps the thread is about to give it back, if ThreadComesBack.             *)

HeldBriefly ==
  ThreadComesBack => \A s \in Blocking : task[s] = "gathering" => due[s] <= now

ClockInv ==
  /\ Watched => listeners_since <= now
  /\ \A sec \in Sections : last_ok[sec] <= now
  /\ HeldBriefly

(* A step that is not the clock's own leaves the clock alone. *)
LEMMA ClockStays ==
  ASSUME Next, ~Tick
  PROVE  now' = now
BY DEF Next, Gathered, AddListener, DropListener, Unpark, Rested, LoopTop, Gathers, GatherOk,
       GatherFailed,
       Rest, Assemble, Start, Publish, HandOver, Pace, Woken, Paced, Round

Arrived == ~Watched /\ listeners_since' = now /\ now' = now

(* Whoever starts to watch does so now, and whoever is alone stops. *)
LEMMA SinceMoves ==
  ASSUME TypeInv, [Next]_vars
  PROVE  listeners_since' \in {listeners_since, NEVER} \/ Arrived
<1> USE DEF TypeInv, TypeOK, ListenersCounted, Watched
<1>1. ASSUME NEW v \in Viewers, AddListener(v)
      PROVE  listeners_since' = listeners_since \/ Arrived
  BY <1>1 DEF AddListener, Arrived
<1>2. ASSUME NEW v \in Viewers, DropListener(v)
      PROVE  listeners_since' \in {listeners_since, NEVER}
  BY <1>2 DEF DropListener, SinceAfterDrop
<1>3. CASE (Tick \/ Assemble \/ UNCHANGED vars
           \/ \E s \in Sources : Unpark(s) \/ Rested(s) \/ Gathers(s) \/ GatherFailed(s))
  BY <1>3 DEF Tick, Assemble, Start, Publish, HandOver, Pace, Woken, Paced, Round, Unpark,
              Rested, LoopTop, Gathers, GatherOk, GatherFailed, Rest, vars, listeners
<1> QED BY <1>1, <1>2, <1>3 DEF Next, Gathered

(* The slots are only touched by an answer, which comes now. *)
LEMMA AnswersMove ==
  ASSUME TypeInv, [Next]_vars, NEW sec \in Sections
  PROVE  last_ok'[sec] = last_ok[sec] \/ (last_ok'[sec] = now /\ now' = now)
<1>1. ASSUME NEW s \in Sources, Gathers(s)
      PROVE  last_ok'[sec] = last_ok[sec] \/ (last_ok'[sec] = now /\ now' = now)
  BY <1>1 DEF TypeInv, TypeOK, Gathers, GatherOk, Rest
<1>2. CASE ~(\E s \in Sources : Gathers(s))
  BY <1>2 DEF Next, Gathered, Tick, AddListener, DropListener, Assemble, Start, Publish, HandOver,
              Pace,
              Woken, Paced, Round, Unpark, Rested, LoopTop, GatherFailed, Rest, vars, slots
<1> QED BY <1>1, <1>2

LEMMA NextClock == TypeInv /\ ClockInv /\ [Next]_vars => ClockInv'
<1> SUFFICES ASSUME TypeInv, ClockInv, [Next]_vars PROVE ClockInv'
  OBVIOUS
<1>1. now \in Nat /\ now' \in Nat /\ now <= now'
  <2>1. CASE Tick
    BY <2>1 DEF Tick, TypeInv, TypeOK
  <2>2. CASE ~Tick
    BY <2>2, ClockStays DEF TypeInv, TypeOK, vars
  <2> QED BY <2>1, <2>2
<1>2. Watched' => listeners_since' <= now'
  BY <1>1, SinceMoves DEF Arrived, ClockInv, TypeInv, TypeOK, Watched, NEVER
<1>3. ASSUME NEW sec \in Sections PROVE last_ok'[sec] <= now'
  BY <1>1, AnswersMove DEF ClockInv, TypeInv, TypeOK, NEVER
<1>4. HeldBriefly'
  <2> SUFFICES ASSUME ThreadComesBack, NEW s \in Blocking, task'[s] = "gathering"
               PROVE  due'[s] <= now'
    BY DEF HeldBriefly
  <2>1. s \in Sources /\ s \notin Hanging /\ GatherLimit[s] = 0 /\ due[s] \in Nat
    BY ConstantsTyped DEF ThreadComesBack, TypeInv, TypeOK
  <2>2. task[s] = "gathering" => due[s] <= now
    BY DEF ClockInv, HeldBriefly
  <2>3. CASE due'[s] = due[s] /\ task'[s] = task[s]
    BY <1>1, <2>1, <2>2, <2>3
  <2>4. ASSUME NEW r \in Sources, LoopTop(r)
        PROVE  due'[s] <= now' \/ (due'[s] = due[s] /\ task'[s] = task[s])
    BY <1>1, <2>1, <2>4 DEF LoopTop, TypeInv, TypeOK
  <2>5. ASSUME NEW r \in Sources, Rest(r)
        PROVE  due'[s] = due[s] /\ task'[s] = task[s]
    BY <2>1, <2>5 DEF Rest, TypeInv, TypeOK
  <2>6. CASE ~(\E r \in Sources : LoopTop(r) \/ Rest(r))
    BY <2>3, <2>6 DEF Next, Gathered, Tick, AddListener, DropListener, Assemble, Start, Publish,
                      HandOver, Pace, Woken, Paced, Round, Unpark, Rested, Gathers, GatherOk,
                      GatherFailed, vars, tasks
  <2> QED BY <2>3, <2>4, <2>5, <2>6
<1> QED BY <1>2, <1>3, <1>4 DEF ClockInv

(* If the thread comes back, the clock finds it free. *)
LEMMA TickFindsItFree ==
  ASSUME TypeInv, ClockInv, ThreadComesBack, ~Runnable
  PROVE  ~Held
<1> SUFFICES ASSUME NEW s \in Blocking, task[s] = "gathering" PROVE FALSE
  BY DEF Held
<1>1. s \in Sources \ Hanging /\ due[s] <= now /\ due[s] \in Nat /\ now \in Nat
  BY ConstantsTyped DEF ClockInv, HeldBriefly, ThreadComesBack, TypeInv, TypeOK
<1> QED BY <1>1 DEF Runnable, HasThread

-----------------------------------------------------------------------------
(* Sources that answer in time. *)

Works(sec) == Owner[sec] \notin Faulty

(* A source is only parked for as long as nobody watches: who finds it      *)
(* parked has just arrived.                                                 *)
ParkedUnwatched == Watched => \A s \in Sources : task[s] = "parked" => listeners_since = now

(* A source that works is due to gather within an interval of its last      *)
(* answer, and due to answer a gather later, or a gather after the arrival. *)
InTime(sec) ==
  LET s == Owner[sec] IN
  /\ task[s] = "resting" => now <= due[s] /\ due[s] <= last_ok[sec] + Interval[s]
  /\ task[s] = "gathering" =>
       /\ now <= due[s] /\ due[s] <= now + GatherLimit[s]
       /\ \/ due[s] <= last_ok[sec] + Interval[s] + GatherLimit[s]
          \/ Watched => due[s] <= listeners_since + GatherLimit[s]

TimeInv == ParkedUnwatched /\ \A sec \in Sections : Works(sec) => InTime(sec)

(* As long as that holds, a source that works is not out of date long enough. *)
LEMMA InTimeIsFresh ==
  ASSUME TypeInv, ClockInv, TimeInv, NEW sec \in Sections, Works(sec)
  PROVE  ~Status(sec).stale
<1> DEFINE s == Owner[sec]
<1>1. /\ s \in Sources /\ Interval[s] \in Nat \ {0} /\ GatherLimit[s] \in Nat
      /\ StaleAfter(sec) \in Nat /\ Interval[s] + GatherLimit[s] <= StaleAfter(sec)
  BY Thresholds DEF Works
<1>2. /\ now \in Nat /\ listeners_since \in Nat \cup {NEVER} /\ last_ok[sec] \in Nat \cup {NEVER}
      /\ due[s] \in Nat /\ task[s] \in {"resting", "parked", "gathering"}
  BY <1>1 DEF TypeInv, TypeOK
<1>3. InTime(sec) /\ last_ok[sec] <= now /\ (Watched => listeners_since <= now)
  BY DEF TimeInv, ClockInv
<1>4. SUFFICES ASSUME Watched, now - listeners_since > StaleAfter(sec), OutOfDate(sec)
               PROVE  FALSE
  <2>1. Status(sec).stale <=> WatchingFor > StaleAfter(sec) /\ OutOfDate(sec)
    BY DEF Status
  <2>2. WatchingFor > StaleAfter(sec) => Watched /\ now - listeners_since > StaleAfter(sec)
    BY <1>1 DEF WatchingFor
  <2> QED BY <2>1, <2>2
<1>5. listeners_since \in Nat
  BY <1>2, <1>4 DEF Watched
<1>6. now > last_ok[sec] + StaleAfter(sec)
  BY <1>1, <1>2, <1>4, <1>5 DEF OutOfDate, NEVER
<1>7. CASE task[s] = "parked"
  BY <1>1, <1>2, <1>4, <1>5, <1>7 DEF TimeInv, ParkedUnwatched
<1>8. CASE task[s] = "resting"
  BY <1>1, <1>2, <1>3, <1>6, <1>8 DEF InTime, NEVER
<1>9. CASE task[s] = "gathering"
  <2>1. now <= due[s] /\ (\/ due[s] <= last_ok[sec] + Interval[s] + GatherLimit[s]
                          \/ due[s] <= listeners_since + GatherLimit[s])
    BY <1>3, <1>4, <1>9 DEF InTime
  <2> QED BY <1>1, <1>2, <1>4, <1>5, <1>6, <2>1 DEF NEVER
<1> QED BY <1>2, <1>7, <1>8, <1>9

LEMMA InitTime == Init => TimeInv
<1> SUFFICES ASSUME Init PROVE TimeInv
  OBVIOUS
<1>1. ASSUME NEW sec \in Sections PROVE InTime(sec)
  BY Thresholds DEF Init, InTime, NEVER
<1> QED BY <1>1 DEF TimeInv, Init, ParkedUnwatched, Watched

(* The clock does not move on while a source that works, or one that was    *)
(* woken, can run.                                                          *)
LEMMA TickTime ==
  ASSUME ThreadComesBack, TypeInv, ClockInv, NoSourceSleepsIn, TimeInv, Tick
  PROVE  TimeInv'
<1> USE DEF TypeInv
<1>1. /\ now' = now + 1 /\ now \in Nat /\ ~Runnable
      /\ UNCHANGED <<listeners_since, task, due, woken, last_ok>>
  BY DEF Tick, TypeOK, listeners, tasks, slots
<1>0. ~Held
  BY <1>1, TickFindsItFree
<1>2. ~(Watched /\ \E s \in Sources : task[s] = "parked")
  <2>1. Watched => listener_count > 0
    BY DEF TypeOK, ListenersCounted, Watched
  <2> QED BY <1>0, <1>1, <2>1 DEF NoSourceSleepsIn, Runnable
<1>3. ASSUME NEW sec \in Sections, Works(sec), InTime(sec)
      PROVE  InTime(sec)'
  <2>1. Owner[sec] \in Sources /\ due[Owner[sec]] \in Nat /\ GatherLimit[Owner[sec]] \in Nat
    BY Thresholds DEF TypeOK
  <2>2. task[Owner[sec]] \in {"resting", "gathering"} => ~(now >= due[Owner[sec]])
    BY <1>0, <1>1, <1>3, <2>1, ConstantsTyped DEF Runnable, HasThread, Works
  <2> QED BY <1>1, <1>3, <2>1, <2>2 DEF InTime, Watched
<1> QED BY <1>1, <1>2, <1>3 DEF TimeInv, ParkedUnwatched, Watched, Works

LEMMA LoopTopTime ==
  ASSUME TypeInv, ClockInv, TimeInv, NEW s \in Sources, LoopTop(s),
         \/ task[s] = "resting" /\ now >= due[s]
         \/ task[s] = "parked"
  PROVE  TimeInv'
<1> USE DEF TypeInv
<1>1. /\ UNCHANGED <<now, listeners_since, listener_count, last_ok>> /\ now \in Nat
      /\ task \in [Sources -> {"resting", "parked", "gathering"}] /\ due \in [Sources -> Nat]
  BY DEF LoopTop, listeners, slots, TypeOK
<1>2. CASE listener_count = 0
  <2>1. ~Watched /\ ~Watched'
    BY <1>1, <1>2 DEF ListenersCounted, Watched
  <2>2. /\ task' = [task EXCEPT ![s] = "parked"]
        /\ due' = [due EXCEPT ![s] = 0]
    BY <1>2 DEF LoopTop
  <2>3. ASSUME NEW sec \in Sections, InTime(sec)
        PROVE  InTime(sec)'
    BY <1>1, <2>1, <2>2, <2>3, Thresholds DEF InTime
  <2> QED BY <2>1, <2>3 DEF TimeInv, ParkedUnwatched, Works
<1>3. CASE listener_count # 0
  <2>1. Watched /\ Watched' /\ listeners_since \in Nat
    BY <1>1, <1>3 DEF ListenersCounted, Watched, TypeOK
  <2>2. /\ task' = [task EXCEPT ![s] = "gathering"]
        /\ due' = [due EXCEPT ![s] = IF s \in Hanging THEN 0 ELSE now + GatherLimit[s]]
    BY <1>3 DEF LoopTop
  <2>3. ASSUME NEW sec \in Sections, Works(sec), InTime(sec)
        PROVE  InTime(sec)'
    <3>1. Owner[sec] \in Sources /\ Interval[Owner[sec]] \in Nat /\ GatherLimit[Owner[sec]] \in Nat
          /\ last_ok[sec] \in Int
      BY Thresholds DEF TypeOK, NEVER
    <3>2. CASE Owner[sec] # s
      BY <1>1, <2>1, <2>2, <2>3, <3>1, <3>2 DEF InTime
    <3>3. CASE Owner[sec] = s
      <4>1. task'[s] = "gathering" /\ due'[s] = now + GatherLimit[s]
        BY <1>1, <2>2, <2>3, <3>3, ConstantsTyped DEF Works
      <4>2. CASE task[s] = "parked"
        <5>1. listeners_since = now
          BY <2>1, <4>2 DEF TimeInv, ParkedUnwatched
        <5> QED BY <1>1, <3>1, <3>3, <4>1, <5>1 DEF InTime
      <4>3. CASE task[s] = "resting" /\ now >= due[s]
        <5>1. now <= last_ok[sec] + Interval[s]
          BY <1>1, <2>3, <3>1, <3>3, <4>3 DEF InTime
        <5> QED BY <1>1, <3>1, <3>3, <4>1, <5>1 DEF InTime
      <4> QED BY <4>2, <4>3
    <3> QED BY <3>2, <3>3
  <2>4. ParkedUnwatched'
    BY <1>1, <2>1, <2>2 DEF TimeInv, ParkedUnwatched
  <2> QED BY <2>3, <2>4 DEF TimeInv, Works
<1> QED BY <1>2, <1>3

(* A source that works never rests without having answered. *)
LEMMA RestTime ==
  ASSUME TypeInv, TimeInv, NEW s \in Sources, Rest(s),
         \A sec \in Sections : Owner[sec] = s /\ Works(sec) => last_ok'[sec] = now,
         \A sec \in Sections : Owner[sec] # s => last_ok'[sec] = last_ok[sec]
  PROVE  TimeInv'
<1> USE DEF TypeInv
<1>1. /\ UNCHANGED <<now, listeners_since>> /\ now \in Nat
      /\ task' = [task EXCEPT ![s] = "resting"]
      /\ due' = [due EXCEPT ![s] = now + Interval[s]]
      /\ task \in [Sources -> {"resting", "parked", "gathering"}] /\ due \in [Sources -> Nat]
  BY DEF Rest, listeners, TypeOK
<1>2. ASSUME NEW sec \in Sections, Works(sec), InTime(sec)
      PROVE  InTime(sec)'
  <2>1. CASE Owner[sec] = s
    <3>1. /\ task'[s] = "resting" /\ due'[s] = now + Interval[s] /\ last_ok'[sec] = now
          /\ Interval[s] \in Nat
      BY <1>1, <1>2, <2>1, Thresholds
    <3> QED BY <1>1, <2>1, <3>1 DEF InTime
  <2>2. CASE Owner[sec] # s
    BY <1>1, <1>2, <2>2, Thresholds DEF InTime, Watched
  <2> QED BY <2>1, <2>2
<1> QED BY <1>1, <1>2 DEF TimeInv, ParkedUnwatched, Watched, Works

(* Viewers come and go: whoever comes when nobody watched comes now. *)
LEMMA ViewersTime ==
  ASSUME TypeInv, ClockInv, TimeInv, [Next]_vars,
         NEW v \in Viewers, AddListener(v) \/ DropListener(v)
  PROVE  TimeInv'
<1> USE DEF TypeInv
<1>1. /\ UNCHANGED <<now, task, due, last_ok>> /\ now \in Nat
      /\ listeners_since \in Nat \cup {NEVER}
  BY DEF AddListener, DropListener, tasks, slots, TypeOK
<1>2. listeners_since' \in {listeners_since, NEVER} \/ Arrived
  BY SinceMoves
<1>3. Watched' => \/ Watched /\ listeners_since' = listeners_since
                  \/ listeners_since' = now
  BY <1>2 DEF Arrived, Watched
<1>4. ASSUME NEW sec \in Sections, InTime(sec)
      PROVE  InTime(sec)'
  <2>1. /\ due[Owner[sec]] \in Nat /\ GatherLimit[Owner[sec]] \in Nat
        /\ Interval[Owner[sec]] \in Nat /\ last_ok[sec] \in Int
    BY Thresholds DEF TypeOK, NEVER
  <2> QED BY <1>1, <1>3, <1>4, <2>1 DEF InTime
<1> QED BY <1>1, <1>3, <1>4 DEF TimeInv, ParkedUnwatched, Works

LEMMA NextTime ==
  ASSUME ThreadComesBack
  PROVE  TypeInv /\ ClockInv /\ NoSourceSleepsIn /\ TimeInv /\ [Next]_vars => TimeInv'
<1> SUFFICES ASSUME TypeInv, ClockInv, NoSourceSleepsIn, TimeInv, [Next]_vars PROVE TimeInv'
  OBVIOUS
<1>1. CASE Tick
  BY <1>1, TickTime
<1>2. ASSUME NEW v \in Viewers, AddListener(v) \/ DropListener(v)
      PROVE  TimeInv'
  BY <1>2, ViewersTime
<1>3. ASSUME NEW s \in Sources, Unpark(s) \/ Rested(s)
      PROVE  TimeInv'
  BY <1>3, LoopTopTime DEF Unpark, Rested
<1>4. ASSUME NEW s \in Sources, Gathers(s)
      PROVE  TimeInv'
  <2>1. Rest(s) /\ last_ok' = [sec \in Sections |-> IF sec \in Fills(s) THEN now ELSE last_ok[sec]]
    BY <1>4 DEF Gathers, GatherOk
  <2> QED BY <2>1, RestTime DEF Fills
<1>5. ASSUME NEW s \in Sources, GatherFailed(s)
      PROVE  TimeInv'
  BY <1>5, RestTime DEF GatherFailed, slots, Works
<1>6. CASE Assemble \/ UNCHANGED vars
  <2>1. UNCHANGED <<now, listeners_since, task, due, last_ok>>
    BY <1>6 DEF Assemble, Start, Publish, HandOver, Pace, Woken, Paced, Round, vars, listeners,
                tasks, slots
  <2> QED BY <2>1 DEF TimeInv, ParkedUnwatched, InTime, Watched, Works
<1> QED BY <1>1, <1>2, <1>3, <1>4, <1>5, <1>6 DEF Next, Gathered

(* Neither what was last judged nor what the page shows calls a source that *)
(* works stale.                                                             *)
NobodyBlamed == NoFalseAlarm /\ \A sec \in Sections : Works(sec) => ~statuses[sec].stale

LEMMA NextBlamed ==
  TypeInv /\ ClockInv /\ TimeInv /\ NobodyBlamed /\ [Next]_vars => NobodyBlamed'
<1> SUFFICES ASSUME TypeInv, ClockInv, TimeInv, NobodyBlamed, [Next]_vars PROVE NobodyBlamed'
  OBVIOUS
<1> USE DEF NobodyBlamed, NoFalseAlarm, Works
<1>1. CASE Start \/ Woken \/ Paced
  <2>1. statuses' \in {statuses, NextStatuses} /\ stats' = stats
    BY <1>1 DEF Start, Woken, Paced, Round
  <2>2. \A sec \in Sections : Works(sec) => ~NextStatuses[sec].stale
    BY InTimeIsFresh DEF NextStatuses
  <2> QED BY <2>1, <2>2
<1>2. CASE Publish
  BY <1>2 DEF Publish, HandOver
<1>3. CASE ~Assemble \/ Pace \/ UNCHANGED vars
  <2>1. UNCHANGED <<statuses, stats>>
    BY <1>3 DEF Next, Gathered, Tick, AddListener, DropListener, Unpark, Rested, LoopTop, Gathers,
                GatherOk,
                GatherFailed, Rest, Pace, vars, assembler
  <2> QED BY <2>1
<1> QED BY <1>1, <1>2, <1>3 DEF Assemble

(* Wakeups and the clock, together with what they rest on. *)
LEMMA ClockInvariant == Spec => [](TypeInv /\ ClockInv /\ NoSourceSleepsIn)
<1>1. Init => ClockInv
  BY ConstantsTyped DEF Init, ClockInv, HeldBriefly, Watched, NEVER
<1> QED BY <1>1, NextClock, TypeInvariant, SourcesAwake, PTL DEF Spec

(* A source that answers in time is never called stale on the page, however *)
(* viewers come and go and its task parks and resumes (Slot::status and the *)
(* listeners_since of add_listener and its drop), if the thread comes back. *)
THEOREM NobodyFalselyAccused ==
  ASSUME ThreadComesBack
  PROVE  Spec => []NoFalseAlarm
<1>1. Init => NobodyBlamed
  BY DEF Init, NobodyBlamed, NoFalseAlarm
<1>2. NobodyBlamed => NoFalseAlarm
  BY DEF NobodyBlamed
<1> QED BY <1>1, <1>2, InitTime, NextTime, NextBlamed, ClockInvariant, PTL DEF Spec

(* A source that hangs, and gives the thread back, leaves only its own      *)
(* section standing still: no source that works is out of date once it has  *)
(* been watched for its threshold (the tasks of monitor).                   *)
THEOREM OthersKeepUp ==
  ASSUME ThreadComesBack
  PROVE  Spec => []HangStaysInItsSection
<1>1. TypeInv /\ ClockInv /\ TimeInv => HangStaysInItsSection
  <2> SUFFICES ASSUME TypeInv, ClockInv, TimeInv, NEW sec \in Sections, Owner[sec] \notin Faulty,
                      WatchingFor > StaleAfter(sec)
               PROVE  ~OutOfDate(sec)
    BY DEF HangStaysInItsSection
  <2>1. ~Status(sec).stale
    BY InTimeIsFresh DEF Works
  <2> QED BY <2>1 DEF Status
<1> QED BY <1>1, InitTime, NextTime, ClockInvariant, PTL DEF Spec

-----------------------------------------------------------------------------
(* Sections that nobody fills. *)

(* The last time a section was known to be all right, or looked at. *)
Since(sec) == IF last_ok[sec] > listeners_since THEN last_ok[sec] ELSE listeners_since

(* At the instant, a section unanswered for its threshold is flagged. *)
FlaggedAt(instant, flags) ==
  \A sec \in Sections :
    Watched /\ instant - Since(sec) > StaleAfter(sec) => flags[sec].stale

(* The assembler has judged all sections since a heartbeat before its timer  *)
(* ends, and in this very tick if it has yet to publish what it found.  The  *)
(* clock waits for its timer.                                                *)
Judged ==
  /\ asm = "starting" => now = 0 /\ stats.sources = statuses
  /\ asm = "publishing" => FlaggedAt(now, statuses)
  /\ asm \in {"waiting", "pacing"} =>
       /\ now <= wake_at /\ wake_at <= now + Heartbeat
       /\ stats.sources = statuses
       /\ FlaggedAt(wake_at - Heartbeat, statuses)
  /\ asm = "waiting" => last_publish + Heartbeat <= wake_at
  /\ last_publish <= now

(* What a round finds is what holds at its instant. *)
LEMMA RoundFlags ==
  ASSUME TypeInv
  PROVE  FlaggedAt(now, NextStatuses)
<1> SUFFICES ASSUME NEW sec \in Sections, Watched, now - Since(sec) > StaleAfter(sec)
             PROVE  NextStatuses[sec].stale
  BY DEF FlaggedAt
<1>1. /\ now \in Nat /\ listeners_since \in Nat /\ last_ok[sec] \in Nat \cup {NEVER}
      /\ StaleAfter(sec) \in Nat
  BY Thresholds DEF TypeInv, TypeOK, Watched
<1>2. WatchingFor > StaleAfter(sec) /\ OutOfDate(sec)
  BY <1>1 DEF WatchingFor, OutOfDate, Since, NEVER
<1> QED BY <1>2 DEF NextStatuses, Status

(* Answers and arrivals only make sections look better than they were judged. *)
LEMMA SinceGrows ==
  ASSUME TypeInv, ClockInv, [Next]_vars, NEW sec \in Sections, NEW instant \in Int, instant <= now,
         Watched', instant - Since(sec)' > StaleAfter(sec)
  PROVE  Watched /\ instant - Since(sec) > StaleAfter(sec)
<1>1. /\ now \in Nat /\ listeners_since \in Nat \cup {NEVER} /\ last_ok[sec] \in Nat \cup {NEVER}
      /\ StaleAfter(sec) \in Nat
  BY Thresholds DEF TypeInv, TypeOK
<1>2. last_ok'[sec] \in {last_ok[sec], now} /\ last_ok[sec] <= now
  BY AnswersMove DEF ClockInv
<1>3. \/ Watched /\ listeners_since' = listeners_since
      \/ listeners_since' = now
  BY SinceMoves DEF Arrived, Watched
<1>4. Since(sec)' < instant
  <2>1. Since(sec)' \in Int
    BY <1>1, <1>2, <1>3 DEF Since, NEVER
  <2> QED BY <1>1, <2>1
<1>5. listeners_since' # now /\ last_ok'[sec] = last_ok[sec]
  BY <1>1, <1>2, <1>3, <1>4 DEF Since, NEVER
<1> QED BY <1>3, <1>5 DEF Since

(* What was judged at an instant stays judged, for as long as it stays. *)
LEMMA FlagsOutlast ==
  ASSUME TypeInv, ClockInv, [Next]_vars, NEW instant \in Int, instant <= now,
         FlaggedAt(instant, statuses), statuses' = statuses
  PROVE  \A sec \in Sections :
           Watched' /\ instant - Since(sec)' > StaleAfter(sec) => statuses'[sec].stale
BY SinceGrows DEF FlaggedAt

(* A page that is up to date with what was judged flags what hangs. *)
LEMMA JudgedIsFlagged ==
  ASSUME TypeInv, Judged, asm # "publishing"
  PROVE  HungIsFlagged
<1> SUFFICES ASSUME NEW sec \in Sections, Watched, Unanswered(sec) > StaleAfter(sec) + Heartbeat
             PROVE  stats.sources[sec].stale
  BY DEF HungIsFlagged
<1>1. /\ now \in Nat /\ listeners_since \in Nat /\ last_ok[sec] \in Nat \cup {NEVER}
      /\ StaleAfter(sec) \in Nat /\ Heartbeat \in Nat /\ wake_at \in Nat
      /\ asm \in {"starting", "waiting", "pacing"}
  BY Thresholds, ConstantsTyped DEF TypeInv, TypeOK, Watched
<1>2. now - Since(sec) > StaleAfter(sec) + Heartbeat /\ Since(sec) \in Nat
  BY <1>1 DEF Unanswered, Since, NEVER
<1>3. asm # "starting"
  BY <1>1, <1>2 DEF Judged
<1>4. wake_at - Heartbeat - Since(sec) > StaleAfter(sec)
  BY <1>1, <1>2, <1>3 DEF Judged
<1> QED BY <1>1, <1>3, <1>4 DEF Judged, FlaggedAt

(* No step but the clock's, or a new picture, brings a section closer to   *)
(* having to be flagged.                                                    *)
LEMMA HungStays ==
  ASSUME TypeInv, ClockInv, HungIsFlagged, [Next]_vars, now' = now, stats' = stats
  PROVE  HungIsFlagged'
<1> SUFFICES ASSUME NEW sec \in Sections, Watched', Unanswered(sec)' > StaleAfter(sec) + Heartbeat
             PROVE  stats.sources[sec].stale
  BY DEF HungIsFlagged, StaleAfter
<1>1. /\ now \in Nat /\ listeners_since \in Nat \cup {NEVER} /\ last_ok[sec] \in Nat \cup {NEVER}
      /\ StaleAfter(sec) \in Nat /\ Heartbeat \in Nat
  BY Thresholds, ConstantsTyped DEF TypeInv, TypeOK
<1>2. now - Heartbeat - Since(sec)' > StaleAfter(sec)
  <2>1. TypeInv'
    BY NextType
  <2>2. Since(sec)' \in Int
    BY <2>1 DEF TypeInv, TypeOK, Since, NEVER
  <2>3. Unanswered(sec)' = now - Since(sec)'
    BY DEF Unanswered, Since
  <2> QED BY <1>1, <2>2, <2>3
<1>3. Watched /\ now - Heartbeat - Since(sec) > StaleAfter(sec)
  BY <1>1, <1>2, SinceGrows
<1>4. Unanswered(sec) > StaleAfter(sec) + Heartbeat
  BY <1>1, <1>3 DEF Unanswered, Since, NEVER
<1> QED BY <1>3, <1>4 DEF HungIsFlagged

(* A round judges all sections, and either has something to publish or finds *)
(* the page as it should be.                                                 *)
LEMMA RoundJudges ==
  ASSUME TypeInv, Judged, Round, asm \in {"starting", "waiting", "pacing"}
  PROVE  Judged'
<1>1. /\ UNCHANGED <<now, listeners_since, last_ok, last_publish, stats>>
      /\ now \in Nat /\ Heartbeat \in Nat /\ last_publish \in Nat \cup {NEVER}
      /\ stats.sources = statuses /\ last_publish <= now
  BY ConstantsTyped DEF Round, listeners, slots, TypeInv, TypeOK, Judged
<1>2. FlaggedAt(now, NextStatuses)
  BY RoundFlags
<1>3. CASE published # ver \/ NextStatuses # statuses
  <2>1. asm' = "publishing" /\ statuses' = NextStatuses
    BY <1>3 DEF Round
  <2> QED BY <1>1, <1>2, <2>1 DEF Judged, FlaggedAt, Watched, Since
<1>4. CASE ~(published # ver \/ NextStatuses # statuses)
  <2>1. asm' = "waiting" /\ statuses' = statuses /\ NextStatuses = statuses
        /\ wake_at' = now + Heartbeat
    BY <1>4 DEF Round
  <2>2. wake_at' - Heartbeat = now /\ now <= wake_at' /\ last_publish + Heartbeat <= wake_at'
    BY <1>1, <2>1 DEF NEVER
  <2>3. FlaggedAt(wake_at - Heartbeat, statuses)'
    BY <1>1, <1>2, <2>1, <2>2 DEF FlaggedAt, Watched, Since
  <2> QED BY <1>1, <2>1, <2>2, <2>3 DEF Judged
<1> QED BY <1>3, <1>4

(* The clock moves only while the assembler sleeps, up to the end of that. *)
LEMMA TickJudged ==
  ASSUME ThreadComesBack, TypeInv, ClockInv, Judged, Tick
  PROVE  Judged'
<1>1. /\ UNCHANGED <<asm, wake_at, stats, statuses, last_publish>>
      /\ now' = now + 1 /\ now \in Nat /\ wake_at \in Nat /\ Heartbeat \in Nat
      /\ asm \in {"waiting", "pacing"} /\ ~(now >= wake_at)
      /\ last_publish \in Nat \cup {NEVER}
  BY TickFindsItFree, ConstantsTyped DEF Tick, assembler, Runnable, WakeUp, TypeInv, TypeOK
<1>2. /\ now <= wake_at /\ wake_at <= now + Heartbeat /\ stats.sources = statuses
      /\ FlaggedAt(wake_at - Heartbeat, statuses)
      /\ asm = "waiting" => last_publish + Heartbeat <= wake_at
      /\ last_publish <= now
  BY <1>1 DEF Judged
<1>3. FlaggedAt(wake_at - Heartbeat, statuses)'
  <2>1. wake_at - Heartbeat \in Int /\ wake_at - Heartbeat <= now
    BY <1>1, <1>2
  <2> QED BY <1>1, <1>2, <2>1, FlagsOutlast DEF Next, Gathered, FlaggedAt
<1> QED BY <1>1, <1>2, <1>3 DEF Judged, NEVER

(* While the assembler is at rest or at the lock, nothing it judged is lost. *)
LEMMA OthersJudged ==
  ASSUME TypeInv, ClockInv, Judged, [Next]_vars,
         UNCHANGED <<now, asm, wake_at, stats, statuses, last_publish>>
  PROVE  Judged'
<1>1. /\ now \in Nat /\ wake_at \in Nat /\ Heartbeat \in Nat
  BY ConstantsTyped DEF TypeInv, TypeOK
<1>2. asm = "publishing" => FlaggedAt(now, statuses)'
  <2> SUFFICES ASSUME asm = "publishing" PROVE FlaggedAt(now, statuses)'
    OBVIOUS
  <2>1. FlaggedAt(now, statuses)
    BY DEF Judged
  <2> QED BY <1>1, <2>1, FlagsOutlast DEF FlaggedAt
<1>3. asm \in {"waiting", "pacing"} => FlaggedAt(wake_at - Heartbeat, statuses)'
  <2> SUFFICES ASSUME asm \in {"waiting", "pacing"}
               PROVE  FlaggedAt(wake_at - Heartbeat, statuses)'
    OBVIOUS
  <2>1. /\ FlaggedAt(wake_at - Heartbeat, statuses)
        /\ wake_at - Heartbeat \in Int /\ wake_at - Heartbeat <= now
    BY <1>1 DEF Judged
  <2> QED BY <2>1, FlagsOutlast DEF FlaggedAt
<1> QED BY <1>2, <1>3 DEF Judged

LEMMA NextJudged ==
  ASSUME ThreadComesBack
  PROVE  TypeInv /\ ClockInv /\ Judged /\ [Next]_vars => Judged'
<1> SUFFICES ASSUME TypeInv, ClockInv, Judged, [Next]_vars PROVE Judged'
  OBVIOUS
<1>1. CASE Tick
  BY <1>1, TickJudged
<1>2. CASE Start \/ Woken \/ Paced
  BY <1>2, RoundJudges DEF Start, Woken, Paced, WakeUp
<1>3. CASE Publish
  <2>1. /\ UNCHANGED <<now, listeners_since, last_ok, statuses>>
        /\ asm = "publishing" /\ asm' = "waiting" /\ wake_at' = now + Heartbeat
        /\ stats'.sources = statuses /\ last_publish' = now
        /\ now \in Nat /\ Heartbeat \in Nat
    BY <1>3, ConstantsTyped DEF Publish, HandOver, listeners, slots, TypeInv, TypeOK
  <2>2. wake_at' - Heartbeat = now /\ now <= wake_at'
    BY <2>1
  <2>3. FlaggedAt(now, statuses)
    BY <2>1 DEF Judged
  <2>4. FlaggedAt(wake_at - Heartbeat, statuses)'
    BY <2>1, <2>2, <2>3 DEF FlaggedAt, Watched, Since
  <2> QED BY <2>1, <2>2, <2>4 DEF Judged
<1>4. CASE Pace
  <2>1. /\ UNCHANGED <<now, listeners_since, last_ok, statuses, stats, last_publish>>
        /\ asm = "waiting" /\ asm' = "pacing" /\ wake_at' = last_publish + MinPublishInterval
        /\ last_publish \in Nat /\ now - last_publish < MinPublishInterval
        /\ now \in Nat /\ wake_at \in Nat /\ Heartbeat \in Nat /\ MinPublishInterval \in Nat
    BY <1>4, ConstantsTyped DEF Pace, WakeUp, TooSoon, listeners, slots, TypeInv, TypeOK
  <2>2. /\ FlaggedAt(wake_at - Heartbeat, statuses) /\ stats.sources = statuses
        /\ last_publish + Heartbeat <= wake_at /\ last_publish <= now
    BY <2>1 DEF Judged
  <2>3. now <= wake_at' /\ wake_at' <= now + Heartbeat
        /\ wake_at' - Heartbeat <= wake_at - Heartbeat
    BY <2>1, <2>2, PacingBelowHeartbeat
  <2>4. \A sec \in Sections : StaleAfter(sec) \in Nat /\ Since(sec) \in Int
    BY Thresholds DEF Since, TypeInv, TypeOK, NEVER
  <2>5. ASSUME NEW sec \in Sections, Watched, wake_at' - Heartbeat - Since(sec) > StaleAfter(sec)
        PROVE  statuses[sec].stale
    <3>1. wake_at - Heartbeat - Since(sec) > StaleAfter(sec)
      BY <2>1, <2>3, <2>4, <2>5
    <3> QED BY <2>2, <2>5, <3>1 DEF FlaggedAt
  <2>6. FlaggedAt(wake_at - Heartbeat, statuses)'
    BY <2>1, <2>5 DEF FlaggedAt, Watched, Since
  <2> QED BY <2>1, <2>2, <2>3, <2>6 DEF Judged
<1>5. CASE (~Tick /\ ~Assemble) \/ UNCHANGED vars
  <2>1. UNCHANGED <<now, asm, wake_at, stats, statuses, last_publish>>
    BY <1>5 DEF Next, Gathered, AddListener, DropListener, Unpark, Rested, LoopTop, Gathers,
                GatherOk,
                GatherFailed, Rest, vars, assembler
  <2> QED BY <2>1, OthersJudged
<1> QED BY <1>1, <1>2, <1>3, <1>4, <1>5 DEF Next, Gathered, Assemble

LEMMA NextFlagged ==
  ASSUME ThreadComesBack
  PROVE  /\ TypeInv /\ ClockInv /\ Judged /\ HungIsFlagged /\ [Next]_vars
         /\ TypeInv' /\ Judged'
         => HungIsFlagged'
<1> SUFFICES ASSUME TypeInv, ClockInv, Judged, HungIsFlagged, [Next]_vars, TypeInv', Judged'
             PROVE  HungIsFlagged'
  OBVIOUS
<1>1. CASE asm' # "publishing"
  <2>1. (TypeInv /\ Judged /\ asm # "publishing" => HungIsFlagged)'
    BY JudgedIsFlagged, PTL
  <2> QED BY <1>1, <2>1
<1>2. CASE asm' = "publishing"
  <2>1. ~Tick
    BY <1>2, TickFindsItFree DEF Tick, Runnable, assembler
  <2>2. UNCHANGED <<now, stats>>
    BY <1>2, <2>1 DEF Next, Gathered, AddListener, DropListener, Unpark, Rested, LoopTop, Gathers,
                      GatherOk, GatherFailed, Rest, Assemble, Start, Publish, HandOver, Pace,
                      Woken, Paced, Round, vars, assembler
  <2> QED BY <2>2, HungStays
<1> QED BY <1>1, <1>2

(* A section that nobody has filled for its threshold and one heartbeat,    *)
(* watched all along, is stale on the page: no source, interval or floor    *)
(* between two pictures can keep a hang from showing (assemble and          *)
(* Slot::status).                                                           *)
THEOREM HangsShow ==
  ASSUME ThreadComesBack
  PROVE  Spec => []HungIsFlagged
<1>1. Init => Judged
  BY DEF Init, Judged, FlaggedAt, Watched, NEVER
<1>2. Init => HungIsFlagged
  BY DEF Init, HungIsFlagged, Watched
<1> QED BY <1>1, <1>2, NextJudged, NextFlagged, ClockInvariant, PTL DEF Spec

-----------------------------------------------------------------------------
(* What is said of sections that were stale. *)

(* The statuses were judged at round_at: whoever has been watching since     *)
(* before had been for longer than the threshold of each section called      *)
(* stale, and no answer was younger than that.                               *)
Judgement ==
  /\ round_at <= now
  /\ \A sec \in Sections :
       /\ statuses[sec].updated_at <= last_ok[sec]
       /\ statuses[sec].stale =>
            /\ Watched /\ listeners_since < round_at
                 => round_at - listeners_since > StaleAfter(sec)
            /\ \/ statuses[sec].updated_at = NEVER
               \/ round_at - statuses[sec].updated_at > StaleAfter(sec)

(* What a round that judges writes down is what holds at its instant. *)
LEMMA RoundJudgement ==
  ASSUME TypeInv, UNCHANGED <<now, listeners_since, last_ok>>,
         statuses' = NextStatuses, round_at' = now
  PROVE  Judgement'
<1>1. now \in Nat
  BY DEF TypeInv, TypeOK
<1>2. ASSUME NEW sec \in Sections
      PROVE  /\ statuses'[sec].updated_at = last_ok[sec] /\ last_ok[sec] \in Int
             /\ statuses'[sec].stale =>
                  /\ Watched => now - listeners_since > StaleAfter(sec)
                  /\ last_ok[sec] = NEVER \/ now - last_ok[sec] > StaleAfter(sec)
  <2>1. /\ last_ok[sec] \in Int /\ StaleAfter(sec) \in Nat
        /\ listeners_since \in Nat \cup {NEVER}
    BY Thresholds DEF TypeInv, TypeOK, NEVER
  <2>2. PICK s : s = statuses'[sec]
    OBVIOUS
  <2>3. s = Status(sec)
    BY <2>2 DEF NextStatuses
  <2>4. s.updated_at = last_ok[sec]
    BY <2>3 DEF Status
  <2>5. s.stale => WatchingFor > StaleAfter(sec) /\ OutOfDate(sec)
    BY <2>3 DEF Status
  <2>6. s.stale /\ Watched => now - listeners_since > StaleAfter(sec)
    BY <1>1, <2>1, <2>5 DEF WatchingFor
  <2>7. s.stale => last_ok[sec] = NEVER \/ now - last_ok[sec] > StaleAfter(sec)
    BY <2>5 DEF OutOfDate
  <2> QED BY <2>1, <2>2, <2>4, <2>6, <2>7
<1> QED BY <1>1, <1>2 DEF Judgement, Watched

LEMMA NextJudgement == TypeInv /\ ClockInv /\ Judgement /\ [Next]_vars => Judgement'
<1> SUFFICES ASSUME TypeInv, ClockInv, Judgement, [Next]_vars PROVE Judgement'
  OBVIOUS
<1>1. CASE (Start \/ Woken \/ Paced) /\ statuses' # statuses
  <2>1. /\ UNCHANGED <<now, listeners_since, last_ok>>
        /\ statuses' = NextStatuses /\ round_at' = now
    BY <1>1 DEF Start, Woken, Paced, Round, listeners, slots
  <2> QED BY <2>1, RoundJudgement
<1>2. CASE (Start \/ Woken \/ Paced) /\ round_at' # round_at
  <2>1. /\ UNCHANGED <<now, listeners_since, last_ok>>
        /\ statuses' = NextStatuses /\ round_at' = now
    BY <1>2 DEF Start, Woken, Paced, Round, listeners, slots
  <2> QED BY <2>1, RoundJudgement
<1>3. CASE UNCHANGED <<statuses, round_at>>
  <2>1. /\ now \in Nat /\ now' \in Nat /\ now <= now' /\ round_at \in Nat /\ round_at <= now
        /\ listeners_since \in Nat \cup {NEVER}
    <3>1. CASE Tick
      BY <3>1 DEF Tick, Judgement, TypeInv, TypeOK
    <3>2. CASE ~Tick
      BY <3>2, ClockStays DEF Judgement, TypeInv, TypeOK, vars
    <3> QED BY <3>1, <3>2
  <2>2. ASSUME NEW sec \in Sections PROVE statuses[sec].updated_at <= last_ok'[sec]
    <3>1. /\ statuses[sec].updated_at \in Int /\ last_ok[sec] \in Int
          /\ statuses[sec].updated_at <= last_ok[sec] /\ last_ok[sec] <= now
      BY DEF Judgement, ClockInv, TypeInv, TypeOK, SourceStatuses, NEVER
    <3> QED BY <2>1, <3>1, AnswersMove
  <2>3. Watched' /\ listeners_since' < round_at
          => Watched /\ listeners_since' = listeners_since
    BY <2>1, SinceMoves DEF Arrived, Watched
  <2> QED BY <1>3, <2>1, <2>2, <2>3 DEF Judgement, StaleAfter
<1>4. Start \/ Woken \/ Paced \/ UNCHANGED <<statuses, round_at>>
  BY DEF Next, Gathered, Assemble, Tick, AddListener, DropListener, Unpark, Rested, LoopTop,
         Gathers, GatherOk, GatherFailed, Rest, Publish, HandOver, Pace, assembler, vars
<1> QED BY <1>1, <1>2, <1>3, <1>4

(* What "is refreshing again" takes. *)
RealOrRejoined ==
  \A sec \in Sections :
    journal[sec] = "stopped" /\ journal'[sec] = "refreshing"
      => last_ok[sec] > statuses[sec].updated_at \/ listeners_since >= round_at

LEMMA RecoveryStep ==
  ASSUME TypeInv, ClockInv, Judgement, [Next]_vars
  PROVE  RealOrRejoined
<1> SUFFICES ASSUME NEW sec \in Sections,
                    journal[sec] = "stopped", journal'[sec] = "refreshing",
                    ~(last_ok[sec] > statuses[sec].updated_at),
                    ~(listeners_since >= round_at)
             PROVE  FALSE
  BY DEF RealOrRejoined
<1>1. Start \/ Woken \/ Paced
  BY QuietJournal
<1>2. Watched /\ journal' = Reported(statuses, NextStatuses)
  BY <1>1 DEF Start, Woken, Paced, Round, Said
<1>3. statuses[sec].stale # NextStatuses[sec].stale /\ ~NextStatuses[sec].stale
  BY <1>2 DEF Reported
<1>4. statuses[sec].stale /\ ~(WatchingFor > StaleAfter(sec) /\ OutOfDate(sec))
  <2>1. statuses[sec].stale \in BOOLEAN
    BY DEF TypeInv, TypeOK, SourceStatuses
  <2> QED BY <1>3, <2>1 DEF NextStatuses, Status
<1>5. /\ now \in Nat /\ round_at \in Nat /\ listeners_since \in Nat /\ StaleAfter(sec) \in Nat
      /\ last_ok[sec] \in Int /\ statuses[sec].updated_at \in Int
  BY <1>2, Thresholds DEF TypeInv, TypeOK, SourceStatuses, Watched, NEVER
<1>6. /\ round_at <= now /\ statuses[sec].updated_at = last_ok[sec]
      /\ round_at - listeners_since > StaleAfter(sec)
      /\ last_ok[sec] = NEVER \/ round_at - last_ok[sec] > StaleAfter(sec)
  BY <1>2, <1>4, <1>5 DEF Judgement
<1>7. WatchingFor > StaleAfter(sec)
  BY <1>2, <1>5, <1>6 DEF WatchingFor
<1>8. OutOfDate(sec)
  BY <1>5, <1>6 DEF OutOfDate
<1> QED BY <1>4, <1>7, <1>8

(* Nobody who has been watching all along is told of a recovery that did not *)
(* happen: a source said to be refreshing again has answered, or whoever     *)
(* watches has come since it was reported (report_staleness, Slot::status).  *)
THEOREM RecoveriesAreRealOrRejoined == Spec => RecoveryIsRealOrRejoined
<1>1. Init => Judgement
  BY DEF Init, Judgement, NEVER
<1>2. TypeInv /\ ClockInv /\ Judgement /\ [Next]_vars => [RealOrRejoined]_vars
  BY RecoveryStep
<1>3. Spec => [][RealOrRejoined]_vars
  BY <1>1, <1>2, NextJudgement, ClockInvariant, PTL DEF Spec
<1> QED BY <1>3 DEF RecoveryIsRealOrRejoined, RealOrRejoined

-----------------------------------------------------------------------------
(* What the page waits for. *)

(* The page shows the last picture published, and there is one unless the    *)
(* assembler is on its first.                                                *)
Shown == stats.ver = published

LEMMA NextShown == Shown /\ [Next]_vars => Shown'
<1> SUFFICES ASSUME Shown, [Next]_vars PROVE Shown'
  OBVIOUS
<1>1. CASE Publish
  BY <1>1 DEF Publish, HandOver, Shown
<1>2. CASE ~Publish
  <2>1. UNCHANGED <<stats, published>>
    BY <1>2 DEF Next, Gathered, Assemble, Tick, AddListener, DropListener, Unpark, Rested, LoopTop,
                Gathers, GatherOk, GatherFailed, Rest, Start, Woken, Paced, Round, Pace, vars,
                assembler
  <2> QED BY <2>1 DEF Shown
<1> QED BY <1>1, <1>2

(* No time goes by while a slot holds what the page does not show, but the   *)
(* floor between two pictures: the notification and the pacing see to it,    *)
(* and the heartbeat is not needed (assemble).                               *)
THEOREM PagePrompt ==
  ASSUME ThreadComesBack
  PROVE  Spec => []PageIsPrompt
<1>1. TypeInv /\ ClockInv /\ WakeupInv /\ PacingInv /\ Shown => PageIsPrompt
  <2> SUFFICES ASSUME TypeInv, ClockInv, WakeupInv, PacingInv, Shown,
                      stats.ver # ver, ~Runnable
               PROVE  now - last_publish < MinPublishInterval
    BY DEF PageIsPrompt
  <2>1. ~Held
    BY TickFindsItFree
  <2>2. asm = "pacing" /\ ~(now >= wake_at)
    BY <2>1 DEF Runnable, WakeUp, WakeupInv, NoLostWakeup, Shown, TypeInv, TypeOK
  <2>3. last_publish \in Nat /\ wake_at = last_publish + MinPublishInterval
    BY <2>2 DEF PacingInv, TypeInv, TypeOK
  <2> QED BY <2>2, <2>3, ConstantsTyped DEF TypeInv, TypeOK
<1>2. Init => Shown
  BY DEF Init, Shown
<1> QED BY <1>1, <1>2, NextShown, InitWakeup, NextWakeup, InitPacing, NextPacing, ClockInvariant,
           PTL DEF Spec
=============================================================================
