------------------------------ MODULE Monitor ------------------------------
(***************************************************************************)
(* src/src/monitor.rs: the source tasks, the slots they publish into, the  *)
(* listener count that parks them, and the assembler that puts the slots   *)
(* together for the page.                                                  *)
(*                                                                         *)
(* All of these tasks run on one single-threaded compio runtime, so the    *)
(* code between two awaits is one step here.  What a source reads (sysinfo *)
(* on the blocking pool, pvesh, NVML, the plug) is external: a gather      *)
(* takes as long as it likes, fails, or never comes back.  A source awaits *)
(* its gather, and the others run on; gpu_source does not: fetch_gpu_stats *)
(* calls NVML on the runtime's own thread, and keeps it until NVML is      *)
(* done.                                                                   *)
(*                                                                         *)
(* Data: a section's value is its version, that is, the identity of the    *)
(* Arc in its slot; a gather says which of its sections differ from what   *)
(* is published.  Time: now counts ticks, one tick being the second of     *)
(* now_unix(); both the wall clock and Instant read it.                    *)
(***************************************************************************)
EXTENDS Integers, FiniteSets

CONSTANTS
  Viewers,             \* event streams, each holding a listener guard while it runs
  Sources,             \* source tasks
  Sections,            \* slots
  Owner,               \* the source that fills each section
  Faulty,              \* sources whose gathers may fail
  Hanging,             \* of these, the ones whose gathers may never return
  Blocking,            \* sources that keep the runtime's thread while they gather
  Interval,            \* ticks a source sleeps between two rounds
  GatherLimit,         \* longest gather of a source that does not hang
  MinStaleAfter,       \* MIN_STALE_AFTER_SECS
  MinPublishInterval,  \* MIN_PUBLISH_INTERVAL
  Heartbeat,           \* HEARTBEAT
  MaxTime,             \* bound on now
  MaxVersion           \* bound on the version of a section

ASSUME ConstantsTyped ==
  /\ IsFiniteSet(Viewers)
  /\ Owner \in [Sections -> Sources]
  /\ Faulty \subseteq Sources /\ Hanging \subseteq Faulty /\ Blocking \subseteq Sources
  /\ Interval \in [Sources -> Nat \ {0}]
  /\ GatherLimit \in [Sources -> Nat]
  /\ MinStaleAfter \in Nat
  /\ MinPublishInterval \in Nat
  /\ Heartbeat \in Nat
  /\ MaxTime \in Nat
  /\ MaxVersion \in Nat

(* The floor between two pictures is below the heartbeat: 100 ms against 1 s. *)
ASSUME PacingBelowHeartbeat == MinPublishInterval <= Heartbeat /\ Heartbeat > 0

(* A source that works answers within one interval and one gather, inside the  *)
(* three intervals, or the floor, it is given before it is called stale.       *)
ASSUME WorkingSourcesAreQuick ==
  \A s \in Sources \ Faulty :
    \/ GatherLimit[s] <= 2 * Interval[s]
    \/ Interval[s] + GatherLimit[s] <= MinStaleAfter

(* What the code takes for granted and nothing in it ensures: a source that    *)
(* keeps the thread gives it back within the second.                           *)
ThreadComesBack == \A s \in Blocking : s \notin Hanging /\ GatherLimit[s] = 0

VARIABLES
  now,
  watching,         \* viewers whose guard is alive
  listener_count, listeners_since,
  task,             \* per source: "resting", "parked" or "gathering"
  due,              \* per source: end of its sleep, or of a prompt gather; else 0
  woken,            \* per source: listener_notify has fired while it was parked
  ver, last_ok,     \* per section: the slot
  asm,              \* assembler: "starting", "publishing", "waiting" or "pacing"
  changed,          \* its listener on Sources.changed: "unarmed", "armed" or "notified"
  wake_at,          \* its timer: the heartbeat, or the end of the pacing sleep; else 0
  round_at,         \* the now of its current round
  snapshot,         \* the picture it is publishing
  published,        \* the picture it last published
  statuses,
  last_publish,
  stats,            \* what the page and the log are handed
  journal           \* per section: the last line report_staleness printed for it

slots == <<ver, last_ok>>
listeners == <<watching, listener_count, listeners_since>>
tasks == <<task, due, woken>>
assembler == <<asm, wake_at, round_at, snapshot, published, statuses, last_publish, stats, journal>>
vars == <<now, listeners, tasks, slots, changed, assembler>>

NEVER == -1

Nothing == [sec \in Sections |-> -1]   \* published before the first round

Fills(s) == {sec \in Sections : Owner[sec] = s}

-----------------------------------------------------------------------------
(* Staleness. *)

StaleAfter(sec) ==
  IF 3 * Interval[Owner[sec]] > MinStaleAfter THEN 3 * Interval[Owner[sec]] ELSE MinStaleAfter

Watched == listeners_since # NEVER

WatchingFor == IF Watched THEN now - listeners_since ELSE 0

OutOfDate(sec) == last_ok[sec] = NEVER \/ now - last_ok[sec] > StaleAfter(sec)

\* Fault: staleness judged however long anyone has been watching.
StatusUngated(sec) == [updated_at |-> last_ok[sec], stale |-> OutOfDate(sec)]

Status(sec) ==
  [updated_at |-> last_ok[sec],
   stale      |-> WatchingFor > StaleAfter(sec) /\ OutOfDate(sec)]

NextStatuses == [sec \in Sections |-> Status(sec)]

Reported(before, after) ==
  [sec \in Sections |->
     IF before[sec].stale = after[sec].stale THEN journal[sec]
     ELSE IF after[sec].stale THEN "stopped" ELSE "refreshing"]

\* Fault: rounds that nobody watches report as well.
SaidAloud(before, after) == Reported(before, after)

\* While nobody watches, sections read as fresh for that alone: nothing is said.
Said(before, after) == IF Watched THEN Reported(before, after) ELSE journal

-----------------------------------------------------------------------------
(* The thread: while a source keeps it nothing else runs but the clock. *)

\* Fault: no source awaits its gather, so each keeps the thread.
HeldByAny == \E s \in Sources : task[s] = "gathering"

Held == \E s \in Blocking : task[s] = "gathering"

HasThread(s) == s \in Blocking \/ ~Held

-----------------------------------------------------------------------------
(* Listeners: State::add_listener and the drop of its guard. *)

\* Fault: notify(1) instead of notify(usize::MAX).
RousedOne ==
  LET parked == {s \in Sources : task[s] = "parked" /\ ~woken[s]} IN
  [s \in Sources |-> woken[s] \/ (parked # {} /\ s = (CHOOSE p \in parked : TRUE))]

\* listener_notify.notify(usize::MAX): every source that is parked.
Roused == [s \in Sources |-> woken[s] \/ task[s] = "parked"]

AddListener(v) ==
  /\ v \notin watching
  /\ watching' = watching \cup {v}
  /\ listener_count' = listener_count + 1
  /\ listeners_since' = IF listener_count = 0 THEN now ELSE listeners_since
  /\ woken' = Roused
  /\ UNCHANGED <<now, task, due, slots, changed, assembler>>

\* Fault: the guard dropped by hand, and again at the end of its scope.
CountAfterDropTwice == listener_count - 2

CountAfterDrop == listener_count - 1

\* Fault: the count after the drop read where fetch_sub returns the one before.
SinceAfterDropLate == IF listener_count = 0 THEN NEVER ELSE listeners_since

SinceAfterDrop == IF listener_count = 1 THEN NEVER ELSE listeners_since

DropListener(v) ==
  /\ v \in watching
  /\ watching' = watching \ {v}
  /\ listener_count' = CountAfterDrop
  /\ listeners_since' = SinceAfterDrop
  /\ UNCHANGED <<now, tasks, slots, changed, assembler>>

-----------------------------------------------------------------------------
(* Sources. *)

\* The top of a source's loop: wait_for_listeners, then the gather begins.
LoopTop(s) ==
  /\ IF listener_count = 0
       THEN task' = [task EXCEPT ![s] = "parked"] /\ due' = [due EXCEPT ![s] = 0]
       ELSE /\ task' = [task EXCEPT ![s] = "gathering"]
            /\ due' = [due EXCEPT ![s] = IF s \in Hanging THEN 0 ELSE now + GatherLimit[s]]
  /\ woken' = [woken EXCEPT ![s] = FALSE]
  /\ UNCHANGED <<now, listeners, slots, changed, assembler>>

Unpark(s) == task[s] = "parked" /\ woken[s] /\ LoopTop(s)

Rested(s) == task[s] = "resting" /\ now >= due[s] /\ LoopTop(s)

Rest(s) ==
  /\ task[s] = "gathering"
  /\ task' = [task EXCEPT ![s] = "resting"]
  /\ due' = [due EXCEPT ![s] = now + Interval[s]]
  /\ UNCHANGED <<now, listeners, woken, assembler>>

\* changed.notify(usize::MAX): only a listener that is armed hears it.
Notify(l) == IF l = "armed" THEN "notified" ELSE l

\* A value equal to the one published wakes nobody.
Announced(fresh) == IF fresh = {} THEN changed ELSE Notify(changed)

\* A gather succeeds and publishes: every section of the source is marked as
\* answered, and those in fresh, which differ from the published value (or are
\* sent with publish_always), get a new Arc.  system_source publishes two
\* sections without an await in between.
GatherOk(s, fresh) ==
  /\ Rest(s)
  /\ last_ok' = [sec \in Sections |-> IF sec \in Fills(s) THEN now ELSE last_ok[sec]]
  /\ ver' = [sec \in Sections |-> IF sec \in fresh THEN ver[sec] + 1 ELSE ver[sec]]
  /\ changed' = Announced(fresh)

\* Fault: a failed gather puts the default back in the slot.
GatherFailedClearing(s) ==
  /\ s \in Faulty
  /\ Rest(s)
  /\ ver' = [sec \in Sections |-> IF sec \in Fills(s) THEN 0 ELSE ver[sec]]
  /\ UNCHANGED <<last_ok, changed>>

\* A gather fails, or has nothing new from the plug: the slot stays as it is.
GatherFailed(s) ==
  /\ s \in Faulty
  /\ Rest(s)
  /\ UNCHANGED <<slots, changed>>

-----------------------------------------------------------------------------
(* The assembler. *)

\* One turn of the loop in assemble, up to its next await.
Round ==
  /\ changed' = "armed"
  /\ IF published # ver \/ NextStatuses # statuses
       THEN /\ journal' = Said(statuses, NextStatuses)
            /\ statuses' = NextStatuses
            /\ snapshot' = ver
            /\ round_at' = now
            /\ asm' = "publishing"
            /\ wake_at' = 0
       ELSE /\ asm' = "waiting"
            /\ wake_at' = now + Heartbeat
            /\ UNCHANGED <<journal, statuses, snapshot, round_at>>
  /\ UNCHANGED <<now, listeners, tasks, slots, published, last_publish, stats>>

Start == asm = "starting" /\ Round

\* write_async has the lock: the picture is handed over, and the wait begins.
HandOver ==
  /\ asm = "publishing"
  /\ stats' = [updated_at |-> round_at, sources |-> statuses, ver |-> snapshot]
  /\ published' = snapshot
  /\ last_publish' = now
  /\ asm' = "waiting"
  /\ wake_at' = now + Heartbeat
  /\ UNCHANGED <<now, listeners, tasks, slots, round_at, snapshot, statuses, journal>>

\* Fault: the listener armed once the picture is out, not before it was put together.
PublishThenArm == HandOver /\ changed' = "armed"

Publish == HandOver /\ UNCHANGED changed

\* Fault: no heartbeat, only a source wakes the assembler.
WakeUpBySource == asm = "waiting" /\ changed = "notified"

\* Fault: the heartbeat slept off, whatever is announced.
WakeUpByHeartbeat == asm = "waiting" /\ now >= wake_at

WakeUp == asm = "waiting" /\ (changed = "notified" \/ now >= wake_at)

\* Fault: one tick short.
TooSoonByOne == last_publish # NEVER /\ now - last_publish < MinPublishInterval - 1

TooSoon == last_publish # NEVER /\ now - last_publish < MinPublishInterval

\* Woken less than MIN_PUBLISH_INTERVAL after the last picture: sleep off the rest.
Pace ==
  /\ WakeUp /\ TooSoon
  /\ changed' = "unarmed"
  /\ asm' = "pacing"
  /\ wake_at' = last_publish + MinPublishInterval
  /\ UNCHANGED <<now, listeners, tasks, slots, round_at, snapshot, published, statuses,
                 last_publish, stats, journal>>

Woken == WakeUp /\ ~TooSoon /\ Round

Paced == asm = "pacing" /\ now >= wake_at /\ Round

-----------------------------------------------------------------------------
\* A task that can run does so before the clock moves on, and a source that does
\* not hang is done within its GatherLimit.
Runnable ==
  \/ ~Held /\ \/ asm \in {"starting", "publishing"}
              \/ WakeUp
              \/ asm = "pacing" /\ now >= wake_at
              \/ \E s \in Sources : \/ task[s] = "parked" /\ woken[s]
                                    \/ task[s] = "resting" /\ now >= due[s]
  \/ \E s \in Sources \ Hanging : HasThread(s) /\ task[s] = "gathering" /\ now >= due[s]

Tick ==
  /\ ~Runnable
  /\ now < MaxTime
  /\ now' = now + 1
  /\ UNCHANGED <<listeners, tasks, slots, changed, assembler>>

Init ==
  /\ now = 0
  /\ watching = {} /\ listener_count = 0 /\ listeners_since = NEVER
  /\ task = [s \in Sources |-> "resting"]     \* spawned: its first poll is due
  /\ due = [s \in Sources |-> 0]
  /\ woken = [s \in Sources |-> FALSE]
  /\ ver = [sec \in Sections |-> 0]
  /\ last_ok = [sec \in Sections |-> NEVER]
  /\ asm = "starting" /\ changed = "unarmed"
  /\ wake_at = 0 /\ round_at = 0
  /\ snapshot = Nothing /\ published = Nothing
  /\ statuses = [sec \in Sections |-> [updated_at |-> NEVER, stale |-> FALSE]]
  /\ last_publish = NEVER
  /\ stats = [updated_at |-> NEVER, sources |-> statuses, ver |-> Nothing]
  /\ journal = [sec \in Sections |-> "none"]

Assemble == Start \/ Publish \/ Pace \/ Woken \/ Paced

Gathers(s) == \E fresh \in SUBSET {sec \in Fills(s) : ver[sec] < MaxVersion} : GatherOk(s, fresh)

\* A gather comes to an end, as far as its source gets to hear of it.
Gathered(s) == HasThread(s) /\ (Gathers(s) \/ GatherFailed(s))

Next ==
  \/ Tick
  \/ \E s \in Sources : Gathered(s)
  \/ /\ ~Held
     /\ \/ \E v \in Viewers : AddListener(v) \/ DropListener(v)
        \/ \E s \in Sources : Unpark(s) \/ Rested(s)
        \/ Assemble

Spec == Init /\ [][Next]_vars

-----------------------------------------------------------------------------
(* Properties. *)

SourceStatuses == [Sections -> [updated_at : Int, stale : BOOLEAN]]
Versions == [Sections -> Int]

(* Every variable stays in its type. *)
TypeOK ==
  /\ now \in Nat
  /\ watching \in SUBSET Viewers
  /\ listener_count \in Nat
  /\ listeners_since \in Nat \cup {NEVER}
  /\ task \in [Sources -> {"resting", "parked", "gathering"}]
  /\ due \in [Sources -> Nat]
  /\ woken \in [Sources -> BOOLEAN]
  /\ ver \in [Sections -> Nat]
  /\ last_ok \in [Sections -> Nat \cup {NEVER}]
  /\ asm \in {"starting", "publishing", "waiting", "pacing"}
  /\ changed \in {"unarmed", "armed", "notified"}
  /\ wake_at \in Nat /\ round_at \in Nat
  /\ snapshot \in Versions /\ published \in Versions
  /\ statuses \in SourceStatuses
  /\ last_publish \in Nat \cup {NEVER}
  /\ stats \in [updated_at : Int, sources : SourceStatuses, ver : Versions]
  /\ journal \in [Sections -> {"none", "stopped", "refreshing"}]

(* No wakeup is lost: an assembler that sleeps with nothing announced to it  *)
(* has published everything the slots hold, although sources publish while  *)
(* it waits for the lock of the stats (assemble, publish and Slot::publish). *)
NoLostWakeup == asm = "waiting" /\ changed = "armed" => published = ver

(* While something watches, no source stays parked: wait_for_listeners reads *)
(* the count with its listener armed, and add_listener wakes all of them.    *)
NoSourceSleepsIn ==
  listener_count > 0 => \A s \in Sources : task[s] = "parked" => woken[s]

Unanswered(sec) ==
  now - (IF last_ok[sec] > listeners_since THEN last_ok[sec] ELSE listeners_since)

(* A section that nobody has filled for its threshold and one heartbeat,     *)
(* watched all along, is marked stale on the page, although the source that  *)
(* hangs wakes nobody (the heartbeat in assemble, Slot::status).  That is so *)
(* of sources that await what they gather; while one keeps the thread there  *)
(* is no heartbeat, and no section is flagged (see ThreadComesBack).         *)
HungIsFlagged ==
  \A sec \in Sections :
    Watched /\ Unanswered(sec) > StaleAfter(sec) + Heartbeat => stats.sources[sec].stale

(* A source that hangs leaves only its own section standing still: of the    *)
(* sources that work, none is out of date once somebody has watched for its  *)
(* threshold (the tasks of monitor, and the order of awaits in each).        *)
HangStaysInItsSection ==
  \A sec \in Sections :
    Owner[sec] \notin Faulty /\ WatchingFor > StaleAfter(sec) => ~OutOfDate(sec)

(* A source that answers in time is never called stale, however viewers come *)
(* and go and its task parks and resumes (listeners_since and the gate on    *)
(* watching_for_secs in Slot::status).                                       *)
NoFalseAlarm ==
  \A sec \in Sections : Owner[sec] \notin Faulty => ~stats.sources[sec].stale

(* Two pictures are never less than MIN_PUBLISH_INTERVAL apart, whatever      *)
(* bursts the sources arrive in (the end of the loop in assemble).           *)
PublishPaced ==
  [][stats' # stats /\ last_publish # NEVER
       => now - last_publish >= MinPublishInterval]_vars

(* The journal announces a recovery only of a section it last reported as    *)
(* stopped (report_staleness and the rounds that keep silent).               *)
RecoveryFollowsOutage ==
  [][\A sec \in Sections :
       journal'[sec] # journal[sec] /\ journal'[sec] = "refreshing"
         => journal[sec] = "stopped"]_vars

(* "is refreshing again" is said only of a source that has answered since it *)
(* was reported, or else to those who have come since: nobody who has been   *)
(* watching all along is told of a recovery that did not happen (Slot::status *)
(* and report_staleness).                                                    *)
RecoveryIsRealOrRejoined ==
  [][\A sec \in Sections :
       journal[sec] = "stopped" /\ journal'[sec] = "refreshing"
         => last_ok[sec] > statuses[sec].updated_at \/ listeners_since >= round_at]_vars

Page == INSTANCE Feed WITH Keys <- Sections, latest <- ver, seen <- stats.ver

(* The page follows the slots as Feed promises: a section is never shown     *)
(* before it is published and never goes back to an older value.             *)
PageIsFeed == Page!Safe

(* The page is prompt: no time goes by while a slot holds what the page does *)
(* not show, heartbeat or none, but what is left of MIN_PUBLISH_INTERVAL     *)
(* since the last picture (the notification, the select and the pacing).     *)
PageIsPrompt ==
  stats.ver # ver /\ ~Runnable => now - last_publish < MinPublishInterval
=============================================================================
