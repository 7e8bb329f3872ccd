--------------------------- MODULE MonitorProofs ---------------------------
(***************************************************************************)
(* What holds of Monitor for every set of viewers, sources and sections    *)
(* and every choice of its intervals and bounds.                           *)
(***************************************************************************)
EXTENDS Monitor, TLAPS, FiniteSetTheorems

(* The count of listeners is that of the guards alive, and it is zero        *)
(* exactly while listeners_since says that nothing is watching.              *)
ListenersCounted ==
  /\ listener_count = Cardinality(watching)
  /\ listeners_since = NEVER <=> listener_count = 0

TypeInv == TypeOK /\ ListenersCounted

-----------------------------------------------------------------------------
(* What the operators return. *)

(* A status is well typed, and not stale while nothing is watching.          *)
LEMMA StatusType ==
  ASSUME TypeOK
  PROVE  /\ NextStatuses \in SourceStatuses
         /\ ~Watched => \A sec \in Sections : ~NextStatuses[sec].stale
<1>1. \A sec \in Sections : StaleAfter(sec) \in Int /\ StaleAfter(sec) >= 0
  BY ConstantsTyped DEF StaleAfter
<1>2. WatchingFor \in Int /\ (~Watched => WatchingFor = 0)
  BY DEF TypeOK, WatchingFor, Watched, NEVER
<1>3. \A sec \in Sections :
        Status(sec) \in [updated_at : Int, stale : BOOLEAN]
  BY DEF Status, TypeOK, NEVER
<1>4. \A sec \in Sections : ~Watched => ~Status(sec).stale
  <2> SUFFICES ASSUME NEW sec \in Sections, ~Watched PROVE ~Status(sec).stale
    OBVIOUS
  <2>1. ~(WatchingFor > StaleAfter(sec))
    BY <1>1, <1>2
  <2>2. Status(sec).stale = (WatchingFor > StaleAfter(sec) /\ OutOfDate(sec))
    BY DEF Status
  <2> QED
    BY <2>1, <2>2
<1> QED
  BY <1>3, <1>4 DEF NextStatuses, SourceStatuses

(* The journal's lines after a round are well typed.                         *)
LEMMA ReportedType ==
  ASSUME TypeOK, NEW before, NEW after
  PROVE  Reported(before, after) \in [Sections -> {"none", "stopped", "refreshing"}]
BY DEF TypeOK, Reported

(* A round leaves the assembler's own state well typed.                      *)
LEMMA RoundType ==
  ASSUME TypeInv, Round
  PROVE  TypeInv'
<1>1. NextStatuses \in SourceStatuses
  BY StatusType DEF TypeInv
<1>2. Reported(statuses, NextStatuses) \in [Sections -> {"none", "stopped", "refreshing"}]
  BY ReportedType DEF TypeInv
<1>3. ver \in Versions
  BY DEF TypeInv, TypeOK, Versions
<1>4. now + Heartbeat \in Nat
  BY ConstantsTyped DEF TypeInv, TypeOK
<1>5. UNCHANGED <<now, watching, listener_count, listeners_since, task, due, woken, ver, last_ok,
                  published, last_publish, stats>>
  BY DEF Round, listeners, tasks, slots
<1>6. CASE published # ver \/ NextStatuses # statuses
  <2>1. /\ asm' = "publishing" /\ changed' = "armed" /\ wake_at' = 0 /\ round_at' = now
        /\ snapshot' = ver /\ statuses' = NextStatuses
        /\ journal' \in [Sections -> {"none", "stopped", "refreshing"}]
    BY <1>6, <1>2 DEF Round, Said, TypeInv, TypeOK
  <2> QED
    BY <2>1, <1>1, <1>3, <1>5 DEF TypeInv, TypeOK, ListenersCounted
<1>7. CASE ~(published # ver \/ NextStatuses # statuses)
  <2>1. /\ asm' = "waiting" /\ changed' = "armed" /\ wake_at' = now + Heartbeat
        /\ UNCHANGED <<journal, statuses, snapshot, round_at>>
    BY <1>7 DEF Round
  <2> QED
    BY <2>1, <1>4, <1>5 DEF TypeInv, TypeOK, ListenersCounted
<1> QED
  BY <1>6, <1>7

(* So does the top of a source's loop.                                       *)
LEMMA LoopTopType ==
  ASSUME TypeInv, NEW s \in Sources, LoopTop(s)
  PROVE  TypeInv'
<1>1. UNCHANGED <<now, watching, listener_count, listeners_since, ver, last_ok, changed, asm,
                  wake_at, round_at, snapshot, published, statuses, last_publish, stats, journal>>
  BY DEF LoopTop, listeners, slots, assembler
<1>2. now + GatherLimit[s] \in Nat
  BY ConstantsTyped DEF TypeInv, TypeOK
<1>3. /\ task' \in [Sources -> {"resting", "parked", "gathering"}]
      /\ due' \in [Sources -> Nat]
      /\ woken' \in [Sources -> BOOLEAN]
  BY <1>2 DEF LoopTop, TypeInv, TypeOK
<1> QED
  BY <1>1, <1>3 DEF TypeInv, TypeOK, ListenersCounted

(* And the end of a gather, for the source's part.                           *)
LEMMA RestType ==
  ASSUME TypeInv, NEW s \in Sources, Rest(s)
  PROVE  /\ task' \in [Sources -> {"resting", "parked", "gathering"}]
         /\ due' \in [Sources -> Nat]
         /\ UNCHANGED <<now, watching, listener_count, listeners_since, woken, asm, wake_at,
                        round_at, snapshot, published, statuses, last_publish, stats, journal>>
<1>1. now + Interval[s] \in Nat
  BY ConstantsTyped DEF TypeInv, TypeOK
<1> QED
  BY <1>1 DEF Rest, TypeInv, TypeOK, listeners, assembler

-----------------------------------------------------------------------------
(* Types, and the count of listeners. *)

LEMMA InitType == Init => TypeInv
<1> SUFFICES ASSUME Init PROVE TypeInv
  OBVIOUS
<1>1. Cardinality(watching) = 0 /\ watching \subseteq Viewers
  BY FS_EmptySet DEF Init
<1>2. Nothing \in Versions
  BY DEF Nothing, Versions
<1>3. statuses \in SourceStatuses
  BY DEF Init, SourceStatuses, NEVER
<1> QED
  BY <1>1, <1>2, <1>3 DEF Init, TypeInv, TypeOK, ListenersCounted, NEVER

LEMMA AddListenerType ==
  ASSUME TypeInv, NEW v \in Viewers, AddListener(v)
  PROVE  TypeInv'
<1>1. IsFiniteSet(watching)
  BY ConstantsTyped, FS_Subset DEF TypeInv, TypeOK
<1>2. Cardinality(watching') = Cardinality(watching) + 1
  BY <1>1, FS_AddElement DEF AddListener
<1>3. watching' \in SUBSET Viewers
  BY DEF AddListener, TypeInv, TypeOK
<1>4. woken' \in [Sources -> BOOLEAN]
  BY DEF AddListener, Roused, TypeInv, TypeOK
<1>5. /\ listener_count' \in Nat /\ listener_count' = Cardinality(watching')
      /\ listeners_since' \in Nat \cup {NEVER}
      /\ listeners_since' = NEVER <=> listener_count' = 0
  BY <1>2 DEF AddListener, TypeInv, TypeOK, ListenersCounted, NEVER
<1> QED
  BY <1>3, <1>4, <1>5
  DEF AddListener, TypeInv, TypeOK, ListenersCounted, slots, assembler

LEMMA DropListenerType ==
  ASSUME TypeInv, NEW v \in Viewers, DropListener(v)
  PROVE  TypeInv'
<1>1. IsFiniteSet(watching)
  BY ConstantsTyped, FS_Subset DEF TypeInv, TypeOK
<1>2. Cardinality(watching') = Cardinality(watching) - 1 /\ Cardinality(watching) \in Nat \ {0}
  BY <1>1, FS_RemoveElement, FS_EmptySet, FS_CardinalityType DEF DropListener
<1>3. watching' \in SUBSET Viewers
  BY DEF DropListener, TypeInv, TypeOK
<1>4. /\ listener_count' \in Nat /\ listener_count' = Cardinality(watching')
      /\ listeners_since' \in Nat \cup {NEVER}
      /\ listeners_since' = NEVER <=> listener_count' = 0
  BY <1>2 DEF DropListener, CountAfterDrop, SinceAfterDrop, TypeInv, TypeOK, ListenersCounted, NEVER
<1> QED
  BY <1>3, <1>4
  DEF DropListener, TypeInv, TypeOK, ListenersCounted, slots, tasks, assembler

LEMMA GatherOkType ==
  ASSUME TypeInv, NEW s \in Sources, NEW fresh, GatherOk(s, fresh)
  PROVE  TypeInv'
<1>1. /\ ver' \in [Sections -> Nat]
      /\ last_ok' \in [Sections -> Nat \cup {NEVER}]
      /\ changed' \in {"unarmed", "armed", "notified"}
  BY DEF GatherOk, Announced, Notify, TypeInv, TypeOK
<1>2. Rest(s)
  BY DEF GatherOk
<1> QED
  BY <1>1, <1>2, RestType DEF TypeInv, TypeOK, ListenersCounted

LEMMA GatherFailedType ==
  ASSUME TypeInv, NEW s \in Sources, GatherFailed(s)
  PROVE  TypeInv'
<1>1. Rest(s) /\ UNCHANGED <<ver, last_ok, changed>>
  BY DEF GatherFailed, slots
<1> QED
  BY <1>1, RestType DEF TypeInv, TypeOK, ListenersCounted

LEMMA PublishType ==
  ASSUME TypeInv, Publish
  PROVE  TypeInv'
<1>1. now + Heartbeat \in Nat
  BY ConstantsTyped DEF TypeInv, TypeOK
<1>2. stats' \in [updated_at : Int, sources : SourceStatuses, ver : Versions]
  BY DEF Publish, HandOver, TypeInv, TypeOK
<1>3. UNCHANGED <<now, watching, listener_count, listeners_since, task, due, woken, ver, last_ok,
                  changed, round_at, snapshot, statuses, journal>>
  BY DEF Publish, HandOver, listeners, tasks, slots
<1> QED
  BY <1>1, <1>2, <1>3 DEF Publish, HandOver, TypeInv, TypeOK, ListenersCounted

LEMMA PaceType ==
  ASSUME TypeInv, Pace
  PROVE  TypeInv'
<1>1. last_publish + MinPublishInterval \in Nat
  BY ConstantsTyped DEF Pace, TooSoon, TypeInv, TypeOK, NEVER
<1>2. UNCHANGED <<now, watching, listener_count, listeners_since, task, due, woken, ver, last_ok,
                  round_at, snapshot, published, statuses, last_publish, stats, journal>>
  BY DEF Pace, listeners, tasks, slots
<1> QED
  BY <1>1, <1>2 DEF Pace, TypeInv, TypeOK, ListenersCounted

LEMMA TickType ==
  ASSUME TypeInv, Tick
  PROVE  TypeInv'
BY DEF Tick, TypeInv, TypeOK, ListenersCounted, listeners, tasks, slots, assembler

LEMMA StutterType ==
  ASSUME TypeInv, UNCHANGED vars
  PROVE  TypeInv'
BY DEF vars, TypeInv, TypeOK, ListenersCounted, listeners, tasks, slots, assembler

LEMMA NextType == TypeInv /\ [Next]_vars => TypeInv'
<1> SUFFICES ASSUME TypeInv, [Next]_vars PROVE TypeInv'
  OBVIOUS
<1>1. CASE Tick
  BY <1>1, TickType
<1>2. CASE \E v \in Viewers : AddListener(v) \/ DropListener(v)
  BY <1>2, AddListenerType, DropListenerType
<1>3. ASSUME NEW s \in Sources, Unpark(s) \/ Rested(s)
      PROVE  TypeInv'
  BY <1>3, LoopTopType DEF Unpark, Rested
<1>4. ASSUME NEW s \in Sources, Gathers(s)
      PROVE  TypeInv'
  BY <1>4, GatherOkType DEF Gathers
<1>5. ASSUME NEW s \in Sources, GatherFailed(s)
      PROVE  TypeInv'
  BY <1>5, GatherFailedType
<1>6. CASE Start \/ Woken \/ Paced
  BY <1>6, RoundType DEF Start, Woken, Paced
<1>7. CASE Publish
  BY <1>7, PublishType
<1>8. CASE Pace
  BY <1>8, PaceType
<1>9. CASE UNCHANGED vars
  BY <1>9, StutterType
<1> QED
  BY <1>1, <1>2, <1>3, <1>4, <1>5, <1>6, <1>7, <1>8, <1>9 DEF Next, Gathered, Assemble

LEMMA TypeInvariant == Spec => []TypeInv
BY InitType, NextType, PTL DEF Spec

(* Every variable stays in its type, however many viewers come and go.       *)
THEOREM TypeCorrect == Spec => []TypeOK
<1>1. TypeInv => TypeOK
  BY DEF TypeInv
<1> QED
  BY <1>1, TypeInvariant, PTL

(* Every guard is counted once, and listeners_since says whether there is    *)
(* one (add_listener and the drop of its guard).                             *)
THEOREM CountIsGuards == Spec => []ListenersCounted
<1>1. TypeInv => ListenersCounted
  BY DEF TypeInv
<1> QED
  BY <1>1, TypeInvariant, PTL

-----------------------------------------------------------------------------
(* Wakeups. *)

(* The listener is armed in every round, and between the arming and the end  *)
(* of the wait only what was read since can be missing from the page.        *)
WakeupInv ==
  /\ asm \in {"publishing", "waiting"} <=> changed # "unarmed"
  /\ asm = "publishing" /\ changed = "armed" => snapshot = ver
  /\ NoLostWakeup

LEMMA InitWakeup == Init => WakeupInv
BY DEF Init, WakeupInv, NoLostWakeup

LEMMA RoundWakeup ==
  ASSUME Round
  PROVE  WakeupInv'
<1>1. CASE published # ver \/ NextStatuses # statuses
  BY <1>1 DEF Round, WakeupInv, NoLostWakeup, slots
<1>2. CASE ~(published # ver \/ NextStatuses # statuses)
  BY <1>2 DEF Round, WakeupInv, NoLostWakeup, slots
<1> QED
  BY <1>1, <1>2

LEMMA GatherOkWakeup ==
  ASSUME TypeInv, WakeupInv, NEW s \in Sources, NEW fresh \in SUBSET Sections, GatherOk(s, fresh)
  PROVE  WakeupInv'
<1>1. UNCHANGED <<asm, snapshot, published>>
  BY DEF GatherOk, Rest, assembler
<1>2. CASE fresh = {}
  <2>1. UNCHANGED <<ver, changed>>
    BY <1>2 DEF GatherOk, Announced, TypeInv, TypeOK
  <2> QED
    BY <1>1, <2>1 DEF WakeupInv, NoLostWakeup
<1>3. CASE fresh # {}
  <2>1. changed' # "armed" /\ (changed' = "unarmed" <=> changed = "unarmed")
    BY <1>3 DEF GatherOk, Announced, Notify
  <2> QED
    BY <1>1, <2>1 DEF WakeupInv, NoLostWakeup
<1> QED
  BY <1>2, <1>3

LEMMA NextWakeup == TypeInv /\ WakeupInv /\ [Next]_vars => WakeupInv'
<1> SUFFICES ASSUME TypeInv, WakeupInv, [Next]_vars PROVE WakeupInv'
  OBVIOUS
<1> USE DEF WakeupInv, NoLostWakeup
<1>1. CASE Tick
  BY <1>1 DEF Tick, slots, assembler
<1>2. ASSUME NEW v \in Viewers, AddListener(v) \/ DropListener(v)
      PROVE  WakeupInv'
  BY <1>2 DEF AddListener, DropListener, slots, assembler
<1>3. ASSUME NEW s \in Sources, Unpark(s) \/ Rested(s)
      PROVE  WakeupInv'
  BY <1>3 DEF Unpark, Rested, LoopTop, slots, assembler
<1>4. ASSUME NEW s \in Sources, Gathers(s)
      PROVE  WakeupInv'
  BY <1>4, GatherOkWakeup DEF Gathers, Fills
<1>5. ASSUME NEW s \in Sources, GatherFailed(s)
      PROVE  WakeupInv'
  BY <1>5 DEF GatherFailed, Rest, slots, assembler
<1>6. CASE Start \/ Woken \/ Paced
  BY <1>6, RoundWakeup DEF Start, Woken, Paced
<1>7. CASE Publish
  BY <1>7 DEF Publish, HandOver, slots
<1>8. CASE Pace
  BY <1>8 DEF Pace, slots
<1>9. CASE UNCHANGED vars
  BY <1>9 DEF vars, slots, assembler
<1> QED
  BY <1>1, <1>2, <1>3, <1>4, <1>5, <1>6, <1>7, <1>8, <1>9 DEF Next, Gathered, Assemble

(* No wakeup is lost: an assembler that waits unannounced has published all  *)
(* that the slots hold (assemble, publish and Slot::publish).                *)
THEOREM WakeupsKept == Spec => []NoLostWakeup
<1>1. WakeupInv => NoLostWakeup
  BY DEF WakeupInv
<1> QED
  BY <1>1, InitWakeup, NextWakeup, TypeInvariant, PTL DEF Spec

(* No source stays parked once somebody watches (wait_for_listeners and      *)
(* add_listener).                                                            *)
THEOREM SourcesAwake == Spec => []NoSourceSleepsIn
<1>1. Init => NoSourceSleepsIn
  BY DEF Init, NoSourceSleepsIn
<1>2. TypeInv /\ NoSourceSleepsIn /\ [Next]_vars => NoSourceSleepsIn'
  <2> SUFFICES ASSUME TypeInv, NoSourceSleepsIn, [Next]_vars PROVE NoSourceSleepsIn'
    OBVIOUS
  <2> USE DEF NoSourceSleepsIn
  <2>1. ASSUME NEW v \in Viewers, AddListener(v) PROVE NoSourceSleepsIn'
    BY <2>1 DEF AddListener, Roused
  <2>2. ASSUME NEW v \in Viewers, DropListener(v) PROVE NoSourceSleepsIn'
    BY <2>2 DEF DropListener, CountAfterDrop, tasks, TypeInv, TypeOK
  <2>3. ASSUME NEW s \in Sources, Unpark(s) \/ Rested(s) PROVE NoSourceSleepsIn'
    <3>1. LoopTop(s) /\ UNCHANGED listener_count
      BY <2>3 DEF Unpark, Rested, LoopTop, listeners
    <3>2. CASE listener_count = 0
      BY <3>1, <3>2
    <3>3. CASE listener_count # 0
      BY <3>1, <3>3 DEF LoopTop, TypeInv, TypeOK
    <3> QED
      BY <3>2, <3>3
  <2>4. ASSUME NEW s \in Sources, Rest(s) PROVE NoSourceSleepsIn'
    BY <2>4 DEF Rest, listeners, TypeInv, TypeOK
  <2>5. CASE UNCHANGED <<listener_count, task, woken>>
    BY <2>5
  <2>6. Tick \/ Assemble \/ UNCHANGED vars => UNCHANGED <<listener_count, task, woken>>
    BY DEF Tick, Assemble, Start, Woken, Paced, Round, Publish, HandOver, Pace, vars, listeners, tasks
  <2> QED
    BY <2>1, <2>2, <2>3, <2>4, <2>5, <2>6 DEF Next, Gathered, Gathers, GatherOk, GatherFailed
<1> QED
  BY <1>1, <1>2, TypeInvariant, PTL DEF Spec

-----------------------------------------------------------------------------
(* Pacing. *)

(* A picture is on its way only when the last one is old enough, and a pause *)
(* ends exactly then.                                                        *)
PacingInv ==
  /\ asm = "publishing" /\ last_publish # NEVER => now - last_publish >= MinPublishInterval
  /\ asm = "pacing" => last_publish # NEVER /\ wake_at = last_publish + MinPublishInterval
  /\ asm = "starting" => last_publish = NEVER

LEMMA InitPacing == Init => PacingInv
BY DEF Init, PacingInv

(* A round that starts from a valid point leaves PacingInv behind.           *)
LEMMA RoundPacing ==
  ASSUME Round, last_publish # NEVER => now - last_publish >= MinPublishInterval
  PROVE  PacingInv'
<1>1. asm' \in {"publishing", "waiting"} /\ UNCHANGED <<now, last_publish>>
  BY DEF Round
<1> QED
  BY <1>1 DEF PacingInv

LEMMA NextPacing == TypeInv /\ PacingInv /\ [Next]_vars => PacingInv'
<1> SUFFICES ASSUME TypeInv, PacingInv, [Next]_vars PROVE PacingInv'
  OBVIOUS
<1>1. CASE Tick
  BY <1>1, ConstantsTyped DEF Tick, PacingInv, assembler, TypeInv, TypeOK, NEVER
<1>2. CASE Start
  BY <1>2, RoundPacing DEF Start, PacingInv
<1>3. CASE Woken
  <2>1. last_publish # NEVER => now - last_publish >= MinPublishInterval
    BY <1>3, ConstantsTyped DEF Woken, TooSoon, TypeInv, TypeOK, NEVER
  <2> QED
    BY <1>3, <2>1, RoundPacing DEF Woken
<1>4. CASE Paced
  <2>1. now - last_publish >= MinPublishInterval
    BY <1>4, ConstantsTyped DEF Paced, PacingInv, TypeInv, TypeOK, NEVER
  <2> QED
    BY <1>4, <2>1, RoundPacing DEF Paced
<1>5. CASE Publish
  BY <1>5 DEF Publish, HandOver, PacingInv
<1>6. CASE Pace
  BY <1>6 DEF Pace, TooSoon, PacingInv
<1>7. ASSUME UNCHANGED <<now, assembler>> PROVE PacingInv'
  BY <1>7 DEF PacingInv, assembler
<1>8. ASSUME NEW v \in Viewers, AddListener(v) \/ DropListener(v)
      PROVE  UNCHANGED <<now, assembler>>
  BY <1>8 DEF AddListener, DropListener
<1>9. ASSUME NEW s \in Sources, Unpark(s) \/ Rested(s) \/ Gathers(s) \/ GatherFailed(s)
      PROVE  UNCHANGED <<now, assembler>>
  BY <1>9 DEF Unpark, Rested, LoopTop, Gathers, GatherOk, GatherFailed, Rest
<1>10. UNCHANGED vars => UNCHANGED <<now, assembler>>
  BY DEF vars
<1> QED
  BY <1>1, <1>2, <1>3, <1>4, <1>5, <1>6, <1>7, <1>8, <1>9, <1>10 DEF Next, Gathered, Assemble

(* Two pictures are never less than MIN_PUBLISH_INTERVAL apart (the end of   *)
(* the loop in assemble).                                                    *)
THEOREM PacingHolds == Spec => PublishPaced
<1>1. PacingInv /\ [Next]_vars
        => [stats' # stats /\ last_publish # NEVER
              => now - last_publish >= MinPublishInterval]_vars
  <2> SUFFICES ASSUME PacingInv, Next, stats' # stats, last_publish # NEVER
               PROVE  now - last_publish >= MinPublishInterval
    OBVIOUS
  <2>1. Publish
    BY DEF Next, Gathered, Tick, AddListener, DropListener, Unpark, Rested, LoopTop, Gathers,
           GatherOk,
           GatherFailed, Rest, Assemble, Start, Woken, Paced, Round, Pace, assembler
  <2> QED
    BY <2>1 DEF Publish, HandOver, PacingInv
<1> QED
  BY <1>1, InitPacing, NextPacing, TypeInvariant, PTL DEF Spec, PublishPaced

-----------------------------------------------------------------------------
(* The journal. *)

(* A section the assembler holds to be stale has been reported as stopped,   *)
(* although rounds nobody watches change statuses and report nothing: in     *)
(* those no section is stale.                                                *)
JournalInv == \A sec \in Sections : statuses[sec].stale => journal[sec] = "stopped"

(* What a round does to the journal, and to what it must agree with.         *)
LEMMA RoundJournal ==
  ASSUME TypeInv, JournalInv, Round
  PROVE  /\ JournalInv'
         /\ \A sec \in Sections :
              journal'[sec] # journal[sec] /\ journal'[sec] = "refreshing"
                => journal[sec] = "stopped"
<1>1. CASE (published # ver \/ NextStatuses # statuses) /\ Watched
  <2>1. statuses' = NextStatuses /\ journal' = Reported(statuses, NextStatuses)
    BY <1>1 DEF Round, Said
  <2>2. \A sec \in Sections :
          journal'[sec] = IF statuses[sec].stale = NextStatuses[sec].stale THEN journal[sec]
                          ELSE IF NextStatuses[sec].stale THEN "stopped" ELSE "refreshing"
    BY <2>1 DEF Reported
  <2>3. \A sec \in Sections : statuses[sec].stale \in BOOLEAN /\ NextStatuses[sec].stale \in BOOLEAN
    BY StatusType DEF TypeInv, TypeOK, SourceStatuses
  <2> QED
    BY <2>1, <2>2, <2>3 DEF JournalInv
<1>2. CASE (published # ver \/ NextStatuses # statuses) /\ ~Watched
  <2>1. statuses' = NextStatuses /\ journal' = journal
    BY <1>2 DEF Round, Said
  <2>2. \A sec \in Sections : ~NextStatuses[sec].stale
    BY <1>2, StatusType DEF TypeInv
  <2> QED
    BY <2>1, <2>2 DEF JournalInv
<1>3. CASE ~(published # ver \/ NextStatuses # statuses)
  BY <1>3 DEF Round, JournalInv
<1> QED
  BY <1>1, <1>2, <1>3

LEMMA InitJournal == Init => JournalInv
BY DEF Init, JournalInv

(* Only a round says anything or changes what the assembler holds.           *)
LEMMA QuietJournal ==
  ASSUME [Next]_vars, ~Start, ~Woken, ~Paced
  PROVE  UNCHANGED <<statuses, journal>>
BY DEF Next, Gathered, Assemble, Tick, AddListener, DropListener, Unpark, Rested, LoopTop,
       Gathers, GatherOk,
       GatherFailed, Rest, Publish, HandOver, Pace, assembler, vars

LEMMA NextJournal == TypeInv /\ JournalInv /\ [Next]_vars => JournalInv'
<1> SUFFICES ASSUME TypeInv, JournalInv, [Next]_vars PROVE JournalInv'
  OBVIOUS
<1>1. CASE Start \/ Woken \/ Paced
  BY <1>1, RoundJournal DEF Start, Woken, Paced
<1>2. CASE ~(Start \/ Woken \/ Paced)
  BY <1>2, QuietJournal DEF JournalInv
<1> QED
  BY <1>1, <1>2

(* The journal announces a recovery only of a section it last reported as    *)
(* stopped (report_staleness, and the rounds that keep silent).              *)
THEOREM RecoveriesFollowOutages == Spec => RecoveryFollowsOutage
<1> DEFINE Follows ==
      \A sec \in Sections :
        journal'[sec] # journal[sec] /\ journal'[sec] = "refreshing" => journal[sec] = "stopped"
<1>1. TypeInv /\ JournalInv /\ [Next]_vars => [Follows]_vars
  <2> SUFFICES ASSUME TypeInv, JournalInv, [Next]_vars PROVE Follows
    OBVIOUS
  <2>1. CASE Start \/ Woken \/ Paced
    BY <2>1, RoundJournal DEF Start, Woken, Paced
  <2>2. CASE ~(Start \/ Woken \/ Paced)
    BY <2>2, QuietJournal
  <2> QED
    BY <2>1, <2>2
<1>2. Spec => [][Follows]_vars
  BY <1>1, InitJournal, NextJournal, TypeInvariant, PTL DEF Spec
<1> QED
  BY <1>2 DEF RecoveryFollowsOutage

-----------------------------------------------------------------------------
(* The page implements the feed. *)

(* What the page shows is no newer than the picture on its way, and that is  *)
(* no newer than the slots.                                                  *)
OrderInv == \A sec \in Sections : stats.ver[sec] <= snapshot[sec] /\ snapshot[sec] <= ver[sec]

LEMMA InitOrder == Init => OrderInv
BY DEF Init, OrderInv, Nothing

LEMMA NextOrder == TypeInv /\ OrderInv /\ [Next]_vars => OrderInv'
<1> SUFFICES ASSUME TypeInv, OrderInv, [Next]_vars PROVE OrderInv'
  OBVIOUS
<1>1. \A sec \in Sections : stats.ver[sec] \in Int /\ snapshot[sec] \in Int /\ ver[sec] \in Int
  BY DEF TypeInv, TypeOK, Versions
<1>2. CASE Start \/ Woken \/ Paced
  <2>1. UNCHANGED <<stats, ver>> /\ (snapshot' = ver \/ snapshot' = snapshot)
    BY <1>2 DEF Start, Woken, Paced, Round, slots
  <2> QED
    BY <1>1, <2>1 DEF OrderInv
<1>3. CASE Publish
  <2>1. stats'.ver = snapshot /\ UNCHANGED <<snapshot, ver>>
    BY <1>3 DEF Publish, HandOver, slots
  <2> QED
    BY <1>1, <2>1 DEF OrderInv
<1>4. ASSUME NEW s \in Sources, NEW fresh, GatherOk(s, fresh)
      PROVE  OrderInv'
  <2>1. ver' = [sec \in Sections |-> IF sec \in fresh THEN ver[sec] + 1 ELSE ver[sec]]
    BY <1>4 DEF GatherOk
  <2>2. UNCHANGED <<stats, snapshot>>
    BY <1>4 DEF GatherOk, Rest, assembler
  <2> QED
    BY <1>1, <2>1, <2>2 DEF OrderInv
<1>5. CASE UNCHANGED <<stats, snapshot, ver>>
  BY <1>5 DEF OrderInv
<1>6. Pace \/ Tick \/ UNCHANGED vars => UNCHANGED <<stats, snapshot, ver>>
  BY DEF Pace, Tick, vars, slots, assembler
<1>7. \A v \in Viewers : AddListener(v) \/ DropListener(v) => UNCHANGED <<stats, snapshot, ver>>
  BY DEF AddListener, DropListener, slots, assembler
<1>8. \A s \in Sources : Unpark(s) \/ Rested(s) \/ GatherFailed(s)
                           => UNCHANGED <<stats, snapshot, ver>>
  BY DEF Unpark, Rested, LoopTop, GatherFailed, Rest, slots, assembler
<1> QED
  BY <1>2, <1>3, <1>4, <1>5, <1>6, <1>7, <1>8 DEF Next, Gathered, Assemble, Gathers

(* Every step of the sources and the assembler is a step of the feed: a      *)
(* gather that hands on new values produces, a picture handed over shows,    *)
(* and the others change nothing the feed knows of.                          *)
LEMMA StepImplements ==
  ASSUME TypeInv, OrderInv, [Next]_vars
  PROVE  [Page!Next]_(Page!vars)
<1>1. CASE Publish
  <2>1. stats'.ver = snapshot /\ ver' = ver
    BY <1>1 DEF Publish, HandOver, slots
  <2>2. snapshot \in [Sections -> Int]
    BY DEF TypeInv, TypeOK, Versions
  <2>3. Page!Show
    BY <2>1, <2>2 DEF Page!Show, OrderInv
  <2> QED
    BY <2>3 DEF Page!Next
<1>2. ASSUME NEW s \in Sources, Gathers(s)
      PROVE  Page!Next
  <2>1. PICK fresh \in SUBSET Sections : GatherOk(s, fresh)
    BY <1>2 DEF Gathers, Fills
  <2>2. ver' = [sec \in Sections |-> IF sec \in fresh THEN ver[sec] + 1 ELSE ver[sec]]
    BY <2>1 DEF GatherOk
  <2>3. stats' = stats
    BY <2>1 DEF GatherOk, Rest, assembler
  <2>4. Page!Produce
    BY <2>2, <2>3 DEF Page!Produce
  <2> QED
    BY <2>4 DEF Page!Next
<1>3. CASE UNCHANGED <<stats, ver>>
  BY <1>3 DEF Page!vars
<1>4. Start \/ Woken \/ Paced \/ Pace \/ Tick \/ UNCHANGED vars => UNCHANGED <<stats, ver>>
  BY DEF Start, Woken, Paced, Round, Pace, Tick, vars, slots, assembler
<1>5. \A v \in Viewers : AddListener(v) \/ DropListener(v) => UNCHANGED <<stats, ver>>
  BY DEF AddListener, DropListener, slots, assembler
<1>6. \A s \in Sources : Unpark(s) \/ Rested(s) \/ GatherFailed(s) => UNCHANGED <<stats, ver>>
  BY DEF Unpark, Rested, LoopTop, GatherFailed, Rest, slots, assembler
<1> QED
  BY <1>1, <1>2, <1>3, <1>4, <1>5, <1>6 DEF Next, Gathered, Assemble

(* The page follows the slots as Feed promises, whatever the sources do and  *)
(* however the assembler's wait for the lock interleaves with them.          *)
THEOREM PageImplementsFeed == Spec => PageIsFeed
<1>1. Init => Page!Init
  BY DEF Init, Page!Init, Nothing
<1> QED
  BY <1>1, InitOrder, NextOrder, StepImplements, TypeInvariant, PTL
  DEF Spec, PageIsFeed, Page!Safe
=============================================================================
