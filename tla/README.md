# z-proxmon: a verification of its core

z-proxmon shows the state of a Proxmox node on a web page. Eight sources gather statistics, each at
its own rate and only while somebody watches; an assembler puts their sections together; the page
gets the result over an event stream, and a log on disk keeps it for replay. This directory models
the parts of `src/` where tasks, threads, timers and pages interleave, checks them with TLC, and
proves their safety properties for every value of the constants with TLAPS.

## The system

Everything runs on one single-threaded compio runtime, except the thread that talks to the Tapo
plug and the blocking pool that sysinfo is read on. Code between two awaits is therefore atomic;
what interleaves is what tasks do around their awaits. One source asks for its figures without an
await: `gpu_source` calls NVML on the runtime's own thread.

| Component | State it keeps | Operations | Interacts with | What makes it correct |
|---|---|---|---|---|
| Sources and slots (`monitor.rs`) | per section an `Arc` and `last_ok`; per source where it is in its loop | wait for listeners, gather, `publish*`, sleep | `Sources.changed` wakes the assembler; `listener_notify` wakes them | no source stays parked while a page is open; what it hands on reaches the page; one that hangs leaves the others running |
| Listeners (`add_listener`) | `listener_count`, `listeners_since` | guard made, guard dropped | made by event streams | the count is that of the guards; `listeners_since` says whether there are any |
| Assembler (`assemble`, `publish`) | last picture, last statuses, last publish, journal lines | rounds, with an await on the stats lock, a wait with a heartbeat, a pacing sleep | reads slots, writes `State.stats` | no lost wakeup, prompt and paced pictures, hung sources flagged, working ones not, truthful journal |
| Tapo client (`tapo.rs`) | two one-slot queues, the plug's session | `poll_energy`; the worker's fetch, retry, answer and back-off | polled by `energy_source`; own thread | each command answered once, failures only the plug's, readings keep coming, never an older one |
| Container names (`cgroup_info.rs`, `cgroup_source`) | an LRU cache of names and failures; the section, by pid | passes of one lookup per listed pid, concurrently | reads the process and GPU sections; the assembler joins its section by pid | failures left alone for a minute, a pid's earlier process forgotten within a pass, rows right in the end, a known name stands, a hang costs its own rows |
| Log writer (`log_updates`) | the files, its buffer, its listener | append, roll over every hour | follows `State.stats` | every picture or a later one is logged, in order |
| Log cursor (`LogCursor`) | file, position, undecoded bytes | `skip_to_hour`, `next` | reads files being written to | no torn record, nothing of the history it was opened on left out, it ends |
| Event streams (`sse_handler`) | a one-slot queue, a producer and a keep-alive task | replay, follow, keep alive, cancel | holds a listener guard; reads log and stats | guards counted once and released, the page moves forward and catches up |
| Page (`index.html`) | charts, the latest picture and time, the wish to draw, its connection | connecting again, `history` and `stats` events, another window, frames with their pruning, badges | reads the stream | charts in order and whole, of one window, the newest picture kept and drawn |
| IO wait (`io_wait.rs`) | the counters of the last reading | one reading of `/proc/stat` | run by `io_delay_source` | the share of the time between two readings, over all processors |
| System, GPU, Proxmox figures | none | one conversion per gather | called by sources | arithmetic on what is read |
| `ErrorLog` (`monitor.rs`) | the last error | said or not | one inside each source | each failure said once |

Hard behaviours: notifications that only reach an armed listener; awaits between reading state and
using it; tasks cancelled at any await; a plug, a docker or a `pvesh` that fails or never answers; a
call into NVML that keeps the only thread; viewers that come and go while sources park and resume; a
file read while it is written; pids that pass from one process to another; a page whose stream
starts over under what it has drawn.
`PROJECT.json` lists these as hazards, each at its line.

## The modules

| Module | Models | Read it as |
|---|---|---|
| `Feed` | what is promised whenever one task publishes and another follows through an armed notification | `Produce` hands on versions; `Show` shows some version no older than before and no newer than the latest |
| `Monitor` | sources, slots, listeners and assembler of `monitor.rs` | `LoopTop` is `wait_for_listeners`; `GatherOk`/`GatherFailed` end a gather and begin the sleep; `Held` says that a source of `Blocking` gathers, and so keeps the thread: nothing else but the clock goes on; `Round` is one turn of `assemble` up to its await; `Publish` is what follows the await on the lock; `WakeUp`, `Pace`, `Woken` and `Paced` are the end of the loop |
| `MCMonitor` | its instances for TLC | `system_source` with two sections, `gpu_source`, which keeps the thread, `lxc_source`, which may fail or hang |
| `MonitorProofs`, `MonitorTimeProofs` | theorems about `Monitor`: its order, and its clock | see below |
| `TapoLink` | `tapo.rs` and its poller | a poll is `BeginPoll`, `Drain`, `Drained`, `Ask`, between which the worker's thread may do anything |
| `TapoLinkProofs`, `ContainerNamesProofs`, `MonitorLogProofs`, `SseStreamProofs`, `PageProofs` | theorems about the module each is named after | see below |
| `Extrema` | nothing: two lemmas about sets of natural numbers | what the proofs use in place of induction |
| `ContainerNames`, `MCContainerNames` | `cgroup_info.rs`, `cgroup_source`, the sections it takes its pids from, and `cgroup_info_for` | `ListProcesses`/`ListGpus` are the other sources' publishes; `Read` runs a lookup to its await on docker, `Named`/`Unnamed` finish it; `Row` is the join |
| `MonitorLog` | writer and cursors of `monitor_log.rs` | one action per await: a lock, an open, one `write_at`, one `read_at` |
| `SseStream` | `sse_handler` | the producer's awaits, the keeper's, and the page |
| `Page` | the script of `index.html` | `History` and `Stats` are the two listeners, `ChangeWindow` is `initSse` with the choice that calls it, `Draw` a frame of `renderLoop` that draws; `Lose`, `Connect` and `Restart` are EventSource and the server |
| `IoWait` | `io_wait.rs` | `Update` is `IoWait::update`, `Parts` what it parses, `Elapse` the kernel's counting |

How they compose: `Monitor`'s page and `MonitorLog`'s log are both shown to implement `Feed`
(`INSTANCE ... WITH` the versions as `latest` and `seen`), which is what `MonitorLog` and
`SseStream` assume of `State.stats`, and `SseStream` assumes of the log: versions, in order, perhaps
skipping. `SseStream`'s `EveryGuardCounts` and `GuardsReleased` justify `Monitor`'s viewers, each
adding one guard and dropping it once. `SseStream`'s `PageMovesForward` and order of events are what
`Page` assumes of a connection: the records of the log in order, then pictures no older than the
last of them. `ContainerNames` is one of `Monitor`'s sources seen from inside: `names_hang` is a
gather that never ends and holds up nobody else, which `HungIsFlagged` flags; `TapoLink`'s
`PollsEnd` is why the energy source is not such a one.

### Abstractions

- A section's or picture's value is its version. `Arc::ptr_eq` compares identities, so versions are
  what it tells apart. A gather says which of its sections changed (`fresh`), which covers
  `publish`, `publish_owned` and `publish_always`.
- `Monitor` counts time in ticks, one being the second of `now_unix()`. The wall clock and `Instant`
  move together, forward: steps of the wall clock are not modelled. Timers that are not running are
  0. A tick passes only when no task can run (`Runnable`): the runtime polls what is ready in far
  less than a second, unless a source keeps its thread.
- `Blocking` are the sources that keep the thread while they gather, `Hanging` those whose gathers
  may never end, and `GatherLimit` says how long the gathers of the others may take. What is said of
  working sources, of hangs and of prompt pictures rests on the thread coming back, which nothing in
  the code ensures. `ThreadComesBack` says so, and is a hypothesis of the theorems that need it:
  a source of `Blocking` does not hang, and is done within the second. `monitor_gpu` shows what
  happens without it.
- `notify` reaches a listener only while it is armed; that, the locks, the bounded queues, the
  runtime, `lru`, `/proc`, docker, the plug, axum and the browser are external, and modelled from
  how `src/` uses them.
- `MonitorLog` encodes a picture as `Units` bytes that know their record, so that a torn record is
  visible. Instants are `2v` when version `v` is published and `2v+1` until the next. Nothing is
  assumed of how the writer and the cursors take turns: a picture published during a write lets the
  writer go on at once, over several of its steps, before a cursor looks at what it has read.
- `SseStream` asks for all of the log; which part of it a page asks for is `MonitorLog`'s `Open`.
- An answer of the plug is a reading or a failure, and early or not: whether it existed before the
  poll began. `Hang` is a call that never returns: no timeout surrounds them.
- In `ContainerNames` a process is the container it is in, and a pid may pass from one process to
  another (`Exit`, `Start`). A read of `/proc` fails only because the process has gone; other errors
  leave no entry either. The LXC's part of a row is left out.
- `Page` has one chart for all, since each gets the points of the same pictures; a dataset of an item
  that is not in every picture has fewer, inserted in the same way. Seconds are those of
  `updated_at`, which the page's points are keyed by, so two pictures may share one. The page starts
  with the browser's clock as its latest time, up to `Ahead` ahead of the server's. A server that
  restarts begins a new log, and its pictures continue the versions. The axes' display cutoff, the
  badges and the tables' layout are left out.
- `IoWait` keeps two of ten columns and two processors, and a window of a few bytes in place of 224;
  what makes the case is that the window ends beyond the first line, as it does when the first line's
  numbers have not twenty digits each. The early return on fewer than five numbers (`io_wait.rs:33`)
  is left out: the kernel's lines have ten.

## What is checked

Each run is a configuration of the same name; the bounds are its constants.

| Run | Bounds | Shows |
|---|---|---|
| `monitor_time` | 2 viewers; the GPU source, which keeps the thread but gives it back, with a threshold of 6, and one that may fail or hang, with 4; a section each, 1 version after the first; 8 ticks, heartbeat 2 | no lost wakeup, no source asleep while watched; a hung source flagged within its threshold and a heartbeat, and holding up no other; a working one never flagged; pictures prompt, paced and in order; no recovery without an outage, and a false one only for those who have come since |
| `monitor_gpu` | 1 viewer, 3 sections of 2 sources, 8 ticks, thresholds of 4 and 6; NVML may not return | **violated**: what the GPU waits for leaves the other sections standing still |
| `tapo_link` | none but the code's own: two one-slot queues | each command answered once, failures are the plug's, readings keep coming once the plug has settled, polls end whatever hangs, no deadlock |
| `tapo_lag` | the same | **violated**: a poll returns a reading although a newer one was there before it began |
| `names` | 2 processes, of which 1 may exit, time and again, and others take its pid, in the other's container or in none; 2 containers, a process table of 1 row, a GPU with the mortal pid, a cache of 1 | failures left alone, a pid's earlier process forgotten within a pass, rows right in the end |
| `names_overwritten` | 2 processes of one container, a cache of 2 | **violated**: a known name is replaced by a failure |
| `names_hang` | 2 processes, a container that hangs | **violated**: processes elsewhere are never shown |
| `log` | 1 cursor, 3 files, 3 pictures of 2 bytes, reads of up to 3 bytes | no torn record, records in order and missing only at the end of a file, the whole history, the log implements `Feed`, histories end and pictures are logged whatever the locks |
| `log_skipped` | the same | **violated**: a cursor leaves out a record between two it returns |
| `sse` | 1 stream, batches of 2, 4 pictures | guards counted once and released, the page moves forward and catches up |
| `page` | 3 pictures within 3 seconds (0 to 2), windows of 0 and 1 of the 1 second kept, batches of 2, any number of reconnections | points in order, one to a second, none missing, none of an older window; the newest picture kept once live, and drawn |
| `io_wait` | a window of 7 bytes, 12 ticks | **violated**: the delay is not the first line's |

Why these bounds are enough: `HungIsFlagged` has a flag due once more than the threshold of 4 and
the heartbeat of 2 have gone by, on the seventh tick, so eight ticks reach it, also for a viewer who
comes, leaves and comes back at once, or a tick later. The GPU's threshold is six because its
interval is two, so `NoFalseAlarm` and `HangStaysInItsSection` have two ticks in which to fail for
it. Two viewers are what it takes for one to leave while another stays, and viewers differ in
nothing, hence the symmetry. Working gathers end in the tick they begin in, which for the GPU is
`ThreadComesBack`; that others may take longer, within `WorkingSourcesAreQuick`, only the theorems
cover. `monitor_gpu` gives the other source two sections, as `system_source` has.

A cache smaller than the containers forces evictions; two processes, when the second pid passes into
the first one's container, force concurrent lookups of one key; a table of one row makes rows come
and go. Three files give a cursor one before, at and
after its own; records of two bytes and short writes of one leave halves to read; cursors share
nothing but the locks they read under, so one shows what the writer can do to any. Four pictures are
a full batch, a remainder and a live event; streams share nothing but the count, to which each adds
at most one. Three pictures in up to three seconds can be two of one second and one before or after
it; a replay of them is a full batch and a rest, over live points of the same pictures or of others;
and with one second kept, the first of three seconds is pruned. `io_wait` fails at the second
reading; with a window that ends with the first line (`Window = 4`) TLC finds no violation, so it is
the window that breaks it.

Deadlock is checked for `TapoLink`, `ContainerNames` and `Page`; the other models may stop: `Monitor`
at `MaxTime`, the log and the streams when `MaxVersion` pictures have been handled. `HistoryEnds` and
`LogCatchesUp` are what speaks against a deadlock of the log's locks.

Every property has a mutant: an operator marked *Fault* beside the definition it replaces, a bug of
the kind the code could have, under which TLC finds the property violated.

### Fairness

Only what `src/` and its runtime guarantee: a task that is ready is polled (`WF` on the writer, a
cursor, the keeper), a source or lookup that is not faulty answers, the plug's worker is scheduled
and its calls end unless they hang, passes of `cgroup_source` follow each other while somebody
watches, an open page reads its stream, and sixty seconds pass. A browser connects again, hands over
the events it is sent and calls for frames; that it stays connected is a premise of `TablesCatchUp`.
`Monitor` needs no fairness: that its clock waits for whatever can run makes what must happen in
time an invariant (`HungIsFlagged`, `PageIsPrompt`). `SseStream`'s producer is strongly fair because
the slot it waits for is taken by the keeper once in fifteen seconds and no more. Nothing makes
viewers come, plugs work, docker answer or processes live.

## What is proved

Every safety invariant and action property that a passing run checks is a theorem of the model's
specification, and so are both refinements of `Feed`. The theorems hold for every value of the
constants that satisfies the module's `ConstantsTyped`: any finite set of viewers, any sources,
sections and intervals, any streams, cursors, sizes of batches, records and reads, any pids,
containers and cache, any windows, and any bounds. TLC evaluates each assumption in the run of its
module. Only `MonitorTimeProofs` assumes more: two assumptions of `Monitor`, and, in the theorems
marked so, `ThreadComesBack`, which `monitor_time` satisfies and `monitor_gpu` does not.

The prover cannot instantiate the library's induction principles, so what would be an induction goes
by the smallest exception: `Extrema` proves from the well-foundedness of `<` that a set of natural
numbers has a smallest element, and one that is bounded has a largest.

### Monitor

| Theorem | Says | Argument |
|---|---|---|
| `TypeCorrect` | `[]TypeOK` | `TypeInv` = `TypeOK` and `ListenersCounted` |
| `CountIsGuards` | the count is the number of guards, and `listeners_since` is `NEVER` exactly while it is 0 | needed for the count to stay natural when a guard is dropped |
| `WakeupsKept` | `[]NoLostWakeup` | `WakeupInv`: while the picture is on its way and nothing has been announced, the snapshot is still what the slots hold. `NoLostWakeup` alone is not inductive: it says nothing of the await on the lock |
| `SourcesAwake` | `[]NoSourceSleepsIn` | inductive given the types |
| `PacingHolds` | `PublishPaced` | `PacingInv`: a picture is on its way only when the last is old enough, a pause ends exactly then |
| `RecoveriesFollowOutages` | `RecoveryFollowsOutage` | `JournalInv`: a section held stale has been reported as stopped; unwatched rounds report nothing, but leave nothing stale |
| `PageImplementsFeed` | `Spec => PageIsFeed` | `OrderInv`: page, picture on its way and slots are in that order per section; each step maps to `Produce`, `Show` or a stutter |
| `NobodyFalselyAccused` | `ThreadComesBack` implies `[]NoFalseAlarm` | `TimeInv`: a working source's next answer is due within one interval and one gather of its last one, or within one gather of the arrival that unparked it (`InTime`); a status is therefore fresh whenever a round looks. `NoFalseAlarm` alone says nothing of the time a source has left |
| `OthersKeepUp` | `ThreadComesBack` implies `[]HangStaysInItsSection` | from `TimeInv` as well: whoever else hangs, a working source's last answer is younger than its threshold |
| `HangsShow` | `ThreadComesBack` implies `[]HungIsFlagged` | `Judged`: what the page shows was judged at most a heartbeat ago, because the assembler's wait ends by then, whatever is announced, and a pause ends before it would |
| `RecoveriesAreRealOrRejoined` | `RecoveryIsRealOrRejoined` | `Judgement`: what a section called stale meant at the round that called it so, for those watching and for its last answer; if neither has changed since, it is stale still |
| `PagePrompt` | `ThreadComesBack` implies `[]PageIsPrompt` | from `WakeupInv`: what is not shown is announced or being published, so the assembler can run, or it pauses, for the rest of the floor at most |

From `NobodyFalselyAccused` on they are in `MonitorTimeProofs`. They are about how far apart two
readings of the clock can be, and rest on the clock waiting for whatever can run.
`ThreadComesBack` is what a gather that keeps the thread would take from them: no round judges and
no source answers while the clock goes on. `WorkingSourcesAreQuick` says what a working source
is: one whose gathers take no longer than two of its intervals, or end within `MIN_STALE_AFTER_SECS`
of its last; without it the theorem would be false, since nothing in the code limits a gather.
`PacingBelowHeartbeat` is 100 ms against 1 s (`monitor.rs:46` and `:53`).

### The other components

| Module | Theorem | Says | Argument |
|---|---|---|---|
| `TapoLinkProofs` | `TypeCorrect` | `[]TypeOK` | the queues have one slot |
| | `EveryCommandAnswered` | `[]AnsweredExactlyOnce` | `AnswerInHand`: in which steps the worker holds an answer it owes, so that none is sent without a command or twice; a command whose call hangs stays owed its answer, and that it is given is not claimed |
| | `NoFailureButThePlugs` | `[]FailureIsThePlugs` | `SessionHeld`: what the session looks like while the worker connects or calls; `RetryDisturbed`: a second attempt about to fail has been disturbed. The failure is judged long after the disturbance, so the property alone is not inductive |
| `ContainerNamesProofs` | `TypeCorrect` | `[]TypeOK` | `CacheInv`: no key twice, and a key for exactly the entries; eviction then keeps the size |
| | `PassesForget` | `NoEntryOutlivesItsPass` | `PassInv`: what a lookup asks about, and what the section holds, was the pid's at some time of this pass |
| | `FailuresRest` | `FailedAreLeftAlone` | `RestingInv`: an entry that failed within `NAME_RETRY_AFTER` is still marked so, or it is gone and the cache full |
| `MonitorLogProofs` | `TypeCorrect` | `[]TypeOK` | with `WriterInv`, which relates the writer's step to what is left of its record |
| | `NeverTorn` | `[]NoTornRecord` | `LogInv` says that every file is records one after the other, but for what the writer has in hand (`InRecords`, `Ends`), in the order of versions across files (`Ordered`, `Bounded`, `Stamped`); `Placed` says that a cursor's buffer is what its file holds from a record's start on. A record decoded is then one of the file's (`RecordAt`) |
| | `GapsAtEnds` | `[]OnlyTailsSkipped` | `Returned`: of each file's records a cursor has returned the ones before its position there, and nothing else. A gap can then only be the end of a file it has left; `log_skipped` shows that it can be there |
| | `WholeHistory` | `[]HistoryIsWhole` | `Owed`: what a cursor owed when it was opened lies at or after the file it begins with, and is returned or ahead. It does not rest on the file being complete when a cursor leaves it: what is added to it later was not owed |
| | `LogImplementsFeed` | `Spec => LogIsFeed` | the newest version logged never goes back (`GrownByStep`) nor beyond the latest published; each step maps to `Produce`, `Show` or a stutter |
| `SseStreamProofs` | `TypeCorrect` | `[]TypeOK` | the queues have one slot; the newest of a set of versions is one of them |
| | `GuardsCounted` | `[]EveryGuardCounts` | with `Unasked`: a stream nobody asked for has no producer |
| | `PagesMoveForward` | `PageMovesForward` | `InOrder`: what a page was handed is no newer than what waits in its queue, that no newer than what its producer is sending, and all of it no newer than the cursor while the log is replayed |
| `PageProofs` | `TypeCorrect` | `[]TypeOK` | `Lists`: chart and pictures are sequences |
| | `ChartsAreClean`, `ChartsAreOfOneWindow`, `ChartsAreWhole` | `[]ChartIsClean`, `[]NoOldArrays`, `[]NoHole` | inductive together (`Good`), from three lemmas: insertion keeps the order and every second (`InsertOf`), so does a whole event of history (`ChartedOf`), and pruning takes only what is old (`PrunedOf`) |
| | `LivePagesAreCurrent` | `[]LiveIsCurrent` | `Current`: what the connection may still send is no older than anything handed over or shown; `LiveIsCurrent` alone says nothing of a replay |

### Only model-checked

All liveness (`ReadingsKeepComing`, `PollsEnd`, `RowsComeRight`, `LogCatchesUp`,
`HistoryEnds`, `GuardsReleased`, `StreamCatchesUp`, `TablesCatchUp`) and the absence of deadlock:
fairness and `ENABLED` are beyond the prover. The six violated properties have nothing to prove.
`IoWait` has only such a one.

## What the checks found

1. `monitor.rs:482`: a call into NVML that does not return keeps the only thread. The assembler and
   its heartbeat stop with everything else, so every section stands still, the page freezes, and
   none is flagged; a call that takes seconds makes the others look stale. `monitor.rs:6` promises
   that a source can only leave its own section standing still. `HangsShow` and the others say what
   holds of a hang that gives the thread back.
2. `monitor.rs:589`: when the last viewer leaves and another comes before the next round, a section
   reported as stopped is reported as "refreshing again" while its source still hangs.
   `RecoveryIsRealOrRejoined` says exactly when: its second disjunct is that case, without it TLC
   finds it violated, and the theorem says that there is no other.
3. `tapo.rs:54`: draining does not end with the newest answer when the worker is waiting to send it.
   After a park, what is returned may be as old as the park.
4. `cgroup_info.rs:143`: a failed lookup overwrites a name a concurrent one has just found.
5. `monitor.rs:525`: a lookup that hangs keeps the whole section from being published.
6. `monitor_log.rs:116`: a cursor that has read to the end of a file looks only then whether another
   follows. A record can be completed and the next file created in between, because a picture
   published during the write lets the writer go on at once; the cursor goes on past that record,
   and the page misses a second at the hour.
7. `io_wait.rs:26`: the numbers of the lines after the first are summed into the total, as far as the
   window holds them, so the IO delay is understated, or jumps when a number cut off at the window's
   end gains a digit.

What holds may surprise as well: while history is replayed, after a reconnection too, the tables show
its pictures, not the newest (`latestStats = stats` in the `history` listener). `LiveIsCurrent` says
that this ends with the first live picture, and `TablesCatchUp` that the tables follow.

## What is not modelled

- `ErrorLog`: each is owned by one task and read by nothing, and says a text unless it is that of the
  last error. The one all container lookups share is a hazard (`monitor.rs:534`).
- The conversions of `get_stats.rs`, `nvidia.rs` and `proxmox.rs`, which copy fields and divide: they
  keep no state, and floats are out of TLC's reach (a machine without swap, `get_stats.rs:27`).
  Which pids the process and GPU sections list is in `ContainerNames`.
- The LXC's name in a row, looked up by VM id in the container list; the parsing of
  `/proc/<pid>/cgroup`.
- The page's badges, wording and layout, and the axes' display cutoff.
- Start-up, routing and deployment, which keep no state.
- Within modelled parts: steps of the wall clock, the writer's panics when the disk fails, and the
  growth of the log, which nothing in the code bounds.

## Plan

1. Done: `Feed`, `Monitor`, `TapoLink`, `ContainerNames`, `MonitorLog`, `SseStream`, `Page`, `IoWait`,
   their runs, and a theorem for each safety property of a passing run.
2. Left: absence of deadlock as an invariant (in every state the guard of some step holds), which needs
   no `ENABLED`, for `TapoLink` and `ContainerNames`; the order in which the models compose, as
   theorems: each page of `SseStream` implements `Feed`, and what its producer sends is what `Page`
   takes from a connection.
