----------------------------- MODULE TapoLink ------------------------------
(***************************************************************************)
(* src/src/tapo.rs, and the energy_source of src/src/monitor.rs that polls *)
(* it: the two one-slot queues between the monitor and the thread that     *)
(* talks to the plug, and the session that thread keeps with it.           *)
(*                                                                         *)
(* The monitor's thread and the worker's run side by side, so a poll is    *)
(* three steps here: each queue operation is atomic, and the worker may do *)
(* anything between two of them.  The plug and the tapo crate are external.*)
(*                                                                         *)
(* An answer is told apart by whether it is a reading, and by whether it   *)
(* was there before the current poll began.                                *)
(***************************************************************************)
EXTENDS Integers, Sequences

VARIABLES
  poller,    \* "resting", "draining" or "asking"
  got,       \* what the last poll returned, or is about to: answers, at most one
  commands,  \* command queue: how many commands it holds
  data,      \* data queue: the answers it holds
  worker,    \* "idle", "connecting", "calling", "hung" in a call, "sending" or "backoff"
  attempt,   \* 1, or 2 for the retry
  hand,      \* the answers the worker is sending, at most one
  session,   \* its session with the plug: "none", "live" or "forgotten" by the plug
  plug,      \* "up" or "down"
  disturbed, \* the plug went down or dropped its session since the attempt began
  owed       \* commands accepted and not answered yet

monitor == <<poller, got>>
queues == <<commands, data>>
work == <<worker, attempt, hand, session>>
vars == <<monitor, queues, work, plug, disturbed, owed>>

Slot == 1   \* NonZeroUsize::MIN

Reading == [ok |-> TRUE, before |-> FALSE]
Failure == [ok |-> FALSE, before |-> FALSE]

-----------------------------------------------------------------------------
(* energy_source: one poll_energy after another, while anyone watches. *)

Early(answers) == [i \in DOMAIN answers |-> [answers[i] EXCEPT !.before = TRUE]]

BeginPoll ==
  /\ poller = "resting"
  /\ poller' = "draining"
  /\ got' = <<>>
  /\ data' = Early(data) /\ hand' = Early(hand)
  /\ UNCHANGED <<commands, worker, attempt, session, plug, disturbed, owed>>

\* try_recv finds an answer, which supersedes the one before it.
Drain ==
  /\ poller = "draining" /\ data # <<>>
  /\ got' = <<Head(data)>>
  /\ data' = Tail(data)
  /\ UNCHANGED <<poller, commands, work, plug, disturbed, owed>>

Drained ==
  /\ poller = "draining" /\ data = <<>>
  /\ poller' = "asking"
  /\ UNCHANGED <<got, queues, work, plug, disturbed, owed>>

\* Fault: a request only once the last one has been answered.
AskIfAnswered ==
  /\ poller = "asking"
  /\ poller' = "resting"
  /\ IF got # <<>> /\ commands < Slot
       THEN commands' = commands + 1 /\ owed' = owed + 1
       ELSE UNCHANGED <<commands, owed>>
  /\ UNCHANGED <<got, data, work, plug, disturbed>>

\* Fault: send in place of try_send, which waits for room.
AskAndWait ==
  /\ poller = "asking" /\ commands < Slot
  /\ poller' = "resting"
  /\ commands' = commands + 1 /\ owed' = owed + 1
  /\ UNCHANGED <<got, data, work, plug, disturbed>>

\* try_send: a full command queue is left alone.
Ask ==
  /\ poller = "asking"
  /\ poller' = "resting"
  /\ IF commands < Slot
       THEN commands' = commands + 1 /\ owed' = owed + 1
       ELSE UNCHANGED <<commands, owed>>
  /\ UNCHANGED <<got, data, work, plug, disturbed>>

-----------------------------------------------------------------------------
(* The worker's thread: fetch_energy, once and again on failure, and the answer. *)

\* fetch_energy takes the session it finds, or makes one.
Fetching(held) == IF held = "none" THEN "connecting" ELSE "calling"

TakeCommand ==
  /\ worker = "idle" /\ commands > 0
  /\ commands' = commands - 1
  /\ attempt' = 1
  /\ disturbed' = (plug = "down")
  /\ worker' = Fetching(session)
  /\ UNCHANGED <<monitor, data, hand, session, plug, owed>>

Connected ==
  /\ worker = "connecting" /\ plug = "up"
  /\ session' = "live"
  /\ worker' = "calling"
  /\ UNCHANGED <<monitor, queues, attempt, hand, plug, disturbed, owed>>

Answered ==
  /\ worker = "calling" /\ plug = "up" /\ session = "live"
  /\ worker' = "sending" /\ hand' = <<Reading>>
  /\ UNCHANGED <<monitor, queues, attempt, session, plug, disturbed, owed>>

\* Fault: the session put back whether or not the call went well.
SessionPutBack == session

\* The device was taken out, and only a call that works puts it back.
SessionAfterFailure == "none"

\* Fault: the first failure left to the next command.
FailedUnanswered ==
  /\ session' = SessionAfterFailure
  /\ IF attempt = 1
       THEN worker' = "idle" /\ UNCHANGED <<attempt, hand, disturbed>>
       ELSE /\ worker' = "sending" /\ hand' = <<Failure>>
            /\ UNCHANGED <<attempt, disturbed>>

Failed ==
  /\ session' = SessionAfterFailure
  /\ IF attempt = 1
       THEN /\ attempt' = 2 /\ worker' = Fetching(session')
            /\ disturbed' = (plug = "down")
            /\ UNCHANGED hand
       ELSE /\ worker' = "sending" /\ hand' = <<Failure>>
            /\ UNCHANGED <<attempt, disturbed>>

\* A plug that is down refuses, or says nothing until the call gives up.
ConnectFailed ==
  /\ worker = "connecting" /\ plug = "down"
  /\ Failed
  /\ UNCHANGED <<monitor, queues, plug, owed>>

CallFailed ==
  /\ worker = "calling" /\ (plug = "down" \/ session # "live")
  /\ Failed
  /\ UNCHANGED <<monitor, queues, plug, owed>>

\* No timeout surrounds a call, and the plug may leave it without an answer for good.
Hang ==
  /\ worker \in {"connecting", "calling"}
  /\ worker' = "hung"
  /\ UNCHANGED <<monitor, queues, attempt, hand, session, plug, disturbed, owed>>

Deliver ==
  /\ worker = "sending"
  /\ data' = data \o hand /\ hand' = <<>>
  /\ owed' = owed - 1
  /\ worker' = IF Head(hand).ok THEN "idle" ELSE "backoff"
  /\ UNCHANGED <<monitor, commands, attempt, session, plug, disturbed>>

\* Fault: the answer sent whether or not the slot is free.
SendAnyway == Deliver

\* send_async waits for the slot; a failure is followed by RETRY_BACKOFF.
Send == Len(data) < Slot /\ Deliver

BackedOff ==
  /\ worker = "backoff"
  /\ worker' = "idle"
  /\ UNCHANGED <<monitor, queues, attempt, hand, session, plug, disturbed, owed>>

-----------------------------------------------------------------------------
(* The plug. *)

Forget == /\ session' = IF session = "live" THEN "forgotten" ELSE session
          /\ disturbed' = TRUE
          /\ UNCHANGED <<monitor, queues, worker, attempt, hand, owed>>

PlugGoes == plug = "up" /\ plug' = "down" /\ Forget

PlugReturns == plug = "down" /\ plug' = "up"
               /\ UNCHANGED <<monitor, queues, work, disturbed, owed>>

SessionDropped == plug = "up" /\ session = "live" /\ Forget /\ UNCHANGED plug

-----------------------------------------------------------------------------
Init ==
  /\ poller = "resting" /\ got = <<>>
  /\ commands = 0 /\ data = <<>>
  /\ worker = "idle" /\ attempt = 1 /\ hand = <<>>
  /\ session = "none"
  /\ plug \in {"up", "down"} /\ disturbed = FALSE
  /\ owed = 0

Poll == BeginPoll \/ Drain \/ Drained \/ Ask

Work == TakeCommand \/ Connected \/ Answered \/ ConnectFailed \/ CallFailed \/ Send \/ BackedOff

Next == Poll \/ Work \/ Hang \/ PlugGoes \/ PlugReturns \/ SessionDropped

Spec == Init /\ [][Next]_vars

\* Someone watches, so the monitor keeps polling; the worker's thread is
\* scheduled, and a call that does not hang ends.  Nothing makes the plug work.
FairSpec == Spec /\ WF_vars(Poll) /\ WF_vars(Work)

-----------------------------------------------------------------------------
(* Properties. *)

Answers == [ok : BOOLEAN, before : BOOLEAN]

AtMostOne(S) == {<<>>} \cup {<<x>> : x \in S}

(* Every variable stays in its type; neither queue holds more than its slot. *)
TypeOK ==
  /\ poller \in {"resting", "draining", "asking"}
  /\ got \in AtMostOne(Answers)
  /\ commands \in 0 .. Slot
  /\ data \in AtMostOne(Answers)
  /\ worker \in {"idle", "connecting", "calling", "hung", "sending", "backoff"}
  /\ attempt \in {1, 2}
  /\ hand \in AtMostOne(Answers)
  /\ session \in {"none", "live", "forgotten"}
  /\ plug \in {"up", "down"}
  /\ disturbed \in BOOLEAN
  /\ owed \in Nat

Busy == worker \in {"connecting", "calling", "hung", "sending"}

(* No command is answered twice or dropped, retries and failures included:    *)
(* the answers still owed are those of the command in the queue and of the    *)
(* one the worker has in hand, which it owes for good if its call hangs       *)
(* (thread in tapo.rs).                                                       *)
AnsweredExactlyOnce == owed = commands + (IF Busy THEN 1 ELSE 0)

(* A failure is the plug's: a session it has forgotten costs a retry, never  *)
(* an answer, because the retry handshakes again (fetch_energy).              *)
FailureIsThePlugs ==
  \A a \in Answers : worker = "sending" /\ hand = <<a>> /\ ~a.ok => disturbed

Settled == plug = "up" /\ session # "forgotten" /\ worker # "hung"

(* A plug that stays up is read again and again, whatever went wrong before, *)
(* unless it leaves a call without an answer: neither thread waits for the   *)
(* other for good, and no request is lost.                                   *)
ReadingsKeepComing == <>[]Settled => []<>(\E a \in Answers : a.ok /\ got = <<a>>)

(* The monitor never waits on the plug: every poll ends, though the worker   *)
(* hang in a call for good with a command in its queue (poll_energy).        *)
PollsEnd == []<>(poller = "resting")

(* A poll that returns a reading has drained to the newest: no later one was *)
(* there before it began (poll_energy).                                      *)
DrainsToTheNewest ==
  \A a, b \in Answers :
    poller = "asking" /\ got = <<a>> /\ hand = <<b>> => ~(a.ok /\ b.ok /\ b.before)
=============================================================================
