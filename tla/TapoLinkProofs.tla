--------------------------- MODULE TapoLinkProofs ---------------------------
(***************************************************************************)
(* Theorems about TapoLink: both queues keep within their slot, every      *)
(* command is answered exactly once, and a failure that reaches the        *)
(* monitor is the plug's own.                                              *)
(*                                                                         *)
(* The last two are not inductive.  What they need besides the types:      *)
(* which steps of the worker hold an answer (AnswerInHand), what its       *)
(* session looks like while it connects or calls (SessionHeld), and that   *)
(* a second attempt that is about to fail was disturbed (RetryDisturbed).  *)
(***************************************************************************)
EXTENDS TapoLink, TLAPS

-----------------------------------------------------------------------------
(* What a queue of one slot, and a hand, may hold. *)

LEMMA OneTuple == ASSUME NEW c PROVE <<c>> = [i \in 1 .. 1 |-> c]
OBVIOUS

(* Marking the answers that were there before a poll keeps their number, *)
(* and whether each is a reading (energy_source).                        *)
LEMMA EarlyKeeps ==
  ASSUME NEW answers \in AtMostOne(Answers)
  PROVE  /\ Early(answers) \in AtMostOne(Answers)
         /\ Early(answers) = <<>> <=> answers = <<>>
         /\ \A a \in Answers : Early(answers) = <<a>>
              => \E b \in Answers : answers = <<b>> /\ b.ok = a.ok
<1>1. CASE answers = <<>>
  <2>1. Early(answers) = <<>>
    BY <1>1 DEF Early
  <2> QED BY <1>1, <2>1 DEF AtMostOne
<1>2. CASE answers # <<>>
  <2>1. PICK b \in Answers : answers = <<b>>
    BY <1>2 DEF AtMostOne
  <2>2. PICK c \in Answers : c = [b EXCEPT !.before = TRUE]
    BY DEF Answers
  <2>3. c.ok = b.ok
    BY <2>2 DEF Answers
  <2>4. Early(answers) = <<c>>
    <3>1. DOMAIN <<b>> = 1 .. 1 /\ <<b>>[1] = b
      OBVIOUS
    <3>2. \A i \in 1 .. 1 : [answers[i] EXCEPT !.before = TRUE] = c
      <4>1. \A i \in 1 .. 1 : i = 1
        OBVIOUS
      <4>2. answers[1] = b
        BY <2>1, <3>1
      <4> QED BY <2>2, <4>1, <4>2, Zenon
    <3>3. Early(answers) = [i \in 1 .. 1 |-> c]
      BY <2>1, <3>1, <3>2, Zenon DEF Early
    <3> QED BY <3>3, OneTuple
  <2>5. Early(answers) # <<>> /\ Early(answers) \in AtMostOne(Answers)
    BY <2>4 DEF AtMostOne
  <2>6. ASSUME NEW a \in Answers, Early(answers) = <<a>>
        PROVE  a = c
    BY <2>4, <2>6
  <2> QED BY <1>2, <2>1, <2>3, <2>5, <2>6
<1> QED BY <1>1, <1>2

(* Taking the oldest answer of a queue leaves it empty. *)
LEMMA HeadOfOne ==
  ASSUME NEW answers \in AtMostOne(Answers), answers # <<>>
  PROVE  /\ Head(answers) \in Answers
         /\ answers = <<Head(answers)>>
         /\ Tail(answers) = <<>>
<1>1. PICK x \in Answers : answers = <<x>>
  BY DEF AtMostOne
<1>2. Head(<<x>>) = x /\ Tail(<<x>>) = <<>>
  OBVIOUS
<1> QED BY <1>1, <1>2

-----------------------------------------------------------------------------
(* The invariant. *)

(* The worker holds an answer exactly while it is sending it. *)
AnswerInHand == worker = "sending" <=> hand # <<>>

(* A handshake is made without a session, a call with the one it was given, *)
(* which the plug may have forgotten since.                                 *)
SessionHeld ==
  /\ worker = "connecting" => session = "none"
  /\ worker = "calling" => session # "none"

(* The second attempt makes a session of its own, so whatever is about to  *)
(* fail it happened after it began (fetch_energy).                         *)
RetryDisturbed ==
  attempt = 2 =>
    /\ worker = "connecting" /\ plug = "down" => disturbed
    /\ worker = "calling" /\ (plug = "down" \/ session # "live") => disturbed

LinkInv ==
  /\ TypeOK /\ AnswerInHand /\ SessionHeld
  /\ AnsweredExactlyOnce /\ RetryDisturbed /\ FailureIsThePlugs

USE DEF Slot

LEMMA InitLink == Init => LinkInv
<1> SUFFICES ASSUME Init PROVE LinkInv
  OBVIOUS
<1>0. <<>> \in AtMostOne(Answers)
  BY DEF AtMostOne
<1>1. TypeOK
  <2>1. /\ poller \in {"resting", "draining", "asking"}
        /\ worker \in {"idle", "connecting", "calling", "hung", "sending", "backoff"}
        /\ session \in {"none", "live", "forgotten"}
        /\ plug \in {"up", "down"} /\ disturbed \in BOOLEAN
    BY DEF Init
  <2>2. commands \in 0 .. Slot /\ attempt \in {1, 2} /\ owed \in Nat
    BY DEF Init
  <2> QED BY <1>0, <2>1, <2>2 DEF Init, TypeOK
<1>2. AnsweredExactlyOnce
  BY DEF Init, AnsweredExactlyOnce, Busy
<1>3. AnswerInHand /\ SessionHeld /\ RetryDisturbed
  BY DEF Init, AnswerInHand, SessionHeld, RetryDisturbed
<1>4. FailureIsThePlugs
  BY DEF Init, FailureIsThePlugs
<1> QED BY <1>1, <1>2, <1>3, <1>4 DEF LinkInv

LEMMA BeginPollKeeps == LinkInv /\ BeginPoll => LinkInv'
<1> SUFFICES ASSUME LinkInv, BeginPoll PROVE LinkInv'
  OBVIOUS
<1> USE DEF LinkInv
<1>1. TypeOK'
  BY EarlyKeeps DEF BeginPoll, TypeOK, AtMostOne
<1>2. AnswerInHand'
  BY EarlyKeeps DEF BeginPoll, TypeOK, AnswerInHand
<1>3. (SessionHeld /\ AnsweredExactlyOnce /\ RetryDisturbed)'
  BY DEF BeginPoll, SessionHeld, AnsweredExactlyOnce, Busy, RetryDisturbed
<1>4. FailureIsThePlugs'
  <2> SUFFICES ASSUME NEW a \in Answers, worker' = "sending", hand' = <<a>>, ~a.ok
               PROVE  disturbed'
    BY DEF FailureIsThePlugs
  <2>1. PICK b \in Answers : hand = <<b>> /\ b.ok = a.ok
    BY EarlyKeeps DEF BeginPoll, TypeOK
  <2> QED BY <2>1 DEF BeginPoll, FailureIsThePlugs
<1> QED BY <1>1, <1>2, <1>3, <1>4

LEMMA DrainKeeps == LinkInv /\ Drain => LinkInv'
<1> SUFFICES ASSUME LinkInv, Drain PROVE LinkInv'
  OBVIOUS
<1> USE DEF LinkInv
<1>1. TypeOK'
  BY HeadOfOne DEF Drain, work, TypeOK, AtMostOne
<1>2. (AnswerInHand /\ SessionHeld /\ AnsweredExactlyOnce /\ RetryDisturbed /\ FailureIsThePlugs)'
  BY DEF Drain, work, AnswerInHand, SessionHeld, AnsweredExactlyOnce, Busy,
         RetryDisturbed, FailureIsThePlugs
<1> QED BY <1>1, <1>2

LEMMA AskKeeps == LinkInv /\ (Drained \/ Ask) => LinkInv'
<1> SUFFICES ASSUME LinkInv, Drained \/ Ask PROVE LinkInv'
  OBVIOUS
<1> USE DEF LinkInv
<1>1. TypeOK'
  BY DEF Drained, Ask, queues, work, TypeOK
<1>2. AnsweredExactlyOnce'
  BY DEF Drained, Ask, queues, work, TypeOK, AnsweredExactlyOnce, Busy
<1>3. (AnswerInHand /\ SessionHeld /\ RetryDisturbed /\ FailureIsThePlugs)'
  BY DEF Drained, Ask, queues, work, AnswerInHand, SessionHeld, RetryDisturbed,
         FailureIsThePlugs
<1> QED BY <1>1, <1>2, <1>3

LEMMA TakeCommandKeeps == LinkInv /\ TakeCommand => LinkInv'
<1> SUFFICES ASSUME LinkInv, TakeCommand PROVE LinkInv'
  OBVIOUS
<1> USE DEF LinkInv
<1>1. TypeOK'
  BY DEF TakeCommand, Fetching, monitor, TypeOK
<1>2. AnsweredExactlyOnce'
  BY DEF TakeCommand, Fetching, monitor, TypeOK, AnsweredExactlyOnce, Busy
<1>3. (AnswerInHand /\ SessionHeld /\ RetryDisturbed /\ FailureIsThePlugs)'
  BY DEF TakeCommand, Fetching, monitor, TypeOK, AnswerInHand, SessionHeld,
         RetryDisturbed, FailureIsThePlugs
<1> QED BY <1>1, <1>2, <1>3

LEMMA AnswerKeeps == LinkInv /\ (Connected \/ Answered) => LinkInv'
<1> SUFFICES ASSUME LinkInv, Connected \/ Answered PROVE LinkInv'
  OBVIOUS
<1> USE DEF LinkInv
<1>0. Reading \in Answers /\ Reading.ok
  BY DEF Reading, Answers
<1>1. TypeOK'
  BY <1>0 DEF Connected, Answered, monitor, queues, TypeOK, AtMostOne
<1>2. (AnswerInHand /\ SessionHeld /\ AnsweredExactlyOnce /\ RetryDisturbed)'
  BY DEF Connected, Answered, monitor, queues, AnswerInHand, SessionHeld,
         AnsweredExactlyOnce, Busy, RetryDisturbed
<1>3. FailureIsThePlugs'
  BY <1>0 DEF Connected, Answered, monitor, queues, FailureIsThePlugs
<1> QED BY <1>1, <1>2, <1>3

LEMMA FailedKeeps == LinkInv /\ (ConnectFailed \/ CallFailed) => LinkInv'
<1> SUFFICES ASSUME LinkInv, ConnectFailed \/ CallFailed PROVE LinkInv'
  OBVIOUS
<1> USE DEF LinkInv, SessionAfterFailure
<1>0. Failure \in Answers /\ ~Failure.ok
  BY DEF Failure, Answers
<1>1. TypeOK'
  BY <1>0 DEF ConnectFailed, CallFailed, Failed, Fetching, monitor, queues, TypeOK, AtMostOne
<1>2. (AnswerInHand /\ SessionHeld /\ AnsweredExactlyOnce)'
  BY DEF ConnectFailed, CallFailed, Failed, Fetching, monitor, queues, AnswerInHand,
         SessionHeld, AnsweredExactlyOnce, Busy
<1>3. RetryDisturbed'
  BY DEF ConnectFailed, CallFailed, Failed, Fetching, monitor, queues, RetryDisturbed
<1>4. worker' = "sending" => disturbed'
  BY DEF ConnectFailed, CallFailed, Failed, Fetching, monitor, queues, RetryDisturbed, TypeOK
<1>5. FailureIsThePlugs'
  BY <1>4 DEF FailureIsThePlugs
<1> QED BY <1>1, <1>2, <1>3, <1>5

LEMMA SendKeeps == LinkInv /\ Send => LinkInv'
<1> SUFFICES ASSUME LinkInv, Send PROVE LinkInv'
  OBVIOUS
<1> USE DEF LinkInv
<1>0. /\ hand # <<>> /\ hand \in AtMostOne(Answers) /\ data = <<>>
      /\ data' = hand
  BY DEF Send, Deliver, TypeOK, AtMostOne, AnswerInHand
<1>1. TypeOK'
  <2>1. owed' \in Nat
    BY DEF Send, Deliver, TypeOK, AnsweredExactlyOnce, Busy
  <2> QED BY <1>0, <2>1 DEF Send, Deliver, monitor, TypeOK, AtMostOne
<1>2. AnsweredExactlyOnce'
  BY DEF Send, Deliver, TypeOK, AnsweredExactlyOnce, Busy
<1>3. (AnswerInHand /\ SessionHeld /\ RetryDisturbed /\ FailureIsThePlugs)'
  BY DEF Send, Deliver, monitor, AnswerInHand, SessionHeld, RetryDisturbed,
         FailureIsThePlugs
<1> QED BY <1>1, <1>2, <1>3

LEMMA RestKeeps ==
  LinkInv /\ (BackedOff \/ Hang \/ PlugGoes \/ PlugReturns \/ SessionDropped) => LinkInv'
<1> SUFFICES ASSUME LinkInv,
                    BackedOff \/ Hang \/ PlugGoes \/ PlugReturns \/ SessionDropped
             PROVE  LinkInv'
  OBVIOUS
<1> USE DEF LinkInv, BackedOff, Hang, PlugGoes, PlugReturns, SessionDropped, Forget,
            monitor, queues, work
<1>1. TypeOK'
  BY DEF TypeOK
<1>2. AnsweredExactlyOnce'
  BY DEF AnsweredExactlyOnce, Busy
<1>3. (AnswerInHand /\ SessionHeld)'
  BY DEF TypeOK, AnswerInHand, SessionHeld
<1>4. (RetryDisturbed /\ FailureIsThePlugs)'
  BY DEF TypeOK, RetryDisturbed, FailureIsThePlugs
<1> QED BY <1>1, <1>2, <1>3, <1>4

(* The invariant holds throughout. *)
THEOREM LinkInvariant == Spec => []LinkInv
<1>1. Init => LinkInv
  BY InitLink
<1>2. LinkInv /\ [Next]_vars => LinkInv'
  <2> SUFFICES ASSUME LinkInv, [Next]_vars PROVE LinkInv'
    OBVIOUS
  <2>1. CASE UNCHANGED vars
    BY <2>1 DEF LinkInv, vars, monitor, queues, work, TypeOK, AnswerInHand, SessionHeld,
                AnsweredExactlyOnce, Busy, RetryDisturbed, FailureIsThePlugs
  <2>2. CASE Poll
    BY <2>2, BeginPollKeeps, DrainKeeps, AskKeeps DEF Poll
  <2>3. CASE Work
    BY <2>3, TakeCommandKeeps, AnswerKeeps, FailedKeeps, SendKeeps, RestKeeps DEF Work
  <2>4. CASE Hang \/ PlugGoes \/ PlugReturns \/ SessionDropped
    BY <2>4, RestKeeps
  <2> QED BY <2>1, <2>2, <2>3, <2>4 DEF Next
<1> QED BY <1>1, <1>2, PTL DEF Spec

-----------------------------------------------------------------------------
(* Theorems. *)

(* Neither queue ever holds more than the one slot it was made with. *)
THEOREM TypeCorrect == Spec => []TypeOK
<1>1. LinkInv => TypeOK
  BY DEF LinkInv
<1> QED BY <1>1, LinkInvariant, PTL

(* Whatever fails or is retried, no command is lost and none is answered     *)
(* twice (thread of tapo.rs).  One whose call hangs stays owed its answer:   *)
(* that it is given is not claimed.                                          *)
THEOREM EveryCommandAnswered == Spec => []AnsweredExactlyOnce
<1>1. LinkInv => AnsweredExactlyOnce
  BY DEF LinkInv
<1> QED BY <1>1, LinkInvariant, PTL

(* A failure reaches the monitor only when the plug went down or dropped its *)
(* session during the last attempt: a session gone stale between two polls   *)
(* costs a handshake and no answer (fetch_energy).                           *)
THEOREM NoFailureButThePlugs == Spec => []FailureIsThePlugs
<1>1. LinkInv => FailureIsThePlugs
  BY DEF LinkInv
<1> QED BY <1>1, LinkInvariant, PTL
=============================================================================
