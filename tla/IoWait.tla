------------------------------ MODULE IoWait -------------------------------
(***************************************************************************)
(* src/src/io_wait.rs and the io_delay_source of src/src/monitor.rs that   *)
(* calls it: the share of the time spent waiting for disks, from what      *)
(* /proc/stat counted since the last reading.                              *)
(*                                                                         *)
(* /proc/stat begins with a line that sums up all processors and a line    *)
(* for each: "cpu" or "cpu0", and the ticks spent in each state.  Two      *)
(* states are kept here of the ten: idle, and iowait, which is looked up   *)
(* by its place.  The names are not numbers, so they are passed over; the  *)
(* window is counted without them.  The kernel is external: its lines are  *)
(* never as short as the five numbers below which update returns early.    *)
(***************************************************************************)
EXTENDS Integers, Sequences

CONSTANTS
  Window,   \* bytes read of the numbers and the blanks after them
  MaxTicks  \* bound on the ticks counted, below 1000

VARIABLES
  cpus,      \* per processor: its ticks idle and in iowait
  total,     \* IoWait.total: the sum at the last reading, 0 before the first
  io_wait,   \* IoWait.io_wait
  io_delay,  \* the section: a fraction, [of |-> , in |-> ]
  read,      \* the first line at the last reading
  due        \* the share of the first line alone

vars == <<cpus, total, io_wait, io_delay, read, due>>

Processors == {0, 1}

Fraction(of, in) == [of |-> of, in |-> in]

None == Fraction(0, 1)

-----------------------------------------------------------------------------
(* What /proc/stat says. *)

\* The line "cpu".
FirstLine == [state \in 1 .. 2 |-> cpus[0][state] + cpus[1][state]]

\* Its numbers, then those of "cpu0".
Numbers == FirstLine \o cpus[0]

Digits(n) == IF n < 10 THEN 1 ELSE IF n < 100 THEN 2 ELSE 3

\* The bytes before each number.
Start == LET at[i \in 1 .. Len(Numbers)] ==
               IF i = 1 THEN 0 ELSE at[i - 1] + Digits(Numbers[i - 1]) + 1
         IN at

\* Of a number that reaches beyond the window, the digits inside.
Cut(i) ==
  LET beyond == Start[i] + Digits(Numbers[i]) - Window IN
  IF beyond <= 0 THEN Numbers[i] ELSE Numbers[i] \div (10 ^ beyond)

\* split_whitespace over the whole window, whatever its lines.
Parts == [i \in {j \in 1 .. Len(Numbers) : Start[j] < Window} |-> Cut(i)]

Sum(parts) ==
  LET upTo[i \in 0 .. Len(Numbers)] ==
        IF i = 0 THEN 0 ELSE upTo[i - 1] + (IF i \in DOMAIN parts THEN parts[i] ELSE 0)
  IN upTo[Len(Numbers)]

-----------------------------------------------------------------------------
(* A reading. *)

\* The first reading has nothing to compare with.
Share(di, dt, before) == IF dt > 0 /\ before > 0 THEN Fraction(di, dt) ELSE None

Update ==
  /\ io_delay' = Share(Parts[2] - io_wait, Sum(Parts) - total, total)
  /\ io_wait' = Parts[2] /\ total' = Sum(Parts)
  /\ due' = Share(FirstLine[2] - read[2], FirstLine[1] + FirstLine[2] - read[1] - read[2],
                  read[1] + read[2])
  /\ read' = FirstLine
  /\ UNCHANGED cpus

-----------------------------------------------------------------------------
(* A processor's time goes by, in one state or the other. *)

Elapse ==
  /\ FirstLine[1] + FirstLine[2] < MaxTicks
  /\ \E cpu \in Processors, state \in 1 .. 2 : cpus' = [cpus EXCEPT ![cpu][state] = @ + 1]
  /\ UNCHANGED <<total, io_wait, io_delay, read, due>>

Init ==
  /\ cpus = [cpu \in Processors |-> <<0, 0>>]
  /\ total = 0 /\ io_wait = 0 /\ io_delay = None
  /\ read = <<0, 0>> /\ due = None

Next == Update \/ Elapse

Spec == Init /\ [][Next]_vars

-----------------------------------------------------------------------------
(* The IO delay is the share of iowait in what the first line of /proc/stat  *)
(* has counted since the last reading (IoWait::update).                      *)
DelayIsTheFirstLines == io_delay.of * due.in = due.of * io_delay.in
=============================================================================
