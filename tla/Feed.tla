-------------------------------- MODULE Feed --------------------------------
(***************************************************************************)
(* What z-proxmon promises whenever one task publishes values and another  *)
(* one follows them through an armed notification: the follower may skip   *)
(* values that were superseded before it looked, it never shows a value    *)
(* that was not published, and it never goes back to an older one.  That   *)
(* it catches up in the end is CatchesUp.                                  *)
(*                                                                         *)
(* Values are told apart by version: the n-th value handed on under a key  *)
(* is version n, and -1 stands for a follower that has shown nothing yet.  *)
(***************************************************************************)
EXTENDS Integers

CONSTANT Keys

VARIABLES latest, seen

vars == <<latest, seen>>

Init == /\ latest = [k \in Keys |-> 0]
        /\ seen = [k \in Keys |-> -1]

\* The publisher hands on new values under some of the keys.
Produce == /\ \E fresh \in SUBSET Keys :
                latest' = [k \in Keys |-> IF k \in fresh THEN latest[k] + 1 ELSE latest[k]]
           /\ UNCHANGED seen

\* The follower shows values no older than what it shows and already handed on.
Show == /\ seen' \in [Keys -> Int]
        /\ \A k \in Keys : seen[k] <= seen'[k] /\ seen'[k] <= latest[k]
        /\ UNCHANGED latest

Next == Produce \/ Show

Safe == Init /\ [][Next]_vars

(* Whatever version is handed on, that one or a later one is shown in the end. *)
CatchesUp(Versions) ==
  \A k \in Keys : \A n \in Versions : (latest[k] >= n) ~> (seen[k] >= n)
=============================================================================
