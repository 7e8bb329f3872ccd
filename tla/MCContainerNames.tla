------------------------- MODULE MCContainerNames --------------------------
(* Instances of ContainerNames for TLC.  Of its processes p1 and p3 are     *)
(* in the container c1 at first, and p2 in c2.                              *)
EXTENDS ContainerNames

CONSTANTS p1, p2, p3, c1, c2

MCFirstOwner == [p \in Pids |-> IF p = p2 THEN c2 ELSE c1]
=============================================================================
