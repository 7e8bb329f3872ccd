----------------------------- MODULE MCMonitor -----------------------------
(* Instances of Monitor for TLC: system_source, which fills two sections   *)
(* at once, gpu_source, which keeps the thread, and lxc_source.            *)
EXTENDS Monitor, TLC

Owns == [base |-> "system", processes |-> "system", gpus |-> "gpu", lxc |-> "lxc"]
MCOwner == [sec \in Sections |-> Owns[sec]]
MCInterval == [s \in Sources |-> IF s = "gpu" THEN 2 ELSE 1]
MCGatherLimit == [s \in Sources |-> 0]

\* Viewers differ in nothing but their name.
ViewerSymmetry == Permutations(Viewers)
=============================================================================
