---------------------------- MODULE MCTaskManager ----------------------------
(* Instances of TaskManager for TLC. *)
EXTENDS TaskManager, TLC

CONSTANTS c1, main, p1, k1, k2, k3

\* A caller notifies twice, the main thread once before it flushes.
Owners == (k1 :> c1) @@ (k2 :> c1) @@ (k3 :> main)
=============================================================================
