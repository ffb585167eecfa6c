----------------------------- MODULE MCLisaRunner -----------------------------
(* Instances of LisaRunner for TLC. *)
EXTENDS LisaRunner, TLC

CONSTANTS e1, e2, r1, r2, r3, w1, w2

WorkerSymmetry == Permutations({w1, w2})

\* Two environments of the runbook that serve the same results are alike too.
RunbookSymmetry == WorkerSymmetry \cup Permutations({e1, e2})

\* Environments of the runbook serve any result.
Predefined == [e \in Envs |-> None]

\* Environments generated from the requirements of r1 and r2.
Generated == (e1 :> r1) @@ (e2 :> r2)

AnyFits == Results \X Envs

\* Each generated environment serves its own result only.
OwnFits == {<<r1, e1>>, <<r2, e2>>}

NoRetry == [r \in Results |-> 0]
RetryOnce == [r \in Results |-> IF r = r1 THEN 1 ELSE 0]
=============================================================================
