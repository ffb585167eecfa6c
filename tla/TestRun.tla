------------------------------- MODULE TestRun -------------------------------
(***************************************************************************)
(* What the scheduler promises its tests, without saying how: a worker has *)
(* an environment to itself from taking it to giving it back, a test runs  *)
(* on one environment at a time, and once it is closed only a retry opens  *)
(* it again.                                                               *)
(***************************************************************************)
EXTENDS Naturals

CONSTANTS Envs, Results, Workers, Nobody,
          CaseRetry  \* how often a test may be retried

VARIABLES
  user,    \* the worker that has the environment
  test,    \* "open", "closed", or the worker that runs it
  tries    \* the retries of the test

vars == <<user, test, tries>>

Init ==
  /\ user = [e \in Envs |-> Nobody]
  /\ test \in [Results -> {"open", "closed"}]
  /\ tries = [r \in Results |-> 0]

\* Open tests may be closed without a run: skipped, or failed with their environment.
CloseSome ==
  \E rs \in SUBSET {r \in Results : test[r] = "open"} :
    test' = [r \in Results |-> IF r \in rs THEN "closed" ELSE test[r]]

Close == CloseSome /\ UNCHANGED <<user, tries>>

\* A free worker takes a free environment.
Take(w, e) ==
  /\ user[e] = Nobody /\ \A f \in Envs : user[f] # w
  /\ user' = [user EXCEPT ![e] = w]
  /\ CloseSome
  /\ UNCHANGED tries

Give(e) ==
  /\ user[e] # Nobody
  /\ user' = [user EXCEPT ![e] = Nobody]
  /\ UNCHANGED <<test, tries>>

Begin(w, r) ==
  /\ \E e \in Envs : user[e] = w
  /\ test[r] = "open"
  /\ test' = [test EXCEPT ![r] = w]
  /\ UNCHANGED <<user, tries>>

End(w, r) ==
  /\ test[r] = w
  /\ test' = [test EXCEPT ![r] = "closed"]
  /\ UNCHANGED <<user, tries>>

Retry(r) ==
  /\ test[r] = "closed" /\ tries[r] < CaseRetry[r]
  /\ test' = [test EXCEPT ![r] = "open"]
  /\ tries' = [tries EXCEPT ![r] = @ + 1]
  /\ UNCHANGED user

Next ==
  \/ Close
  \/ \E w \in Workers, e \in Envs : Take(w, e)
  \/ \E e \in Envs : Give(e)
  \/ \E w \in Workers, r \in Results : Begin(w, r) \/ End(w, r)
  \/ \E r \in Results : Retry(r)

Spec == Init /\ [][Next]_vars
=============================================================================
