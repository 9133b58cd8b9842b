-------------------------- MODULE MCRecoveryBudget --------------------------
(* Small instances of RecoveryBudget for TLC.                              *)
EXTENDS RecoveryBudget, TLC

CONSTANTS s1, s2, wa, wb, r1, r2, r3, ia, ib, e1, e2

TwoServices == (s1 :> wa) @@ (s2 :> wb)
Owners      == (r1 :> wa) @@ (r2 :> wa) @@ (r3 :> wb)
Incidents   == (r1 :> ia) @@ (r2 :> ia) @@ (r3 :> ib)
Narrow      == {[incident |-> 2, daily |-> 3, calls |-> 2]}
SameIncident == Permutations({r1, r2})

OneService  == s1 :> wa
OneOwner    == [r \in {r1, r2, r3} |-> wa]
OneIncident == [r \in {r1, r2, r3} |-> ia]
Choices     == {[incident |-> 3, daily |-> 3, calls |-> 2],
                [incident |-> 1, daily |-> 1, calls |-> 1],
                [incident |-> 4, daily |-> 3, calls |-> 2]}
Alike       == Permutations({r1, r2, r3}) \cup Permutations({e1, e2})
=============================================================================
