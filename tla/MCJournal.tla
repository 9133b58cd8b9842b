----------------------------- MODULE MCJournal -----------------------------
(* A small instance of Journal for TLC: a lab start and a workshop row that *)
(* pay with the same coins, the second possibly left by an older version.   *)
EXTENDS Journal, TLC

CONSTANTS lab, row, w1, w2

Operations2 == (lab :> "lab_start") @@ (row :> "workshop_buy")
Prices      == (lab :> 1) @@ (row :> 2)
Symmetric   == Permutations({w1, w2})
=============================================================================
