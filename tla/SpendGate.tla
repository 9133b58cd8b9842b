----------------------------- MODULE SpendGate -----------------------------
(***************************************************************************)
(* What the journal promises to the game account, without rows, holds,     *)
(* scopes, clocks or workers: attempts to spend go through a gate one at a *)
(* time; an attempt taps at most once, while it is inside; it leaves once, *)
(* for good; and the ledger is charged when it leaves: its price if it     *)
(* tapped and that is proven, or nothing.                                  *)
(***************************************************************************)
EXTENDS Naturals

CONSTANTS
  Keys,     \* intents
  Price,    \* price of an intent
  Left,     \* intents an older version of the program may have left inside
  Nobody    \* the gate is free

VARIABLES
  inside,   \* the intent inside the gate, or Nobody
  done,     \* intents that left it
  taps,     \* taps sent for an intent
  books     \* what the ledger says an intent cost

gateVars == <<inside, done, taps, books>>

Init ==
  /\ inside \in Left \cup {Nobody}
  /\ done = {}
  /\ \E tapped \in BOOLEAN : taps = [k \in Keys |-> IF k = inside /\ tapped THEN 1 ELSE 0]
  /\ books = [k \in Keys |-> 0]

Enter(k) ==
  /\ inside = Nobody /\ k \notin done \cup Left
  /\ inside' = k
  /\ UNCHANGED <<done, taps, books>>

Tap ==
  /\ inside # Nobody /\ taps[inside] = 0
  /\ taps' = [taps EXCEPT ![inside] = 1]
  /\ UNCHANGED <<inside, done, books>>

Leave ==
  /\ inside # Nobody
  /\ inside' = Nobody
  /\ done' = done \cup {inside}
  /\ \E proven \in BOOLEAN :
       /\ proven => taps[inside] = 1
       /\ books' = [books EXCEPT ![inside] = IF proven THEN Price[inside] ELSE 0]
  /\ UNCHANGED taps

Next == (\E k \in Keys : Enter(k)) \/ Tap \/ Leave

Spec == Init /\ [][Next]_gateVars
=============================================================================
