----------------------------- MODULE InputLease -----------------------------
(***************************************************************************)
(* The durable generation fence of one worker, input-lease.json, which     *)
(* src/fleet/input_lease.py reads and replaces under its own file lock.    *)
(* The lease names one generation and says whether it may send input.      *)
(* Every operation is one locked read followed by one atomic write, so it  *)
(* is modelled by the value the file may have before it and the value it   *)
(* has after it; an operation whose precondition fails raises              *)
(* InputLeaseExpired and writes nothing.                                   *)
(***************************************************************************)
EXTENDS Naturals

CONSTANT MaxGen      \* a bound: how many generations are ever minted
ASSUME MaxGenIsPositive == MaxGen \in Nat \ {0}

Gens == 1..MaxGen

\* Generation 0: the file does not exist.
NoLease == [gen |-> 0, current |-> FALSE]
Leases == [gen : Gens \cup {0}, current : BOOLEAN]

\* assert_current
Asserts(l, g) == l.current /\ l.gen = g
\* revoke(g): also of a lease that is revoked already.
CanRevoke(l, g) == l.gen = g
Revoked(l) == [l EXCEPT !.current = FALSE]
\* handoff(old, new): only from the exact fenced generation.
CanHandoff(l, old, new) == l.gen = old /\ ~l.current /\ old # new
\* grant(g): unconditional.
Granted(g) == [gen |-> g, current |-> TRUE]
=============================================================================
