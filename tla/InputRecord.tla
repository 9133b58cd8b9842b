---------------------------- MODULE InputRecord ----------------------------
(***************************************************************************)
(* What the record of recovery inputs promises, without incidents in       *)
(* progress, commands, phases, scopes, clocks or crashes: a trial is       *)
(* written down before its input is sent, while no other trial is in       *)
(* doubt; one input at most goes out, before anything is said of it; what  *)
(* is said of it is true of what went out, and once it is known, final.    *)
(***************************************************************************)
EXTENDS Naturals

CONSTANTS
  Trials,   \* inputs that may be tried
  Facts     \* outcomes that end the doubt, besides the three named below

VARIABLES
  said,     \* what is on record of a trial: "none" before it begins
  sent      \* inputs the device got for it

recordVars == <<said, sent>>

InDoubt(o) == o \in {"unrecorded", "unknown"}

Init ==
  /\ said = [t \in Trials |-> "none"]
  /\ sent = [t \in Trials |-> 0]

Begin(t) ==
  /\ said[t] = "none" /\ \A u \in Trials : ~InDoubt(said[u])
  /\ said' = [said EXCEPT ![t] = "unrecorded"]
  /\ UNCHANGED sent

Send(t) ==
  /\ said[t] = "unrecorded" /\ sent[t] = 0
  /\ sent' = [sent EXCEPT ![t] = 1]
  /\ UNCHANGED said

\* An outcome with an effect, or without one, is of an input that went out.
True(t, o) ==
  \/ o = "not_dispatched" /\ sent[t] = 0
  \/ o \in {"confirmed", "no_effect"} /\ sent[t] = 1
  \/ o \in Facts

Say(t, o) ==
  /\ \/ o = "unknown" /\ said[t] = "unrecorded"
     \/ True(t, o) /\ InDoubt(said[t])
  /\ said' = [said EXCEPT ![t] = o]
  /\ UNCHANGED sent

Next ==
  \E t \in Trials :
    \/ Begin(t) \/ Send(t)
    \/ \E o \in {"unknown", "not_dispatched", "confirmed", "no_effect"} \cup Facts : Say(t, o)

Spec == Init /\ [][Next]_recordVars
=============================================================================
