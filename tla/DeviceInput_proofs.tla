------------------------- MODULE DeviceInput_proofs -------------------------
(***************************************************************************)
(* The safety of the input gate, for every set of digests, every freshness *)
(* and no-effect time, every retry budget, and with or without a host.     *)
(***************************************************************************)
EXTENDS DeviceInput, TLAPS

\* Memory and checkpoint agree on the input that waits, and that input is the
\* one without an answer.
PendingInv ==
  /\ phase # "down" => mem.pending = ckpt.pending
  /\ phase = "send" => sent.count = 0 /\ mem.pending # NoDigest
  /\ sent.count > 0 => sent.count = 1 /\ sent.digest # NoDigest /\ ckpt.pending = sent.digest

\* Who may send has seen the account on this connection.
VerifiedInv ==
  /\ mem.verified => proof
  /\ mem.state = "ready" \/ phase = "send" => mem.verified

\* The checkpoint's quarantine is the supervisor's, and it cannot send.
QuarantineInv ==
  /\ phase # "down" /\ ckpt.state = "quarantined" /\ ~(ckpt.exhausted /\ Hosted)
       => mem.state = "quarantined"
  /\ mem.state = "quarantined" => phase \notin {"connect", "exhausted", "walked", "send"}

\* Attempts count the failures in a row, in memory and on disk.
TriesInv ==
  /\ tries <= ckpt.attempts
  /\ phase # "down" => tries <= mem.attempts
  /\ phase = "connect" => mem.attempts < MaxAttempts

IInv == TypeOK /\ PendingInv /\ VerifiedInv /\ QuarantineInv /\ TriesInv
\* The values a field is set to.
LEMMA Bounds ==
  /\ {"ready", "blocked", "quarantined"} \subseteq States
  /\ 0 \in 0..MaxAttempts /\ 0 \in Ages /\ Cap \in Ages /\ NoDigest \in Seen
  /\ Digests \subseteq Seen
  /\ \A a \in Ages : Older(a) \in Ages
BY DeviceConstants DEF States, Ages, Cap, Seen, Older

\* What is written is a checkpoint that says the same.
LEMMA WrittenIs ==
  ASSUME NEW m \in Mems
  PROVE  /\ Written(m) \in Ckpts
         /\ Written(m).state = m.state /\ Written(m).exhausted = m.exhausted
         /\ Written(m).attempts = m.attempts /\ Written(m).pending = m.pending
BY DEF Mems, Ckpts, Written

\* A lost transport keeps the waiting input and the quarantine.
LEMMA CutIs ==
  ASSUME NEW m \in Mems
  PROVE  /\ Cut(m) \in Mems
         /\ Cut(m).attempts = 0 /\ Cut(m).verified = FALSE /\ Cut(m).pending = m.pending
         /\ m.state = "quarantined" => Cut(m).state = "quarantined"
         /\ m.state # "quarantined" => Cut(m).state = "blocked"
BY Bounds DEF Cut, Mems

\* disconnected(), in memory and on disk.
LEMMA DisconnectedIs ==
  ASSUME mem \in Mems, ckpt \in Ckpts, Disconnected(mem)
  PROVE  /\ mem' \in Mems /\ ckpt' \in Ckpts
         /\ mem'.attempts = 0 /\ mem'.verified = FALSE /\ mem'.pending = mem.pending
         /\ mem.state = "quarantined" => mem'.state = "quarantined"
         /\ mem.state # "quarantined" => mem'.state = "blocked"
         /\ ckpt'.pending \in {mem.pending, ckpt.pending}
         /\ mem.state = "quarantined" => ckpt' = ckpt
         /\ mem.state # "quarantined" => ckpt'.state = "blocked" /\ ckpt'.attempts = 0
         /\ proof' = FALSE /\ tries' = 0
<1>1. CASE mem.state = "quarantined"
  BY <1>1, CutIs DEF Disconnected
<1>2. CASE mem.state # "quarantined"
  <2>1. mem' = Cut(mem) /\ ckpt' = Written(mem') /\ proof' = FALSE /\ tries' = 0
    BY <1>2 DEF Disconnected
  <2>2. /\ mem' \in Mems /\ mem'.attempts = 0 /\ mem'.verified = FALSE
        /\ mem'.pending = mem.pending /\ mem'.state = "blocked"
    BY <1>2, <2>1, CutIs
  <2>3. /\ ckpt' \in Ckpts /\ ckpt'.state = "blocked" /\ ckpt'.attempts = 0
        /\ ckpt'.pending = mem.pending
    BY <2>1, <2>2, WrittenIs
  <2>4. QED
    BY <1>2, <2>1, <2>2, <2>3
<1>3. QED
  BY <1>1, <1>2

\* What an observation may change: it keeps the attempts and the account, it
\* is ready only with the account, and it drops the waiting input only for an
\* answer.
LEMMA ObservedIs ==
  ASSUME NEW m \in Mems, NEW d \in Seen, NEW a \in Ages, NEW view \in Views
  PROVE  LET f == [digest |-> d, age |-> a]
             o == Observed(m, f, view) IN
         /\ o \in Mems
         /\ o.attempts = m.attempts /\ o.verified = m.verified
         /\ o.state = "ready" => m.verified
         /\ m.state = "quarantined" => o = m
         /\ o.pending = m.pending \/ (o.pending = NoDigest /\ Answers(d))
<1> DEFINE f == [digest |-> d, age |-> a]
           seen == [m EXCEPT !.last = f.digest, !.lastAge = f.age, !.exhausted = FALSE]
<1>1. /\ seen \in Mems /\ seen.attempts = m.attempts /\ seen.verified = m.verified
      /\ seen.pending = m.pending /\ f.digest = d
  BY DEF Mems
<1> HIDE DEF seen
<1>2. /\ [seen EXCEPT !.state = "quarantined"] \in Mems
      /\ [seen EXCEPT !.state = "blocked"] \in Mems
      /\ [seen EXCEPT !.state = "ready", !.pending = NoDigest] \in Mems
  BY <1>1, Bounds DEF Mems
<1>3. CASE m.state = "quarantined"
  BY <1>3 DEF Observed
<1>4. CASE m.state # "quarantined"
  <2>1. Observed(m, f, view) =
          IF view = "conflict" THEN [seen EXCEPT !.state = "quarantined"]
          ELSE IF m.device /\ m.verified /\ f.age <= FreshFor /\ view = "clear" /\ Answers(d)
          THEN [seen EXCEPT !.state = "ready", !.pending = NoDigest]
          ELSE [seen EXCEPT !.state = "blocked"]
    BY <1>1, <1>4 DEF Observed, seen
  <2>2. QED
    BY <1>1, <1>2, <1>4, <2>1 DEF Mems
<1>5. QED
  BY <1>3, <1>4

\* A first start without a checkpoint satisfies the invariant.
LEMMA Initial == Init => IInv
<1> SUFFICES ASSUME Init PROVE IInv
  OBVIOUS
<1>1. Fresh \in Mems /\ Fresh.attempts = 0 /\ Fresh.state = "blocked" /\ ~Fresh.verified
      /\ ~Fresh.exhausted /\ Fresh.pending = NoDigest
  BY Bounds DEF Fresh, Mems
<1>2. TypeOK
  BY <1>1, Bounds, WrittenIs DEF Init, TypeOK, Phases, NoFrame
<1>3. QED
  BY <1>1, <1>2, WrittenIs DEF Init, IInv, PendingInv, VerifiedInv, QuarantineInv, TriesInv

\* Every step of the thread, every crash and every tick keeps it.
LEMMA Inductive == IInv /\ [Next]_vars => IInv'
<1> SUFFICES ASSUME IInv, [Next]_vars PROVE IInv'
  OBVIOUS
<1> USE DEF IInv, TypeOK, PendingInv, VerifiedInv, QuarantineInv, TriesInv, Phases, history
<1>0. /\ mem.attempts \in Nat /\ mem.attempts <= MaxAttempts /\ MaxAttempts \in Nat
      /\ MaxAttempts > 0 /\ ckpt.attempts \in Nat
      /\ mem.verified \in BOOLEAN /\ ckpt.exhausted \in BOOLEAN /\ Hosted \in BOOLEAN
      /\ mem.resting \in BOOLEAN /\ mem.state \in States /\ mem.pending \in Seen
  BY DeviceConstants DEF Mems, Ckpts
<1>1. CASE Start
  <2> DEFINE rested == ckpt.exhausted /\ Hosted
             a == IF rested THEN 0 ELSE ckpt.attempts
             s == IF ckpt.state = "quarantined" /\ ~rested THEN "quarantined" ELSE "blocked"
  <2>1. a \in 0..MaxAttempts /\ s \in States
    BY Bounds DEF Ckpts
  <2>2. mem' = [Fresh EXCEPT !.pending = ckpt.pending, !.last = ckpt.last,
                             !.exhausted = ckpt.exhausted, !.attempts = a, !.state = s]
    BY <1>1 DEF Start, Loaded
  <2> HIDE DEF a, s
  <2>3. /\ mem' \in Mems /\ mem'.pending = ckpt.pending /\ mem'.verified = FALSE
        /\ mem'.attempts = a /\ mem'.state = s
    BY <2>1, <2>2, Bounds DEF Fresh, Mems, Ckpts
  <2>4. /\ phase' = "enter" /\ starting' = TRUE /\ frame' = NoFrame /\ proof' = FALSE
        /\ UNCHANGED <<ckpt, since, sent>> /\ tries' = IF rested THEN 0 ELSE tries
    BY <1>1 DEF Start
  <2>5. QED
    <3>1. TypeOK'
      BY <1>0, <2>3, <2>4, Bounds DEF NoFrame, a, s
    <3>2. PendingInv'
      BY <1>0, <2>3, <2>4, Bounds DEF NoFrame, a, s
    <3>3. VerifiedInv'
      BY <1>0, <2>3, <2>4, Bounds DEF NoFrame, a, s
    <3>4. QuarantineInv'
      BY <1>0, <2>3, <2>4, Bounds DEF NoFrame, a, s
    <3>5. TriesInv'
      BY <1>0, <2>3, <2>4, Bounds DEF NoFrame, a, s
    <3>6. QED
      BY <3>1, <3>2, <3>3, <3>4, <3>5
<1>2. CASE Recover
  BY <1>2 DEF Recover
<1>3. CASE EnterRefused
  <2>1. CASE UNCHANGED <<mem, ckpt>>
    BY <1>3, <2>1 DEF EnterRefused, GiveUp
  <2>2. CASE Saved([mem EXCEPT !.state = "quarantined", !.exhausted = TRUE]) /\ Hosted
    <3>1. /\ mem' \in Mems /\ mem'.state = "quarantined" /\ mem'.exhausted = TRUE
          /\ mem'.attempts = mem.attempts /\ mem'.pending = mem.pending
          /\ mem'.verified = mem.verified
      BY <2>2, Bounds DEF Saved, Mems
    <3>2. ckpt' = Written(mem')
      BY <2>2 DEF Saved
    <3>3. QED
      BY <1>0, <1>3, <2>2, <3>1, <3>2, WrittenIs DEF EnterRefused, GiveUp
  <2>3. QED
    BY <1>3, <2>1, <2>2 DEF EnterRefused
<1>4. CASE Enter
  <2>1. CASE UNCHANGED <<mem, tries>> /\ mem.attempts < MaxAttempts
    BY <1>4, <2>1 DEF Enter
  <2>2. CASE mem' = [mem EXCEPT !.resting = FALSE, !.attempts = 0] /\ tries' = 0
    <3>1. /\ mem' \in Mems /\ mem'.attempts = 0 /\ mem'.state = mem.state
          /\ mem'.pending = mem.pending /\ mem'.verified = mem.verified
      BY <2>2, Bounds DEF Mems
    <3>2. QED
      BY <1>0, <1>4, <2>2, <3>1 DEF Enter
  <2>3. QED
    BY <1>4, <2>1, <2>2 DEF Enter
<1>5. CASE ConnectFails
  <2>1. mem.attempts + 1 \in 0..MaxAttempts
    BY <1>0, <1>5 DEF ConnectFails
  <2>2. /\ mem' \in Mems /\ mem'.attempts = mem.attempts + 1 /\ mem'.state = "blocked"
        /\ mem'.pending = mem.pending /\ mem'.verified = mem.verified
    BY <1>5, <2>1, Bounds DEF ConnectFails, Saved, Mems
  <2>3. ckpt' = Written(mem')
    BY <1>5 DEF ConnectFails, Saved
  <2>4. QED
    BY <1>0, <1>5, <2>2, <2>3, WrittenIs DEF ConnectFails
<1>6. CASE Exhausted
  <2>1. CASE UNCHANGED <<mem, ckpt>>
    BY <1>6, <2>1 DEF Exhausted, GiveUp
  <2>2. CASE Saved([mem EXCEPT !.exhausted = TRUE, !.resting = TRUE])
    <3>1. /\ mem' \in Mems /\ mem'.state = mem.state /\ mem'.attempts = mem.attempts
          /\ mem'.pending = mem.pending /\ mem'.verified = mem.verified
      BY <2>2 DEF Saved, Mems
    <3>2. ckpt' = Written(mem')
      BY <2>2 DEF Saved
    <3>3. QED
      BY <1>0, <1>6, <3>1, <3>2, WrittenIs DEF Exhausted, GiveUp
  <2>3. QED
    BY <1>6, <2>1, <2>2 DEF Exhausted
<1>7. CASE ConnectWrong
  <2>1. mem.attempts + 1 \in 0..MaxAttempts
    BY <1>0, <1>7 DEF ConnectWrong
  <2>2. /\ mem' \in Mems /\ mem'.attempts = mem.attempts + 1 /\ mem'.state = "quarantined"
        /\ mem'.pending = mem.pending /\ mem'.verified = mem.verified
    BY <1>7, <2>1, Bounds DEF ConnectWrong, Saved, Mems
  <2>3. ckpt' = Written(mem')
    BY <1>7 DEF ConnectWrong, Saved
  <2>4. QED
    BY <1>0, <1>7, <2>2, <2>3, WrittenIs DEF ConnectWrong, GiveUp
<1>8. CASE Connected
  <2>1. /\ mem' \in Mems
        /\ mem'.attempts = 0 /\ mem'.state = "blocked"
        /\ mem'.pending = mem.pending /\ mem'.verified = FALSE
    BY <1>0, <1>8, Bounds DEF Connected, Saved, Mems
  <2>2. ckpt' = Written(mem')
    BY <1>8 DEF Connected, Saved
  <2>3. /\ phase' \in {"walk", "scan"} /\ phase = "connect" /\ proof' = FALSE /\ tries' = 0
        /\ UNCHANGED <<since, starting, frame, sent>>
    BY <1>8 DEF Connected
  <2>4. QED
    <3>1. TypeOK'
      BY <1>0, <2>1, <2>2, <2>3, WrittenIs
    <3>2. PendingInv'
      BY <1>0, <2>1, <2>2, <2>3, WrittenIs
    <3>3. VerifiedInv'
      BY <1>0, <2>1, <2>2, <2>3, WrittenIs
    <3>4. QuarantineInv'
      BY <1>0, <2>1, <2>2, <2>3, WrittenIs
    <3>5. TriesInv'
      BY <1>0, <2>1, <2>2, <2>3, WrittenIs
    <3>6. QED
      BY <3>1, <3>2, <3>3, <3>4, <3>5
<1>9. CASE Capture
  <2>1. frame' \in [digest : Seen, age : Ages]
    BY <1>9, Bounds DEF Capture
  <2>2. /\ phase = "scan" /\ phase' = "look" /\ UNCHANGED <<mem, ckpt, since, starting, history>>
    BY <1>9 DEF Capture
  <2>3. QED
    BY <2>1, <2>2
<1>10. CASE CaptureFails
  <2>1. mem \in Mems /\ ckpt \in Ckpts /\ Disconnected(mem)
    BY <1>10 DEF CaptureFails
  <2>2. /\ phase' \in {"scan", "down"} /\ phase # "down"
        /\ UNCHANGED <<since, starting, frame, sent>>
    BY <1>10 DEF CaptureFails
  <2>3. QED
    <3>1. TypeOK'
      BY <1>0, <2>1, <2>2, DisconnectedIs
    <3>2. PendingInv'
      BY <1>0, <2>1, <2>2, DisconnectedIs
    <3>3. VerifiedInv'
      BY <1>0, <2>1, <2>2, DisconnectedIs
    <3>4. QuarantineInv'
      BY <1>0, <2>1, <2>2, DisconnectedIs
    <3>5. TriesInv'
      BY <1>0, <2>1, <2>2, DisconnectedIs
    <3>6. QED
      BY <3>1, <3>2, <3>3, <3>4, <3>5
<1>11. ASSUME NEW view \in Views, Observe(view) PROVE IInv'
  <2> DEFINE o == Observed(mem, frame, view)
  <2>1. frame = [digest |-> frame.digest, age |-> frame.age]
    OBVIOUS
  <2>2. /\ o \in Mems /\ o.attempts = mem.attempts /\ o.verified = mem.verified
        /\ o.state = "ready" => mem.verified
        /\ mem.state = "quarantined" => o = mem
        /\ o.pending = mem.pending \/ (o.pending = NoDigest /\ Answers(frame.digest))
    BY <1>11, <2>1, ObservedIs
  <2> HIDE DEF o
  <2>3. mem' = o /\ ckpt' = Written(o) /\ phase' = "act" /\ frame' = NoFrame
        /\ sent' = Answered(frame.digest) /\ UNCHANGED <<since, starting, proof, tries>>
        /\ phase = "look"
    BY <1>11 DEF Observe, Saved, o
  <2>4. QED
    <3>1. TypeOK'
      BY <1>0, <2>2, <2>3, WrittenIs, Bounds DEF Answered, Answers, NoFrame
    <3>2. PendingInv'
      BY <1>0, <2>2, <2>3, WrittenIs, Bounds DEF Answered, Answers, NoFrame
    <3>3. VerifiedInv'
      BY <1>0, <2>2, <2>3, WrittenIs, Bounds DEF Answered, Answers, NoFrame
    <3>4. QuarantineInv'
      BY <1>0, <2>2, <2>3, WrittenIs, Bounds DEF Answered, Answers, NoFrame
    <3>5. TriesInv'
      BY <1>0, <2>2, <2>3, WrittenIs, Bounds DEF Answered, Answers, NoFrame
    <3>6. QED
      BY <3>1, <3>2, <3>3, <3>4, <3>5
<1>12. CASE ScanEnds
  BY <1>12 DEF ScanEnds
<1>13. CASE Reverify
  BY <1>13 DEF Reverify
<1>14. CASE WalkVerifies
  <2>1. PICK d \in Digests, view \in Views :
          LET m == Observed([mem EXCEPT !.verified = TRUE], [digest |-> d, age |-> 0], view) IN
          /\ Saved(m)
          /\ IF m.state = "ready" THEN phase' = "walked" ELSE GiveUp
          /\ sent' = Answered(d)
    BY <1>14 DEF WalkVerifies
  <2> DEFINE v == [mem EXCEPT !.verified = TRUE]
             o == Observed(v, [digest |-> d, age |-> 0], view)
  <2>2. v \in Mems /\ d \in Seen /\ 0 \in Ages
    BY Bounds DEF Mems
  <2> HIDE DEF v
  <2>3. /\ o \in Mems /\ o.attempts = v.attempts /\ o.verified = v.verified
        /\ o.pending = v.pending \/ (o.pending = NoDigest /\ Answers(d))
    BY <2>2, ObservedIs
  <2>4. /\ mem' = o /\ ckpt' = Written(o)
        /\ IF o.state = "ready" THEN phase' = "walked" ELSE GiveUp
        /\ sent' = Answered(d) /\ proof' = TRUE /\ UNCHANGED <<since, starting, frame, tries>>
        /\ phase = "walk"
    BY <1>14, <2>1 DEF WalkVerifies, Saved, v
  <2>5. v.attempts = mem.attempts /\ v.verified = TRUE /\ v.pending = mem.pending
    BY DEF Mems, v
  <2> HIDE DEF o
  <2>6. QED
    BY <1>0, <2>3, <2>4, <2>5, WrittenIs DEF Answered, Answers, GiveUp
<1>15. CASE WalkWrong
  <2>1. /\ mem' \in Mems
        /\ mem'.attempts = mem.attempts /\ mem'.state = "quarantined"
        /\ mem'.pending = mem.pending /\ mem'.verified = mem.verified
    BY <1>0, <1>15, Bounds DEF WalkWrong, Saved, Mems
  <2>2. ckpt' = Written(mem')
    BY <1>15 DEF WalkWrong, Saved
  <2>3. QED
    BY <1>0, <1>15, <2>1, <2>2, WrittenIs, Bounds DEF WalkWrong, GiveUp
<1>16. CASE WalkEnds
  <2>1. CASE UNCHANGED <<mem, ckpt>>
    BY <1>16, <2>1 DEF WalkEnds, GiveUp
  <2>2. CASE Saved([mem EXCEPT !.verified = FALSE, !.state = "blocked", !.exhausted = FALSE])
             /\ phase = "walked" /\ GiveUp /\ UNCHANGED starting
    <3>1. /\ mem' \in Mems /\ mem'.state = "blocked" /\ mem'.attempts = mem.attempts
          /\ mem'.pending = mem.pending /\ mem'.verified = FALSE
      BY <2>2, Bounds DEF Saved, Mems
    <3>2. ckpt' = Written(mem')
      BY <2>2 DEF Saved
    <3>3. QED
      BY <1>0, <1>16, <2>2, <3>1, <3>2, WrittenIs DEF WalkEnds, GiveUp
  <2>3. QED
    BY <1>16, <2>1, <2>2 DEF WalkEnds
<1>17. CASE WalkDisconnects
  <2>1. mem \in Mems /\ ckpt \in Ckpts /\ Disconnected(mem)
    BY <1>17 DEF WalkDisconnects
  <2>2. /\ phase' \in {"scan", "down"} /\ phase # "down"
        /\ UNCHANGED <<since, starting, frame, sent>>
    BY <1>17 DEF WalkDisconnects, GiveUp
  <2>3. QED
    <3>1. TypeOK'
      BY <1>0, <2>1, <2>2, DisconnectedIs
    <3>2. PendingInv'
      BY <1>0, <2>1, <2>2, DisconnectedIs
    <3>3. VerifiedInv'
      BY <1>0, <2>1, <2>2, DisconnectedIs
    <3>4. QuarantineInv'
      BY <1>0, <2>1, <2>2, DisconnectedIs
    <3>5. TriesInv'
      BY <1>0, <2>1, <2>2, DisconnectedIs
    <3>6. QED
      BY <3>1, <3>2, <3>3, <3>4, <3>5
<1>18. CASE Act
  <2>1. /\ mem' \in Mems
        /\ mem'.attempts = mem.attempts /\ mem'.state = "blocked"
        /\ mem'.pending = mem.last /\ mem'.verified = mem.verified
    BY <1>0, <1>18, Bounds DEF Act, Saved, Mems
  <2>2. ckpt' = Written(mem')
    BY <1>18 DEF Act, Saved
  <2>3. QED
    BY <1>0, <1>18, <2>1, <2>2, WrittenIs, Bounds DEF Act
<1>19. CASE SendRefused
  <2>1. /\ mem' \in Mems
        /\ mem'.attempts = mem.attempts /\ mem'.state = mem.state
        /\ mem'.pending = NoDigest /\ mem'.verified = mem.verified
    BY <1>0, <1>19, Bounds DEF SendRefused, Saved, Mems
  <2>2. ckpt' = Written(mem')
    BY <1>19 DEF SendRefused, Saved
  <2>3. QED
    BY <1>0, <1>19, <2>1, <2>2, WrittenIs, Bounds DEF SendRefused
<1>20. CASE Send
  BY <1>0, <1>20, Bounds DEF Send, Landed
<1>21. CASE SendRaises
  <2>1. /\ sent' \in [count : Nat, digest : Seen, age : Ages]
        /\ sent'.count > 0 => sent'.count = 1 /\ sent'.digest = mem.pending
    BY <1>0, <1>21, Bounds DEF SendRaises, Landed
  <2>2. QED
    <3>1. /\ mem \in Mems /\ ckpt \in Ckpts /\ Disconnected(mem)
          /\ phase = "send" /\ phase' = "scan" /\ UNCHANGED <<since, starting, frame>>
      BY <1>21 DEF SendRaises
    <3>2. TypeOK'
      BY <1>0, <2>1, <3>1, DisconnectedIs
    <3>3. PendingInv'
      BY <1>0, <2>1, <3>1, DisconnectedIs
    <3>4. VerifiedInv'
      BY <1>0, <2>1, <3>1, DisconnectedIs
    <3>5. QuarantineInv'
      BY <1>0, <2>1, <3>1, DisconnectedIs
    <3>6. TriesInv'
      BY <1>0, <2>1, <3>1, DisconnectedIs
    <3>7. QED
      BY <3>2, <3>3, <3>4, <3>5, <3>6
<1>22. CASE Crash
  <2>1. Fresh \in Mems /\ ~Fresh.verified /\ Fresh.state = "blocked"
    BY Bounds DEF Fresh, Mems
  <2>2. QED
    BY <1>22, <2>1, Bounds DEF Crash, NoFrame
<1>23. CASE Tick
  <2>1. /\ mem' \in Mems /\ mem'.state = mem.state /\ mem'.attempts = mem.attempts
        /\ mem'.pending = mem.pending /\ mem'.verified = mem.verified
    BY <1>23, Bounds DEF Tick, Mems
  <2>2. /\ sent' \in [count : Nat, digest : Seen, age : Ages]
        /\ sent'.count = sent.count /\ sent'.digest = sent.digest
        /\ frame' \in [digest : Seen, age : Ages]
    BY <1>23, Bounds DEF Tick
  <2>3. QED
    BY <1>0, <1>23, <2>1, <2>2, Bounds DEF Tick
<1>24. CASE UNCHANGED vars
  BY <1>24 DEF vars
<1>25. QED
  BY <1>1, <1>2, <1>3, <1>4, <1>5, <1>6, <1>7, <1>8, <1>9, <1>10, <1>11, <1>12, <1>13, <1>14,
     <1>15, <1>16, <1>17, <1>18, <1>19, <1>20, <1>21, <1>22, <1>23, <1>24 DEF Next, Walk

\* The state variables keep their types.
THEOREM TypeCorrect == Spec => []TypeOK
<1>1. IInv => TypeOK
  BY DEF IInv
<1>2. QED
  BY <1>1, Initial, Inductive, PTL DEF Spec

\* One input per answer.  An input is decided only while nothing waits, and
\* what waits is, in memory and on disk, exactly the input without an answer
\* (PendingInv); it is dropped only for a frame that answers it.
THEOREM GateHolds == Spec => []OneInputPerAnswer
<1>1. IInv => OneInputPerAnswer
  BY DEF IInv, TypeOK, PendingInv, OneInputPerAnswer
<1>2. QED
  BY <1>1, Initial, Inductive, PTL DEF Spec

\* Write-ahead: whoever loads the checkpoint knows of the unanswered input.
THEOREM WriteAhead == Spec => []UnansweredIsOnDisk
<1>1. IInv => UnansweredIsOnDisk
  BY DEF IInv, PendingInv, UnansweredIsOnDisk
<1>2. QED
  BY <1>1, Initial, Inductive, PTL DEF Spec

\* Restarts do not buy connection attempts.
THEOREM BoundedRetries == Spec => []RetriesAreBounded
<1>1. IInv => RetriesAreBounded
  BY DeviceConstants DEF IInv, TypeOK, Ckpts, TriesInv, RetriesAreBounded
<1>2. QED
  BY <1>1, Initial, Inductive, PTL DEF Spec

\* Only Send and a send that raised add an input, and to be there the account
\* must have been seen on this connection (VerifiedInv).
THEOREM VerifiedInputs == Spec => InputsAreVerified
<1>1. IInv /\ [Next]_vars => [sent'.count > sent.count => proof]_vars
  <2> SUFFICES ASSUME IInv, Next, sent'.count > sent.count PROVE proof
    OBVIOUS
  <2>1. sent.count \in Nat
    BY DEF IInv, TypeOK
  <2>2. CASE phase = "send"
    BY <2>2 DEF IInv, VerifiedInv
  <2>3. CASE phase # "send"
    <3>1. sent'.count \in Nat /\ sent'.count <= sent.count
      <4>1. UNCHANGED sent \/ (\E d : sent' = Answered(d)) \/ sent' = [sent EXCEPT !.age = Older(@)]
        BY <2>3 DEF Next, Walk, Start, Recover, EnterRefused, Enter, ConnectFails, Exhausted,
           ConnectWrong, Connected, Capture, CaptureFails, Observe, ScanEnds, Reverify,
           WalkVerifies, WalkWrong, WalkEnds, WalkDisconnects, Act, SendRefused, Send,
           SendRaises, Crash, Tick, history
      <4>2. QED
        BY <2>1, <4>1 DEF Answered, IInv, TypeOK
    <3>2. QED
      BY <2>1, <3>1
  <2>4. QED
    BY <2>2, <2>3
<1>2. QED
  BY <1>1, Initial, Inductive, PTL DEF Spec, InputsAreVerified

\* A quarantine that is on disk is also in the memory of whoever runs
\* (QuarantineInv), every write of it says so, and it cannot send.
THEOREM DurableQuarantine == Spec => QuarantineIsDurable
<1> DEFINE Q == ckpt.state = "quarantined" /\ ~(ckpt.exhausted /\ Hosted)
<1>1. ASSUME IInv, Next, Q PROVE ckpt'.state = "quarantined" /\ sent'.count <= sent.count
  <2>1. phase = "down" \/ mem.state = "quarantined"
    BY <1>1 DEF IInv, QuarantineInv
  <2>2. CASE phase = "down"
    <3>1. UNCHANGED ckpt /\ (UNCHANGED sent \/ sent' = [sent EXCEPT !.age = Older(@)])
      BY <1>1, <2>2 DEF Next, Walk, Start, Recover, EnterRefused, Enter, ConnectFails, Exhausted,
         ConnectWrong, Connected, Capture, CaptureFails, Observe, ScanEnds, Reverify,
         WalkVerifies, WalkWrong, WalkEnds, WalkDisconnects, Act, SendRefused, Send,
         SendRaises, Crash, Tick, history
    <3>2. QED
      BY <1>1, <3>1 DEF IInv, TypeOK
  <2>3. CASE phase # "down" /\ mem.state = "quarantined"
    <3>1. phase \notin {"connect", "exhausted", "walked", "send"}
      BY <1>1, <2>3 DEF IInv, QuarantineInv
    <3>2. \/ UNCHANGED ckpt
          \/ ckpt' = Written(mem)
      BY <1>1, <2>3, <3>1 DEF Next, Walk, Start, Recover, EnterRefused, Enter, ConnectFails,
         Exhausted, ConnectWrong, Connected, Capture, CaptureFails, Observe, Observed, ScanEnds,
         Reverify, WalkVerifies, WalkWrong, WalkEnds, WalkDisconnects, Act, SendRefused, Send,
         SendRaises, Crash, Tick, Saved, Disconnected
    <3>3. UNCHANGED sent \/ (\E d : sent' = Answered(d)) \/ sent' = [sent EXCEPT !.age = Older(@)]
      BY <1>1, <2>3, <3>1 DEF Next, Walk, Start, Recover, EnterRefused, Enter, ConnectFails,
         Exhausted, ConnectWrong, Connected, Capture, CaptureFails, Observe, ScanEnds, Reverify,
         WalkVerifies, WalkWrong, WalkEnds, WalkDisconnects, Act, SendRefused, Send,
         SendRaises, Crash, Tick, history
    <3>4. QED
      BY <1>1, <2>3, <3>2, <3>3, WrittenIs DEF IInv, TypeOK, Answered
  <2>4. QED
    BY <2>1, <2>2, <2>3
<1>2. IInv /\ [Next]_vars
        => [Q => ckpt'.state = "quarantined" /\ sent'.count <= sent.count]_vars
  BY <1>1
<1>3. QED
  BY <1>2, Initial, Inductive, PTL DEF Spec, QuarantineIsDurable
=============================================================================
