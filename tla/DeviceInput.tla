---------------------------- MODULE DeviceInput -----------------------------
(***************************************************************************)
(* The write-ahead input gate of one device: DeviceSupervisor              *)
(* (src/supervisor.py) and the one thread that drives it, the scan loop of *)
(* src/tower_bot.py with the start of src/runner.py.                       *)
(*                                                                         *)
(* An input is decided on an observed frame, recorded on disk with that    *)
(* frame's digest, and then sent.  Until a frame has answered it no other  *)
(* input is sent, whatever happens in between: the transport is lost, the  *)
(* process dies, another process loads the checkpoint.                     *)
(*                                                                         *)
(* Times are ages in ticks that stop counting at Cap, where every          *)
(* comparison of the code has been decided; the wall clock is taken never  *)
(* to step back, so a frame that was just captured is newer than the last. *)
(***************************************************************************)
EXTENDS Naturals

CONSTANTS
  Digests,          \* what frames may look like
  NoDigest,         \* None
  FreshFor,         \* a frame is evidence for this long (5 s)
  NoEffectTimeout,  \* an unchanged screen means no effect after this (15 s)
  MaxAttempts,      \* DeviceSupervisor.max_attempts
  Hosted            \* a worker with a host adapter rests and retries

ASSUME DeviceConstants ==
  /\ FreshFor \in Nat /\ NoEffectTimeout \in Nat \ {0} /\ MaxAttempts \in Nat \ {0}
  /\ Hosted \in BOOLEAN /\ NoDigest \notin Digests

Cap == FreshFor + NoEffectTimeout + 1
Older(age) == IF age < Cap THEN age + 1 ELSE age

VARIABLES
  mem,       \* the supervisor's memory
  ckpt,      \* the checkpoint on disk
  since,     \* the age of pending_since, which both hold
  phase,     \* where the thread is
  starting,  \* it runs BotRunner.start, not the loop
  frame,     \* the frame in hand
  sent,      \* history: inputs without an answer, and the last one's digest and age
  proof,     \* history: the account was seen on this connection
  tries      \* history: connects that failed in a row

vars == <<mem, ckpt, since, phase, starting, frame, sent, proof, tries>>
history == <<sent, proof, tries>>

States == {"ready", "blocked", "quarantined"}
Phases == {"down", "enter", "connect", "exhausted", "walk", "walked", "scan", "look", "act", "send"}

\* __init__ without a checkpoint.
Fresh ==
  [state |-> "blocked", exhausted |-> FALSE, device |-> FALSE, verified |-> FALSE,
   attempts |-> 0, resting |-> FALSE, pending |-> NoDigest, last |-> NoDigest, lastAge |-> Cap]
NoFrame == [digest |-> NoDigest, age |-> Cap]

Written(m) == [state |-> m.state, exhausted |-> m.exhausted, attempts |-> m.attempts,
               pending |-> m.pending, last |-> m.last]
Saved(m) == mem' = m /\ ckpt' = Written(m)

LoadedMutant ==
  [Fresh EXCEPT !.last = ckpt.last, !.exhausted = ckpt.exhausted,
     !.attempts = IF ckpt.exhausted /\ Hosted THEN 0 ELSE ckpt.attempts,
     !.state = IF ckpt.state = "quarantined" /\ ~(ckpt.exhausted /\ Hosted)
               THEN "quarantined" ELSE "blocked"]
\* _load: a rested worker starts afresh, a quarantined one stays so.
Loaded ==
  [Fresh EXCEPT !.pending = ckpt.pending, !.last = ckpt.last, !.exhausted = ckpt.exhausted,
     !.attempts = IF ckpt.exhausted /\ Hosted THEN 0 ELSE ckpt.attempts,
     !.state = IF ckpt.state = "quarantined" /\ ~(ckpt.exhausted /\ Hosted)
               THEN "quarantined" ELSE "blocked"]

Init ==
  /\ mem = Fresh /\ ckpt = Written(Fresh) /\ since = Cap
  /\ phase = "down" /\ starting = FALSE /\ frame = NoFrame
  /\ sent = [count |-> 0, digest |-> NoDigest, age |-> Cap] /\ proof = FALSE /\ tries = 0

\* disconnected() by a supervisor m: a quarantine is neither lifted nor rewritten.
Cut(m) ==
  LET lost == [m EXCEPT !.device = FALSE, !.verified = FALSE, !.attempts = 0] IN
  IF m.state = "quarantined" THEN lost ELSE [lost EXCEPT !.state = "blocked", !.exhausted = FALSE]

Disconnected(m) ==
  /\ mem' = Cut(m)
  /\ ckpt' = IF m.state = "quarantined" THEN ckpt ELSE Written(Cut(m))
  /\ proof' = FALSE /\ tries' = 0

\* A failed start drops its supervisor, the loop keeps it.
GiveUp == phase' = IF starting THEN "down" ELSE "scan"
----------------------------------------------------------------------------
(* BotRunner.start, and recover().                                         *)

Start ==
  /\ phase = "down"
  /\ mem' = Loaded
  /\ tries' = IF ckpt.exhausted /\ Hosted THEN 0 ELSE tries
  /\ starting' = TRUE /\ phase' = "enter"
  /\ frame' = NoFrame /\ proof' = FALSE
  /\ UNCHANGED <<ckpt, since, sent>>

\* run_forever after a device error.
Recover ==
  /\ phase = "scan" /\ ~mem.device
  /\ starting' = FALSE /\ phase' = "enter"
  /\ UNCHANGED <<mem, ckpt, since, frame, history>>

EnterRefused ==
  /\ phase = "enter"
  /\ \/ /\ mem.state = "quarantined" \/ mem.resting
        /\ UNCHANGED <<mem, ckpt>>
     \/ /\ mem.state # "quarantined" /\ ~mem.resting /\ mem.attempts >= MaxAttempts
        /\ IF Hosted THEN Saved([mem EXCEPT !.state = "quarantined", !.exhausted = TRUE])
                     ELSE UNCHANGED <<mem, ckpt>>
  /\ GiveUp
  /\ UNCHANGED <<since, starting, frame, history>>

\* A cooldown that has passed gives a fresh set of attempts.
Enter ==
  /\ phase = "enter" /\ mem.state # "quarantined"
  /\ \/ mem.resting /\ mem' = [mem EXCEPT !.resting = FALSE, !.attempts = 0] /\ tries' = 0
     \/ ~mem.resting /\ mem.attempts < MaxAttempts /\ UNCHANGED <<mem, tries>>
  /\ phase' = "connect"
  /\ UNCHANGED <<ckpt, since, starting, frame, sent, proof>>

ConnectFails ==
  /\ phase = "connect"
  /\ Saved([mem EXCEPT !.attempts = @ + 1, !.state = "blocked", !.exhausted = FALSE])
  /\ tries' = tries + 1
  /\ phase' = IF mem.attempts + 1 < MaxAttempts THEN "connect" ELSE "exhausted"
  /\ UNCHANGED <<since, starting, frame, sent, proof>>

Exhausted ==
  /\ phase = "exhausted"
  /\ IF Hosted THEN Saved([mem EXCEPT !.exhausted = TRUE, !.resting = TRUE])
               ELSE UNCHANGED <<mem, ckpt>>
  /\ GiveUp
  /\ UNCHANGED <<since, starting, frame, history>>

\* A host identity mismatch, or a device with another serial.
ConnectWrong ==
  /\ phase = "connect"
  /\ Saved([mem EXCEPT !.attempts = @ + 1, !.state = "quarantined", !.exhausted = FALSE])
  /\ GiveUp
  /\ UNCHANGED <<since, starting, frame, history>>

\* A new connection starts without an account and without evidence.
Connected ==
  /\ phase = "connect"
  /\ Saved([mem EXCEPT !.device = TRUE, !.verified = FALSE, !.attempts = 0,
                       !.state = "blocked", !.exhausted = FALSE])
  /\ proof' = FALSE /\ tries' = 0
  /\ phase' = IF starting THEN "walk" ELSE "scan"
  /\ UNCHANGED <<since, starting, frame, sent>>
----------------------------------------------------------------------------
(* Observation.                                                            *)

AnswersMutant(digest) == mem.pending # digest
\* No input yet, or the frame differs from the one the input was decided on,
\* or it has had its time to have an effect.
Answers(digest) == mem.pending # digest \/ since >= NoEffectTimeout

\* observe(): what the supervisor m makes of the frame f, which shows a screen
\* that is clear, covered (unreadable, a modal, unknown), or a session conflict.
Observed(m, f, view) ==
  IF m.state = "quarantined" THEN m
  ELSE LET seen == [m EXCEPT !.last = f.digest, !.lastAge = f.age, !.exhausted = FALSE] IN
       IF view = "conflict" THEN [seen EXCEPT !.state = "quarantined"]
       ELSE IF /\ m.device /\ m.verified /\ f.age <= FreshFor /\ view = "clear"
               /\ Answers(f.digest)
       THEN [seen EXCEPT !.state = "ready", !.pending = NoDigest]
       ELSE [seen EXCEPT !.state = "blocked"]

\* The history's answer is the one the code waits for.
Answered(digest) ==
  IF sent.count > 0 /\ (sent.digest # digest \/ since >= NoEffectTimeout)
  THEN [sent EXCEPT !.count = 0] ELSE sent

Views == {"clear", "covered", "conflict"}

Capture ==
  /\ phase = "scan" /\ mem.device
  /\ \E d \in Digests : frame' = [digest |-> d, age |-> 0]
  /\ phase' = "look"
  /\ UNCHANGED <<mem, ckpt, since, starting, history>>

CaptureFails ==
  /\ phase = "scan" /\ mem.device
  /\ Disconnected(mem)
  /\ UNCHANGED <<since, phase, starting, frame, sent>>

Observe(view) ==
  /\ phase = "look"
  /\ Saved(Observed(mem, frame, view))
  /\ sent' = Answered(frame.digest)
  /\ frame' = NoFrame
  /\ phase' = "act"
  /\ UNCHANGED <<since, starting, proof, tries>>

ScanEnds ==
  /\ phase = "act"
  /\ phase' = "scan"
  /\ UNCHANGED <<mem, ckpt, since, starting, frame, history>>
----------------------------------------------------------------------------
(* The identity walk: verify_restart_account, at every start and when a    *)
(* reconnect has cleared the account.                                      *)

Reverify ==
  /\ phase = "act" /\ mem.state # "ready" /\ mem.device /\ ~mem.verified
  /\ phase' = "walk"
  /\ UNCHANGED <<mem, ckpt, since, starting, frame, history>>

\* The account popup names the expected account; its frame is observed too.
WalkVerifies ==
  /\ phase = "walk" /\ mem.device /\ mem.state # "quarantined"
  /\ \E d \in Digests, view \in Views :
        LET m == Observed([mem EXCEPT !.verified = TRUE], [digest |-> d, age |-> 0], view) IN
        /\ Saved(m)
        /\ IF m.state = "ready" THEN phase' = "walked" ELSE GiveUp
        /\ sent' = Answered(d)
  /\ proof' = TRUE
  /\ UNCHANGED <<since, starting, frame, tries>>

WalkWrong ==
  /\ phase = "walk" /\ mem.device /\ mem.state # "quarantined"
  /\ Saved([mem EXCEPT !.state = "quarantined", !.exhausted = FALSE])
  /\ GiveUp
  /\ UNCHANGED <<since, starting, frame, history>>

\* The way back home ends well, or the walk raises; invalidate_identity is
\* called where the proven account cannot be bound.
WalkEnds ==
  /\ phase \in {"walk", "walked"}
  /\ \/ /\ phase = "walked"
        /\ phase' = "scan" /\ starting' = FALSE
        /\ UNCHANGED <<mem, ckpt>>
     \/ /\ GiveUp
        /\ UNCHANGED <<mem, ckpt, starting>>
     \/ /\ phase = "walked"
        /\ GiveUp
        /\ Saved([mem EXCEPT !.verified = FALSE, !.state = "blocked", !.exhausted = FALSE])
        /\ UNCHANGED starting
  /\ UNCHANGED <<since, frame, history>>

\* identity_tap fails.
WalkDisconnects ==
  /\ phase \in {"walk", "walked"}
  /\ Disconnected(mem)
  /\ GiveUp
  /\ UNCHANGED <<since, starting, frame, sent>>
----------------------------------------------------------------------------
(* _action: check, record, check again, send.                              *)

ActMutant ==
  /\ phase = "act"
  /\ mem.state = "ready" /\ mem.device /\ mem.pending = NoDigest /\ mem.last # NoDigest
  /\ mem.lastAge <= FreshFor
  /\ mem' = [mem EXCEPT !.pending = mem.last, !.state = "blocked", !.exhausted = FALSE]
  /\ since' = 0
  /\ phase' = "send"
  /\ UNCHANGED <<ckpt, starting, frame, history>>
\* The lease is asserted first; an input it refuses changes nothing.
Act ==
  /\ phase = "act"
  /\ mem.state = "ready" /\ mem.device /\ mem.pending = NoDigest /\ mem.last # NoDigest
  /\ mem.lastAge <= FreshFor
  /\ Saved([mem EXCEPT !.pending = mem.last, !.state = "blocked", !.exhausted = FALSE])
  /\ since' = 0
  /\ phase' = "send"
  /\ UNCHANGED <<starting, frame, history>>

\* The lease was revoked, or the guard fails: nothing was sent.
SendRefused ==
  /\ phase = "send"
  /\ Saved([mem EXCEPT !.pending = NoDigest])
  /\ phase' = "act"
  /\ UNCHANGED <<since, starting, frame, history>>

Landed == [count |-> sent.count + 1, digest |-> mem.pending, age |-> 0]

Send ==
  /\ phase = "send"
  /\ sent' = Landed
  /\ phase' = "act"
  /\ UNCHANGED <<mem, ckpt, since, starting, frame, proof, tries>>

\* The input may have landed or not.
SendRaises ==
  /\ phase = "send"
  /\ Disconnected(mem)
  /\ sent' \in {sent, Landed}
  /\ phase' = "scan"
  /\ UNCHANGED <<since, starting, frame>>

\* The process dies, or the loop ends: its supervisor is gone.
Crash ==
  /\ phase # "down"
  /\ phase' = "down"
  /\ mem' = Fresh /\ frame' = NoFrame /\ starting' = FALSE /\ proof' = FALSE
  /\ UNCHANGED <<ckpt, since, sent, tries>>

Tick ==
  /\ mem' = [mem EXCEPT !.lastAge = Older(@)]
  /\ since' = Older(since)
  /\ frame' = [frame EXCEPT !.age = Older(@)]
  /\ sent' = [sent EXCEPT !.age = Older(@)]
  /\ UNCHANGED <<ckpt, phase, starting, proof, tries>>
----------------------------------------------------------------------------
Walk == WalkVerifies \/ WalkWrong \/ WalkEnds \/ WalkDisconnects

Next ==
  \/ Start \/ Recover \/ EnterRefused \/ Enter
  \/ ConnectFails \/ Exhausted \/ ConnectWrong \/ Connected
  \/ Capture \/ CaptureFails \/ (\E view \in Views : Observe(view)) \/ ScanEnds
  \/ Reverify \/ Walk
  \/ Act \/ SendRefused \/ Send \/ SendRaises
  \/ Crash \/ Tick

Spec == Init /\ [][Next]_vars

\* The loop keeps scanning and, without a device, keeps trying to connect; a
\* cooldown passes; a device that answers again and again is connected to in
\* the end; and frames that are clear are read in time again and again.
FairSpec ==
  /\ Spec
  /\ WF_vars(Tick)
  /\ WF_vars(Recover) /\ SF_vars(Enter) /\ WF_vars(EnterRefused) /\ WF_vars(Exhausted)
  /\ SF_vars(Connected) /\ WF_vars(ConnectFails \/ Connected)
  /\ WF_vars(Capture) /\ WF_vars(ScanEnds) /\ WF_vars(Walk) /\ WF_vars(Send \/ SendRaises)
  /\ WF_vars(\E view \in Views : Observe(view))
  /\ SF_vars(frame.age <= FreshFor /\ Observe("clear"))
----------------------------------------------------------------------------
Ages == 0..Cap
Seen == Digests \cup {NoDigest}

Mems == [state : States, exhausted : BOOLEAN, device : BOOLEAN, verified : BOOLEAN,
         attempts : 0..MaxAttempts, resting : BOOLEAN, pending : Seen, last : Seen,
         lastAge : Ages]
Ckpts == [state : States, exhausted : BOOLEAN, attempts : 0..MaxAttempts,
          pending : Seen, last : Seen]

\* The state variables keep their types.
TypeOK ==
  /\ mem \in Mems /\ ckpt \in Ckpts
  /\ since \in Ages /\ phase \in Phases /\ starting \in BOOLEAN
  /\ frame \in [digest : Seen, age : Ages]
  /\ sent \in [count : Nat, digest : Seen, age : Ages]
  /\ proof \in BOOLEAN /\ tries \in Nat

\* One input per answer: no second input leaves before a frame differs from
\* the one the first was decided on or the no-effect time has passed, however
\* the first ended, and across disconnects, crashes and restarts.
OneInputPerAnswer == sent.count <= 1

\* Write-ahead: an input without an answer is known to the checkpoint, with
\* the frame it was decided on, so that whoever loads it waits for the answer.
UnansweredIsOnDisk == sent.count > 0 => ckpt.pending = sent.digest

\* Inputs of the loop go only to a connection on which the expected account
\* was seen: not to one that was reconnected since.
InputsAreVerified == [][sent'.count > sent.count => proof]_vars

\* A quarantine outlives disconnects, crashes and restarts, and nothing is
\* sent under it; only one for lost transport ends, at a hosted start.
QuarantineIsDurable ==
  [][ckpt.state = "quarantined" /\ ~(ckpt.exhausted /\ Hosted)
       => ckpt'.state = "quarantined" /\ sent'.count <= sent.count]_vars

\* Restarts do not buy attempts: the connects that fail in a row, without a
\* cooldown or a rested restart in between, are at most max_attempts.
RetriesAreBounded == tries <= MaxAttempts

\* While a verified connection lasts, an input is always answered in the end,
\* also one that changes nothing on a screen that never changes.
AnswersCome ==
  <>[](phase # "down" /\ mem.device /\ mem.verified /\ mem.state # "quarantined")
    => []<>(mem.pending = NoDigest)

=============================================================================
