----------------------- MODULE RecoveryEpisodes_proofs -----------------------
(***************************************************************************)
(* The safety of the recovery episodes, for any number of actions,         *)
(* incidents and scopes and any cooldown: what is on record is what was    *)
(* sent, and an input in doubt blocks whatever would come after it.        *)
(***************************************************************************)
EXTENDS RecoveryEpisodes, SequenceTheorems, TLAPS

\* Incidents before the latest are closed, those after it are untouched.
StoreInv ==
  \A i \in Incidents :
    /\ i > latest => actions[i] = <<>> /\ verdict[i] = "open"
    /\ i < latest => verdict[i] # "open"

Watched == view.incident \in 1..latest
Counted == view.used = Len(actions[view.incident])

\* The action at hand is on record without an outcome, and n inputs were sent.
InDoubt(n) ==
  /\ action \in 1..Len(actions[view.incident])
  /\ actions[view.incident][action] = "unrecorded"
  /\ taps[view.incident][action] = n

\* The phases that wait for the storage slot, and for what.
WaitsFor(p, o) ==
  \/ p = "opening" /\ o = "open"
  \/ p = "reserving" /\ o = "reserve"
  \/ p = "recording" /\ o = "outcome"
  \/ p = "closing" /\ o = "close"

\* One command at a time, and its reply is consumed before the next; only a
\* shutdown leaves one behind.
SlotInv ==
  /\ command.op # "none" => reply.op = "none" /\ (phase = "ending" \/ WaitsFor(phase, command.op))
  /\ reply.op # "none" => phase = "ending" \/ WaitsFor(phase, reply.op)

\* What a command that waits is about.
CommandInv ==
  /\ command.op \in {"reserve", "outcome", "close"} => Watched
  /\ command.op = "reserve" => Counted /\ action = view.used + 1 /\ view.used < MaxActions
  /\ command.op = "outcome" =>
       \/ command.outcome = "unknown"
       \/ command.outcome = "not_dispatched" /\ InDoubt(0)
       \/ command.outcome \in {"confirmed", "no_effect"} /\ InDoubt(1)
  /\ command.op = "close" => command.outcome \in Verdicts

\* What a reply that waits says of the store.
ReplyInv ==
  reply.op # "none" /\ reply.result # "failed" =>
    /\ reply.view.incident \in 1..latest
    /\ reply.view.used = Len(actions[reply.view.incident])
    /\ reply.op # "open" => reply.view.incident = view.incident
    /\ reply.op = "reserve" /\ reply.result = "granted" => InDoubt(0)

\* What the scan thread knows in each of its phases.
PhaseInv ==
  /\ phase \notin {"stopped", "ending", "idle", "opening", "paused", "recovered"} => Watched
  /\ phase \in {"choosing", "provider", "validate"} => Counted
  /\ phase = "provider" => view.used < MaxActions
  /\ phase = "reserving" => action = view.used + 1 /\ (Counted \/ InDoubt(0))
  /\ phase = "dispatch" => InDoubt(0)
  /\ phase = "postcondition" => InDoubt(1)
  /\ phase = "recording" => next # "none"
  /\ phase = "ending" /\ final # 0 =>
       /\ Watched /\ final = action /\ command.op \in {"none", "reserve"}
       /\ final \in 1..Len(actions[view.incident]) => InDoubt(0)

Truth == StoreInv /\ DoubtBlocks /\ RecordedTruly
Coordination == SlotInv /\ CommandInv /\ ReplyInv /\ PhaseInv
IInv == TypeOK /\ Truth /\ Coordination
-----------------------------------------------------------------------------
(* Types.                                                                  *)

StoreType ==
  /\ latest \in 0..MaxIncidents /\ highWater \in 0..MaxTime
  /\ actions \in [Incidents -> Seq(Outcomes)]
  /\ \A i \in Incidents : Len(actions[i]) <= MaxActions
  /\ bound \in [Incidents -> 0..MaxScope] /\ revision \in [Incidents -> Nat \ {0}]
  /\ verdict \in [Incidents -> Verdicts \cup {"open"}]
  /\ openedAt \in [Incidents -> 0..MaxTime] /\ closedAt \in [Incidents -> 0..MaxTime]

Booleans == {invalidated, released, dispatched} \subseteq BOOLEAN

ScanType ==
  /\ scope \in 0..MaxScope /\ origin \in 0..MaxScope /\ phase \in Phases
  /\ view \in Views /\ action \in 0..MaxActions /\ final \in 0..MaxActions
  /\ next \in {"none", "recovered", "retry", "unknown", "invalidated"}

Ops == {"none", "open", "reserve", "outcome", "close"}
Commands == [op : Ops, outcome : {"none", "unknown"} \cup Known \cup Verdicts]
Replies == [op : Ops, result : {"none", "ok", "blocked", "granted", "denied", "stale", "failed"}
                               \cup Verdicts, view : Views]

SlotType == command \in Commands /\ reply \in Replies

LEMMA TypeParts ==
  TypeOK <=> /\ StoreType /\ Booleans /\ ScanType /\ SlotType
             /\ taps \in [Incidents -> [Slots -> Nat]]
BY DEF TypeOK, StoreType, Booleans, ScanType, SlotType, Ops, Commands, Replies

LEMMA TypePartsNext ==
  TypeOK' <=> /\ StoreType' /\ Booleans' /\ ScanType' /\ SlotType'
              /\ (taps \in [Incidents -> [Slots -> Nat]])'
BY DEF TypeOK, StoreType, Booleans, ScanType, SlotType, Ops, Commands, Replies

LEMMA NoTypes == NoView \in Views /\ NoCommand \in Commands /\ NoReply \in Replies
BY EpisodesAssumption DEF NoView, NoCommand, NoReply, Views, Commands, Replies, Ops

LEMMA Initial == Init => IInv
<1> SUFFICES ASSUME Init PROVE IInv
  OBVIOUS
<1> USE EpisodesAssumption
<1>1. StoreType
  <2>1. actions \in [Incidents -> Seq(Outcomes)] /\ \A i \in Incidents : Len(actions[i]) = 0
    BY DEF Init
  <2>2. QED
    BY <2>1 DEF Init, StoreType, Incidents, Verdicts
<1>2a. Booleans
  BY DEF Init, Booleans
<1>2b. ScanType /\ SlotType
  BY NoTypes DEF Init, ScanType, SlotType, Phases
<1>2c. taps \in [Incidents -> [Slots -> Nat]]
  BY DEF Init
<1>3. Truth
  <2>1. \A i \in Incidents : actions[i] = <<>> /\ verdict[i] = "open" /\ ~(i < 0)
    BY DEF Init, Incidents
  <2>2. \A i \in Incidents, a \in Slots : taps[i][a] = 0
    BY DEF Init
  <2>3. QED
    BY <2>1, <2>2 DEF Init, Truth, StoreInv, DoubtBlocks, RecordedTruly, Slots
<1>4. Coordination
  BY DEF Init, NoCommand, NoReply, Coordination, SlotInv, CommandInv, ReplyInv, PhaseInv
<1>5. QED
  BY <1>1, <1>2a, <1>2b, <1>2c, <1>3, <1>4, TypeParts DEF IInv
-----------------------------------------------------------------------------
(* The scan thread and the process: the steps that leave the store and the *)
(* inputs as they were.                                                    *)

LEMMA Scheduled ==
  ASSUME NEW op \in Ops, NEW o \in {"none", "unknown"} \cup Known \cup Verdicts,
         NEW p \in Phases, Schedule(op, o, p)
  PROVE  /\ command' \in Commands /\ command'.op = op /\ command'.outcome = o
         /\ phase' = p
BY DEF Schedule, Commands

\* Nothing the store knows, and no input, changes.
Outside == UNCHANGED storeVars /\ UNCHANGED taps

LEMMA OutsideKeepsTruth ==
  ASSUME Outside, Truth
  PROVE  Truth'
BY DEF Outside, storeVars, Truth, StoreInv, DoubtBlocks, RecordedTruly

Quiet ==
  \/ Open \/ Receive \/ Invalidate \/ StallClears \/ Abandon \/ Exhaust \/ Ask \/ Reserve
  \/ Refuse \/ Judge \/ Resume \/ NewScope \/ Start \/ Shutdown \/ Crash

LEMMA QuietIsOutside == Quiet => Outside
<1> USE DEF Outside, storeVars
<1>1. Open \/ Invalidate \/ StallClears \/ Ask \/ Reserve => Outside
  BY DEF Open, Invalidate, StallClears, Ask, Reserve
<1>2. Receive => Outside
  BY DEF Receive
<1>3. Abandon \/ Exhaust \/ Refuse \/ Judge => Outside
  BY DEF Abandon, Exhaust, Refuse, Judge
<1>4. Resume \/ NewScope \/ Start \/ Shutdown \/ Crash => Outside
  BY DEF Resume, NewScope, Start, Shutdown, Crash
<1>5. QED
  BY <1>1, <1>2, <1>3, <1>4 DEF Quiet

LEMMA QuietTypes ==
  ASSUME IInv, Quiet
  PROVE  TypeOK'
<1> USE EpisodesAssumption, NoTypes
<1> USE DEF Ops, Phases, Known, Verdicts
<1>t. /\ StoreType /\ ScanType /\ SlotType /\ Booleans
      /\ taps \in [Incidents -> [Slots -> Nat]] /\ PhaseInv
  BY TypeParts DEF IInv, Coordination
<1>1. StoreType' /\ (taps \in [Incidents -> [Slots -> Nat]])'
  BY <1>t, QuietIsOutside DEF Outside, storeVars, StoreType
<1>2. Booleans'
  BY <1>t DEF Booleans, Quiet, Open, Receive, Invalidate, StallClears, Abandon, Exhaust, Ask,
    Reserve, Refuse, Judge, Resume, NewScope, Start, Shutdown, Crash, Clear, scanVars
<1>3. ScanType' /\ SlotType'
  <2>1. CASE Open
    BY <1>t, <2>1, Scheduled DEF Open, ScanType, SlotType
  <2>2. CASE Receive
    <3>1. reply.view \in Views /\ reply' = NoReply
      BY <1>t, <2>2 DEF Receive, SlotType, Replies
    <3>2. view' \in Views /\ action' \in 0..MaxActions /\ phase' \in Phases
      BY <1>t, <2>2, <3>1 DEF Receive, ScanType, AfterFailure, Finish, Schedule
    <3>3. command' \in Commands
      <4>1. next \in {"recovered", "invalidated", "none", "retry", "unknown"}
        BY <1>t DEF ScanType
      <4>2. command' = command \/ (next \notin {"retry", "unknown", "none"} /\ Finish(next))
        BY <1>t, <2>2 DEF Receive, PhaseInv, IInv, Coordination, SlotInv, WaitsFor
      <4>3. \/ command' = command
            \/ command' = [op |-> "close", outcome |-> next] /\ next \in Verdicts
        BY <4>1, <4>2 DEF Finish, Schedule
      <4>4. QED
        BY <1>t, <4>3 DEF SlotType, Commands
    <3>4. UNCHANGED <<scope, origin, final, next>>
      BY <2>2 DEF Receive
    <3>5. QED
      BY <1>t, <3>1, <3>2, <3>3, <3>4 DEF ScanType, SlotType
  <2>3. CASE Invalidate \/ StallClears
    BY <1>t, <2>3 DEF Invalidate, StallClears, ScanType, SlotType
  <2>4. CASE Abandon
    BY <1>t, <2>4, Scheduled DEF Abandon, Abandons, ScanType, SlotType, WriteOutcome, Finish
  <2>5. CASE Exhaust \/ Ask
    BY <1>t, <2>5, Scheduled DEF Exhaust, Ask, ScanType, SlotType, Finish
  <2>6. CASE Reserve
    <3>1. view.used \in 0..(MaxActions - 1)
      BY <1>t, <2>6 DEF Reserve, PhaseInv, ScanType, Views
    <3>2. QED
      BY <1>t, <2>6, <3>1, Scheduled DEF Reserve, ScanType, SlotType
  <2>7. CASE Refuse \/ Judge
    BY <1>t, <2>7, Scheduled DEF Refuse, Judge, ScanType, SlotType, WriteOutcome
  <2>8. CASE Resume \/ Start \/ Crash
    BY <1>t, <2>8 DEF Resume, Start, Crash, Clear, ScanType, SlotType
  <2>9. CASE NewScope \/ Shutdown
    BY <1>t, <2>9 DEF NewScope, Shutdown, scanVars, ScanType, SlotType
  <2>10. QED
    BY <2>1, <2>2, <2>3, <2>4, <2>5, <2>6, <2>7, <2>8, <2>9 DEF Quiet
<1>4. QED
  BY <1>1, <1>2, <1>3, TypePartsNext

\* What the scan thread knows after a step of its own.
LEMMA QuietCoordination ==
  ASSUME IInv, Quiet
  PROVE  Coordination'
<1> USE EpisodesAssumption
<1>t. /\ StoreType /\ ScanType /\ SlotType
      /\ StoreInv /\ SlotInv /\ CommandInv /\ ReplyInv /\ PhaseInv
  BY TypeParts DEF IInv, Truth, Coordination
<1>o. UNCHANGED <<latest, actions, taps>>
  BY QuietIsOutside DEF Outside, storeVars
<1> USE DEF Coordination, SlotInv, CommandInv, ReplyInv, PhaseInv, Watched, Counted, InDoubt, WaitsFor
<1>1. CASE Open
  BY <1>t, <1>o, <1>1 DEF Open, Schedule
<1>2. CASE Receive
  <2>1. /\ reply' = NoReply /\ reply'.op = "none" /\ command.op = "none"
        /\ WaitsFor(phase, reply.op) /\ phase # "ending"
    BY <1>t, <1>2 DEF Receive, NoReply, SlotType, Commands, Replies, Ops
  <2>2. CASE reply.result = "failed"
    BY <1>t, <1>o, <1>2, <2>1, <2>2 DEF Receive, AfterFailure, Granting
  <2>3. CASE reply.result # "failed" /\ reply.op = "open"
    BY <1>t, <1>o, <1>2, <2>1, <2>3 DEF Receive
  <2>4. CASE reply.result # "failed" /\ reply.op = "reserve"
    <3>1. UNCHANGED command /\ Watched'
      BY <1>t, <1>o, <1>2, <2>1, <2>4 DEF Receive
    <3>2. CASE reply.result = "granted"
      <4>1. phase' = "dispatch" /\ InDoubt(0)'
        BY <1>t, <1>o, <1>2, <2>1, <2>4, <3>2 DEF Receive, Granting
      <4>2. QED
        BY <1>t, <1>o, <2>1, <3>1, <4>1
    <3>3. CASE reply.result # "granted"
      BY <1>t, <1>o, <1>2, <2>1, <2>4, <3>1, <3>3 DEF Receive, Granting
    <3>4. QED
      BY <3>2, <3>3
  <2>5. CASE reply.result # "failed" /\ reply.op = "outcome"
    <3>1. /\ next \in {"recovered", "retry", "unknown", "invalidated"}
          /\ Watched' /\ Counted'
      BY <1>t, <1>o, <1>2, <2>1, <2>5 DEF Receive, ScanType
    <3>2. CASE next = "retry"
      BY <1>t, <1>o, <1>2, <2>1, <2>5, <3>1, <3>2 DEF Receive
    <3>3. CASE next = "unknown"
      BY <1>t, <1>o, <1>2, <2>1, <2>5, <3>1, <3>3 DEF Receive
    <3>4. CASE next \in {"recovered", "invalidated"}
      <4>1. command' = [op |-> "close", outcome |-> next] /\ phase' = "closing" /\ next \in Verdicts
        BY <1>2, <2>5, <3>4 DEF Receive, Finish, Schedule, Verdicts
      <4>2. QED
        BY <1>t, <1>o, <2>1, <3>1, <4>1
    <3>5. QED
      BY <3>1, <3>2, <3>3, <3>4
  <2>6. CASE reply.result # "failed" /\ reply.op = "close"
    BY <1>t, <1>o, <1>2, <2>1, <2>6 DEF Receive
  <2>7. QED
    BY <1>t, <1>2, <2>2, <2>3, <2>4, <2>5, <2>6 DEF Receive
<1>3. CASE Invalidate \/ StallClears
  BY <1>t, <1>o, <1>3 DEF Invalidate, StallClears
<1>4. CASE Abandon
  BY <1>t, <1>o, <1>4 DEF Abandon, Abandons, WriteOutcome, Finish, Schedule, Verdicts
<1>5. CASE Exhaust
  BY <1>t, <1>o, <1>5 DEF Exhaust, Finish, Schedule, Verdicts
<1>6. CASE Ask
  BY <1>t, <1>o, <1>6 DEF Ask
<1>7. CASE Reserve
  BY <1>t, <1>o, <1>7 DEF Reserve, Schedule
<1>8. CASE Refuse \/ Judge
  BY <1>t, <1>o, <1>8 DEF Refuse, Judge, WriteOutcome, Schedule
<1>9. CASE Resume \/ Start \/ Crash
  BY <1>t, <1>o, <1>9 DEF Resume, Start, Crash, Clear, NoCommand, NoReply
<1>10. CASE NewScope
  BY <1>t, <1>o, <1>10 DEF NewScope, scanVars
<1>11. CASE Shutdown
  BY <1>t, <1>o, <1>11 DEF Shutdown, Undispatched
<1>12. QED
  BY <1>1, <1>2, <1>3, <1>4, <1>5, <1>6, <1>7, <1>8, <1>9, <1>10, <1>11 DEF Quiet
-----------------------------------------------------------------------------
(* The input.                                                              *)

\* One more input of the action at hand.
Tapped == taps' = [taps EXCEPT ![view.incident][action] = @ + 1]

LEMMA Tap ==
  ASSUME IInv, Tapped, InDoubt(0), Watched
  PROVE  /\ (taps \in [Incidents -> [Slots -> Nat]])'
         /\ taps'[view.incident][action] = 1
         /\ \A i \in Incidents, a \in Slots :
              (i # view.incident \/ a # action) => taps'[i][a] = taps[i][a]
<1> DEFINE w == view.incident
<1>1. w \in Incidents /\ action \in Slots
  <2>1. /\ w \in 1..latest /\ latest \in 0..MaxIncidents /\ MaxIncidents \in Nat
        /\ view \in Views
    BY TypeParts, EpisodesAssumption DEF IInv, StoreType, ScanType, Watched
  <2>2. w \in Incidents
    BY <2>1 DEF Incidents, Views
  <2>3. action \in 0..MaxActions /\ Len(actions[w]) \in Nat /\ Len(actions[w]) <= MaxActions
    BY <2>2, TypeParts DEF IInv, StoreType, ScanType
  <2>4. QED
    BY <2>2, <2>3, EpisodesAssumption DEF InDoubt, Slots
<1>2. taps \in [Incidents -> [Slots -> Nat]] /\ taps[w][action] = 0
  BY TypeParts DEF IInv, InDoubt
<1>3. QED
  BY <1>1, <1>2 DEF Tapped

LEMMA DispatchStep ==
  ASSUME IInv, Dispatch
  PROVE  IInv'
<1> DEFINE i == view.incident
<1> USE EpisodesAssumption
<1>t. /\ StoreType /\ ScanType /\ SlotType /\ Booleans
      /\ taps \in [Incidents -> [Slots -> Nat]]
      /\ StoreInv /\ DoubtBlocks /\ RecordedTruly
      /\ SlotInv /\ CommandInv /\ ReplyInv /\ PhaseInv
  BY TypeParts DEF IInv, Truth, Coordination
<1>1. InDoubt(0) /\ Watched
  BY <1>t DEF Dispatch, PhaseInv
<1>2. i \in Incidents /\ action \in Slots /\ action <= Len(actions[i])
  <2>1. i \in Incidents
    BY <1>t, <1>1 DEF Watched, ScanType, StoreType, Views, Incidents
  <2>2. QED
    BY <1>t, <1>1, <2>1 DEF InDoubt, ScanType, StoreType, Slots
<1>3. UNCHANGED <<storeVars, released, view, action, reply, final>> /\ dispatched' = TRUE
      /\ (Tapped \/ UNCHANGED taps)
  BY DEF Dispatch, Tapped
<1>4. /\ \/ phase' = "postcondition" /\ UNCHANGED <<command, next>> /\ Tapped
         \/ WriteOutcome("unknown", "unknown")
      /\ invalidated' \in {invalidated, TRUE} /\ phase = "dispatch"
      /\ scope' \in 0..MaxScope /\ origin' \in {origin, scope'}
  <2>1. scope \in 0..MaxScope /\ MaxScope \in Nat
    BY <1>t DEF ScanType
  <2>2. \/ /\ Tapped /\ phase' = "postcondition"
           /\ \/ scope' = scope + 1 /\ origin' = scope' /\ UNCHANGED invalidated
              \/ scope' = scope + 2 /\ scope' <= MaxScope /\ invalidated' = TRUE /\ UNCHANGED origin
           /\ UNCHANGED <<command, next>>
        \/ /\ scope' = scope + 1
           /\ WriteOutcome("unknown", "unknown")
           /\ UNCHANGED <<origin, invalidated>>
    BY DEF Dispatch, Tapped
  <2>3. phase = "dispatch" /\ scope < MaxScope
    BY DEF Dispatch
  <2>4. scope' \in 0..MaxScope /\ origin' \in {origin, scope'}
    BY <2>1, <2>2, <2>3
  <2>5. invalidated' \in {invalidated, TRUE}
    BY <2>2, Zenon
  <2>6. QED
    BY <2>2, <2>3, <2>4, <2>5, Zenon
<1>5. /\ (taps \in [Incidents -> [Slots -> Nat]])'
      /\ \A j \in Incidents, a \in Slots :
           (j # i \/ a # action) => taps'[j][a] = taps[j][a]
      /\ taps'[i][action] \in {0, 1}
      /\ Tapped => taps'[i][action] = 1
  <2>1. CASE Tapped
    BY <1>1, <2>1, Tap
  <2>2. CASE UNCHANGED taps
    <3>1. taps'[i][action] = 0
      BY <1>1, <2>2 DEF InDoubt
    <3>2. Tapped => taps'[i][action] = 1
      BY <1>1, Tap
    <3>3. QED
      BY <1>t, <2>2, <3>1, <3>2
  <2>3. QED
    BY <1>3, <2>1, <2>2
<1>6. TypeOK'
  <2>1. StoreType'
    BY <1>t, <1>3 DEF StoreType, storeVars
  <2>2. Booleans'
    BY <1>t, <1>3, <1>4 DEF Booleans
  <2>3. ScanType' /\ SlotType'
    <3>1. phase' \in Phases /\ command' \in Commands
          /\ next' \in {"none", "recovered", "retry", "unknown", "invalidated"}
      BY <1>t, <1>4 DEF WriteOutcome, Schedule, Commands, Ops, Phases, ScanType, SlotType
    <3>2. scope' \in 0..MaxScope /\ origin' \in 0..MaxScope
      BY <1>t, <1>4 DEF ScanType
    <3>3. QED
      BY <1>t, <1>3, <3>1, <3>2 DEF ScanType, SlotType
  <2>4. QED
    BY <1>5, <2>1, <2>2, <2>3, TypePartsNext
<1>7. Truth'
  <2>1. StoreInv' /\ DoubtBlocks'
    BY <1>t, <1>3 DEF StoreInv, DoubtBlocks, storeVars
  <2>2. RecordedTruly'
    <3>1. SUFFICES ASSUME NEW j \in Incidents, NEW a \in Slots
                   PROVE /\ taps'[j][a] <= 1
                         /\ taps'[j][a] = 1 => a <= Len(actions[j])
                         /\ a <= Len(actions[j]) /\ actions[j][a] = "not_dispatched"
                              => taps'[j][a] = 0
                         /\ a <= Len(actions[j]) /\ actions[j][a] \in {"confirmed", "no_effect"}
                              => taps'[j][a] = 1
      BY <1>3 DEF RecordedTruly, storeVars
    <3>2. CASE j = i /\ a = action
      BY <1>1, <1>2, <1>5, <3>2 DEF InDoubt
    <3>3. CASE j # i \/ a # action
      BY <1>t, <1>5, <3>3 DEF RecordedTruly
    <3>4. QED
      BY <3>2, <3>3
  <2>3. QED
    BY <2>1, <2>2 DEF Truth
<1>8. Coordination'
  <2>1. Watched' /\ action' = action /\ view' = view /\ reply' = reply /\ UNCHANGED <<latest, actions>>
    BY <1>1, <1>3 DEF Watched, storeVars
  <2>2. reply.op = "none" /\ command.op = "none"
    BY <1>t, <1>4 DEF SlotInv, WaitsFor
  <2>3. CASE phase' = "postcondition" /\ UNCHANGED <<command, next>> /\ Tapped
    <3>1. InDoubt(1)'
      BY <1>1, <1>5, <2>1, <2>3 DEF InDoubt
    <3>2. QED
      BY <2>1, <2>2, <2>3, <3>1 DEF Coordination, SlotInv, CommandInv, ReplyInv, PhaseInv
  <2>4. CASE WriteOutcome("unknown", "unknown")
    BY <2>1, <2>2, <2>4
    DEF WriteOutcome, Schedule, WaitsFor, Coordination, SlotInv, CommandInv, ReplyInv, PhaseInv
  <2>5. QED
    BY <1>4, <2>3, <2>4
<1>9. QED
  BY <1>6, <1>7, <1>8 DEF IInv
-----------------------------------------------------------------------------
(* The storage thread.                                                     *)

Results == {"none", "ok", "blocked", "granted", "denied", "stale", "failed"} \cup Verdicts

\* A command that ran, well or badly, leaves the scan thread as it was.
Answered(v) ==
  /\ command.op # "none" /\ command' = NoCommand
  /\ reply' \in Replies /\ reply'.op = command.op
  /\ reply'.result # "failed" => reply'.view = v
  /\ UNCHANGED <<scope, scanVars, view, final, taps>>

LEMMA AnswerAnswers ==
  ASSUME SlotType, command.op # "none", NEW r \in Results, NEW v \in Views, Answer(r, v)
  PROVE  Answered(v) /\ reply'.result \in {r, "failed"}
BY NoTypes DEF Answer, Answered, SlotType, Commands, Replies, Results

LEMMA FailureAnswers ==
  ASSUME SlotType, command.op # "none", command' = NoCommand,
         reply' = [op |-> command.op, result |-> "failed", view |-> NoView],
         UNCHANGED <<scope, scanVars, view, final, taps>>
  PROVE  Answered(NoView) /\ reply'.result = "failed"
BY NoTypes DEF Answered, SlotType, Commands, Replies

LEMMA AnsweredFrame ==
  ASSUME IInv, NEW v, Answered(v)
  PROVE  /\ ScanType' /\ Booleans' /\ SlotType' /\ (taps \in [Incidents -> [Slots -> Nat]])'
         /\ SlotInv' /\ CommandInv' /\ command.op \in Ops \ {"none"}
         /\ phase = "ending" \/ WaitsFor(phase, command.op)
<1>t. ScanType /\ SlotType /\ Booleans /\ taps \in [Incidents -> [Slots -> Nat]] /\ SlotInv
  BY TypeParts DEF IInv, Coordination
<1>1. ScanType'
  BY <1>t DEF ScanType, Answered, scanVars
<1>2. Booleans'
  BY <1>t DEF Booleans, Answered, scanVars
<1>3. SlotType' /\ (taps \in [Incidents -> [Slots -> Nat]])'
  BY <1>t, NoTypes DEF SlotType, Answered
<1>4. command.op \in Ops \ {"none"}
  BY <1>t DEF SlotType, Answered, Commands
<1>5. SlotInv' /\ CommandInv'
  BY <1>t DEF SlotInv, CommandInv, Answered, scanVars, WaitsFor, NoCommand
<1>6. QED
  BY <1>t, <1>1, <1>2, <1>3, <1>4, <1>5 DEF SlotInv, Answered

\* What is on record grew by nothing but incidents.
LEMMA SameActions ==
  ASSUME IInv, NEW v, Answered(v), UNCHANGED actions, latest' \in {latest, latest + 1}
  PROVE  PhaseInv'
<1> USE EpisodesAssumption
<1>1. latest \in Nat /\ latest' \in Nat /\ latest <= latest' /\ PhaseInv
  BY TypeParts DEF IInv, StoreType, Coordination
<1>2. Watched => Watched'
  BY <1>1 DEF Watched, Answered
<1>3. (Counted => Counted') /\ \A n \in Nat : InDoubt(n) => InDoubt(n)'
  BY DEF Counted, InDoubt, Answered, scanVars
<1>4. QED
  BY <1>1, <1>2, <1>3 DEF PhaseInv, Answered, scanVars, NoCommand

\* What is in doubt is the open incident's, and it is the latest.
LEMMA OpenIsLatest ==
  ASSUME IInv, NEW i \in Incidents, verdict[i] = "open", i <= latest
  PROVE  i = latest
BY TypeParts, EpisodesAssumption DEF IInv, Truth, StoreInv, StoreType, Incidents

LEMMA LooksAreViews ==
  ASSUME IInv, NEW i \in Incidents
  PROVE  /\ Look(i) \in Views /\ Advanced(i) \in Views
         /\ Look(i).incident = i /\ Look(i).used = Len(actions[i])
         /\ Advanced(i).incident = i /\ Advanced(i).used = Len(actions[i])
         /\ Len(actions[i]) \in 0..MaxActions
<1>1. Len(actions[i]) \in 0..MaxActions /\ revision[i] \in Nat
  BY TypeParts, EpisodesAssumption DEF IInv, StoreType
<1>2. i \in 0..MaxIncidents /\ revision[i] + 1 \in Nat
  BY <1>1, EpisodesAssumption DEF Incidents
<1>3. QED
  BY <1>1, <1>2 DEF Look, Advanced, Views

LEMMA StoreFailsStep ==
  ASSUME IInv, StoreFails
  PROVE  IInv'
<1>t. StoreType /\ SlotType /\ Truth
  BY TypeParts DEF IInv
<1>1. Answered(NoView) /\ reply'.result = "failed"
  BY <1>t, FailureAnswers DEF StoreFails
<1>2. UNCHANGED storeVars /\ UNCHANGED taps
  BY DEF StoreFails
<1>3. StoreType'
  BY <1>t, <1>2 DEF StoreType, storeVars
<1>4. Truth'
  BY <1>t, <1>2, OutsideKeepsTruth DEF Outside
<1>5. PhaseInv' /\ ReplyInv'
  BY <1>1, <1>2, SameActions DEF storeVars, ReplyInv
<1>6. QED
  BY <1>1, <1>3, <1>4, <1>5, AnsweredFrame, TypePartsNext DEF IInv, Coordination

\* The incident under watch is one of the incidents.
LEMMA WatchedIncident ==
  ASSUME StoreType, Watched
  PROVE  view.incident \in Incidents
<1>1. latest \in 0..MaxIncidents /\ MaxIncidents \in Nat
  BY EpisodesAssumption DEF StoreType
<1>2. QED
  BY <1>1 DEF Watched, Incidents

LEMMA Clocks ==
  ASSUME highWater \in 0..MaxTime, NEW t \in 0..MaxTime
  PROVE  Clock(t) \in 0..MaxTime
BY DEF Clock

\* Nothing at all is in doubt on a screen whose latest incident is settled.
Settling == latest = 0 \/ verdict[latest] # "open" \/ ~Unresolved(latest)

LEMMA NoDoubt ==
  ASSUME IInv, Settling, NEW i \in Incidents, NEW a \in 1..Len(actions[i])
  PROVE  actions[i][a] \notin {"unrecorded", "unknown"}
BY DEF IInv, Truth, DoubtBlocks, Settling, Unresolved, Incidents

LEMMA CloseTypes ==
  ASSUME StoreType, NEW i \in Incidents, NEW v \in Verdicts, NEW t \in 0..MaxTime, Close(i, v, t),
         highWater' = Clock(t), UNCHANGED <<latest, actions, bound, openedAt>>
  PROVE  StoreType'
<1>1. Clock(t) \in 0..MaxTime
  BY Clocks DEF StoreType
<1>2. verdict' \in [Incidents -> Verdicts \cup {"open"}]
  BY DEF StoreType, Close
<1>3. closedAt' \in [Incidents -> 0..MaxTime]
  BY <1>1 DEF StoreType, Close
<1>4. revision' \in [Incidents -> Nat \ {0}]
  BY DEF StoreType, Close
<1>5. QED
  BY <1>1, <1>2, <1>3, <1>4 DEF StoreType

\* Closing one that is, and opening the next, keep the record in order.
LEMMA CloseKeepsTruth ==
  ASSUME IInv, NEW i \in Incidents, i = latest, ~Unresolved(i), NEW v \in Verdicts,
         verdict' = [verdict EXCEPT ![i] = v], UNCHANGED <<latest, actions, taps>>
  PROVE  Truth'
<1>1. /\ StoreType /\ StoreInv /\ RecordedTruly
  BY TypeParts DEF IInv, Truth
<1>2. StoreInv'
  BY <1>1, EpisodesAssumption DEF StoreInv, StoreType, Incidents
<1>3. DoubtBlocks'
  BY NoDoubt DEF Settling, DoubtBlocks
<1>4. RecordedTruly'
  BY <1>1 DEF RecordedTruly
<1>5. QED
  BY <1>2, <1>3, <1>4 DEF Truth

LEMMA OpenKeepsTruth ==
  ASSUME IInv, latest = 0 \/ verdict[latest] # "open", latest + 1 <= MaxIncidents,
         latest' = latest + 1, UNCHANGED <<actions, verdict, taps>>
  PROVE  Truth'
<1>1. /\ StoreType /\ StoreInv /\ RecordedTruly
  BY TypeParts DEF IInv, Truth
<1>2. StoreInv'
  <2>1. SUFFICES ASSUME NEW i \in Incidents
                 PROVE  /\ i > latest + 1 => actions[i] = <<>> /\ verdict[i] = "open"
                        /\ i < latest + 1 => verdict[i] # "open"
    BY DEF StoreInv
  <2>2. i \in Nat \ {0} /\ latest \in Nat
    BY <1>1, EpisodesAssumption DEF StoreType, Incidents
  <2>3. i > latest + 1 => i > latest
    BY <2>2
  <2>4. i < latest + 1 => i < latest \/ (i = latest /\ latest # 0)
    BY <2>2
  <2>5. QED
    BY <1>1, <2>3, <2>4 DEF StoreInv
<1>3. DoubtBlocks'
  BY NoDoubt DEF Settling, DoubtBlocks
<1>4. RecordedTruly'
  BY <1>1 DEF RecordedTruly
<1>5. QED
  BY <1>2, <1>3, <1>4 DEF Truth

\* What an answered open has done.
Opened(v) ==
  /\ Answered(v) /\ StoreType' /\ Truth' /\ UNCHANGED actions
  /\ latest' \in {latest, latest + 1}
  /\ v.incident \in 1..latest' /\ v.used = Len(actions[v.incident])

LEMMA RunOpenStep ==
  ASSUME IInv, NEW t \in 0..MaxTime, RunOpen(t)
  PROVE  IInv'
<1> DEFINE i == latest
<1> USE EpisodesAssumption
<1>t. StoreType /\ SlotType /\ Truth /\ ScanType
  BY TypeParts DEF IInv
<1>0. command.op = "open" /\ command.op # "none" /\ {"ok", "blocked"} \subseteq Results
  BY DEF RunOpen, Results
<1>c. Clock(t) \in 0..MaxTime
  BY <1>t, Clocks DEF StoreType
<1>i. i > 0 => i \in Incidents
  BY <1>t DEF StoreType, Incidents
<1>1. \E v \in Views : Opened(v)
  <2>2. CASE /\ i > 0 /\ \E r \in {"ok", "blocked"} : Answer(r, Look(i))
             /\ highWater' \in {highWater, Clock(t)}
             /\ UNCHANGED <<latest, actions, bound, revision, verdict, openedAt, closedAt>>
    <3>1. Answered(Look(i)) /\ Look(i) \in Views
      BY <1>0, <1>t, <1>i, <2>2, AnswerAnswers, LooksAreViews
    <3>2. StoreType'
      BY <1>t, <1>c, <2>2 DEF StoreType
    <3>3. Truth'
      BY <1>t, <2>2, <3>1 DEF Answered, Truth, StoreInv, DoubtBlocks, RecordedTruly
    <3>4. Opened(Look(i))
      <4>1. i \in 1..latest /\ latest' = latest /\ UNCHANGED actions
        BY <1>i, <1>t, <2>2 DEF StoreType
      <4>2. Look(i).incident = i /\ Look(i).used = Len(actions[i])
        BY <1>i, <2>2, LooksAreViews
      <4>3. QED
        BY <3>1, <3>2, <3>3, <4>1, <4>2 DEF Opened
    <3>5. QED
      BY <3>1, <3>4
  <2>3. CASE /\ i > 0 => verdict[i] # "open"
             /\ highWater' = Clock(t) /\ OpenNew(t)
    <3> DEFINE j == latest + 1
    <3>1. j \in Incidents /\ j <= MaxIncidents
      BY <1>t, <2>3 DEF OpenNew, StoreType, Incidents
    <3>2. Answered(Look(j)) /\ Look(j) \in Views
      BY <1>0, <1>t, <2>3, <3>1, AnswerAnswers, LooksAreViews DEF OpenNew
    <3>3. /\ latest' = j /\ bound' = [bound EXCEPT ![j] = origin]
          /\ openedAt' = [openedAt EXCEPT ![j] = Clock(t)]
          /\ UNCHANGED <<actions, revision, verdict, closedAt>>
      BY <2>3 DEF OpenNew
    <3>4. StoreType'
      BY <1>t, <1>c, <2>3, <3>1, <3>3 DEF StoreType, ScanType
    <3>5. Truth'
      <4>1. latest = 0 \/ verdict[latest] # "open"
        BY <1>t, <2>3 DEF StoreType
      <4>2. QED
        BY <3>1, <3>2, <3>3, <4>1, OpenKeepsTruth DEF Answered
    <3>6. Opened(Look(j))
      <4>1. j \in 1..latest' /\ latest' = latest + 1 /\ latest' \in {latest, latest + 1}
        BY <1>t, <3>3 DEF StoreType
      <4>2. Look(j).incident = j /\ Look(j).used = Len(actions[j])
        BY <3>1, LooksAreViews
      <4>3. QED
        BY <3>2, <3>3, <3>4, <3>5, <4>1, <4>2 DEF Opened
    <3>7. QED
      BY <3>2, <3>6
  <2>4. CASE /\ i > 0 /\ Status(i) = "exhausted" /\ highWater' = Clock(t)
             /\ Close(i, "exhausted", t) /\ Answer("blocked", Advanced(i))
             /\ UNCHANGED <<latest, actions, bound, openedAt>>
    <3>1. Answered(Advanced(i)) /\ Advanced(i) \in Views
      BY <1>0, <1>t, <1>i, <2>4, AnswerAnswers, LooksAreViews
    <3>2. StoreType'
      BY <1>t, <1>i, <2>4, CloseTypes DEF Verdicts
    <3>3. ~Unresolved(i)
      BY <2>4 DEF Status
    <3>4. Truth'
      BY <1>i, <2>4, <3>1, <3>3, CloseKeepsTruth DEF Answered, Close, Verdicts
    <3>5. Opened(Advanced(i))
      <4>1. i \in 1..latest /\ latest' = latest /\ UNCHANGED actions
        BY <1>i, <1>t, <2>4 DEF StoreType
      <4>2. Advanced(i).incident = i /\ Advanced(i).used = Len(actions[i])
        BY <1>i, <2>4, LooksAreViews
      <4>3. QED
        BY <3>1, <3>2, <3>4, <4>1, <4>2 DEF Opened
    <3>6. QED
      BY <3>1, <3>5
  <2>5. CASE /\ i > 0 /\ highWater' = Clock(t)
             /\ bound' = [bound EXCEPT ![i] = origin]
             /\ revision' = [revision EXCEPT ![i] = @ + 1]
             /\ Answer("ok", Advanced(i))
             /\ UNCHANGED <<latest, actions, verdict, openedAt, closedAt>>
    <3>1. Answered(Advanced(i)) /\ Advanced(i) \in Views
      BY <1>0, <1>t, <1>i, <2>5, AnswerAnswers, LooksAreViews
    <3>2. StoreType'
      <4>1. /\ i \in Incidents /\ bound \in [Incidents -> 0..MaxScope] /\ origin \in 0..MaxScope
            /\ revision \in [Incidents -> Nat \ {0}] /\ revision[i] + 1 \in Nat \ {0}
        BY <1>t, <1>i, <2>5 DEF StoreType, ScanType
      <4>2. bound' \in [Incidents -> 0..MaxScope] /\ revision' \in [Incidents -> Nat \ {0}]
        BY <2>5, <4>1
      <4>3. QED
        BY <1>t, <1>c, <2>5, <4>2 DEF StoreType
    <3>3. Truth'
      BY <1>t, <2>5, <3>1 DEF Answered, Truth, StoreInv, DoubtBlocks, RecordedTruly
    <3>4. Opened(Advanced(i))
      <4>1. i \in 1..latest /\ latest' = latest /\ UNCHANGED actions
        BY <1>i, <1>t, <2>5 DEF StoreType
      <4>2. Advanced(i).incident = i /\ Advanced(i).used = Len(actions[i])
        BY <1>i, <2>5, LooksAreViews
      <4>3. QED
        BY <3>1, <3>2, <3>3, <4>1, <4>2 DEF Opened
    <3>5. QED
      BY <3>1, <3>4
  <2>6. QED
    BY <2>2, <2>3, <2>4, <2>5 DEF RunOpen, storeVars
<1>2. PICK v \in Views : Opened(v)
  BY <1>1
<1>3. ReplyInv'
  <2>1. reply'.op = "open"
    BY <1>0, <1>2 DEF Opened, Answered
  <2>2. QED
    BY <1>2, <2>1 DEF Opened, ReplyInv, Answered
<1>4. PhaseInv'
  BY <1>2, SameActions DEF Opened
<1>5. QED
  BY <1>2, <1>3, <1>4, AnsweredFrame, TypePartsNext DEF Opened, IInv, Coordination

LEMMA RunCloseStep ==
  ASSUME IInv, NEW t \in 0..MaxTime, RunClose(t)
  PROVE  IInv'
<1> DEFINE i == view.incident
           o == command.outcome
<1> USE EpisodesAssumption
<1>t. StoreType /\ SlotType /\ Truth /\ ScanType /\ CommandInv
  BY TypeParts DEF IInv, Coordination
<1>0. /\ command.op = "close" /\ command.op # "none" /\ o \in Verdicts
      /\ Verdicts \subseteq Results /\ i \in 1..latest /\ i \in Incidents
  BY <1>t, WatchedIncident DEF RunClose, Results, CommandInv, Watched
<1>c. Clock(t) \in 0..MaxTime
  BY <1>t, Clocks DEF StoreType
<1>1. \E v \in Views : /\ Answered(v) /\ StoreType' /\ Truth'
                       /\ reply'.result # "failed" =>
                             v.incident = i /\ v.used = Len(actions[v.incident])
  <2>1. CASE /\ Status(i) \in {"open", "exhausted"} /\ highWater' = Clock(t)
             /\ Close(i, o, t) /\ Answer(o, Advanced(i))
    <3>1. Answered(Advanced(i)) /\ Advanced(i) \in Views
      BY <1>0, <1>t, <2>1, AnswerAnswers, LooksAreViews
    <3>2. verdict[i] = "open" /\ ~Unresolved(i)
      BY <2>1 DEF Status
    <3>3. i = latest
      BY <1>0, <1>t, <3>2, OpenIsLatest DEF StoreType
    <3>4. StoreType'
      BY <1>t, <1>0, <2>1, CloseTypes DEF RunClose
    <3>5. Truth'
      BY <1>0, <2>1, <3>1, <3>2, <3>3, CloseKeepsTruth DEF Answered, Close, RunClose
    <3>6. QED
      BY <1>0, <3>1, <3>4, <3>5, LooksAreViews
  <2>2. CASE /\ highWater' = Clock(t) /\ Answer(o, Look(i))
             /\ UNCHANGED <<verdict, closedAt, revision>>
    <3>1. Answered(Look(i)) /\ Look(i) \in Views
      BY <1>0, <1>t, <2>2, AnswerAnswers, LooksAreViews
    <3>2. StoreType'
      BY <1>t, <1>c, <1>0, <2>2 DEF StoreType, RunClose
    <3>3. Truth'
      BY <1>t, <2>2, <3>1 DEF Answered, RunClose, Truth, StoreInv, DoubtBlocks, RecordedTruly
    <3>4. QED
      BY <1>0, <3>1, <3>2, <3>3, LooksAreViews
  <2>3. CASE /\ command' = NoCommand
             /\ reply' = [op |-> "close", result |-> "failed", view |-> NoView]
             /\ UNCHANGED <<scope, scanVars, view, final, taps, highWater, verdict, closedAt, revision>>
    <3>1. Answered(NoView) /\ reply'.result = "failed"
      BY <1>t, <1>0, <2>3, FailureAnswers
    <3>2. StoreType'
      BY <1>t, <2>3 DEF StoreType, RunClose
    <3>3. Truth'
      BY <1>t, <2>3, <3>1 DEF Answered, RunClose, Truth, StoreInv, DoubtBlocks, RecordedTruly
    <3>4. QED
      BY <3>1, <3>2, <3>3, NoTypes
  <2>4. QED
    BY <2>1, <2>2, <2>3 DEF RunClose
<1>2. PICK v \in Views : /\ Answered(v) /\ StoreType' /\ Truth'
                         /\ reply'.result # "failed" =>
                               v.incident = i /\ v.used = Len(actions[v.incident])
  BY <1>1
<1>3. UNCHANGED <<actions, latest, view>>
  BY <1>2 DEF RunClose, Answered
<1>4. ReplyInv'
  <2>1. reply'.op = "close"
    BY <1>0, <1>2 DEF Answered
  <2>2. QED
    BY <1>0, <1>2, <1>3, <2>1 DEF ReplyInv, Answered
<1>5. PhaseInv'
  BY <1>2, <1>3, SameActions
<1>6. QED
  BY <1>2, <1>4, <1>5, AnsweredFrame, TypePartsNext DEF IInv, Coordination
\* reserve_action put the next action on record.
LEMMA Reserved ==
  ASSUME IInv, NEW i \in Incidents, verdict[i] = "open", ~Unresolved(i),
         Len(actions[i]) < MaxActions, i <= latest,
         actions' = [actions EXCEPT ![i] = Append(@, "unrecorded")],
         UNCHANGED <<latest, verdict, taps>>
  PROVE  /\ Len(actions'[i]) = Len(actions[i]) + 1
         /\ actions'[i][Len(actions[i]) + 1] = "unrecorded"
         /\ taps[i][Len(actions[i]) + 1] = 0
         /\ actions' \in [Incidents -> Seq(Outcomes)]
         /\ \A j \in Incidents : Len(actions'[j]) <= MaxActions
         /\ Truth'
<1> DEFINE n == Len(actions[i])
<1> USE EpisodesAssumption
<1>t. StoreType /\ taps \in [Incidents -> [Slots -> Nat]] /\ StoreInv /\ DoubtBlocks /\ RecordedTruly
  BY TypeParts DEF IInv, Truth
<1>1. i = latest
  BY OpenIsLatest
<1>2. /\ actions[i] \in Seq(Outcomes) /\ n \in 0..(MaxActions - 1) /\ "unrecorded" \in Outcomes
      /\ n + 1 \in Slots
  BY <1>t DEF StoreType, Outcomes, Slots
<1>3. /\ actions'[i] = Append(actions[i], "unrecorded")
      /\ \A j \in Incidents : j # i => actions'[j] = actions[j]
  BY <1>t DEF StoreType
<1>4. /\ actions'[i] \in Seq(Outcomes) /\ Len(actions'[i]) = n + 1
      /\ actions'[i][n + 1] = "unrecorded"
      /\ \A a \in 1..n : actions'[i][a] = actions[i][a]
  BY <1>2, <1>3, AppendProperties
<1>5. /\ actions' \in [Incidents -> Seq(Outcomes)]
      /\ \A j \in Incidents : Len(actions'[j]) <= MaxActions
  <2>1. actions' \in [Incidents -> Seq(Outcomes)]
    BY <1>t, <1>3, <1>4 DEF StoreType
  <2>2. ASSUME NEW j \in Incidents PROVE Len(actions'[j]) <= MaxActions
    BY <1>t, <1>2, <1>3, <1>4 DEF StoreType
  <2>3. QED
    BY <2>1, <2>2
<1>6. taps[i][n + 1] = 0
  <2>1. taps[i][n + 1] \in Nat /\ taps[i][n + 1] <= 1
    BY <1>t, <1>2 DEF RecordedTruly
  <2>2. taps[i][n + 1] # 1
    BY <1>t, <1>2 DEF RecordedTruly
  <2>3. QED
    BY <2>1, <2>2
<1>7. StoreInv'
  BY <1>t, <1>1, <1>3 DEF StoreInv, StoreType, Incidents
<1>8. DoubtBlocks'
  <2>1. SUFFICES ASSUME NEW j \in Incidents, NEW a \in 1..Len(actions'[j]),
                        actions'[j][a] \in {"unrecorded", "unknown"}
                 PROVE  j = latest /\ verdict[j] = "open" /\ a = Len(actions'[j])
    BY DEF DoubtBlocks
  <2>2. \A k \in Incidents : \A b \in 1..Len(actions[k]) :
         actions[k][b] \notin {"unrecorded", "unknown"}
    BY <1>1, NoDoubt DEF Settling
  <2>3. CASE j = i
    <3>1. a \notin 1..n
      BY <1>4, <2>1, <2>2, <2>3
    <3>2. QED
      BY <1>1, <1>2, <1>4, <2>3, <3>1
  <2>4. CASE j # i
    BY <1>3, <2>1, <2>2, <2>4
  <2>5. QED
    BY <2>3, <2>4
<1>9. RecordedTruly'
  <2>1. SUFFICES ASSUME NEW j \in Incidents, NEW a \in Slots
                 PROVE /\ taps[j][a] <= 1
                       /\ taps[j][a] = 1 => a <= Len(actions'[j])
                       /\ a <= Len(actions'[j]) /\ actions'[j][a] = "not_dispatched"
                            => taps[j][a] = 0
                       /\ a <= Len(actions'[j]) /\ actions'[j][a] \in {"confirmed", "no_effect"}
                            => taps[j][a] = 1
    BY DEF RecordedTruly
  <2>2. CASE j # i
    BY <1>t, <1>3, <2>2 DEF RecordedTruly
  <2>3. CASE j = i /\ a \in 1..n
    BY <1>t, <1>2, <1>4, <2>3 DEF RecordedTruly
  <2>4. CASE j = i /\ a = n + 1
    BY <1>2, <1>4, <1>6, <2>4
  <2>5. CASE j = i /\ a > n + 1
    BY <1>t, <1>2, <1>4, <2>5 DEF RecordedTruly, Slots
  <2>6. QED
    BY <1>2, <2>2, <2>3, <2>4, <2>5 DEF Slots
<1>10. QED
  BY <1>4, <1>5, <1>6, <1>7, <1>8, <1>9 DEF Truth

LEMMA RunReserveStep ==
  ASSUME IInv, RunReserve
  PROVE  IInv'
<1> DEFINE i == view.incident
           n == Len(actions[i])
<1> USE EpisodesAssumption
<1>t. StoreType /\ SlotType /\ Truth /\ ScanType /\ CommandInv /\ PhaseInv
  BY TypeParts DEF IInv, Coordination
<1>0. /\ command.op = "reserve" /\ command.op # "none"
      /\ {"granted", "denied", "stale"} \subseteq Results
      /\ Watched /\ Counted /\ action = view.used + 1
      /\ i \in 1..latest /\ i \in Incidents
  <2>1. command.op = "reserve" /\ {"granted", "denied", "stale"} \subseteq Results
    BY DEF RunReserve, Results
  <2>2. Watched /\ Counted /\ action = view.used + 1
    BY <1>t, <2>1 DEF CommandInv
  <2>3. i \in 1..latest /\ i \in Incidents
    BY <1>t, <2>2, WatchedIncident DEF Watched
  <2>4. QED
    BY <2>1, <2>2, <2>3
<1>1. CASE Granted(i) /\ RunReserve /\ actions' = [actions EXCEPT ![i] = Append(@, "unrecorded")]
           /\ revision' = [revision EXCEPT ![i] = @ + 1]
           /\ Answer("granted", [incident |-> i, revision |-> revision[i] + 1, used |-> n + 1])
  <2> DEFINE v == [incident |-> i, revision |-> revision[i] + 1, used |-> n + 1]
  <2>1. verdict[i] = "open" /\ ~Unresolved(i) /\ ~(n >= MaxActions)
    BY <1>1 DEF Granted, Status
  <2>2. n \in 0..(MaxActions - 1) /\ revision[i] \in Nat
    BY <1>t, <1>0, <2>1 DEF StoreType
  <2>3. v \in Views
    <3>1. i \in 0..MaxIncidents /\ revision[i] + 1 \in Nat /\ n + 1 \in 0..MaxActions
      BY <1>0, <2>2 DEF Incidents
    <3>2. QED
      BY <3>1 DEF Views
  <2>4. Answered(v) /\ reply'.result \in {"granted", "failed"}
    BY <1>t, <1>0, <1>1, <2>3, AnswerAnswers
  <2>5. UNCHANGED <<latest, bound, verdict, openedAt, closedAt, highWater, taps, view, action>>
    BY <2>4 DEF RunReserve, Answered, scanVars
  <2>6. i <= latest /\ n < MaxActions
    BY <1>t, <1>0, <2>2 DEF StoreType
  <2>7. /\ Len(actions'[i]) = n + 1 /\ actions'[i][n + 1] = "unrecorded" /\ taps[i][n + 1] = 0
        /\ actions' \in [Incidents -> Seq(Outcomes)]
        /\ \A j \in Incidents : Len(actions'[j]) <= MaxActions
        /\ Truth'
    BY <1>0, <1>1, <2>1, <2>5, <2>6, Reserved
  <2>8. StoreType'
    <3>1. /\ revision \in [Incidents -> Nat \ {0}] /\ revision[i] + 1 \in Nat \ {0}
          /\ revision' = [revision EXCEPT ![i] = revision[i] + 1]
      BY <1>t, <1>1, <2>2 DEF StoreType
    <3>2. revision' \in [Incidents -> Nat \ {0}]
      BY <3>1
    <3>3. QED
      BY <1>t, <2>5, <2>7, <3>2 DEF StoreType
  <2>9. action = n + 1 /\ InDoubt(0)'
    <3>1. action = n + 1
      BY <1>0 DEF Counted
    <3>2. QED
      BY <2>2, <2>5, <2>7, <3>1 DEF InDoubt
  <2>10. Watched'
    BY <1>0, <2>5 DEF Watched
  <2>11. ReplyInv'
    <3>1. v.incident = i /\ v.used = n + 1
      OBVIOUS
    <3> HIDE DEF v
    <3>2. QED
      BY <1>0, <2>4, <2>5, <2>7, <2>9, <2>10, <3>1 DEF ReplyInv, Answered
  <2>12. PhaseInv'
    <3>1. (phase = "ending" \/ phase = "reserving") /\ phase' = phase /\ final' = final
          /\ command'.op = "none" /\ action' = view'.used + 1
      BY <1>0, <2>4, <2>5, AnsweredFrame DEF WaitsFor, Answered, scanVars, NoCommand
    <3>2. QED
      BY <1>t, <2>5, <2>9, <2>10, <3>1 DEF PhaseInv
  <2>13. QED
    BY <2>4, <2>7, <2>8, <2>11, <2>12, AnsweredFrame, TypePartsNext DEF IInv, Coordination
<1>2. CASE RunReserve /\ UNCHANGED <<actions, revision>>
           /\ \E r \in {"denied", "stale"} : Answer(r, Look(i))
  <2>1. Answered(Look(i)) /\ reply'.result \in {"denied", "stale", "failed"}
    BY <1>t, <1>0, <1>2, AnswerAnswers, LooksAreViews
  <2>2. Outside
    BY <1>2, <2>1 DEF RunReserve, Outside, storeVars, Answered
  <2>3. StoreType'
    BY <1>t, <2>2 DEF StoreType, Outside, storeVars
  <2>4. Truth'
    BY <1>t, <2>2, OutsideKeepsTruth
  <2>5. PhaseInv'
    BY <2>1, <2>2, SameActions DEF Outside, storeVars
  <2>6. ReplyInv'
    BY <1>0, <2>1, <2>2, LooksAreViews DEF ReplyInv, Answered, Outside, storeVars
  <2>7. QED
    BY <2>1, <2>3, <2>4, <2>5, <2>6, AnsweredFrame, TypePartsNext DEF IInv, Coordination
<1>3. QED
  BY <1>1, <1>2 DEF RunReserve
\* What outcome o of an action claims of its inputs, and whether it is borne
\* out by what was sent.
Claims(i, a, o) ==
  /\ o = "not_dispatched" => taps[i][a] = 0
  /\ o \in {"confirmed", "no_effect"} => taps[i][a] = 1

LEMMA Edited ==
  ASSUME IInv, NEW i \in Incidents, NEW a \in 1..Len(actions[i]), NEW o \in Known \cup {"unknown"},
         actions[i][a] \in {"unrecorded", "unknown"}, Claims(i, a, o),
         actions' = [actions EXCEPT ![i][a] = o],
         UNCHANGED <<latest, verdict, taps>>
  PROVE  /\ actions' \in [Incidents -> Seq(Outcomes)]
         /\ \A j \in Incidents : Len(actions'[j]) = Len(actions[j])
         /\ \A j \in Incidents : \A b \in 1..Len(actions[j]) :
              actions'[j][b] = IF j = i /\ b = a THEN o ELSE actions[j][b]
         /\ Truth'
<1> USE EpisodesAssumption
<1>t. StoreType /\ taps \in [Incidents -> [Slots -> Nat]] /\ StoreInv /\ DoubtBlocks /\ RecordedTruly
  BY TypeParts DEF IInv, Truth
<1> DEFINE edited == [actions[i] EXCEPT ![a] = o]
<1>1. /\ edited \in Seq(Outcomes) /\ Len(edited) = Len(actions[i])
      /\ \A b \in 1..Len(actions[i]) : edited[b] = IF b = a THEN o ELSE actions[i][b]
  <2>1. actions[i] \in Seq(Outcomes) /\ o \in Outcomes
    BY <1>t DEF StoreType, Outcomes
  <2>2. QED
    BY <2>1, ExceptSeq
<1>2. actions' = [actions EXCEPT ![i] = edited]
  OBVIOUS
<1> HIDE DEF edited
<1>3. actions' \in [Incidents -> Seq(Outcomes)]
  BY <1>t, <1>1, <1>2 DEF StoreType
<1>4. actions'[i] = edited /\ \A j \in Incidents : j # i => actions'[j] = actions[j]
  BY <1>t, <1>2 DEF StoreType
<1>5. \A j \in Incidents : Len(actions'[j]) = Len(actions[j])
  BY <1>1, <1>4
<1>6. \A j \in Incidents : \A b \in 1..Len(actions[j]) :
       actions'[j][b] = IF j = i /\ b = a THEN o ELSE actions[j][b]
  BY <1>1, <1>4
<1>7. StoreInv'
  <2>1. i <= latest
    <3>1. Len(actions[i]) # 0
      BY <1>t DEF StoreType
    <3>2. i \in Nat /\ latest \in Nat
      BY <1>t DEF StoreType, Incidents
    <3>3. QED
      BY <1>t, <3>1, <3>2 DEF StoreInv
  <2>2. QED
    <3>1. SUFFICES ASSUME NEW j \in Incidents
                   PROVE  /\ j > latest => actions'[j] = <<>> /\ verdict[j] = "open"
                          /\ j < latest => verdict[j] # "open"
      BY DEF StoreInv
    <3>2. j > latest => j # i
      BY <1>t, <2>1 DEF StoreType, Incidents
    <3>3. QED
      BY <1>t, <1>4, <3>2 DEF StoreInv
<1>8. DoubtBlocks'
  <2>1. SUFFICES ASSUME NEW j \in Incidents, NEW b \in 1..Len(actions[j]),
                        actions'[j][b] \in {"unrecorded", "unknown"}
                 PROVE  j = latest /\ verdict[j] = "open" /\ b = Len(actions'[j])
    BY <1>5 DEF DoubtBlocks
  <2>2. actions[j][b] \in {"unrecorded", "unknown"}
    BY <1>6, <2>1
  <2>3. QED
    BY <1>t, <1>5, <2>2 DEF DoubtBlocks
<1>9. RecordedTruly'
  <2>1. SUFFICES ASSUME NEW j \in Incidents, NEW b \in Slots
                 PROVE /\ taps[j][b] <= 1
                       /\ taps[j][b] = 1 => b <= Len(actions[j])
                       /\ b <= Len(actions[j]) /\ actions'[j][b] = "not_dispatched"
                            => taps[j][b] = 0
                       /\ b <= Len(actions[j]) /\ actions'[j][b] \in {"confirmed", "no_effect"}
                            => taps[j][b] = 1
    BY <1>5 DEF RecordedTruly
  <2>2. b <= Len(actions[j]) => b \in 1..Len(actions[j])
    BY <1>t DEF Slots, StoreType
  <2>3. QED
    BY <1>t, <1>6, <2>2 DEF RecordedTruly, Claims
<1>10. QED
  BY <1>3, <1>5, <1>6, <1>7, <1>8, <1>9 DEF Truth

\* The claim of a record that is made is borne out, so it keeps the truth.
LEMMA RecordKeeps ==
  ASSUME IInv, NEW i \in Incidents, NEW a \in Nat, NEW o \in Known \cup {"unknown"},
         a \in 1..Len(actions[i]) => Claims(i, a, o), Record(i, a, o),
         UNCHANGED <<latest, bound, verdict, openedAt, closedAt, highWater, taps>>
  PROVE  /\ StoreType' /\ Truth'
         /\ \A j \in Incidents : Len(actions'[j]) = Len(actions[j])
<1>t. StoreType /\ Truth
  BY TypeParts DEF IInv
<1>1. CASE UNCHANGED <<actions, revision>>
  BY <1>t, <1>1 DEF StoreType, Truth, StoreInv, DoubtBlocks, RecordedTruly
<1>2. CASE /\ a \in 1..Len(actions[i]) /\ ~Settled(i, a)
           /\ actions' = [actions EXCEPT ![i][a] = o]
           /\ revision' = [revision EXCEPT ![i] = @ + 1]
  <2>1. actions[i][a] \in {"unrecorded", "unknown"}
    <3>1. actions[i] \in Seq(Outcomes)
      BY <1>t DEF StoreType
    <3>2. actions[i][a] \in Outcomes
      BY <1>2, <3>1, ElementOfSeq
    <3>3. QED
      BY <1>2, <3>2 DEF Outcomes, Settled
  <2>2. /\ actions' \in [Incidents -> Seq(Outcomes)]
        /\ \A j \in Incidents : Len(actions'[j]) = Len(actions[j])
        /\ Truth'
    BY <1>2, <2>1, Edited
  <2>3. revision' \in [Incidents -> Nat \ {0}]
    BY <1>t, <1>2 DEF StoreType
  <2>4. StoreType'
    BY <1>t, <2>2, <2>3 DEF StoreType
  <2>5. QED
    BY <2>2, <2>4
<1>3. QED
  BY <1>1, <1>2 DEF Record

LEMMA RunRecordStep ==
  ASSUME IInv, RunRecord
  PROVE  IInv'
<1> DEFINE i == view.incident
           o == command.outcome
<1> USE EpisodesAssumption
<1>t. StoreType /\ SlotType /\ ScanType /\ CommandInv /\ PhaseInv
  BY TypeParts DEF IInv, Coordination
<1>1. /\ command.op = "outcome" /\ Record(i, action, o)
      /\ UNCHANGED <<latest, bound, verdict, openedAt, closedAt, highWater>>
  BY DEF RunRecord
<1>2. Watched /\ i \in 1..latest /\ i \in Incidents
  <2>1. Watched
    BY <1>t, <1>1 DEF CommandInv
  <2>2. QED
    BY <1>t, <2>1, WatchedIncident DEF Watched
<1>3. o \in Known \cup {"unknown"} /\ (action \in 1..Len(actions[i]) => Claims(i, action, o))
  BY <1>t, <1>1 DEF CommandInv, InDoubt, Known, Claims
<1>4. \E v \in Views : Answered(v) /\ (reply'.result # "failed" =>
                          v.incident = i /\ v.used = Len(actions[i]))
  <2> DEFINE v == [incident |-> i, revision |-> revision'[i], used |-> Len(actions[i])]
  <2>1. CASE action \in 1..Len(actions[i]) /\ Answer("ok", v)
    <3>1. revision'[i] \in Nat
      <4>1. revision[i] \in Nat
        BY <1>t, <1>2 DEF StoreType
      <4>2. revision' = revision \/ revision' = [revision EXCEPT ![i] = @ + 1]
        BY <1>1 DEF Record
      <4>3. CASE revision' = [revision EXCEPT ![i] = @ + 1]
        <5>1. revision'[i] = revision[i] + 1
          BY <1>t, <1>2, <4>3 DEF StoreType
        <5>2. QED
          BY <4>1, <5>1
      <4>4. QED
        BY <4>1, <4>2, <4>3
    <3>2. v \in Views
      <4>1. i \in 0..MaxIncidents /\ Len(actions[i]) \in 0..MaxActions
        BY <1>2, LooksAreViews DEF Incidents
      <4>2. QED
        BY <3>1, <4>1 DEF Views
    <3>3. v.incident = i /\ v.used = Len(actions[i])
      OBVIOUS
    <3> HIDE DEF v
    <3>4. Answered(v)
      BY <1>t, <1>1, <2>1, <3>2, AnswerAnswers DEF Results
    <3>5. QED
      BY <3>2, <3>3, <3>4
  <2>2. CASE /\ command' = NoCommand
             /\ reply' = [op |-> "outcome", result |-> "failed", view |-> NoView]
             /\ UNCHANGED <<scope, scanVars, view, final, taps>>
    BY <1>t, <1>1, <2>2, FailureAnswers, NoTypes
  <2>3. QED
    BY <1>1, <2>1, <2>2 DEF RunRecord
<1>5. PICK v \in Views : Answered(v) /\ (reply'.result # "failed" =>
                            v.incident = i /\ v.used = Len(actions[i]))
  BY <1>4
<1>6. StoreType' /\ Truth' /\ \A j \in Incidents : Len(actions'[j]) = Len(actions[j])
  BY <1>t, <1>1, <1>2, <1>3, <1>5, RecordKeeps DEF Answered, ScanType
<1>7. ReplyInv'
  BY <1>1, <1>2, <1>5, <1>6 DEF ReplyInv, Answered
<1>8. PhaseInv'
  <2>1. /\ phase \in {"ending", "recording"} /\ phase' = phase /\ next' = next /\ final' = final
        /\ view' = view /\ latest' = latest
    BY <1>1, <1>5, AnsweredFrame DEF WaitsFor, Answered, scanVars
  <2>2. phase = "ending" => final = 0
    BY <1>t, <1>1 DEF PhaseInv
  <2>3. QED
    BY <1>t, <1>2, <2>1, <2>2 DEF PhaseInv, Watched
<1>9. QED
  BY <1>5, <1>6, <1>7, <1>8, AnsweredFrame, TypePartsNext DEF IInv, Coordination

LEMMA FinalizeStep ==
  ASSUME IInv, Finalize
  PROVE  IInv'
<1> USE EpisodesAssumption
<1>t. /\ StoreType /\ SlotType /\ ScanType /\ PhaseInv /\ Truth
      /\ taps \in [Incidents -> [Slots -> Nat]]
  BY TypeParts DEF IInv, Coordination
<1>1. StoreType' /\ Truth'
  <2>1. CASE UNCHANGED <<actions, revision>>
    BY <1>t, <2>1 DEF Finalize, StoreType, Truth, StoreInv, DoubtBlocks, RecordedTruly
  <2>2. CASE final # 0 /\ Record(view.incident, final, "not_dispatched")
    <3>1. Watched /\ (final \in 1..Len(actions[view.incident]) => InDoubt(0)) /\ final = action
      BY <1>t, <2>2 DEF Finalize, PhaseInv
    <3>2. view.incident \in Incidents
      BY <1>t, <3>1, WatchedIncident
    <3>3. final \in 1..Len(actions[view.incident]) => Claims(view.incident, final, "not_dispatched")
      BY <3>1 DEF Claims, InDoubt
    <3>4. QED
      BY <1>t, <2>2, <3>2, <3>3, RecordKeeps DEF Finalize, Known, ScanType
  <2>3. QED
    BY <2>1, <2>2 DEF Finalize
<1>2. ScanType' /\ SlotType' /\ (taps \in [Incidents -> [Slots -> Nat]])'
  BY <1>t, NoTypes DEF Finalize, Clear, ScanType, SlotType, Phases
<1>3. Booleans'
  BY DEF Finalize, Clear, Booleans
<1>4. Coordination'
  BY DEF Finalize, Clear, NoReply, Coordination, SlotInv, CommandInv, ReplyInv, PhaseInv
<1>5. QED
  BY <1>1, <1>2, <1>3, <1>4, TypePartsNext DEF IInv

LEMMA ReconcileStep ==
  ASSUME IInv, NEW i \in Incidents, NEW a \in Slots, NEW o \in Known, Reconcile(i, a, o)
  PROVE  IInv'
<1> USE EpisodesAssumption
<1>t. /\ StoreType /\ SlotType /\ ScanType /\ Booleans
      /\ taps \in [Incidents -> [Slots -> Nat]]
      /\ SlotInv /\ CommandInv /\ ReplyInv /\ PhaseInv
  BY TypeParts DEF IInv, Coordination
<1>1. /\ a \in 1..Len(actions[i]) /\ Claims(i, a, o)
      /\ actions[i][a] = "unknown" \/ (actions[i][a] = "unrecorded" /\ phase = "stopped")
      /\ actions' = [actions EXCEPT ![i][a] = o]
      /\ revision' = [revision EXCEPT ![i] = @ + 1]
  BY DEF Reconcile, Reconcilable, Claims
<1>2. UNCHANGED <<latest, bound, verdict, openedAt, closedAt, scope, scanVars, view,
                  command, reply, final, taps>>
  BY DEF Reconcile
<1>3. /\ actions' \in [Incidents -> Seq(Outcomes)]
      /\ \A j \in Incidents : Len(actions'[j]) = Len(actions[j])
      /\ \A j \in Incidents : \A b \in 1..Len(actions[j]) :
           actions'[j][b] = IF j = i /\ b = a THEN o ELSE actions[j][b]
      /\ Truth'
  BY <1>1, <1>2, Edited
<1>4. highWater' \in 0..MaxTime
  BY <1>t, Clocks DEF Reconcile, StoreType
<1>5. StoreType'
  <2>1. revision' \in [Incidents -> Nat \ {0}]
    BY <1>t, <1>1 DEF StoreType
  <2>2. QED
    BY <1>t, <1>2, <1>3, <1>4, <2>1 DEF StoreType
<1>6. ScanType' /\ SlotType' /\ Booleans' /\ (taps \in [Incidents -> [Slots -> Nat]])'
  <2>1. Booleans'
    BY <1>t, <1>2 DEF Booleans, scanVars
  <2>2. QED
    BY <1>t, <1>2, <2>1 DEF ScanType, SlotType, scanVars
<1>7. Coordination'
  <2>1. CASE phase = "stopped"
    BY <1>t, <1>2, <2>1
    DEF Coordination, SlotInv, CommandInv, ReplyInv, PhaseInv, WaitsFor, scanVars
  <2>2. CASE phase # "stopped"
    <3>1. actions[i][a] = "unknown"
      BY <1>1, <2>2
    <3>2. latest \in 0..MaxIncidents
      BY <1>t DEF StoreType
    <3>3. \A n \in Nat : Watched /\ InDoubt(n) => InDoubt(n)'
      BY <1>2, <1>3, <3>1, <3>2 DEF Watched, InDoubt, scanVars, Incidents
    <3>4. Watched => Watched' /\ (Counted => Counted')
      BY <1>2, <1>3, <3>2 DEF Watched, Counted, Incidents
    <3>5. SlotInv'
      BY <1>t, <1>2 DEF SlotInv, WaitsFor, scanVars
    <3>6. CommandInv'
      BY <1>t, <1>2, <3>3, <3>4 DEF CommandInv, scanVars
    <3>7. ReplyInv'
      <4>1. reply.op # "none" /\ reply.result # "failed" =>
              reply.view.incident \in Incidents /\ reply.view.incident \in 1..latest
        BY <1>t, <3>2 DEF ReplyInv, Incidents
      <4>2. reply.result = "granted" /\ reply.op = "reserve" => InDoubt(0)'
        BY <1>t, <3>3 DEF ReplyInv, Watched
      <4>3. QED
        BY <1>t, <1>2, <1>3, <4>1, <4>2 DEF ReplyInv
    <3>8. PhaseInv'
      <4>1. Watched => view.incident \in Incidents
        BY <3>2 DEF Watched, Incidents
      <4>2. Watched => Len(actions'[view.incident]) = Len(actions[view.incident])
        BY <1>3, <4>1
      <4>3. QED
        BY <1>t, <1>2, <3>3, <3>4, <4>2 DEF PhaseInv, scanVars
    <3>9. QED
      BY <3>5, <3>6, <3>7, <3>8 DEF Coordination
  <2>3. QED
    BY <2>1, <2>2
<1>8. QED
  BY <1>3, <1>5, <1>6, <1>7, TypePartsNext DEF IInv
-----------------------------------------------------------------------------
(* The invariant, and what it says.                                        *)

LEMMA Step == IInv /\ [Next]_vars => IInv'
<1> SUFFICES ASSUME IInv, [Next]_vars PROVE IInv'
  OBVIOUS
<1>1. CASE Run
  BY <1>1, RunOpenStep, RunCloseStep, RunReserveStep, RunRecordStep, StoreFailsStep DEF Run
<1>2. CASE Quiet
  <2>1. Truth'
    BY <1>2, QuietIsOutside, OutsideKeepsTruth DEF IInv
  <2>2. QED
    BY <1>2, <2>1, QuietTypes, QuietCoordination DEF IInv
<1>3. CASE Dispatch
  BY <1>3, DispatchStep
<1>4. CASE Finalize
  BY <1>4, FinalizeStep
<1>5. CASE \E i \in Incidents, a \in Slots, o \in Known : Reconcile(i, a, o)
  BY <1>5, ReconcileStep
<1>6. CASE UNCHANGED vars
  <2>1. TypeOK'
    BY <1>6 DEF IInv, TypeOK, vars, storeVars, scanVars
  <2>2. Truth'
    BY <1>6, OutsideKeepsTruth DEF IInv, Outside, vars
  <2>3. Coordination'
    BY <1>6 DEF IInv, vars, storeVars, scanVars, Coordination, SlotInv, CommandInv, ReplyInv, PhaseInv,
      Watched, Counted, InDoubt, WaitsFor
  <2>4. QED
    BY <2>1, <2>2, <2>3 DEF IInv
<1>7. QED
  BY <1>1, <1>2, <1>3, <1>4, <1>5, <1>6 DEF Next, Scan, Quiet

\* Every state that scans, commands, lost replies, stops, crashes and an
\* operator can reach satisfies the inductive invariant
\* (recovery_episodes.py, recovery_coordinator.py).
THEOREM Invariance == Spec => []IInv
BY Initial, Step, PTL DEF Spec

\* The record, the scan thread's copy of it and the storage slot stay in their
\* types: no incident ever holds more than MAX_ACTIONS actions.
THEOREM TypeCorrect == Spec => []TypeOK
<1>1. IInv => TypeOK
  BY DEF IInv
<1>2. QED
  BY <1>1, Invariance, PTL

\* An action whose input is in doubt is the last one of the open incident and
\* of the screen: reserve_action, close and get_or_open wait until its outcome
\* is known, through crashes, failed commands and reconciliations.
THEOREM DoubtBlocksHolds == Spec => []DoubtBlocks
<1>1. IInv => DoubtBlocks
  BY DEF IInv, Truth
<1>2. QED
  BY <1>1, Invariance, PTL

\* No reservation sends two inputs, no input goes out without being on record,
\* and what record_outcome, the finalizer and the operator wrote is what
\* happened.
THEOREM RecordedTrulyHolds == Spec => []RecordedTruly
<1>1. IInv => RecordedTruly
  BY DEF IInv, Truth
<1>2. QED
  BY <1>1, Invariance, PTL
-----------------------------------------------------------------------------
(* History.                                                                *)

\* What is known of an action is known for good, and none is taken off record.
SettledStays ==
  \A i \in Incidents : \A a \in 1..Len(actions[i]) :
    /\ a <= Len(actions'[i])
    /\ Settled(i, a) => actions'[i][a] = actions[i][a]

LEMMA SameHistory ==
  ASSUME IInv, UNCHANGED actions
  PROVE  SettledStays
BY TypeParts DEF IInv, StoreType, SettledStays, Settled

LEMMA RecordHistory ==
  ASSUME IInv, NEW i \in Incidents, NEW n, NEW o, Record(i, n, o)
  PROVE  SettledStays
<1>t. StoreType
  BY TypeParts DEF IInv
<1>1. CASE UNCHANGED actions
  BY <1>1, SameHistory
<1>2. CASE n \in 1..Len(actions[i]) /\ ~Settled(i, n) /\ actions' = [actions EXCEPT ![i][n] = o]
  <2> DEFINE edited == [actions[i] EXCEPT ![n] = o]
  <2>1. Len(edited) = Len(actions[i]) /\ \A b \in 1..Len(actions[i]) : b # n => edited[b] = actions[i][b]
    <3>1. actions[i] \in Seq(Outcomes)
      BY <1>t DEF StoreType
    <3>2. QED
      BY <3>1
  <2>2. actions' = [actions EXCEPT ![i] = edited]
    BY <1>2
  <2> HIDE DEF edited
  <2>3. actions'[i] = edited /\ \A j \in Incidents : j # i => actions'[j] = actions[j]
    BY <1>t, <2>2 DEF StoreType
  <2>4. SUFFICES ASSUME NEW j \in Incidents, NEW b \in 1..Len(actions[j])
                 PROVE  b <= Len(actions'[j]) /\ (Settled(j, b) => actions'[j][b] = actions[j][b])
    BY DEF SettledStays
  <2>5. Len(actions[j]) \in Nat
    BY <1>t DEF StoreType
  <2>6. QED
    BY <1>2, <2>1, <2>3, <2>5
<1>3. QED
  BY <1>1, <1>2 DEF Record

\* No restart, retry, finalizer or operator rewrites a known outcome: what
\* record_outcome made known stays as it is, and every reservation stays on
\* record.
THEOREM SettledStaysHolds == Spec => [][SettledStays]_vars
<1>1. ASSUME IInv, Next PROVE SettledStays
  <2>t. /\ StoreType /\ CommandInv /\ PhaseInv /\ SlotInv
    BY <1>1, TypeParts DEF IInv, Coordination
  <2>w. Watched => view.incident \in Incidents
    BY <2>t, WatchedIncident
  <2>1. CASE \E t \in 0..MaxTime : RunOpen(t) \/ RunClose(t)
    BY <1>1, <2>1, SameHistory DEF RunOpen, OpenNew, RunClose, storeVars
  <2>2. CASE RunReserve
    <3> DEFINE i == view.incident
    <3>1. CASE UNCHANGED actions
      BY <1>1, <3>1, SameHistory
    <3>2. CASE actions' = [actions EXCEPT ![i] = Append(@, "unrecorded")]
      <4>1. i \in Incidents
        BY <2>t, <2>w, <2>2 DEF RunReserve, CommandInv
      <4>2. actions[i] \in Seq(Outcomes) /\ "unrecorded" \in Outcomes
        BY <2>t, <4>1 DEF StoreType, Outcomes
      <4>3. /\ Len(actions'[i]) = Len(actions[i]) + 1 /\ Len(actions[i]) \in Nat
            /\ \A b \in 1..Len(actions[i]) : actions'[i][b] = actions[i][b]
            /\ \A j \in Incidents : j # i => actions'[j] = actions[j]
        BY <2>t, <3>2, <4>1, <4>2, AppendProperties DEF StoreType
      <4>4. \A j \in Incidents : Len(actions[j]) \in Nat
        BY <2>t DEF StoreType
      <4>5. QED
        BY <4>3, <4>4 DEF SettledStays
    <3>3. QED
      BY <2>2, <3>1, <3>2 DEF RunReserve
  <2>3. CASE RunRecord
    BY <1>1, <2>t, <2>w, <2>3, RecordHistory DEF RunRecord, CommandInv
  <2>4. CASE StoreFails
    BY <1>1, <2>4, SameHistory DEF StoreFails, storeVars
  <2>5. CASE Quiet
    BY <1>1, <2>5, QuietIsOutside, SameHistory DEF Outside, storeVars
  <2>6. CASE Dispatch
    BY <1>1, <2>6, SameHistory DEF Dispatch, storeVars
  <2>7. CASE Finalize
    <3>1. CASE UNCHANGED actions
      BY <1>1, <3>1, SameHistory
    <3>2. CASE final # 0 /\ Record(view.incident, final, "not_dispatched")
      <4>1. view.incident \in Incidents
        BY <2>t, <2>w, <2>7, <3>2 DEF Finalize, PhaseInv
      <4>2. QED
        BY <1>1, <3>2, <4>1, RecordHistory
    <3>3. QED
      BY <2>7, <3>1, <3>2 DEF Finalize
  <2>8. ASSUME NEW i \in Incidents, NEW a \in Slots, NEW o \in Known, Reconcile(i, a, o)
        PROVE  SettledStays
    <3>1. ~Settled(i, a) /\ actions[i][a] # o /\ a \in 1..Len(actions[i])
      BY <2>8 DEF Reconcile, Reconcilable, Settled, Known
    <3>2. Record(i, a, o)
      BY <2>8, <3>1 DEF Reconcile, Record
    <3>3. QED
      BY <1>1, <3>2, RecordHistory
  <2>9. QED
    BY <1>1, <2>1, <2>2, <2>3, <2>4, <2>5, <2>6, <2>7, <2>8 DEF Next, Run, Scan, Quiet
<1>2. ASSUME IInv, UNCHANGED vars PROVE SettledStays
  BY <1>2, SameHistory DEF vars, storeVars
<1>3. QED
  BY <1>1, <1>2, Invariance, PTL DEF Spec
-----------------------------------------------------------------------------
(* The abstract record of InputRecord.                                     *)

Said == [t \in Trials |-> OnRecord(t)]
Sent == [t \in Trials |-> taps[t[1]][t[2]]]

Advances == TrialRecord!Next \/ UNCHANGED TrialRecord!recordVars

LEMMA TrialIs ==
  ASSUME NEW t \in Trials
  PROVE  t[1] \in Incidents /\ t[2] \in Slots /\ t = <<t[1], t[2]>>
BY DEF Trials

LEMMA SaidIs ==
  ASSUME NEW i \in Incidents, NEW a \in Slots
  PROVE  /\ <<i, a>> \in Trials
         /\ Said[<<i, a>>] = IF a <= Len(actions[i]) THEN actions[i][a] ELSE "none"
         /\ Sent[<<i, a>>] = taps[i][a]
BY DEF Trials, Said, Sent, OnRecord

\* What happened to one trial says what happened to the record.
LEMMA OneSaid ==
  ASSUME NEW i \in Incidents, NEW a \in Slots, NEW o,
         actions'[i][a] = o, a <= Len(actions'[i]),
         \A j \in Incidents, b \in Slots : j # i \/ b # a =>
           /\ b <= Len(actions'[j]) <=> b <= Len(actions[j])
           /\ b <= Len(actions[j]) => actions'[j][b] = actions[j][b]
  PROVE  Said' = [Said EXCEPT ![<<i, a>>] = o]
<1>1. ASSUME NEW t \in Trials
      PROVE  OnRecord(t)' = IF t = <<i, a>> THEN o ELSE OnRecord(t)
  <2>1. CASE t = <<i, a>>
    BY <2>1 DEF OnRecord
  <2>2. CASE t # <<i, a>>
    BY <2>2, TrialIs DEF OnRecord
  <2>3. QED
    BY <2>1, <2>2
<1>2. QED
  BY <1>1 DEF Said

LEMMA SameRecord ==
  ASSUME UNCHANGED <<actions, taps>>
  PROVE  Advances
<1>1. Said' = Said /\ Sent' = Sent
  BY DEF Said, Sent, OnRecord
<1>2. QED
  BY <1>1 DEF Advances, TrialRecord!recordVars, Said, Sent

\* record_outcome, the finalizer and the operator say something.
LEMMA EditSays ==
  ASSUME IInv, NEW i \in Incidents, NEW a \in 1..Len(actions[i]), NEW o \in Known \cup {"unknown"},
         Record(i, a, o), Claims(i, a, o), UNCHANGED taps
  PROVE  Advances
<1> USE EpisodesAssumption
<1>t. StoreType /\ taps \in [Incidents -> [Slots -> Nat]]
  BY TypeParts DEF IInv
<1>1. CASE UNCHANGED actions
  BY <1>1, SameRecord
<1>2. CASE ~Settled(i, a) /\ actions[i][a] # o /\ actions' = [actions EXCEPT ![i][a] = o]
  <2>1. a \in Slots /\ a <= Len(actions[i])
    BY <1>t DEF StoreType, Slots
  <2>2. actions[i][a] \in {"unrecorded", "unknown"}
    <3>1. actions[i] \in Seq(Outcomes)
      BY <1>t DEF StoreType
    <3>2. actions[i][a] \in Outcomes
      BY <3>1, ElementOfSeq
    <3>3. QED
      BY <1>2, <3>2 DEF Outcomes, Settled
  <2>3. /\ actions'[i][a] = o /\ a <= Len(actions'[i])
        /\ \A j \in Incidents, b \in Slots : j # i \/ b # a =>
             /\ b <= Len(actions'[j]) <=> b <= Len(actions[j])
             /\ b <= Len(actions[j]) => actions'[j][b] = actions[j][b]
    <3> DEFINE edited == [actions[i] EXCEPT ![a] = o]
    <3>1. Len(edited) = Len(actions[i]) /\ \A b \in 1..Len(actions[i]) : edited[b] = IF b = a THEN o ELSE actions[i][b]
      <4>1. actions[i] \in Seq(Outcomes) /\ o \in Outcomes
        BY <1>t DEF StoreType, Outcomes
      <4>2. QED
        BY <4>1, ExceptSeq
    <3>2. actions' = [actions EXCEPT ![i] = edited]
      BY <1>2
    <3> HIDE DEF edited
    <3>3. actions'[i] = edited /\ \A j \in Incidents : j # i => actions'[j] = actions[j]
      BY <1>t, <3>2 DEF StoreType
    <3>4. \A b \in Slots : b <= Len(actions[i]) => b \in 1..Len(actions[i])
      BY <1>t DEF Slots, StoreType
    <3>5. QED
      BY <2>1, <3>1, <3>3, <3>4
  <2>4. Said' = [Said EXCEPT ![<<i, a>>] = o]
    BY <2>1, <2>3, OneSaid
  <2>5. Sent' = Sent
    BY DEF Sent
  <2>6. /\ <<i, a>> \in Trials /\ Said[<<i, a>>] = actions[i][a] /\ Sent[<<i, a>>] = taps[i][a]
    BY <2>1, SaidIs
  <2>7. \/ o = "unknown" /\ Said[<<i, a>>] = "unrecorded"
        \/ o = "not_dispatched" /\ Sent[<<i, a>>] = 0
        \/ o \in {"confirmed", "no_effect"} /\ Sent[<<i, a>>] = 1
        \/ o \in {"invalidated"}
    BY <1>2, <2>2, <2>6 DEF Known, Claims
  <2>8. TrialRecord!Say(<<i, a>>, o)
    BY <2>2, <2>4, <2>5, <2>6, <2>7 DEF TrialRecord!Say, TrialRecord!True, TrialRecord!InDoubt, Said, Sent
  <2>9. o \in {"unknown", "not_dispatched", "confirmed", "no_effect"} \cup {"invalidated"}
    BY DEF Known
  <2>10. QED
    BY <2>6, <2>8, <2>9 DEF Advances, TrialRecord!Next
<1>3. QED
  BY <1>1, <1>2 DEF Record

\* reserve_action begins a trial.
LEMMA ReserveBegins ==
  ASSUME IInv, RunReserve
  PROVE  Advances
<1> DEFINE i == view.incident
           n == Len(actions[i])
<1> USE EpisodesAssumption
<1>t. /\ StoreType /\ ScanType /\ CommandInv /\ Truth /\ StoreInv
      /\ taps \in [Incidents -> [Slots -> Nat]]
  BY TypeParts DEF IInv, Coordination, Truth
<1>1. UNCHANGED taps
  BY DEF RunReserve, Answer
<1>2. CASE UNCHANGED actions
  BY <1>1, <1>2, SameRecord
<1>3. CASE Granted(i) /\ actions' = [actions EXCEPT ![i] = Append(@, "unrecorded")]
  <2>1. i \in Incidents /\ i \in 1..latest /\ i <= latest
    <3>1. Watched
      BY <1>t DEF RunReserve, CommandInv
    <3>2. QED
      BY <1>t, <3>1, WatchedIncident DEF Watched, StoreType
  <2>2. verdict[i] = "open" /\ ~Unresolved(i) /\ ~(n >= MaxActions)
    BY <1>3 DEF Granted, Status
  <2>3. n \in 0..(MaxActions - 1) /\ n < MaxActions /\ n + 1 \in Slots
    BY <1>t, <2>1, <2>2 DEF StoreType, Slots
  <2>4. /\ Len(actions'[i]) = n + 1 /\ actions'[i][n + 1] = "unrecorded"
    <3>1. UNCHANGED <<latest, verdict>>
      BY DEF RunReserve
    <3>2. QED
      BY <1>1, <1>3, <2>1, <2>2, <2>3, <3>1, Reserved
  <2>5. \A j \in Incidents, b \in Slots : j # i \/ b # n + 1 =>
          /\ b <= Len(actions'[j]) <=> b <= Len(actions[j])
          /\ b <= Len(actions[j]) => actions'[j][b] = actions[j][b]
    <3>1. actions[i] \in Seq(Outcomes) /\ "unrecorded" \in Outcomes
      BY <1>t, <2>1 DEF StoreType, Outcomes
    <3>2. /\ actions'[i] = Append(actions[i], "unrecorded")
          /\ \A j \in Incidents : j # i => actions'[j] = actions[j]
      BY <1>t, <1>3, <2>1 DEF StoreType
    <3>3. \A b \in 1..n : actions'[i][b] = actions[i][b]
      BY <3>1, <3>2, AppendProperties
    <3>4. \A b \in Slots : b \in Nat \ {0} /\ (b <= n => b \in 1..n)
      BY <2>3 DEF Slots
    <3>5. QED
      BY <2>3, <2>4, <3>2, <3>3, <3>4
  <2>6. Said' = [Said EXCEPT ![<<i, n + 1>>] = "unrecorded"]
    BY <2>1, <2>3, <2>4, <2>5, OneSaid
  <2>7. <<i, n + 1>> \in Trials /\ Said[<<i, n + 1>>] = "none" /\ Sent' = Sent
    <3>1. ~(n + 1 <= Len(actions[i]))
      BY <2>3
    <3>2. <<i, n + 1>> \in Trials /\ Said[<<i, n + 1>>] = "none"
      BY <2>1, <2>3, <3>1, SaidIs
    <3>3. Sent' = Sent
      BY <1>1 DEF Sent
    <3>4. QED
      BY <3>2, <3>3
  <2>8. ASSUME NEW u \in Trials PROVE Said[u] \notin {"unrecorded", "unknown"}
    <3>1. Settling /\ i = latest
      BY <1>t, <2>1, <2>2, OpenIsLatest DEF Settling
    <3>2. \A k \in Incidents : \A b \in 1..Len(actions[k]) :
            actions[k][b] \notin {"unrecorded", "unknown"}
      BY <1>t, <3>1, NoDoubt
    <3>3. u[1] \in Incidents /\ u[2] \in Slots /\ Said[u] = OnRecord(u)
      BY TrialIs DEF Said
    <3>4. u[2] <= Len(actions[u[1]]) => u[2] \in 1..Len(actions[u[1]])
      BY <1>t, <3>3 DEF StoreType, Slots
    <3>5. QED
      BY <3>2, <3>3, <3>4 DEF OnRecord
  <2>9. TrialRecord!Begin(<<i, n + 1>>)
    BY <2>6, <2>7, <2>8 DEF TrialRecord!Begin, TrialRecord!InDoubt, Said, Sent
  <2>10. QED
    BY <2>7, <2>9 DEF Advances, TrialRecord!Next
<1>4. QED
  BY <1>2, <1>3 DEF RunReserve

\* recovery_tap sends the input of the trial at hand.
LEMMA DispatchSends ==
  ASSUME IInv, Dispatch
  PROVE  Advances
<1> DEFINE i == view.incident
<1> USE EpisodesAssumption
<1>1. UNCHANGED actions /\ (UNCHANGED taps \/ Tapped)
  BY DEF Dispatch, storeVars, Tapped
<1>2. CASE UNCHANGED taps
  BY <1>1, <1>2, SameRecord
<1>3. CASE Tapped
  <2>1. InDoubt(0) /\ Watched /\ StoreType /\ ScanType
    BY TypeParts DEF IInv, Coordination, PhaseInv, Dispatch
  <2>2. i \in Incidents
    BY <2>1, WatchedIncident
  <2>3. action \in Slots /\ action <= Len(actions[i])
    BY <2>1, <2>2 DEF StoreType, InDoubt, Slots
  <2>4. /\ taps'[i][action] = 1
        /\ \A j \in Incidents, b \in Slots : j # i \/ b # action => taps'[j][b] = taps[j][b]
    BY <1>3, <2>1, Tap
  <2>5. /\ <<i, action>> \in Trials /\ Said[<<i, action>>] = "unrecorded"
        /\ Sent[<<i, action>>] = 0
    BY <2>1, <2>2, <2>3, SaidIs DEF InDoubt
  <2>6. Sent' = [Sent EXCEPT ![<<i, action>>] = 1]
    <3>1. ASSUME NEW t \in Trials
          PROVE  taps'[t[1]][t[2]] = IF t = <<i, action>> THEN 1 ELSE taps[t[1]][t[2]]
      BY <2>4, TrialIs
    <3>2. QED
      BY <3>1 DEF Sent
  <2>7. Said' = Said
    BY <1>1 DEF Said, OnRecord
  <2>8. PICK t \in Trials : t = <<i, action>>
    BY <2>5
  <2>9. TrialRecord!Send(t)
    BY <2>5, <2>6, <2>7, <2>8 DEF TrialRecord!Send, Said, Sent
  <2>10. QED
    BY <2>8, <2>9 DEF Advances, TrialRecord!Next
<1>4. QED
  BY <1>1, <1>2, <1>3

\* Every step of the store, the coordinator and the operator is one step of the
\* abstract record, or none of its business: the record of recovery_episodes.py
\* is written ahead of the input, true, final, and never holds two doubts.
THEOREM RecordImplemented == Spec => ImplementsRecord
<1>1. Init => TrialRecord!Init
  <2> SUFFICES ASSUME Init PROVE TrialRecord!Init
    OBVIOUS
  <2>1. \A i \in Incidents : Len(actions[i]) = 0
    BY DEF Init
  <2>2. ASSUME NEW t \in Trials PROVE OnRecord(t) = "none" /\ taps[t[1]][t[2]] = 0
    <3>1. t[1] \in Incidents /\ t[2] \in Slots /\ t[2] > 0
      BY TrialIs, EpisodesAssumption DEF Slots
    <3>2. QED
      BY <2>1, <3>1 DEF Init, OnRecord, Slots
  <2>3. QED
    BY <2>2 DEF TrialRecord!Init
<1>2. IInv /\ [Next]_vars => [TrialRecord!Next]_(TrialRecord!recordVars)
  <2> SUFFICES ASSUME IInv, [Next]_vars PROVE Advances
    BY DEF Advances
  <2>t. /\ StoreType /\ ScanType /\ CommandInv /\ PhaseInv
    BY TypeParts DEF IInv, Coordination
  <2>w. Watched => view.incident \in Incidents
    BY <2>t, WatchedIncident
  <2>1. CASE \E t \in 0..MaxTime : RunOpen(t) \/ RunClose(t)
    BY <2>1, SameRecord DEF RunOpen, OpenNew, RunClose, Answer, storeVars
  <2>2. CASE RunReserve
    BY <2>2, ReserveBegins
  <2>3. CASE RunRecord
    <3>1. /\ command.op = "outcome" /\ Record(view.incident, action, command.outcome)
          /\ UNCHANGED taps
      BY <2>3 DEF RunRecord, Answer
    <3>2. /\ command.outcome \in Known \cup {"unknown"} /\ view.incident \in Incidents
          /\ action \in 1..Len(actions[view.incident]) =>
               Claims(view.incident, action, command.outcome)
      BY <2>t, <2>w, <3>1 DEF CommandInv, InDoubt, Known, Claims
    <3>3. CASE action \in 1..Len(actions[view.incident])
      BY <3>1, <3>2, <3>3, EditSays
    <3>4. CASE action \notin 1..Len(actions[view.incident])
      BY <3>1, <3>4, SameRecord DEF Record
    <3>5. QED
      BY <3>3, <3>4
  <2>4. CASE StoreFails
    BY <2>4, SameRecord DEF StoreFails, storeVars
  <2>5. CASE Quiet
    BY <2>5, QuietIsOutside, SameRecord DEF Outside, storeVars
  <2>6. CASE Dispatch
    BY <2>6, DispatchSends
  <2>7. CASE Finalize
    <3>1. UNCHANGED taps
      BY <2>7 DEF Finalize
    <3>2. CASE UNCHANGED actions
      BY <3>1, <3>2, SameRecord
    <3>3. CASE final # 0 /\ Record(view.incident, final, "not_dispatched")
      <4>1. /\ view.incident \in Incidents
            /\ final \in 1..Len(actions[view.incident]) => InDoubt(0) /\ final = action
        BY <2>t, <2>w, <2>7, <3>3 DEF Finalize, PhaseInv
      <4>2. CASE final \in 1..Len(actions[view.incident])
        <5>1. Claims(view.incident, final, "not_dispatched")
          BY <4>1, <4>2 DEF Claims, InDoubt
        <5>2. QED
          BY <3>1, <3>3, <4>1, <4>2, <5>1, EditSays DEF Known
      <4>3. CASE final \notin 1..Len(actions[view.incident])
        BY <3>1, <3>3, <4>3, SameRecord DEF Record
      <4>4. QED
        BY <4>2, <4>3
    <3>4. QED
      BY <2>7, <3>2, <3>3 DEF Finalize
  <2>8. ASSUME NEW i \in Incidents, NEW a \in Slots, NEW o \in Known, Reconcile(i, a, o)
        PROVE  Advances
    <3>1. /\ a \in 1..Len(actions[i]) /\ ~Settled(i, a) /\ actions[i][a] # o
          /\ UNCHANGED taps /\ Claims(i, a, o)
      BY <2>8 DEF Reconcile, Reconcilable, Settled, Known, Claims
    <3>2. Record(i, a, o)
      BY <2>8, <3>1 DEF Reconcile, Record
    <3>3. QED
      BY <3>1, <3>2, EditSays
  <2>9. CASE UNCHANGED vars
    BY <2>9, SameRecord DEF vars, storeVars
  <2>10. QED
    BY <2>1, <2>2, <2>3, <2>4, <2>5, <2>6, <2>7, <2>8, <2>9 DEF Next, Run, Scan, Quiet
<1>3. QED
  BY <1>1, <1>2, Invariance, PTL DEF Spec, ImplementsRecord, TrialRecord!Spec
=============================================================================
