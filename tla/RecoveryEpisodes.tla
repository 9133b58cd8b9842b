-------------------------- MODULE RecoveryEpisodes --------------------------
(***************************************************************************)
(* recovery_episodes.RecoveryEpisodes, the durable record of the recovery  *)
(* inputs tried on a stalled screen, and the RecoveryCoordinator that uses *)
(* it: the scan thread decides and taps, one storage thread runs one       *)
(* command at a time and answers, an operator reconciles from another      *)
(* process, and the worker stops, crashes and starts again.                *)
(*                                                                         *)
(* One worker, account and stalled screen (a fingerprint); its incidents   *)
(* are numbered, only the latest can be open.  An action id is its number  *)
(* within its incident.  The provider call is RecoveryBudget's subject:    *)
(* here it is a phase that ends in a proposal or without one.  One call of *)
(* step may take several of the scan thread's actions below.               *)
(***************************************************************************)
EXTENDS Integers, Sequences

CONSTANTS
  MaxActions,     \* MAX_ACTIONS
  Cooldown,       \* COOLDOWN_SECONDS
  MaxIncidents,   \* bound: incidents opened
  MaxScope,       \* bound: scopes (scope_token values) of the worker
  MaxTime         \* bound: wall clock

Incidents == 1..MaxIncidents
Slots     == 1..MaxActions
Scopes    == 1..MaxScope
Known     == {"confirmed", "no_effect", "invalidated", "not_dispatched"}
Outcomes  == Known \cup {"unrecorded", "unknown"}
Verdicts  == {"recovered", "exhausted", "invalidated"}

ASSUME EpisodesAssumption ==
  /\ MaxActions \in Nat \ {0} /\ Cooldown \in Nat \ {0}
  /\ MaxIncidents \in Nat \ {0} /\ MaxScope \in Nat \ {0} /\ MaxTime \in Nat

VARIABLES
  \* recovery_episodes, recovery_actions, episode_clock
  latest,                         \* number of incidents on record
  actions,                        \* outcomes of an incident's actions, in order
  bound, revision, verdict,       \* scope_token, revision, outcome ("open": none yet)
  openedAt, closedAt, highWater,
  \* coordinator
  scope,                          \* the worker's RecoveryScope, numbered as it changes
  phase, invalidated, released, dispatched,
  origin,                         \* scope of the scan that opened the episode
  view,                           \* its copy of the episode: incident, revision, used
  action, next,
  command, reply,                 \* the storage slot
  final,                          \* what the finalizer of close() releases
  taps                            \* inputs sent for an action

storeVars == <<latest, actions, bound, revision, verdict, openedAt, closedAt, highWater>>
scanVars  == <<phase, invalidated, released, dispatched, origin, action, next>>
vars      == <<storeVars, scope, scanVars, view, command, reply, final, taps>>

NoView    == [incident |-> 0, revision |-> 0, used |-> 0]
NoCommand == [op |-> "none", outcome |-> "none"]
NoReply   == [op |-> "none", result |-> "none", view |-> NoView]

Unresolved(i) == \E a \in 1..Len(actions[i]) : actions[i][a] \in {"unrecorded", "unknown"}

StatusMutant(i) ==
  IF verdict[i] # "open" THEN "closed"
  ELSE IF \E a \in 1..Len(actions[i]) : actions[i][a] = "unrecorded" THEN "unresolved"
  ELSE IF Len(actions[i]) >= MaxActions THEN "exhausted" ELSE "open"
\* _snapshot
Status(i) ==
  IF verdict[i] # "open" THEN "closed"
  ELSE IF Unresolved(i) THEN "unresolved"
  ELSE IF Len(actions[i]) >= MaxActions THEN "exhausted" ELSE "open"

Look(i) == [incident |-> i, revision |-> revision[i], used |-> Len(actions[i])]

Init ==
  /\ latest = 0 /\ highWater = 0
  /\ actions = [i \in Incidents |-> <<>>] /\ bound = [i \in Incidents |-> 0]
  /\ revision = [i \in Incidents |-> 1] /\ verdict = [i \in Incidents |-> "open"]
  /\ openedAt = [i \in Incidents |-> 0] /\ closedAt = [i \in Incidents |-> 0]
  /\ scope = 0 /\ phase = "stopped" /\ origin = 0 /\ view = NoView /\ action = 0
  /\ invalidated = FALSE /\ released = FALSE /\ dispatched = FALSE /\ next = "none"
  /\ command = NoCommand /\ reply = NoReply /\ final = 0
  /\ taps = [i \in Incidents |-> [a \in Slots |-> 0]]
----------------------------------------------------------------------------
(* The storage thread.  A command may fail before it wrote anything, or    *)
(* after: its transactions committed, a later read of the same command did *)
(* not.  The reply of a failed command says nothing.                       *)

\* _clock: the wall clock may be set back, recorded time may not.
Clock(t) == IF highWater > t THEN highWater ELSE t

Answer(result, v) ==
  /\ command' = NoCommand
  /\ \/ reply' = [op |-> command.op, result |-> result, view |-> v]
     \/ reply' = [op |-> command.op, result |-> "failed", view |-> NoView]
  /\ UNCHANGED <<scope, scanVars, view, final, taps>>

StoreFails ==
  /\ command.op # "none"
  /\ command' = NoCommand
  /\ reply' = [op |-> command.op, result |-> "failed", view |-> NoView]
  /\ UNCHANGED <<storeVars, scope, scanVars, view, final, taps>>

\* get_or_open of a new incident.
OpenNew(t) ==
  LET i == latest + 1 IN
  /\ i <= MaxIncidents
  /\ latest' = i
  /\ bound' = [bound EXCEPT ![i] = origin]
  /\ openedAt' = [openedAt EXCEPT ![i] = Clock(t)]
  /\ Answer("ok", Look(i))
  /\ UNCHANGED <<actions, revision, verdict, closedAt>>

Close(i, v, t) ==
  /\ verdict' = [verdict EXCEPT ![i] = v]
  /\ closedAt' = [closedAt EXCEPT ![i] = Clock(t)]
  /\ revision' = [revision EXCEPT ![i] = @ + 1]

Advanced(i) == [incident |-> i, revision |-> revision[i] + 1, used |-> Len(actions[i])]

\* _open's command: lookup, get_or_open, and then rebind_scope or close.  The
\* configured cooldown may be longer than the store's.
RunOpen(t) ==
  LET i == latest IN
  /\ command.op = "open"
  /\ \/ /\ i > 0 /\ verdict[i] # "open"
        /\ \E extra \in {0, 1} : t < closedAt[i] + Cooldown + extra
        /\ Answer("blocked", Look(i))
        /\ UNCHANGED storeVars
     \/ /\ i > 0 => verdict[i] # "open" /\ t >= closedAt[i] + Cooldown
        /\ highWater' = Clock(t)
        /\ OpenNew(t)
     \/ /\ i > 0 /\ Status(i) = "unresolved"
        /\ highWater' = Clock(t)
        /\ Answer("blocked", Look(i))
        /\ UNCHANGED <<latest, actions, bound, revision, verdict, openedAt, closedAt>>
     \/ /\ i > 0 /\ Status(i) = "exhausted"
        /\ highWater' = Clock(t)
        /\ Close(i, "exhausted", t)
        /\ Answer("blocked", Advanced(i))
        /\ UNCHANGED <<latest, actions, bound, openedAt>>
     \/ /\ i > 0 /\ Status(i) = "open" /\ bound[i] # origin
        /\ highWater' = Clock(t)
        /\ bound' = [bound EXCEPT ![i] = origin]
        /\ revision' = [revision EXCEPT ![i] = @ + 1]
        /\ Answer("ok", Advanced(i))
        /\ UNCHANGED <<latest, actions, verdict, openedAt, closedAt>>
     \/ /\ i > 0 /\ Status(i) = "open" /\ bound[i] = origin
        /\ highWater' = Clock(t)
        /\ Answer("ok", Look(i))
        /\ UNCHANGED <<latest, actions, bound, revision, verdict, openedAt, closedAt>>

\* reserve_action: a compare-and-set on revision and scope of an open incident.
Granted(i) == Status(i) = "open" /\ view.revision = revision[i] /\ bound[i] = origin

RunReserve ==
  LET i == view.incident IN
  /\ command.op = "reserve"
  /\ \/ /\ Granted(i)
        /\ actions' = [actions EXCEPT ![i] = Append(@, "unrecorded")]
        /\ revision' = [revision EXCEPT ![i] = @ + 1]
        /\ Answer("granted", [incident |-> i, revision |-> revision[i] + 1,
                              used |-> Len(actions[i]) + 1])
     \/ ~Granted(i) /\ Answer("denied", Look(i)) /\ UNCHANGED <<actions, revision>>
     \/ Answer("stale", Look(i)) /\ UNCHANGED <<actions, revision>>  \* settings changed
  /\ UNCHANGED <<latest, bound, verdict, openedAt, closedAt, highWater>>

\* record_outcome: an unknown outcome may become known, a known one stays.
Settled(i, a) == actions[i][a] \in Known

Record(i, a, o) ==
  IF a \notin 1..Len(actions[i]) \/ actions[i][a] = o \/ Settled(i, a)
    THEN UNCHANGED <<actions, revision>>
    ELSE /\ actions' = [actions EXCEPT ![i][a] = o]
         /\ revision' = [revision EXCEPT ![i] = @ + 1]

\* A conflicting outcome raises, and so does an action that is not on record.
RunRecord ==
  LET i == view.incident
      o == command.outcome
  IN
  /\ command.op = "outcome"
  /\ Record(i, action, o)
  /\ IF action \in 1..Len(actions[i]) /\ actions'[i][action] = o
       THEN Answer("ok", [incident |-> i, revision |-> revision'[i], used |-> Len(actions[i])])
       ELSE /\ command' = NoCommand
            /\ reply' = [op |-> "outcome", result |-> "failed", view |-> NoView]
            /\ UNCHANGED <<scope, scanVars, view, final, taps>>
  /\ UNCHANGED <<latest, bound, verdict, openedAt, closedAt, highWater>>

\* close with the current revision; it refuses an unresolved incident.
RunClose(t) ==
  LET i == view.incident IN
  /\ command.op = "close"
  /\ \/ /\ Status(i) \in {"open", "exhausted"}
        /\ highWater' = Clock(t)
        /\ Close(i, command.outcome, t)
        /\ Answer(command.outcome, Advanced(i))
     \/ /\ verdict[i] = command.outcome
        /\ highWater' = Clock(t)
        /\ Answer(command.outcome, Look(i))
        /\ UNCHANGED <<verdict, closedAt, revision>>
     \/ /\ Status(i) = "unresolved" \/ verdict[i] \notin {"open", command.outcome}
        /\ command' = NoCommand
        /\ reply' = [op |-> "close", result |-> "failed", view |-> NoView]
        /\ UNCHANGED <<scope, scanVars, view, final, taps, highWater, verdict, closedAt, revision>>
  /\ UNCHANGED <<latest, actions, bound, openedAt>>

Run ==
  \/ \E t \in 0..MaxTime : RunOpen(t) \/ RunClose(t)
  \/ RunReserve \/ RunRecord \/ StoreFails
----------------------------------------------------------------------------
(* The scan thread: RecoveryCoordinator.step, one branch per action.       *)

Schedule(op, outcome, p) ==
  /\ command' = [op |-> op, outcome |-> outcome]
  /\ phase' = p

\* _finish
Finish(v) == Schedule("close", v, "closing")
\* _write_outcome
WriteOutcome(o, then) == Schedule("outcome", o, "recording") /\ next' = then

\* _clear
Clear(p) ==
  /\ phase' = p
  /\ invalidated' = FALSE /\ released' = FALSE /\ dispatched' = FALSE
  /\ origin' = 0 /\ view' = NoView /\ action' = 0 /\ next' = "none"

Open ==
  /\ phase = "idle"
  /\ origin' = scope
  /\ Schedule("open", "none", "opening")
  /\ UNCHANGED <<storeVars, scope, invalidated, released, dispatched, view, action, next,
                 reply, final, taps>>

AfterFailureMutant == phase' = phase
\* A failed command pauses the worker: nobody knows what it did.
AfterFailure == phase' = "paused"

Granting(result) == result = "granted"

\* The reply of the storage slot is consumed.
Receive ==
  /\ reply.op # "none" /\ phase # "ending"
  /\ reply' = NoReply
  /\ UNCHANGED <<storeVars, scope, origin, final, taps>>
  /\ \/ /\ reply.result = "failed"
        /\ AfterFailure
        /\ UNCHANGED <<invalidated, released, dispatched, view, action, next, command>>
     \/ /\ reply.op = "open" /\ reply.result \in {"ok", "blocked"}
        /\ view' = reply.view
        /\ phase' = IF reply.result = "ok" THEN "choosing" ELSE "paused"
        /\ UNCHANGED <<invalidated, released, dispatched, action, next, command>>
     \/ /\ reply.op = "reserve" /\ Granting(reply.result)
        /\ view' = reply.view
        /\ phase' = "dispatch"
        /\ UNCHANGED <<invalidated, released, dispatched, action, next, command>>
     \/ /\ reply.op = "reserve" /\ reply.result \in {"denied", "stale"} /\ ~Granting(reply.result)
        /\ view' = reply.view
        /\ action' = 0
        /\ phase' = IF reply.result = "stale" THEN "validate" ELSE "paused"
        /\ invalidated' = (invalidated \/ reply.result = "stale")
        /\ UNCHANGED <<released, dispatched, next, command>>
     \/ /\ reply.op = "outcome" /\ reply.result = "ok"
        /\ view' = reply.view
        /\ \/ /\ next = "retry"
              /\ phase' = "choosing" /\ action' = 0 /\ dispatched' = FALSE
              /\ UNCHANGED command
           \/ /\ next = "unknown"
              /\ phase' = "paused"
              /\ UNCHANGED <<action, dispatched, command>>
           \/ /\ next \notin {"retry", "unknown"}
              /\ Finish(next)
              /\ UNCHANGED <<action, dispatched>>
        /\ UNCHANGED <<invalidated, released, next>>
     \/ /\ reply.op = "close" /\ reply.result \in Verdicts
        /\ view' = reply.view
        /\ phase' = IF reply.result = "recovered" \/ released THEN "recovered" ELSE "paused"
        /\ UNCHANGED <<invalidated, released, dispatched, action, next, command>>

\* _safe failed: another scope, a pause, a pending purchase, changed settings.
Invalidate ==
  /\ phase \notin {"stopped", "idle", "paused", "recovered", "ending"} /\ ~invalidated
  /\ invalidated' = TRUE
  /\ UNCHANGED <<storeVars, scope, phase, released, dispatched, origin, view, action, next,
                 command, reply, final, taps>>

\* The stall cleared before any action.
StallClears ==
  /\ phase \in {"choosing", "provider"} /\ ~released
  /\ invalidated' = TRUE /\ released' = TRUE
  /\ UNCHANGED <<storeVars, scope, phase, dispatched, origin, view, action, next,
                 command, reply, final, taps>>

\* An invalidated episode ends: with what is known about its action.
Abandons ==
  \/ phase = "dispatch" /\ WriteOutcome("not_dispatched", "invalidated")
  \/ phase = "postcondition" /\ WriteOutcome("unknown", "unknown")

Abandon ==
  /\ invalidated /\ reply.op = "none"
  /\ \/ phase \in {"dispatch", "postcondition"} /\ Abandons
     \/ phase \in {"choosing", "provider", "validate"} /\ Finish("invalidated") /\ UNCHANGED next
  /\ UNCHANGED <<storeVars, scope, invalidated, released, dispatched, origin, view, action,
                 reply, final, taps>>

\* _choose, _provider, _reserve: no service, no call left, no proposal, shadow
\* mode, or a proposal that the current scan does not bear out.
Exhaust ==
  /\ phase \in {"choosing", "provider"} /\ ~invalidated
  /\ \E v \in {"exhausted", "invalidated"} : Finish(v)
  /\ UNCHANGED <<storeVars, scope, invalidated, released, dispatched, origin, view, action,
                 next, reply, final, taps>>

Ask ==
  /\ phase = "choosing" /\ ~invalidated /\ view.used < MaxActions
  /\ phase' = "provider"
  /\ UNCHANGED <<storeVars, scope, invalidated, released, dispatched, origin, view, action,
                 next, command, reply, final, taps>>

\* _reserve, with the first host candidate or with the proposal.
Reserve ==
  /\ \/ phase = "choosing" /\ view.used = 0
     \/ phase = "provider"
  /\ ~invalidated
  /\ action' = view.used + 1
  /\ Schedule("reserve", "none", "reserving")
  /\ UNCHANGED <<storeVars, scope, invalidated, released, dispatched, origin, view, next,
                 reply, final, taps>>

\* The candidate is gone, or recovery_tap's last guard refused it: no input.
Refuse ==
  /\ phase = "dispatch" /\ ~invalidated
  /\ WriteOutcome("not_dispatched", "invalidated")
  /\ UNCHANGED <<storeVars, scope, invalidated, released, dispatched, origin, view, action,
                 reply, final, taps>>

\* recovery_tap, under a guard on the live scope; it advances the command
\* generation, and that scope alone is adopted: any other change by then leaves
\* the outcome to doubt.  If it raises, the tap may have gone out or not.
Dispatch ==
  LET i == view.incident IN
  /\ phase = "dispatch" /\ ~invalidated /\ scope = origin /\ scope < MaxScope
  /\ dispatched' = TRUE
  /\ \/ /\ taps' = [taps EXCEPT ![i][action] = @ + 1]
        /\ phase' = "postcondition"
        /\ \/ scope' = scope + 1 /\ origin' = scope' /\ UNCHANGED invalidated
           \/ scope' = scope + 2 /\ scope' <= MaxScope /\ invalidated' = TRUE /\ UNCHANGED origin
        /\ UNCHANGED <<command, next>>
     \/ /\ taps' = [taps EXCEPT ![i][action] = @ + 1] \/ UNCHANGED taps
        /\ scope' = scope + 1
        /\ WriteOutcome("unknown", "unknown")
        /\ UNCHANGED <<origin, invalidated>>
  /\ UNCHANGED <<storeVars, released, view, action, reply, final>>

\* The expected postcondition is seen after the tap, or is not in time.
Judge ==
  /\ phase = "postcondition" /\ ~invalidated
  /\ WriteOutcome("confirmed", "recovered") \/ WriteOutcome("no_effect", "retry")
  /\ UNCHANGED <<storeVars, scope, invalidated, released, dispatched, origin, view, action,
                 reply, final, taps>>

\* A recovered episode, or a paused one the operator resumed.
Resume ==
  /\ phase \in {"paused", "recovered"} /\ reply.op = "none"
  /\ Clear("idle")
  /\ UNCHANGED <<storeVars, scope, command, reply, final, taps>>

Scan ==
  \/ Receive \/ Abandon \/ Exhaust \/ Ask \/ Reserve \/ Refuse \/ Dispatch \/ Judge
----------------------------------------------------------------------------
(* The process.                                                            *)

\* A new lease or attempt, a reconnect, another input, a purchase.
NewScope ==
  /\ phase # "stopped" /\ scope < MaxScope
  /\ scope' = scope + 1
  /\ UNCHANGED <<storeVars, scanVars, view, command, reply, final, taps>>

\* A process has a boot id of its own.
Start ==
  /\ phase = "stopped" /\ scope < MaxScope
  /\ scope' = scope + 1
  /\ Clear("idle")
  /\ UNCHANGED <<storeVars, command, reply, final, taps>>

UndispatchedMutant == action # 0 /\ phase \in {"reserving", "dispatch", "postcondition"}
\* A reserved action that provably never reached input.
Undispatched == action # 0 /\ ~dispatched /\ phase \in {"reserving", "dispatch"}

\* close(), after the scan loop ended.
Shutdown ==
  /\ phase \notin {"stopped", "ending"}
  /\ phase' = "ending"
  /\ final' = IF Undispatched THEN action ELSE 0
  /\ UNCHANGED <<storeVars, scope, invalidated, released, dispatched, origin, view, action,
                 next, command, reply, taps>>

\* The storage thread drains its queue, runs the finalizer and ends.
Finalize ==
  /\ phase = "ending" /\ command.op = "none"
  /\ \/ final # 0 /\ Record(view.incident, final, "not_dispatched")
     \/ UNCHANGED <<actions, revision>>    \* nothing to release, or the store failed
  /\ Clear("stopped")
  /\ reply' = NoReply /\ final' = 0
  /\ UNCHANGED <<latest, bound, verdict, openedAt, closedAt, highWater, scope, command, taps>>

Crash ==
  /\ phase # "stopped"
  /\ Clear("stopped")
  /\ command' = NoCommand /\ reply' = NoReply /\ final' = 0
  /\ UNCHANGED <<storeVars, scope, taps>>

ReconcilableMutant(i, a) == actions[i][a] \in {"unknown", "unrecorded"}
\* RecoveryEpisodes.reconcile by an operator, on evidence of what was sent.
\* An action nobody recorded may belong to a live worker.
Reconcilable(i, a) ==
  actions[i][a] = "unknown" \/ (actions[i][a] = "unrecorded" /\ phase = "stopped")

Reconcile(i, a, o) ==
  /\ a \in 1..Len(actions[i]) /\ Reconcilable(i, a)
  /\ o = "not_dispatched" => taps[i][a] = 0
  /\ o \in {"confirmed", "no_effect"} => taps[i][a] = 1
  /\ actions' = [actions EXCEPT ![i][a] = o]
  /\ revision' = [revision EXCEPT ![i] = @ + 1]
  /\ UNCHANGED <<latest, bound, verdict, openedAt, closedAt, scope, scanVars, view,
                 command, reply, final, taps>>
  /\ \E t \in 0..MaxTime : highWater' = Clock(t)
----------------------------------------------------------------------------
Next ==
  \/ Run \/ Scan
  \/ Open \/ Invalidate \/ StallClears \/ Resume
  \/ NewScope \/ Start \/ Shutdown \/ Finalize \/ Crash
  \/ \E i \in Incidents, a \in Slots, o \in Known : Reconcile(i, a, o)

Spec == Init /\ [][Next]_vars

\* The storage thread runs, the scan loop scans and takes its time limits.
FairSpec == Spec /\ WF_vars(Run) /\ WF_vars(Scan)
----------------------------------------------------------------------------
Phases == {"stopped", "ending", "idle", "opening", "choosing", "provider", "validate",
           "reserving", "dispatch", "postcondition", "recording", "closing",
           "paused", "recovered"}
Views  == [incident : 0..MaxIncidents, revision : Nat, used : 0..MaxActions]

TypeOK ==
  /\ latest \in 0..MaxIncidents /\ highWater \in 0..MaxTime
  /\ actions \in [Incidents -> Seq(Outcomes)]
  /\ \A i \in Incidents : Len(actions[i]) <= MaxActions
  /\ bound \in [Incidents -> 0..MaxScope] /\ revision \in [Incidents -> Nat \ {0}]
  /\ verdict \in [Incidents -> Verdicts \cup {"open"}]
  /\ openedAt \in [Incidents -> 0..MaxTime] /\ closedAt \in [Incidents -> 0..MaxTime]
  /\ scope \in 0..MaxScope /\ origin \in 0..MaxScope /\ phase \in Phases
  /\ {invalidated, released, dispatched} \subseteq BOOLEAN
  /\ view \in Views /\ action \in 0..MaxActions /\ final \in 0..MaxActions
  /\ next \in {"none", "recovered", "retry", "unknown", "invalidated"}
  /\ command \in [op : {"none", "open", "reserve", "outcome", "close"},
                  outcome : {"none", "unknown"} \cup Known \cup Verdicts]
  /\ reply \in [op : {"none", "open", "reserve", "outcome", "close"},
                result : {"none", "ok", "blocked", "granted", "denied", "stale", "failed"}
                         \cup Verdicts,
                view : Views]
  /\ taps \in [Incidents -> [Slots -> Nat]]

\* An action whose input is in doubt is the last one of the latest incident,
\* and keeps that incident open: nothing is tried after it, on this screen, until
\* its outcome is known (close and rebind_scope refuse an unresolved incident,
\* a new one needs a closed one).
DoubtBlocks ==
  \A i \in Incidents : \A a \in 1..Len(actions[i]) :
    actions[i][a] \in {"unrecorded", "unknown"} =>
      i = latest /\ verdict[i] = "open" /\ a = Len(actions[i])

\* What is on record is what happened: no reservation sends two inputs, none
\* sends without being on record, one recorded as not dispatched sent none and
\* one recorded with an effect or without sent one.  Across crashes, failed
\* commands, the finalizer of close() and the operator.
RecordedTruly ==
  \A i \in Incidents, a \in Slots :
    /\ taps[i][a] <= 1
    /\ taps[i][a] = 1 => a <= Len(actions[i])
    /\ a <= Len(actions[i]) /\ actions[i][a] = "not_dispatched" => taps[i][a] = 0
    /\ a <= Len(actions[i]) /\ actions[i][a] \in {"confirmed", "no_effect"} => taps[i][a] = 1

\* The trials of the abstract record: an action of an incident.
Trials == Incidents \X Slots

OnRecord(t) ==
  IF t[2] <= Len(actions[t[1]]) THEN actions[t[1]][t[2]] ELSE "none"

TrialRecord == INSTANCE InputRecord WITH
  Facts <- {"invalidated"}, said <- [t \in Trials |-> OnRecord(t)],
  sent <- [t \in Trials |-> taps[t[1]][t[2]]]

\* The episodes implement the abstract record: whatever crashed, failed late or
\* was reconciled from outside, an action is reserved while none is in doubt, its
\* input goes out once and before anything is said of it, and what is said of it
\* is true and stays.
ImplementsRecord == TrialRecord!Spec

\* An episode never holds the action lane for ever: it is handed back, or the
\* worker pauses or stops.
LaneIsReturned ==
  phase = "opening" ~> phase \in {"idle", "paused", "recovered", "ending", "stopped"}

=============================================================================
