------------------------------- MODULE Cards --------------------------------
(***************************************************************************)
(* The Cards operations of one account: the durable operations and budget  *)
(* cycles (card_store.py), the journal row a purchase is linked to         *)
(* (card_transactions.py, transactions.py), the visit that taps            *)
(* (card_visit.py) and the scheduler that adopts and recovers visits       *)
(* (card_runtime.py).                                                      *)
(*                                                                         *)
(* Every commit is an action, so the worker may die between any two of     *)
(* them and between the last one and the tap.  The lock of the runtime is  *)
(* `tap`: a purchase, a toggle or a settlement that has begun excludes     *)
(* requests and other scans until it ends.  A tap that was sent reaches    *)
(* the game later, or never.  A read that proves nothing changes nothing   *)
(* and is no action; the planner's answer is a choice where it depends on  *)
(* goals, gates and quotes.  The evidence scope stays current.             *)
(***************************************************************************)
EXTENDS Integers, FiniteSets

CONSTANTS Buys,       \* operations that buy one card
          Applies,    \* operations that apply the loadout
          Start,      \* the cards equipped at first
          Desired,    \* the loadout as the planner resolves it
          Price,      \* gems a card costs
          Cap,        \* the cap of every budget cycle
          MaxOps,     \* bound on the operations submitted
          MaxCycles,  \* bound on the cycles started
          MaxFaults   \* bound on crashes, lost taps and disturbances

ASSUME CardsAssumption ==
  /\ Buys \cap Applies = {}
  /\ IsFiniteSet(Buys) /\ IsFiniteSet(Start) /\ IsFiniteSet(Desired)
  /\ {Price, Cap, MaxOps, MaxCycles, MaxFaults} \subseteq Nat

Ops      == Buys \cup Applies
CardIds  == Start \cup Desired
None     == "none"
Terminal == {"confirmed", "not_applied", "canceled", "blocked"}
Claimed  == {"dispatched", "reconciliation_required"}
Statuses == {None, "queued", "preflight"} \cup Claimed \cup Terminal
Unknown  == -1

ASSUME IdsAreNotNone == None \notin Ops \cup CardIds

VARIABLES
  ops,    \* card_operations: status, cancel_requested, cycle, snapshot_after
  asked,  \* targets of cancel commands still to be finished (durable)
  row,    \* transactions and the debit they book in the ledger, per purchase
  pinned, \* card_assignment_intents: operations whose target is pinned
  steps,  \* the last of card_assignment_steps, per operation
  flow,   \* card_visit_flows, and whether their 120 seconds are over
  cycle,  \* the open budget cycle, 0 before the first
  visit,  \* CardVisit in memory: the operation, its step, its session
  tap,    \* the lock of the runtime: how far the current commits have come
  game    \* the game: page, equipment, purchases, and a tap on its way

vars == <<ops, asked, row, pinned, steps, flow, cycle, visit, tap, game>>
durable == <<ops, asked, row, pinned, steps, flow, cycle>>

NoRow   == [stage |-> None, acted |-> FALSE, spent |-> Unknown, booked |-> FALSE, drift |-> FALSE]
NoStep  == [n |-> 0, before |-> {}, after |-> {}, verified |-> TRUE]
NoFlow  == [begun |-> FALSE, home |-> FALSE, stopped |-> FALSE, continued |-> FALSE, late |-> FALSE]
NoVisit == [op |-> None, step |-> None, fresh |-> FALSE, recovery |-> FALSE]
NoTap   == [pc |-> None, op |-> None]
NoInput == [op |-> None, card |-> None]

Init ==
  /\ ops = [o \in Ops |-> [status |-> None, cancel |-> FALSE, cycle |-> 0, after |-> FALSE]]
  /\ asked = {}
  /\ row = [o \in Buys |-> NoRow]
  /\ pinned = {}
  /\ steps = [o \in Applies |-> NoStep]
  /\ flow = [o \in Ops |-> NoFlow]
  /\ cycle = 0
  /\ visit = NoVisit
  /\ tap = NoTap
  /\ game = [page |-> "home", gear |-> Start, charged |-> {}, input |-> NoInput,
             taps |-> [o \in Buys |-> 0], faults |-> 0]

-----------------------------------------------------------------------------
(* What the store answers.                                                 *)

Is(o, S)   == ops[o].status \in S
Moved(o, status) == [ops EXCEPT ![o].status = status]
Linked(o)  == o \in Buys /\ row[o].stage # None
Stepped(o) == o \in Applies /\ steps[o].n > 0
Unresolved == {o \in Ops : ~Is(o, Terminal \cup {None})}

\* _progressed: money or a claimed input may be in doubt.
Progressed(o) == Linked(o) \/ Is(o, Claimed)

\* Mutant for CardsLetGo: an operation that is over is no longer taken up.
HomesMutant == {o \in Ops : ~Is(o, Terminal) /\ flow[o].begun /\ ~flow[o].home /\ ~flow[o].stopped}

\* pending_home_operations: visits begun that never came home.
Homes == {o \in Ops : flow[o].begun /\ ~flow[o].home /\ ~flow[o].stopped}

\* budget: what is proven spent and, until then, what may have been.
Committed(c) ==
  Price * Cardinality({o \in Buys : ops[o].cycle = c /\ Linked(o) /\ row[o].spent # 0})

-----------------------------------------------------------------------------
(* Requests, each under the lock of the runtime.                           *)

Free == tap.pc = None

Submit(o) ==
  /\ Free
  /\ Is(o, {None})
  /\ Cardinality({p \in Ops : ~Is(p, {None})}) < MaxOps
  /\ o \in Buys => cycle > 0
  /\ ops' = [ops EXCEPT ![o].status = "queued", ![o].cycle = IF o \in Buys THEN cycle ELSE 0]
  /\ UNCHANGED <<asked, row, pinned, steps, flow, cycle, visit, tap, game>>

\* Mutant for CyclesStartClean: only rows still open count.
MoneyInDoubtMutant == \E o \in Buys : Linked(o) /\ row[o].stage # "resolved"

\* start_budget_cycle: refused while any paid operation or any row of the
\* journal may still cost gems.
MoneyInDoubt ==
  \/ \E o \in Buys : o \in Unresolved
  \/ \E o \in Buys : Linked(o) /\ (row[o].stage # "resolved" \/ row[o].spent = Unknown)

StartCycle ==
  /\ Free
  /\ cycle < MaxCycles
  /\ ~MoneyInDoubt
  /\ cycle' = cycle + 1
  /\ UNCHANGED <<ops, asked, row, pinned, steps, flow, visit, tap, game>>

\* submit of a cancel command: the command and its target's mark, together.
Cancel(o) ==
  /\ Free
  /\ o \in Unresolved /\ ~ops[o].cancel
  /\ ops' = [ops EXCEPT ![o].cancel = TRUE]
  /\ asked' = asked \cup {o}
  /\ UNCHANGED <<row, pinned, steps, flow, cycle, visit, tap, game>>

-----------------------------------------------------------------------------
(* Ending visits.                                                          *)

\* CardVisit.cancel: work whose effect is in doubt stays for recovery.
Given(o) == Linked(o) \/ Stepped(o) \/ Is(o, Claimed)

VisitCancelled ==
  LET o == visit.op
  IN  /\ ops' = IF Is(o, Terminal) THEN ops
                ELSE Moved(o, IF Given(o) THEN "reconciliation_required" ELSE "canceled")
      /\ flow' = [flow EXCEPT ![o].stopped = @ \/ flow[o].begun]
      /\ visit' = NoVisit

\* _finish_cancel, in the request or by the next scan.
FinishCancel(o) ==
  /\ Free
  /\ o \in asked
  /\ asked' = asked \ {o}
  /\ IF Is(o, Terminal)
     THEN UNCHANGED <<ops, flow, visit>>
     ELSE IF visit.op = o
     THEN VisitCancelled
     ELSE /\ ops' = Moved(o, IF Progressed(o) THEN "reconciliation_required" ELSE "canceled")
          /\ UNCHANGED <<flow, visit>>
  /\ UNCHANGED <<row, pinned, steps, cycle, tap, game>>

\* A scan finishes the accepted cancellations before anything else.
Scan == Free /\ asked = {}

\* _cancel_stale: the programme changed before anything was dispatched.
CancelStale(o) ==
  /\ Scan
  /\ o \in Unresolved /\ ~Progressed(o)
  /\ IF visit.op = o THEN VisitCancelled
     ELSE ops' = Moved(o, "canceled") /\ UNCHANGED <<flow, visit>>
  /\ UNCHANGED <<asked, row, pinned, steps, cycle, tap, game>>

\* The 120 seconds of the visit, the 10 of a transition, a walk called off;
\* of a session that its first scan has opened.
VisitStopped ==
  /\ Scan
  /\ visit.op # None /\ ~visit.fresh
  /\ VisitCancelled
  /\ UNCHANGED <<asked, row, pinned, steps, cycle, tap, game>>

VisitExpires(o) ==
  /\ o \in Homes /\ ~flow[o].late
  /\ flow' = [flow EXCEPT ![o].late = TRUE]
  /\ UNCHANGED <<ops, asked, row, pinned, steps, cycle, visit, tap, game>>

-----------------------------------------------------------------------------
(* Taking up an operation.                                                 *)

\* CardVisit.request: never beside another operation that is under way, and
\* a flow that was stopped is taken up again.
Adopted(o) ==
  /\ visit.op = None
  /\ \A p \in Unresolved \ {o} : Is(p, {"queued", "preflight"})
  /\ ~flow[o].home
  /\ Is(o, Terminal) => flow[o].begun /\ ~flow[o].stopped
  /\ flow' = [flow EXCEPT ![o].stopped = FALSE,
                          ![o].begun = @ \/ Linked(o) \/ o \in pinned]
  /\ visit' = [op |-> o, step |-> IF Is(o, Terminal) THEN "return" ELSE "enter",
               fresh |-> TRUE, recovery |-> FALSE]
  /\ UNCHANGED <<ops, asked, row, pinned, steps, cycle, tap, game>>

\* What was left under way comes first, in battle and under pause as well.
Recover(o) ==
  /\ Scan
  /\ IF Homes # {} THEN o \in Homes ELSE o \in Unresolved /\ Progressed(o)
  /\ Adopted(o)

Begin(o) ==
  /\ Scan
  /\ Homes = {} /\ \A p \in Unresolved : ~Progressed(p)
  /\ o \in Unresolved
  /\ Adopted(o)

\* _start: the first scan of a session writes the flow, and a session that
\* opens after the deadline of the flow may only read.
Session ==
  /\ Scan
  /\ visit.fresh
  /\ flow' = [flow EXCEPT ![visit.op].begun = TRUE]
  /\ visit' = [visit EXCEPT !.fresh = FALSE, !.recovery = flow[visit.op].late]
  /\ UNCHANGED <<ops, asked, row, pinned, steps, cycle, tap, game>>

\* Any other scan of a visit that is not over: one whose deadline passed in
\* this session, or that may only read what was never paid, is cancelled.
Visiting(o) ==
  /\ Scan
  /\ visit.op = o /\ ~visit.fresh
  /\ visit.recovery \/ ~flow[o].late
  /\ ~(visit.recovery /\ Is(o, {"queued", "preflight"}) /\ ~Linked(o))

Returning(o) == visit.step = "return" \/ Is(o, Terminal)
Working(o)   == Visiting(o) /\ ~Returning(o)
MayTap       == ~visit.recovery

-----------------------------------------------------------------------------
(* The way in and the way home.                                            *)

GoIn(o) ==
  /\ Working(o) /\ MayTap
  /\ ~Linked(o) /\ o \notin pinned
  /\ ~ops[o].cancel
  /\ game.page = "home"
  /\ game' = [game EXCEPT !.page = "cards"]
  /\ UNCHANGED <<durable, visit, tap>>

\* The claim of the continuation is spent once, whatever its tap did.
Continue(o, lands) ==
  /\ Visiting(o) /\ Returning(o) /\ MayTap
  /\ Linked(o) /\ game.page = "rewards"
  /\ ~flow[o].continued
  /\ flow' = [flow EXCEPT ![o].continued = TRUE]
  /\ game' = IF lands THEN [game EXCEPT !.page = "cards"] ELSE game
  /\ UNCHANGED <<ops, asked, row, pinned, steps, cycle, visit, tap>>

GoHome(o) ==
  /\ Visiting(o) /\ Returning(o) /\ MayTap
  /\ game.page = "cards"
  /\ game' = [game EXCEPT !.page = "home"]
  /\ UNCHANGED <<durable, visit, tap>>

Home(o) ==
  /\ Visiting(o) /\ Returning(o)
  /\ game.page = "home" /\ Is(o, Terminal)
  /\ flow' = [flow EXCEPT ![o].home = TRUE, ![o].stopped = FALSE]
  /\ visit' = NoVisit
  /\ UNCHANGED <<ops, asked, row, pinned, steps, cycle, tap, game>>

-----------------------------------------------------------------------------
(* On the Cards page, before anything is claimed.                          *)

Planning(o) ==
  /\ Working(o)
  /\ game.page = "cards"
  /\ ~Linked(o) /\ o \notin pinned

Preflight(o) ==
  /\ Planning(o) /\ Is(o, {"queued"})
  /\ ops' = Moved(o, "preflight")
  /\ UNCHANGED <<asked, row, pinned, steps, flow, cycle, visit, tap, game>>

Concluded(o, status) ==
  /\ ops' = Moved(o, status)
  /\ visit' = [visit EXCEPT !.step = "return"]
  /\ UNCHANGED <<asked, row, pinned, steps, flow, cycle, tap, game>>

PlannerBlocks(o) ==
  /\ Planning(o) /\ Is(o, {"preflight"})
  /\ Concluded(o, "blocked")

\* decision "done": the goals are met, or the loadout is already equipped.
PlannerIsDone(o) ==
  /\ Planning(o) /\ Is(o, {"preflight"})
  /\ o \in Applies => game.gear = Desired
  /\ Concluded(o, IF o \in Buys THEN "not_applied" ELSE "confirmed")

Pin(o) ==
  /\ Planning(o) /\ Is(o, {"preflight"})
  /\ o \in Applies /\ game.gear # Desired
  /\ pinned' = pinned \cup {o}
  /\ UNCHANGED <<ops, asked, row, steps, flow, cycle, visit, tap, game>>

-----------------------------------------------------------------------------
(* A paid tap: prepare, record, dispatch, tap.                             *)

\* Mutant for CapHolds: the price of the card at hand is left out.
MayPrepareMutant(o) ==
  /\ ~ops[o].cancel
  /\ \A p \in Unresolved \ {o} : Is(p, {"queued"}) \/ (Is(p, {"preflight"}) /\ ~Linked(p))
  /\ Committed(ops[o].cycle) <= Cap
  /\ \A p \in Buys : row[p].stage \notin {"intended", "acted"}

\* CardBudgetPrecondition.check, and the journal's own single open row.
MayPrepare(o) ==
  /\ ~ops[o].cancel
  /\ \A p \in Unresolved \ {o} : Is(p, {"queued"}) \/ (Is(p, {"preflight"}) /\ ~Linked(p))
  /\ Committed(ops[o].cycle) + Price <= Cap
  /\ \A p \in Buys : row[p].stage \notin {"intended", "acted"}

Prepare(o) ==
  /\ Planning(o) /\ MayTap
  /\ o \in Buys /\ Is(o, {"preflight"})
  /\ MayPrepare(o)
  /\ row' = [row EXCEPT ![o].stage = "intended"]
  /\ tap' = [pc |-> "prepared", op |-> o]
  /\ UNCHANGED <<ops, asked, pinned, steps, flow, cycle, visit, game>>

RecordAction(o) ==
  /\ tap = [pc |-> "prepared", op |-> o]
  /\ ~ops[o].cancel
  /\ row' = [row EXCEPT ![o].stage = "acted", ![o].acted = TRUE]
  /\ tap' = [tap EXCEPT !.pc = "acted"]
  /\ UNCHANGED <<ops, asked, pinned, steps, flow, cycle, visit, game>>

Dispatch(o) ==
  /\ tap = [pc |-> "acted", op |-> o]
  /\ ops' = Moved(o, "dispatched")
  /\ tap' = [tap EXCEPT !.pc = "dispatched"]
  /\ UNCHANGED <<asked, row, pinned, steps, flow, cycle, visit, game>>

PayTap(o) ==
  /\ tap = [pc |-> "dispatched", op |-> o]
  /\ game' = [game EXCEPT !.input = [op |-> o, card |-> None], !.taps[o] = @ + 1]
  /\ tap' = NoTap
  /\ UNCHANGED <<durable, visit>>

\* A gate closed after the status, or a commit before it failed: nothing is
\* tapped.  Requests wait for the lock, so no cancellation comes between.
DispatchFails ==
  /\ tap.pc \in {"prepared", "acted", "dispatched"}
  /\ VisitCancelled
  /\ tap' = NoTap
  /\ UNCHANGED <<asked, row, pinned, steps, cycle, game>>

-----------------------------------------------------------------------------
(* Settling a paid tap on its receipt.                                     *)

\* Mutant for ReceiptSettles: what was handed to recovery is not settled.
SettleMutant(o) ==
  /\ Working(o) /\ Is(o, {"dispatched"})
  /\ Linked(o) /\ game.page = "rewards"
  /\ ~(row[o].spent # Unknown /\ row[o].drift)
  /\ row' = IF row[o].stage = "acted" /\ ~row[o].drift
            THEN [row EXCEPT ![o].stage = "resolved", ![o].spent = Price, ![o].booked = TRUE]
            ELSE row
  /\ tap' = [pc |-> "settled", op |-> o]
  /\ UNCHANGED <<ops, asked, pinned, steps, flow, cycle, visit, game>>

\* Mutant for ImplementsGate: the receipt books a row that is settled already.
SettleTwice(o) ==
  /\ Working(o)
  /\ Linked(o) /\ game.page = "rewards"
  /\ ~(row[o].spent # Unknown /\ row[o].drift)
  /\ row' = IF ~row[o].drift
            THEN [row EXCEPT ![o].stage = "resolved", ![o].spent = Price, ![o].booked = TRUE]
            ELSE row
  /\ tap' = [pc |-> "settled", op |-> o]
  /\ UNCHANGED <<ops, asked, pinned, steps, flow, cycle, visit, game>>

\* Only a receipt whose wallet fell by exactly the price proves the buy; a
\* settled row whose wallet has moved since is refused before any write.
Settle(o) ==
  /\ Working(o)
  /\ Linked(o) /\ game.page = "rewards"
  /\ ~(row[o].spent # Unknown /\ row[o].drift)
  /\ row' = IF row[o].stage = "acted" /\ ~row[o].drift
            THEN [row EXCEPT ![o].stage = "resolved", ![o].spent = Price, ![o].booked = TRUE]
            ELSE row
  /\ tap' = [pc |-> "settled", op |-> o]
  /\ UNCHANGED <<ops, asked, pinned, steps, flow, cycle, visit, game>>

\* Mutant for BookedTruly: a resolved row is taken for a proven one.
FinalizeMutant(o) ==
  /\ tap = [pc |-> "settled", op |-> o]
  /\ ops' = Moved(o, "confirmed")
  /\ visit' = [visit EXCEPT !.step = "return"]
  /\ tap' = NoTap
  /\ UNCHANGED <<asked, row, pinned, steps, flow, cycle, game>>

\* The operation's own status is a commit of its own.
Finalize(o) ==
  /\ tap = [pc |-> "settled", op |-> o]
  /\ IF row[o].spent # Unknown
     THEN /\ ops' = Moved(o, "confirmed")
          /\ visit' = [visit EXCEPT !.step = "return"]
     ELSE /\ ops' = Moved(o, "reconciliation_required")
          /\ UNCHANGED visit
  /\ tap' = NoTap
  /\ UNCHANGED <<asked, row, pinned, steps, flow, cycle, game>>

\* operator_reconcile, from another process and under no lock of this one.
\* Ten minutes, or the worker's end, stand between it and the row's own tap,
\* which is taken to be over by then; what was not charged is known by
\* looking, what is unproven stays unknown.
OperatorSettles(o, verdict) ==
  /\ game.input.op # o
  /\ ~(tap.op = o /\ tap.pc \in {"prepared", "acted", "dispatched"})
  /\ row[o].stage \in {"intended", "acted"}
  /\ verdict = "not_charged" => o \notin game.charged
  /\ row' = [row EXCEPT ![o].stage = "resolved",
                        ![o].spent = IF verdict = "not_charged" THEN 0 ELSE Unknown]
  /\ UNCHANGED <<ops, asked, pinned, steps, flow, cycle, visit, tap, game>>

-----------------------------------------------------------------------------
(* Equipment: one claimed toggle at a time.                                *)

Assigning(o) ==
  /\ Working(o)
  /\ o \in pinned /\ game.page = "cards"

\* The effect of the last claim is seen.
Verify(o) ==
  /\ Assigning(o)
  /\ ~steps[o].verified /\ game.gear = steps[o].after
  /\ steps' = [steps EXCEPT ![o].verified = TRUE]
  /\ UNCHANGED <<ops, asked, row, pinned, flow, cycle, visit, tap, game>>

\* Remove what is not wanted first, then add.
Target(card) ==
  IF game.gear \subseteq Desired THEN card \in Desired \ game.gear ELSE card \in game.gear \ Desired

Toggled(card) == IF card \in game.gear THEN game.gear \ {card} ELSE game.gear \cup {card}

\* The next toggle of a loadout under way: not beside other work.
Toggling(o) ==
  /\ Assigning(o) /\ MayTap
  /\ \A p \in Unresolved \ {o} : Is(p, {"queued"})

\* The first toggle is preceded by the status, which is a commit of its own.
DispatchToggle(o) ==
  /\ Toggling(o) /\ Is(o, {"preflight"})
  /\ ~ops[o].cancel
  /\ game.gear # Desired
  /\ ops' = Moved(o, "dispatched")
  /\ tap' = [pc |-> "marked", op |-> o]
  /\ UNCHANGED <<asked, row, pinned, steps, flow, cycle, visit, game>>

\* Straight after the status, or of what an earlier visit had dispatched.
MayClaim(o) == tap = [pc |-> "marked", op |-> o] \/ (Toggling(o) /\ Is(o, Claimed))

Claims(o, card) ==
  /\ Target(card)
  /\ steps' = [steps EXCEPT ![o] = [n |-> IF @.n < 2 THEN @.n + 1 ELSE @.n, before |-> game.gear,
                                    after |-> Toggled(card), verified |-> FALSE]]
  /\ tap' = [pc |-> IF tap.pc = "marked" THEN "claimed" ELSE "claimed again", op |-> o]
  /\ UNCHANGED <<ops, asked, row, pinned, flow, cycle, visit, game>>

\* Mutant for CanceledTakesNoInput: a cancellation only stops what was not
\* begun.
ClaimToggleCancelled(o, card) ==
  /\ MayClaim(o)
  /\ steps[o].verified /\ (Stepped(o) => steps[o].after = game.gear)
  /\ Claims(o, card)

\* Mutant for ToggleLandsAsClaimed: the next toggle does not wait for the
\* effect of the last.
ClaimToggleBlind(o, card) ==
  /\ MayClaim(o)
  /\ ~ops[o].cancel
  /\ Claims(o, card)

\* _claim_toggle: one at a time, on the equipment the last one left.
ClaimToggle(o, card) ==
  /\ MayClaim(o)
  /\ ~ops[o].cancel
  /\ steps[o].verified /\ (Stepped(o) => steps[o].after = game.gear)
  /\ Claims(o, card)

ToggleTap(o) ==
  /\ tap.pc \in {"claimed", "claimed again"} /\ tap.op = o
  /\ \E card \in (steps[o].before \ steps[o].after) \cup (steps[o].after \ steps[o].before) :
       game' = [game EXCEPT !.input = [op |-> o, card |-> card]]
  /\ tap' = NoTap
  /\ UNCHANGED <<durable, visit>>

\* The claim or the final gate refuses: only a first toggle ends the visit.
ToggleRefused ==
  /\ tap.pc \in {"marked", "claimed", "claimed again"}
  /\ IF tap.pc # "claimed again" THEN VisitCancelled ELSE UNCHANGED <<ops, flow, visit>>
  /\ tap' = NoTap
  /\ UNCHANGED <<asked, row, pinned, steps, cycle, game>>

\* The snapshot that proves the end is a commit before the status.  One
\* that was kept by an earlier attempt is immutable: only a cancellation
\* goes on with it.
Reached(o) == Assigning(o) /\ steps[o].verified /\ (ops[o].cancel \/ game.gear = Desired)

KeepProof(o) ==
  /\ Reached(o)
  /\ ~ops[o].after \/ ops[o].cancel
  /\ ops' = [ops EXCEPT ![o].after = TRUE]
  /\ tap' = [pc |-> "proved", op |-> o]
  /\ UNCHANGED <<asked, row, pinned, steps, flow, cycle, visit, game>>

Applied(o) ==
  /\ tap = [pc |-> "proved", op |-> o]
  /\ ops' = Moved(o, IF ops[o].cancel THEN "canceled" ELSE "confirmed")
  /\ visit' = [visit EXCEPT !.step = "return"]
  /\ tap' = NoTap
  /\ UNCHANGED <<asked, row, pinned, steps, flow, cycle, game>>

-----------------------------------------------------------------------------
(* The game, and what goes wrong.                                          *)

Faulty == game.faults < MaxFaults

\* The tap reaches the page it was meant for.
InputLands ==
  /\ game.input # NoInput /\ game.page = "cards"
  /\ game' = IF game.input.card = None
             THEN [game EXCEPT !.page = "rewards", !.input = NoInput, !.charged = @ \cup {game.input.op}]
             ELSE [game EXCEPT !.gear = Toggled(game.input.card), !.input = NoInput]
  /\ UNCHANGED <<durable, visit, tap>>

InputLost ==
  /\ game.input # NoInput
  /\ Faulty \/ game.page # "cards"
  /\ game' = [game EXCEPT !.input = NoInput, !.faults = IF game.page = "cards" THEN @ + 1 ELSE @]
  /\ UNCHANGED <<durable, visit, tap>>

\* The game is restarted, or a hand opens or leaves the page.
PageTurns(page) ==
  /\ Faulty /\ game.page # page
  /\ game' = [game EXCEPT !.page = page, !.faults = @ + 1]
  /\ UNCHANGED <<durable, visit, tap>>

\* Gems come in beside an open purchase.
Income(o) ==
  /\ Faulty
  /\ Linked(o) /\ ~row[o].drift /\ ~Is(o, Terminal)
  /\ row' = [row EXCEPT ![o].drift = TRUE]
  /\ game' = [game EXCEPT !.faults = @ + 1]
  /\ UNCHANGED <<ops, asked, pinned, steps, flow, cycle, visit, tap>>

\* The worker dies and is started again; the game lives on.
Crash ==
  /\ Faulty
  /\ visit' = NoVisit
  /\ tap' = NoTap
  /\ game' = [game EXCEPT !.faults = @ + 1]
  /\ UNCHANGED durable

-----------------------------------------------------------------------------
Requests ==
  \/ \E o \in Ops : Submit(o) \/ Cancel(o)
  \/ StartCycle
  \/ \E o \in Buys, verdict \in {"not_charged", "unproven"} : OperatorSettles(o, verdict)

Scheduling ==
  \/ \E o \in Ops : FinishCancel(o) \/ CancelStale(o) \/ Recover(o) \/ Begin(o)
  \/ VisitStopped \/ Session

Walking ==
  \/ \E o \in Ops : GoIn(o) \/ GoHome(o) \/ Home(o) \/ Preflight(o) \/ PlannerBlocks(o) \/ PlannerIsDone(o)
  \/ \E o \in Buys, lands \in BOOLEAN : Continue(o, lands)

Paying ==
  \/ \E o \in Buys : Prepare(o) \/ RecordAction(o) \/ Dispatch(o) \/ PayTap(o) \/ Settle(o) \/ Finalize(o)
  \/ DispatchFails

Equipping ==
  \/ \E o \in Applies : Pin(o) \/ Verify(o) \/ DispatchToggle(o) \/ ToggleTap(o) \/ KeepProof(o) \/ Applied(o)
  \/ \E o \in Applies, card \in CardIds : ClaimToggle(o, card)
  \/ ToggleRefused

Environment ==
  \/ \E o \in Ops : VisitExpires(o)
  \/ InputLands \/ InputLost \/ Crash
  \/ \E page \in {"home", "cards"} : PageTurns(page)
  \/ \E o \in Buys : Income(o)

Next == Requests \/ Scheduling \/ Walking \/ Paying \/ Equipping \/ Environment

Spec == Init /\ [][Next]_vars

Scanning   == Session \/ \E o \in Ops : FinishCancel(o) \/ Recover(o)
Looking    == (\E o \in Buys : Settle(o)) \/ (\E o \in Applies : Verify(o) \/ KeepProof(o))
Committing == (\E o \in Buys : Finalize(o)) \/ (\E o \in Applies : Applied(o)) \/ DispatchFails \/ ToggleRefused

\* Scans go on: they finish what was cancelled, take up what was left and
\* time sessions out; what a session can read is not missed by every one of
\* them for ever; and what was begun under the lock comes to its end.
FairSpec ==
  Spec /\ WF_vars(Scanning) /\ WF_vars(VisitStopped) /\ SF_vars(Looking) /\ WF_vars(Committing)

-----------------------------------------------------------------------------
(* What must hold.                                                         *)

\* Types of the durable rows, the memory of the worker and the game.
TypeOK ==
  /\ ops \in [Ops -> [status : Statuses, cancel : BOOLEAN, cycle : 0..MaxCycles, after : BOOLEAN]]
  /\ asked \subseteq Ops /\ pinned \subseteq Applies
  /\ row \in [Buys -> [stage : {None, "intended", "acted", "resolved"}, acted : BOOLEAN,
                       spent : {Unknown, 0, Price}, booked : BOOLEAN, drift : BOOLEAN]]
  /\ steps \in [Applies -> [n : 0..2, before : SUBSET CardIds, after : SUBSET CardIds, verified : BOOLEAN]]
  /\ flow \in [Ops -> [begun : BOOLEAN, home : BOOLEAN, stopped : BOOLEAN, continued : BOOLEAN, late : BOOLEAN]]
  /\ cycle \in 0..MaxCycles
  /\ visit.op \in Ops \cup {None} /\ visit.step \in {None, "enter", "return"}
  /\ tap.op \in Ops \cup {None}
  /\ game.page \in {"home", "cards", "rewards"} /\ game.gear \subseteq CardIds /\ game.charged \subseteq Buys

\* Whatever crashed, was lost or was decided by the operator, the gems that
\* left the account, or still may, for the purchases of one cycle stay
\* within its cap (card_transactions.py, CardBudgetPrecondition.check).
CapHolds ==
  \A c \in 1..MaxCycles :
    Price * Cardinality({o \in Buys : ops[o].cycle = c /\ (o \in game.charged \/ game.input.op = o)}) <= Cap

\* Allowance is renewed only when every gem of the earlier cycles is
\* accounted for: nothing is on its way to the game, and what the game took
\* is in the ledger (card_store.py, start_budget_cycle).
CyclesStartClean ==
  [][cycle' # cycle => game.input.op \notin Buys /\ \A o \in game.charged : row[o].booked]_vars

\* A purchase that is over has the outcome the game saw: confirmed ones
\* were charged and booked, the others never were and never will be
\* (card_store.py, transition).
BookedTruly ==
  \A o \in Buys :
    /\ Is(o, {"confirmed"}) => o \in game.charged /\ row[o].booked /\ row[o].spent = Price
    /\ Is(o, Terminal \ {"confirmed"}) => o \notin game.charged /\ game.input.op # o

\* From its acceptance on, a cancellation lets no further purchase or toggle
\* of its target be sent, across crashes (card_visit.py, cancellation_blocks).
CanceledTakesNoInput ==
  [][\A o \in Ops : ops[o].cancel /\ game'.input.op = o => game.input.op = o]_vars

\* A toggle that reaches the game has the effect its claim recorded, however
\* late: no second one is sent blindly on top of it (card_visit.py,
\* _claim_toggle).
ToggleLandsAsClaimed ==
  [][game'.gear # game.gear => game'.gear = steps[game.input.op].after]_vars

\* With a status of their own beside their rows, the card purchases still
\* keep what the journal promises: one open row at a time, one tap while it is
\* open, settled once, and booked then or never (card_transactions.py,
\* card_visit.py, _tap_view).
OpenRows == {o \in Buys : row[o].stage \in {"intended", "acted"}}
OpenRow  == IF OpenRows = {} THEN None ELSE CHOOSE o \in OpenRows : TRUE
Settled  == {o \in Buys : row[o].stage = "resolved"}

Gate == INSTANCE SpendGate WITH
  Keys <- Buys, Price <- [o \in Buys |-> Price], Left <- {}, Nobody <- None,
  inside <- OpenRow, done <- Settled, taps <- game.taps,
  books <- [o \in Buys |-> IF row[o].booked THEN Price ELSE 0]

ImplementsGate == Gate!Spec

\* Finished work does not hold the menus: again and again every visit whose
\* operation is over has come home or was given up, and neither is undone
\* (card_runtime.py, pending_home_operations).
CardsLetGo ==
  []<>(\A o \in Ops : Is(o, Terminal) /\ flow[o].begun => flow[o].home \/ flow[o].stopped)

\* A receipt that stays on the page is settled, also by the worker that
\* comes after a crash, unless other gems came in meanwhile
\* (card_transactions.py, reconcile_card_operation).
ReceiptWaits ==
  \E o \in Buys : o \in game.charged /\ game.page = "rewards" /\ row[o].stage = "acted" /\ ~row[o].drift

ReceiptSettles == []<>~ReceiptWaits

\* Violated: equipment that is as desired, every toggle verified, makes the
\* operation final also after an interruption (card_visit.py, _assignment).
VerifiedAssignmentIsFinished ==
  \A o \in Applies :
    (o \in pinned /\ ops[o].after) ~> (Is(o, Terminal) \/ game.gear # Desired \/ game.page # "cards")
=============================================================================
