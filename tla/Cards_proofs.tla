---------------------------- MODULE Cards_proofs ----------------------------
(***************************************************************************)
(* The safety of the card purchases and of the loadout, for any number of  *)
(* operations, cards, cycles and faults, and any price and cap.            *)
(***************************************************************************)
EXTENDS Cards, FiniteSetTheorems, TLAPS

OpRows   == [status : Statuses, cancel : BOOLEAN, cycle : 0..MaxCycles, after : BOOLEAN]
BuyRows  == [stage : {None, "intended", "acted", "resolved"}, acted : BOOLEAN,
             spent : {Unknown, 0, Price}, booked : BOOLEAN, drift : BOOLEAN]
StepRows == [n : 0..2, before : SUBSET CardIds, after : SUBSET CardIds, verified : BOOLEAN]
FlowRows == [begun : BOOLEAN, home : BOOLEAN, stopped : BOOLEAN, continued : BOOLEAN, late : BOOLEAN]
Charging == {"prepared", "acted", "dispatched"}
Claiming == {"claimed", "claimed again"}
Toggles  == {"marked"} \cup Claiming
Inputs   == {NoInput} \cup [op : Buys, card : {None}] \cup [op : Applies, card : CardIds]
Games    == [page : {"home", "cards", "rewards"}, gear : SUBSET CardIds, charged : SUBSET Buys,
             input : Inputs, taps : [Buys -> Nat], faults : Nat]
Visits   == [op : Ops \cup {None}, step : {None, "enter", "return"}, fresh : BOOLEAN, recovery : BOOLEAN]
TapRows  == [pc : {None, "settled", "proved"} \cup Charging \cup Toggles, op : Ops \cup {None}]

OpsType   == ops \in [Ops -> OpRows]
RowType   == row \in [Buys -> BuyRows]
StepType  == steps \in [Applies -> StepRows]
FlowType  == flow \in [Ops -> FlowRows]
VisitType == visit \in Visits /\ (visit.op = None => ~visit.fresh)
TapType   == tap \in TapRows
GameType  == game \in Games
RestType  == asked \subseteq Ops /\ pinned \subseteq Applies /\ cycle \in 0..MaxCycles

Types == OpsType /\ RowType /\ StepType /\ FlowType /\ VisitType /\ TapType /\ GameType /\ RestType

LEMMA TypeParts == Types => TypeOK
BY DEF Types, OpsType, RowType, StepType, FlowType, VisitType, TapType, GameType, RestType, TypeOK,
  OpRows, BuyRows, StepRows, FlowRows, Games, Visits, TapRows

\* A purchase whose money may be on its way.
InPlay(o) == Linked(o) /\ o \in Unresolved

\* A row of the journal belongs to an operation that was taken up; one that is
\* over and has a row was confirmed on a settled row; one purchase is in play.
RowInv ==
  \A o \in Buys :
    /\ Linked(o) => ~Is(o, {None, "queued"})
    /\ row[o].stage # "resolved" => row[o].spent = Unknown
    /\ Is(o, Terminal) /\ Linked(o) => Is(o, {"confirmed"}) /\ row[o].stage = "resolved"
    /\ \A p \in Buys : InPlay(o) /\ InPlay(p) => o = p

\* What the game took has a row that does not deny it; a tap on its way has an
\* open one; the rewards on the screen are those of the purchase in play.
ChargeInv ==
  \A o \in Buys :
    /\ o \in game.charged =>
         /\ row[o].stage \in {"acted", "resolved"}
         /\ row[o].spent = Unknown \/ (row[o].spent = Price /\ row[o].booked)
    /\ game.input.op = o => row[o].stage = "acted"
    /\ game.page = "rewards" => game.input.op # o /\ (InPlay(o) => o \in game.charged)

\* What the lock of the runtime holds still while it is taken.
TapInv ==
  /\ tap.pc # None => visit.op = tap.op /\ tap.op \in Unresolved
  /\ tap.pc \in Charging =>
       /\ tap.op \in Buys /\ ~ops[tap.op].cancel
       /\ game.input.op \notin Buys /\ game.page # "rewards"
       /\ row[tap.op].stage = IF tap.pc = "prepared" THEN "intended" ELSE "acted"
  /\ tap.pc = "settled" => tap.op \in game.charged
  /\ tap.pc \in Toggles =>
       /\ tap.op \in Applies \cap pinned /\ ~ops[tap.op].cancel /\ Is(tap.op, Claimed)
       /\ game.input.op \notin Applies
  /\ tap.pc = "marked" => steps[tap.op].verified
  /\ tap.pc \in Claiming =>
       /\ steps[tap.op].before = game.gear /\ ~steps[tap.op].verified
       /\ Stepped(tap.op)
  /\ tap.pc = "proved" => tap.op \in Applies /\ steps[tap.op].verified

\* The loadout b with one card toggled.
Flipped(b, c) == IF c \in b THEN b \ {c} ELSE b \cup {c}

\* A claimed step is one toggle of an operation under way, it is verified
\* before the operation is over, and a toggle on its way has the effect that
\* the claim recorded.
StepInv ==
  \A o \in Applies :
    /\ o \in pinned => ~Is(o, {None, "queued"})
    /\ Stepped(o) =>
         /\ o \in pinned /\ Is(o, Claimed \cup Terminal)
         /\ Is(o, Terminal) => steps[o].verified
         /\ \E c \in CardIds : steps[o].after = Flipped(steps[o].before, c)
    /\ ~Stepped(o) => steps[o].verified
    /\ game.input.op = o =>
         /\ ~steps[o].verified /\ steps[o].before = game.gear
         /\ Toggled(game.input.card) = steps[o].after

CapInv == \A c \in 0..MaxCycles : Committed(c) <= Cap

Money == RowInv /\ ChargeInv /\ BookedTruly
IInv  == Types /\ Money /\ TapInv /\ StepInv /\ CapInv
-----------------------------------------------------------------------------
(* The records.                                                            *)

LEMMA IdFacts ==
  /\ None \notin Ops /\ None \notin CardIds /\ \A o \in Buys : o \notin Applies
  /\ Buys \subseteq Ops /\ Applies \subseteq Ops
BY IdsAreNotNone, CardsAssumption DEF Ops

LEMMA MovedOps ==
  ASSUME OpsType, NEW o \in Ops, NEW s \in Statuses
  PROVE  /\ Moved(o, s) \in [Ops -> OpRows]
         /\ \A p \in Ops : p # o => Moved(o, s)[p] = ops[p]
         /\ Moved(o, s)[o].status = s /\ Moved(o, s)[o].cycle = ops[o].cycle
         /\ Moved(o, s)[o].cancel = ops[o].cancel /\ Moved(o, s)[o].after = ops[o].after
BY DEF OpsType, OpRows, Moved

\* The end of a visit, of an operation that is not over: canceled if nothing
\* of it can be in doubt.
LEMMA CancelledFacts ==
  ASSUME Types, VisitCancelled, visit.op \in Ops
  PROVE  /\ \/ ops' = ops
            \/ /\ ~Is(visit.op, Terminal) /\ Given(visit.op)
               /\ ops' = Moved(visit.op, "reconciliation_required")
            \/ /\ ~Is(visit.op, Terminal) /\ ~Given(visit.op)
               /\ ops' = Moved(visit.op, "canceled")
         /\ OpsType' /\ FlowType' /\ VisitType' /\ visit' = NoVisit
<1> DEFINE o == visit.op
           stops == flow[o].stopped \/ flow[o].begun
<1>1. /\ \/ ops' = ops
         \/ ~Is(o, Terminal) /\ Given(o) /\ ops' = Moved(o, "reconciliation_required")
         \/ ~Is(o, Terminal) /\ ~Given(o) /\ ops' = Moved(o, "canceled")
      /\ visit' = NoVisit
  BY Zenon DEF VisitCancelled
<1>2. flow' = [flow EXCEPT ![o].stopped = stops]
  BY DEF VisitCancelled
<1>3. stops \in BOOLEAN
  OBVIOUS
<1> HIDE DEF stops
<1>4. FlowType'
  BY <1>2, <1>3 DEF Types, FlowType, FlowRows
<1>5. {"reconciliation_required", "canceled"} \subseteq Statuses
  BY DEF Statuses, Claimed, Terminal
<1>6. OpsType'
  BY <1>1, <1>5, MovedOps DEF Types, OpsType
<1>7. VisitType'
  BY <1>1 DEF VisitType, Visits, NoVisit
<1>8. QED
  BY <1>1, <1>4, <1>6, <1>7
-----------------------------------------------------------------------------
(* The kinds of steps.                                                     *)

\* A step that commits nothing of an operation: the walk, the sessions, a page
\* that turns, a lost tap, a crash.
Wanders ==
  /\ Types'
  /\ UNCHANGED <<ops, row, pinned, steps>>
  /\ tap'.pc = None \/ (tap' = tap /\ visit'.op = visit.op)
  /\ game'.charged = game.charged /\ game'.gear = game.gear
  /\ game'.input = game.input \/ game'.input = NoInput
  /\ game'.page = game.page \/ game'.page # "rewards"

\* What must be so when an operation ends in a status.
MayEnd(o, s) ==
  /\ o \in Buys => IF s = "confirmed"
                   THEN /\ row[o].stage = "resolved" /\ row[o].spent = Price /\ row[o].booked
                        /\ o \in game.charged
                   ELSE ~Linked(o)
  /\ o \in Applies /\ Stepped(o) => steps[o].verified

\* A commit of one operation's own row.
Marks(o, s) ==
  /\ Types'
  /\ UNCHANGED <<row, pinned, steps, game>>
  /\ o \in Ops /\ ~Is(o, Terminal)
  /\ \A p \in Ops : p # o => ops'[p] = ops[p]
  /\ ops'[o].status = s
  /\ ops'[o].cycle = ops[o].cycle \/ ~Linked(o)
  /\ s \in {None, "queued"} => Is(o, {None, s})
  /\ Stepped(o) => s \in Claimed \cup Terminal
  /\ s \in Terminal => MayEnd(o, s)

\* The same, with the lock of the runtime free afterwards.
Ends(o) == \E s \in Statuses : Marks(o, s) /\ tap'.pc = None

LEMMA VisitStep ==
  ASSUME Types, UNCHANGED <<ops, asked, row, pinned, steps, cycle, tap, game>>,
         FlowType', VisitType'
  PROVE  Types'
BY DEF Types, OpsType, RowType, StepType, TapType, GameType, RestType

LEMMA FlowEdit ==
  ASSUME Types, NEW o \in Ops, NEW f \in FlowRows, flow' = [flow EXCEPT ![o] = f]
  PROVE  FlowType'
BY DEF Types, FlowType

LEMMA AdoptedWanders ==
  ASSUME Types, NEW o \in Ops, Free, Adopted(o)
  PROVE  Wanders
<1> DEFINE begins == flow[o].begun \/ Linked(o) \/ o \in pinned
           f == [flow[o] EXCEPT !.stopped = FALSE, !.begun = begins]
           t == IF Is(o, Terminal) THEN "return" ELSE "enter"
<1>1. /\ flow' = [flow EXCEPT ![o].stopped = FALSE, ![o].begun = begins]
      /\ visit' = [op |-> o, step |-> t, fresh |-> TRUE, recovery |-> FALSE]
      /\ UNCHANGED <<ops, asked, row, pinned, steps, cycle, tap, game>>
  BY DEF Adopted
<1>2. begins \in BOOLEAN /\ t \in {None, "enter", "return"}
  OBVIOUS
<1> HIDE DEF begins, t
<1>3. f \in FlowRows /\ flow' = [flow EXCEPT ![o] = f]
  BY <1>1, <1>2 DEF Types, FlowType, FlowRows
<1> HIDE DEF f
<1>4. FlowType'
  BY <1>3, FlowEdit
<1>5. VisitType'
  BY <1>1, <1>2, IdFacts DEF VisitType, Visits
<1>6. QED
  BY <1>1, <1>4, <1>5, VisitStep DEF Wanders, Free

LEMMA SessionWanders ==
  ASSUME Types, Session
  PROVE  Wanders
<1> DEFINE o == visit.op
           f == [flow[o] EXCEPT !.begun = TRUE]
<1>1. /\ Free /\ visit.fresh
      /\ flow' = [flow EXCEPT ![o].begun = TRUE]
      /\ visit' = [visit EXCEPT !.fresh = FALSE, !.recovery = flow[o].late]
      /\ UNCHANGED <<ops, asked, row, pinned, steps, cycle, tap, game>>
  BY Zenon DEF Session, Scan
<1>2. o \in Ops
  BY <1>1 DEF Types, VisitType, Visits
<1>3. f \in FlowRows /\ flow' = [flow EXCEPT ![o] = f] /\ flow[o].late \in BOOLEAN
  BY <1>1, <1>2 DEF Types, FlowType, FlowRows
<1> HIDE DEF f
<1>4. FlowType'
  BY <1>2, <1>3, FlowEdit
<1>5. VisitType'
  BY <1>1, <1>3 DEF VisitType, Visits, Types
<1>6. QED
  BY <1>1, <1>4, <1>5, VisitStep DEF Wanders, Free

LEMMA HomeWanders ==
  ASSUME Types, NEW o \in Ops, Home(o)
  PROVE  Wanders
<1> DEFINE f == [flow[o] EXCEPT !.home = TRUE, !.stopped = FALSE]
<1>1. /\ Free
      /\ flow' = [flow EXCEPT ![o].home = TRUE, ![o].stopped = FALSE] /\ visit' = NoVisit
      /\ UNCHANGED <<ops, asked, row, pinned, steps, cycle, tap, game>>
  BY Zenon DEF Home, Visiting, Scan
<1>3. f \in FlowRows /\ flow' = [flow EXCEPT ![o] = f]
  BY <1>1 DEF Types, FlowType, FlowRows
<1> HIDE DEF f
<1>4. FlowType'
  BY <1>3, FlowEdit
<1>5. VisitType'
  BY <1>1 DEF VisitType, Visits, NoVisit
<1>6. QED
  BY <1>1, <1>4, <1>5, VisitStep DEF Wanders, Free

LEMMA ExpiresWanders ==
  ASSUME Types, NEW o \in Ops, VisitExpires(o)
  PROVE  Wanders
<1> DEFINE f == [flow[o] EXCEPT !.late = TRUE]
<1>1. /\ flow' = [flow EXCEPT ![o].late = TRUE]
      /\ UNCHANGED <<ops, asked, row, pinned, steps, cycle, visit, tap, game>>
  BY Zenon DEF VisitExpires
<1>3. f \in FlowRows /\ flow' = [flow EXCEPT ![o] = f]
  BY <1>1 DEF Types, FlowType, FlowRows
<1> HIDE DEF f
<1>4. FlowType'
  BY <1>3, FlowEdit
<1>5. VisitType'
  BY <1>1 DEF VisitType, Types
<1>6. QED
  BY <1>1, <1>4, <1>5, VisitStep DEF Wanders

LEMMA ContinueWanders ==
  ASSUME Types, NEW o \in Buys, NEW lands \in BOOLEAN, Continue(o, lands)
  PROVE  Wanders
<1> DEFINE f == [flow[o] EXCEPT !.continued = TRUE]
<1>1. /\ flow' = [flow EXCEPT ![o].continued = TRUE]
      /\ game' = (IF lands THEN [game EXCEPT !.page = "cards"] ELSE game)
      /\ UNCHANGED <<ops, asked, row, pinned, steps, cycle, visit, tap>>
  BY Zenon DEF Continue
<1>2. o \in Ops
  BY IdFacts
<1>3. f \in FlowRows /\ flow' = [flow EXCEPT ![o] = f]
  BY <1>1, <1>2 DEF Types, FlowType, FlowRows
<1> HIDE DEF f
<1>4. FlowType'
  BY <1>2, <1>3, FlowEdit
<1>5. /\ GameType' /\ game'.charged = game.charged /\ game'.gear = game.gear
      /\ game'.input = game.input /\ (game'.page = game.page \/ game'.page # "rewards")
  BY <1>1 DEF Types, GameType, Games
<1>6. QED
  BY <1>1, <1>4, <1>5
  DEF Wanders, Types, OpsType, RowType, StepType, TapType, VisitType, RestType

LEMMA WalkWanders ==
  ASSUME Types,
         \/ \E o \in Ops : GoIn(o) \/ GoHome(o)
         \/ \E page \in {"home", "cards"} : PageTurns(page)
  PROVE  Wanders
<1>1. UNCHANGED <<durable, visit, tap>>
  BY DEF GoIn, GoHome, PageTurns
<1>2. \E page \in {"home", "cards"} :
        \/ game' = [game EXCEPT !.page = page]
        \/ game' = [game EXCEPT !.page = page, !.faults = game.faults + 1]
  BY DEF GoIn, GoHome, PageTurns
<1>3. game \in Games /\ game.faults + 1 \in Nat
  BY DEF Types, GameType, Games
<1>4. /\ GameType' /\ game'.charged = game.charged /\ game'.gear = game.gear
      /\ game'.input = game.input /\ game'.page # "rewards"
  <2>1. PICK page \in {"home", "cards"} :
          \/ game' = [game EXCEPT !.page = page]
          \/ game' = [game EXCEPT !.page = page, !.faults = game.faults + 1]
    BY <1>2
  <2>2. QED
    BY <1>3, <2>1 DEF GameType, Games
<1>5. QED
  BY <1>1, <1>4
  DEF durable, Wanders, Types, OpsType, RowType, StepType, FlowType, TapType, VisitType, RestType

LEMMA LostWanders ==
  ASSUME Types, InputLost
  PROVE  Wanders
<1> DEFINE n == IF game.page = "cards" THEN game.faults + 1 ELSE game.faults
<1>1. game' = [game EXCEPT !.input = NoInput, !.faults = n] /\ UNCHANGED <<durable, visit, tap>>
  BY DEF InputLost
<1>2. n \in Nat /\ NoInput \in Inputs
  BY DEF Types, GameType, Games, Inputs
<1> HIDE DEF n
<1>3. /\ GameType' /\ game'.charged = game.charged /\ game'.gear = game.gear
      /\ game'.input = NoInput /\ game'.page = game.page
  BY <1>1, <1>2 DEF Types, GameType, Games
<1>4. QED
  BY <1>1, <1>3
  DEF durable, Wanders, Types, OpsType, RowType, StepType, FlowType, TapType, VisitType, RestType

LEMMA NoTapIsTap == NoTap \in TapRows /\ NoTap.pc = None
BY DEF NoTap, TapRows

LEMMA NoVisitIsVisit == NoVisit \in Visits /\ NoVisit.fresh = FALSE
BY DEF NoVisit, Visits

LEMMA CrashWanders ==
  ASSUME Types, Crash
  PROVE  Wanders
<1>1. visit' = NoVisit /\ tap' = NoTap /\ UNCHANGED durable
  BY Zenon DEF Crash
<1>2. /\ GameType' /\ game'.charged = game.charged /\ game'.gear = game.gear
      /\ game'.input = game.input /\ game'.page = game.page
  BY DEF Crash, Types, GameType, Games
<1>3. TapType' /\ VisitType' /\ tap'.pc = None
  BY <1>1, NoTapIsTap, NoVisitIsVisit DEF TapType, VisitType
<1>4. QED
  BY <1>1, <1>2, <1>3
  DEF durable, Wanders, Types, OpsType, RowType, StepType, FlowType, RestType

LEMMA StartWanders ==
  ASSUME Types, StartCycle
  PROVE  Wanders
<1>1. cycle < MaxCycles /\ cycle' = cycle + 1
      /\ UNCHANGED <<ops, asked, row, pinned, steps, flow, visit, tap, game>>
  BY Zenon DEF StartCycle
<1>2. cycle' \in 0..MaxCycles
  BY <1>1, CardsAssumption DEF Types, RestType
<1>3. QED
  BY <1>1, <1>2
  DEF Wanders, Types, OpsType, RowType, StepType, FlowType, TapType, VisitType, GameType, RestType

LEMMA StutterWanders ==
  ASSUME Types, UNCHANGED vars
  PROVE  Wanders
BY DEF vars, Wanders, Types, OpsType, RowType, StepType, FlowType, TapType, VisitType, GameType, RestType
-----------------------------------------------------------------------------
(* The commits of an operation's own row.                                  *)

LEMMA StatusFacts ==
  /\ Terminal \subseteq Statuses /\ Claimed \subseteq Statuses
  /\ "queued" \in Statuses /\ "preflight" \in Statuses
  /\ None \notin Terminal /\ "queued" \notin Terminal /\ "preflight" \notin Terminal
  /\ None \notin Claimed /\ "queued" \notin Claimed /\ "preflight" \notin Claimed
  /\ \A s \in Claimed : s \notin Terminal
BY DEF Statuses, Claimed, Terminal, None

LEMMA CommitTypes ==
  ASSUME Types, OpsType', FlowType', VisitType', TapType', asked' \subseteq Ops,
         UNCHANGED <<row, pinned, steps, cycle, game>>
  PROVE  Types'
BY DEF Types, RowType, StepType, GameType, RestType

LEMMA MovedMarks ==
  ASSUME Types, Types', NEW o \in Ops, NEW s \in Statuses, ops' = Moved(o, s),
         UNCHANGED <<row, pinned, steps, game>>, ~Is(o, Terminal), s \notin {None, "queued"},
         Stepped(o) => s \in Claimed \cup Terminal,
         s \in Terminal => MayEnd(o, s)
  PROVE  Marks(o, s)
BY MovedOps DEF Marks, Types

LEMMA CancelledMarks ==
  ASSUME Types, VisitCancelled, visit.op \in Ops, tap'.pc = None, TapType', asked' \subseteq Ops,
         UNCHANGED <<row, pinned, steps, cycle, game>>
  PROVE  Wanders \/ Ends(visit.op)
<1> DEFINE o == visit.op
<1>1. Types'
  BY CancelledFacts, CommitTypes
<1>2. CASE ops' = ops
  BY <1>1, <1>2 DEF Wanders
<1>3. CASE ~Is(o, Terminal) /\ Given(o) /\ ops' = Moved(o, "reconciliation_required")
  <2>1. "reconciliation_required" \in Claimed
    BY DEF Claimed
  <2>2. Marks(o, "reconciliation_required")
    BY <1>1, <1>3, <2>1, StatusFacts, MovedMarks
  <2>3. QED
    BY <2>1, <2>2, StatusFacts DEF Ends
<1>4. CASE ~Is(o, Terminal) /\ ~Given(o) /\ ops' = Moved(o, "canceled")
  <2>1. "canceled" \in Terminal /\ "canceled" # "confirmed"
    BY DEF Terminal
  <2>2. MayEnd(o, "canceled")
    BY <1>4, <2>1 DEF MayEnd, Given
  <2>3. Marks(o, "canceled")
    BY <1>1, <1>4, <2>1, <2>2, StatusFacts, MovedMarks
  <2>4. QED
    BY <2>1, <2>3, StatusFacts DEF Ends
<1>5. QED
  BY <1>2, <1>3, <1>4, CancelledFacts

\* An operation with nothing in doubt is canceled outside of its visit.
LEMMA OutsideMarks ==
  ASSUME Types, StepInv, NEW o \in Ops, ~Is(o, Terminal),
         UNCHANGED <<row, pinned, steps, cycle, game, flow, visit, tap>>, asked' \subseteq Ops, Free,
         \/ ~Progressed(o) /\ ops' = Moved(o, "canceled")
         \/ Progressed(o) /\ ops' = Moved(o, "reconciliation_required")
  PROVE  Ends(o)
<1>1. ops' = Moved(o, "canceled") \/ ops' = Moved(o, "reconciliation_required")
  OBVIOUS
<1>2. "canceled" \in Terminal /\ "canceled" # "confirmed" /\ "reconciliation_required" \in Claimed
  BY DEF Claimed, Terminal
<1>3. Types'
  <2>1. OpsType'
    BY <1>1, <1>2, MovedOps, StatusFacts DEF Types, OpsType
  <2>2. FlowType' /\ VisitType' /\ TapType'
    BY DEF Types, FlowType, VisitType, TapType
  <2>3. QED
    BY <2>1, <2>2, CommitTypes
<1>4. tap'.pc = None
  BY DEF Free
<1>5. CASE ~Progressed(o) /\ ops' = Moved(o, "canceled")
  <2>1. ~Linked(o) /\ ~Stepped(o)
    BY <1>5 DEF Progressed, StepInv, Stepped, Is
  <2>2. MayEnd(o, "canceled")
    BY <1>2, <2>1 DEF MayEnd
  <2>3. Marks(o, "canceled")
    BY <1>2, <1>3, <1>5, <2>1, <2>2, StatusFacts, MovedMarks
  <2>4. QED
    BY <1>2, <1>4, <2>3, StatusFacts DEF Ends
<1>6. CASE Progressed(o) /\ ops' = Moved(o, "reconciliation_required")
  <2>1. Marks(o, "reconciliation_required")
    BY <1>2, <1>3, <1>6, StatusFacts, MovedMarks
  <2>2. QED
    BY <1>2, <1>4, <2>1, StatusFacts DEF Ends
<1>7. QED
  BY <1>5, <1>6

LEMMA FinishMarks ==
  ASSUME Types, StepInv, NEW o \in Ops, FinishCancel(o)
  PROVE  Wanders \/ Ends(o)
<1>1. Free /\ asked' \subseteq Ops /\ UNCHANGED <<row, pinned, steps, cycle, tap, game>>
  BY DEF FinishCancel, Types, RestType
<1>2. tap'.pc = None /\ TapType'
  BY <1>1 DEF Free, Types, TapType
<1>3. CASE Is(o, Terminal)
  <2>1. UNCHANGED <<ops, flow, visit>>
    BY <1>3, Zenon DEF FinishCancel
  <2>2. Types'
    BY <1>1, <1>2, <2>1, CommitTypes DEF Types, OpsType, FlowType, VisitType
  <2>3. QED
    BY <1>1, <1>2, <2>1, <2>2 DEF Wanders
<1>4. CASE ~Is(o, Terminal) /\ visit.op = o
  BY <1>1, <1>2, <1>4, CancelledMarks, Zenon DEF FinishCancel
<1>5. CASE ~Is(o, Terminal) /\ visit.op # o
  <2>1. /\ ops' = Moved(o, IF Progressed(o) THEN "reconciliation_required" ELSE "canceled")
        /\ UNCHANGED <<flow, visit>>
    BY <1>5, Zenon DEF FinishCancel
  <2>2. \/ ~Progressed(o) /\ ops' = Moved(o, "canceled")
        \/ Progressed(o) /\ ops' = Moved(o, "reconciliation_required")
    BY <2>1
  <2>3. QED
    BY <1>1, <1>5, <2>1, <2>2, OutsideMarks
<1>6. QED
  BY <1>3, <1>4, <1>5

LEMMA StaleMarks ==
  ASSUME Types, StepInv, NEW o \in Ops, CancelStale(o)
  PROVE  Wanders \/ Ends(o)
<1>1. /\ Free /\ ~Is(o, Terminal) /\ ~Progressed(o)
      /\ UNCHANGED <<asked, row, pinned, steps, cycle, tap, game>>
      /\ \/ visit.op = o /\ VisitCancelled
         \/ visit.op # o /\ ops' = Moved(o, "canceled") /\ UNCHANGED <<flow, visit>>
  BY DEF CancelStale, Scan, Unresolved, Is
<1>2. tap'.pc = None /\ TapType' /\ asked' \subseteq Ops
  BY <1>1 DEF Free, Types, TapType, RestType
<1>3. CASE visit.op = o /\ VisitCancelled
  BY <1>1, <1>2, <1>3, CancelledMarks
<1>4. CASE visit.op # o /\ ops' = Moved(o, "canceled") /\ UNCHANGED <<flow, visit>>
  BY <1>1, <1>2, <1>4, OutsideMarks
<1>5. QED
  BY <1>1, <1>3, <1>4

\* A visit that ends: stopped, or refused by the last gate before its tap.
LEMMA StopsMark ==
  ASSUME Types, TapInv, VisitStopped \/ DispatchFails \/ ToggleRefused
  PROVE  Wanders \/ Ends(visit.op)
<1>1. CASE VisitStopped
  <2>1. visit.op \in Ops
    BY <1>1 DEF VisitStopped, Types, VisitType, Visits
  <2>2. /\ VisitCancelled /\ tap'.pc = None /\ TapType' /\ asked' \subseteq Ops
        /\ UNCHANGED <<row, pinned, steps, cycle, game>>
    BY <1>1 DEF VisitStopped, Scan, Free, Types, TapType, RestType
  <2>3. QED
    BY <2>1, <2>2, CancelledMarks
<1>2. CASE DispatchFails \/ ToggleRefused
  <2>1. visit.op \in Ops
    BY <1>2 DEF DispatchFails, ToggleRefused, TapInv, Unresolved, None
  <2>2. /\ VisitCancelled \/ UNCHANGED <<ops, flow, visit>>
        /\ tap' = NoTap /\ UNCHANGED <<asked, row, pinned, steps, cycle, game>>
    BY <1>2, Zenon DEF DispatchFails, ToggleRefused
  <2>3. tap'.pc = None /\ TapType' /\ asked' \subseteq Ops
    BY <2>2, NoTapIsTap DEF TapType, Types, RestType
  <2>4. CASE VisitCancelled
    BY <2>1, <2>2, <2>3, <2>4, CancelledMarks
  <2>5. CASE UNCHANGED <<ops, flow, visit>>
    <3>1. Types'
      BY <2>2, <2>3, <2>5, CommitTypes DEF Types, OpsType, FlowType, VisitType
    <3>2. QED
      BY <2>2, <2>3, <2>5, <3>1 DEF Wanders
  <2>6. QED
    BY <2>2, <2>4, <2>5
<1>3. QED
  BY <1>1, <1>2

LEMMA SubmitMarks ==
  ASSUME Types, RowInv, StepInv, NEW o \in Ops, Submit(o)
  PROVE  Ends(o)
<1> DEFINE c == IF o \in Buys THEN cycle ELSE 0
           r == [ops[o] EXCEPT !.status = "queued", !.cycle = c]
<1>1. /\ Free /\ Is(o, {None})
      /\ ops' = [ops EXCEPT ![o].status = "queued", ![o].cycle = c]
      /\ UNCHANGED <<asked, row, pinned, steps, flow, cycle, visit, tap, game>>
  BY DEF Submit
<1>2. c \in 0..MaxCycles
  BY CardsAssumption DEF Types, RestType
<1> HIDE DEF c
<1>3. ops' = [ops EXCEPT ![o] = r] /\ r \in OpRows /\ r.status = "queued"
  BY <1>1, <1>2, StatusFacts DEF Types, OpsType, OpRows
<1> HIDE DEF r
<1>4. OpsType' /\ ops'[o].status = "queued" /\ \A p \in Ops : p # o => ops'[p] = ops[p]
  BY <1>3 DEF Types, OpsType
<1>5. FlowType' /\ VisitType' /\ TapType' /\ asked' \subseteq Ops
  BY <1>1 DEF Types, FlowType, VisitType, TapType, RestType
<1>6. Types'
  BY <1>1, <1>4, <1>5, CommitTypes
<1>7. ~Linked(o) /\ ~Stepped(o) /\ ~Is(o, Terminal)
  BY <1>1, StatusFacts DEF RowInv, StepInv, Linked, Stepped, Is
<1>8. Marks(o, "queued")
  BY <1>1, <1>4, <1>6, <1>7, StatusFacts DEF Marks, Is
<1>9. tap'.pc = None
  BY <1>1 DEF Free
<1>10. QED
  BY <1>8, <1>9, StatusFacts DEF Ends

\* A flag of an operation's row that is set.
LEMMA FlagMarks ==
  ASSUME Types, Types', StepInv, NEW o \in Ops, ~Is(o, Terminal),
         \A p \in Ops : p # o => ops'[p] = ops[p],
         ops'[o].status = ops[o].status, ops'[o].cycle = ops[o].cycle,
         UNCHANGED <<row, pinned, steps, game>>
  PROVE  Marks(o, ops[o].status)
BY DEF Marks, Is, StepInv, Stepped

LEMMA CancelMarks ==
  ASSUME Types, StepInv, NEW o \in Ops, Cancel(o)
  PROVE  Ends(o)
<1>1. /\ Free /\ ~Is(o, Terminal) /\ asked' = asked \cup {o}
      /\ ops' = [ops EXCEPT ![o].cancel = TRUE]
      /\ UNCHANGED <<row, pinned, steps, flow, cycle, visit, tap, game>>
  BY DEF Cancel, Unresolved, Is
<1>2. OpsType' /\ (\A p \in Ops : p # o => ops'[p] = ops[p]) /\ ops'[o].status = ops[o].status
      /\ ops'[o].cycle = ops[o].cycle /\ ops[o].status \in Statuses
  BY <1>1 DEF Types, OpsType, OpRows
<1>3. FlowType' /\ VisitType' /\ TapType' /\ asked' \subseteq Ops
  BY <1>1 DEF Types, FlowType, VisitType, TapType, RestType
<1>4. Types'
  BY <1>1, <1>2, <1>3, CommitTypes
<1>5. Marks(o, ops[o].status) /\ tap'.pc = None
  BY <1>1, <1>2, <1>4, FlagMarks DEF Free
<1>6. QED
  BY <1>2, <1>5 DEF Ends

LEMMA PlansFacts ==
  ASSUME StepInv, NEW o \in Ops, Planning(o)
  PROVE  Free /\ ~Is(o, Terminal) /\ ~Linked(o) /\ o \notin pinned /\ ~Stepped(o) /\ game.page = "cards"
         /\ visit.op = o
BY DEF Planning, Working, Visiting, Returning, Scan, StepInv, Stepped

LEMMA PreflightMarks ==
  ASSUME Types, StepInv, NEW o \in Ops, Preflight(o)
  PROVE  Ends(o)
<1>1. /\ Planning(o) /\ ops' = Moved(o, "preflight")
      /\ UNCHANGED <<asked, row, pinned, steps, flow, cycle, visit, tap, game>>
  BY Zenon DEF Preflight
<1>2. OpsType'
  BY <1>1, MovedOps, StatusFacts DEF Types, OpsType
<1>3. FlowType' /\ VisitType' /\ TapType' /\ asked' \subseteq Ops
  BY <1>1 DEF Types, FlowType, VisitType, TapType, RestType
<1>4. Types'
  BY <1>1, <1>2, <1>3, CommitTypes
<1>5. "preflight" \notin {None, "queued"}
  BY DEF None
<1>6. Marks(o, "preflight")
  BY <1>1, <1>4, <1>5, PlansFacts, StatusFacts, MovedMarks
<1>7. QED
  BY <1>1, <1>6, PlansFacts, StatusFacts DEF Ends, Free

LEMMA ReturnIsVisit ==
  ASSUME Types, visit' = [visit EXCEPT !.step = "return"]
  PROVE  VisitType' /\ visit'.op = visit.op
BY DEF Types, VisitType, Visits

LEMMA PlannerMarks ==
  ASSUME Types, StepInv, NEW o \in Ops, PlannerBlocks(o) \/ PlannerIsDone(o)
  PROVE  Ends(o)
<1>1. PICK s \in Terminal : Planning(o) /\ Concluded(o, s) /\ (s = "confirmed" => o \notin Buys)
  <2>1. CASE PlannerBlocks(o)
    <3>1. "blocked" \in Terminal /\ "blocked" # "confirmed"
      BY DEF Terminal
    <3>2. QED
      BY <2>1, <3>1, Zenon DEF PlannerBlocks
  <2>2. CASE PlannerIsDone(o)
    <3> DEFINE s == IF o \in Buys THEN "not_applied" ELSE "confirmed"
    <3>1. s \in Terminal /\ (s = "confirmed" => o \notin Buys)
      BY DEF Terminal
    <3>2. Planning(o) /\ Concluded(o, s)
      BY <2>2, Zenon DEF PlannerIsDone
    <3>3. QED
      BY <3>1, <3>2
  <2>3. QED
    BY <2>1, <2>2
<1>2. /\ ops' = Moved(o, s) /\ visit' = [visit EXCEPT !.step = "return"]
      /\ UNCHANGED <<asked, row, pinned, steps, flow, cycle, tap, game>>
  BY <1>1, Zenon DEF Concluded
<1>3. OpsType'
  BY <1>2, MovedOps, StatusFacts DEF Types, OpsType
<1>4. FlowType' /\ VisitType' /\ TapType' /\ asked' \subseteq Ops
  BY <1>2, ReturnIsVisit DEF Types, FlowType, TapType, RestType
<1>5. Types'
  BY <1>2, <1>3, <1>4, CommitTypes
<1>6. MayEnd(o, s)
  BY <1>1, PlansFacts DEF MayEnd
<1>7. Marks(o, s)
  BY <1>1, <1>2, <1>5, <1>6, PlansFacts, StatusFacts, MovedMarks
<1>8. QED
  BY <1>1, <1>2, <1>7, PlansFacts, StatusFacts DEF Ends, Free

\* The status that a settlement commits.
LEMMA FinalizeMarks ==
  ASSUME Types, Money, TapInv, NEW o \in Buys, Finalize(o)
  PROVE  Ends(o)
<1> DEFINE s == IF row[o].spent # Unknown THEN "confirmed" ELSE "reconciliation_required"
<1>1. /\ tap = [pc |-> "settled", op |-> o] /\ ops' = Moved(o, s) /\ tap' = NoTap
      /\ visit' = [visit EXCEPT !.step = "return"] \/ visit' = visit
      /\ UNCHANGED <<asked, row, pinned, steps, flow, cycle, game>>
  BY DEF Finalize
<1>2. tap.pc = "settled" /\ tap.op = o
  BY <1>1
<1>3. o \in Ops /\ ~Is(o, Terminal) /\ o \in game.charged /\ o \notin Applies
  BY <1>2, IdFacts DEF TapInv, Unresolved, Is, None
<1>4. s \in Statuses /\ s \notin {None, "queued"} /\ s \in Claimed \cup Terminal
      /\ (s \in Terminal => s = "confirmed")
  BY DEF Statuses, Claimed, Terminal, None
<1>5. s = "confirmed" => MayEnd(o, s)
  BY <1>3 DEF MayEnd, Money, RowInv, ChargeInv, Unknown
<1>6. OpsType'
  BY <1>1, <1>3, <1>4, MovedOps DEF Types, OpsType
<1>7. FlowType' /\ VisitType' /\ TapType' /\ asked' \subseteq Ops /\ tap'.pc = None
  BY <1>1, ReturnIsVisit, NoTapIsTap DEF Types, FlowType, VisitType, TapType, RestType
<1> HIDE DEF s
<1>8. Types'
  BY <1>1, <1>6, <1>7, CommitTypes
<1>9. Marks(o, s)
  BY <1>1, <1>3, <1>4, <1>5, <1>8, MovedMarks
<1>10. QED
  BY <1>4, <1>7, <1>9 DEF Ends

LEMMA AppliedMarks ==
  ASSUME Types, TapInv, NEW o \in Applies, Applied(o)
  PROVE  Ends(o)
<1> DEFINE s == IF ops[o].cancel THEN "canceled" ELSE "confirmed"
<1>1. /\ tap = [pc |-> "proved", op |-> o] /\ ops' = Moved(o, s) /\ tap' = NoTap
      /\ visit' = [visit EXCEPT !.step = "return"]
      /\ UNCHANGED <<asked, row, pinned, steps, flow, cycle, game>>
  BY DEF Applied
<1>2. tap.pc = "proved" /\ tap.op = o
  BY <1>1
<1>3. o \in Ops /\ ~Is(o, Terminal) /\ steps[o].verified /\ o \notin Buys
  BY <1>2, IdFacts DEF TapInv, Unresolved, Is, None
<1>4. s \in Terminal
  BY DEF Terminal
<1> HIDE DEF s
<1>5. MayEnd(o, s)
  BY <1>3 DEF MayEnd
<1>6. OpsType'
  BY <1>1, <1>3, <1>4, MovedOps, StatusFacts DEF Types, OpsType
<1>7. FlowType' /\ VisitType' /\ TapType' /\ asked' \subseteq Ops /\ tap'.pc = None
  BY <1>1, ReturnIsVisit, NoTapIsTap DEF Types, FlowType, TapType, RestType
<1>8. Types'
  BY <1>1, <1>6, <1>7, CommitTypes
<1>9. Marks(o, s)
  BY <1>1, <1>3, <1>4, <1>5, <1>8, StatusFacts, MovedMarks
<1>10. QED
  BY <1>4, <1>7, <1>9, StatusFacts DEF Ends

\* Two commits that leave the lock taken.
LEMMA DispatchMarks ==
  ASSUME Types, TapInv, NEW o \in Buys, Dispatch(o)
  PROVE  Marks(o, "dispatched") /\ TapInv'
<1>1. /\ tap = [pc |-> "acted", op |-> o] /\ ops' = Moved(o, "dispatched")
      /\ tap' = [tap EXCEPT !.pc = "dispatched"]
      /\ UNCHANGED <<asked, row, pinned, steps, flow, cycle, visit, game>>
  BY Zenon DEF Dispatch
<1>2. tap.pc = "acted" /\ tap.op = o /\ tap'.pc = "dispatched" /\ tap'.op = o
  BY <1>1
<1>3. /\ o \in Ops /\ ~Is(o, Terminal) /\ visit.op = o /\ ~ops[o].cancel /\ row[o].stage = "acted"
      /\ game.input.op \notin Buys /\ game.page # "rewards" /\ o \notin Applies
  BY <1>2, IdFacts DEF TapInv, Unresolved, Is, None, Charging
<1>4. "dispatched" \in Claimed /\ "dispatched" \notin {None, "queued"}
  BY DEF Claimed, None
<1>5. OpsType' /\ ops'[o].status = "dispatched" /\ ops'[o].cancel = ops[o].cancel
  BY <1>1, <1>3, <1>4, MovedOps, StatusFacts DEF Types, OpsType
<1>6. FlowType' /\ VisitType' /\ asked' \subseteq Ops
  BY <1>1 DEF Types, FlowType, VisitType, RestType
<1>7. TapType'
  BY <1>1, <1>2 DEF Types, TapType, TapRows, Charging
<1>8. Types'
  BY <1>1, <1>5, <1>6, <1>7, CommitTypes
<1>9. Marks(o, "dispatched")
  BY <1>1, <1>3, <1>4, <1>8, StatusFacts, MovedMarks
<1>10. (o \in Unresolved)'
  BY <1>3, <1>4, <1>5, StatusFacts DEF Unresolved, Is
<1>11. TapInv'
  BY <1>1, <1>2, <1>3, <1>5, <1>10 DEF TapInv, Claiming, Toggles, Charging
<1>12. QED
  BY <1>9, <1>11

\* Beside operations that wait, a loadout whose last toggle is verified has
\* none on its way.
LEMMA NoToggleComes ==
  ASSUME StepInv, NEW o \in Applies, steps[o].verified,
         \A p \in Unresolved : p # o => Is(p, {"queued"})
  PROVE  game.input.op \notin Applies
<1> SUFFICES ASSUME game.input.op \in Applies PROVE FALSE
  OBVIOUS
<1> DEFINE p == game.input.op
<1>1. ~steps[p].verified /\ Stepped(p) /\ p # o /\ p \in Ops
  BY IdFacts DEF StepInv
<1>2. Is(p, Claimed)
  BY <1>1 DEF StepInv, Is
<1>3. p \in Unresolved
  BY <1>1, <1>2, StatusFacts DEF Unresolved, Is
<1>4. Is(p, {"queued"})
  BY <1>1, <1>3
<1>5. QED
  BY <1>2, <1>4, StatusFacts DEF Is

LEMMA TogglingFacts ==
  ASSUME NEW o \in Applies, Toggling(o)
  PROVE  /\ visit.op = o /\ ~Is(o, Terminal) /\ o \in pinned
         /\ \A p \in Unresolved : p # o => Is(p, {"queued"})
BY DEF Toggling, Assigning, Working, Visiting, Returning

LEMMA ToggleMarks ==
  ASSUME Types, StepInv, NEW o \in Applies, DispatchToggle(o)
  PROVE  Marks(o, "dispatched") /\ TapInv'
<1>1. /\ Toggling(o) /\ Is(o, {"preflight"}) /\ ~ops[o].cancel
      /\ ops' = Moved(o, "dispatched") /\ tap' = [pc |-> "marked", op |-> o]
      /\ UNCHANGED <<asked, row, pinned, steps, flow, cycle, visit, game>>
  BY Zenon DEF DispatchToggle
<1>2. /\ o \in Ops /\ o \notin Buys /\ visit.op = o /\ ~Is(o, Terminal) /\ o \in pinned
      /\ \A p \in Unresolved : p # o => Is(p, {"queued"})
  BY <1>1, TogglingFacts, IdFacts
<1>3. "dispatched" \in Claimed /\ "dispatched" \notin {None, "queued"}
  BY DEF Claimed, None
<1>4. ~Stepped(o) /\ steps[o].verified
  BY <1>1, StatusFacts DEF StepInv, Is
<1>5. game.input.op \notin Applies
  BY <1>2, <1>4, NoToggleComes
<1>6. OpsType' /\ ops'[o].status = "dispatched" /\ ops'[o].cancel = ops[o].cancel
  BY <1>1, <1>2, <1>3, MovedOps, StatusFacts DEF Types, OpsType
<1>7. FlowType' /\ VisitType' /\ asked' \subseteq Ops
  BY <1>1 DEF Types, FlowType, VisitType, RestType
<1>8. TapType' /\ tap'.pc = "marked" /\ tap'.op = o
  BY <1>1, <1>2 DEF TapType, TapRows, Toggles
<1>9. Types'
  BY <1>1, <1>6, <1>7, <1>8, CommitTypes
<1>10. Marks(o, "dispatched")
  BY <1>1, <1>2, <1>3, <1>9, StatusFacts, MovedMarks
<1>11. (Is(o, Claimed) /\ o \in Unresolved)'
  BY <1>2, <1>3, <1>6, StatusFacts DEF Unresolved, Is
<1>12. TapInv'
  BY <1>1, <1>2, <1>4, <1>5, <1>6, <1>8, <1>11 DEF TapInv, Charging, Claiming, Toggles, None
<1>13. QED
  BY <1>10, <1>12

LEMMA KeepMarks ==
  ASSUME Types, StepInv, NEW o \in Applies, KeepProof(o)
  PROVE  Marks(o, ops[o].status) /\ TapInv'
<1>1. /\ Scan /\ visit.op = o /\ ~Is(o, Terminal) /\ o \in pinned /\ steps[o].verified
      /\ ops' = [ops EXCEPT ![o].after = TRUE] /\ tap' = [pc |-> "proved", op |-> o]
      /\ UNCHANGED <<asked, row, pinned, steps, flow, cycle, visit, game>>
  BY DEF KeepProof, Reached, Assigning, Working, Visiting, Returning
<1>2. o \in Ops
  BY IdFacts
<1>3. OpsType' /\ (\A p \in Ops : p # o => ops'[p] = ops[p]) /\ ops'[o].status = ops[o].status
      /\ ops'[o].cycle = ops[o].cycle
  BY <1>1, <1>2 DEF Types, OpsType, OpRows
<1>4. TapType'
  BY <1>1, <1>2 DEF TapType, TapRows
<1>5. FlowType' /\ VisitType' /\ asked' \subseteq Ops
  BY <1>1 DEF Types, FlowType, VisitType, RestType
<1>6. Types'
  BY <1>1, <1>3, <1>4, <1>5, CommitTypes
<1>7. Marks(o, ops[o].status)
  BY <1>1, <1>2, <1>3, <1>6, FlagMarks
<1>8. (o \in Unresolved)'
  BY <1>1, <1>2, <1>3 DEF Unresolved, Is, StepInv
<1>9. TapInv'
  BY <1>1, <1>8 DEF TapInv, Charging, Claiming, Toggles
<1>10. QED
  BY <1>7, <1>9
-----------------------------------------------------------------------------
(* The commits of a journal row.                                           *)

\* One row is written, and the lock of the runtime at most.
Books(o, r) ==
  /\ Types'
  /\ o \in Buys /\ row' = [row EXCEPT ![o] = r] /\ r \in BuyRows
  /\ UNCHANGED <<ops, pinned, steps, visit>>
  /\ game'.charged = game.charged /\ game'.gear = game.gear
  /\ game'.input = game.input /\ game'.page = game.page

LEMMA BookTypes ==
  ASSUME Types, NEW o \in Buys, NEW r \in BuyRows, row' = [row EXCEPT ![o] = r],
         TapType', GameType', UNCHANGED <<ops, asked, pinned, steps, flow, cycle, visit>>
  PROVE  Types'
BY DEF Types, OpsType, RowType, StepType, FlowType, VisitType, RestType

LEMMA PrepareFacts ==
  ASSUME Types, NEW o \in Buys, Prepare(o)
  PROVE  /\ Books(o, [row[o] EXCEPT !.stage = "intended"])
         /\ Planning(o) /\ Is(o, {"preflight"}) /\ MayPrepare(o)
         /\ tap'.pc = "prepared" /\ tap'.op = o /\ UNCHANGED game
<1> DEFINE r == [row[o] EXCEPT !.stage = "intended"]
<1>1. /\ row' = [row EXCEPT ![o].stage = "intended"] /\ tap' = [pc |-> "prepared", op |-> o]
      /\ Planning(o) /\ Is(o, {"preflight"}) /\ MayPrepare(o)
      /\ UNCHANGED <<ops, asked, pinned, steps, flow, cycle, visit, game>>
  BY Zenon DEF Prepare
<1>2. row' = [row EXCEPT ![o] = r] /\ r \in BuyRows
  BY <1>1 DEF Types, RowType, BuyRows
<1> HIDE DEF r
<1>3. TapType' /\ GameType' /\ tap'.pc = "prepared" /\ tap'.op = o
  BY <1>1, IdFacts DEF TapType, TapRows, Charging, Types, GameType
<1>4. Types'
  BY <1>1, <1>2, <1>3, BookTypes
<1>5. Books(o, r)
  BY <1>1, <1>2, <1>4 DEF Books
<1>6. QED
  BY <1>1, <1>3, <1>5 DEF r

LEMMA RecordFacts ==
  ASSUME Types, NEW o \in Buys, RecordAction(o)
  PROVE  /\ Books(o, [row[o] EXCEPT !.stage = "acted", !.acted = TRUE])
         /\ tap.pc = "prepared" /\ tap.op = o /\ tap'.pc = "acted" /\ tap'.op = o /\ UNCHANGED game
<1> DEFINE r == [row[o] EXCEPT !.stage = "acted", !.acted = TRUE]
<1>1. /\ row' = [row EXCEPT ![o].stage = "acted", ![o].acted = TRUE]
      /\ tap = [pc |-> "prepared", op |-> o] /\ tap' = [tap EXCEPT !.pc = "acted"]
      /\ UNCHANGED <<ops, asked, pinned, steps, flow, cycle, visit, game>>
  BY Zenon DEF RecordAction
<1>2. row' = [row EXCEPT ![o] = r] /\ r \in BuyRows
  BY <1>1 DEF Types, RowType, BuyRows
<1> HIDE DEF r
<1>3. /\ TapType' /\ GameType' /\ tap.pc = "prepared" /\ tap.op = o /\ tap'.pc = "acted" /\ tap'.op = o
  BY <1>1, IdFacts DEF TapType, TapRows, Charging, Types, GameType
<1>4. Types'
  BY <1>1, <1>2, <1>3, BookTypes
<1>5. Books(o, r)
  BY <1>1, <1>2, <1>4 DEF Books
<1>6. QED
  BY <1>1, <1>3, <1>5 DEF r

LEMMA SettleFacts ==
  ASSUME Types, NEW o \in Buys, Settle(o)
  PROVE  /\ Working(o) /\ Linked(o) /\ game.page = "rewards" /\ UNCHANGED game
         /\ tap'.pc = "settled" /\ tap'.op = o
         /\ \/ row[o].stage = "acted"
               /\ Books(o, [row[o] EXCEPT !.stage = "resolved", !.spent = Price, !.booked = TRUE])
            \/ Types' /\ UNCHANGED <<ops, row, pinned, steps, visit>>
<1> DEFINE r == [row[o] EXCEPT !.stage = "resolved", !.spent = Price, !.booked = TRUE]
<1>1. /\ Working(o) /\ Linked(o) /\ game.page = "rewards"
      /\ \/ /\ row[o].stage = "acted"
            /\ row' = [row EXCEPT ![o].stage = "resolved", ![o].spent = Price, ![o].booked = TRUE]
         \/ row' = row
      /\ tap' = [pc |-> "settled", op |-> o]
      /\ UNCHANGED <<ops, asked, pinned, steps, flow, cycle, visit, game>>
  BY Zenon DEF Settle
<1>2. TapType' /\ GameType' /\ tap'.pc = "settled" /\ tap'.op = o
  BY <1>1, IdFacts DEF TapType, TapRows, Types, GameType
<1>3. r \in BuyRows /\ row[o] \in BuyRows
  BY DEF Types, RowType, BuyRows
<1>4. CASE /\ row[o].stage = "acted"
           /\ row' = [row EXCEPT ![o].stage = "resolved", ![o].spent = Price, ![o].booked = TRUE]
  <2>1. row' = [row EXCEPT ![o] = r]
    BY <1>4
  <2> HIDE DEF r
  <2>2. Books(o, r)
    BY <1>1, <1>2, <1>3, <2>1, BookTypes DEF Books
  <2>3. QED
    BY <1>1, <1>2, <1>4, <2>2 DEF r
<1>5. CASE row' = row
  <2>1. Types'
    BY <1>1, <1>2, <1>5 DEF Types, OpsType, RowType, StepType, FlowType, VisitType, RestType
  <2>2. QED
    BY <1>1, <1>2, <1>5, <2>1
<1>6. QED
  BY <1>1, <1>4, <1>5

LEMMA OperatorFacts ==
  ASSUME Types, NEW o \in Buys, NEW verdict \in {"not_charged", "unproven"},
         OperatorSettles(o, verdict)
  PROVE  \E amount \in {0, Unknown} :
           /\ Books(o, [row[o] EXCEPT !.stage = "resolved", !.spent = amount])
           /\ row[o].stage \in {"intended", "acted"} /\ game.input.op # o
           /\ amount = 0 => o \notin game.charged
           /\ tap' = tap /\ (tap.pc \in Charging => tap.op # o) /\ UNCHANGED game
<1> DEFINE amount == IF verdict = "not_charged" THEN 0 ELSE Unknown
           r == [row[o] EXCEPT !.stage = "resolved", !.spent = amount]
<1>1. /\ row' = [row EXCEPT ![o].stage = "resolved", ![o].spent = amount]
      /\ row[o].stage \in {"intended", "acted"} /\ game.input.op # o
      /\ tap.pc \in Charging => tap.op # o
      /\ verdict = "not_charged" => o \notin game.charged
      /\ UNCHANGED <<ops, asked, pinned, steps, flow, cycle, visit, tap, game>>
  BY DEF OperatorSettles, Charging
<1>2. amount \in {0, Unknown} /\ (amount = 0 => o \notin game.charged)
  BY <1>1 DEF Unknown
<1> HIDE DEF amount
<1>3. row' = [row EXCEPT ![o] = r] /\ r \in BuyRows
  BY <1>1, <1>2 DEF Types, RowType, BuyRows
<1> HIDE DEF r
<1>4. TapType' /\ GameType'
  BY <1>1 DEF TapType, Types, GameType
<1>5. Types'
  BY <1>1, <1>3, <1>4, BookTypes
<1>6. Books(o, r)
  BY <1>1, <1>3, <1>5 DEF Books
<1>7. QED
  BY <1>1, <1>2, <1>6 DEF r

LEMMA IncomeFacts ==
  ASSUME Types, NEW o \in Buys, Income(o)
  PROVE  Books(o, [row[o] EXCEPT !.drift = TRUE]) /\ tap' = tap
<1> DEFINE r == [row[o] EXCEPT !.drift = TRUE]
           n == game.faults + 1
<1>1. /\ row' = [row EXCEPT ![o].drift = TRUE] /\ game' = [game EXCEPT !.faults = n]
      /\ UNCHANGED <<ops, asked, pinned, steps, flow, cycle, visit, tap>>
  BY Zenon DEF Income
<1>2. row' = [row EXCEPT ![o] = r] /\ r \in BuyRows
  BY <1>1 DEF Types, RowType, BuyRows
<1>n. n \in Nat
  BY DEF Types, GameType, Games
<1> HIDE DEF r, n
<1>3. /\ GameType' /\ game'.charged = game.charged /\ game'.gear = game.gear
      /\ game'.input = game.input /\ game'.page = game.page
  BY <1>1, <1>n DEF Types, GameType, Games
<1>4. TapType'
  BY <1>1 DEF TapType, Types
<1>5. Types'
  BY <1>1, <1>2, <1>3, <1>4, BookTypes
<1>6. Books(o, r)
  BY <1>1, <1>2, <1>3, <1>5 DEF Books
<1>7. QED
  BY <1>1, <1>6 DEF r
-----------------------------------------------------------------------------
(* The loadout's claims, and the taps.                                     *)

LEMMA PinFacts ==
  ASSUME Types, NEW o \in Applies, Pin(o)
  PROVE  /\ Types' /\ pinned' = pinned \cup {o} /\ Is(o, {"preflight"})
         /\ UNCHANGED <<ops, row, steps, visit, tap, game>>
BY DEF Pin, Types, OpsType, RowType, StepType, FlowType, VisitType, TapType, GameType, RestType

LEMMA VerifyFacts ==
  ASSUME Types, NEW o \in Applies, Verify(o)
  PROVE  /\ Types' /\ UNCHANGED <<ops, row, pinned, visit, tap, game>>
         /\ steps'[o].verified /\ steps'[o].n = steps[o].n /\ steps'[o].before = steps[o].before
         /\ steps'[o].after = steps[o].after /\ game.gear = steps[o].after /\ tap.pc = None
         /\ \A p \in Applies : p # o => steps'[p] = steps[p]
<1> DEFINE r == [steps[o] EXCEPT !.verified = TRUE]
<1>1. /\ steps' = [steps EXCEPT ![o].verified = TRUE] /\ game.gear = steps[o].after /\ tap.pc = None
      /\ UNCHANGED <<ops, asked, row, pinned, flow, cycle, visit, tap, game>>
  BY DEF Verify, Assigning, Working, Visiting, Scan, Free
<1>2. /\ steps' = [steps EXCEPT ![o] = r] /\ r \in StepRows /\ r.verified /\ r.n = steps[o].n
      /\ r.before = steps[o].before /\ r.after = steps[o].after
  BY <1>1 DEF Types, StepType, StepRows
<1> HIDE DEF r
<1>3. Types'
  BY <1>1, <1>2 DEF Types, OpsType, RowType, StepType, FlowType, VisitType, TapType, GameType, RestType
<1>4. QED
  BY <1>1, <1>2, <1>3 DEF Types, StepType

LEMMA ClaimFacts ==
  ASSUME Types, StepInv, TapInv, NEW o \in Applies, NEW card \in CardIds, ClaimToggle(o, card)
  PROVE  /\ Types' /\ UNCHANGED <<ops, row, pinned, visit, game>>
         /\ visit.op = o /\ o \in Unresolved /\ o \in pinned
         /\ Is(o, Claimed) /\ ~ops[o].cancel /\ game.input.op \notin Applies
         /\ tap'.pc \in Claiming /\ tap'.op = o
         /\ \A p \in Applies : p # o => steps'[p] = steps[p]
         /\ steps'[o].n > 0 /\ ~steps'[o].verified /\ steps'[o].before = game.gear
         /\ steps'[o].after = Toggled(card)
<1> DEFINE k == IF steps[o].n < 2 THEN steps[o].n + 1 ELSE steps[o].n
           r == [n |-> k, before |-> game.gear, after |-> Toggled(card), verified |-> FALSE]
           t == IF tap.pc = "marked" THEN "claimed" ELSE "claimed again"
<1>1. /\ MayClaim(o) /\ ~ops[o].cancel /\ steps[o].verified
      /\ steps' = [steps EXCEPT ![o] = r]
      /\ tap' = [pc |-> t, op |-> o]
      /\ UNCHANGED <<ops, asked, row, pinned, flow, cycle, visit, game>>
  BY DEF ClaimToggle, Claims
<1>2. o \in Ops
  BY IdFacts
<1>3. /\ visit.op = o /\ o \in Unresolved /\ o \in pinned /\ Is(o, Claimed)
      /\ game.input.op \notin Applies
  <2>1. CASE tap = [pc |-> "marked", op |-> o]
    <3>1. tap.pc = "marked" /\ tap.op = o
      BY <2>1
    <3>2. QED
      BY <3>1 DEF TapInv, Toggles, None
  <2>2. CASE Toggling(o) /\ Is(o, Claimed)
    <3>1. visit.op = o /\ o \in pinned /\ game.input.op \notin Applies
      BY <1>1, <2>2, TogglingFacts, NoToggleComes
    <3>2. QED
      BY <1>2, <2>2, <3>1, StatusFacts DEF Unresolved, Is
  <2>3. QED
    BY <1>1, <2>1, <2>2 DEF MayClaim
<1>4. /\ k \in 0..2 /\ k > 0 /\ Toggled(card) \subseteq CardIds /\ game.gear \subseteq CardIds
  BY DEF Types, StepType, StepRows, GameType, Games, Toggled
<1>5. r \in StepRows /\ r.n > 0 /\ ~r.verified /\ r.before = game.gear /\ r.after = Toggled(card)
  BY <1>4 DEF StepRows
<1> HIDE DEF k, r
<1>6. TapType' /\ tap'.pc \in Claiming /\ tap'.op = o
  BY <1>1, <1>2 DEF TapType, TapRows, Toggles, Claiming
<1>7. StepType' /\ steps'[o] = r /\ \A p \in Applies : p # o => steps'[p] = steps[p]
  BY <1>1, <1>5 DEF Types, StepType
<1>8. Types'
  BY <1>1, <1>6, <1>7 DEF Types, OpsType, RowType, FlowType, VisitType, GameType, RestType
<1>9. QED
  BY <1>1, <1>3, <1>5, <1>6, <1>7, <1>8

\* A tap is sent: it replaces what may still have been on its way.
Sends(input) ==
  /\ Types' /\ tap'.pc = None
  /\ UNCHANGED <<ops, row, pinned, steps, visit>>
  /\ game'.charged = game.charged /\ game'.gear = game.gear
  /\ game'.input = input /\ game'.page = game.page

LEMMA PayFacts ==
  ASSUME Types, NEW o \in Buys, PayTap(o)
  PROVE  Sends([op |-> o, card |-> None]) /\ tap.pc = "dispatched" /\ tap.op = o
<1> DEFINE i == [op |-> o, card |-> None]
           taps == [game.taps EXCEPT ![o] = @ + 1]
<1>1. /\ tap = [pc |-> "dispatched", op |-> o] /\ tap' = NoTap /\ UNCHANGED <<durable, visit>>
  BY Zenon DEF PayTap
<1>2. game' = [game EXCEPT !.input = i, !.taps = taps]
  BY DEF PayTap
<1>3. i \in Inputs
  BY DEF Inputs
<1>4. taps \in [Buys -> Nat]
  BY DEF Types, GameType, Games
<1> HIDE DEF i, taps
<1>5. /\ GameType' /\ game'.charged = game.charged /\ game'.gear = game.gear
      /\ game'.input = i /\ game'.page = game.page
  BY <1>2, <1>3, <1>4 DEF Types, GameType, Games
<1>6. TapType' /\ tap'.pc = None
  BY <1>1, NoTapIsTap DEF TapType
<1>7. Sends(i)
  BY <1>1, <1>5, <1>6
  DEF Sends, durable, Types, OpsType, RowType, StepType, FlowType, VisitType, RestType
<1>8. tap.pc = "dispatched" /\ tap.op = o
  BY <1>1
<1>9. QED
  BY <1>7, <1>8 DEF i

LEMMA ToggleFacts ==
  ASSUME Types, NEW o \in Applies, ToggleTap(o)
  PROVE  /\ tap.pc \in Claiming /\ tap.op = o
         /\ \E card \in (steps[o].before \ steps[o].after) \cup (steps[o].after \ steps[o].before) :
              card \in CardIds /\ Sends([op |-> o, card |-> card])
<1>1. PICK card \in (steps[o].before \ steps[o].after) \cup (steps[o].after \ steps[o].before) :
        game' = [game EXCEPT !.input = [op |-> o, card |-> card]]
  BY DEF ToggleTap
<1> DEFINE i == [op |-> o, card |-> card]
<1>2. tap.pc \in Claiming /\ tap.op = o /\ tap' = NoTap /\ UNCHANGED <<durable, visit>>
  BY DEF ToggleTap, Claiming
<1>3. card \in CardIds
  BY <1>1 DEF Types, StepType, StepRows
<1>4. i \in Inputs
  BY <1>3 DEF Inputs
<1>5. game' = [game EXCEPT !.input = i]
  BY <1>1
<1> HIDE DEF i
<1>6. /\ GameType' /\ game'.charged = game.charged /\ game'.gear = game.gear
      /\ game'.input = i /\ game'.page = game.page
  BY <1>4, <1>5 DEF Types, GameType, Games
<1>7. TapType' /\ tap'.pc = None
  BY <1>2, NoTapIsTap DEF TapType
<1>8. Sends(i)
  BY <1>2, <1>6, <1>7
  DEF Sends, durable, Types, OpsType, RowType, StepType, FlowType, VisitType, RestType
<1>9. QED
  BY <1>1, <1>2, <1>3, <1>8 DEF i

\* The tap reaches the game: a purchase is charged, or a card is toggled.
LEMMA LandsFacts ==
  ASSUME Types, InputLands
  PROVE  /\ Types' /\ UNCHANGED <<ops, row, pinned, steps, visit, tap>> /\ game'.input = NoInput
         /\ \/ /\ game.input.op \in Buys /\ game'.gear = game.gear /\ game'.page = "rewards"
               /\ game'.charged = game.charged \cup {game.input.op}
            \/ /\ game.input.op \in Applies /\ game'.gear = Toggled(game.input.card)
               /\ game'.page = game.page /\ game.page = "cards" /\ game'.charged = game.charged
<1> DEFINE i == game.input
           charged == game.charged \cup {i.op}
           gear == Toggled(i.card)
<1>1. /\ i # NoInput /\ game.page = "cards" /\ UNCHANGED <<durable, visit, tap>>
      /\ \/ /\ i.card = None
            /\ game' = [game EXCEPT !.page = "rewards", !.input = NoInput, !.charged = charged]
         \/ /\ i.card # None
            /\ game' = [game EXCEPT !.gear = gear, !.input = NoInput]
  BY DEF InputLands
<1>2. /\ i \in [op : Buys, card : {None}] \/ i \in [op : Applies, card : CardIds]
      /\ NoInput \in Inputs
  BY <1>1 DEF Types, GameType, Games, Inputs
<1>3. /\ i.card = None => i.op \in Buys /\ charged \in SUBSET Buys
      /\ i.card # None => i.op \in Applies /\ i.card \in CardIds
  BY <1>2, IdFacts DEF Types, GameType, Games
<1>4. i.card # None => gear \in SUBSET CardIds
  BY <1>3 DEF Toggled, Types, GameType, Games
<1> HIDE DEF charged, gear, i
<1>5. CASE /\ i.card = None
           /\ game' = [game EXCEPT !.page = "rewards", !.input = NoInput, !.charged = charged]
  <2>1. /\ GameType' /\ game'.gear = game.gear /\ game'.page = "rewards"
        /\ game'.charged = charged /\ game'.input = NoInput
    BY <1>2, <1>3, <1>5 DEF Types, GameType, Games
  <2>2. Types'
    BY <1>1, <2>1 DEF durable, Types, OpsType, RowType, StepType, FlowType, TapType, VisitType, RestType
  <2>3. QED
    BY <1>1, <1>3, <1>5, <2>1, <2>2 DEF durable, charged, i
<1>6. CASE i.card # None /\ game' = [game EXCEPT !.gear = gear, !.input = NoInput]
  <2>1. /\ GameType' /\ game'.gear = gear /\ game'.page = game.page
        /\ game'.charged = game.charged /\ game'.input = NoInput
    BY <1>2, <1>4, <1>6 DEF Types, GameType, Games
  <2>2. Types'
    BY <1>1, <2>1 DEF durable, Types, OpsType, RowType, StepType, FlowType, TapType, VisitType, RestType
  <2>3. QED
    BY <1>1, <1>3, <1>6, <2>1, <2>2 DEF durable, gear, i
<1>7. QED
  BY <1>1, <1>5, <1>6

LEMMA Kinds ==
  ASSUME IInv, [Next]_vars
  PROVE  \/ Wanders \/ InputLands
         \/ \E o \in Ops : Ends(o)
         \/ \E o \in Buys : Prepare(o) \/ RecordAction(o) \/ Dispatch(o) \/ PayTap(o) \/ Settle(o) \/ Income(o)
         \/ \E o \in Buys, verdict \in {"not_charged", "unproven"} : OperatorSettles(o, verdict)
         \/ \E o \in Applies : Pin(o) \/ Verify(o) \/ DispatchToggle(o) \/ ToggleTap(o) \/ KeepProof(o)
         \/ \E o \in Applies, card \in CardIds : ClaimToggle(o, card)
<1> USE DEF IInv, Money
<1>1. CASE Requests
  BY <1>1, SubmitMarks, CancelMarks, StartWanders DEF Requests
<1>2. CASE Scheduling
  <2>1. CASE \E o \in Ops : FinishCancel(o) \/ CancelStale(o)
    BY <2>1, FinishMarks, StaleMarks
  <2>2. CASE \E o \in Ops : Recover(o) \/ Begin(o)
    BY <2>2, AdoptedWanders DEF Recover, Begin, Scan
  <2>3. CASE VisitStopped
    <3>1. visit.op \in Ops
      BY <2>3 DEF VisitStopped, Types, VisitType, Visits
    <3>2. QED
      BY <2>3, <3>1, StopsMark
  <2>4. CASE Session
    BY <2>4, SessionWanders
  <2>5. QED
    BY <1>2, <2>1, <2>2, <2>3, <2>4 DEF Scheduling
<1>3. CASE Walking
  BY <1>3, WalkWanders, HomeWanders, PreflightMarks, PlannerMarks, ContinueWanders DEF Walking
<1>4. CASE Paying \/ Equipping
  <2>1. CASE DispatchFails \/ ToggleRefused
    <3>1. visit.op \in Ops
      BY <2>1 DEF DispatchFails, ToggleRefused, TapInv, Unresolved, None
    <3>2. QED
      BY <2>1, <3>1, StopsMark
  <2>2. CASE \E o \in Buys : Finalize(o)
    BY <2>2, FinalizeMarks, IdFacts
  <2>3. CASE \E o \in Applies : Applied(o)
    BY <2>3, AppliedMarks, IdFacts
  <2>4. QED
    BY <1>4, <2>1, <2>2, <2>3 DEF Paying, Equipping
<1>5. CASE Environment
  BY <1>5, ExpiresWanders, LostWanders, CrashWanders, WalkWanders DEF Environment
<1>6. CASE UNCHANGED vars
  BY <1>6, StutterWanders
<1>7. QED
  BY <1>1, <1>2, <1>3, <1>4, <1>5, <1>6 DEF Next

LEMMA TypesStep ==
  ASSUME IInv, [Next]_vars
  PROVE  Types'
<1>1. Types /\ StepInv /\ TapInv
  BY DEF IInv
<1>2. CASE Wanders \/ \E o \in Ops : Ends(o)
  BY <1>2 DEF Wanders, Ends, Marks
<1>3. CASE InputLands
  BY <1>1, <1>3, LandsFacts
<1>4. CASE \E o \in Buys : Prepare(o) \/ RecordAction(o) \/ Dispatch(o) \/ PayTap(o) \/ Settle(o) \/ Income(o)
  BY <1>1, <1>4, PrepareFacts, RecordFacts, DispatchMarks, PayFacts, SettleFacts, IncomeFacts
  DEF Books, Marks, Sends
<1>5. CASE \E o \in Buys, verdict \in {"not_charged", "unproven"} : OperatorSettles(o, verdict)
  BY <1>1, <1>5, OperatorFacts DEF Books
<1>6. CASE \E o \in Applies : Pin(o) \/ Verify(o) \/ DispatchToggle(o) \/ ToggleTap(o) \/ KeepProof(o)
  BY <1>1, <1>6, PinFacts, VerifyFacts, ToggleMarks, ToggleFacts, KeepMarks DEF Sends, Marks
<1>7. CASE \E o \in Applies, card \in CardIds : ClaimToggle(o, card)
  BY <1>1, <1>7, ClaimFacts
<1>8. QED
  BY <1>2, <1>3, <1>4, <1>5, <1>6, <1>7, Kinds
-----------------------------------------------------------------------------
(* The money of a cycle.                                                   *)

\* The purchases of a cycle that cost gems, or may.
Costly(c) == {o \in Buys : ops[o].cycle = c /\ Linked(o) /\ row[o].spent # 0}

LEMMA CostlyIsFinite == \A c : IsFiniteSet(Costly(c)) /\ Cardinality(Costly(c)) \in Nat
<1>1. ASSUME NEW c PROVE IsFiniteSet(Costly(c))
  BY CardsAssumption, FS_Subset DEF Costly
<1>2. QED
  BY <1>1, FS_CardinalityType

LEMMA CapShrinks ==
  ASSUME CapInv, \A c \in 0..MaxCycles : Costly(c)' \subseteq Costly(c)
  PROVE  CapInv'
<1> SUFFICES ASSUME NEW c \in 0..MaxCycles PROVE Price * Cardinality(Costly(c)') <= Cap
  BY DEF CapInv, Committed, Costly
<1>1. Price * Cardinality(Costly(c)) <= Cap
  BY DEF CapInv, Committed, Costly
<1>2. Cardinality(Costly(c)') <= Cardinality(Costly(c)) /\ IsFiniteSet(Costly(c)')
  BY CostlyIsFinite, FS_Subset
<1>3. Cardinality(Costly(c)') \in Nat /\ Cardinality(Costly(c)) \in Nat /\ Price \in Nat /\ Cap \in Nat
  BY <1>2, CostlyIsFinite, FS_CardinalityType, CardsAssumption
<1>4. \A a, b, p, m \in Nat : a <= b /\ p * b <= m => p * a <= m
  OBVIOUS
<1>5. QED
  BY <1>1, <1>2, <1>3, <1>4

LEMMA CapGrows ==
  ASSUME CapInv, NEW o \in Buys, o \notin Costly(ops[o].cycle),
         Committed(ops[o].cycle) + Price <= Cap,
         \A c \in 0..MaxCycles : Costly(c)' \subseteq Costly(c) \cup IF c = ops[o].cycle THEN {o} ELSE {}
  PROVE  CapInv'
<1> SUFFICES ASSUME NEW c \in 0..MaxCycles PROVE Price * Cardinality(Costly(c)') <= Cap
  BY DEF CapInv, Committed, Costly
<1>n. Price \in Nat /\ Cap \in Nat
  BY CardsAssumption
<1>1. Price * Cardinality(Costly(c)) <= Cap
  BY DEF CapInv, Committed, Costly
<1>2. CASE c # ops[o].cycle
  <2>1. Cardinality(Costly(c)') <= Cardinality(Costly(c)) /\ IsFiniteSet(Costly(c)')
    BY <1>2, CostlyIsFinite, FS_Subset
  <2>2. Cardinality(Costly(c)') \in Nat /\ Cardinality(Costly(c)) \in Nat
    BY <2>1, CostlyIsFinite, FS_CardinalityType
  <2>3. \A a, b, p, m \in Nat : a <= b /\ p * b <= m => p * a <= m
    OBVIOUS
  <2>4. QED
    BY <1>n, <1>1, <2>1, <2>2, <2>3
<1>3. CASE c = ops[o].cycle
  <2> DEFINE S == Costly(c) \cup {o}
  <2>1. IsFiniteSet(S) /\ Cardinality(S) = Cardinality(Costly(c)) + 1
    BY <1>3, CostlyIsFinite, FS_AddElement
  <2>2. Cardinality(Costly(c)') <= Cardinality(S) /\ IsFiniteSet(Costly(c)')
    BY <1>3, <2>1, FS_Subset
  <2>3. Cardinality(Costly(c)') \in Nat /\ Cardinality(Costly(c)) \in Nat
    BY <2>2, CostlyIsFinite, FS_CardinalityType
  <2>4. Price * Cardinality(Costly(c)) + Price <= Cap
    BY <1>3 DEF Committed, Costly
  <2>5. \A a, b, p, m \in Nat : a <= b + 1 /\ p * b + p <= m => p * a <= m
    <3>1. \A a, b, p \in Nat : a <= b + 1 => p * a <= p * (b + 1)
      OBVIOUS
    <3>2. \A b, p \in Nat : p * (b + 1) = p * b + p
      OBVIOUS
    <3>3. QED
      BY <3>1, <3>2
  <2>6. QED
    BY <1>n, <2>1, <2>2, <2>3, <2>4, <2>5
<1>4. QED
  BY <1>2, <1>3
-----------------------------------------------------------------------------
(* Each kind of step keeps the invariant.                                  *)

\* With the lock free there is nothing it holds still.
LEMMA FreeTap == tap'.pc = None => TapInv'
BY DEF TapInv, Charging, Claiming, Toggles, None

LEMMA WandersKeep ==
  ASSUME IInv, Wanders
  PROVE  Money' /\ TapInv' /\ StepInv' /\ CapInv'
<1> USE DEF Wanders
<1>1. \A o \in Ops : (game'.input.op = o => game.input.op = o) /\ o # None
  BY IdFacts DEF NoInput
<1>2. \A o \in Buys : o \in Ops
  BY IdFacts
<1>3. \A o \in Applies : o \in Ops
  BY IdFacts
<1>4. RowInv'
  BY DEF IInv, Money, RowInv, Linked, Is, InPlay, Unresolved
<1>5. ChargeInv'
  BY <1>1, <1>2 DEF IInv, Money, ChargeInv, Linked, Is, InPlay, Unresolved
<1>6. BookedTruly'
  BY <1>1, <1>2 DEF IInv, Money, BookedTruly, Is
<1>7. TapInv'
  <2>1. CASE tap'.pc = None
    BY <2>1, FreeTap
  <2>2. CASE tap' = tap /\ visit'.op = visit.op
    <3>1. game.input.op \notin Buys => game'.input.op \notin Buys
      BY <1>1, <1>2
    <3>2. game.input.op \notin Applies => game'.input.op \notin Applies
      BY <1>1, <1>3
    <3>3. QED
      BY <2>2, <3>1, <3>2 DEF IInv, TapInv, Unresolved, Is, Stepped
  <2>3. QED
    BY <2>1, <2>2
<1>8. StepInv'
  <2>1. \A o \in Applies : game'.input.op = o => game'.input = game.input
    BY <1>1, <1>3 DEF NoInput
  <2>2. QED
    BY <2>1 DEF IInv, StepInv, Stepped, Is, Toggled
<1>9. CapInv'
  <2>1. \A c \in 0..MaxCycles : Costly(c)' = Costly(c)
    BY DEF Costly, Linked
  <2>2. QED
    BY <2>1, CapShrinks DEF IInv
<1>10. QED
  BY <1>4, <1>5, <1>6, <1>7, <1>8, <1>9 DEF Money

LEMMA MarksKeep ==
  ASSUME IInv, NEW o \in Ops, NEW s, Marks(o, s)
  PROVE  Money' /\ StepInv' /\ CapInv'
<1>1. /\ UNCHANGED <<row, pinned, steps, game>> /\ ~Is(o, Terminal)
      /\ \A p \in Ops : p # o => ops'[p] = ops[p]
      /\ ops'[o].status = s
      /\ ops'[o].cycle = ops[o].cycle \/ ~Linked(o)
      /\ s \in {None, "queued"} => Is(o, {None, s})
      /\ Stepped(o) => s \in Claimed \cup Terminal
      /\ s \in Terminal => MayEnd(o, s)
  BY DEF Marks
<1>2. Buys \subseteq Ops /\ Applies \subseteq Ops
  BY IdFacts
<1>3. RowInv /\ ChargeInv /\ BookedTruly /\ StepInv
  BY DEF IInv, Money
<1>4. \A p \in Buys : Linked(p)' <=> Linked(p)
  BY <1>1 DEF Linked
<1>5. \A p \in Buys : InPlay(p)' => InPlay(p)
  BY <1>1, <1>2, <1>3, <1>4 DEF InPlay, Unresolved, Is, RowInv
<1>6. \A p \in Buys : p # o => \A S : Is(p, S)' <=> Is(p, S)
  BY <1>1, <1>2 DEF Is
<1>7. \A S : Is(o, S)' <=> s \in S
  BY <1>1 DEF Is
<1>8. RowInv'
  <2>1. SUFFICES ASSUME NEW p \in Buys
                 PROVE  /\ Linked(p)' => ~Is(p, {None, "queued"})'
                        /\ row'[p].stage # "resolved" => row'[p].spent = Unknown
                        /\ Is(p, Terminal)' /\ Linked(p)' => Is(p, {"confirmed"})' /\ row'[p].stage = "resolved"
                        /\ \A q \in Buys : InPlay(p)' /\ InPlay(q)' => p = q
    BY DEF RowInv
  <2>2. \A q \in Buys : InPlay(p)' /\ InPlay(q)' => p = q
    BY <1>3, <1>5 DEF RowInv
  <2>3. CASE p # o
    BY <1>1, <1>3, <1>4, <1>6, <2>2, <2>3 DEF RowInv
  <2>4. CASE p = o
    <3>1. Linked(o) => s \notin {None, "queued"}
      BY <1>1, <1>3, <2>4 DEF RowInv, Is
    <3>2. s \in Terminal /\ Linked(o) => s = "confirmed" /\ row[o].stage = "resolved"
      BY <1>1, <2>4 DEF MayEnd
    <3>3. QED
      BY <1>1, <1>3, <1>4, <1>7, <2>2, <2>4, <3>1, <3>2 DEF RowInv
  <2>5. QED
    BY <2>3, <2>4
<1>9. ChargeInv'
  BY <1>1, <1>3, <1>5 DEF ChargeInv
<1>10. BookedTruly'
  <2>1. SUFFICES ASSUME NEW p \in Buys
                 PROVE  /\ Is(p, {"confirmed"})' => p \in game.charged /\ row[p].booked /\ row[p].spent = Price
                        /\ Is(p, Terminal \ {"confirmed"})' => p \notin game.charged /\ game.input.op # p
    BY <1>1 DEF BookedTruly
  <2>2. CASE p # o
    BY <1>3, <1>6, <2>2 DEF BookedTruly
  <2>3. CASE p = o
    <3>1. "confirmed" \in Terminal
      BY DEF Terminal
    <3>2. ~Linked(p) => p \notin game.charged /\ game.input.op # p
      BY <1>3 DEF ChargeInv, Linked, None
    <3>3. QED
      BY <1>1, <1>7, <2>3, <3>1, <3>2 DEF MayEnd
  <2>4. QED
    BY <2>2, <2>3
<1>11. StepInv'
  <2>1. SUFFICES ASSUME NEW p \in Applies
                 PROVE  /\ p \in pinned => ~Is(p, {None, "queued"})'
                        /\ Stepped(p) => Is(p, Claimed \cup Terminal)' /\ (Is(p, Terminal)' => steps[p].verified)
    BY <1>1, <1>3 DEF StepInv, Stepped, Toggled
  <2>2. CASE p # o
    <3>1. ops'[p] = ops[p]
      BY <1>1, <1>2, <2>2
    <3>2. QED
      BY <1>3, <3>1 DEF StepInv, Is
  <2>3. CASE p = o
    BY <1>1, <1>3, <1>7, <2>3 DEF StepInv, MayEnd, Is
  <2>4. QED
    BY <2>2, <2>3
<1>12. CapInv'
  <2>1. \A c \in 0..MaxCycles : Costly(c)' \subseteq Costly(c)
    BY <1>1, <1>2, <1>4 DEF Costly
  <2>2. QED
    BY <2>1, CapShrinks DEF IInv
<1>13. QED
  BY <1>8, <1>9, <1>10, <1>11, <1>12 DEF Money

LEMMA BooksFrame ==
  ASSUME IInv, NEW o \in Buys, NEW r, Books(o, r)
  PROVE  /\ StepInv'
         /\ row'[o] = r /\ \A p \in Buys : p # o => row'[p] = row[p]
         /\ \A p \in Ops : \A S : Is(p, S)' <=> Is(p, S)
         /\ tap' = tap /\ (tap.pc \in Charging => tap.op # o) => TapInv'
<1>1. row \in [Buys -> BuyRows]
  BY DEF IInv, Types, RowType
<1>2. row'[o] = r /\ \A p \in Buys : p # o => row'[p] = row[p]
  BY <1>1 DEF Books
<1>3. \A p \in Ops : \A S : Is(p, S)' <=> Is(p, S)
  BY DEF Books, Is
<1>4. StepInv'
  BY DEF IInv, Books, StepInv, Stepped, Is, Toggled
<1>5. ASSUME tap' = tap, tap.pc \in Charging => tap.op # o PROVE TapInv'
  BY <1>2, <1>5 DEF IInv, Books, TapInv, Unresolved, Is, Stepped
<1>6. QED
  BY <1>2, <1>3, <1>4, <1>5

\* A row that is written and stays what it was to money: linked, open or not,
\* and with the same amount.
LEMMA BooksSame ==
  ASSUME IInv, NEW o \in Buys, NEW r, Books(o, r), Linked(o),
         r.spent = row[o].spent, r.booked = row[o].booked, r.stage # None,
         r.stage = "resolved" <=> row[o].stage = "resolved",
         row[o].stage = "acted" => r.stage = "acted"
  PROVE  Money' /\ CapInv'
<1>1. /\ row'[o] = r /\ \A p \in Buys : p # o => row'[p] = row[p]
      /\ \A p \in Ops : \A S : Is(p, S)' <=> Is(p, S)
  BY BooksFrame
<1>2. Buys \subseteq Ops /\ UNCHANGED ops
  BY IdFacts DEF Books
<1>3. \A p \in Buys : Linked(p)' <=> Linked(p)
  BY <1>1 DEF Linked
<1>4. \A p \in Buys : InPlay(p)' <=> InPlay(p)
  BY <1>1, <1>2, <1>3 DEF InPlay, Unresolved
<1>5. RowInv'
  BY <1>1, <1>2, <1>3, <1>4 DEF IInv, Money, RowInv
<1>6. ChargeInv'
  BY <1>1, <1>4 DEF IInv, Money, ChargeInv, Books
<1>7. BookedTruly'
  BY <1>1, <1>2 DEF IInv, Money, BookedTruly, Books
<1>8. CapInv'
  <2>1. \A c \in 0..MaxCycles : Costly(c)' \subseteq Costly(c)
    BY <1>1, <1>2, <1>3 DEF Costly
  <2>2. QED
    BY <2>1, CapShrinks DEF IInv
<1>9. QED
  BY <1>5, <1>6, <1>7, <1>8 DEF Money

LEMMA PrepareKeeps ==
  ASSUME IInv, NEW o \in Buys, Prepare(o)
  PROVE  Money' /\ TapInv' /\ StepInv' /\ CapInv'
<1> DEFINE r == [row[o] EXCEPT !.stage = "intended"]
<1>1. /\ Books(o, r) /\ Planning(o) /\ Is(o, {"preflight"}) /\ MayPrepare(o)
      /\ tap'.pc = "prepared" /\ tap'.op = o /\ UNCHANGED game
  BY PrepareFacts DEF IInv
<1>2. r.stage = "intended" /\ r.spent = row[o].spent /\ row[o].stage = None /\ row[o].spent = Unknown
  <2>1. row[o] \in BuyRows /\ ~Linked(o)
    BY <1>1 DEF IInv, Types, RowType, Planning
  <2>2. row[o].stage = None
    BY <2>1 DEF Linked
  <2>3. row[o].spent = Unknown
    BY <2>2 DEF IInv, Money, RowInv, None
  <2>4. QED
    BY <2>1, <2>2, <2>3 DEF BuyRows
<1> HIDE DEF r
<1>3. /\ StepInv' /\ row'[o] = r /\ \A p \in Buys : p # o => row'[p] = row[p]
      /\ \A p \in Ops : \A S : Is(p, S)' <=> Is(p, S)
  BY <1>1, BooksFrame
<1>4. Buys \subseteq Ops /\ UNCHANGED ops /\ UNCHANGED visit
  BY <1>1, IdFacts DEF Books
<1>5. o \in Unresolved /\ ~Is(o, Terminal) /\ ~Is(o, {None, "queued"}) /\ ~Is(o, {"confirmed"})
  BY <1>1, <1>4, StatusFacts DEF Unresolved, Is, None, Terminal
<1>6. \A p \in Buys : InPlay(p)' => p = o
  <2>1. SUFFICES ASSUME NEW p \in Buys, p # o, InPlay(p)' PROVE FALSE
    OBVIOUS
  <2>2. InPlay(p)
    BY <1>3, <1>4, <2>1 DEF InPlay, Linked, Unresolved
  <2>3. p \in Unresolved \ {o} /\ Linked(p)
    BY <2>1, <2>2 DEF InPlay
  <2>4. Is(p, {"queued"})
    BY <1>1, <2>3 DEF MayPrepare
  <2>5. QED
    BY <2>3, <2>4 DEF IInv, Money, RowInv, Is
<1>7. RowInv'
  BY <1>2, <1>3, <1>4, <1>5, <1>6 DEF IInv, Money, RowInv, Linked
<1>8. game.page = "cards" /\ \A p \in Buys : game.input.op # p /\ (p = o => p \notin game.charged)
  BY <1>1, <1>2 DEF IInv, Money, ChargeInv, MayPrepare, Planning, None
<1>9. ChargeInv'
  BY <1>1, <1>3, <1>8 DEF IInv, Money, ChargeInv
<1>10. BookedTruly'
  BY <1>1, <1>3, <1>4, <1>5 DEF IInv, Money, BookedTruly, Terminal, Is
<1>11. TapInv'
  <2>1. visit'.op = o /\ ~ops'[o].cancel /\ o \in Unresolved'
    BY <1>1, <1>4, <1>5 DEF Planning, Working, Visiting, MayPrepare, Unresolved, Is
  <2>2. QED
    BY <1>1, <1>2, <1>3, <1>8, <2>1 DEF TapInv, Charging, Claiming, Toggles
<1>12. CapInv'
  <2>1. Committed(ops[o].cycle) + Price <= Cap
    BY <1>1 DEF MayPrepare
  <2>2. o \notin Costly(ops[o].cycle)
    BY <1>2 DEF Costly, Linked
  <2>3. \A c \in 0..MaxCycles : Costly(c)' \subseteq Costly(c) \cup IF c = ops[o].cycle THEN {o} ELSE {}
    BY <1>3, <1>4 DEF Costly, Linked
  <2>4. QED
    BY <2>1, <2>2, <2>3, CapGrows DEF IInv
<1>13. QED
  BY <1>3, <1>7, <1>9, <1>10, <1>11, <1>12 DEF Money

LEMMA RecordKeeps ==
  ASSUME IInv, NEW o \in Buys, RecordAction(o)
  PROVE  Money' /\ TapInv' /\ StepInv' /\ CapInv'
<1> DEFINE r == [row[o] EXCEPT !.stage = "acted", !.acted = TRUE]
<1>1. /\ Books(o, r) /\ tap.pc = "prepared" /\ tap.op = o /\ tap'.pc = "acted" /\ tap'.op = o
      /\ UNCHANGED game
  BY RecordFacts DEF IInv
<1>2. /\ r.stage = "acted" /\ r.spent = row[o].spent /\ r.booked = row[o].booked
  BY DEF IInv, Types, RowType, BuyRows
<1> HIDE DEF r
<1>3. /\ row[o].stage = "intended" /\ visit.op = o /\ o \in Unresolved /\ ~ops[o].cancel
      /\ game.input.op \notin Buys /\ game.page # "rewards"
  BY <1>1 DEF IInv, TapInv, Charging, None
<1>4. Linked(o)
  BY <1>3 DEF Linked, None
<1>5. Money' /\ CapInv'
  BY <1>1, <1>2, <1>3, <1>4, BooksSame DEF None
<1>6. StepInv' /\ row'[o] = r
  BY <1>1, BooksFrame
<1>7. TapInv'
  <2>1. o \in Unresolved' /\ visit'.op = o /\ ~ops'[o].cancel
    BY <1>1, <1>3 DEF Books, Unresolved, Is
  <2>2. QED
    BY <1>1, <1>2, <1>3, <1>6, <2>1 DEF TapInv, Charging, Claiming, Toggles
<1>8. QED
  BY <1>5, <1>6, <1>7

LEMMA IncomeKeeps ==
  ASSUME IInv, NEW o \in Buys, Income(o)
  PROVE  Money' /\ TapInv' /\ StepInv' /\ CapInv'
<1> DEFINE r == [row[o] EXCEPT !.drift = TRUE]
<1>1. Books(o, r) /\ tap' = tap /\ Linked(o)
  BY IncomeFacts DEF IInv, Income
<1>2. r.stage = row[o].stage /\ r.spent = row[o].spent /\ r.booked = row[o].booked
  BY DEF IInv, Types, RowType, BuyRows
<1> HIDE DEF r
<1>3. Money' /\ CapInv'
  BY <1>1, <1>2, BooksSame DEF Linked
<1>4. StepInv' /\ row'[o] = r /\ \A p \in Buys : p # o => row'[p] = row[p]
  BY <1>1, BooksFrame
<1>5. \A p \in Buys : row'[p].stage = row[p].stage
  BY <1>2, <1>4
<1>6. TapInv'
  BY <1>1, <1>5 DEF IInv, Books, TapInv, Unresolved, Is, Stepped
<1>7. QED
  BY <1>3, <1>4, <1>6

LEMMA SettleKeeps ==
  ASSUME IInv, NEW o \in Buys, Settle(o)
  PROVE  Money' /\ TapInv' /\ StepInv' /\ CapInv'
<1> DEFINE r == [row[o] EXCEPT !.stage = "resolved", !.spent = Price, !.booked = TRUE]
<1>1. /\ Working(o) /\ Linked(o) /\ game.page = "rewards" /\ UNCHANGED game
      /\ tap'.pc = "settled" /\ tap'.op = o
      /\ \/ row[o].stage = "acted" /\ Books(o, r)
         \/ Types' /\ UNCHANGED <<ops, row, pinned, steps, visit>>
  BY SettleFacts DEF IInv
<1>2. visit.op = o /\ ~Is(o, Terminal) /\ o \in Ops
  BY <1>1, IdFacts DEF Working, Visiting, Returning
<1>3. RowInv /\ ChargeInv /\ BookedTruly /\ StepInv /\ CapInv
  BY DEF IInv, Money
<1>4. o \in Unresolved /\ InPlay(o)
  BY <1>1, <1>2, <1>3 DEF RowInv, InPlay, Unresolved, Is
<1>5. o \in game.charged /\ game.input.op # o
  BY <1>1, <1>3, <1>4 DEF ChargeInv
<1>6. CASE Types' /\ UNCHANGED <<ops, row, pinned, steps, visit>>
  <2>1. RowInv' /\ ChargeInv' /\ BookedTruly'
    BY <1>1, <1>3, <1>6 DEF RowInv, ChargeInv, BookedTruly, Linked, Is, InPlay, Unresolved
  <2>2. StepInv'
    BY <1>1, <1>3, <1>6 DEF StepInv, Stepped, Is, Toggled
  <2>3. \A c \in 0..MaxCycles : Costly(c)' \subseteq Costly(c)
    BY <1>6 DEF Costly, Linked
  <2>4. TapInv'
    BY <1>1, <1>2, <1>4, <1>5, <1>6 DEF TapInv, Charging, Claiming, Toggles, Unresolved, Is
  <2>5. QED
    BY <1>3, <2>1, <2>2, <2>3, <2>4, CapShrinks DEF Money
<1>7. CASE row[o].stage = "acted" /\ Books(o, r)
  <2>1. r.stage = "resolved" /\ r.spent = Price /\ r.booked /\ row[o].spent = Unknown
    BY <1>3, <1>7 DEF IInv, Types, RowType, BuyRows, RowInv
  <2> HIDE DEF r
  <2>2. /\ StepInv' /\ row'[o] = r /\ \A p \in Buys : p # o => row'[p] = row[p]
        /\ \A p \in Ops : \A S : Is(p, S)' <=> Is(p, S)
    BY <1>7, BooksFrame
  <2>3. Buys \subseteq Ops /\ UNCHANGED <<ops, visit>>
    BY <1>7, IdFacts DEF Books
  <2>4. \A p \in Buys : Linked(p)' <=> Linked(p)
    BY <1>7, <2>1, <2>2 DEF Linked, None
  <2>5. \A p \in Buys : InPlay(p)' <=> InPlay(p)
    BY <2>2, <2>3, <2>4 DEF InPlay, Unresolved
  <2>6. RowInv'
    BY <1>2, <1>3, <2>1, <2>2, <2>3, <2>4, <2>5 DEF RowInv
  <2>7. ChargeInv'
    BY <1>1, <1>3, <1>5, <2>1, <2>2, <2>5 DEF ChargeInv
  <2>8. BookedTruly'
    <3>1. ~Is(o, {"confirmed"})
      BY <1>2 DEF Is, Terminal
    <3>2. ~Is(o, Terminal \ {"confirmed"})
      BY <1>2 DEF Is
    <3>3. QED
      BY <1>1, <1>3, <2>2, <2>3, <3>1, <3>2 DEF BookedTruly
  <2>9. \A c \in 0..MaxCycles : Costly(c)' \subseteq Costly(c)
    <3>1. row[o].spent # 0
      BY <2>1 DEF Unknown
    <3>2. QED
      BY <1>1, <2>2, <2>3, <2>4, <3>1 DEF Costly
  <2>10. TapInv'
    BY <1>1, <1>2, <1>4, <1>5, <2>3 DEF TapInv, Charging, Claiming, Toggles, Unresolved, Is
  <2>11. QED
    BY <1>3, <2>2, <2>6, <2>7, <2>8, <2>9, <2>10, CapShrinks DEF Money
<1>8. QED
  BY <1>1, <1>6, <1>7

LEMMA OperatorKeeps ==
  ASSUME IInv, NEW o \in Buys, NEW verdict \in {"not_charged", "unproven"},
         OperatorSettles(o, verdict)
  PROVE  Money' /\ TapInv' /\ StepInv' /\ CapInv'
<1>1. PICK amount \in {0, Unknown} :
        /\ Books(o, [row[o] EXCEPT !.stage = "resolved", !.spent = amount])
        /\ row[o].stage \in {"intended", "acted"} /\ game.input.op # o
        /\ amount = 0 => o \notin game.charged
        /\ tap' = tap /\ (tap.pc \in Charging => tap.op # o) /\ UNCHANGED game
  BY OperatorFacts DEF IInv
<1> DEFINE r == [row[o] EXCEPT !.stage = "resolved", !.spent = amount]
<1>2. Books(o, r)
  BY <1>1
<1>3. RowInv /\ ChargeInv /\ BookedTruly /\ CapInv
  BY DEF IInv, Money
<1>4. /\ r.stage = "resolved" /\ r.spent = amount /\ r.booked = row[o].booked
      /\ row[o].spent = Unknown /\ Linked(o)
  BY <1>1, <1>3 DEF IInv, Types, RowType, BuyRows, RowInv, Linked, None
<1> HIDE DEF r
<1>5. /\ StepInv' /\ row'[o] = r /\ \A p \in Buys : p # o => row'[p] = row[p]
      /\ \A p \in Ops : \A S : Is(p, S)' <=> Is(p, S)
  BY <1>2, BooksFrame
<1>6. Buys \subseteq Ops /\ UNCHANGED ops
  BY <1>2, IdFacts DEF Books
<1>7. \A p \in Buys : Linked(p)' <=> Linked(p)
  BY <1>4, <1>5 DEF Linked, None
<1>8. \A p \in Buys : InPlay(p)' <=> InPlay(p)
  BY <1>5, <1>6, <1>7 DEF InPlay, Unresolved
<1>9. ~Is(o, Terminal)
  BY <1>1, <1>3, <1>4 DEF RowInv
<1>10. RowInv'
  BY <1>3, <1>4, <1>5, <1>6, <1>7, <1>8, <1>9 DEF RowInv
<1>11. ChargeInv'
  BY <1>1, <1>3, <1>4, <1>5, <1>7, <1>8 DEF ChargeInv
<1>12. BookedTruly'
  <2>1. ~Is(o, {"confirmed"}) /\ ~Is(o, Terminal \ {"confirmed"})
    BY <1>9 DEF Is, Terminal
  <2>2. QED
    BY <1>1, <1>3, <1>5, <1>6, <2>1 DEF BookedTruly
<1>13. CapInv'
  <2>1. row[o].spent # 0
    BY <1>4 DEF Unknown
  <2>2. \A c \in 0..MaxCycles : Costly(c)' \subseteq Costly(c)
    BY <1>4, <1>5, <1>6, <1>7, <2>1 DEF Costly
  <2>3. QED
    BY <1>3, <2>2, CapShrinks
<1>14. TapInv'
  BY <1>1, <1>2, BooksFrame
<1>15. Money'
  BY <1>10, <1>11, <1>12 DEF Money
<1>16. StepInv'
  BY <1>2, BooksFrame, Zenon
<1>17. QED
  BY <1>13, <1>14, <1>15, <1>16

\* A step that touches no purchase.
LEMMA MoneyFrame ==
  ASSUME IInv, UNCHANGED <<row, game>>, \A p \in Buys : ops'[p] = ops[p]
  PROVE  Money' /\ CapInv'
<1>1. RowInv /\ ChargeInv /\ BookedTruly /\ CapInv /\ Buys \subseteq Ops
  BY IdFacts DEF IInv, Money
<1>2. \A p \in Buys : (Linked(p)' <=> Linked(p)) /\ \A S : Is(p, S)' <=> Is(p, S)
  BY DEF Linked, Is
<1>3. \A p \in Buys : InPlay(p)' <=> InPlay(p)
  BY <1>1, <1>2 DEF InPlay, Unresolved
<1>4. RowInv'
  BY <1>1, <1>2, <1>3 DEF RowInv
<1>5. ChargeInv'
  BY <1>1, <1>3 DEF ChargeInv
<1>6. BookedTruly'
  BY <1>1, <1>2 DEF BookedTruly
<1>7. \A c \in 0..MaxCycles : Costly(c)' \subseteq Costly(c)
  BY <1>2 DEF Costly
<1>8. QED
  BY <1>1, <1>4, <1>5, <1>6, <1>7, CapShrinks DEF Money

LEMMA PinKeeps ==
  ASSUME IInv, NEW o \in Applies, Pin(o)
  PROVE  Money' /\ TapInv' /\ StepInv' /\ CapInv'
<1>1. /\ pinned' = pinned \cup {o} /\ Is(o, {"preflight"})
      /\ UNCHANGED <<ops, row, steps, visit, tap, game>>
  BY PinFacts DEF IInv
<1>2. ~Is(o, {None, "queued"})
  BY <1>1 DEF Is, None
<1>3. StepInv'
  BY <1>1, <1>2 DEF IInv, StepInv, Stepped, Is, Toggled
<1>4. TapInv'
  BY <1>1 DEF IInv, TapInv, Unresolved, Is, Stepped
<1>5. QED
  BY <1>1, <1>3, <1>4, MoneyFrame

LEMMA VerifyKeeps ==
  ASSUME IInv, NEW o \in Applies, Verify(o)
  PROVE  Money' /\ TapInv' /\ StepInv' /\ CapInv'
<1>1. /\ UNCHANGED <<ops, row, pinned, visit, tap, game>>
      /\ steps'[o].verified /\ steps'[o].n = steps[o].n /\ steps'[o].before = steps[o].before
      /\ steps'[o].after = steps[o].after /\ game.gear = steps[o].after /\ tap.pc = None
      /\ \A p \in Applies : p # o => steps'[p] = steps[p]
  BY VerifyFacts DEF IInv
<1>2. \A card : Toggled(card) # game.gear
  BY DEF Toggled
<1>3. game.input.op # o
  BY <1>1, <1>2 DEF IInv, StepInv
<1>4. StepInv'
  <2>1. SUFFICES ASSUME NEW p \in Applies
                 PROVE  /\ p \in pinned => ~Is(p, {None, "queued"})
                        /\ Stepped(p)' =>
                             /\ p \in pinned /\ Is(p, Claimed \cup Terminal)
                             /\ Is(p, Terminal) => steps'[p].verified
                             /\ \E c \in CardIds : steps'[p].after = Flipped(steps'[p].before, c)
                        /\ ~Stepped(p)' => steps'[p].verified
                        /\ game.input.op = p =>
                             /\ ~steps'[p].verified /\ steps'[p].before = game.gear
                             /\ Toggled(game.input.card) = steps'[p].after
    BY <1>1 DEF StepInv, Is, Toggled
  <2>2. /\ steps'[p].before = steps[p].before /\ steps'[p].after = steps[p].after
        /\ Stepped(p)' <=> Stepped(p)
        /\ steps[p].verified => steps'[p].verified
    BY <1>1 DEF Stepped
  <2>3. /\ p \in pinned => ~Is(p, {None, "queued"})
        /\ Stepped(p) =>
             /\ p \in pinned /\ Is(p, Claimed \cup Terminal)
             /\ Is(p, Terminal) => steps[p].verified
             /\ \E c \in CardIds : steps[p].after = Flipped(steps[p].before, c)
        /\ ~Stepped(p) => steps[p].verified
    BY DEF IInv, StepInv
  <2>4. game.input.op = p =>
          /\ ~steps'[p].verified /\ steps'[p].before = game.gear
          /\ Toggled(game.input.card) = steps'[p].after
    BY <1>1, <1>3 DEF IInv, StepInv
  <2>5. QED
    BY <2>2, <2>3, <2>4
<1>5. QED
  BY <1>1, <1>4, MoneyFrame, FreeTap

LEMMA ClaimKeeps ==
  ASSUME IInv, NEW o \in Applies, NEW card \in CardIds, ClaimToggle(o, card)
  PROVE  Money' /\ TapInv' /\ StepInv' /\ CapInv'
<1>1. /\ UNCHANGED <<ops, row, pinned, visit, game>>
      /\ visit.op = o /\ o \in Unresolved /\ o \in pinned
      /\ Is(o, Claimed) /\ ~ops[o].cancel /\ game.input.op \notin Applies
      /\ tap'.pc \in Claiming /\ tap'.op = o
      /\ \A p \in Applies : p # o => steps'[p] = steps[p]
      /\ steps'[o].n > 0 /\ ~steps'[o].verified /\ steps'[o].before = game.gear
      /\ steps'[o].after = Toggled(card)
  BY ClaimFacts DEF IInv
<1>2. StepInv
  BY DEF IInv
<1>3. Money' /\ CapInv'
  BY <1>1, MoneyFrame
<1>4. steps'[o].after = Flipped(steps'[o].before, card)
  BY <1>1 DEF Flipped, Toggled
<1>5. (Stepped(o) /\ Is(o, Claimed) /\ ~Is(o, Terminal) /\ ~Is(o, {None, "queued"}) /\ o \in Unresolved)'
  BY <1>1, StatusFacts DEF Stepped, Is, Unresolved
<1>6. StepInv'
  <2>1. SUFFICES ASSUME NEW p \in Applies
                 PROVE  /\ p \in pinned => ~Is(p, {None, "queued"})'
                        /\ Stepped(p)' =>
                             /\ p \in pinned /\ Is(p, Claimed \cup Terminal)'
                             /\ Is(p, Terminal)' => steps'[p].verified
                             /\ \E c \in CardIds : steps'[p].after = Flipped(steps'[p].before, c)
                        /\ ~Stepped(p)' => steps'[p].verified
    BY <1>1 DEF StepInv
  <2>2. CASE p = o
    BY <1>1, <1>4, <1>5, <2>2 DEF Is
  <2>3. CASE p # o
    <3>1. steps'[p] = steps[p] /\ ops'[p] = ops[p]
      BY <1>1, <2>3
    <3>2. QED
      BY <1>1, <1>2, <3>1 DEF StepInv, Stepped, Is
  <2>4. QED
    BY <2>2, <2>3
<1>7. TapInv'
  BY <1>1, <1>5 DEF TapInv, Charging, Claiming, Toggles, None
<1>8. QED
  BY <1>3, <1>6, <1>7

\* A tap that is sent: the only one, and none of the others is in doubt.
LEMMA PayKeeps ==
  ASSUME IInv, NEW o \in Buys, PayTap(o)
  PROVE  Money' /\ TapInv' /\ StepInv' /\ CapInv'
<1>1. /\ tap'.pc = None /\ UNCHANGED <<ops, row, pinned, steps, visit>>
      /\ game'.charged = game.charged /\ game'.gear = game.gear
      /\ game'.input.op = o /\ game'.page = game.page
      /\ tap.pc = "dispatched" /\ tap.op = o
  <2>1. Types /\ [op |-> o, card |-> None].op = o
    BY DEF IInv
  <2>2. Sends([op |-> o, card |-> None]) /\ tap.pc = "dispatched" /\ tap.op = o
    BY <2>1, PayFacts
  <2>3. QED
    BY <2>1, <2>2 DEF Sends
<1>2. row[o].stage = "acted" /\ game.page # "rewards" /\ o \in Unresolved
  BY <1>1 DEF IInv, TapInv, Charging, None
<1>3. RowInv /\ ChargeInv /\ BookedTruly /\ StepInv /\ CapInv /\ \A p \in Applies : p # o
  BY IdFacts DEF IInv, Money
<1>4. RowInv'
  BY <1>1, <1>3 DEF RowInv, Linked, Is, InPlay, Unresolved
<1>5. ChargeInv'
  BY <1>1, <1>2, <1>3 DEF ChargeInv
<1>6. BookedTruly'
  <2>1. ~Is(o, Terminal \ {"confirmed"})
    BY <1>2 DEF Unresolved, Is
  <2>2. QED
    BY <1>1, <1>3, <2>1 DEF BookedTruly, Is
<1>7. StepInv'
  BY <1>1, <1>3 DEF StepInv, Stepped, Is
<1>8. \A c \in 0..MaxCycles : Costly(c)' \subseteq Costly(c)
  BY <1>1 DEF Costly, Linked
<1>9. QED
  BY <1>1, <1>3, <1>4, <1>5, <1>6, <1>7, <1>8, CapShrinks, FreeTap DEF Money

LEMMA ToggleKeeps ==
  ASSUME IInv, NEW o \in Applies, ToggleTap(o)
  PROVE  Money' /\ TapInv' /\ StepInv' /\ CapInv'
<1>1. /\ tap.pc \in Claiming /\ tap.op = o
      /\ \E card \in (steps[o].before \ steps[o].after) \cup (steps[o].after \ steps[o].before) :
           card \in CardIds /\ Sends([op |-> o, card |-> card])
  BY ToggleFacts DEF IInv
<1>2. PICK card \in (steps[o].before \ steps[o].after) \cup (steps[o].after \ steps[o].before) :
        Sends([op |-> o, card |-> card])
  BY <1>1
<1>3. /\ tap'.pc = None /\ UNCHANGED <<ops, row, pinned, steps, visit>>
      /\ game'.charged = game.charged /\ game'.gear = game.gear
      /\ game'.input.op = o /\ game'.input.card = card /\ game'.page = game.page
  BY <1>2 DEF Sends
<1>4. steps[o].before = game.gear /\ ~steps[o].verified /\ Stepped(o)
  BY <1>1 DEF IInv, TapInv, Claiming, Toggles, None
<1>5. RowInv /\ ChargeInv /\ BookedTruly /\ StepInv /\ CapInv /\ \A p \in Buys : p # o
  BY IdFacts DEF IInv, Money
<1>6. RowInv'
  BY <1>3, <1>5 DEF RowInv, Linked, Is, InPlay, Unresolved
<1>7. ChargeInv'
  BY <1>3, <1>5, <1>6 DEF ChargeInv, InPlay, Unresolved, Linked, Is
<1>8. BookedTruly'
  BY <1>3, <1>5 DEF BookedTruly, Is
<1>9. Toggled(card) = steps[o].after
  <2>1. PICK c \in CardIds : steps[o].after = Flipped(steps[o].before, c)
    BY <1>4, <1>5 DEF StepInv
  <2>2. card = c
    BY <1>2, <2>1 DEF Flipped
  <2>3. QED
    BY <1>4, <2>1, <2>2 DEF Flipped, Toggled
<1>10. StepInv'
  <2>1. Toggled(game.input.card)' = steps[o].after
    BY <1>3, <1>9 DEF Toggled
  <2>2. QED
    BY <1>3, <1>4, <1>5, <2>1 DEF StepInv, Stepped, Is
<1>11. \A c \in 0..MaxCycles : Costly(c)' \subseteq Costly(c)
  BY <1>3 DEF Costly, Linked
<1>12. QED
  BY <1>3, <1>5, <1>6, <1>7, <1>8, <1>10, <1>11, CapShrinks, FreeTap DEF Money

\* A tap that lands: nothing of the journal moves, and the lock is not held
\* for another of its kind.
LEMMA LandsKeep ==
  ASSUME IInv, InputLands
  PROVE  Money' /\ TapInv' /\ StepInv' /\ CapInv'
<1> DEFINE b == game.input.op
<1>1. /\ UNCHANGED <<ops, row, pinned, steps, visit, tap>> /\ game'.input = NoInput
      /\ \/ /\ b \in Buys /\ game'.gear = game.gear /\ game'.page = "rewards"
            /\ game'.charged = game.charged \cup {b}
         \/ /\ b \in Applies /\ game'.gear = Toggled(game.input.card)
            /\ game'.page = game.page /\ game.page = "cards" /\ game'.charged = game.charged
  BY LandsFacts DEF IInv
<1>2. /\ RowInv /\ ChargeInv /\ BookedTruly /\ TapInv /\ StepInv /\ CapInv
      /\ Buys \subseteq Ops /\ \A p \in Ops : game'.input.op # p
  BY <1>1, IdFacts DEF IInv, Money, NoInput
<1>3. (\A p \in Buys : p \in Ops) /\ (\A p \in Applies : p \in Ops /\ p \notin Buys)
  BY IdFacts
<1>4. RowInv'
  BY <1>1, <1>2 DEF RowInv, Linked, Is, InPlay, Unresolved
<1>5. \A p \in Buys : InPlay(p)' <=> InPlay(p)
  BY <1>1 DEF Linked, Is, InPlay, Unresolved
<1>6. \A c \in 0..MaxCycles : Costly(c)' \subseteq Costly(c)
  BY <1>1 DEF Costly, Linked
<1>7. StepInv'
  BY <1>1, <1>2, <1>3 DEF StepInv, Stepped, Is
<1>8. CapInv'
  BY <1>2, <1>6, CapShrinks
<1>9. CASE /\ b \in Buys /\ game'.gear = game.gear /\ game'.page = "rewards"
           /\ game'.charged = game.charged \cup {b}
  <2>1. row[b].stage = "acted" /\ row[b].spent = Unknown /\ ~Is(b, Terminal) /\ InPlay(b)
    <3>1. row[b].stage = "acted"
      BY <1>2, <1>9 DEF ChargeInv
    <3>2. row[b].spent = Unknown /\ Linked(b)
      BY <1>2, <1>9, <3>1 DEF RowInv, Linked, None
    <3>3. ~Is(b, Terminal) /\ ~Is(b, {None})
      BY <1>2, <1>9, <3>1, <3>2 DEF RowInv, Is
    <3>4. InPlay(b)
      BY <1>2, <1>9, <3>2, <3>3 DEF InPlay, Unresolved, Is
    <3>5. QED
      BY <3>1, <3>2, <3>3, <3>4
  <2>2. ChargeInv'
    <3>1. \A p \in Buys : InPlay(p) => p = b
      BY <1>2, <1>9, <2>1 DEF RowInv
    <3>2. QED
      BY <1>1, <1>2, <1>3, <1>5, <1>9, <2>1, <3>1 DEF ChargeInv
  <2>3. BookedTruly'
    <3>1. ~Is(b, {"confirmed"}) /\ ~Is(b, Terminal \ {"confirmed"})
      BY <2>1 DEF Is, Terminal
    <3>2. QED
      BY <1>1, <1>2, <1>3, <1>9, <3>1 DEF BookedTruly, Is
  <2>4. TapInv'
    <3>1. tap.pc \notin Charging
      BY <1>2, <1>9 DEF TapInv
    <3>2. game'.input.op \notin Applies
      BY <1>2, <1>3
    <3>3. QED
      BY <1>1, <1>2, <1>9, <3>1, <3>2 DEF TapInv, Unresolved, Is, Stepped
  <2>5. QED
    BY <1>4, <1>7, <1>8, <2>2, <2>3, <2>4 DEF Money
<1>10. CASE /\ b \in Applies /\ game'.gear = Toggled(game.input.card)
            /\ game'.page = game.page /\ game.page = "cards" /\ game'.charged = game.charged
  <2>1. ChargeInv'
    BY <1>1, <1>2, <1>3, <1>10 DEF ChargeInv
  <2>2. BookedTruly'
    BY <1>1, <1>2, <1>3, <1>10 DEF BookedTruly, Is
  <2>3. TapInv'
    <3>1. tap.pc \notin Toggles
      BY <1>2, <1>10 DEF TapInv
    <3>2. game'.input.op \notin Buys
      BY <1>2, <1>3
    <3>3. QED
      BY <1>1, <1>2, <1>10, <3>1, <3>2 DEF TapInv, Toggles, Unresolved, Is, Stepped
  <2>4. QED
    BY <1>4, <1>7, <1>8, <2>1, <2>2, <2>3 DEF Money
<1>11. QED
  BY <1>1, <1>9, <1>10
-----------------------------------------------------------------------------
(* The invariant, and what follows from it.                                *)

LEMMA Initial == Init => IInv
<1> SUFFICES ASSUME Init PROVE IInv
  OBVIOUS
<1>1. /\ ops = [o \in Ops |-> [status |-> None, cancel |-> FALSE, cycle |-> 0, after |-> FALSE]]
      /\ asked = {} /\ row = [o \in Buys |-> NoRow] /\ pinned = {}
      /\ steps = [o \in Applies |-> NoStep] /\ flow = [o \in Ops |-> NoFlow] /\ cycle = 0
      /\ visit = NoVisit /\ tap = NoTap
      /\ game = [page |-> "home", gear |-> Start, charged |-> {}, input |-> NoInput,
                 taps |-> [o \in Buys |-> 0], faults |-> 0]
  BY DEF Init
<1>n. MaxCycles \in Nat /\ Price \in Nat /\ Cap \in Nat
  BY CardsAssumption
<1>2. OpsType
  BY <1>1, <1>n DEF OpsType, OpRows, Statuses
<1>3. RowType
  BY <1>1 DEF RowType, BuyRows, NoRow
<1>4. StepType
  BY <1>1 DEF StepType, StepRows, NoStep
<1>5. FlowType
  BY <1>1 DEF FlowType, FlowRows, NoFlow
<1>6. VisitType /\ TapType
  BY <1>1, NoVisitIsVisit, NoTapIsTap DEF VisitType, TapType
<1>7. GameType
  <2>1. NoInput \in Inputs /\ Start \subseteq CardIds /\ [o \in Buys |-> 0] \in [Buys -> Nat]
    BY DEF Inputs, CardIds
  <2>2. QED
    BY <1>1, <2>1 DEF GameType, Games
<1>8. RestType
  BY <1>1, <1>n DEF RestType
<1>9. Types
  BY <1>2, <1>3, <1>4, <1>5, <1>6, <1>7, <1>8 DEF Types
<1>10. \A o \in Buys : row[o].stage = None /\ row[o].spent = Unknown /\ ~Linked(o)
  BY <1>1 DEF NoRow, Linked
<1>11. \A o \in Ops : ops[o].status = None /\ game.input.op # o
  BY <1>1, IdFacts DEF NoInput
<1>12. game.charged = {} /\ game.page = "home" /\ tap.pc = None
  BY <1>1 DEF NoTap
<1>13. \A o \in Applies : ~Stepped(o) /\ steps[o].verified /\ o \notin pinned /\ o \in Ops
  BY <1>1, IdFacts DEF Stepped, NoStep
<1>14. \A o \in Buys : o \in Ops /\ ~Is(o, Terminal) /\ ~Is(o, {"confirmed"}) /\ ~Is(o, Terminal \ {"confirmed"})
  BY <1>11, IdFacts, StatusFacts DEF Is, None
<1>15. RowInv
  BY <1>10 DEF RowInv, InPlay
<1>16. ChargeInv
  BY <1>11, <1>12, <1>14 DEF ChargeInv
<1>17. BookedTruly
  BY <1>14 DEF BookedTruly
<1>18. TapInv
  BY <1>12 DEF TapInv, Charging, Claiming, Toggles, None
<1>19. StepInv
  BY <1>11, <1>13 DEF StepInv
<1>20. CapInv
  <2>1. \A c : Costly(c) = {}
    BY <1>10 DEF Costly
  <2>2. \A c : Committed(c) = Price * Cardinality(Costly(c))
    BY DEF Committed, Costly
  <2>3. \A c : Committed(c) = 0
    BY <1>n, <2>1, <2>2, FS_EmptySet
  <2>4. QED
    BY <1>n, <2>3 DEF CapInv
<1>21. QED
  BY <1>9, <1>15, <1>16, <1>17, <1>18, <1>19, <1>20 DEF IInv, Money

LEMMA Step == IInv /\ [Next]_vars => IInv'
<1> SUFFICES ASSUME IInv, [Next]_vars PROVE IInv'
  OBVIOUS
<1>1. Types'
  BY TypesStep
<1>2. SUFFICES Money' /\ TapInv' /\ StepInv' /\ CapInv'
  BY <1>1 DEF IInv
<1>3. CASE Wanders
  BY <1>3, WandersKeep
<1>4. CASE InputLands
  BY <1>4, LandsKeep
<1>5. CASE \E o \in Ops : Ends(o)
  BY <1>5, MarksKeep, FreeTap DEF Ends
<1>6. CASE \E o \in Buys : Dispatch(o)
  BY <1>6, DispatchMarks, MarksKeep, IdFacts DEF IInv
<1>7. CASE \E o \in Applies : DispatchToggle(o) \/ KeepProof(o)
  BY <1>7, ToggleMarks, KeepMarks, MarksKeep, IdFacts DEF IInv
<1>8. CASE \E o \in Buys : Prepare(o) \/ RecordAction(o) \/ PayTap(o) \/ Settle(o) \/ Income(o)
  BY <1>8, PrepareKeeps, RecordKeeps, PayKeeps, SettleKeeps, IncomeKeeps
<1>9. CASE \E o \in Buys, verdict \in {"not_charged", "unproven"} : OperatorSettles(o, verdict)
  BY <1>9, OperatorKeeps
<1>10. CASE \E o \in Applies : Pin(o) \/ Verify(o) \/ ToggleTap(o)
  BY <1>10, PinKeeps, VerifyKeeps, ToggleKeeps
<1>11. CASE \E o \in Applies, card \in CardIds : ClaimToggle(o, card)
  BY <1>11, ClaimKeeps
<1>12. QED
  BY <1>3, <1>4, <1>5, <1>6, <1>7, <1>8, <1>9, <1>10, <1>11, Kinds

\* Every state that the requests, the scans, the taps and what goes wrong
\* between them can reach satisfies the inductive invariant (card_store.py,
\* card_transactions.py, card_visit.py, card_runtime.py).
THEOREM Invariance == Spec => []IInv
<1>1. Init => IInv
  BY Initial
<1>2. IInv /\ [Next]_vars => IInv'
  BY Step
<1>3. QED
  BY <1>1, <1>2, PTL DEF Spec

\* The durable rows, the memory of the worker and the game keep their types.
THEOREM TypeCorrect == Spec => []TypeOK
<1>1. IInv => TypeOK
  BY TypeParts DEF IInv
<1>2. QED
  BY <1>1, Invariance, PTL

\* The gems that left the account, or still may, for the purchases of a cycle
\* stay within its cap, whatever crashed, was lost or was decided by the
\* operator (card_transactions.py, CardBudgetPrecondition.check).
THEOREM CapHoldsHolds == Spec => []CapHolds
<1>1. ASSUME IInv PROVE CapHolds
  <2> SUFFICES ASSUME NEW c \in 1..MaxCycles
               PROVE  Price * Cardinality({o \in Buys : ops[o].cycle = c
                                             /\ (o \in game.charged \/ game.input.op = o)}) <= Cap
    BY DEF CapHolds
  <2> DEFINE S == {o \in Buys : ops[o].cycle = c /\ (o \in game.charged \/ game.input.op = o)}
  <2>n. Price \in Nat /\ Cap \in Nat /\ MaxCycles \in Nat
    BY CardsAssumption
  <2>1. RowInv /\ ChargeInv /\ CapInv /\ c \in 0..MaxCycles
    BY <1>1, <2>n DEF IInv, Money
  <2>2. IsFiniteSet(S) /\ Cardinality(S) \in Nat
    <3>1. S \subseteq Buys
      OBVIOUS
    <3>2. QED
      BY <3>1, CardsAssumption, FS_Subset, FS_CardinalityType
  <2>3. CASE Price = 0
    BY <2>n, <2>2, <2>3
  <2>4. CASE Price # 0
    <3>1. \A o \in Buys : o \in game.charged \/ game.input.op = o => Linked(o) /\ row[o].spent # 0
      BY <2>1, <2>4 DEF RowInv, ChargeInv, Linked, None, Unknown
    <3>2. S \subseteq Costly(c)
      BY <3>1 DEF Costly
    <3> HIDE DEF S
    <3>3. Cardinality(S) <= Cardinality(Costly(c)) /\ Cardinality(Costly(c)) \in Nat
      BY <3>2, CostlyIsFinite, FS_Subset
    <3>4. Price * Cardinality(Costly(c)) <= Cap
      BY <2>1 DEF CapInv, Committed, Costly
    <3>5. \A a, b, p, m \in Nat : a <= b /\ p * b <= m => p * a <= m
      OBVIOUS
    <3>6. Price * Cardinality(S) <= Cap
      BY <2>n, <2>2, <3>3, <3>4, <3>5
    <3>7. QED
      BY <3>6 DEF S
  <2>5. QED
    BY <2>3, <2>4
<1>2. QED
  BY <1>1, Invariance, PTL

\* A purchase that is over has the outcome the game saw (card_store.py,
\* transition).
THEOREM BookedTrulyHolds == Spec => []BookedTruly
<1>1. IInv => BookedTruly
  BY DEF IInv, Money
<1>2. QED
  BY <1>1, Invariance, PTL

LEMMA OnlyStartsCycle ==
  ASSUME [Next]_vars, cycle' # cycle
  PROVE  StartCycle
<1>1. CASE Requests
  BY <1>1 DEF Requests, Submit, Cancel, OperatorSettles
<1>2. CASE Scheduling
  BY <1>2 DEF Scheduling, FinishCancel, CancelStale, Recover, Begin, Adopted, VisitStopped, Session
<1>3. CASE Walking
  BY <1>3 DEF Walking, GoIn, GoHome, Home, Preflight, PlannerBlocks, PlannerIsDone, Concluded, Continue, durable
<1>4. CASE Paying
  BY <1>4 DEF Paying, Prepare, RecordAction, Dispatch, PayTap, Settle, Finalize, DispatchFails, durable
<1>5. CASE Equipping
  BY <1>5 DEF Equipping, Pin, Verify, DispatchToggle, ToggleTap, KeepProof, Applied, ClaimToggle, Claims,
    ToggleRefused, durable
<1>6. CASE Environment
  BY <1>6 DEF Environment, VisitExpires, InputLands, InputLost, Crash, PageTurns, Income, durable
<1>7. QED
  BY <1>1, <1>2, <1>3, <1>4, <1>5, <1>6 DEF Next, vars

\* Allowance is renewed only when nothing is on its way to the game and what
\* the game took is in the ledger (card_store.py, start_budget_cycle).
THEOREM CyclesStartCleanHolds == Spec => CyclesStartClean
<1>1. ASSUME IInv, [Next]_vars, cycle' # cycle
      PROVE  game.input.op \notin Buys /\ \A o \in game.charged : row[o].booked
  <2>1. ~MoneyInDoubt
    BY <1>1, OnlyStartsCycle, Zenon DEF StartCycle
  <2>2. \A o \in Buys : Linked(o) => row[o].stage = "resolved" /\ row[o].spent # Unknown
    BY <2>1 DEF MoneyInDoubt
  <2>3. ChargeInv /\ game.charged \subseteq Buys
    BY <1>1 DEF IInv, Money, Types, GameType, Games
  <2>4. game.input.op \notin Buys
    BY <2>2, <2>3 DEF ChargeInv, Linked, None
  <2>5. \A o \in game.charged : row[o].booked
    BY <2>2, <2>3 DEF ChargeInv, Linked, None
  <2>6. QED
    BY <2>4, <2>5
<1>2. QED
  BY <1>1, Invariance, PTL DEF Spec, CyclesStartClean

\* A step that sends a tap.
LEMMA TapsAreSent ==
  ASSUME IInv, [Next]_vars, NEW o \in Ops, game'.input.op = o, game.input.op # o
  PROVE  \/ o \in Buys /\ PayTap(o)
         \/ o \in Applies /\ ToggleTap(o)
<1>1. None # o /\ NoInput.op = None
  BY IdFacts DEF NoInput
<1>2. game'.input # game.input /\ game'.input # NoInput
  BY <1>1
<1>3. Types /\ StepInv /\ TapInv
  BY DEF IInv
<1>4. ~Wanders /\ ~InputLands /\ ~\E p \in Ops : Ends(p)
  BY <1>2, <1>3, LandsFacts DEF Wanders, Ends, Marks
<1>5. ~\E p \in Buys : Prepare(p) \/ RecordAction(p) \/ Dispatch(p) \/ Settle(p) \/ Income(p)
  BY <1>2, <1>3, PrepareFacts, RecordFacts, DispatchMarks, SettleFacts, IncomeFacts DEF Books, Marks
<1>6. ~\E p \in Buys, verdict \in {"not_charged", "unproven"} : OperatorSettles(p, verdict)
  BY <1>2 DEF OperatorSettles
<1>7. ~\E p \in Applies : Pin(p) \/ Verify(p) \/ DispatchToggle(p) \/ KeepProof(p)
  BY <1>2, <1>3, PinFacts, VerifyFacts, ToggleMarks, KeepMarks DEF Marks
<1>8. ~\E p \in Applies, card \in CardIds : ClaimToggle(p, card)
  BY <1>2, <1>3, ClaimFacts
<1>9. ASSUME NEW p \in Buys, PayTap(p) PROVE p = o
  <2>1. Sends([op |-> p, card |-> None]) /\ [op |-> p, card |-> None].op = p
    BY <1>3, <1>9, PayFacts
  <2>2. QED
    BY <2>1 DEF Sends
<1>10. ASSUME NEW p \in Applies, ToggleTap(p) PROVE p = o
  <2>1. PICK card : Sends([op |-> p, card |-> card])
    BY <1>3, <1>10, ToggleFacts
  <2>2. QED
    BY <2>1 DEF Sends
<1>11. \/ \E p \in Buys : PayTap(p)
       \/ \E p \in Applies : ToggleTap(p)
  BY <1>4, <1>5, <1>6, <1>7, <1>8, Kinds
<1>12. QED
  BY <1>9, <1>10, <1>11

\* From its acceptance on, a cancellation lets no further purchase or toggle
\* of its target be sent (card_visit.py, cancellation_blocks).
THEOREM CanceledTakesNoInputHolds == Spec => CanceledTakesNoInput
<1>1. ASSUME IInv, [Next]_vars, NEW o \in Ops, ops[o].cancel, game'.input.op = o
      PROVE  game.input.op = o
  <2>1. SUFFICES ASSUME game.input.op # o PROVE FALSE
    OBVIOUS
  <2>2. Types /\ TapInv
    BY <1>1 DEF IInv
  <2>3. CASE o \in Buys /\ PayTap(o)
    <3>1. tap.pc = "dispatched" /\ tap.op = o
      BY <2>2, <2>3, PayFacts
    <3>2. QED
      BY <1>1, <2>2, <3>1 DEF TapInv, Charging
  <2>4. CASE o \in Applies /\ ToggleTap(o)
    <3>1. tap.pc \in Claiming /\ tap.op = o
      BY <2>2, <2>4, ToggleFacts
    <3>2. QED
      BY <1>1, <2>2, <3>1 DEF TapInv, Toggles
  <2>5. QED
    BY <1>1, <2>1, <2>3, <2>4, TapsAreSent
<1>2. IInv /\ [Next]_vars => \A o \in Ops : ops[o].cancel /\ game'.input.op = o => game.input.op = o
  BY <1>1
<1>3. QED
  BY <1>2, Invariance, PTL DEF Spec, CanceledTakesNoInput

\* A toggle that reaches the game has the effect its claim recorded, however
\* late (card_visit.py, _claim_toggle).
THEOREM ToggleLandsAsClaimedHolds == Spec => ToggleLandsAsClaimed
<1>1. ASSUME IInv, [Next]_vars, game'.gear # game.gear
      PROVE  game'.gear = steps[game.input.op].after
  <2>1. Types /\ StepInv /\ TapInv
    BY <1>1 DEF IInv
  <2>2. ~Wanders /\ ~\E p \in Ops : Ends(p)
    BY <1>1 DEF Wanders, Ends, Marks
  <2>3. ~\E p \in Buys : Prepare(p) \/ RecordAction(p) \/ Dispatch(p) \/ PayTap(p) \/ Settle(p) \/ Income(p)
    BY <1>1, <2>1, PrepareFacts, RecordFacts, DispatchMarks, PayFacts, SettleFacts, IncomeFacts
    DEF Books, Marks, Sends
  <2>4. ~\E p \in Buys, verdict \in {"not_charged", "unproven"} : OperatorSettles(p, verdict)
    BY <1>1 DEF OperatorSettles
  <2>5. ~\E p \in Applies : Pin(p) \/ Verify(p) \/ DispatchToggle(p) \/ ToggleTap(p) \/ KeepProof(p)
    BY <1>1, <2>1, PinFacts, VerifyFacts, ToggleMarks, ToggleFacts, KeepMarks DEF Marks, Sends
  <2>6. ~\E p \in Applies, card \in CardIds : ClaimToggle(p, card)
    BY <1>1, <2>1, ClaimFacts
  <2>7. InputLands
    BY <1>1, <2>2, <2>3, <2>4, <2>5, <2>6, Kinds
  <2>8. game.input.op \in Applies /\ game'.gear = Toggled(game.input.card)
    BY <1>1, <2>1, <2>7, LandsFacts
  <2>9. QED
    BY <2>1, <2>8 DEF StepInv
<1>2. QED
  BY <1>1, Invariance, PTL DEF Spec, ToggleLandsAsClaimed
-----------------------------------------------------------------------------
(* The abstract gate of SpendGate.                                         *)

\* Only the tap that pays counts as one.
LEMMA OnlyPayTaps ==
  ASSUME IInv, [Next]_vars, game'.taps # game.taps
  PROVE  \E o \in Buys : PayTap(o)
<1>t. game \in Games
  BY DEF IInv, Types, GameType
<1>1. CASE Requests
  BY <1>1 DEF Requests, Submit, Cancel, StartCycle, OperatorSettles
<1>2. CASE Scheduling
  BY <1>2 DEF Scheduling, FinishCancel, CancelStale, Recover, Begin, Adopted, VisitStopped, Session
<1>3. CASE Walking
  <2>1. CASE \E o \in Ops : GoIn(o) \/ GoHome(o)
    BY <1>t, <2>1 DEF GoIn, GoHome, Games
  <2>2. CASE \E o \in Buys, lands \in BOOLEAN : Continue(o, lands)
    BY <1>t, <2>2 DEF Continue, Games
  <2>3. CASE \E o \in Ops : Home(o) \/ Preflight(o) \/ PlannerBlocks(o) \/ PlannerIsDone(o)
    BY <2>3 DEF Home, Preflight, PlannerBlocks, PlannerIsDone, Concluded
  <2>4. QED
    BY <1>3, <2>1, <2>2, <2>3 DEF Walking
<1>4. CASE Paying
  BY <1>4 DEF Paying, Prepare, RecordAction, Dispatch, Settle, Finalize, DispatchFails
<1>5. CASE Equipping
  <2>1. CASE \E o \in Applies : ToggleTap(o)
    BY <1>t, <2>1 DEF ToggleTap, Games
  <2>2. CASE \E o \in Applies : Pin(o) \/ Verify(o) \/ DispatchToggle(o) \/ KeepProof(o) \/ Applied(o)
    BY <2>2 DEF Pin, Verify, DispatchToggle, KeepProof, Applied
  <2>3. CASE ToggleRefused \/ \E o \in Applies, card \in CardIds : ClaimToggle(o, card)
    BY <2>3 DEF ClaimToggle, Claims, ToggleRefused
  <2>4. QED
    BY <1>5, <2>1, <2>2, <2>3 DEF Equipping
<1>6. CASE Environment
  <2>1. CASE InputLands \/ InputLost
    BY <1>t, <2>1 DEF InputLands, InputLost, Games
  <2>2. CASE Crash \/ \E page \in {"home", "cards"} : PageTurns(page)
    BY <1>t, <2>2 DEF Crash, PageTurns, Games
  <2>3. CASE \E o \in Buys : Income(o)
    BY <1>t, <2>3 DEF Income, Games
  <2>4. CASE \E o \in Ops : VisitExpires(o)
    BY <2>4 DEF VisitExpires
  <2>5. QED
    BY <1>6, <2>1, <2>2, <2>3, <2>4 DEF Environment
<1>7. QED
  BY <1>1, <1>2, <1>3, <1>4, <1>5, <1>6 DEF Next, vars

LEMMA PayCounts ==
  ASSUME Types, NEW o \in Buys, PayTap(o)
  PROVE  game'.taps = [game.taps EXCEPT ![o] = @ + 1]
<1> DEFINE taps == [game.taps EXCEPT ![o] = @ + 1]
<1>1. game' = [game EXCEPT !.input = [op |-> o, card |-> None], !.taps = taps]
  BY DEF PayTap
<1> HIDE DEF taps
<1>2. game'.taps = taps
  BY <1>1 DEF Types, GameType, Games
<1>3. QED
  BY <1>2 DEF taps

\* A row is booked when it is settled, and not before; its purchase is tapped
\* once, after it was recorded, and what the game took or still may was tapped.
PaidInv(o) ==
  /\ row[o].booked => row[o].stage = "resolved"
  /\ game.taps[o] <= 1
  /\ row[o].stage \in {None, "intended"} \/ (tap.pc \in Charging /\ tap.op = o) => game.taps[o] = 0
  /\ o \in game.charged \/ game.input.op = o => game.taps[o] = 1

GateInv == \A o \in Buys : PaidInv(o)

LEMMA PaidFrame ==
  ASSUME GateInv, NEW o \in Buys, row'[o] = row[o], game'.taps[o] = game.taps[o],
         o \in game'.charged => o \in game.charged \/ game.input.op = o,
         game'.input.op = o => game.input.op = o,
         tap'.pc \in Charging /\ tap'.op = o => tap.pc \in Charging /\ tap.op = o
  PROVE  PaidInv(o)'
BY DEF GateInv, PaidInv

\* A row is written, its purchase is not.
LEMMA BooksPaid ==
  ASSUME IInv, GateInv, NEW o \in Buys, NEW r, Books(o, r), game'.taps = game.taps,
         r.booked => r.stage = "resolved",
         r.stage \in {None, "intended"} => row[o].stage \in {None, "intended"},
         tap'.pc \in Charging =>
           (tap'.op = o /\ game.taps[o] = 0) \/ (tap' = tap /\ tap.op # o)
  PROVE  GateInv'
<1>1. row'[o] = r /\ \A p \in Buys : p # o => row'[p] = row[p]
  BY BooksFrame
<1>2. ASSUME NEW p \in Buys, p # o PROVE PaidInv(p)'
  BY <1>1, <1>2, PaidFrame DEF Books
<1>3. PaidInv(o)'
  BY <1>1 DEF GateInv, PaidInv, Books
<1>4. QED
  BY <1>2, <1>3 DEF GateInv

LEMMA GateStep == IInv /\ GateInv /\ [Next]_vars => GateInv'
<1> SUFFICES ASSUME IInv, GateInv, [Next]_vars PROVE GateInv'
  OBVIOUS
<1>t. /\ Types /\ TapInv /\ StepInv /\ row \in [Buys -> BuyRows] /\ game.taps \in [Buys -> Nat]
      /\ RowInv /\ ChargeInv
  BY DEF IInv, Money, Types, RowType, GameType, Games
<1>i. None \notin Buys /\ NoInput.op = None /\ \A o \in Buys : o \notin Applies /\ o \in Ops
  BY IdFacts DEF NoInput
<1>1. CASE \E o \in Buys : PayTap(o)
  <2>1. PICK o \in Buys : PayTap(o)
    BY <1>1
  <2>2. tap.pc = "dispatched" /\ tap.op = o /\ Sends([op |-> o, card |-> None])
    BY <1>t, <2>1, PayFacts
  <2>3. row' = row /\ tap'.pc = None /\ game'.input.op = o /\ game'.charged = game.charged
    BY <2>2 DEF Sends
  <2>4. game'.taps = [game.taps EXCEPT ![o] = @ + 1]
    BY <1>t, <2>1, PayCounts
  <2>5. row[o].stage = "acted" /\ game.taps[o] = 0
    BY <1>t, <2>2 DEF TapInv, Charging, GateInv, PaidInv
  <2>6. game'.taps[o] = 1 /\ \A p \in Buys : p # o => game'.taps[p] = game.taps[p]
    BY <1>t, <2>4, <2>5
  <2>7. PaidInv(o)'
    BY <2>3, <2>5, <2>6 DEF GateInv, PaidInv, Charging, None
  <2>8. ASSUME NEW p \in Buys, p # o PROVE PaidInv(p)'
    BY <2>3, <2>6, <2>8, PaidFrame DEF Charging, None
  <2>9. QED
    BY <2>7, <2>8 DEF GateInv
<1>2. CASE ~\E o \in Buys : PayTap(o)
  <2>0. game'.taps = game.taps
    BY <1>2, OnlyPayTaps
  <2>1. CASE Wanders
    <3>1. ASSUME NEW p \in Buys PROVE PaidInv(p)'
      BY <1>i, <2>0, <2>1, PaidFrame DEF Wanders, Charging, None
    <3>2. QED
      BY <3>1 DEF GateInv
  <2>2. CASE InputLands
    <3>1. /\ UNCHANGED <<row, tap>> /\ game'.input = NoInput
          /\ game'.charged \subseteq game.charged \cup {game.input.op}
      BY <1>t, <2>2, LandsFacts
    <3>2. ASSUME NEW p \in Buys PROVE PaidInv(p)'
      BY <1>i, <2>0, <3>1, PaidFrame
    <3>3. QED
      BY <3>2 DEF GateInv
  <2>3. CASE \E o \in Ops : Ends(o)
    <3>1. UNCHANGED <<row, game>> /\ tap'.pc = None
      BY <2>3 DEF Ends, Marks
    <3>2. ASSUME NEW p \in Buys PROVE PaidInv(p)'
      BY <3>1, PaidFrame DEF Charging, None
    <3>3. QED
      BY <3>2 DEF GateInv
  <2>4. ASSUME NEW o \in Buys, Prepare(o) PROVE GateInv'
    <3> DEFINE r == [row[o] EXCEPT !.stage = "intended"]
    <3>1. /\ Books(o, r) /\ Planning(o) /\ tap'.op = o
      BY <1>t, <2>4, PrepareFacts
    <3>2. row[o].stage = None
      BY <3>1 DEF Planning, Linked
    <3>3. game.taps[o] = 0 /\ ~row[o].booked
      BY <3>2 DEF GateInv, PaidInv, None
    <3>4. r.booked = row[o].booked
      BY <1>t DEF BuyRows
    <3> HIDE DEF r
    <3>5. QED
      BY <2>0, <3>1, <3>2, <3>3, <3>4, BooksPaid
  <2>5. ASSUME NEW o \in Buys, RecordAction(o) PROVE GateInv'
    <3> DEFINE r == [row[o] EXCEPT !.stage = "acted", !.acted = TRUE]
    <3>1. /\ Books(o, r) /\ tap.pc = "prepared" /\ tap.op = o /\ tap'.op = o
      BY <1>t, <2>5, RecordFacts
    <3>2. row[o].stage = "intended"
      BY <1>t, <3>1 DEF TapInv, Charging
    <3>3. game.taps[o] = 0 /\ ~row[o].booked
      BY <3>2 DEF GateInv, PaidInv
    <3>4. r.booked = row[o].booked /\ r.stage = "acted"
      BY <1>t DEF BuyRows
    <3> HIDE DEF r
    <3>5. QED
      BY <2>0, <3>1, <3>2, <3>3, <3>4, BooksPaid
  <2>6. ASSUME NEW o \in Buys, Dispatch(o) PROVE GateInv'
    <3>1. UNCHANGED <<row, game>> /\ tap = [pc |-> "acted", op |-> o] /\ tap' = [tap EXCEPT !.pc = "dispatched"]
      BY <2>6 DEF Dispatch
    <3>2. tap.pc = "acted" /\ tap.op = o /\ tap'.op = o
      BY <3>1
    <3>3. ASSUME NEW p \in Buys PROVE PaidInv(p)'
      BY <3>1, <3>2, PaidFrame DEF Charging
    <3>4. QED
      BY <3>3 DEF GateInv
  <2>7. ASSUME NEW o \in Buys, Settle(o) PROVE GateInv'
    <3> DEFINE r == [row[o] EXCEPT !.stage = "resolved", !.spent = Price, !.booked = TRUE]
    <3>1. /\ tap'.pc = "settled" /\ UNCHANGED game /\ (Books(o, r) \/ UNCHANGED row)
      BY <1>t, <2>7, SettleFacts
    <3>2. CASE Books(o, r)
      <4>1. r.stage = "resolved"
        BY <1>t DEF BuyRows
      <4> HIDE DEF r
      <4>2. QED
        BY <3>1, <3>2, <4>1, BooksPaid DEF Charging, None
    <3>3. CASE UNCHANGED row
      <4>1. ASSUME NEW p \in Buys PROVE PaidInv(p)'
        BY <3>1, <3>3, PaidFrame DEF Charging
      <4>2. QED
        BY <4>1 DEF GateInv
    <3>4. QED
      BY <3>1, <3>2, <3>3
  <2>8. ASSUME NEW o \in Buys, Income(o) PROVE GateInv'
    <3> DEFINE r == [row[o] EXCEPT !.drift = TRUE]
    <3>1. Books(o, r) /\ tap' = tap /\ Linked(o)
      BY <1>t, <2>8, IncomeFacts DEF Income
    <3>2. r.booked = row[o].booked /\ r.stage = row[o].stage
      BY <1>t DEF BuyRows
    <3> HIDE DEF r
    <3>3. row'[o] = r /\ \A p \in Buys : p # o => row'[p] = row[p]
      BY <3>1, BooksFrame
    <3>4. ASSUME NEW p \in Buys PROVE PaidInv(p)'
      BY <2>0, <3>1, <3>2, <3>3 DEF GateInv, PaidInv, Books
    <3>5. QED
      BY <3>4 DEF GateInv
  <2>9. ASSUME NEW o \in Buys, NEW verdict \in {"not_charged", "unproven"}, OperatorSettles(o, verdict)
        PROVE  GateInv'
    <3>1. PICK amount \in {0, Unknown} :
            /\ Books(o, [row[o] EXCEPT !.stage = "resolved", !.spent = amount])
            /\ tap' = tap /\ (tap.pc \in Charging => tap.op # o)
      BY <1>t, <2>9, OperatorFacts
    <3> DEFINE r == [row[o] EXCEPT !.stage = "resolved", !.spent = amount]
    <3>2. Books(o, r) /\ r.stage = "resolved"
      BY <1>t, <3>1 DEF BuyRows
    <3> HIDE DEF r
    <3>3. QED
      BY <2>0, <3>1, <3>2, BooksPaid DEF None
  <2>10. ASSUME NEW o \in Applies, Pin(o) \/ Verify(o) \/ DispatchToggle(o) \/ ToggleTap(o) \/ KeepProof(o)
         PROVE  GateInv'
    <3>1. /\ row' = row /\ game'.charged = game.charged
          /\ game'.input = game.input \/ game'.input.op = o
          /\ tap' = tap \/ tap'.pc \in {None, "marked", "proved"}
      <4>1. CASE Pin(o) \/ Verify(o)
        BY <1>t, <4>1, PinFacts, VerifyFacts
      <4>2. CASE ToggleTap(o)
        <5>1. PICK card : Sends([op |-> o, card |-> card])
          BY <1>t, <4>2, ToggleFacts
        <5>2. QED
          BY <5>1 DEF Sends
      <4>3. CASE DispatchToggle(o) \/ KeepProof(o)
        BY <4>3 DEF DispatchToggle, KeepProof
      <4>4. QED
        BY <2>10, <4>1, <4>2, <4>3
    <3>2. ASSUME NEW p \in Buys PROVE PaidInv(p)'
      BY <1>i, <2>0, <3>1, PaidFrame DEF Charging, None
    <3>3. QED
      BY <3>2 DEF GateInv
  <2>11. ASSUME NEW o \in Applies, NEW card \in CardIds, ClaimToggle(o, card)
         PROVE  GateInv'
    <3>1. UNCHANGED <<row, game>> /\ tap'.pc \in Claiming
      BY <1>t, <2>11, ClaimFacts
    <3>2. ASSUME NEW p \in Buys PROVE PaidInv(p)'
      BY <3>1, PaidFrame DEF Charging, Claiming
    <3>3. QED
      BY <3>2 DEF GateInv
  <2>12. QED
    BY <1>2, <2>1, <2>2, <2>3, <2>4, <2>5, <2>6, <2>7, <2>8, <2>9, <2>10, <2>11, Kinds
<1>3. QED
  BY <1>1, <1>2

Passes == Gate!Next \/ UNCHANGED Gate!gateVars

\* Two purchases are never open at once.
LEMMA OpenIsOne ==
  ASSUME IInv, NEW o \in Buys, row[o].stage \in {"intended", "acted"}
  PROVE  OpenRows = {o} /\ OpenRow = o
<1>1. ASSUME NEW p \in OpenRows PROVE p \in Buys /\ InPlay(p)
  <2>1. RowInv /\ Linked(p) /\ p \in Buys /\ p \in Ops /\ row[p].stage # "resolved"
    BY IdFacts DEF IInv, Money, OpenRows, Linked, None
  <2>2. ~Is(p, {None, "queued"}) /\ ~Is(p, Terminal)
    BY <2>1 DEF RowInv
  <2>3. QED
    BY <2>1, <2>2 DEF InPlay, Unresolved, Is
<1>2. o \in OpenRows
  BY DEF OpenRows
<1>3. \A p, q \in OpenRows : p = q
  BY <1>1 DEF IInv, Money, RowInv
<1>4. OpenRows = {o}
  BY <1>2, <1>3
<1>5. QED
  BY <1>4 DEF OpenRow

LEMMA SameGate ==
  ASSUME game'.taps = game.taps, \A o \in Buys : row'[o].stage = row[o].stage \/
           {row[o].stage, row'[o].stage} = {"intended", "acted"},
         \A o \in Buys : row'[o].booked = row[o].booked
  PROVE  UNCHANGED Gate!gateVars
<1>1. OpenRows' = OpenRows /\ Settled' = Settled
  BY DEF OpenRows, Settled
<1>2. OpenRow' = OpenRow
  BY <1>1 DEF OpenRow
<1>3. QED
  BY <1>1, <1>2 DEF Gate!gateVars

LEMMA PrepareEnters ==
  ASSUME IInv, GateInv, NEW o \in Buys, Prepare(o)
  PROVE  Gate!Enter(o)
<1> DEFINE r == [row[o] EXCEPT !.stage = "intended"]
<1>1. /\ Books(o, r) /\ Planning(o) /\ MayPrepare(o) /\ UNCHANGED game
  BY PrepareFacts DEF IInv
<1>2. row[o].stage = None /\ \A p \in Buys : row[p].stage \notin {"intended", "acted"}
  BY <1>1 DEF Planning, Linked, MayPrepare
<1>3. r.stage = "intended" /\ r.booked = row[o].booked
  BY DEF IInv, Types, RowType, BuyRows
<1> HIDE DEF r
<1>4. row'[o] = r /\ \A p \in Buys : p # o => row'[p] = row[p]
  BY <1>1, BooksFrame
<1>5. OpenRows = {} /\ OpenRows' = {o} /\ Settled' = Settled /\ o \notin Settled
  BY <1>2, <1>3, <1>4 DEF OpenRows, Settled, None
<1>6. OpenRow = None /\ OpenRow' = o
  BY <1>5 DEF OpenRow
<1>7. \A p \in Buys : row'[p].booked = row[p].booked
  BY <1>3, <1>4
<1>8. QED
  BY <1>1, <1>5, <1>6, <1>7 DEF Gate!Enter

LEMMA PayTapTaps ==
  ASSUME IInv, GateInv, NEW o \in Buys, PayTap(o)
  PROVE  Gate!Tap
<1>1. tap.pc = "dispatched" /\ tap.op = o /\ Sends([op |-> o, card |-> None])
  BY PayFacts DEF IInv
<1>2. row' = row /\ row[o].stage = "acted" /\ game.taps[o] = 0 /\ o # None
  BY <1>1, IdFacts DEF IInv, TapInv, Charging, GateInv, PaidInv, Sends
<1>3. OpenRow = o /\ OpenRow' = OpenRow /\ Settled' = Settled
  BY <1>2, OpenIsOne DEF OpenRow, OpenRows, Settled
<1>4. game'.taps = [game.taps EXCEPT ![o] = @ + 1]
  BY PayCounts DEF IInv
<1>5. game'.taps = [game.taps EXCEPT ![o] = 1]
  BY <1>2, <1>4
<1>6. QED
  BY <1>2, <1>3, <1>5 DEF Gate!Tap

\* An open row is settled: booked after a tap, or not at all.
LEMMA SettledLeaves ==
  ASSUME IInv, GateInv, NEW o \in Buys, NEW r, Books(o, r), game'.taps = game.taps,
         row[o].stage \in {"intended", "acted"}, r.stage = "resolved", r.booked \in BOOLEAN,
         r.booked => game.taps[o] = 1
  PROVE  Gate!Leave
<1>1. row'[o] = r /\ \A p \in Buys : p # o => row'[p] = row[p]
  BY BooksFrame
<1>2. OpenRows = {o} /\ OpenRow = o /\ o # None
  BY OpenIsOne, IdFacts
<1>3. OpenRows' = {} /\ Settled' = Settled \cup {o}
  BY <1>1, <1>2 DEF OpenRows, Settled
<1>4. OpenRow' = None
  BY <1>3 DEF OpenRow
<1> DEFINE books == [p \in Buys |-> IF row[p].booked THEN Price ELSE 0]
<1>5. books' = [books EXCEPT ![o] = IF r.booked THEN Price ELSE 0]
  BY <1>1
<1>6. [p \in Buys |-> Price][o] = Price
  OBVIOUS
<1>7. QED
  BY <1>2, <1>3, <1>4, <1>5, <1>6 DEF Gate!Leave

\* Whatever the operation's own status, the visit and the cancellations do, the
\* rows of the card purchases are a gate: one at a time, one tap inside, left
\* once and booked as proven or not at all (card_transactions.py,
\* CardBudgetPrecondition.check, reconcile_card_operation).
THEOREM GateImplemented == Spec => ImplementsGate
<1>1. Init => Gate!Init /\ GateInv
  <2> SUFFICES ASSUME Init PROVE Gate!Init /\ GateInv
    OBVIOUS
  <2>1. /\ \A o \in Buys : row[o].stage = None /\ ~row[o].booked /\ game.taps[o] = 0
        /\ game.taps = [o \in Buys |-> 0] /\ game.charged = {} /\ game.input.op = None
    BY DEF Init, NoRow, NoInput
  <2>2. OpenRows = {} /\ Settled = {}
    BY <2>1 DEF OpenRows, Settled, None
  <2>3. OpenRow = None
    BY <2>2 DEF OpenRow
  <2>4. None \notin Buys
    BY IdFacts
  <2>5. game.taps = [k \in Buys |-> IF k = OpenRow /\ FALSE THEN 1 ELSE 0]
    BY <2>1
  <2>6. Gate!Init
    BY <2>1, <2>2, <2>3, <2>5 DEF Gate!Init
  <2>7. GateInv
    BY <2>1, <2>4 DEF GateInv, PaidInv, None
  <2>8. QED
    BY <2>6, <2>7
<1>2. IInv /\ GateInv /\ [Next]_vars => [Gate!Next]_(Gate!gateVars)
  <2> SUFFICES ASSUME IInv, GateInv, [Next]_vars PROVE Passes
    BY DEF Passes
  <2>t. /\ Types /\ TapInv /\ StepInv /\ row \in [Buys -> BuyRows] /\ RowInv /\ ChargeInv
    BY DEF IInv, Money, Types, RowType
  <2>1. CASE \E o \in Buys : PayTap(o)
    BY <2>1, PayTapTaps DEF Passes, Gate!Next
  <2>2. CASE ~\E o \in Buys : PayTap(o)
    <3>0. game'.taps = game.taps
      BY <2>2, OnlyPayTaps
    <3>1. CASE row' = row
      BY <3>0, <3>1, SameGate DEF Passes
    <3>2. ASSUME NEW o \in Buys, Prepare(o) PROVE Passes
      BY <3>2, PrepareEnters DEF Passes, Gate!Next
    <3>3. ASSUME NEW o \in Buys, RecordAction(o) \/ Income(o) PROVE Passes
      <4>1. PICK r \in BuyRows :
              /\ Books(o, r) /\ r.booked = row[o].booked
              /\ r.stage = row[o].stage \/ (r.stage = "acted" /\ row[o].stage = "intended")
        <5>1. CASE RecordAction(o)
          <6> DEFINE q == [row[o] EXCEPT !.stage = "acted", !.acted = TRUE]
          <6>1. Books(o, q) /\ tap.pc = "prepared" /\ tap.op = o
            BY <2>t, <5>1, RecordFacts
          <6>2. row[o].stage = "intended"
            BY <2>t, <6>1 DEF TapInv, Charging
          <6>3. q.booked = row[o].booked /\ q.stage = "acted" /\ q \in BuyRows
            BY <2>t DEF BuyRows
          <6> HIDE DEF q
          <6>4. QED
            BY <6>1, <6>2, <6>3
        <5>2. CASE Income(o)
          <6> DEFINE q == [row[o] EXCEPT !.drift = TRUE]
          <6>1. Books(o, q)
            BY <2>t, <5>2, IncomeFacts
          <6>2. q.booked = row[o].booked /\ q.stage = row[o].stage /\ q \in BuyRows
            BY <2>t DEF BuyRows
          <6> HIDE DEF q
          <6>3. QED
            BY <6>1, <6>2
        <5>3. QED
          BY <3>3, <5>1, <5>2
      <4>2. row'[o] = r /\ \A p \in Buys : p # o => row'[p] = row[p]
        BY <4>1, BooksFrame
      <4>3. QED
        BY <3>0, <4>1, <4>2, SameGate DEF Passes
    <3>4. ASSUME NEW o \in Buys, Settle(o) PROVE Passes
      <4> DEFINE r == [row[o] EXCEPT !.stage = "resolved", !.spent = Price, !.booked = TRUE]
      <4>1. /\ Working(o) /\ Linked(o) /\ game.page = "rewards"
            /\ (row[o].stage = "acted" /\ Books(o, r)) \/ UNCHANGED row
        BY <2>t, <3>4, SettleFacts
      <4>2. CASE row[o].stage = "acted" /\ Books(o, r)
        <5>1. ~Is(o, Terminal) /\ o \in Ops
          BY <4>1, IdFacts DEF Working, Visiting, Returning
        <5>2. InPlay(o)
          BY <2>t, <4>1, <5>1 DEF RowInv, InPlay, Unresolved, Is
        <5>3. game.taps[o] = 1
          BY <2>t, <4>1, <5>2 DEF ChargeInv, GateInv, PaidInv
        <5>4. r.stage = "resolved" /\ r.booked \in BOOLEAN
          BY <2>t DEF BuyRows
        <5> HIDE DEF r
        <5>5. Gate!Leave
          BY <3>0, <4>2, <5>3, <5>4, SettledLeaves
        <5>6. QED
          BY <5>5 DEF Passes, Gate!Next
      <4>3. QED
        BY <3>1, <4>1, <4>2
    <3>5. ASSUME NEW o \in Buys, NEW verdict \in {"not_charged", "unproven"}, OperatorSettles(o, verdict)
          PROVE  Passes
      <4>1. PICK amount \in {0, Unknown} :
              /\ Books(o, [row[o] EXCEPT !.stage = "resolved", !.spent = amount])
              /\ row[o].stage \in {"intended", "acted"}
        BY <2>t, <3>5, OperatorFacts
      <4> DEFINE r == [row[o] EXCEPT !.stage = "resolved", !.spent = amount]
      <4>2. r.stage = "resolved" /\ r.booked = row[o].booked /\ row[o].booked \in BOOLEAN
        BY <2>t DEF BuyRows
      <4>3. ~row[o].booked
        BY <4>1 DEF GateInv, PaidInv
      <4>4. Books(o, r)
        BY <4>1
      <4> HIDE DEF r
      <4>5. Gate!Leave
        BY <3>0, <4>1, <4>2, <4>3, <4>4, SettledLeaves
      <4>6. QED
        BY <4>5 DEF Passes, Gate!Next
    <3>6. \/ row' = row
          \/ \E o \in Buys : Prepare(o) \/ RecordAction(o) \/ Settle(o) \/ Income(o)
          \/ \E o \in Buys, verdict \in {"not_charged", "unproven"} : OperatorSettles(o, verdict)
      <4>1. Wanders \/ (\E o \in Ops : Ends(o)) => row' = row
        BY DEF Wanders, Ends, Marks
      <4>2. InputLands => row' = row
        BY <2>t, LandsFacts
      <4>3. \A o \in Buys : Dispatch(o) => row' = row
        BY DEF Dispatch
      <4>4. \A o \in Applies :
              Pin(o) \/ Verify(o) \/ DispatchToggle(o) \/ ToggleTap(o) \/ KeepProof(o) => row' = row
        BY DEF Pin, Verify, DispatchToggle, ToggleTap, KeepProof, durable
      <4>5. \A o \in Applies, card \in CardIds : ClaimToggle(o, card) => row' = row
        BY <2>t, ClaimFacts
      <4>6. QED
        BY <2>2, <4>1, <4>2, <4>3, <4>4, <4>5, Kinds
    <3>7. QED
      BY <3>1, <3>2, <3>3, <3>4, <3>5, <3>6
  <2>3. QED
    BY <2>1, <2>2
<1>3. IInv /\ GateInv /\ [Next]_vars => GateInv'
  BY GateStep
<1>4. QED
  BY <1>1, <1>2, <1>3, Invariance, PTL DEF Spec, ImplementsGate, Gate!Spec
=============================================================================
