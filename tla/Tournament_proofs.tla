-------------------------- MODULE Tournament_proofs --------------------------
(***************************************************************************)
(* The safety of the tournament entry, for any calendar, budget and prices *)
(* and any number of runs and faults.                                      *)
(***************************************************************************)
EXTENDS Tournament, FiniteSetTheorems, TLAPS

Row == [stage : Stages, run : 0..MaxRuns, spent : Nat, receipts : Nat,
        closed : BOOLEAN, result : {"null", "read", "blank"}]

SeenType ==
  /\ seen \in [taps : [Events -> Nat], lines : [Events -> Nat], cash : [Events -> Nat],
               unseen : [Events -> Nat], entered : SUBSET Events, tickets : Nat, farm : 0..MaxRuns,
               farmBound : BOOLEAN, glimpsed : BOOLEAN, strayed : BOOLEAN, faults : Nat]

\* One attempt is pending, one that never began has no history, and one that
\* has a result is no longer played.
RowInv ==
  /\ \A d, e \in Pending : d = e
  /\ \A e \in At({"none"}) : att[e] = NoAttempt /\ seen.taps[e] = 0
  /\ \A e \in At({"none", "entry_pending"}) : seen.lines[e] = 0 /\ seen.cash[e] = 0
  /\ \A e \in At({"entry_pending", "playing"}) : att[e].result = "null"
  /\ \A e \in Events : seen.lines[e] <= 1

\* An entry tap that is still to come is the first of its attempt.
TapInv ==
  /\ \A e \in Events : seen.taps[e] <= 1
  /\ bot.todo = "battle" => \A e \in At({"entry_pending"}) : seen.taps[e] = 0

\* The events whose entry is on the ledger.
Entries == {e \in Events : seen.lines[e] > 0}

\* A HUD before an unproven entry took a ticket that no line stands for yet.
LineInv ==
  /\ Cardinality(Entries) <= seen.tickets
  /\ At({"entry_pending"}) # {} /\ game.screen = "hud" => Cardinality(Entries) < seen.tickets

\* A played attempt is on its screens until somebody takes it off them, and the
\* statistics are not left before its result is on record.
FarmInv ==
  /\ seen.farmBound => seen.strayed
  /\ At({"playing"}) # {} => seen.strayed \/ game.screen \in {"hud", "stats"}
  /\ At({"playing"}) # {} => bot.todo # "ok"

\* The run last started on a farm's screen is open.
FarmOpen == bot.run # NoRun /\ bot.run = seen.farm

\* A farm run is on the farm's screens, with no tap on its way, until somebody
\* takes it off them; no attempt owns it, and the flag of a tournament's run is
\* up for an attempt that is played, but for a HUD that was glimpsed.
FlagInv ==
  /\ seen.farm < bot.next /\ \A e \in Events : att[e].run < bot.next
  /\ \A e \in Events : att[e].run # NoRun /\ att[e].run = seen.farm => seen.strayed
  /\ FarmOpen => seen.strayed \/ (game.screen \in {"farm", "menu"} /\ bot.todo = "none")
  /\ bot.tourn => seen.strayed \/ seen.glimpsed \/ (At({"playing"}) # {} /\ ~FarmOpen)

\* The price of a landed tap that awaits its receipt.
InFlight(e) == IF buy # NoBuy /\ buy.landed /\ buy.token[1] = e THEN buy.price ELSE 0

\* A purchase that awaits its receipt is of the attempt that is played.
BuyInv ==
  buy # NoBuy => /\ bot.run # NoRun /\ bot.tourn
                 /\ att[buy.token[1]].stage = "playing"
                 /\ buy.token = Token(buy.token[1]) /\ done # buy.token
                 /\ buy.price <= CashBudget

\* While the opening may go on, its cursor knows all the cash that was spent.
CashInv ==
  \A e \in Events :
    /\ seen.cash[e] <= CashBudget + seen.unseen[e]
    /\ bot.up /\ att[e].stage = "playing" /\ ~att[e].closed /\ done # Token(e)
         => seen.cash[e] <= att[e].spent + seen.unseen[e] + InFlight(e)

IInv == TypeOK /\ SeenType /\ RowInv /\ TapInv /\ LineInv /\ FarmInv /\ FlagInv /\ BuyInv /\ CashInv
-----------------------------------------------------------------------------
(* The rows of the store.                                                  *)

Rows == [Events -> Row]

LEMMA ClosedRows ==
  ASSUME att \in Rows
  PROVE  /\ ClosedOpening(att) \in Rows
         /\ \A e \in Events : LET r == ClosedOpening(att)[e] IN
              /\ r.stage = att[e].stage /\ r.run = att[e].run /\ r.spent = att[e].spent
              /\ r.receipts = att[e].receipts /\ r.result = att[e].result
              /\ att[e].stage = "playing" => r.closed
              /\ att[e].stage = "none" => r = att[e]
<1> DEFINE C == ClosedOpening(att)
<1>1. ASSUME NEW e \in Events
      PROVE  /\ C[e] \in Row
             /\ C[e].stage = att[e].stage /\ C[e].run = att[e].run /\ C[e].spent = att[e].spent
             /\ C[e].receipts = att[e].receipts /\ C[e].result = att[e].result
             /\ att[e].stage = "playing" => C[e].closed
             /\ att[e].stage = "none" => C[e] = att[e]
  <2> DEFINE c == att[e].closed \/ att[e].stage = "playing"
  <2>1. att[e] \in Row
    BY DEF Rows
  <2>2. C[e] = [att[e] EXCEPT !.closed = c]
    BY DEF ClosedOpening
  <2>3. c \in BOOLEAN /\ (att[e].stage = "playing" => c)
    OBVIOUS
  <2>4. att[e].stage = "none" => c = att[e].closed
    BY <2>1 DEF Row
  <2> HIDE DEF c
  <2>5. QED
    BY <2>1, <2>2, <2>3, <2>4 DEF Row
<1>2. QED
  BY <1>1 DEF ClosedOpening, Rows
\* A row whose stage moves, and nothing else of it.
MovesTo(r, s, stage) ==
  /\ r \in Row /\ r.stage = stage /\ r.run = s.run /\ r.spent = s.spent
  /\ r.receipts = s.receipts /\ r.result = s.result /\ r.closed = s.closed

LEMMA Moved ==
  ASSUME NEW s \in Row, NEW g \in Stages
  PROVE  MovesTo([s EXCEPT !.stage = g], s, g)
BY DEF MovesTo, Row

LEMMA EnteredMoves ==
  ASSUME att \in Rows
  PROVE  /\ EnteredRows \in Rows
         /\ \A e \in Events :
              IF att[e].stage = "entry_pending" THEN MovesTo(EnteredRows[e], att[e], "playing")
              ELSE EnteredRows[e] = att[e]
<1>1. ASSUME NEW e \in Events
      PROVE  /\ EnteredRows[e] \in Row
             /\ IF att[e].stage = "entry_pending" THEN MovesTo(EnteredRows[e], att[e], "playing")
                ELSE EnteredRows[e] = att[e]
  <2> DEFINE g == IF att[e].stage = "entry_pending" THEN "playing" ELSE att[e].stage
  <2>1. att[e] \in Row /\ EnteredRows[e] = [att[e] EXCEPT !.stage = g] /\ g \in Stages
    BY DEF Rows, EnteredRows, Row, Stages
  <2>2. MovesTo(EnteredRows[e], att[e], g)
    BY <2>1, Moved
  <2>3. QED
    BY <2>1, <2>2 DEF MovesTo, Row
<1>2. QED
  BY <1>1 DEF EnteredRows, Rows

LEMMA ExhaustedMoves ==
  ASSUME att \in Rows
  PROVE  /\ Exhausted \in Rows
         /\ \A e \in Events :
              IF att[e].stage = "entry_pending" THEN MovesTo(Exhausted[e], att[e], "result")
              ELSE Exhausted[e] = att[e]
<1>1. ASSUME NEW e \in Events
      PROVE  /\ Exhausted[e] \in Row
             /\ IF att[e].stage = "entry_pending" THEN MovesTo(Exhausted[e], att[e], "result")
                ELSE Exhausted[e] = att[e]
  <2> DEFINE g == IF att[e].stage = "entry_pending" THEN "result" ELSE att[e].stage
  <2>1. att[e] \in Row /\ Exhausted[e] = [att[e] EXCEPT !.stage = g] /\ g \in Stages
    BY DEF Rows, Exhausted, Row, Stages
  <2>2. MovesTo(Exhausted[e], att[e], g)
    BY <2>1, Moved
  <2>3. QED
    BY <2>1, <2>2 DEF MovesTo, Row
<1>2. QED
  BY <1>1 DEF Exhausted, Rows

LEMMA CompletedMoves ==
  ASSUME att \in Rows
  PROVE  /\ Completed \in Rows
         /\ \A e \in Events :
              IF att[e].stage = "result" THEN MovesTo(Completed[e], att[e], "completed")
              ELSE Completed[e] = att[e]
<1>1. ASSUME NEW e \in Events
      PROVE  /\ Completed[e] \in Row
             /\ IF att[e].stage = "result" THEN MovesTo(Completed[e], att[e], "completed")
                ELSE Completed[e] = att[e]
  <2> DEFINE g == IF att[e].stage = "result" THEN "completed" ELSE att[e].stage
  <2>1. att[e] \in Row /\ Completed[e] = [att[e] EXCEPT !.stage = g] /\ g \in Stages
    BY DEF Rows, Completed, Row, Stages
  <2>2. MovesTo(Completed[e], att[e], g)
    BY <2>1, Moved
  <2>3. QED
    BY <2>1, <2>2 DEF MovesTo, Row
<1>2. QED
  BY <1>1 DEF Completed, Rows

\* A row that gets its run id.
LEMMA BoundRows ==
  ASSUME NEW rows \in Rows, NEW run \in 0..MaxRuns
  PROVE  /\ Bound(rows, run) \in Rows
         /\ \A e \in Events : LET r == Bound(rows, run)[e] IN
              /\ r.stage = rows[e].stage /\ r.spent = rows[e].spent
              /\ r.receipts = rows[e].receipts /\ r.result = rows[e].result
              /\ r.closed = rows[e].closed
              /\ rows[e].stage = "playing" => r.run = run
              /\ rows[e].stage # "playing" => r = rows[e]
<1> DEFINE B == Bound(rows, run)
<1>1. ASSUME NEW e \in Events
      PROVE  /\ B[e] \in Row
             /\ B[e].stage = rows[e].stage /\ B[e].spent = rows[e].spent
             /\ B[e].receipts = rows[e].receipts /\ B[e].result = rows[e].result
             /\ B[e].closed = rows[e].closed
             /\ rows[e].stage = "playing" => B[e].run = run
             /\ rows[e].stage # "playing" => B[e] = rows[e]
  <2> DEFINE g == IF rows[e].stage = "playing" THEN run ELSE rows[e].run
  <2>1. rows[e] \in Row /\ B[e] = [rows[e] EXCEPT !.run = g]
    BY DEF Rows, Bound
  <2>2. /\ g \in 0..MaxRuns /\ (rows[e].stage # "playing" => g = rows[e].run)
        /\ rows[e].stage = "playing" => g = run
    BY <2>1 DEF Row
  <2> HIDE DEF g
  <2>3. QED
    BY <2>1, <2>2 DEF Row
<1>2. QED
  BY <1>1 DEF Bound, Rows

LEMMA ResultedRows ==
  ASSUME att \in Rows, NEW r \in {"read", "blank"}
  PROVE  /\ Resulted(r) \in Rows
         /\ \A e \in Events :
              IF att[e].stage \in {"playing", "entry_pending"} /\ att[e].result = "null"
              THEN /\ Resulted(r)[e].stage = "result" /\ Resulted(r)[e].spent = att[e].spent
                   /\ Resulted(r)[e].receipts = att[e].receipts /\ Resulted(r)[e].run = att[e].run
              ELSE Resulted(r)[e] = att[e]
BY DEF Resulted, Rows, Row, Stages

LEMMA ReceiptedRows ==
  ASSUME att \in Rows, NEW debit \in Nat
  PROVE  /\ Receipted(debit) \in Rows
         /\ \A e \in Events :
              IF att[e].stage = "playing"
              THEN /\ Receipted(debit)[e].stage = "playing" /\ Receipted(debit)[e].result = att[e].result
                   /\ Receipted(debit)[e].spent = att[e].spent + debit
                   /\ Receipted(debit)[e].receipts = att[e].receipts + 1
                   /\ Receipted(debit)[e].closed = att[e].closed
                   /\ Receipted(debit)[e].run = att[e].run
              ELSE Receipted(debit)[e] = att[e]
<1> DEFINE R == Receipted(debit)
<1>1. ASSUME NEW e \in Events
      PROVE  /\ R[e] \in Row
             /\ IF att[e].stage = "playing"
                THEN /\ R[e].stage = "playing" /\ R[e].result = att[e].result
                     /\ R[e].spent = att[e].spent + debit /\ R[e].receipts = att[e].receipts + 1
                     /\ R[e].closed = att[e].closed /\ R[e].run = att[e].run
                ELSE R[e] = att[e]
  <2> DEFINE p == att[e].spent + debit
             n == att[e].receipts + 1
  <2>1. att[e] \in Row
    BY DEF Rows
  <2>2. p \in Nat /\ n \in Nat
    BY <2>1 DEF Row
  <2>3. R[e] = IF att[e].stage = "playing" THEN [att[e] EXCEPT !.spent = p, !.receipts = n] ELSE att[e]
    BY DEF Receipted
  <2>4. att[e].stage = "playing" =>
          /\ R[e].spent = p /\ R[e].receipts = n /\ R[e].stage = "playing"
          /\ R[e].result = att[e].result /\ R[e].closed = att[e].closed /\ R[e] \in Row
          /\ R[e].run = att[e].run
    <3> HIDE DEF p, n
    <3>1. QED
      BY <2>1, <2>2, <2>3 DEF Row
  <2>5. QED
    BY <2>1, <2>3, <2>4
<1>2. QED
  BY <1>1 DEF Receipted, Rows

LEMMA NoAttemptIsRow == NoAttempt \in Row
<1>1. 0 \in 0..MaxRuns
  BY TournamentAssumption
<1>2. QED
  BY <1>1 DEF NoAttempt, NoRun, Row, Stages

LEMMA BegunRows ==
  ASSUME att \in Rows, NEW f \in Events
  PROVE  /\ Begun(f) \in Rows
         /\ \A e \in Events : e # f => Begun(f)[e] = att[e]
         /\ Begun(f)[f].stage = "entry_pending" /\ Begun(f)[f].result = "null"
         /\ Begun(f)[f].spent = 0 /\ Begun(f)[f].run = NoRun
<1> DEFINE new == [NoAttempt EXCEPT !.stage = "entry_pending"]
<1>1. /\ new \in Row /\ new.stage = "entry_pending" /\ new.result = "null" /\ new.spent = 0
      /\ new.run = NoRun
  <2>1. /\ NoAttempt \in Row /\ NoAttempt.result = "null" /\ NoAttempt.spent = 0
        /\ NoAttempt.run = NoRun
    BY NoAttemptIsRow DEF NoAttempt
  <2>2. MovesTo(new, NoAttempt, "entry_pending")
    BY <2>1, Moved DEF Stages
  <2>3. QED
    BY <2>1, <2>2 DEF MovesTo
<1>2. Begun(f) = [att EXCEPT ![f] = new]
  BY DEF Begun
<1> HIDE DEF new
<1>3. QED
  BY <1>1, <1>2 DEF Rows
-----------------------------------------------------------------------------
(* Types.                                                                  *)

LEMMA GameMoves ==
  ASSUME game \in [screen : Screens, tickets : 0..1], NEW tap
  PROVE  LET g == Pressed(tap) IN
         /\ g \in [screen : Screens, tickets : 0..1] /\ g.tickets <= game.tickets
         /\ g.screen = "hud" => g = game \/ g.tickets < game.tickets
         /\ game.screen \in {"hud", "stats"} => g = game \/ tap = "ok"
         /\ game.screen = "hud" => g = game
<1> DEFINE g == Pressed(tap)
<1>1. CASE tap = "trophy" /\ game.screen = "menu"
  BY <1>1 DEF Pressed, Screens
<1>2. CASE tap = "battle" /\ game.screen = "page" /\ game.tickets > 0
  BY <1>2 DEF Pressed, Screens
<1>3. CASE tap = "ok" /\ game.screen = "stats"
  BY <1>3 DEF Pressed, Screens
<1>4. CASE tap = "return" /\ game.screen = "page"
  BY <1>4 DEF Pressed, Screens
<1>5. CASE tap = "farm" /\ game.screen = "menu"
  BY <1>5 DEF Pressed, Screens
<1>6. CASE ~(\/ tap = "trophy" /\ game.screen = "menu"
             \/ tap = "battle" /\ game.screen = "page" /\ game.tickets > 0
             \/ tap = "ok" /\ game.screen = "stats"
             \/ tap = "return" /\ game.screen = "page"
             \/ tap = "farm" /\ game.screen = "menu")
  BY <1>6 DEF Pressed
<1>7. QED
  BY <1>1, <1>2, <1>3, <1>4, <1>5, <1>6
GameType  == game \in [screen : Screens, tickets : 0..1]
VisitType == visit \in [opened : BOOLEAN, ok : BOOLEAN, back : BOOLEAN]
BotType   == bot \in [up : BOOLEAN, run : 0..MaxRuns, next : 1..(MaxRuns + 1), tourn : BOOLEAN,
                      todo : Taps]
BuyType   == /\ buy = NoBuy \/ buy \in [price : Prices, token : Events \X Nat, landed : BOOLEAN]
             /\ done \in (0..MaxEvents) \X Nat
ClockType == clock \in [event : Events, open : BOOLEAN] /\ deferred \subseteq Events

Types == ClockType /\ GameType /\ att \in Rows /\ VisitType /\ BotType /\ BuyType /\ SeenType

LEMMA TypeParts == TypeOK /\ SeenType <=> Types
BY DEF TypeOK, Types, GameType, VisitType, BotType, BuyType, ClockType, Rows, Row

LEMMA TypePartsNext == (TypeOK /\ SeenType)' <=> Types'
BY DEF TypeOK, Types, GameType, VisitType, BotType, BuyType, ClockType, Rows, Row

LEMMA FreshIsVisit == FreshVisit \in [opened : BOOLEAN, ok : BOOLEAN, back : BOOLEAN]
BY DEF FreshVisit

Bots == [up : BOOLEAN, run : 0..MaxRuns, next : 1..(MaxRuns + 1), tourn : BOOLEAN, todo : Taps]

\* What a scan of the HUD does: the rows enter, the run is bound or resumed.
LEMMA HudFacts ==
  ASSUME Types, NEW confirmed \in BOOLEAN, HudSeen(confirmed)
  PROVE  /\ Scans("hud") /\ visit' = [visit EXCEPT !.opened = FALSE]
         /\ seen' = [seen EXCEPT !.lines = EnteredLines]
         /\ UNCHANGED <<clock, game, deferred, buy, done>>
         /\ \/ /\ att' = EnteredRows /\ bot'.next = bot.next
               /\ bot'.run = bot.run \/ \E e \in Events : bot'.run = att[e].run
            \/ /\ bot.next \in 0..MaxRuns /\ att' = Bound(EnteredRows, bot.next)
               /\ bot'.run = bot.next /\ bot'.next = bot.next + 1
         /\ bot' \in Bots /\ bot'.up = bot.up /\ bot'.todo = bot.todo
         /\ bot.run # NoRun => bot'.run # NoRun
         /\ bot'.tourn => bot.tourn \/ \E e \in Events : EnteredRows[e].stage = "playing"
         /\ bot.tourn => bot'.tourn
<1> DEFINE known == {e \in Pending : att[e].run # NoRun}
           run   == IF bot.run = NoRun /\ known # {} THEN att[CHOOSE e \in known : TRUE].run ELSE bot.run
           inRun == \E e \in Events : EnteredRows[e].stage = "playing"
<1>1. /\ Scans("hud") /\ visit' = [visit EXCEPT !.opened = FALSE]
      /\ seen' = [seen EXCEPT !.lines = EnteredLines]
      /\ UNCHANGED <<clock, game, deferred, buy, done>>
  BY Zenon DEF HudSeen
<1>2. \/ /\ inRun /\ run = NoRun /\ StartRun(EnteredRows)
         /\ bot' = [bot EXCEPT !.tourn = TRUE, !.run = bot.next, !.next = @ + 1]
      \/ /\ att' = EnteredRows
         /\ bot' = [bot EXCEPT !.tourn = @ \/ inRun, !.run = run]
  BY Zenon DEF HudSeen
<1>3. bot \in Bots /\ att \in Rows
  BY DEF Types, BotType, Bots
<1>4. /\ run \in 0..MaxRuns /\ (bot.run # NoRun => run = bot.run)
      /\ run = bot.run \/ \E e \in Events : run = att[e].run
  <2>1. CASE bot.run = NoRun /\ known # {}
    <3>1. (CHOOSE e \in known : TRUE) \in Events
      BY <2>1 DEF Pending
    <3>2. QED
      BY <1>3, <2>1, <3>1 DEF Rows, Row
  <2>2. CASE ~(bot.run = NoRun /\ known # {})
    BY <1>3, <2>2 DEF Bots
  <2>3. QED
    BY <2>1, <2>2
<1>5. (run = NoRun => bot.run = NoRun) /\ (inRun <=> \E e \in Events : EnteredRows[e].stage = "playing")
  BY <1>4
<1> HIDE DEF known, run, inRun
<1>6. CASE /\ inRun /\ run = NoRun /\ StartRun(EnteredRows)
           /\ bot' = [bot EXCEPT !.tourn = TRUE, !.run = bot.next, !.next = @ + 1]
  <2>1. bot.next \in 0..MaxRuns /\ bot.next # NoRun /\ bot.next + 1 \in 1..(MaxRuns + 1)
    BY <1>3, <1>6, TournamentAssumption DEF StartRun, Bots, NoRun
  <2>2. bot' \in Bots /\ bot'.up = bot.up /\ bot'.todo = bot.todo /\ bot'.run = bot.next
        /\ bot'.tourn = TRUE /\ bot'.next = bot.next + 1
    BY <1>3, <1>6, <2>1, TournamentAssumption DEF Bots
  <2>3. att' = Bound(EnteredRows, bot.next)
    BY <1>6 DEF StartRun
  <2>4. QED
    BY <1>1, <1>5, <1>6, <2>1, <2>2, <2>3, Zenon
<1>7. CASE /\ att' = EnteredRows
           /\ bot' = [bot EXCEPT !.tourn = @ \/ inRun, !.run = run]
  <2> DEFINE t == bot.tourn \/ inRun
  <2>1. t \in BOOLEAN /\ (bot.tourn => t) /\ (t => bot.tourn \/ inRun)
    OBVIOUS
  <2>2. bot' = [bot EXCEPT !.tourn = t, !.run = run]
    BY <1>7
  <2> HIDE DEF t
  <2>3. /\ bot' \in Bots /\ bot'.up = bot.up /\ bot'.todo = bot.todo /\ bot'.run = run /\ bot'.tourn = t
        /\ bot'.next = bot.next
    BY <1>3, <1>4, <2>1, <2>2 DEF Bots
  <2>4. QED
    BY <1>1, <1>4, <1>5, <1>7, <2>1, <2>3, Zenon
<1>8. QED
  BY <1>2, <1>6, <1>7

LEMMA ClockStep == Types /\ [Next]_vars => ClockType'
<1> SUFFICES ASSUME Types, [Next]_vars PROVE ClockType'
  OBVIOUS
<1> USE TournamentAssumption DEF Types, ClockType
<1>1. CASE DayPasses
  <2>1. CASE clock.open
    BY <1>1, <2>1 DEF DayPasses
  <2>2. CASE ~clock.open
    BY <1>1, <2>2 DEF DayPasses, Events
  <2>3. QED
    BY <2>1, <2>2
<1>2. CASE Scan
  BY <1>2 DEF Scan, MenuCompletes, MenuReleases, MenuOpens, MenuEndsRun, FarmSeen, HudUnowned,
    HudSeen, StatsSeen, StatsUnowned, PageSeen, PageDefers, PageEnters
<1>3. CASE Opening
  BY <1>3 DEF Opening, Buy, BuyConfirmed, BuyGivenUp
<1>4. CASE BackoffExpires \/ TapLost \/ Crash \/ ScopeChange \/ GameRestarts
  BY <1>4 DEF BackoffExpires, TapLost, Crash, ScopeChange, GameRestarts
<1>5. CASE \E tap \in Taps : Hand(tap)
  BY <1>5 DEF Hand
<1>6. CASE MenuFarms \/ TapLands \/ RunEnds \/ Restart \/ UNCHANGED vars
  BY <1>6 DEF MenuFarms, TapLands, RunEnds, Restart, vars
<1>7. QED
  BY <1>1, <1>2, <1>3, <1>4, <1>5, <1>6 DEF Next, Environment

LEMMA GameStep == Types /\ [Next]_vars => GameType'
<1> SUFFICES ASSUME Types, [Next]_vars PROVE GameType'
  OBVIOUS
<1> USE DEF Types, GameType
<1>1. CASE DayPasses
  BY <1>1 DEF DayPasses
<1>2. CASE Scan
  BY <1>2 DEF Scan, MenuCompletes, MenuReleases, MenuOpens, MenuEndsRun, FarmSeen, HudUnowned,
    HudSeen, StatsSeen, StatsUnowned, PageSeen, PageDefers, PageEnters
<1>3. CASE Opening
  BY <1>3 DEF Opening, Buy, BuyConfirmed, BuyGivenUp
<1>4. CASE BackoffExpires \/ TapLost \/ Crash \/ ScopeChange
  BY <1>4 DEF BackoffExpires, TapLost, Crash, ScopeChange
<1>5. CASE TapLands \/ \E tap \in Taps : Hand(tap)
  BY <1>5, GameMoves DEF Hand, TapLands
<1>6. CASE MenuFarms \/ Restart \/ UNCHANGED vars
  BY <1>6 DEF MenuFarms, Restart, vars
<1>7. CASE GameRestarts \/ RunEnds
  BY <1>7 DEF GameRestarts, RunEnds, Screens
<1>8. QED
  BY <1>1, <1>2, <1>3, <1>4, <1>5, <1>6, <1>7 DEF Next, Environment

LEMMA VisitStep == Types /\ [Next]_vars => VisitType'
<1> SUFFICES ASSUME Types, [Next]_vars PROVE VisitType'
  OBVIOUS
<1> USE DEF Types, VisitType
<1>1. CASE Scan
  <2>1. FreshVisit \in [opened : BOOLEAN, ok : BOOLEAN, back : BOOLEAN]
    BY FreshIsVisit
  <2>2. CASE MenuCompletes \/ MenuReleases \/ MenuOpens \/ MenuEndsRun \/ FarmSeen
    BY <2>1, <2>2 DEF MenuCompletes, MenuReleases, MenuOpens, MenuEndsRun, FarmSeen
  <2>3. CASE HudUnowned \/ StatsSeen \/ StatsUnowned \/ PageDefers
    BY <2>3 DEF HudUnowned, StatsSeen, StatsUnowned, PageDefers
  <2>4. CASE PageEnters \/ \E confirmed \in BOOLEAN : HudSeen(confirmed)
    <3>1. CASE PageEnters
      BY <3>1, Zenon DEF PageEnters
    <3>2. ASSUME NEW confirmed \in BOOLEAN, HudSeen(confirmed) PROVE VisitType'
      <4>1. visit' = [visit EXCEPT !.opened = FALSE]
        BY <3>2, HudFacts
      <4>2. QED
        BY <4>1
    <3>3. QED
      BY <2>4, <3>1, <3>2
  <2>5. CASE PageSeen
    <3> DEFINE over == \E e \in Events :
                        (IF game.tickets = 0 THEN Exhausted ELSE att)[e].stage = "result"
    <3>1. visit' = [visit EXCEPT !.opened = TRUE, !.back = visit.back \/ over]
      BY <2>5, Zenon DEF PageSeen
    <3>2. (visit.back \/ over) \in BOOLEAN
      OBVIOUS
    <3> HIDE DEF over
    <3>3. QED
      BY <3>1, <3>2
  <2>6. QED
    BY <1>1, <2>2, <2>3, <2>4, <2>5 DEF Scan
<1>2. CASE Opening
  BY <1>2 DEF Opening, Buy, BuyConfirmed, BuyGivenUp
<1>3. CASE BackoffExpires \/ TapLost \/ GameRestarts \/ DayPasses \/ TapLands \/ RunEnds
  BY <1>3 DEF BackoffExpires, TapLost, GameRestarts, DayPasses, TapLands, RunEnds
<1>4. CASE \E tap \in Taps : Hand(tap)
  BY <1>4 DEF Hand
<1>5. CASE MenuFarms \/ Restart \/ UNCHANGED vars
  BY <1>5 DEF MenuFarms, Restart, vars
<1>6. CASE Crash \/ ScopeChange
  BY <1>6, FreshIsVisit DEF Crash, ScopeChange
<1>7. QED
  BY <1>1, <1>2, <1>3, <1>4, <1>5, <1>6 DEF Next, Environment
\* The entry taps of a tap that is sent.
Tapped == [e \in Events |-> seen.taps[e] + IF bot.todo = "battle" /\ e \in At({"entry_pending"}) THEN 1 ELSE 0]

LEMMA TappedTypes == SeenType => Tapped \in [Events -> Nat]
BY DEF SeenType, Tapped

LEMMA LandedFacts ==
  ASSUME Types, TapLands
  PROVE  /\ bot.up /\ bot' = [bot EXCEPT !.todo = "none"] /\ game' = Pressed(bot.todo)
         /\ seen'.taps = Tapped /\ seen'.tickets = Used /\ SeenType'
         /\ seen'.lines = seen.lines /\ seen'.cash = seen.cash /\ seen'.unseen = seen.unseen
         /\ seen'.farmBound = seen.farmBound /\ seen'.strayed = seen.strayed
         /\ seen'.farm = seen.farm /\ seen'.glimpsed = seen.glimpsed
         /\ UNCHANGED <<clock, att, deferred, visit, buy, done>>
<1> DEFINE went == IF bot.todo = "battle" /\ game'.screen = "hud" THEN At({"entry_pending"}) ELSE {}
           entered == seen.entered \cup went
<1>1. seen' = [seen EXCEPT !.taps = Tapped, !.tickets = Used, !.entered = entered]
  BY DEF TapLands, Tapped
<1>2. Used \in Nat
  <2>1. game'.tickets <= game.tickets /\ game' \in [screen : Screens, tickets : 0..1]
    BY GameMoves DEF TapLands, Types, GameType
  <2>2. QED
    BY <2>1 DEF Used, Types, GameType, SeenType
<1>3. Tapped \in [Events -> Nat] /\ entered \subseteq Events
  BY TappedTypes DEF Types, SeenType, At
<1> HIDE DEF entered
<1>4. /\ SeenType' /\ seen'.taps = Tapped /\ seen'.tickets = Used
      /\ seen'.lines = seen.lines /\ seen'.cash = seen.cash /\ seen'.unseen = seen.unseen
      /\ seen'.farmBound = seen.farmBound /\ seen'.strayed = seen.strayed
      /\ seen'.farm = seen.farm /\ seen'.glimpsed = seen.glimpsed
  BY <1>1, <1>2, <1>3 DEF Types, SeenType
<1>5. /\ bot.up /\ bot' = [bot EXCEPT !.todo = "none"] /\ game' = Pressed(bot.todo)
      /\ UNCHANGED <<clock, att, deferred, visit, buy, done>>
  BY Zenon DEF TapLands
<1>6. QED
  BY <1>4, <1>5

LEMMA LostFacts ==
  ASSUME Types, TapLost
  PROVE  /\ bot' = [bot EXCEPT !.todo = "none"]
         /\ seen'.taps = Tapped /\ SeenType'
         /\ seen'.lines = seen.lines /\ seen'.cash = seen.cash /\ seen'.unseen = seen.unseen
         /\ seen'.farmBound = seen.farmBound /\ (seen.strayed => seen'.strayed)
         /\ seen'.farm = seen.farm /\ seen'.glimpsed = seen.glimpsed
         /\ seen'.tickets = seen.tickets
         /\ UNCHANGED <<clock, game, att, deferred, visit, buy, done>>
<1> DEFINE n == seen.faults + 1
           strays == seen.strayed \/ (bot.todo \in {"ok", "return"} /\ Pending # {})
<1>1. seen' = [seen EXCEPT !.faults = n, !.strayed = strays, !.taps = Tapped]
  BY DEF TapLost, Tapped
<1>2. Tapped \in [Events -> Nat] /\ n \in Nat /\ strays \in BOOLEAN /\ (seen.strayed => strays)
  <2>1. Tapped \in [Events -> Nat] /\ n \in Nat
    BY TappedTypes DEF Types, SeenType
  <2>2. strays \in BOOLEAN /\ (seen.strayed => strays)
    OBVIOUS
  <2>3. QED
    BY <2>1, <2>2
<1> HIDE DEF n, strays
<1>3. /\ SeenType' /\ seen'.taps = Tapped
      /\ seen'.lines = seen.lines /\ seen'.cash = seen.cash /\ seen'.unseen = seen.unseen
      /\ seen'.farmBound = seen.farmBound /\ seen'.strayed = strays /\ seen'.tickets = seen.tickets
      /\ seen'.farm = seen.farm /\ seen'.glimpsed = seen.glimpsed
  BY <1>1, <1>2 DEF Types, SeenType
<1>4. /\ bot' = [bot EXCEPT !.todo = "none"]
      /\ UNCHANGED <<clock, game, att, deferred, visit, buy, done>>
  BY Zenon DEF TapLost
<1>5. QED
  BY <1>2, <1>3, <1>4
LEMMA LinesTypes ==
  ASSUME Types
  PROVE  EnteredLines \in [Events -> Nat]
BY DEF Types, SeenType, EnteredLines

LEMMA HudSeenTypes ==
  ASSUME Types, NEW confirmed \in BOOLEAN, HudSeen(confirmed)
  PROVE  att' \in Rows /\ BotType' /\ BuyType' /\ SeenType'
<1>1. att' \in Rows
  BY HudFacts, EnteredMoves, BoundRows DEF Types
<1>2. BotType'
  BY HudFacts DEF BotType, Bots
<1>3. BuyType'
  BY HudFacts DEF Types, BuyType
<1>4. SeenType'
  BY HudFacts, LinesTypes DEF Types, SeenType
<1>5. QED
  BY <1>1, <1>2, <1>3, <1>4

\* What the end of a run leaves of the history: all but the flag's own.
CountsKept ==
  /\ seen'.lines = seen.lines /\ seen'.cash = seen.cash /\ seen'.unseen = seen.unseen
  /\ seen'.tickets = seen.tickets /\ seen'.strayed = seen.strayed
  /\ seen'.farm = seen.farm /\ seen'.farmBound = seen.farmBound

LEMMA StatsFacts ==
  ASSUME Types, StatsSeen
  PROVE  /\ att' = Resulted("read") /\ bot' \in Bots /\ bot'.up = bot.up /\ bot.todo = "none"
         /\ bot'.todo \in {"none", "ok"} /\ game.screen = "stats" /\ bot'.next = bot.next
         /\ bot'.run \in {NoRun, bot.run} /\ (bot'.tourn => bot.tourn)
         /\ \/ bot'.run = bot.run /\ bot'.tourn = bot.tourn /\ buy' = buy
               /\ (At({"playing", "entry_pending"}) = {} \/ bot.run = NoRun)
            \/ buy' = NoBuy
         /\ SeenType' /\ seen'.taps = seen.taps /\ CountsKept /\ seen'.glimpsed = bot'.tourn
         /\ UNCHANGED <<clock, game, deferred, done>>
<1> DEFINE read == At({"playing", "entry_pending"}) # {}
           ends == read /\ bot.run # NoRun
           r == IF ends THEN NoRun ELSE bot.run
           t == bot.tourn /\ ~ends
           w == IF visit.ok THEN bot.todo ELSE "ok"
<1>1. /\ att' = Resulted("read") /\ bot' = [bot EXCEPT !.run = r, !.tourn = t, !.todo = w]
      /\ buy' = (IF ends THEN NoBuy ELSE buy) /\ Scans("stats")
      /\ seen' = [seen EXCEPT !.glimpsed = t]
      /\ UNCHANGED <<clock, game, deferred, done>>
  BY DEF StatsSeen
<1>2. bot \in Bots /\ bot.todo = "none" /\ game.screen = "stats"
  BY <1>1 DEF Types, BotType, Bots, Scans
<1>3. r \in 0..MaxRuns /\ t \in BOOLEAN /\ w \in {"none", "ok"} /\ w \in Taps
  BY <1>2, TournamentAssumption DEF Bots, NoRun, Taps
<1>4. ~ends => (r = bot.run /\ t = bot.tourn /\ buy' = buy)
  BY <1>1, <1>2 DEF Bots
<1>5. (ends => buy' = NoBuy) /\ r \in {NoRun, bot.run} /\ (t => bot.tourn)
  BY <1>1
<1> HIDE DEF r, t, w
<1>6. /\ bot' \in Bots /\ bot'.up = bot.up /\ bot'.run = r /\ bot'.tourn = t /\ bot'.todo = w
      /\ bot'.next = bot.next
  BY <1>1, <1>2, <1>3 DEF Bots
<1>7. SeenType' /\ seen'.taps = seen.taps /\ CountsKept /\ seen'.glimpsed = t
  BY <1>1, <1>3 DEF Types, SeenType, CountsKept
<1>8. QED
  BY <1>1, <1>2, <1>3, <1>4, <1>5, <1>6, <1>7, Zenon

LEMMA PageFacts ==
  ASSUME Types, PageSeen
  PROVE  /\ att' = Exhausted \/ att' = att
         /\ bot' = bot \/ bot' = [bot EXCEPT !.todo = "return"]
         /\ game.screen = "page" /\ bot.todo = "none"
         /\ UNCHANGED <<clock, game, deferred, buy, done, seen>>
<1>1. /\ att' = Exhausted \/ att' = att
      /\ bot' = Return \/ bot' = bot
      /\ Scans("page") /\ UNCHANGED <<clock, game, deferred, buy, done, seen>>
  BY Zenon DEF PageSeen
<1>2. QED
  BY <1>1 DEF Return, Scans

LEMMA BuyFacts ==
  ASSUME Types, NEW e \in Events, NEW price \in Prices, NEW landed \in BOOLEAN, Buy(e, price, landed)
  PROVE  /\ bot.up /\ bot.run # NoRun /\ bot.tourn /\ att[e].stage = "playing" /\ ~att[e].closed
         /\ buy = NoBuy /\ done # Token(e) /\ price <= CashBudget - att[e].spent
         /\ buy' = [price |-> price, token |-> Token(e), landed |-> landed]
         /\ seen'.cash = [seen.cash EXCEPT ![e] = @ + IF landed THEN price ELSE 0]
         /\ SeenType' /\ BuyType' /\ price \in Nat /\ price # 0
         /\ seen'.lines = seen.lines /\ seen'.taps = seen.taps /\ seen'.unseen = seen.unseen
         /\ seen'.farmBound = seen.farmBound /\ seen'.strayed = seen.strayed
         /\ seen'.farm = seen.farm /\ seen'.glimpsed = seen.glimpsed
         /\ seen'.tickets = seen.tickets
         /\ UNCHANGED <<clock, game, att, deferred, visit, bot, done>>
<1> DEFINE cash == [seen.cash EXCEPT ![e] = @ + IF landed THEN price ELSE 0]
<1>1. /\ bot.up /\ bot.run # NoRun /\ bot.tourn /\ att[e].stage = "playing" /\ ~att[e].closed
      /\ buy = NoBuy /\ done # Token(e) /\ price <= CashBudget - att[e].spent
      /\ buy' = [price |-> price, token |-> Token(e), landed |-> landed]
      /\ UNCHANGED <<clock, game, att, deferred, visit, bot, done>>
  BY Zenon DEF Buy, Scans
<1>2. seen' = [seen EXCEPT !.cash = cash]
  BY DEF Buy
<1>3. price \in Nat /\ price # 0
  BY TournamentAssumption
<1>4. cash \in [Events -> Nat]
  BY <1>3 DEF Types, SeenType
<1> HIDE DEF cash
<1>5. /\ SeenType' /\ seen'.cash = cash
      /\ seen'.lines = seen.lines /\ seen'.taps = seen.taps /\ seen'.unseen = seen.unseen
      /\ seen'.farmBound = seen.farmBound /\ seen'.strayed = seen.strayed
      /\ seen'.farm = seen.farm /\ seen'.glimpsed = seen.glimpsed
      /\ seen'.tickets = seen.tickets
  BY <1>2, <1>4 DEF Types, SeenType
<1>6. BuyType'
  <2>1. Token(e) \in Events \X Nat
    BY DEF Token, Types, Rows, Row
  <2>2. buy' \in [price : Prices, token : Events \X Nat, landed : BOOLEAN]
    BY <1>1, <2>1
  <2>3. QED
    BY <1>1, <2>2 DEF BuyType, Types
<1>7. QED
  BY <1>1, <1>3, <1>5, <1>6 DEF cash

LEMMA ConfirmedFacts ==
  ASSUME Types, NEW scoped \in BOOLEAN, NEW known \in BOOLEAN, BuyConfirmed(scoped, known)
  PROVE  /\ bot.up /\ buy # NoBuy /\ buy.landed /\ buy \in [price : Prices, token : Events \X Nat, landed : BOOLEAN]
         /\ att' = att \/ att' = Receipted(Debit(known))
         /\ done' = buy.token /\ buy' = NoBuy /\ buy.price \in Nat
         /\ Debit(known) \in Nat /\ Debit(known) \in {buy.price, CashBudget}
         /\ SeenType' /\ BuyType' /\ att' \in Rows
         /\ seen'.lines = seen.lines /\ seen'.taps = seen.taps /\ seen'.unseen = seen.unseen
         /\ seen'.cash = seen.cash /\ seen'.farmBound = seen.farmBound
         /\ seen'.farm = seen.farm /\ seen'.glimpsed = seen.glimpsed
         /\ seen'.strayed = seen.strayed /\ seen'.tickets = seen.tickets
         /\ UNCHANGED <<clock, game, deferred, visit, bot>>
<1> DEFINE n == seen.faults + IF scoped THEN 0 ELSE 1
<1>1. /\ bot.up /\ buy # NoBuy /\ buy.landed
      /\ att' = att \/ att' = Receipted(Debit(known))
      /\ done' = buy.token /\ buy' = NoBuy
      /\ UNCHANGED <<clock, game, deferred, visit, bot>>
  BY Zenon DEF BuyConfirmed, Scans
<1>2. seen' = [seen EXCEPT !.faults = n]
  BY DEF BuyConfirmed
<1>3. n \in Nat
  BY DEF Types, SeenType
<1> HIDE DEF n
<1>4. /\ SeenType'
      /\ seen'.lines = seen.lines /\ seen'.taps = seen.taps /\ seen'.unseen = seen.unseen
      /\ seen'.cash = seen.cash /\ seen'.farmBound = seen.farmBound
      /\ seen'.farm = seen.farm /\ seen'.glimpsed = seen.glimpsed
      /\ seen'.strayed = seen.strayed /\ seen'.tickets = seen.tickets
  BY <1>2, <1>3 DEF Types, SeenType
<1>5. buy \in [price : Prices, token : Events \X Nat, landed : BOOLEAN] /\ buy.price \in Nat
  BY <1>1, TournamentAssumption DEF Types, BuyType
<1>6. BuyType'
  BY <1>1, <1>5 DEF BuyType, Events
<1>7. Debit(known) \in Nat /\ Debit(known) \in {buy.price, CashBudget}
  BY <1>5, TournamentAssumption DEF Debit
<1>8. att' \in Rows
  BY <1>1, <1>7, ReceiptedRows DEF Types
<1>9. QED
  BY <1>1, <1>4, <1>5, <1>6, <1>7, <1>8

LEMMA GivenUpFacts ==
  ASSUME Types, BuyGivenUp
  PROVE  /\ buy # NoBuy /\ buy' = NoBuy
         /\ buy \in [price : Prices, token : Events \X Nat, landed : BOOLEAN] /\ buy.price \in Nat
         /\ SeenType' /\ BuyType'
         /\ \A e \in Events : seen'.unseen[e] = seen.unseen[e] + InFlight(e)
         /\ seen'.lines = seen.lines /\ seen'.taps = seen.taps
         /\ seen'.cash = seen.cash /\ seen'.farmBound = seen.farmBound
         /\ seen'.farm = seen.farm /\ seen'.glimpsed = seen.glimpsed
         /\ seen'.strayed = seen.strayed /\ seen'.tickets = seen.tickets
         /\ UNCHANGED <<clock, game, att, deferred, visit, bot, done>>
<1> DEFINE b == buy.token[1]
           unseen == [seen.unseen EXCEPT ![b] = @ + buy.price]
           n == seen.faults + 1
<1>1. /\ buy # NoBuy /\ buy' = NoBuy
      /\ UNCHANGED <<clock, game, att, deferred, visit, bot, done>>
  BY Zenon DEF BuyGivenUp
<1>2. seen' = IF buy.landed THEN [seen EXCEPT !.unseen = unseen, !.faults = n] ELSE seen
  BY DEF BuyGivenUp
<1>3. /\ buy \in [price : Prices, token : Events \X Nat, landed : BOOLEAN]
      /\ buy.price \in Nat /\ b \in Events
  BY <1>1, TournamentAssumption DEF Types, BuyType
<1>4. unseen \in [Events -> Nat] /\ n \in Nat
  BY <1>3 DEF Types, SeenType
<1>5. \A e \in Events : unseen[e] = IF e = b THEN seen.unseen[e] + buy.price ELSE seen.unseen[e]
  BY <1>3 DEF Types, SeenType
<1> HIDE DEF unseen, n
<1>6. /\ SeenType'
      /\ seen'.unseen = IF buy.landed THEN unseen ELSE seen.unseen
      /\ seen'.lines = seen.lines /\ seen'.taps = seen.taps
      /\ seen'.cash = seen.cash /\ seen'.farmBound = seen.farmBound
      /\ seen'.farm = seen.farm /\ seen'.glimpsed = seen.glimpsed
      /\ seen'.strayed = seen.strayed /\ seen'.tickets = seen.tickets
  BY <1>2, <1>4 DEF Types, SeenType
<1>7. \A e \in Events : seen'.unseen[e] = seen.unseen[e] + InFlight(e)
  BY <1>1, <1>5, <1>6 DEF InFlight, Types, SeenType
<1>8. BuyType'
  BY <1>1 DEF BuyType, Types
<1>9. QED
  BY <1>1, <1>3, <1>6, <1>7, <1>8
LEMMA HandFacts ==
  ASSUME Types, NEW tap, Hand(tap)
  PROVE  /\ game' = Pressed(tap) /\ seen'.tickets = Used /\ seen'.strayed /\ SeenType'
         /\ seen'.lines = seen.lines /\ seen'.taps = seen.taps /\ seen'.unseen = seen.unseen
         /\ seen'.cash = seen.cash /\ seen'.farmBound = seen.farmBound
         /\ seen'.farm = seen.farm /\ seen'.glimpsed = seen.glimpsed
         /\ UNCHANGED <<clock, att, deferred, visit, bot, buy, done>>
<1> DEFINE n == seen.faults + 1
<1>1. /\ game' = Pressed(tap)
      /\ UNCHANGED <<clock, att, deferred, visit, bot, buy, done>>
  BY Zenon DEF Hand
<1>2. seen' = [seen EXCEPT !.faults = n, !.strayed = TRUE, !.tickets = Used]
  BY DEF Hand
<1>3. Used \in Nat
  <2>1. game'.tickets <= game.tickets /\ game' \in [screen : Screens, tickets : 0..1]
    BY <1>1, GameMoves DEF Types, GameType
  <2>2. QED
    BY <2>1 DEF Used, Types, GameType, SeenType
<1>4. n \in Nat
  BY DEF Types, SeenType
<1> HIDE DEF n
<1>5. QED
  BY <1>1, <1>2, <1>3, <1>4 DEF Types, SeenType

LEMMA RestartFacts ==
  ASSUME Types, GameRestarts
  PROVE  /\ game' = [game EXCEPT !.screen = "menu"] /\ SeenType'
         /\ seen.strayed \/ game.screen \in {"hud", "stats"} => seen'.strayed
         /\ seen'.lines = seen.lines /\ seen'.taps = seen.taps /\ seen'.unseen = seen.unseen
         /\ seen'.cash = seen.cash /\ seen'.farmBound = seen.farmBound
         /\ seen'.farm = seen.farm /\ seen'.glimpsed = seen.glimpsed
         /\ seen'.tickets = seen.tickets
         /\ UNCHANGED <<clock, att, deferred, visit, bot, buy, done>>
<1> DEFINE n == seen.faults + 1
           strays == seen.strayed \/ game.screen \in {"hud", "stats"}
<1>1. /\ game' = [game EXCEPT !.screen = "menu"]
      /\ UNCHANGED <<clock, att, deferred, visit, bot, buy, done>>
  BY Zenon DEF GameRestarts
<1>2. seen' = [seen EXCEPT !.faults = n, !.strayed = strays]
  BY DEF GameRestarts
<1>3. n \in Nat /\ strays \in BOOLEAN /\ (seen.strayed \/ game.screen \in {"hud", "stats"} => strays)
  <2>1. n \in Nat
    BY DEF Types, SeenType
  <2>2. QED
    BY <2>1
<1> HIDE DEF n, strays
<1>4. /\ SeenType' /\ seen'.strayed = strays
      /\ seen'.lines = seen.lines /\ seen'.taps = seen.taps /\ seen'.unseen = seen.unseen
      /\ seen'.cash = seen.cash /\ seen'.farmBound = seen.farmBound
      /\ seen'.farm = seen.farm /\ seen'.glimpsed = seen.glimpsed
      /\ seen'.tickets = seen.tickets
  BY <1>2, <1>3 DEF Types, SeenType
<1>5. QED
  BY <1>1, <1>3, <1>4

LEMMA CrashFacts ==
  ASSUME Types, Crash
  PROVE  /\ bot' \in Bots /\ ~bot'.up /\ bot'.todo = "none" /\ buy' = NoBuy /\ SeenType' /\ BuyType'
         /\ seen'.lines = seen.lines /\ seen'.taps = seen.taps /\ seen'.unseen = seen.unseen
         /\ seen'.cash = seen.cash /\ seen'.farmBound = seen.farmBound
         /\ seen'.farm = seen.farm /\ bot'.run = NoRun /\ ~bot'.tourn /\ bot'.next = bot.next
         /\ seen'.tickets = seen.tickets /\ seen'.strayed = seen.strayed
         /\ UNCHANGED <<clock, game, att, deferred>>
<1> DEFINE n == seen.faults + 1
<1>1. seen' = [seen EXCEPT !.faults = n, !.glimpsed = FALSE] /\ n \in Nat
  BY DEF Crash, Types, SeenType
<1>2. bot' = [bot EXCEPT !.up = FALSE, !.run = NoRun, !.tourn = FALSE, !.todo = "none"]
      /\ buy' = NoBuy /\ done' = <<0, 0>> /\ UNCHANGED <<clock, game, att, deferred>>
  BY Zenon DEF Crash
<1>3. /\ bot' \in Bots /\ ~bot'.up /\ bot'.todo = "none"
      /\ bot'.run = NoRun /\ ~bot'.tourn /\ bot'.next = bot.next
  <2>1. NoRun \in 0..MaxRuns /\ "none" \in Taps
    BY TournamentAssumption DEF NoRun, Taps
  <2>2. QED
    BY <1>2, <2>1 DEF Types, BotType, Bots
<1>4. BuyType'
  <2>1. 0 \in 0..MaxEvents /\ 0 \in Nat
    BY TournamentAssumption
  <2>2. <<0, 0>> \in (0..MaxEvents) \X Nat
    BY <2>1
  <2>3. QED
    BY <1>2, <2>2 DEF BuyType
<1> HIDE DEF n
<1>5. QED
  BY <1>1, <1>2, <1>3, <1>4 DEF Types, SeenType

LEMMA EndsFacts ==
  ASSUME Types, MenuEndsRun
  PROVE  /\ att' = att \/ att' = Resulted("blank")
         /\ bot.tourn => att' = Resulted("blank")
         /\ bot' \in Bots /\ bot'.up = bot.up /\ bot'.todo = bot.todo /\ buy' = NoBuy
         /\ bot'.run = NoRun /\ ~bot'.tourn /\ bot'.next = bot.next
         /\ SeenType' /\ seen'.taps = seen.taps /\ CountsKept
         /\ UNCHANGED <<clock, game, deferred, visit, done>>
<1>1. /\ att' = att \/ att' = Resulted("blank")
      /\ bot.tourn => att' = Resulted("blank")
      /\ bot' = [bot EXCEPT !.run = NoRun, !.tourn = FALSE] /\ buy' = NoBuy
      /\ UNCHANGED <<clock, game, deferred, visit, done>>
  BY Zenon DEF MenuEndsRun
<1>2. /\ bot' \in Bots /\ bot'.up = bot.up /\ bot'.todo = bot.todo
      /\ bot'.run = NoRun /\ ~bot'.tourn /\ bot'.next = bot.next
  <2>1. NoRun \in 0..MaxRuns /\ bot \in Bots
    BY TournamentAssumption DEF NoRun, Types, BotType, Bots
  <2>2. bot' = [bot EXCEPT !.run = NoRun, !.tourn = FALSE]
    BY <1>1
  <2>3. QED
    BY <2>1, <2>2 DEF Bots
<1>3. SeenType' /\ seen'.taps = seen.taps /\ CountsKept
  BY DEF MenuEndsRun, Types, SeenType, CountsKept
<1>4. QED
  BY <1>1, <1>2, <1>3

LEMMA FarmFacts ==
  ASSUME Types, FarmSeen
  PROVE  /\ att' = Bound(att, bot.next) /\ att' \in Rows /\ bot.next \in 0..MaxRuns
         /\ bot' \in Bots /\ bot'.up = bot.up /\ bot'.todo = bot.todo /\ bot.run = NoRun
         /\ bot'.tourn = bot.tourn /\ game.screen = "farm"
         /\ bot'.run = bot.next /\ bot'.next = bot.next + 1 /\ bot.todo = "none"
         /\ seen'.farm = bot.next /\ seen'.glimpsed = seen.glimpsed
         /\ SeenType' /\ (seen'.farmBound => seen.farmBound \/ InRun)
         /\ seen'.lines = seen.lines /\ seen'.taps = seen.taps /\ seen'.unseen = seen.unseen
         /\ seen'.cash = seen.cash /\ seen'.tickets = seen.tickets /\ seen'.strayed = seen.strayed
         /\ UNCHANGED <<clock, game, deferred, visit, buy, done>>
<1> DEFINE n == bot.next + 1
           farms == seen.farmBound \/ InRun
<1>1. /\ bot' = [bot EXCEPT !.run = bot.next, !.next = n]
      /\ seen' = [seen EXCEPT !.farm = bot.next, !.farmBound = farms]
  BY DEF FarmSeen
<1>2. /\ att' = Bound(att, bot.next) /\ bot.next <= MaxRuns /\ bot.run = NoRun
      /\ game.screen = "farm" /\ bot.todo = "none"
      /\ UNCHANGED <<clock, game, deferred, visit, buy, done>>
  BY Zenon DEF FarmSeen, StartRun, Scans
<1>3. n \in 1..(MaxRuns + 1) /\ bot.next \in 0..MaxRuns
  BY <1>2, TournamentAssumption DEF Types, BotType
<1>4. farms \in BOOLEAN /\ (farms => seen.farmBound \/ InRun)
  OBVIOUS
<1> HIDE DEF n, farms
<1>5. /\ bot' \in Bots /\ bot'.up = bot.up /\ bot'.todo = bot.todo /\ bot'.tourn = bot.tourn
      /\ bot'.run = bot.next /\ bot'.next = n
  BY <1>1, <1>3 DEF Types, BotType, Bots
<1>6. /\ SeenType' /\ seen'.farmBound = farms
      /\ seen'.farm = bot.next /\ seen'.glimpsed = seen.glimpsed
      /\ seen'.lines = seen.lines /\ seen'.taps = seen.taps /\ seen'.unseen = seen.unseen
      /\ seen'.cash = seen.cash /\ seen'.tickets = seen.tickets /\ seen'.strayed = seen.strayed
  BY <1>1, <1>3, <1>4 DEF Types, SeenType
<1>7. att' \in Rows
  BY <1>2, <1>3, BoundRows DEF Types
<1>8. QED
  BY <1>2, <1>3, <1>4, <1>5, <1>6, <1>7 DEF n

\* Steps that touch none of the rows and nothing of what was seen.
Idle == MenuReleases \/ MenuOpens \/ MenuFarms \/ HudUnowned \/ StatsUnowned \/ PageDefers
        \/ RunEnds \/ DayPasses \/ BackoffExpires

LEMMA IdleFacts ==
  ASSUME Types, Idle
  PROVE  /\ UNCHANGED <<att, buy, done, seen>> /\ bot' \in Bots
         /\ bot'.up = bot.up /\ bot'.run = bot.run /\ bot'.tourn = bot.tourn
         /\ bot'.todo \in {bot.todo, "trophy", "farm", "return"}
         /\ \/ game' = game
            \/ game'.screen = game.screen /\ game'.tickets \in 0..1
            \/ RunEnds
<1> USE DEF Types, BotType, Bots
<1>1. CASE MenuReleases \/ MenuOpens \/ MenuFarms \/ HudUnowned \/ StatsUnowned
  BY <1>1 DEF MenuReleases, MenuOpens, MenuFarms, HudUnowned, StatsUnowned, Taps
<1>2. CASE PageDefers
  BY <1>2 DEF PageDefers, Return, Taps
<1>3. CASE RunEnds \/ DayPasses \/ BackoffExpires
  BY <1>3 DEF RunEnds, DayPasses, BackoffExpires, GameType
<1>4. QED
  BY <1>1, <1>2, <1>3 DEF Idle

\* An idle step decides on a tap only without an open run, or on the page.
LEMMA IdleNext ==
  ASSUME Types, Idle
  PROVE  /\ bot'.next = bot.next
         /\ \/ bot.run = NoRun \/ game.screen \notin {"farm", "menu"}
            \/ /\ bot'.todo = bot.todo
               /\ game'.screen = game.screen \/ game'.screen = "menu"
<1> USE DEF Types, BotType, Bots
<1>1. CASE MenuReleases \/ MenuOpens \/ MenuFarms \/ HudUnowned \/ StatsUnowned
  BY <1>1 DEF MenuReleases, MenuOpens, MenuFarms, HudUnowned, StatsUnowned, CanOpen
<1>2. CASE PageDefers
  BY <1>2 DEF PageDefers, Return, Scans
<1>3. CASE RunEnds \/ DayPasses \/ BackoffExpires
  BY <1>3 DEF RunEnds, DayPasses, BackoffExpires, GameType, Screens
<1>4. QED
  BY <1>1, <1>2, <1>3 DEF Idle

LEMMA NextKinds ==
  ASSUME [Next]_vars
  PROVE  \/ Idle \/ MenuCompletes \/ MenuEndsRun \/ FarmSeen \/ StatsSeen \/ PageSeen \/ PageEnters
         \/ \E confirmed \in BOOLEAN : HudSeen(confirmed)
         \/ \E e \in Events, price \in Prices, landed \in BOOLEAN : Buy(e, price, landed)
         \/ \E scoped, known \in BOOLEAN : BuyConfirmed(scoped, known)
         \/ BuyGivenUp \/ TapLost \/ TapLands \/ GameRestarts \/ Crash \/ Restart \/ ScopeChange
         \/ \E tap \in Taps : Hand(tap)
         \/ UNCHANGED vars
BY DEF Next, Scan, Opening, Environment, Idle

LEMMA TypesStep == Types /\ [Next]_vars => Types'
<1> SUFFICES ASSUME Types, [Next]_vars PROVE Types'
  OBVIOUS
<1>1. SUFFICES att' \in Rows /\ BotType' /\ BuyType' /\ SeenType'
  BY <1>1, ClockStep, GameStep, VisitStep DEF Types
<1>t. att \in Rows /\ bot \in Bots /\ BuyType /\ SeenType /\ (BotType' <=> bot' \in Bots)
  BY DEF Types, BotType, Bots
<1>2. CASE Idle \/ UNCHANGED vars
  BY <1>2, <1>t, IdleFacts DEF vars, BuyType, SeenType
<1>3. CASE MenuCompletes \/ PageSeen
  <2>1. att' \in Rows
    BY <1>3, <1>t, CompletedMoves, ExhaustedMoves, PageFacts DEF MenuCompletes
  <2>2. bot' = bot \/ bot' = [bot EXCEPT !.todo = "return"]
    BY <1>3, PageFacts DEF MenuCompletes
  <2>3. bot' \in Bots
    BY <1>t, <2>2 DEF Bots, Taps
  <2>4. UNCHANGED <<buy, done, seen>>
    BY <1>3, PageFacts DEF MenuCompletes
  <2>5. QED
    BY <1>t, <2>1, <2>3, <2>4 DEF BuyType, SeenType
<1>4. CASE MenuEndsRun \/ StatsSeen
  <2>1. att' \in Rows
    BY <1>4, <1>t, ResultedRows, EndsFacts, StatsFacts
  <2>2. bot' \in Bots /\ SeenType' /\ UNCHANGED done /\ buy' \in {buy, NoBuy}
    BY <1>4, EndsFacts, StatsFacts
  <2>3. QED
    BY <1>t, <2>1, <2>2 DEF BuyType, SeenType
<1>5. CASE FarmSeen
  BY <1>5, <1>t, FarmFacts DEF BuyType
<1>6. CASE \E confirmed \in BOOLEAN : HudSeen(confirmed)
  BY <1>6, HudSeenTypes
<1>7. CASE PageEnters
  <2>1. att' = Begun(clock.event) /\ clock.event \in Events
    BY <1>7 DEF PageEnters, Types, ClockType
  <2>2. bot' = [bot EXCEPT !.todo = "battle"] /\ UNCHANGED <<buy, done, seen>>
    BY <1>7, Zenon DEF PageEnters
  <2>3. QED
    BY <1>t, <2>1, <2>2, BegunRows DEF Bots, Taps, BuyType, SeenType
<1>8. CASE \E e \in Events, price \in Prices, landed \in BOOLEAN : Buy(e, price, landed)
  BY <1>8, <1>t, BuyFacts
<1>9. CASE \E scoped, known \in BOOLEAN : BuyConfirmed(scoped, known)
  BY <1>9, <1>t, ConfirmedFacts
<1>10. CASE BuyGivenUp
  BY <1>10, <1>t, GivenUpFacts
<1>11. CASE TapLost \/ TapLands
  <2>1. bot' = [bot EXCEPT !.todo = "none"] /\ UNCHANGED <<att, buy, done>> /\ SeenType'
    BY <1>11, LostFacts, LandedFacts
  <2>2. QED
    BY <1>t, <2>1 DEF Bots, Taps, BuyType
<1>12. CASE GameRestarts \/ \E tap \in Taps : Hand(tap)
  <2>1. UNCHANGED <<att, bot, buy, done>> /\ SeenType'
    BY <1>12, RestartFacts, HandFacts
  <2>2. QED
    BY <1>t, <2>1 DEF BuyType
<1>13. CASE Crash
  BY <1>13, <1>t, CrashFacts
<1>14. CASE Restart \/ ScopeChange
  <2>1. att' = ClosedOpening(att) /\ UNCHANGED <<buy, done, seen>>
        /\ (bot' = bot \/ bot' = [bot EXCEPT !.up = TRUE])
    BY <1>14 DEF Restart, ScopeChange
  <2>2. QED
    BY <1>t, <2>1, ClosedRows DEF Bots, BuyType, SeenType
<1>15. QED
  BY <1>2, <1>3, <1>4, <1>5, <1>6, <1>7, <1>8, <1>9, <1>10, <1>11, <1>12, <1>13, <1>14, NextKinds
LEMMA InitTypes == Init => Types
<1> SUFFICES ASSUME Init PROVE Types
  OBVIOUS
<1> USE TournamentAssumption
<1>1. att \in Rows
  BY NoAttemptIsRow DEF Init, Rows
<1>2. ClockType /\ GameType /\ VisitType /\ BuyType
  BY FreshIsVisit DEF Init, ClockType, GameType, VisitType, BuyType, Events, Screens
<1>3. BotType
  BY DEF Init, BotType, NoRun, Taps
<1>4. SeenType
  BY DEF Init, SeenType, NoRun
<1>5. QED
  BY <1>1, <1>2, <1>3, <1>4 DEF Types
-----------------------------------------------------------------------------
(* One entry tap, one line, one result.                                    *)

\* What a step that begins no attempt makes of a row.
RowMoves(e) ==
  /\ att[e].stage \in {"none", "completed"} => att'[e] = att[e]
  /\ att[e].stage # "none" => att'[e].stage # "none"
  /\ att'[e].stage = "entry_pending" => att[e].stage = "entry_pending"
  /\ att'[e].stage = "playing" =>
       \/ att[e].stage = "playing"
       \/ att[e].stage = "entry_pending" /\ game.screen = "hud" /\ game' = game
  /\ att'[e].stage \in {"entry_pending", "playing"} => att'[e].result = att[e].result
  /\ att[e].result # "null" => att'[e].result = att[e].result

\* The scan of a HUD leaves no entry unproven.
LEMMA HudRows ==
  ASSUME Types, NEW confirmed \in BOOLEAN, HudSeen(confirmed), NEW e \in Events
  PROVE  /\ RowMoves(e) /\ att'[e].stage # "entry_pending"
         /\ att'[e].closed = att[e].closed /\ att'[e].spent = att[e].spent
         /\ att'[e].receipts = att[e].receipts
         /\ att[e].stage = "playing" => att'[e].stage = "playing"
<1>1. \/ att' = EnteredRows
      \/ bot.next \in 0..MaxRuns /\ att' = Bound(EnteredRows, bot.next)
  BY HudFacts
<1>2. att \in Rows /\ game.screen = "hud" /\ game' = game
  BY HudFacts DEF Types, Scans
<1>3. /\ EnteredRows \in Rows
      /\ IF att[e].stage = "entry_pending" THEN MovesTo(EnteredRows[e], att[e], "playing")
         ELSE EnteredRows[e] = att[e]
  BY <1>2, EnteredMoves
<1>4. CASE att' = EnteredRows
  BY <1>2, <1>3, <1>4 DEF RowMoves, MovesTo
<1>5. CASE bot.next \in 0..MaxRuns /\ att' = Bound(EnteredRows, bot.next)
  <2>1. /\ att'[e].stage = EnteredRows[e].stage /\ att'[e].result = EnteredRows[e].result
        /\ att'[e].closed = EnteredRows[e].closed /\ att'[e].spent = EnteredRows[e].spent
        /\ att'[e].receipts = EnteredRows[e].receipts
        /\ EnteredRows[e].stage # "playing" => att'[e] = EnteredRows[e]
    BY <1>3, <1>5, BoundRows
  <2>2. QED
    BY <1>2, <1>3, <2>1 DEF RowMoves, MovesTo
<1>6. QED
  BY <1>1, <1>4, <1>5

LEMMA RowStep ==
  ASSUME Types, [Next]_vars
  PROVE  PageEnters \/ \A e \in Events : RowMoves(e)
<1>t. att \in Rows
  BY DEF Types
<1>1. CASE att' = att
  BY <1>1 DEF RowMoves
<1>2. CASE MenuCompletes \/ PageSeen
  <2>1. att' = Completed \/ att' = Exhausted \/ att' = att
    BY <1>2, PageFacts DEF MenuCompletes
  <2>2. CASE att' = Completed
    BY <1>t, <2>2, CompletedMoves DEF RowMoves, MovesTo
  <2>3. CASE att' = Exhausted
    BY <1>t, <2>3, ExhaustedMoves DEF RowMoves, MovesTo
  <2>4. QED
    BY <1>1, <2>1, <2>2, <2>3
<1>3. CASE MenuEndsRun \/ StatsSeen
  <2>1. att' = att \/ att' = Resulted("blank") \/ att' = Resulted("read")
    BY <1>3, EndsFacts, StatsFacts
  <2>2. ASSUME NEW r \in {"blank", "read"}, att' = Resulted(r), NEW e \in Events PROVE RowMoves(e)
    BY <1>t, <2>2, ResultedRows DEF RowMoves
  <2>3. QED
    BY <1>1, <2>1, <2>2
<1>4. CASE FarmSeen
  BY <1>4, <1>t, FarmFacts, BoundRows DEF RowMoves
<1>5. CASE \E confirmed \in BOOLEAN : HudSeen(confirmed)
  BY <1>5, HudRows
<1>6. CASE \E scoped, known \in BOOLEAN : BuyConfirmed(scoped, known)
  BY <1>1, <1>6, <1>t, ConfirmedFacts, ReceiptedRows DEF RowMoves
<1>7. CASE Restart \/ ScopeChange
  <2>1. att' = ClosedOpening(att)
    BY <1>7 DEF Restart, ScopeChange
  <2>2. QED
    BY <1>t, <2>1, ClosedRows DEF RowMoves, ClosedOpening, Rows, Row
<1>8. CASE \/ Idle \/ UNCHANGED vars \/ BuyGivenUp \/ TapLost \/ TapLands \/ GameRestarts \/ Crash
           \/ \E tap \in Taps : Hand(tap)
           \/ \E e \in Events, price \in Prices, landed \in BOOLEAN : Buy(e, price, landed)
  BY <1>1, <1>8, IdleFacts, BuyFacts, GivenUpFacts, LostFacts, LandedFacts, RestartFacts, CrashFacts,
    HandFacts DEF vars
<1>9. QED
  BY <1>2, <1>3, <1>4, <1>5, <1>6, <1>7, <1>8, NextKinds

LEMMA EntersFacts ==
  ASSUME Types, PageEnters
  PROVE  /\ clock.event \in Events /\ att[clock.event].stage = "none" /\ Pending = {}
         /\ att' = Begun(clock.event) /\ bot' = [bot EXCEPT !.todo = "battle"]
         /\ game.screen = "page" /\ UNCHANGED <<clock, game, buy, done, seen>>
BY DEF PageEnters, Types, ClockType, Scans

\* What a step makes of the counts: the lines grow by the scan of a HUD, the
\* entry taps by a tap, the cash by a purchase, and by nothing else.
LEMMA SeenStep ==
  ASSUME Types, [Next]_vars
  PROVE  /\ \/ seen'.lines = seen.lines
            \/ /\ seen'.lines = EnteredLines /\ At({"entry_pending"})' = {} /\ game.screen = "hud"
               /\ seen'.tickets = seen.tickets /\ game' = game
         /\ seen'.taps = seen.taps \/ (seen'.taps = Tapped /\ att' = att /\ bot'.todo = "none")
         /\ \A e \in Events : seen'.cash[e] = seen.cash[e]
                               \/ (att[e].stage = "playing" /\ att' = att)
<1>t. bot \in Bots /\ SeenType
  BY DEF Types, BotType, Bots
<1>1. CASE seen' = seen
  BY <1>1
<1>2. CASE \E confirmed \in BOOLEAN : HudSeen(confirmed)
  <2>1. PICK confirmed \in BOOLEAN : HudSeen(confirmed)
    BY <1>2
  <2>2. seen' = [seen EXCEPT !.lines = EnteredLines] /\ game.screen = "hud" /\ game' = game
    BY <2>1, HudFacts DEF Scans
  <2>3. At({"entry_pending"})' = {}
    BY <2>1, HudRows DEF At
  <2>4. QED
    BY <1>t, <2>2, <2>3 DEF SeenType
<1>3. CASE TapLost \/ TapLands
  <2>1. bot'.todo = "none" /\ seen'.taps = Tapped /\ seen'.lines = seen.lines /\ seen'.cash = seen.cash
        /\ att' = att
    BY <1>3, <1>t, LostFacts, LandedFacts DEF Bots
  <2>2. QED
    BY <2>1
<1>4. CASE \E f \in Events, price \in Prices, landed \in BOOLEAN : Buy(f, price, landed)
  <2>1. PICK f \in Events, price \in Prices, landed \in BOOLEAN : Buy(f, price, landed)
    BY <1>4
  <2>2. /\ seen'.lines = seen.lines /\ seen'.taps = seen.taps /\ att' = att
        /\ att[f].stage = "playing"
        /\ seen'.cash = [seen.cash EXCEPT ![f] = @ + IF landed THEN price ELSE 0]
    BY <2>1, BuyFacts
  <2>3. \A e \in Events : e # f => seen'.cash[e] = seen.cash[e]
    BY <1>t, <2>2 DEF SeenType
  <2>4. QED
    BY <2>2, <2>3
<1>5. CASE \/ BuyGivenUp \/ GameRestarts \/ Crash \/ FarmSeen
           \/ \E tap \in Taps : Hand(tap)
           \/ \E scoped, known \in BOOLEAN : BuyConfirmed(scoped, known)
  BY <1>5, GivenUpFacts, RestartFacts, CrashFacts, FarmFacts, HandFacts, ConfirmedFacts
<1>6. CASE \/ Idle \/ UNCHANGED vars \/ MenuCompletes \/ MenuEndsRun \/ StatsSeen \/ PageSeen \/ PageEnters
           \/ Restart \/ ScopeChange
  BY <1>1, <1>6, IdleFacts, EndsFacts, StatsFacts, PageFacts, EntersFacts
  DEF vars, MenuCompletes, Restart, ScopeChange, CountsKept
<1>7. QED
  BY <1>2, <1>3, <1>4, <1>5, <1>6, NextKinds
LEMMA RowInvStep ==
  ASSUME Types, RowInv, [Next]_vars
  PROVE  RowInv'
<1>t. att \in Rows /\ SeenType
  BY DEF Types
<1>1. CASE PageEnters
  <2> DEFINE f == clock.event
  <2>1. /\ f \in Events /\ att[f].stage = "none" /\ Pending = {} /\ seen' = seen
        /\ \A e \in Events : e # f => att'[e] = att[e]
        /\ att'[f].stage = "entry_pending" /\ att'[f].result = "null"
    BY <1>1, <1>t, EntersFacts, BegunRows
  <2>2. Pending' = {f}
    BY <2>1 DEF Pending
  <2>3. \A e \in At({"none"})' : e \in At({"none"}) /\ e # f
    BY <2>1 DEF At
  <2>4. \A e \in At({"none", "entry_pending"})' : e \in At({"none"})
    BY <2>1 DEF At, Pending
  <2>5. \A e \in At({"entry_pending", "playing"})' : e = f
    BY <2>2 DEF At, Pending
  <2>6. QED
    BY <2>1, <2>2, <2>3, <2>4, <2>5 DEF RowInv, At
<1>2. CASE \A e \in Events : RowMoves(e)
  <2>1. Pending' \subseteq Pending
    BY <1>2 DEF Pending, RowMoves
  <2>2. At({"none"})' \subseteq At({"none"}) /\ \A e \in At({"none"}) : att'[e] = att[e]
    BY <1>2 DEF At, RowMoves
  <2>3. At({"none", "entry_pending"})' \subseteq At({"none", "entry_pending"})
    BY <1>2 DEF At, RowMoves
  <2>4. \A e \in At({"none"})' : att'[e] = NoAttempt /\ seen'.taps[e] = 0
    <3>1. SUFFICES ASSUME NEW e \in At({"none"})' PROVE seen'.taps[e] = 0
      BY <2>2 DEF RowInv
    <3>2. e \in At({"none"}) /\ seen.taps[e] = 0 /\ e \notin At({"entry_pending"}) /\ e \in Events
      BY <2>2 DEF RowInv, At
    <3>3. QED
      BY <3>2, SeenStep DEF Tapped
  <2>5. \A e \in At({"none", "entry_pending"})' : seen'.lines[e] = 0 /\ seen'.cash[e] = 0
    <3>1. SUFFICES ASSUME NEW e \in At({"none", "entry_pending"})'
                   PROVE  seen'.lines[e] = 0 /\ seen'.cash[e] = 0
      OBVIOUS
    <3>2. e \in At({"none", "entry_pending"}) /\ e \in Events /\ seen.lines[e] = 0 /\ seen.cash[e] = 0
      BY <2>3 DEF RowInv, At
    <3>3. seen'.cash[e] = 0
      BY <3>2, SeenStep DEF At
    <3>4. CASE seen'.lines = seen.lines
      BY <3>2, <3>3, <3>4
    <3>5. CASE seen'.lines = EnteredLines /\ At({"entry_pending"})' = {}
      <4>1. att[e].stage = "none"
        BY <1>2, <3>2, <3>5 DEF At, RowMoves
      <4>2. QED
        BY <3>2, <3>3, <3>5, <4>1 DEF EnteredLines
    <3>6. QED
      BY <3>4, <3>5, SeenStep
  <2>6. \A e \in At({"entry_pending", "playing"})' : att'[e].result = "null"
    BY <1>2 DEF RowInv, At, RowMoves
  <2>7. \A e \in Events : seen'.lines[e] <= 1
    <3>1. CASE seen'.lines = seen.lines
      BY <3>1 DEF RowInv
    <3>2. CASE seen'.lines = EnteredLines
      BY <3>2, <1>t DEF EnteredLines, RowInv, At, SeenType
    <3>3. QED
      BY <3>1, <3>2, SeenStep
  <2>8. QED
    BY <2>1, <2>4, <2>5, <2>6, <2>7 DEF RowInv
<1>3. QED
  BY <1>1, <1>2, RowStep

LEMMA TapInvStep ==
  ASSUME Types, RowInv, TapInv, [Next]_vars
  PROVE  TapInv'
<1>t. att \in Rows /\ SeenType /\ bot \in Bots
  BY DEF Types, BotType, Bots
<1>1. \A e \in Events : seen'.taps[e] <= 1
  <2>1. CASE seen'.taps = seen.taps
    BY <2>1 DEF TapInv
  <2>2. CASE seen'.taps = Tapped
    BY <2>2, <1>t DEF Tapped, TapInv, SeenType
  <2>3. QED
    BY <2>1, <2>2, SeenStep
<1>2. ASSUME bot'.todo = "battle", NEW e \in At({"entry_pending"})'
      PROVE  seen'.taps[e] = 0
  <2>1. CASE PageEnters
    <3>1. att[e].stage = "none" /\ seen' = seen /\ e \in Events
      BY <1>t, <1>2, <2>1, EntersFacts, BegunRows DEF At, Pending
    <3>2. QED
      BY <3>1 DEF RowInv, At
  <2>2. CASE ~PageEnters
    <3>1. e \in Events /\ att[e].stage = "entry_pending" /\ seen'.taps = seen.taps
      BY <1>2, <2>2, RowStep, SeenStep DEF At, RowMoves
    <3>2. bot.todo = "battle"
      <4>1. \/ bot' = bot \/ bot'.todo \in {bot.todo, "none", "trophy", "farm", "return", "ok"}
        <5>1. CASE Idle \/ UNCHANGED vars \/ MenuEndsRun \/ FarmSeen \/ StatsSeen \/ Crash
          BY <5>1, IdleFacts, EndsFacts, FarmFacts, StatsFacts, CrashFacts DEF vars
        <5>2. CASE PageSeen \/ TapLost \/ TapLands
          BY <1>t, <5>2, PageFacts, LostFacts, LandedFacts DEF Bots
        <5>3. CASE MenuCompletes \/ BuyGivenUp \/ GameRestarts \/ Restart \/ ScopeChange
          BY <1>t, <5>3, GivenUpFacts, RestartFacts DEF MenuCompletes, Restart, ScopeChange, Bots
        <5>4. CASE \/ \E confirmed \in BOOLEAN : HudSeen(confirmed)
                   \/ \E f \in Events, price \in Prices, landed \in BOOLEAN : Buy(f, price, landed)
                   \/ \E scoped, known \in BOOLEAN : BuyConfirmed(scoped, known)
                   \/ \E tap \in Taps : Hand(tap)
          BY <5>4, HudFacts, BuyFacts, ConfirmedFacts, HandFacts
        <5>5. QED
          BY <2>2, <5>1, <5>2, <5>3, <5>4, NextKinds
      <4>2. QED
        BY <1>2, <4>1
    <3>3. QED
      BY <3>1, <3>2 DEF TapInv, At
  <2>3. QED
    BY <2>1, <2>2
<1>3. QED
  BY <1>1, <1>2 DEF TapInv

LEMMA LineInvStep ==
  ASSUME Types, RowInv, LineInv, [Next]_vars
  PROVE  LineInv'
<1>t. att \in Rows /\ SeenType /\ GameType
  BY DEF Types
<1>f. /\ IsFiniteSet(Entries) /\ Cardinality(Entries) \in Nat /\ seen.tickets \in Nat
      /\ seen'.tickets \in Nat
  <2>1. IsFiniteSet(Events)
    BY TournamentAssumption, FS_Interval DEF Events
  <2>2. IsFiniteSet(Entries)
    BY <2>1, FS_Subset DEF Entries
  <2>3. QED
    BY <1>t, <2>2, FS_CardinalityType, TypesStep DEF SeenType, Types
<1>1. CASE seen'.lines = EnteredLines /\ At({"entry_pending"})' = {} /\ game.screen = "hud"
           /\ seen'.tickets = seen.tickets
  <2>1. Entries' = Entries \cup At({"entry_pending"})
    BY <1>t, <1>1 DEF Entries, EnteredLines, At, RowInv, SeenType
  <2>2. CASE At({"entry_pending"}) = {}
    BY <1>1, <2>1, <2>2 DEF LineInv
  <2>3. CASE At({"entry_pending"}) # {}
    <3>1. PICK e \in Events : At({"entry_pending"}) = {e}
      BY <2>3 DEF RowInv, Pending, At
    <3>2. Entries' = Entries \cup {e} /\ e \notin Entries
      BY <2>1, <3>1 DEF RowInv, At, Entries
    <3>3. Cardinality(Entries') = Cardinality(Entries) + 1
      BY <1>f, <3>2, FS_AddElement
    <3>4. Cardinality(Entries) < seen.tickets
      BY <1>1, <2>3 DEF LineInv
    <3>5. QED
      BY <1>1, <1>f, <3>3, <3>4 DEF LineInv
  <2>4. QED
    BY <2>2, <2>3
<1>2. CASE seen'.lines = seen.lines
  <2>1. Entries' = Entries
    BY <1>2 DEF Entries
  <2>2. /\ seen.tickets <= seen'.tickets
        /\ game'.screen = "hud" => game.screen = "hud" \/ seen.tickets < seen'.tickets
    <3>1. CASE \/ TapLands \/ \E tap \in Taps : Hand(tap)
      <4>1. PICK tap : game' = Pressed(tap) /\ seen'.tickets = seen.tickets + game.tickets - game'.tickets
        BY <3>1, LandedFacts, HandFacts DEF Used
      <4>2. /\ game'.tickets <= game.tickets /\ game'.tickets \in 0..1 /\ game.tickets \in 0..1
            /\ game'.screen = "hud" => game' = game \/ game'.tickets < game.tickets
        BY <1>t, <4>1, GameMoves DEF GameType
      <4>3. QED
        BY <1>f, <4>1, <4>2
    <3>2. CASE Idle \/ UNCHANGED vars
      <4>1. game'.screen = game.screen \/ RunEnds
        BY <3>2, IdleFacts DEF vars
      <4>2. RunEnds => game'.screen # "hud"
        BY <1>t DEF RunEnds, GameType
      <4>3. QED
        BY <1>f, <3>2, <4>1, <4>2, IdleFacts DEF vars
    <3>3. CASE \/ MenuCompletes \/ MenuEndsRun \/ FarmSeen \/ StatsSeen \/ PageSeen \/ PageEnters
               \/ Restart \/ ScopeChange
      BY <1>f, <3>3, EndsFacts, FarmFacts, StatsFacts, PageFacts, EntersFacts
      DEF MenuCompletes, Restart, ScopeChange, CountsKept
    <3>4. CASE BuyGivenUp \/ TapLost \/ GameRestarts \/ Crash
      BY <1>f, <1>t, <3>4, GivenUpFacts, LostFacts, RestartFacts, CrashFacts DEF GameType
    <3>5. CASE \E confirmed \in BOOLEAN : HudSeen(confirmed)
      BY <1>f, <1>t, <3>5, HudFacts DEF SeenType
    <3>6. CASE \/ \E f \in Events, price \in Prices, landed \in BOOLEAN : Buy(f, price, landed)
               \/ \E scoped, known \in BOOLEAN : BuyConfirmed(scoped, known)
      <4>1. seen'.tickets = seen.tickets /\ game' = game
        BY <3>6, BuyFacts, ConfirmedFacts
      <4>2. QED
        BY <1>f, <4>1
    <3>7. QED
      BY <3>1, <3>2, <3>3, <3>4, <3>5, <3>6, NextKinds
  <2>3. At({"entry_pending"})' # {} /\ game'.screen = "hud" =>
          At({"entry_pending"}) # {} \/ seen.tickets < seen'.tickets
    <3>1. CASE PageEnters
      BY <3>1, EntersFacts
    <3>2. CASE \A e \in Events : RowMoves(e)
      BY <3>2 DEF RowMoves, At
    <3>3. QED
      BY <3>1, <3>2, RowStep
  <2>4. QED
    BY <1>f, <2>1, <2>2, <2>3 DEF LineInv
<1>3. QED
  BY <1>1, <1>2, SeenStep
-----------------------------------------------------------------------------
(* Farm runs.                                                              *)

LEMMA FarmInvStep ==
  ASSUME Types, RowInv, FarmInv, [Next]_vars
  PROVE  FarmInv'
<1>t. att \in Rows /\ SeenType /\ GameType /\ bot \in Bots
  BY DEF Types, BotType, Bots
<1> DEFINE P == At({"playing"}) # {}
<1>p. /\ P' => PageEnters \/ P \/ (game.screen = "hud" /\ game' = game)
      /\ PageEnters => ~P'
  <2>1. PageEnters => ~P'
    BY <1>t, EntersFacts, BegunRows DEF At, Pending
  <2>2. P' => PageEnters \/ P \/ (game.screen = "hud" /\ game' = game)
    BY RowStep DEF RowMoves, At
  <2>3. QED
    BY <2>1, <2>2
<1>1. ASSUME UNCHANGED <<game, att, bot>>, seen.strayed => seen'.strayed,
             seen'.farmBound = seen.farmBound
      PROVE  FarmInv'
  BY <1>1 DEF FarmInv, At
<1>2. ASSUME seen'.strayed, seen'.farmBound = seen.farmBound, bot' = bot, att' = att
      PROVE  FarmInv'
  BY <1>2 DEF FarmInv, At
<1>4. CASE Idle
  <2>1. /\ att' = att /\ seen' = seen /\ (P' <=> P)
        /\ bot'.todo \in {bot.todo, "trophy", "farm", "return"}
        /\ game'.screen = game.screen \/ RunEnds
    BY <1>4, IdleFacts DEF At
  <2>2. CASE RunEnds
    BY <1>t, <2>1, <2>2 DEF RunEnds, FarmInv, GameType
  <2>3. CASE game'.screen = game.screen
    BY <2>1, <2>3 DEF FarmInv
  <2>4. QED
    BY <2>1, <2>2, <2>3
<1>5. CASE MenuCompletes \/ MenuEndsRun \/ Restart \/ ScopeChange
  <2>1. /\ seen'.strayed = seen.strayed /\ seen'.farmBound = seen.farmBound
        /\ game' = game /\ bot'.todo = bot.todo
    BY <1>t, <1>5, EndsFacts DEF MenuCompletes, Restart, ScopeChange, Bots, CountsKept
  <2>2. At({"playing"})' \subseteq At({"playing"})
    <3>1. CASE MenuCompletes
      BY <1>t, <3>1, CompletedMoves DEF MenuCompletes, At, MovesTo
    <3>2. CASE MenuEndsRun
      BY <1>t, <3>2, EndsFacts, ResultedRows DEF At
    <3>3. CASE Restart \/ ScopeChange
      BY <1>t, <3>3, ClosedRows DEF Restart, ScopeChange, At
    <3>4. QED
      BY <1>5, <3>1, <3>2, <3>3
  <2>3. QED
    BY <2>1, <2>2 DEF FarmInv
<1>6. CASE FarmSeen
  <2>1. /\ game.screen = "farm" /\ game' = game /\ bot'.todo = bot.todo
        /\ seen'.strayed = seen.strayed
        /\ seen'.farmBound => seen.farmBound \/ P
    BY <1>6, FarmFacts DEF InRun
  <2>2. P' => P
    BY <1>p, <2>1, EntersFacts
  <2>3. P => seen.strayed
    BY <2>1 DEF FarmInv
  <2>4. QED
    BY <2>1, <2>2, <2>3 DEF FarmInv
<1>7. CASE StatsSeen
  <2>1. ~P'
    BY <1>t, <1>7, StatsFacts, ResultedRows DEF RowInv, At
  <2>2. QED
    BY <1>7, <2>1, StatsFacts DEF FarmInv, CountsKept
<1>8. CASE PageSeen
  <2>1. /\ seen' = seen /\ game' = game /\ game.screen = "page" /\ bot'.todo \in {bot.todo, "return"}
    BY <1>t, <1>8, PageFacts DEF Bots
  <2>2. P' => P
    BY <1>p, <2>1
  <2>3. QED
    BY <2>1, <2>2 DEF FarmInv
<1>9. CASE PageEnters
  BY <1>9, <1>p, EntersFacts DEF FarmInv
<1>10. ASSUME NEW confirmed \in BOOLEAN, HudSeen(confirmed) PROVE FarmInv'
  <2>1. /\ game' = game /\ game.screen = "hud" /\ bot.todo = "none" /\ bot'.todo = bot.todo
        /\ seen'.strayed = seen.strayed /\ seen'.farmBound = seen.farmBound
    BY <1>t, <1>10, HudFacts DEF Scans, SeenType
  <2>2. QED
    BY <2>1 DEF FarmInv
<1>11. CASE TapLost \/ Crash
  <2>1. /\ game' = game /\ att' = att /\ bot'.todo = "none"
        /\ seen.strayed => seen'.strayed
        /\ seen'.farmBound = seen.farmBound
    BY <1>t, <1>11, LostFacts, CrashFacts DEF Bots
  <2>2. QED
    BY <2>1 DEF FarmInv, At
<1>12. CASE TapLands
  <2>1. /\ game' = Pressed(bot.todo) /\ att' = att /\ bot'.todo = "none"
        /\ seen'.strayed = seen.strayed /\ seen'.farmBound = seen.farmBound
    BY <1>t, <1>12, LandedFacts DEF Bots
  <2>2. P => seen.strayed \/ game' = game
    BY <1>t, <2>1, GameMoves DEF FarmInv, GameType
  <2>3. QED
    BY <2>1, <2>2 DEF FarmInv, At
<1>13. CASE GameRestarts
  <2>1. /\ att' = att /\ bot' = bot /\ seen'.farmBound = seen.farmBound
        /\ seen.strayed \/ game.screen \in {"hud", "stats"} => seen'.strayed
    BY <1>13, RestartFacts
  <2>2. QED
    BY <2>1 DEF FarmInv, At
<1>14. CASE \/ BuyGivenUp \/ UNCHANGED vars
            \/ \E tap \in Taps : Hand(tap)
            \/ \E f \in Events, price \in Prices, landed \in BOOLEAN : Buy(f, price, landed)
  BY <1>1, <1>2, <1>14, GivenUpFacts, HandFacts, BuyFacts DEF vars
<1>15. CASE \E scoped, known \in BOOLEAN : BuyConfirmed(scoped, known)
  <2>1. /\ game' = game /\ bot' = bot /\ seen'.strayed = seen.strayed
        /\ seen'.farmBound = seen.farmBound
    BY <1>15, ConfirmedFacts
  <2>2. P' => P
    BY <1>t, <1>15, ConfirmedFacts, ReceiptedRows DEF At
  <2>3. QED
    BY <2>1, <2>2 DEF FarmInv
<1>16. QED
  BY <1>4, <1>5, <1>6, <1>7, <1>8, <1>9, <1>10, <1>11, <1>12, <1>13, <1>14, <1>15, NextKinds

\* What a step that starts no run makes of a row's run.
KeepsRun(e) == att'[e].run \in {att[e].run, NoRun}

LEMMA RunRows ==
  ASSUME Types, [Next]_vars
  PROVE  \/ FarmSeen \/ \E confirmed \in BOOLEAN : HudSeen(confirmed)
         \/ \A e \in Events : KeepsRun(e)
<1>t. att \in Rows
  BY DEF Types
<1>1. CASE att' = att
  BY <1>1 DEF KeepsRun
<1>2. CASE MenuCompletes \/ PageSeen
  <2>1. att' = Completed \/ att' = Exhausted \/ att' = att
    BY <1>2, PageFacts DEF MenuCompletes
  <2>2. QED
    BY <1>t, <1>1, <2>1, CompletedMoves, ExhaustedMoves DEF KeepsRun, MovesTo
<1>3. CASE MenuEndsRun \/ StatsSeen
  <2>1. att' = att \/ att' = Resulted("blank") \/ att' = Resulted("read")
    BY <1>3, EndsFacts, StatsFacts
  <2>2. QED
    BY <1>t, <1>1, <2>1, ResultedRows DEF KeepsRun
<1>4. CASE PageEnters
  BY <1>t, <1>4, EntersFacts, BegunRows DEF KeepsRun
<1>5. CASE \E scoped, known \in BOOLEAN : BuyConfirmed(scoped, known)
  BY <1>t, <1>1, <1>5, ConfirmedFacts, ReceiptedRows DEF KeepsRun
<1>6. CASE Restart \/ ScopeChange
  BY <1>t, <1>6, ClosedRows DEF Restart, ScopeChange, KeepsRun
<1>7. CASE \/ Idle \/ UNCHANGED vars \/ BuyGivenUp \/ TapLost \/ TapLands \/ GameRestarts \/ Crash
           \/ \E tap \in Taps : Hand(tap)
           \/ \E e \in Events, price \in Prices, landed \in BOOLEAN : Buy(e, price, landed)
  BY <1>1, <1>7, IdleFacts, BuyFacts, GivenUpFacts, LostFacts, LandedFacts, RestartFacts, CrashFacts,
    HandFacts DEF vars
<1>8. QED
  BY <1>2, <1>3, <1>4, <1>5, <1>6, <1>7, NextKinds

\* A step that starts and resumes no run: what is left to show is where the farm
\* run is, and what the flag is up for.
LEMMA FlagFrame ==
  ASSUME Types, FlagInv, \A e \in Events : KeepsRun(e),
         bot'.next = bot.next, bot'.run \in {bot.run, NoRun}, bot'.tourn => bot.tourn,
         seen'.farm = seen.farm, seen.strayed => seen'.strayed,
         bot'.tourn => \/ seen'.strayed \/ seen'.glimpsed
                       \/ /\ seen.glimpsed => seen'.glimpsed
                          /\ At({"playing"}) # {} => At({"playing"})' # {},
         FarmOpen => seen'.strayed \/ bot'.run = NoRun
                     \/ (game'.screen \in {"farm", "menu"} /\ bot'.todo = "none")
  PROVE  FlagInv'
<1>1. att \in Rows /\ bot.next \in 1..(MaxRuns + 1) /\ seen.farm \in 0..MaxRuns
  BY DEF Types, BotType, SeenType
<1>2. \A e \in Events : att'[e].run < bot.next
  BY <1>1, TournamentAssumption DEF FlagInv, KeepsRun, NoRun
<1>3. FarmOpen' => FarmOpen /\ bot'.run # NoRun
  BY DEF FarmOpen
<1>4. \A e \in Events : att'[e].run # NoRun /\ att'[e].run = seen.farm => seen'.strayed
  BY DEF FlagInv, KeepsRun
<1>5. bot'.tourn => seen'.strayed \/ seen'.glimpsed \/ (At({"playing"})' # {} /\ ~FarmOpen')
  BY <1>3 DEF FlagInv
<1>6. QED
  BY <1>2, <1>3, <1>4, <1>5 DEF FlagInv

LEMMA FlagInvStep ==
  ASSUME Types, RowInv, FarmInv, FlagInv, [Next]_vars
  PROVE  FlagInv'
<1>t. /\ att \in Rows /\ SeenType /\ GameType /\ bot \in Bots
      /\ bot.next \in 1..(MaxRuns + 1) /\ seen.farm \in 0..MaxRuns /\ MaxRuns \in Nat
  BY TournamentAssumption DEF Types, BotType, Bots, SeenType
<1> DEFINE P == At({"playing"}) # {}
<1>1. CASE FarmSeen
  <2>1. /\ att' = Bound(att, bot.next) /\ bot.next \in 0..MaxRuns /\ bot.run = NoRun
        /\ bot'.run = bot.next /\ bot'.next = bot.next + 1 /\ bot'.tourn = bot.tourn
        /\ bot'.todo = "none" /\ game.screen = "farm" /\ game' = game
        /\ seen'.farm = bot.next /\ seen'.glimpsed = seen.glimpsed /\ seen'.strayed = seen.strayed
    BY <1>1, FarmFacts
  <2>2. P => seen.strayed
    BY <2>1 DEF FarmInv
  <2>3. \A e \in Events : \/ att[e].stage = "playing" /\ att'[e].run = bot.next
                          \/ att'[e].run = att[e].run
    BY <1>t, <2>1, BoundRows
  <2>4. \A e \in Events : att'[e].run < bot.next + 1
    BY <1>t, <2>3 DEF FlagInv, Rows, Row
  <2>5. \A e \in Events : att'[e].run = bot.next => seen.strayed
    BY <1>t, <2>2, <2>3 DEF FlagInv, At, Rows, Row
  <2>6. bot.tourn => seen.strayed \/ seen.glimpsed
    BY <2>2 DEF FlagInv
  <2>7. QED
    BY <1>t, <2>1, <2>4, <2>5, <2>6 DEF FlagInv
<1>2. ASSUME NEW confirmed \in BOOLEAN, HudSeen(confirmed) PROVE FlagInv'
  <2>1. /\ game.screen = "hud" /\ game' = game /\ bot'.todo = bot.todo
        /\ seen'.strayed = seen.strayed /\ seen'.glimpsed = seen.glimpsed /\ seen'.farm = seen.farm
        /\ bot'.tourn => bot.tourn \/ \E e \in Events : EnteredRows[e].stage = "playing"
    BY <1>t, <1>2, HudFacts DEF Scans, SeenType
  <2>2. FarmOpen => seen.strayed
    BY <2>1 DEF FlagInv
  <2>3. /\ EnteredRows \in Rows
        /\ \A e \in Events : EnteredRows[e].run = att[e].run
        /\ P => \E e \in Events : EnteredRows[e].stage = "playing"
    BY <1>t, EnteredMoves DEF MovesTo, At
  <2>4. bot'.tourn => \/ seen.strayed \/ seen.glimpsed
                      \/ \E e \in Events : EnteredRows[e].stage = "playing"
    BY <2>1, <2>3 DEF FlagInv
  <2>5. CASE /\ att' = EnteredRows /\ bot'.next = bot.next
             /\ bot'.run = bot.run \/ \E e \in Events : bot'.run = att[e].run
    <3>1. FarmOpen' => seen.strayed
      BY <2>1, <2>2, <2>5 DEF FlagInv, FarmOpen
    <3>2. QED
      BY <2>1, <2>3, <2>4, <2>5, <3>1 DEF FlagInv, At
  <2>6. CASE /\ bot.next \in 0..MaxRuns /\ att' = Bound(EnteredRows, bot.next)
             /\ bot'.run = bot.next /\ bot'.next = bot.next + 1
    <3>1. \A e \in Events : /\ att'[e].stage = EnteredRows[e].stage
                            /\ att'[e].run \in {bot.next, att[e].run}
      BY <2>3, <2>6, BoundRows
    <3>2. ~FarmOpen'
      BY <1>t, <2>1, <2>6 DEF FarmOpen, FlagInv
    <3>3. \A e \in Events : att'[e].run < bot.next + 1
      BY <1>t, <3>1 DEF FlagInv, Rows, Row
    <3>4. \A e \in Events : att'[e].run # NoRun /\ att'[e].run = seen.farm => seen.strayed
      BY <1>t, <3>1 DEF FlagInv
    <3>5. seen.farm < bot.next + 1
      BY <1>t DEF FlagInv
    <3>6. bot'.tourn => seen.strayed \/ seen.glimpsed \/ (At({"playing"})' # {} /\ ~FarmOpen')
      BY <2>4, <3>1, <3>2 DEF At
    <3>7. QED
      BY <2>1, <2>6, <3>2, <3>3, <3>4, <3>5, <3>6 DEF FlagInv
  <2>7. QED
    BY <1>2, <2>5, <2>6, HudFacts
<1> DEFINE Runs == FarmSeen \/ \E confirmed \in BOOLEAN : HudSeen(confirmed)
<1>3. SUFFICES ASSUME ~Runs PROVE FlagInv'
  BY <1>1, <1>2
<1>k. \A e \in Events : KeepsRun(e)
  BY <1>3, RunRows
<1>s. FarmOpen => seen.strayed \/ (game.screen \in {"farm", "menu"} /\ bot.todo = "none")
  BY DEF FlagInv
<1>4. CASE Idle
  <2>1. /\ att' = att /\ seen' = seen /\ bot'.next = bot.next /\ bot'.run = bot.run
        /\ bot'.tourn = bot.tourn
    BY <1>4, IdleFacts, IdleNext
  <2>2. FarmOpen => seen.strayed \/ (game'.screen \in {"farm", "menu"} /\ bot'.todo = "none")
    BY <1>4, <1>s, IdleNext DEF FarmOpen
  <2>3. QED
    BY <1>k, <2>1, <2>2, FlagFrame DEF At
<1>5. CASE MenuEndsRun \/ Crash
  BY <1>5, <1>k, EndsFacts, CrashFacts, FlagFrame DEF CountsKept
<1>6. CASE StatsSeen
  <2>1. /\ bot'.next = bot.next /\ bot'.run \in {bot.run, NoRun} /\ (bot'.tourn => bot.tourn)
        /\ seen'.farm = seen.farm /\ seen'.strayed = seen.strayed /\ seen'.glimpsed = bot'.tourn
        /\ FarmOpen => seen.strayed
    BY <1>6, <1>s, StatsFacts DEF CountsKept
  <2>2. QED
    BY <1>k, <2>1, FlagFrame
<1>7. CASE MenuCompletes \/ PageSeen \/ PageEnters
  <2>1. /\ seen' = seen /\ game' = game /\ bot'.next = bot.next /\ bot'.run = bot.run
        /\ bot'.tourn = bot.tourn
        /\ game.screen = "page" \/ bot' = bot
    BY <1>t, <1>7, PageFacts, EntersFacts DEF MenuCompletes, Bots
  <2>2. P => At({"playing"})' # {}
    <3>1. CASE PageEnters
      BY <3>1, EntersFacts DEF At, Pending
    <3>2. CASE MenuCompletes \/ PageSeen
      <4>1. att' = Completed \/ att' = Exhausted \/ att' = att
        BY <3>2, PageFacts DEF MenuCompletes
      <4>2. \A e \in Events : att[e].stage = "playing" => att'[e] = att[e]
        BY <1>t, <4>1, CompletedMoves, ExhaustedMoves
      <4>3. QED
        BY <4>2 DEF At
    <3>3. QED
      BY <1>7, <3>1, <3>2
  <2>3. QED
    BY <1>k, <1>s, <2>1, <2>2, FlagFrame
<1>8. CASE Restart \/ ScopeChange
  <2>1. /\ att' = ClosedOpening(att) /\ seen' = seen /\ game' = game
        /\ bot' = bot \/ bot' = [bot EXCEPT !.up = TRUE]
    BY <1>8 DEF Restart, ScopeChange
  <2>2. /\ bot'.next = bot.next /\ bot'.run = bot.run /\ bot'.tourn = bot.tourn
        /\ bot'.todo = bot.todo
    BY <1>t, <2>1 DEF Bots
  <2>3. P => At({"playing"})' # {}
    BY <1>t, <2>1, ClosedRows DEF At
  <2>4. QED
    BY <1>k, <1>s, <2>1, <2>2, <2>3, FlagFrame
<1>9. CASE TapLost \/ TapLands
  <2>1. /\ att' = att /\ bot' = [bot EXCEPT !.todo = "none"] /\ bot.todo # "none"
        /\ seen'.farm = seen.farm /\ seen'.glimpsed = seen.glimpsed
        /\ seen.strayed => seen'.strayed
    BY <1>9, LostFacts, LandedFacts DEF TapLost, TapLands
  <2>2. bot'.next = bot.next /\ bot'.run = bot.run /\ bot'.tourn = bot.tourn
    BY <1>t, <2>1 DEF Bots
  <2>3. QED
    BY <1>k, <1>s, <2>1, <2>2, FlagFrame DEF At
<1>10. CASE GameRestarts \/ \E tap \in Taps : Hand(tap)
  <2>1. /\ att' = att /\ bot' = bot /\ seen'.farm = seen.farm /\ seen'.glimpsed = seen.glimpsed
        /\ seen.strayed => seen'.strayed
        /\ seen'.strayed \/ game'.screen = "menu"
    BY <1>t, <1>10, RestartFacts, HandFacts DEF GameType
  <2>2. QED
    BY <1>k, <1>s, <2>1, FlagFrame DEF At
<1>11. CASE \/ BuyGivenUp \/ UNCHANGED vars
            \/ \E f \in Events, price \in Prices, landed \in BOOLEAN : Buy(f, price, landed)
  <2>1. /\ att' = att /\ bot' = bot /\ game' = game /\ seen'.farm = seen.farm
        /\ seen'.glimpsed = seen.glimpsed /\ seen'.strayed = seen.strayed
    BY <1>11, GivenUpFacts, BuyFacts DEF vars
  <2>2. QED
    BY <1>k, <1>s, <2>1, FlagFrame DEF At
<1>12. CASE \E scoped, known \in BOOLEAN : BuyConfirmed(scoped, known)
  <2>1. /\ bot' = bot /\ game' = game /\ seen'.farm = seen.farm
        /\ seen'.glimpsed = seen.glimpsed /\ seen'.strayed = seen.strayed
    BY <1>12, ConfirmedFacts
  <2>2. P => At({"playing"})' # {}
    BY <1>t, <1>12, ConfirmedFacts, ReceiptedRows DEF At
  <2>3. QED
    BY <1>k, <1>s, <2>1, <2>2, FlagFrame
<1>13. QED
  BY <1>3, <1>4, <1>5, <1>6, <1>7, <1>8, <1>9, <1>10, <1>11, <1>12, NextKinds
-----------------------------------------------------------------------------
(* The opening's cash.                                                     *)

\* A step that leaves the purchase at hand alone.
LEMMA BuyFrame ==
  ASSUME Types, BuyInv, buy' = buy, done' = done,
         bot.run # NoRun => bot'.run # NoRun, bot.tourn => bot'.tourn,
         \A e \in Events : att[e].stage = "playing" =>
           att'[e].stage = "playing" /\ att'[e].receipts = att[e].receipts
  PROVE  BuyInv'
<1>1. buy # NoBuy => buy.token[1] \in Events
  BY DEF Types, BuyType
<1>2. QED
  BY <1>1 DEF BuyInv, Token

\* A step that spends nothing, and after which an opening that may go on is
\* one that could go on before.
LEMMA CashFrame ==
  ASSUME Types, CashInv, buy' = buy, done' = done, bot'.up => bot.up,
         seen'.cash = seen.cash, seen'.unseen = seen.unseen,
         \A e \in Events : att'[e].stage = "playing" /\ ~att'[e].closed =>
           /\ att[e].stage = "playing" /\ ~att[e].closed
           /\ att'[e].receipts = att[e].receipts /\ att'[e].spent = att[e].spent
  PROVE  CashInv'
BY DEF CashInv, InFlight, Token

\* A purchase that is forgotten with its attempt.
LEMMA OverFrame ==
  ASSUME CashInv, seen'.cash = seen.cash, seen'.unseen = seen.unseen,
         \A e \in Events : bot'.up => att'[e].stage # "playing" \/ att'[e].closed
  PROVE  CashInv'
BY DEF CashInv

LEMMA NotInFlight == ASSUME NEW e, buy = NoBuy PROVE InFlight(e) = 0
BY DEF InFlight

LEMMA MoneyStep ==
  ASSUME Types, RowInv, BuyInv, CashInv, [Next]_vars
  PROVE  BuyInv' /\ CashInv'
<1>t. att \in Rows /\ SeenType /\ bot \in Bots
  BY DEF Types, BotType, Bots
<1>b. buy # NoBuy => /\ buy.token[1] \in Events /\ buy.token[1] \in At({"playing"})
                     /\ bot.run # NoRun /\ bot.tourn
  BY DEF Types, BuyType, BuyInv, At
<1>1. CASE att' = att /\ buy' = buy /\ done' = done /\ bot'.up = bot.up /\ bot'.run = bot.run
           /\ bot'.tourn = bot.tourn /\ seen'.cash = seen.cash /\ seen'.unseen = seen.unseen
  BY <1>1, BuyFrame, CashFrame
<1>2. CASE Idle \/ UNCHANGED vars
  BY <1>1, <1>2, IdleFacts DEF vars
<1>3. CASE MenuCompletes \/ PageSeen
  <2>1. /\ buy' = buy /\ done' = done /\ bot'.up = bot.up /\ bot'.run = bot.run
        /\ bot'.tourn = bot.tourn /\ seen' = seen
        /\ att' = Completed \/ att' = Exhausted \/ att' = att
    BY <1>t, <1>3, PageFacts DEF MenuCompletes, Bots
  <2>2. \A e \in Events : (att[e].stage = "playing" \/ att'[e].stage = "playing") => att'[e] = att[e]
    BY <1>t, <2>1, CompletedMoves, ExhaustedMoves DEF MovesTo
  <2>3. QED
    BY <2>1, <2>2, BuyFrame, CashFrame
<1>4. CASE MenuEndsRun
  <2>1. /\ buy' = NoBuy /\ done' = done /\ bot'.up = bot.up
        /\ seen'.cash = seen.cash /\ seen'.unseen = seen.unseen
    BY <1>4, EndsFacts DEF CountsKept
  <2>2. CASE bot.tourn
    <3>1. att' = Resulted("blank")
      BY <1>4, <2>2, EndsFacts
    <3>2. \A e \in Events : att'[e].stage # "playing"
      BY <1>t, <3>1, ResultedRows DEF RowInv, At
    <3>3. QED
      BY <2>1, <3>2, OverFrame DEF BuyInv
  <2>3. CASE ~bot.tourn
    <3>1. buy = NoBuy
      BY <1>b, <2>3
    <3>2. \A e \in Events : att'[e].stage = "playing" => att'[e] = att[e]
      BY <1>t, <1>4, EndsFacts, ResultedRows
    <3>3. QED
      BY <2>1, <3>1, <3>2, CashFrame DEF BuyInv
  <2>4. QED
    BY <2>2, <2>3
<1>5. CASE StatsSeen
  <2>1. /\ att' = Resulted("read") /\ done' = done
        /\ seen'.cash = seen.cash /\ seen'.unseen = seen.unseen
    BY <1>5, StatsFacts DEF CountsKept
  <2>2. \A e \in Events : att'[e].stage # "playing"
    BY <1>t, <2>1, ResultedRows DEF RowInv, At
  <2>3. buy' = NoBuy
    BY <1>5, <1>b, StatsFacts DEF At
  <2>4. QED
    BY <2>1, <2>2, <2>3, OverFrame DEF BuyInv
<1>6. CASE FarmSeen
  <2>1. /\ buy' = buy /\ done' = done /\ bot'.up = bot.up /\ bot.run = NoRun
        /\ seen'.cash = seen.cash /\ seen'.unseen = seen.unseen
        /\ att' = Bound(att, bot.next) /\ bot.next \in 0..MaxRuns
    BY <1>6, FarmFacts
  <2>2. \A e \in Events :
          /\ att'[e].stage = att[e].stage /\ att'[e].spent = att[e].spent
          /\ att'[e].receipts = att[e].receipts /\ att'[e].closed = att[e].closed
    BY <1>t, <2>1, BoundRows
  <2>3. buy = NoBuy
    BY <1>b, <2>1
  <2>4. QED
    BY <2>1, <2>2, <2>3, CashFrame DEF BuyInv
<1>7. ASSUME NEW confirmed \in BOOLEAN, HudSeen(confirmed) PROVE BuyInv' /\ CashInv'
  <2>1. /\ buy' = buy /\ done' = done /\ bot'.up = bot.up
        /\ bot.run # NoRun => bot'.run # NoRun
        /\ bot.tourn => bot'.tourn
    BY <1>7, HudFacts
  <2>2. seen'.cash = seen.cash /\ seen'.unseen = seen.unseen
    BY <1>t, <1>7, HudFacts DEF SeenType
  <2>3. \A e \in Events :
          /\ RowMoves(e) /\ att'[e].spent = att[e].spent /\ att'[e].receipts = att[e].receipts
          /\ att'[e].closed = att[e].closed
          /\ att[e].stage = "playing" => att'[e].stage = "playing"
    BY <1>7, HudRows
  <2>4. BuyInv'
    BY <2>1, <2>3, BuyFrame
  <2>5. CashInv'
    <3>1. SUFFICES ASSUME NEW e \in Events
                   PROVE  /\ seen.cash[e] <= CashBudget + seen.unseen[e]
                          /\ bot.up /\ att'[e].stage = "playing" /\ ~att[e].closed /\ done # Token(e)
                               => seen.cash[e] <= att[e].spent + seen.unseen[e] + InFlight(e)
      BY <2>1, <2>2, <2>3 DEF CashInv, InFlight, Token
    <3>2. CASE att[e].stage = "playing" \/ att'[e].stage # "playing"
      BY <3>2 DEF CashInv
    <3>3. CASE att[e].stage # "playing" /\ att'[e].stage = "playing"
      <4>1. seen.cash[e] = 0
        BY <2>3, <3>3 DEF RowMoves, RowInv, At
      <4>2. att[e].spent \in Nat /\ seen.unseen[e] \in Nat /\ CashBudget \in Nat
        BY <1>t, TournamentAssumption DEF Rows, Row, SeenType
      <4>3. InFlight(e) \in Nat
        BY TournamentAssumption DEF InFlight, Types, BuyType
      <4>4. QED
        BY <4>1, <4>2, <4>3
    <3>4. QED
      BY <3>2, <3>3
  <2>6. QED
    BY <2>4, <2>5
<1>8. CASE PageEnters
  <2>1. /\ clock.event \in Events /\ att' = Begun(clock.event) /\ Pending = {} /\ done' = done
        /\ buy' = buy /\ seen' = seen /\ bot'.up = bot.up
    BY <1>t, <1>8, EntersFacts DEF Bots
  <2>2. buy = NoBuy
    BY <1>b, <2>1 DEF At, Pending
  <2>3. \A e \in Events : att'[e].stage = "playing" => att'[e] = att[e]
    BY <1>t, <2>1, BegunRows
  <2>4. QED
    BY <2>1, <2>2, <2>3, CashFrame DEF BuyInv
<1>9. ASSUME NEW f \in Events, NEW price \in Prices, NEW landed \in BOOLEAN, Buy(f, price, landed)
      PROVE  BuyInv' /\ CashInv'
  <2> DEFINE spent == IF landed THEN price ELSE 0
  <2>1. /\ bot.up /\ bot.run # NoRun /\ bot.tourn /\ att[f].stage = "playing" /\ ~att[f].closed
        /\ buy = NoBuy /\ done # Token(f) /\ price <= CashBudget - att[f].spent
        /\ buy' = [price |-> price, token |-> Token(f), landed |-> landed]
        /\ seen'.cash = [seen.cash EXCEPT ![f] = @ + spent]
        /\ price \in Nat /\ price # 0 /\ seen'.unseen = seen.unseen
        /\ UNCHANGED <<att, bot, done>>
    BY <1>9, BuyFacts
  <2>2. /\ buy'.price = price /\ buy'.token = Token(f) /\ buy'.landed = landed /\ buy'.token[1] = f
        /\ buy' # NoBuy
    <3>1. NoBuy.price = 0
      BY DEF NoBuy
    <3>2. QED
      BY <2>1, <3>1 DEF Token
  <2>3. BuyInv'
    <3>1. att[f].spent \in Nat /\ CashBudget \in Nat
      BY <1>t, TournamentAssumption DEF Rows, Row
    <3>2. price <= CashBudget
      BY <2>1, <3>1
    <3>3. QED
      BY <2>1, <2>2, <3>2 DEF BuyInv, Token
  <2>4. CashInv'
    <3>1. SUFFICES ASSUME NEW e \in Events
                   PROVE  /\ seen'.cash[e] <= CashBudget + seen.unseen[e]
                          /\ bot.up /\ att[e].stage = "playing" /\ ~att[e].closed /\ done # Token(e)
                               => seen'.cash[e] <= att[e].spent + seen.unseen[e] + InFlight(e)'
      BY <2>1 DEF CashInv, Token
    <3>2. /\ att[e].spent \in Nat /\ seen.unseen[e] \in Nat /\ CashBudget \in Nat
          /\ seen.cash[e] \in Nat /\ spent \in Nat /\ spent <= price
      BY <1>t, <2>1, TournamentAssumption DEF Rows, Row, SeenType
    <3>3. InFlight(e) = 0
      BY <2>1, NotInFlight
    <3>4. CASE e = f
      <4>1. seen'.cash[e] = seen.cash[e] + spent
        BY <1>t, <2>1, <3>4 DEF SeenType
      <4>2. seen.cash[e] <= att[e].spent + seen.unseen[e]
        BY <2>1, <3>2, <3>3, <3>4 DEF CashInv
      <4>3. InFlight(e)' = spent
        BY <2>2, <3>4 DEF InFlight
      <4> HIDE DEF spent
      <4>4. QED
        BY <2>1, <3>2, <3>4, <4>1, <4>2, <4>3
    <3>5. CASE e # f
      <4>1. seen'.cash[e] = seen.cash[e]
        BY <1>t, <2>1, <3>5 DEF SeenType
      <4>2. InFlight(e)' = 0
        BY <2>2, <3>5 DEF InFlight
      <4>3. QED
        BY <3>3, <4>1, <4>2 DEF CashInv
    <3>6. QED
      BY <3>4, <3>5
  <2>5. QED
    BY <2>3, <2>4
<1>10. ASSUME NEW scoped \in BOOLEAN, NEW known \in BOOLEAN, BuyConfirmed(scoped, known) PROVE BuyInv' /\ CashInv'
  <2> DEFINE b == buy.token[1]
  <2>1. /\ bot.up /\ buy # NoBuy /\ buy.landed /\ done' = buy.token /\ buy' = NoBuy
        /\ att' = att \/ att' = Receipted(Debit(known))
        /\ Debit(known) \in Nat /\ buy.price \in Nat /\ buy.price <= Debit(known) /\ bot' = bot /\ seen'.cash = seen.cash /\ seen'.unseen = seen.unseen
    BY <1>10, ConfirmedFacts, TournamentAssumption DEF BuyInv
  <2>2. /\ b \in Events /\ att[b].stage = "playing" /\ buy.token = Token(b) /\ done # Token(b)
        /\ \A e \in Events : att[e].stage = "playing" => e = b
    BY <1>b, <2>1 DEF BuyInv, RowInv, Pending, At
  <2>3. BuyInv'
    BY <2>1 DEF BuyInv
  <2>4. SUFFICES ASSUME NEW e \in Events
                 PROVE  /\ seen.cash[e] <= CashBudget + seen.unseen[e]
                        /\ att'[e].stage = "playing" /\ ~att'[e].closed /\ Token(b) # Token(e)'
                             => seen.cash[e] <= att'[e].spent + seen.unseen[e] + 0
    BY <2>1, <2>2, <2>3 DEF CashInv, InFlight
  <2>5. CASE att' = att
    BY <2>2, <2>5 DEF CashInv, Token
  <2>6. CASE att' = Receipted(Debit(known))
    <3>1. att'[e].stage = "playing" => att[e].stage = "playing"
      BY <1>t, <2>1, <2>6, ReceiptedRows
    <3>2. ASSUME att'[e].stage = "playing", ~att'[e].closed
          PROVE  seen.cash[e] <= att'[e].spent + seen.unseen[e] + 0
      <4>1. e = b /\ att[e].stage = "playing"
        BY <2>2, <3>1, <3>2
      <4>2. att'[e].spent = att[e].spent + Debit(known) /\ ~att[e].closed
        BY <1>t, <2>1, <2>6, <3>2, <4>1, ReceiptedRows
      <4>3. InFlight(e) = buy.price
        BY <2>1, <4>1 DEF InFlight
      <4>4. seen.cash[e] <= att[e].spent + seen.unseen[e] + buy.price
        BY <2>1, <2>2, <4>1, <4>2, <4>3 DEF CashInv
      <4>5. att[e].spent \in Nat /\ seen.unseen[e] \in Nat /\ seen.cash[e] \in Nat
        BY <1>t DEF Rows, Row, SeenType
      <4>6. QED
        BY <2>1, <4>2, <4>4, <4>5
    <3>3. QED
      BY <3>2 DEF CashInv
  <2>7. QED
    BY <2>1, <2>5, <2>6
<1>11. CASE BuyGivenUp
  <2>1. /\ buy' = NoBuy /\ UNCHANGED <<att, bot, done>> /\ seen'.cash = seen.cash
        /\ \A e \in Events : seen'.unseen[e] = seen.unseen[e] + InFlight(e)
    BY <1>11, GivenUpFacts
  <2>2. SUFFICES ASSUME NEW e \in Events
                 PROVE  /\ seen.cash[e] <= CashBudget + (seen.unseen[e] + InFlight(e))
                        /\ bot.up /\ att[e].stage = "playing" /\ ~att[e].closed /\ done # Token(e)
                             => seen.cash[e] <= att[e].spent + (seen.unseen[e] + InFlight(e)) + 0
    BY <2>1 DEF BuyInv, CashInv, InFlight, Token
  <2>3. /\ att[e].spent \in Nat /\ seen.unseen[e] \in Nat /\ CashBudget \in Nat
        /\ seen.cash[e] \in Nat /\ InFlight(e) \in Nat
    BY <1>t, TournamentAssumption DEF Rows, Row, SeenType, InFlight, Types, BuyType
  <2>4. QED
    BY <2>3 DEF CashInv
<1>12. CASE TapLost \/ TapLands \/ GameRestarts \/ \E tap \in Taps : Hand(tap)
  <2>1. /\ att' = att /\ buy' = buy /\ done' = done
        /\ bot' = bot \/ bot' = [bot EXCEPT !.todo = "none"]
        /\ seen'.cash = seen.cash /\ seen'.unseen = seen.unseen
    BY <1>12, LostFacts, LandedFacts, RestartFacts, HandFacts
  <2>2. bot'.up = bot.up /\ bot'.run = bot.run /\ bot'.tourn = bot.tourn
    BY <1>t, <2>1 DEF Bots
  <2>3. QED
    BY <1>1, <2>1, <2>2
<1>13. CASE Crash
  BY <1>13, CrashFacts, OverFrame DEF BuyInv
<1>14. CASE Restart \/ ScopeChange
  <2>1. /\ att' = ClosedOpening(att) /\ buy' = buy /\ done' = done /\ seen' = seen
        /\ bot' = bot \/ bot' = [bot EXCEPT !.up = TRUE]
    BY <1>14 DEF Restart, ScopeChange
  <2>2. bot'.run = bot.run /\ bot'.tourn = bot.tourn
    BY <1>t, <2>1 DEF Bots
  <2>3. \A e \in Events : /\ att'[e].stage = att[e].stage /\ att'[e].receipts = att[e].receipts
                          /\ att'[e].stage = "playing" => att'[e].closed
    BY <1>t, <2>1, ClosedRows
  <2>4. QED
    BY <2>1, <2>2, <2>3, BuyFrame, OverFrame
<1>15. QED
  BY <1>2, <1>3, <1>4, <1>5, <1>6, <1>7, <1>8, <1>9, <1>10, <1>11, <1>12, <1>13, <1>14, NextKinds
-----------------------------------------------------------------------------
(* The theorems.                                                           *)

LEMMA Initial == Init => IInv
<1> SUFFICES ASSUME Init PROVE IInv
  OBVIOUS
<1>1. TypeOK /\ SeenType
  BY InitTypes, TypeParts
<1>2. \A e \in Events : att[e] = NoAttempt /\ att[e].stage = "none"
                        /\ seen.taps[e] = 0 /\ seen.lines[e] = 0 /\ seen.cash[e] = 0
  BY DEF Init, NoAttempt
<1>3. Pending = {} /\ At({"entry_pending"}) = {} /\ At({"playing"}) = {} /\ Entries = {}
  BY <1>2 DEF Pending, At, Entries
<1>4. RowInv /\ TapInv
  BY <1>2, <1>3 DEF RowInv, TapInv, At
<1>5. LineInv
  BY <1>3, FS_EmptySet DEF LineInv, Init
<1>6. FarmInv /\ FlagInv /\ BuyInv
  BY <1>2, <1>3 DEF FarmInv, FlagInv, FarmOpen, BuyInv, Init, NoAttempt, NoRun
<1>7. CashInv
  BY <1>1, <1>2, TournamentAssumption DEF CashInv, SeenType
<1>8. QED
  BY <1>1, <1>4, <1>5, <1>6, <1>7 DEF IInv

LEMMA Step == IInv /\ [Next]_vars => IInv'
<1> SUFFICES ASSUME IInv, [Next]_vars PROVE IInv'
  OBVIOUS
<1>1. Types /\ RowInv /\ TapInv /\ LineInv /\ FarmInv /\ FlagInv /\ BuyInv /\ CashInv
  BY TypeParts DEF IInv
<1>2. (TypeOK /\ SeenType)'
  BY <1>1, TypesStep, TypePartsNext
<1>3. RowInv' /\ TapInv' /\ LineInv' /\ FarmInv' /\ FlagInv'
  BY <1>1, RowInvStep, TapInvStep, LineInvStep, FarmInvStep, FlagInvStep
<1>4. BuyInv' /\ CashInv'
  BY <1>1, MoneyStep
<1>5. QED
  BY <1>2, <1>3, <1>4 DEF IInv

\* The rows, the ledger, the opening's cursor and the screen agree on the one
\* attempt that is open, in every reachable state (tournament_store.py,
\* tournament_visit.py, tournament_policy.py).
THEOREM Invariance == Spec => []IInv
BY Initial, Step, PTL DEF Spec

\* Every variable keeps its type, and no amount of the opening falls below zero
\* (tournament_attempts, RunTracker, TournamentVisit).
THEOREM TypeCorrect == Spec => []TypeOK
<1>1. IInv => TypeOK
  BY DEF IInv
<1>2. QED
  BY <1>1, Invariance, PTL

\* At most one attempt is open, and however often the process dies around the
\* entry, or the tap is lost, an event is entered by at most one tap: the row is
\* committed before the tap (begin, before the entry of tournament_visit.py).
THEOREM OneEntryTapHolds == Spec => []OneEntryTap
<1>1. IInv => OneEntryTap
  BY DEF IInv, RowInv, TapInv, OneEntryTap
<1>2. QED
  BY <1>1, Invariance, PTL

\* The entries on the ledger never outnumber the tickets that the game took, and
\* no event has two: entered() writes the line with the stage, once.
THEOREM EntryLinesAreTicketsHolds == Spec => []EntryLinesAreTickets
<1>1. IInv => EntryLinesAreTickets
  BY DEF IInv, RowInv, LineInv, Entries, EntryLinesAreTickets
<1>2. QED
  BY <1>1, Invariance, PTL

\* The cash that really left in an opening stays in its budget but for what
\* landed and was given up, across crashes and changes of scope: an opening whose
\* last receipt may be missing is closed (the visit's constructor), and an open
\* one has all of its purchases under its cursor or in flight.
THEOREM OpeningStaysInBudget == Spec => []OpeningHolds
<1>1. IInv => OpeningHolds
  BY DEF IInv, CashInv, OpeningHolds
<1>2. QED
  BY <1>1, Invariance, PTL

\* A farm run is bound to an attempt only after a person or a game restart took
\* the tournament off the screen behind the bot, or its tap on the statistics or
\* the way back was lost: otherwise a played attempt keeps its screens until its
\* result is on record.  And none is open under the flag of a tournament's run,
\* but for those and a HUD that was seen once and never confirmed.
THEOREM FarmRunsStayFarmHolds == Spec => []FarmRunsStayFarm
<1>1. IInv => FarmRunsStayFarm
  BY DEF IInv, FarmInv, FlagInv, FarmOpen, FarmRunsStayFarm
<1>2. QED
  BY <1>1, Invariance, PTL

\* A result on record is final: no second look at the statistics, no run that
\* ends without any, and no later entry writes over it (result(), begin()).
THEOREM ResultsStandHolds == Spec => ResultsStand
<1> DEFINE Keeps == \A e \in Events : att[e].result # "null" => att'[e].result = att[e].result
<1>1. ASSUME IInv, [Next]_vars PROVE [Keeps]_vars
  <2>1. Types /\ RowInv
    BY <1>1, TypeParts DEF IInv
  <2>2. CASE PageEnters
    <3>1. /\ clock.event \in Events /\ att[clock.event].stage = "none" /\ att \in Rows
          /\ att' = Begun(clock.event)
      BY <2>1, <2>2, EntersFacts DEF Types
    <3>2. att[clock.event].result = "null"
      BY <2>1, <3>1 DEF RowInv, At, NoAttempt
    <3>3. \A e \in Events : e # clock.event => att'[e] = att[e]
      BY <3>1, BegunRows
    <3>4. QED
      BY <3>2, <3>3
  <2>3. CASE \A e \in Events : RowMoves(e)
    BY <2>3 DEF RowMoves
  <2>4. QED
    BY <1>1, <2>1, <2>2, <2>3, RowStep
<1>2. QED
  BY <1>1, Invariance, PTL DEF Spec, ResultsStand
=============================================================================
