----------------------------- MODULE Tournament -----------------------------
(***************************************************************************)
(* The free tournament entry: the durable attempt (tournament_store.py),   *)
(* the walk that enters and leaves (tournament_visit.py), the opening's    *)
(* cash cursor (tournament_policy.py) and the parts of the scan that start *)
(* and end runs around them (tower_bot.py, runs.py, autopilot.py).         *)
(*                                                                         *)
(* One scan is one action, up to its tap; the tap is the next action, so   *)
(* a crash may fall between what was committed and what was tapped.  The   *)
(* game, the operator at its screen and the calendar are the environment.  *)
(* A paused bot, and a bot without its evidence scope, does not scan.      *)
(* Purchases by combat rules cost no opening cash and are left out.        *)
(***************************************************************************)
EXTENDS Integers, FiniteSets

CONSTANTS MaxEvents,   \* tournaments of the calendar
          CashBudget,  \* opening_cash.cash_budget
          Prices,      \* prices of an opening purchase
          MaxRuns,     \* bound on the run ids handed out
          MaxFaults    \* bound on crashes, lost taps, hands and game restarts

ASSUME TournamentAssumption ==
  /\ MaxEvents \in Nat \ {0} /\ MaxRuns \in Nat /\ MaxFaults \in Nat
  /\ CashBudget \in Nat /\ Prices \subseteq Nat \ {0}

Events  == 1..MaxEvents
NoRun   == 0
Stages  == {"none", "entry_pending", "playing", "result", "completed"}
Screens == {"menu", "page", "hud", "stats", "farm"}
Taps    == {"none", "trophy", "battle", "ok", "return", "farm"}
NoBuy   == [price |-> 0, token |-> <<0, 0>>, landed |-> FALSE]

VARIABLES
  clock,     \* the calendar: the last event, and whether its day lasts
  game,      \* the screen, and the free tickets held
  att,       \* tournament_attempts, by event (durable)
  deferred,  \* tournament_backoff: events not to be opened for now (durable)
  visit,     \* TournamentVisit's own flags (memory)
  bot,       \* process, run tracker, _run_tournament, the tap a scan decided on
  buy,       \* autopilot: the purchase awaiting its receipt
  done,      \* autopilot: the decision token of the last receipt
  seen       \* history: what really happened, for the properties

vars == <<clock, game, att, deferred, visit, bot, buy, done, seen>>

FreshVisit == [opened |-> FALSE, ok |-> FALSE, back |-> FALSE]

NoAttempt == [stage |-> "none", run |-> NoRun, spent |-> 0, receipts |-> 0,
              closed |-> FALSE, result |-> "null"]

Init ==
  /\ clock = [event |-> 1, open |-> TRUE]
  /\ game = [screen |-> "menu", tickets |-> 1]
  /\ att = [e \in Events |-> NoAttempt]
  /\ deferred = {}
  /\ visit = FreshVisit
  /\ bot = [up |-> TRUE, run |-> NoRun, next |-> 1, tourn |-> FALSE, todo |-> "none"]
  /\ buy = NoBuy
  /\ done = <<0, 0>>
  /\ seen = [taps |-> [e \in Events |-> 0], lines |-> [e \in Events |-> 0],
             cash |-> [e \in Events |-> 0], unseen |-> [e \in Events |-> 0],
             entered |-> {}, tickets |-> 0, farm |-> NoRun, farmBound |-> FALSE,
             glimpsed |-> FALSE, strayed |-> FALSE, faults |-> 0]

-----------------------------------------------------------------------------
(* The store: one UPDATE each, over whatever attempt is pending.           *)

Pending == {e \in Events : att[e].stage \notin {"none", "completed"}}
At(stages) == {e \in Events : att[e].stage \in stages}
InRun == At({"playing"}) # {}

ClosedOpeningMutant(rows) == rows

\* close_opening
ClosedOpening(rows) ==
  [e \in Events |-> [rows[e] EXCEPT !.closed = @ \/ rows[e].stage = "playing"]]

\* begin: refused for an event seen before and while an attempt is pending
Begun(e) == [att EXCEPT ![e] = [NoAttempt EXCEPT !.stage = "entry_pending"]]

\* entered, with no run id yet
EnteredRows == [e \in Events |-> [att[e] EXCEPT !.stage = IF @ = "entry_pending" THEN "playing" ELSE @]]
EnteredLinesMutant ==
  [e \in Events |-> seen.lines[e] + IF att[e].stage \in {"entry_pending", "playing"} THEN 1 ELSE 0]

EnteredLines == [e \in Events |-> seen.lines[e] + IF att[e].stage = "entry_pending" THEN 1 ELSE 0]

\* bind_run
Bound(rows, run) == [e \in Events |-> [rows[e] EXCEPT !.run = IF rows[e].stage = "playing" THEN run ELSE @]]

ResultedMutant(r) ==
  [e \in Events |-> IF att[e].stage # "none"
                    THEN [att[e] EXCEPT !.stage = "result", !.result = r] ELSE att[e]]

\* result: the first one recorded of an attempt that has none
Resulted(r) ==
  [e \in Events |-> IF att[e].stage \in {"playing", "entry_pending"} /\ att[e].result = "null"
                    THEN [att[e] EXCEPT !.stage = "result", !.result = r] ELSE att[e]]

\* reconcile_exhausted
Exhausted ==
  [e \in Events |-> [att[e] EXCEPT !.stage = IF @ = "entry_pending" THEN "result" ELSE @]]

\* complete
Completed == [e \in Events |-> [att[e] EXCEPT !.stage = IF @ = "result" THEN "completed" ELSE @]]

\* purchased, through the cursor
Receipted(debit) ==
  [e \in Events |-> IF att[e].stage = "playing"
                    THEN [att[e] EXCEPT !.spent = @ + debit, !.receipts = @ + 1] ELSE att[e]]

\* A receipt whose cost could not be read takes the whole budget.
Debit(known) == IF known THEN buy.price ELSE CashBudget

-----------------------------------------------------------------------------
(* The scan.                                                               *)

Scans(screen) == bot.up /\ bot.todo = "none" /\ game.screen = screen

OwnsNavigation == visit.opened \/ At({"entry_pending", "result"}) # {}

Due == /\ clock.open
       /\ clock.event \notin deferred
       /\ att[clock.event].stage = "none"

CanOpen == bot.run = NoRun

MenuCompletes ==
  /\ Scans("menu")
  /\ At({"result"}) # {}
  /\ att' = Completed
  /\ visit' = FreshVisit
  /\ UNCHANGED <<clock, game, deferred, bot, buy, done, seen>>

MenuReleases ==
  /\ Scans("menu") /\ (OwnsNavigation \/ CanOpen)
  /\ At({"result"}) = {}
  /\ visit.back \/ (visit.opened /\ Pending = {})
  /\ visit' = FreshVisit
  /\ UNCHANGED <<clock, game, att, deferred, bot, buy, done, seen>>

MenuOpens ==
  /\ Scans("menu") /\ CanOpen
  /\ Pending = {} /\ ~visit.opened /\ ~visit.back
  /\ Due
  /\ visit' = [visit EXCEPT !.opened = TRUE]
  /\ bot' = [bot EXCEPT !.todo = "trophy"]
  /\ UNCHANGED <<clock, game, att, deferred, buy, done, seen>>

\* The tracker confirms a menu nobody owns: the open run is over, and a run
\* known to be the tournament's gets its result without any reading.
MenuEndsRun ==
  /\ Scans("menu")
  /\ ~OwnsNavigation /\ bot.run # NoRun
  /\ att' = IF bot.tourn THEN Resulted("blank") ELSE att
  /\ bot' = [bot EXCEPT !.run = NoRun, !.tourn = FALSE]
  /\ buy' = NoBuy
  /\ seen' = [seen EXCEPT !.glimpsed = FALSE]
  /\ UNCHANGED <<clock, game, deferred, visit, done>>

MenuFarms ==
  /\ Scans("menu")
  /\ ~OwnsNavigation /\ bot.run = NoRun /\ ~visit.back
  /\ Pending # {} \/ ~Due
  /\ bot' = [bot EXCEPT !.todo = "farm"]
  /\ UNCHANGED <<clock, game, att, deferred, visit, buy, done, seen>>

StartRunMutant(rows) ==
  /\ bot.next <= MaxRuns
  /\ att' = Bound(rows, bot.next + 1)

\* RunStarted: a new id, bound to the attempt in its run.
StartRun(rows) ==
  /\ bot.next <= MaxRuns
  /\ att' = Bound(rows, bot.next)

FarmSeen ==
  /\ Scans("farm")
  /\ ~OwnsNavigation /\ bot.run = NoRun
  /\ StartRun(att)
  /\ bot' = [bot EXCEPT !.run = bot.next, !.next = @ + 1]
  /\ seen' = [seen EXCEPT !.farm = bot.next, !.farmBound = @ \/ InRun]
  /\ UNCHANGED <<clock, game, deferred, visit, buy, done>>

\* A tournament's HUD without an attempt: not ours, and no farm either.
HudUnowned ==
  /\ Scans("hud")
  /\ Pending = {}
  /\ bot.run = NoRun \/ bot.tourn
  /\ visit' = [visit EXCEPT !.opened = TRUE]
  /\ UNCHANGED <<clock, game, att, deferred, bot, buy, done, seen>>

\* The HUD proves the entry; a bound run is resumed, else the tracker starts
\* one when it has confirmed the screen.
HudSeen(confirmed) ==
  LET known == {e \in Pending : att[e].run # NoRun}
      run   == IF bot.run = NoRun /\ known # {} THEN att[CHOOSE e \in known : TRUE].run ELSE bot.run
      inRun == \E e \in Events : EnteredRows[e].stage = "playing"
  IN
  /\ Scans("hud")
  /\ Pending # {}
  /\ visit' = [visit EXCEPT !.opened = FALSE]
  /\ seen' = [seen EXCEPT !.lines = EnteredLines]
  /\ IF confirmed
     THEN /\ inRun /\ run = NoRun
          /\ StartRun(EnteredRows)
          /\ bot' = [bot EXCEPT !.tourn = TRUE, !.run = bot.next, !.next = @ + 1]
     ELSE /\ att' = EnteredRows
          /\ bot' = [bot EXCEPT !.tourn = @ \/ inRun, !.run = run]
  /\ UNCHANGED <<clock, game, deferred, buy, done>>

StatsSeenMutant ==
  /\ Scans("stats")
  /\ Pending # {}
  /\ At({"playing", "entry_pending"}) # {} \/ ~visit.ok
  /\ att' = IF visit.ok THEN Resulted("read") ELSE att
  /\ visit' = [visit EXCEPT !.ok = TRUE]
  /\ bot' = [bot EXCEPT !.run = NoRun, !.tourn = FALSE, !.todo = IF visit.ok THEN @ ELSE "ok"]
  /\ buy' = NoBuy
  /\ UNCHANGED <<clock, game, deferred, done, seen>>

\* The statistics end the open run and its flag.  A HUD that was seen but
\* never confirmed has raised the flag without a run: then it stays raised.
StatsSeen ==
  LET read == At({"playing", "entry_pending"}) # {}
      ends == read /\ bot.run # NoRun
  IN
  /\ Scans("stats")
  /\ Pending # {}
  /\ read \/ ~visit.ok
  /\ att' = Resulted("read")
  /\ visit' = [visit EXCEPT !.ok = TRUE]
  /\ bot' = [bot EXCEPT !.run = IF ends THEN NoRun ELSE @, !.tourn = @ /\ ~ends,
                        !.todo = IF visit.ok THEN @ ELSE "ok"]
  /\ buy' = IF ends THEN NoBuy ELSE buy
  /\ seen' = [seen EXCEPT !.glimpsed = bot.tourn /\ ~ends]
  /\ UNCHANGED <<clock, game, deferred, done>>

StatsUnowned ==
  /\ Scans("stats")
  /\ Pending = {}
  /\ visit' = [visit EXCEPT !.opened = TRUE]
  /\ UNCHANGED <<clock, game, att, deferred, bot, buy, done, seen>>

\* Tap To Return To Game, once.
Return == IF visit.back THEN bot ELSE [bot EXCEPT !.todo = "return"]

\* The page with an attempt: no ticket left is all that settles an unproven
\* entry; a recorded result is left by the return tap; the rest only waits.
PageSeen ==
  LET rows == IF game.tickets = 0 THEN Exhausted ELSE att
      over == \E e \in Events : rows[e].stage = "result"
  IN
  /\ Scans("page")
  /\ Pending # {}
  /\ att' = rows
  /\ visit' = [visit EXCEPT !.opened = TRUE, !.back = @ \/ over]
  /\ bot' = IF over THEN Return ELSE bot
  /\ UNCHANGED <<clock, game, deferred, buy, done, seen>>

\* The page without an attempt and without a readable free entry.
PageDefers ==
  /\ Scans("page")
  /\ Pending = {}
  /\ deferred' = IF clock.open THEN deferred \cup {clock.event} ELSE deferred
  /\ visit' = [visit EXCEPT !.opened = TRUE, !.back = TRUE]
  /\ bot' = Return
  /\ UNCHANGED <<clock, game, att, buy, done, seen>>

PageEntersMutant ==
  /\ Scans("page")
  /\ Pending = {}
  /\ clock.open /\ att[clock.event].stage = "none"
  /\ game.tickets > 0
  /\ att' = Begun(clock.event)
  /\ visit' = [visit EXCEPT !.opened = TRUE]
  /\ bot' = [bot EXCEPT !.todo = "battle"]
  /\ UNCHANGED <<clock, game, deferred, buy, done, seen>>

\* The intent is committed, then the entry is tapped.
PageEnters ==
  /\ Scans("page")
  /\ Pending = {}
  /\ clock.open /\ att[clock.event].stage = "none"
  /\ game.tickets > 0
  /\ att' = Begun(clock.event)
  /\ visit' = [opened |-> TRUE, ok |-> FALSE, back |-> FALSE]
  /\ bot' = [bot EXCEPT !.todo = "battle"]
  /\ UNCHANGED <<clock, game, deferred, buy, done, seen>>

-----------------------------------------------------------------------------
(* The opening's purchases, one at a time: the decision token carries the  *)
(* receipts, so the next one waits for the receipt of the last.            *)

Token(e) == <<e, att[e].receipts>>

\* resolve_policy offers a price that still fits; the tap may miss.
Buy(e, price, landed) ==
  /\ Scans("hud") /\ bot.run # NoRun /\ bot.tourn
  /\ att[e].stage = "playing" /\ ~att[e].closed
  /\ buy = NoBuy /\ done # Token(e)
  /\ price <= CashBudget - att[e].spent
  /\ buy' = [price |-> price, token |-> Token(e), landed |-> landed]
  /\ seen' = [seen EXCEPT !.cash[e] = @ + IF landed THEN price ELSE 0]
  /\ UNCHANGED <<clock, game, att, deferred, visit, bot, done>>

\* The receipt is published; it reaches the cursor unless the scope changed
\* meanwhile or another run is open.
BuyConfirmed(scoped, known) ==
  /\ Scans("hud")
  /\ buy # NoBuy /\ buy.landed
  /\ IF scoped /\ \E e \in Pending : att[e].run = bot.run
     THEN att' = Receipted(Debit(known)) ELSE att' = att
  /\ scoped \/ seen.faults < MaxFaults
  /\ seen' = [seen EXCEPT !.faults = @ + IF scoped THEN 0 ELSE 1]
  /\ done' = buy.token
  /\ buy' = NoBuy
  /\ UNCHANGED <<clock, game, deferred, visit, bot>>

\* Eight seconds without a proof: the tap is forgotten, the opening goes on.
BuyGivenUp ==
  /\ Scans("hud")
  /\ buy # NoBuy
  /\ buy.landed => seen.faults < MaxFaults
  /\ buy' = NoBuy
  /\ seen' = IF buy.landed
             THEN [seen EXCEPT !.unseen[buy.token[1]] = @ + buy.price, !.faults = @ + 1] ELSE seen
  /\ UNCHANGED <<clock, game, att, deferred, visit, bot, done>>

-----------------------------------------------------------------------------
(* The taps, and what the game makes of them.                              *)

Pressed(tap) ==
  CASE tap = "trophy" /\ game.screen = "menu"  -> [game EXCEPT !.screen = "page"]
    [] tap = "battle" /\ game.screen = "page" /\ game.tickets > 0
                                               -> [screen |-> "hud", tickets |-> game.tickets - 1]
    [] tap = "ok"     /\ game.screen = "stats" -> [game EXCEPT !.screen = "page"]
    [] tap = "return" /\ game.screen = "page"  -> [game EXCEPT !.screen = "menu"]
    [] tap = "farm"   /\ game.screen = "menu"  -> [game EXCEPT !.screen = "farm"]
    [] OTHER                                   -> game

Used == seen.tickets + game.tickets - game'.tickets

TapLands ==
  /\ bot.up /\ bot.todo # "none"
  /\ game' = Pressed(bot.todo)
  /\ bot' = [bot EXCEPT !.todo = "none"]
  /\ seen' = [seen EXCEPT !.taps = [e \in Events |-> @[e] + IF bot.todo = "battle" /\ e \in At({"entry_pending"}) THEN 1 ELSE 0],
                          !.tickets = Used,
                          !.entered = @ \cup IF bot.todo = "battle" /\ game'.screen = "hud"
                                             THEN At({"entry_pending"}) ELSE {}]
  /\ UNCHANGED <<clock, att, deferred, visit, buy, done>>

\* A lost OK or return tap is not sent again by this process; with an attempt
\* pending that takes a restart, or a person.
TapLost ==
  /\ bot.up /\ bot.todo # "none"
  /\ seen.faults < MaxFaults
  /\ bot' = [bot EXCEPT !.todo = "none"]
  /\ seen' = [seen EXCEPT !.faults = @ + 1, !.strayed = @ \/ (bot.todo \in {"ok", "return"} /\ Pending # {}),
                          !.taps = [e \in Events |-> @[e] + IF bot.todo = "battle" /\ e \in At({"entry_pending"}) THEN 1 ELSE 0]]
  /\ UNCHANGED <<clock, game, att, deferred, visit, buy, done>>

Hand(tap) ==
  /\ seen.faults < MaxFaults
  /\ Pressed(tap) # game
  /\ game' = Pressed(tap)
  /\ seen' = [seen EXCEPT !.faults = @ + 1, !.strayed = TRUE, !.tickets = Used]
  /\ UNCHANGED <<clock, att, deferred, visit, bot, buy, done>>

RunEnds ==
  /\ game.screen \in {"hud", "farm"}
  /\ game' = [game EXCEPT !.screen = IF @ = "hud" THEN "stats" ELSE "menu"]
  /\ UNCHANGED <<clock, att, deferred, visit, bot, buy, done, seen>>

GameRestarts ==
  /\ game.screen # "menu" /\ seen.faults < MaxFaults
  /\ game' = [game EXCEPT !.screen = "menu"]
  /\ seen' = [seen EXCEPT !.faults = @ + 1,
                          !.strayed = @ \/ game.screen \in {"hud", "stats"}]
  /\ UNCHANGED <<clock, att, deferred, visit, bot, buy, done>>

\* The event's day ends; the next event brings its free ticket.
DayPasses ==
  /\ clock.open \/ clock.event < MaxEvents
  /\ clock' = IF clock.open THEN [clock EXCEPT !.open = FALSE]
              ELSE [event |-> clock.event + 1, open |-> TRUE]
  /\ game' = IF clock.open THEN game ELSE [game EXCEPT !.tickets = 1]
  /\ UNCHANGED <<att, deferred, visit, bot, buy, done, seen>>

BackoffExpires ==
  /\ deferred # {}
  /\ deferred' = {}
  /\ UNCHANGED <<clock, game, att, visit, bot, buy, done, seen>>

-----------------------------------------------------------------------------
(* The process.                                                            *)

Crash ==
  /\ bot.up /\ seen.faults < MaxFaults
  /\ bot' = [bot EXCEPT !.up = FALSE, !.run = NoRun, !.tourn = FALSE, !.todo = "none"]
  /\ visit' = FreshVisit
  /\ buy' = NoBuy /\ done' = <<0, 0>>
  /\ seen' = [seen EXCEPT !.faults = @ + 1, !.glimpsed = FALSE]
  /\ UNCHANGED <<clock, game, att, deferred>>

RestartMutant ==
  /\ ~bot.up
  /\ bot' = [bot EXCEPT !.up = TRUE]
  /\ att' = [e \in Events |-> IF att[e].stage = "entry_pending" THEN NoAttempt ELSE ClosedOpening(att)[e]]
  /\ UNCHANGED <<clock, game, deferred, visit, buy, done, seen>>

\* The constructor of the visit: an unreceipted purchase may have been made.
Restart ==
  /\ ~bot.up
  /\ bot' = [bot EXCEPT !.up = TRUE]
  /\ att' = ClosedOpening(att)
  /\ UNCHANGED <<clock, game, deferred, visit, buy, done, seen>>

\* New evidence scope: the visit is built anew in the same process.
ScopeChange ==
  /\ bot.up /\ bot.todo = "none"
  /\ visit' = FreshVisit
  /\ att' = ClosedOpening(att)
  /\ UNCHANGED <<clock, game, deferred, bot, buy, done, seen>>

Scan ==
  \/ MenuCompletes \/ MenuReleases \/ MenuOpens \/ MenuEndsRun
  \/ FarmSeen
  \/ HudUnowned \/ \E confirmed \in BOOLEAN : HudSeen(confirmed)
  \/ StatsSeen \/ StatsUnowned
  \/ PageSeen \/ PageDefers \/ PageEnters

Opening ==
  \/ \E e \in Events, price \in Prices, landed \in BOOLEAN : Buy(e, price, landed)
  \/ \E scoped, known \in BOOLEAN : BuyConfirmed(scoped, known)
  \/ BuyGivenUp

Environment ==
  \/ TapLost \/ \E tap \in Taps \ {"none", "farm"} : Hand(tap)
  \/ GameRestarts \/ DayPasses \/ BackoffExpires
  \/ Crash \/ ScopeChange

Next == Scan \/ Opening \/ Environment \/ MenuFarms \/ TapLands \/ RunEnds \/ Restart

Spec == Init /\ [][Next]_vars

\* A running bot keeps scanning, its taps and runs end, a dead one is
\* started again.  Nobody owes the game a hand, a day or a purchase.
FairSpec == Spec /\ WF_vars(Scan) /\ WF_vars(TapLands) /\ WF_vars(RunEnds) /\ WF_vars(Restart)

-----------------------------------------------------------------------------
(* Properties.                                                             *)

\* Every variable keeps its type; a spent or receipted amount never falls
\* below zero (tournament_attempts, RunTracker, TournamentVisit).
TypeOK ==
  /\ clock \in [event : Events, open : BOOLEAN]
  /\ game \in [screen : Screens, tickets : 0..1]
  /\ att \in [Events -> [stage : Stages, run : 0..MaxRuns, spent : Nat, receipts : Nat,
                         closed : BOOLEAN, result : {"null", "read", "blank"}]]
  /\ deferred \subseteq Events
  /\ visit \in [opened : BOOLEAN, ok : BOOLEAN, back : BOOLEAN]
  /\ bot \in [up : BOOLEAN, run : 0..MaxRuns, next : 1..(MaxRuns + 1), tourn : BOOLEAN, todo : Taps]
  /\ buy = NoBuy \/ buy \in [price : Prices, token : Events \X Nat, landed : BOOLEAN]
  /\ done \in (0..MaxEvents) \X Nat

\* One attempt is open at a time, and one event is entered by at most one
\* tap, however often the process dies around it or the tap is lost.
OneEntryTap ==
  /\ \A d, e \in Pending : d = e
  /\ \A e \in Events : seen.taps[e] <= 1

\* The ledger never shows more entries than the game took tickets, nor two
\* for one event: the line is written with the stage, once.
EntryLinesAreTickets ==
  /\ \A e \in Events : seen.lines[e] <= 1
  /\ Cardinality({e \in Events : seen.lines[e] > 0}) <= seen.tickets

\* A recorded result is final: neither a second look at the statistics, nor
\* the run ending once more without any, writes over it.
ResultsStand ==
  [][\A e \in Events : att[e].result # "null" => att'[e].result = att[e].result]_vars

\* The cash really spent in the opening stays in its budget, but for what
\* landed and was given up: a restart or a change of scope between the tap
\* and its receipt never opens the budget again.
OpeningHolds == \A e \in Events : seen.cash[e] <= CashBudget + seen.unseen[e]

\* Unless a person, a lost tap or a game restart took the tournament off the
\* screen behind the bot, no farm run is bound to a tournament's attempt when it
\* starts (_start_run), and none is open under the flag by which its end is
\* told as a tournament's (_run_once).  The flag of a HUD that was glimpsed,
\* and whose run the tracker never opened, is the one thing that can do the
\* latter: nothing clears it but the end of the run that starts next.
FarmRunsStayFarm ==
  /\ seen.farmBound => seen.strayed
  /\ bot.tourn /\ bot.run # NoRun /\ bot.run = seen.farm => seen.strayed \/ seen.glimpsed

\* An entered tournament is played, recorded and closed, whatever crashes
\* happen on the way.
EntriesAreSettled ==
  \A e \in Events : (e \in seen.entered) ~> (att[e].stage = "completed" \/ seen.strayed)

=============================================================================
