# The Tower bot: a verification project

The repository plays a mobile idle game on emulated Android devices. A *worker*
process owns one device and one game account: it reads the screen, decides, taps,
and spends the account's currencies. A *coordinator* process starts, stops, watches
and replaces the workers of a fleet. Almost everything that matters is kept in files
and SQLite databases, because every process may die between any two lines, and
because an input to the device cannot be taken back: a tap may land although the
transport reported an error, and the only answer to it is what a later frame shows.

This project models the parts of the program that cope with that. Each component
has a TLA+ module translated from its source, TLC configurations that explore small
instances of it, and, where the tools reach, proofs for every value of the constants.

- [Parts of the system](#parts-of-the-system)
- [What is hard](#what-is-hard)
- [Modules](#modules)
- [Runs](#runs)
- [Proofs](#proofs)
- [Where code and text disagree](#where-code-and-text-disagree)
- [Not modelled](#not-modelled)
- [Plan](#plan)

## Running it

    tlc -config MCJournal.cfg MCJournal        # one run; PROJECT.json lists module and cfg of each
    tlapm Journal_proofs.tla                   # one proof module

`PROJECT.json` holds the list of components, runs, mutants (for each property, a
plausible bug in the code that violates it), the map from every definition to the lines it
stands for, the hazards and the theorems.

## Parts of the system

State is "db" when it is a table of the worker's SQLite database, "file" when it is a
JSON file replaced atomically, "memory" when it dies with the process.

| Part | State it keeps | Operations | Talks to |
|---|---|---|---|
| Transaction journal (`transactions.py`) | db: one row per intent (stage, outcome, spent, scope, times, wallet before) | `prepare`, `record_action`, `cancel_before_input`, `reconcile`, `resolve`, `operator_reconcile`, `close_unproven` | wallets, ledger, in the same SQLite transaction |
| Wallets (`currencies.py`) | db: last reading per currency, commitments, bound scope | `bind_scope`, `observe`, `committed`, `release` | journal |
| Shopping (`shopping.py`) | memory: where the visit is | the visit: read a row, buy it, recover an unanswered one | journal, device |
| Recovery budget (`recovery_budget.py`) | db shared by the fleet: reservations, policy, settings | `reserve`, `mark_sent`, `release_not_sent`, `settle`, `update_policy`, `update_settings` | recovery service, settings editors |
| Recovery service (`recovery_service.py`) | memory: one request; POSIX locks: worker and fleet slots | `submit`, `poll`, `invalidate`, `_execute` | budget, model provider |
| Recovery episodes (`recovery_episodes.py`) | db: incidents, their actions, a clock that never goes back | `get_or_open`, `rebind_scope`, `reserve_action`, `record_outcome`, `close`, `reconcile` | coordinator, operator tool |
| Recovery coordinator (`recovery_coordinator.py`) | memory: the phase of the episode; one storage thread | `step`, `close`, `_dispatch` | episodes, service, device |
| Input lease (`fleet/input_lease.py`) | file: generation, current or revoked | `grant`, `revoke`, `handoff`, `assert_current` | supervisor, device gate |
| Worker generation (`fleet/worker_generation.py`) | file: transition marker | `rotate_registered_attempt` | lease, registration, process record |
| Reroll supervisor (`fleet/reroll_supervisor.py`) | file: process record; the worker's lock | `start`, `pause`, `kill`, `status`, `reconcile` | lease, registration, worker processes |
| Worker monitor (`fleet/worker_monitor.py`) | file: incidents and restart budget | `check_once`, `_recover_locked` | supervisor |
| Runner (`runner.py`) | memory: the scan thread | `start`, `stop`, `reverify_identity` | generation, device gate, scan loop |
| Device gate (`supervisor.py`) | file: checkpoint (state, attempts, pending frame) | `recover`, `observe`, `verify_account`, `_action` | device, lease |
| Scan loop (`tower_bot.py`) | memory | one scan after another | everything a worker has |
| Tournament entries (`tournament_store.py`, `tournament_visit.py`, `tournament_policy.py`) | db: an attempt per event, its opening budget, a backoff; memory: the visit | `begin`, `entered`, `bind_run`, `purchased`, `result`, `reconcile_exhausted`, `complete` | run tracker, autopilot, device |
| Cards (`card_store.py`, `card_transactions.py`, `card_visit.py`, `card_runtime.py`) | db: operations, commands, budget cycles, pinned targets, toggles, visits | `submit`, `cancel`, `start_budget_cycle`, `advance`, `_tap_view`, `reconcile_card_operation` | journal (same file, one write lock), device |
| Labs, pushes, missions, gems | db and files of their own | visits that spend or claim | journal, device |
| Reroll runs and pool (`fleet/reroll_runs.py`, `reroll_pool.py`, `reroll_retirement.py`) | two files that must agree; memory: one operation at a time | `start_new`, `remove_member`, `add_members`, `set_hidden`, `_repair` | supervisor, monitor |
| Strategies and routes (`strategy_service.py`, `fleet/build_route_*.py`) | files with revisions | publish, assign, acknowledge, draw | worker |
| Event bus and sinks (`events.py`, `sinks/`) | memory queues | publish, drop when full | ledger, dashboard, stores |
| Dashboard, streaming, reports, tools | none of their own | views and operator commands | all of the above |

How they interact on the paths that are modelled:

    operator -> supervisor.start --- lock, record, lease, binding ---> worker process
    monitor  -> _recover_locked ------------------------------------->   |
                                                                         v
    worker: runner.start -> gate.recover -> scan -> gate._action -> device
                 |                                     ^
                 +-> rotate_registered_attempt         | assert_current (lease)
                                                       |
    shopping: prepare -> record_action -> tap ---------+
              recover: evidence -> reconcile | refute | operator | timeout
    stalled screen: coordinator.step -> episodes.reserve -> tap -> episodes.record
                                     -> service.submit -> budget.reserve -> POST -> settle
    cards: store.transition + prepare -> record_action -> tap -> receipt -> reconcile
    tournament: begin -> tap -> entered -> bind_run -> purchases -> result -> complete
    dashboard: reroll operation -> supervisor.pause, proof of exit -> pool file -> runs file

Correctness of each part, in a sentence:

- *Journal*: one intent open at a time, one tap per intent, a hold exactly while an
  intent is open, a debit exactly for what was proved, and nothing settled is rewritten.
- *Budget*: a request id is posted at most once, what was posted stays charged, the hard
  ceilings hold for what really went out, an overcharge ends spending, no edit is lost.
- *Episodes*: an input whose outcome is in doubt blocks every further one; the record
  says what happened; the action lane is always handed back.
- *Lifecycle*: a fenced process never sends again (one input in flight excepted), the
  recorded worker can always be restarted, a pause holds against recovery.
- *Device gate*: one input per answer, written ahead of being sent, only to a verified
  connection; retries are bounded, quarantines last, and neither blocks for ever.
- *Tournament*: an event is entered by at most one tap, its entry and its result are written
  once, the opening's cash holds, no farm run is bound to an attempt while the tournament is where
  the bot left it, and an entered tournament is closed in the end.
- *Cards*: gems stay under their cycle's cap and are booked as the game took them, a cancelled
  operation sends nothing more, a toggle has the effect its claim recorded, finished
  work lets the menus go.
- *Reroll runs*: who left the pool plays nothing, a closed run is history, no hiding is lost,
  and the run comes to be the pool again.

## What is hard

`PROJECT.json` lists each hazard at its line. They fall into these groups:

- **Crash between write and tap, or tap and answer** (`shopping.py:1075`,
  `recovery_coordinator.py:832`, `supervisor.py:401`, `tournament_visit.py:148`,
  `card_transactions.py:324`): the successor has only the disk to
  tell an input that may have landed from one that never left.
- **Two processes, one database** (`transactions.py:328`, `transactions.py:788`,
  `recovery_budget.py:250`): checks and writes that must be one transaction, verdicts of an
  operator while the owner is alive.
- **Several files, no transaction** (`reroll_supervisor.py:612`,
  `reroll_runs.py:296`, `card_store.py:439`): a crash leaves any prefix of the writes.
- **Check, then act** (`supervisor.py:397`, `card_visit.py:605`, `reroll_runs.py:367`,
  `reroll_supervisor.py:461`): the lease, a cancellation or the list of members is read, and
  then something is sent, written or started.
- **Stale data** (`transactions.py:742`, `tower_bot.py:729`, `card_visit.py:709`): a
  wallet read before a tap, an attempt that no longer plays, equipment read before an earlier
  toggle landed.
- **Waiting** (`worker_monitor.py:479`, `recovery_coordinator.py:593`,
  `supervisor.py:326`, `tournament_visit.py:127`, `card_visit.py:182`): locks held while waiting for a process that waits for a lock; a
  phase that waits for a reply that failed; an input that changes nothing; a finished visit
  that still owns the menus.

## Modules

| Module | Models | Extends / instantiates |
|---|---|---|
| `Judge` | `judge`, the confirmation rule of a purchase, as pure operators | |
| `Journal` | transaction journal, wallets, the callers that tap | `Judge`, `SpendGate` |
| `SpendGate` | abstract: what a journal of purchases promises; implemented by `Journal` and by `Cards` | |
| `MCJournal` | instance for TLC | `Journal` |
| `Journal_proofs` | theorems | `Journal` |
| `RecoveryBudget` | budget, recovery services, settings editors | |
| `MCRecoveryBudget` | instances for TLC | `RecoveryBudget` |
| `RecoveryBudget_proofs` | theorems | `RecoveryBudget` |
| `InputRecord` | abstract: what a record of inputs promises; implemented by `RecoveryEpisodes` | |
| `RecoveryEpisodes` | episode store, coordinator, storage thread, operator | `InputRecord` |
| `RecoveryEpisodes_proofs` | theorems | `RecoveryEpisodes` |
| `InputLease` | the lease file as a state and its operations | |
| `WorkerLifecycle` | supervisor, monitor, worker process, generation rotation | `InputLease` |
| `WorkerLifecycle_proofs` | theorems | `WorkerLifecycle` |
| `DeviceInput` | device gate and the scan thread that drives it | |
| `DeviceInput_proofs` | theorems | `DeviceInput` |
| `Tournament` | a tournament's attempt, the visit, its run and its opening | |
| `Tournament_proofs` | theorems | `Tournament` |
| `Cards` | operations of the Cards page with their rows, cycles, toggles, visits | `SpendGate` |
| `Cards_proofs` | theorems | `Cards` |
| `RerollRuns` | the pool, the runs, the operation that changes them, the monitor beside it | |
| `RerollRuns_proofs` | theorems | `RerollRuns` |

Variables keep the source's column, field or method names. Each definition's comment
names its function; `PROJECT.json` maps it to lines.

### Journal (with Judge)

One database, any number of worker processes (`Workers`) and callers outside them. A row's
columns are functions on intents: `stage` ("intended", "acted", "resolved"), `outcome`,
`spent`, `scopeOf`, `ts`, `actedAt`, `before`, `inspected`. `held` is
`currency_commitments`, `reading` is `currency_observations`, `scope` is
`fact_scope`, `booked` the debit in the ledger. `settledBy` stands for the reason in
`detail` and the audit table. `phase` and `holding` are a worker's locals between
`prepare`, `record_action` and the tap; `sent` counts the taps really dispatched and is
the only thing a crash cannot change.

Every SQLite `BEGIN IMMEDIATE` transaction is one action: `Prepare` (with the refusals:
scope, stale reading, a pending row, coverage after holds), `PrepareAgain` (the key
exists), `RecordAction` and `ActionAlreadyTaken`, `CancelBeforeInput`, `Reconcile` with
both its ends (proved, or only inspected), `Resolve`, `RefuteUnlanded`,
`OperatorReconcile`, `CloseUnproven`, `BindScope`, `Observe`, `Release`. `Crash` drops a
worker's locals at any point. Evidence is any combination of wallet, effect, time, scope
and continuity a frame may yield, including none; `Judge` decides as the code does,
with the abbreviation slack of readings of four digits and more.

Assumptions, each named in the module:

- `Honest`: an item does not change before its tap was sent (nobody else plays the account).
- `DispatchBound`: a claimed tap is dispatched, or its worker dies, sooner than the timeouts
  after which a row may be closed over its head: 2 s for a lab start that did not land
  (`SettleTime`), 60 s for a recovery that gives up (`Patience`), 600 s for an operator
  (`Recent`). In the code the tap is the next statement after the claim, and the first two are
  reached only by the thread that tapped or by a successor that owns its endpoint; the
  model lets every worker settle every row, and so has to name the bound.
- Scope epochs never go back.

Left out: the outcome column of open rows, visit receipts, `open`/`resolve` without a scope
and plan reservations (no production caller), the run-scoped cash wallet, and the
process-local recovery fence (planned).

`SpendGate` is what remains when rows, holds, scopes, clocks and workers are hidden: attempts
enter one at a time, tap at most once while inside, leave once and are charged their price
if that was proved. `ImplementsGate` in `Journal` is `Gate!Spec` under
`inside <- OpenIntent, done <- Settled, taps <- sent, books <- booked`.

### RecoveryBudget

`state, day, maximum, actual` are the columns of `recovery_reservations`;
`limits, revision, disabled, latestDay` the policy row; `document, settingsRevision` the
settings row. A service goes through `idle, quoted, reserved, marked, posted` (or
`unanswered` when the call failed around the POST) to `delivered`; `failed` is a service
whose accounting raised and which stops for good. `posts` and `charged` are what
the provider saw, kept apart from what the database believes. Every budget method is one
action, and between two of them a service may be cancelled, fail to write (with or without the
write having happened: `MarkSent` has both), or die. `Midnight` moves the date that `Quote`
reads before `Reserve` takes the lock. The fleet's two slots and the worker's lock are
derived from the phases (`SlotFree`), because POSIX locks die with their process.

Merged: submission, the slots and the quote are one step, for nothing of them is shared
except the locks. Left out: how long an unpolled reply keeps the worker's lock, and the read-only
summaries. `update_policy` has no production caller and is modelled all the same.

### RecoveryEpisodes

One worker, one account, one stalled screen. The store's tables are `actions` (outcomes in
order), `bound` (`scope_token`), `revision`, `verdict`, `openedAt`, `closedAt` and
`highWater` (`episode_clock`). The coordinator has its phase, its own
copy of the episode (`view`), one command in the storage slot (`command`) and one reply. `step` is
cut at the points where another thread can be observed: handing over a command, polling
it, the tap. The storage thread runs a command fully, fails before its write, or
fails after it. `Shutdown`/`Finalize` are `close()` and its finalizer, `Crash` is the
process's death, `Start` a new process, `Reconcile` the operator's tool, `NewScope` any
change of the worker's scope and `t` in the store's actions any wall clock, set back or
not. `taps` counts the inputs really sent.

Taken from outside: the operator tells the truth about what was sent; one coordinator per
worker (the lease's subject); the provider's answer is any (the budget's subject).

`InputRecord` is what remains when phases, commands, views, scopes, clocks and crashes are
hidden: a trial is written down while no other is in doubt, its input goes out once and
before anything is said of it, and what is said is true and, once known, final.
`ImplementsRecord` maps a trial to an incident with the number of an action: `said` is the outcome
on record ("none" before the reservation), `sent` its taps.

### InputLease and WorkerLifecycle

One worker and everybody who may start, stop, fence or replace its process. On disk:
`record`, `registration` (the bound generation and its predecessor), `lease`,
`intent`, `marker`, `held` and `episodes` (the monitor's file), `evidence` (the heartbeat and
runtime records). `op` says who holds the worker's lock and how far
that procedure is: each write of `start`, `pause`, `kill`, `_recover_locked` and
`rotate_registered_attempt` is a step of its own, and `CoordinatorRestarts`, `StartRaises` or
`Dies` may come between any two. `proc` holds the processes: booting, holding the endpoint
lock, up; their loaded generation; their scan thread (`waiting` is a start of the
loop that wants the worker's lock while it holds the runner's); `armed` is the window
between `assert_current` and the send.

Merged or left out: the monitor's graceful `_stop`, which only the coordinator's shutdown calls
(`fleet/setup.py:625`). It is close to a coordinator crash between steps, without being one: a
restart it cancels leaves a "starting" record whose owner lives until the process is gone
(`reroll_supervisor.py:594-595`), so that only the next coordinator calls it interrupted, as it does after the crash
that is modelled, or it puts the old record back (599-602, 636-639), which the model does not. Further the boot of a stopped emulator, host capacity, argument and birth checks (a live pid is
taken to be the recorded process), port migration, a second monitor, the expiry of the
restart window, and a first launch that fails before `_attempt_started`. "unverified" and
"running" records are one, so a property cannot speak of a worker that never proved itself.

### DeviceInput

`mem` is the `DeviceSupervisor` in memory and `ckpt` its checkpoint on disk, both
with the digest of the frame an unanswered input was decided on (`pending`) and the
state; `since` is the age of `pending_since`. `phase` is the place of the one
thread: `BotRunner.start`, `recover()` (enter, connect, exhausted), the verification walk,
the scan (capture, look, act, send). `sent`, `proof` and `tries` are history: inputs without an
answer, whether the account was seen on this connection, and connects that failed in
a row. Instead of clocks the module keeps ages in ticks that saturate at `Cap`, where every
comparison of the code has been decided, so that time is unbounded in a finite model.

Taken from outside: the wall clock does not step back; the expected account is known
and does not change. Identity taps of the walk and the relaunch of the app are not counted
as inputs of the loop. Quarantine reasons are two: lost transport
(`exhausted`) and all others. Left out: evidence recorded from another thread
(`record_identity_evidence`, `runner.py:278-301`, which nothing in the program calls); the walk that
Shopping asks for while a purchase is pending (`Reverify` is the one for an unverified account); and
a checkpoint that cannot be read, which quarantines at once (`supervisor.py:156-160`).

### Tournament

`att` is `tournament_attempts` by event (`stage`, `run`, the opening's `spent`, `receipts` and
`closed`, `result`), `deferred` the backoff, `visit` the flags of `TournamentVisit`, `bot` the
process with its run tracker and the tap a scan has decided on, `buy` the autopilot's purchase
awaiting its receipt. A scan is one action up to its tap, with the commits the scan makes;
`TapLands` or `TapLost` is the next. The game (`game`, `clock`) shows a screen, holds tickets,
ends runs, is restarted or operated by a hand. A receipt debits the price, or the whole budget when
the cost of the tap was not known (`Debit`). `seen` is history: entry taps, entry lines of
the ledger, cash really spent, whether something outside the code's reach (a hand, a game
restart in the tournament, a lost OK or return tap) took the screen away (`strayed`), the last farm
run, and whether a HUD was seen once and not confirmed (`glimpsed`).

`FarmRunsStayFarm` says two things, both unless the screen strayed: no farm run is bound to an
attempt, and none is open while the flag `_run_tournament` is up, which would tell its end as a
tournament's. The flag has one more way up, which the property names: a glimpsed HUD (see the
[end](#where-code-and-text-disagree)).

Left out: the dialog that buys a ticket, the username and profile pages, purchases by combat
rules (they cost no opening cash), the pause and the switches of the configuration, the 60 seconds
of `_blocked` and `until_wave` of a build's stage. The last two only delay what the model may do at
once.
Noted while modelling: a purchase without proof for eight seconds is forgotten
without closing the opening, so `OpeningHolds` allows for what was given up; an
attempt that stays "playing" after a hand left the tournament binds the next farm run; a lost OK
or return tap is not sent again before a restart.

### Cards

`ops` is `card_operations` (status, cancel mark, cycle, kept proof), `row` the journal row and the
debit of a purchase, `pinned` and `steps` the target and the last claimed toggle of a loadout,
`flow` the visits (`card_visit_flows`), `cycle` the open budget cycle, `asked` cancel
commands still to be finished. `visit` is `CardVisit` in memory and `tap` the runtime's
lock: how far `_tap_view` or `reconcile_card_operation` has come, commit by commit, so that
`Crash` may fall between any two: also between the status "dispatched" and the first claimed toggle
(`DispatchToggle`, `ClaimToggle`). The operator's tool alone takes no part in that lock. An input that was sent waits in `game.input` until it lands,
is lost, or the page is gone. `row[o].drift` says that other gems came in beside the
purchase; `spent = Unknown` is a settlement nobody could prove.

Left out: refresh, slots, clearing and ten-packs (operations of the same life with other
screens), the scan of the collection, the scope and its continuity, intro
popups, the wallet's provenance, the limits of a visit and of a route, the program's policies, the
order of rewards, closing a receipt at the home page together with Shopping. Assumed: the operator
settles a row only when its own tap has landed or never will and no dispatch of it is going on; the
code asks for ten minutes since the tap, or the operator's word that the worker is stopped. A
refusal after `prepare` and before the status (`card_visit.py:654-655`) is for a cancellation
accepted in between, which has to wait for the lock; only a commit that fails ends a tap there. Noted while
modelling: `operator_reconcile` settles the row of a Cards purchase but nothing then ends its
operation, and a crash after `prepare` and before the dispatch has the same end; a lost toggle
leaves an unverified step that nothing releases; a loadout left at the home page
does not open the Cards page again by itself.

`ImplementsGate` is the gate of the journal once more, over the purchases:
`inside` is the purchase whose row is open, `done` those whose row is resolved, `books` the
price where the debit is booked. The commits that `_tap_view` and a receipt are cut into
all map to its steps or to stutters.

### RerollRuns

`runs` and `pool` are the two files, `op` the background operation of `fleet/setup.py` with the
place it has reached, `worker` per emulator the process, the supervisor's record and the
operator's wish, `mon` the starts in progress and the monitor's reading of the members. An
operation's validation, its minutes of pausing (`Leaving`, one member at a time), the write of
the pool and the write of the runs are separate steps. The monitor's start forgoes three refusals
(the record changed, no capacity, the process gone), so the model starts more than the code.
`_load` repairs the runs whenever it reads
them and nobody is busy. `Crash` is the dashboard's death anywhere: files and workers
stay. The host's evidence is a choice: additions may be refused, exits may stay unproven.

`seen.doubted` names the emulators whose exit was never really seen: a status that failed to be
read (see `reroll_proof` below), or a start whose pid a crash kept from the record. `LeftMeansStopped`
speaks of the others. Left out: builds of a member (`reroll_variants.py`), the progress shown.

## Runs

| Run | Bounds | What it explores |
|---|---|---|
| `journal` | 2 intents of one currency (a lab start and a workshop row that an older version may have left unscoped, open or acted, held or not), 2 workers, wallets {none, 1, 3}, 2 scopes, clock 0..2, `MaxAge` 1 | races of preparation and claim, crashes, late evidence, rebinding, timeouts, operators |
| `budget_spend` | 2 services of 2 workers, 3 requests (2 of one incident), quotes and charges {1,2}, 2 days, no editors | money and POSTs |
| `budget_editors` | 1 service, 3 requests of one incident, 2 editors, 3 proposals (one above the hard limits), 2 documents | saves against each other and against requests in flight |
| `episodes` | 2 incidents, 2 actions each, 3 scopes, clock 0..1, cooldown 1 | the whole store and coordinator; liveness |
| `lifecycle` | 3 processes, 3 generations, 1 coordinator restart, 1 recovery restart | start, stop, recover, rotate, with crashes everywhere |
| `worker_exit` | 2 processes, 3 generations | liveness of a stop |
| `device_input` | 2 looks of a frame, fresh for 1 tick, no effect after 2, 2 attempts | the gate, safety and liveness |
| `tournament` | 2 events, opening cash 3 at price 2, 2 runs, 2 faults | crashes, lost taps, hands, restarts of the game around one entry and the next |
| `cards` | 2 purchases and a loadout (2 operations at a time in one history), cap of one card, 2 cycles, 1 fault | requests, cancellations and every commit of a tap or settlement |
| `reroll` | 2 emulators, 2 runs, 2 worker starts, 1 fault | operations, repairs, hiding and the monitor |
| `reroll_proof`, `cards_finish` | as above, smaller | expected violations, see below |

What they show, property by property:

- `journal`: `ReadingsCoverTaps` (a wallet reading older than a tap is in the store only while
  that tap's hold is deducted from it), `BookedExactlyWhatWasProven`, and the refinement
  `ImplementsGate`, which contains that one intent is open, tapped at most once, and settled
  once.
- `budget_spend`: `OnePost`, `MoneyIsBounded` (money really charged stays under the hard limits
  as long as nobody was charged more than quoted). `budget_editors`:
  `EditorsReplaceWhatTheyReviewed`, `OverchargeStopsSpending`.
- `episodes`: `DoubtBlocks`, `RecordedTruly`, the refinement `ImplementsRecord`, which adds that
  an outcome once known stays and that nothing is sent after something was said, and
  `LaneIsReturned`.
- `lifecycle`: `FencedStaysFenced`, `RestartStaysPossible`, `OneRecordedWorker`, `PauseHolds`;
  `worker_exit`: `SignalledWorkerExits`.
- `device_input`: `OneInputPerAnswer`, `UnansweredIsOnDisk` and the liveness property
  `AnswersCome`.
- `tournament`: `OneEntryTap`, `EntryLinesAreTickets`, `ResultsStand`, `OpeningHolds`,
  `FarmRunsStayFarm`, and `EntriesAreSettled` under fairness.
- `cards`: `CapHolds`, `CyclesStartClean`, `BookedTruly`, `CanceledTakesNoInput`,
  `ToggleLandsAsClaimed`, the refinement `ImplementsGate`, and under fairness
  `CardsLetGo` and `ReceiptSettles`.
- `reroll`: `LeftMeansStopped`, `ClosedRunsAreFinal`, `HideIsNotLost`, and `RunsFollowThePool` under
  fairness.

`lifecycle`, `tournament` and `reroll` also check their `TypeOK`. Properties that are proved for
every instance and say less than those above are not run in TLC (see [Proofs](#proofs)).

### Why the bounds are enough to be interesting

- *Journal.* With two workers and two intents every pair of operations on the same row meets, and
  on different rows every pair in which one row is older: only one of the two intents is new,
  and two new ones that race are left to the theorems. Wallets 1 and 3 with prices 1 and 2 give the exact debit, another debit, none
  and a wallet that does not cover. With a clock of three values each age comparison
  (`MaxAge`, `SettleTime`, `Recent`, `Patience`) has both outcomes. Workers are symmetric.
- *Budget.* The hard limits are set to what two or three requests reach, so every ceiling
  refuses some request in some state. Requests of one incident are symmetric.
- *Episodes.* A second incident is needed for cooldown and `DoubtBlocks`, a second action for the
  retry; three scopes let a scope change before and after a tap.
- *Lifecycle.* Three processes: one fenced, its replacement, and the replacement's.
  Three generations: the first, and two rotations or restarts.
- *Tournament.* Two events, so that the attempt of one meets the day of the next; a budget that
  one purchase leaves open and a second would exceed; two faults, so that a crash may be followed by a lost
  tap or a second crash.
- *Cards.* A cap of one card makes the second purchase of a cycle the forbidden one; two cycles
  renew it once. A loadout that swaps one card takes two toggles, one to remove and one to add.
- *Reroll.* Two emulators let one leave while the other stays; two starts give the operator's
  and the monitor's. One of them can be hidden: the other would only rename.
- *Device.* Two looks tell "changed" from "unchanged"; more only rename.

### Deadlock and fairness

Deadlock is checked in the `DeviceInput` runs. The others set
`CHECK_DEADLOCK FALSE`: `Journal` and `RecoveryBudget` end when every intent or request has been
used, `RecoveryEpisodes` when the bound on incidents is reached, `WorkerLifecycle` when the
bounds on processes and generations are, `Tournament`, `Cards` and `RerollRuns` when the calendar,
the operations or the runs are used up and nobody asks for anything.

- `RecoveryEpisodes!FairSpec`: weak fairness of the storage thread's command (`Run`: a
  thread that has nothing else to do) and of `Scan` (the loop calls `step` on every
  scan, and its phases have deadlines). Nothing is assumed of taps, scopes, operators, failures or restarts.
  A worker whose gate is not ready waits in the phase "dispatch"; that the gate
  becomes ready or the scope changes is the device's part.
- `WorkerLifecycle!FairSpec`: weak fairness of the steps of each procedure (they are
  straight-line code); strong fairness for the exit of a signalled process and for a
  start of the loop that waits for the worker's lock (blocking `flock` and mutex: whoever
  waits gets it in the end). Nobody owes a request, an input, a crash.
- `DeviceInput!FairSpec`: weak fairness of the loop's own steps and of time; strong
  fairness for `Enter` and `Connected` (a device that can be reached again and again is reached
  once) and for clear frames read in time.
- `Tournament!FairSpec`: weak fairness of the scan, of a decided tap, of the end of a run and of
  the start of a dead process. Nobody owes a hand, a day or a purchase; a lost OK tap excuses
  `EntriesAreSettled`.
- `Cards!FairSpec`: weak fairness of scheduling (every scan calls it, and sessions time out) and of
  a commit sequence begun under the lock; strong fairness of what a session reads on the page, for
  visits come and go and one of them reads it.
- `RerollRuns!FairSpec`: weak fairness of reading the dashboard, of the operation's thread and of the
  wait for a leaving worker, which has a deadline.

## Proofs

12,389 obligations in eight modules, all proved by `tlapm` with Z3, Zenon and LS4, from the named
`ASSUME`s on the constants alone. These say that bounds are natural numbers, that sets of ids
are finite and apart from each other, and how the timeouts compare; `Cards` also says that the model
value `None` is nobody's id (`IdsAreNotNone`).

Every safety invariant, every action property and all three refinements that a run checks are theorems.

**Journal_proofs.** The properties are not inductive by themselves: that a tap is the only one
(`AtMostOneTap`) rests on its worker owning the acted row alone, which rests on a row not
being reopened. The invariant `IInv` therefore adds to the checked invariants
`RowsConsistent` (what a stage implies about tap, scope and clock), `ClaimsExclusive` (a worker
between claim and tap owns an acted row whose tap is due within `DispatchBound`, and shares it
with nobody) and `LegacyReadingsFresh`. Every way to settle a row is first reduced to one of
a few shapes (`SettleShapes`), so that each conjunct is shown once per shape and not once per
evidence. `ClaimedRowsStayOpen` is where the assumption on `DispatchBound` is used.
Theorems: `TypeCorrect`, `InvariantHolds`, `OneOpenIntentHolds`, `HoldsHold`, `OneTapHolds`,
`CoverageHolds`, `BooksHold`, `SettledHolds`, `TapsHold`, and `ScopedReadingsHold` (every
stored wallet reading belongs to the bound scope), which is proved only.
`GateImplemented` is `Spec => ImplementsGate`: `IInv` makes the `CHOOSE` of `OpenIntent` a unique
value; each action then maps to `Enter`, `Tap`, `Leave` or a stutter.

**RecoveryBudget_proofs.** `Consistent` (types and `RowsConsistent`: a row in flight is owned by one
service, which knows how far it went; rows nobody owns say enough about their POSTs).
Theorems: `BudgetTypeCorrect`, `ConsistentHolds`, `OnePostHolds`, `PostedIsChargedHolds`,
`OverchargeStops`, `DaysClose`, `CallsBoundHolds`, `NoLostEdits`, `MoneyIsBoundedHolds`. The last one
rests on `MoneyCommitted`: the rows know what was charged (nothing before a POST, the receipt's cost
after it), and while nobody was charged more than quoted, the prices of an incident's rows and of a
day's rows stay under the hard ceilings. It is about sums over sets. The
few laws of those sums it needs (`SumEquation`, `SumRemove`, `SumCovers`) are proved by a smallest
counterexample, for which the well-foundedness of `Nat` is enough, where the library's induction
would take an operator as a parameter.

**DeviceInput_proofs.** `IInv` adds `PendingInv` (memory, disk and the unanswered input name the
same frame wherever the thread is), `VerifiedInv`, `QuarantineInv` and `TriesInv`.
Theorems: `TypeCorrect`, `GateHolds`, `WriteAhead`, `BoundedRetries`, `VerifiedInputs`,
`DurableQuarantine`; they hold with and without a host adapter (`Hosted`), where the runs
take a hosted worker.

**RerollRuns_proofs.** What a step does to the runs' file is settled first (`FileStep`: it stays a
file of runs with at most the last one active, and closed runs stay as they were), one lemma per
edit (`LoadedIs`, `WithLeftIs`, `RunOpenedIs`, ...). `LeftMeansStopped` rests on `WorkerInv`: whoever is
out of the pool, or proven out by the operation, is `Kept` - not starting, and paused if its record says that it
runs or is stopping - so a monitor that read the members before cannot start it; and a record that
says "starting" with nobody starting it belongs to a doubted name. `OpInv` closes the gap at the pool's write:
everybody in the pool is kept, leaving, out or failed, so nobody is dropped who was not proven.
Theorems: `TypeCorrect`, `LeaversAreStopped`, `ClosedRunsStay`, `HidingSurvives`.

**RecoveryEpisodes_proofs.** `IInv` has three parts. `Truth` is what the store says: `StoreInv`
(only the latest incident is open), `DoubtBlocks`, `RecordedTruly`. `Coordination` is what the two threads
may rely on: one command or reply at a time, and only where a phase waits for it (`SlotInv`); what
a waiting command is about (`CommandInv`) and what a reply says of the store (`ReplyInv`);
what the scan thread knows in each phase (`PhaseInv`: "dispatch" has an action on record in doubt
and not sent, "postcondition" one that was sent). Steps that leave the store and the taps alone
are shown together (`Quiet`); those of the storage thread one command at a time, each with its
three ends: done, failed before the write, failed after it.
Theorems: `Invariance`, `TypeCorrect`, `DoubtBlocksHolds`, `RecordedTrulyHolds`,
`SettledStaysHolds` (an outcome that ends the doubt is never rewritten), `RecordImplemented`.

**WorkerLifecycle_proofs.** The checked invariants speak of who is fenced; why it stays so is
`LinkInv` (without a marker the lease names the recorded generation and the registration is at it
or one step ahead) with `GenInv` (generations are minted before they are used, so that a fresh one was
never fenced) and `RecordInv` (whoever lives and was ever on record is on it now). In the middle
of a procedure `LinkInv` is broken or owed, so `StartInv`, `RotateInv` and `PidInv` say for each step
what has been written and what has not. Processes that act by themselves are one lemma
(`Works`); each write of the supervisor, the monitor and the rotation has its own.
Theorems: `Invariance`, `TypeCorrect`, `FencedStaysFencedHolds`, `RestartStaysPossibleHolds`,
`OneRecordedWorkerHolds`, `PauseHoldsHolds`.

**Tournament_proofs.** `RowInv` (one attempt is pending, one that never began has no history),
`TapInv` (an entry tap still to come is the first of its attempt), `LineInv` (the tickets taken
cover the entry lines, with one to spare while an unproven entry is on its HUD), `FarmInv` (a played
attempt is on its screens unless somebody took it off them), `BuyInv` and `CashInv` (the
opening's cursor knows all the cash that was spent but what is in flight or was given up). `FlagInv`
follows the run counter and `_run_tournament`: while the flag is up, the open run is a tournament's
or somebody strayed or glimpsed.
Theorems: `Invariance`, `TypeCorrect`, `OneEntryTapHolds`, `EntryLinesAreTicketsHolds`,
`OpeningStaysInBudget`, `FarmRunsStayFarmHolds`, `ResultsStandHolds`.

**Cards_proofs.** `Money` ties the operation to its row and to the game: one purchase is in play, what
the game took has a row that does not deny it, one that is over has the outcome the game saw. `TapInv` is what the
runtime's lock holds still between two commits; it is where a cancellation, a crash or an
operator in between would show. From the status "dispatched" to the toggle's tap it says that no
other toggle is on its way (`NoToggleComes`). `StepInv` is the same for toggles: one that is on its way finds
the equipment its claim was read from. `CapInv` counts every cycle, not the open one only. Most
actions only wander about, mark an operation or end one; `Kinds` reduces
them to that, and a lemma per kind and per commit that is left shows the invariant.
Theorems: `Invariance`, `TypeCorrect`, `CapHoldsHolds`, `BookedTrulyHolds`,
`CyclesStartCleanHolds`, `CanceledTakesNoInputHolds`, `ToggleLandsAsClaimedHolds`, and
`GateImplemented`, with an invariant of its own (`GateInv`: a purchase is tapped once,
after its row was recorded and before it is settled, and booked when it is settled or never).

The following hold for every instance by these theorems and are not run in TLC any more: of `Journal` `TypeOK`,
`OneOpenIntent`, `HoldsMatchOpenIntents`, `AtMostOneTap`, `SettledNeverRewritten`,
`TapsOnlyUnderClaim`; of `RecoveryBudget` `TypeOK`, `PostedIsCharged`, `DaysCloseForGood`,
`CallsAreBounded`; of `RecoveryEpisodes` and of `Cards` `TypeOK`; of `DeviceInput` `TypeOK`,
`RetriesAreBounded`, `InputsAreVerified`,
`QuarantineIsDurable`.

Only model-checked: the seven liveness properties (`LaneIsReturned`, `SignalledWorkerExits`,
`AnswersCome`, `EntriesAreSettled`, `CardsLetGo`, `ReceiptSettles`, `RunsFollowThePool`), for fairness
is out of the prover's reach.

## Where code and text disagree

Two runs are expected to find a violation; each states what a comment says.

- `reroll_proof`. `reroll_retirement.py:9-10` calls the states it takes for an exit those "in which
  no worker process can be playing this emulator". A status that could not be read is reported as
  "failed", which is one of them: after a probe that timed out the member leaves the
  pool with its bot running.
- `cards_finish`. `card_visit.py` says of the next attempt on a loadout that "a crash may have
  persisted verification without finalizing the operation". The proof is written once, before
  the status, and the next attempt offers another snapshot, which the store refuses: after a
  crash between the two the loadout is never confirmed.

Seen while modelling, without a run of their own:

- `recovery_coordinator.py:853`: after its own tap the coordinator adopts the scope with the
  advanced command generation without rebinding the incident, so the retry after a tap
  without effect is denied; `recovery_episodes.py:10-11` says that a scope change "requires
  explicit CAS rebind".
- `worker_generation.py:46` says an interrupted transition leaves "a durable marker and a revoked
  lease". The marker is written before the lease is revoked and removed after it is handed
  over; a crash in either gap leaves a marker with a current lease. The marker alone still blocks
  every launch.
- `supervisor.py:23-24` calls the no-effect timeout "long enough for any animation or load to
  show"; it runs from before the input is written and sent.
- The tournament design (`docs/superpowers/specs/2026-09-30-tournament-play-design.md:140-141`)
  recovers the leaderboard after a run; `tournament_visit.py:131` only waits when the
  attempt is still playing there.
- `tower_bot.py:694-701`: a tournament HUD that is seen but not confirmed by the next scan raises
  `_run_tournament` with no run open, and leaving it again does not lower the flag (the statistics
  page clears it only for a run it ends). The next farm run is told as a tournament's when it ends
  (`tower_bot.py:2665`): its result goes to `store.result`, which finds no attempt to write, and its
  best wave and ladder are skipped.
- `reroll_runs.py:298`: "stopped bots stay recorded"; a failed write of the pool leaves them in the
  pool, and the next repair takes them back into the run.

## Not modelled

Listed with reasons in `PROJECT.json`. In short: vision, OCR and navigation (the models take any
reading); route and strategy evaluation (pure functions of documents, covered by unit tests);
dashboard, streaming, reports and tools (views; the writes behind them are the operator's
actions here); event bus and sinks (drop by design, nothing that matters goes through them);
first launch and clones (emulator and macOS host commands); HTTP, image and document
validation of the recovery provider; the navigation inside visits. Of the 6,800 lines of
`tower_bot.py` and `shopping.py` only the calls into the gate, the lifecycle, the tournament
and the journal are. Most of the repository's lines are of these kinds, which is why the map covers a
small part of them and nearly all of the code that commits, fences, retries or recovers
something durable.

## Plan

Modelled, in the order it was planned: journal and gate, budget, episodes, lifecycle,
device input, reroll runs, tournament, cards. Left, most important first:

1. `RecoveryFence`: the epoch that tells a background count of open rows that it is stale
   (`transactions.py:52-70, 257-278`); extends `Journal`.
2. Abstract specifications: `InputLease` as a token that at most one living process may
   use, implemented by `WorkerLifecycle`; an at-most-once channel, implemented by
   `DeviceInput` and by the entry tap of `Tournament`.
3. `RoutePublication` (a pending draw, `build_route_runtime.py:222`), `MissionClaims` (prepared
   claims across archives, `notification_state.py:104`), `PushRuns`: phase machines with a
   file and a crash.
4. The other operations of `Cards` and of the tournament's combat.
