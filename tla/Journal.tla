------------------------------ MODULE Journal ------------------------------
(***************************************************************************)
(* transactions.TransactionJournal and currencies.CurrencyRepository: the  *)
(* account database behind every paid tap.  One row per intent, one        *)
(* currency commitment per scoped intent, one stored wallet reading per    *)
(* currency, the bound fact scope and the ledger debits.                   *)
(*                                                                         *)
(* Each method is one BEGIN IMMEDIATE transaction and therefore one        *)
(* action.  Its arguments (a wallet reading, evidence, a verdict) are any  *)
(* the method accepts: the module says what the journal guarantees to      *)
(* callers it does not trust.  Workers are the processes that prepare,     *)
(* claim and dispatch; they crash and lose everything but the database.    *)
(*                                                                         *)
(* The outcome column of a row still open and the visit receipts in detail *)
(* are left out: no guard here reads them.                                 *)
(***************************************************************************)
EXTENDS Judge, Functions

CONSTANTS
  Keys,            \* intents (transactions.key)
  LegacyKeys,      \* rows written before scopes existed, found in the database
  Workers,         \* processes that may spend
  Operation,       \* operation of an intent
  Price,           \* price of an intent
  Amounts,         \* wallet readings considered
  Reserve,         \* balance a spend may not cross (prepare's reserve)
  MaxScope,        \* bound: how often the verified scope is rebound
  MaxTime,         \* bound: clock
  MaxAge,          \* oldest usable reading (30 s)
  SettleTime,      \* UNLANDED_SETTLE_SECONDS
  Recent,          \* OPERATOR_RECENT_SECONDS
  Patience,        \* RECOVERY_TIMEOUT_SECONDS: callers close no row sooner
  DispatchBound,   \* longest time between the claim and its tap
  Nobody           \* "no intent" for a worker that holds none

Operations == {"workshop_buy", "card_buy", "card_slot_buy", "lab_start", "lab_unlock"}
Cards      == {"card_buy", "card_slot_buy"}
Currencies == {"coins", "gems"}
Scopes     == 1..MaxScope
NoScope    == 0
Never      == -1            \* acted_at is NULL
Readings   == Amounts \cup {Unknown}
NoReading  == [lower |-> Unknown, at |-> 0, scope |-> NoScope]

ASSUME ConstantsAssumption ==
  /\ LegacyKeys \subseteq Keys
  /\ Operation \in [Keys -> Operations]
  /\ Price \in [Keys -> Nat]
  /\ Amounts \subseteq Nat
  /\ Reserve \in Nat
  /\ MaxScope \in Nat /\ MaxTime \in Nat /\ MaxAge \in Nat
  /\ SettleTime \in Nat /\ Recent \in Nat /\ Patience \in Nat /\ DispatchBound \in Nat
  /\ DispatchBound < SettleTime /\ DispatchBound < Recent /\ DispatchBound < Patience
  /\ Nobody \notin Keys

VARIABLES
  now,        \* the clock every caller reads
  \* transactions
  stage, outcome, spent, scopeOf, ts, actedAt, before,
  inspected,  \* detail.inspected_at is set
  settledBy,  \* what closed the row: detail.reason and the audit table
  \* currency_commitments, currency_observations, fact_scope
  held, reading, scope,
  booked,     \* ledger: debit written for the intent
  \* callers
  phase, holding,
  sent        \* taps dispatched for the intent

rowVars    == <<stage, outcome, spent, scopeOf, ts, actedAt, before,
                inspected, settledBy>>
moneyVars  == <<held, reading, booked>>
callerVars == <<phase, holding, sent>>
vars       == <<now, rowVars, moneyVars, scope, callerVars>>

CurrencyOf(k) == IF Operation[k] \in {"workshop_buy", "lab_start"} THEN "coins" ELSE "gems"
Open(k)   == stage[k] \in {"intended", "acted"}
Scoped(k) == scopeOf[k] # NoScope

Committed(c) ==
  FoldFunctionOnSet(LAMBDA x, y : x + y, 0, Price, {k \in Keys : held[k] /\ CurrencyOf(k) = c})
----------------------------------------------------------------------------
(* A legacy row may be open when this code first opens the database; its   *)
(* reservation, if any, is still there.                                    *)
Init ==
  /\ now = 0
  /\ \E left \in LegacyKeys \cup {Nobody}, acted, hold \in BOOLEAN, a \in Amounts :
       /\ stage   = [k \in Keys |-> IF k # left THEN "none"
                                    ELSE IF acted THEN "acted" ELSE "intended"]
       /\ actedAt = [k \in Keys |-> IF k = left /\ acted THEN 0 ELSE Never]
       /\ sent    = [k \in Keys |-> IF k = left /\ acted THEN 1 ELSE 0]
       /\ held    = [k \in Keys |-> k = left /\ hold]
       /\ before  = [k \in Keys |-> IF k = left THEN a ELSE Unknown]
  /\ outcome   = [k \in Keys |-> "none"]
  /\ spent     = [k \in Keys |-> Unknown]
  /\ scopeOf   = [k \in Keys |-> NoScope]
  /\ ts        = [k \in Keys |-> 0]
  /\ inspected = [k \in Keys |-> FALSE]
  /\ settledBy = [k \in Keys |-> "nobody"]
  /\ reading   = [c \in Currencies |-> NoReading]
  /\ booked    = [k \in Keys |-> 0]
  /\ scope     = NoScope
  /\ phase     = [w \in Workers |-> "idle"]
  /\ holding   = [w \in Workers |-> Nobody]

\* A claimed tap goes out, or its worker dies, within DispatchBound.
Tick ==
  /\ now < MaxTime
  /\ \A w \in Workers : phase[w] = "claimed" => now < actedAt[holding[w]] + DispatchBound
  /\ now' = now + 1
  /\ UNCHANGED <<rowVars, moneyVars, scope, callerVars>>

\* CurrencyRepository.bind_scope: a changed scope discards every stored
\* reading and keeps the commitments.  Epochs never move backwards.
DiscardReadings == reading' = [c \in Currencies |-> NoReading]

BindScope(s) ==
  /\ s > scope
  /\ scope' = s
  /\ DiscardReadings
  /\ UNCHANGED <<now, rowVars, held, booked, callerVars>>

\* No row of the currency was claimed at or after the reading was taken.
Undisturbed(c, at) == \A k \in Keys : CurrencyOf(k) = c => actedAt[k] < at

\* CurrencyRepository.observe
Observe(c, lower, at, s) ==
  /\ s = scope
  /\ Undisturbed(c, at)
  /\ reading[c].at <= at
  /\ reading' = [reading EXCEPT ![c] = [lower |-> lower, at |-> at, scope |-> s]]
  /\ UNCHANGED <<now, rowVars, held, booked, scope, callerVars>>

\* CurrencyRepository.release of a purchase: an open scoped intent keeps its hold.
Release(k) ==
  /\ ~(Open(k) /\ Scoped(k))
  /\ held[k]
  /\ held' = [held EXCEPT ![k] = FALSE]
  /\ UNCHANGED <<now, rowVars, reading, booked, scope, callerVars>>
----------------------------------------------------------------------------
(* The owner of a spend: prepare, record_action, dispatch.                 *)

\* The pending check of prepare; without it, only the same key is refused.
NothingPending == \A j \in Keys : ~Open(j)

\* prepare, new intent: reserve, record and store the reading under one lock.
Prepare(w, k, lower, at, s) ==
  /\ phase[w] = "idle"
  /\ k \notin LegacyKeys
  /\ s = scope /\ s # NoScope
  /\ now - at <= MaxAge
  /\ stage[k] = "none"
  /\ NothingPending
  /\ Undisturbed(CurrencyOf(k), at)
  /\ lower >= Price[k] + Reserve + Committed(CurrencyOf(k))
  /\ held' = [held EXCEPT ![k] = TRUE]
  /\ stage' = [stage EXCEPT ![k] = "intended"]
  /\ scopeOf' = [scopeOf EXCEPT ![k] = s]
  /\ ts' = [ts EXCEPT ![k] = now]
  /\ before' = [before EXCEPT ![k] = lower]
  /\ reading' = [reading EXCEPT ![CurrencyOf(k)] = [lower |-> lower, at |-> at, scope |-> s]]
  /\ phase' = [phase EXCEPT ![w] = "prepared"]
  /\ holding' = [holding EXCEPT ![w] = k]
  /\ UNCHANGED <<now, outcome, spent, actedAt, inspected, settledBy,
                 booked, scope, sent>>

\* prepare, intent already on disk: it is handed back, whatever its stage.
PrepareAgain(w, k, s) ==
  /\ phase[w] = "idle"
  /\ s = scope
  /\ stage[k] # "none" /\ Scoped(k) /\ scopeOf[k] = s
  /\ phase' = [phase EXCEPT ![w] = "prepared"]
  /\ holding' = [holding EXCEPT ![w] = k]
  /\ UNCHANGED <<now, rowVars, moneyVars, scope, sent>>

\* The WHERE of record_action's compare-and-set.
Claimable(k) == stage[k] = "intended"

\* record_action: compare-and-set from intended, before any input.
RecordAction(w) ==
  LET k == holding[w] IN
  /\ phase[w] = "prepared"
  /\ Claimable(k)
  /\ stage' = [stage EXCEPT ![k] = "acted"]
  /\ actedAt' = [actedAt EXCEPT ![k] = now]
  /\ phase' = [phase EXCEPT ![w] = "claimed"]
  /\ UNCHANGED <<now, outcome, spent, scopeOf, ts, before, inspected, settledBy,
                 moneyVars, scope, holding, sent>>

\* record_action raises ActionAlreadyTaken; the worker sends nothing.
ActionAlreadyTaken(w) ==
  /\ phase[w] = "prepared"
  /\ ~Claimable(holding[w])
  /\ phase' = [phase EXCEPT ![w] = "idle"]
  /\ holding' = [holding EXCEPT ![w] = Nobody]
  /\ UNCHANGED <<now, rowVars, moneyVars, scope, sent>>

\* The one device tap, after the claim returned.
Dispatch(w) ==
  LET k == holding[w] IN
  /\ phase[w] = "claimed"
  /\ sent' = [sent EXCEPT ![k] = @ + 1]
  /\ phase' = [phase EXCEPT ![w] = "idle"]
  /\ holding' = [holding EXCEPT ![w] = Nobody]
  /\ UNCHANGED <<now, rowVars, moneyVars, scope>>

\* The process dies: everything but the database and the tap is gone.
Crash(w) ==
  /\ phase[w] # "idle"
  /\ phase' = [phase EXCEPT ![w] = "idle"]
  /\ holding' = [holding EXCEPT ![w] = Nobody]
  /\ UNCHANGED <<now, rowVars, moneyVars, scope, sent>>
----------------------------------------------------------------------------
(* Settling.                                                               *)

Close(k, o, by) ==
  /\ stage' = [stage EXCEPT ![k] = "resolved"]
  /\ outcome' = [outcome EXCEPT ![k] = o.verdict]
  /\ spent' = [spent EXCEPT ![k] = o.spent]
  /\ settledBy' = [settledBy EXCEPT ![k] = by]

ForgetMutant(c) == UNCHANGED reading
Forget(c) == reading' = [reading EXCEPT ![c] = NoReading]

Free(k) == held' = [held EXCEPT ![k] = FALSE]

\* cancel_before_input: the dispatch owner was refused between claim and tap.
\* The stored reading stays, for no tap went out.
CancelBeforeInput(w, s) ==
  LET k == holding[w] IN
  /\ phase[w] = "claimed"
  /\ phase' = [phase EXCEPT ![w] = "idle"]
  /\ holding' = [holding EXCEPT ![w] = Nobody]
  /\ IF s = scopeOf[k] /\ s = scope /\ Open(k)
       THEN Close(k, Refuted, "owner") /\ Free(k)
       ELSE UNCHANGED <<stage, outcome, spent, settledBy, held>>
  /\ UNCHANGED <<now, scopeOf, ts, actedAt, before, inspected, reading,
                 booked, scope, sent>>

Workshop(k) == Scoped(k) /\ Operation[k] = "workshop_buy"

\* RecoveryEvidence.  Evidence about another item, slot, page or currency, or
\* with no frame behind it, settles nothing: it is an "unread" effect here.
\* It carries the scope the row was written under or the one bound now; a
\* continuity between the two and what the row proves matter only where read.
Evidence(k) ==
  [wallet : Readings, effect : Effects, at : 0..now, scope : {scopeOf[k], scope},
   continuous : IF scopeOf[k] = scope THEN {FALSE} ELSE BOOLEAN,
   rowProves  : IF Workshop(k) THEN BOOLEAN ELSE {FALSE}]

\* Evidence of the intent's own scope, or of a later one that verified_continuity
\* traces back to it; unscoped evidence only for an unscoped row.
InScope(k, e) ==
  IF Scoped(k)
    THEN e.scope = scope /\ (e.scope = scopeOf[k] \/ (e.continuous /\ scopeOf[k] < e.scope))
    ELSE e.scope = NoScope

Boundary(k) == IF stage[k] = "acted" THEN actedAt[k] ELSE ts[k]

\* A fresh in-scope reading of the item, whether or not the wallet was legible.
Inspects(k, e, at) ==
  /\ InScope(k, e)
  /\ stage[k] = "acted" \/ Scoped(k)
  /\ Boundary(k) < e.at /\ e.at <= at /\ at - e.at <= MaxAge

\* What reconcile lets the judge look at.
Relevant(k, e, at) ==
  /\ Inspects(k, e, at)
  /\ before[k] # Unknown
  /\ \/ e.wallet # Unknown
     \/ Workshop(k) /\ e.rowProves /\ Price[k] > 0
  /\ Operation[k] \in Cards /\ Scoped(k) =>
       e.effect = "changed" /\ before[k] - e.wallet = Price[k]

Judged(k, e, at) ==
  Judge(Price[k], before[k], e.wallet,
        IF Relevant(k, e, at) THEN e.effect ELSE "unread", FALSE, Workshop(k), e.rowProves)

\* An intent never claimed, and an item and wallet that did not move.
Undispatched(k, e, at) ==
  /\ Relevant(k, e, at) /\ Scoped(k) /\ stage[k] = "intended"
  /\ e.effect = "unchanged" /\ e.wallet = before[k]

Proven(k, e, at) ==
  \/ /\ stage[k] = "acted"
     /\ LET o == Judged(k, e, at) IN o.verdict \in {"bought", "free"} /\ o.spent # Unknown
  \/ Undispatched(k, e, at)

\* The item itself was read, which lets close_unproven settle the row later.
Saw(k, e, at) ==
  /\ e.effect # "unread"
  /\ Relevant(k, e, at) \/ (Inspects(k, e, at) /\ Operation[k] = "workshop_buy")

\* The ledger line of the event: the amount the outcome proved, not the price.
DebitMutant(k, o) == Price[k]
Debit(k, o) == o.spent

\* reconcile of an open row (a resolved one is returned unchanged).  The
\* proof, the release of its hold and its ledger debit commit together;
\* anything less leaves the row open.
Reconcile(k, e, at) ==
  LET o == IF Undispatched(k, e, at) THEN Refuted ELSE Judged(k, e, at)
      proven == Proven(k, e, at)
  IN
  /\ Open(k)
  /\ \/ /\ proven
        /\ Close(k, o, "proof") /\ Free(k) /\ Forget(CurrencyOf(k))
        /\ booked' = [booked EXCEPT ![k] = @ + Debit(k, o)]
        /\ UNCHANGED inspected
     \/ /\ ~proven /\ Saw(k, e, at)
        /\ inspected' = [inspected EXCEPT ![k] = TRUE]
        /\ UNCHANGED <<stage, outcome, spent, settledBy, moneyVars>>
  /\ UNCHANGED <<now, scopeOf, ts, actedAt, before, scope, callerVars>>

\* resolve of a scoped row: reconcile with the caller's own scope, judged at
\* the time of the reading itself.
Resolve(k, e) == Scoped(k) /\ ~e.continuous /\ Reconcile(k, e, e.at)

\* _refute_unlanded, for either lab operation.
RefuteUnlanded(k, e) ==
  /\ Operation[k] \in {"lab_start", "lab_unlock"}
  /\ stage[k] = "acted" /\ Scoped(k)
  /\ e.scope = scopeOf[k] /\ e.scope = scope
  /\ e.effect = "unchanged" /\ e.wallet = before[k]
  /\ actedAt[k] + SettleTime <= e.at /\ e.at <= now /\ now - e.at <= MaxAge
  /\ Close(k, Refuted, "proof") /\ Free(k) /\ Forget(CurrencyOf(k))
  /\ UNCHANGED <<now, scopeOf, ts, actedAt, before, inspected, booked, scope, callerVars>>

\* A recent intent needs the operator's word that its worker is stopped.
WorkerGone(k, stopped) ==
  \/ stopped /\ \A w \in Workers : holding[w] # k
  \/ ~stopped /\ now - (IF actedAt[k] # Never THEN actedAt[k] ELSE ts[k]) >= Recent

\* Only an open row: settled outcomes are never rewritten.
Unsettled(k) == Open(k)

\* operator_reconcile, from another process.  worker_stopped is the
\* operator's word that no worker still holds the intent.
OperatorReconcile(k, verdict, stopped) ==
  /\ Unsettled(k)
  /\ WorkerGone(k, stopped)
  /\ Close(k, IF verdict = "not_charged" THEN Refuted ELSE Unproven, "operator")
  /\ Free(k) /\ Forget(CurrencyOf(k))
  /\ UNCHANGED <<now, scopeOf, ts, actedAt, before, inspected, booked,
                 scope, callerVars>>

\* close_unproven: a scoped row stays open until its item was seen after the
\* tap; a legacy row closes at once and releases nothing.
CloseUnproven(k) ==
  /\ Open(k)
  /\ Scoped(k) => inspected[k]
  /\ Close(k, Unproven, "timeout")
  /\ IF Scoped(k) THEN Free(k) /\ Forget(CurrencyOf(k)) ELSE UNCHANGED <<held, reading>>
  /\ UNCHANGED <<now, scopeOf, ts, actedAt, before, inspected, booked, scope, callerVars>>
----------------------------------------------------------------------------
Own(w) ==
  \/ \E k \in Keys, lower \in Amounts, at \in 0..now, s \in Scopes : Prepare(w, k, lower, at, s)
  \/ \E k \in Keys, s \in Scopes : PrepareAgain(w, k, s)
  \/ RecordAction(w)
  \/ ActionAlreadyTaken(w)
  \/ Dispatch(w)
  \/ \E s \in Scopes : CancelBeforeInput(w, s)
  \/ Crash(w)

\* No item changes before its tap.
Honest(k, e) == e.effect = "changed" => sent[k] > 0

SettleRow(k) ==
  \/ Open(k) /\ \E e \in Evidence(k) :
       Honest(k, e) /\ (Reconcile(k, e, now) \/ Resolve(k, e) \/ RefuteUnlanded(k, e))
  \/ \E v \in {"not_charged", "unproven"}, b \in BOOLEAN : OperatorReconcile(k, v, b)
  \/ now >= Boundary(k) + Patience /\ CloseUnproven(k)
  \/ Release(k)

Next ==
  \/ Tick
  \/ \E s \in Scopes : BindScope(s)
  \/ \E k \in Keys, lower \in Amounts, at \in 0..now, s \in Scopes :
       Observe(CurrencyOf(k), lower, at, s)
  \/ \E w \in Workers : Own(w)
  \/ \E k \in Keys : SettleRow(k)

Spec == Init /\ [][Next]_vars
----------------------------------------------------------------------------
TypeOK ==
  /\ now \in Nat /\ scope \in Nat
  /\ stage \in [Keys -> {"none", "intended", "acted", "resolved"}]
  /\ outcome \in [Keys -> Verdicts \cup {"none"}]
  /\ spent \in [Keys -> Nat \cup {Unknown}]
  /\ scopeOf \in [Keys -> Nat] /\ ts \in [Keys -> Nat]
  /\ actedAt \in [Keys -> Nat \cup {Never}]
  /\ before \in [Keys -> Readings]
  /\ inspected \in [Keys -> BOOLEAN]
  /\ settledBy \in [Keys -> {"nobody", "owner", "proof", "operator", "timeout"}]
  /\ held \in [Keys -> BOOLEAN]
  /\ reading \in [Currencies -> [lower : Readings, at : Nat, scope : Nat]]
  /\ booked \in [Keys -> Nat]
  /\ phase \in [Workers -> {"idle", "prepared", "claimed"}]
  /\ holding \in [Workers -> Keys \cup {Nobody}]
  /\ \A w \in Workers : phase[w] # "idle" => holding[w] \in Keys
  /\ sent \in [Keys -> Nat]

\* Rows: what each stage of a row implies about its tap, scope and clock.
RowsConsistent ==
  \A k \in Keys :
    /\ actedAt[k] <= now /\ ts[k] <= now
    /\ stage[k] \in {"none", "intended"} => actedAt[k] = Never
    /\ stage[k] = "acted" => actedAt[k] # Never
    /\ sent[k] > 0 => actedAt[k] # Never
    /\ Scoped(k) <=> stage[k] # "none" /\ k \notin LegacyKeys

\* Claims: a worker between its claim and its tap owns an acted row whose tap
\* is still due, and shares it with nobody.
ClaimsExclusive ==
  /\ \A w \in Workers :
       /\ phase[w] = "idle" <=> holding[w] = Nobody
       /\ phase[w] # "idle" => Scoped(holding[w])
       /\ phase[w] = "claimed" =>
            /\ stage[holding[w]] = "acted" /\ sent[holding[w]] = 0
            /\ now <= actedAt[holding[w]] + DispatchBound
  /\ \A v, w \in Workers :
       phase[v] = "claimed" /\ phase[w] = "claimed" /\ holding[v] = holding[w] => v = w

\* prepare refuses while any row is unanswered, so however many workers race
\* and crash, at most one attempt is ever open.
OneOpenIntent == \A j, k \in Keys : Open(j) /\ Open(k) => j = k

\* A commitment outlives a crash exactly as long as its intent is open: none
\* is leaked by a settlement and none is released under an open intent.
HoldsMatchOpenIntents == \A k \in Keys \ LegacyKeys : held[k] <=> Open(k)

\* record_action: one transaction is one tap, whichever workers replay it.
AtMostOneTap == \A k \in Keys : sent[k] <= 1

\* A reading that some tap has since made stale can only be in the store while
\* the hold of that tap is still deducted from it.
ReadingsCoverTaps ==
  \A k \in Keys :
    LET r == reading[CurrencyOf(k)] IN
    sent[k] > 0 /\ r # NoReading /\ r.at <= actedAt[k] => held[k]

\* bind_scope discards every reading, observe and prepare refuse another scope:
\* no wallet of a former identity can be spent from.
StoredReadingsAreInScope ==
  \A c \in Currencies : reading[c] # NoReading => reading[c].scope = scope

\* reconcile writes the ledger debit with the proof and with nothing else: a
\* row that proves no spend has none, however often it is reconciled.
BookedExactlyWhatWasProven ==
  \A k \in Keys :
    booked[k] = IF stage[k] = "resolved" /\ settledBy[k] = "proof" THEN spent[k] ELSE 0

\* A settled outcome is never rewritten, by any later proof, timeout or operator.
SettledNeverRewritten ==
  [][\A k \in Keys : stage[k] = "resolved" =>
       <<stage[k], outcome[k], spent[k], settledBy[k], booked[k]>>'
         = <<stage[k], outcome[k], spent[k], settledBy[k], booked[k]>>]_vars

\* A tap goes out only under its own claimed, still open row and while no
\* other attempt is open: nobody settles an intent its owner may still send.
TapsOnlyUnderClaim ==
  [][\A k \in Keys : sent'[k] # sent[k] =>
       stage[k] = "acted" /\ \A j \in Keys \ {k} : ~Open(j)]_vars

\* What all of this is for: seen from the game account, the journal is a gate
\* that attempts pass one at a time, each with at most one tap and one debit.
OpenIntents == {k \in Keys : Open(k)}
OpenIntent  == IF OpenIntents = {} THEN Nobody ELSE CHOOSE k \in OpenIntents : TRUE
Settled     == {k \in Keys : stage[k] = "resolved"}

Gate == INSTANCE SpendGate WITH Left <- LegacyKeys, inside <- OpenIntent, done <- Settled,
                                taps <- sent, books <- booked
ImplementsGate == Gate!Spec
=============================================================================
