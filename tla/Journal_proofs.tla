--------------------------- MODULE Journal_proofs ---------------------------
(***************************************************************************)
(* Proofs about Journal for any sets of intents and workers and any bounds *)
(* that satisfy ConstantsAssumption.                                       *)
(***************************************************************************)
EXTENDS Journal, TLAPS

(* What the judge returns is typed, it never sees a purchase in an item    *)
(* that was not read to have changed, and a spend it can size is the price *)
(* or nothing.                                                             *)
LEMMA JudgeReturns ==
  ASSUME NEW price \in Nat, NEW b, NEW a, NEW effect \in Effects,
         NEW c, NEW ws, NEW rp
  PROVE  LET o == Judge(price, b, a, effect, c, ws, rp) IN
         /\ o.verdict \in Verdicts
         /\ o.spent \in Nat \cup {Unknown}
         /\ o.verdict \in {"bought", "free"} => effect = "changed"
         /\ o.spent \in {0, price, Unknown}
BY DEF Judge, Outcome, Unproven, Refuted, Verdicts, Unknown, Effects

LEMMA JudgedReturns ==
  ASSUME TypeOK, NEW k \in Keys, NEW e \in Evidence(k), NEW at
  PROVE  /\ Judged(k, e, at).verdict \in Verdicts
         /\ Judged(k, e, at).spent \in Nat \cup {Unknown}
         /\ Judged(k, e, at).verdict \in {"bought", "free"} => e.effect = "changed"
         /\ Judged(k, e, at).spent \in {0, Price[k], Unknown}
<1> DEFINE seen == IF Relevant(k, e, at) THEN e.effect ELSE "unread"
<1>1. e.effect \in Effects
  BY DEF Evidence
<1>2. seen \in Effects /\ (seen = "changed" => e.effect = "changed")
  BY <1>1 DEF Effects
<1>3. Price[k] \in Nat
  BY ConstantsAssumption
<1> QED
  BY <1>2, <1>3, JudgeReturns DEF Judged

(* Every reachable journal is well typed, whatever evidence settles its     *)
(* rows (transactions.py).                                                 *)
THEOREM TypeCorrect == Spec => []TypeOK
<1>1. Init => TypeOK
  BY ConstantsAssumption DEF Init, TypeOK, Readings, NoReading, Currencies, Unknown, Never, NoScope
<1>2. TypeOK /\ [Next]_vars => TypeOK'
  <2> SUFFICES ASSUME TypeOK, [Next]_vars PROVE TypeOK'
    OBVIOUS
  <2> USE ConstantsAssumption
  <2>1. CASE Tick
    BY <2>1 DEF Tick, TypeOK, rowVars, moneyVars, callerVars
  <2>2. ASSUME NEW s \in Scopes, BindScope(s) PROVE TypeOK'
    BY <2>2 DEF BindScope, DiscardReadings, TypeOK, rowVars, callerVars, Scopes, NoReading, Readings, Currencies, Unknown, NoScope
  <2>3. ASSUME NEW k \in Keys, NEW lower \in Amounts, NEW at \in 0..now, NEW s \in Scopes,
               Observe(CurrencyOf(k), lower, at, s)
        PROVE  TypeOK'
    BY <2>3 DEF Observe, TypeOK, rowVars, callerVars, Scopes, Readings, Currencies, CurrencyOf
  <2>4. ASSUME NEW w \in Workers, Own(w) PROVE TypeOK'
    <3>1. ASSUME NEW k \in Keys, NEW lower \in Amounts, NEW at \in 0..now, NEW s \in Scopes,
                 Prepare(w, k, lower, at, s)
          PROVE  TypeOK'
      BY <3>1 DEF Prepare, TypeOK, Scopes, Readings, Currencies, CurrencyOf
    <3>2. ASSUME NEW k \in Keys, NEW s \in Scopes, PrepareAgain(w, k, s) PROVE TypeOK'
      BY <3>2 DEF PrepareAgain, TypeOK, rowVars, moneyVars
    <3>3. CASE RecordAction(w)
      BY <3>3 DEF RecordAction, TypeOK, moneyVars
    <3>4. CASE ActionAlreadyTaken(w)
      BY <3>4 DEF ActionAlreadyTaken, TypeOK, rowVars, moneyVars
    <3>5. CASE Dispatch(w)
      BY <3>5 DEF Dispatch, TypeOK, rowVars, moneyVars
    <3>6. ASSUME NEW s \in Scopes, CancelBeforeInput(w, s) PROVE TypeOK'
      <4>1. holding[w] \in Keys
        BY <3>6 DEF CancelBeforeInput, TypeOK
      <4>2. CASE s = scopeOf[holding[w]] /\ s = scope /\ Open(holding[w])
        <5>1. /\ Close(holding[w], Refuted, "owner") /\ Free(holding[w])
              /\ phase' = [phase EXCEPT ![w] = "idle"]
              /\ holding' = [holding EXCEPT ![w] = Nobody]
              /\ UNCHANGED <<now, scopeOf, ts, actedAt, before, inspected, reading, booked, scope, sent>>
          BY <3>6, <4>2 DEF CancelBeforeInput
        <5> QED
          BY <4>1, <5>1 DEF TypeOK, Close, Free, Refuted, Outcome, Verdicts
      <4>3. CASE ~(s = scopeOf[holding[w]] /\ s = scope /\ Open(holding[w]))
        BY <3>6, <4>1, <4>3 DEF CancelBeforeInput, TypeOK, Open
      <4> QED
        BY <4>2, <4>3
    <3>7. CASE Crash(w)
      BY <3>7 DEF Crash, TypeOK, rowVars, moneyVars
    <3> QED
      BY <2>4, <3>1, <3>2, <3>3, <3>4, <3>5, <3>6, <3>7 DEF Own
  <2>5. ASSUME NEW k \in Keys, SettleRow(k) PROVE TypeOK'
    <3>1. ASSUME NEW e \in Evidence(k), NEW at, Reconcile(k, e, at) PROVE TypeOK'
      <4>1. CASE Proven(k, e, at)
        <5> DEFINE o == IF Undispatched(k, e, at) THEN Refuted ELSE Judged(k, e, at)
        <5>1. o.verdict \in Verdicts /\ o.spent \in Nat
          BY <4>1, JudgedReturns DEF Proven, Refuted, Outcome, Verdicts, Unknown
        <5>2. /\ Close(k, o, "proof") /\ Free(k) /\ Forget(CurrencyOf(k))
              /\ booked' = [booked EXCEPT ![k] = @ + o.spent]
              /\ UNCHANGED <<now, scopeOf, ts, actedAt, before, inspected, scope, callerVars>>
          BY <3>1, <4>1 DEF Reconcile, Debit
        <5> HIDE DEF o
        <5> QED
          BY <5>1, <5>2 DEF TypeOK, Close, Free, Forget, callerVars,
             NoReading, Readings, Currencies, CurrencyOf, Unknown, NoScope
      <4>2. CASE ~Proven(k, e, at)
        BY <3>1, <4>2 DEF Reconcile, TypeOK, moneyVars, callerVars
      <4> QED
        BY <4>1, <4>2
    <3>2. ASSUME NEW e \in Evidence(k), RefuteUnlanded(k, e) PROVE TypeOK'
      BY <3>2 DEF RefuteUnlanded, TypeOK, Close, Free, Forget, Refuted, Outcome, Verdicts, callerVars,
         NoReading, Readings, Currencies, CurrencyOf, Unknown, NoScope
    <3>3. ASSUME NEW v, NEW b, OperatorReconcile(k, v, b) PROVE TypeOK'
      BY <3>3 DEF OperatorReconcile, TypeOK, Close, Free, Forget, Refuted, Unproven, Outcome, Verdicts,
         callerVars, NoReading, Readings, Currencies, CurrencyOf, Unknown, NoScope
    <3>4. CASE CloseUnproven(k)
      <4>1. CASE Scoped(k)
        <5>1. /\ Close(k, Unproven, "timeout") /\ Free(k) /\ Forget(CurrencyOf(k))
              /\ UNCHANGED <<now, scopeOf, ts, actedAt, before, inspected, booked, scope, callerVars>>
          BY <3>4, <4>1 DEF CloseUnproven
        <5> QED
          BY <5>1 DEF TypeOK, Close, Free, Forget, Unproven, Outcome, Verdicts, callerVars,
             NoReading, Readings, Currencies, CurrencyOf, Unknown, NoScope
      <4>2. CASE ~Scoped(k)
        BY <3>4, <4>2 DEF CloseUnproven, Scoped, TypeOK, Close, Unproven, Outcome, Verdicts, callerVars
      <4> QED
        BY <4>1, <4>2
    <3>5. CASE Release(k)
      BY <3>5 DEF Release, TypeOK, rowVars, callerVars
    <3> QED
      BY <2>5, <3>1, <3>2, <3>3, <3>4, <3>5 DEF SettleRow, Resolve
  <2>6. CASE UNCHANGED vars
    BY <2>6 DEF vars, rowVars, moneyVars, callerVars, TypeOK
  <2> QED
    BY <2>1, <2>2, <2>3, <2>4, <2>5, <2>6 DEF Next
<1> QED
  BY <1>1, <1>2, PTL DEF Spec
----------------------------------------------------------------------------
(* The inductive invariant.  Legacy rows are the ones whose hold anybody   *)
(* may release, so a reading kept beside one must be newer than its tap.   *)
LegacyReadingsFresh ==
  \A k \in LegacyKeys :
    LET r == reading[CurrencyOf(k)] IN r = NoReading \/ actedAt[k] < r.at

IInv ==
  /\ TypeOK /\ RowsConsistent /\ ClaimsExclusive
  /\ OneOpenIntent /\ HoldsMatchOpenIntents /\ AtMostOneTap
  /\ LegacyReadingsFresh /\ ReadingsCoverTaps
  /\ BookedExactlyWhatWasProven

(* Every way to settle a row but the owner's refusal closes it, frees its  *)
(* hold and forgets the stored wallet in one step, or closes a legacy row. *)
Settles(k, o, by) ==
  /\ Open(k) /\ Close(k, o, by) /\ Free(k) /\ Forget(CurrencyOf(k))
  /\ by # "owner"
  /\ by = "proof" => o.spent = 0 \/ (o.spent = Price[k] /\ sent[k] > 0)
  /\ booked' = [booked EXCEPT ![k] = @ + (IF by = "proof" THEN o.spent ELSE 0)]
  /\ UNCHANGED <<now, scopeOf, ts, actedAt, before, inspected, scope, callerVars>>

ClosesLegacy(k) ==
  /\ Open(k) /\ ~Scoped(k) /\ Close(k, Unproven, "timeout")
  /\ UNCHANGED <<now, scopeOf, ts, actedAt, before, inspected, moneyVars, scope, callerVars>>

OnlyInspects == UNCHANGED <<now, stage, outcome, spent, scopeOf, ts, actedAt, before,
                            settledBy, moneyVars, scope, callerVars>>

LEMMA ReconcileShape ==
  ASSUME TypeOK, NEW k \in Keys, NEW e \in Evidence(k), Honest(k, e),
         NEW at, Reconcile(k, e, at)
  PROVE  (\E o, by : Settles(k, o, by)) \/ OnlyInspects
<1>1. CASE Proven(k, e, at)
  <2> DEFINE o == IF Undispatched(k, e, at) THEN Refuted ELSE Judged(k, e, at)
  <2>1. o.spent = 0 \/ (o.spent = Price[k] /\ sent[k] > 0)
    BY <1>1, JudgedReturns DEF Proven, Refuted, Outcome, Honest
  <2>2. Settles(k, o, "proof")
    <3>1. /\ Open(k) /\ Close(k, o, "proof") /\ Free(k) /\ Forget(CurrencyOf(k))
          /\ booked' = [booked EXCEPT ![k] = @ + o.spent]
          /\ UNCHANGED <<now, scopeOf, ts, actedAt, before, inspected, scope, callerVars>>
      BY <1>1 DEF Reconcile, Debit
    <3> HIDE DEF o
    <3> QED
      BY <2>1, <3>1 DEF Settles
  <2> QED
    BY <2>2
<1>2. CASE ~Proven(k, e, at)
  BY <1>2 DEF Reconcile, OnlyInspects, moneyVars
<1> QED
  BY <1>1, <1>2

LEMMA SettleShapes ==
  ASSUME TypeOK, NEW k \in Keys, SettleRow(k)
  PROVE  (\E o, by : Settles(k, o, by)) \/ ClosesLegacy(k) \/ OnlyInspects \/ Release(k)
<1>1. ASSUME NEW e \in Evidence(k), Honest(k, e), NEW at, Reconcile(k, e, at)
      PROVE  (\E o, by : Settles(k, o, by)) \/ OnlyInspects
  BY <1>1, ReconcileShape
<1>2. ASSUME NEW e \in Evidence(k), RefuteUnlanded(k, e) PROVE Settles(k, Refuted, "proof")
  BY <1>2 DEF RefuteUnlanded, Settles, Open, Refuted, Outcome, TypeOK
<1>3. ASSUME NEW v, NEW b, OperatorReconcile(k, v, b) PROVE \E o : Settles(k, o, "operator")
  BY <1>3 DEF OperatorReconcile, Settles, Unsettled, TypeOK
<1>4. CASE CloseUnproven(k)
  <2>1. CASE Scoped(k)
    <3>1. Settles(k, Unproven, "timeout")
      BY <1>4, <2>1 DEF CloseUnproven, Settles, TypeOK
    <3> QED
      BY <3>1
  <2>2. CASE ~Scoped(k)
    BY <1>4, <2>2 DEF CloseUnproven, ClosesLegacy, moneyVars
  <2> QED
    BY <2>1, <2>2
<1> QED
  BY <1>1, <1>2, <1>3, <1>4 DEF SettleRow, Resolve

(* Nobody but the owner settles a row whose tap is still due: proof needs  *)
(* a changed item, and every other way needs longer than DispatchBound.    *)
LEMMA ClaimedRowsStayOpen ==
  ASSUME IInv, NEW k \in Keys, SettleRow(k), NEW w \in Workers,
         phase[w] = "claimed", holding[w] = k
  PROVE  stage'[k] = "acted"
<1> USE ConstantsAssumption
<1>1. /\ stage[k] = "acted" /\ sent[k] = 0 /\ Scoped(k)
      /\ now <= actedAt[k] + DispatchBound /\ actedAt[k] \in Nat /\ now \in Nat
  BY DEF IInv, ClaimsExclusive, RowsConsistent, TypeOK, Never
<1>2. ASSUME NEW e \in Evidence(k), NEW at, Honest(k, e), Reconcile(k, e, at)
      PROVE  UNCHANGED stage
  <2>1. e.effect # "changed"
    BY <1>1, <1>2 DEF Honest
  <2>2. ~Proven(k, e, at)
    BY <1>1, <2>1, JudgedReturns DEF Proven, Undispatched, IInv
  <2> QED
    BY <1>2, <2>2 DEF Reconcile
<1>3. ASSUME NEW e \in Evidence(k), RefuteUnlanded(k, e) PROVE FALSE
  BY <1>1, <1>3 DEF RefuteUnlanded, Evidence
<1>4. ASSUME NEW v, NEW b \in BOOLEAN, OperatorReconcile(k, v, b) PROVE FALSE
  BY <1>1, <1>4 DEF OperatorReconcile, WorkerGone, Never
<1>5. ~(now >= Boundary(k) + Patience)
  BY <1>1 DEF Boundary
<1>6. CASE Release(k)
  BY <1>1, <1>6 DEF Release, rowVars
<1> QED
  BY <1>1, <1>2, <1>3, <1>4, <1>5, <1>6 DEF SettleRow, Resolve
----------------------------------------------------------------------------
(* The claim and its tap: the steps of a worker that move a row or a tap.  *)
LEMMA OwnKeepsRows ==
  ASSUME IInv, TypeOK', NEW w \in Workers, Own(w)
  PROVE  RowsConsistent' /\ ClaimsExclusive' /\ OneOpenIntent' /\ AtMostOneTap'
<1> USE ConstantsAssumption DEF IInv
<1>1. ASSUME NEW k \in Keys, NEW lower \in Amounts, NEW at \in 0..now, NEW s \in Scopes,
             Prepare(w, k, lower, at, s)
      PROVE  RowsConsistent' /\ ClaimsExclusive' /\ OneOpenIntent' /\ AtMostOneTap'
  <2>1. RowsConsistent'
    BY <1>1 DEF Prepare, RowsConsistent, Scoped, TypeOK, Scopes, NoScope, Never
  <2>2. ClaimsExclusive'
    BY <1>1 DEF Prepare, ClaimsExclusive, Scoped, TypeOK, NoScope
  <2>3. OneOpenIntent'
    BY <1>1 DEF Prepare, OneOpenIntent, NothingPending, Open, TypeOK
  <2>4. AtMostOneTap'
    BY <1>1 DEF Prepare, AtMostOneTap
  <2> QED
    BY <2>1, <2>2, <2>3, <2>4
<1>2. ASSUME NEW k \in Keys, NEW s \in Scopes, PrepareAgain(w, k, s)
      PROVE  RowsConsistent' /\ ClaimsExclusive' /\ OneOpenIntent' /\ AtMostOneTap'
  <2>1. RowsConsistent' /\ OneOpenIntent' /\ AtMostOneTap'
    BY <1>2 DEF PrepareAgain, RowsConsistent, OneOpenIntent, AtMostOneTap, Scoped, Open, rowVars
  <2>2. ClaimsExclusive'
    BY <1>2 DEF PrepareAgain, ClaimsExclusive, Scoped, TypeOK, rowVars
  <2> QED
    BY <2>1, <2>2
<1>3. CASE RecordAction(w)
  <2> DEFINE k == holding[w]
  <2>1. /\ k \in Keys /\ Scoped(k) /\ stage[k] = "intended"
        /\ sent[k] = 0 /\ now \in Nat
    BY <1>3 DEF RecordAction, Claimable, TypeOK, ClaimsExclusive, RowsConsistent, AtMostOneTap
  <2>2. RowsConsistent'
    BY <1>3, <2>1 DEF RecordAction, RowsConsistent, Scoped, TypeOK, Never
  <2>3. ClaimsExclusive'
    BY <1>3, <2>1 DEF RecordAction, ClaimsExclusive, Scoped, TypeOK
  <2>4. OneOpenIntent' /\ AtMostOneTap'
    BY <1>3, <2>1 DEF RecordAction, OneOpenIntent, AtMostOneTap, Open, TypeOK
  <2> QED
    BY <2>2, <2>3, <2>4
<1>4. CASE Dispatch(w)
  <2> DEFINE k == holding[w]
  <2>1. /\ k \in Keys /\ Scoped(k) /\ stage[k] = "acted" /\ sent[k] = 0
        /\ actedAt[k] # Never
    BY <1>4 DEF Dispatch, TypeOK, ClaimsExclusive, RowsConsistent
  <2>2. RowsConsistent'
    BY <1>4, <2>1 DEF Dispatch, RowsConsistent, Scoped, TypeOK, rowVars
  <2>3. ClaimsExclusive'
    BY <1>4, <2>1 DEF Dispatch, ClaimsExclusive, Scoped, TypeOK, rowVars
  <2>4. OneOpenIntent' /\ AtMostOneTap'
    BY <1>4, <2>1 DEF Dispatch, OneOpenIntent, AtMostOneTap, Open, TypeOK, rowVars
  <2> QED
    BY <2>2, <2>3, <2>4
<1>5. ASSUME NEW s \in Scopes, CancelBeforeInput(w, s)
      PROVE  RowsConsistent' /\ ClaimsExclusive' /\ OneOpenIntent' /\ AtMostOneTap'
  <2> DEFINE k == holding[w]
  <2>1. /\ k \in Keys /\ stage[k] = "acted" /\ phase[w] = "claimed"
        /\ phase' = [phase EXCEPT ![w] = "idle"] /\ holding' = [holding EXCEPT ![w] = Nobody]
        /\ stage' = stage \/ stage' = [stage EXCEPT ![k] = "resolved"]
        /\ UNCHANGED <<now, scopeOf, ts, actedAt, sent>>
    BY <1>5 DEF CancelBeforeInput, Close, TypeOK, ClaimsExclusive
  <2>2. RowsConsistent'
    BY <2>1 DEF RowsConsistent, Scoped, TypeOK
  <2>3. ClaimsExclusive'
    BY <2>1 DEF ClaimsExclusive, Scoped, TypeOK
  <2>4. OneOpenIntent' /\ AtMostOneTap'
    BY <2>1 DEF OneOpenIntent, AtMostOneTap, Open, TypeOK
  <2> QED
    BY <2>2, <2>3, <2>4
<1>6. CASE ActionAlreadyTaken(w) \/ Crash(w)
  <2>1. /\ phase' = [phase EXCEPT ![w] = "idle"] /\ holding' = [holding EXCEPT ![w] = Nobody]
        /\ UNCHANGED <<now, rowVars, sent>>
    BY <1>6 DEF ActionAlreadyTaken, Crash
  <2>2. RowsConsistent' /\ OneOpenIntent' /\ AtMostOneTap'
    BY <2>1 DEF RowsConsistent, OneOpenIntent, AtMostOneTap, Scoped, Open, rowVars
  <2>3. ClaimsExclusive'
    BY <2>1 DEF ClaimsExclusive, Scoped, TypeOK, rowVars
  <2> QED
    BY <2>2, <2>3
<1> QED
  BY <1>1, <1>2, <1>3, <1>4, <1>5, <1>6 DEF Own

(* The money a worker's step moves: only Prepare and the owner's refusal   *)
(* touch a hold, and only the tap makes a stored reading stale.            *)
LEMMA OwnKeepsMoney ==
  ASSUME IInv, TypeOK', NEW w \in Workers, Own(w)
  PROVE  /\ HoldsMatchOpenIntents' /\ LegacyReadingsFresh' /\ ReadingsCoverTaps'
         /\ BookedExactlyWhatWasProven'
<1> USE ConstantsAssumption DEF IInv
<1>1. ASSUME NEW k \in Keys, NEW lower \in Amounts, NEW at \in 0..now, NEW s \in Scopes,
             Prepare(w, k, lower, at, s)
      PROVE  /\ HoldsMatchOpenIntents' /\ LegacyReadingsFresh' /\ ReadingsCoverTaps'
             /\ BookedExactlyWhatWasProven'
  <2> DEFINE c == CurrencyOf(k)
  <2>1. c \in Currencies /\ at \in Nat /\ \A j \in Keys : CurrencyOf(j) \in Currencies
    BY DEF CurrencyOf, Currencies, TypeOK
  <2>2. HoldsMatchOpenIntents'
    BY <1>1 DEF Prepare, HoldsMatchOpenIntents, Open, TypeOK
  <2>3. /\ \A j \in Keys : CurrencyOf(j) = c => actedAt[j] < at
        /\ reading' = [reading EXCEPT ![c] = [lower |-> lower, at |-> at, scope |-> s]]
        /\ UNCHANGED <<actedAt, sent>>
    BY <1>1 DEF Prepare, Undisturbed
  <2> HIDE DEF c
  <2>4. LegacyReadingsFresh'
    BY <2>1, <2>3 DEF LegacyReadingsFresh, TypeOK, CurrencyOf
  <2>5. ReadingsCoverTaps'
    <3>1. \A j \in Keys : held[j] => held'[j]
      BY <1>1 DEF Prepare, TypeOK
    <3>2. SUFFICES ASSUME NEW j \in Keys, sent[j] > 0,
                          LET r == reading'[CurrencyOf(j)] IN r # NoReading /\ r.at <= actedAt[j]
                   PROVE  held'[j]
      BY <2>3 DEF ReadingsCoverTaps, CurrencyOf
    <3>3. CurrencyOf(j) # c
      <4>1. CurrencyOf(j) = c => /\ reading'[CurrencyOf(j)].at = at
                                 /\ actedAt'[j] = actedAt[j] /\ actedAt[j] < at
        BY <2>1, <2>3 DEF TypeOK
      <4>2. actedAt[j] \in Int
        BY DEF TypeOK, Never
      <4>3. reading'[CurrencyOf(j)].at <= actedAt'[j]
        BY <2>3, <3>2
      <4> QED
        BY <2>1, <4>1, <4>2, <4>3
    <3>4. reading'[CurrencyOf(j)] = reading[CurrencyOf(j)]
      BY <2>1, <2>3, <3>3 DEF TypeOK
    <3> QED
      BY <3>1, <3>2, <3>4 DEF ReadingsCoverTaps
  <2>6. BookedExactlyWhatWasProven'
    BY <1>1 DEF Prepare, BookedExactlyWhatWasProven, TypeOK
  <2> QED
    BY <2>2, <2>4, <2>5, <2>6
<1>2. ASSUME \/ \E k \in Keys, s \in Scopes : PrepareAgain(w, k, s)
             \/ ActionAlreadyTaken(w) \/ Crash(w)
      PROVE  /\ HoldsMatchOpenIntents' /\ LegacyReadingsFresh' /\ ReadingsCoverTaps'
             /\ BookedExactlyWhatWasProven'
  <2>1. UNCHANGED <<rowVars, moneyVars, sent>>
    BY <1>2 DEF PrepareAgain, ActionAlreadyTaken, Crash
  <2> QED
    BY <2>1 DEF rowVars, moneyVars, HoldsMatchOpenIntents, LegacyReadingsFresh, ReadingsCoverTaps,
       BookedExactlyWhatWasProven, Open, CurrencyOf
<1>3. CASE RecordAction(w)
  <2> DEFINE k == holding[w]
  <2>1. /\ k \in Keys \ LegacyKeys /\ stage[k] = "intended" /\ sent[k] = 0
    BY <1>3 DEF RecordAction, Claimable, TypeOK, ClaimsExclusive, RowsConsistent
  <2>2. HoldsMatchOpenIntents'
    BY <1>3, <2>1 DEF RecordAction, HoldsMatchOpenIntents, Open, TypeOK, moneyVars
  <2>3. LegacyReadingsFresh'
    BY <1>3, <2>1 DEF RecordAction, LegacyReadingsFresh, TypeOK, moneyVars, CurrencyOf
  <2>4. ReadingsCoverTaps'
    <3>1. /\ actedAt' = [actedAt EXCEPT ![k] = now]
          /\ UNCHANGED <<held, reading, sent>>
      BY <1>3 DEF RecordAction, moneyVars
    <3>2. \A j \in Keys : sent[j] > 0 => actedAt'[j] = actedAt[j]
      BY <2>1, <3>1 DEF TypeOK
    <3> QED
      BY <3>1, <3>2 DEF ReadingsCoverTaps, CurrencyOf
  <2>5. BookedExactlyWhatWasProven'
    BY <1>3, <2>1 DEF RecordAction, BookedExactlyWhatWasProven, TypeOK, moneyVars
  <2> QED
    BY <2>2, <2>3, <2>4, <2>5
<1>4. CASE Dispatch(w)
  <2> DEFINE k == holding[w]
  <2>1. k \in Keys \ LegacyKeys /\ held[k]
    BY <1>4 DEF Dispatch, TypeOK, ClaimsExclusive, RowsConsistent, HoldsMatchOpenIntents, Open
  <2>2. ReadingsCoverTaps'
    BY <1>4, <2>1 DEF Dispatch, ReadingsCoverTaps, TypeOK, rowVars, moneyVars, CurrencyOf
  <2>3. HoldsMatchOpenIntents' /\ LegacyReadingsFresh' /\ BookedExactlyWhatWasProven'
    BY <1>4 DEF Dispatch, HoldsMatchOpenIntents, LegacyReadingsFresh, BookedExactlyWhatWasProven,
       Open, rowVars, moneyVars, CurrencyOf
  <2> QED
    BY <2>2, <2>3
<1>5. ASSUME NEW s \in Scopes, CancelBeforeInput(w, s)
      PROVE  /\ HoldsMatchOpenIntents' /\ LegacyReadingsFresh' /\ ReadingsCoverTaps'
             /\ BookedExactlyWhatWasProven'
  <2> DEFINE k == holding[w]
  <2>1. k \in Keys \ LegacyKeys /\ sent[k] = 0 /\ stage[k] = "acted"
    BY <1>5 DEF CancelBeforeInput, TypeOK, ClaimsExclusive, RowsConsistent
  <2>2. CASE s = scopeOf[k] /\ s = scope /\ Open(k)
    <3>1. /\ Close(k, Refuted, "owner") /\ Free(k)
          /\ UNCHANGED <<actedAt, reading, booked, sent>>
      BY <1>5, <2>2 DEF CancelBeforeInput
    <3>2. HoldsMatchOpenIntents'
      BY <2>1, <3>1 DEF HoldsMatchOpenIntents, Close, Free, Open, TypeOK
    <3>3. LegacyReadingsFresh' /\ ReadingsCoverTaps'
      BY <2>1, <3>1 DEF LegacyReadingsFresh, ReadingsCoverTaps, Free, TypeOK, CurrencyOf
    <3>4. BookedExactlyWhatWasProven'
      BY <2>1, <3>1 DEF BookedExactlyWhatWasProven, Close, TypeOK
    <3> QED
      BY <3>2, <3>3, <3>4
  <2>3. CASE ~(s = scopeOf[k] /\ s = scope /\ Open(k))
    <3>1. UNCHANGED <<stage, spent, settledBy, held, actedAt, reading, booked, sent>>
      BY <1>5, <2>3 DEF CancelBeforeInput
    <3> QED
      BY <3>1 DEF HoldsMatchOpenIntents, LegacyReadingsFresh, ReadingsCoverTaps,
         BookedExactlyWhatWasProven, Open, CurrencyOf
  <2> QED
    BY <2>2, <2>3
<1> QED
  BY <1>1, <1>2, <1>3, <1>4, <1>5 DEF Own
----------------------------------------------------------------------------
LEMMA SettlingKeepsRows ==
  ASSUME IInv, TypeOK', NEW k \in Keys, SettleRow(k)
  PROVE  RowsConsistent' /\ ClaimsExclusive' /\ OneOpenIntent' /\ AtMostOneTap'
<1> USE DEF IInv
<1>1. /\ UNCHANGED <<now, scopeOf, ts, actedAt, callerVars>>
      /\ stage' = stage \/ (Open(k) /\ stage' = [stage EXCEPT ![k] = "resolved"])
  BY SettleShapes DEF Settles, ClosesLegacy, OnlyInspects, Release, Close, rowVars
<1>2. RowsConsistent'
  BY <1>1 DEF RowsConsistent, Open, Scoped, TypeOK, callerVars
<1>3. ClaimsExclusive'
  <2>1. ASSUME NEW w \in Workers, phase[w] = "claimed" PROVE stage'[holding[w]] = "acted"
    <3>1. CASE holding[w] = k
      BY <2>1, <3>1, ClaimedRowsStayOpen
    <3>2. CASE holding[w] # k
      BY <1>1, <2>1, <3>2 DEF ClaimsExclusive, TypeOK
    <3> QED
      BY <3>1, <3>2
  <2> QED
    BY <1>1, <2>1 DEF ClaimsExclusive, Scoped, callerVars
<1>4. OneOpenIntent' /\ AtMostOneTap'
  BY <1>1 DEF OneOpenIntent, AtMostOneTap, Open, TypeOK, callerVars
<1> QED
  BY <1>2, <1>3, <1>4

LEMMA SettlingKeepsMoney ==
  ASSUME IInv, TypeOK', NEW k \in Keys, SettleRow(k)
  PROVE  /\ HoldsMatchOpenIntents' /\ LegacyReadingsFresh' /\ ReadingsCoverTaps'
         /\ BookedExactlyWhatWasProven'
<1> USE DEF IInv
<1>1. ASSUME NEW o, NEW by, Settles(k, o, by)
      PROVE  /\ HoldsMatchOpenIntents' /\ LegacyReadingsFresh' /\ ReadingsCoverTaps'
             /\ BookedExactlyWhatWasProven'
  <2>1. HoldsMatchOpenIntents'
    BY <1>1 DEF Settles, Close, Free, HoldsMatchOpenIntents, Open, TypeOK
  <2>2. /\ reading' = [reading EXCEPT ![CurrencyOf(k)] = NoReading]
        /\ held' = [held EXCEPT ![k] = FALSE]
        /\ UNCHANGED <<actedAt, sent>>
    BY <1>1 DEF Settles, Forget, Free, callerVars
  <2>3. \A j \in Keys : CurrencyOf(j) \in Currencies
    BY DEF CurrencyOf, Currencies
  <2>4. LegacyReadingsFresh'
    BY ConstantsAssumption, <2>2, <2>3 DEF LegacyReadingsFresh, TypeOK, CurrencyOf
  <2>5. ReadingsCoverTaps'
    <3> SUFFICES ASSUME NEW j \in Keys, sent[j] > 0,
                        LET r == reading'[CurrencyOf(j)] IN r # NoReading /\ r.at <= actedAt[j]
                 PROVE  held'[j]
      BY <2>2 DEF ReadingsCoverTaps, CurrencyOf
    <3>1. CurrencyOf(j) # CurrencyOf(k)
      BY <2>2, <2>3 DEF TypeOK
    <3>2. j # k /\ reading'[CurrencyOf(j)] = reading[CurrencyOf(j)]
      BY <2>2, <2>3, <3>1 DEF TypeOK
    <3> QED
      BY <2>2, <3>2 DEF ReadingsCoverTaps, TypeOK
  <2>6. BookedExactlyWhatWasProven'
    <3> DEFINE cost == IF by = "proof" THEN o.spent ELSE 0
    <3>1. cost \in Nat
      <4>1. Price[k] \in Nat
        BY ConstantsAssumption
      <4> QED
        BY <1>1, <4>1 DEF Settles
    <3>2. booked[k] = 0 /\ booked \in [Keys -> Nat] /\ Open(k)
      BY <1>1 DEF Settles, BookedExactlyWhatWasProven, Open, TypeOK
    <3>3. /\ booked' = [booked EXCEPT ![k] = @ + cost]
          /\ Close(k, o, by)
      BY <1>1 DEF Settles
    <3>4. booked'[k] = cost /\ \A j \in Keys \ {k} : booked'[j] = booked[j]
      BY <3>1, <3>2, <3>3
    <3>5. /\ stage'[k] = "resolved" /\ settledBy'[k] = by /\ spent'[k] = o.spent
          /\ \A j \in Keys \ {k} : /\ stage'[j] = stage[j] /\ spent'[j] = spent[j]
                                   /\ settledBy'[j] = settledBy[j]
      BY <3>3 DEF Close, TypeOK
    <3> QED
      BY <3>4, <3>5 DEF BookedExactlyWhatWasProven
  <2> QED
    BY <2>1, <2>4, <2>5, <2>6
<1>2. CASE ClosesLegacy(k)
  <2>1. k \in LegacyKeys
    BY <1>2 DEF ClosesLegacy, Open, RowsConsistent
  <2>2. HoldsMatchOpenIntents' /\ LegacyReadingsFresh' /\ ReadingsCoverTaps'
    BY <1>2, <2>1 DEF ClosesLegacy, Close, HoldsMatchOpenIntents, LegacyReadingsFresh, ReadingsCoverTaps,
       Open, CurrencyOf, TypeOK, moneyVars, callerVars
  <2>3. BookedExactlyWhatWasProven'
    BY <1>2 DEF ClosesLegacy, Close, BookedExactlyWhatWasProven, Open, TypeOK, moneyVars
  <2> QED
    BY <2>2, <2>3
<1>3. CASE OnlyInspects
  BY <1>3 DEF OnlyInspects, HoldsMatchOpenIntents, LegacyReadingsFresh, ReadingsCoverTaps,
     BookedExactlyWhatWasProven, Open, CurrencyOf, moneyVars, callerVars
<1>4. CASE Release(k)
  <2>1. k \in LegacyKeys
    BY <1>4 DEF Release, HoldsMatchOpenIntents, RowsConsistent, Scoped, Open
  <2>2. /\ held' = [held EXCEPT ![k] = FALSE]
        /\ UNCHANGED <<stage, spent, settledBy, actedAt, reading, booked, sent>>
    BY <1>4 DEF Release, rowVars, callerVars
  <2>3. HoldsMatchOpenIntents' /\ LegacyReadingsFresh' /\ BookedExactlyWhatWasProven'
    BY <2>1, <2>2 DEF HoldsMatchOpenIntents, LegacyReadingsFresh, BookedExactlyWhatWasProven,
       Open, CurrencyOf, TypeOK
  <2>4. ReadingsCoverTaps'
    <3> SUFFICES ASSUME NEW j \in Keys, sent[j] > 0,
                        LET r == reading[CurrencyOf(j)] IN r # NoReading /\ r.at <= actedAt[j]
                 PROVE  held'[j]
      BY <2>2 DEF ReadingsCoverTaps, CurrencyOf
    <3>1. CurrencyOf(j) \in Currencies /\ actedAt[j] \in Int /\ reading[CurrencyOf(j)].at \in Int
      BY DEF CurrencyOf, Currencies, TypeOK, Never
    <3>2. j # k
      BY <2>1, <3>1 DEF LegacyReadingsFresh
    <3> QED
      BY <2>2, <3>2 DEF ReadingsCoverTaps, TypeOK
  <2> QED
    BY <2>3, <2>4
<1> QED
  BY <1>1, <1>2, <1>3, <1>4, SettleShapes
----------------------------------------------------------------------------
(* The clock, the scope and the wallet: steps nobody owns.                 *)
LEMMA AmbientKeeps ==
  ASSUME IInv, TypeOK',
         \/ Tick
         \/ \E s \in Scopes : BindScope(s)
         \/ \E k \in Keys, lower \in Amounts, at \in 0..now, s \in Scopes :
              Observe(CurrencyOf(k), lower, at, s)
         \/ UNCHANGED vars
  PROVE  IInv'
<1> USE ConstantsAssumption DEF IInv
<1>1. UNCHANGED <<stage, spent, scopeOf, ts, actedAt, settledBy, held, booked, callerVars>>
  BY DEF Tick, BindScope, DiscardReadings, Observe, vars, rowVars, moneyVars
<1>2. now' \in Nat /\ now <= now'
  BY DEF Tick, BindScope, DiscardReadings, Observe, vars, TypeOK
<1>3. \A w \in Workers : phase[w] = "claimed" => now' <= actedAt[holding[w]] + DispatchBound
  <2> SUFFICES ASSUME NEW w \in Workers, phase[w] = "claimed"
               PROVE  now' <= actedAt[holding[w]] + DispatchBound
    OBVIOUS
  <2>1. holding[w] \in Keys /\ actedAt[holding[w]] \in Int /\ now \in Nat /\ DispatchBound \in Nat
    BY DEF TypeOK, Never
  <2>2. CASE Tick
    BY <2>1, <2>2 DEF Tick
  <2>3. CASE now' = now
    BY <2>3 DEF ClaimsExclusive
  <2> QED
    BY <2>2, <2>3 DEF BindScope, DiscardReadings, Observe, vars
<1>4. RowsConsistent'
  <2>1. \A k \in Keys : actedAt[k] \in Int /\ ts[k] \in Int /\ now \in Int
    BY DEF TypeOK, Never
  <2> QED
    BY <1>1, <1>2, <2>1 DEF RowsConsistent, Scoped, callerVars
<1>5. ClaimsExclusive'
  BY <1>1, <1>3 DEF ClaimsExclusive, Scoped, callerVars
<1>6. OneOpenIntent' /\ HoldsMatchOpenIntents' /\ AtMostOneTap' /\ BookedExactlyWhatWasProven'
  BY <1>1 DEF OneOpenIntent, HoldsMatchOpenIntents, AtMostOneTap, BookedExactlyWhatWasProven,
     Open, callerVars
<1>7. \A c \in Currencies : \/ reading'[c] = reading[c]
                            \/ reading'[c] = NoReading
                            \/ \A k \in Keys : CurrencyOf(k) = c => actedAt[k] < reading'[c].at
  <2>1. CASE \E s \in Scopes : BindScope(s)
    BY <2>1 DEF BindScope, DiscardReadings
  <2>2. ASSUME NEW k \in Keys, NEW lower \in Amounts, NEW at \in 0..now, NEW s \in Scopes,
               Observe(CurrencyOf(k), lower, at, s)
        PROVE  \A c \in Currencies :
                 \/ reading'[c] = reading[c]
                 \/ \A j \in Keys : CurrencyOf(j) = c => actedAt[j] < reading'[c].at
    <3> SUFFICES ASSUME NEW c \in Currencies
                 PROVE  \/ reading'[c] = reading[c]
                        \/ \A j \in Keys : CurrencyOf(j) = c => actedAt[j] < reading'[c].at
      OBVIOUS
    <3> DEFINE r == [lower |-> lower, at |-> at, scope |-> s]
    <3>1. reading' = [reading EXCEPT ![CurrencyOf(k)] = r]
      BY <2>2 DEF Observe
    <3>2. CASE c = CurrencyOf(k)
      <4>1. reading'[c].at = at
        BY <3>1, <3>2 DEF TypeOK
      <4> QED
        BY <2>2, <3>2, <4>1 DEF Observe, Undisturbed
    <3>3. CASE c # CurrencyOf(k)
      BY <3>1, <3>3 DEF TypeOK
    <3> QED
      BY <3>2, <3>3
  <2>3. CASE UNCHANGED reading
    BY <2>3
  <2> QED
    BY <2>1, <2>2, <2>3 DEF Tick, vars, moneyVars
<1>8. \A k \in Keys : CurrencyOf(k) \in Currencies /\ actedAt[k] \in Int
                      /\ reading'[CurrencyOf(k)].at \in Int
  BY DEF CurrencyOf, Currencies, TypeOK, Never
<1>9. LegacyReadingsFresh'
  <2> SUFFICES ASSUME NEW k \in LegacyKeys
               PROVE  LET r == reading'[CurrencyOf(k)] IN r = NoReading \/ actedAt[k] < r.at
    BY <1>1 DEF LegacyReadingsFresh, CurrencyOf
  <2> QED
    BY <1>7, <1>8 DEF LegacyReadingsFresh
<1>10. ReadingsCoverTaps'
  <2> SUFFICES ASSUME NEW k \in Keys, sent[k] > 0,
                      LET r == reading'[CurrencyOf(k)] IN r # NoReading /\ r.at <= actedAt[k]
               PROVE  held[k]
    BY <1>1 DEF ReadingsCoverTaps, CurrencyOf, callerVars
  <2>1. reading'[CurrencyOf(k)] = reading[CurrencyOf(k)]
    BY <1>7, <1>8
  <2> QED
    BY <2>1 DEF ReadingsCoverTaps
<1> QED
  BY <1>4, <1>5, <1>6, <1>9, <1>10

(* The journal's guarantees for every set of intents and workers, however  *)
(* they race, crash and replay.                                            *)
THEOREM InvariantHolds == Spec => []IInv
<1>1. Init => IInv
  <2> SUFFICES ASSUME Init PROVE IInv
    OBVIOUS
  <2> USE ConstantsAssumption
  <2>1. TypeOK
    BY DEF Init, TypeOK, Readings, NoReading, Currencies, Unknown, Never, NoScope
  <2>2. PICK left \in LegacyKeys \cup {Nobody}, acted \in BOOLEAN, hold \in BOOLEAN :
          /\ stage   = [k \in Keys |-> IF k # left THEN "none"
                                       ELSE IF acted THEN "acted" ELSE "intended"]
          /\ actedAt = [k \in Keys |-> IF k = left /\ acted THEN 0 ELSE Never]
          /\ sent    = [k \in Keys |-> IF k = left /\ acted THEN 1 ELSE 0]
          /\ held    = [k \in Keys |-> k = left /\ hold]
    BY DEF Init
  <2>3. /\ now = 0 /\ scopeOf = [k \in Keys |-> NoScope] /\ ts = [k \in Keys |-> 0]
        /\ reading = [c \in Currencies |-> NoReading] /\ booked = [k \in Keys |-> 0]
        /\ phase = [w \in Workers |-> "idle"] /\ holding = [w \in Workers |-> Nobody]
    BY DEF Init
  <2>4. RowsConsistent
    BY <2>2, <2>3 DEF RowsConsistent, Scoped, Never
  <2>5. ClaimsExclusive
    BY <2>3 DEF ClaimsExclusive
  <2>6. OneOpenIntent
    BY <2>2 DEF OneOpenIntent, Open
  <2>7. HoldsMatchOpenIntents
    BY <2>2 DEF HoldsMatchOpenIntents, Open
  <2>8. AtMostOneTap
    BY <2>2 DEF AtMostOneTap
  <2>9. LegacyReadingsFresh /\ ReadingsCoverTaps
    BY <2>3 DEF LegacyReadingsFresh, ReadingsCoverTaps, CurrencyOf, Currencies
  <2>10. BookedExactlyWhatWasProven
    BY <2>2, <2>3 DEF BookedExactlyWhatWasProven
  <2> QED
    BY <2>1, <2>4, <2>5, <2>6, <2>7, <2>8, <2>9, <2>10 DEF IInv
<1>2. IInv /\ TypeOK' /\ [Next]_vars => IInv'
  <2> SUFFICES ASSUME IInv, TypeOK', [Next]_vars PROVE IInv'
    OBVIOUS
  <2>1. ASSUME NEW w \in Workers, Own(w) PROVE IInv'
    BY <2>1, OwnKeepsRows, OwnKeepsMoney DEF IInv
  <2>2. ASSUME NEW k \in Keys, SettleRow(k) PROVE IInv'
    BY <2>2, SettlingKeepsRows, SettlingKeepsMoney DEF IInv
  <2>3. ASSUME \/ Tick
               \/ \E s \in Scopes : BindScope(s)
               \/ \E k \in Keys, lower \in Amounts, at \in 0..now, s \in Scopes :
                    Observe(CurrencyOf(k), lower, at, s)
               \/ UNCHANGED vars
        PROVE  IInv'
    BY <2>3, AmbientKeeps
  <2> QED
    BY <2>1, <2>2, <2>3 DEF Next
<1> QED
  BY <1>1, <1>2, TypeCorrect, PTL DEF Spec

(* prepare refuses while any row is unanswered: at most one open attempt.  *)
THEOREM OneOpenIntentHolds == Spec => []OneOpenIntent
<1>1. IInv => OneOpenIntent
  BY DEF IInv
<1> QED
  BY <1>1, InvariantHolds, PTL

(* A commitment lives exactly as long as its intent is open.               *)
THEOREM HoldsHold == Spec => []HoldsMatchOpenIntents
<1>1. IInv => HoldsMatchOpenIntents
  BY DEF IInv
<1> QED
  BY <1>1, InvariantHolds, PTL

(* record_action's compare-and-set: no intent is tapped twice.             *)
THEOREM OneTapHolds == Spec => []AtMostOneTap
<1>1. IInv => AtMostOneTap
  BY DEF IInv
<1> QED
  BY <1>1, InvariantHolds, PTL

(* A stored wallet made stale by a tap is covered by that tap's hold.      *)
THEOREM CoverageHolds == Spec => []ReadingsCoverTaps
<1>1. IInv => ReadingsCoverTaps
  BY DEF IInv
<1> QED
  BY <1>1, InvariantHolds, PTL

(* The ledger carries exactly the spends that were proven.                 *)
THEOREM BooksHold == Spec => []BookedExactlyWhatWasProven
<1>1. IInv => BookedExactlyWhatWasProven
  BY DEF IInv
<1> QED
  BY <1>1, InvariantHolds, PTL
----------------------------------------------------------------------------
(* No step rewrites a settled row: every settlement starts from an open one *)
THEOREM SettledHolds == Spec => SettledNeverRewritten
<1> DEFINE Kept == \A k \in Keys : stage[k] = "resolved" =>
              <<stage[k], outcome[k], spent[k], settledBy[k], booked[k]>>'
                = <<stage[k], outcome[k], spent[k], settledBy[k], booked[k]>>
<1>1. TypeOK /\ [Next]_vars => [Kept]_vars
  <2> SUFFICES ASSUME TypeOK, Next PROVE Kept
    BY DEF vars
  <2>1. ASSUME NEW w \in Workers, Own(w) PROVE Kept
    <3>1. ASSUME NEW k \in Keys, NEW lower, NEW at, NEW s, Prepare(w, k, lower, at, s) PROVE Kept
      BY <3>1 DEF Prepare, TypeOK
    <3>2. CASE \/ \E k \in Keys, s \in Scopes : PrepareAgain(w, k, s)
               \/ ActionAlreadyTaken(w) \/ Dispatch(w) \/ Crash(w)
      BY <3>2 DEF PrepareAgain, ActionAlreadyTaken, Dispatch, Crash, rowVars, moneyVars
    <3>3. CASE RecordAction(w)
      BY <3>3 DEF RecordAction, Claimable, TypeOK, moneyVars
    <3>4. ASSUME NEW s, CancelBeforeInput(w, s) PROVE Kept
      <4> DEFINE k == holding[w]
      <4>1. CASE s = scopeOf[k] /\ s = scope /\ Open(k)
        <5>1. Close(k, Refuted, "owner") /\ UNCHANGED booked /\ stage[k] # "resolved"
          BY <3>4, <4>1 DEF CancelBeforeInput, Open
        <5> QED
          BY <5>1 DEF Close, TypeOK
      <4>2. CASE ~(s = scopeOf[k] /\ s = scope /\ Open(k))
        BY <3>4, <4>2 DEF CancelBeforeInput
      <4> QED
        BY <4>1, <4>2
    <3> QED
      BY <2>1, <3>1, <3>2, <3>3, <3>4 DEF Own
  <2>2. ASSUME NEW k \in Keys, SettleRow(k) PROVE Kept
    <3>1. ASSUME NEW o, NEW by, Settles(k, o, by) PROVE Kept
      BY <3>1 DEF Settles, Close, Open, TypeOK
    <3>2. CASE ClosesLegacy(k)
      BY <3>2 DEF ClosesLegacy, Close, Open, TypeOK, moneyVars
    <3>3. CASE OnlyInspects \/ Release(k)
      BY <3>3 DEF OnlyInspects, Release, rowVars, moneyVars
    <3> QED
      BY <2>2, <3>1, <3>2, <3>3, SettleShapes
  <2>3. CASE \/ Tick
             \/ \E s \in Scopes : BindScope(s)
             \/ \E k \in Keys, lower \in Amounts, at \in 0..now, s \in Scopes :
                  Observe(CurrencyOf(k), lower, at, s)
    BY <2>3 DEF Tick, BindScope, DiscardReadings, Observe, rowVars, moneyVars
  <2> QED
    BY <2>1, <2>2, <2>3 DEF Next
<1> QED
  BY <1>1, TypeCorrect, PTL DEF Spec, SettledNeverRewritten

(* Only Dispatch taps, and its row is then claimed and the only open one.  *)
THEOREM TapsHold == Spec => TapsOnlyUnderClaim
<1> DEFINE Due == \A k \in Keys : sent'[k] # sent[k] =>
                    stage[k] = "acted" /\ \A j \in Keys \ {k} : ~Open(j)
<1>1. IInv /\ [Next]_vars => [Due]_vars
  <2> SUFFICES ASSUME IInv, Next PROVE Due
    BY DEF vars
  <2>1. ASSUME NEW w \in Workers, Own(w) PROVE Due
    <3>1. CASE Dispatch(w)
      BY <2>1, <3>1 DEF Dispatch, IInv, ClaimsExclusive, OneOpenIntent, Open, TypeOK
    <3>2. CASE UNCHANGED sent
      BY <3>2
    <3> QED
      BY <2>1, <3>1, <3>2 DEF Own, Prepare, PrepareAgain, RecordAction, ActionAlreadyTaken,
         CancelBeforeInput, Crash
  <2>2. ASSUME NEW k \in Keys, SettleRow(k) PROVE Due
    BY <2>2, SettleShapes DEF IInv, Settles, ClosesLegacy, OnlyInspects, Release, callerVars
  <2>3. CASE \/ Tick
             \/ \E s \in Scopes : BindScope(s)
             \/ \E k \in Keys, lower \in Amounts, at \in 0..now, s \in Scopes :
                  Observe(CurrencyOf(k), lower, at, s)
    BY <2>3 DEF Tick, BindScope, DiscardReadings, Observe, callerVars
  <2> QED
    BY <2>1, <2>2, <2>3 DEF Next
<1> QED
  BY <1>1, InvariantHolds, PTL DEF Spec, TapsOnlyUnderClaim
----------------------------------------------------------------------------
(* bind_scope discards what observe and prepare stored for another scope.  *)
THEOREM ScopedReadingsHold == Spec => []StoredReadingsAreInScope
<1>1. Init => StoredReadingsAreInScope
  BY DEF Init, StoredReadingsAreInScope
<1>2. TypeOK /\ StoredReadingsAreInScope /\ [Next]_vars => StoredReadingsAreInScope'
  <2> SUFFICES ASSUME TypeOK, StoredReadingsAreInScope, [Next]_vars
               PROVE  StoredReadingsAreInScope'
    OBVIOUS
  <2> USE DEF StoredReadingsAreInScope
  <2>1. ASSUME NEW s \in Scopes, BindScope(s) PROVE StoredReadingsAreInScope'
    BY <2>1 DEF BindScope, DiscardReadings
  <2>2. ASSUME NEW c \in Currencies, NEW lower, NEW at, Observe(c, lower, at, scope)
        PROVE  StoredReadingsAreInScope'
    BY <2>2 DEF Observe, TypeOK
  <2>3. ASSUME NEW w \in Workers, NEW k \in Keys, NEW lower, NEW at, Prepare(w, k, lower, at, scope)
        PROVE  StoredReadingsAreInScope'
    BY <2>3 DEF Prepare, TypeOK
  <2>4. CASE UNCHANGED <<scope, reading>>
    BY <2>4
  <2>5. ASSUME NEW k \in Keys, SettleRow(k) PROVE StoredReadingsAreInScope'
    <3>1. ASSUME NEW o, NEW by, Settles(k, o, by) PROVE StoredReadingsAreInScope'
      BY <3>1 DEF Settles, Forget, TypeOK
    <3>2. CASE ClosesLegacy(k) \/ OnlyInspects \/ Release(k)
      BY <2>4, <3>2 DEF ClosesLegacy, OnlyInspects, Release, moneyVars
    <3> QED
      BY <2>5, <3>1, <3>2, SettleShapes
  <2>6. ASSUME NEW w \in Workers, Own(w) PROVE StoredReadingsAreInScope'
    <3>1. CASE \E k \in Keys, lower \in Amounts, at \in 0..now, s \in Scopes :
                 Prepare(w, k, lower, at, s)
      BY <2>3, <3>1 DEF Prepare
    <3>2. CASE UNCHANGED <<scope, reading>>
      BY <2>4, <3>2
    <3> QED
      BY <2>6, <3>1, <3>2 DEF Own, PrepareAgain, RecordAction, ActionAlreadyTaken, Dispatch,
         CancelBeforeInput, Crash, moneyVars
  <2>7. CASE \E k \in Keys, lower \in Amounts, at \in 0..now, s \in Scopes :
               Observe(CurrencyOf(k), lower, at, s)
    BY <2>2, <2>7 DEF Observe, CurrencyOf, Currencies
  <2>8. CASE Tick \/ UNCHANGED vars
    BY <2>4, <2>8 DEF Tick, vars, moneyVars
  <2> QED
    BY <2>1, <2>5, <2>6, <2>7, <2>8 DEF Next
<1> QED
  BY <1>1, <1>2, TypeCorrect, PTL DEF Spec
----------------------------------------------------------------------------
(***************************************************************************)
(* Journal implements SpendGate: every step of the journal, its callers,   *)
(* its crashes and its recoveries is a step of the gate or leaves it alone.*)
(***************************************************************************)
(* The only member of a set is the one that is chosen from it.             *)
LEMMA ChosenIsOnly ==
  ASSUME NEW S, NEW k \in S, \A j \in S : j = k
  PROVE  (CHOOSE j \in S : TRUE) = k
OBVIOUS

LEMMA InsideIsOpen ==
  ASSUME OneOpenIntent, NEW k \in Keys, Open(k)
  PROVE  OpenIntent = k
<1>1. k \in OpenIntents /\ \A j \in OpenIntents : j = k
  BY DEF OneOpenIntent, OpenIntents
<1> QED
  BY <1>1, ChosenIsOnly DEF OpenIntent

(* A settled row leaves the gate with the debit its outcome proved.        *)
LEMMA SettlingLeaves ==
  ASSUME IInv, IInv', NEW k \in Keys, Open(k),
         stage' = [stage EXCEPT ![k] = "resolved"], UNCHANGED sent,
         NEW cost, booked' = [booked EXCEPT ![k] = @ + cost],
         cost = 0 \/ (cost = Price[k] /\ sent[k] > 0)
  PROVE  Gate!Leave
<1> USE ConstantsAssumption
<1>1. OpenIntent = k
  BY InsideIsOpen DEF IInv
<1>2. OpenIntents' = {} /\ OpenIntent' = Nobody
  <2>1. \A j \in Keys : stage'[j] \in {"intended", "acted"} => j # k /\ Open(j)
    BY DEF Open, IInv, TypeOK
  <2>2. OpenIntents' = {}
    BY <2>1 DEF OpenIntents, Open, IInv, OneOpenIntent
  <2> QED
    BY <2>2 DEF OpenIntent
<1>3. Settled' = Settled \cup {k}
  BY DEF Settled, IInv, TypeOK
<1>4. booked[k] = 0 /\ booked \in [Keys -> Nat]
  BY DEF IInv, TypeOK, BookedExactlyWhatWasProven, Open
<1>5. booked' = [booked EXCEPT ![k] = cost]
  <2>1. Price[k] \in Nat
    OBVIOUS
  <2>2. cost \in Nat
    BY <2>1
  <2>3. booked[k] + cost = cost
    BY <1>4, <2>2
  <2> QED
    BY <2>3
<1>6. sent[k] > 0 => sent[k] = 1
  BY DEF IInv, TypeOK, AtMostOneTap
<1>7. \E proven \in BOOLEAN :
        /\ proven => sent[k] = 1
        /\ booked' = [booked EXCEPT ![k] = IF proven THEN Price[k] ELSE 0]
  <2>1. CASE cost = 0
    BY <1>5, <2>1
  <2>2. CASE cost = Price[k] /\ sent[k] > 0
    BY <1>5, <1>6, <2>2
  <2> QED
    BY <2>1, <2>2
<1> QED
  BY <1>1, <1>2, <1>3, <1>7 DEF Gate!Leave

(* A step that keeps the stages, taps and books keeps the gate.            *)
LEMMA GateAlone ==
  ASSUME UNCHANGED <<stage, sent, booked>>
  PROVE  UNCHANGED Gate!gateVars
BY DEF Gate!gateVars, OpenIntent, OpenIntents, Settled, Open

LEMMA OwnStepsGate ==
  ASSUME IInv, IInv', NEW w \in Workers, Own(w)
  PROVE  Gate!Next \/ UNCHANGED Gate!gateVars
<1> USE ConstantsAssumption
<1>1. ASSUME NEW k \in Keys, NEW lower \in Amounts, NEW at \in 0..now, NEW s \in Scopes,
             Prepare(w, k, lower, at, s)
      PROVE  Gate!Enter(k)
  <2>1. /\ k \notin LegacyKeys /\ stage[k] = "none" /\ OpenIntents = {}
        /\ stage' = [stage EXCEPT ![k] = "intended"]
        /\ UNCHANGED <<sent, booked>>
    BY <1>1 DEF Prepare, NothingPending, OpenIntents
  <2>2. k \notin Settled /\ Settled' = Settled
    BY <2>1 DEF Settled, IInv, TypeOK
  <2>3. Open(k)' /\ OneOpenIntent'
    BY <2>1 DEF Open, IInv, TypeOK
  <2>4. k \in OpenIntents' /\ \A j \in OpenIntents' : j = k
    BY <2>3 DEF OpenIntents, OneOpenIntent
  <2>5. OpenIntent = Nobody /\ OpenIntent' = k
    BY <2>1, <2>4, ChosenIsOnly DEF OpenIntent
  <2> QED
    BY <2>1, <2>2, <2>5 DEF Gate!Enter
<1>2. CASE Dispatch(w)
  <2> DEFINE k == holding[w]
  <2>1. k \in Keys /\ stage[k] = "acted" /\ sent[k] = 0 /\ sent' = [sent EXCEPT ![k] = 1]
        /\ UNCHANGED <<stage, booked>>
    <3>1. k \in Keys /\ stage[k] = "acted" /\ sent[k] = 0
      BY <1>2 DEF Dispatch, IInv, ClaimsExclusive, TypeOK
    <3>2. sent' = [sent EXCEPT ![k] = @ + 1] /\ UNCHANGED <<stage, booked>>
      BY <1>2 DEF Dispatch, rowVars, moneyVars
    <3> QED
      BY <3>1, <3>2
  <2>2. OpenIntent = k
    BY <2>1, InsideIsOpen DEF Open, IInv
  <2>3. OpenIntent' = OpenIntent /\ Settled' = Settled
    BY <2>1 DEF OpenIntent, OpenIntents, Open, Settled
  <2> QED
    BY <2>1, <2>2, <2>3 DEF Gate!Tap, Gate!Next
<1>3. ASSUME NEW s \in Scopes, CancelBeforeInput(w, s)
      PROVE  Gate!Leave \/ UNCHANGED Gate!gateVars
  <2> DEFINE k == holding[w]
  <2>1. CASE s = scopeOf[k] /\ s = scope /\ Open(k)
    <3>1. k \in Keys /\ Close(k, Refuted, "owner") /\ UNCHANGED <<sent, booked>>
      BY <1>3, <2>1 DEF CancelBeforeInput, IInv, TypeOK
    <3>2. booked' = [booked EXCEPT ![k] = @ + 0]
      BY <3>1 DEF IInv, TypeOK
    <3> QED
      BY <2>1, <3>1, <3>2, SettlingLeaves DEF Close
  <2>2. CASE ~(s = scopeOf[k] /\ s = scope /\ Open(k))
    BY <1>3, <2>2, GateAlone DEF CancelBeforeInput
  <2> QED
    BY <2>1, <2>2
<1>4. CASE RecordAction(w)
  <2> DEFINE k == holding[w]
  <2>1. /\ stage[k] = "intended" /\ stage' = [stage EXCEPT ![k] = "acted"]
        /\ UNCHANGED <<sent, booked>>
    BY <1>4 DEF RecordAction, Claimable, moneyVars
  <2>2. OpenIntents' = OpenIntents /\ Settled' = Settled
    BY <2>1 DEF OpenIntents, Settled, Open, IInv, TypeOK
  <2> QED
    BY <2>1, <2>2 DEF Gate!gateVars, OpenIntent
<1>5. ASSUME (\E k \in Keys, s \in Scopes : PrepareAgain(w, k, s)) \/ ActionAlreadyTaken(w) \/ Crash(w)
      PROVE  UNCHANGED Gate!gateVars
  BY <1>5, GateAlone DEF PrepareAgain, ActionAlreadyTaken, Crash, rowVars, moneyVars
<1> QED
  BY <1>1, <1>2, <1>3, <1>4, <1>5 DEF Own, Gate!Next

LEMMA SettleStepsGate ==
  ASSUME IInv, IInv', NEW k \in Keys, SettleRow(k)
  PROVE  Gate!Leave \/ UNCHANGED Gate!gateVars
<1>1. ASSUME NEW o, NEW by, Settles(k, o, by) PROVE Gate!Leave
  <2> DEFINE cost == IF by = "proof" THEN o.spent ELSE 0
  <2>1. /\ Open(k) /\ stage' = [stage EXCEPT ![k] = "resolved"] /\ UNCHANGED sent
        /\ booked' = [booked EXCEPT ![k] = @ + cost]
        /\ cost = 0 \/ (cost = Price[k] /\ sent[k] > 0)
    BY <1>1 DEF Settles, Close, callerVars
  <2> HIDE DEF cost
  <2> QED
    BY <2>1, SettlingLeaves
<1>2. CASE ClosesLegacy(k)
  <2>1. /\ Open(k) /\ stage' = [stage EXCEPT ![k] = "resolved"] /\ UNCHANGED sent
        /\ booked' = [booked EXCEPT ![k] = @ + 0]
    BY <1>2 DEF ClosesLegacy, Close, moneyVars, callerVars, IInv, TypeOK
  <2> QED
    BY <2>1, SettlingLeaves
<1>3. CASE OnlyInspects \/ Release(k)
  BY <1>3, GateAlone DEF OnlyInspects, Release, rowVars, moneyVars, callerVars
<1> QED
  BY <1>1, <1>2, <1>3, SettleShapes DEF IInv

(* The journal is a gate: one attempt inside, one tap, one exit, one debit *)
(* of the price or of nothing, in every behaviour.                         *)
THEOREM GateImplemented == Spec => ImplementsGate
<1>1. Init => Gate!Init
  <2> SUFFICES ASSUME Init PROVE Gate!Init
    OBVIOUS
  <2> USE ConstantsAssumption
  <2>1. PICK left \in LegacyKeys \cup {Nobody}, acted \in BOOLEAN :
          /\ stage = [k \in Keys |-> IF k # left THEN "none"
                                     ELSE IF acted THEN "acted" ELSE "intended"]
          /\ sent  = [k \in Keys |-> IF k = left /\ acted THEN 1 ELSE 0]
    BY DEF Init
  <2>2. booked = [k \in Keys |-> 0]
    BY DEF Init
  <2>3. Settled = {} /\ OpenIntents = {k \in Keys : k = left}
    BY <2>1 DEF Settled, OpenIntents, Open
  <2>4. OpenIntent = left
    <3>1. CASE left = Nobody
      BY <2>3, <3>1 DEF OpenIntent
    <3>2. CASE left \in LegacyKeys
      BY <2>3, <3>2, ChosenIsOnly DEF OpenIntent
    <3> QED
      BY <3>1, <3>2
  <2> QED
    BY <2>1, <2>2, <2>3, <2>4 DEF Gate!Init
<1>2. IInv /\ IInv' /\ [Next]_vars => [Gate!Next]_(Gate!gateVars)
  <2> SUFFICES ASSUME IInv, IInv', [Next]_vars PROVE Gate!Next \/ UNCHANGED Gate!gateVars
    OBVIOUS
  <2>1. ASSUME NEW w \in Workers, Own(w) PROVE Gate!Next \/ UNCHANGED Gate!gateVars
    BY <2>1, OwnStepsGate
  <2>2. ASSUME NEW k \in Keys, SettleRow(k) PROVE Gate!Next \/ UNCHANGED Gate!gateVars
    BY <2>2, SettleStepsGate DEF Gate!Next
  <2>3. ASSUME \/ Tick
               \/ \E s \in Scopes : BindScope(s)
               \/ \E k \in Keys, lower \in Amounts, at \in 0..now, s \in Scopes :
                    Observe(CurrencyOf(k), lower, at, s)
               \/ UNCHANGED vars
        PROVE  UNCHANGED Gate!gateVars
    BY <2>3, GateAlone DEF Tick, BindScope, Observe, vars, rowVars, moneyVars, callerVars
  <2> QED
    BY <2>1, <2>2, <2>3 DEF Next
<1> QED
  BY <1>1, <1>2, InvariantHolds, PTL DEF Spec, ImplementsGate, Gate!Spec
=============================================================================
