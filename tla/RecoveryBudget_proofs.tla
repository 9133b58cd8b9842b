------------------------ MODULE RecoveryBudget_proofs ------------------------
(* Proofs about RecoveryBudget, for any fleet, price list and hard limits. *)
EXTENDS RecoveryBudget, FiniteSetTheorems, WellFoundedInduction, TLAPS

(* The types and, per row, who may still act on it and what it was charged. *)
Consistent == TypeOK /\ RowsConsistent

\* The constants are typed.
LEMMA ConstantsTyped ==
  /\ \A r \in Requests : IncidentOf[r] \in Range(IncidentOf)
  /\ HardIncident \in Nat /\ HardDaily \in Nat /\ HardCalls \in Nat
  /\ \A q \in Quotes : q \in Nat
  /\ \A c \in Charges : c \in Nat
  /\ Nobody \notin Requests
BY BudgetAssumption DEF Range

(* The two ends of reserve. *)
Denied(s) ==
  /\ UNCHANGED <<state, day, maximum>> /\ Finish(s, "delivered")
  /\ \/ latestDay' = latestDay
     \/ latestDay' = offer[s].day /\ Current(offer[s].day)

Granted(s) ==
  /\ Fresh(job[s]) /\ Affordable(job[s], offer[s].day, offer[s].maximum)
  /\ disabled = Nobody /\ Current(offer[s].day)
  /\ latestDay' = offer[s].day
  /\ state' = [state EXCEPT ![job[s]] = "reserved"]
  /\ day' = [day EXCEPT ![job[s]] = offer[s].day]
  /\ maximum' = [maximum EXCEPT ![job[s]] = offer[s].maximum]
  /\ Goto(s, "reserved")
  /\ offer' = [offer EXCEPT ![s] = NoOffer]
  /\ UNCHANGED <<job, cost>>

\* reserve is denied or granted, for a request the service holds.
LEMMA ReserveEnds ==
  ASSUME TypeOK, NEW s \in Services, Reserve(s)
  PROVE  /\ phase[s] = "quoted" /\ job[s] \in Requests
         /\ offer[s].day \in Nat /\ offer[s].maximum \in Nat
         /\ UNCHANGED <<today, actual, disabled, policyVars, posts, charged>>
         /\ Denied(s) \/ Granted(s)
BY DEF TypeOK, OnNetwork, Reserve, Denied, Granted

\* Every step keeps the types.
LEMMA TypeInductive == TypeOK /\ [Next]_vars => TypeOK'
<1> SUFFICES ASSUME TypeOK, [Next]_vars PROVE TypeOK'
  OBVIOUS
<1> USE ConstantsTyped DEF TypeOK, OnNetwork, NoOffer, Unknown
<1>1. CASE Midnight
  BY <1>1 DEF Midnight, rowVars, policyVars, serviceVars
<1>2. ASSUME NEW s \in Services, NEW r \in Requests, NEW q \in Quotes, Quote(s, r, q)
      PROVE TypeOK'
  BY <1>2 DEF Quote, Goto, rowVars, policyVars
<1>3. ASSUME NEW s \in Services, Reserve(s) PROVE TypeOK'
  <2>1. job[s] \in Requests /\ offer[s].day \in Nat /\ offer[s].maximum \in Nat
    BY <1>3, ReserveEnds
  <2>2. CASE Denied(s)
    BY <1>3, <2>1, <2>2, ReserveEnds DEF Denied, Finish, Goto, policyVars
  <2>3. CASE Granted(s)
    BY <1>3, <2>1, <2>3, ReserveEnds DEF Granted, Goto, policyVars
  <2> QED
    BY <1>3, <2>2, <2>3, ReserveEnds
<1>4. ASSUME NEW s \in Services, ReleaseNotSent(s) PROVE TypeOK'
  BY <1>4 DEF ReleaseNotSent, Goto, Finish, policyVars
<1>5. ASSUME NEW s \in Services, MarkSent(s) PROVE TypeOK'
  BY <1>5 DEF MarkSent, Goto, policyVars
<1>6. ASSUME NEW s \in Services, NEW c \in Charges, Post(s, c) PROVE TypeOK'
  BY <1>6 DEF Post, Goto, rowVars, policyVars
<1>7. ASSUME NEW s \in Services, SettleUnknown(s) PROVE TypeOK'
  BY <1>7 DEF SettleUnknown, Retain, Goto, Finish, policyVars
<1>8. ASSUME NEW s \in Services, Settle(s) PROVE TypeOK'
  BY <1>8 DEF Settle, Goto, Finish, policyVars
<1>9. ASSUME NEW s \in Services, AccountingFails(s) \/ GiveUp(s) \/ Consume(s) \/ Restart(s)
      PROVE TypeOK'
  <2>1. PICK p \in {"idle", "delivered", "failed"} :
          Finish(s, p) /\ UNCHANGED <<today, rowVars, disabled, latestDay, policyVars, posts, charged>>
    BY <1>9 DEF AccountingFails, GiveUp, Consume, Restart, Forget
  <2> QED
    BY <2>1 DEF Finish, Goto, rowVars, policyVars
<1>10. ASSUME NEW e \in Editors, Review(e) PROVE TypeOK'
  BY <1>10 DEF Review, rowVars, serviceVars
<1>11. ASSUME NEW e \in Editors, NEW new \in Proposals, UpdatePolicy(e, new) PROVE TypeOK'
  BY <1>11 DEF UpdatePolicy, Valid, KeepDisabled, rowVars, serviceVars
<1>12. ASSUME NEW e \in Editors, NEW new \in Proposals, NEW d \in Documents,
              UpdateSettings(e, new, d)
       PROVE TypeOK'
  BY <1>12 DEF UpdateSettings, Valid, KeepDisabled, rowVars, serviceVars
<1>13. CASE UNCHANGED vars
  BY <1>13 DEF vars, rowVars, policyVars, serviceVars
<1> QED
  BY <1>1, <1>2, <1>3, <1>4, <1>5, <1>6, <1>7, <1>8, <1>9, <1>10, <1>11, <1>12, <1>13
     DEF Next, Serve, Edit

\* Nothing a row says changes unless a service or the provider moves.
LEMMA RowsUntouched ==
  ASSUME RowsConsistent, UNCHANGED <<rowVars, disabled, latestDay, serviceVars, posts>>
  PROVE  RowsConsistent'
BY DEF RowsConsistent, Owns, rowVars, serviceVars

\* A service that lets go of its row leaves the others theirs.
LEMMA LettingGo ==
  ASSUME Consistent, NEW s \in Services, NEW p \in {"idle", "delivered", "failed"},
         Finish(s, p), UNCHANGED <<rowVars, disabled, latestDay, posts>>
  PROVE  RowsConsistent'
BY DEF Consistent, TypeOK, RowsConsistent, Owns, Finish, Goto, rowVars

\* Every step keeps the rows consistent.
LEMMA RowsInductive == Consistent /\ [Next]_vars => RowsConsistent'
<1> SUFFICES ASSUME Consistent, [Next]_vars PROVE RowsConsistent'
  OBVIOUS
<1>0. TypeOK /\ TypeOK'
  BY TypeInductive DEF Consistent
<1>1. CASE Midnight
  BY <1>1, RowsUntouched DEF Consistent, Midnight, serviceVars
<1>2. ASSUME NEW s \in Services, NEW r \in Requests, NEW q \in Quotes, Quote(s, r, q)
      PROVE RowsConsistent'
  BY <1>0, <1>2 DEF Consistent, TypeOK, RowsConsistent, Owns, Quote, Goto, rowVars
<1>3. ASSUME NEW s \in Services, Reserve(s) PROVE RowsConsistent'
  <2>1. CASE Denied(s)
    <3>1. \A t \in Services : Owns(t)' => /\ Owns(t) /\ t # s
                                         /\ phase'[t] = phase[t] /\ job'[t] = job[t]
                                         /\ cost'[t] = cost[t]
      BY <1>0, <2>1 DEF TypeOK, Owns, Denied, Finish, Goto
    <3>2. latestDay <= latestDay'
      BY <1>0, <2>1 DEF TypeOK, Denied, Current, Unknown
    <3>3. UNCHANGED <<state, day, maximum, actual, disabled, posts>>
      BY <1>0, <1>3, <2>1, ReserveEnds DEF Denied
    <3> QED
      BY <1>0, <3>1, <3>2, <3>3 DEF Consistent, TypeOK, RowsConsistent, Unknown
  <2>2. CASE Granted(s)
    <3> DEFINE r == job[s]
    <3>1. /\ r \in Requests /\ offer[s].day \in Nat /\ offer[s].maximum \in Nat
          /\ state[r] = "none" /\ latestDay <= offer[s].day /\ latestDay' = offer[s].day
          /\ state' = [state EXCEPT ![r] = "reserved"]
          /\ day' = [day EXCEPT ![r] = offer[s].day]
          /\ maximum' = [maximum EXCEPT ![r] = offer[s].maximum]
          /\ UNCHANGED <<job, cost, actual, posts, disabled>>
      BY <1>0, <1>3, <2>2, ReserveEnds DEF Granted, Fresh, Current
    <3>2. \A t \in Services : /\ Owns(t)' => t = s \/ Owns(t)
                              /\ t # s => phase'[t] = phase[t]
      BY <1>0, <2>2 DEF TypeOK, Owns, Granted, Goto
    <3>3. \A t \in Services : Owns(t) => state[job[t]] # "none" /\ job[t] # r
      BY <1>0, <3>1 DEF Consistent, RowsConsistent, Owns, TypeOK, OnNetwork
    <3>4. phase'[s] = "reserved"
      BY <1>0, <2>2 DEF TypeOK, Granted, Goto
    <3>5. actual[r] = Unknown /\ posts[r] = 0
      BY <1>0, <3>1 DEF Consistent, RowsConsistent
    <3>6. \A t \in Services : Owns(t)' /\ t # s =>
            /\ Owns(t) /\ job'[t] = job[t] /\ job[t] \in Requests /\ job[t] # r
            /\ phase'[t] = phase[t] /\ cost'[t] = cost[t]
      <4> SUFFICES ASSUME NEW t \in Services, Owns(t)', t # s
                   PROVE  /\ Owns(t) /\ job'[t] = job[t] /\ job[t] \in Requests /\ job[t] # r
                          /\ phase'[t] = phase[t] /\ cost'[t] = cost[t]
        OBVIOUS
      <4>1. Owns(t) /\ phase'[t] = phase[t] /\ job[t] # r
        BY <3>2, <3>3
      <4>2. job[t] \in Requests
        BY <1>0, <4>1 DEF TypeOK, Owns, OnNetwork
      <4> QED
        BY <3>1, <4>1, <4>2
    <3> HIDE DEF r
    <3>7. \A q \in Requests : q # r => state'[q] = state[q] /\ day'[q] = day[q] /\ maximum'[q] = maximum[q]
      BY <1>0, <3>1 DEF TypeOK
    <3>8. job'[s] = r /\ state'[r] = "reserved" /\ day'[r] = offer[s].day
          /\ maximum'[r] = offer[s].maximum
      BY <1>0, <3>1 DEF TypeOK, r
    <3>9. ASSUME NEW t \in Services, Owns(t)'
          PROVE  /\ phase'[t] = "reserved" => state'[job'[t]] = "reserved"
                 /\ phase'[t] \in {"marked", "posted"} => state'[job'[t]] = "sent"
                 /\ phase'[t] = "unanswered" => state'[job'[t]] \in {"reserved", "sent"}
                 /\ phase'[t] # "posted" => posts'[job'[t]] = 0
                 /\ phase'[t] = "posted" => cost'[t] # Unknown
      <4>1. CASE t = s
        BY <3>1, <3>4, <3>5, <3>8, <4>1
      <4>2. CASE t # s
        <5>1. /\ Owns(t) /\ job'[t] = job[t] /\ state'[job[t]] = state[job[t]]
              /\ posts'[job[t]] = posts[job[t]] /\ phase'[t] = phase[t] /\ cost'[t] = cost[t]
          BY <3>1, <3>6, <3>7, <3>9, <4>2
        <5> QED
          BY <5>1 DEF Consistent, RowsConsistent
      <4> QED
        BY <4>1, <4>2
    <3>10. ASSUME NEW t \in Services, NEW u \in Services, Owns(t)', Owns(u)', job'[t] = job'[u]
           PROVE  t = u
      <4>1. t # s /\ u # s => t = u
        BY <3>6, <3>10 DEF Consistent, RowsConsistent
      <4> QED
        BY <3>6, <3>8, <3>10, <4>1
    <3>11. \A q \in Requests :
             /\ state'[q] \in {"none", "reserved", "released"} => posts'[q] = 0
             /\ actual'[q] # Unknown => state'[q] = "settled"
             /\ actual'[q] > maximum'[q] => disabled' # Nobody
             /\ state'[q] # "none" => day'[q] <= latestDay'
      BY <1>0, <3>1, <3>5, <3>7, <3>8 DEF Consistent, TypeOK, RowsConsistent, Unknown
    <3> QED
      BY <3>9, <3>10, <3>11 DEF RowsConsistent
  <2> QED
    BY <1>0, <1>3, <2>1, <2>2, ReserveEnds
<1>4. ASSUME NEW s \in Services, ReleaseNotSent(s) PROVE RowsConsistent'
  BY <1>0, <1>4
     DEF Consistent, TypeOK, RowsConsistent, Owns, OnNetwork, ReleaseNotSent, Goto, Finish, Unknown
<1>5. ASSUME NEW s \in Services, MarkSent(s) PROVE RowsConsistent'
  <2> DEFINE r == job[s]
  <2>1. PICK p \in {"marked", "unanswered"} :
          /\ phase[s] = "reserved" /\ phase' = [phase EXCEPT ![s] = p]
          /\ r \in Requests /\ state[r] = "reserved" /\ posts[r] = 0
          /\ \/ state' = [state EXCEPT ![r] = "sent"]
             \/ state' = state /\ p = "unanswered"
          /\ UNCHANGED <<day, maximum, actual, disabled, latestDay, job, cost, posts>>
    BY <1>0, <1>5 DEF Consistent, TypeOK, RowsConsistent, Owns, OnNetwork, MarkSent, Goto
  <2>2. ASSUME NEW t \in Services, t # s, Owns(t)'
        PROVE  /\ Owns(t) /\ job[t] \in Requests /\ job[t] # r
               /\ phase'[t] = phase[t] /\ job'[t] = job[t] /\ cost'[t] = cost[t]
    <3>1. UNCHANGED <<job, cost>> /\ phase'[t] = phase[t]
      BY <1>0, <2>1, <2>2 DEF TypeOK
    <3>2. Owns(s) /\ Owns(t)
      BY <2>1, <2>2, <3>1 DEF Owns
    <3>3. job[t] \in Requests
      BY <1>0, <3>2 DEF TypeOK, Owns, OnNetwork
    <3>4. job[t] # r
      BY <2>2, <3>2 DEF Consistent, RowsConsistent
    <3> QED
      BY <3>1, <3>2, <3>3, <3>4
  <2>3. phase'[s] = p /\ job'[s] = r
    BY <1>0, <2>1 DEF TypeOK
  <2> HIDE DEF r
  <2>4. \A q \in Requests : q # r => state'[q] = state[q]
    BY <1>0, <2>1 DEF TypeOK
  <2>5. state'[r] \in {"reserved", "sent"} /\ (p = "marked" => state'[r] = "sent")
    BY <1>0, <2>1 DEF TypeOK
  <2>6. ASSUME NEW t \in Services, Owns(t)'
        PROVE  /\ phase'[t] = "reserved" => state'[job'[t]] = "reserved"
               /\ phase'[t] \in {"marked", "posted"} => state'[job'[t]] = "sent"
               /\ phase'[t] = "unanswered" => state'[job'[t]] \in {"reserved", "sent"}
               /\ phase'[t] # "posted" => posts'[job'[t]] = 0
               /\ phase'[t] = "posted" => cost'[t] # Unknown
    <3>1. CASE t = s
      BY <2>1, <2>3, <2>5, <3>1
    <3>2. CASE t # s
      BY <2>1, <2>2, <2>4, <2>6, <3>2 DEF Consistent, RowsConsistent
    <3> QED
      BY <3>1, <3>2
  <2>7. ASSUME NEW t \in Services, NEW u \in Services, Owns(t)', Owns(u)', job'[t] = job'[u]
        PROVE  t = u
    <3>1. t # s /\ u # s => t = u
      BY <2>2, <2>7 DEF Consistent, RowsConsistent
    <3> QED
      BY <2>2, <2>3, <2>7, <3>1
  <2>8. \A q \in Requests :
          /\ state'[q] \in {"none", "reserved", "released"} => posts'[q] = 0
          /\ actual'[q] # Unknown => state'[q] = "settled"
          /\ actual'[q] > maximum'[q] => disabled' # Nobody
          /\ state'[q] # "none" => day'[q] <= latestDay'
    BY <1>0, <2>1, <2>4, <2>5 DEF Consistent, RowsConsistent
  <2> QED
    BY <2>6, <2>7, <2>8 DEF RowsConsistent
<1>6. ASSUME NEW s \in Services, NEW c \in Charges, Post(s, c) PROVE RowsConsistent'
  BY <1>0, <1>6, ConstantsTyped
     DEF Consistent, TypeOK, RowsConsistent, Owns, OnNetwork, Post, Goto, rowVars, Unknown
<1>7. ASSUME NEW s \in Services, SettleUnknown(s) PROVE RowsConsistent'
  BY <1>0, <1>7
     DEF Consistent, TypeOK, RowsConsistent, Owns, OnNetwork, SettleUnknown, Retain, Goto,
         Finish, Unknown
<1>8. ASSUME NEW s \in Services, Settle(s) PROVE RowsConsistent'
  BY <1>0, <1>8, ConstantsTyped
     DEF Consistent, TypeOK, RowsConsistent, Owns, OnNetwork, Settle, Overcharged, Goto,
         Finish, Unknown
<1>9. ASSUME NEW s \in Services, AccountingFails(s) \/ GiveUp(s) \/ Consume(s) \/ Restart(s)
      PROVE RowsConsistent'
  BY <1>9, LettingGo DEF AccountingFails, GiveUp, Consume, Restart, Forget
<1>10. ASSUME NEW e \in Editors, Review(e) PROVE RowsConsistent'
  BY <1>10, RowsUntouched DEF Consistent, Review
<1>11. ASSUME NEW e \in Editors, NEW new \in Proposals,
              UpdatePolicy(e, new) \/ \E d \in Documents : UpdateSettings(e, new, d)
       PROVE RowsConsistent'
  BY <1>11, RowsUntouched DEF Consistent, UpdatePolicy, UpdateSettings, KeepDisabled
<1>12. CASE UNCHANGED vars
  BY <1>12, RowsUntouched DEF Consistent, vars
<1> QED
  BY <1>1, <1>2, <1>3, <1>4, <1>5, <1>6, <1>7, <1>8, <1>9, <1>10, <1>11, <1>12
     DEF Next, Serve, Edit

\* The inductive invariant: types and rows, in every reachable state.
THEOREM ConsistentHolds == Spec => []Consistent
<1>1. Init => Consistent
  BY ConstantsTyped
     DEF Init, Consistent, TypeOK, RowsConsistent, Owns, OnNetwork, NoOffer, Unknown
<1>2. Consistent /\ [Next]_vars => Consistent'
  BY TypeInductive, RowsInductive DEF Consistent
<1> QED
  BY <1>1, <1>2, PTL DEF Spec

\* Limits, rows and locals are well typed: no stored limit exceeds a hard one.
THEOREM BudgetTypeCorrect == Spec => []TypeOK
<1>1. Consistent => TypeOK
  BY DEF Consistent
<1> QED
  BY <1>1, ConsistentHolds, PTL

\* A request is handed to the transport at most once, over all retries and crashes.
THEOREM OnePostHolds == Spec => []OnePost
<1>1. Init => OnePost
  BY DEF Init, OnePost
<1>2. Consistent /\ OnePost /\ [Next]_vars => OnePost'
  <2> SUFFICES ASSUME Consistent, OnePost, [Next]_vars PROVE OnePost'
    OBVIOUS
  <2>1. ASSUME NEW s \in Services, NEW c \in Charges, Post(s, c) PROVE OnePost'
    BY <2>1 DEF Consistent, TypeOK, RowsConsistent, Owns, OnNetwork, Post, OnePost
  <2>2. ASSUME NEW s \in Services, ~\E c \in Charges : Post(s, c), Serve(s) PROVE posts' = posts
    BY <2>2 DEF Serve, Quote, Reserve, ReleaseNotSent, MarkSent, SettleUnknown, Settle,
                AccountingFails, GiveUp, Consume, Restart, Forget
  <2>3. ASSUME NEW e \in Editors, Edit(e) PROVE posts' = posts
    BY <2>3 DEF Edit, Review, UpdatePolicy, UpdateSettings
  <2>4. CASE posts' = posts
    BY <2>4 DEF OnePost
  <2> QED
    BY <2>1, <2>2, <2>3, <2>4 DEF Next, Midnight, vars
<1> QED
  BY <1>1, <1>2, ConsistentHolds, PTL DEF Spec

\* No request that went out is ever refunded.
THEOREM PostedIsChargedHolds == Spec => []PostedIsCharged
<1>1. Consistent => PostedIsCharged
  BY DEF Consistent, TypeOK, RowsConsistent, PostedIsCharged
<1> QED
  BY <1>1, ConsistentHolds, PTL

\* Whatever is not reserve leaves the rows alone that nobody can own.
LEMMA OnlyReserveAdds ==
  ASSUME Consistent, [Next]_vars, ~\E s \in Services : Reserve(s),
         NEW r \in Requests, state[r] \notin {"reserved", "sent"}
  PROVE  state'[r] = state[r]
<1>1. ASSUME NEW s \in Services, Owns(s) PROVE job[s] # r
  BY <1>1 DEF Consistent, RowsConsistent, Owns
<1>2. ASSUME NEW s \in Services, Serve(s) PROVE state'[r] = state[r]
  <2>1. CASE Owns(s)
    BY <1>1, <1>2, <2>1
       DEF Consistent, TypeOK, Serve, Quote, ReleaseNotSent, MarkSent, Post, SettleUnknown, Retain,
           Settle, AccountingFails, GiveUp, Consume, Restart, Forget, rowVars
  <2>2. CASE ~Owns(s)
    BY <1>2, <2>2
       DEF Owns, Serve, Quote, ReleaseNotSent, MarkSent, Post, SettleUnknown, Settle,
           AccountingFails, GiveUp, Consume, Restart, Forget, rowVars
  <2> QED
    BY <2>1, <2>2
<1>3. ASSUME NEW e \in Editors, Edit(e) PROVE state' = state
  BY <1>3 DEF Edit, Review, UpdatePolicy, UpdateSettings, rowVars
<1> QED
  BY <1>2, <1>3 DEF Next, Midnight, vars, rowVars

\* A row is added in time and under no overcharge.
LEMMA AddedInTime ==
  ASSUME Consistent, [Next]_vars, NEW r \in Requests, state[r] = "none", state'[r] # "none"
  PROVE  disabled = Nobody /\ latestDay <= day'[r]
<1>1. PICK s \in Services : Reserve(s)
  BY OnlyReserveAdds
<1>2. Granted(s) /\ job[s] \in Requests
  BY <1>1, ReserveEnds DEF Consistent, Denied
<1> QED
  BY <1>2 DEF Granted, Current, Consistent, TypeOK

\* After an overcharge is settled nothing is reserved.
THEOREM OverchargeStops == Spec => OverchargeStopsSpending
<1>1. Consistent /\ [Next]_vars =>
        ((\E r \in Requests : actual[r] > maximum[r]) =>
           \A r \in Requests : state[r] = "none" => state'[r] = "none")
  BY AddedInTime DEF Consistent, RowsConsistent
<1> QED
  BY <1>1, ConsistentHolds, PTL DEF Spec, OverchargeStopsSpending

\* No reservation is dated before one that is already there.
THEOREM DaysClose == Spec => DaysCloseForGood
<1>1. ASSUME Consistent, [Next]_vars, NEW q \in Requests, NEW r \in Requests,
             state[q] # "none", state[r] = "none", state'[r] # "none"
      PROVE  day[q] <= day'[r]
  <2>1. day[q] <= latestDay /\ latestDay <= day'[r]
    BY <1>1, AddedInTime DEF Consistent, RowsConsistent
  <2>2. day[q] \in Nat /\ latestDay \in Nat \cup {Unknown} /\ day'[r] \in Nat
    BY <1>1, TypeInductive DEF Consistent, TypeOK
  <2> QED
    BY <2>1, <2>2 DEF Unknown
<1>2. Consistent /\ [Next]_vars =>
        \A q, r \in Requests :
          state[q] # "none" /\ state[r] = "none" /\ state'[r] # "none" => day[q] <= day'[r]
  BY <1>1
<1> QED
  BY <1>2, ConsistentHolds, PTL DEF Spec, DaysCloseForGood
----------------------------------------------------------------------------
(* The call limit.                                                         *)

CallsCommitted == \A i \in Range(IncidentOf) : Cardinality(OfIncident(i)) <= HardCalls

\* Sets of requests are finite.
LEMMA RequestsFinite == \A S \in SUBSET Requests : IsFiniteSet(S) /\ Cardinality(S) \in Nat
BY BudgetAssumption, FS_Subset, FS_CardinalityType

\* A step that adds no row to an incident cannot push it over its limit.
LEMMA FewerCalls ==
  ASSUME CallsCommitted, NEW i \in Range(IncidentOf), OfIncident(i)' \subseteq OfIncident(i)
  PROVE  Cardinality(OfIncident(i)') <= HardCalls
<1>1. IsFiniteSet(OfIncident(i)) /\ Cardinality(OfIncident(i)) \in Nat
  BY RequestsFinite DEF OfIncident
<1>2. Cardinality(OfIncident(i)') \in Nat /\ Cardinality(OfIncident(i)') <= Cardinality(OfIncident(i))
  BY <1>1, FS_Subset, RequestsFinite DEF OfIncident
<1> QED
  BY <1>1, <1>2, ConstantsTyped DEF CallsCommitted

\* Every step keeps the calls of every incident within the hard limit.
LEMMA CallsInductive == Consistent /\ CallsCommitted /\ [Next]_vars => CallsCommitted'
<1> SUFFICES ASSUME Consistent, CallsCommitted, [Next]_vars, NEW i \in Range(IncidentOf)
             PROVE  Cardinality(OfIncident(i)') <= HardCalls
  BY DEF CallsCommitted, OfIncident
<1>1. ASSUME NEW s \in Services, Reserve(s) PROVE Cardinality(OfIncident(i)') <= HardCalls
  <2>1. CASE Denied(s)
    BY <2>1, FewerCalls DEF Denied, OfIncident, Counted
  <2>2. CASE Granted(s)
    <3> DEFINE r == job[s]
    <3>1. r \in Requests /\ Affordable(r, offer[s].day, offer[s].maximum)
      BY <1>1, <2>2, ReserveEnds DEF Consistent, Granted
    <3>2. \A q \in Requests : Counted(q)' => Counted(q) \/ q = r
      BY <2>2, <3>1 DEF Granted, Counted, Consistent, TypeOK
    <3>3. CASE IncidentOf[r] # i
      BY <3>2, <3>3, FewerCalls DEF OfIncident
    <3>4. CASE IncidentOf[r] = i
      <4>1. OfIncident(i)' \subseteq OfIncident(i) \cup {r}
        BY <3>2 DEF OfIncident
      <4>2. IsFiniteSet(OfIncident(i)) /\ Cardinality(OfIncident(i)) \in Nat
        BY RequestsFinite DEF OfIncident
      <4>3. /\ IsFiniteSet(OfIncident(i) \cup {r})
            /\ Cardinality(OfIncident(i) \cup {r}) <= Cardinality(OfIncident(i)) + 1
            /\ Cardinality(OfIncident(i) \cup {r}) \in Nat
        <5>1. /\ IsFiniteSet(OfIncident(i) \cup {r})
              /\ \/ Cardinality(OfIncident(i) \cup {r}) = Cardinality(OfIncident(i))
                 \/ Cardinality(OfIncident(i) \cup {r}) = Cardinality(OfIncident(i)) + 1
          BY <4>2, FS_AddElement
        <5> QED
          BY <4>2, <5>1
      <4>4. /\ Cardinality(OfIncident(i)') \in Nat
            /\ Cardinality(OfIncident(i)') <= Cardinality(OfIncident(i) \cup {r})
        BY <4>1, <4>3, FS_Subset, FS_CardinalityType
      <4>5. Cardinality(OfIncident(i)) < limits.calls
        BY <3>1, <3>4 DEF Affordable
      <4>6. limits.calls \in 0..HardCalls
        BY DEF Consistent, TypeOK, Limits
      <4> QED
        BY <4>2, <4>3, <4>4, <4>5, <4>6, ConstantsTyped
    <3> QED
      BY <3>3, <3>4
  <2> QED
    BY <1>1, <2>1, <2>2, ReserveEnds DEF Consistent
<1>2. CASE ~\E s \in Services : Reserve(s)
  <2>1. ASSUME NEW q \in Requests, Counted(q)' PROVE Counted(q)
    BY <1>2, <2>1, OnlyReserveAdds DEF Counted
  <2> QED
    BY <2>1, FewerCalls DEF OfIncident
<1> QED
  BY <1>1, <1>2

\* Whatever becomes of its replies, an incident calls at most HardCalls times.
THEOREM CallsBoundHolds == Spec => []CallsAreBounded
<1>1. Init => CallsCommitted
  <2> SUFFICES ASSUME Init, NEW i \in Range(IncidentOf) PROVE Cardinality(OfIncident(i)) <= HardCalls
    BY DEF CallsCommitted
  <2>1. OfIncident(i) = {}
    BY DEF Init, OfIncident, Counted
  <2> QED
    BY <2>1, FS_EmptySet, ConstantsTyped
<1>2. Consistent /\ CallsCommitted => CallsAreBounded
  <2> SUFFICES ASSUME Consistent, CallsCommitted, NEW i \in Range(IncidentOf)
               PROVE  Cardinality({r \in Requests : IncidentOf[r] = i /\ posts[r] > 0}) <= HardCalls
    BY DEF CallsAreBounded
  <2> DEFINE posted == {r \in Requests : IncidentOf[r] = i /\ posts[r] > 0}
  <2>1. posted \subseteq OfIncident(i)
    BY DEF Consistent, RowsConsistent, OfIncident, Counted
  <2>2. /\ IsFiniteSet(OfIncident(i)) /\ Cardinality(OfIncident(i)) \in Nat
        /\ Cardinality(posted) \in Nat
    BY RequestsFinite DEF OfIncident
  <2>3. Cardinality(posted) <= Cardinality(OfIncident(i))
    BY <2>1, <2>2, FS_Subset
  <2>4. Cardinality(OfIncident(i)) <= HardCalls
    BY DEF CallsCommitted
  <2> HIDE DEF posted
  <2>5. Cardinality(posted) <= HardCalls
    BY <2>2, <2>3, <2>4, ConstantsTyped
  <2> QED
    BY <2>5 DEF posted
<1> QED
  BY <1>1, <1>2, CallsInductive, ConsistentHolds, PTL DEF Spec
----------------------------------------------------------------------------
(* Sums over finite sets: the induction is on the cardinality of a least  *)
(* counterexample.                                                         *)

\* A nonempty set of naturals has a least element.
LEMMA LeastNat ==
  ASSUME NEW T, T \subseteq Nat, T # {}
  PROVE  \E x \in T : \A y \in T : x <= y
<1> DEFINE R == OpToRel(<, Nat)
<1>1. IsWellFoundedOn(R, Nat)
  BY NatLessThanWellFounded
<1>2. \A x, y \in Nat : y < x => <<y, x>> \in R
  BY DEF OpToRel
<1> HIDE DEF R
<1>3. PICK x \in T : \A y \in T : <<y, x>> \notin R
  BY <1>1, WFMin
<1>4. ASSUME NEW y \in T PROVE x <= y
  <2>1. x \in Nat /\ y \in Nat /\ ~(y < x)
    BY <1>2, <1>3
  <2> QED
    BY <2>1
<1> QED
  BY <1>4

\* A nonempty collection of finite sets has a member of least cardinality.
LEMMA SmallestSet ==
  ASSUME NEW C, C # {}, \A S \in C : IsFiniteSet(S)
  PROVE  \E S \in C : \A U \in C : Cardinality(S) <= Cardinality(U)
<1> DEFINE T == {Cardinality(S) : S \in C}
<1>1. T \subseteq Nat /\ T # {}
  BY FS_CardinalityType
<1>2. PICK n \in T : \A m \in T : n <= m
  BY <1>1, LeastNat
<1> QED
  BY <1>2

(* What Sum folds: g adds f up over every subset of Q.                     *)
Pick(s) == CHOOSE x \in s : TRUE

Adds(g, f, Q) == g = [s \in SUBSET Q |-> IF s = {} THEN 0 ELSE f[Pick(s)] + g[s \ {Pick(s)}]]

\* Sum is such a g, if there is one.
LEMMA SumUnfolds ==
  ASSUME NEW f, NEW Q, NEW g, Adds(g, f, Q)
  PROVE  \E h : Adds(h, f, Q) /\ Sum(f, Q) = h[Q]
<1> DEFINE h == CHOOSE k : Adds(k, f, Q)
<1>1. Adds(h, f, Q)
  BY DEF Adds
<1>2. Sum(f, Q) = h[Q]
  BY DEF Sum, FoldFunctionOnSet, MapThenFoldSet, Adds, Pick
<1> QED
  BY <1>1, <1>2

\* Two of them agree where both are defined.
LEMMA AddersAgree ==
  ASSUME NEW f, NEW P, NEW Q, P \subseteq Q, IsFiniteSet(Q), NEW g, NEW h,
         Adds(g, f, P), Adds(h, f, Q)
  PROVE  \A s \in SUBSET P : g[s] = h[s]
<1> DEFINE C == {s \in SUBSET P : g[s] # h[s]}
<1> SUFFICES ASSUME C # {} PROVE FALSE
  OBVIOUS
<1>1. \A s \in C : IsFiniteSet(s)
  BY FS_Subset
<1>2. PICK s \in C : \A u \in C : Cardinality(s) <= Cardinality(u)
  BY <1>1, SmallestSet
<1>3. s # {}
  BY DEF Adds
<1>4. Pick(s) \in s /\ s \ {Pick(s)} \in SUBSET P
  BY <1>3 DEF Pick
<1>5. Cardinality(s \ {Pick(s)}) = Cardinality(s) - 1 /\ Cardinality(s) \in Nat
      /\ Cardinality(s \ {Pick(s)}) \in Nat
  BY <1>1, <1>4, FS_RemoveElement, FS_CardinalityType, FS_Subset
<1>6. g[s \ {Pick(s)}] = h[s \ {Pick(s)}]
  BY <1>2, <1>4, <1>5
<1>7. g[s] = f[Pick(s)] + g[s \ {Pick(s)}]
  BY <1>3 DEF Adds
<1>8. h[s] = f[Pick(s)] + h[s \ {Pick(s)}]
  BY <1>3 DEF Adds
<1> QED
  BY <1>6, <1>7, <1>8

\* There is one for every finite set of naturals.
LEMMA AdderExists ==
  ASSUME NEW Q, IsFiniteSet(Q), NEW f, \A x \in Q : f[x] \in Nat
  PROVE  \E g \in [SUBSET Q -> Nat] : Adds(g, f, Q)
<1> DEFINE Level(n) == {s \in SUBSET Q : Cardinality(s) <= n}
           Partial(g, n) ==
             /\ g \in [Level(n) -> Nat]
             /\ \A s \in Level(n) : g[s] = IF s = {} THEN 0 ELSE f[Pick(s)] + g[s \ {Pick(s)}]
           Built(n) == \E g : Partial(g, n)
           Bad == {n \in Nat : ~Built(n)}
<1>0. \A s \in SUBSET Q : IsFiniteSet(s) /\ Cardinality(s) \in Nat
  BY FS_Subset, FS_CardinalityType
<1>1. Built(0)
  <2>1. \A s \in Level(0) : s = {}
    BY <1>0, FS_EmptySet
  <2>2. Partial([s \in Level(0) |-> 0], 0)
    BY <2>1
  <2> QED
    BY <2>2
<1>2. ASSUME NEW n \in Nat, n # 0, Built(n - 1) PROVE Built(n)
  <2>1. PICK g : Partial(g, n - 1)
    BY <1>2
  <2>2. ASSUME NEW s \in Level(n), s # {}
        PROVE  Pick(s) \in s /\ s \ {Pick(s)} \in Level(n - 1)
    <3>1. Pick(s) \in s
      BY <2>2 DEF Pick
    <3>2. Cardinality(s \ {Pick(s)}) = Cardinality(s) - 1
      BY <1>0, <3>1, FS_RemoveElement
    <3> QED
      BY <1>0, <1>2, <3>1, <3>2
  <2> DEFINE h == [s \in Level(n) |-> IF s = {} THEN 0 ELSE f[Pick(s)] + g[s \ {Pick(s)}]]
  <2>3. Level(n - 1) \subseteq Level(n)
    BY <1>0, <1>2
  <2>4. \A s \in Level(n - 1) : h[s] = g[s]
    BY <2>1, <2>3
  <2>5. ASSUME NEW s \in Level(n), s # {} PROVE f[Pick(s)] + g[s \ {Pick(s)}] \in Nat
    <3>1. f[Pick(s)] \in Nat /\ g[s \ {Pick(s)}] \in Nat
      BY <2>1, <2>2, <2>5
    <3> QED
      BY <3>1
  <2>6. h \in [Level(n) -> Nat]
    BY <2>5
  <2>7. ASSUME NEW s \in Level(n)
        PROVE h[s] = IF s = {} THEN 0 ELSE f[Pick(s)] + h[s \ {Pick(s)}]
    BY <2>2, <2>4
  <2>8. Partial(h, n)
    BY <2>6, <2>7
  <2> QED
    BY <2>8
<1> HIDE DEF Built
<1>3. \A n \in Nat : Built(n)
  <2> SUFFICES ASSUME Bad # {} PROVE FALSE
    OBVIOUS
  <2>1. PICK n \in Bad : \A m \in Bad : n <= m
    BY LeastNat
  <2>2. n \in Nat /\ ~Built(n) /\ n # 0
    BY <1>1
  <2>3. n - 1 \in Nat /\ ~(n <= n - 1)
    BY <2>2
  <2>4. Built(n - 1)
    BY <2>1, <2>3
  <2> QED
    BY <1>2, <2>2, <2>4
<1> DEFINE N == Cardinality(Q)
<1>4. PICK g : Partial(g, N)
  BY <1>0, <1>3 DEF Built
<1>5. Level(N) = SUBSET Q
  BY <1>0, FS_Subset, FS_CardinalityType
<1>6. g \in [SUBSET Q -> Nat] /\ Adds(g, f, Q)
  BY <1>4, <1>5 DEF Adds
<1> QED
  BY <1>6

\* A sum of naturals is a natural, taken one element at a time.
LEMMA SumEquation ==
  ASSUME NEW S, IsFiniteSet(S), NEW f, \A x \in S : f[x] \in Nat
  PROVE  /\ Sum(f, S) \in Nat
         /\ S = {} => Sum(f, S) = 0
         /\ S # {} => Pick(S) \in S /\ Sum(f, S) = f[Pick(S)] + Sum(f, S \ {Pick(S)})
<1>1. PICK g \in [SUBSET S -> Nat] : Adds(g, f, S)
  BY AdderExists
<1>2. ASSUME NEW s \in SUBSET S PROVE Sum(f, s) = g[s]
  <2>1. IsFiniteSet(s) /\ \A x \in s : f[x] \in Nat
    BY FS_Subset
  <2>2. PICK k : Adds(k, f, s)
    BY <2>1, AdderExists
  <2>3. PICK h : Adds(h, f, s) /\ Sum(f, s) = h[s]
    BY <2>2, SumUnfolds
  <2> QED
    BY <1>1, <2>3, AddersAgree
<1>3. S # {} => Pick(S) \in S
  BY DEF Pick
<1>4. g[S] = IF S = {} THEN 0 ELSE f[Pick(S)] + g[S \ {Pick(S)}]
  BY <1>1 DEF Adds
<1>5. Sum(f, S) = g[S] /\ Sum(f, S \ {Pick(S)}) = g[S \ {Pick(S)}]
  BY <1>2
<1> QED
  BY <1>1, <1>3, <1>4, <1>5

\* In any order.
LEMMA SumRemove ==
  ASSUME NEW Q, IsFiniteSet(Q), NEW f, \A x \in Q : f[x] \in Nat, NEW a \in Q
  PROVE  Sum(f, Q) = f[a] + Sum(f, Q \ {a})
<1> DEFINE Ordered(S) == \A x \in S : Sum(f, S) = f[x] + Sum(f, S \ {x})
           C == {S \in SUBSET Q : ~Ordered(S)}
<1>1. \A S \in SUBSET Q : IsFiniteSet(S) /\ Cardinality(S) \in Nat
  BY FS_Subset, FS_CardinalityType
<1>2. ASSUME NEW S \in SUBSET Q, \A U \in SUBSET Q : Cardinality(U) < Cardinality(S) => Ordered(U)
      PROVE  Ordered(S)
  <2> SUFFICES ASSUME NEW x \in S PROVE Sum(f, S) = f[x] + Sum(f, S \ {x})
    OBVIOUS
  <2> DEFINE p == Pick(S)
  <2>1. p \in S /\ Sum(f, S) = f[p] + Sum(f, S \ {p})
    BY <1>1, SumEquation
  <2> HIDE DEF p
  <2>2. CASE p = x
    BY <2>1, <2>2
  <2>3. CASE p # x
    <3>1. \A y \in S : Cardinality(S \ {y}) < Cardinality(S)
      BY <1>1, FS_RemoveElement
    <3>2. Sum(f, S \ {p}) = f[x] + Sum(f, (S \ {p}) \ {x})
      BY <1>2, <2>1, <2>3, <3>1
    <3>3. Sum(f, S \ {x}) = f[p] + Sum(f, (S \ {x}) \ {p})
      BY <1>2, <2>1, <2>3, <3>1
    <3>4. (S \ {p}) \ {x} = (S \ {x}) \ {p}
      OBVIOUS
    <3>5. f[p] \in Nat /\ f[x] \in Nat /\ Sum(f, (S \ {p}) \ {x}) \in Nat
      BY <1>1, <2>1, SumEquation
    <3> QED
      BY <2>1, <3>2, <3>3, <3>4, <3>5
  <2> QED
    BY <2>2, <2>3
<1>3. C = {}
  <2> SUFFICES ASSUME C # {} PROVE FALSE
    OBVIOUS
  <2> HIDE DEF Ordered
  <2>1. PICK S \in C : \A U \in C : Cardinality(S) <= Cardinality(U)
    BY <1>1, SmallestSet
  <2> QED
    BY <1>1, <1>2, <2>1
<1> QED
  BY <1>3

\* A sum grows with its terms and its set.
LEMMA SumCovers ==
  ASSUME NEW A, IsFiniteSet(A), NEW f, \A x \in A : f[x] \in Nat,
         NEW B, IsFiniteSet(B), NEW g, \A x \in B : g[x] \in Nat,
         \A x \in A : f[x] = 0 \/ (x \in B /\ f[x] <= g[x])
  PROVE  Sum(f, A) <= Sum(g, B)
<1> DEFINE Covers(U, S) == \A x \in S : f[x] = 0 \/ (x \in U /\ f[x] <= g[x])
           Below(S) == \A U \in SUBSET B : Covers(U, S) => Sum(f, S) <= Sum(g, U)
           C == {S \in SUBSET A : ~Below(S)}
<1>1. \A S \in SUBSET A : IsFiniteSet(S) /\ Cardinality(S) \in Nat
  BY FS_Subset, FS_CardinalityType
<1>2. \A U \in SUBSET B : IsFiniteSet(U)
  BY FS_Subset
<1>3. ASSUME NEW S \in SUBSET A, \A T \in SUBSET A : Cardinality(T) < Cardinality(S) => Below(T)
      PROVE  Below(S)
  <2> SUFFICES ASSUME NEW U \in SUBSET B, Covers(U, S) PROVE Sum(f, S) <= Sum(g, U)
    OBVIOUS
  <2>1. Sum(g, U) \in Nat
    BY <1>2, SumEquation
  <2>2. CASE S = {}
    <3>1. Sum(f, S) = 0
      BY <1>1, <2>2, SumEquation
    <3> QED
      BY <2>1, <3>1
  <2>3. CASE S # {}
    <3> DEFINE p == Pick(S)
    <3>1. p \in S /\ Sum(f, S) = f[p] + Sum(f, S \ {p})
      BY <1>1, <2>3, SumEquation
    <3> HIDE DEF p
    <3>2. f[p] \in Nat /\ Sum(f, S \ {p}) \in Nat
      BY <1>1, <3>1, SumEquation
    <3>3. Below(S \ {p})
      <4>1. Cardinality(S \ {p}) < Cardinality(S)
        BY <1>1, <3>1, FS_RemoveElement
      <4> HIDE DEF Below
      <4> QED
        BY <1>3, <4>1
    <3>4. CASE f[p] = 0
      <4>1. Covers(U, S \ {p})
        OBVIOUS
      <4>2. Sum(f, S \ {p}) <= Sum(g, U)
        BY <3>3, <4>1
      <4> QED
        BY <2>1, <3>1, <3>2, <3>4, <4>2
    <3>5. CASE f[p] # 0
      <4>1. p \in U /\ f[p] <= g[p]
        BY <3>1, <3>5
      <4>2. Covers(U \ {p}, S \ {p})
        OBVIOUS
      <4>3. Sum(f, S \ {p}) <= Sum(g, U \ {p})
        BY <3>3, <4>2
      <4>4. Sum(g, U) = g[p] + Sum(g, U \ {p}) /\ g[p] \in Nat /\ Sum(g, U \ {p}) \in Nat
        <5>1. IsFiniteSet(U) /\ IsFiniteSet(U \ {p}) /\ \A x \in U : g[x] \in Nat
          BY <1>2
        <5>2. Sum(g, U \ {p}) \in Nat
          <6>1. \A x \in U \ {p} : g[x] \in Nat
            BY <5>1
          <6> QED
            BY <5>1, <6>1, SumEquation
        <5>3. Sum(g, U) = g[p] + Sum(g, U \ {p})
          BY <4>1, <5>1, SumRemove
        <5> QED
          BY <4>1, <5>1, <5>2, <5>3
      <4> QED
        BY <3>1, <3>2, <4>1, <4>3, <4>4
    <3> QED
      BY <3>4, <3>5
  <2> QED
    BY <2>2, <2>3
<1>4. C = {}
  <2> SUFFICES ASSUME C # {} PROVE FALSE
    OBVIOUS
  <2> HIDE DEF Below
  <2>1. PICK S \in C : \A T \in C : Cardinality(S) <= Cardinality(T)
    BY <1>1, SmallestSet
  <2> QED
    BY <1>1, <1>3, <2>1
<1>5. Below(A)
  BY <1>4
<1> QED
  BY <1>5
----------------------------------------------------------------------------
(* The money.                                                              *)

Price == [r \in Requests |-> IF actual[r] = Unknown THEN maximum[r] ELSE actual[r]]

\* What the provider charged is known as far as the books say it is.
PricesKnown ==
  /\ \A r \in Requests : posts[r] = 0 => charged[r] = 0
  /\ \A s \in Services : phase[s] = "posted" => charged[job[s]] = cost[s]
  /\ \A r \in Requests : actual[r] # Unknown => actual[r] = charged[r]

WithinQuotes == \A r \in Requests : charged[r] <= maximum[r]

\* What the rows are counted at stays within the hard limits.
CommitmentsBounded ==
  /\ \A i \in Range(IncidentOf) : Sum(Price, OfIncident(i)) <= HardIncident
  /\ \A d \in Nat : Sum(Price, OfDay(d)) <= HardDaily

MoneyCommitted == PricesKnown /\ (WithinQuotes => CommitmentsBounded)

\* Rows have prices.
LEMMA Priced ==
  ASSUME TypeOK
  PROVE  /\ \A r \in Requests : Price[r] \in Nat
         /\ \A S \in SUBSET Requests : IsFiniteSet(S) /\ Sum(Price, S) \in Nat
<1>1. \A r \in Requests : Price[r] \in Nat
  BY DEF TypeOK, Price, Unknown
<1>2. ASSUME NEW S \in SUBSET Requests PROVE IsFiniteSet(S) /\ Sum(Price, S) \in Nat
  <2>1. IsFiniteSet(S) /\ \A x \in S : Price[x] \in Nat
    BY <1>1, RequestsFinite
  <2> QED
    BY <2>1, SumEquation
<1> QED
  BY <1>1, <1>2

\* And keep them.
LEMMA PricedNext ==
  ASSUME TypeOK', NEW S \in SUBSET Requests
  PROVE  IsFiniteSet(S) /\ Sum(Price', S) \in Nat
<1>1. IsFiniteSet(S) /\ \A x \in S : Price'[x] \in Nat
  BY RequestsFinite DEF TypeOK, Price, Unknown
<1> QED
  BY <1>1, SumEquation

\* A set of rows that lost some, or whose prices fell, costs no more.
LEMMA NoDearer ==
  ASSUME TypeOK, TypeOK', NEW S \in SUBSET Requests, NEW T \in SUBSET Requests, S \subseteq T,
         \A x \in S : Price'[x] <= Price[x]
  PROVE  Sum(Price', S) <= Sum(Price, T)
<1>1. /\ IsFiniteSet(S) /\ IsFiniteSet(T)
      /\ \A x \in S : Price'[x] \in Nat
      /\ \A x \in T : Price[x] \in Nat
  <2>1. TypeOK' => \A x \in Requests : Price'[x] \in Nat
    BY DEF TypeOK, Price, Unknown
  <2> QED
    BY <2>1, Priced
<1> QED
  BY <1>1, SumCovers

\* One more row costs its price more.
LEMMA OneDearer ==
  ASSUME TypeOK, TypeOK', NEW S \in SUBSET Requests, NEW T \in SUBSET Requests,
         NEW r \in Requests, S \subseteq T \cup {r},
         \A x \in S \ {r} : Price'[x] <= Price[x]
  PROVE  Sum(Price', S) <= Sum(Price, T) + Price'[r]
<1>0. Price'[r] \in Nat /\ \A x \in Requests : Price'[x] \in Nat
  BY DEF TypeOK, Price, Unknown
<1>1. S \ {r} \in SUBSET Requests /\ S \ {r} \subseteq T
  OBVIOUS
<1>2. Sum(Price', S \ {r}) <= Sum(Price, T)
  BY <1>1, NoDearer
<1>3. Sum(Price, T) \in Nat /\ IsFiniteSet(S) /\ IsFiniteSet(S \ {r})
  BY <1>1, Priced
<1>4. Sum(Price', S \ {r}) \in Nat
  <2>1. \A x \in S \ {r} : Price'[x] \in Nat
    BY <1>0
  <2> QED
    BY <1>3, <2>1, SumEquation
<1>5. CASE r \in S
  <2>1. \A x \in S : Price'[x] \in Nat
    BY <1>0
  <2>2. Sum(Price', S) = Price'[r] + Sum(Price', S \ {r})
    BY <1>3, <1>5, <2>1, SumRemove
  <2> QED
    BY <1>0, <1>2, <1>3, <1>4, <2>2
<1>6. CASE r \notin S
  <2>1. S \ {r} = S
    BY <1>6
  <2>2. Sum(Price', S) <= Sum(Price, T) /\ Sum(Price', S) \in Nat
    BY <1>2, <1>4, <2>1
  <2> QED
    BY <1>0, <1>3, <2>2
<1> QED
  BY <1>5, <1>6

\* Every step keeps the books of what was charged.
LEMMA PricesInductive ==
  ASSUME Consistent, PricesKnown, [Next]_vars
  PROVE  /\ PricesKnown'
         /\ WithinQuotes' => WithinQuotes
<1> USE ConstantsTyped DEF Consistent, TypeOK, PricesKnown, WithinQuotes
<1>1. ASSUME NEW s \in Services, NEW c \in Charges, Post(s, c)
      PROVE  PricesKnown' /\ (WithinQuotes' => WithinQuotes)
  BY <1>1 DEF Post, RowsConsistent, Owns, OnNetwork, Goto, rowVars, Unknown
<1>2. ASSUME NEW s \in Services, Settle(s)
      PROVE  PricesKnown' /\ (WithinQuotes' => WithinQuotes)
  BY <1>2 DEF Settle, RowsConsistent, Owns, OnNetwork, Finish, Goto, Unknown
<1>3. ASSUME NEW s \in Services, Reserve(s)
      PROVE  PricesKnown' /\ (WithinQuotes' => WithinQuotes)
  <2>1. CASE Denied(s)
    BY <1>3, <2>1, ReserveEnds DEF Denied, Finish, Goto, Unknown
  <2>2. CASE Granted(s)
    <3> DEFINE r == job[s]
    <3>1. /\ r \in Requests /\ posts[r] = 0 /\ actual[r] = Unknown
          /\ maximum' = [maximum EXCEPT ![r] = offer[s].maximum] /\ offer[s].maximum \in Nat
          /\ phase' = [phase EXCEPT ![s] = "reserved"]
          /\ UNCHANGED <<job, cost, actual, posts, charged>>
      BY <1>3, <2>2, ReserveEnds DEF Granted, Fresh, RowsConsistent, Goto
    <3> HIDE DEF r
    <3>2. PricesKnown'
      BY <3>1
    <3>3. WithinQuotes' => WithinQuotes
      BY <3>1
    <3> QED
      BY <3>2, <3>3
  <2> QED
    BY <1>3, <2>1, <2>2, ReserveEnds
<1>4. ASSUME NEW s \in Services, ReleaseNotSent(s) \/ SettleUnknown(s)
      PROVE  PricesKnown' /\ (WithinQuotes' => WithinQuotes)
  <2>1. CASE ReleaseNotSent(s)
    BY <2>1 DEF ReleaseNotSent, Finish, Goto
  <2>2. CASE SettleUnknown(s)
    BY <2>2 DEF SettleUnknown, Finish, Goto
  <2> QED
    BY <1>4, <2>1, <2>2
<1>5. ASSUME NEW s \in Services, MarkSent(s)
      PROVE  PricesKnown' /\ (WithinQuotes' => WithinQuotes)
  BY <1>5 DEF MarkSent, Goto
<1>6. ASSUME NEW s \in Services, AccountingFails(s) \/ GiveUp(s) \/ Consume(s) \/ Restart(s)
      PROVE  PricesKnown' /\ (WithinQuotes' => WithinQuotes)
  BY <1>6 DEF AccountingFails, GiveUp, Consume, Restart, Forget, Finish, Goto, rowVars
<1>7. ASSUME NEW s \in Services, NEW r \in Requests, NEW q \in Quotes, Quote(s, r, q)
      PROVE  PricesKnown' /\ (WithinQuotes' => WithinQuotes)
  BY <1>7 DEF Quote, Goto, rowVars
<1>8. CASE UNCHANGED <<rowVars, serviceVars, posts, charged>>
  BY <1>8 DEF rowVars, serviceVars
<1>9. ASSUME NEW e \in Editors, Edit(e) PROVE UNCHANGED <<rowVars, serviceVars, posts, charged>>
  BY <1>9 DEF Edit, Review, UpdatePolicy, UpdateSettings
<1> QED
  BY <1>1, <1>2, <1>3, <1>4, <1>5, <1>6, <1>7, <1>8, <1>9 DEF Next, Serve, Midnight, vars

\* Unless reserve adds it, a row that counts has counted before, for as much.
LEMMA OnlyReserveCharges ==
  ASSUME Consistent, PricesKnown, WithinQuotes, [Next]_vars, ~\E s \in Services : Reserve(s),
         NEW r \in Requests, Counted(r)'
  PROVE  Counted(r) /\ day'[r] = day[r] /\ Price'[r] <= Price[r]
<1>1. Counted(r)
  BY OnlyReserveAdds DEF Counted
<1>2. Price[r] \in Nat
  BY Priced DEF Consistent
<1>3. ASSUME NEW s \in Services, Settle(s) PROVE day' = day /\ Price'[r] <= Price[r]
  <2>1. CASE r = job[s]
    <3>1. actual[r] = Unknown /\ cost[s] \in Nat /\ cost[s] = charged[r]
      BY <1>3, <2>1
         DEF Consistent, TypeOK, RowsConsistent, PricesKnown, Settle, Owns, OnNetwork, Unknown
    <3>2. actual'[r] = cost[s] /\ UNCHANGED <<day, maximum>>
      BY <1>3, <2>1 DEF Settle, Consistent, TypeOK
    <3>3. Price[r] = maximum[r] /\ Price'[r] = cost[s]
      BY <3>1, <3>2 DEF Price, Unknown
    <3> QED
      BY <3>1, <3>2, <3>3 DEF WithinQuotes
  <2>2. CASE r # job[s]
    <3>1. actual'[r] = actual[r] /\ UNCHANGED <<day, maximum>>
      BY <1>3, <2>2 DEF Settle, Consistent, TypeOK
    <3>2. Price'[r] = Price[r]
      BY <3>1 DEF Price
    <3> QED
      BY <1>2, <3>1, <3>2
  <2> QED
    BY <2>1, <2>2
<1>4. CASE UNCHANGED <<day, maximum, actual>>
  <2>1. Price'[r] = Price[r]
    BY <1>4 DEF Price
  <2> QED
    BY <1>1, <1>2, <1>4, <2>1
<1>5. ASSUME NEW s \in Services, Serve(s), ~Settle(s) PROVE UNCHANGED <<day, maximum, actual>>
  BY <1>5
     DEF Serve, Quote, ReleaseNotSent, MarkSent, Post, SettleUnknown, AccountingFails,
         GiveUp, Consume, Restart, Forget, rowVars
<1>6. ASSUME NEW e \in Editors, Edit(e) PROVE UNCHANGED <<day, maximum, actual>>
  BY <1>6 DEF Edit, Review, UpdatePolicy, UpdateSettings, rowVars
<1> QED
  BY <1>1, <1>3, <1>4, <1>5, <1>6 DEF Next, Midnight, vars, rowVars

\* Every step keeps the commitments bounded while nobody is overcharged.
LEMMA CommitmentsInductive ==
  ASSUME Consistent, PricesKnown, WithinQuotes, CommitmentsBounded, [Next]_vars
  PROVE  CommitmentsBounded'
<1>0. TypeOK /\ TypeOK'
  BY TypeInductive DEF Consistent
<1>1. ASSUME \A r \in Requests : Counted(r)' => Counted(r) /\ day'[r] = day[r] /\ Price'[r] <= Price[r]
      PROVE  CommitmentsBounded'
  <2>1. ASSUME NEW i \in Range(IncidentOf)
        PROVE  Sum(Price', OfIncident(i)') <= HardIncident
    <3>1. OfIncident(i)' \subseteq OfIncident(i) /\ OfIncident(i) \in SUBSET Requests
      BY <1>1 DEF OfIncident
    <3>2. OfIncident(i)' \in SUBSET Requests /\ \A x \in OfIncident(i)' : Price'[x] <= Price[x]
      BY <1>1 DEF OfIncident
    <3>3. Sum(Price', OfIncident(i)') <= Sum(Price, OfIncident(i))
      BY <1>0, <3>1, <3>2, NoDearer
    <3>4. Sum(Price', OfIncident(i)') \in Nat /\ Sum(Price, OfIncident(i)) \in Nat
      BY <1>0, <3>1, <3>2, PricedNext, Priced
    <3> QED
      BY <3>3, <3>4, ConstantsTyped DEF CommitmentsBounded
  <2>2. ASSUME NEW d \in Nat
        PROVE  Sum(Price', OfDay(d)') <= HardDaily
    <3>1. OfDay(d)' \subseteq OfDay(d) /\ OfDay(d) \in SUBSET Requests
      BY <1>1 DEF OfDay
    <3>2. OfDay(d)' \in SUBSET Requests /\ \A x \in OfDay(d)' : Price'[x] <= Price[x]
      BY <1>1 DEF OfDay
    <3>3. Sum(Price', OfDay(d)') <= Sum(Price, OfDay(d))
      BY <1>0, <3>1, <3>2, NoDearer
    <3>4. Sum(Price', OfDay(d)') \in Nat /\ Sum(Price, OfDay(d)) \in Nat
      BY <1>0, <3>1, <3>2, PricedNext, Priced
    <3> QED
      BY <3>3, <3>4, ConstantsTyped DEF CommitmentsBounded
  <2> QED
    BY <2>1, <2>2 DEF CommitmentsBounded
<1>2. ASSUME NEW s \in Services, Reserve(s) PROVE CommitmentsBounded'
  <2>1. CASE Denied(s)
    <3>1. \A r \in Requests : Price[r] <= Price[r]
      BY <1>0, Priced
    <3>2. UNCHANGED <<state, day, Price>>
      BY <1>0, <1>2, <2>1, ReserveEnds DEF Denied, Price
    <3> QED
      BY <1>1, <3>1, <3>2 DEF Counted
  <2>2. CASE Granted(s)
    <3> DEFINE r == job[s]
               q == offer[s].maximum
    <3>1. /\ r \in Requests /\ q \in Nat /\ offer[s].day \in Nat
          /\ Affordable(r, offer[s].day, q) /\ Fresh(r)
          /\ state' = [state EXCEPT ![r] = "reserved"]
          /\ day' = [day EXCEPT ![r] = offer[s].day]
          /\ maximum' = [maximum EXCEPT ![r] = q]
          /\ UNCHANGED actual
      BY <1>0, <1>2, <2>2, ReserveEnds DEF Granted
    <3>2. actual[r] = Unknown
      BY <3>1 DEF Consistent, RowsConsistent, Fresh
    <3> HIDE DEF r, q
    <3>3. \A x \in Requests : x # r => /\ Counted(x)' => Counted(x)
                                       /\ day'[x] = day[x] /\ Price'[x] = Price[x]
      BY <1>0, <3>1 DEF Counted, TypeOK, Price
    <3>4. day'[r] = offer[s].day /\ Price'[r] = q
      BY <1>0, <3>1, <3>2 DEF TypeOK, Price
    <3>5. \A S \in SUBSET Requests : \A x \in S \ {r} : Price'[x] <= Price[x]
      BY <1>0, <3>3, Priced
    <3>6. limits.incident \in 0..HardIncident /\ limits.daily \in 0..HardDaily
      BY <1>0 DEF TypeOK, Limits
    <3>7. ASSUME NEW i \in Range(IncidentOf)
          PROVE  Sum(Price', OfIncident(i)') <= HardIncident
      <4>1. OfIncident(i)' \in SUBSET Requests /\ OfIncident(i) \in SUBSET Requests
        BY DEF OfIncident
      <4>2. Sum(Price', OfIncident(i)') \in Nat /\ Sum(Price, OfIncident(i)) \in Nat
        BY <1>0, <4>1, PricedNext, Priced
      <4>3. CASE IncidentOf[r] = i
        <5>1. OfIncident(i)' \subseteq OfIncident(i) \cup {r}
          BY <3>3 DEF OfIncident
        <5>2. Sum(Price', OfIncident(i)') <= Sum(Price, OfIncident(i)) + Price'[r]
          BY <1>0, <3>1, <3>5, <4>1, <5>1, OneDearer
        <5>3. Sum(Price, OfIncident(i)) + q <= limits.incident
          BY <3>1, <4>3 DEF Affordable, Committed, Price
        <5> QED
          BY <3>1, <3>4, <3>6, <4>2, <5>2, <5>3, ConstantsTyped
      <4>4. CASE IncidentOf[r] # i
        <5>1. OfIncident(i)' \subseteq OfIncident(i) /\ \A x \in OfIncident(i)' : x # r
          BY <3>3, <4>4 DEF OfIncident
        <5>2. \A x \in OfIncident(i)' : Price'[x] <= Price[x]
          BY <3>5, <4>1, <5>1
        <5>3. Sum(Price', OfIncident(i)') <= Sum(Price, OfIncident(i))
          BY <1>0, <4>1, <5>1, <5>2, NoDearer
        <5> QED
          BY <4>2, <5>3, ConstantsTyped DEF CommitmentsBounded
      <4> QED
        BY <4>3, <4>4
    <3>8. ASSUME NEW d \in Nat
          PROVE  Sum(Price', OfDay(d)') <= HardDaily
      <4>1. OfDay(d)' \in SUBSET Requests /\ OfDay(d) \in SUBSET Requests
        BY DEF OfDay
      <4>2. Sum(Price', OfDay(d)') \in Nat /\ Sum(Price, OfDay(d)) \in Nat
        BY <1>0, <4>1, PricedNext, Priced
      <4>3. CASE offer[s].day = d
        <5>1. OfDay(d)' \subseteq OfDay(d) \cup {r}
          BY <3>3 DEF OfDay
        <5>2. Sum(Price', OfDay(d)') <= Sum(Price, OfDay(d)) + Price'[r]
          BY <1>0, <3>1, <3>5, <4>1, <5>1, OneDearer
        <5>3. Sum(Price, OfDay(d)) + q <= limits.daily
          BY <3>1, <4>3 DEF Affordable, Committed, Price
        <5> QED
          BY <3>1, <3>4, <3>6, <4>2, <5>2, <5>3, ConstantsTyped
      <4>4. CASE offer[s].day # d
        <5>1. OfDay(d)' \subseteq OfDay(d) /\ \A x \in OfDay(d)' : x # r
          BY <3>3, <3>4, <4>4 DEF OfDay
        <5>2. \A x \in OfDay(d)' : Price'[x] <= Price[x]
          BY <3>5, <4>1, <5>1
        <5>3. Sum(Price', OfDay(d)') <= Sum(Price, OfDay(d))
          BY <1>0, <4>1, <5>1, <5>2, NoDearer
        <5> QED
          BY <4>2, <5>3, ConstantsTyped DEF CommitmentsBounded
      <4> QED
        BY <4>3, <4>4
    <3> QED
      BY <3>7, <3>8 DEF CommitmentsBounded
  <2> QED
    BY <1>0, <1>2, <2>1, <2>2, ReserveEnds
<1>3. CASE ~\E s \in Services : Reserve(s)
  BY <1>1, <1>3, OnlyReserveCharges
<1> QED
  BY <1>2, <1>3

\* While nobody charges more than was quoted, an incident and a day cost no
\* more than the hard limits, whatever editors save and whichever replies are lost.
THEOREM MoneyIsBoundedHolds == Spec => []MoneyIsBounded
<1>1. Init => MoneyCommitted
  <2> SUFFICES ASSUME Init PROVE MoneyCommitted
    OBVIOUS
  <2>1. PricesKnown
    BY DEF Init, PricesKnown
  <2>2. \A S \in SUBSET Requests : S = {} => Sum(Price, S) = 0
    <3>1. \A x \in {} : Price[x] \in Nat
      OBVIOUS
    <3> QED
      BY <3>1, FS_EmptySet, SumEquation
  <2>3. /\ \A i \in Range(IncidentOf) : OfIncident(i) = {}
        /\ \A d \in Nat : OfDay(d) = {}
    BY DEF Init, OfIncident, OfDay, Counted
  <2> QED
    BY <2>1, <2>2, <2>3, ConstantsTyped DEF MoneyCommitted, CommitmentsBounded
<1>2. Consistent /\ MoneyCommitted /\ [Next]_vars => MoneyCommitted'
  BY PricesInductive, CommitmentsInductive DEF MoneyCommitted
<1>3. Consistent /\ MoneyCommitted => MoneyIsBounded
  <2> SUFFICES ASSUME Consistent, MoneyCommitted, WithinQuotes, NEW q \in Requests
               PROVE  /\ Sum(charged, {r \in Requests : IncidentOf[r] = IncidentOf[q]}) <= HardIncident
                      /\ Sum(charged, {r \in Requests : day[r] = day[q]}) <= HardDaily
    BY DEF MoneyIsBounded, WithinQuotes
  <2>1. ASSUME NEW r \in Requests PROVE charged[r] = 0 \/ (Counted(r) /\ charged[r] <= Price[r])
    BY DEF Consistent, TypeOK, RowsConsistent, MoneyCommitted, PricesKnown, WithinQuotes,
           Counted, Price
  <2>2. ASSUME NEW S \in SUBSET Requests, NEW T \in SUBSET Requests,
               \A r \in S : Counted(r) => r \in T
        PROVE  /\ Sum(charged, S) <= Sum(Price, T)
               /\ Sum(charged, S) \in Nat /\ Sum(Price, T) \in Nat
    <3>1. /\ IsFiniteSet(S) /\ IsFiniteSet(T)
          /\ \A x \in S : charged[x] \in Nat
          /\ \A x \in T : Price[x] \in Nat
      BY Priced DEF Consistent, TypeOK
    <3>2. \A x \in S : charged[x] = 0 \/ (x \in T /\ charged[x] <= Price[x])
      BY <2>1, <2>2
    <3>3. Sum(charged, S) <= Sum(Price, T)
      BY <3>1, <3>2, SumCovers
    <3>4. Sum(charged, S) \in Nat /\ Sum(Price, T) \in Nat
      BY <3>1, SumEquation
    <3> QED
      BY <3>3, <3>4
  <2>3. Sum(charged, {r \in Requests : IncidentOf[r] = IncidentOf[q]}) <= HardIncident
    <3> DEFINE i == IncidentOf[q]
               S == {r \in Requests : IncidentOf[r] = i}
    <3>1. i \in Range(IncidentOf) /\ OfIncident(i) \in SUBSET Requests
          /\ \A r \in S : Counted(r) => r \in OfIncident(i)
      BY ConstantsTyped DEF OfIncident
    <3>2. /\ Sum(charged, S) <= Sum(Price, OfIncident(i))
          /\ Sum(charged, S) \in Nat /\ Sum(Price, OfIncident(i)) \in Nat
      BY <2>2, <3>1
    <3>3. Sum(Price, OfIncident(i)) <= HardIncident
      BY <3>1 DEF MoneyCommitted, CommitmentsBounded
    <3> HIDE DEF S
    <3>4. Sum(charged, S) <= HardIncident
      BY <3>2, <3>3, ConstantsTyped
    <3> QED
      BY <3>4 DEF S
  <2>4. Sum(charged, {r \in Requests : day[r] = day[q]}) <= HardDaily
    <3> DEFINE d == day[q]
               S == {r \in Requests : day[r] = d}
    <3>1. d \in Nat /\ OfDay(d) \in SUBSET Requests /\ \A r \in S : Counted(r) => r \in OfDay(d)
      BY DEF OfDay, Consistent, TypeOK
    <3>2. /\ Sum(charged, S) <= Sum(Price, OfDay(d))
          /\ Sum(charged, S) \in Nat /\ Sum(Price, OfDay(d)) \in Nat
      BY <2>2, <3>1
    <3>3. Sum(Price, OfDay(d)) <= HardDaily
      BY <3>1 DEF MoneyCommitted, CommitmentsBounded
    <3> HIDE DEF S
    <3>4. Sum(charged, S) <= HardDaily
      BY <3>2, <3>3, ConstantsTyped
    <3> QED
      BY <3>4 DEF S
  <2> QED
    BY <2>3, <2>4
<1> QED
  BY <1>1, <1>2, <1>3, ConsistentHolds, PTL DEF Spec
----------------------------------------------------------------------------
(* Settings editors.                                                       *)

\* What an editor has seen is what is stored, unless a revision moved on.
ReviewsConsistent ==
  /\ revision \in Nat /\ revision >= 1 /\ settingsRevision \in Nat /\ settingsRevision >= 1
  /\ DOMAIN seen = Editors
  /\ \A e \in Editors : seen[e] # NoReview =>
       /\ seen[e].policy \in Nat /\ seen[e].policy <= revision
       /\ seen[e].policy = revision => seen[e].limits = limits
       /\ seen[e].settings \in Nat /\ seen[e].settings <= settingsRevision
       /\ seen[e].settings = settingsRevision => seen[e].document = document

\* Every step keeps reviews consistent with the revisions.
LEMMA ReviewsInductive == ReviewsConsistent /\ [Next]_vars => ReviewsConsistent'
<1> SUFFICES ASSUME ReviewsConsistent, [Next]_vars PROVE ReviewsConsistent'
  OBVIOUS
<1>1. ASSUME NEW e \in Editors, Review(e) PROVE ReviewsConsistent'
  BY <1>1 DEF ReviewsConsistent, Review
<1>2. ASSUME NEW e \in Editors, NEW new \in Proposals, UpdatePolicy(e, new) PROVE ReviewsConsistent'
  BY <1>2 DEF ReviewsConsistent, UpdatePolicy
<1>3. ASSUME NEW e \in Editors, NEW new \in Proposals, NEW d \in Documents,
             UpdateSettings(e, new, d)
      PROVE  ReviewsConsistent'
  BY <1>3 DEF ReviewsConsistent, UpdateSettings
<1>4. CASE UNCHANGED policyVars
  BY <1>4 DEF policyVars, ReviewsConsistent
<1>5. ASSUME NEW s \in Services, Serve(s) PROVE UNCHANGED policyVars
  BY <1>5 DEF Serve, Quote, Reserve, ReleaseNotSent, MarkSent, Post, SettleUnknown, Settle,
              AccountingFails, GiveUp, Consume, Restart, Forget
<1> QED
  BY <1>1, <1>2, <1>3, <1>4, <1>5 DEF Next, Edit, Midnight, vars

\* No save overwrites limits or a document its editor has not seen.
THEOREM NoLostEdits == Spec => EditorsReplaceWhatTheyReviewed
<1> DEFINE Reviewing ==
      /\ limits' # limits =>
           \E e \in Editors : seen[e].limits = limits /\ seen'[e] = NoReview
      /\ document' # document =>
           \E e \in Editors : /\ seen[e].document = document /\ seen[e].limits = limits
                             /\ seen'[e] = NoReview
<1>1. Init => ReviewsConsistent
  BY DEF Init, ReviewsConsistent
<1>2. ASSUME ReviewsConsistent, [Next]_vars PROVE Reviewing
  <2>1. ASSUME NEW e \in Editors, NEW new \in Proposals, UpdatePolicy(e, new) PROVE Reviewing
    BY <1>2, <2>1 DEF ReviewsConsistent, UpdatePolicy
  <2>2. ASSUME NEW e \in Editors, NEW new \in Proposals, NEW d \in Documents,
               UpdateSettings(e, new, d)
        PROVE  Reviewing
    BY <1>2, <2>2 DEF ReviewsConsistent, UpdateSettings, Reviewed
  <2>3. ASSUME NEW s \in Services, Serve(s) PROVE UNCHANGED <<limits, document>>
    BY <2>3 DEF Serve, Quote, Reserve, ReleaseNotSent, MarkSent, Post, SettleUnknown, Settle,
                AccountingFails, GiveUp, Consume, Restart, Forget, policyVars
  <2>4. ASSUME NEW e \in Editors, Review(e) PROVE UNCHANGED <<limits, document>>
    BY <2>4 DEF Review
  <2> QED
    BY <1>2, <2>1, <2>2, <2>3, <2>4 DEF Next, Edit, Midnight, vars, policyVars
<1>3. ReviewsConsistent /\ [Next]_vars => Reviewing
  BY <1>2
<1> HIDE DEF Reviewing
<1>4. Spec => [][Reviewing]_vars
  BY <1>1, <1>3, ReviewsInductive, PTL DEF Spec
<1> QED
  BY <1>4 DEF Reviewing, EditorsReplaceWhatTheyReviewed
=============================================================================
