--------------------------- MODULE RecoveryBudget ---------------------------
(***************************************************************************)
(* recovery_budget.RecoveryBudget, the fleet-wide ceiling on paid model    *)
(* calls, with its two users: the RecoveryService of every worker process, *)
(* which reserves a quoted maximum, posts and settles, and the settings    *)
(* editors, which review the limits and save over what they reviewed.      *)
(*                                                                         *)
(* Each budget method is one BEGIN IMMEDIATE transaction, so one action.   *)
(* Between two of them a service may be cancelled, run out of time, fail   *)
(* to write or die; POSIX locks die with it, the accounting does not.      *)
(***************************************************************************)
EXTENDS Integers, FiniteSets, Functions

CONSTANTS
  Services,       \* service instances (one per worker process)
  WorkerOf,       \* the worker a service runs for
  Requests,       \* request ids
  OwnerOf,        \* worker whose incident a request belongs to
  IncidentOf,     \* incident of a request
  Editors,        \* settings editors (browser sessions, processes)
  Proposals,      \* limits an editor may ask for: [incident, daily, calls]
  Documents,      \* settings documents
  Quotes,         \* worst-case prices the provider quotes
  Charges,        \* prices the provider really charges
  HardIncident, HardDaily, HardCalls,
  Slots,          \* FLEET_CONCURRENCY
  MaxDay,         \* bound: calendar
  MaxRevision,    \* bound: saves
  Nobody

Unknown == -1
Limits  == [incident : 0..HardIncident, daily : 0..HardDaily, calls : 0..HardCalls]

ASSUME BudgetAssumption ==
  /\ OwnerOf \in [Requests -> Range(WorkerOf)] /\ DOMAIN WorkerOf = Services
  /\ DOMAIN IncidentOf = Requests
  /\ Quotes \subseteq Nat /\ Charges \subseteq Nat
  /\ HardIncident \in Nat /\ HardDaily \in Nat /\ HardCalls \in Nat
  /\ Proposals \subseteq [incident : Nat, daily : Nat, calls : Nat]
  /\ Slots \in Nat /\ MaxDay \in Nat /\ MaxRevision \in Nat
  /\ IsFiniteSet(Requests) /\ Nobody \notin Requests

VARIABLES
  today,                          \* UTC date
  state, day, maximum, actual,    \* recovery_reservations
  limits, revision, disabled, latestDay,        \* recovery_policy
  document, settingsRevision,     \* recovery_settings
  phase, job, offer, cost, \* services
  seen,                           \* what an editor last read
  posts, charged                  \* at the provider: POSTs and their real price

rowVars     == <<state, day, maximum, actual>>
policyVars  == <<limits, revision, document, settingsRevision, seen>>
serviceVars == <<phase, job, offer, cost>>
vars        == <<today, rowVars, disabled, latestDay, policyVars, serviceVars,
                 posts, charged>>

NoOffer  == [maximum |-> 0, day |-> 0]
NoReview == [document |-> Unknown, settings |-> 0, limits |-> Nobody, policy |-> 0]

Sum(f, S) == FoldFunctionOnSet(LAMBDA x, y : x + y, 0, f, S)

\* COALESCE(actual, maximum) of the rows a ceiling is computed from.
Committed(S) == Sum([r \in Requests |-> IF actual[r] = Unknown THEN maximum[r] ELSE actual[r]], S)
CountedMutant(r) == state[r] \in {"reserved", "sent", "settled"}
Counted(r)   == state[r] \notin {"none", "released"}
OfIncident(i) == {r \in Requests : Counted(r) /\ IncidentOf[r] = i}
OfDay(d)      == {r \in Requests : Counted(r) /\ day[r] = d}

\* _limits: nothing above the hard limits is ever stored.
Valid(new) == new \in Limits

Init ==
  /\ today = 0
  /\ state = [r \in Requests |-> "none"] /\ day = [r \in Requests |-> 0]
  /\ maximum = [r \in Requests |-> 0] /\ actual = [r \in Requests |-> Unknown]
  /\ limits \in Proposals \cap Limits /\ revision = 1 /\ disabled = Nobody /\ latestDay = Unknown
  /\ document \in Documents /\ settingsRevision = 1
  /\ phase = [s \in Services |-> "idle"] /\ job = [s \in Services |-> Nobody]
  /\ offer = [s \in Services |-> NoOffer]
  /\ cost = [s \in Services |-> Unknown]
  /\ seen = [e \in Editors |-> NoReview]
  /\ posts = [r \in Requests |-> 0] /\ charged = [r \in Requests |-> 0]

Midnight ==
  /\ today < MaxDay
  /\ today' = today + 1
  /\ UNCHANGED <<rowVars, disabled, latestDay, policyVars, serviceVars, posts, charged>>
----------------------------------------------------------------------------
(* A service: submit, _FleetSlots.acquire, _execute, poll.                 *)

Goto(s, p) == phase' = [phase EXCEPT ![s] = p]

\* The worker lock is kept until the reply is consumed or expires, a fleet
\* slot only while _execute runs.
OnNetwork(s)   == phase[s] \notin {"idle", "delivered", "failed"}
HoldsWorker(s) == OnNetwork(s) \/ phase[s] = "delivered"
SlotFree(s) ==
  /\ \A t \in Services : HoldsWorker(t) => WorkerOf[t] # WorkerOf[s]
  /\ Cardinality({t \in Services : OnNetwork(t)}) < Slots

\* submit, the locks and the provider's quote; the date is read with the quote,
\* before reserve's write lock.  A busy slot is answered with nothing done.
Quote(s, r, q) ==
  /\ phase[s] = "idle" /\ OwnerOf[r] = WorkerOf[s]
  /\ SlotFree(s)
  /\ Goto(s, "quoted")
  /\ job' = [job EXCEPT ![s] = r]
  /\ offer' = [offer EXCEPT ![s] = [maximum |-> q, day |-> today]]
  /\ UNCHANGED <<today, rowVars, disabled, latestDay, policyVars, cost, posts, charged>>

\* _execute returns, its locals gone.
Finish(s, p) ==
  /\ Goto(s, p)
  /\ job' = [job EXCEPT ![s] = Nobody]
  /\ offer' = [offer EXCEPT ![s] = NoOffer]
  /\ cost' = [cost EXCEPT ![s] = Unknown]

\* reserve: a request id that is on disk is refused, whatever became of it.
FreshMutant(r) == state[r] \in {"none", "uncertain"}
Fresh(r) == state[r] = "none"

Current(d) == d >= latestDay

Affordable(r, d, q) ==
  LET incident == OfIncident(IncidentOf[r]) IN
  /\ Cardinality(incident) < limits.calls
  /\ Committed(incident) + q <= limits.incident
  /\ Committed(OfDay(d)) + q <= limits.daily

\* latest_day is written before the limits are looked at, and even if they refuse.
Reserve(s) ==
  LET r == job[s]
      d == offer[s].day
      q == offer[s].maximum
      timely == Fresh(r) /\ disabled = Nobody /\ Current(d)
      granted == timely /\ Affordable(r, d, q)
  IN
  /\ phase[s] = "quoted"
  /\ latestDay' = IF timely THEN d ELSE latestDay
  /\ IF granted
       THEN /\ state' = [state EXCEPT ![r] = "reserved"]
            /\ day' = [day EXCEPT ![r] = d]
            /\ maximum' = [maximum EXCEPT ![r] = q]
            /\ Goto(s, "reserved")
            /\ offer' = [offer EXCEPT ![s] = NoOffer]
            /\ UNCHANGED <<job, cost>>
       ELSE UNCHANGED <<state, day, maximum>> /\ Finish(s, "delivered")
  /\ UNCHANGED <<today, actual, disabled, policyVars, posts, charged>>

\* _check failed between reserve and mark_sent: the only refund.
ReleaseNotSent(s) ==
  /\ phase[s] = "reserved"
  /\ state[job[s]] = "reserved"
  /\ state' = [state EXCEPT ![job[s]] = "released"]
  /\ Finish(s, "delivered")
  /\ UNCHANGED <<today, day, maximum, actual, disabled, latestDay, policyVars, posts, charged>>

\* mark_sent; it may raise with or without its write, and _check may fail
\* after it: from there on only settle can follow.
MarkSent(s) ==
  LET r == job[s] IN
  /\ phase[s] = "reserved"
  /\ \/ /\ state' = [state EXCEPT ![r] = IF @ = "reserved" THEN "sent" ELSE @]
        /\ Goto(s, "marked") \/ Goto(s, "unanswered")
     \/ UNCHANGED state /\ Goto(s, "unanswered")
  /\ UNCHANGED <<today, day, maximum, actual, disabled, latestDay, policyVars, job, offer,
                 cost, posts, charged>>

\* propose_recovery hands the request to the transport; the provider charges c.
Post(s, c) ==
  LET r == job[s] IN
  /\ phase[s] = "marked"
  /\ posts' = [posts EXCEPT ![r] = @ + 1]
  /\ charged' = [charged EXCEPT ![r] = @ + c]
  /\ cost' = [cost EXCEPT ![s] = c]
  /\ Goto(s, "posted")
  /\ UNCHANGED <<today, rowVars, disabled, latestDay, policyVars, job, offer>>

\* settle without a cost (no reply, a cancelled call, a reply that names none)
\* keeps the whole reservation.
Retain(r) == state' = [state EXCEPT ![r] = "uncertain"]

SettleUnknown(s) ==
  /\ phase[s] \in {"posted", "unanswered"}
  /\ Retain(job[s])
  /\ Finish(s, "delivered")
  /\ UNCHANGED <<today, day, maximum, actual, disabled, latestDay, policyVars, posts, charged>>

\* settle with a cost; a charge above its reservation ends all paid calls.
Overcharged(r, c) == c > maximum[r]

Settle(s) ==
  LET r == job[s] IN
  /\ phase[s] = "posted"
  /\ actual' = [actual EXCEPT ![r] = cost[s]]
  /\ state' = [state EXCEPT ![r] = "settled"]
  /\ disabled' = IF Overcharged(r, cost[s]) /\ disabled = Nobody THEN r ELSE disabled
  /\ Finish(s, "delivered")
  /\ UNCHANGED <<today, day, maximum, latestDay, policyVars, posts, charged>>

\* release or settle raises: the service is dead until its process restarts.
AccountingFails(s) ==
  /\ phase[s] \in {"reserved", "posted", "unanswered"}
  /\ Finish(s, "failed")
  /\ UNCHANGED <<today, rowVars, disabled, latestDay, policyVars, posts, charged>>

\* A check fails before anything is reserved.
GiveUp(s) ==
  /\ phase[s] = "quoted"
  /\ Finish(s, "delivered")
  /\ UNCHANGED <<today, rowVars, disabled, latestDay, policyVars, posts, charged>>

Forget(s) ==
  /\ Finish(s, "idle")
  /\ UNCHANGED <<today, rowVars, disabled, latestDay, policyVars, posts, charged>>

\* The reply is polled, invalidated or expired.
Consume(s) == phase[s] = "delivered" /\ Forget(s)

\* The process dies and a new one starts, for the same worker.
Restart(s) == phase[s] # "idle" /\ Forget(s)
----------------------------------------------------------------------------
(* Settings editors.                                                       *)

\* settings_snapshot: both revisions from one SQLite snapshot.
Review(e) ==
  /\ seen' = [seen EXCEPT ![e] = [document |-> document, settings |-> settingsRevision,
                                  limits |-> limits, policy |-> revision]]
  /\ UNCHANGED <<today, rowVars, disabled, latestDay, limits, revision, document,
                 settingsRevision, serviceVars, posts, charged>>

\* update_settings: both revisions must be the reviewed ones.
ReviewedMutant(e) == seen[e].policy = revision
Reviewed(e) == seen[e].settings = settingsRevision /\ seen[e].policy = revision

\* Neither save touches a reservation or the disabled flag.
KeepDisabledMutant == disabled' = Nobody
KeepDisabled == UNCHANGED disabled

UpdateSettings(e, new, d) ==
  /\ seen[e] # NoReview /\ settingsRevision < MaxRevision /\ revision < MaxRevision
  /\ Valid(new) /\ Reviewed(e)
  /\ limits' = new
  /\ revision' = IF new = limits THEN revision ELSE revision + 1
  /\ document' = d
  /\ settingsRevision' = settingsRevision + 1
  /\ seen' = [seen EXCEPT ![e] = NoReview]
  /\ KeepDisabled
  /\ UNCHANGED <<today, rowVars, latestDay, serviceVars, posts, charged>>

\* update_policy: the limits alone.
UpdatePolicy(e, new) ==
  /\ seen[e] # NoReview /\ revision < MaxRevision
  /\ Valid(new) /\ seen[e].policy = revision
  /\ limits' = new
  /\ revision' = revision + 1
  /\ seen' = [seen EXCEPT ![e] = NoReview]
  /\ KeepDisabled
  /\ UNCHANGED <<today, rowVars, latestDay, document, settingsRevision, serviceVars,
                 posts, charged>>
----------------------------------------------------------------------------
Serve(s) ==
  \/ \E r \in Requests, q \in Quotes : Quote(s, r, q)
  \/ Reserve(s) \/ ReleaseNotSent(s) \/ MarkSent(s)
  \/ \E c \in Charges : Post(s, c)
  \/ SettleUnknown(s) \/ Settle(s)
  \/ AccountingFails(s) \/ GiveUp(s) \/ Consume(s) \/ Restart(s)

Edit(e) ==
  \/ Review(e)
  \/ \E new \in Proposals : UpdatePolicy(e, new)
  \/ \E new \in Proposals, d \in Documents : UpdateSettings(e, new, d)

Next ==
  \/ Midnight
  \/ \E s \in Services : Serve(s)
  \/ \E e \in Editors : Edit(e)

Spec == Init /\ [][Next]_vars
----------------------------------------------------------------------------
TypeOK ==
  /\ today \in Nat
  /\ state \in [Requests -> {"none", "reserved", "sent", "uncertain", "settled", "released"}]
  /\ day \in [Requests -> Nat] /\ maximum \in [Requests -> Nat]
  /\ actual \in [Requests -> Nat \cup {Unknown}]
  /\ limits \in Limits /\ revision \in Nat /\ settingsRevision \in Nat
  /\ disabled \in Requests \cup {Nobody} /\ latestDay \in Nat \cup {Unknown}
  /\ phase \in [Services -> {"idle", "quoted", "reserved", "marked", "posted",
                             "unanswered", "delivered", "failed"}]
  /\ \A s \in Services : OnNetwork(s) => job[s] \in Requests
  /\ job \in [Services -> Requests \cup {Nobody}]
  /\ offer \in [Services -> [maximum : Nat, day : Nat]]
  /\ cost \in [Services -> Nat \cup {Unknown}]
  /\ posts \in [Requests -> Nat] /\ charged \in [Requests -> Nat]

\* Granted: the services that own the row of their request.
Owns(s) == phase[s] \in {"reserved", "marked", "posted", "unanswered"}

\* A row is owned by one service, which knows how far it went; posts and
\* prices of the rows nobody owns follow from their state alone.
RowsConsistent ==
  /\ \A s \in Services : Owns(s) =>
       LET r == job[s] IN
       /\ phase[s] = "reserved" => state[r] = "reserved"
       /\ phase[s] \in {"marked", "posted"} => state[r] = "sent"
       /\ phase[s] = "unanswered" => state[r] \in {"reserved", "sent"}
       /\ phase[s] # "posted" => posts[r] = 0
       /\ phase[s] = "posted" => cost[s] # Unknown
  /\ \A s, t \in Services : Owns(s) /\ Owns(t) /\ job[s] = job[t] => s = t
  /\ \A r \in Requests :
       /\ state[r] \in {"none", "reserved", "released"} => posts[r] = 0
       /\ actual[r] # Unknown => state[r] = "settled"
       /\ actual[r] > maximum[r] => disabled # Nobody
       /\ state[r] # "none" => day[r] <= latestDay

\* reserve refuses a request id it has seen: however often it is submitted,
\* by whichever instance, before and after crashes, it is paid for once.
OnePost == \A r \in Requests : posts[r] <= 1

\* A request that went out is never refunded: until its price is known it
\* stays charged at its reserved maximum.
PostedIsCharged ==
  \A r \in Requests : posts[r] > 0 => state[r] \in {"sent", "uncertain", "settled"}

\* max_calls is a bound on what went out, not on what was answered: lost
\* replies, crashes and raised limits never let an incident call more often.
CallsAreBounded ==
  \A i \in Range(IncidentOf) :
    Cardinality({r \in Requests : IncidentOf[r] = i /\ posts[r] > 0}) <= HardCalls

\* The money really spent on an incident or a day stays under the hard limits
\* as long as the provider charged nobody more than it quoted, whatever
\* editors do to the limits and whatever replies were lost.
MoneyIsBounded ==
  (\A r \in Requests : charged[r] <= maximum[r]) =>
    \A q \in Requests :
      LET incident == {r \in Requests : IncidentOf[r] = IncidentOf[q]} IN
      /\ Sum(charged, incident) <= HardIncident
      /\ Sum(charged, {r \in Requests : day[r] = day[q]}) <= HardDaily

\* After one settled overcharge nothing is reserved any more; editors do not
\* bring it back.
OverchargeStopsSpending ==
  [][(\E r \in Requests : actual[r] > maximum[r]) =>
       \A r \in Requests : state[r] = "none" => state'[r] = "none"]_vars

\* A day that a later reservation has closed is never charged again, however
\* long a service waits between reading the date and its write lock.
DaysCloseForGood ==
  [][\A q, r \in Requests :
       state[q] # "none" /\ state[r] = "none" /\ state'[r] # "none" => day[q] <= day'[r]]_vars

\* A save replaces exactly the limits, and a settings save exactly the
\* document, that its editor last read; it loses nobody's edit.
EditorsReplaceWhatTheyReviewed ==
  [][/\ limits' # limits =>
          \E e \in Editors : seen[e].limits = limits /\ seen'[e] = NoReview
     /\ document' # document =>
          \E e \in Editors : /\ seen[e].document = document /\ seen[e].limits = limits
                            /\ seen'[e] = NoReview]_vars
=============================================================================
