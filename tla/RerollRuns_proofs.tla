-------------------------- MODULE RerollRuns_proofs --------------------------
(***************************************************************************)
(* The safety of the reroll runs, for every host: any emulators, any       *)
(* number of runs, starts and faults.                                      *)
(***************************************************************************)
EXTENDS RerollRuns, TLAPS

RunType == [active : BOOLEAN, members : SUBSET Names, removed : SUBSET Names,
            hidden : SUBSET Names, failed : SUBSET Names]

\* Only the last run may be active.
OneActive(rs) == \A k \in DOMAIN rs : rs[k].active => k = Len(rs)

\* What an operation has settled by the place it has reached.
OpInv ==
  /\ op.kind = "none" => op = NoOp
  /\ op.kind = "new" =>
       /\ op.pc \in {"prove", "release", "commit"} /\ op.busy /\ Len(runs) < MaxRuns
       /\ op.pc = "prove" => LiveOf(runs) = pool
       /\ op.pc = "release" => pool \subseteq op.keep \cup op.leaving \cup op.out \cup op.failed
  /\ op.kind = "add" => op.pc \in {"adding", "record"} /\ HasActive(runs)
  /\ op.kind = "remove" =>
       /\ op.pc \in {"release", "record"} /\ HasActive(runs)
       /\ op.pc = "release" => op.busy

\* Nobody but the operator will start this worker.
Kept(n) == n \notin mon.starting /\ (worker[n].rec \in {"running", "stopping"} => worker[n].paused)

\* Whom the monitor may restart, who waits for an exit, and who is out.
WorkerOK(n) ==
  /\ worker[n].rec = "none" => ~worker[n].alive
  /\ n \in mon.starting => worker[n].rec = "starting"
  /\ worker[n].rec = "starting" /\ n \notin mon.starting => n \in seen.doubted
  /\ n \in mon.read => worker[n].rec # "none" /\ (worker[n].rec = "starting" => n \in mon.starting)
  /\ n \in op.waiting => Kept(n)
  /\ n \in op.out \ seen.doubted => Kept(n) /\ ~worker[n].alive
  /\ n \notin pool \cup seen.doubted => Kept(n) /\ ~worker[n].alive

WorkerInv == \A n \in Names : WorkerOK(n)

IInv == TypeOK /\ OneActive(runs) /\ OpInv /\ WorkerInv
-----------------------------------------------------------------------------
(* The runs file.                                                          *)

\* The active run is the last.
LEMMA ActiveIsLast ==
  ASSUME NEW rs \in Seq(RunType), OneActive(rs)
  PROVE  /\ HasActive(rs) => Active(rs) = Len(rs) /\ Active(rs) \in DOMAIN rs /\ rs[Active(rs)].active
         /\ \A k \in DOMAIN rs : rs[k].active => HasActive(rs)
BY DEF OneActive, HasActive, Active

\* Writing to one run leaves the others.
LEMMA EditIs ==
  ASSUME NEW rs \in Seq(RunType), OneActive(rs), HasActive(rs), NEW r \in RunType
  PROVE  LET es == [rs EXCEPT ![Active(rs)] = r] IN
         /\ es \in Seq(RunType) /\ Len(es) = Len(rs) /\ OneActive(es)
         /\ \A k \in DOMAIN rs : ~rs[k].active => es[k] = rs[k]
         /\ es[Active(rs)] = r
         /\ r.active => HasActive(es) /\ Active(es) = Active(rs) /\ LiveOf(es) = Live(r)
<1> DEFINE es == [rs EXCEPT ![Active(rs)] = r]
<1>1. Active(rs) = Len(rs) /\ Active(rs) \in DOMAIN rs /\ rs[Active(rs)].active
  BY ActiveIsLast
<1>2. es \in Seq(RunType) /\ Len(es) = Len(rs) /\ DOMAIN es = DOMAIN rs
  BY <1>1
<1>3. es[Active(rs)] = r /\ \A k \in DOMAIN rs : k # Active(rs) => es[k] = rs[k]
  BY <1>1, <1>2
<1>4. \A k \in DOMAIN rs : ~rs[k].active => es[k] = rs[k]
  BY <1>1, <1>3
<1>5. OneActive(es)
  BY <1>1, <1>2, <1>3 DEF OneActive
<1>6. ASSUME r.active PROVE HasActive(es) /\ Active(es) = Active(rs) /\ LiveOf(es) = Live(r)
  <2>1. HasActive(es)
    BY <1>1, <1>2, <1>3, <1>6 DEF HasActive
  <2>2. Active(es) = Len(es)
    BY <1>2, <1>5, <2>1, ActiveIsLast
  <2>3. QED
    BY <1>1, <1>2, <1>3, <2>1, <2>2 DEF LiveOf
<1>7. QED
  BY <1>2, <1>3, <1>4, <1>5, <1>6

\* Opening a run after the active one was closed, or with none active.
LEMMA AppendIs ==
  ASSUME NEW rs \in Seq(RunType), \A k \in DOMAIN rs : ~rs[k].active,
         NEW r \in RunType, r.active
  PROVE  LET es == Append(rs, r) IN
         /\ es \in Seq(RunType) /\ Len(es) = Len(rs) + 1 /\ OneActive(es)
         /\ \A k \in DOMAIN rs : k \in DOMAIN es /\ es[k] = rs[k]
         /\ HasActive(es) /\ LiveOf(es) = Live(r)
<1> DEFINE es == Append(rs, r)
<1>1. /\ es \in Seq(RunType) /\ Len(es) = Len(rs) + 1
      /\ \A k \in DOMAIN rs : k \in DOMAIN es /\ es[k] = rs[k]
      /\ es[Len(es)] = r /\ Len(es) \in DOMAIN es
      /\ \A k \in DOMAIN es : k # Len(es) => k \in DOMAIN rs
  OBVIOUS
<1>2. OneActive(es)
  BY <1>1 DEF OneActive
<1>3. HasActive(es)
  BY <1>1 DEF HasActive
<1>4. Active(es) = Len(es)
  BY <1>1, <1>2, <1>3, ActiveIsLast
<1>5. QED
  BY <1>1, <1>2, <1>3, <1>4 DEF LiveOf

\* What _load makes of the file.
LEMMA LoadedIs ==
  ASSUME TypeOK, OneActive(runs)
  PROVE  /\ Loaded \in Seq(RunType) /\ Len(Loaded) <= MaxRuns /\ Len(runs) <= Len(Loaded)
         /\ OneActive(Loaded)
         /\ \A k \in DOMAIN runs : ~runs[k].active => k \in DOMAIN Loaded /\ Loaded[k] = runs[k]
         /\ HasActive(runs) => /\ HasActive(Loaded) /\ Active(Loaded) = Active(runs)
                               /\ Loaded[Active(runs)].hidden = runs[Active(runs)].hidden
         /\ ~op.busy /\ Len(Loaded) < MaxRuns => LiveOf(Loaded) = pool
<1>1. runs \in Seq(RunType) /\ Len(runs) <= MaxRuns /\ pool \subseteq Names
  BY DEF TypeOK, RunType
<1>2. MaxRuns \in Nat
  BY RerollAssumption
<1>3. CASE op.busy
  BY <1>1, <1>3 DEF Loaded
<1>4. CASE ~op.busy /\ ~HasActive(runs) /\ (pool = {} \/ Len(runs) = MaxRuns)
  <2>1. Loaded = runs
    BY <1>4 DEF Loaded, Repaired
  <2>2. QED
    BY <1>1, <1>2, <1>4, <2>1 DEF LiveOf
<1>5. CASE ~op.busy /\ ~HasActive(runs) /\ ~(pool = {} \/ Len(runs) = MaxRuns)
  <2>1. Loaded = Append(runs, NewRun(pool, {}))
    BY <1>5 DEF Loaded, Repaired
  <2>2. /\ NewRun(pool, {}) \in RunType /\ NewRun(pool, {}).active
        /\ Live(NewRun(pool, {})) = pool
    BY <1>1 DEF NewRun, RunType, Live
  <2>3. \A k \in DOMAIN runs : ~runs[k].active
    BY <1>5 DEF HasActive
  <2>4. QED
    BY <1>1, <1>2, <1>5, <2>1, <2>2, <2>3, AppendIs
<1>6. CASE ~op.busy /\ HasActive(runs)
  <2> DEFINE a == Active(runs)
             r == FollowsPool(runs[a])
  <2>1. Loaded = [runs EXCEPT ![a] = r]
    BY <1>6 DEF Loaded, Repaired
  <2>2. a \in DOMAIN runs /\ runs[a].active /\ runs[a] \in RunType
    BY <1>1, <1>6, ActiveIsLast
  <2>3. r \in RunType /\ r.active /\ r.hidden = runs[a].hidden /\ Live(r) = pool
    BY <1>1, <2>2 DEF RunType, Live, FollowsPool
  <2>4. /\ Loaded \in Seq(RunType) /\ Len(Loaded) = Len(runs) /\ OneActive(Loaded)
        /\ \A k \in DOMAIN runs : ~runs[k].active => Loaded[k] = runs[k]
        /\ Loaded[a] = r /\ HasActive(Loaded) /\ Active(Loaded) = a /\ LiveOf(Loaded) = pool
    <3> HIDE DEF r
    <3>1. QED
      BY <1>1, <1>6, <2>1, <2>2, <2>3, EditIs
  <2>5. DOMAIN Loaded = DOMAIN runs
    BY <1>1, <2>4
  <2>6. QED
    BY <1>1, <1>2, <1>6, <2>3, <2>4, <2>5
<1>7. QED
  BY <1>3, <1>4, <1>5, <1>6

\* Hiding leaves everything else of a run alone.
LEMMA HiddenIs ==
  ASSUME NEW rs \in Seq(RunType), OneActive(rs), HasActive(rs), NEW h \in SUBSET Names
  PROVE  LET es == [rs EXCEPT ![Active(rs)].hidden = h] IN
         /\ es \in Seq(RunType) /\ Len(es) = Len(rs) /\ OneActive(es)
         /\ \A k \in DOMAIN rs : ~rs[k].active => es[k] = rs[k]
         /\ HasActive(es) /\ LiveOf(es) = LiveOf(rs)
<1> DEFINE r == [rs[Active(rs)] EXCEPT !.hidden = h]
<1>1. Active(rs) \in DOMAIN rs /\ rs[Active(rs)].active /\ rs[Active(rs)] \in RunType
  BY ActiveIsLast
<1>2. r \in RunType /\ r.active /\ Live(r) = LiveOf(rs)
  BY <1>1 DEF RunType, Live, LiveOf
<1>3. [rs EXCEPT ![Active(rs)].hidden = h] = [rs EXCEPT ![Active(rs)] = r]
  BY <1>1
<1> HIDE DEF r
<1>4. QED
  BY <1>2, <1>3, EditIs

\* The run with those who left.
LEMMA WithLeftIs ==
  ASSUME TypeOK, OneActive(runs)
  PROVE  /\ WithLeft \in Seq(RunType) /\ Len(WithLeft) = Len(runs) /\ OneActive(WithLeft)
         /\ DOMAIN WithLeft = DOMAIN runs
         /\ \A k \in DOMAIN runs : ~runs[k].active => WithLeft[k] = runs[k]
         /\ HasActive(WithLeft) <=> HasActive(runs)
         /\ HasActive(runs) => /\ Active(WithLeft) = Active(runs)
                               /\ WithLeft[Active(runs)].hidden = runs[Active(runs)].hidden
<1>1. runs \in Seq(RunType) /\ op.out \subseteq Names
  BY DEF TypeOK, RunType
<1>2. CASE HasActive(runs)
  <2> DEFINE r == [runs[Active(runs)] EXCEPT !.removed = @ \cup op.out]
  <2>1. Active(runs) \in DOMAIN runs /\ runs[Active(runs)].active /\ runs[Active(runs)] \in RunType
    BY <1>1, <1>2, ActiveIsLast
  <2>2. r \in RunType /\ r.active /\ r.hidden = runs[Active(runs)].hidden
    BY <1>1, <2>1 DEF RunType
  <2>3. WithLeft = [runs EXCEPT ![Active(runs)] = r]
    BY <1>2, <2>1 DEF WithLeft
  <2> HIDE DEF r
  <2>4. /\ WithLeft \in Seq(RunType) /\ Len(WithLeft) = Len(runs) /\ OneActive(WithLeft)
        /\ \A k \in DOMAIN runs : ~runs[k].active => WithLeft[k] = runs[k]
        /\ WithLeft[Active(runs)] = r /\ HasActive(WithLeft) /\ Active(WithLeft) = Active(runs)
    BY <1>1, <1>2, <2>2, <2>3, EditIs
  <2>5. QED
    BY <1>1, <1>2, <2>2, <2>4
<1>3. CASE ~HasActive(runs)
  BY <1>1, <1>3 DEF WithLeft
<1>4. QED
  BY <1>2, <1>3

\* What a step may do to the file: it stays a file of runs, the last one
\* active at most, and whatever was closed stays as it was.
FileStep ==
  /\ runs' \in Seq(RunType) /\ Len(runs') <= MaxRuns /\ OneActive(runs')
  /\ \A k \in DOMAIN runs : ~runs[k].active => k \in DOMAIN runs' /\ runs'[k] = runs[k]

LEMMA FileUntouched ==
  ASSUME TypeOK, OneActive(runs), runs' = runs
  PROVE  FileStep
<1>1. runs \in Seq(RunType) /\ Len(runs) <= MaxRuns
  BY DEF TypeOK, RunType
<1>2. QED
  BY <1>1 DEF FileStep

LEMMA FileLoaded ==
  ASSUME TypeOK, OneActive(runs), runs' = Loaded
  PROVE  FileStep
BY LoadedIs DEF FileStep

LEMMA SetHiddenIs ==
  ASSUME IInv, NEW n \in Names, NEW hide \in BOOLEAN, SetHidden(n, hide)
  PROVE  /\ FileStep
         /\ HasActive(runs')
         /\ op.busy => LiveOf(runs') = LiveOf(runs) /\ Len(runs') = Len(runs)
<1>1. /\ Loaded \in Seq(RunType) /\ Len(Loaded) <= MaxRuns /\ OneActive(Loaded)
      /\ \A k \in DOMAIN runs : ~runs[k].active => k \in DOMAIN Loaded /\ Loaded[k] = runs[k]
  BY LoadedIs DEF IInv
<1>2. HasActive(Loaded)
  BY DEF SetHidden, LiveOf
<1>3. Active(Loaded) \in DOMAIN Loaded /\ Loaded[Active(Loaded)] \in RunType
  BY <1>1, <1>2, ActiveIsLast
<1> DEFINE was == Loaded[Active(Loaded)].hidden
           h == IF hide THEN was \cup {n} ELSE was \ {n}
<1>4. h \in SUBSET Names /\ runs' = [Loaded EXCEPT ![Active(Loaded)].hidden = h]
  BY <1>3 DEF RunType, SetHidden
<1> HIDE DEF h
<1>5. /\ runs' \in Seq(RunType) /\ Len(runs') = Len(Loaded) /\ OneActive(runs')
      /\ \A k \in DOMAIN Loaded : ~Loaded[k].active => runs'[k] = Loaded[k]
      /\ HasActive(runs') /\ LiveOf(runs') = LiveOf(Loaded)
  BY <1>1, <1>2, <1>4, HiddenIs
<1>6. DOMAIN runs' = DOMAIN Loaded
  BY <1>1, <1>5
<1>7. op.busy => Loaded = runs
  BY DEF Loaded
<1>8. QED
  BY <1>1, <1>5, <1>6, <1>7 DEF FileStep

LEMMA FileWithLeft ==
  ASSUME TypeOK, OneActive(runs), runs' = WithLeft
  PROVE  FileStep
<1>1. runs \in Seq(RunType) /\ Len(runs) <= MaxRuns
  BY DEF TypeOK, RunType
<1>2. QED
  BY <1>1, WithLeftIs DEF FileStep

LEMMA RunOpenedIs ==
  ASSUME IInv, RunOpened
  PROVE  FileStep /\ Len(runs') = Len(runs) + 1
<1> DEFINE old == IF HasActive(runs) THEN runs[Active(runs)].failed ELSE {}
           done == Closed(WithLeft[Active(runs)])
           close == IF HasActive(runs) THEN [WithLeft EXCEPT ![Active(runs)] = done] ELSE runs
           new == NewRun(Carried \cup op.add, (op.failed \cap Carried) \cup (old \cap op.keep))
<1>1. /\ runs \in Seq(RunType) /\ Len(runs) < MaxRuns /\ pool \subseteq Names
      /\ op.keep \subseteq Names /\ op.add \subseteq Names /\ op.failed \subseteq Names
  BY DEF IInv, TypeOK, OpInv, RunOpened, RunType
<1>2. TypeOK /\ OneActive(runs) /\ MaxRuns \in Nat
  BY RerollAssumption DEF IInv
<1>3. runs' = Append(close, new)
  BY DEF RunOpened
<1>4. new \in RunType /\ new.active
  <2>1. old \in SUBSET Names \/ TRUE
    OBVIOUS
  <2>2. QED
    BY <1>1 DEF NewRun, RunType, Carried
<1>5. /\ close \in Seq(RunType) /\ Len(close) = Len(runs) /\ DOMAIN close = DOMAIN runs
      /\ \A k \in DOMAIN close : ~close[k].active
      /\ \A k \in DOMAIN runs : ~runs[k].active => close[k] = runs[k]
  <2>1. CASE ~HasActive(runs)
    BY <1>1, <2>1 DEF HasActive
  <2>2. CASE HasActive(runs)
    <3>1. Active(runs) = Len(runs) /\ Active(runs) \in DOMAIN runs /\ runs[Active(runs)].active
      BY <1>1, <1>2, <2>2, ActiveIsLast
    <3>2. /\ WithLeft \in Seq(RunType) /\ OneActive(WithLeft) /\ HasActive(WithLeft)
          /\ Len(WithLeft) = Len(runs) /\ DOMAIN WithLeft = DOMAIN runs
          /\ Active(WithLeft) = Active(runs)
          /\ \A k \in DOMAIN runs : ~runs[k].active => WithLeft[k] = runs[k]
      BY <1>2, <2>2, WithLeftIs
    <3>3. done \in RunType /\ ~done.active
      <4>1. WithLeft[Active(runs)] \in RunType
        BY <3>1, <3>2
      <4>2. QED
        BY <4>1 DEF RunType, Closed
    <3>4. close = [WithLeft EXCEPT ![Active(WithLeft)] = done]
      BY <2>2, <3>2
    <3> HIDE DEF done, close
    <3>5. /\ close \in Seq(RunType) /\ Len(close) = Len(WithLeft) /\ OneActive(close)
          /\ \A k \in DOMAIN WithLeft : ~WithLeft[k].active => close[k] = WithLeft[k]
          /\ close[Active(WithLeft)] = done
      BY <3>2, <3>3, <3>4, EditIs
    <3>6. DOMAIN close = DOMAIN runs
      BY <1>1, <3>2, <3>5
    <3>7. \A k \in DOMAIN close : ~close[k].active
      BY <3>1, <3>2, <3>3, <3>5, <3>6 DEF OneActive
    <3>8. QED
      BY <3>1, <3>2, <3>5, <3>6, <3>7
  <2>3. QED
    BY <2>1, <2>2
<1> HIDE DEF close, new
<1>6. /\ runs' \in Seq(RunType) /\ Len(runs') = Len(close) + 1 /\ OneActive(runs')
      /\ \A k \in DOMAIN close : k \in DOMAIN runs' /\ runs'[k] = close[k]
  BY <1>3, <1>4, <1>5, AppendIs
<1>7. QED
  BY <1>1, <1>2, <1>5, <1>6 DEF FileStep

LEMMA RemovalRecordedIs ==
  ASSUME IInv, RemovalRecorded
  PROVE  /\ FileStep /\ HasActive(runs')
         /\ Active(runs') = Active(runs) /\ runs'[Active(runs)].hidden = runs[Active(runs)].hidden
<1>1. TypeOK /\ OneActive(runs) /\ HasActive(runs) /\ runs \in Seq(RunType) /\ Len(runs) <= MaxRuns
  BY DEF IInv, TypeOK, OpInv, RemovalRecorded, RunType
<1>2. CASE runs' = runs
  BY <1>1, <1>2, FileUntouched
<1>3. CASE runs' = [WithLeft EXCEPT ![Active(runs)].failed = @ \ op.out]
  <2> DEFINE a == Active(runs)
             r == [WithLeft[a] EXCEPT !.failed = @ \ op.out]
  <2>1. a \in DOMAIN runs /\ runs[a].active
    BY <1>1, ActiveIsLast
  <2>2. /\ WithLeft \in Seq(RunType) /\ OneActive(WithLeft) /\ HasActive(WithLeft)
        /\ Len(WithLeft) = Len(runs) /\ DOMAIN WithLeft = DOMAIN runs
        /\ Active(WithLeft) = a /\ WithLeft[a].hidden = runs[a].hidden
        /\ \A k \in DOMAIN runs : ~runs[k].active => WithLeft[k] = runs[k]
    BY <1>1, WithLeftIs
  <2>3. WithLeft[a].active /\ WithLeft[a] \in RunType
    BY <2>1, <2>2, ActiveIsLast
  <2>4. r \in RunType /\ r.active /\ r.hidden = runs[a].hidden
    BY <2>2, <2>3 DEF RunType
  <2>5. runs' = [WithLeft EXCEPT ![Active(WithLeft)] = r]
    BY <1>3, <2>1, <2>2
  <2> HIDE DEF r
  <2>6. /\ runs' \in Seq(RunType) /\ Len(runs') = Len(WithLeft) /\ OneActive(runs')
        /\ \A k \in DOMAIN WithLeft : ~WithLeft[k].active => runs'[k] = WithLeft[k]
        /\ runs'[a] = r /\ HasActive(runs') /\ Active(runs') = a
    <3>1. LET es == [WithLeft EXCEPT ![Active(WithLeft)] = r] IN
          /\ es \in Seq(RunType) /\ Len(es) = Len(WithLeft) /\ OneActive(es)
          /\ \A k \in DOMAIN WithLeft : ~WithLeft[k].active => es[k] = WithLeft[k]
          /\ es[Active(WithLeft)] = r
          /\ r.active => HasActive(es) /\ Active(es) = Active(WithLeft)
      BY <2>2, <2>4, EditIs
    <3>2. QED
      BY <2>2, <2>4, <2>5, <3>1
  <2>7. DOMAIN runs' = DOMAIN runs
    BY <2>2, <2>6
  <2>8. QED
    BY <1>1, <2>2, <2>4, <2>6, <2>7 DEF FileStep
<1>4. QED
  BY <1>2, <1>3 DEF RemovalRecorded

LEMMA MembersAddedIs ==
  ASSUME IInv, MembersAdded
  PROVE  /\ FileStep /\ Active(runs') = Active(runs)
         /\ runs'[Active(runs)].hidden = runs[Active(runs)].hidden \ op.add
<1>1. /\ TypeOK /\ OneActive(runs) /\ HasActive(runs) /\ runs \in Seq(RunType)
      /\ Len(runs) <= MaxRuns /\ op.add \subseteq Names
  BY DEF IInv, TypeOK, OpInv, MembersAdded, RunType
<1> DEFINE a == Active(runs)
           r == Joined(runs[a], op.add)
<1>2. a \in DOMAIN runs /\ runs[a].active /\ runs[a] \in RunType
  BY <1>1, ActiveIsLast
<1>3. r \in RunType /\ r.active /\ r.hidden = runs[a].hidden \ op.add
  BY <1>1, <1>2 DEF RunType, Joined
<1>4. runs' = [runs EXCEPT ![a] = r]
  BY DEF MembersAdded
<1> HIDE DEF r
<1>5. /\ runs' \in Seq(RunType) /\ Len(runs') = Len(runs) /\ OneActive(runs')
      /\ \A k \in DOMAIN runs : ~runs[k].active => runs'[k] = runs[k]
      /\ runs'[a] = r /\ Active(runs') = a
  BY <1>1, <1>3, <1>4, EditIs
<1>6. DOMAIN runs' = DOMAIN runs
  BY <1>1, <1>5
<1>7. QED
  BY <1>1, <1>3, <1>5, <1>6 DEF FileStep

\* Every step is a step of the file.
LEMMA FileStepped ==
  ASSUME IInv, Next
  PROVE  FileStep
<1>1. TypeOK /\ OneActive(runs)
  BY DEF IInv
<1>2. CASE UNCHANGED runs
  BY <1>1, <1>2, FileUntouched
<1>3. CASE runs' = Loaded
  BY <1>1, <1>3, FileLoaded
<1>4. CASE runs' = WithLeft
  BY <1>1, <1>4, FileWithLeft
<1>5. ASSUME NEW n \in Names, NEW hide \in BOOLEAN, SetHidden(n, hide) PROVE FileStep
  BY <1>5, SetHiddenIs
<1>6. CASE RunOpened \/ RemovalRecorded \/ MembersAdded
  BY <1>6, RunOpenedIs, RemovalRecordedIs, MembersAddedIs
<1>7. QED
  BY <1>2, <1>3, <1>4, <1>5, <1>6
     DEF Next, Operation, Load, StartNew, AddMembers, RemoveMember, Prove, Refused, Leaving,
         LeaverPaused, LeaverProven, LeaverStays, OperatorPauses, OperatorStarts, MonitorReads,
         MonitorStarts, MonitorGivesUp, Started, WorkerExits, PoolReplaced, PoolRefuses,
         PoolRemoves, PoolAdds, Crash

-----------------------------------------------------------------------------
(* Initial states and steps.                                               *)

LEMMA Initial == Init => IInv
<1> SUFFICES ASSUME Init PROVE IInv
  OBVIOUS
<1>1. TypeOK
  BY RerollAssumption DEF Init, NoOp, TypeOK
<1>2. OneActive(runs) /\ OpInv
  BY DEF Init, NoOp, OneActive, OpInv
<1>3. WorkerInv
  BY DEF Init, NoOp, WorkerInv, WorkerOK, Kept
<1>4. QED
  BY <1>1, <1>2, <1>3 DEF IInv

OpType == [kind : {"none", "new", "add", "remove"}, keep : SUBSET Names, add : SUBSET Names,
           pc : {"idle", "prove", "release", "commit", "adding", "record"},
           leaving : SUBSET Names, waiting : SUBSET Names, out : SUBSET Names,
           failed : SUBSET Names, busy : BOOLEAN]

LEMMA NoOpType == NoOp \in OpType
BY DEF NoOp, OpType

LEMMA LiveInNames ==
  ASSUME NEW rs \in Seq(RunType), OneActive(rs)
  PROVE  LiveOf(rs) \subseteq Names
<1>1. CASE HasActive(rs)
  <2>1. rs[Active(rs)] \in RunType
    BY <1>1, ActiveIsLast
  <2>2. QED
    BY <1>1, <2>1 DEF LiveOf, Live, RunType
<1>2. CASE ~HasActive(rs)
  BY <1>2 DEF LiveOf
<1>3. QED
  BY <1>1, <1>2

\* The operation keeps its type.
LEMMA OpTyped ==
  ASSUME IInv, Next
  PROVE  op' \in OpType
<1>1. op \in OpType /\ LiveOf(runs) \subseteq Names
  <2>1. op \in OpType /\ runs \in Seq(RunType) /\ OneActive(runs)
    BY DEF IInv, TypeOK, OpType, RunType
  <2>2. QED
    BY <2>1, LiveInNames
<1>2. CASE UNCHANGED op \/ op' = NoOp
  BY <1>1, <1>2, NoOpType
<1>3. CASE Prove
  BY <1>1, <1>3 DEF Prove, OpType
<1>4. ASSUME NEW keep \in SUBSET Names, NEW add \in SUBSET Names, StartNew(keep, add)
      PROVE  op' \in OpType
  BY <1>4 DEF StartNew, NoOp, OpType
<1>5. ASSUME NEW add \in SUBSET Names, AddMembers(add) PROVE op' \in OpType
  BY <1>5 DEF AddMembers, NoOp, OpType
<1>6. ASSUME NEW n \in Names, RemoveMember(n) PROVE op' \in OpType
  BY <1>6 DEF RemoveMember, NoOp, OpType
<1>7. ASSUME NEW n \in Names, NEW status,
             LeaverPaused(n) \/ LeaverProven(n, status) \/ LeaverStays(n)
      PROVE  op' \in OpType
  <2>1. CASE LeaverPaused(n)
    BY <1>1, <2>1 DEF LeaverPaused, OpType
  <2>2. CASE LeaverProven(n, status)
    <3>1. op' = [op EXCEPT !.leaving = @ \ {n}, !.waiting = @ \ {n}, !.out = @ \cup {n}]
      BY <2>2 DEF LeaverProven
    <3>2. QED
      BY <1>1, <3>1 DEF OpType
  <2>3. CASE LeaverStays(n)
    BY <1>1, <2>3 DEF LeaverStays, OpType
  <2>4. QED
    BY <1>7, <2>1, <2>2, <2>3
<1>8. CASE PoolReplaced \/ RemovalRecorded \/ PoolAdds
  BY <1>1, <1>2, <1>8 DEF PoolReplaced, RemovalRecorded, PoolAdds, OpType
<1>9. QED
  BY <1>2, <1>3, <1>4, <1>5, <1>6, <1>7, <1>8
     DEF Next, Operation, Load, SetHidden, Refused, Leaving, OperatorPauses, OperatorStarts,
         MonitorReads, MonitorStarts, MonitorGivesUp, Started, WorkerExits, PoolRefuses,
         RunOpened, PoolRemoves, MembersAdded, Crash

WorkerType == [alive : BOOLEAN, rec : {"none", "starting", "running", "stopping"}, paused : BOOLEAN]

LEMMA PausedIs ==
  ASSUME worker \in [Names -> WorkerType], NEW n \in Names, NEW recovery \in BOOLEAN,
         worker' = PausedWorker(n, recovery)
  PROVE  /\ worker' \in [Names -> WorkerType]
         /\ \A m \in Names \ {n} : worker'[m] = worker[m]
         /\ worker'[n].alive = worker[n].alive
         /\ worker[n].paused => worker'[n].paused
         /\ worker[n].rec \in {"none", "starting"} => worker'[n].rec = worker[n].rec
         /\ worker[n].rec \in {"running", "stopping"} => worker'[n].rec \in {"running", "stopping"}
         /\ ~recovery /\ worker'[n].rec \in {"running", "stopping"} => worker'[n].paused
<1>1. worker[n] \in WorkerType
  OBVIOUS
<1> DEFINE w == worker[n]
           kept == w.paused \/ ~recovery
<1>2. kept \in BOOLEAN
  OBVIOUS
<1>3. \/ /\ w.rec = "running"
         /\ worker' = [worker EXCEPT ![n] = [w EXCEPT !.rec = "stopping", !.paused = kept]]
      \/ /\ w.rec \in {"running", "stopping"} /\ worker' = [worker EXCEPT ![n] = [w EXCEPT !.paused = kept]]
      \/ /\ w.rec \in {"none", "starting"} /\ worker' = [worker EXCEPT ![n] = w]
  <2>1. w.rec \in {"none", "starting", "running", "stopping"}
    BY <1>1 DEF WorkerType
  <2>2. Status(n) = "running" => w.rec = "running"
    BY <2>1 DEF Status
  <2> HIDE DEF kept
  <2>3. QED
    BY <2>1, <2>2 DEF PausedWorker, kept
<1>4. worker'[n].paused = kept \/ (w.rec \in {"none", "starting"} /\ worker'[n] = w)
  <2> HIDE DEF kept
  <2>1. QED
    BY <1>1, <1>3 DEF WorkerType
<1>5. /\ worker' \in [Names -> WorkerType]
      /\ \A m \in Names \ {n} : worker'[m] = worker[m]
      /\ worker'[n].alive = worker[n].alive
      /\ worker[n].rec \in {"none", "starting"} => worker'[n].rec = worker[n].rec
      /\ worker[n].rec \in {"running", "stopping"} => worker'[n].rec \in {"running", "stopping"}
  <2> DEFINE told == [w EXCEPT !.rec = "stopping", !.paused = kept]
             rest == [w EXCEPT !.paused = kept]
  <2> HIDE DEF kept
  <2>1. told \in WorkerType /\ told.alive = w.alive /\ told.rec = "stopping"
    BY <1>1, <1>2 DEF WorkerType
  <2>2. rest \in WorkerType /\ rest.alive = w.alive /\ rest.rec = w.rec
    BY <1>1, <1>2 DEF WorkerType
  <2> HIDE DEF told, rest
  <2>3. \/ w.rec = "running" /\ worker' = [worker EXCEPT ![n] = told]
        \/ w.rec \in {"running", "stopping"} /\ worker' = [worker EXCEPT ![n] = rest]
        \/ w.rec \in {"none", "starting"} /\ worker' = [worker EXCEPT ![n] = w]
    BY <1>3 DEF told, rest
  <2>4. QED
    BY <1>1, <2>1, <2>2, <2>3
<1>6. worker[n].paused => worker'[n].paused
  BY <1>4
<1>7. ~recovery /\ worker'[n].rec \in {"running", "stopping"} => worker'[n].paused
  BY <1>4
<1>8. QED
  BY <1>5, <1>6, <1>7

SeenType == [starts : 0..MaxStarts, faults : 0..MaxFaults, doubted : SUBSET Names]

\* One more fault is within the bound.
LEMMA Faulted ==
  ASSUME seen \in SeenType, seen.faults < MaxFaults, MaxFaults \in Nat, NEW ns \in SUBSET Names,
         seen' = [seen EXCEPT !.faults = @ + 1, !.doubted = @ \cup ns]
  PROVE  seen' \in SeenType
<1>1. seen.faults + 1 \in 0..MaxFaults /\ seen.doubted \cup ns \in SUBSET Names
  BY DEF SeenType
<1>2. QED
  BY <1>1 DEF SeenType

\* The workers, the monitor and the history keep their types, the pool its names.
LEMMA Typed ==
  ASSUME IInv, Next
  PROVE  TypeOK'
<1>1. /\ pool \subseteq Names /\ worker \in [Names -> WorkerType] /\ op \in OpType
      /\ mon \in [starting : SUBSET Names, read : SUBSET Names]
      /\ seen \in SeenType
      /\ MaxStarts \in Nat /\ MaxFaults \in Nat
  BY RerollAssumption DEF IInv, TypeOK, WorkerType, OpType, SeenType
<1>2. runs' \in Seq(RunType) /\ Len(runs') <= MaxRuns
  BY FileStepped DEF FileStep
<1>3. op' \in OpType
  BY OpTyped
<1>4. /\ pool' \subseteq Names /\ worker' \in [Names -> WorkerType]
      /\ mon' \in [starting : SUBSET Names, read : SUBSET Names]
      /\ seen' \in SeenType
  <2>1. CASE UNCHANGED <<pool, worker, mon, seen>>
    BY <1>1, <2>1
  <2>2. CASE PoolReplaced \/ PoolRemoves \/ PoolAdds
    BY <1>1, <2>2 DEF PoolReplaced, PoolRemoves, PoolAdds, Carried, OpType
  <2>3. ASSUME NEW n \in Names, LeaverPaused(n) \/ OperatorPauses(n) PROVE <1>4!:
    BY <1>1, <2>3, PausedIs DEF LeaverPaused, OperatorPauses
  <2>4. ASSUME NEW n \in Names, NEW status, LeaverProven(n, status) PROVE <1>4!:
    <3>1. \/ seen' = seen
          \/ /\ seen.faults < MaxFaults
             /\ seen' = [seen EXCEPT !.faults = @ + 1, !.doubted = @ \cup {n}]
      BY <2>4 DEF LeaverProven
    <3>2. UNCHANGED <<pool, worker, mon>>
      BY <2>4 DEF LeaverProven
    <3>3. seen' \in SeenType
      <4>1. {n} \in SUBSET Names
        OBVIOUS
      <4>2. QED
        BY <1>1, <3>1, <4>1, Faulted
    <3>4. QED
      BY <1>1, <3>2, <3>3
  <2>5. ASSUME NEW n \in Names, OperatorStarts(n) \/ MonitorStarts(n) PROVE <1>4!:
    <3> DEFINE w == IF OperatorStarts(n) THEN [alive |-> TRUE, rec |-> "starting", paused |-> FALSE]
                    ELSE [worker[n] EXCEPT !.alive = TRUE, !.rec = "starting"]
    <3>1. w \in WorkerType
      BY <1>1 DEF WorkerType
    <3>2. worker' = [worker EXCEPT ![n] = w]
      BY <2>5 DEF OperatorStarts, MonitorStarts
    <3> HIDE DEF w
    <3>3. mon' \in [starting : SUBSET Names, read : SUBSET Names]
      BY <1>1, <2>5 DEF OperatorStarts, MonitorStarts
    <3>4. worker' \in [Names -> WorkerType]
      BY <1>1, <3>1, <3>2
    <3>5. seen.starts < MaxStarts /\ seen' = [seen EXCEPT !.starts = @ + 1] /\ pool' = pool
      BY <2>5 DEF OperatorStarts, MonitorStarts
    <3>6. QED
      BY <1>1, <3>3, <3>4, <3>5 DEF SeenType
  <2>6. ASSUME NEW n \in Names, MonitorReads(n) PROVE <1>4!:
    BY <1>1, <2>6, PausedIs DEF MonitorReads
  <2>7. ASSUME NEW n \in Names, MonitorGivesUp(n) \/ Started(n) \/ WorkerExits(n) PROVE <1>4!:
    <3>1. CASE MonitorGivesUp(n)
      BY <1>1, <3>1 DEF MonitorGivesUp
    <3>2. CASE Started(n)
      BY <1>1, <3>2 DEF Started, WorkerType
    <3>3. CASE WorkerExits(n)
      BY <1>1, <3>3 DEF WorkerExits, WorkerType
    <3>4. QED
      BY <2>7, <3>1, <3>2, <3>3
  <2>8. CASE Crash
    <3>1. /\ seen.faults < MaxFaults /\ mon' = [starting |-> {}, read |-> {}]
          /\ seen' = [seen EXCEPT !.faults = @ + 1, !.doubted = @ \cup mon.starting]
          /\ UNCHANGED <<pool, worker>>
      BY <2>8 DEF Crash
    <3>2. seen' \in SeenType
      BY <1>1, <3>1, Faulted
    <3>3. QED
      BY <1>1, <3>1, <3>2
  <2>9. QED
    BY <2>1, <2>2, <2>3, <2>4, <2>5, <2>6, <2>7, <2>8
       DEF Next, Operation, Load, SetHidden, StartNew, AddMembers, RemoveMember, Prove, Refused,
           Leaving, LeaverStays, PoolRefuses, RunOpened, RemovalRecorded, MembersAdded
<1>5. QED
  BY <1>2, <1>3, <1>4 DEF TypeOK, RunType, OpType, WorkerType, SeenType

\* The operation's bookkeeping holds after every step.
LEMMA OpStepped ==
  ASSUME IInv, Next
  PROVE  OpInv'
<1>1. /\ TypeOK /\ OneActive(runs) /\ OpInv /\ op \in OpType /\ MaxRuns \in Nat
      /\ runs \in Seq(RunType)
  BY RerollAssumption DEF IInv, TypeOK, OpType, RunType
<1>2. CASE op' = NoOp
  BY <1>2 DEF OpInv, NoOp
<1>3. CASE UNCHANGED <<runs, pool, op>>
  BY <1>1, <1>3 DEF OpInv, LiveOf, HasActive, Active, Live
<1>4. CASE Load
  <2>1. ~op.busy /\ runs' = Loaded /\ UNCHANGED <<op, pool>>
    BY <1>4 DEF Load, Loaded
  <2>2. HasActive(runs) => HasActive(runs')
    BY <1>1, <2>1, LoadedIs
  <2>3. QED
    BY <1>1, <2>1, <2>2 DEF OpInv
<1>5. ASSUME NEW n \in Names, NEW hide \in BOOLEAN, SetHidden(n, hide) PROVE OpInv'
  <2>1. HasActive(runs') /\ (op.busy => LiveOf(runs') = LiveOf(runs) /\ Len(runs') = Len(runs))
    BY <1>5, SetHiddenIs
  <2>2. UNCHANGED <<op, pool>>
    BY <1>5 DEF SetHidden
  <2>3. QED
    BY <1>1, <2>1, <2>2 DEF OpInv
<1>6. ASSUME NEW keep, NEW add, StartNew(keep, add) PROVE OpInv'
  <2>1. op = NoOp /\ ~op.busy /\ Len(Loaded) < MaxRuns /\ runs' = Loaded /\ pool' = pool
    BY <1>6 DEF StartNew, NoOp
  <2>2. LiveOf(runs') = pool'
    BY <1>1, <2>1, LoadedIs
  <2>3. op'.kind = "new" /\ op'.pc = "prove" /\ op'.busy
    BY <1>6 DEF StartNew, NoOp
  <2>4. QED
    BY <2>1, <2>2, <2>3 DEF OpInv
<1>7. ASSUME NEW add, AddMembers(add) PROVE OpInv'
  BY <1>7 DEF AddMembers, NoOp, OpInv
<1>8. ASSUME NEW n, RemoveMember(n) PROVE OpInv'
  <2>1. HasActive(runs')
    BY <1>8 DEF RemoveMember, LiveOf
  <2>2. QED
    BY <1>8, <2>1 DEF RemoveMember, NoOp, OpInv
<1>9. CASE Prove
  <2>1. op.kind = "new" /\ op.busy /\ Len(runs) < MaxRuns /\ LiveOf(runs) = pool
    BY <1>1, <1>9 DEF Prove, OpInv, NoOp, OpType
  <2>2. /\ op'.kind = "new" /\ op'.pc = "release" /\ op'.busy /\ op'.keep = op.keep
        /\ op'.leaving = LiveOf(runs) \ op.keep /\ op'.out = op.out /\ op'.failed = op.failed
        /\ UNCHANGED <<runs, pool>>
    BY <1>1, <1>9, <2>1 DEF Prove, OpType
  <2>3. QED
    BY <2>1, <2>2 DEF OpInv
<1>10. ASSUME NEW n \in Names, NEW status,
              LeaverPaused(n) \/ LeaverProven(n, status) \/ LeaverStays(n)
       PROVE  OpInv'
  <2>1. /\ op'.kind = op.kind /\ op'.pc = op.pc /\ op'.busy = op.busy /\ op'.keep = op.keep
        /\ op.leaving \cup op.out \cup op.failed = op'.leaving \cup op'.out \cup op'.failed
        /\ op.pc = "release" /\ UNCHANGED <<runs, pool>>
    <3>1. CASE LeaverPaused(n)
      BY <1>1, <3>1 DEF LeaverPaused, OpType
    <3>2. CASE LeaverProven(n, status)
      <4>1. /\ op' = [op EXCEPT !.leaving = @ \ {n}, !.waiting = @ \ {n}, !.out = @ \cup {n}]
            /\ n \in op.leaving /\ op.pc = "release" /\ UNCHANGED <<runs, pool>>
        BY <3>2 DEF LeaverProven
      <4>2. QED
        BY <1>1, <4>1 DEF OpType
    <3>3. CASE LeaverStays(n)
      BY <1>1, <3>3 DEF LeaverStays, OpType
    <3>4. QED
      BY <1>10, <3>1, <3>2, <3>3
  <2>2. op.kind # "none"
    BY <1>1, <2>1 DEF OpInv, NoOp
  <2>3. LiveOf(runs)' = LiveOf(runs) /\ (HasActive(runs)' <=> HasActive(runs))
    BY <2>1 DEF LiveOf, HasActive, Active, Live
  <2>4. QED
    BY <1>1, <2>1, <2>2, <2>3 DEF OpInv
<1>11. CASE PoolReplaced
  BY <1>1, <1>11 DEF PoolReplaced, OpInv, OpType
<1>12. CASE PoolAdds
  BY <1>1, <1>12 DEF PoolAdds, OpInv, OpType, HasActive
<1>13. CASE RemovalRecorded /\ op' # NoOp
  <2>1. HasActive(runs') /\ op' = [op EXCEPT !.pc = "record"] /\ op.kind = "remove"
    BY <1>13, RemovalRecordedIs DEF RemovalRecorded
  <2>2. QED
    BY <1>1, <2>1 DEF OpInv, OpType
<1>14. QED
  BY <1>2, <1>3, <1>4, <1>5, <1>6, <1>7, <1>8, <1>9, <1>10, <1>11, <1>12, <1>13
     DEF Next, Operation, Refused, Leaving, OperatorPauses, OperatorStarts, MonitorReads,
         MonitorStarts, MonitorGivesUp, Started, WorkerExits, PoolRefuses, RunOpened,
         PoolRemoves, MembersAdded, Crash

\* Nothing a step does to the others disturbs a worker.
Undisturbed(m) ==
  /\ worker'[m] = worker[m]
  /\ m \in mon'.starting <=> m \in mon.starting
  /\ m \in mon'.read => m \in mon.read
  /\ m \in seen.doubted => m \in seen'.doubted
  /\ m \in op'.waiting => m \in op.waiting
  /\ m \in op'.out => m \in op.out
  /\ m \in pool => m \in pool'

LEMMA StaysOK ==
  ASSUME NEW m, WorkerOK(m), Undisturbed(m)
  PROVE  WorkerOK(m)'
BY DEF WorkerOK, Undisturbed, Kept

\* A leaving member: paused, then proven.
LEMMA LeaverStepped ==
  ASSUME IInv, NEW n \in Names, NEW status, NEW m \in Names,
         LeaverPaused(n) \/ LeaverProven(n, status) \/ LeaverStays(n)
  PROVE  WorkerOK(m)'
<1>1. /\ WorkerOK(m) /\ WorkerOK(n) /\ op \in OpType /\ worker \in [Names -> WorkerType]
      /\ seen \in SeenType
  BY DEF IInv, WorkerInv, TypeOK, OpType, WorkerType, SeenType
<1>2. CASE LeaverPaused(n)
  <2>1. /\ worker' = PausedWorker(n, FALSE) /\ n \notin mon.starting /\ n \in pool
        /\ UNCHANGED <<pool, mon, seen>>
        /\ op'.out = op.out /\ op'.waiting = op.waiting \cup {n}
    BY <1>1, <1>2 DEF LeaverPaused, OpType
  <2>2. CASE m # n
    <3>1. worker'[m] = worker[m]
      BY <1>1, <2>1, <2>2, PausedIs
    <3>2. QED
      BY <1>1, <2>1, <2>2, <3>1, StaysOK DEF Undisturbed
  <2>3. CASE m = n
    <3>1. /\ worker'[n].alive = worker[n].alive
          /\ worker[n].rec \in {"none", "starting"} => worker'[n].rec = worker[n].rec
          /\ worker[n].rec \in {"running", "stopping"} => worker'[n].rec \in {"running", "stopping"}
          /\ worker'[n].rec \in {"running", "stopping"} => worker'[n].paused
          /\ worker[n].rec \in {"none", "starting", "running", "stopping"}
      BY <1>1, <2>1, PausedIs DEF WorkerType
    <3>2. QED
      BY <1>1, <2>1, <2>3, <3>1 DEF WorkerOK, Kept
  <2>4. QED
    BY <2>2, <2>3
<1>3. CASE LeaverProven(n, status)
  <2>1. /\ UNCHANGED <<pool, worker, mon>> /\ status \in Safe
        /\ op' = [op EXCEPT !.leaving = @ \ {n}, !.waiting = @ \ {n}, !.out = @ \cup {n}]
        /\ \/ seen' = [seen EXCEPT !.faults = @ + 1, !.doubted = @ \cup {n}]
           \/ n \in op.waiting /\ status = Status(n) /\ seen' = seen
    BY <1>3 DEF LeaverProven
  <2>2. /\ op'.waiting = op.waiting \ {n} /\ op'.out = op.out \cup {n}
        /\ seen'.doubted = seen.doubted \cup {n} \/ seen' = seen
    BY <1>1, <2>1 DEF OpType, SeenType
  <2>3. CASE m # n \/ n \in seen'.doubted
    BY <1>1, <2>1, <2>2, <2>3 DEF WorkerOK, Kept
  <2>4. CASE m = n /\ n \notin seen'.doubted
    <3>1. n \in op.waiting /\ Status(n) \in Safe /\ seen' = seen
      BY <1>1, <2>1, <2>4 DEF SeenType
    <3>2. worker[n].rec \in {"none", "starting", "running", "stopping"} /\ Kept(n)
      BY <1>1, <3>1 DEF WorkerType, WorkerOK
    <3>3. ~worker[n].alive
      BY <1>1, <2>4, <3>1, <3>2 DEF Status, Safe, WorkerOK, Kept
    <3>4. QED
      BY <1>1, <2>1, <2>2, <2>4, <3>1, <3>2, <3>3 DEF WorkerOK, Kept
  <2>5. QED
    BY <2>3, <2>4
<1>4. CASE LeaverStays(n)
  <2>1. /\ UNCHANGED <<pool, worker, mon, seen>>
        /\ op'.waiting = op.waiting \ {n} /\ op'.out = op.out
    BY <1>1, <1>4 DEF LeaverStays, OpType
  <2>2. QED
    BY <1>1, <2>1, StaysOK DEF Undisturbed
<1>5. QED
  BY <1>2, <1>3, <1>4

\* The operator's pauses and starts, and the monitor's restarts.
LEMMA WorkerStepped ==
  ASSUME IInv, NEW n \in Names, NEW m \in Names,
         \/ OperatorPauses(n) \/ OperatorStarts(n) \/ MonitorReads(n) \/ MonitorStarts(n)
         \/ MonitorGivesUp(n) \/ Started(n) \/ WorkerExits(n)
  PROVE  WorkerOK(m)'
<1>1. /\ WorkerOK(m) /\ WorkerOK(n) /\ worker \in [Names -> WorkerType]
      /\ mon \in [starting : SUBSET Names, read : SUBSET Names] /\ seen \in SeenType
  BY DEF IInv, WorkerInv, TypeOK, WorkerType, SeenType
<1>2. CASE OperatorPauses(n) \/ MonitorReads(n)
  <2>1. PICK recovery \in BOOLEAN : worker' = PausedWorker(n, recovery)
    BY <1>2 DEF OperatorPauses, MonitorReads
  <2>2. /\ UNCHANGED <<pool, op, seen>> /\ mon'.starting = mon.starting
        /\ mon'.read = mon.read \/ (MonitorReads(n) /\ mon'.read = mon.read \cup {n})
        /\ Status(n) \in {"stopped", "running", "stopping"}
    BY <1>1, <1>2 DEF OperatorPauses, MonitorReads
  <2>3. CASE m # n
    <3>1. worker'[m] = worker[m]
      BY <1>1, <2>1, <2>3, PausedIs
    <3>2. QED
      BY <1>1, <2>2, <2>3, <3>1, StaysOK DEF Undisturbed
  <2>4. CASE m = n
    <3>1. worker[n].rec \in {"running", "stopping"}
      <4>1. worker[n].rec \in {"none", "starting", "running", "stopping"}
        BY <1>1 DEF WorkerType
      <4>2. QED
        BY <2>2, <4>1 DEF Status
    <3>2. /\ worker'[n].alive = worker[n].alive /\ worker'[n].rec \in {"running", "stopping"}
          /\ worker[n].paused => worker'[n].paused
      BY <1>1, <2>1, <3>1, PausedIs
    <3>3. QED
      BY <1>1, <2>2, <2>4, <3>1, <3>2 DEF WorkerOK, Kept
  <2>5. QED
    BY <2>3, <2>4
<1>3. CASE OperatorStarts(n)
  <2>1. /\ op = NoOp /\ n \in pool /\ UNCHANGED <<pool, op>>
        /\ worker' = [worker EXCEPT ![n] = [alive |-> TRUE, rec |-> "starting", paused |-> FALSE]]
        /\ mon'.starting = mon.starting \cup {n} /\ mon'.read = mon.read
        /\ seen'.doubted = seen.doubted
    BY <1>1, <1>3 DEF OperatorStarts, SeenType
  <2>2. CASE m # n
    BY <1>1, <2>1, <2>2, StaysOK DEF Undisturbed
  <2>3. CASE m = n
    BY <1>1, <2>1, <2>3 DEF WorkerOK, NoOp
  <2>4. QED
    BY <2>2, <2>3
<1>4. CASE MonitorStarts(n)
  <2>1. /\ n \in mon.read \ mon.starting /\ ~worker[n].paused /\ UNCHANGED <<pool, op>>
        /\ mon'.starting = mon.starting \cup {n} /\ mon'.read = mon.read \ {n}
        /\ seen'.doubted = seen.doubted
    BY <1>1, <1>4 DEF MonitorStarts, SeenType
  <2>2. worker' = [worker EXCEPT ![n] = [worker[n] EXCEPT !.alive = TRUE, !.rec = "starting"]]
    BY <1>4 DEF MonitorStarts
  <2>3. CASE m # n
    BY <1>1, <2>1, <2>2, <2>3, StaysOK DEF Undisturbed
  <2>4. CASE m = n
    <3>1. worker[n].rec \in {"running", "stopping"} /\ ~Kept(n)
      BY <1>1, <2>1 DEF WorkerOK, Kept, WorkerType
    <3>2. /\ n \notin op.waiting
          /\ n \in op.out => n \in seen.doubted
          /\ n \in pool \cup seen.doubted
      BY <1>1, <3>1 DEF WorkerOK
    <3>3. worker'[n].rec = "starting"
      BY <1>1, <2>2 DEF WorkerType
    <3>4. QED
      BY <1>1, <2>1, <2>4, <3>2, <3>3 DEF WorkerOK
  <2>5. QED
    BY <2>3, <2>4
<1>5. CASE MonitorGivesUp(n)
  BY <1>1, <1>5, StaysOK DEF MonitorGivesUp, Undisturbed
<1>6. CASE Started(n)
  <2>1. /\ n \in mon.starting /\ UNCHANGED <<pool, op, seen>>
        /\ worker' = [worker EXCEPT ![n].rec = "running"]
        /\ mon'.starting = mon.starting \ {n} /\ mon'.read = mon.read
    BY <1>1, <1>6 DEF Started
  <2>2. CASE m # n
    BY <1>1, <2>1, <2>2, StaysOK DEF Undisturbed
  <2>3. CASE m = n
    <3>1. worker'[n].rec = "running"
      BY <1>1, <2>1 DEF WorkerType
    <3>2. QED
      BY <1>1, <2>1, <2>3, <3>1 DEF WorkerOK, Kept
  <2>4. QED
    BY <2>2, <2>3
<1>7. CASE WorkerExits(n)
  <2>1. /\ n \notin mon.starting /\ UNCHANGED <<pool, op, mon, seen>>
        /\ worker' = [worker EXCEPT ![n].alive = FALSE]
    BY <1>7 DEF WorkerExits
  <2>2. /\ worker'[n].rec = worker[n].rec /\ worker'[n].paused = worker[n].paused
        /\ ~worker'[n].alive
        /\ m # n => worker'[m] = worker[m]
    BY <1>1, <2>1 DEF WorkerType
  <2>3. QED
    BY <1>1, <2>1, <2>2 DEF WorkerOK, Kept
<1>8. QED
  BY <1>2, <1>3, <1>4, <1>5, <1>6, <1>7

\* The commits, the crash and everything that leaves the workers alone.
LEMMA CommitStepped ==
  ASSUME IInv, NEW m \in Names,
         \/ UNCHANGED <<pool, op, worker, mon, seen>>
         \/ op' = NoOp /\ UNCHANGED <<pool, worker, mon, seen>>
         \/ Prove \/ PoolReplaced \/ RemovalRecorded \/ PoolRemoves \/ PoolAdds \/ Crash
         \/ \E keep, add \in SUBSET Names : StartNew(keep, add)
         \/ \E add \in SUBSET Names : AddMembers(add)
         \/ \E n \in Names : RemoveMember(n)
  PROVE  WorkerOK(m)'
<1>1. /\ WorkerOK(m) /\ OpInv /\ op \in OpType /\ seen \in SeenType
  BY DEF IInv, WorkerInv, TypeOK, OpType, SeenType
<1>2. NoOp.waiting = {} /\ NoOp.out = {}
  BY DEF NoOp
<1>3. CASE UNCHANGED <<pool, op, worker, mon, seen>>
  BY <1>1, <1>3, StaysOK DEF Undisturbed
<1>4. CASE op' = NoOp /\ UNCHANGED <<pool, worker, mon, seen>>
  BY <1>1, <1>2, <1>4, StaysOK DEF Undisturbed
<1>5. CASE Prove \/ RemovalRecorded \/ PoolAdds
  <2>1. /\ UNCHANGED <<worker, mon, seen>> /\ pool \subseteq pool'
        /\ op' = NoOp \/ (op'.waiting = op.waiting /\ op'.out = op.out)
    BY <1>1, <1>5 DEF Prove, RemovalRecorded, PoolAdds, OpType
  <2>2. QED
    BY <1>1, <1>2, <2>1, StaysOK DEF Undisturbed
<1>6. CASE \/ \E keep, add \in SUBSET Names : StartNew(keep, add)
           \/ \E add \in SUBSET Names : AddMembers(add)
           \/ \E n \in Names : RemoveMember(n)
  <2>1. UNCHANGED <<pool, worker, mon, seen>> /\ op'.waiting = {} /\ op'.out = {}
    BY <1>6 DEF StartNew, AddMembers, RemoveMember, NoOp
  <2>2. QED
    BY <1>1, <2>1, StaysOK DEF Undisturbed
<1>7. CASE PoolReplaced
  <2>1. /\ UNCHANGED <<worker, mon, seen>> /\ op'.waiting = op.waiting /\ op'.out = op.out
        /\ op.leaving = {} /\ op.kind = "new" /\ op.pc = "release"
        /\ pool' = op.keep \cup (op.failed \cap pool) \cup op.add
    BY <1>1, <1>7 DEF PoolReplaced, Carried, OpType
  <2>2. m \in pool \ pool' => m \in op.out
    BY <1>1, <2>1 DEF OpInv
  <2>3. QED
    BY <1>1, <2>1, <2>2 DEF WorkerOK, Kept
<1>8. CASE PoolRemoves
  BY <1>1, <1>2, <1>8 DEF PoolRemoves, WorkerOK, Kept
<1>9. CASE Crash
  <2>1. /\ UNCHANGED <<pool, worker>> /\ op'.waiting = {} /\ op'.out = {}
        /\ mon'.starting = {} /\ mon'.read = {}
        /\ seen'.doubted = seen.doubted \cup mon.starting
    BY <1>1, <1>2, <1>9 DEF Crash, SeenType
  <2>2. QED
    BY <1>1, <2>1 DEF WorkerOK, Kept
<1>10. QED
  BY <1>3, <1>4, <1>5, <1>6, <1>7, <1>8, <1>9

LEMMA Inductive == IInv /\ [Next]_vars => IInv'
<1> SUFFICES ASSUME IInv, [Next]_vars PROVE IInv'
  OBVIOUS
<1>1. CASE Next
  <2>1. TypeOK' /\ OneActive(runs)' /\ OpInv'
    BY <1>1, Typed, FileStepped, OpStepped DEF FileStep, OneActive
  <2>2. ASSUME NEW m \in Names PROVE WorkerOK(m)'
    <3>1. ASSUME NEW n \in Names, NEW status,
                 LeaverPaused(n) \/ LeaverProven(n, status) \/ LeaverStays(n)
          PROVE  WorkerOK(m)'
      BY <3>1, LeaverStepped
    <3>2. ASSUME NEW n \in Names,
                 \/ OperatorPauses(n) \/ OperatorStarts(n) \/ MonitorReads(n) \/ MonitorStarts(n)
                 \/ MonitorGivesUp(n) \/ Started(n) \/ WorkerExits(n)
          PROVE  WorkerOK(m)'
      BY <3>2, WorkerStepped
    <3>3. ASSUME \/ UNCHANGED <<pool, op, worker, mon, seen>>
                 \/ op' = NoOp /\ UNCHANGED <<pool, worker, mon, seen>>
                 \/ Prove \/ PoolReplaced \/ RemovalRecorded \/ PoolRemoves \/ PoolAdds \/ Crash
                 \/ \E keep, add \in SUBSET Names : StartNew(keep, add)
                 \/ \E add \in SUBSET Names : AddMembers(add)
                 \/ \E n \in Names : RemoveMember(n)
          PROVE  WorkerOK(m)'
      BY <3>3, CommitStepped
    <3>4. QED
      BY <1>1, <3>1, <3>2, <3>3
         DEF Next, Operation, Leaving, Load, SetHidden, Refused, PoolRefuses, RunOpened,
             MembersAdded
  <2>3. QED
    BY <2>1, <2>2 DEF IInv, WorkerInv
<1>2. CASE UNCHANGED vars
  <2>1. TypeOK' /\ OneActive(runs)'
    BY <1>2 DEF vars, IInv, TypeOK, OneActive
  <2>2. OpInv'
    BY <1>2 DEF vars, IInv, OpInv, LiveOf, HasActive, Active, Live
  <2>3. WorkerInv'
    BY <1>2 DEF vars, IInv, WorkerInv, WorkerOK, Kept
  <2>4. QED
    BY <2>1, <2>2, <2>3 DEF IInv
<1>3. QED
  BY <1>1, <1>2

-----------------------------------------------------------------------------
(* Theorems.                                                               *)

\* The files, the operation and the supervisor's records keep their types.
THEOREM TypeCorrect == Spec => []TypeOK
BY Initial, Inductive, PTL DEF Spec, IInv

\* Whoever is out of the pool plays nothing: the monitor restarts only whom
\* nobody paused, and nobody leaves unless paused and seen stopped (WorkerInv).
THEOREM LeaversAreStopped == Spec => []LeftMeansStopped
<1>1. IInv => LeftMeansStopped
  BY DEF IInv, WorkerInv, WorkerOK, LeftMeansStopped
<1>2. QED
  BY <1>1, Initial, Inductive, PTL DEF Spec

\* No repair, hiding, commit or crash touches a run that was closed, and the
\* active run is the last one (FileStep).
THEOREM ClosedRunsStay == Spec => ClosedRunsAreFinal
<1> DEFINE Final == /\ \A k \in DOMAIN runs : ~runs[k].active => k \in DOMAIN runs' /\ runs'[k] = runs[k]
                    /\ \A k \in DOMAIN runs' : runs'[k].active => k = Len(runs')
<1>1. ASSUME IInv, Next PROVE Final
  BY <1>1, FileStepped DEF FileStep, OneActive
<1>2. IInv /\ [Next]_vars => [Final]_vars
  BY <1>1
<1>3. QED
  BY <1>2, Initial, Inductive, PTL DEF Spec, ClosedRunsAreFinal

\* What the operator hid while an operation was running stays hidden through
\* every step of the operation: each edits the run it finds in the file.
THEOREM HidingSurvives == Spec => HideIsNotLost
<1> DEFINE Hid == (op # op' /\ HasActive(runs) /\ Active(runs) = Len(runs'))
                    => runs[Active(runs)].hidden \subseteq runs'[Active(runs)].hidden \cup op.add
<1>1. ASSUME IInv, Next PROVE Hid
  <2> SUFFICES ASSUME op # op', HasActive(runs), Active(runs) = Len(runs')
               PROVE  runs[Active(runs)].hidden \subseteq runs'[Active(runs)].hidden \cup op.add
    OBVIOUS
  <2>1. TypeOK /\ OneActive(runs) /\ runs \in Seq(RunType)
    BY <1>1 DEF IInv, TypeOK, RunType
  <2>2. CASE UNCHANGED runs
    BY <2>2
  <2>3. CASE runs' = Loaded
    BY <2>1, <2>3, LoadedIs
  <2>4. CASE runs' = WithLeft
    BY <2>1, <2>4, WithLeftIs
  <2>5. CASE RunOpened
    <3>1. Active(runs) = Len(runs) /\ Len(runs) \in Nat
      BY <2>1, ActiveIsLast
    <3>2. QED
      BY <1>1, <2>5, <3>1, RunOpenedIs
  <2>6. CASE RemovalRecorded \/ MembersAdded
    BY <1>1, <2>6, RemovalRecordedIs, MembersAddedIs
  <2>7. QED
    BY <1>1, <2>2, <2>3, <2>4, <2>5, <2>6
       DEF Next, Operation, Load, SetHidden, StartNew, AddMembers, RemoveMember, Prove, Refused,
           Leaving, LeaverPaused, LeaverProven, LeaverStays, OperatorPauses, OperatorStarts,
           MonitorReads, MonitorStarts, MonitorGivesUp, Started, WorkerExits, PoolReplaced,
           PoolRefuses, PoolRemoves, PoolAdds, Crash
<1>2. IInv /\ [Next]_vars => [Hid]_vars
  BY <1>1
<1>3. QED
  BY <1>2, Initial, Inductive, PTL DEF Spec, HideIsNotLost
=============================================================================
