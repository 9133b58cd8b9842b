----------------------- MODULE WorkerLifecycle_proofs -----------------------
(***************************************************************************)
(* The safety of one worker's processes, record, binding and lease, for    *)
(* any number of processes, generations, restarts of the coordinator and   *)
(* restarts by the monitor.                                                *)
(***************************************************************************)
EXTENDS WorkerLifecycle, FiniteSetTheorems, TLAPS

Ops      == [kind : {"idle", "start", "stop", "signal", "recover", "rotate"}, step : Steps,
             recovery : BOOLEAN, old : Records, pid : Pids \cup {0}]
Procs    == [life : {"unborn", "booting", "reserved", "up", "dead"},
             gen : Gens \cup {0}, scan : {"off", "on", "ending", "waiting"},
             started : BOOLEAN, armed : BOOLEAN, signal : Signals \cup {"none"}]
Evidence == [pid : Pids \cup {0}, gen : Gens \cup {0}]

Types ==
  /\ record \in Records /\ registration \in [gen : Gens \cup {0}, pred : Gens \cup {0}]
  /\ lease \in Leases /\ intent \in {"none", "running", "stopped"} /\ marker \in BOOLEAN
  /\ held \in Pids \cup {0} /\ episodes \in 0..MaxRestarts
  /\ evidence \in Evidence /\ notice \in Evidence /\ op \in Ops
  /\ boot \in 0..MaxBoots /\ minted \in 0..MaxGen /\ spawned \in 0..MaxPid
  /\ proc \in [Pids -> Procs]
  /\ fenced \subseteq Pids \X Gens /\ wanted \in {"none", "run", "pause"} /\ known \subseteq Pids

\* A record names a process, with its generation, or is about none.
RecordOk(r) ==
  /\ r.pid # 0 => r.gen # 0
  /\ r.pid # 0 <=> r.state \in {"running", "stopping"}

\* The operator's wish is on the record of a process, and whoever was ever on
\* record and lives is on record now.
RecordInv ==
  /\ RecordOk(record)
  /\ record.pid # 0 => wanted = "run" \/ (wanted = "pause" /\ OperatorPaused)
  /\ \A p \in known : Live(p) /\ p = record.pid

\* Generations are minted before they are used.
GenInv ==
  /\ registration.gen <= minted /\ lease.gen <= minted
  /\ registration.gen = 0 => registration.pred = 0
  /\ \A p \in Pids : proc[p].gen <= minted
  /\ \A f \in fenced : f[2] <= minted
  /\ notice # NoEvidence => notice.pid # 0

\* A process has a generation and a scan loop only while it is up.
ProcInv ==
  \A p \in Pids :
    /\ proc[p].gen # 0 \/ proc[p].scan = "waiting" => proc[p].life = "up"
    /\ p > spawned => proc[p].life = "unborn"

\* The generation that may send input was never revoked under a live process.
FenceInv ==
  /\ lease.current => lease.gen # 0 /\ \A f \in fenced : f[2] # lease.gen
  /\ \A f \in fenced : proc[f[1]].life = "up"

\* The lease names the recorded generation, and the binding descends from it.
LinkInv ==
  record.pid # 0 /\ ~marker
    => lease.gen = record.gen /\ record.gen \in {registration.gen, registration.pred}

Bound   == {"rotate", "save", "grant", "launch", "spawn", "record"}
Past    == {"register", "fence"} \cup Bound
Rotated == {"save", "grant", "launch"}

\* A start under way: nothing is on record but its launch, a restart still
\* descends from the old generation, and its new one is fresh.
StartInv ==
  op.kind = "start" =>
    /\ op.step \in {"begin"} \cup Past
    /\ RecordOk(op.old)
    /\ op.step = "begin" => op.old = record
    /\ op.step # "begin" => record.pid = 0 /\ wanted = "run"
    /\ op.step \in {"fence"} \cup Bound => registration.gen # 0
    /\ op.step \in {"grant", "launch", "spawn", "record"} => record.gen = registration.gen
    /\ op.step \in {"spawn", "record"} => lease.gen = registration.gen
    /\ op.step = "launch" /\ ~Restart => lease.gen = registration.gen
    /\ Restart =>
         /\ op.step \in {"register", "fence", "rotate"} =>
              lease.gen = op.old.gen /\ op.old.gen \in {registration.gen, registration.pred}
         /\ op.step \in {"rotate"} \cup Rotated => ~lease.current
         /\ op.step \in Rotated =>
              /\ lease.gen = op.old.gen /\ registration.pred = op.old.gen
              /\ \A f \in fenced : f[2] # registration.gen

\* A move to a fresh generation under way, behind its marker.
RotateInv ==
  op.kind = "rotate" =>
    /\ op.step \in {"marked", "fenced", "registered", "recorded", "published", "granted"}
    /\ marker /\ minted # 0 /\ proc[op.pid].life = "up"
    /\ op.step = "marked" =>
         /\ lease.gen = proc[op.pid].gen /\ lease.gen # 0 /\ proc[op.pid].gen # minted
    /\ op.step # "granted" => \A f \in fenced : f[2] # minted
    /\ op.step \in {"registered", "recorded", "published", "granted"} => registration.gen = minted
    /\ op.step \in {"recorded", "published", "granted"} => record.gen = minted
    /\ op.step = "granted" => lease.gen = minted

\* Whoever holds the worker's lock for a process knows which, and a stop or a
\* recovery is about a process on record.
PidInv ==
  /\ op.kind \in {"stop", "signal", "rotate"} \/ op.recovery => op.pid \in Pids
  /\ op.kind = "start" /\ op.step = "record" => op.pid \in Pids
  /\ op.kind = "recover" => op.recovery
  /\ op.kind \in {"stop", "signal"} => op.step \in Signals
  /\ op.kind = "stop" => record.pid # 0
  /\ op.recovery /\ op.step \in {"begin", "revoked", "signal", "wait", "killed"} => record.pid # 0

OpInv == StartInv /\ RotateInv /\ PidInv
IInv  == Types /\ RecordInv /\ GenInv /\ ProcInv /\ FenceInv /\ LinkInv /\ OpInv
-----------------------------------------------------------------------------
(* The records.                                                            *)

LEMMA BoundFacts ==
  /\ MaxPid \in Nat /\ MaxGen \in Nat /\ MaxBoots \in Nat /\ MaxRestarts \in Nat
  /\ Pids \subseteq Nat \ {0} /\ Gens \subseteq Nat \ {0} /\ \A n \in Nat : n # 0 /\ n <= MaxGen => n \in Gens
BY BoundsAreNatural, MaxGenIsPositive DEF Pids, Gens

LEMMA TypeParts == Types => TypeOK
BY DEF Types, TypeOK, Ops, Procs, Evidence

LEMMA NoRecordIsRecord == NoRecord \in Records /\ RecordOk(NoRecord) /\ NoRecord.pid = 0
BY BoundFacts DEF NoRecord, Records, RecordOk

LEMMA FailedIsRecord ==
  /\ [NoRecord EXCEPT !.state = "failed"] \in Records
  /\ RecordOk([NoRecord EXCEPT !.state = "failed"])
  /\ [NoRecord EXCEPT !.state = "failed"].pid = 0
BY BoundFacts DEF NoRecord, Records, RecordOk

LEMMA IdleIsOp == Idle \in Ops /\ Idle.kind = "idle" /\ Idle.recovery = FALSE
BY NoRecordIsRecord DEF Idle, Ops, Steps

LEMMA DeadIsProc == Dead \in Procs /\ Dead.life = "dead" /\ Dead.gen = 0 /\ Dead.scan = "off"
BY DEF Dead, Unborn, Procs

\* What the status says of the record it is about.
LEMMA StatusFacts ==
  ASSUME RecordOk(record)
  PROVE  /\ Startable /\ record.pid # 0 => ~marker /\ ~Live(record.pid)
         /\ Status \in {"running", "stopping"} => record.pid # 0
<1>1. record.pid # 0 => record # NoRecord
  BY DEF NoRecord
<1>2. QED
  BY <1>1 DEF RecordOk, Startable, Status

\* The parts of a step's own record keep their types, and the others.
LEMMA StepEdit ==
  ASSUME op \in Ops, NEW s \in Steps
  PROVE  /\ [op EXCEPT !.step = s] \in Ops
         /\ [op EXCEPT !.step = s].step = s
         /\ [op EXCEPT !.step = s].kind = op.kind /\ [op EXCEPT !.step = s].old = op.old
         /\ [op EXCEPT !.step = s].pid = op.pid /\ [op EXCEPT !.step = s].recovery = op.recovery
BY DEF Ops

LEMMA ReturnEdit ==
  ASSUME op \in Ops
  PROVE  LET n == [op EXCEPT !.kind = "recover", !.step = "confirm"]
         IN  /\ n \in Ops /\ n.kind = "recover" /\ n.step = "confirm"
             /\ n.pid = op.pid /\ n.recovery = op.recovery
BY DEF Ops, Steps

LEMMA SpawnEdit ==
  ASSUME op \in Ops, NEW p \in Pids
  PROVE  LET n == [op EXCEPT !.step = "record", !.pid = p]
         IN  /\ n \in Ops /\ n.step = "record" /\ n.pid = p
             /\ n.kind = op.kind /\ n.old = op.old /\ n.recovery = op.recovery
BY DEF Ops, Steps

LEMMA SignalEdit ==
  ASSUME op \in Ops
  PROVE  LET n == [op EXCEPT !.kind = "signal"]
         IN  n \in Ops /\ n.kind = "signal" /\ n.pid = op.pid /\ n.recovery = op.recovery
BY DEF Ops

LEMMA RestartEdit ==
  ASSUME op \in Ops, NEW r \in Records
  PROVE  LET n == [op EXCEPT !.kind = "start", !.step = "begin", !.old = r]
         IN  /\ n \in Ops /\ n.kind = "start" /\ n.step = "begin" /\ n.old = r
             /\ n.pid = op.pid /\ n.recovery = op.recovery
BY DEF Ops, Steps

-----------------------------------------------------------------------------
(* Steps of the processes.                                                 *)

\* The processes go on: none moves to a generation behind a rotation's back,
\* and none is brought to life.
Works ==
  /\ Types'
  /\ UNCHANGED <<record, registration, lease, marker, minted, spawned, wanted, notice>>
  /\ fenced' \subseteq fenced /\ known' \subseteq known
  /\ \A q \in Pids :
       /\ proc'[q].gen # 0 \/ proc'[q].scan = "waiting" => proc'[q].life = "up"
       /\ q > spawned => proc'[q].life = "unborn"
       /\ proc'[q].gen <= minted
       /\ q \in known' => Live(q)'
  /\ \A f \in fenced' : proc'[f[1]].life = "up"
  /\ \/ /\ op' = op
        /\ op.kind = "rotate" => proc'[op.pid].life = "up" /\ proc'[op.pid].gen = proc[op.pid].gen
     \/ op'.kind \notin {"start", "rotate"} /\ PidInv'

LEMMA WorksKeep ==
  ASSUME IInv, Works
  PROVE  IInv'
<1>1. RecordInv /\ GenInv /\ ProcInv /\ FenceInv /\ LinkInv /\ OpInv
  BY DEF IInv
<1>2. /\ UNCHANGED <<record, registration, lease, marker, minted, spawned, wanted, notice>>
      /\ fenced' \subseteq fenced /\ known' \subseteq known
  BY DEF Works
<1>3. Types'
  BY DEF Works
<1>4. RecordInv'
  <2>1. \A p \in known' : p \in Pids
    BY DEF Works, Types
  <2>2. \A p \in known' : Live(p)'
    BY <2>1 DEF Works
  <2>3. QED
    BY <1>1, <1>2, <2>2 DEF RecordInv, RecordOk, OperatorPaused
<1>5. GenInv'
  BY <1>1, <1>2 DEF Works, GenInv
<1>6. ProcInv'
  BY <1>2 DEF Works, ProcInv
<1>7. FenceInv'
  BY <1>1, <1>2 DEF Works, FenceInv
<1>8. LinkInv'
  BY <1>1, <1>2 DEF LinkInv
<1>9. StartInv'
  <2>1. CASE op' = op
    BY <1>1, <1>2, <2>1 DEF OpInv, StartInv, RecordOk, Restart
  <2>2. CASE op'.kind # "start"
    BY <2>2 DEF StartInv
  <2>3. QED
    BY <2>1, <2>2 DEF Works
<1>10. RotateInv'
  <2>1. CASE op' = op /\ op.kind = "rotate"
    <3>1. proc'[op.pid].life = "up" /\ proc'[op.pid].gen = proc[op.pid].gen
      BY <2>1 DEF Works
    <3>2. QED
      BY <1>1, <1>2, <2>1, <3>1 DEF OpInv, RotateInv
  <2>2. CASE op'.kind # "rotate"
    BY <2>2 DEF RotateInv
  <2>3. QED
    BY <2>1, <2>2 DEF Works
<1>11. PidInv'
  BY <1>1, <1>2 DEF Works, OpInv, PidInv
<1>12. QED
  BY <1>3, <1>4, <1>5, <1>6, <1>7, <1>8, <1>9, <1>10, <1>11 DEF IInv, OpInv

LEMMA ProcEdit ==
  ASSUME proc \in [Pids -> Procs], NEW p \in Pids, NEW r \in Procs, proc' = [proc EXCEPT ![p] = r]
  PROVE  proc' \in [Pids -> Procs] /\ proc'[p] = r /\ \A q \in Pids : q # p => proc'[q] = proc[q]
OBVIOUS

\* A process's row is written, and its life and its generation are not.
LEMMA TouchWorks ==
  ASSUME IInv, NEW p \in Pids, NEW r \in Procs, proc' = [proc EXCEPT ![p] = r],
         r.life = proc[p].life, r.gen = proc[p].gen, r.scan = "waiting" => r.life = "up",
         intent' \in {"none", "running", "stopped"}, evidence' \in Evidence,
         UNCHANGED <<record, registration, lease, marker, held, episodes, notice, boot, minted,
                     spawned, history>>,
         op' \in Ops, op' = op \/ (op'.kind \notin {"start", "rotate"} /\ PidInv')
  PROVE  Works
<1>1. Types /\ GenInv /\ ProcInv /\ FenceInv /\ OpInv /\ RecordInv
  BY DEF IInv
<1>2. proc' \in [Pids -> Procs] /\ proc'[p] = r /\ \A q \in Pids : q # p => proc'[q] = proc[q]
  BY <1>1, ProcEdit DEF Types
<1>3. Types'
  BY <1>1, <1>2 DEF Types, history
<1>4. \A q \in Pids : proc'[q].life = proc[q].life /\ proc'[q].gen = proc[q].gen
  BY <1>2
<1>5. \A q \in Pids : proc'[q].scan = "waiting" => proc'[q].life = "up"
  BY <1>1, <1>2 DEF ProcInv
<1>6. \A q \in Pids : Live(q)' <=> Live(q)
  BY <1>4 DEF Live
<1>7. \A f \in fenced : f[1] \in Pids
  BY <1>1 DEF Types
<1>8. op' = op /\ op.kind = "rotate" => op.pid \in Pids /\ proc[op.pid].life = "up"
  BY <1>1 DEF OpInv, PidInv, RotateInv
<1>9. \A q \in Pids :
       /\ proc'[q].gen # 0 \/ proc'[q].scan = "waiting" => proc'[q].life = "up"
       /\ q > spawned => proc'[q].life = "unborn"
       /\ proc'[q].gen <= minted
  BY <1>1, <1>4, <1>5 DEF ProcInv, GenInv
<1>10. \A q \in known : Live(q)' /\ q \in Pids
  BY <1>1, <1>6 DEF RecordInv, Types
<1>11. \A f \in fenced : proc'[f[1]].life = "up"
  BY <1>1, <1>4, <1>7 DEF FenceInv
<1>12. QED
  BY <1>3, <1>4, <1>8, <1>9, <1>10, <1>11 DEF Works, history

LEMMA RunnerWorks ==
  ASSUME IInv, NEW p \in Pids, NEW operator \in BOOLEAN,
         \/ RunnerStart(p, operator) \/ RunnerStop(p) \/ ScanEnds(p) \/ Arm(p)
         \/ SendInput(p) \/ RotateRefused(p)
  PROVE  Works
<1> DEFINE x == proc[p]
<1>1. x \in Procs /\ ProcInv /\ Types
  BY DEF IInv, Types
<1>2. CASE RunnerStart(p, operator)
  <2>1. PICK r \in {[x EXCEPT !.scan = "on", !.started = TRUE], [x EXCEPT !.scan = "waiting"]} :
          proc' = [proc EXCEPT ![p] = r]
    BY <1>2 DEF RunnerStart
  <2>2. r \in Procs /\ r.life = x.life /\ r.gen = x.gen /\ x.life = "up"
    BY <1>1, <1>2, <2>1 DEF Procs, RunnerStart
  <2>3. /\ intent' \in {"none", "running", "stopped"} /\ op' = op
        /\ UNCHANGED <<record, registration, lease, marker, held, episodes, notice, boot, minted,
                       spawned, history>>
    BY <1>1, <1>2 DEF RunnerStart, Types
  <2>4. evidence' \in Evidence
    <3>1. evidence' = evidence \/ evidence' = [pid |-> p, gen |-> x.gen]
      BY <1>2 DEF RunnerStart
    <3>2. QED
      BY <1>1, <3>1 DEF Types, Evidence, Procs
  <2> HIDE DEF x
  <2>5. QED
    BY <1>1, <2>1, <2>2, <2>3, <2>4, TouchWorks DEF x, Types
<1>3. CASE RunnerStop(p)
  <2> DEFINE s == IF x.scan = "on" THEN "ending" ELSE x.scan
             r == [x EXCEPT !.scan = s]
  <2>1. /\ proc' = [proc EXCEPT ![p] = r] /\ r \in Procs /\ r.life = x.life /\ r.gen = x.gen
        /\ x.life = "up"
    BY <1>1, <1>3 DEF Procs, RunnerStop
  <2>2. /\ intent' = "stopped" /\ op' = op /\ evidence' = evidence
        /\ UNCHANGED <<record, registration, lease, marker, held, episodes, notice, boot, minted,
                       spawned, history>>
    BY <1>3 DEF RunnerStop
  <2> HIDE DEF r, x
  <2>3. QED
    BY <1>1, <2>1, <2>2, TouchWorks DEF x, Types
<1>4. CASE ScanEnds(p) \/ RotateRefused(p) \/ Arm(p) \/ SendInput(p)
  <2>1. PICK r \in {[x EXCEPT !.scan = "off"], [x EXCEPT !.armed = TRUE], [x EXCEPT !.armed = FALSE]} :
          proc' = [proc EXCEPT ![p] = r]
    BY <1>4 DEF ScanEnds, RotateRefused, Arm, SendInput
  <2>2. r \in Procs /\ r.life = x.life /\ r.gen = x.gen /\ (r.scan = "waiting" => x.scan = "waiting")
    BY <1>1, <2>1 DEF Procs
  <2>3. r.scan = "waiting" => x.life = "up"
    BY <1>1, <2>2 DEF ProcInv
  <2>4. /\ op' = op /\ UNCHANGED diskVars /\ UNCHANGED <<notice, boot, minted, spawned, history>>
    BY <1>4 DEF ScanEnds, RotateRefused, Arm, SendInput
  <2> HIDE DEF x
  <2>5. QED
    BY <1>1, <2>1, <2>2, <2>3, <2>4, TouchWorks DEF x, Types, diskVars
<1>5. QED
  BY <1>2, <1>3, <1>4

LEMMA IdleIsFine == op' = Idle => OpInv' /\ op' \in Ops /\ op'.kind \notin {"start", "rotate"}
<1>1. op' = Idle => op' \in Ops /\ op'.kind = "idle" /\ op'.recovery = FALSE
  BY IdleIsOp
<1>2. QED
  BY <1>1 DEF OpInv, StartInv, RotateInv, PidInv

\* A signal changes nothing but the row it is sent to.
LEMMA SignalWorks ==
  ASSUME IInv, SendSignal \/ RecoverSignals \/ RecoverKills
  PROVE  Works
<1>1. Types /\ ProcInv /\ PidInv
  BY DEF IInv, OpInv
<1>2. op.pid \in Pids /\ op.kind \in {"signal", "recover"}
  BY <1>1 DEF PidInv, SendSignal, RecoverSignals, RecoverKills, At
<1> DEFINE x == proc[op.pid]
<1>3. x \in Procs
  BY <1>1, <1>2 DEF Types
<1>4. PICK s \in Signals : proc' = Signalled(op.pid, s)
  BY <1>1 DEF SendSignal, RecoverSignals, RecoverKills, Signals, PidInv
<1> DEFINE t == IF Live(op.pid) /\ x.signal # "kill" THEN s ELSE x.signal
           r == [x EXCEPT !.signal = t]
<1>5. proc' = [proc EXCEPT ![op.pid] = r]
  BY <1>4 DEF Signalled
<1>6. t \in Signals \cup {"none"}
  BY <1>3 DEF Procs
<1>7. r \in Procs /\ r.life = x.life /\ r.gen = x.gen /\ (r.scan = "waiting" => x.life = "up")
  BY <1>1, <1>2, <1>3, <1>6 DEF Procs, ProcInv
<1>8. UNCHANGED diskVars /\ UNCHANGED <<boot, minted, spawned, history, notice>>
  BY DEF SendSignal, RecoverSignals, RecoverKills
<1>9. \/ op' = Idle
      \/ /\ op.kind = "recover" /\ op.step \in {"signal", "wait"}
         /\ \E n \in Steps : op' = [op EXCEPT !.step = n]
  <2>1. "wait" \in Steps /\ "killed" \in Steps
    BY DEF Steps
  <2>2. QED
    BY <2>1 DEF SendSignal, RecoverSignals, RecoverKills, Step, At
<1>10. op' \in Ops /\ op'.kind \notin {"start", "rotate"} /\ PidInv'
  <2>1. CASE op' = Idle
    BY <2>1, IdleIsFine DEF OpInv
  <2>2. CASE /\ op.kind = "recover" /\ op.step \in {"signal", "wait"}
             /\ \E n \in Steps : op' = [op EXCEPT !.step = n]
    <3>1. op' \in Ops /\ op'.kind = op.kind /\ op'.pid = op.pid /\ op'.recovery = op.recovery
      BY <1>1, <2>2, StepEdit DEF Types
    <3>2. record' = record
      BY <1>8 DEF diskVars
    <3>3. QED
      BY <1>1, <2>2, <3>1, <3>2 DEF PidInv
  <2>3. QED
    BY <1>9, <2>1, <2>2
<1> HIDE DEF r, x
<1>11. intent' \in {"none", "running", "stopped"} /\ evidence' \in Evidence
  BY <1>1, <1>8 DEF Types, diskVars
<1>12. QED
  BY <1>2, <1>5, <1>7, <1>8, <1>10, <1>11, TouchWorks DEF x, diskVars

LEMMA LoadWorks ==
  ASSUME IInv, NEW p \in Pids, Load(p)
  PROVE  Works
<1> DEFINE x == proc[p]
           r == [x EXCEPT !.life = "up", !.gen = registration.gen]
<1>1. Types /\ ProcInv /\ FenceInv /\ GenInv /\ RecordInv /\ OpInv
  BY DEF IInv
<1>2. /\ x.life = "reserved" /\ proc' = [proc EXCEPT ![p] = r]
      /\ UNCHANGED <<diskVars, op, notice, boot, minted, spawned, history>>
  BY DEF Load
<1>3. r \in Procs /\ r.life = "up" /\ r.gen = registration.gen
  BY <1>1, <1>2 DEF Types, Procs
<1> HIDE DEF r
<1>4. proc' \in [Pids -> Procs] /\ proc'[p] = r /\ \A q \in Pids : q # p => proc'[q] = proc[q]
  BY <1>1, <1>2, <1>3, ProcEdit DEF Types
<1>5. Types'
  BY <1>1, <1>2, <1>4 DEF Types, history, diskVars
<1>6. \A q \in Pids :
        /\ proc'[q].gen # 0 \/ proc'[q].scan = "waiting" => proc'[q].life = "up"
        /\ q > spawned => proc'[q].life = "unborn"
        /\ proc'[q].gen <= minted
  BY <1>1, <1>2, <1>3, <1>4 DEF ProcInv, GenInv
<1>7. \A q \in known : Live(q)' /\ q \in Pids
  BY <1>1, <1>3, <1>4 DEF RecordInv, Live, Types
<1>8. \A f \in fenced : proc'[f[1]].life = "up" /\ f[1] \in Pids
  BY <1>1, <1>3, <1>4 DEF FenceInv, Types
<1>9. op.kind = "rotate" => op.pid \in Pids /\ op.pid # p /\ proc[op.pid].life = "up"
  BY <1>1, <1>2 DEF OpInv, RotateInv, PidInv
<1>10. op.kind = "rotate" => proc'[op.pid].life = "up" /\ proc'[op.pid].gen = proc[op.pid].gen
  BY <1>4, <1>9
<1>11. QED
  BY <1>2, <1>5, <1>6, <1>7, <1>8, <1>10 DEF Works, history, diskVars

\* A process that ends, or that takes the endpoint.
LEMMA BootWorks ==
  ASSUME IInv, NEW p \in Pids, Boot(p)
  PROVE  Works
<1> DEFINE x == proc[p]
<1>1. Types /\ ProcInv /\ FenceInv /\ GenInv /\ RecordInv /\ OpInv
  BY DEF IInv
<1>2. /\ x.life = "booting"
      /\ \/ proc' = [proc EXCEPT ![p] = Dead] /\ known' = known \ {p}
         \/ proc' = [proc EXCEPT ![p] = [x EXCEPT !.life = "reserved"]] /\ known' = known
      /\ UNCHANGED <<diskVars, op, notice, boot, minted, spawned, fenced, wanted>>
  BY DEF Boot
<1>3. x.gen = 0 /\ x.scan # "waiting" /\ x \in Procs
  BY <1>1, <1>2 DEF ProcInv, Types
<1>4. PICK r \in Procs : /\ proc' = [proc EXCEPT ![p] = r] /\ r.gen = 0 /\ r.scan # "waiting"
                         /\ r.life # "unborn"
                         /\ p \in known' => r.life = "reserved"
                         /\ known' \subseteq known
  <2>1. CASE proc' = [proc EXCEPT ![p] = Dead] /\ known' = known \ {p}
    BY <2>1, DeadIsProc
  <2>2. CASE proc' = [proc EXCEPT ![p] = [x EXCEPT !.life = "reserved"]] /\ known' = known
    <3> DEFINE r == [x EXCEPT !.life = "reserved"]
    <3>1. r \in Procs /\ r.gen = 0 /\ r.scan # "waiting" /\ r.life = "reserved"
      BY <1>3 DEF Procs
    <3> HIDE DEF r
    <3>2. proc' = [proc EXCEPT ![p] = r]
      BY <2>2 DEF r
    <3>3. QED
      BY <2>2, <3>1, <3>2
  <2>3. QED
    BY <1>2, <2>1, <2>2
<1>5. proc' \in [Pids -> Procs] /\ proc'[p] = r /\ \A q \in Pids : q # p => proc'[q] = proc[q]
  BY <1>1, <1>4, ProcEdit DEF Types
<1>6. Types'
  BY <1>1, <1>2, <1>4, <1>5 DEF Types, diskVars
<1>7. \A q \in Pids :
        /\ proc'[q].gen # 0 \/ proc'[q].scan = "waiting" => proc'[q].life = "up"
        /\ q > spawned => proc'[q].life = "unborn"
        /\ proc'[q].gen <= minted
  <2>1. p <= spawned
    BY <1>1, <1>2, BoundFacts DEF ProcInv, Types
  <2>2. minted \in Nat
    BY <1>1 DEF Types
  <2>3. ~(p > spawned) /\ 0 <= minted
    BY <1>1, <2>1, <2>2, BoundFacts DEF Types
  <2>4. \A q \in Pids : q # p => proc'[q] = proc[q]
    BY <1>5
  <2>5. proc'[p].gen = 0 /\ proc'[p].scan # "waiting"
    BY <1>4, <1>5
  <2>6. QED
    BY <1>1, <2>3, <2>4, <2>5 DEF ProcInv, GenInv
<1>8. \A q \in known' : Live(q)' /\ q \in Pids
  BY <1>1, <1>4, <1>5 DEF RecordInv, Live, Types
<1>9. \A f \in fenced : proc'[f[1]].life = "up"
  <2>1. \A f \in fenced : f[1] \in Pids /\ f[1] # p
    BY <1>1, <1>2 DEF FenceInv, Types
  <2>2. QED
    BY <1>1, <1>5, <2>1 DEF FenceInv
<1>10. op.kind = "rotate" => op.pid \in Pids /\ op.pid # p /\ proc[op.pid].life = "up"
  BY <1>1, <1>2 DEF OpInv, RotateInv, PidInv
<1>11. op.kind = "rotate" => proc'[op.pid].life = "up" /\ proc'[op.pid].gen = proc[op.pid].gen
  BY <1>5, <1>10
<1>12. QED
  BY <1>2, <1>4, <1>6, <1>7, <1>8, <1>9, <1>11 DEF Works, diskVars

LEMMA DiesWorks ==
  ASSUME IInv, NEW p \in Pids, Dies(p)
  PROVE  Works
<1>1. Types /\ ProcInv /\ FenceInv /\ GenInv /\ RecordInv /\ OpInv
  BY DEF IInv
<1>2. /\ Live(p) /\ proc' = [proc EXCEPT ![p] = Dead]
      /\ op' = IF op.kind = "rotate" /\ op.pid = p THEN Idle ELSE op
      /\ fenced' = {f \in fenced : f[1] # p} /\ known' = known \ {p}
      /\ UNCHANGED <<diskVars, notice, boot, minted, spawned, wanted>>
  BY Zenon DEF Dies
<1>3. proc' \in [Pids -> Procs] /\ proc'[p] = Dead /\ \A q \in Pids : q # p => proc'[q] = proc[q]
  BY <1>1, <1>2, DeadIsProc, ProcEdit DEF Types
<1>4. Types'
  BY <1>1, <1>2, <1>3, IdleIsFine DEF Types, diskVars
<1>5. \A q \in Pids :
        /\ proc'[q].gen # 0 \/ proc'[q].scan = "waiting" => proc'[q].life = "up"
        /\ q > spawned => proc'[q].life = "unborn"
        /\ proc'[q].gen <= minted
  <2>1. p <= spawned
    BY <1>1, <1>2, BoundFacts DEF ProcInv, Types, Live
  <2>2. minted \in Nat
    BY <1>1 DEF Types
  <2>3. ~(p > spawned) /\ 0 <= minted
    BY <1>1, <2>1, <2>2, BoundFacts DEF Types
  <2>4. \A q \in Pids : q # p => proc'[q] = proc[q]
    BY <1>3
  <2>5. proc'[p].gen = 0 /\ proc'[p].scan # "waiting"
    BY <1>3, DeadIsProc
  <2>6. QED
    BY <1>1, <2>3, <2>4, <2>5 DEF ProcInv, GenInv
<1>6. \A q \in known' : Live(q)' /\ q \in Pids
  BY <1>1, <1>2, <1>3 DEF RecordInv, Live, Types
<1>7. \A f \in fenced' : proc'[f[1]].life = "up"
  <2>1. \A f \in fenced' : f \in fenced /\ f[1] \in Pids /\ f[1] # p
    BY <1>1, <1>2 DEF Types
  <2>2. QED
    BY <1>1, <1>3, <2>1 DEF FenceInv
<1>8. \/ op' = op /\ ~(op.kind = "rotate" /\ op.pid = p)
      \/ op' = Idle
  BY <1>2
<1>9. op.kind = "rotate" /\ op.pid # p => proc'[op.pid].life = "up" /\ proc'[op.pid].gen = proc[op.pid].gen
  BY <1>1, <1>3 DEF OpInv, RotateInv, PidInv
<1>10. QED
  BY <1>2, <1>4, <1>5, <1>6, <1>7, <1>8, <1>9, IdleIsFine DEF Works, diskVars, OpInv
-----------------------------------------------------------------------------
(* What the steps of the coordinator share.                                *)

\* What a step leaves alone keeps its part of the invariant.
LEMMA Frames ==
  ASSUME IInv
  PROVE  /\ UNCHANGED <<record, wanted, proc, known>> => RecordInv'
         /\ UNCHANGED <<proc, spawned>> => ProcInv'
         /\ UNCHANGED <<lease, proc, fenced>> => FenceInv'
         /\ UNCHANGED <<record, marker, lease, registration>> => LinkInv'
         /\ UNCHANGED <<registration, lease, proc, fenced, minted, notice>> => GenInv'
         /\ op'.kind # "start" => StartInv'
         /\ op'.kind # "rotate" => RotateInv'
<1>1. UNCHANGED <<record, wanted, proc, known>> => RecordInv'
  BY DEF IInv, RecordInv, RecordOk, OperatorPaused, Live
<1>2. UNCHANGED <<proc, spawned>> => ProcInv'
  BY DEF IInv, ProcInv
<1>3. UNCHANGED <<lease, proc, fenced>> => FenceInv'
  BY DEF IInv, FenceInv
<1>4. UNCHANGED <<record, marker, lease, registration>> => LinkInv'
  BY DEF IInv, LinkInv
<1>5. UNCHANGED <<registration, lease, proc, fenced, minted, notice>> => GenInv'
  BY DEF IInv, GenInv
<1>6. QED
  BY <1>1, <1>2, <1>3, <1>4, <1>5 DEF StartInv, RotateInv

\* A revocation leaves a lease that is not current, and cuts off processes
\* that are up.
LEMMA RevokeFacts ==
  ASSUME IInv, NEW g, Revoke(g), g # 0
  PROVE  /\ lease' \in Leases /\ lease'.gen = lease.gen /\ lease.gen = g /\ ~lease'.current
         /\ fenced' \subseteq Pids \X Gens
         /\ \A f \in fenced' : f \in fenced \/ f[2] = g
         /\ \A f \in fenced' : proc[f[1]].life = "up" /\ f[2] <= minted
<1>1. Types /\ ProcInv /\ FenceInv /\ GenInv
  BY DEF IInv
<1>2. lease.gen = g /\ g \in Gens /\ g <= minted
  BY <1>1 DEF Types, Revoke, CanRevoke, Leases, GenInv
<1>3. lease' \in Leases /\ lease'.gen = lease.gen /\ ~lease'.current
  BY <1>1 DEF Types, Revoke, Revoked, Leases
<1>4. fenced' = fenced \cup (Holders(g) \X {g})
  BY DEF Revoke
<1>5. \A p \in Holders(g) : p \in Pids /\ proc[p].life = "up"
  BY <1>1 DEF Holders, ProcInv
<1>6. \A f \in Holders(g) \X {g} : f[1] \in Holders(g) /\ f[2] = g
  OBVIOUS
<1>7. fenced' \subseteq Pids \X Gens
  BY <1>1, <1>2, <1>4, <1>5 DEF Types
<1>8. QED
  BY <1>1, <1>2, <1>3, <1>4, <1>5, <1>6, <1>7 DEF FenceInv, GenInv

\* The lease after a revocation is nobody's, whoever was cut off.
LEMMA RevokeKeeps ==
  ASSUME IInv, NEW g, Revoke(g), g # 0,
         UNCHANGED <<registration, minted, proc, record, marker>>, notice' = notice \/ notice' = NoEvidence
  PROVE  FenceInv' /\ GenInv' /\ LinkInv'
<1>1. GenInv /\ LinkInv
  BY DEF IInv
<1>2. /\ lease'.gen = lease.gen /\ ~lease'.current
      /\ \A f \in fenced' : proc[f[1]].life = "up" /\ f[2] <= minted
  BY RevokeFacts
<1>3. FenceInv'
  BY <1>2 DEF FenceInv
<1>4. GenInv'
  BY <1>1, <1>2 DEF GenInv
<1>5. LinkInv'
  BY <1>1, <1>2 DEF LinkInv
<1>6. QED
  BY <1>3, <1>4, <1>5

LEMMA ReturnOps ==
  ASSUME IInv, Return
  PROVE  op' \in Ops /\ OpInv' /\ op'.kind \notin {"start", "rotate"}
<1>1. op \in Ops /\ PidInv
  BY DEF IInv, Types, OpInv
<1>2. CASE op.recovery
  <2>1. op' = [op EXCEPT !.kind = "recover", !.step = "confirm"]
    BY <1>2 DEF Return
  <2>2. /\ op' \in Ops /\ op'.kind = "recover" /\ op'.step = "confirm" /\ op'.pid = op.pid
        /\ op'.recovery = op.recovery
    BY <1>1, <2>1, ReturnEdit
  <2>3. QED
    BY <1>1, <1>2, <2>2 DEF OpInv, StartInv, RotateInv, PidInv
<1>3. CASE ~op.recovery
  BY <1>3, IdleIsFine DEF Return
<1>4. QED
  BY <1>2, <1>3

\* A start that fails leaves no record of a launch, and the record of a
\* process alone.
LEMMA FailKeeps ==
  ASSUME IInv, Fail,
         UNCHANGED <<registration, lease, intent, marker, held, episodes, evidence, notice, boot,
                     minted, spawned, proc, history>>
  PROVE  IInv'
<1>1. Types /\ RecordInv /\ GenInv /\ ProcInv /\ FenceInv /\ LinkInv
  BY DEF IInv
<1>2. op' \in Ops /\ OpInv'
  BY ReturnOps DEF Fail
<1>3. record' = record \/ (record.pid = 0 /\ record' \in Records /\ RecordOk(record') /\ record'.pid = 0)
  BY FailedIsRecord DEF Fail
<1>4. Types'
  BY <1>1, <1>2, <1>3 DEF Types, history
<1>5. RecordInv'
  BY <1>1, <1>3 DEF RecordInv, RecordOk, OperatorPaused, Live, history
<1>6. GenInv' /\ ProcInv' /\ FenceInv'
  BY Frames DEF history
<1>7. LinkInv'
  BY <1>1, <1>3 DEF LinkInv
<1>8. QED
  BY <1>2, <1>4, <1>5, <1>6, <1>7 DEF IInv

LEMMA StartRaisesKeeps ==
  ASSUME IInv, StartRaises
  PROVE  IInv'
BY FailKeeps DEF StartRaises
-----------------------------------------------------------------------------
(* Starting.                                                               *)

\* Where a start is past its beginning, nobody is on record.
LEMMA NobodyOnRecord ==
  ASSUME IInv, op.kind = "start", op.step # "begin"
  PROVE  known = {} /\ record.pid = 0 /\ wanted = "run"
BY DEF IInv, OpInv, StartInv, RecordInv, Types, Pids

LEMMA OperatorStartKeeps ==
  ASSUME IInv, OperatorStart
  PROVE  IInv'
<1>1. Types /\ RecordOk(record)
  BY DEF IInv, RecordInv
<1>2. /\ op' = [Idle EXCEPT !.kind = "start", !.step = "begin", !.old = record]
      /\ UNCHANGED <<diskVars, notice, boot, minted, spawned, proc, history>>
  BY Zenon DEF OperatorStart
<1>3. /\ op' \in Ops /\ op'.kind = "start" /\ op'.step = "begin" /\ op'.old = record
      /\ op'.recovery = FALSE
  BY <1>1, <1>2, NoRecordIsRecord DEF Idle, Ops, Steps, Types
<1>4. OpInv'
  BY <1>1, <1>2, <1>3 DEF OpInv, StartInv, RotateInv, PidInv, Past, Bound, Rotated, RecordOk, diskVars
<1>5. Types'
  BY <1>1, <1>2, <1>3 DEF Types, diskVars, history
<1>6. RecordInv' /\ GenInv' /\ ProcInv' /\ FenceInv' /\ LinkInv'
  BY <1>2, Frames DEF diskVars, history
<1>7. QED
  BY <1>4, <1>5, <1>6 DEF IInv

LEMMA StartRefusedKeeps ==
  ASSUME IInv, StartRefused
  PROVE  IInv'
<1>1. Types
  BY DEF IInv
<1>2. Return /\ UNCHANGED <<diskVars, notice, boot, minted, spawned, proc, history>>
  BY Zenon DEF StartRefused
<1>3. op' \in Ops /\ OpInv'
  BY <1>2, ReturnOps
<1>4. Types'
  BY <1>1, <1>2, <1>3 DEF Types, diskVars, history
<1>5. RecordInv' /\ GenInv' /\ ProcInv' /\ FenceInv' /\ LinkInv'
  BY <1>2, Frames DEF diskVars, history
<1>6. QED
  BY <1>3, <1>4, <1>5 DEF IInv

\* Only a record whose process is dead is replaced by a launch.
LEMMA StartBeginsKeeps ==
  ASSUME IInv, StartBegins
  PROVE  IInv'
<1>1. Types /\ RecordInv /\ LinkInv /\ OpInv
  BY DEF IInv
<1>2. /\ op.kind = "start" /\ op.step = "begin" /\ Startable /\ (op.recovery => ~OperatorPaused)
      /\ UNCHANGED <<registration, lease, intent, marker, held, episodes, evidence, notice, boot,
                     minted, spawned, proc, fenced, known>>
  BY DEF StartBegins, At
<1>3. CASE Fail /\ UNCHANGED wanted
  BY <1>2, <1>3, FailKeeps DEF history
<1>4. CASE /\ record' = [NoRecord EXCEPT !.state = "starting", !.owner = boot]
           /\ wanted' = IF op.recovery THEN wanted ELSE "run"
           /\ Step("register")
  <2>1. record' \in Records /\ RecordOk(record') /\ record'.pid = 0
    BY <1>1, <1>4 DEF NoRecord, Records, RecordOk, Types
  <2>2. "register" \in Steps /\ op' = [op EXCEPT !.step = "register"]
    BY <1>4 DEF Steps, Step
  <2>3. /\ op' \in Ops /\ op'.kind = "start" /\ op'.step = "register" /\ op'.old = record
        /\ op'.pid = op.pid /\ op'.recovery = op.recovery
    BY <1>1, <1>2, <2>2, StepEdit DEF Types, OpInv, StartInv
  <2>4. record.pid # 0 => ~marker /\ ~Live(record.pid)
    BY <1>1, <1>2, StatusFacts DEF RecordInv
  <2>5. known = {}
    BY <1>1, <2>4, BoundFacts DEF RecordInv, Types
  <2>6. wanted' = "run"
    BY <1>1, <1>2, <1>4 DEF RecordInv, OpInv, PidInv
  <2>7. Types'
    BY <1>1, <1>2, <2>1, <2>3, <2>6 DEF Types
  <2>8. RecordInv'
    BY <1>2, <2>1, <2>5 DEF RecordInv, RecordOk
  <2>9. GenInv' /\ ProcInv' /\ FenceInv'
    BY <1>2, Frames
  <2>10. LinkInv'
    BY <2>1 DEF LinkInv
  <2>11. StartInv'
    <3>1. record.pid # 0 => lease.gen = record.gen /\ record.gen \in {registration.gen, registration.pred}
      BY <1>1, <2>4 DEF LinkInv
    <3>2. RecordOk(op'.old)
      BY <1>1, <2>3 DEF RecordInv
    <3>3. QED
      BY <1>2, <2>1, <2>3, <2>6, <3>1, <3>2 DEF StartInv, Past, Bound, Rotated, Restart, RecordOk
  <2>12. RotateInv' /\ PidInv'
    BY <1>1, <1>2, <2>3 DEF OpInv, RotateInv, PidInv
  <2>13. QED
    BY <2>7, <2>8, <2>9, <2>10, <2>11, <2>12 DEF IInv, OpInv
<1>5. QED
  BY <1>3, <1>4 DEF StartBegins

\* A step of a start from the one it was at.
LEMMA StartStep ==
  ASSUME IInv, op.kind = "start", op.step # "begin", NEW s \in Past \ {"record"}, Step(s)
  PROVE  /\ op' \in Ops /\ op'.kind = "start" /\ op'.step = s /\ op'.old = op.old
         /\ op'.recovery = op.recovery /\ RecordOk(op'.old)
         /\ RotateInv' /\ PidInv' /\ (Restart' <=> Restart)
<1>1. op \in Ops /\ PidInv /\ StartInv
  BY DEF IInv, Types, OpInv
<1>2. /\ op' \in Ops /\ op'.kind = "start" /\ op'.step = s /\ op'.old = op.old
      /\ op'.recovery = op.recovery /\ op'.pid = op.pid
  <2>1. s \in Steps
    BY DEF Past, Bound, Steps
  <2>2. QED
    BY <1>1, <2>1, StepEdit DEF Step
<1>3. QED
  BY <1>1, <1>2 DEF StartInv, RecordOk, RotateInv, PidInv, Restart, Past, Bound

LEMMA RegisterKeeps ==
  ASSUME IInv, Register
  PROVE  IInv'
<1>1. Types /\ RecordInv /\ GenInv /\ OpInv
  BY DEF IInv
<1>2. /\ op.kind = "start" /\ op.step = "register" /\ Step("fence")
      /\ UNCHANGED <<record, lease, intent, marker, held, episodes, evidence, notice, boot, spawned,
                     proc, history>>
  BY DEF Register, At
<1>3. /\ op' \in Ops /\ op'.kind = "start" /\ op'.step = "fence" /\ op'.old = op.old
      /\ RecordOk(op'.old) /\ RotateInv' /\ PidInv' /\ (Restart' <=> Restart)
  BY <1>2, StartStep DEF Past, Bound
<1>4. /\ minted' \in 0..MaxGen /\ minted <= minted'
      /\ registration' \in [gen : Gens \cup {0}, pred : Gens \cup {0}]
      /\ registration'.gen # 0 /\ registration'.gen <= minted'
      /\ registration.gen # 0 => registration' = registration
  <2>1. CASE /\ registration.gen = 0 /\ minted < MaxGen
             /\ minted' = minted + 1
             /\ registration' = [gen |-> minted + 1, pred |-> 0]
    BY <1>1, <2>1, BoundFacts DEF Types
  <2>2. CASE registration.gen # 0 /\ UNCHANGED <<minted, registration>>
    BY <1>1, <2>2, BoundFacts DEF Types, GenInv
  <2>3. QED
    BY <2>1, <2>2 DEF Register
<1>5. Types'
  BY <1>1, <1>2, <1>3, <1>4 DEF Types, history
<1>6. GenInv'
  <2>1. \A g \in Gens \cup {0} : g <= minted => g <= minted'
    BY <1>1, <1>4, BoundFacts DEF Types
  <2>2. lease.gen \in Gens \cup {0} /\ \A p \in Pids : proc[p].gen \in Gens \cup {0}
    BY <1>1 DEF Types, Leases, Procs
  <2>3. \A f \in fenced : f[2] \in Gens
    BY <1>1 DEF Types
  <2>4. QED
    BY <1>1, <1>2, <1>4, <2>1, <2>2, <2>3 DEF GenInv, history
<1>7. RecordInv' /\ ProcInv' /\ FenceInv'
  BY <1>2, Frames DEF history
<1>8. LinkInv'
  BY <1>2, NobodyOnRecord DEF LinkInv
<1>9. StartInv'
  <2>1. Restart => lease.gen = op.old.gen /\ op.old.gen \in {registration.gen, registration.pred}
    BY <1>1, <1>2 DEF OpInv, StartInv
  <2>2. Restart => op.old.gen # 0
    BY <1>1, <1>2 DEF OpInv, StartInv, RecordOk, Restart
  <2>3. Restart => registration.gen # 0
    BY <1>1, <2>1, <2>2 DEF GenInv
  <2>4. record'.pid = 0 /\ wanted' = "run"
    BY <1>2, NobodyOnRecord DEF history
  <2>5. QED
    BY <1>2, <1>3, <1>4, <2>1, <2>3, <2>4 DEF StartInv, Past, Bound, Rotated, RecordOk
<1>10. QED
  BY <1>3, <1>5, <1>6, <1>7, <1>8, <1>9 DEF IInv, OpInv

LEMMA FenceOldKeeps ==
  ASSUME IInv, FenceOld
  PROVE  IInv'
<1>1. Types /\ RecordInv /\ GenInv /\ OpInv
  BY DEF IInv
<1>2. /\ op.kind = "start" /\ op.step = "fence"
      /\ UNCHANGED <<registration, intent, marker, held, episodes, evidence, notice, boot, minted,
                     spawned, proc, wanted, known>>
  BY DEF FenceOld, At
<1>3. CASE Fail /\ UNCHANGED <<lease, fenced>>
  BY <1>2, <1>3, FailKeeps DEF history
<1>4. CASE /\ Step("rotate") /\ UNCHANGED record
           /\ \/ Restart /\ op.old.gen # 0 /\ Revoke(op.old.gen)
              \/ (~Restart \/ ~lease.current) /\ UNCHANGED <<lease, fenced>>
  <2>1. /\ op' \in Ops /\ op'.kind = "start" /\ op'.step = "rotate" /\ op'.old = op.old
        /\ RecordOk(op'.old) /\ RotateInv' /\ PidInv' /\ (Restart' <=> Restart)
    BY <1>2, <1>4, StartStep DEF Past, Bound
  <2>2. /\ lease' \in Leases /\ lease'.gen = lease.gen /\ fenced' \subseteq Pids \X Gens
        /\ Restart => ~lease'.current
    <3>1. CASE UNCHANGED <<lease, fenced>> /\ (~Restart \/ ~lease.current)
      BY <1>1, <3>1 DEF Types
    <3>2. CASE Restart /\ op.old.gen # 0 /\ Revoke(op.old.gen)
      BY <3>2, RevokeFacts
    <3>3. QED
      BY <1>4, <3>1, <3>2
  <2>3. Types'
    BY <1>1, <1>2, <1>4, <2>1, <2>2 DEF Types
  <2>4. RecordInv' /\ ProcInv'
    BY <1>2, <1>4, Frames
  <2>5. FenceInv' /\ GenInv' /\ LinkInv'
    <3>1. CASE UNCHANGED <<lease, fenced>>
      BY <1>2, <1>4, <3>1, Frames
    <3>2. CASE op.old.gen # 0 /\ Revoke(op.old.gen)
      BY <1>2, <1>4, <3>2, RevokeKeeps
    <3>3. QED
      BY <1>4, <3>1, <3>2
  <2>6. StartInv'
    <3>1. record'.pid = 0 /\ wanted' = "run"
      BY <1>2, <1>4, NobodyOnRecord
    <3>2. /\ registration.gen # 0
          /\ Restart => lease.gen = op.old.gen /\ op.old.gen \in {registration.gen, registration.pred}
      BY <1>1, <1>2 DEF OpInv, StartInv
    <3>3. QED
      BY <1>2, <2>1, <2>2, <3>1, <3>2 DEF StartInv, Past, Bound, Rotated
  <2>7. QED
    BY <2>1, <2>3, <2>4, <2>5, <2>6 DEF IInv, OpInv
<1>5. QED
  BY <1>3, <1>4 DEF FenceOld

\* A restart's generation is fresh: nobody was ever cut off from it.
LEMMA RotateBindingKeeps ==
  ASSUME IInv, RotateBinding
  PROVE  IInv'
<1>1. Types /\ RecordInv /\ GenInv /\ OpInv
  BY DEF IInv
<1>2. /\ op.kind = "start" /\ op.step = "rotate"
      /\ UNCHANGED <<lease, intent, marker, held, episodes, evidence, notice, boot, spawned, proc,
                     history>>
  BY DEF RotateBinding, At
<1>3. CASE Fail /\ UNCHANGED <<minted, registration>>
  BY <1>2, <1>3, FailKeeps
<1>4. CASE /\ Step("save") /\ UNCHANGED record
           /\ \/ /\ Restart /\ op.old.gen \in {registration.gen, registration.pred} /\ minted < MaxGen
                 /\ minted' = minted + 1
                 /\ registration' = [gen |-> minted + 1, pred |-> op.old.gen]
              \/ ~Restart /\ UNCHANGED <<minted, registration>>
  <2>1. /\ op' \in Ops /\ op'.kind = "start" /\ op'.step = "save" /\ op'.old = op.old
        /\ RecordOk(op'.old) /\ RotateInv' /\ PidInv' /\ (Restart' <=> Restart)
    BY <1>2, <1>4, StartStep DEF Past, Bound
  <2>2. op.old.gen \in Gens \cup {0}
    BY <1>1 DEF Types, Ops, Records
  <2>3. registration.gen # 0
    BY <1>1, <1>2 DEF OpInv, StartInv, Bound
  <2>4. /\ minted' \in 0..MaxGen /\ minted <= minted'
        /\ registration' \in [gen : Gens \cup {0}, pred : Gens \cup {0}]
        /\ registration'.gen # 0 /\ registration'.gen <= minted'
        /\ Restart => minted < registration'.gen /\ registration'.pred = op.old.gen
    <3>1. CASE /\ minted < MaxGen /\ minted' = minted + 1
               /\ registration' = [gen |-> minted + 1, pred |-> op.old.gen]
      BY <1>1, <2>2, <3>1, BoundFacts DEF Types
    <3>2. CASE ~Restart /\ UNCHANGED <<minted, registration>>
      BY <1>1, <2>3, <3>2, BoundFacts DEF Types, GenInv
    <3>3. QED
      BY <1>4, <3>1, <3>2
  <2>5. Types'
    BY <1>1, <1>2, <1>4, <2>1, <2>4 DEF Types, history
  <2>6. RecordInv' /\ ProcInv' /\ FenceInv'
    BY <1>2, <1>4, Frames DEF history
  <2>7. GenInv'
    <3>1. \A g \in Gens \cup {0} : g <= minted => g <= minted'
      BY <1>1, <2>4, BoundFacts DEF Types
    <3>2. lease.gen \in Gens \cup {0} /\ \A p \in Pids : proc[p].gen \in Gens \cup {0}
      BY <1>1 DEF Types, Leases, Procs
    <3>3. \A f \in fenced : f[2] \in Gens
      BY <1>1 DEF Types
    <3>4. QED
      BY <1>1, <1>2, <2>4, <3>1, <3>2, <3>3 DEF GenInv, history
  <2>8. record'.pid = 0 /\ wanted' = "run"
    BY <1>2, <1>4, NobodyOnRecord DEF history
  <2>9. LinkInv'
    BY <2>8 DEF LinkInv
  <2>10. \A f \in fenced : f[2] <= minted /\ f[2] \in Gens
    BY <1>1 DEF GenInv, Types
  <2>11. Restart => \A f \in fenced' : f[2] # registration'.gen
    <3>1. \A g \in Gens : g <= minted => ~(minted < g)
      BY <1>1, BoundFacts DEF Types
    <3>2. QED
      BY <1>2, <2>4, <2>10, <3>1 DEF history
  <2>12. Restart => lease.gen = op.old.gen /\ ~lease.current
    BY <1>1, <1>2 DEF OpInv, StartInv
  <2>13. StartInv'
    BY <1>2, <2>1, <2>4, <2>8, <2>11, <2>12 DEF StartInv, Past, Bound, Rotated
  <2>14. QED
    BY <2>1, <2>5, <2>6, <2>7, <2>9, <2>13 DEF IInv, OpInv
<1>5. QED
  BY <1>3, <1>4 DEF RotateBinding

LEMMA SaveLaunchKeeps ==
  ASSUME IInv, SaveLaunch
  PROVE  IInv'
<1>1. Types /\ GenInv /\ StartInv
  BY DEF IInv, OpInv
<1>2. /\ op.kind = "start" /\ op.step = "save" /\ Step("grant")
      /\ record' = [state |-> "starting", pid |-> 0, gen |-> registration.gen,
                    desired |-> "running", owner |-> boot]
      /\ UNCHANGED <<registration, lease, intent, marker, held, episodes, evidence, notice, boot,
                     minted, spawned, proc, history>>
  BY DEF SaveLaunch, At
<1>3. /\ op' \in Ops /\ op'.kind = "start" /\ op'.step = "grant" /\ op'.old = op.old
      /\ RecordOk(op'.old) /\ RotateInv' /\ PidInv' /\ (Restart' <=> Restart)
  BY <1>2, StartStep DEF Past, Bound
<1>4. record' \in Records /\ RecordOk(record') /\ record'.pid = 0 /\ record'.gen = registration.gen
  BY <1>1, <1>2 DEF Types, Records, RecordOk
<1>5. known = {} /\ wanted' = "run"
  BY <1>2, NobodyOnRecord DEF history
<1>6. Types'
  BY <1>1, <1>2, <1>3, <1>4 DEF Types, history
<1>7. RecordInv' /\ LinkInv'
  BY <1>2, <1>4, <1>5 DEF RecordInv, RecordOk, LinkInv, history
<1>8. GenInv' /\ ProcInv' /\ FenceInv'
  BY <1>2, Frames DEF history
<1>9. /\ registration.gen # 0
      /\ Restart => /\ lease.gen = op.old.gen /\ registration.pred = op.old.gen /\ ~lease.current
                    /\ \A f \in fenced : f[2] # registration.gen
  BY <1>1, <1>2 DEF StartInv, Bound, Rotated
<1>10. StartInv'
  BY <1>2, <1>3, <1>4, <1>5, <1>9 DEF StartInv, Past, Bound, Rotated, history
<1>11. QED
  BY <1>3, <1>6, <1>7, <1>8, <1>10 DEF IInv, OpInv

\* A first start grants its generation once the endpoint is free, and then
\* nobody cut off is alive.
LEMMA GrantFirstKeeps ==
  ASSUME IInv, GrantFirst
  PROVE  IInv'
<1>1. Types /\ GenInv /\ FenceInv /\ StartInv
  BY DEF IInv, OpInv
<1>2. /\ op.kind = "start" /\ op.step = "grant"
      /\ UNCHANGED <<registration, intent, marker, held, episodes, evidence, notice, boot, minted,
                     spawned, proc, history>>
  BY DEF GrantFirst, At
<1>3. CASE Fail /\ UNCHANGED lease
  BY <1>2, <1>3, FailKeeps
<1>4. CASE /\ ~EndpointHeld /\ Step("launch") /\ UNCHANGED record
           /\ lease' = IF Restart THEN lease ELSE Granted(registration.gen)
  <2>1. /\ op' \in Ops /\ op'.kind = "start" /\ op'.step = "launch" /\ op'.old = op.old
        /\ RecordOk(op'.old) /\ RotateInv' /\ PidInv' /\ (Restart' <=> Restart)
    BY <1>2, <1>4, StartStep DEF Past, Bound
  <2>2. /\ registration.gen # 0 /\ record.gen = registration.gen
        /\ Restart => /\ lease.gen = op.old.gen /\ registration.pred = op.old.gen /\ ~lease.current
                      /\ \A f \in fenced : f[2] # registration.gen
    BY <1>1, <1>2 DEF StartInv, Bound, Rotated
  <2>3. /\ lease' \in Leases
        /\ lease'.gen \in {lease.gen, registration.gen}
        /\ Restart => lease' = lease
        /\ ~Restart => lease'.gen = registration.gen
    BY <1>1, <1>4 DEF Types, Leases, Granted
  <2>4. fenced = {}
    BY <1>1, <1>4 DEF FenceInv, EndpointHeld, Types
  <2>5. Types'
    BY <1>1, <1>2, <1>4, <2>1, <2>3 DEF Types, history
  <2>6. RecordInv' /\ ProcInv'
    BY <1>2, <1>4, Frames DEF history
  <2>7. GenInv'
    BY <1>1, <1>2, <2>3 DEF GenInv, history
  <2>8. FenceInv'
    BY <1>1, <1>2, <2>2, <2>3, <2>4 DEF FenceInv, history
  <2>9. record'.pid = 0 /\ wanted' = "run"
    BY <1>2, <1>4, NobodyOnRecord DEF history
  <2>10. LinkInv'
    BY <2>9 DEF LinkInv
  <2>11. StartInv'
    BY <1>2, <1>4, <2>1, <2>2, <2>3, <2>9 DEF StartInv, Past, Bound, Rotated, history
  <2>12. QED
    BY <2>1, <2>5, <2>6, <2>7, <2>8, <2>10, <2>11 DEF IInv, OpInv
<1>5. QED
  BY <1>3, <1>4 DEF GrantFirst

\* A restart that the operator overtakes puts the old record back, and the
\* binding still descends from it.
LEMMA LaunchKeeps ==
  ASSUME IInv, Launch
  PROVE  IInv'
<1>1. Types /\ GenInv /\ FenceInv /\ StartInv
  BY DEF IInv, OpInv
<1>2. /\ op.kind = "start" /\ op.step = "launch"
      /\ UNCHANGED <<registration, intent, marker, episodes, evidence, boot, minted, spawned, proc,
                     history>>
  BY DEF Launch, At
<1>3. /\ registration.gen # 0 /\ record.gen = registration.gen
      /\ Restart => /\ lease.gen = op.old.gen /\ registration.pred = op.old.gen /\ ~lease.current
                    /\ \A f \in fenced : f[2] # registration.gen
      /\ ~Restart => lease.gen = registration.gen
      /\ RecordOk(op.old)
  BY <1>1, <1>2 DEF StartInv, Bound, Rotated
<1>4. known = {} /\ record.pid = 0 /\ wanted = "run"
  BY <1>2, NobodyOnRecord
<1>5. CASE /\ record' = op.old /\ held' = 0 /\ op' = Idle /\ notice' = NoEvidence /\ UNCHANGED lease
  <2>1. op' \in Ops /\ OpInv'
    BY <1>5, IdleIsFine
  <2>2. op.old \in Records /\ NoEvidence \in Evidence
    BY <1>1 DEF Types, Ops, NoEvidence, Evidence
  <2>3. Types'
    BY <1>1, <1>2, <1>5, <2>1, <2>2 DEF Types, history
  <2>4. RecordInv'
    BY <1>2, <1>3, <1>4, <1>5 DEF RecordInv, history
  <2>5. GenInv'
    BY <1>1, <1>2, <1>5 DEF GenInv, history
  <2>6. ProcInv' /\ FenceInv'
    BY <1>2, <1>5, Frames DEF history
  <2>7. LinkInv'
    BY <1>2, <1>3, <1>5 DEF LinkInv, Restart
  <2>8. QED
    BY <2>1, <2>3, <2>4, <2>5, <2>6, <2>7 DEF IInv
<1>6. CASE /\ lease' = IF Restart THEN Granted(registration.gen) ELSE lease
           /\ Step("spawn") /\ UNCHANGED <<record, held, notice>>
  <2>1. /\ op' \in Ops /\ op'.kind = "start" /\ op'.step = "spawn" /\ op'.old = op.old
        /\ RecordOk(op'.old) /\ RotateInv' /\ PidInv' /\ (Restart' <=> Restart)
    BY <1>2, <1>6, StartStep DEF Past, Bound
  <2>2. /\ lease' \in Leases /\ lease'.gen = registration.gen
        /\ lease' = lease \/ \A f \in fenced : f[2] # registration.gen
    BY <1>1, <1>3, <1>6 DEF Types, Leases, Granted
  <2>3. Types'
    BY <1>1, <1>2, <1>6, <2>1, <2>2 DEF Types, history
  <2>4. RecordInv' /\ ProcInv'
    BY <1>2, <1>6, Frames DEF history
  <2>5. GenInv'
    BY <1>1, <1>2, <1>6, <2>2 DEF GenInv, history
  <2>6. FenceInv'
    BY <1>1, <1>2, <1>3, <2>2 DEF FenceInv, history
  <2>7. LinkInv'
    BY <1>4, <1>6 DEF LinkInv
  <2>8. StartInv'
    BY <1>2, <1>3, <1>4, <1>6, <2>1, <2>2 DEF StartInv, Past, Bound, Rotated, history
  <2>9. QED
    BY <2>1, <2>3, <2>4, <2>5, <2>6, <2>7, <2>8 DEF IInv, OpInv
<1>7. CASE Fail /\ UNCHANGED <<lease, held, notice>>
  BY <1>2, <1>7, FailKeeps
<1>8. QED
  BY <1>5, <1>6, <1>7 DEF Launch

LEMMA SpawnKeeps ==
  ASSUME IInv, Spawn
  PROVE  IInv'
<1> DEFINE n == spawned + 1
           r == [proc[n] EXCEPT !.life = "booting"]
<1>1. Types /\ GenInv /\ ProcInv /\ FenceInv /\ OpInv
  BY DEF IInv
<1>2. /\ op.kind = "start" /\ op.step = "spawn" /\ spawned < MaxPid /\ spawned' = n
      /\ proc' = [proc EXCEPT ![n] = r]
      /\ op' = [op EXCEPT !.step = "record", !.pid = n]
      /\ UNCHANGED <<diskVars, notice, boot, minted, history>>
  BY DEF Spawn, At
<1>3. spawned \in Nat /\ n \in Pids /\ n > spawned /\ n \in 0..MaxPid
  BY <1>1, <1>2, BoundFacts DEF Types, Pids
<1>4. proc[n].life = "unborn" /\ proc[n] \in Procs
  BY <1>1, <1>3 DEF ProcInv, Types
<1>5. proc[n].gen = 0 /\ proc[n].scan # "waiting"
  BY <1>1, <1>3, <1>4 DEF ProcInv
<1>6. r \in Procs /\ r.gen = proc[n].gen /\ r.scan = proc[n].scan /\ r.life = "booting"
  BY <1>4 DEF Procs
<1> HIDE DEF r
<1>7. proc' \in [Pids -> Procs] /\ proc'[n] = r /\ \A q \in Pids : q # n => proc'[q] = proc[q]
  <2> HIDE DEF n
  <2>1. QED
    BY <1>1, <1>2, <1>3, <1>6, ProcEdit DEF Types
<1>8. \A q \in Pids : q > spawned' => q > spawned /\ q # n
  BY <1>2, <1>3, BoundFacts
<1> HIDE DEF n
<1>9. /\ op' \in Ops /\ op'.step = "record" /\ op'.pid = n
      /\ op'.kind = op.kind /\ op'.old = op.old /\ op'.recovery = op.recovery
  BY <1>1, <1>2, <1>3, SpawnEdit DEF Types
<1>10. known = {} /\ record.pid = 0 /\ wanted = "run"
  BY <1>2, NobodyOnRecord
<1>11. Types'
  BY <1>1, <1>2, <1>3, <1>7, <1>9 DEF Types, diskVars, history
<1>12. RecordInv'
  BY <1>1, <1>2, <1>10 DEF IInv, RecordInv, RecordOk, diskVars, history
<1>13. \A q \in Pids : proc'[q].gen = proc[q].gen
  BY <1>3, <1>6, <1>7
<1>14. GenInv'
  BY <1>1, <1>2, <1>13 DEF GenInv, diskVars, history
<1>15. ProcInv'
  BY <1>1, <1>5, <1>6, <1>7, <1>8 DEF ProcInv
<1>16. FenceInv'
  <2>1. \A f \in fenced : f[1] \in Pids /\ f[1] # n
    BY <1>1, <1>4 DEF FenceInv, Types
  <2>2. QED
    BY <1>1, <1>2, <1>7, <2>1 DEF FenceInv, diskVars, history
<1>17. LinkInv'
  BY <1>2, <1>10 DEF LinkInv, diskVars
<1>18. /\ RecordOk(op.old) /\ registration.gen # 0 /\ record.gen = registration.gen
       /\ lease.gen = registration.gen
  BY <1>1, <1>2 DEF OpInv, StartInv, Bound
<1>19. StartInv'
  BY <1>2, <1>9, <1>10, <1>18 DEF StartInv, Past, Bound, Rotated, RecordOk, diskVars, history
<1>20. RotateInv' /\ PidInv'
  BY <1>2, <1>3, <1>9 DEF RotateInv, PidInv
<1>21. QED
  BY <1>11, <1>12, <1>14, <1>15, <1>16, <1>17, <1>19, <1>20 DEF IInv, OpInv

LEMMA RecordSpawnKeeps ==
  ASSUME IInv, RecordSpawn
  PROVE  IInv'
<1>1. Types /\ StartInv /\ PidInv
  BY DEF IInv, OpInv
<1>2. /\ op.kind = "start" /\ op.step = "record" /\ Return
      /\ record' = [record EXCEPT !.state = "running", !.pid = op.pid]
      /\ known' = IF Live(op.pid) THEN known \cup {op.pid} ELSE known
      /\ UNCHANGED <<registration, lease, intent, marker, held, episodes, evidence, notice, boot,
                     minted, spawned, proc, fenced, wanted>>
  BY DEF RecordSpawn, At
<1>3. op.pid \in Pids /\ op.pid # 0
  BY <1>1, <1>2, BoundFacts DEF PidInv
<1>4. /\ record' \in Records /\ record'.pid = op.pid /\ record'.state = "running"
      /\ record'.gen = record.gen
  BY <1>1, <1>2, <1>3 DEF Types, Records
<1>5. record.gen = registration.gen /\ registration.gen # 0 /\ lease.gen = registration.gen
  BY <1>1, <1>2 DEF StartInv, Bound
<1>6. op' \in Ops /\ OpInv'
  BY <1>2, ReturnOps
<1>7. known = {} /\ wanted = "run"
  BY <1>2, NobodyOnRecord
<1>8. Types'
  BY <1>1, <1>2, <1>3, <1>4, <1>6 DEF Types
<1>9. RecordInv'
  BY <1>2, <1>3, <1>4, <1>5, <1>7 DEF RecordInv, RecordOk, Live
<1>10. GenInv' /\ ProcInv' /\ FenceInv'
  BY <1>2, Frames
<1>11. LinkInv'
  BY <1>2, <1>4, <1>5 DEF LinkInv
<1>12. QED
  BY <1>6, <1>8, <1>9, <1>10, <1>11 DEF IInv
-----------------------------------------------------------------------------
(* Stopping.                                                               *)

LEMMA OperatorStopKeeps ==
  ASSUME IInv, NEW s \in Signals, OperatorStop(s)
  PROVE  IInv'
<1>1. Types /\ FenceInv /\ RecordInv
  BY DEF IInv
<1>2. /\ Status = "running" \/ Status = "stopping"
      /\ op' = [Idle EXCEPT !.kind = "stop", !.step = s, !.pid = record.pid]
      /\ UNCHANGED <<record, registration, intent, marker, held, episodes, evidence, notice, boot,
                     minted, spawned, proc, wanted, known>>
  BY DEF OperatorStop
<1>3. record.pid \in Pids /\ record.pid # 0
  BY <1>1, <1>2, StatusFacts DEF RecordInv, Types, Records
<1>4. op' \in Ops /\ op'.kind = "stop" /\ op'.step = s /\ op'.recovery = FALSE /\ op'.pid = record.pid
  BY <1>2, <1>3, NoRecordIsRecord DEF Idle, Ops, Steps, Signals
<1>5. OpInv'
  BY <1>2, <1>3, <1>4 DEF OpInv, StartInv, RotateInv, PidInv
<1>6. CASE lease.current /\ Revoke(lease.gen)
  <2>1. lease.gen # 0
    BY <1>1, <1>6 DEF FenceInv
  <2>2. lease' \in Leases /\ fenced' \subseteq Pids \X Gens
    BY <1>6, <2>1, RevokeFacts
  <2>3. Types'
    BY <1>1, <1>2, <1>4, <2>2 DEF Types
  <2>4. FenceInv' /\ GenInv' /\ LinkInv'
    BY <1>2, <1>6, <2>1, RevokeKeeps
  <2>5. RecordInv' /\ ProcInv'
    BY <1>2, Frames
  <2>6. QED
    BY <1>5, <2>3, <2>4, <2>5 DEF IInv
<1>7. CASE UNCHANGED <<lease, fenced>>
  <2>1. Types'
    BY <1>1, <1>2, <1>4, <1>7 DEF Types
  <2>2. RecordInv' /\ ProcInv' /\ FenceInv' /\ GenInv' /\ LinkInv'
    BY <1>2, <1>7, Frames
  <2>3. QED
    BY <1>5, <2>1, <2>2 DEF IInv
<1>8. QED
  BY <1>6, <1>7 DEF OperatorStop

LEMMA OperatorPausesStoppedKeeps ==
  ASSUME IInv, OperatorPausesStopped
  PROVE  IInv'
<1>1. Types /\ RecordInv /\ LinkInv
  BY DEF IInv
<1>2. /\ op = Idle /\ wanted' = "pause"
      /\ record' = IF record.state \in {"none", "starting"} THEN record
                   ELSE [record EXCEPT !.desired = "paused"]
      /\ UNCHANGED <<registration, lease, intent, marker, held, episodes, evidence, op, notice,
                     boot, minted, spawned, proc, fenced, known>>
  BY DEF OperatorPausesStopped
<1>3. /\ record' \in Records /\ record'.pid = record.pid /\ record'.gen = record.gen
      /\ record'.state = record.state
      /\ record.state \in {"running", "stopping"} => record'.desired = "paused"
  BY <1>1, <1>2 DEF Types, Records
<1>4. RecordInv'
  BY <1>1, <1>2, <1>3 DEF RecordInv, RecordOk, OperatorPaused, Live
<1>5. Types'
  BY <1>1, <1>2, <1>3 DEF Types
<1>6. op' = Idle
  BY <1>2
<1>7. OpInv'
  BY <1>6, IdleIsFine
<1>8. LinkInv'
  BY <1>1, <1>2, <1>3 DEF LinkInv
<1>9. GenInv' /\ ProcInv' /\ FenceInv'
  BY <1>2, Frames
<1>10. QED
  BY <1>4, <1>5, <1>7, <1>8, <1>9 DEF IInv

LEMMA SaveStoppingKeeps ==
  ASSUME IInv, SaveStopping
  PROVE  IInv'
<1>1. Types /\ RecordInv /\ LinkInv /\ PidInv
  BY DEF IInv, OpInv
<1>2. /\ op.kind = "stop" /\ op.step \in Signals /\ wanted' = "pause"
      /\ record' = [record EXCEPT !.state = "stopping", !.desired = "paused"]
      /\ op' = [op EXCEPT !.kind = "signal"]
      /\ UNCHANGED <<registration, lease, intent, marker, held, episodes, evidence, notice, boot,
                     minted, spawned, proc, fenced, known>>
  BY DEF SaveStopping
<1>3. record.pid # 0
  BY <1>1, <1>2 DEF PidInv
<1>4. /\ record' \in Records /\ record'.pid = record.pid /\ record'.gen = record.gen
      /\ record'.state = "stopping" /\ record'.desired = "paused"
  BY <1>1, <1>2 DEF Types, Records
<1>5. op' \in Ops /\ op'.kind = "signal" /\ op'.pid = op.pid /\ op'.recovery = op.recovery
      /\ op'.step = op.step
  BY <1>1, <1>2, SignalEdit DEF Types, Ops
<1>6. RecordInv'
  BY <1>1, <1>2, <1>3, <1>4 DEF RecordInv, RecordOk, OperatorPaused, Live
<1>7. Types'
  BY <1>1, <1>2, <1>4, <1>5 DEF Types
<1>8. OpInv'
  BY <1>1, <1>2, <1>4, <1>5 DEF OpInv, StartInv, RotateInv, PidInv, Signals
<1>9. LinkInv'
  BY <1>1, <1>2, <1>4 DEF LinkInv
<1>10. GenInv' /\ ProcInv' /\ FenceInv'
  BY <1>2, Frames
<1>11. QED
  BY <1>6, <1>7, <1>8, <1>9, <1>10 DEF IInv
-----------------------------------------------------------------------------
(* The monitor.                                                            *)

LEMMA NoticeKeeps ==
  ASSUME IInv, Notice
  PROVE  IInv'
<1>1. Types /\ RecordInv /\ GenInv /\ OpInv
  BY DEF IInv
<1>2. /\ Status = "running" /\ evidence.pid = record.pid /\ notice' = evidence
      /\ UNCHANGED <<diskVars, op, boot, minted, spawned, proc, history>>
  BY DEF Notice
<1>3. record.pid # 0
  BY <1>1, <1>2, StatusFacts DEF RecordInv
<1>4. Types'
  BY <1>1, <1>2 DEF Types, diskVars, history
<1>5. GenInv'
  BY <1>1, <1>2, <1>3 DEF GenInv, diskVars, history
<1>6. RecordInv' /\ ProcInv' /\ FenceInv' /\ LinkInv'
  BY <1>2, Frames DEF diskVars, history
<1>7. OpInv'
  <2>1. UNCHANGED <<record, registration, lease, marker, op, minted, proc, fenced, wanted>>
    BY <1>2 DEF diskVars, history
  <2>2. StartInv'
    BY <1>1, <2>1 DEF OpInv, StartInv, RecordOk, Restart
  <2>3. RotateInv' /\ PidInv'
    BY <1>1, <2>1 DEF OpInv, RotateInv, PidInv
  <2>4. QED
    BY <2>2, <2>3 DEF OpInv
<1>8. QED
  BY <1>4, <1>5, <1>6, <1>7 DEF IInv

\* A recovery that ends touches neither the record nor the lease.
LEMMA ResultKeeps ==
  ASSUME IInv, NEW n \in Pids \cup {0}, Result(n), episodes' \in 0..MaxRestarts,
         UNCHANGED <<record, registration, lease, intent, marker, evidence, boot, minted, spawned,
                     proc, history>>
  PROVE  IInv'
<1>1. Types /\ GenInv
  BY DEF IInv
<1>2. held' = n /\ op' = Idle /\ notice' = NoEvidence
  BY DEF Result
<1>3. op' \in Ops /\ OpInv' /\ NoEvidence \in Evidence
  BY <1>2, IdleIsFine DEF NoEvidence, Evidence
<1>4. Types'
  BY <1>1, <1>2, <1>3 DEF Types, history
<1>5. GenInv'
  BY <1>1, <1>2 DEF GenInv, history
<1>6. RecordInv' /\ ProcInv' /\ FenceInv' /\ LinkInv'
  BY Frames DEF history
<1>7. QED
  BY <1>3, <1>4, <1>5, <1>6 DEF IInv

\* The monitor revokes the generation on record only when the record is still
\* the one it noticed.
LEMMA RecoverBeginsKeeps ==
  ASSUME IInv, RecoverBegins
  PROVE  IInv'
<1>1. Types /\ RecordInv /\ GenInv
  BY DEF IInv
<1>2. /\ notice # NoEvidence
      /\ UNCHANGED <<record, registration, intent, marker, episodes, evidence, boot, minted,
                     spawned, proc, wanted, known>>
  BY DEF RecoverBegins
<1>3. notice.pid \in Pids /\ notice.pid # 0
  BY <1>1, <1>2 DEF GenInv, Types, Evidence
<1>4. CASE UNCHANGED <<lease, fenced>> /\ (Result(notice.pid) \/ Result(0))
  <2>1. episodes' \in 0..MaxRestarts
    BY <1>1, <1>2 DEF Types
  <2>2. QED
    BY <1>2, <1>3, <1>4, <2>1, ResultKeeps DEF history
<1>5. CASE /\ record.pid = notice.pid /\ record.gen = notice.gen /\ Revoke(notice.gen)
           /\ held' = notice.pid
           /\ op' = [Idle EXCEPT !.kind = "recover", !.step = "revoked", !.recovery = TRUE,
                                 !.old = record, !.pid = notice.pid]
           /\ UNCHANGED notice
  <2>1. notice.gen # 0
    BY <1>1, <1>3, <1>5 DEF RecordInv, RecordOk
  <2>2. /\ op' \in Ops /\ op'.kind = "recover" /\ op'.step = "revoked" /\ op'.recovery
        /\ op'.pid = notice.pid
    BY <1>1, <1>3, <1>5, NoRecordIsRecord DEF Types, Idle, Ops, Steps
  <2>3. OpInv'
    BY <1>2, <1>3, <1>5, <2>2 DEF OpInv, StartInv, RotateInv, PidInv
  <2>4. lease' \in Leases /\ fenced' \subseteq Pids \X Gens
    BY <1>5, <2>1, RevokeFacts
  <2>5. Types'
    BY <1>1, <1>2, <1>3, <1>5, <2>2, <2>4 DEF Types
  <2>6. FenceInv' /\ GenInv' /\ LinkInv'
    BY <1>2, <1>5, <2>1, RevokeKeeps
  <2>7. RecordInv' /\ ProcInv'
    BY <1>2, Frames
  <2>8. QED
    BY <2>3, <2>5, <2>6, <2>7 DEF IInv
<1>6. QED
  BY <1>4, <1>5 DEF RecoverBegins

\* A recovery's next step, with the record of the same process.
LEMMA RecoverStep ==
  ASSUME IInv, op.kind = "recover", op.step \in {"revoked", "signal", "wait", "killed"},
         NEW s \in {"signal", "wait"}, Step(s),
         record' \in Records, RecordOk(record'), record'.pid = record.pid, record'.gen = record.gen,
         record'.desired = record.desired,
         UNCHANGED <<registration, lease, intent, marker, held, episodes, evidence, notice, boot,
                     minted, spawned, proc, history>>
  PROVE  IInv'
<1>1. Types /\ RecordInv /\ LinkInv /\ PidInv
  BY DEF IInv, OpInv
<1>2. /\ op' \in Ops /\ op'.kind = op.kind /\ op'.step = s /\ op'.pid = op.pid
      /\ op'.recovery = op.recovery
  <2>1. s \in Steps
    BY DEF Steps
  <2>2. QED
    BY <1>1, <2>1, StepEdit DEF Types, Step
<1>3. OpInv'
  BY <1>1, <1>2 DEF OpInv, StartInv, RotateInv, PidInv
<1>4. Types'
  BY <1>1, <1>2 DEF Types, history
<1>5. RecordInv'
  BY <1>1 DEF RecordInv, OperatorPaused, Live, history
<1>6. LinkInv'
  BY <1>1 DEF LinkInv
<1>7. GenInv' /\ ProcInv' /\ FenceInv'
  BY Frames DEF history
<1>8. QED
  BY <1>3, <1>4, <1>5, <1>6, <1>7 DEF IInv

LEMMA RecoverPausesKeeps ==
  ASSUME IInv, RecoverPauses
  PROVE  IInv'
<1>1. Types /\ RecordInv /\ PidInv
  BY DEF IInv, OpInv
<1>2. /\ op.kind = "recover" /\ op.step = "revoked"
      /\ UNCHANGED <<registration, lease, intent, marker, episodes, evidence, boot, minted, spawned,
                     proc, history>>
  BY DEF RecoverPauses, At
<1>3. op.pid \in Pids /\ episodes' \in 0..MaxRestarts
  BY <1>1, <1>2 DEF PidInv, Types
<1>4. CASE UNCHANGED record /\ (Result(0) \/ Result(op.pid))
  BY <1>2, <1>3, <1>4, ResultKeeps
<1>5. CASE /\ Status = "running" /\ record' = [record EXCEPT !.state = "stopping"]
           /\ Step("signal") /\ UNCHANGED <<held, notice>>
  <2>1. record.pid # 0
    BY <1>1, <1>5, StatusFacts DEF RecordInv
  <2>2. /\ record' \in Records /\ record'.pid = record.pid /\ record'.gen = record.gen
        /\ record'.desired = record.desired /\ record'.state = "stopping"
    BY <1>1, <1>5 DEF Types, Records
  <2>3. RecordOk(record')
    BY <1>1, <2>1, <2>2 DEF RecordInv, RecordOk
  <2>4. QED
    BY <1>2, <1>5, <2>2, <2>3, RecoverStep
<1>6. CASE Step("wait") /\ UNCHANGED <<record, held, notice>>
  <2>1. record' \in Records /\ RecordOk(record')
    BY <1>1, <1>6 DEF Types, RecordInv
  <2>2. QED
    BY <1>2, <1>6, <2>1, RecoverStep
<1>7. QED
  BY <1>4, <1>5, <1>6 DEF RecoverPauses

LEMMA RecoverGivesUpKeeps ==
  ASSUME IInv, RecoverGivesUp
  PROVE  IInv'
<1>1. op.pid \in Pids /\ episodes \in 0..MaxRestarts
  BY DEF IInv, OpInv, PidInv, RecoverGivesUp, At, Types
<1>2. QED
  BY <1>1, ResultKeeps DEF RecoverGivesUp

LEMMA RecoverRestartsKeeps ==
  ASSUME IInv, RecoverRestarts
  PROVE  IInv'
<1>1. Types /\ RecordInv /\ PidInv
  BY DEF IInv, OpInv
<1>2. /\ op.kind = "recover" /\ op.step \in {"wait", "killed"}
      /\ UNCHANGED <<record, registration, lease, intent, marker, evidence, boot, minted, spawned,
                     proc, history>>
  BY DEF RecoverRestarts
<1>3. op.pid \in Pids /\ op.recovery /\ record.pid # 0
  BY <1>1, <1>2 DEF PidInv
<1>4. episodes' \in 0..MaxRestarts
  BY <1>1, BoundFacts DEF RecoverRestarts, Types
<1>5. CASE Result(0) \/ Result(op.pid)
  BY <1>2, <1>3, <1>4, <1>5, ResultKeeps
<1>6. CASE /\ op' = [op EXCEPT !.kind = "start", !.step = "begin", !.old = record]
           /\ UNCHANGED <<held, notice>>
  <2>1. /\ op' \in Ops /\ op'.kind = "start" /\ op'.step = "begin" /\ op'.old = record
        /\ op'.pid = op.pid /\ op'.recovery = op.recovery
    BY <1>1, <1>6, RestartEdit DEF Types
  <2>2. OpInv'
    <3>1. RecordOk(record)
      BY <1>1 DEF RecordInv
    <3>2. StartInv'
      BY <1>2, <2>1, <3>1 DEF StartInv, Past, Bound, Rotated, RecordOk
    <3>3. RotateInv' /\ PidInv'
      BY <1>2, <1>3, <2>1 DEF RotateInv, PidInv
    <3>4. QED
      BY <3>2, <3>3 DEF OpInv
  <2>3. Types'
    BY <1>1, <1>2, <1>4, <1>6, <2>1 DEF Types, history
  <2>4. RecordInv' /\ GenInv' /\ ProcInv' /\ FenceInv' /\ LinkInv'
    BY <1>2, <1>6, Frames DEF history
  <2>5. QED
    BY <2>2, <2>3, <2>4 DEF IInv
<1>7. QED
  BY <1>5, <1>6 DEF RecoverRestarts

LEMMA RecoverConfirmsKeeps ==
  ASSUME IInv, RecoverConfirms
  PROVE  IInv'
<1>1. Types /\ FenceInv
  BY DEF IInv
<1>2. UNCHANGED <<record, registration, intent, marker, episodes, evidence, boot, minted, spawned,
                  proc, wanted, known>>
  BY DEF RecoverConfirms
<1>3. PICK n \in Pids \cup {0} : Result(n)
  BY <1>1 DEF RecoverConfirms, Types, Ops, Records
<1>4. CASE UNCHANGED <<lease, fenced>>
  <2>1. episodes' \in 0..MaxRestarts
    BY <1>1, <1>2 DEF Types
  <2>2. QED
    BY <1>2, <1>3, <1>4, <2>1, ResultKeeps DEF history
<1>5. CASE lease.current /\ Revoke(lease.gen)
  <2>1. lease.gen # 0
    BY <1>1, <1>5 DEF FenceInv
  <2>2. held' = n /\ op' = Idle /\ notice' = NoEvidence
    BY <1>3 DEF Result
  <2>3. op' \in Ops /\ OpInv' /\ NoEvidence \in Evidence
    BY <2>2, IdleIsFine DEF NoEvidence, Evidence
  <2>4. lease' \in Leases /\ fenced' \subseteq Pids \X Gens
    BY <1>5, <2>1, RevokeFacts
  <2>5. Types'
    BY <1>1, <1>2, <2>2, <2>3, <2>4 DEF Types
  <2>6. FenceInv' /\ GenInv' /\ LinkInv'
    BY <1>2, <1>5, <2>1, <2>2, RevokeKeeps
  <2>7. RecordInv' /\ ProcInv'
    BY <1>2, Frames
  <2>8. QED
    BY <2>3, <2>5, <2>6, <2>7 DEF IInv
<1>6. QED
  BY <1>4, <1>5 DEF RecoverConfirms

\* The coordinator's death ends what it was doing; a rotation is the worker's.
LEMMA CoordinatorRestartsKeeps ==
  ASSUME IInv, CoordinatorRestarts
  PROVE  IInv'
<1>1. Types /\ GenInv /\ OpInv
  BY DEF IInv
<1>2. /\ boot < MaxBoots /\ boot' = boot + 1 /\ notice' = NoEvidence
      /\ op' = IF op.kind = "rotate" THEN op ELSE Idle
      /\ UNCHANGED <<diskVars, minted, spawned, proc, history>>
  BY DEF CoordinatorRestarts
<1>3. boot' \in 0..MaxBoots /\ NoEvidence \in Evidence
  BY <1>1, <1>2, BoundFacts DEF Types, NoEvidence, Evidence
<1>4. op' \in Ops /\ OpInv'
  <2>1. CASE op' = Idle
    BY <2>1, IdleIsFine
  <2>2. CASE op' = op /\ op.kind = "rotate"
    <3>1. StartInv' /\ PidInv'
      BY <1>1, <1>2, <2>2 DEF OpInv, StartInv, PidInv, diskVars
    <3>2. RotateInv'
      BY <1>1, <1>2, <2>2 DEF OpInv, RotateInv, diskVars, history
    <3>3. QED
      BY <1>1, <2>2, <3>1, <3>2 DEF Types, OpInv
  <2>3. QED
    BY <1>2, <2>1, <2>2
<1>5. Types'
  BY <1>1, <1>2, <1>3, <1>4 DEF Types, diskVars, history
<1>6. GenInv'
  BY <1>1, <1>2 DEF GenInv, diskVars, history
<1>7. RecordInv' /\ ProcInv' /\ FenceInv' /\ LinkInv'
  BY <1>2, Frames DEF diskVars, history
<1>8. QED
  BY <1>4, <1>5, <1>6, <1>7 DEF IInv
-----------------------------------------------------------------------------
(* The worker's own move to a fresh generation.                            *)

\* The new generation is fresh, and the old one is current until it is fenced.
LEMMA RotateMarkKeeps ==
  ASSUME IInv, NEW p \in Pids, RotateMark(p)
  PROVE  IInv'
<1>1. Types /\ GenInv /\ ProcInv /\ FenceInv
  BY DEF IInv
<1>2. /\ proc[p].scan = "waiting" /\ MayRotate(p) /\ minted < MaxGen
      /\ marker' = TRUE /\ minted' = minted + 1
      /\ op' = [Idle EXCEPT !.kind = "rotate", !.step = "marked", !.pid = p]
      /\ UNCHANGED <<record, registration, lease, intent, held, episodes, evidence, notice, boot,
                     spawned, proc, history>>
  BY DEF RotateMark
<1>3. /\ op' \in Ops /\ op'.kind = "rotate" /\ op'.step = "marked" /\ op'.recovery = FALSE
      /\ op'.pid = p
  BY <1>2, NoRecordIsRecord DEF Idle, Ops, Steps
<1>4. minted' \in 0..MaxGen /\ minted' # 0 /\ \A g \in Gens \cup {0} : g <= minted => g <= minted' /\ g # minted'
  BY <1>1, <1>2, BoundFacts DEF Types
<1>5. /\ lease.gen \in Gens \cup {0} /\ registration.gen \in Gens \cup {0}
      /\ \A q \in Pids : proc[q].gen \in Gens \cup {0}
      /\ \A f \in fenced : f[2] \in Gens
  BY <1>1 DEF Types, Leases, Procs
<1>6. Types'
  BY <1>1, <1>2, <1>3, <1>4 DEF Types, history
<1>7. GenInv'
  BY <1>1, <1>2, <1>4, <1>5 DEF GenInv, history
<1>8. RecordInv' /\ ProcInv' /\ FenceInv'
  BY <1>2, Frames DEF history
<1>9. LinkInv'
  BY <1>2 DEF LinkInv
<1>10. proc[p].life = "up" /\ lease.gen = proc[p].gen /\ lease.gen # 0
  BY <1>1, <1>2 DEF ProcInv, FenceInv, MayRotate, Asserts
<1>11. proc[p].gen # minted' /\ \A f \in fenced : f[2] # minted'
  BY <1>1, <1>4, <1>5 DEF GenInv
<1>12. RotateInv'
  BY <1>2, <1>3, <1>4, <1>10, <1>11 DEF RotateInv, history
<1>13. StartInv' /\ PidInv'
  BY <1>2, <1>3 DEF StartInv, PidInv
<1>14. QED
  BY <1>6, <1>7, <1>8, <1>9, <1>12, <1>13 DEF IInv, OpInv

\* A rotation's next step.
LEMMA RotationStep ==
  ASSUME IInv, op.kind = "rotate",
         NEW s \in {"fenced", "registered", "recorded", "published", "granted"}, Step(s)
  PROVE  /\ op' \in Ops /\ op'.kind = "rotate" /\ op'.step = s /\ op'.pid = op.pid
         /\ StartInv' /\ PidInv'
         /\ op.pid \in Pids /\ proc[op.pid].life = "up" /\ marker /\ minted \in Gens
<1>1. Types /\ PidInv /\ RotateInv
  BY DEF IInv, OpInv
<1>2. s \in Steps
  BY DEF Steps
<1>3. /\ op' \in Ops /\ op'.kind = "rotate" /\ op'.step = s /\ op'.pid = op.pid
      /\ op'.recovery = op.recovery
  BY <1>1, <1>2, StepEdit DEF Types, Step
<1>4. StartInv' /\ PidInv'
  <2>1. s \notin {"begin", "revoked", "signal", "wait", "killed"}
    OBVIOUS
  <2>2. QED
    BY <1>1, <1>3, <2>1 DEF StartInv, PidInv
<1>5. minted \in Gens
  BY <1>1, BoundFacts DEF RotateInv, Types, Gens
<1>6. QED
  BY <1>1, <1>3, <1>4, <1>5 DEF PidInv, RotateInv

LEMMA RotateFenceKeeps ==
  ASSUME IInv, RotateFence
  PROVE  IInv'
<1>1. Types /\ OpInv
  BY DEF IInv
<1>2. /\ op.kind = "rotate" /\ op.step = "marked" /\ Revoke(proc[op.pid].gen) /\ Step("fenced")
      /\ UNCHANGED <<record, registration, intent, marker, held, episodes, evidence, notice, boot,
                     minted, spawned, proc, wanted, known>>
  BY DEF RotateFence, At
<1>3. /\ op' \in Ops /\ op'.kind = "rotate" /\ op'.step = "fenced" /\ op'.pid = op.pid
      /\ StartInv' /\ PidInv' /\ op.pid \in Pids /\ proc[op.pid].life = "up" /\ marker /\ minted \in Gens
  BY <1>2, RotationStep
<1>4. proc[op.pid].gen # 0 /\ proc[op.pid].gen # minted /\ \A f \in fenced : f[2] # minted
  BY <1>1, <1>2 DEF OpInv, RotateInv
<1>5. /\ lease' \in Leases /\ fenced' \subseteq Pids \X Gens
      /\ \A f \in fenced' : f \in fenced \/ f[2] = proc[op.pid].gen
  BY <1>2, <1>4, RevokeFacts
<1>6. Types'
  BY <1>1, <1>2, <1>3, <1>5 DEF Types
<1>7. FenceInv' /\ GenInv' /\ LinkInv'
  BY <1>2, <1>4, RevokeKeeps
<1>8. RecordInv' /\ ProcInv'
  BY <1>2, Frames
<1>9. minted # 0
  BY <1>3, BoundFacts
<1>10. \A f \in fenced' : f[2] # minted
  BY <1>4, <1>5
<1>11. RotateInv'
  BY <1>2, <1>3, <1>9, <1>10 DEF RotateInv
<1>12. QED
  BY <1>3, <1>6, <1>7, <1>8, <1>11 DEF IInv, OpInv

LEMMA RotateRegisterKeeps ==
  ASSUME IInv, RotateRegister
  PROVE  IInv'
<1>1. Types /\ GenInv /\ OpInv
  BY DEF IInv
<1>2. /\ op.kind = "rotate" /\ op.step = "fenced" /\ Step("registered")
      /\ registration' = [gen |-> minted, pred |-> proc[op.pid].gen]
      /\ UNCHANGED <<record, lease, intent, marker, held, episodes, evidence, notice, boot, minted,
                     spawned, proc, history>>
  BY DEF RotateRegister, At
<1>3. /\ op' \in Ops /\ op'.kind = "rotate" /\ op'.step = "registered" /\ op'.pid = op.pid
      /\ StartInv' /\ PidInv' /\ op.pid \in Pids /\ proc[op.pid].life = "up" /\ marker /\ minted \in Gens
  BY <1>2, RotationStep
<1>4. minted # 0 /\ minted <= minted /\ minted \in Nat /\ proc[op.pid].gen \in Gens \cup {0}
  <2>1. minted # 0 /\ minted \in Nat /\ minted <= minted
    BY <1>3, BoundFacts
  <2>2. proc[op.pid].gen \in Gens \cup {0}
    BY <1>1, <1>3 DEF Types, Procs
  <2>3. QED
    BY <2>1, <2>2
<1>5. Types'
  BY <1>1, <1>2, <1>3, <1>4 DEF Types, history
<1>6. GenInv'
  BY <1>1, <1>2, <1>4 DEF GenInv, history
<1>7. RecordInv' /\ ProcInv' /\ FenceInv'
  BY <1>2, Frames DEF history
<1>8. LinkInv'
  BY <1>2, <1>3 DEF LinkInv
<1>9. \A f \in fenced' : f[2] # minted
  BY <1>1, <1>2 DEF OpInv, RotateInv, history
<1>10. RotateInv'
  BY <1>2, <1>3, <1>4, <1>9 DEF RotateInv
<1>11. QED
  BY <1>3, <1>5, <1>6, <1>7, <1>8, <1>10 DEF IInv, OpInv

LEMMA RotateRecordKeeps ==
  ASSUME IInv, RotateRecord
  PROVE  IInv'
<1>1. Types /\ RecordInv /\ OpInv
  BY DEF IInv
<1>2. /\ op.kind = "rotate" /\ op.step = "registered" /\ Step("recorded")
      /\ record' = [record EXCEPT !.gen = minted]
      /\ UNCHANGED <<registration, lease, intent, marker, held, episodes, evidence, notice, boot,
                     minted, spawned, proc, history>>
  BY DEF RotateRecord, At
<1>3. /\ op' \in Ops /\ op'.kind = "rotate" /\ op'.step = "recorded" /\ op'.pid = op.pid
      /\ StartInv' /\ PidInv' /\ op.pid \in Pids /\ proc[op.pid].life = "up" /\ marker /\ minted \in Gens
  BY <1>2, RotationStep
<1>4. minted # 0
  BY <1>3, BoundFacts
<1>5. /\ record' \in Records /\ record'.pid = record.pid /\ record'.state = record.state
      /\ record'.gen = minted /\ record'.desired = record.desired
  BY <1>1, <1>2, <1>3 DEF Types, Records
<1>6. Types'
  BY <1>1, <1>2, <1>3, <1>5 DEF Types, history
<1>7. RecordInv'
  BY <1>1, <1>2, <1>4, <1>5 DEF RecordInv, RecordOk, OperatorPaused, Live, history
<1>8. GenInv' /\ ProcInv' /\ FenceInv'
  BY <1>2, Frames DEF history
<1>9. LinkInv'
  BY <1>2, <1>3 DEF LinkInv
<1>10. registration.gen = minted /\ \A f \in fenced' : f[2] # minted
  BY <1>1, <1>2 DEF OpInv, RotateInv, history
<1>11. RotateInv'
  BY <1>2, <1>3, <1>4, <1>5, <1>10 DEF RotateInv
<1>12. QED
  BY <1>3, <1>6, <1>7, <1>8, <1>9, <1>11 DEF IInv, OpInv

LEMMA RotatePublishKeeps ==
  ASSUME IInv, RotatePublish
  PROVE  IInv'
<1> DEFINE x == proc[op.pid]
           r == [x EXCEPT !.gen = minted]
<1>1. Types /\ RecordInv /\ GenInv /\ ProcInv /\ FenceInv /\ LinkInv /\ OpInv
  BY DEF IInv
<1>2. /\ op.kind = "rotate" /\ op.step = "recorded" /\ Step("published")
      /\ evidence' = [pid |-> op.pid, gen |-> minted]
      /\ proc' = [proc EXCEPT ![op.pid] = r]
      /\ UNCHANGED <<record, registration, lease, intent, marker, held, episodes, notice, boot,
                     minted, spawned, history>>
  BY DEF RotatePublish, At
<1>3. /\ op' \in Ops /\ op'.kind = "rotate" /\ op'.step = "published" /\ op'.pid = op.pid
      /\ StartInv' /\ PidInv' /\ op.pid \in Pids /\ x.life = "up" /\ marker /\ minted \in Gens
  BY <1>2, RotationStep
<1>4. minted # 0 /\ minted \in Nat /\ minted <= minted
  BY <1>1, <1>3, BoundFacts DEF Types
<1>5. r \in Procs /\ r.life = x.life /\ r.gen = minted /\ r.scan = x.scan
  BY <1>1, <1>3 DEF Types, Procs
<1> HIDE DEF r
<1>6. proc' \in [Pids -> Procs] /\ proc'[op.pid] = r /\ \A q \in Pids : q # op.pid => proc'[q] = proc[q]
  BY <1>1, <1>2, <1>3, <1>5, ProcEdit DEF Types
<1>7. \A q \in Pids : proc'[q].life = proc[q].life /\ proc'[q].scan = proc[q].scan
  BY <1>5, <1>6
<1>8. Types'
  BY <1>1, <1>2, <1>3, <1>6 DEF Types, Evidence, history
<1>9. RecordInv'
  <2>1. \A q \in known : q \in Pids
    BY <1>1 DEF Types
  <2>2. QED
    BY <1>1, <1>2, <1>7, <2>1 DEF RecordInv, RecordOk, OperatorPaused, Live, history
<1>10. GenInv'
  BY <1>1, <1>2, <1>4, <1>5, <1>6 DEF GenInv, history
<1>11. ProcInv'
  BY <1>1, <1>2, <1>3, <1>6, <1>7 DEF ProcInv
<1>12. FenceInv'
  <2>1. \A f \in fenced : f[1] \in Pids
    BY <1>1 DEF Types
  <2>2. QED
    BY <1>1, <1>2, <1>7, <2>1 DEF FenceInv, history
<1>13. LinkInv'
  BY <1>2, <1>3 DEF LinkInv
<1>14. registration.gen = minted /\ record.gen = minted /\ \A f \in fenced' : f[2] # minted
  BY <1>1, <1>2 DEF OpInv, RotateInv, history
<1>15. proc'[op.pid].life = "up"
  BY <1>3, <1>7
<1>16. RotateInv'
  BY <1>2, <1>3, <1>4, <1>14, <1>15 DEF RotateInv
<1>17. QED
  BY <1>3, <1>8, <1>9, <1>10, <1>11, <1>12, <1>13, <1>16 DEF IInv, OpInv

LEMMA RotateGrantKeeps ==
  ASSUME IInv, RotateGrant
  PROVE  IInv'
<1>1. Types /\ GenInv /\ FenceInv /\ OpInv
  BY DEF IInv
<1>2. /\ op.kind = "rotate" /\ op.step = "published" /\ Step("granted") /\ lease' = Granted(minted)
      /\ UNCHANGED <<record, registration, intent, marker, held, episodes, evidence, notice, boot,
                     minted, spawned, proc, history>>
  BY DEF RotateGrant, At
<1>3. /\ op' \in Ops /\ op'.kind = "rotate" /\ op'.step = "granted" /\ op'.pid = op.pid
      /\ StartInv' /\ PidInv' /\ op.pid \in Pids /\ proc[op.pid].life = "up" /\ marker /\ minted \in Gens
  BY <1>2, RotationStep
<1>4. minted # 0 /\ minted \in Nat /\ minted <= minted
  BY <1>1, <1>3, BoundFacts DEF Types
<1>5. registration.gen = minted /\ record.gen = minted /\ \A f \in fenced : f[2] # minted
  BY <1>1, <1>2 DEF OpInv, RotateInv
<1>6. lease' \in Leases /\ lease'.gen = minted
  BY <1>2, <1>3 DEF Leases, Granted
<1>7. Types'
  BY <1>1, <1>2, <1>3, <1>6 DEF Types, history
<1>8. RecordInv' /\ ProcInv'
  BY <1>2, Frames DEF history
<1>9. GenInv'
  BY <1>1, <1>2, <1>4, <1>6 DEF GenInv, history
<1>10. FenceInv'
  BY <1>1, <1>2, <1>4, <1>5, <1>6 DEF FenceInv, history
<1>11. LinkInv'
  BY <1>2, <1>3 DEF LinkInv
<1>12. RotateInv'
  BY <1>2, <1>3, <1>4, <1>5, <1>6 DEF RotateInv
<1>13. QED
  BY <1>3, <1>7, <1>8, <1>9, <1>10, <1>11, <1>12 DEF IInv, OpInv

\* The marker goes only when lease, record and binding agree again.
LEMMA RotateDoneKeeps ==
  ASSUME IInv, RotateDone
  PROVE  IInv'
<1> DEFINE x == proc[op.pid]
           r == [x EXCEPT !.scan = "on"]
<1>1. Types /\ RecordInv /\ GenInv /\ ProcInv /\ FenceInv /\ OpInv
  BY DEF IInv
<1>2. /\ op.kind = "rotate" /\ op.step = "granted" /\ marker' = FALSE /\ op' = Idle
      /\ proc' = [proc EXCEPT ![op.pid] = r]
      /\ UNCHANGED <<record, registration, lease, intent, held, episodes, evidence, notice, boot,
                     minted, spawned, history>>
  BY DEF RotateDone, At
<1>3. op.pid \in Pids /\ x \in Procs /\ x.life = "up"
  BY <1>1, <1>2 DEF OpInv, PidInv, RotateInv, Types
<1>4. r \in Procs /\ r.life = x.life /\ r.gen = x.gen /\ r.scan # "waiting"
  BY <1>3 DEF Procs
<1> HIDE DEF r
<1>5. proc' \in [Pids -> Procs] /\ proc'[op.pid] = r /\ \A q \in Pids : q # op.pid => proc'[q] = proc[q]
  BY <1>1, <1>2, <1>3, <1>4, ProcEdit DEF Types
<1>6. \A q \in Pids : /\ proc'[q].life = proc[q].life /\ proc'[q].gen = proc[q].gen
                      /\ proc'[q].scan = "waiting" => proc[q].scan = "waiting"
  BY <1>4, <1>5
<1>7. op' \in Ops /\ OpInv'
  BY <1>2, IdleIsFine
<1>8. Types'
  BY <1>1, <1>2, <1>5, <1>7 DEF Types, history
<1>9. RecordInv'
  <2>1. \A q \in known : q \in Pids
    BY <1>1 DEF Types
  <2>2. QED
    BY <1>1, <1>2, <1>6, <2>1 DEF RecordInv, RecordOk, OperatorPaused, Live, history
<1>10. GenInv'
  BY <1>1, <1>2, <1>6 DEF GenInv, history
<1>11. ProcInv'
  BY <1>1, <1>2, <1>6 DEF ProcInv
<1>12. FenceInv'
  <2>1. \A f \in fenced : f[1] \in Pids
    BY <1>1 DEF Types
  <2>2. QED
    BY <1>1, <1>2, <1>6, <2>1 DEF FenceInv, history
<1>13. lease.gen = minted /\ record.gen = minted /\ registration.gen = minted
  BY <1>1, <1>2 DEF OpInv, RotateInv
<1>14. LinkInv'
  BY <1>2, <1>13 DEF LinkInv
<1>15. QED
  BY <1>7, <1>8, <1>9, <1>10, <1>11, <1>12, <1>14 DEF IInv
-----------------------------------------------------------------------------
(* The theorems.                                                           *)

LEMMA Initial == Init => IInv
<1> SUFFICES ASSUME Init PROVE IInv
  OBVIOUS
<1> DEFINE none == [gen |-> 0, pred |-> 0]
<1>1. /\ record = NoRecord /\ registration = none /\ lease = NoLease /\ intent = "none"
      /\ marker = FALSE /\ held = 0 /\ episodes = 0 /\ evidence = NoEvidence
      /\ op = Idle /\ notice = NoEvidence /\ boot = 0 /\ minted = 0 /\ spawned = 0
      /\ proc = [p \in Pids |-> Unborn]
      /\ fenced = {} /\ wanted = "none" /\ known = {}
  BY DEF Init
<1>2. Unborn \in Procs /\ Unborn.gen = 0 /\ Unborn.scan = "off" /\ Unborn.life = "unborn"
  BY DEF Unborn, Procs
<1>3. NoEvidence \in Evidence /\ NoLease \in Leases /\ NoLease.gen = 0 /\ ~NoLease.current
  BY DEF NoEvidence, Evidence, NoLease, Leases
<1>4. none \in [gen : Gens \cup {0}, pred : Gens \cup {0}] /\ none.gen = 0 /\ none.pred = 0
  OBVIOUS
<1> HIDE DEF none
<1>5. proc \in [Pids -> Procs] /\ \A p \in Pids : proc[p] = Unborn
  BY <1>1, <1>2
<1>6. Types
  <2>1. episodes \in 0..MaxRestarts /\ boot \in 0..MaxBoots /\ minted \in 0..MaxGen /\ spawned \in 0..MaxPid
    BY <1>1, BoundFacts
  <2>2. record \in Records /\ op \in Ops
    BY <1>1, NoRecordIsRecord, IdleIsOp
  <2>3. QED
    BY <1>1, <1>3, <1>4, <1>5, <2>1, <2>2 DEF Types
<1>7. RecordInv /\ LinkInv
  BY <1>1, NoRecordIsRecord DEF RecordInv, LinkInv
<1>8. GenInv
  BY <1>1, <1>2, <1>3, <1>4, <1>5 DEF GenInv
<1>9. ProcInv /\ FenceInv
  BY <1>1, <1>2, <1>3, <1>5 DEF ProcInv, FenceInv
<1>10. OpInv
  BY <1>1, IdleIsOp DEF OpInv, StartInv, RotateInv, PidInv
<1>11. QED
  BY <1>6, <1>7, <1>8, <1>9, <1>10 DEF IInv

LEMMA StutterKeeps ==
  ASSUME IInv, UNCHANGED vars
  PROVE  IInv'
<1>1. UNCHANGED diskVars /\ UNCHANGED history /\ UNCHANGED <<op, notice, boot, minted, spawned, proc>>
  BY DEF vars
<1>2. Types' /\ RecordInv' /\ GenInv' /\ ProcInv' /\ FenceInv' /\ LinkInv'
  BY <1>1, Frames DEF IInv, Types, diskVars, history
<1>3. StartInv'
  BY <1>1 DEF IInv, OpInv, StartInv, RecordOk, Restart, diskVars, history
<1>4. RotateInv' /\ PidInv'
  BY <1>1 DEF IInv, OpInv, RotateInv, PidInv, diskVars, history
<1>5. QED
  BY <1>2, <1>3, <1>4 DEF IInv, OpInv

LEMMA NextKeeps ==
  ASSUME IInv, [Next]_vars
  PROVE  IInv'
<1>1. CASE OperatorStart \/ StartRaises
  BY <1>1, OperatorStartKeeps, StartRaisesKeeps
<1>2. CASE StartSteps
  BY <1>2, StartRefusedKeeps, StartBeginsKeeps, RegisterKeeps, FenceOldKeeps, RotateBindingKeeps,
     SaveLaunchKeeps, GrantFirstKeeps, LaunchKeeps, SpawnKeeps, RecordSpawnKeeps DEF StartSteps
<1>3. CASE \/ \E s \in Signals : OperatorStop(s)
           \/ OperatorPausesStopped
  BY <1>3, OperatorStopKeeps, OperatorPausesStoppedKeeps
<1>4. CASE StopSteps
  BY <1>4, SaveStoppingKeeps, SignalWorks, WorksKeep DEF StopSteps
<1>5. CASE Notice \/ RecoverBegins
  BY <1>5, NoticeKeeps, RecoverBeginsKeeps
<1>6. CASE RecoverSteps
  BY <1>6, RecoverPausesKeeps, SignalWorks, WorksKeep, RecoverGivesUpKeeps, RecoverRestartsKeeps,
     RecoverConfirmsKeeps DEF RecoverSteps
<1>7. CASE CoordinatorRestarts
  BY <1>7, CoordinatorRestartsKeeps
<1>8. ASSUME NEW p \in Pids,
             \/ Boot(p) \/ Load(p)
             \/ \E operator \in BOOLEAN : RunnerStart(p, operator)
             \/ RunnerStop(p) \/ ScanEnds(p) \/ Arm(p) \/ SendInput(p)
             \/ Dies(p) \/ RotateRefused(p) \/ RotateMark(p)
      PROVE  IInv'
  <2>1. CASE RotateMark(p)
    BY <2>1, RotateMarkKeeps
  <2>2. CASE \/ \E operator \in BOOLEAN : RunnerStart(p, operator)
             \/ RunnerStop(p) \/ ScanEnds(p) \/ Arm(p) \/ SendInput(p) \/ RotateRefused(p)
    <3>1. PICK operator \in BOOLEAN :
             \/ RunnerStart(p, operator) \/ RunnerStop(p) \/ ScanEnds(p) \/ Arm(p)
             \/ SendInput(p) \/ RotateRefused(p)
      BY <2>2
    <3>2. QED
      BY <3>1, RunnerWorks, WorksKeep
  <2>3. CASE Boot(p) \/ Load(p) \/ Dies(p)
    BY <2>3, BootWorks, LoadWorks, DiesWorks, WorksKeep
  <2>4. QED
    BY <1>8, <2>1, <2>2, <2>3
<1>9. CASE Rotation
  BY <1>9, RotateFenceKeeps, RotateRegisterKeeps, RotateRecordKeeps, RotatePublishKeeps,
     RotateGrantKeeps, RotateDoneKeeps DEF Rotation
<1>10. CASE UNCHANGED vars
  BY <1>10, StutterKeeps
<1>11. QED
  BY <1>1, <1>2, <1>3, <1>4, <1>5, <1>6, <1>7, <1>8, <1>9, <1>10 DEF Next

\* The inductive invariant of a worker's life: what the record, the binding
\* and the lease say of each other between any two steps of a start, a stop,
\* a recovery or a rotation, whoever dies in between
\* (reroll_supervisor.py, worker_monitor.py, worker_generation.py).
THEOREM Invariance == Spec => []IInv
BY Initial, NextKeeps, PTL DEF Spec

\* The variables keep their types: the record, the lease and the binding on
\* disk, and how far the holder of the worker's lock is.
THEOREM TypeCorrect == Spec => []TypeOK
<1>1. IInv => TypeOK
  BY TypeParts DEF IInv
<1>2. QED
  BY <1>1, Invariance, PTL

\* A process whose generation was revoked under it never gets input back,
\* although InputLease.grant is unconditional: no start, restart, recovery or
\* crash makes that generation current again while the process lives.
THEOREM FencedStaysFencedHolds == Spec => []FencedStaysFenced
<1>1. IInv => FencedStaysFenced
  BY DEF IInv, FenceInv, FencedStaysFenced, Asserts
<1>2. QED
  BY <1>1, Invariance, PTL

\* Whatever was interrupted, unless it was a rotation, the lease still names
\* the recorded generation and the binding descends from it, so that neither
\* revoke nor _rotated_registration nor handoff refuses the next restart.
THEOREM RestartStaysPossibleHolds == Spec => []RestartStaysPossible
<1>1. IInv => RestartStaysPossible
  BY DEF IInv, LinkInv, RestartStaysPossible
<1>2. QED
  BY <1>1, Invariance, PTL

\* Of all processes that RerollSupervisor ever put on record at most one is
\* alive.
THEOREM OneRecordedWorkerHolds == Spec => []OneRecordedWorker
<1>1. IInv => OneRecordedWorker
  <2> SUFFICES ASSUME IInv PROVE OneRecordedWorker
    OBVIOUS
  <2>1. known \subseteq {record.pid}
    BY DEF IInv, RecordInv
  <2>2. IsFiniteSet({record.pid}) /\ Cardinality({record.pid}) = 1
    BY FS_Singleton, Zenon
  <2>3. Cardinality(known) \in Nat /\ Cardinality(known) <= 1
    <3>1. IsFiniteSet(known) /\ Cardinality(known) <= Cardinality({record.pid})
      BY <2>1, <2>2, FS_Subset
    <3>2. QED
      BY <2>2, <3>1, FS_CardinalityType
  <2>4. QED
    BY <2>3 DEF OneRecordedWorker
<1>2. QED
  BY <1>1, Invariance, PTL

\* Once the coordinator has accepted a pause, a recovery spawns nothing until
\* an operator's start: the start at the end of a recovery looks at the
\* record's wish before it launches, and the record cannot lose it in between.
THEOREM PauseHoldsHolds == Spec => PauseHolds
<1>1. ASSUME IInv, [Next]_vars
      PROVE  op.recovery /\ spawned' # spawned => wanted = "run"
  <2>1. Spawn \/ spawned' = spawned
    BY <1>1 DEF Next, vars, StartSteps, StopSteps, RecoverSteps, Rotation, OperatorStart,
       StartRefused, StartBegins, Register, FenceOld, RotateBinding, SaveLaunch, GrantFirst, Launch,
       RecordSpawn, StartRaises, OperatorStop, OperatorPausesStopped, SaveStopping, SendSignal,
       Notice, RecoverBegins, RecoverPauses, RecoverSignals, RecoverKills, RecoverGivesUp,
       RecoverRestarts, RecoverConfirms, CoordinatorRestarts, Boot, Load, RunnerStart, RunnerStop,
       ScanEnds, Arm, SendInput, Dies, RotateRefused, RotateMark, RotateFence, RotateRegister,
       RotateRecord, RotatePublish, RotateGrant, RotateDone
  <2>2. Spawn => wanted = "run"
    BY <1>1, NobodyOnRecord DEF Spawn, At
  <2>3. QED
    BY <2>1, <2>2
<1>2. QED
  BY <1>1, Invariance, PTL DEF Spec, PauseHolds
=============================================================================
