-------------------------- MODULE WorkerLifecycle ---------------------------
(***************************************************************************)
(* One fleet worker and everybody who may start, stop, fence or replace    *)
(* its process:                                                            *)
(*   - the coordinator (src/fleet/reroll_supervisor.py): the operator's    *)
(*     start, pause and kill, and the monitor's recovery of a blocked      *)
(*     worker (src/fleet/worker_monitor.py), each of which holds the       *)
(*     worker's lock from its first to its last step;                      *)
(*   - the worker process (src/tower_bot.py, src/runner.py): it reserves   *)
(*     the endpoint, loads its generation, runs the scan loop, sends       *)
(*     input, and on a second start of its loop moves itself to a fresh    *)
(*     generation (src/fleet/worker_generation.py) under the same lock;    *)
(*   - the operating system: a process may die at any step, a signalled    *)
(*     process may take its time, the coordinator may be restarted.        *)
(* What survives a death is on disk: the process record, the registered    *)
(* binding, the input lease, the operator's intent, the transition marker, *)
(* the restart budget and the monitor's incidents.                         *)
(***************************************************************************)
EXTENDS InputLease, FiniteSets

CONSTANTS MaxPid,       \* a bound: processes ever spawned
          MaxBoots,     \* a bound: restarts of the coordinator
          MaxRestarts   \* WorkerMonitor.max_restarts within one window

ASSUME BoundsAreNatural ==
  MaxPid \in Nat \ {0} /\ MaxBoots \in Nat /\ MaxRestarts \in Nat \ {0}

Pids == 1..MaxPid

VARIABLES
  record,       \* reroll-processes/<name>.json
  registration, \* the generation of the registered binding, and its predecessor
  lease,        \* input-lease.json
  intent,       \* bot-intent.json: the operator's word on the scan loop
  marker,       \* generation-transition.json exists
  held,         \* the pid of the monitor's last incident if that holds the worker
  episodes,     \* restarts the monitor has reserved in this window
  evidence,     \* the pid and generation a worker last published
  op,           \* who holds the worker's lock, and how far it is
  notice,       \* the evidence on which the monitor decided to recover
  boot,         \* which incarnation of the coordinator runs
  minted,       \* generations made so far
  spawned,      \* processes made so far
  proc,         \* the worker processes
  fenced,       \* history: who held a generation when it was revoked
  wanted,       \* history: the last start or pause the coordinator accepted
  known         \* history: the live processes that were ever on record

diskVars == <<record, registration, lease, intent, marker, held, episodes, evidence>>
history == <<fenced, wanted, known>>
vars == <<diskVars, op, notice, boot, minted, spawned, proc, history>>

NoRecord == [state |-> "none", pid |-> 0, gen |-> 0, desired |-> "none", owner |-> 0]
Records == [state : {"none", "starting", "running", "stopping", "failed"},
            pid : Pids \cup {0}, gen : Gens \cup {0},
            desired : {"none", "running", "paused"}, owner : 0..MaxBoots]
NoEvidence == [pid |-> 0, gen |-> 0]

\* How far the holder of the worker's lock is.
Steps == {"none", "begin", "register", "fence", "rotate", "save", "grant", "launch", "spawn", "record",
          "term", "kill", "revoked", "signal", "wait", "killed", "confirm",
          "marked", "fenced", "registered", "recorded", "published", "granted"}
Idle == [kind |-> "idle", step |-> "none", recovery |-> FALSE, old |-> NoRecord, pid |-> 0]
Unborn == [life |-> "unborn", gen |-> 0, scan |-> "off", started |-> FALSE,
           armed |-> FALSE, signal |-> "none"]

Dead == [Unborn EXCEPT !.life = "dead"]

Live(p) == proc[p].life \in {"booting", "reserved", "up"}
EndpointHeldMutant == \E p \in Pids : proc[p].life = "reserved"
\* The endpoint's file lock: a process holds it from its boot to its death.
EndpointHeld == \E p \in Pids : proc[p].life \in {"reserved", "up"}

\* _status, which reconcile also reports.  The birth time proves that a live
\* process with the recorded pid is the one the record is about.
Status ==
  IF record = NoRecord THEN "none"
  ELSE IF marker THEN "identity_changed"
  ELSE IF record.pid # 0
  THEN IF Live(record.pid) THEN IF record.state = "stopping" THEN "stopping" ELSE "running"
       ELSE IF record.state = "stopping" THEN "paused" ELSE "stopped"
  ELSE IF record.state = "starting" /\ record.owner # boot THEN "interrupted" ELSE record.state

StartableMutant == Status \notin {"running", "identity_changed", "starting"}
Startable == Status \notin {"running", "identity_changed", "starting", "stopping"}

OperatorPausedMutant == FALSE
OperatorPaused == record.desired = "paused"

Init ==
  /\ record = NoRecord /\ registration = [gen |-> 0, pred |-> 0] /\ lease = NoLease
  /\ intent = "none" /\ marker = FALSE /\ held = 0 /\ episodes = 0 /\ evidence = NoEvidence
  /\ op = Idle /\ notice = NoEvidence /\ boot = 0 /\ minted = 0 /\ spawned = 0
  /\ proc = [p \in Pids |-> Unborn]
  /\ fenced = {} /\ wanted = "none" /\ known = {}
----------------------------------------------------------------------------
Holders(g) == {p \in Pids : Live(p) /\ proc[p].gen = g}

\* InputLease.revoke, with the history of whom it cut off.
Revoke(g) ==
  /\ CanRevoke(lease, g)
  /\ lease' = Revoked(lease)
  /\ fenced' = fenced \cup (Holders(g) \X {g})

At(kind, step) == op.kind = kind /\ op.step = step
Step(step) == op' = [op EXCEPT !.step = step]

(* Starting a process: RerollSupervisor.start, for the operator and, with  *)
(* recovery=True, at the end of the monitor's recovery.                    *)

Restart == op.old.pid # 0

\* The caller of start goes on: the monitor with confirming the restart.
Return == op' = IF op.recovery THEN [op EXCEPT !.kind = "recover", !.step = "confirm"] ELSE Idle

\* The handler of start: a record without a process becomes a failed one.
Fail ==
  /\ record' = IF record.pid = 0 THEN [NoRecord EXCEPT !.state = "failed"] ELSE record
  /\ Return

OperatorStart ==
  /\ op = Idle
  /\ op' = [Idle EXCEPT !.kind = "start", !.step = "begin", !.old = record]
  /\ UNCHANGED <<diskVars, notice, boot, minted, spawned, proc, history>>

StartRefused ==
  /\ At("start", "begin")
  /\ ~Startable \/ (op.recovery /\ OperatorPaused)
  /\ Return
  /\ UNCHANGED <<diskVars, notice, boot, minted, spawned, proc, history>>

\* The launch is recorded before anything is started.
StartBegins ==
  /\ At("start", "begin")
  /\ Startable
  /\ op.recovery => ~OperatorPaused
  /\ \/ /\ EndpointHeld
        /\ Fail
        /\ UNCHANGED wanted
     \/ /\ ~EndpointHeld
        /\ record' = [NoRecord EXCEPT !.state = "starting", !.owner = boot]
        /\ wanted' = IF op.recovery THEN wanted ELSE "run"
        /\ Step("register")
  /\ UNCHANGED <<registration, lease, intent, marker, held, episodes, evidence, notice, boot,
                 minted, spawned, proc, fenced, known>>

\* enroll makes the first binding; later starts find it.
Register ==
  /\ At("start", "register")
  /\ \/ /\ registration.gen = 0 /\ minted < MaxGen
        /\ minted' = minted + 1
        /\ registration' = [gen |-> minted + 1, pred |-> 0]
     \/ /\ registration.gen # 0
        /\ UNCHANGED <<minted, registration>>
  /\ Step("fence")
  /\ UNCHANGED <<record, lease, intent, marker, held, episodes, evidence, notice, boot, spawned,
                 proc, history>>

\* A restart revokes what the dead process may still have been granted.
FenceOld ==
  /\ At("start", "fence")
  /\ \/ /\ Restart /\ op.old.gen # 0 /\ lease.current
        /\ Revoke(op.old.gen)
        /\ Step("rotate")
        /\ UNCHANGED record
     \/ /\ ~Restart \/ (op.old.gen # 0 /\ ~lease.current)
        /\ Step("rotate")
        /\ UNCHANGED <<record, lease, fenced>>
     \/ /\ Restart
        /\ op.old.gen = 0 \/ (lease.current /\ ~CanRevoke(lease, op.old.gen))
        /\ Fail
        /\ UNCHANGED <<lease, fenced>>
  /\ UNCHANGED <<registration, intent, marker, held, episodes, evidence, notice, boot, minted,
                 spawned, proc, wanted, known>>

\* _rotated_registration
RotateBinding ==
  /\ At("start", "rotate")
  /\ \/ /\ Restart /\ op.old.gen \in {registration.gen, registration.pred} /\ minted < MaxGen
        /\ minted' = minted + 1
        /\ registration' = [gen |-> minted + 1, pred |-> op.old.gen]
        /\ Step("save")
        /\ UNCHANGED record
     \/ /\ Restart /\ op.old.gen \notin {registration.gen, registration.pred}
        /\ Fail
        /\ UNCHANGED <<minted, registration>>
     \/ /\ ~Restart
        /\ Step("save")
        /\ UNCHANGED <<minted, registration, record>>
  /\ UNCHANGED <<lease, intent, marker, held, episodes, evidence, notice, boot, spawned, proc,
                 history>>

SaveLaunch ==
  /\ At("start", "save")
  /\ record' = [state |-> "starting", pid |-> 0, gen |-> registration.gen,
                desired |-> "running", owner |-> boot]
  /\ Step("grant")
  /\ UNCHANGED <<registration, lease, intent, marker, held, episodes, evidence, notice, boot,
                 minted, spawned, proc, history>>

\* A dead process does not prove that its endpoint is free.
GrantFirst ==
  /\ At("start", "grant")
  /\ \/ /\ EndpointHeld
        /\ Fail
        /\ UNCHANGED lease
     \/ /\ ~EndpointHeld
        /\ lease' = IF Restart THEN lease ELSE Granted(registration.gen)
        /\ Step("launch")
        /\ UNCHANGED record
  /\ UNCHANGED <<registration, intent, marker, held, episodes, evidence, notice, boot, minted,
                 spawned, proc, history>>

Launch ==
  /\ At("start", "launch")
  /\ \/ /\ op.recovery /\ intent = "stopped"
        /\ record' = op.old
        /\ held' = 0 /\ op' = Idle /\ notice' = NoEvidence
        /\ UNCHANGED lease
     \/ /\ ~(op.recovery /\ intent = "stopped")
        /\ Restart => CanHandoff(lease, op.old.gen, registration.gen)
        /\ lease' = IF Restart THEN Granted(registration.gen) ELSE lease
        /\ Step("spawn")
        /\ UNCHANGED <<record, held, notice>>
     \/ /\ ~(op.recovery /\ intent = "stopped")
        /\ Restart /\ ~CanHandoff(lease, op.old.gen, registration.gen)
        /\ Fail
        /\ UNCHANGED <<lease, held, notice>>
  /\ UNCHANGED <<registration, intent, marker, episodes, evidence, boot, minted, spawned, proc,
                 history>>

Spawn ==
  /\ At("start", "spawn")
  /\ spawned < MaxPid
  /\ spawned' = spawned + 1
  /\ proc' = [proc EXCEPT ![spawned + 1].life = "booting"]
  /\ op' = [op EXCEPT !.step = "record", !.pid = spawned + 1]
  /\ UNCHANGED <<diskVars, notice, boot, minted, history>>

RecordSpawn ==
  /\ At("start", "record")
  /\ record' = [record EXCEPT !.state = "running", !.pid = op.pid]
  /\ known' = IF Live(op.pid) THEN known \cup {op.pid} ELSE known
  /\ Return
  /\ UNCHANGED <<registration, lease, intent, marker, held, episodes, evidence, notice, boot,
                 minted, spawned, proc, fenced, wanted>>

\* Any step of a start may raise: a file, the host, ps, or the spawn itself.
StartRaises ==
  /\ op.kind = "start" /\ op.step # "begin"
  /\ Fail
  /\ UNCHANGED <<registration, lease, intent, marker, held, episodes, evidence, notice, boot,
                 minted, spawned, proc, history>>
----------------------------------------------------------------------------
(* Stopping a process: RerollSupervisor.pause and kill, by the operator,   *)
(* by retirement, and by the monitor.  The lease is revoked before the     *)
(* record says so, and the record says so before the signal is sent.       *)

Signals == {"term", "kill"}

\* pause() or kill() of a worker that runs; kill() also of one that is stopping.
OperatorStop(s) ==
  /\ op = Idle
  /\ Status = "running" \/ (s = "kill" /\ Status = "stopping")
  /\ op' = [Idle EXCEPT !.kind = "stop", !.step = s, !.pid = record.pid]
  /\ \/ lease.current /\ Revoke(lease.gen)
     \/ ~lease.current /\ UNCHANGED <<lease, fenced>>
  /\ UNCHANGED <<record, registration, intent, marker, held, episodes, evidence, notice, boot,
                 minted, spawned, proc, wanted, known>>

\* pause() or kill() of a worker that does not run only leaves the wish.
OperatorPausesStopped ==
  /\ op = Idle
  /\ Status # "running"
  /\ record' = IF record.state \in {"none", "starting"} THEN record
               ELSE [record EXCEPT !.desired = "paused"]
  /\ wanted' = "pause"
  /\ UNCHANGED <<registration, lease, intent, marker, held, episodes, evidence, op, notice, boot,
                 minted, spawned, proc, fenced, known>>

SaveStopping ==
  /\ op.kind = "stop" /\ op.step \in Signals
  /\ record' = [record EXCEPT !.state = "stopping", !.desired = "paused"]
  /\ wanted' = "pause"
  /\ op' = [op EXCEPT !.kind = "signal"]
  /\ UNCHANGED <<registration, lease, intent, marker, held, episodes, evidence, notice, boot,
                 minted, spawned, proc, fenced, known>>

Signalled(p, s) ==
  [proc EXCEPT ![p].signal = IF Live(p) /\ @ # "kill" THEN s ELSE @]

SendSignal ==
  /\ op.kind = "signal"
  /\ proc' = Signalled(op.pid, op.step)
  /\ op' = Idle
  /\ UNCHANGED <<diskVars, notice, boot, minted, spawned, history>>
----------------------------------------------------------------------------
(* The monitor: WorkerMonitor.check_once reads without the lock,           *)
(* _recover_locked decides again under it.  Whether a worker is blocked is *)
(* a question of time: any worker may be.                                  *)

Notice ==
  /\ notice = NoEvidence
  /\ Status = "running" /\ held # record.pid
  /\ intent # "stopped"
  /\ evidence.pid = record.pid
  /\ notice' = evidence
  /\ UNCHANGED <<diskVars, op, boot, minted, spawned, proc, history>>

\* The monitor's result: held says whether the incident's outcome is one
\* that _held_incident keeps the worker back for.
Result(pid) == held' = pid /\ op' = Idle /\ notice' = NoEvidence

RecoverBegins ==
  /\ notice # NoEvidence /\ op = Idle
  /\ LET changed == record.pid # notice.pid \/ record.gen # notice.gen IN
     \/ /\ changed
        /\ Result(notice.pid)
        /\ UNCHANGED <<lease, fenced>>
     \/ /\ ~changed
        /\ intent = "stopped" \/ ~Live(notice.pid)
        /\ Result(0)
        /\ UNCHANGED <<lease, fenced>>
     \/ /\ ~changed /\ intent # "stopped" /\ Live(notice.pid)
        /\ ~CanRevoke(lease, notice.gen)
        /\ Result(notice.pid)
        /\ UNCHANGED <<lease, fenced>>
     \/ /\ ~changed /\ intent # "stopped" /\ Live(notice.pid)
        /\ Revoke(notice.gen)
        /\ held' = notice.pid
        /\ op' = [Idle EXCEPT !.kind = "recover", !.step = "revoked", !.recovery = TRUE,
                              !.old = record, !.pid = notice.pid]
        /\ UNCHANGED notice
  /\ UNCHANGED <<record, registration, intent, marker, episodes, evidence, boot, minted, spawned,
                 proc, wanted, known>>

\* supervisor.pause(recovery=True): the operator's wish is left alone, and a
\* worker that somebody is stopping already is only waited for.
RecoverPauses ==
  /\ At("recover", "revoked")
  /\ \/ /\ intent = "stopped"
        /\ Result(0)
        /\ UNCHANGED record
     \/ /\ intent # "stopped" /\ Status = "running"
        /\ record' = [record EXCEPT !.state = "stopping"]
        /\ Step("signal")
        /\ UNCHANGED <<held, notice>>
     \/ /\ intent # "stopped" /\ Status \in {"stopping", "paused"}
        /\ Step("wait")
        /\ UNCHANGED <<record, held, notice>>
     \/ /\ intent # "stopped" /\ Status \notin {"running", "stopping", "paused"}
        /\ Result(op.pid)
        /\ UNCHANGED record
  /\ UNCHANGED <<registration, lease, intent, marker, episodes, evidence, boot, minted, spawned,
                 proc, history>>

RecoverSignals ==
  /\ At("recover", "signal")
  /\ proc' = Signalled(op.pid, "term")
  /\ Step("wait")
  /\ UNCHANGED <<diskVars, notice, boot, minted, spawned, history>>

RecoverKillsMutant ==
  /\ At("recover", "wait") /\ Live(op.pid) /\ proc[op.pid].signal = "none"
  /\ proc' = Signalled(op.pid, "kill")
  /\ Step("killed")
  /\ UNCHANGED <<diskVars, notice, boot, minted, spawned, history>>
\* The grace period passes: kill() re-proves the process and signals again.
RecoverKills ==
  /\ At("recover", "wait") /\ Live(op.pid)
  /\ proc' = Signalled(op.pid, "kill")
  /\ Step("killed")
  /\ UNCHANGED <<diskVars, notice, boot, minted, spawned, history>>

RecoverGivesUp ==
  /\ At("recover", "killed") /\ Live(op.pid)
  /\ Result(op.pid)
  /\ UNCHANGED <<record, registration, lease, intent, marker, episodes, evidence, boot, minted,
                 spawned, proc, history>>

RecoverRestartsMutant ==
  /\ op.kind = "recover" /\ op.step \in {"wait", "killed"} /\ ~Live(op.pid)
  /\ \/ /\ EndpointHeld \/ episodes > MaxRestarts
        /\ Result(op.pid)
        /\ UNCHANGED episodes
     \/ /\ ~EndpointHeld /\ episodes <= MaxRestarts
        /\ episodes' = episodes + 1
        /\ \/ /\ OperatorPaused \/ intent = "stopped"
              /\ Result(0)
           \/ /\ ~OperatorPaused /\ intent # "stopped"
              /\ op' = [op EXCEPT !.kind = "start", !.step = "begin", !.old = record]
              /\ UNCHANGED <<held, notice>>
  /\ UNCHANGED <<record, registration, lease, intent, marker, evidence, boot, minted, spawned,
                 proc, history>>
\* Only a confirmed death and a free endpoint lead to a restart, and the
\* restart is counted before it is tried.
RecoverRestarts ==
  /\ op.kind = "recover" /\ op.step \in {"wait", "killed"} /\ ~Live(op.pid)
  /\ \/ /\ EndpointHeld \/ episodes >= MaxRestarts
        /\ Result(op.pid)
        /\ UNCHANGED episodes
     \/ /\ ~EndpointHeld /\ episodes < MaxRestarts
        /\ episodes' = episodes + 1
        /\ \/ /\ OperatorPaused \/ intent = "stopped"
              /\ Result(0)
           \/ /\ ~OperatorPaused /\ intent # "stopped"
              /\ op' = [op EXCEPT !.kind = "start", !.step = "begin", !.old = record]
              /\ UNCHANGED <<held, notice>>
  /\ UNCHANGED <<record, registration, lease, intent, marker, evidence, boot, minted, spawned,
                 proc, history>>

RecoverConfirms ==
  /\ At("recover", "confirm")
  /\ \/ /\ Status = "running"
        /\ Result(0)
        /\ UNCHANGED <<lease, fenced>>
     \/ /\ Status # "running"
        /\ Result(op.old.pid)
        /\ \/ lease.current /\ Revoke(lease.gen)
           \/ ~lease.current /\ UNCHANGED <<lease, fenced>>
  /\ UNCHANGED <<record, registration, intent, marker, episodes, evidence, boot, minted, spawned,
                 proc, wanted, known>>

\* The coordinator dies, in the middle of anything, and comes back.
CoordinatorRestarts ==
  /\ boot < MaxBoots
  /\ boot' = boot + 1
  /\ op' = IF op.kind = "rotate" THEN op ELSE Idle
  /\ notice' = NoEvidence
  /\ UNCHANGED <<diskVars, minted, spawned, proc, history>>
----------------------------------------------------------------------------
(* The worker process.                                                     *)

\* main: one process per endpoint, the others leave.
Boot(p) ==
  /\ proc[p].life = "booting"
  /\ \/ /\ EndpointHeld
        /\ proc' = [proc EXCEPT ![p] = Dead]
        /\ known' = known \ {p}
     \/ /\ ~EndpointHeld
        /\ proc' = [proc EXCEPT ![p].life = "reserved"]
        /\ UNCHANGED known
  /\ UNCHANGED <<diskVars, op, notice, boot, minted, spawned, fenced, wanted>>

\* _main: the process takes the generation of the registered binding.
Load(p) ==
  /\ proc[p].life = "reserved"
  /\ proc' = [proc EXCEPT ![p].life = "up", ![p].gen = registration.gen]
  /\ UNCHANGED <<diskVars, op, notice, boot, minted, spawned, history>>

\* BotRunner.start up to the generation: the operator's start overrides a
\* recorded stop, the automatic one of a fresh process respects it.
RunnerStart(p, operator) ==
  /\ proc[p].life = "up" /\ proc[p].scan = "off"
  /\ operator \/ (~proc[p].started /\ intent # "stopped")
  /\ intent' = IF operator THEN "running" ELSE intent
  /\ \/ /\ ~proc[p].started
        /\ evidence' = [pid |-> p, gen |-> proc[p].gen]
        /\ proc' = [proc EXCEPT ![p].scan = "on", ![p].started = TRUE]
     \/ /\ proc[p].started
        /\ proc' = [proc EXCEPT ![p].scan = "waiting"]
        /\ UNCHANGED evidence
  /\ UNCHANGED <<record, registration, lease, marker, held, episodes, op, notice, boot, minted,
                 spawned, history>>

\* BotRunner.stop by the operator: the word is on disk before the loop is told.
RunnerStop(p) ==
  /\ proc[p].life = "up" /\ proc[p].scan # "waiting"
  /\ intent' = "stopped"
  /\ proc' = [proc EXCEPT ![p].scan = IF @ = "on" THEN "ending" ELSE @]
  /\ UNCHANGED <<record, registration, lease, marker, held, episodes, evidence, op, notice, boot,
                 minted, spawned, history>>

ScanEnds(p) ==
  /\ Live(p) /\ proc[p].scan \in {"on", "ending"} /\ ~proc[p].armed
  /\ proc' = [proc EXCEPT ![p].scan = "off"]
  /\ UNCHANGED <<diskVars, op, notice, boot, minted, spawned, history>>

\* DeviceSupervisor asserts the lease, and then sends the input.
Arm(p) ==
  /\ Live(p) /\ proc[p].scan \in {"on", "ending"} /\ ~proc[p].armed
  /\ Asserts(lease, proc[p].gen)
  /\ proc' = [proc EXCEPT ![p].armed = TRUE]
  /\ UNCHANGED <<diskVars, op, notice, boot, minted, spawned, history>>

SendInput(p) ==
  /\ Live(p) /\ proc[p].armed
  /\ proc' = [proc EXCEPT ![p].armed = FALSE]
  /\ UNCHANGED <<diskVars, op, notice, boot, minted, spawned, history>>

\* Death, by a signal or on its own; the kernel frees the locks it held.  The
\* histories speak of the living.
Dies(p) ==
  /\ Live(p)
  /\ proc' = [proc EXCEPT ![p] = Dead]
  /\ op' = IF op.kind = "rotate" /\ op.pid = p THEN Idle ELSE op
  /\ fenced' = {f \in fenced : f[1] # p}
  /\ known' = known \ {p}
  /\ UNCHANGED <<diskVars, notice, boot, minted, spawned, wanted>>

\* SIGTERM: the shutdown watcher needs the runner's lock, which a start that
\* waits for the worker's lock holds.
Terminates(p) ==
  /\ proc[p].signal = "term" /\ proc[p].scan # "waiting"
  /\ Dies(p)

Killed(p) == proc[p].signal = "kill" /\ Dies(p)
----------------------------------------------------------------------------
(* rotate_registered_attempt: a process whose loop ended starts it again   *)
(* as a fresh generation, under the worker's lock.                         *)

MayRotate(p) ==
  /\ ~marker
  /\ record.pid = p /\ record.state = "running" /\ ~OperatorPaused
  /\ record.gen = proc[p].gen /\ registration.gen = proc[p].gen
  /\ Asserts(lease, proc[p].gen)

RotateRefused(p) ==
  /\ proc[p].scan = "waiting" /\ op = Idle
  /\ ~MayRotate(p)
  /\ proc' = [proc EXCEPT ![p].scan = "off"]
  /\ UNCHANGED <<diskVars, op, notice, boot, minted, spawned, history>>

RotateMark(p) ==
  /\ proc[p].scan = "waiting" /\ op = Idle
  /\ MayRotate(p) /\ minted < MaxGen
  /\ marker' = TRUE
  /\ minted' = minted + 1
  /\ op' = [Idle EXCEPT !.kind = "rotate", !.step = "marked", !.pid = p]
  /\ UNCHANGED <<record, registration, lease, intent, held, episodes, evidence, notice, boot,
                 spawned, proc, history>>

RotateFence ==
  /\ At("rotate", "marked")
  /\ Revoke(proc[op.pid].gen)
  /\ Step("fenced")
  /\ UNCHANGED <<record, registration, intent, marker, held, episodes, evidence, notice, boot,
                 minted, spawned, proc, wanted, known>>

RotateRegister ==
  /\ At("rotate", "fenced")
  /\ registration' = [gen |-> minted, pred |-> proc[op.pid].gen]
  /\ Step("registered")
  /\ UNCHANGED <<record, lease, intent, marker, held, episodes, evidence, notice, boot, minted,
                 spawned, proc, history>>

RotateRecordMutant ==
  /\ At("rotate", "registered")
  /\ Step("recorded")
  /\ UNCHANGED <<record, registration, lease, intent, marker, held, episodes, evidence, notice,
                 boot, minted, spawned, proc, history>>
RotateRecord ==
  /\ At("rotate", "registered")
  /\ record' = [record EXCEPT !.gen = minted]
  /\ Step("recorded")
  /\ UNCHANGED <<registration, lease, intent, marker, held, episodes, evidence, notice, boot,
                 minted, spawned, proc, history>>

RotatePublish ==
  /\ At("rotate", "recorded")
  /\ evidence' = [pid |-> op.pid, gen |-> minted]
  /\ proc' = [proc EXCEPT ![op.pid].gen = minted]
  /\ Step("published")
  /\ UNCHANGED <<record, registration, lease, intent, marker, held, episodes, notice, boot,
                 minted, spawned, history>>

RotateGrant ==
  /\ At("rotate", "published")
  /\ CanHandoff(lease, registration.pred, minted)
  /\ lease' = Granted(minted)
  /\ Step("granted")
  /\ UNCHANGED <<record, registration, intent, marker, held, episodes, evidence, notice, boot,
                 minted, spawned, proc, history>>

RotateDone ==
  /\ At("rotate", "granted")
  /\ marker' = FALSE
  /\ proc' = [proc EXCEPT ![op.pid].scan = "on"]
  /\ op' = Idle
  /\ UNCHANGED <<record, registration, lease, intent, held, episodes, evidence, notice, boot,
                 minted, spawned, history>>

Rotation == \/ RotateFence \/ RotateRegister \/ RotateRecord \/ RotatePublish
            \/ RotateGrant \/ RotateDone
----------------------------------------------------------------------------
StartSteps == \/ StartRefused \/ StartBegins \/ Register \/ FenceOld \/ RotateBinding
              \/ SaveLaunch \/ GrantFirst \/ Launch \/ Spawn \/ RecordSpawn
StopSteps == SaveStopping \/ SendSignal
RecoverSteps == \/ RecoverPauses \/ RecoverSignals \/ RecoverKills \/ RecoverGivesUp
                \/ RecoverRestarts \/ RecoverConfirms

Next ==
  \/ OperatorStart \/ StartSteps \/ StartRaises
  \/ \E s \in Signals : OperatorStop(s)
  \/ OperatorPausesStopped \/ StopSteps
  \/ Notice \/ RecoverBegins \/ RecoverSteps
  \/ CoordinatorRestarts
  \/ \E p \in Pids :
        \/ Boot(p) \/ Load(p)
        \/ \E operator \in BOOLEAN : RunnerStart(p, operator)
        \/ RunnerStop(p) \/ ScanEnds(p) \/ Arm(p) \/ SendInput(p)
        \/ Dies(p) \/ RotateRefused(p) \/ RotateMark(p)
  \/ Rotation

Spec == Init /\ [][Next]_vars

\* Steps of a procedure follow each other.  A thread that waits for a lock
\* gets it in the end: a start of the loop the worker's file lock, the
\* shutdown watcher the runner's lock.  Nobody owes the system a request, an
\* input, a crash or a failure.
FairSpec ==
  /\ Spec
  /\ WF_vars(StartSteps) /\ WF_vars(StopSteps) /\ WF_vars(RecoverSteps) /\ WF_vars(Rotation)
  /\ \A p \in Pids : /\ SF_vars(Terminates(p)) /\ WF_vars(Killed(p))
                     /\ SF_vars(RotateRefused(p)) /\ SF_vars(RotateMark(p))
----------------------------------------------------------------------------
\* The state variables keep their types.
TypeOK ==
  /\ record \in Records
  /\ registration \in [gen : Gens \cup {0}, pred : Gens \cup {0}]
  /\ lease \in Leases /\ intent \in {"none", "running", "stopped"} /\ marker \in BOOLEAN
  /\ held \in Pids \cup {0} /\ episodes \in 0..MaxRestarts
  /\ evidence \in [pid : Pids \cup {0}, gen : Gens \cup {0}]
  /\ notice \in [pid : Pids \cup {0}, gen : Gens \cup {0}]
  /\ op \in [kind : {"idle", "start", "stop", "signal", "recover", "rotate"}, step : Steps,
            recovery : BOOLEAN, old : Records, pid : Pids \cup {0}]
  /\ boot \in 0..MaxBoots /\ minted \in 0..MaxGen /\ spawned \in 0..MaxPid
  /\ proc \in [Pids -> [life : {"unborn", "booting", "reserved", "up", "dead"},
                        gen : Gens \cup {0}, scan : {"off", "on", "ending", "waiting"},
                        started : BOOLEAN, armed : BOOLEAN, signal : Signals \cup {"none"}]]
  /\ fenced \subseteq Pids \X Gens /\ wanted \in {"none", "run", "pause"} /\ known \subseteq Pids

\* A process whose generation was revoked under it never gets input back: no
\* start, restart, recovery or crash between two of their steps makes that
\* generation current again while the process lives (it may move itself to a
\* new one only while its own is current).  grant is unconditional, so this
\* rests on the order of the revocations, records and endpoint checks.
FencedStaysFenced ==
  \A f \in fenced : Live(f[1]) /\ proc[f[1]].gen = f[2] => ~Asserts(lease, f[2])

\* Whatever was interrupted, unless it was a rotation the worker on record
\* can be restarted: the lease still names the recorded generation and the
\* binding descends from it, so neither revoke, _rotated_registration nor
\* handoff will refuse.
RestartStaysPossible ==
  op = Idle /\ record.pid # 0 /\ ~marker
    => /\ lease.gen = record.gen
       /\ record.gen \in {registration.gen, registration.pred}

\* Of all processes that were ever on record at most one is alive: a record
\* is replaced only after the process it is about is dead.
OneRecordedWorker == Cardinality(known) <= 1

\* Once the coordinator has accepted a pause, recovery spawns nothing until
\* an operator's start: the pause may fall before, within or after any part
\* of the recovery, and be followed by a crash.
PauseHolds == [][op.recovery /\ spawned' # spawned => wanted = "run"]_vars

\* A process that was signalled exits, also when its loop is waiting for the
\* worker's lock while the one who signalled it holds that lock.
SignalledWorkerExits ==
  \A p \in Pids : (proc[p].signal # "none" /\ Live(p)) ~> ~Live(p)

=============================================================================
