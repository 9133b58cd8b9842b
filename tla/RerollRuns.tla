----------------------------- MODULE RerollRuns -----------------------------
(***************************************************************************)
(* Numbered reroll runs over the pool of emulators (fleet/reroll_runs.py,  *)
(* reroll_pool.py, reroll_retirement.py) and the exclusive background      *)
(* operation of the dashboard that changes them (fleet/setup.py).          *)
(*                                                                         *)
(* Two files are written one after the other, an operation stops workers   *)
(* for minutes outside every lock, readers repair the runs from the pool,  *)
(* the monitor restarts workers on its own, and the dashboard may die      *)
(* anywhere.  The host's evidence (inventory, Tower state, identity) is a  *)
(* choice: an addition may be refused when it is proven and when it is     *)
(* committed, a worker's exit may stay unproven.                           *)
(***************************************************************************)
EXTENDS Naturals, Sequences, FiniteSets

CONSTANTS Names,      \* emulators of the host
          Hideable,   \* bound: those the operator hides on the dashboard
          MaxRuns,    \* bound on the run numbers
          MaxStarts,  \* bound on worker starts
          MaxFaults   \* bound on crashes of the dashboard and failed probes

ASSUME RerollAssumption ==
  IsFiniteSet(Names) /\ Hideable \subseteq Names /\ MaxRuns \in Nat /\ MaxStarts \in Nat /\ MaxFaults \in Nat

VARIABLES
  runs,    \* reroll-runs.json: the run numbered k is runs[k]
  pool,    \* reroll-pool.json: names of the members
  op,      \* the background operation, and busy
  worker,  \* per emulator: the process, the supervisor's record and intent
  mon,     \* names being started now, and names the monitor has read as members
  seen     \* history: starts, faults, exits that were never really seen

vars == <<runs, pool, op, worker, mon, seen>>

NoOp == [kind |-> "none", pc |-> "idle", keep |-> {}, add |-> {}, leaving |-> {},
         waiting |-> {}, out |-> {}, failed |-> {}, busy |-> FALSE]

Init ==
  /\ runs = << >>
  /\ pool = {}
  /\ op = NoOp
  /\ worker = [n \in Names |-> [alive |-> FALSE, rec |-> "none", paused |-> FALSE]]
  /\ mon = [starting |-> {}, read |-> {}]
  /\ seen = [starts |-> 0, faults |-> 0, doubted |-> {}]

-----------------------------------------------------------------------------
(* The runs file.                                                          *)

NewRun(members, failed) ==
  [active |-> TRUE, members |-> members, removed |-> {}, hidden |-> {}, failed |-> failed]

Live(run) == run.members \ run.removed

HasActive(rs) == \E k \in DOMAIN rs : rs[k].active
Active(rs) == CHOOSE k \in DOMAIN rs : rs[k].active
LiveOf(rs) == IF HasActive(rs) THEN Live(rs[Active(rs)]) ELSE {}

\* A run takes in the members of the pool and gives up the names that left it.
FollowsPool(run) ==
  LET left == Live(run) \ pool
  IN  [run EXCEPT !.members = @ \cup pool, !.removed = (@ \ pool) \cup left, !.failed = @ \ left]

\* _repair: the pool decides; a pool without a run gets one.
Repaired(rs) ==
  IF HasActive(rs) THEN [rs EXCEPT ![Active(rs)] = FollowsPool(@)]
  ELSE IF pool = {} \/ Len(rs) = MaxRuns THEN rs ELSE Append(rs, NewRun(pool, {}))

\* _load, as every reader and every validation calls it.
Loaded == IF op.busy THEN runs ELSE Repaired(runs)

\* add_members and the commit of a run hold the lock of the runs.
Locked == op.pc \in {"adding", "record", "commit"}

Load ==
  /\ ~Locked
  /\ Loaded # runs
  /\ runs' = Loaded
  /\ UNCHANGED <<pool, op, worker, mon, seen>>

\* set_hidden, which is not refused while an operation runs.
SetHidden(n, hide) ==
  /\ ~Locked
  /\ n \in LiveOf(Loaded) \cap Hideable
  /\ runs' = [Loaded EXCEPT ![Active(Loaded)].hidden = IF hide THEN @ \cup {n} ELSE @ \ {n}]
  /\ UNCHANGED <<pool, op, worker, mon, seen>>

-----------------------------------------------------------------------------
(* The operations.                                                         *)

ValidNew(rs, keep, add) ==
  /\ keep \subseteq LiveOf(rs)
  /\ keep \cup add # {}
  /\ add \cap pool = {}

\* Validated and dispatched unless another operation is alive; its thread
\* validates again under the lock, where nothing but repairs and hiding can
\* have happened since, and is busy from then on.
StartNew(keep, add) ==
  /\ op = NoOp /\ mon.starting = {}
  /\ Len(Loaded) < MaxRuns
  /\ ValidNew(Loaded, keep, add)
  /\ runs' = Loaded
  /\ op' = [NoOp EXCEPT !.kind = "new", !.pc = "prove", !.keep = keep, !.add = add, !.busy = TRUE]
  /\ UNCHANGED <<pool, worker, mon, seen>>

\* Adding to nothing is starting the first run.
AddMembers(add) ==
  /\ op = NoOp /\ mon.starting = {}
  /\ HasActive(Loaded)
  /\ add # {} /\ add \cap pool = {}
  /\ runs' = Loaded
  /\ op' = [NoOp EXCEPT !.kind = "add", !.pc = "adding", !.add = add]
  /\ UNCHANGED <<pool, worker, mon, seen>>

RemoveMember(n) ==
  /\ op = NoOp /\ mon.starting = {}
  /\ n \in LiveOf(Loaded)
  /\ runs' = Loaded
  /\ op' = [NoOp EXCEPT !.kind = "remove", !.pc = "release", !.leaving = {n}, !.busy = TRUE]
  /\ UNCHANGED <<pool, worker, mon, seen>>

\* The additions are proven, booting the stopped ones, before anybody is stopped.
Prove ==
  /\ op.pc = "prove"
  /\ op' = [op EXCEPT !.pc = "release", !.leaving = LiveOf(runs) \ op.keep]
  /\ UNCHANGED <<runs, pool, worker, mon, seen>>

\* Any refusal raises; whatever was stopped stays stopped, nobody is busy.
Refused ==
  /\ op.pc \in {"prove", "adding"} /\ op.add # {}
  /\ op' = NoOp
  /\ UNCHANGED <<runs, pool, worker, mon, seen>>

-----------------------------------------------------------------------------
(* Workers: the supervisor's pause and status, the monitor's restarts.     *)

Status(n) ==
  LET w == worker[n] IN
  CASE w.rec = "none"     -> "paused"
    [] w.rec = "starting" -> IF n \in mon.starting THEN "starting" ELSE "interrupted"
    [] w.rec = "running"  -> IF w.alive THEN "running" ELSE "stopped"
    [] w.rec = "stopping" -> IF w.alive THEN "stopping" ELSE "paused"

Safe == {"paused", "stopped", "interrupted", "failed"}

PausedWorkerMutant(n, recovery) ==
  LET w == worker[n] IN
  [worker EXCEPT ![n] = IF Status(n) = "running"
                        THEN [w EXCEPT !.rec = "stopping", !.paused = @ \/ ~recovery] ELSE w]

\* pause: a running worker is told to stop, a worker at rest is kept at rest.
PausedWorker(n, recovery) ==
  LET w == worker[n]
      kept == w.paused \/ ~recovery
  IN
  [worker EXCEPT ![n] =
     CASE Status(n) = "running" -> [w EXCEPT !.rec = "stopping", !.paused = kept]
       [] Status(n) # "running" /\ w.rec \notin {"none", "starting"}
                                -> [w EXCEPT !.paused = kept]
       [] OTHER                 -> w]

\* release/remove of one leaving member: its worker is paused ...
LeaverPaused(n) ==
  /\ op.pc = "release" /\ n \in op.leaving \ op.waiting
  /\ n \in pool /\ n \notin mon.starting
  /\ worker' = PausedWorker(n, FALSE)
  /\ op' = [op EXCEPT !.waiting = @ \cup {n}]
  /\ UNCHANGED <<runs, pool, mon, seen>>

\* ... and watched until its status says that nothing plays.  A status that
\* cannot be read (ps timed out) is a status, too: "failed".
LeaverProven(n, status) ==
  /\ op.pc = "release" /\ n \in op.leaving
  /\ IF status = "failed"
     THEN /\ seen.faults < MaxFaults
          /\ seen' = [seen EXCEPT !.faults = @ + 1, !.doubted = @ \cup {n}]
     ELSE n \in op.waiting /\ status = Status(n) /\ seen' = seen
  /\ status \in Safe
  /\ op' = [op EXCEPT !.leaving = @ \ {n}, !.waiting = @ \ {n}, !.out = @ \cup {n}]
  /\ UNCHANGED <<runs, pool, worker, mon>>

\* Identity changed, still starting, no exit after SIGKILL, emulator not shut
\* down, no longer a member: the exit is not proven.
LeaverStays(n) ==
  /\ op.pc = "release" /\ n \in op.leaving
  /\ op' = [op EXCEPT !.leaving = @ \ {n}, !.waiting = @ \ {n}, !.failed = @ \cup {n}]
  /\ UNCHANGED <<runs, pool, worker, mon, seen>>

OperatorPauses(n) ==
  /\ n \in pool /\ n \notin mon.starting
  /\ Status(n) = "running"
  /\ worker' = PausedWorker(n, FALSE)
  /\ UNCHANGED <<runs, pool, op, mon, seen>>

\* An operator's start is one of the exclusive operations.
OperatorStarts(n) ==
  /\ op = NoOp /\ n \in pool /\ n \notin mon.starting
  /\ ~worker[n].alive /\ seen.starts < MaxStarts
  /\ worker' = [worker EXCEPT ![n] = [alive |-> TRUE, rec |-> "starting", paused |-> FALSE]]
  /\ mon' = [mon EXCEPT !.starting = @ \cup {n}]
  /\ seen' = [seen EXCEPT !.starts = @ + 1]
  /\ UNCHANGED <<runs, pool, op>>

\* The monitor's recovery reads the members before it has the worker's lock.
MonitorReads(n) ==
  /\ n \in pool \ mon.read
  /\ Status(n) \in {"stopped", "running", "stopping"}
  /\ seen.starts < MaxStarts
  /\ mon' = [mon EXCEPT !.read = @ \cup {n}]
  /\ worker' = PausedWorker(n, TRUE)
  /\ UNCHANGED <<runs, pool, op, seen>>

MonitorStarts(n) ==
  /\ n \in mon.read \ mon.starting
  /\ ~worker[n].paused /\ ~worker[n].alive
  /\ seen.starts < MaxStarts
  /\ worker' = [worker EXCEPT ![n] = [@ EXCEPT !.alive = TRUE, !.rec = "starting"]]
  /\ mon' = [starting |-> mon.starting \cup {n}, read |-> mon.read \ {n}]
  /\ seen' = [seen EXCEPT !.starts = @ + 1]
  /\ UNCHANGED <<runs, pool, op>>

MonitorGivesUp(n) ==
  /\ n \in mon.read \ mon.starting
  /\ worker[n].paused \/ worker[n].alive
  /\ mon' = [mon EXCEPT !.read = @ \ {n}]
  /\ UNCHANGED <<runs, pool, op, worker, seen>>

\* The spawned process gets its pid recorded, and the worker's lock is released.
Started(n) ==
  /\ n \in mon.starting
  /\ worker' = [worker EXCEPT ![n].rec = "running"]
  /\ mon' = [mon EXCEPT !.starting = @ \ {n}]
  /\ UNCHANGED <<runs, pool, op, seen>>

WorkerExits(n) ==
  /\ worker[n].alive /\ n \notin mon.starting
  /\ worker' = [worker EXCEPT ![n].alive = FALSE]
  /\ UNCHANGED <<runs, pool, op, mon, seen>>

-----------------------------------------------------------------------------
(* The commits.                                                            *)

Carried == op.keep \cup (op.failed \cap pool)

\* The run as the file has it now, with those who left recorded.
WithLeft == IF HasActive(runs)
            THEN [runs EXCEPT ![Active(runs)].removed = @ \cup op.out] ELSE runs

\* start_new writes the pool first ...
PoolReplaced ==
  /\ op.kind = "new" /\ op.pc = "release" /\ op.leaving = {}
  /\ Carried \subseteq pool /\ Carried \cup op.add # {}
  /\ pool' = Carried \cup op.add
  /\ op' = [op EXCEPT !.pc = "commit"]
  /\ UNCHANGED <<runs, worker, mon, seen>>

PoolRefusesMutant ==
  /\ op.kind = "new" /\ op.pc = "release" /\ op.leaving = {}
  /\ op.add # {} \/ Carried = {} \/ ~(Carried \subseteq pool)
  /\ runs' = WithLeft
  /\ op' = [NoOp EXCEPT !.busy = TRUE]
  /\ UNCHANGED <<pool, worker, mon, seen>>

\* ... unless it refuses: the stopped ones stay recorded in the old run.
PoolRefuses ==
  /\ op.kind = "new" /\ op.pc = "release" /\ op.leaving = {}
  /\ op.add # {} \/ Carried = {} \/ ~(Carried \subseteq pool)
  /\ runs' = WithLeft
  /\ op' = NoOp
  /\ UNCHANGED <<pool, worker, mon, seen>>

RunPerAdditionMutant ==
  /\ op.kind = "new" /\ op.pc = "commit"
  /\ runs' = WithLeft \o <<NewRun(Carried, op.failed), NewRun(op.add, {})>>
  /\ op' = NoOp
  /\ UNCHANGED <<pool, worker, mon, seen>>

OpenEndedMutant ==
  /\ op.kind = "new" /\ op.pc = "commit"
  /\ runs' = Append(WithLeft, NewRun(Carried \cup op.add, op.failed \cap Carried))
  /\ op' = NoOp
  /\ UNCHANGED <<pool, worker, mon, seen>>

\* ... and then closes the old run and opens the next number.
Closed(run) == [run EXCEPT !.active = FALSE, !.failed = {}]

RunOpened ==
  LET old   == IF HasActive(runs) THEN runs[Active(runs)].failed ELSE {}
      close == IF HasActive(runs) THEN [WithLeft EXCEPT ![Active(runs)] = Closed(@)] ELSE runs
  IN
  /\ op.kind = "new" /\ op.pc = "commit"
  /\ runs' = Append(close, NewRun(Carried \cup op.add,
                                  (op.failed \cap Carried) \cup (old \cap op.keep)))
  /\ op' = NoOp
  /\ UNCHANGED <<pool, worker, mon, seen>>

\* remove_member records the removal first ...
RemovalRecorded ==
  /\ op.kind = "remove" /\ op.pc = "release" /\ op.leaving = {}
  /\ IF op.failed # {}
     THEN runs' = runs /\ op' = NoOp
     ELSE /\ runs' = [WithLeft EXCEPT ![Active(runs)].failed = @ \ op.out]
          /\ op' = [op EXCEPT !.pc = "record"]
  /\ UNCHANGED <<pool, worker, mon, seen>>

\* ... and then drops the member from the pool.
PoolRemoves ==
  /\ op.kind = "remove" /\ op.pc = "record"
  /\ pool' = pool \ op.out
  /\ op' = NoOp
  /\ UNCHANGED <<runs, worker, mon, seen>>

\* add_members: the pool first, then the run, where the added are shown again.
PoolAdds ==
  /\ op.kind = "add" /\ op.pc = "adding"
  /\ pool' = pool \cup op.add
  /\ op' = [op EXCEPT !.pc = "record"]
  /\ UNCHANGED <<runs, worker, mon, seen>>

Joined(run, add) ==
  [run EXCEPT !.members = @ \cup add, !.removed = @ \ add, !.hidden = @ \ add]

MembersAddedMutant ==
  /\ op.kind = "add" /\ op.pc = "record"
  /\ runs' = [runs EXCEPT ![Active(runs)] = [Joined(@, op.add) EXCEPT !.hidden = {}]]
  /\ op' = NoOp
  /\ UNCHANGED <<pool, worker, mon, seen>>

MembersAdded ==
  /\ op.kind = "add" /\ op.pc = "record"
  /\ runs' = [runs EXCEPT ![Active(runs)] = Joined(@, op.add)]
  /\ op' = NoOp
  /\ UNCHANGED <<pool, worker, mon, seen>>

\* The dashboard's process dies: files and workers stay, a worker whose pid
\* was not recorded yet stays without a record of it.
Crash ==
  /\ seen.faults < MaxFaults
  /\ op' = NoOp
  /\ mon' = [starting |-> {}, read |-> {}]
  /\ seen' = [seen EXCEPT !.faults = @ + 1, !.doubted = @ \cup mon.starting]
  /\ UNCHANGED <<runs, pool, worker>>

Operation ==
  \/ Prove
  \/ PoolReplaced \/ PoolRefuses \/ RunOpened
  \/ RemovalRecorded \/ PoolRemoves \/ PoolAdds \/ MembersAdded

Leaving(n) == LeaverPaused(n) \/ LeaverProven(n, Status(n)) \/ LeaverStays(n)

Next ==
  \/ Load \/ Operation \/ Refused \/ Crash
  \/ \E keep, add \in SUBSET Names : StartNew(keep, add)
  \/ \E add \in SUBSET Names : AddMembers(add)
  \/ \E n \in Names :
       \/ \E hide \in BOOLEAN : SetHidden(n, hide)
       \/ RemoveMember(n)
       \/ Leaving(n) \/ LeaverProven(n, "failed")
       \/ OperatorPauses(n) \/ OperatorStarts(n)
       \/ MonitorReads(n) \/ MonitorStarts(n) \/ MonitorGivesUp(n)
       \/ Started(n) \/ WorkerExits(n)

Spec == Init /\ [][Next]_vars

\* The dashboard is read again and again, and its operation's thread runs:
\* the wait for a leaving worker has a deadline.
FairSpec == Spec /\ WF_vars(Load) /\ WF_vars(Operation) /\ \A n \in Names : WF_vars(Leaving(n))

-----------------------------------------------------------------------------
(* Properties.                                                             *)

\* The two files, the operation and the supervisor's records keep their
\* types, and a new number is given only to a run of its own
\* (fleet/reroll_runs.py, fleet/reroll_pool.py).
TypeOK ==
  /\ runs \in Seq([active : BOOLEAN, members : SUBSET Names, removed : SUBSET Names,
                   hidden : SUBSET Names, failed : SUBSET Names])
  /\ Len(runs) <= MaxRuns
  /\ pool \subseteq Names
  /\ op \in [kind : {"none", "new", "add", "remove"}, keep : SUBSET Names, add : SUBSET Names,
             pc : {"idle", "prove", "release", "commit", "adding", "record"},
             leaving : SUBSET Names, waiting : SUBSET Names, out : SUBSET Names,
             failed : SUBSET Names, busy : BOOLEAN]
  /\ worker \in [Names -> [alive : BOOLEAN, rec : {"none", "starting", "running", "stopping"},
                           paused : BOOLEAN]]
  /\ mon \in [starting : SUBSET Names, read : SUBSET Names]
  /\ seen \in [starts : 0..MaxStarts, faults : 0..MaxFaults, doubted : SUBSET Names]

\* An emulator that left the pool has no bot playing on it, whatever the
\* monitor was about to restart, unless its exit was never really seen: a
\* status that failed to be read, or a start whose pid a crash kept from the
\* record.
LeftMeansStopped == \A n \in Names \ (pool \cup seen.doubted) : ~worker[n].alive

\* What reroll_retirement.py says of the states it takes for stopped.
SafeMeansStopped == \A n \in op.out : ~worker[n].alive

\* One run is active and it is the last number; a closed run is history.
ClosedRunsAreFinal ==
  [][ /\ \A k \in DOMAIN runs : ~runs[k].active => k \in DOMAIN runs' /\ runs'[k] = runs[k]
      /\ \A k \in DOMAIN runs' : runs'[k].active => k = Len(runs') ]_vars

\* An operation rewrites the file the operator hid members in meanwhile: its
\* steps show nobody again but those it adds anew.
HideIsNotLost ==
  [][(op # op' /\ HasActive(runs) /\ Active(runs) = Len(runs'))
       => runs[Active(runs)].hidden \subseteq runs'[Active(runs)].hidden \cup op.add]_vars

\* However an operation ended - refused, failed half way or killed between
\* its two files - the run shown comes to be the pool again.
RunsFollowThePool == (LiveOf(runs) # pool) ~> (LiveOf(runs) = pool)
=============================================================================
