------------------------------- MODULE MCParts -------------------------------
(***************************************************************************)
(* Five parts of the system that share no state, in one run.  Which one    *)
(* moves is chosen initially, the others rest: the file lock, two          *)
(* processes with two threads each; the watchdog of a training run; the    *)
(* training run records; one read of a sealed input; and one supervised    *)
(* run with its worker process.                                            *)
(***************************************************************************)
EXTENDS MCFileLock

CONSTANTS Timeout,
          Procs, Snapshots, Commands, MaxFaults, Torn,
          Versions, MaxBlocks,
          SilenceTicks, PreflightTicks, MaxEvents, MaxPipe, MaxDrift, MaxSetbacks

VARIABLES component,
          silence, peak, spilled, stalled, everStalled, alerted, stop, main, sampled, poller,
          polled, fire, joined, succeeded, measured, fit, warned,
          record, tmp, alive, rpc, loaded, fd, faults, overlap,
          file, reading, linked, before, opened, after, todo, ahead, torn, step, result,
          recording, resolved, worker, seq, drift, pipe, parent, progress, preflight, trained,
          dispatched, accepted, lastSeq, terminal, admitted, manifest, artifacts, durable, events,
          log, setbacks

Dog == INSTANCE Watchdog
Registry == INSTANCE RunRegistry WITH pc <- rpc
Read == INSTANCE StableRead
Run == INSTANCE RunSupervisor WITH
         pc <- parent, faults <- setbacks, MaxFaults <- MaxSetbacks

ASSUME PartsAssumption ==
  /\ Dog!WatchdogAssumption /\ Registry!RunRegistryAssumption /\ Read!ReadAssumption
  /\ Run!RunSupervisorAssumption

watchdogVars == <<silence, peak, spilled, stalled, everStalled, alerted, stop, main, sampled,
                  poller, polled, fire, joined, succeeded, measured, fit, warned>>
registryVars == <<record, tmp, alive, rpc, loaded, fd, faults, overlap>>
readVars == <<file, reading, linked, before, opened, after, todo, ahead, torn, step, result>>
runVars == <<recording, resolved, worker, seq, drift, pipe, parent, progress, preflight, trained,
             dispatched, accepted, lastSeq, terminal, admitted, manifest, artifacts, durable,
             events, log, setbacks>>

parts == <<watchdogVars, registryVars, readVars, runVars>>
all == <<component, vars, parts>>

Is(part) == component = part /\ UNCHANGED component

\* A step of one part leaves the others alone.
OfLock(A) == Is("lock") /\ A /\ UNCHANGED parts
OfWatchdog(A) == Is("watchdog") /\ A /\ UNCHANGED <<vars, registryVars, readVars, runVars>>
OfRegistry(A) == Is("registry") /\ A /\ UNCHANGED <<vars, watchdogVars, readVars, runVars>>
OfRead(A) == Is("read") /\ A /\ UNCHANGED <<vars, watchdogVars, registryVars, runVars>>
OfRun(A) == Is("run") /\ A /\ UNCHANGED <<vars, watchdogVars, registryVars, readVars>>

\* A run or a read that is over stays over, and a torn record takes no further command.
Over ==
  /\ \/ component = "watchdog" /\ main = "done"
     \/ component = "registry" /\ record = Torn
     \/ component = "read" /\ step = "done"
     \/ component = "run" /\ Run!Over
  /\ UNCHANGED all

PartsInit ==
  /\ component \in {"lock", "watchdog", "registry", "read", "run"}
  /\ Init /\ Dog!Init /\ Registry!Init /\ Read!Init /\ Run!Init
  /\ component # "registry" => record.status = "prepared"
  /\ component # "read" => file = None
  /\ component # "run" => recording /\ resolved

PartsNext ==
  \/ OfLock(Next) \/ OfWatchdog(Dog!Next) \/ OfRegistry(Registry!Next)
  \/ OfRead(Read!Next) \/ OfRun(Run!Next)
  \/ Over

\* The fairness that each part assumes.
PartsSpec ==
  /\ PartsInit /\ [][PartsNext]_all
  /\ \A t \in Threads : WF_vars(component = "lock" /\ Entering(t))
  /\ WF_watchdogVars(component = "watchdog" /\ Dog!Poll)
  /\ WF_watchdogVars(component = "watchdog" /\ Dog!Tick)
  /\ WF_readVars(component = "read" /\ Read!Reader)
  /\ WF_runVars(component = "run" /\ Run!Supervising)
  /\ WF_runVars(component = "run" /\ Run!Tick)

\* The type of the part that moves.
PartsTypeOK ==
  CASE component = "lock" -> TypeOK
    [] component = "watchdog" -> Dog!TypeOK
    [] component = "registry" -> Registry!TypeOK
    [] component = "read" -> Read!TypeOK
    [] component = "run" -> Run!TypeOK

\* What the run reports was measured, and the spill warning agrees with the fit
\* (Watchdog, the finally clause of TrainingRunner.run).
FitIsHonest == Dog!FitIsHonest

\* A training thread that hangs is noticed and signalled (Watchdog, poll_once).
HangIsSignalled == Dog!HangIsSignalled

\* While no two commands overlap, the record of a run stays readable, an ended run keeps its
\* status and a stamp is kept (RunRegistry, save_run_record and validate_transition).
KeptUnlessOverlap == Registry!KeptUnlessOverlap

\* A read returns what the file held, whole, at one moment (StableRead, _stable_file_read).
ImplementsAtomicRead == Read!ImplementsAtomicRead

\* A run is recorded as succeeded only when its claim was proven and its artifacts are on disk
\* (RunSupervisor, the writes of execute_run_subprocess).
SuccessIsProven == Run!SuccessIsProven

\* The observer sees a run's events in order, and whoever learns how the run ended learns the
\* same (RunSupervisor, the read loop and _finalize).
ChannelsAgree == Run!ChannelsAgree

\* No worker outlives its supervision (RunSupervisor, the finally of execute_run_subprocess).
NoOrphan == Run!NoOrphan

\* A read ends although others keep appending (StableRead, _stable_file_read), and a supervised
\* run ends whatever its worker does (RunSupervisor, the deadlines).
ReadsAndRunsEnd ==
  <>((component = "read" => Read!Ended) /\ (component = "run" => Run!Over))
=============================================================================
