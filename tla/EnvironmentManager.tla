------------------------- MODULE EnvironmentManager -------------------------
(***************************************************************************)
(* The life of one managed worker environment: create, recreate, remove,   *)
(* health check, the capability snapshot a plan is built on and the        *)
(* managed run, issued by concurrent processes that may die between any    *)
(* two durable writes.  Every JSON record is written by temporary file and *)
(* rename (_atomic_write), so a record is old or new and never torn; what  *)
(* can come apart is the set of records and the directory they describe.   *)
(*                                                                         *)
(* Data: the installed packages are one member of Contents, a lock is      *)
(* named by the content it seals (_lock_digest leaves out the id and the   *)
(* time), and a plan pins that name.  Files with record counts older than  *)
(* manager 1.3 are left out.                                               *)
(***************************************************************************)
EXTENDS Naturals, FiniteSets

CONSTANTS Procs,      \* concurrent command line processes
          Contents,   \* possible sets of installed packages
          Operations, \* the commands issued: create, recreate, remove, health, plan, run
          None,       \* no owner, no record, no lock, nothing installed
          MaxFaults   \* bound on crashes, failing writes and changes from outside

VARIABLES manager,    \* owner of manager.lock
          lease,      \* owner of environment-<id>.lock
          reviewed,   \* the confirmed resolution still matches recipe and worker wheel
          required,   \* the recipe demands the execution-tuple probe (never changes)
          root,       \* the environment's directory
          recorded,   \* the registry directory of this id exists
          descriptor, \* environment.json: state and lock, or None
          lockFiles,  \* lock files in the registry, by name
          journal,    \* the state in the latest installation record, or None
          health,     \* the state in the latest health record, or None
          pinned,     \* the lock the latest run plan pins, or None
          stray,      \* an install command outlived the process that started it
          pc, op,     \* each process: next step and command
          final,      \* its local final_state / probe_state
          seen,       \* its local inventory: contents it read last
          faults, interrupted

locks == <<manager, lease>>
records == <<descriptor, lockFiles, journal, health>>
locals == <<op, final, seen>>
trouble == <<faults, interrupted>>
vars == <<manager, lease, reviewed, required, root, recorded, descriptor, lockFiles,
          journal, health, pinned, stray, pc, op, final, seen, faults, interrupted>>

Verified == {"functional_probe_passed", "hardware_verified"}
Transient == {"installing", "installed_unchecked", "importable", "dependency_probe_passed"}
States == Verified \cup Transient
            \cup {"degraded", "incompatible", "drifted", "broken", "not_installed"}

ASSUME EnvironmentAssumption ==
    /\ Operations \subseteq {"create", "recreate", "remove", "health", "plan", "run"}
    /\ None \notin Procs \cup Contents \cup States
    /\ None \notin [state: States, lock: Contents \cup {None}]
    /\ MaxFaults \in Nat

NoRoot == [dir |-> "absent", python |-> FALSE, packages |-> None]

\* _create_unlocked before its try block, inside it, and in its except clause.
Intent == {"record", "intent", "journal", "announce"}
Attempt == {"mkdir", "mark", "venv", "packages", "worker", "installed", "inspect",
            "import", "dependency", "functional", "hardware", "capability",
            "conclude", "reinspect", "writeLock", "seal", "verify",
            "closeJournal", "closeHealth"}
Failing == {"failJournal", "failDescriptor", "failHealth"}
Removing == {"remove", "delete", "unrecord", "unhealth"}
Checking == {"check", "probe", "recheck", "writeHealth", "writeState", "snapshot", "dispatch",
             "running"}
Inside == {"create", "recreate"} \cup Intent \cup Attempt \cup Failing \cup Removing \cup Checking
Labels == {"idle", "manager", "lease"} \cup Inside

TypeOK ==
    /\ manager \in Procs \cup {None} /\ lease \in Procs \cup {None}
    /\ reviewed \in BOOLEAN /\ required \in BOOLEAN /\ recorded \in BOOLEAN
    /\ root \in [dir: {"absent", "unmarked", "owned", "foreign"}, python: BOOLEAN,
                 packages: Contents \cup {None}]
    /\ descriptor \in [state: States, lock: Contents \cup {None}] \cup {None}
    /\ lockFiles \subseteq Contents
    /\ journal \in States \cup {None} /\ health \in States \cup {None}
    /\ pinned \in Contents \cup {None}
    /\ stray \in BOOLEAN /\ interrupted \in BOOLEAN /\ faults \in 0..MaxFaults
    /\ pc \in [Procs -> Labels]
    /\ op \in [Procs -> Operations \cup {None}]
    /\ final \in [Procs -> States \cup {None}]
    /\ seen \in [Procs -> Contents \cup {None}]

Init ==
    /\ manager = None /\ lease = None
    /\ reviewed = TRUE /\ required \in BOOLEAN
    /\ root = NoRoot /\ recorded = FALSE
    /\ descriptor = None /\ lockFiles = {} /\ journal = None /\ health = None
    /\ pinned = None /\ stray = FALSE
    /\ pc = [p \in Procs |-> "idle"] /\ op = [p \in Procs |-> None]
    /\ final = [p \in Procs |-> None] /\ seen = [p \in Procs |-> None]
    /\ faults = 0 /\ interrupted = FALSE

---------------------------------------------------------------------------
(* Steps shared by the commands *)

Go(p, label) == pc' = [pc EXCEPT ![p] = label]

\* The with-blocks unwind, or the operating system drops a dead process's locks.
Leave(p) ==
    /\ Go(p, "idle")
    /\ manager' = IF manager = p THEN None ELSE manager
    /\ lease' = IF lease = p THEN None ELSE lease
    /\ op' = [op EXCEPT ![p] = None]
    /\ final' = [final EXCEPT ![p] = None]
    /\ seen' = [seen EXCEPT ![p] = None]

Stay(p, label) == Go(p, label) /\ UNCHANGED locks

HasState(d, s) == d # None /\ d.state = s
SealedIn(d) == d # None /\ d.lock # None

\* _update_descriptor: rewrite the descriptor with a new state, keeping its lock.
Restate(s) == descriptor' = [descriptor EXCEPT !.state = s]

\* _assert_owned: the path is the managed one and carries this manager's marker.
Owned == root.dir = "owned"

\* load_lock: the lock the descriptor names, None when there is none or its file is gone.
LoadLock == IF SealedIn(descriptor) /\ descriptor.lock \in lockFiles
            THEN descriptor.lock ELSE None

\* _package_drift: names, versions, hashes, counts and sources compared pairwise.
PackageDrift(expected, actual) == expected # actual

\* _validate_creation: exact confirmation, unchanged recipe, wheel and provenance.
PlanIsValid == reviewed

---------------------------------------------------------------------------
(* Taking the two locks *)

\* The command starts; create and recreate validate before touching any lock file.
Begin(p, o) ==
    /\ pc[p] = "idle"
    /\ o \in {"create", "recreate"} => PlanIsValid
    /\ op' = [op EXCEPT ![p] = o]
    /\ Go(p, IF o \in {"create", "recreate", "remove"} THEN "manager" ELSE "lease")
    /\ UNCHANGED <<locks, reviewed, required, root, recorded, records, pinned, stray,
                   final, seen, trouble>>

\* _mutation_guard: manager.lock first, then the environment's own lock.
TakeManager(p) ==
    /\ pc[p] = "manager" /\ manager = None
    /\ manager' = p /\ Go(p, "lease")
    /\ UNCHANGED <<lease, reviewed, required, root, recorded, records, pinned, stray,
                   locals, trouble>>

Entry(o) == CASE o = "create" -> "create"
              [] o = "recreate" -> "recreate"
              [] o = "remove" -> "remove"
              [] OTHER -> "check"

\* environment_lease: exclusive for the whole operation of its caller.
TakeLease(p) ==
    /\ pc[p] = "lease" /\ lease = None
    /\ lease' = p /\ Go(p, Entry(op[p]))
    /\ UNCHANGED <<manager, reviewed, required, root, recorded, records, pinned, stray,
                   locals, trouble>>

\* _exclusive_file_lock: the wait is bounded and ends in an error, both locks released.
Busy(p) ==
    /\ \/ pc[p] = "manager" /\ manager # None
       \/ pc[p] = "lease" /\ lease # None
    /\ Leave(p)
    /\ UNCHANGED <<reviewed, required, root, recorded, records, pinned, stray, trouble>>

---------------------------------------------------------------------------
(* Creation: intent is recorded before the directory is touched *)

\* _create_unlocked re-validates under the locks and refuses an existing root, and an
\* already recorded identity unless recreate asked for it.
EnterCreate(p) ==
    /\ pc[p] = "create"
    /\ IF /\ PlanIsValid
          /\ root.dir = "absent"
          /\ op[p] = "recreate" \/ ~recorded
       THEN Stay(p, "record") /\ UNCHANGED locals
       ELSE Leave(p)
    /\ UNCHANGED <<reviewed, required, root, recorded, records, pinned, stray, trouble>>

\* The first record's directory is made before its temporary file is renamed into it.
RecordIntent(p) ==
    /\ \/ pc[p] = "record" /\ recorded' = TRUE /\ Stay(p, "intent")
          /\ UNCHANGED records
       \/ pc[p] = "intent" /\ descriptor' = [state |-> "installing", lock |-> None]
          /\ Stay(p, "journal") /\ UNCHANGED <<recorded, lockFiles, journal, health>>
       \/ pc[p] = "journal" /\ journal' = "installing" /\ Stay(p, "announce")
          /\ UNCHANGED <<recorded, descriptor, lockFiles, health>>
       \/ pc[p] = "announce" /\ health' = "installing" /\ Stay(p, "mkdir")
          /\ UNCHANGED <<recorded, descriptor, lockFiles, journal>>
    /\ UNCHANGED <<reviewed, required, root, pinned, stray, locals, trouble>>

\* Mutant: an existing directory is adopted.
MakeRootAdopting(p) ==
    /\ pc[p] = "mkdir"
    /\ root' = [NoRoot EXCEPT !.dir = "unmarked"] /\ Stay(p, "mark")
    /\ UNCHANGED <<reviewed, required, recorded, records, pinned, stray, locals, trouble>>

\* mkdir(exist_ok=False): an existing directory is never adopted.
MakeRoot(p) ==
    /\ pc[p] = "mkdir"
    /\ IF root.dir = "absent"
       THEN root' = [NoRoot EXCEPT !.dir = "unmarked"] /\ Stay(p, "mark")
       ELSE Stay(p, "failJournal") /\ UNCHANGED root
    /\ UNCHANGED <<reviewed, required, recorded, records, pinned, stray, locals, trouble>>

\* _write_owner: only the marker makes the directory removable by the manager.
WriteOwner(p) ==
    /\ pc[p] = "mark"
    /\ root' = [root EXCEPT !.dir = "owned"]
    /\ Stay(p, "venv")
    /\ UNCHANGED <<reviewed, required, recorded, records, pinned, stray, locals, trouble>>

\* The install steps in order; the wheel's identity is checked again just before its step.
Install(p) ==
    /\ \/ pc[p] = "venv" /\ root' = [root EXCEPT !.python = TRUE] /\ Stay(p, "packages")
       \/ /\ pc[p] = "packages"
          /\ \E c \in Contents : root' = [root EXCEPT !.packages = c]
          /\ Stay(p, "worker")
       \/ /\ pc[p] = "worker"
          /\ Stay(p, IF PlanIsValid THEN "installed" ELSE "failJournal")
          /\ UNCHANGED root
    /\ UNCHANGED <<reviewed, required, recorded, records, pinned, stray, locals, trouble>>

Installed(p) ==
    /\ pc[p] = "installed"
    /\ Restate("installed_unchecked")
    /\ Stay(p, "inspect")
    /\ UNCHANGED <<reviewed, required, root, recorded, lockFiles, journal, health, pinned,
                   stray, locals, trouble>>

\* The pre-probe inventory; bytes that do not verify fail the attempt (AttemptFails)
\* before any probe imports them.
Inspect(p) ==
    /\ pc[p] = "inspect"
    /\ seen' = [seen EXCEPT ![p] = root.packages]
    /\ Stay(p, "import")
    /\ UNCHANGED <<reviewed, required, root, recorded, records, pinned, stray, op, final,
                   trouble>>

\* The state a passed probe stage records, and the stage after it.
Passed(label) == CASE label = "import" -> "importable"
                   [] label = "dependency" -> "dependency_probe_passed"
                   [] label = "functional" -> "functional_probe_passed"
NextStage(label) == CASE label = "import" -> "dependency"
                      [] label = "dependency" -> "functional"
                      [] label = "functional" -> "hardware"

\* What the hardware probe leaves, before a required tuple probe is looked at:
\* no CUDA, a passing probe, a failing probe.
HardwareVerdicts == {"functional_probe_passed", "hardware_verified", "incompatible"}

\* _complete_probe_evidence accepts the tuple's evidence or the environment is incompatible.
EvidenceVerdicts == {"hardware_verified", "incompatible"}

\* _run_creation_probes: each stage that passes is recorded in the descriptor.
ProbeCreation(p) ==
    /\ \/ /\ pc[p] \in {"import", "dependency", "functional"}
          /\ \/ /\ Restate(Passed(pc[p])) /\ Stay(p, NextStage(pc[p]))
                /\ UNCHANGED final
             \/ /\ final' = [final EXCEPT ![p] = "degraded"]
                /\ Stay(p, "conclude") /\ UNCHANGED descriptor
       \/ /\ pc[p] = "hardware"
          /\ \E v \in HardwareVerdicts :
                 final' = [final EXCEPT ![p] = IF required /\ v # "hardware_verified"
                                               THEN "incompatible" ELSE v]
          /\ Stay(p, IF required /\ final'[p] = "hardware_verified"
                     THEN "capability" ELSE "conclude")
          /\ UNCHANGED descriptor
       \/ /\ pc[p] = "capability"
          /\ \E v \in EvidenceVerdicts : final' = [final EXCEPT ![p] = v]
          /\ Stay(p, "conclude")
          /\ UNCHANGED descriptor
    /\ UNCHANGED <<reviewed, required, root, recorded, lockFiles, journal, health, pinned,
                   stray, op, seen, trouble>>

\* Mutant: the verdict of failing probes is not written into the descriptor.
ConcludeSilently(p) ==
    /\ pc[p] = "conclude"
    /\ Stay(p, IF final[p] \in Verified THEN "reinspect" ELSE "closeJournal")
    /\ UNCHANGED <<reviewed, required, root, recorded, records, pinned, stray, locals, trouble>>

\* An attempt whose probes did not pass is recorded as it is and never sealed.
Conclude(p) ==
    /\ pc[p] = "conclude"
    /\ IF final[p] \in Verified
       THEN Stay(p, "reinspect") /\ UNCHANGED descriptor
       ELSE Restate(final[p]) /\ Stay(p, "closeJournal")
    /\ UNCHANGED <<reviewed, required, root, recorded, lockFiles, journal, health, pinned,
                   stray, locals, trouble>>

\* The post-probe inventory against the pre-probe one: a probe that changed the
\* environment leaves it drifted and unsealed.
Reinspect(p) ==
    /\ pc[p] = "reinspect"
    /\ IF PackageDrift(seen[p], root.packages)
       THEN /\ final' = [final EXCEPT ![p] = "drifted"]
            /\ Restate("drifted") /\ Stay(p, "closeJournal")
       ELSE Stay(p, "writeLock") /\ UNCHANGED <<descriptor, final>>
    /\ UNCHANGED <<reviewed, required, root, recorded, lockFiles, journal, health, pinned,
                   stray, op, seen, trouble>>

\* Mutant: the descriptor is sealed although the lock file was never written.
WriteLockLater(p) ==
    /\ pc[p] = "writeLock"
    /\ Stay(p, "seal")
    /\ UNCHANGED <<reviewed, required, root, recorded, records, pinned, stray, locals, trouble>>

\* The lock file is durable before the descriptor refers to it.
WriteLock(p) ==
    /\ pc[p] = "writeLock"
    /\ lockFiles' = lockFiles \cup {seen[p]}
    /\ Stay(p, "seal")
    /\ UNCHANGED <<reviewed, required, root, recorded, descriptor, journal, health, pinned,
                   stray, locals, trouble>>

\* Mutant: the descriptor names the state where the lock's name belongs.
SealWithState(p) ==
    /\ pc[p] = "seal"
    /\ descriptor' = [state |-> "installed_unchecked", lock |-> final[p]]
    /\ Stay(p, "verify")
    /\ UNCHANGED <<reviewed, required, root, recorded, lockFiles, journal, health, pinned,
                   stray, locals, trouble>>

\* The creating process still holds the descriptor it wrote after installing: the
\* recorded state goes back to installed_unchecked until the seal is verified.
Seal(p) ==
    /\ pc[p] = "seal"
    /\ descriptor' = [state |-> "installed_unchecked", lock |-> seen[p]]
    /\ Stay(p, "verify")
    /\ UNCHANGED <<reviewed, required, root, recorded, lockFiles, journal, health, pinned,
                   stray, locals, trouble>>

\* One more live inventory, against the lock just written; a worker wheel that others have changed
\* is drift as well, in an environment that pins one.
VerifySeal(p) ==
    /\ pc[p] = "verify"
    /\ \E v \in IF PackageDrift(descriptor.lock, root.packages) THEN {"drifted"}
                 ELSE IF reviewed THEN {final[p]} ELSE {final[p], "drifted"} :
          final' = [final EXCEPT ![p] = v]
    /\ Restate(final'[p])
    /\ Stay(p, "closeJournal")
    /\ UNCHANGED <<reviewed, required, root, recorded, lockFiles, journal, health, pinned,
                   stray, op, seen, trouble>>

CloseAttempt(p) ==
    /\ \/ pc[p] = "closeJournal" /\ journal' = final[p] /\ Stay(p, "closeHealth")
          /\ UNCHANGED <<health, locals>>
       \/ pc[p] = "closeHealth" /\ health' = final[p] /\ Leave(p) /\ UNCHANGED journal
    /\ UNCHANGED <<reviewed, required, root, recorded, descriptor, lockFiles, pinned, stray,
                   trouble>>

\* A command that fails, is cancelled, times out or leaves no evidence, an inventory that
\* cannot be read or holds bytes that do not verify, a record that cannot be written: the except clause takes over.
AttemptFails(p) ==
    /\ pc[p] \in Attempt
    /\ Stay(p, "failJournal")
    /\ UNCHANGED <<reviewed, required, root, recorded, records, pinned, stray, locals, trouble>>

\* The except clause: journal, descriptor (which keeps its lock) and health say broken.
RecordFailure(p) ==
    /\ \/ pc[p] = "failJournal" /\ journal' = "broken" /\ Stay(p, "failDescriptor")
          /\ UNCHANGED <<descriptor, health, locals>>
       \/ pc[p] = "failDescriptor" /\ Restate("broken") /\ Stay(p, "failHealth")
          /\ UNCHANGED <<journal, health, locals>>
       \/ pc[p] = "failHealth" /\ health' = "broken" /\ Leave(p)
          /\ UNCHANGED <<journal, descriptor>>
    /\ UNCHANGED <<reviewed, required, root, recorded, lockFiles, pinned, stray, trouble>>

---------------------------------------------------------------------------
(* Removal, and recreation of an attempt that was never sealed *)

\* Mutant: a sealed identity may be recreated in place.
EnterRecreateSealed(p) ==
    /\ pc[p] = "recreate"
    /\ IF PlanIsValid /\ descriptor # None
       THEN Stay(p, "remove") /\ UNCHANGED locals
       ELSE Leave(p)
    /\ UNCHANGED <<reviewed, required, root, recorded, records, pinned, stray, trouble>>

\* recreate re-validates under the locks; a sealed identity is never recreated in place.
EnterRecreate(p) ==
    /\ pc[p] = "recreate"
    /\ IF PlanIsValid /\ descriptor # None /\ ~SealedIn(descriptor)
       THEN Stay(p, "remove") /\ UNCHANGED locals
       ELSE Leave(p)
    /\ UNCHANGED <<reviewed, required, root, recorded, records, pinned, stray, trouble>>

\* _remove_unlocked: only a directory with this manager's marker is deleted.
EnterRemove(p) ==
    /\ pc[p] = "remove"
    /\ IF descriptor = None \/ (root.dir # "absent" /\ ~Owned)
       THEN Leave(p)
       ELSE Stay(p, IF root.dir = "absent" THEN "unrecord" ELSE "delete") /\ UNCHANGED locals
    /\ UNCHANGED <<reviewed, required, root, recorded, records, pinned, stray, trouble>>

\* rmtree deletes the entries in the order the file system lists them, the directory last.
Delete(p) ==
    /\ pc[p] = "delete"
    /\ \/ root.packages # None /\ root' = [root EXCEPT !.packages = None] /\ Stay(p, "delete")
       \/ root.python /\ root' = [root EXCEPT !.python = FALSE] /\ Stay(p, "delete")
       \/ Owned /\ root' = [root EXCEPT !.dir = "unmarked"] /\ Stay(p, "delete")
       \/ root = [NoRoot EXCEPT !.dir = "unmarked"] /\ root' = NoRoot /\ Stay(p, "unrecord")
    /\ UNCHANGED <<reviewed, required, recorded, records, pinned, stray, locals, trouble>>

\* The removal is recorded in descriptor and health; recreate then creates.
RecordRemoval(p) ==
    /\ \/ pc[p] = "unrecord" /\ Restate("not_installed") /\ Stay(p, "unhealth")
          /\ UNCHANGED <<health, locals>>
       \/ /\ pc[p] = "unhealth"
          /\ health' = "not_installed"
          /\ IF op[p] = "recreate" THEN Stay(p, "create") /\ UNCHANGED locals ELSE Leave(p)
          /\ UNCHANGED descriptor
    /\ UNCHANGED <<reviewed, required, root, recorded, lockFiles, journal, pinned, stray,
                   trouble>>

---------------------------------------------------------------------------
(* Health, planning and managed runs *)

\* What the checks before any probe can conclude; "clean" lets the probes run.  An
\* inventory may be unreadable, and recipe or hardware may have moved with equal packages.
LiveVerdicts ==
    IF root.dir = "absent"
    THEN {IF HasState(descriptor, "not_installed") THEN "not_installed" ELSE "broken"}
    ELSE IF ~Owned \/ ~root.python \/ LoadLock = None THEN {"broken"}
    ELSE IF PackageDrift(LoadLock, root.packages) THEN {"broken", "drifted"}
    ELSE {"broken", "drifted", "clean"}

Check(p) ==
    /\ pc[p] = "check"
    /\ \/ descriptor = None /\ Leave(p)
       \/ /\ descriptor # None
          /\ \E v \in LiveVerdicts :
                IF v = "clean"
                THEN Stay(p, "probe") /\ UNCHANGED final
                ELSE Stay(p, "writeHealth") /\ final' = [final EXCEPT ![p] = v]
          /\ seen' = [seen EXCEPT ![p] = root.packages]
          /\ UNCHANGED op
    /\ UNCHANGED <<reviewed, required, root, recorded, records, pinned, stray, trouble>>

\* _health_probes: the stages of creation without the records between them.
ProbeVerdicts == IF required THEN {"degraded"} \cup EvidenceVerdicts
                 ELSE {"degraded"} \cup HardwareVerdicts

Probe(p) ==
    /\ pc[p] = "probe"
    /\ \E v \in ProbeVerdicts : final' = [final EXCEPT ![p] = v]
    /\ Stay(p, "recheck")
    /\ UNCHANGED <<reviewed, required, root, recorded, records, pinned, stray, op, seen,
                   trouble>>

\* The second inventory and the second reading of the lock: mutation during the probes
\* is never reported healthy.
Recheck(p) ==
    /\ pc[p] = "recheck"
    /\ \E v \in {"broken", "drifted"} \cup
                (IF LoadLock # None /\ ~PackageDrift(LoadLock, root.packages)
                 THEN {final[p]} ELSE {}) :
          final' = [final EXCEPT ![p] = v]
    /\ seen' = [seen EXCEPT ![p] = root.packages]
    /\ Stay(p, "writeHealth")
    /\ UNCHANGED <<reviewed, required, root, recorded, records, pinned, stray, op, trouble>>

WriteHealth(p) ==
    /\ pc[p] = "writeHealth"
    /\ health' = final[p]
    /\ Stay(p, "writeState")
    /\ UNCHANGED <<reviewed, required, root, recorded, descriptor, lockFiles, journal,
                   pinned, stray, locals, trouble>>

\* The descriptor follows the health record; planning and runs go on under the same lease.
WriteState(p) ==
    /\ pc[p] = "writeState"
    /\ Restate(final[p])
    /\ \/ /\ op[p] = "plan" /\ final[p] \in Verified
          /\ Stay(p, "snapshot") /\ UNCHANGED locals
       \/ op[p] = "run" /\ Stay(p, "dispatch") /\ UNCHANGED locals
       \/ op[p] = "health" /\ Leave(p)
       \/ op[p] = "plan" /\ final[p] \notin Verified /\ Leave(p)
    /\ UNCHANGED <<reviewed, required, root, recorded, lockFiles, journal, health, pinned,
                   stray, trouble>>

\* capability_snapshot: probes inside the managed interpreter, then one more inventory;
\* only then does the plan pin the lock (locked_environment_ref).
Snapshot(p) ==
    /\ pc[p] = "snapshot"
    /\ \/ UNCHANGED pinned
       \/ LoadLock # None /\ ~PackageDrift(LoadLock, root.packages) /\ pinned' = LoadLock
    /\ Leave(p)
    /\ UNCHANGED <<reviewed, required, root, recorded, records, stray, trouble>>

\* verify_run_plan_environment and the live state: what must hold to start the worker.
Blocked(p) ==
    \/ LoadLock = None
    \/ pinned = None \/ pinned # LoadLock
    \/ descriptor.state \notin Verified
    \/ final[p] \notin Verified

\* Mutant: the lease ends with the health check, before the worker starts.
DispatchUnleased(p) ==
    /\ pc[p] = "dispatch"
    /\ IF Blocked(p) THEN Leave(p)
       ELSE /\ Go(p, "running") /\ lease' = None
            /\ UNCHANGED <<manager, locals>>
    /\ UNCHANGED <<reviewed, required, root, recorded, records, pinned, stray, trouble>>

\* platform-run: the lease is kept from the health check until the worker has exited.
Dispatch(p) ==
    /\ pc[p] = "dispatch"
    /\ IF Blocked(p) THEN Leave(p) ELSE Stay(p, "running") /\ UNCHANGED locals
    /\ UNCHANGED <<reviewed, required, root, recorded, records, pinned, stray, trouble>>

RunEnds(p) ==
    /\ pc[p] = "running"
    /\ Leave(p)
    /\ UNCHANGED <<reviewed, required, root, recorded, records, pinned, stray, trouble>>

---------------------------------------------------------------------------
(* Faults *)

Fault == faults < MaxFaults /\ faults' = faults + 1

\* The process dies: the system releases its locks, its install command lives on.
Crash(p) ==
    /\ pc[p] # "idle"
    /\ Fault /\ interrupted' = TRUE
    /\ stray' = (stray \/ pc[p] \in {"packages", "worker"})
    /\ Leave(p)
    /\ UNCHANGED <<reviewed, required, root, recorded, records, pinned>>

\* A write or deletion outside the try block raises: nothing records the failure.
WriteRaises(p) ==
    /\ pc[p] \in Intent \cup Failing \cup {"delete", "unrecord", "unhealth", "writeHealth",
                                           "writeState"}
    /\ Fault /\ interrupted' = TRUE
    /\ Leave(p)
    /\ UNCHANGED <<reviewed, required, root, recorded, records, pinned, stray>>

\* The orphaned install command still writes into the environment before it ends.
StrayEnds ==
    /\ stray /\ stray' = FALSE
    /\ \/ UNCHANGED root
       \/ root.python /\ \E c \in Contents : root' = [root EXCEPT !.packages = c]
    /\ UNCHANGED <<locks, reviewed, required, recorded, records, pinned, pc, locals, trouble>>

\* Others change the wheel, make the directory, change its packages, or remove it by hand
\* while no command is at work on it.
Outside ==
    /\ Fault
    /\ \/ reviewed /\ reviewed' = FALSE /\ UNCHANGED root
       \/ /\ UNCHANGED reviewed
          /\ \/ root.dir = "absent" /\ root' = [NoRoot EXCEPT !.dir = "foreign"]
             \/ /\ root.python
                /\ \E c \in Contents \ {root.packages} : root' = [root EXCEPT !.packages = c]
             \/ root.dir # "absent" /\ lease = None /\ root' = NoRoot
    /\ UNCHANGED <<locks, required, recorded, records, pinned, stray, pc, locals, interrupted>>

---------------------------------------------------------------------------
Step(p) ==
    \/ TakeManager(p) \/ TakeLease(p) \/ Busy(p)
    \/ EnterCreate(p) \/ RecordIntent(p) \/ MakeRoot(p) \/ WriteOwner(p) \/ Install(p)
    \/ Installed(p) \/ Inspect(p) \/ ProbeCreation(p) \/ Conclude(p) \/ Reinspect(p)
    \/ WriteLock(p) \/ Seal(p) \/ VerifySeal(p) \/ CloseAttempt(p)
    \/ AttemptFails(p) \/ RecordFailure(p)
    \/ EnterRecreate(p) \/ EnterRemove(p) \/ Delete(p) \/ RecordRemoval(p)
    \/ Check(p) \/ Probe(p) \/ Recheck(p) \/ WriteHealth(p) \/ WriteState(p)
    \/ Snapshot(p) \/ Dispatch(p) \/ RunEnds(p)

Next ==
    \/ \E p \in Procs : Step(p) \/ Crash(p) \/ WriteRaises(p)
    \/ \E p \in Procs, o \in Operations : Begin(p, o)
    \/ StrayEnds \/ Outside

Spec == Init /\ [][Next]_vars

---------------------------------------------------------------------------
(* Properties *)

\* A sealed identity is immutable: once a descriptor names a lock it names that lock for
\* ever and the lock's file stays, whatever is recreated, removed or interrupted.
SealImmutable ==
    [][SealedIn(descriptor) => /\ SealedIn(descriptor')
                               /\ descriptor'.lock = descriptor.lock
                               /\ lockFiles \subseteq lockFiles']_vars

\* Only what the manager made is deleted: a directory it finds in its place stays.
ForeignKept ==
    [][root.dir = "foreign" /\ faults' = faults => root' = root]_vars

\* After any crash a lock that is referred to exists, and an installation recorded as
\* verified is a sealed one.
SealIsDurable ==
    /\ SealedIn(descriptor) => descriptor.lock \in lockFiles
    /\ journal \in Verified => SealedIn(descriptor)

\* With no command at work and none cut short, descriptor and health record agree, no
\* attempt is left half way, and what is called verified is sealed.
SettledRecords ==
    lease = None /\ ~interrupted /\ descriptor # None =>
        /\ descriptor.state = health
        /\ descriptor.state \notin Transient
        /\ descriptor.state \in Verified => SealedIn(descriptor)

\* A managed run holds what it was planned for: the plan's lock is the environment's, the
\* inventory taken last before dispatch was the locked one, the descriptor is verified,
\* and the directory is not removed or recreated before the worker has exited.
RunsWhatWasPlanned ==
    \A p \in Procs : pc[p] = "running" =>
        /\ descriptor.lock = pinned /\ seen[p] = pinned
        /\ descriptor.state \in Verified
        /\ Owned /\ root.python
=============================================================================
