---------------------- MODULE EnvironmentManagerProofs ----------------------
(***************************************************************************)
(* Proofs about EnvironmentManager, for any number of processes, contents  *)
(* and faults.  The inductive invariant says, for each place in a command, *)
(* what the process knows there of the directory and the records: it holds *)
(* because whoever is past the two locks holds the environment's lease, so *)
(* that nobody else changes what it knows.  A second invariant, on top of  *)
(* the first, follows the verdict a command is about to record.            *)
(***************************************************************************)
EXTENDS EnvironmentManager, TLAPS

\* Where a creation has not sealed anything yet, and where its inventory, its verdict
\* and the descriptor it announced are known.
Unsealed == Intent \cup {"mkdir", "mark", "venv", "packages", "worker", "installed", "inspect",
                         "import", "dependency", "functional", "hardware", "capability",
                         "conclude", "reinspect", "writeLock", "seal"}
Inspected == {"import", "dependency", "functional", "hardware", "capability", "conclude",
              "reinspect", "writeLock", "seal"}
Concluding == {"capability", "conclude", "reinspect", "writeLock", "seal", "verify",
               "closeJournal", "closeHealth", "recheck", "writeHealth", "writeState"}
Described == {"journal", "announce"} \cup Attempt \cup Failing \cup {"delete", "unrecord", "unhealth"}
               \cup (Checking \ {"check"})

HoldInv(p) == pc[p] \in Inside => lease = p

SealInv(p) ==
  /\ pc[p] \in Unsealed => ~SealedIn(descriptor)
  /\ op[p] = "recreate" /\ pc[p] \in Removing \cup {"create"} => ~SealedIn(descriptor)
  /\ pc[p] = "seal" => seen[p] \in lockFiles
  /\ pc[p] = "verify" => SealedIn(descriptor)
  /\ pc[p] = "closeJournal" /\ final[p] \in Verified => SealedIn(descriptor)

RecordInv(p) ==
  /\ pc[p] \in Described => descriptor # None
  /\ pc[p] = "intent" => recorded

KnownInv(p) ==
  /\ pc[p] \in Attempt \ {"mkdir"} => root.dir # "absent"
  /\ pc[p] \in {"worker", "installed", "inspect"} => root.packages # None
  /\ pc[p] \in Inspected => seen[p] # None
  /\ pc[p] \in Concluding => final[p] # None

RunInv(p) ==
  /\ pc[p] \in {"probe", "recheck"} => Owned /\ root.python
  /\ pc[p] \in {"writeHealth", "writeState", "snapshot", "dispatch", "running"} /\ final[p] \in Verified
       => Owned /\ root.python /\ SealedIn(descriptor) /\ seen[p] = descriptor.lock
  /\ pc[p] = "running" => /\ final[p] \in Verified /\ descriptor.state \in Verified
                          /\ pinned = descriptor.lock

Local(p) == HoldInv(p) /\ SealInv(p) /\ RecordInv(p) /\ KnownInv(p) /\ RunInv(p)

SharedInv == SealIsDurable /\ (descriptor # None => recorded)

IInv == TypeOK /\ SharedInv /\ \A p \in Procs : Local(p)


\* The parts of TypeOK: who is where, what each process remembers, what is on the disk.
TypeControl ==
  /\ manager \in Procs \cup {None} /\ lease \in Procs \cup {None}
  /\ pc \in [Procs -> Labels]

TypeLocal ==
  /\ op \in [Procs -> Operations \cup {None}]
  /\ final \in [Procs -> States \cup {None}]
  /\ seen \in [Procs -> Contents \cup {None}]

TypeDisk ==
  /\ root \in [dir: {"absent", "unmarked", "owned", "foreign"}, python: BOOLEAN,
               packages: Contents \cup {None}]
  /\ descriptor \in [state: States, lock: Contents \cup {None}] \cup {None}
  /\ lockFiles \subseteq Contents
  /\ journal \in States \cup {None} /\ health \in States \cup {None}

TypeRest ==
  /\ reviewed \in BOOLEAN /\ required \in BOOLEAN /\ recorded \in BOOLEAN
  /\ pinned \in Contents \cup {None}
  /\ stray \in BOOLEAN /\ interrupted \in BOOLEAN /\ faults \in 0..MaxFaults

-----------------------------------------------------------------------------
(* Control: what Stay and Leave do *)

LEMMA TypeParts == /\ TypeOK => TypeControl /\ TypeLocal /\ TypeDisk /\ TypeRest
                   /\ TypeControl /\ TypeLocal /\ TypeDisk /\ TypeRest => TypeOK
BY DEF TypeOK, TypeControl, TypeLocal, TypeDisk, TypeRest

LEMMA TypePartsNext == TypeControl' /\ TypeLocal' /\ TypeDisk' /\ TypeRest' => TypeOK'
BY DEF TypeOK, TypeControl, TypeLocal, TypeDisk, TypeRest

LEMMA AllLabels == Inside \subseteq Labels /\ {"idle", "manager", "lease"} \subseteq Labels
                   /\ "idle" \notin Inside /\ "manager" \notin Inside /\ "lease" \notin Inside
BY DEF Inside, Labels, Intent, Attempt, Failing, Removing, Checking

\* A process that stays holds what it held; everybody else is where they were.
LEMMA Stays ==
  ASSUME TypeControl, NEW p \in Procs, NEW l \in Inside, Stay(p, l)
  PROVE  /\ TypeControl' /\ pc'[p] = l /\ lease' = lease /\ manager' = manager
         /\ \A q \in Procs : q # p => pc'[q] = pc[q]
BY AllLabels DEF Stay, Go, locks, TypeControl

\* A process that leaves holds nothing and takes nothing from the others.
LEMMA Leaves ==
  ASSUME TypeControl, TypeLocal, NEW p \in Procs, Leave(p)
  PROVE  /\ TypeControl' /\ TypeLocal' /\ pc'[p] = "idle"
         /\ \A q \in Procs : q # p => /\ pc'[q] = pc[q] /\ op'[q] = op[q]
                                      /\ final'[q] = final[q] /\ seen'[q] = seen[q]
         /\ lease # p => lease' = lease
         /\ lease = p => lease' = None
BY AllLabels DEF Leave, Go, TypeControl, TypeLocal

\* Who is not past the locks knows nothing that could become wrong.
LEMMA Outsiders == \A q : pc[q] \notin Inside => Local(q)
BY DEF Local, HoldInv, SealInv, RecordInv, KnownInv, RunInv, Inside, Unsealed, Inspected,
       Concluding, Described, Intent, Attempt, Failing, Removing, Checking

LEMMA OutsidersNext == \A q : pc'[q] \notin Inside => Local(q)'
BY DEF Local, HoldInv, SealInv, RecordInv, KnownInv, RunInv, Inside, Unsealed, Inspected,
       Concluding, Described, Intent, Attempt, Failing, Removing, Checking

\* While one process is past the locks nobody else is, and its step leaves it so.
LEMMA OthersRest ==
  ASSUME IInv, NEW p \in Procs, pc[p] \in Inside,
         \A q \in Procs : q # p => pc'[q] = pc[q]
  PROVE  \A q \in Procs : q # p => Local(q)'
<1>1. \A q \in Procs : q # p => pc[q] \notin Inside
  BY DEF IInv, Local, HoldInv
<1> QED BY <1>1, OutsidersNext

\* Every verdict is a state, and no state is None.
LEMMA Verdicts ==
  /\ States \cap {None} = {}
  /\ {"degraded", "incompatible", "broken", "drifted", "not_installed", "installing",
      "installed_unchecked"} \subseteq States
  /\ HardwareVerdicts \subseteq States /\ EvidenceVerdicts \subseteq States
  /\ Verified \subseteq States
BY EnvironmentAssumption DEF HardwareVerdicts, EvidenceVerdicts, States, Verified, Transient

\* A descriptor rewritten with another state is a descriptor with the lock it had.
LEMMA Restates ==
  ASSUME TypeDisk, descriptor # None, NEW s \in States, Restate(s)
  PROVE  /\ descriptor' \in [state: States, lock: Contents \cup {None}] /\ descriptor' # None
         /\ descriptor'.state = s /\ descriptor'.lock = descriptor.lock
BY EnvironmentAssumption DEF TypeDisk, Restate

LEMMA InvParts ==
  ASSUME IInv, NEW p \in Procs
  PROVE  /\ TypeControl /\ TypeLocal /\ TypeDisk /\ TypeRest /\ SharedInv
         /\ HoldInv(p) /\ SealInv(p) /\ RecordInv(p) /\ KnownInv(p) /\ RunInv(p)
BY TypeParts DEF IInv, Local

\* A step of a process past the locks: its own part, the files' part, and nobody else's.
LEMMA StepOf ==
  ASSUME IInv, NEW p \in Procs, pc[p] \in Inside,
         \A q \in Procs : q # p => pc'[q] = pc[q],
         TypeControl', TypeLocal', TypeDisk', TypeRest', SharedInv', Local(p)'
  PROVE  IInv'
<1>1. \A q \in Procs : q # p => Local(q)'
  BY OthersRest
<1>2. \A q \in Procs : Local(q)'
  BY <1>1
<1> QED BY <1>2, TypePartsNext DEF IInv
-----------------------------------------------------------------------------

LEMMA EnterCreateStep == ASSUME IInv, NEW p \in Procs, EnterCreate(p) PROVE IInv'
<1>1. pc[p] \in Inside
  BY DEF EnterCreate, Inside
<1>2. /\ TypeControl' /\ (lease' = lease \/ pc'[p] = "idle")
      /\ \A q \in Procs : q # p => pc'[q] = pc[q]
  BY InvParts, Stays, Leaves DEF EnterCreate, Inside, Intent
<1>3. TypeLocal'
  BY InvParts, Leaves DEF EnterCreate, locals, TypeLocal
<1>4. TypeDisk'
  BY InvParts DEF EnterCreate, records, TypeDisk
<1>5. TypeRest'
  BY InvParts DEF EnterCreate, trouble, TypeRest
<1>6. SharedInv'
  BY InvParts DEF EnterCreate, records, SharedInv, SealIsDurable
<1>7. Local(p)'
  <2>1. HoldInv(p)'
    BY <1>1, <1>2, AllLabels, InvParts DEF HoldInv
  <2>2. SealInv(p)'
    BY InvParts, Stays, Leaves DEF EnterCreate, SealInv, SealedIn, RecordInv, records, locals,
       SharedInv, Unsealed, Inside, Intent, Removing
  <2>3. RecordInv(p)'
    BY InvParts, Stays, Leaves DEF EnterCreate, RecordInv, TypeDisk, KnownInv, records,
       Described, Inside, Intent, Attempt, Failing, Checking
  <2>4. KnownInv(p)'
    BY InvParts, Stays, Leaves DEF EnterCreate, KnownInv, Inspected, Concluding, Inside, Intent,
       Attempt
  <2>5. RunInv(p)'
    BY InvParts, Stays, Leaves DEF EnterCreate, RunInv, Owned, records, Inside, Intent
  <2> QED BY <2>1, <2>2, <2>3, <2>4, <2>5 DEF Local
<1> QED BY <1>1, <1>2, <1>3, <1>4, <1>5, <1>6, <1>7, StepOf

LEMMA RecordIntentStep == ASSUME IInv, NEW p \in Procs, RecordIntent(p) PROVE IInv'
<1>1. pc[p] \in Inside
  BY DEF RecordIntent, Inside, Intent
<1>2. /\ TypeControl' /\ (lease' = lease \/ pc'[p] = "idle")
      /\ \A q \in Procs : q # p => pc'[q] = pc[q]
  BY InvParts, Stays DEF RecordIntent, Inside, Intent, Attempt
<1>3. TypeLocal'
  BY InvParts DEF RecordIntent, locals, TypeLocal
<1>4. TypeDisk'
  BY InvParts DEF RecordIntent, records, TypeDisk, States, Transient
<1>5. TypeRest'
  BY InvParts DEF RecordIntent, trouble, TypeRest
<1>6. SharedInv'
  BY InvParts DEF RecordIntent, records, SharedInv, SealIsDurable, SealedIn, SealInv, RecordInv,
     Unsealed, Intent, Verified
<1>7. Local(p)'
  <2>1. HoldInv(p)'
    BY <1>1, <1>2, AllLabels, InvParts DEF HoldInv
  <2>2. SealInv(p)'
    BY InvParts, Stays DEF RecordIntent, SealInv, SealedIn, records, locals, Unsealed, Inside,
       Intent, Attempt
  <2>3. RecordInv(p)'
    BY InvParts, Stays, Verdicts, EnvironmentAssumption DEF RecordIntent, RecordInv, KnownInv,
       records, Described, Inside, Intent, Attempt, Failing, Checking
  <2>4. KnownInv(p)'
    BY InvParts, Stays DEF RecordIntent, KnownInv, Inspected, Concluding, Inside, Intent,
       Attempt
  <2>5. RunInv(p)'
    BY InvParts, Stays DEF RecordIntent, RunInv, records, Inside, Intent, Attempt
  <2> QED BY <2>1, <2>2, <2>3, <2>4, <2>5 DEF Local
<1> QED BY <1>1, <1>2, <1>3, <1>4, <1>5, <1>6, <1>7, StepOf

LEMMA MakeRootStep == ASSUME IInv, NEW p \in Procs, MakeRoot(p) PROVE IInv'
<1>1. pc[p] \in Inside
  BY DEF MakeRoot, Inside, Attempt
<1>2. /\ TypeControl' /\ (lease' = lease \/ pc'[p] = "idle")
      /\ \A q \in Procs : q # p => pc'[q] = pc[q]
  BY InvParts, Stays DEF MakeRoot, Inside, Attempt, Failing
<1>3. TypeLocal'
  BY InvParts DEF MakeRoot, locals, TypeLocal
<1>d. root' = root \/ root' = [dir |-> "unmarked", python |-> FALSE, packages |-> None]
  BY DEF MakeRoot, NoRoot
<1>e. root' \in [dir: {"absent", "unmarked", "owned", "foreign"}, python: BOOLEAN,
                 packages: Contents \cup {None}]
  <2>1. CASE root' = root
    BY <2>1, InvParts DEF TypeDisk
  <2>2. CASE root' = [dir |-> "unmarked", python |-> FALSE, packages |-> None]
    BY <2>2
  <2> QED BY <1>d, <2>1, <2>2
<1>4. TypeDisk'
  BY <1>e, InvParts DEF MakeRoot, records, TypeDisk, TypeLocal, RecordInv, KnownInv, Described,
     Concluding, Inspected, Attempt, Failing, Checking, States, Verified, Transient
<1>5. TypeRest'
  BY InvParts DEF MakeRoot, trouble, TypeRest, TypeDisk
<1>6. SharedInv'
  BY InvParts DEF MakeRoot, records, SharedInv, SealIsDurable, Unsealed, Described, Intent,
     Attempt, Failing
<1>7. Local(p)'
  <2>1. HoldInv(p)'
    BY <1>1, <1>2, AllLabels, InvParts DEF HoldInv
  <2>2. SealInv(p)'
    BY InvParts, Stays DEF MakeRoot, SealInv, RecordInv, records, locals, SharedInv, Verified,
       Unsealed, Inside, Attempt, Failing
  <2>3. RecordInv(p)'
    BY InvParts DEF MakeRoot, RecordInv, SharedInv, TypeDisk, KnownInv, records, locals,
       TypeLocal, Described, Attempt
  <2>4. KnownInv(p)'
    BY InvParts, Stays DEF MakeRoot, NoRoot, KnownInv, Inspected, Concluding, Inside, Attempt,
       Failing
  <2>5. RunInv(p)'
    BY InvParts, Stays DEF MakeRoot, RunInv, Owned, records, Inside, Attempt, Failing
  <2> QED BY <2>1, <2>2, <2>3, <2>4, <2>5 DEF Local
<1> QED BY <1>1, <1>2, <1>3, <1>4, <1>5, <1>6, <1>7, StepOf

LEMMA WriteOwnerStep == ASSUME IInv, NEW p \in Procs, WriteOwner(p) PROVE IInv'
<1>1. pc[p] \in Inside
  BY DEF WriteOwner, Inside, Attempt
<1>2. /\ TypeControl' /\ (lease' = lease \/ pc'[p] = "idle")
      /\ \A q \in Procs : q # p => pc'[q] = pc[q]
  BY InvParts, Stays DEF WriteOwner, Inside, Attempt
<1>3. TypeLocal'
  BY InvParts DEF WriteOwner, locals, TypeLocal
<1>4. TypeDisk'
  BY InvParts DEF WriteOwner, records, TypeDisk
<1>5. TypeRest'
  BY InvParts DEF WriteOwner, trouble, TypeRest
<1>6. SharedInv'
  BY InvParts, Stays, Leaves, Restates, Verdicts, EnvironmentAssumption DEF WriteOwner, records,
     SharedInv, SealIsDurable
<1>7. Local(p)'
  <2>1. HoldInv(p)'
    BY <1>1, <1>2, AllLabels, InvParts DEF HoldInv
  <2>2. SealInv(p)'
    BY InvParts, Stays, Restates, Verdicts DEF WriteOwner, SealInv, records, locals, Unsealed,
       Inside, Attempt
  <2>3. RecordInv(p)'
    BY InvParts, Stays, Leaves, Restates, Verdicts, EnvironmentAssumption DEF WriteOwner,
       RecordInv, SharedInv, TypeDisk, KnownInv, records, Described, Attempt
  <2>4. KnownInv(p)'
    BY InvParts, Stays, Leaves DEF WriteOwner, KnownInv, Inspected, Concluding, Inside, Attempt
  <2>5. RunInv(p)'
    BY InvParts, Stays, Verdicts, EnvironmentAssumption DEF WriteOwner, RunInv, records, Inside,
       Attempt
  <2> QED BY <2>1, <2>2, <2>3, <2>4, <2>5 DEF Local
<1> QED BY <1>1, <1>2, <1>3, <1>4, <1>5, <1>6, <1>7, StepOf

LEMMA InstallStep == ASSUME IInv, NEW p \in Procs, Install(p) PROVE IInv'
<1>1. pc[p] \in Inside
  BY DEF Install, Inside, Attempt
<1>2. /\ TypeControl' /\ (lease' = lease \/ pc'[p] = "idle")
      /\ \A q \in Procs : q # p => pc'[q] = pc[q]
  BY InvParts, Stays DEF Install, Inside, Attempt, Failing
<1>3. TypeLocal'
  BY InvParts DEF Install, locals, TypeLocal, States, Verified, Transient
<1>4. TypeDisk'
  <2>1. TypeDisk
    BY InvParts
  <2>2. \/ root' = [root EXCEPT !.python = TRUE]
        \/ \E c \in Contents : root' = [root EXCEPT !.packages = c]
        \/ root' = root
    BY DEF Install
  <2>3. UNCHANGED records
    BY DEF Install
  <2> QED BY <2>1, <2>2, <2>3 DEF TypeDisk, records
<1>5. TypeRest'
  BY InvParts DEF Install, trouble, TypeRest
<1>6. SharedInv'
  BY InvParts DEF Install, records, SharedInv, SealIsDurable, Failing, Verified
<1>7. Local(p)'
  <2>1. HoldInv(p)'
    BY <1>1, <1>2, AllLabels, InvParts, Restates DEF HoldInv
  <2>2. SealInv(p)'
    BY InvParts, Stays DEF Install, SealInv, SealedIn, records, locals, TypeLocal, TypeDisk,
       SharedInv, Verified, Unsealed, Inspected, Concluding, Described, Inside, Intent, Attempt,
       Failing, Removing, Checking
  <2>3. RecordInv(p)'
    BY InvParts DEF Install, RecordInv, SharedInv, KnownInv, records, Described, Attempt,
       Checking
  <2>4. KnownInv(p)'
    BY InvParts, Stays, EnvironmentAssumption DEF Install, KnownInv, TypeDisk, Unsealed,
       Inspected, Concluding, Inside, Attempt, Failing, Removing
  <2>5. RunInv(p)'
    BY InvParts, Stays DEF Install, RunInv, records, Verified, Unsealed, Inside, Intent,
       Attempt, Failing
  <2> QED BY <2>1, <2>2, <2>3, <2>4, <2>5 DEF Local
<1> QED BY <1>1, <1>2, <1>3, <1>4, <1>5, <1>6, <1>7, StepOf

LEMMA InstalledStep == ASSUME IInv, NEW p \in Procs, Installed(p) PROVE IInv'
<1>1. pc[p] \in Inside
  BY DEF Installed, Inside, Attempt
<1>2. /\ TypeControl' /\ (lease' = lease \/ pc'[p] = "idle")
      /\ \A q \in Procs : q # p => pc'[q] = pc[q]
  BY InvParts, Stays DEF Installed, Inside, Attempt
<1>3. TypeLocal'
  BY InvParts DEF Installed, locals, TypeLocal
<1>4. TypeDisk'
  BY InvParts, Restates DEF Installed, TypeDisk, RecordInv, Described, Attempt, States,
     Transient
<1>5. TypeRest'
  BY InvParts DEF Installed, trouble, TypeRest
<1>6. SharedInv'
  BY InvParts, Restates, Verdicts DEF Installed, SharedInv, SealIsDurable, SealedIn, RecordInv,
     Described, Attempt
<1>7. Local(p)'
  <2>1. HoldInv(p)'
    BY <1>1, <1>2, AllLabels, InvParts DEF HoldInv
  <2>2. SealInv(p)'
    BY InvParts, Stays, Restates, Verdicts DEF Installed, SealInv, SealedIn, RecordInv, records,
       locals, Unsealed, Described, Inside, Attempt
  <2>3. RecordInv(p)'
    BY InvParts, Restates, Verdicts DEF Installed, RecordInv, SharedInv, KnownInv, records,
       Described, Attempt
  <2>4. KnownInv(p)'
    BY InvParts, Stays DEF Installed, KnownInv, Inspected, Concluding, Inside, Attempt
  <2>5. RunInv(p)'
    BY InvParts, Stays DEF Installed, RunInv, records, Inside, Attempt
  <2> QED BY <2>1, <2>2, <2>3, <2>4, <2>5 DEF Local
<1> QED BY <1>1, <1>2, <1>3, <1>4, <1>5, <1>6, <1>7, StepOf

LEMMA InspectStep == ASSUME IInv, NEW p \in Procs, Inspect(p) PROVE IInv'
<1>1. pc[p] \in Inside
  BY DEF Inspect, Inside, Attempt
<1>2. /\ TypeControl' /\ (lease' = lease \/ pc'[p] = "idle")
      /\ \A q \in Procs : q # p => pc'[q] = pc[q]
  BY InvParts, Stays DEF Inspect, Inside, Attempt
<1>3. TypeLocal'
  BY InvParts DEF Inspect, TypeLocal, TypeDisk
<1>4. TypeDisk'
  BY InvParts DEF Inspect, records, TypeDisk
<1>5. TypeRest'
  BY InvParts DEF Inspect, trouble, TypeRest
<1>6. SharedInv'
  BY InvParts DEF Inspect, records, SharedInv, SealIsDurable
<1>7. Local(p)'
  <2>1. HoldInv(p)'
    BY <1>1, <1>2, AllLabels, InvParts DEF HoldInv
  <2>2. SealInv(p)'
    BY InvParts, Stays DEF Inspect, SealInv, records, locals, Unsealed, Inside, Attempt
  <2>3. RecordInv(p)'
    BY InvParts DEF Inspect, RecordInv, SharedInv, KnownInv, records, Described, Attempt
  <2>4. KnownInv(p)'
    BY InvParts, Stays DEF Inspect, KnownInv, TypeLocal, Concluding, Inside, Attempt
  <2>5. RunInv(p)'
    BY InvParts, Stays DEF Inspect, RunInv, records, Inside, Attempt
  <2> QED BY <2>1, <2>2, <2>3, <2>4, <2>5 DEF Local
<1> QED BY <1>1, <1>2, <1>3, <1>4, <1>5, <1>6, <1>7, StepOf

LEMMA ProbeCreationStep == ASSUME IInv, NEW p \in Procs, ProbeCreation(p) PROVE IInv'
<1>1. pc[p] \in Inside
  BY DEF ProbeCreation, Inside, Attempt
<1>2. /\ TypeControl' /\ (lease' = lease \/ pc'[p] = "idle")
      /\ \A q \in Procs : q # p => pc'[q] = pc[q]
  BY InvParts, Stays DEF ProbeCreation, NextStage, Inside, Attempt
<1>3. TypeLocal'
  BY InvParts DEF ProbeCreation, HardwareVerdicts, EvidenceVerdicts, TypeLocal, States, Verified
<1>4. TypeDisk'
  BY InvParts, Restates DEF ProbeCreation, Passed, EvidenceVerdicts, TypeDisk, RecordInv,
     Described, Attempt, States, Verified, Transient
<1>5. TypeRest'
  BY InvParts DEF ProbeCreation, trouble, TypeRest
<1>r. /\ descriptor # None /\ descriptor' # None /\ descriptor'.lock = descriptor.lock
      /\ UNCHANGED <<lockFiles, journal, recorded>>
  BY InvParts, Restates DEF ProbeCreation, Passed, RecordInv, Described, Attempt, States,
     Verified, Transient
<1>6. SharedInv'
  BY <1>r, InvParts DEF SharedInv, SealIsDurable, SealedIn
<1>7. Local(p)'
  <2>1. HoldInv(p)'
    BY <1>1, <1>2, AllLabels, InvParts DEF HoldInv
  <2>2. SealInv(p)'
    BY <1>r, InvParts, Stays DEF ProbeCreation, NextStage, HardwareVerdicts, EvidenceVerdicts,
       SealInv, SealedIn, RecordInv, records, locals, Unsealed, Inside, Attempt
  <2>3. RecordInv(p)'
    BY <1>r, InvParts DEF HardwareVerdicts, EvidenceVerdicts, RecordInv, SharedInv, TypeDisk,
       KnownInv, records
  <2>4. KnownInv(p)'
    BY InvParts, Stays, Verdicts DEF ProbeCreation, NextStage, EvidenceVerdicts, KnownInv,
       TypeLocal, Inspected, Concluding, Inside, Attempt
  <2>5. RunInv(p)'
    BY InvParts, Stays DEF ProbeCreation, NextStage, EvidenceVerdicts, RunInv, SealedIn, Owned,
       records, Inside, Attempt
  <2> QED BY <2>1, <2>2, <2>3, <2>4, <2>5 DEF Local
<1> QED BY <1>1, <1>2, <1>3, <1>4, <1>5, <1>6, <1>7, StepOf

LEMMA ConcludeStep == ASSUME IInv, NEW p \in Procs, Conclude(p) PROVE IInv'
<1>1. pc[p] \in Inside
  BY DEF Conclude, Inside, Attempt
<1>2. /\ TypeControl' /\ (lease' = lease \/ pc'[p] = "idle")
      /\ \A q \in Procs : q # p => pc'[q] = pc[q]
  BY InvParts, Stays DEF Conclude, Inside, Attempt
<1>3. TypeLocal'
  BY InvParts DEF Conclude, locals, TypeLocal
<1>4. TypeDisk'
  BY InvParts, Restates DEF Conclude, TypeDisk, TypeLocal, RecordInv, KnownInv, Described,
     Concluding, Attempt, Transient
<1>5. TypeRest'
  BY InvParts DEF Conclude, trouble, TypeRest
<1>r. /\ descriptor # None /\ descriptor' # None /\ descriptor'.lock = descriptor.lock
      /\ UNCHANGED <<lockFiles, journal, recorded>>
  BY InvParts, Restates DEF Conclude, RecordInv, Described, Attempt, TypeLocal, KnownInv,
     Concluding, Transient
<1>6. SharedInv'
  BY <1>r, InvParts DEF SharedInv, SealIsDurable, SealedIn
<1>7. Local(p)'
  <2>1. HoldInv(p)'
    BY <1>1, <1>2, AllLabels, InvParts DEF HoldInv
  <2>2. SealInv(p)'
    BY InvParts, Stays DEF Conclude, SealInv, RecordInv, records, locals, Unsealed, Inside,
       Intent, Attempt, Removing
  <2>3. RecordInv(p)'
    BY InvParts, Restates DEF Conclude, RecordInv, SharedInv, TypeDisk, KnownInv, records,
       TypeLocal, Concluding, Described, Attempt
  <2>4. KnownInv(p)'
    BY InvParts, Stays DEF Conclude, KnownInv, locals, Inspected, Concluding, Inside, Attempt
  <2>5. RunInv(p)'
    BY InvParts, Stays DEF Conclude, RunInv, records, Inside, Attempt
  <2> QED BY <2>1, <2>2, <2>3, <2>4, <2>5 DEF Local
<1> QED BY <1>1, <1>2, <1>3, <1>4, <1>5, <1>6, <1>7, StepOf

LEMMA ReinspectStep == ASSUME IInv, NEW p \in Procs, Reinspect(p) PROVE IInv'
<1>1. pc[p] \in Inside
  BY DEF Reinspect, Inside, Attempt
<1>2. /\ TypeControl' /\ (lease' = lease \/ pc'[p] = "idle")
      /\ \A q \in Procs : q # p => pc'[q] = pc[q]
  BY InvParts, Stays DEF Reinspect, Inside, Attempt
<1>3. TypeLocal'
  BY InvParts DEF Reinspect, TypeLocal, States
<1>4. TypeDisk'
  BY InvParts, Restates DEF Reinspect, TypeDisk, RecordInv, Described, Attempt, States
<1>5. TypeRest'
  BY InvParts DEF Reinspect, trouble, TypeRest
<1>6. SharedInv'
  BY InvParts, Restates, Verdicts DEF Reinspect, SharedInv, SealIsDurable, SealedIn, RecordInv,
     Described, Attempt
<1>7. Local(p)'
  <2>1. HoldInv(p)'
    BY <1>1, <1>2, AllLabels, InvParts DEF HoldInv
  <2>2. SealInv(p)'
    BY InvParts, Stays DEF Reinspect, SealInv, RecordInv, records, locals, TypeLocal, Verified,
       Unsealed, Inside, Intent, Attempt, Removing
  <2>3. RecordInv(p)'
    BY InvParts, Restates, Verdicts DEF Reinspect, RecordInv, SharedInv, TypeDisk, KnownInv,
       records, Described, Attempt
  <2>4. KnownInv(p)'
    BY InvParts, Stays, Verdicts DEF Reinspect, KnownInv, TypeLocal, Inspected, Concluding,
       Inside, Attempt
  <2>5. RunInv(p)'
    BY InvParts, Stays DEF Reinspect, RunInv, Owned, records, Inside, Attempt
  <2> QED BY <2>1, <2>2, <2>3, <2>4, <2>5 DEF Local
<1> QED BY <1>1, <1>2, <1>3, <1>4, <1>5, <1>6, <1>7, StepOf

LEMMA WriteLockStep == ASSUME IInv, NEW p \in Procs, WriteLock(p) PROVE IInv'
<1>1. pc[p] \in Inside
  BY DEF WriteLock, Inside, Attempt
<1>2. /\ TypeControl' /\ (lease' = lease \/ pc'[p] = "idle")
      /\ \A q \in Procs : q # p => pc'[q] = pc[q]
  BY InvParts, Stays DEF WriteLock, Inside, Attempt
<1>3. TypeLocal'
  BY InvParts DEF WriteLock, locals, TypeLocal
<1>4. TypeDisk'
  BY InvParts DEF WriteLock, TypeDisk, TypeLocal, KnownInv, Inspected
<1>5. TypeRest'
  BY InvParts DEF WriteLock, trouble, TypeRest
<1>6. SharedInv'
  BY InvParts DEF WriteLock, SharedInv, SealIsDurable
<1>7. Local(p)'
  <2>1. HoldInv(p)'
    BY <1>1, <1>2, AllLabels, InvParts DEF HoldInv
  <2>2. SealInv(p)'
    BY InvParts, Stays DEF WriteLock, SealInv, records, locals, Unsealed, Inside, Attempt
  <2>3. RecordInv(p)'
    BY InvParts DEF WriteLock, RecordInv, SharedInv, KnownInv, records, Described, Attempt
  <2>4. KnownInv(p)'
    BY InvParts, Stays DEF WriteLock, KnownInv, locals, Inspected, Concluding, Inside, Attempt
  <2>5. RunInv(p)'
    BY InvParts, Stays DEF WriteLock, RunInv, records, Inside, Attempt
  <2> QED BY <2>1, <2>2, <2>3, <2>4, <2>5 DEF Local
<1> QED BY <1>1, <1>2, <1>3, <1>4, <1>5, <1>6, <1>7, StepOf

LEMMA SealStep == ASSUME IInv, NEW p \in Procs, Seal(p) PROVE IInv'
<1>1. pc[p] \in Inside
  BY DEF Seal, Inside, Attempt
<1>2. /\ TypeControl' /\ (lease' = lease \/ pc'[p] = "idle")
      /\ \A q \in Procs : q # p => pc'[q] = pc[q]
  BY InvParts, Stays DEF Seal, Inside, Attempt
<1>3. TypeLocal'
  BY InvParts DEF Seal, locals, TypeLocal
<1>4. TypeDisk'
  BY InvParts DEF Seal, TypeDisk, TypeLocal, States, Transient
<1>5. TypeRest'
  BY InvParts DEF Seal, trouble, TypeRest
<1>6. SharedInv'
  BY InvParts DEF Seal, SharedInv, SealIsDurable, SealInv, RecordInv, Unsealed, Described,
     Attempt
<1>7. Local(p)'
  <2>1. HoldInv(p)'
    BY <1>1, <1>2, AllLabels, InvParts DEF HoldInv
  <2>2. SealInv(p)'
    BY InvParts, Stays, Verdicts, EnvironmentAssumption DEF Seal, SealInv, SealedIn, records,
       locals, TypeDisk, Unsealed, Inside, Intent, Attempt, Removing
  <2>3. RecordInv(p)'
    BY InvParts, Verdicts, EnvironmentAssumption DEF Seal, RecordInv, SharedInv, KnownInv,
       records, TypeLocal, Described, Attempt
  <2>4. KnownInv(p)'
    BY InvParts, Stays DEF Seal, KnownInv, locals, Inspected, Concluding, Inside, Attempt
  <2>5. RunInv(p)'
    BY InvParts, Stays DEF Seal, RunInv, records, Inside, Attempt
  <2> QED BY <2>1, <2>2, <2>3, <2>4, <2>5 DEF Local
<1> QED BY <1>1, <1>2, <1>3, <1>4, <1>5, <1>6, <1>7, StepOf

LEMMA VerifySealStep == ASSUME IInv, NEW p \in Procs, VerifySeal(p) PROVE IInv'
<1>1. pc[p] \in Inside
  BY DEF VerifySeal, Inside, Attempt
<1>2. /\ TypeControl' /\ (lease' = lease \/ pc'[p] = "idle")
      /\ \A q \in Procs : q # p => pc'[q] = pc[q]
  BY InvParts, Stays DEF VerifySeal, Inside, Attempt
<1>3. TypeLocal'
  BY InvParts DEF VerifySeal, TypeLocal, States
<1>4. TypeDisk'
  BY InvParts, Restates DEF VerifySeal, TypeDisk, TypeLocal, RecordInv, KnownInv, Described,
     Concluding, Attempt, States, Transient
<1>5. TypeRest'
  BY InvParts DEF VerifySeal, trouble, TypeRest
<1>r. /\ descriptor # None /\ descriptor' # None /\ descriptor'.lock = descriptor.lock
      /\ UNCHANGED <<lockFiles, journal, recorded>>
  BY InvParts, Restates DEF VerifySeal, RecordInv, Described, Attempt, TypeLocal, KnownInv,
     Concluding, States, Transient
<1>6. SharedInv'
  BY <1>r, InvParts DEF SharedInv, SealIsDurable, SealedIn
<1>7. Local(p)'
  <2>1. HoldInv(p)'
    BY <1>1, <1>2, AllLabels, InvParts DEF HoldInv
  <2>2. SealInv(p)'
    BY InvParts, Stays, Restates, Verdicts DEF VerifySeal, SealInv, SealedIn, RecordInv,
       records, locals, Unsealed, Inside, Intent, Attempt, Removing
  <2>3. RecordInv(p)'
    BY InvParts, Restates, Verdicts DEF VerifySeal, RecordInv, SharedInv, TypeDisk, KnownInv,
       records, TypeLocal, SealInv, SealedIn, Concluding
  <2>4. KnownInv(p)'
    BY InvParts, Stays, Verdicts DEF VerifySeal, KnownInv, Inspected, Concluding, Inside,
       Attempt
  <2>5. RunInv(p)'
    BY InvParts, Stays DEF VerifySeal, RunInv, Owned, records, Inside, Attempt
  <2> QED BY <2>1, <2>2, <2>3, <2>4, <2>5 DEF Local
<1> QED BY <1>1, <1>2, <1>3, <1>4, <1>5, <1>6, <1>7, StepOf

LEMMA CloseAttemptStep == ASSUME IInv, NEW p \in Procs, CloseAttempt(p) PROVE IInv'
<1>1. pc[p] \in Inside
  BY DEF CloseAttempt, Inside, Attempt
<1>2. /\ TypeControl' /\ (lease' = lease \/ pc'[p] = "idle")
      /\ \A q \in Procs : q # p => pc'[q] = pc[q]
  BY InvParts, Stays, Leaves DEF CloseAttempt, Inside, Attempt
<1>3. TypeLocal'
  BY InvParts, Leaves DEF CloseAttempt, locals, TypeLocal
<1>4. TypeDisk'
  BY InvParts DEF CloseAttempt, TypeDisk, TypeLocal
<1>5. TypeRest'
  BY InvParts DEF CloseAttempt, trouble, TypeRest
<1>6. SharedInv'
  BY InvParts DEF CloseAttempt, SharedInv, SealIsDurable, SealInv
<1>7. Local(p)'
  <2>1. HoldInv(p)'
    BY <1>1, <1>2, AllLabels, InvParts DEF HoldInv
  <2>2. SealInv(p)'
    BY InvParts, Stays, Leaves DEF CloseAttempt, SealInv, records, locals, Unsealed, Inside,
       Intent, Attempt, Removing
  <2>3. RecordInv(p)'
    BY InvParts DEF CloseAttempt, RecordInv, SharedInv, KnownInv, records, Described, Attempt
  <2>4. KnownInv(p)'
    BY InvParts, Stays, Leaves DEF CloseAttempt, KnownInv, locals, Inspected, Concluding,
       Inside, Attempt
  <2>5. RunInv(p)'
    BY InvParts, Stays, Leaves DEF CloseAttempt, RunInv, records, Inside, Attempt
  <2> QED BY <2>1, <2>2, <2>3, <2>4, <2>5 DEF Local
<1> QED BY <1>1, <1>2, <1>3, <1>4, <1>5, <1>6, <1>7, StepOf

LEMMA AttemptFailsStep == ASSUME IInv, NEW p \in Procs, AttemptFails(p) PROVE IInv'
<1>1. pc[p] \in Inside
  BY DEF AttemptFails, Inside
<1>2. /\ TypeControl' /\ (lease' = lease \/ pc'[p] = "idle")
      /\ \A q \in Procs : q # p => pc'[q] = pc[q]
  BY InvParts, Stays DEF AttemptFails, Inside, Failing
<1>3. TypeLocal'
  BY InvParts DEF AttemptFails, locals, TypeLocal
<1>4. TypeDisk'
  BY InvParts DEF AttemptFails, records, TypeDisk
<1>5. TypeRest'
  BY InvParts DEF AttemptFails, trouble, TypeRest
<1>6. SharedInv'
  BY InvParts DEF AttemptFails, records, SharedInv, SealIsDurable
<1>7. Local(p)'
  <2>1. HoldInv(p)'
    BY <1>1, <1>2, AllLabels, InvParts DEF HoldInv
  <2>2. SealInv(p)'
    BY InvParts, Stays DEF AttemptFails, SealInv, records, locals, Unsealed, Inside, Intent,
       Failing, Removing
  <2>3. RecordInv(p)'
    BY InvParts DEF AttemptFails, RecordInv, SharedInv, KnownInv, records, Described
  <2>4. KnownInv(p)'
    BY InvParts, Stays DEF AttemptFails, KnownInv, Inspected, Concluding, Inside, Attempt,
       Failing
  <2>5. RunInv(p)'
    BY InvParts, Stays DEF AttemptFails, RunInv, records, Inside, Failing
  <2> QED BY <2>1, <2>2, <2>3, <2>4, <2>5 DEF Local
<1> QED BY <1>1, <1>2, <1>3, <1>4, <1>5, <1>6, <1>7, StepOf

LEMMA RecordFailureStep == ASSUME IInv, NEW p \in Procs, RecordFailure(p) PROVE IInv'
<1>1. pc[p] \in Inside
  BY DEF RecordFailure, Inside, Failing
<1>2. /\ TypeControl' /\ (lease' = lease \/ pc'[p] = "idle")
      /\ \A q \in Procs : q # p => pc'[q] = pc[q]
  BY InvParts, Stays, Leaves DEF RecordFailure, Inside, Failing
<1>3. TypeLocal'
  BY InvParts, Leaves DEF RecordFailure, locals, TypeLocal
<1>4. TypeDisk'
  BY InvParts, Restates DEF RecordFailure, TypeDisk, RecordInv, Described, Failing, States
<1>5. TypeRest'
  BY InvParts DEF RecordFailure, trouble, TypeRest
<1>6. SharedInv'
  BY InvParts, Restates, Verdicts DEF RecordFailure, SharedInv, SealIsDurable, SealedIn,
     RecordInv, Described, Failing, Verified
<1>7. Local(p)'
  <2>1. HoldInv(p)'
    BY <1>1, <1>2, AllLabels, InvParts DEF HoldInv
  <2>2. SealInv(p)'
    BY InvParts, Stays, Leaves DEF RecordFailure, SealInv, records, locals, Unsealed, Inside,
       Intent, Failing, Removing
  <2>3. RecordInv(p)'
    BY InvParts, Restates, Verdicts DEF RecordFailure, RecordInv, SharedInv, KnownInv, records,
       Described, Failing
  <2>4. KnownInv(p)'
    BY InvParts, Stays, Leaves DEF RecordFailure, KnownInv, Inspected, Concluding, Inside,
       Attempt, Failing
  <2>5. RunInv(p)'
    BY InvParts, Stays, Leaves DEF RecordFailure, RunInv, records, Inside, Failing
  <2> QED BY <2>1, <2>2, <2>3, <2>4, <2>5 DEF Local
<1> QED BY <1>1, <1>2, <1>3, <1>4, <1>5, <1>6, <1>7, StepOf

LEMMA EnterRecreateStep == ASSUME IInv, NEW p \in Procs, EnterRecreate(p) PROVE IInv'
<1>1. pc[p] \in Inside
  BY DEF EnterRecreate, Inside
<1>2. /\ TypeControl' /\ (lease' = lease \/ pc'[p] = "idle")
      /\ \A q \in Procs : q # p => pc'[q] = pc[q]
  BY InvParts, Stays, Leaves DEF EnterRecreate, Inside, Removing
<1>3. TypeLocal'
  BY InvParts, Leaves DEF EnterRecreate, locals, TypeLocal
<1>4. TypeDisk'
  BY InvParts DEF EnterRecreate, records, TypeDisk
<1>5. TypeRest'
  BY InvParts DEF EnterRecreate, trouble, TypeRest
<1>6. SharedInv'
  BY InvParts DEF EnterRecreate, records, SharedInv, SealIsDurable
<1>7. Local(p)'
  <2>1. HoldInv(p)'
    BY <1>1, <1>2, AllLabels, InvParts DEF HoldInv
  <2>2. SealInv(p)'
    BY InvParts, Stays, Leaves DEF EnterRecreate, SealInv, RecordInv, records, locals, Unsealed,
       Inside, Intent, Removing
  <2>3. RecordInv(p)'
    BY InvParts, Leaves DEF EnterRecreate, RecordInv, SharedInv, TypeDisk, KnownInv, records,
       Described, Attempt, Failing, Checking
  <2>4. KnownInv(p)'
    BY InvParts, Stays, Leaves DEF EnterRecreate, KnownInv, Inspected, Concluding, Inside,
       Attempt, Removing
  <2>5. RunInv(p)'
    BY InvParts, Stays, Leaves DEF EnterRecreate, RunInv, Owned, records, Inside, Removing
  <2> QED BY <2>1, <2>2, <2>3, <2>4, <2>5 DEF Local
<1> QED BY <1>1, <1>2, <1>3, <1>4, <1>5, <1>6, <1>7, StepOf

LEMMA EnterRemoveStep == ASSUME IInv, NEW p \in Procs, EnterRemove(p) PROVE IInv'
<1>1. pc[p] \in Inside
  BY DEF EnterRemove, Inside, Removing
<1>2. /\ TypeControl' /\ (lease' = lease \/ pc'[p] = "idle")
      /\ \A q \in Procs : q # p => pc'[q] = pc[q]
  BY InvParts, Stays, Leaves DEF EnterRemove, Inside, Removing
<1>3. TypeLocal'
  BY InvParts, Leaves DEF EnterRemove, locals, TypeLocal
<1>4. TypeDisk'
  BY InvParts DEF EnterRemove, records, TypeDisk
<1>5. TypeRest'
  BY InvParts DEF EnterRemove, trouble, TypeRest
<1>6. SharedInv'
  BY InvParts DEF EnterRemove, records, SharedInv, SealIsDurable
<1>7. Local(p)'
  <2>1. HoldInv(p)'
    BY <1>1, <1>2, AllLabels, InvParts DEF HoldInv
  <2>2. SealInv(p)'
    BY InvParts, Stays, Leaves DEF EnterRemove, SealInv, RecordInv, records, locals, Unsealed,
       Inside, Intent, Removing
  <2>3. RecordInv(p)'
    BY InvParts, Leaves DEF EnterRemove, RecordInv, SharedInv, TypeDisk, KnownInv, records,
       Described, Attempt, Failing, Checking
  <2>4. KnownInv(p)'
    BY InvParts, Stays, Leaves DEF EnterRemove, KnownInv, Inspected, Concluding, Inside,
       Attempt, Removing
  <2>5. RunInv(p)'
    BY InvParts, Stays, Leaves DEF EnterRemove, RunInv, Owned, records, Inside, Removing
  <2> QED BY <2>1, <2>2, <2>3, <2>4, <2>5 DEF Local
<1> QED BY <1>1, <1>2, <1>3, <1>4, <1>5, <1>6, <1>7, StepOf

LEMMA DeleteStep == ASSUME IInv, NEW p \in Procs, Delete(p) PROVE IInv'
<1>1. pc[p] \in Inside
  BY DEF Delete, Inside, Removing
<1>2. /\ TypeControl' /\ (lease' = lease \/ pc'[p] = "idle")
      /\ \A q \in Procs : q # p => pc'[q] = pc[q]
  BY InvParts, Stays DEF Delete, Inside, Removing
<1>3. TypeLocal'
  BY InvParts DEF Delete, locals, TypeLocal
<1>d. root' \in [dir: {"absent", "unmarked", "owned", "foreign"}, python: BOOLEAN,
                 packages: Contents \cup {None}]
  <2>1. CASE root' = [root EXCEPT !.python = FALSE]
    BY <2>1, InvParts DEF TypeDisk
  <2>2. CASE root' = [root EXCEPT !.packages = None]
    BY <2>2, InvParts DEF TypeDisk
  <2>3. CASE root' = [root EXCEPT !.dir = "unmarked"]
    BY <2>3, InvParts DEF TypeDisk
  <2>4. CASE root' = NoRoot
    BY <2>4 DEF NoRoot
  <2> QED BY <2>1, <2>2, <2>3, <2>4 DEF Delete
<1>4. TypeDisk'
  BY <1>d, InvParts DEF Delete, records, TypeDisk
<1>5. TypeRest'
  BY InvParts DEF Delete, trouble, TypeRest
<1>6. SharedInv'
  BY InvParts DEF Delete, records, SharedInv, SealIsDurable
<1>7. Local(p)'
  <2>1. HoldInv(p)'
    BY <1>1, <1>2, AllLabels, InvParts DEF HoldInv
  <2>2. SealInv(p)'
    BY InvParts, Stays DEF Delete, SealInv, SealedIn, RecordInv, records, locals, Unsealed,
       Inside, Intent, Removing
  <2>3. RecordInv(p)'
    BY InvParts DEF Delete, RecordInv, SharedInv, TypeDisk, KnownInv, records, Described
  <2>4. KnownInv(p)'
    BY InvParts, Stays DEF Delete, KnownInv, Inspected, Concluding, Inside, Attempt, Removing
  <2>5. RunInv(p)'
    BY InvParts, Stays DEF Delete, RunInv, SealedIn, Owned, records, Inside, Removing
  <2> QED BY <2>1, <2>2, <2>3, <2>4, <2>5 DEF Local
<1> QED BY <1>1, <1>2, <1>3, <1>4, <1>5, <1>6, <1>7, StepOf

LEMMA RecordRemovalStep == ASSUME IInv, NEW p \in Procs, RecordRemoval(p) PROVE IInv'
<1>1. pc[p] \in Inside
  BY DEF RecordRemoval, Inside, Removing
<1>2. /\ TypeControl' /\ (lease' = lease \/ pc'[p] = "idle")
      /\ \A q \in Procs : q # p => pc'[q] = pc[q]
  BY InvParts, Stays, Leaves DEF RecordRemoval, Inside, Removing
<1>3. TypeLocal'
  BY InvParts, Leaves DEF RecordRemoval, locals, TypeLocal
<1>4. TypeDisk'
  BY InvParts, Restates DEF RecordRemoval, TypeDisk, RecordInv, Described, States
<1>5. TypeRest'
  BY InvParts DEF RecordRemoval, trouble, TypeRest
<1>6. SharedInv'
  BY InvParts, Restates, Verdicts DEF RecordRemoval, SharedInv, SealIsDurable, SealedIn,
     RecordInv, Described
<1>7. Local(p)'
  <2>1. HoldInv(p)'
    BY <1>1, <1>2, AllLabels, InvParts DEF HoldInv
  <2>2. SealInv(p)'
    BY InvParts, Stays, Leaves, Restates, Verdicts DEF RecordRemoval, SealInv, SealedIn,
       RecordInv, records, locals, Unsealed, Described, Inside, Intent, Removing
  <2>3. RecordInv(p)'
    BY InvParts, Restates, Verdicts DEF RecordRemoval, RecordInv, SharedInv, KnownInv, records,
       Described
  <2>4. KnownInv(p)'
    BY InvParts, Stays, Leaves DEF RecordRemoval, KnownInv, Inspected, Concluding, Inside,
       Attempt, Removing
  <2>5. RunInv(p)'
    BY InvParts, Stays, Leaves DEF RecordRemoval, RunInv, records, Inside, Removing
  <2> QED BY <2>1, <2>2, <2>3, <2>4, <2>5 DEF Local
<1> QED BY <1>1, <1>2, <1>3, <1>4, <1>5, <1>6, <1>7, StepOf

LEMMA CheckStep == ASSUME IInv, NEW p \in Procs, Check(p) PROVE IInv'
<1>1. pc[p] \in Inside
  BY DEF Check, Inside, Checking
<1>2. /\ TypeControl' /\ (lease' = lease \/ pc'[p] = "idle")
      /\ \A q \in Procs : q # p => pc'[q] = pc[q]
  BY InvParts, Stays, Leaves DEF Check, Inside, Checking
<1>3. TypeLocal'
  BY InvParts, Leaves DEF Check, LiveVerdicts, TypeLocal, TypeDisk, States
<1>4. TypeDisk'
  BY InvParts DEF Check, PackageDrift, Owned, records, TypeDisk
<1>5. TypeRest'
  BY InvParts DEF Check, trouble, TypeRest
<1>6. SharedInv'
  BY InvParts DEF Check, PackageDrift, Owned, records, SharedInv, SealIsDurable
<1>7. Local(p)'
  <2>1. HoldInv(p)'
    BY <1>1, <1>2, AllLabels, InvParts DEF HoldInv
  <2>2. SealInv(p)'
    BY InvParts, Stays, Leaves DEF Check, PackageDrift, Owned, SealInv, SealedIn, RecordInv,
       records, locals, Unsealed, Inside, Intent, Removing, Checking
  <2>3. RecordInv(p)'
    BY InvParts, Leaves DEF Check, PackageDrift, Owned, RecordInv, SharedInv, TypeDisk,
       KnownInv, records, Described, Attempt, Failing, Checking
  <2>4. KnownInv(p)'
    BY InvParts, Stays, Leaves, Verdicts DEF Check, LiveVerdicts, PackageDrift, Owned, KnownInv,
       TypeLocal, Inspected, Concluding, Inside, Attempt, Checking
  <2>5. RunInv(p)'
    BY InvParts, Stays, Leaves DEF Check, LiveVerdicts, PackageDrift, Owned, RunInv, SealedIn,
       Owned, records, TypeLocal, Verified, Inside, Checking
  <2> QED BY <2>1, <2>2, <2>3, <2>4, <2>5 DEF Local
<1> QED BY <1>1, <1>2, <1>3, <1>4, <1>5, <1>6, <1>7, StepOf

LEMMA ProbeStep == ASSUME IInv, NEW p \in Procs, Probe(p) PROVE IInv'
<1>1. pc[p] \in Inside
  BY DEF Probe, Inside, Checking
<1>2. /\ TypeControl' /\ (lease' = lease \/ pc'[p] = "idle")
      /\ \A q \in Procs : q # p => pc'[q] = pc[q]
  BY InvParts, Stays DEF Probe, Inside, Checking
<1>3. TypeLocal'
  BY InvParts DEF Probe, ProbeVerdicts, HardwareVerdicts, EvidenceVerdicts, TypeLocal, States,
     Verified
<1>4. TypeDisk'
  BY InvParts DEF Probe, records, TypeDisk
<1>5. TypeRest'
  BY InvParts DEF Probe, trouble, TypeRest
<1>6. SharedInv'
  BY InvParts DEF Probe, records, SharedInv, SealIsDurable
<1>7. Local(p)'
  <2>1. HoldInv(p)'
    BY <1>1, <1>2, AllLabels, InvParts DEF HoldInv
  <2>2. SealInv(p)'
    BY InvParts, Stays DEF Probe, SealInv, SealedIn, RecordInv, records, locals, Unsealed,
       Inside, Intent, Removing, Checking
  <2>3. RecordInv(p)'
    BY InvParts DEF Probe, RecordInv, SharedInv, TypeDisk, KnownInv, records, Described,
       Checking
  <2>4. KnownInv(p)'
    BY InvParts, Stays, Verdicts DEF Probe, ProbeVerdicts, KnownInv, TypeLocal, Inspected,
       Inside, Attempt, Checking
  <2>5. RunInv(p)'
    BY InvParts, Stays DEF Probe, RunInv, SealedIn, Owned, records, Inside, Checking
  <2> QED BY <2>1, <2>2, <2>3, <2>4, <2>5 DEF Local
<1> QED BY <1>1, <1>2, <1>3, <1>4, <1>5, <1>6, <1>7, StepOf

LEMMA RecheckStep == ASSUME IInv, NEW p \in Procs, Recheck(p) PROVE IInv'
<1>1. pc[p] \in Inside
  BY DEF Recheck, Inside, Checking
<1>2. /\ TypeControl' /\ (lease' = lease \/ pc'[p] = "idle")
      /\ \A q \in Procs : q # p => pc'[q] = pc[q]
  BY InvParts, Stays DEF Recheck, Inside, Checking
<1>3. TypeLocal'
  BY InvParts DEF Recheck, TypeLocal, TypeDisk, States
<1>4. TypeDisk'
  BY InvParts DEF Recheck, records, TypeDisk
<1>5. TypeRest'
  BY InvParts DEF Recheck, trouble, TypeRest
<1>6. SharedInv'
  BY InvParts DEF Recheck, records, SharedInv, SealIsDurable
<1>7. Local(p)'
  <2>1. HoldInv(p)'
    BY <1>1, <1>2, AllLabels, InvParts DEF HoldInv
  <2>2. SealInv(p)'
    BY InvParts, Stays DEF Recheck, SealInv, SealedIn, RecordInv, records, locals, Unsealed,
       Inside, Intent, Removing, Checking
  <2>3. RecordInv(p)'
    BY InvParts DEF Recheck, RecordInv, SharedInv, TypeDisk, KnownInv, records, Described,
       Checking
  <2>4. KnownInv(p)'
    BY InvParts, Stays, Verdicts DEF Recheck, KnownInv, Inspected, Concluding, Inside, Attempt,
       Checking
  <2>5. RunInv(p)'
    BY InvParts, Stays DEF Recheck, LoadLock, PackageDrift, RunInv, SealedIn, Owned, records,
       TypeLocal, Verified, Inside, Checking
  <2> QED BY <2>1, <2>2, <2>3, <2>4, <2>5 DEF Local
<1> QED BY <1>1, <1>2, <1>3, <1>4, <1>5, <1>6, <1>7, StepOf

LEMMA WriteHealthStep == ASSUME IInv, NEW p \in Procs, WriteHealth(p) PROVE IInv'
<1>1. pc[p] \in Inside
  BY DEF WriteHealth, Inside, Checking
<1>2. /\ TypeControl' /\ (lease' = lease \/ pc'[p] = "idle")
      /\ \A q \in Procs : q # p => pc'[q] = pc[q]
  BY InvParts, Stays DEF WriteHealth, Inside, Checking
<1>3. TypeLocal'
  BY InvParts DEF WriteHealth, locals, TypeLocal
<1>4. TypeDisk'
  BY InvParts DEF WriteHealth, TypeDisk, TypeLocal
<1>5. TypeRest'
  BY InvParts DEF WriteHealth, trouble, TypeRest
<1>6. SharedInv'
  BY InvParts DEF WriteHealth, SharedInv, SealIsDurable
<1>7. Local(p)'
  <2>1. HoldInv(p)'
    BY <1>1, <1>2, AllLabels, InvParts DEF HoldInv
  <2>2. SealInv(p)'
    BY InvParts, Stays DEF WriteHealth, SealInv, records, locals, Unsealed, Inside, Intent,
       Removing, Checking
  <2>3. RecordInv(p)'
    BY InvParts DEF WriteHealth, RecordInv, SharedInv, KnownInv, records, Described, Checking
  <2>4. KnownInv(p)'
    BY InvParts, Stays DEF WriteHealth, KnownInv, locals, Inspected, Concluding, Inside,
       Attempt, Checking
  <2>5. RunInv(p)'
    BY InvParts, Stays DEF WriteHealth, RunInv, Owned, records, locals, Inside, Checking
  <2> QED BY <2>1, <2>2, <2>3, <2>4, <2>5 DEF Local
<1> QED BY <1>1, <1>2, <1>3, <1>4, <1>5, <1>6, <1>7, StepOf

LEMMA WriteStateStep == ASSUME IInv, NEW p \in Procs, WriteState(p) PROVE IInv'
<1>1. pc[p] \in Inside
  BY DEF WriteState, Inside, Checking
<1>2. /\ TypeControl' /\ (lease' = lease \/ pc'[p] = "idle")
      /\ \A q \in Procs : q # p => pc'[q] = pc[q]
  BY InvParts, Stays, Leaves DEF WriteState, Inside, Checking
<1>3. TypeLocal'
  BY InvParts, Leaves DEF WriteState, locals, TypeLocal
<1>4. TypeDisk'
  BY InvParts, Restates DEF WriteState, TypeDisk, TypeLocal, RecordInv, KnownInv, Described,
     Concluding, Checking, Transient
<1>5. TypeRest'
  BY InvParts DEF WriteState, trouble, TypeRest
<1>r. /\ descriptor # None /\ descriptor' # None /\ descriptor'.lock = descriptor.lock
      /\ UNCHANGED <<lockFiles, journal, recorded>>
  BY InvParts, Restates DEF WriteState, RecordInv, Described, Checking, TypeLocal, KnownInv,
     Concluding, Transient
<1>6. SharedInv'
  BY <1>r, InvParts DEF SharedInv, SealIsDurable, SealedIn
<1>7. Local(p)'
  <2>1. HoldInv(p)'
    BY <1>1, <1>2, AllLabels, InvParts DEF HoldInv
  <2>2. SealInv(p)'
    BY InvParts, Stays, Leaves DEF WriteState, SealInv, RecordInv, records, locals, Unsealed,
       Inside, Intent, Removing, Checking
  <2>3. RecordInv(p)'
    BY InvParts, Restates DEF WriteState, RecordInv, SharedInv, TypeDisk, KnownInv, records,
       TypeLocal, Concluding, Described, Checking
  <2>4. KnownInv(p)'
    BY InvParts, Stays, Leaves DEF WriteState, KnownInv, Inspected, Concluding, Inside, Attempt,
       Checking
  <2>5. RunInv(p)'
    BY InvParts, Stays, Leaves, Restates, Verdicts DEF WriteState, RunInv, SealedIn, Owned,
       records, locals, Inside, Checking
  <2> QED BY <2>1, <2>2, <2>3, <2>4, <2>5 DEF Local
<1> QED BY <1>1, <1>2, <1>3, <1>4, <1>5, <1>6, <1>7, StepOf

LEMMA SnapshotStep == ASSUME IInv, NEW p \in Procs, Snapshot(p) PROVE IInv'
<1>1. pc[p] \in Inside
  BY DEF Snapshot, Inside, Checking
<1>2. /\ TypeControl' /\ (lease' = lease \/ pc'[p] = "idle")
      /\ \A q \in Procs : q # p => pc'[q] = pc[q]
  BY InvParts, Leaves DEF Snapshot, Intent, Attempt, Failing, Removing, Checking
<1>3. TypeLocal'
  BY InvParts, Leaves DEF Snapshot
<1>4. TypeDisk'
  BY InvParts DEF Snapshot, records, TypeDisk
<1>5. TypeRest'
  BY InvParts DEF Snapshot, PackageDrift, trouble, TypeRest, TypeDisk
<1>6. SharedInv'
  BY InvParts DEF Snapshot, records, SharedInv, SealIsDurable
<1>7. Local(p)'
  <2>1. HoldInv(p)'
    BY <1>1, <1>2, AllLabels, InvParts DEF HoldInv
  <2>2. SealInv(p)'
    BY InvParts, Leaves DEF Snapshot, SealInv, SealedIn, RecordInv, records, locals, Unsealed,
       Intent, Removing
  <2>3. RecordInv(p)'
    BY InvParts DEF Snapshot, RecordInv, SharedInv, TypeDisk, KnownInv, records, Described,
       Checking
  <2>4. KnownInv(p)'
    BY InvParts, Leaves DEF Snapshot, KnownInv, Unsealed, Inspected, Concluding, Described,
       Inside, Intent, Attempt, Failing, Removing, Checking
  <2>5. RunInv(p)'
    BY InvParts, Leaves DEF Snapshot, RunInv, SealedIn, Owned, records, Unsealed, Inspected,
       Concluding, Described, Inside, Intent, Attempt, Failing, Removing, Checking
  <2> QED BY <2>1, <2>2, <2>3, <2>4, <2>5 DEF Local
<1> QED BY <1>1, <1>2, <1>3, <1>4, <1>5, <1>6, <1>7, StepOf

LEMMA DispatchStep == ASSUME IInv, NEW p \in Procs, Dispatch(p) PROVE IInv'
<1>1. pc[p] \in Inside
  BY DEF Dispatch, Inside, Checking
<1>2. /\ TypeControl' /\ (lease' = lease \/ pc'[p] = "idle")
      /\ \A q \in Procs : q # p => pc'[q] = pc[q]
  BY InvParts, Stays, Leaves DEF Dispatch, Inside, Checking
<1>3. TypeLocal'
  BY InvParts, Leaves DEF Dispatch, locals, TypeLocal
<1>4. TypeDisk'
  BY InvParts DEF Dispatch, records, TypeDisk
<1>5. TypeRest'
  BY InvParts DEF Dispatch, trouble, TypeRest
<1>6. SharedInv'
  BY InvParts DEF Dispatch, records, SharedInv, SealIsDurable
<1>7. Local(p)'
  <2>1. HoldInv(p)'
    BY <1>1, <1>2, AllLabels, InvParts DEF HoldInv
  <2>2. SealInv(p)'
    BY InvParts, Stays, Leaves DEF Dispatch, SealInv, SealedIn, RecordInv, records, locals,
       Unsealed, Inside, Intent, Removing, Checking
  <2>3. RecordInv(p)'
    BY InvParts DEF Dispatch, RecordInv, SharedInv, TypeDisk, KnownInv, records, Described,
       Checking
  <2>4. KnownInv(p)'
    BY InvParts, Stays, Leaves DEF Dispatch, KnownInv, Inspected, Concluding, Inside, Attempt,
       Checking
  <2>5. RunInv(p)'
    BY InvParts, Leaves DEF Dispatch, Blocked, LoadLock, RunInv, SealedIn, Owned, records,
       locals, Unsealed, Inspected, Concluding, Described, Inside, Intent, Attempt, Failing,
       Removing, Checking
  <2> QED BY <2>1, <2>2, <2>3, <2>4, <2>5 DEF Local
<1> QED BY <1>1, <1>2, <1>3, <1>4, <1>5, <1>6, <1>7, StepOf

LEMMA RunEndsStep == ASSUME IInv, NEW p \in Procs, RunEnds(p) PROVE IInv'
<1>1. pc[p] \in Inside
  BY DEF RunEnds, Inside, Checking
<1>2. /\ TypeControl' /\ (lease' = lease \/ pc'[p] = "idle")
      /\ \A q \in Procs : q # p => pc'[q] = pc[q]
  BY InvParts, Leaves DEF RunEnds, Failing, Removing, Checking
<1>3. TypeLocal'
  BY InvParts, Leaves DEF RunEnds, States, Verified, Transient
<1>4. TypeDisk'
  BY InvParts DEF RunEnds, records, TypeDisk
<1>5. TypeRest'
  BY InvParts DEF RunEnds, trouble, TypeRest
<1>6. SharedInv'
  BY InvParts DEF RunEnds, records, SharedInv, SealIsDurable
<1>7. Local(p)'
  <2>1. HoldInv(p)'
    BY <1>1, <1>2, AllLabels, InvParts DEF HoldInv
  <2>2. SealInv(p)'
    BY InvParts, Leaves DEF RunEnds, SealInv, records, locals, Unsealed, Inspected, Concluding,
       Described, Inside, Intent, Attempt, Failing, Removing, Checking
  <2>3. RecordInv(p)'
    BY InvParts DEF RunEnds, RecordInv, SharedInv, KnownInv, records, Described, Checking
  <2>4. KnownInv(p)'
    BY InvParts, Leaves DEF RunEnds, KnownInv, Unsealed, Inspected, Concluding, Described,
       Inside, Intent, Attempt, Failing, Removing, Checking
  <2>5. RunInv(p)'
    BY InvParts, Leaves DEF RunEnds, RunInv, records, Unsealed, Inspected, Concluding,
       Described, Inside, Intent, Attempt, Failing, Removing, Checking
  <2> QED BY <2>1, <2>2, <2>3, <2>4, <2>5 DEF Local
<1> QED BY <1>1, <1>2, <1>3, <1>4, <1>5, <1>6, <1>7, StepOf

-----------------------------------------------------------------------------
(* The steps of nobody past the locks, of the world, and the invariant *)

\* A process whose own state and whose files nobody touched knows what it knew.
LEMMA SameLocal ==
  ASSUME NEW q \in Procs, Local(q),
         pc'[q] = pc[q], op'[q] = op[q], final'[q] = final[q], seen'[q] = seen[q],
         lease = q => lease' = q,
         UNCHANGED <<root, recorded, records, pinned>>
  PROVE  Local(q)'
<1>1. HoldInv(q)'
  BY DEF Local, HoldInv
<1>2. SealInv(q)' /\ RecordInv(q)'
  BY DEF Local, SealInv, RecordInv, SealedIn, records
<1>3. KnownInv(q)' /\ RunInv(q)'
  BY DEF Local, KnownInv, RunInv, SealedIn, Owned, records
<1> QED BY <1>1, <1>2, <1>3 DEF Local

LEMMA SameFiles ==
  ASSUME IInv, UNCHANGED <<root, recorded, records, pinned>>
  PROVE  TypeDisk' /\ SharedInv'
<1>1. TypeDisk /\ SharedInv
  BY TypeParts DEF IInv
<1> QED BY <1>1 DEF TypeDisk, SharedInv, SealIsDurable, SealedIn, records

\* Giving up, dying and failing outside the try block change no file.
LEMMA LeaveStep ==
  ASSUME IInv, NEW p \in Procs, Leave(p), UNCHANGED <<root, recorded, records, pinned>>, TypeRest'
  PROVE  IInv'
<1>1. TypeControl /\ TypeLocal /\ \A q \in Procs : Local(q)
  BY TypeParts DEF IInv
<1>2. TypeControl' /\ TypeLocal' /\ pc'[p] = "idle"
  BY <1>1, Leaves
<1>3. ASSUME NEW q \in Procs, q # p PROVE Local(q)'
  <2>1. /\ pc'[q] = pc[q] /\ op'[q] = op[q] /\ final'[q] = final[q] /\ seen'[q] = seen[q]
        /\ lease # p => lease' = lease
    BY <1>1, <1>3, Leaves
  <2> QED BY <1>1, <1>3, <2>1, SameLocal
<1>4. Local(p)'
  BY <1>2, AllLabels, OutsidersNext
<1> QED BY <1>2, <1>3, <1>4, SameFiles, TypePartsNext DEF IInv

LEMMA BeginStep == ASSUME IInv, NEW p \in Procs, NEW o \in Operations, Begin(p, o) PROVE IInv'
<1>1. TypeControl /\ TypeLocal /\ TypeRest /\ \A q \in Procs : Local(q)
  BY TypeParts DEF IInv
<1>2. pc'[p] \notin Inside /\ TypeControl'
  BY <1>1, AllLabels DEF Begin, Go, locks, TypeControl
<1>3. TypeLocal' /\ TypeRest'
  BY <1>1 DEF Begin, trouble, TypeLocal, TypeRest
<1>4. ASSUME NEW q \in Procs, q # p PROVE Local(q)'
  <2>1. /\ pc'[q] = pc[q] /\ op'[q] = op[q] /\ final'[q] = final[q] /\ seen'[q] = seen[q]
        /\ lease' = lease
    BY <1>4 DEF Begin, Go, locks
  <2>2. UNCHANGED <<root, recorded, records, pinned>>
    BY DEF Begin
  <2> QED BY <1>1, <1>4, <2>1, <2>2, SameLocal
<1>5. Local(p)'
  BY <1>2, OutsidersNext
<1>6. TypeDisk' /\ SharedInv'
  BY SameFiles DEF Begin
<1> QED BY <1>2, <1>3, <1>4, <1>5, <1>6, TypePartsNext DEF IInv

LEMMA TakeManagerStep == ASSUME IInv, NEW p \in Procs, TakeManager(p) PROVE IInv'
<1>1. TypeControl /\ TypeLocal /\ TypeRest /\ \A q \in Procs : Local(q)
  BY TypeParts DEF IInv
<1>2. pc'[p] \notin Inside /\ TypeControl'
  BY <1>1, AllLabels DEF TakeManager, Go, TypeControl
<1>3. TypeLocal' /\ TypeRest'
  BY <1>1 DEF TakeManager, trouble, locals, TypeLocal, TypeRest
<1>4. ASSUME NEW q \in Procs, q # p PROVE Local(q)'
  <2>1. /\ pc'[q] = pc[q] /\ op'[q] = op[q] /\ final'[q] = final[q] /\ seen'[q] = seen[q]
        /\ lease' = lease
    BY <1>4 DEF TakeManager, Go, locals
  <2>2. UNCHANGED <<root, recorded, records, pinned>>
    BY DEF TakeManager
  <2> QED BY <1>1, <1>4, <2>1, <2>2, SameLocal
<1>5. Local(p)'
  BY <1>2, OutsidersNext
<1>6. TypeDisk' /\ SharedInv'
  BY SameFiles DEF TakeManager
<1> QED BY <1>2, <1>3, <1>4, <1>5, <1>6, TypePartsNext DEF IInv

\* The lease was free, so nobody was past the locks.
LEMMA TakeLeaseStep == ASSUME IInv, NEW p \in Procs, TakeLease(p) PROVE IInv'
<1>1. TypeControl /\ TypeLocal /\ TypeRest /\ \A q \in Procs : Local(q)
  BY TypeParts DEF IInv
<1>2. /\ pc'[p] \in {"create", "recreate", "remove", "check"} /\ lease' = p
      /\ pc'[p] = "create" => op'[p] # "recreate"
      /\ pc'[p] = "remove" => op'[p] # "recreate"
  BY <1>1 DEF TakeLease, Go, Entry, TypeControl, locals
<1>3. {"create", "recreate", "remove", "check"} \subseteq Inside
  BY DEF Inside, Removing, Checking
<1>4. TypeControl' /\ TypeLocal' /\ TypeRest'
  <2>1. TypeControl'
    BY <1>1, <1>2, <1>3, AllLabels DEF TakeLease, Go, TypeControl
  <2> QED BY <1>1, <2>1 DEF TakeLease, trouble, locals, TypeLocal, TypeRest
<1>5. ASSUME NEW q \in Procs, q # p PROVE Local(q)'
  <2>1. pc[q] \notin Inside
    BY <1>1, EnvironmentAssumption DEF TakeLease, Local, HoldInv
  <2>2. pc'[q] = pc[q]
    BY <1>5 DEF TakeLease, Go
  <2> QED BY <2>1, <2>2, OutsidersNext
<1>6. Local(p)'
  <2>1. HoldInv(p)'
    BY <1>2 DEF HoldInv
  <2>2. SealInv(p)' /\ RecordInv(p)'
    BY <1>2 DEF SealInv, RecordInv, Unsealed, Described, Intent, Attempt, Failing, Removing,
       Checking
  <2>3. KnownInv(p)' /\ RunInv(p)'
    BY <1>2 DEF KnownInv, RunInv, Attempt, Inspected, Concluding
  <2> QED BY <2>1, <2>2, <2>3 DEF Local
<1>7. TypeDisk' /\ SharedInv'
  BY SameFiles DEF TakeLease
<1> QED BY <1>4, <1>5, <1>6, <1>7, TypePartsNext DEF IInv

LEMMA BusyStep == ASSUME IInv, NEW p \in Procs, Busy(p) PROVE IInv'
<1>1. TypeRest
  BY TypeParts DEF IInv
<1>2. TypeRest'
  BY <1>1 DEF Busy, trouble, TypeRest
<1> QED BY <1>2, LeaveStep DEF Busy

LEMMA CrashStep == ASSUME IInv, NEW p \in Procs, Crash(p) PROVE IInv'
<1>1. TypeRest
  BY TypeParts DEF IInv
<1>2. TypeRest'
  BY <1>1, EnvironmentAssumption DEF Crash, Fault, TypeRest
<1> QED BY <1>2, LeaveStep DEF Crash

LEMMA WriteRaisesStep == ASSUME IInv, NEW p \in Procs, WriteRaises(p) PROVE IInv'
<1>1. TypeRest
  BY TypeParts DEF IInv
<1>2. TypeRest'
  BY <1>1, EnvironmentAssumption DEF WriteRaises, Fault, TypeRest
<1> QED BY <1>2, LeaveStep DEF WriteRaises

\* What the orphan and others do to the directory is within what each process knows.
LEMMA RootStep ==
  ASSUME IInv, TypeRest', UNCHANGED <<locks, recorded, records, pinned, pc, locals>>,
         \/ root' = root
         \/ root.dir = "absent" /\ root' = [NoRoot EXCEPT !.dir = "foreign"]
         \/ root.python /\ \E x \in Contents : root' = [root EXCEPT !.packages = x]
         \/ lease = None /\ root' = NoRoot
  PROVE  IInv'
<1>1. /\ TypeControl /\ TypeLocal /\ TypeDisk /\ SharedInv /\ \A q \in Procs : Local(q)
  BY TypeParts DEF IInv
<1>2. TypeControl' /\ TypeLocal' /\ SharedInv'
  BY <1>1 DEF TypeControl, TypeLocal, SharedInv, SealIsDurable, locks, records, locals
<1>3. root' \in [dir: {"absent", "unmarked", "owned", "foreign"}, python: BOOLEAN,
                 packages: Contents \cup {None}]
  <2>1. CASE root' = root
    BY <1>1, <2>1 DEF TypeDisk
  <2>2. CASE root' = [NoRoot EXCEPT !.dir = "foreign"]
    <3>1. root' = [dir |-> "foreign", python |-> FALSE, packages |-> None]
      BY <2>2 DEF NoRoot
    <3> QED BY <3>1
  <2>3. ASSUME NEW x \in Contents, root' = [root EXCEPT !.packages = x]
        PROVE  root' \in [dir: {"absent", "unmarked", "owned", "foreign"}, python: BOOLEAN,
                          packages: Contents \cup {None}]
    BY <1>1, <2>3 DEF TypeDisk
  <2>4. CASE root' = NoRoot
    BY <2>4 DEF NoRoot
  <2> QED BY <2>1, <2>2, <2>3, <2>4
<1>4. TypeDisk'
  BY <1>1, <1>3 DEF TypeDisk, records
<1>5. ASSUME NEW q \in Procs, pc[q] \in Inside PROVE Local(q)'
  <2>1. Local(q) /\ lease = q /\ lease # None
    BY <1>1, <1>5, EnvironmentAssumption DEF Local, HoldInv
  <2>2. HoldInv(q)' /\ SealInv(q)' /\ RecordInv(q)'
    BY <2>1 DEF Local, HoldInv, SealInv, RecordInv, locks, records, locals
  <2>3. KnownInv(q)'
    <3>1. CASE root' = root
      BY <2>1, <3>1 DEF Local, KnownInv, locals
    <3>2. CASE root.dir = "absent" /\ root' = [NoRoot EXCEPT !.dir = "foreign"]
      <4>1. root'.dir = "foreign"
        BY <3>2
      <4>2. pc[q] \notin {"worker", "installed", "inspect"}
        BY <2>1, <3>2 DEF Local, KnownInv, Attempt
      <4> QED BY <2>1, <4>1, <4>2 DEF Local, KnownInv, locals
    <3>3. ASSUME NEW x \in Contents, root' = [root EXCEPT !.packages = x] PROVE KnownInv(q)'
      <4>1. root'.dir = root.dir /\ root'.packages = x /\ x # None
        BY <3>3, EnvironmentAssumption
      <4> QED BY <2>1, <4>1 DEF Local, KnownInv, locals
    <3> QED BY <2>1, <3>1, <3>2, <3>3
  <2>4. RunInv(q)'
    <3>1. CASE root' = root
      BY <2>1, <3>1 DEF Local, RunInv, Owned, records, locals
    <3>2. CASE root.dir = "absent"
      <4>1. ~Owned
        BY <3>2 DEF Owned
      <4> QED BY <2>1, <4>1 DEF Local, RunInv, SealedIn, records, locals
    <3>3. ASSUME NEW x \in Contents, root' = [root EXCEPT !.packages = x] PROVE RunInv(q)'
      <4>1. root'.dir = root.dir /\ root'.python = root.python
        BY <3>3
      <4> QED BY <2>1, <4>1 DEF Local, RunInv, Owned, SealedIn, records, locals
    <3> QED BY <2>1, <3>1, <3>2, <3>3
  <2> QED BY <2>2, <2>3, <2>4 DEF Local
<1>6. ASSUME NEW q \in Procs, pc[q] \notin Inside PROVE Local(q)'
  BY <1>6, OutsidersNext
<1> QED BY <1>2, <1>4, <1>5, <1>6, TypePartsNext DEF IInv

LEMMA StrayEndsStep == ASSUME IInv, StrayEnds PROVE IInv'
<1>1. TypeRest
  BY TypeParts DEF IInv
<1>2. TypeRest'
  BY <1>1 DEF StrayEnds, trouble, TypeRest
<1> QED BY <1>2, RootStep DEF StrayEnds

LEMMA OutsideStep == ASSUME IInv, Outside PROVE IInv'
<1>1. TypeRest
  BY TypeParts DEF IInv
<1>2. faults' \in 0 .. MaxFaults
  BY <1>1, EnvironmentAssumption DEF Outside, Fault, TypeRest
<1>3. TypeRest'
  BY <1>1, <1>2, Zenon DEF Outside, TypeRest
<1> QED BY <1>3, RootStep DEF Outside

LEMMA NextStep == IInv /\ [Next]_vars => IInv'
<1> SUFFICES ASSUME IInv, [Next]_vars PROVE IInv'
  OBVIOUS
<1>1. ASSUME NEW p \in Procs, Step(p) PROVE IInv'
  BY <1>1, TakeManagerStep, TakeLeaseStep, BusyStep, EnterCreateStep, RecordIntentStep,
     MakeRootStep, WriteOwnerStep, InstallStep, InstalledStep, InspectStep, ProbeCreationStep,
     ConcludeStep, ReinspectStep, WriteLockStep, SealStep, VerifySealStep, CloseAttemptStep,
     AttemptFailsStep, RecordFailureStep, EnterRecreateStep, EnterRemoveStep, DeleteStep,
     RecordRemovalStep, CheckStep, ProbeStep, RecheckStep, WriteHealthStep, WriteStateStep,
     SnapshotStep, DispatchStep, RunEndsStep DEF Step
<1>2. ASSUME NEW p \in Procs, Crash(p) \/ WriteRaises(p) PROVE IInv'
  BY <1>2, CrashStep, WriteRaisesStep
<1>3. ASSUME NEW p \in Procs, NEW o \in Operations, Begin(p, o) PROVE IInv'
  BY <1>3, BeginStep
<1>4. CASE StrayEnds \/ Outside
  BY <1>4, StrayEndsStep, OutsideStep
<1>5. CASE UNCHANGED vars
  <2>1. UNCHANGED <<manager, lease, reviewed, required, root, recorded, descriptor, lockFiles,
                    journal, health, pinned, stray, pc, op, final, seen, faults, interrupted>>
    BY <1>5 DEF vars
  <2>2. TypeRest'
    BY <2>1, TypeParts DEF IInv, TypeRest
  <2> QED BY <2>1, <2>2, RootStep DEF locks, records, locals
<1> QED BY <1>1, <1>2, <1>3, <1>4, <1>5 DEF Next

LEMMA InitInv == Init => IInv
<1> SUFFICES ASSUME Init PROVE IInv
  OBVIOUS
<1>1. TypeControl /\ TypeLocal
  BY AllLabels DEF Init, TypeControl, TypeLocal
<1>2. TypeDisk
  BY DEF Init, TypeDisk, NoRoot
<1>3. TypeRest
  <2>1. faults \in 0 .. MaxFaults
    BY EnvironmentAssumption DEF Init
  <2> QED BY <2>1, Zenon DEF Init, TypeRest
<1>4. SharedInv
  BY EnvironmentAssumption, Verdicts DEF Init, SharedInv, SealIsDurable, SealedIn
<1>5. \A p \in Procs : Local(p)
  BY AllLabels, Outsiders DEF Init
<1> QED BY <1>1, <1>2, <1>3, <1>4, <1>5, TypeParts DEF IInv

\* What a step may do to a descriptor that names a lock, and to the lock files.
Seals == SealedIn(descriptor) => /\ SealedIn(descriptor')
                                 /\ descriptor'.lock = descriptor.lock
                                 /\ lockFiles \subseteq lockFiles'

LEMMA SealsSame == UNCHANGED <<descriptor, lockFiles>> => Seals
BY DEF Seals, SealedIn

LEMMA SealStays == IInv /\ [Next]_vars => Seals
<1> SUFFICES ASSUME IInv, [Next]_vars PROVE Seals
  OBVIOUS
<1>1. ASSUME NEW p \in Procs, \/ TakeManager(p) \/ TakeLease(p) \/ Busy(p)
                             \/ EnterCreate(p) \/ MakeRoot(p) \/ WriteOwner(p) \/ Install(p)
                             \/ Inspect(p) \/ AttemptFails(p) \/ EnterRecreate(p)
                             \/ EnterRemove(p) \/ Delete(p) \/ Check(p) \/ Probe(p)
                             \/ Recheck(p) \/ Snapshot(p) \/ Dispatch(p) \/ RunEnds(p)
                             \/ Crash(p) \/ WriteRaises(p)
      PROVE  Seals
  <2>1. UNCHANGED records
    BY <1>1 DEF TakeManager, TakeLease, Busy, EnterCreate, MakeRoot, WriteOwner, Install,
       Inspect, AttemptFails, EnterRecreate, EnterRemove, Delete, Check, Probe, Recheck,
       Snapshot, Dispatch, RunEnds, Crash, WriteRaises
  <2> QED BY <2>1, SealsSame DEF records
<1>2. ASSUME NEW p \in Procs, RecordIntent(p) PROVE Seals
  BY <1>2, InvParts DEF RecordIntent, Seals, SealInv, Unsealed, Intent
<1>3. ASSUME NEW p \in Procs, Seal(p) PROVE Seals
  BY <1>3, InvParts DEF Seal, Seals, SealInv, Unsealed
<1>4. ASSUME NEW p \in Procs, WriteLock(p) PROVE Seals
  BY <1>4 DEF WriteLock, Seals
<1>5. ASSUME NEW p \in Procs, CloseAttempt(p) \/ WriteHealth(p) PROVE Seals
  BY <1>5, SealsSame DEF CloseAttempt, WriteHealth
<1>6. ASSUME NEW s \in States, Restate(s), lockFiles' = lockFiles PROVE Seals
  <2>1. TypeDisk
    BY TypeParts DEF IInv
  <2> QED BY <1>6, <2>1, Restates DEF Seals, SealedIn
<1>7. ASSUME NEW p \in Procs, Installed(p) \/ ProbeCreation(p) PROVE Seals
  BY <1>6, <1>7, SealsSame DEF Installed, ProbeCreation, Passed, States, Verified, Transient
<1>8. ASSUME NEW p \in Procs, Conclude(p) \/ WriteState(p) PROVE Seals
  BY <1>6, <1>8, SealsSame, InvParts DEF Conclude, WriteState, TypeLocal, KnownInv, Concluding
<1>9. ASSUME NEW p \in Procs, VerifySeal(p) PROVE Seals
  <2>1. final'[p] \in States
    BY <1>9, Verdicts, InvParts DEF VerifySeal, TypeLocal, KnownInv, Concluding
  <2> QED BY <1>6, <1>9, <2>1 DEF VerifySeal
<1>10. ASSUME NEW p \in Procs, Reinspect(p) \/ RecordFailure(p) \/ RecordRemoval(p) PROVE Seals
  BY <1>6, <1>10, SealsSame, Verdicts DEF Reinspect, RecordFailure, RecordRemoval
<1>11. ASSUME NEW p \in Procs, NEW o \in Operations, Begin(p, o) PROVE Seals
  BY <1>11, SealsSame DEF Begin, records
<1>12. CASE StrayEnds \/ Outside \/ UNCHANGED vars
  BY <1>12, SealsSame DEF StrayEnds, Outside, vars, records
<1> QED BY <1>1, <1>2, <1>3, <1>4, <1>5, <1>7, <1>8, <1>9, <1>10, <1>11, <1>12
        DEF Next, Step

-----------------------------------------------------------------------------
\* Type correctness of the managed environment's records, directory and commands.
THEOREM TypeCorrect == Spec => []TypeOK
<1>1. IInv => TypeOK
  BY DEF IInv
<1> QED BY InitInv, NextStep, <1>1, PTL DEF Spec

\* After any crash a lock that is referred to exists, and an installation recorded as
\* verified is a sealed one (WriteLock before Seal, and Seal before the journal closes).
THEOREM SealsAreDurable == Spec => []SealIsDurable
<1>1. IInv => SealIsDurable
  BY DEF IInv, SharedInv
<1> QED BY InitInv, NextStep, <1>1, PTL DEF Spec

\* A sealed identity is immutable: recreate refuses it, removal and failure rewrite the
\* state only, and no step deletes a lock file.
THEOREM SealsStay == Spec => SealImmutable
<1>1. IInv /\ [Next]_vars
        => [SealedIn(descriptor) => /\ SealedIn(descriptor')
                                    /\ descriptor'.lock = descriptor.lock
                                    /\ lockFiles \subseteq lockFiles']_vars
  BY SealStays DEF Seals
<1> QED BY InitInv, NextStep, <1>1, PTL DEF Spec, SealImmutable

\* A managed run holds what it was planned for: verify_run_plan_environment compared lock
\* and plan, and the lease keeps everybody else away until the worker has exited.
THEOREM RunsAsPlanned == Spec => []RunsWhatWasPlanned
<1>1. IInv => RunsWhatWasPlanned
  <2> SUFFICES ASSUME IInv, NEW p \in Procs, pc[p] = "running"
               PROVE  /\ descriptor.lock = pinned /\ seen[p] = pinned
                      /\ descriptor.state \in Verified
                      /\ Owned /\ root.python
    BY DEF RunsWhatWasPlanned
  <2>1. RunInv(p)
    BY DEF IInv, Local
  <2> QED BY <2>1 DEF RunInv
<1> QED BY InitInv, NextStep, <1>1, PTL DEF Spec

-----------------------------------------------------------------------------
(* Settled records: what each place in a command knows of the verdict it is *)
(* about to write, as long as no command was cut short.                     *)

\* Descriptor and health record tell the same verdict, and what they call verified is sealed.
Settled == descriptor # None =>
  /\ descriptor.state = health
  /\ descriptor.state \notin Transient
  /\ descriptor.state \in Verified => SealedIn(descriptor)

\* Before a command's first record and after its last; and where its verdict is known.
Quiet == {"create", "recreate", "record", "intent", "remove", "delete", "unrecord"}
           \cup (Checking \ {"writeState"})
Judged == {"capability", "conclude", "reinspect", "writeLock", "seal", "verify", "closeJournal",
           "closeHealth", "recheck", "writeHealth", "writeState"}

SettleInv(p) ==
  /\ pc[p] \in Quiet => Settled
  /\ pc[p] \in Judged => final[p] \notin Transient
  /\ pc[p] \in {"closeJournal", "closeHealth"}
       => descriptor.state = final[p] /\ (final[p] \in Verified => SealedIn(descriptor))
  /\ pc[p] = "writeState" => health = final[p]
  /\ pc[p] = "failHealth" => descriptor.state = "broken"
  /\ pc[p] = "unhealth" => descriptor.state = "not_installed"

\* The lease is somebody's who is past the locks: whoever leaves gives it back.
SInv ==
  /\ \A p \in Procs : lease = p => pc[p] \in Inside
  /\ ~interrupted => (lease = None => Settled) /\ \A p \in Procs : SettleInv(p)

\* What a step of a process past the locks has to establish.
Settles(p) == (lease' = None => Settled') /\ SettleInv(p)'

LEMMA QuietInside == Quiet \cup Judged \cup {"failHealth", "unhealth"} \subseteq Inside
BY DEF Quiet, Judged, Inside, Intent, Attempt, Failing, Removing, Checking

LEMMA IdleSettles == \A q : pc'[q] \notin Inside => SettleInv(q)'
BY QuietInside DEF SettleInv, Judged

LEMMA FinalVerdicts ==
  /\ {"degraded", "incompatible", "broken", "drifted", "not_installed"} \cap Transient = {}
  /\ HardwareVerdicts \cap Transient = {} /\ EvidenceVerdicts \cap Transient = {}
  /\ Verified \cap Transient = {}
  /\ {"degraded", "incompatible", "broken", "drifted", "not_installed"} \cap Verified = {}
BY DEF HardwareVerdicts, EvidenceVerdicts, Verified, Transient

LEMMA SettleStepOf ==
  ASSUME IInv, SInv, NEW p \in Procs, pc[p] \in Inside,
         \A q \in Procs : q # p => pc'[q] = pc[q],
         lease' \in {p, None}, lease' = p => pc'[p] \in Inside,
         interrupted' = interrupted, ~interrupted => Settles(p)
  PROVE  SInv'
<1>1. \A q \in Procs : q # p => pc[q] \notin Inside
  BY DEF IInv, Local, HoldInv
<1>2. \A q \in Procs : q # p => SettleInv(q)'
  BY <1>1, IdleSettles
<1> QED BY <1>2, EnvironmentAssumption DEF SInv, Settles

\* Where the process is, and what it knows there.
LEMMA SettleParts ==
  ASSUME IInv, SInv, ~interrupted, NEW p \in Procs
  PROVE  SettleInv(p)
BY DEF SInv, SettleInv

\* The steps that rewrite no record: they stay among the quiet places, or leave.
Silent(p) ==
  \/ EnterCreate(p) \/ EnterRecreate(p) \/ EnterRemove(p) \/ Delete(p)
  \/ Check(p) \/ Probe(p) \/ Recheck(p) \/ Snapshot(p) \/ Dispatch(p) \/ RunEnds(p)

LEMMA SilentSettles ==
  ASSUME IInv, SInv, ~interrupted, NEW p \in Procs, Silent(p)
  PROVE  Settles(p)
<1>1. TypeControl /\ TypeLocal /\ SettleInv(p)
  BY InvParts, SettleParts
<1>2. pc[p] \in Quiet
  BY DEF Silent, Quiet, Checking, EnterCreate, EnterRecreate, EnterRemove, Delete, Check, Probe,
     Recheck, Snapshot, Dispatch, RunEnds
<1>3. Settled /\ UNCHANGED <<descriptor, health>>
  BY <1>1, <1>2 DEF SettleInv, Silent, EnterCreate, EnterRecreate, EnterRemove, Delete, Check,
     Probe, Recheck, Snapshot, Dispatch, RunEnds, records
<1>4. Settled'
  BY <1>3 DEF Settled, SealedIn
<1>5. pc'[p] \notin {"closeJournal", "closeHealth", "writeState", "failHealth", "unhealth"}
  BY <1>1 DEF Silent, EnterCreate, EnterRecreate, EnterRemove, Delete, Check,
     Probe, Recheck, Snapshot, Dispatch, RunEnds, Stay, Leave, Go, TypeControl
<1>6. pc'[p] \in Judged => final'[p] \notin Transient
  <2>1. CASE Probe(p)
    <3>1. \E v \in ProbeVerdicts : final'[p] = v
      BY <1>1, <2>1 DEF Probe, TypeLocal
    <3> QED BY <3>1, FinalVerdicts DEF ProbeVerdicts
  <2>2. CASE Recheck(p)
    <3>1. final'[p] \in {"broken", "drifted", final[p]}
      BY <1>1, <2>2 DEF Recheck, TypeLocal
    <3>2. final[p] \notin Transient
      BY <1>1, <2>2 DEF SettleInv, Recheck, Judged
    <3> QED BY <3>1, <3>2, FinalVerdicts
  <2>3. CASE Check(p)
    <3>1. \/ pc'[p] \notin Judged
          \/ \E v \in LiveVerdicts : v # "clean" /\ final'[p] = v
      BY <1>1, <2>3 DEF Check, Judged, Leave, Stay, Go, TypeLocal, TypeControl
    <3>2. LiveVerdicts \subseteq {"broken", "drifted", "not_installed", "clean"}
      BY DEF LiveVerdicts
    <3> QED BY <3>1, <3>2, FinalVerdicts
  <2>4. CASE ~Probe(p) /\ ~Recheck(p) /\ ~Check(p)
    BY <1>1, <2>4 DEF Silent, EnterCreate, EnterRecreate, EnterRemove, Delete, Snapshot, Dispatch,
       RunEnds, Stay, Leave, Go, TypeControl, Judged
  <2> QED BY <2>1, <2>2, <2>3, <2>4
<1> QED BY <1>4, <1>5, <1>6 DEF Settles, SettleInv

\* The steps of an attempt before it has a verdict: nothing is claimed of its records.
Attempting(p) ==
  \/ MakeRoot(p) \/ WriteOwner(p) \/ Install(p) \/ Installed(p) \/ Inspect(p) \/ AttemptFails(p)

LEMMA AttemptSettles ==
  ASSUME IInv, NEW p \in Procs, Attempting(p)
  PROVE  Settles(p)
<1>1. TypeControl /\ lease = p
  BY InvParts DEF HoldInv, Attempting, MakeRoot, WriteOwner, Install, Installed, Inspect,
     AttemptFails, Inside, Attempt
<1>2. pc'[p] \in {"mark", "venv", "packages", "worker", "installed", "inspect", "import",
                  "failJournal"}
  BY <1>1 DEF Attempting, MakeRoot, WriteOwner, Install, Installed, Inspect, AttemptFails,
     Stay, Go, TypeControl
<1>3. lease' # None
  BY <1>1, EnvironmentAssumption
  DEF Attempting, MakeRoot, WriteOwner, Install, Installed, Inspect,
     AttemptFails, Stay, locks
<1> QED BY <1>2, <1>3 DEF Settles, SettleInv, Quiet, Judged, Checking

LEMMA RecordIntentSettles ==
  ASSUME IInv, SInv, ~interrupted, NEW p \in Procs, RecordIntent(p)
  PROVE  Settles(p)
<1>1. TypeControl /\ lease = p /\ SettleInv(p)
  BY InvParts, SettleParts DEF HoldInv, RecordIntent, Inside, Intent
<1>2. lease' # None
  BY <1>1, EnvironmentAssumption DEF RecordIntent, Stay, locks
<1>3. pc'[p] \in {"intent", "journal", "announce", "mkdir"}
  BY <1>1 DEF RecordIntent, Stay, Go, TypeControl
<1>4. ASSUME pc'[p] = "intent" PROVE Settled'
  <2>1. pc[p] = "record" /\ UNCHANGED records
    BY <1>1, <1>4 DEF RecordIntent, Stay, Go, TypeControl
  <2>2. Settled
    BY <1>1, <2>1 DEF SettleInv, Quiet
  <2> QED BY <2>1, <2>2 DEF records, Settled, SealedIn
<1> QED BY <1>2, <1>3, <1>4 DEF Settles, SettleInv, Quiet, Judged, Checking

LEMMA ProbeCreationSettles ==
  ASSUME IInv, NEW p \in Procs, ProbeCreation(p)
  PROVE  Settles(p)
<1>1. TypeControl /\ TypeLocal /\ lease = p
  BY InvParts DEF HoldInv, ProbeCreation, Inside, Attempt
<1>2. lease' # None
  BY <1>1, EnvironmentAssumption DEF ProbeCreation, Stay, locks
<1>3. pc'[p] \in {"dependency", "functional", "hardware", "capability", "conclude"}
  BY <1>1 DEF ProbeCreation, NextStage, Stay, Go, TypeControl
<1>4. pc'[p] \in Judged => final'[p] \in {"degraded", "incompatible"} \cup Verified
  <2>1. CASE pc[p] \in {"import", "dependency", "functional"}
    BY <1>1, <2>1 DEF ProbeCreation, NextStage, Stay, Go, TypeControl, TypeLocal, Judged
  <2>2. CASE pc[p] = "hardware"
    <3>1. \E v \in HardwareVerdicts :
            final' = [final EXCEPT ![p] = IF required /\ v # "hardware_verified"
                                          THEN "incompatible" ELSE v]
      BY <2>2 DEF ProbeCreation
    <3> QED BY <1>1, <3>1 DEF HardwareVerdicts, Verified, TypeLocal
  <2>3. CASE pc[p] = "capability"
    <3>1. \E v \in EvidenceVerdicts : final' = [final EXCEPT ![p] = v]
      BY <2>3 DEF ProbeCreation
    <3> QED BY <1>1, <3>1 DEF EvidenceVerdicts, Verified, TypeLocal
  <2> QED BY <2>1, <2>2, <2>3 DEF ProbeCreation
<1>5. pc'[p] \in Judged => final'[p] \notin Transient
  BY <1>4, FinalVerdicts
<1> QED BY <1>2, <1>3, <1>5 DEF Settles, SettleInv, Quiet, Checking

LEMMA ConcludeSettles ==
  ASSUME IInv, SInv, ~interrupted, NEW p \in Procs, Conclude(p)
  PROVE  Settles(p)
<1>1. /\ TypeControl /\ TypeLocal /\ TypeDisk /\ lease = p /\ SettleInv(p)
      /\ descriptor # None /\ final[p] \in States
  BY InvParts, SettleParts DEF HoldInv, RecordInv, KnownInv, TypeLocal, Conclude, Inside, Attempt,
     Described, Concluding
<1>2. lease' # None /\ final'[p] = final[p] /\ final[p] \notin Transient
  BY <1>1, EnvironmentAssumption DEF Conclude, Stay, locks, locals, SettleInv, Judged
<1>3. CASE final[p] \in Verified
  BY <1>1, <1>2, <1>3 DEF Conclude, Stay, Go, TypeControl, Settles, SettleInv, Quiet, Judged,
     Checking
<1>4. CASE final[p] \notin Verified
  <2>1. pc'[p] = "closeJournal" /\ Restate(final[p])
    BY <1>1, <1>4 DEF Conclude, Stay, Go, TypeControl
  <2>2. descriptor'.state = final[p]
    BY <1>1, <2>1, Restates
  <2> QED BY <1>2, <1>4, <2>1, <2>2 DEF Settles, SettleInv, Quiet, Checking
<1> QED BY <1>3, <1>4

LEMMA ReinspectSettles ==
  ASSUME IInv, SInv, ~interrupted, NEW p \in Procs, Reinspect(p)
  PROVE  Settles(p)
<1>1. /\ TypeControl /\ TypeLocal /\ TypeDisk /\ lease = p /\ SettleInv(p) /\ descriptor # None
  BY InvParts, SettleParts DEF HoldInv, RecordInv, Reinspect, Inside, Attempt, Described
<1>2. lease' # None
  BY <1>1, EnvironmentAssumption DEF Reinspect, Stay, locks
<1>3. CASE PackageDrift(seen[p], root.packages)
  <2>1. pc'[p] = "closeJournal" /\ final'[p] = "drifted" /\ Restate("drifted")
    BY <1>1, <1>3 DEF Reinspect, Stay, Go, TypeControl, TypeLocal
  <2>2. descriptor'.state = "drifted"
    BY <1>1, <2>1, Restates, Verdicts
  <2> QED BY <1>2, <2>1, <2>2, FinalVerdicts DEF Settles, SettleInv, Quiet, Checking
<1>4. CASE ~PackageDrift(seen[p], root.packages)
  <2>1. pc'[p] = "writeLock" /\ final'[p] = final[p]
    BY <1>1, <1>4 DEF Reinspect, Stay, Go, TypeControl
  <2> QED BY <1>1, <1>2, <2>1 DEF Reinspect, Settles, SettleInv, Quiet, Judged, Checking
<1> QED BY <1>3, <1>4

LEMMA SealingSettles ==
  ASSUME IInv, SInv, ~interrupted, NEW p \in Procs, WriteLock(p) \/ Seal(p)
  PROVE  Settles(p)
<1>1. TypeControl /\ lease = p /\ SettleInv(p)
  BY InvParts, SettleParts DEF HoldInv, WriteLock, Seal, Inside, Attempt
<1>2. lease' # None /\ final'[p] = final[p] /\ pc'[p] \in {"seal", "verify"}
  BY <1>1, EnvironmentAssumption DEF WriteLock, Seal, Stay, Go, locks, locals, TypeControl
<1> QED BY <1>1, <1>2 DEF WriteLock, Seal, Settles, SettleInv, Quiet, Judged, Checking

LEMMA VerifySealSettles ==
  ASSUME IInv, SInv, ~interrupted, NEW p \in Procs, VerifySeal(p)
  PROVE  Settles(p)
<1>1. /\ TypeControl /\ TypeLocal /\ TypeDisk /\ lease = p /\ SettleInv(p)
      /\ descriptor # None /\ SealedIn(descriptor) /\ final[p] \in States
  BY InvParts, SettleParts DEF HoldInv, RecordInv, SealInv, KnownInv, TypeLocal, VerifySeal,
     Inside, Attempt, Described, Concluding
<1>2. lease' # None /\ pc'[p] = "closeJournal"
  BY <1>1, EnvironmentAssumption DEF VerifySeal, Stay, Go, locks, TypeControl
<1>3. final'[p] \in {"drifted", final[p]} /\ Restate(final'[p])
  BY <1>1 DEF VerifySeal, TypeLocal
<1>4. final'[p] \in States /\ final'[p] \notin Transient
  BY <1>1, <1>3, Verdicts, FinalVerdicts DEF SettleInv, VerifySeal, Judged
<1>5. descriptor'.state = final'[p] /\ descriptor' # None /\ descriptor'.lock = descriptor.lock
  BY <1>1, <1>3, <1>4, Restates
<1> QED BY <1>1, <1>2, <1>4, <1>5 DEF Settles, SettleInv, SealedIn, Quiet, Checking

LEMMA CloseAttemptSettles ==
  ASSUME IInv, SInv, ~interrupted, NEW p \in Procs, CloseAttempt(p)
  PROVE  Settles(p)
<1>1. TypeControl /\ TypeLocal /\ lease = p /\ SettleInv(p)
  BY InvParts, SettleParts DEF HoldInv, CloseAttempt, Inside, Attempt
<1>2. /\ descriptor.state = final[p] /\ final[p] \notin Transient
      /\ final[p] \in Verified => SealedIn(descriptor)
      /\ descriptor' = descriptor
  BY <1>1 DEF CloseAttempt, SettleInv, Judged
<1>3. CASE pc[p] = "closeJournal"
  <2>1. lease' # None /\ pc'[p] = "closeHealth" /\ final'[p] = final[p]
    BY <1>1, <1>3, EnvironmentAssumption DEF CloseAttempt, Stay, Go, locks, locals, TypeControl
  <2> QED BY <1>2, <2>1 DEF Settles, SettleInv, SealedIn, Quiet, Checking
<1>4. CASE pc[p] = "closeHealth"
  <2>1. health' = final[p] /\ pc'[p] \notin Inside
    BY <1>1, <1>4, Leaves, AllLabels DEF CloseAttempt
  <2>2. Settled'
    BY <1>2, <2>1 DEF Settled, SealedIn
  <2> QED BY <2>1, <2>2, IdleSettles DEF Settles
<1> QED BY <1>3, <1>4 DEF CloseAttempt

LEMMA RecordFailureSettles ==
  ASSUME IInv, SInv, ~interrupted, NEW p \in Procs, RecordFailure(p)
  PROVE  Settles(p)
<1>1. /\ TypeControl /\ TypeLocal /\ TypeDisk /\ lease = p /\ SettleInv(p) /\ descriptor # None
  BY InvParts, SettleParts DEF HoldInv, RecordInv, RecordFailure, Inside, Failing, Described
<1>2. CASE pc[p] = "failJournal"
  <2>1. lease' # None /\ pc'[p] = "failDescriptor"
    BY <1>1, <1>2, EnvironmentAssumption DEF RecordFailure, Stay, Go, locks, TypeControl
  <2> QED BY <2>1 DEF Settles, SettleInv, Quiet, Judged, Checking
<1>3. CASE pc[p] = "failDescriptor"
  <2>1. lease' # None /\ pc'[p] = "failHealth" /\ Restate("broken")
    BY <1>1, <1>3, EnvironmentAssumption DEF RecordFailure, Stay, Go, locks, TypeControl
  <2>2. descriptor'.state = "broken"
    BY <1>1, <2>1, Restates, Verdicts
  <2> QED BY <2>1, <2>2 DEF Settles, SettleInv, Quiet, Judged, Checking
<1>4. CASE pc[p] = "failHealth"
  <2>1. health' = "broken" /\ pc'[p] \notin Inside /\ descriptor' = descriptor
    BY <1>1, <1>4, Leaves, AllLabels DEF RecordFailure
  <2>2. descriptor.state = "broken"
    BY <1>1, <1>4 DEF SettleInv
  <2>3. Settled'
    BY <2>1, <2>2, FinalVerdicts DEF Settled
  <2> QED BY <2>1, <2>3, IdleSettles DEF Settles
<1> QED BY <1>2, <1>3, <1>4 DEF RecordFailure

LEMMA RecordRemovalSettles ==
  ASSUME IInv, SInv, ~interrupted, NEW p \in Procs, RecordRemoval(p)
  PROVE  Settles(p)
<1>1. /\ TypeControl /\ TypeLocal /\ TypeDisk /\ lease = p /\ SettleInv(p) /\ descriptor # None
  BY InvParts, SettleParts DEF HoldInv, RecordInv, RecordRemoval, Inside, Removing, Described
<1>2. CASE pc[p] = "unrecord"
  <2>1. lease' # None /\ pc'[p] = "unhealth" /\ Restate("not_installed")
    BY <1>1, <1>2, EnvironmentAssumption DEF RecordRemoval, Stay, Go, locks, TypeControl
  <2>2. descriptor'.state = "not_installed"
    BY <1>1, <2>1, Restates, Verdicts
  <2> QED BY <2>1, <2>2 DEF Settles, SettleInv, Quiet, Judged, Checking
<1>3. CASE pc[p] = "unhealth"
  <2>1. health' = "not_installed" /\ descriptor' = descriptor /\ pc'[p] \in {"create", "idle"}
    BY <1>1, <1>3 DEF RecordRemoval, Stay, Leave, Go, TypeControl
  <2>2. descriptor.state = "not_installed"
    BY <1>1, <1>3 DEF SettleInv
  <2>3. Settled'
    BY <2>1, <2>2, FinalVerdicts DEF Settled
  <2> QED BY <2>1, <2>3 DEF Settles, SettleInv, Judged
<1> QED BY <1>2, <1>3 DEF RecordRemoval

LEMMA WriteHealthSettles ==
  ASSUME IInv, SInv, ~interrupted, NEW p \in Procs, WriteHealth(p)
  PROVE  Settles(p)
<1>1. TypeControl /\ lease = p /\ SettleInv(p)
  BY InvParts, SettleParts DEF HoldInv, WriteHealth, Inside, Checking
<1>2. lease' # None /\ pc'[p] = "writeState" /\ final'[p] = final[p] /\ health' = final[p]
  BY <1>1, EnvironmentAssumption DEF WriteHealth, Stay, Go, locks, locals, TypeControl
<1> QED BY <1>1, <1>2 DEF WriteHealth, Settles, SettleInv, Quiet, Judged

LEMMA WriteStateSettles ==
  ASSUME IInv, SInv, ~interrupted, NEW p \in Procs, WriteState(p)
  PROVE  Settles(p)
<1>1. /\ TypeControl /\ TypeDisk /\ SettleInv(p) /\ descriptor # None /\ final[p] \in States
      /\ final[p] \in Verified => SealedIn(descriptor)
  BY InvParts, SettleParts DEF RecordInv, RunInv, KnownInv, TypeLocal, WriteState, Described,
     Checking, Concluding
<1>2. health' = health /\ Restate(final[p]) /\ pc'[p] \in {"snapshot", "dispatch", "idle"}
  BY <1>1 DEF WriteState, Stay, Leave, Go, TypeControl
<1>3. descriptor'.state = final[p] /\ descriptor' # None /\ descriptor'.lock = descriptor.lock
  BY <1>1, <1>2, Restates
<1>4. health = final[p] /\ final[p] \notin Transient
  BY <1>1 DEF WriteState, SettleInv, Judged
<1>5. Settled'
  BY <1>1, <1>2, <1>3, <1>4 DEF Settled, SealedIn
<1> QED BY <1>2, <1>5 DEF Settles, SettleInv, Judged

\* A command's step moves nobody else and cuts nothing short.
LEMMA Elsewhere ==
  ASSUME TypeControl, NEW p \in Procs, Step(p)
  PROVE  (\A q \in Procs : q # p => pc'[q] = pc[q]) /\ interrupted' = interrupted
<1>0. CASE TakeManager(p) \/ TakeLease(p) \/ Busy(p)
  BY <1>0 DEF TakeManager, TakeLease, Busy, Leave, Go, TypeControl, trouble
<1>1. CASE Silent(p)
  BY <1>1
  DEF Silent, EnterCreate, EnterRecreate, EnterRemove, Delete, Check, Probe, Recheck,
     Snapshot, Dispatch, RunEnds, Stay, Leave, Go, TypeControl, trouble
<1>2. CASE Attempting(p) \/ RecordIntent(p) \/ ProbeCreation(p) \/ Conclude(p) \/ Reinspect(p)
           \/ WriteLock(p) \/ Seal(p) \/ VerifySeal(p)
  BY <1>2 DEF Attempting, MakeRoot, WriteOwner, Install, Installed, Inspect, AttemptFails,
     RecordIntent, ProbeCreation, Conclude, Reinspect, WriteLock, Seal, VerifySeal, Stay, Go,
     TypeControl, trouble
<1>3. CASE CloseAttempt(p) \/ RecordFailure(p) \/ RecordRemoval(p) \/ WriteHealth(p)
           \/ WriteState(p)
  BY <1>3
  DEF CloseAttempt, RecordFailure, RecordRemoval, WriteHealth, WriteState, Stay, Leave,
     Go, TypeControl, trouble
<1> QED BY <1>0, <1>1, <1>2, <1>3 DEF Step, Silent, Attempting

\* Whoever is not past the locks takes one of them or gives up.
LEMMA StartsOutside ==
  ASSUME NEW p \in Procs, pc[p] \notin Inside, Step(p)
  PROVE  TakeManager(p) \/ TakeLease(p) \/ Busy(p)
BY DEF Step, Inside, Intent, Attempt, Failing, Removing, Checking, EnterCreate, RecordIntent,
   MakeRoot, WriteOwner, Install, Installed, Inspect, ProbeCreation, Conclude, Reinspect,
   WriteLock, Seal, VerifySeal, CloseAttempt, AttemptFails, RecordFailure, EnterRecreate,
   EnterRemove, Delete, RecordRemoval, Check, Probe, Recheck, WriteHealth, WriteState, Snapshot,
   Dispatch, RunEnds

\* A step of a process that is past the locks.
LEMMA InsideSettles ==
  ASSUME IInv, SInv, NEW p \in Procs, pc[p] \in Inside, Step(p)
  PROVE  SInv'
<1>1. TypeControl /\ TypeLocal
  BY InvParts
<1>2. ~TakeManager(p) /\ ~TakeLease(p) /\ ~Busy(p)
  BY AllLabels DEF TakeManager, TakeLease, Busy
<1>3. /\ \A q \in Procs : q # p => pc'[q] = pc[q]
      /\ interrupted' = interrupted
  BY <1>1, Elsewhere
<1>4. ASSUME ~interrupted PROVE Settles(p)
  BY <1>2, <1>4, SilentSettles, AttemptSettles, RecordIntentSettles, ProbeCreationSettles,
     ConcludeSettles, ReinspectSettles, SealingSettles, VerifySealSettles, CloseAttemptSettles,
     RecordFailureSettles, RecordRemovalSettles, WriteHealthSettles, WriteStateSettles
     DEF Step, Silent, Attempting
<1>5. lease = p /\ lease' \in {p, None} /\ (lease' = p => pc'[p] \in Inside)
  <2>1. lease = p
    BY InvParts DEF HoldInv
  <2>2. lease' = None \/ (lease' = p /\ pc'[p] \in Inside)
    <3>1. CASE Silent(p)
      BY <1>1, <2>1, <3>1 DEF Silent, EnterCreate, EnterRecreate, EnterRemove, Delete, Check,
         Probe, Recheck, Snapshot, Dispatch, RunEnds, Stay, Leave, Go, locks, TypeControl, Inside,
         Intent, Removing, Checking
    <3>2. CASE Attempting(p)
      BY <1>1, <2>1, <3>2 DEF Attempting, MakeRoot, WriteOwner, Install, Installed, Inspect,
         AttemptFails, Stay, Go, locks, TypeControl, Inside, Attempt, Failing
    <3>3. CASE RecordIntent(p) \/ ProbeCreation(p) \/ Conclude(p) \/ Reinspect(p)
               \/ WriteLock(p) \/ Seal(p) \/ VerifySeal(p)
      BY <1>1, <2>1, <3>3 DEF RecordIntent, ProbeCreation, NextStage, Conclude, Reinspect,
         WriteLock, Seal, VerifySeal, Stay, Go, locks, TypeControl, Inside, Intent, Attempt
    <3>4. CASE CloseAttempt(p) \/ RecordFailure(p) \/ RecordRemoval(p) \/ WriteHealth(p)
               \/ WriteState(p)
      BY <1>1, <2>1, <3>4 DEF CloseAttempt, RecordFailure, RecordRemoval, WriteHealth, WriteState,
         Stay, Leave, Go, locks, TypeControl, Inside, Attempt, Failing, Removing, Checking
    <3> QED BY <1>2, <3>1, <3>2, <3>3, <3>4 DEF Step, Silent, Attempting
  <2> QED BY <2>1, <2>2, EnvironmentAssumption
<1> QED BY <1>3, <1>4, <1>5, SettleStepOf

\* A step that changes no record, by somebody who is not past the locks.
LEMMA OutsideSettles ==
  ASSUME IInv, SInv, interrupted' = interrupted, UNCHANGED records,
         lease' = None => lease = None,
         \A q \in Procs : \/ pc'[q] = pc[q] /\ final'[q] = final[q]
                          \/ pc'[q] \notin Inside
                          \/ lease = None /\ pc'[q] \in {"create", "recreate", "remove", "check"}
  PROVE  ~interrupted => (lease' = None => Settled') /\ \A q \in Procs : SettleInv(q)'
<1> SUFFICES ASSUME ~interrupted
             PROVE  (lease' = None => Settled') /\ \A q \in Procs : SettleInv(q)'
  OBVIOUS
<1>1. Settled <=> Settled'
  BY DEF records, Settled, SealedIn
<1>2. ASSUME NEW q \in Procs, pc'[q] = pc[q] /\ final'[q] = final[q] PROVE SettleInv(q)'
  <2>1. SettleInv(q)
    BY SettleParts
  <2> QED BY <1>1, <1>2, <2>1 DEF SettleInv, SealedIn, records
<1>3. ASSUME NEW q \in Procs, lease = None, pc'[q] \in {"create", "recreate", "remove", "check"}
      PROVE  SettleInv(q)'
  BY <1>1, <1>3 DEF SInv, SettleInv, Judged
<1> QED BY <1>1, <1>2, <1>3, IdleSettles DEF SInv

\* Nobody holds the lease who is not past the locks.
LEMMA HolderStep ==
  ASSUME IInv, SInv,
         \A q \in Procs : \/ lease' = lease /\ pc'[q] = pc[q]
                          \/ lease' # q
                          \/ pc'[q] \in Inside
  PROVE  \A q \in Procs : lease' = q => pc'[q] \in Inside
BY DEF SInv

LEMMA SettleStep == IInv /\ SInv /\ [Next]_vars => SInv'
<1> SUFFICES ASSUME IInv, SInv, [Next]_vars PROVE SInv'
  OBVIOUS
<1>1. TypeControl /\ TypeLocal
  BY TypeParts DEF IInv
<1>2. ASSUME NEW p \in Procs, pc[p] \in Inside, Step(p) PROVE SInv'
  BY <1>2, InsideSettles
<1>3. ASSUME NEW p \in Procs, pc[p] \notin Inside, Step(p) PROVE SInv'
  <2>1. TakeManager(p) \/ TakeLease(p) \/ Busy(p)
    BY <1>3, StartsOutside
  <2>2. lease # p
    BY <1>3 DEF SInv
  <2>3. CASE TakeManager(p)
    <3>1. /\ UNCHANGED records /\ lease' = lease /\ interrupted' = interrupted
          /\ \A q \in Procs : \/ pc'[q] = pc[q] /\ final'[q] = final[q]
                              \/ lease # q /\ pc'[q] \notin Inside
      BY <1>1, <2>2, <2>3, AllLabels DEF TakeManager, Go, TypeControl, locals, trouble
    <3> QED BY <3>1, OutsideSettles, HolderStep DEF SInv
  <2>4. CASE TakeLease(p)
    <3>1. /\ UNCHANGED records /\ lease = None /\ lease' = p /\ p # None
          /\ interrupted' = interrupted
          /\ pc'[p] \in {"create", "recreate", "remove", "check"}
          /\ \A q \in Procs : q # p => pc'[q] = pc[q] /\ final'[q] = final[q]
      BY <1>1, <2>4, EnvironmentAssumption DEF TakeLease, Entry, Go, TypeControl, locals, trouble
    <3>2. {"create", "recreate", "remove", "check"} \subseteq Inside
      BY DEF Inside, Removing, Checking
    <3> QED BY <3>1, <3>2, OutsideSettles, HolderStep DEF SInv
  <2>5. CASE Busy(p)
    <3>1. Leave(p) /\ UNCHANGED <<records, interrupted>>
      BY <2>5 DEF Busy, trouble
    <3>2. /\ lease' = lease /\ pc'[p] \notin Inside
          /\ \A q \in Procs : q # p => pc'[q] = pc[q] /\ final'[q] = final[q]
      BY <1>1, <2>2, <3>1, Leaves, AllLabels
    <3> QED BY <2>2, <3>1, <3>2, OutsideSettles, HolderStep DEF SInv
  <2> QED BY <2>1, <2>3, <2>4, <2>5
<1>4. ASSUME NEW p \in Procs, Crash(p) \/ WriteRaises(p) PROVE SInv'
  <2>1. Leave(p) /\ interrupted'
    BY <1>4 DEF Crash, WriteRaises
  <2>2. \A q \in Procs : lease' = q => pc'[q] \in Inside
    <3>1. \A q \in Procs : q # p => pc'[q] = pc[q]
      BY <1>1, <2>1, Leaves
    <3>2. lease' # p
      BY <1>1, <2>1, Leaves, EnvironmentAssumption
    <3>3. lease' = lease \/ lease' = None
      BY <1>1, <2>1, Leaves
    <3> QED BY <3>1, <3>2, <3>3, EnvironmentAssumption DEF SInv
  <2> QED BY <2>1, <2>2 DEF SInv
<1>5. ASSUME NEW p \in Procs, NEW o \in Operations, Begin(p, o) PROVE SInv'
  <2>1. /\ UNCHANGED records /\ lease' = lease /\ interrupted' = interrupted
        /\ pc'[p] \notin Inside /\ pc[p] \notin Inside
        /\ \A q \in Procs : q # p => pc'[q] = pc[q] /\ final'[q] = final[q]
    BY <1>1, <1>5, AllLabels DEF Begin, Go, locks, TypeControl, trouble
  <2>2. lease # p
    BY <2>1 DEF SInv
  <2> QED BY <2>1, <2>2, OutsideSettles, HolderStep DEF SInv
<1>6. ASSUME UNCHANGED <<records, pc, final, lease, interrupted>> PROVE SInv'
  <2>1. UNCHANGED records /\ pc' = pc /\ final' = final /\ lease' = lease
        /\ interrupted' = interrupted
    BY <1>6
  <2> QED BY <2>1, OutsideSettles, HolderStep DEF SInv
<1>7. CASE StrayEnds \/ Outside \/ UNCHANGED vars
  BY <1>6, <1>7 DEF StrayEnds, Outside, locks, locals, trouble, vars, records
<1> QED BY <1>2, <1>3, <1>4, <1>5, <1>7 DEF Next

LEMMA SettleInit == Init => SInv
BY EnvironmentAssumption, AllLabels, IdleSettles
   DEF Init, SInv, Settled, SettleInv, Quiet, Judged, Checking

\* With no command at work and none cut short, descriptor and health record agree, no attempt
\* is left half way, and what is called verified is sealed: every command writes its verdict
\* into both records before it gives the lease back.
THEOREM RecordsSettle == Spec => []SettledRecords
<1>1. SInv => SettledRecords
  BY DEF SInv, Settled, SettledRecords
<1>2. IInv /\ SInv /\ [Next]_vars => IInv' /\ SInv'
  BY NextStep, SettleStep
<1> QED BY InitInv, SettleInit, <1>1, <1>2, PTL DEF Spec

-----------------------------------------------------------------------------
(* The directory: what the manager writes into is what it made itself.     *)

\* Where the directory of a command is known: just made, marked, being filled, being removed.
DirInv(p) ==
  /\ pc[p] = "mark" => root.dir = "unmarked"
  /\ pc[p] \in {"venv", "packages"} => root.dir = "owned"
  /\ pc[p] = "delete" => root.dir \in {"owned", "unmarked"}

FInv == (root.dir = "foreign" => ~root.python) /\ \A p \in Procs : DirInv(p)

\* What a step does to a directory that somebody else made.
Keeps == root.dir = "foreign" /\ faults' = faults => root' = root

LEMMA DirElsewhere == \A q : pc'[q] \notin Inside => DirInv(q)'
BY DEF DirInv, Inside, Attempt, Removing

\* The steps of a process past the locks that leave the directory alone.
LEMMA RootKept ==
  ASSUME NEW p \in Procs, Step(p), ~MakeRoot(p), ~WriteOwner(p), ~Install(p), ~Delete(p)
  PROVE  root' = root
BY DEF Step, TakeManager, TakeLease, Busy, EnterCreate, RecordIntent, Installed, Inspect,
   ProbeCreation, Conclude, Reinspect, WriteLock, Seal, VerifySeal, CloseAttempt, AttemptFails,
   RecordFailure, EnterRecreate, EnterRemove, RecordRemoval, Check, Probe, Recheck, WriteHealth,
   WriteState, Snapshot, Dispatch, RunEnds

\* None of them comes to a place where the directory is known, except the removal.
LEMMA ComesTo ==
  ASSUME TypeControl, NEW p \in Procs, Step(p), ~MakeRoot(p), ~WriteOwner(p), ~Install(p),
         ~Delete(p)
  PROVE  /\ pc'[p] \notin {"mark", "venv", "packages"}
         /\ pc'[p] = "delete" => EnterRemove(p)
<1>1. CASE \/ TakeManager(p) \/ TakeLease(p) \/ Busy(p) \/ EnterCreate(p) \/ RecordIntent(p)
           \/ Installed(p) \/ Inspect(p) \/ ProbeCreation(p) \/ EnterRemove(p)
  BY <1>1 DEF TakeManager, TakeLease, Entry, Busy, EnterCreate, RecordIntent, Installed, Inspect,
     ProbeCreation, NextStage, EnterRemove, Stay, Leave, Go, TypeControl
<1>2. CASE \/ Conclude(p) \/ Reinspect(p) \/ WriteLock(p) \/ Seal(p) \/ VerifySeal(p)
           \/ CloseAttempt(p) \/ AttemptFails(p) \/ RecordFailure(p) \/ EnterRecreate(p)
  BY <1>2 DEF Conclude, Reinspect, WriteLock, Seal, VerifySeal, CloseAttempt, AttemptFails,
     RecordFailure, EnterRecreate, Stay, Leave, Go, TypeControl
<1>3. CASE \/ RecordRemoval(p) \/ Check(p) \/ Probe(p) \/ Recheck(p) \/ WriteHealth(p)
           \/ WriteState(p) \/ Snapshot(p) \/ Dispatch(p) \/ RunEnds(p)
  BY <1>3 DEF RecordRemoval, Check, Probe, Recheck, WriteHealth, WriteState, Snapshot, Dispatch,
     RunEnds, Stay, Leave, Go, TypeControl
<1> QED BY <1>1, <1>2, <1>3 DEF Step

LEMMA DirStep ==
  ASSUME IInv, FInv, NEW p \in Procs, Step(p)
  PROVE  (root'.dir = "foreign" => ~root'.python) /\ DirInv(p)' /\ Keeps
<1>1. TypeControl /\ TypeDisk /\ DirInv(p)
  BY InvParts DEF FInv
<1>2. CASE MakeRoot(p)
  <2>1. CASE root.dir = "absent"
    <3>1. root' = [dir |-> "unmarked", python |-> FALSE, packages |-> None] /\ pc'[p] = "mark"
      BY <1>1, <1>2, <2>1 DEF MakeRoot, NoRoot, Stay, Go, TypeControl
    <3> QED BY <2>1, <3>1 DEF DirInv, Keeps
  <2>2. CASE root.dir # "absent"
    <3>1. root' = root /\ pc'[p] = "failJournal"
      BY <1>1, <1>2, <2>2 DEF MakeRoot, Stay, Go, TypeControl
    <3> QED BY <3>1 DEF FInv, DirInv, Keeps
  <2> QED BY <2>1, <2>2
<1>3. CASE WriteOwner(p)
  <2>1. root' = [root EXCEPT !.dir = "owned"] /\ pc'[p] = "venv" /\ root.dir = "unmarked"
    BY <1>1, <1>3 DEF WriteOwner, Stay, Go, TypeControl, DirInv
  <2>2. root'.dir = "owned"
    BY <1>1, <2>1 DEF TypeDisk
  <2> QED BY <2>1, <2>2 DEF DirInv, Keeps
<1>4. CASE Install(p)
  <2>1. /\ pc[p] \in {"venv", "packages"} => root'.dir = "owned" /\ root.dir = "owned"
        /\ pc[p] = "worker" => root' = root
    BY <1>1, <1>4 DEF Install, TypeDisk, DirInv
  <2>2. /\ pc[p] \in {"venv", "packages", "worker"}
        /\ pc'[p] = "packages" => pc[p] = "venv"
        /\ pc'[p] \in {"packages", "worker", "installed", "failJournal"}
    BY <1>1, <1>4 DEF Install, Stay, Go, TypeControl
  <2> QED BY <2>1, <2>2 DEF FInv, DirInv, Keeps
<1>5. CASE Delete(p)
  <2>1. root.dir \in {"owned", "unmarked"}
    BY <1>1, <1>5 DEF Delete, DirInv
  <2>2. \/ root'.dir \in {"owned", "unmarked"} /\ pc'[p] = "delete"
        \/ root' = NoRoot /\ pc'[p] = "unrecord"
    BY <1>1, <1>5, <2>1 DEF Delete, TypeDisk, Owned, Stay, Go, TypeControl
  <2>3. NoRoot.dir = "absent"
    BY DEF NoRoot
  <2> QED BY <2>1, <2>2, <2>3 DEF DirInv, Keeps
<1>6. CASE ~MakeRoot(p) /\ ~WriteOwner(p) /\ ~Install(p) /\ ~Delete(p)
  <2>1. root' = root /\ pc'[p] \notin {"mark", "venv", "packages"}
    BY <1>1, <1>6, RootKept, ComesTo
  <2>2. pc'[p] = "delete" => root.dir = "owned"
    <3>1. pc'[p] = "delete" => EnterRemove(p)
      BY <1>1, <1>6, ComesTo
    <3>2. EnterRemove(p) /\ pc'[p] = "delete" => root.dir = "owned"
      BY <1>1 DEF EnterRemove, Owned, Stay, Leave, Go, TypeControl
    <3> QED BY <3>1, <3>2
  <2> QED BY <2>1, <2>2 DEF FInv, DirInv, Keeps
<1> QED BY <1>2, <1>3, <1>4, <1>5, <1>6

\* Whoever is not past the locks does not come to where the directory is known.
LEMMA DirOthers ==
  ASSUME IInv, NEW p \in Procs, pc[p] \in Inside, \A q \in Procs : q # p => pc'[q] = pc[q]
  PROVE  \A q \in Procs : q # p => DirInv(q)'
BY DirElsewhere DEF IInv, Local, HoldInv

LEMMA DirNext == IInv /\ FInv /\ [Next]_vars => FInv' /\ Keeps
<1> SUFFICES ASSUME IInv, FInv, [Next]_vars PROVE FInv' /\ Keeps
  OBVIOUS
<1>1. TypeControl /\ TypeLocal /\ TypeDisk /\ \A q \in Procs : HoldInv(q)
  BY TypeParts DEF IInv, Local
<1>2. ASSUME root' = root, \A q \in Procs : pc'[q] = pc[q] \/ pc'[q] \notin Inside
      PROVE  FInv' /\ Keeps
  BY <1>2, DirElsewhere DEF FInv, DirInv, Keeps
<1>3. ASSUME NEW p \in Procs, pc[p] \in Inside, Step(p) PROVE FInv' /\ Keeps
  <2>1. \A q \in Procs : q # p => pc'[q] = pc[q]
    BY <1>1, <1>3, AllLabels, Elsewhere
  <2> QED BY <1>3, <2>1, DirStep, DirOthers DEF FInv
<1>4. ASSUME NEW p \in Procs, pc[p] \notin Inside, Step(p) PROVE FInv' /\ Keeps
  <2>1. TakeManager(p) \/ TakeLease(p) \/ Busy(p)
    BY <1>4, StartsOutside
  <2>2. \A q \in Procs : q # p => pc'[q] = pc[q]
    BY <1>1, <2>1 DEF TakeManager, TakeLease, Busy, Leave, Go, TypeControl
  <2>3. \A q \in Procs : q # p => DirInv(q)'
    BY <2>1, <2>2 DEF FInv, DirInv, TakeManager, TakeLease, Busy
  <2> QED BY <1>4, <2>3, DirStep DEF FInv
<1>5. ASSUME NEW p \in Procs, Crash(p) \/ WriteRaises(p) PROVE FInv' /\ Keeps
  BY <1>1, <1>2, <1>5, Leaves, AllLabels DEF Crash, WriteRaises
<1>6. ASSUME NEW p \in Procs, NEW o \in Operations, Begin(p, o) PROVE FInv' /\ Keeps
  BY <1>1, <1>2, <1>6, AllLabels DEF Begin, Go, TypeControl
<1>7. CASE StrayEnds
  <2>1. /\ UNCHANGED pc
        /\ root'.dir = root.dir /\ root'.python = root.python
        /\ ~root.python => root' = root
    BY <1>1, <1>7 DEF StrayEnds, TypeDisk
  <2> QED BY <2>1 DEF FInv, DirInv, Keeps
<1>8. CASE Outside
  <2>1. UNCHANGED pc /\ faults' # faults
    <3>1. faults \in Nat
      BY TypeParts, EnvironmentAssumption DEF IInv, TypeRest
    <3> QED BY <1>8, <3>1 DEF Outside, Fault
  <2>2. CASE root' = root
    BY <2>1, <2>2 DEF FInv, DirInv, Keeps
  <2>3. CASE root.dir = "absent" /\ root' = [NoRoot EXCEPT !.dir = "foreign"]
    <3>1. root'.dir = "foreign" /\ root'.python = FALSE
      BY <2>3 DEF NoRoot
    <3> QED BY <2>1, <2>3, <3>1 DEF FInv, DirInv, Keeps
  <2>4. CASE root.python /\ \E c \in Contents : root' = [root EXCEPT !.packages = c]
    <3>1. root'.dir = root.dir /\ root'.python = root.python
      BY <1>1, <2>4 DEF TypeDisk
    <3> QED BY <2>1, <3>1 DEF FInv, DirInv, Keeps
  <2>5. CASE lease = None /\ root' = NoRoot
    <3>1. \A q \in Procs : pc[q] \notin Inside
      BY <1>1, <2>5, EnvironmentAssumption DEF HoldInv
    <3>2. \A q \in Procs : DirInv(q)'
      BY <2>1, <3>1, DirElsewhere
    <3>3. root'.dir = "absent"
      BY <2>5 DEF NoRoot
    <3> QED BY <2>1, <3>2, <3>3 DEF FInv, Keeps
  <2> QED BY <1>8, <2>2, <2>3, <2>4, <2>5 DEF Outside
<1>9. CASE UNCHANGED vars
  BY <1>2, <1>9 DEF vars
<1> QED BY <1>3, <1>4, <1>5, <1>6, <1>7, <1>8, <1>9 DEF Next

\* A directory that somebody else made in the environment's place stays as it is: creation
\* makes its own, and only what carries the manager's marker is removed.
THEOREM ForeignStays == Spec => ForeignKept
<1>1. Init => FInv
  BY AllLabels, DirElsewhere DEF Init, FInv, DirInv, NoRoot
<1>2. IInv /\ FInv /\ [Next]_vars
        => IInv' /\ FInv'
             /\ [root.dir = "foreign" /\ faults' = faults => root' = root]_vars
  BY NextStep, DirNext DEF Keeps
<1> QED BY InitInv, <1>1, <1>2, PTL DEF Spec, ForeignKept
=============================================================================
