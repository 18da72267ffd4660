---------------------------- MODULE SealedPackages ----------------------------
(***************************************************************************)
(* What the lock of a managed environment says of its packages             *)
(* (platform/environment_manager.py and environments.py): from the review  *)
(* of a recipe and of the worker's wheel, through pip's install steps with *)
(* their reports, the inventories before and after the probes, the sealed  *)
(* lock and its later checks, to the packages that a capability report is  *)
(* bound to.                                                               *)
(*                                                                         *)
(* The leases and records of the same operations are in                    *)
(* EnvironmentManager.  Here the environment's files matter: others        *)
(* replace the wheel, alter or remove an installed package, with or        *)
(* without its RECORD, or leave a file that no RECORD names.               *)
(***************************************************************************)
EXTENDS WorkerWheel

CONSTANT MaxMeddling   \* bound on what others do to the wheel and the environment

VARIABLES phase,       \* the manager's next step
          tier,        \* the recipe's assurance tier
          plan,        \* the reviewed resolution
          site,        \* what site-packages holds
          stray,       \* site-packages holds a file that no RECORD names
          reported,    \* package_install_evidence
          seen,        \* the inventory being taken or compared
          before,      \* the inventory before the creation probes
          lock,        \* the sealed lock
          state,       \* the state recorded for the environment
          probed,      \* what the last probes imported
          purpose,     \* what the running check is for
          bound,       \* the packages of the last managed capability report
          meddling

packageVars == <<phase, tier, plan, site, stray, reported, seen, before, lock, state, probed,
                 purpose, bound, meddling>>

Names == {"torch", "dep", "worker"}
Profiled == {"torch", "dep"}

\* The tiers of which recipes exist, those that pin a worker wheel, and those env-create accepts.
Tiers == {"standard", "verified", "sealed"}
PinsWheel == tier \in {"verified", "sealed"}
Creatable == tier \in {"standard", "sealed"}

\* What a package's files hold; what others write there differs each time.
Altered == <<Of("altered"), Of("altered again"), Of("altered once more")>>
PackagesAssumption ==
  /\ WheelAssumption /\ MaxMeddling \in 0..Len(Altered)
  \* A commit is none of what else files hold.
  /\ Commits \cap {"edited", "artifact", "local", "altered", "altered again",
                   "altered once more"} = {}

FileBytes == Sources \cup {Of("artifact"), Of("local")} \cup {Altered[n] : n \in 1..MaxMeddling}

\* An installed package: its version, its files, and the files that its RECORD describes.
Installed == [version : {"pinned", "other"}, bytes : FileBytes, record : FileBytes]
Intact(b, v) == [version |-> v, bytes |-> b, record |-> b]

Sites == [Names -> Installed \cup {None}]
Nothing == [p \in Names |-> None]

Plans == [worker : WheelOf(FileBytes) \cup {None}, floor : Commits \cup {None},
          commit : Commits \cup {None}, resolvable : BOOLEAN]

Phases == {"review", "confirm", "torch", "dep", "recheck", "worker", "inventory", "framework",
           "complete", "probe", "compare", "seal", "settle", "rest", "health", "bind", "over"}

TypeOK ==
  /\ WheelTypeOK
  /\ wheel = None \/ wheel \in WheelOf(FileBytes)
  /\ phase \in Phases /\ tier \in Tiers
  /\ plan = None \/ plan \in Plans
  /\ \A p \in Names : site[p] = None \/ site[p] \in Installed
  /\ stray \in BOOLEAN
  /\ \A p \in Names : reported[p] = None \/ reported[p].version \in {"pinned", "other"}
  /\ bound = None \/ \A p \in Profiled : bound[p] = None \/ bound[p] \in Installed
  /\ \A i \in {seen, before, probed} :
        i = None \/ \A p \in Names : i[p] = None \/ i[p] \in Installed
  /\ lock = None \/ \A p \in Names : lock.packages[p] = None \/ lock.packages[p] \in Installed
  /\ state \in {"planned", "installing", "unsealed", "broken", "drifted", "degraded",
               "verified"}
  /\ purpose \in {"first", "second", "live", "health", "afterHealth", "snapshot"}
  /\ meddling \in 0..MaxMeddling

PackagesInit ==
  /\ WheelInit
  /\ phase = "review" /\ tier \in Tiers /\ plan = None
  /\ site = Nothing /\ stray = FALSE /\ reported = Nothing
  /\ seen = None /\ before = None /\ lock = None /\ state = "planned"
  /\ probed = None /\ purpose = "first" /\ bound = None /\ meddling = 0

To(p) == phase' = p

\* An operation that ends badly; what is sealed can be checked again.
Ends(s) == To(IF lock = None THEN "over" ELSE "rest") /\ state' = s

Keep == UNCHANGED <<tier, plan, site, stray, reported, seen, before, lock, state, probed, purpose,
                    bound, meddling>>

-----------------------------------------------------------------------------
(* The review *)

\* _worker_artifact_identity: the wheel's RECORD describes each of its files; the identity is
\* the hash of the whole wheel.
Identity(w) == IF w # None /\ (w.provenance # None => w.sealed) THEN w ELSE None

\* resolve_dependencies: a floor exactly for the sealed tier, a commit at most there, an identified
\* wheel where the recipe pins one; a host may not meet the recipe's floors.
Resolution(worker, askedFloor, askedCommit, fits) ==
  [worker |-> worker,
   floor |-> IF tier = "sealed" THEN askedFloor ELSE None,
   commit |-> IF tier = "sealed" THEN askedCommit ELSE None,
   resolvable |-> /\ fits
                  /\ (askedFloor # None) = (tier = "sealed")
                  /\ askedCommit # None => tier = "sealed"
                  /\ PinsWheel => worker # None]

\* preview: the identified wheel, the host and what the user asks for.
Review ==
  /\ phase = "review" /\ (PinsWheel => at \in {"built", "refused"})
  /\ \E askedFloor \in Commits \cup {None}, askedCommit \in Commits \cup {None}, fits \in BOOLEAN :
       plan' = Resolution(IF PinsWheel THEN Identity(wheel) ELSE None, askedFloor, askedCommit, fits)
  /\ To("confirm")
  /\ UNCHANGED <<wheelVars, tier, site, stray, reported, seen, before, lock, state, probed,
                 purpose, bound, meddling>>

\* _validate_creation: the plan is the reviewed one and may be created; its wheel is still the
\* reviewed one and admissible for its floor and commit.
Confirm ==
  /\ phase = "confirm"
  /\ IF /\ plan.resolvable /\ Creatable
        /\ PinsWheel => /\ Identity(wheel) = plan.worker /\ plan.floor # None
                        /\ Admissible(wheel, beside, plan.floor, plan.commit)
       THEN To("torch") /\ state' = "installing"
       ELSE Ends("planned")
  /\ UNCHANGED <<wheelVars, tier, plan, site, stray, reported, seen, before, lock, probed, purpose,
                 bound, meddling>>

-----------------------------------------------------------------------------
(* The install steps *)

Broken ==
  /\ Ends("broken")
  /\ UNCHANGED <<tier, plan, site, stray, reported, seen, before, lock, probed, purpose, bound,
                 meddling>>

\* The versions pip may pick: the sealed recipes pin each one.
Choosable == IF PinsWheel THEN {"pinned"} ELSE {"pinned", "other"}

\* A step installs packages with their RECORDs; _execute_step takes pip's report, which must exist
\* where the recipe pins a wheel and may not name a package that an earlier step reported.
InstallPackages(packages, contents, version, hasReport, next) ==
  IF \/ ~hasReport /\ PinsWheel
     \/ hasReport /\ \E p \in packages : reported[p] # None
    THEN /\ site' = [p \in Names |-> IF p \in packages THEN Intact(contents[p], version)
                                     ELSE site[p]]
         /\ Ends("broken")
         /\ UNCHANGED reported
    ELSE /\ site' = [p \in Names |-> IF p \in packages THEN Intact(contents[p], version)
                                     ELSE site[p]]
         /\ reported' = [p \in Names |->
                           IF hasReport /\ p \in packages
                             THEN [version |-> version,
                                   artifact |-> IF contents[p] = Of("local") THEN None
                                                ELSE contents[p]]
                             ELSE reported[p]]
         /\ To(next) /\ UNCHANGED state

FromIndex == [p \in Names |-> Of("artifact")]

InstallTorch ==
  /\ phase = "torch"
  /\ \/ \E v \in Choosable, hasReport \in BOOLEAN :
          InstallPackages({"torch"}, FromIndex, v, hasReport, "dep")
        /\ UNCHANGED <<tier, plan, stray, seen, before, lock, probed, purpose, bound,
                       meddling>>
     \/ Broken
  /\ UNCHANGED wheelVars

\* What the remaining dependencies require may make pip install torch again.
InstallDependencies ==
  /\ phase = "dep"
  /\ \E again \in {{}, {"torch"}}, v \in Choosable, hasReport \in BOOLEAN :
       InstallPackages({"dep"} \cup again, FromIndex, v, hasReport, "recheck")
  /\ UNCHANGED <<wheelVars, tier, plan, stray, seen, before, lock, probed, purpose, bound,
                 meddling>>

\* The wheel is compared with the reviewed one just before pip is started.
RecheckWheel ==
  /\ phase = "recheck"
  /\ IF PinsWheel => Identity(wheel) = plan.worker THEN To("worker") /\ Keep ELSE Broken
  /\ UNCHANGED wheelVars

\* pip installs the wheel it finds, or the local source; _assert_worker_install_evidence compares
\* the hash that pip reports before anything installed is started.
WorkerEvidence(w) == w # None /\ Identity(w) = plan.worker

InstallWorker ==
  /\ phase = "worker"
  /\ IF ~PinsWheel
       THEN /\ \E hasReport \in BOOLEAN :
                 InstallPackages({"worker"}, [p \in Names |-> Of("local")], "pinned", hasReport,
                                 "inventory")
            /\ UNCHANGED <<tier, plan, stray, seen, before, lock, probed, purpose, bound,
                           meddling>>
       ELSE IF WorkerEvidence(wheel)
         THEN /\ InstallPackages({"worker"}, [p \in Names |-> wheel.payload], "pinned", TRUE,
                                 "inventory")
              /\ UNCHANGED <<tier, plan, stray, seen, before, lock, probed, purpose, bound,
                             meddling>>
         ELSE Broken
  /\ UNCHANGED wheelVars

-----------------------------------------------------------------------------
(* Inventories *)

\* A package whose files are those that its RECORD describes, row by row.
Verified(i, p) == i[p] # None /\ i[p].bytes = i[p].record

\* The installed worker holds exactly the files of the reviewed wheel, which must still be there
\* to compare with; a live inventory leaves the comparison out once the wheel has changed.
WorkerMatches(i) ==
  (PinsWheel /\ i["worker"] # None) =>
     \/ Identity(wheel) = plan.worker /\ i["worker"].bytes = plan.worker.payload
     \/ purpose \notin {"first", "second"} /\ Identity(wheel) # plan.worker

\* _inventory_from_payload against pip's reports, which only the inventories of a creation are.
ReportsMatch(i) ==
  purpose \in {"first", "second"} =>
     \A p \in Names : reported[p] # None => i[p] # None /\ i[p].version = reported[p].version

\* An inventory that fails breaks the environment; a snapshot only raises.
Unreadable ==
  /\ Ends(IF purpose = "snapshot" THEN state ELSE "broken")
  /\ purpose' = IF lock = None THEN purpose ELSE "health"
  /\ UNCHANGED <<tier, plan, site, stray, reported, seen, before, lock, probed, bound,
                 meddling>>

\* The isolated lock probe reads site-packages without importing it; a file that no RECORD names
\* is refused, and so is an empty directory.
TakeInventory ==
  /\ phase = "inventory"
  /\ IF ~stray /\ site # Nothing /\ WorkerMatches(site) /\ ReportsMatch(site)
       THEN /\ To("framework") /\ seen' = site
            /\ UNCHANGED <<tier, plan, site, stray, reported, before, lock, state, probed, purpose,
                           bound, meddling>>
       ELSE Unreadable
  /\ UNCHANGED wheelVars

\* What a live inventory is compared with, and where it leads.
Drift(i) == i # lock.packages \/ (PinsWheel /\ Identity(wheel) # plan.worker)

After == CASE purpose = "first" -> "complete"
           [] purpose = "second" -> "compare"
           [] purpose = "live" -> "settle"
           [] purpose = "health" -> "health"
           [] purpose = "afterHealth" -> "settle"
           [] purpose = "snapshot" -> "bind"

\* Then torch is imported in a process of its own; its version must be the installed one.
ReadFramework ==
  /\ phase = "framework"
  /\ IF site["torch"] # None /\ seen["torch"] # None
          /\ site["torch"].version = seen["torch"].version
       THEN To(After) /\ UNCHANGED <<state, purpose>>
       ELSE /\ Ends(IF purpose = "snapshot" THEN state ELSE "broken")
            /\ purpose' = IF lock = None THEN purpose ELSE "health"
  /\ UNCHANGED <<wheelVars, tier, plan, site, stray, reported, seen, before, lock, probed, bound,
                 meddling>>

-----------------------------------------------------------------------------
(* The creation, sealed *)

\* Before anything else is imported, where the recipe pins a wheel, every package must verify.
CheckComplete ==
  /\ phase = "complete"
  /\ IF PinsWheel => \A p \in Names : seen[p] # None => Verified(seen, p)
       THEN /\ To("probe") /\ before' = seen
            /\ UNCHANGED <<tier, plan, site, stray, reported, seen, lock, state, probed, purpose,
                           bound, meddling>>
       ELSE Broken
  /\ UNCHANGED wheelVars

\* The probes import what is there: they pass and a second inventory follows, or they do not and
\* nothing is sealed.
ProbeCreated ==
  /\ phase = "probe"
  /\ probed' = site
  /\ \/ To("inventory") /\ purpose' = "second" /\ UNCHANGED state
     \/ Ends("unsealed") /\ UNCHANGED purpose
  /\ UNCHANGED <<wheelVars, tier, plan, site, stray, reported, seen, before, lock, bound,
                 meddling>>

\* Mutant: the packages are compared by name and version, as the environment signature does.
SameVersions(i, j) ==
  \A p \in Names : /\ (i[p] = None) = (j[p] = None)
                   /\ i[p] # None => i[p].version = j[p].version

\* _package_drift between the two inventories.
SamePackages(i, j) == i = j

ComparePackages ==
  /\ phase = "compare"
  /\ IF SamePackages(before, seen)
       THEN To("seal") /\ Keep
       ELSE /\ Ends("drifted")
            /\ UNCHANGED <<tier, plan, site, stray, reported, seen, before, lock, probed, purpose,
                           bound, meddling>>
  /\ UNCHANGED wheelVars

\* _finalize_lock: every package verifies; for a sealed recipe the versions are the pinned ones
\* and those the probe saw, and the worker is the reviewed wheel.
Finalizable ==
  /\ \A p \in Names : seen[p] # None => Verified(seen, p)
  /\ tier = "sealed" =>
       /\ \A p \in Names : seen[p] # None /\ seen[p].version = "pinned"
       /\ \A p \in Names : probed[p] # None /\ probed[p].version = seen[p].version
       /\ reported["worker"] # None /\ reported["worker"].artifact = plan.worker.payload

SealLock ==
  /\ phase = "seal"
  /\ IF Finalizable
       THEN /\ lock' = [packages |-> seen, worker |-> plan.worker, floor |-> plan.floor,
                        commit |-> plan.commit]
            /\ To("inventory") /\ purpose' = "live"
            /\ UNCHANGED <<tier, plan, site, stray, reported, seen, before, state, probed, bound,
                           meddling>>
       ELSE Broken
  /\ UNCHANGED wheelVars

\* The verdict of the inventory just taken, with the new lock or after the probes of a check,
\* which may have failed.
Settle ==
  /\ phase = "settle"
  /\ IF Drift(seen) THEN state' = "drifted"
       ELSE state' \in IF purpose = "live" THEN {"verified"} ELSE {"verified", "degraded"}
  /\ To("rest")
  /\ UNCHANGED <<wheelVars, tier, plan, site, stray, reported, seen, before, lock, probed, purpose,
                 bound, meddling>>

-----------------------------------------------------------------------------
(* Later checks *)

\* env-health or env-probe, and the capability snapshot of a verified environment.
StartHealth ==
  /\ phase = "rest"
  /\ To("inventory") /\ purpose' = "health"
  /\ UNCHANGED <<wheelVars, tier, plan, site, stray, reported, seen, before, lock, state, probed,
                 bound, meddling>>

\* A drifted environment is not probed; else the probes run and a second inventory follows.
HealthProbes ==
  /\ phase = "health"
  /\ \/ /\ Drift(seen)
        /\ To("rest") /\ state' = "drifted" /\ UNCHANGED <<probed, purpose>>
     \/ /\ ~Drift(seen)
        /\ probed' = site /\ UNCHANGED state
        /\ To("inventory") /\ purpose' = "afterHealth"
  /\ bound' = None
  /\ UNCHANGED <<wheelVars, tier, plan, site, stray, reported, seen, before, lock,
                 meddling>>

\* capability_snapshot: the health just recorded is a verified one; the capability probes import
\* what is there.
Snapshot ==
  /\ phase = "rest" /\ purpose = "afterHealth" /\ state = "verified"
  /\ probed' = site
  /\ To("inventory") /\ purpose' = "snapshot" /\ bound' = None
  /\ UNCHANGED <<wheelVars, tier, plan, site, stray, reported, seen, before, lock, state,
                 meddling>>

\* _bind_capability_package_integrity: each profiled package is the locked one by name and version
\* and has all of its evidence; one that is absent stays so.
Bindable(p) ==
  probed[p] # None =>
     /\ lock.packages[p] # None /\ lock.packages[p].version = probed[p].version
     /\ Verified(lock.packages, p)
     /\ reported[p] # None /\ reported[p].artifact # None

Bind ==
  /\ phase = "bind"
  /\ To("rest") /\ purpose' = "health"
  /\ bound' = IF ~Drift(seen) /\ \A p \in Profiled : Bindable(p)
                THEN [p \in Profiled |-> IF probed[p] # None THEN lock.packages[p] ELSE None]
                ELSE None
  /\ UNCHANGED <<wheelVars, tier, plan, site, stray, reported, seen, before, lock, state, probed,
                 meddling>>

Managing ==
  \/ Review \/ Confirm \/ InstallTorch \/ InstallDependencies \/ RecheckWheel \/ InstallWorker
  \/ TakeInventory \/ ReadFramework \/ CheckComplete \/ ProbeCreated \/ ComparePackages
  \/ SealLock \/ Settle \/ StartHealth \/ HealthProbes \/ Snapshot \/ Bind

-----------------------------------------------------------------------------
(* Others at work on the wheel and in the environment *)

Meddle ==
  /\ meddling < MaxMeddling /\ meddling' = meddling + 1
  /\ UNCHANGED <<head, tree, untracked, at, floor, claimed, built, beside, moves, phase, tier, plan,
                 reported, seen, before, lock, state, probed, purpose, bound>>

\* The same files with another provenance.
Claiming(c, f, s) == [wheel EXCEPT !.provenance = [commit |-> c, floor |-> f], !.sealed = s]

\* The wheel goes, or another lies in its place: with other files, with another provenance, or
\* with one that its RECORD does not name.
OtherWheels ==
  {None} \cup
  IF wheel = None THEN {}
  ELSE {[wheel EXCEPT !.payload = Altered[meddling + 1]],
        [wheel EXCEPT !.provenance = None, !.sealed = FALSE]}
       \cup {Claiming(c, f, s) : c \in Commits, f \in Commits, s \in BOOLEAN}

SwapWheel == Meddle /\ wheel' \in OtherWheels \ {wheel} /\ UNCHANGED <<site, stray>>

\* An installed package is altered, with or without its RECORD, becomes another version, or goes.
Alter(p) ==
  /\ site[p] # None
  /\ LET new == Altered[meddling + 1]
     IN site' \in {[site EXCEPT ![p] = [@ EXCEPT !.bytes = new]],
                   [site EXCEPT ![p] = Intact(new, site[p].version)],
                   [site EXCEPT ![p] = Intact(new, "other")],
                   [site EXCEPT ![p] = None]}
  /\ Meddle /\ UNCHANGED <<wheel, stray>>

\* A file that no RECORD names appears, a compiled cache for one.
Litter == Meddle /\ ~stray /\ stray' = TRUE /\ UNCHANGED <<wheel, site>>

Meddling ==
  /\ phase \notin {"review", "over"}
  /\ SwapWheel \/ Litter \/ \E p \in Names : Alter(p)

PackagesNext ==
  \/ (Building \/ Elsewhere) /\ phase = "review" /\ PinsWheel /\ UNCHANGED packageVars
  \/ Managing
  \/ Meddling

\* Nothing is done with what was never created.
PackagesOver == phase = "over"

-----------------------------------------------------------------------------
(* Properties *)

\* A sealed research lock tells what was reviewed: the worker's files are those of the reviewed
\* wheel, which names the reviewed floor and commit, and every version is the pinned one.  If the
\* wheel is one that the builder made, the commit in the lock descends from the floor in the lock,
\* although no repository was there when it was sealed (_validate_creation: equality at admission,
\* ancestry at the build).
\* What is sealed is what the probes ran: while others change files without ever changing them
\* back, the lock describes, complete, the files that the creation probes imported, and a managed
\* capability report is bound to the files that the capability probes imported
\* (_create_unlocked: the inventories before and after; _capability_snapshot_unlocked).
SealIsTrue ==
  /\ (lock # None /\ tier = "sealed") =>
       /\ \A p \in Names : lock.packages[p] # None /\ lock.packages[p].version = "pinned"
       /\ lock.packages["worker"].bytes = lock.worker.payload
       /\ lock.worker.provenance.floor = lock.floor
       /\ lock.commit \in {None, lock.worker.provenance.commit}
       /\ lock.worker.provenance = [commit |-> claimed, floor |-> floor] =>
            lock.floor \in Ancestors[claimed]
  /\ (phase = "settle" /\ purpose = "live") => lock.packages = probed
  /\ bound # None => \A p \in Profiled : bound[p] = probed[p]

=============================================================================
